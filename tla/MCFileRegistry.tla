--------------------------- MODULE MCFileRegistry ---------------------------
(***************************************************************************)
(* TLC instances of FileRegistry.                                          *)
(***************************************************************************)
EXTENDS FileRegistry, TLC

CONSTANTS a1, a2, e1

AllOps == Changing \cup {"import", "reload", "close"}

GoroutineSymmetry == Permutations(Goroutines)
=============================================================================
