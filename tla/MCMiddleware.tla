---------------------------- MODULE MCMiddleware ----------------------------
(***************************************************************************)
(* TLC instances of Middleware.                                            *)
(***************************************************************************)
EXTENDS Middleware, TLC

GoroutineSymmetry == Permutations(Goroutines)
=============================================================================
