-------------------------- MODULE WindowParameters --------------------------
(***************************************************************************)
(* The parameters of a sliding window (middleware/storage/memory/store.go, *)
(* NewSlidingWindow), and the bound on the clock.                          *)
(***************************************************************************)
EXTENDS Integers

CONSTANTS
  Limit,       \* admissions allowed in a window
  WindowSize,  \* length of the window, in ticks
  MaxTime      \* bound on the clock

ASSUME LimitAssumption == Limit \in Nat
ASSUME WindowAssumption == WindowSize \in Nat \ {0}
ASSUME MaxTimeAssumption == MaxTime \in Nat
=============================================================================
