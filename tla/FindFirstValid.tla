--------------------------- MODULE FindFirstValid ---------------------------
(***************************************************************************)
(* The binary search of the sliding window                                 *)
(* (middleware/storage/memory/store.go, findFirstValid), one loop pass per *)
(* action, from any sorted slice and any cutoff.  Indices are the code's,  *)
(* from zero.  Module SearchedWindow runs it on the slices that occur.     *)
(***************************************************************************)
EXTENDS Integers, Sequences

IsSorted(s) == \A i, j \in 1..Len(s) : i <= j => s[i] <= s[j]

VARIABLES
  requests,     \* sw.Requests
  cutoff,       \* the parameter
  left, right,  \* the loop's variables
  pc            \* "entry", "loop" or "done"; the result is left

vars == <<requests, cutoff, left, right, pc>>

\* sw.Requests[i]
At(i) == requests[i + 1]

Init ==
  /\ requests \in Seq(Int)
  /\ IsSorted(requests)
  /\ cutoff \in Int
  /\ left = 0
  /\ right = Len(requests)
  /\ pc = "entry"

\* Mutant: only the newest request is looked at.
AllValidNewest == Len(requests) > 0 /\ At(Len(requests) - 1) > cutoff

\* The shortcut: the newest and the oldest request are both inside the window.
AllValid ==
  /\ \/ Len(requests) = 0
     \/ At(Len(requests) - 1) > cutoff
  /\ Len(requests) > 0
  /\ At(0) > cutoff

Enter ==
  /\ pc = "entry"
  /\ pc' = IF AllValid THEN "done" ELSE "loop"
  /\ UNCHANGED <<requests, cutoff, left, right>>

\* Mutant: a request exactly at the cutoff is taken for valid.
HalveStrict ==
  /\ pc = "loop"
  /\ left < right
  /\ LET mid == (left + right) \div 2
     IN  IF At(mid) < cutoff
         THEN left' = mid + 1 /\ UNCHANGED right
         ELSE right' = mid /\ UNCHANGED left
  /\ UNCHANGED <<requests, cutoff, pc>>

\* Mutant: the middle is not skipped.
HalveStuck ==
  /\ pc = "loop"
  /\ left < right
  /\ LET mid == (left + right) \div 2
     IN  IF At(mid) <= cutoff
         THEN left' = mid /\ UNCHANGED right
         ELSE right' = mid /\ UNCHANGED left
  /\ UNCHANGED <<requests, cutoff, pc>>

Halve ==
  /\ pc = "loop"
  /\ left < right
  /\ LET mid == (left + right) \div 2
     IN  IF At(mid) <= cutoff
         THEN left' = mid + 1 /\ UNCHANGED right
         ELSE right' = mid /\ UNCHANGED left
  /\ UNCHANGED <<requests, cutoff, pc>>

Return ==
  /\ pc = "loop"
  /\ left >= right
  /\ pc' = "done"
  /\ UNCHANGED <<requests, cutoff, left, right>>

Next == Enter \/ Halve \/ Return

Spec == Init /\ [][Next]_vars

-----------------------------------------------------------------------------
TypeOK ==
  /\ requests \in Seq(Int)
  /\ IsSorted(requests)
  /\ cutoff \in Int
  /\ left \in 0..Len(requests)
  /\ right \in 0..Len(requests)
  /\ left <= right
  /\ pc \in {"entry", "loop", "done"}

\* What the callers rely on: the returned index splits the requests into those
\* that have left the window and those that have not.
Splits ==
  pc = "done" =>
    /\ \A i \in 0..(left - 1) : At(i) <= cutoff
    /\ \A i \in left..(Len(requests) - 1) : At(i) > cutoff

\* The loop invariant: the split point is between left and right.
Bracketed ==
  /\ \A i \in 0..(left - 1) : At(i) <= cutoff
  /\ pc = "entry" => left = 0
  /\ pc \in {"entry", "loop"} =>
       \A i \in right..(Len(requests) - 1) : At(i) > cutoff

IInv == TypeOK /\ Bracketed /\ Splits
=============================================================================
