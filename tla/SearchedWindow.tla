--------------------------- MODULE SearchedWindow ---------------------------
(***************************************************************************)
(* The sliding window counter of the in-memory backend, step by step       *)
(* (middleware/storage/memory/store.go, SlidingWindow.Allow and Count):    *)
(* the lock, the reading of the clock, every pass of the binary search of  *)
(* module FindFirstValid over the slice as it is, and the trimming and     *)
(* appending its result is used for.  Time passes between any two steps.   *)
(* It is shown to implement module SlidingWindow.                          *)
(***************************************************************************)
EXTENDS WindowParameters, Sequences, FiniteSets

VARIABLES
  time,         \* the monotonic clock
  requests,     \* SlidingWindow.Requests
  granted,      \* history: every admission time ever, oldest first
  now,          \* the clock as the present, or the last, call read it
  call,         \* the call that holds sw.mu: "Allow", "Count", or "none"
  left, right,  \* the variables of its search
  pc,           \* where its search is
  outcome,      \* what the last Allow returned; "none" from the next call on
  counted       \* what the last Count returned; NoCount from the next call on

vars == <<time, requests, granted, now, call, left, right, pc, outcome, counted>>

NoCount == -1

cutoff == now - WindowSize

Search == INSTANCE FindFirstValid

Window == INSTANCE SlidingWindow

Init ==
  /\ time = 0 /\ now = 0
  /\ requests = << >> /\ granted = << >>
  /\ call = "none" /\ outcome = "none" /\ counted = NoCount
  /\ left = 0 /\ right = 0 /\ pc = "done"

\* Mutant: the clock is read before the lock is taken, and is stale by now.
BeginStale(c) ==
  /\ call = "none"
  /\ call' = c
  /\ now' \in 0..time
  /\ left' = 0 /\ right' = Len(requests)
  /\ pc' = "entry"
  /\ outcome' = "none" /\ counted' = NoCount
  /\ UNCHANGED <<time, requests, granted>>

\* sw.mu.Lock(), now := time.Now()
Begin(c) ==
  /\ call = "none"
  /\ call' = c
  /\ now' = time
  /\ left' = 0 /\ right' = Len(requests)
  /\ pc' = "entry"
  /\ outcome' = "none" /\ counted' = NoCount
  /\ UNCHANGED <<time, requests, granted>>

\* One step of findFirstValid.
SearchStep ==
  /\ call # "none"
  /\ UNCHANGED <<time, granted, now, call, outcome, counted>>
  /\ Search!Next

\* sw.Requests[validIdx:]
Kept == SubSeq(requests, left + 1, Len(requests))

Deny ==
  /\ call = "Allow" /\ pc = "done"
  /\ Len(Kept) >= Limit
  /\ requests' = Kept
  /\ outcome' = "denied"
  /\ call' = "none"
  /\ UNCHANGED <<time, granted, now, left, right, pc, counted>>

\* Mutant: the limit is compared with > instead of >=.
GrantOneMore ==
  /\ call = "Allow" /\ pc = "done"
  /\ Len(Kept) <= Limit
  /\ requests' = Append(Kept, now)
  /\ granted' = Append(granted, now)
  /\ outcome' = "granted"
  /\ call' = "none"
  /\ UNCHANGED <<time, now, left, right, pc, counted>>

Grant ==
  /\ call = "Allow" /\ pc = "done"
  /\ Len(Kept) < Limit
  /\ requests' = Append(Kept, now)
  /\ granted' = Append(granted, now)
  /\ outcome' = "granted"
  /\ call' = "none"
  /\ UNCHANGED <<time, now, left, right, pc, counted>>

\* Mutant: requests that have left the window are counted.
ReturnCountAll ==
  /\ call = "Count" /\ pc = "done"
  /\ counted' = Len(requests)
  /\ call' = "none"
  /\ UNCHANGED <<time, requests, granted, now, left, right, pc, outcome>>

ReturnCount ==
  /\ call = "Count" /\ pc = "done"
  /\ counted' = Len(requests) - left
  /\ call' = "none"
  /\ UNCHANGED <<time, requests, granted, now, left, right, pc, outcome>>

Tick ==
  /\ time < MaxTime
  /\ time' = time + 1
  /\ UNCHANGED <<requests, granted, now, call, left, right, pc, outcome, counted>>

Finish == SearchStep \/ Deny \/ Grant \/ ReturnCount

Next == (\E c \in {"Allow", "Count"} : Begin(c)) \/ Finish \/ Tick

\* A goroutine that holds the mutex runs: nothing in the critical section waits.
Spec == Init /\ [][Next]_vars /\ WF_vars(Finish)

-----------------------------------------------------------------------------
TypeOK ==
  /\ time \in 0..MaxTime
  /\ call \in {"none", "Allow", "Count"}
  /\ counted \in Nat \cup {NoCount}
  /\ now <= time
  /\ Window!TypeOK

\* The search returns the boundary between the requests that have left the
\* window and those that have not, whatever slice earlier calls have left.
Splits == call # "none" => Search!Splits

\* No window of WindowSize ticks, wherever it starts, holds more than Limit
\* admissions, however long the calls take.
RateLimited == Window!RateLimited

\* Allow denies only if Limit admissions are inside the window that ends when
\* the call read the clock.
DeniedOnlyWhenFull == Window!DeniedOnlyWhenFull

\* Count, which does not trim, returns the number of all admissions that are
\* inside the window that ends when it read the clock, also of those that
\* other calls have trimmed by then.
CountExact ==
  counted # NoCount =>
    counted = Cardinality({i \in DOMAIN granted : granted[i] > cutoff})

\* Every call gives the mutex back.
Terminates == call # "none" ~> call = "none"

\* The calls implement the window of module SlidingWindow, in which a call is
\* a reading of the clock and one step.
ImplementsSlidingWindow == Window!Spec
=============================================================================
