---------------------------- MODULE SlidingWindow ----------------------------
(***************************************************************************)
(* The sliding window counter of the in-memory backend                     *)
(* (middleware/storage/memory/store.go, SlidingWindow): the admission      *)
(* times still inside the window, trimmed and appended to under a mutex.   *)
(* The clock is monotonic and read inside the critical section, so what a   *)
(* call sees of time is the reading it begins with; the rest of Allow is   *)
(* one action.  Module SearchedWindow takes it apart.  Go's slice          *)
(* reallocation has no effect on the contents and is left out.             *)
(***************************************************************************)
EXTENDS WindowParameters, Sequences

VARIABLES
  now,       \* the clock as the last call read it
  requests,  \* SlidingWindow.Requests: admission times, oldest first
  outcome,   \* what the last Allow since that reading returned
  granted    \* history: every admission time ever, oldest first

vars == <<now, requests, outcome, granted>>

\* The number of leading times of s that are not after the cutoff: what
\* findFirstValid returns for a sorted s (module FindFirstValid).
FirstValid(s, cutoff) ==
  CHOOSE n \in 0..Len(s) :
    /\ \A i \in 1..n : s[i] <= cutoff
    /\ n < Len(s) => s[n + 1] > cutoff

\* The requests that are still inside the window at the present time.
Valid == SubSeq(requests, FirstValid(requests, now - WindowSize) + 1,
                Len(requests))

Init ==
  /\ now = 0
  /\ requests = << >>
  /\ outcome = "none"
  /\ granted = << >>

Allow ==
  /\ IF Len(Valid) >= Limit
     THEN /\ requests' = Valid
          /\ outcome' = "denied"
          /\ UNCHANGED granted
     ELSE /\ requests' = Append(Valid, now)
          /\ outcome' = "granted"
          /\ granted' = Append(granted, now)
  /\ UNCHANGED now

\* now := time.Now()
ReadClock ==
  /\ now' \in now..MaxTime
  /\ outcome' = "none"
  /\ UNCHANGED <<requests, granted>>

Next == Allow \/ ReadClock

Spec == Init /\ [][Next]_vars

\* What Count returns.
Count == Len(requests) - FirstValid(requests, now - WindowSize)

-----------------------------------------------------------------------------
TypeOK ==
  /\ now \in 0..MaxTime
  /\ requests \in Seq(0..MaxTime)
  /\ outcome \in {"none", "granted", "denied"}
  /\ granted \in Seq(0..MaxTime)

\* The rate limit itself, in every window wherever it starts and not only in
\* the ones Allow looked at: two admissions with Limit - 1 others between them
\* are at least a window apart.
RateLimited ==
  \A i \in 1..(Len(granted) - Limit) :
    granted[i + Limit] - granted[i] >= WindowSize

\* The other half: a request is denied only if Limit admissions are inside the
\* window that ends now, so trimming never leaves an expired request behind.
DeniedOnlyWhenFull ==
  outcome = "denied" =>
    /\ Len(granted) >= Limit
    /\ Limit > 0 => granted[Len(granted) - Limit + 1] > now - WindowSize

\* Trimming drops expired admissions only: what is kept is the tail of the
\* history and everything before it has left the window.
Dropped == Len(granted) - Len(requests)

KeepsTail ==
  /\ Dropped >= 0
  /\ \A i \in 1..Len(requests) : requests[i] = granted[Dropped + i]
  /\ \A i \in 1..Dropped : granted[i] <= now - WindowSize

Sorted ==
  /\ \A i, j \in 1..Len(granted) : i <= j => granted[i] <= granted[j]
  /\ \A i \in 1..Len(granted) : granted[i] <= now

WithinLimit == Len(requests) <= Limit

IInv == /\ TypeOK /\ KeepsTail /\ Sorted /\ WithinLimit
        /\ RateLimited /\ DeniedOnlyWhenFull
=============================================================================
