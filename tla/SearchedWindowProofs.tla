------------------------ MODULE SearchedWindowProofs ------------------------
(***************************************************************************)
(* The sliding window admits no more than it may and denies nothing early  *)
(* (module SlidingWindow, whose definitions are Window!...); its search    *)
(* finds the boundary; the stepwise window implements it and inherits what *)
(* is proved of it; and Count counts every admission in the window.  For   *)
(* every limit, window size and clock.                                     *)
(*                                                                         *)
(* The second half is about the other data structure of the in-memory      *)
(* backend, the LRU cache of module LRUList: its map and its linked list   *)
(* implement module LRUCache, for every capacity, set of keys and set of   *)
(* entries.                                                                *)
(***************************************************************************)
EXTENDS SearchedWindow, LRUList, SequenceTheorems, FiniteSetTheorems, TLAPS

Typed ==
  /\ time \in 0..MaxTime
  /\ now \in 0..MaxTime
  /\ now <= time
  /\ requests \in Seq(0..MaxTime)
  /\ call \in {"none", "Allow", "Count"}

\* The slice is sorted, and older than the last reading of the clock.
InOrder ==
  /\ \A i, j \in 1..Len(requests) : i <= j => requests[i] <= requests[j]
  /\ \A i \in 1..Len(requests) : requests[i] <= now

IInv == /\ Typed
        /\ InOrder
        /\ call # "none" => Search!IInv

-----------------------------------------------------------------------------
(* The binary search, from any sorted slice and any cutoff.                *)

LEMMA SearchInput ==
  ASSUME requests \in Seq(Int), Search!IsSorted(requests), cutoff \in Int
  PROVE  /\ requests \in Seq(Int) /\ cutoff \in Int
         /\ Len(requests) \in Nat
         /\ \A i \in 0..(Len(requests) - 1) : Search!At(i) \in Int
         /\ \A i, j \in 0..(Len(requests) - 1) :
              i <= j => Search!At(i) <= Search!At(j)
<1>2. ASSUME NEW i \in 0..(Len(requests) - 1) PROVE i + 1 \in 1..Len(requests)
  OBVIOUS
<1>3. \A i \in 0..(Len(requests) - 1) : Search!At(i) \in Int
  BY <1>2 DEF Search!At
<1>4. \A i, j \in 0..(Len(requests) - 1) : i <= j => Search!At(i) <= Search!At(j)
  BY <1>2 DEF Search!At, Search!IsSorted
<1> QED BY <1>3, <1>4

LEMMA SearchStarts == Search!Init => Search!IInv
<1> SUFFICES ASSUME Search!Init PROVE Search!IInv OBVIOUS
<1>1. Len(requests) \in Nat BY SearchInput DEF Search!Init
<1>2. Search!TypeOK BY <1>1 DEF Search!Init, Search!TypeOK
<1>3. Search!Bracketed BY <1>1 DEF Search!Init, Search!Bracketed
<1> QED BY <1>2, <1>3 DEF Search!IInv, Search!Init, Search!Splits

LEMMA EnterStep == ASSUME Search!IInv, Search!Enter PROVE Search!IInv'
<1> USE DEF Search!IInv, Search!TypeOK, Search!Enter
<1>0. UNCHANGED <<requests, cutoff, left, right>> /\ pc = "entry" OBVIOUS
<1>1. Search!TypeOK' OBVIOUS
<1>2. Search!Bracketed' BY DEF Search!Bracketed, Search!At
<1>3. Search!Splits'
  <2>1. CASE Search!AllValid
    \* The oldest request is inside the window, hence every request is.
    <3>1. left = 0 BY <1>0 DEF Search!Bracketed
    <3> SUFFICES ASSUME NEW i \in 0..(Len(requests) - 1)
                 PROVE  Search!At(i) > cutoff
      BY <1>0, <3>1 DEF Search!Splits, Search!At
    <3>2. Search!At(0) > cutoff /\ 0 \in 0..(Len(requests) - 1)
      BY <2>1, SearchInput DEF Search!AllValid
    <3>3. /\ Search!At(0) <= Search!At(i)
          /\ Search!At(0) \in Int /\ Search!At(i) \in Int
      BY <3>2, SearchInput
    <3> QED BY <3>2, <3>3, SearchInput
  <2>2. CASE ~Search!AllValid BY <2>2 DEF Search!Splits
  <2> QED BY <2>1, <2>2
<1> QED BY <1>1, <1>2, <1>3

LEMMA HalveStep == ASSUME Search!IInv, Search!Halve PROVE Search!IInv'
<1> DEFINE mid == (left + right) \div 2
<1>0. /\ UNCHANGED <<requests, cutoff, pc>> /\ pc = "loop" /\ left < right
      /\ left \in 0..Len(requests) /\ right \in 0..Len(requests)
      /\ requests \in Seq(Int) /\ Search!IsSorted(requests) /\ cutoff \in Int
      /\ \A i \in 0..(left - 1) : Search!At(i) <= cutoff
      /\ \A i \in right..(Len(requests) - 1) : Search!At(i) > cutoff
  BY DEF Search!IInv, Search!TypeOK, Search!Halve, Search!Bracketed
<1>1. /\ cutoff \in Int /\ Len(requests) \in Nat
      /\ \A i \in 0..(Len(requests) - 1) : Search!At(i) \in Int
      /\ \A i, j \in 0..(Len(requests) - 1) : i <= j => Search!At(i) <= Search!At(j)
  BY <1>0, SearchInput
<1>2. mid \in left..(right - 1) /\ mid \in 0..(Len(requests) - 1)
  BY <1>0, <1>1
<1>3. IF Search!At(mid) <= cutoff THEN left' = mid + 1 /\ right' = right
                           ELSE right' = mid /\ left' = left
  BY DEF Search!Halve
<1> HIDE DEF mid
<1>4. Search!TypeOK' BY <1>0, <1>1, <1>2, <1>3 DEF Search!IInv, Search!TypeOK
<1>5. Search!Splits' BY <1>0 DEF Search!Splits
<1>6. Search!Bracketed'
  <2>1. CASE Search!At(mid) <= cutoff
    <3>1. ASSUME NEW i \in 0..mid PROVE Search!At(i) <= cutoff
      <4>1. i \in 0..(Len(requests) - 1) /\ i <= mid BY <1>1, <1>2
      <4>2. /\ Search!At(i) <= Search!At(mid)
            /\ Search!At(i) \in Int /\ Search!At(mid) \in Int
        BY <1>1, <1>2, <4>1
      <4> QED BY <1>1, <2>1, <4>2
    <3> QED BY <1>0, <1>1, <1>2, <1>3, <2>1, <3>1 DEF Search!Bracketed, Search!At
  <2>2. CASE ~(Search!At(mid) <= cutoff)
    <3>1. ASSUME NEW i \in mid..(Len(requests) - 1) PROVE Search!At(i) > cutoff
      <4>1. i \in 0..(Len(requests) - 1) /\ mid <= i BY <1>1, <1>2
      <4>2. /\ Search!At(mid) <= Search!At(i)
            /\ Search!At(i) \in Int /\ Search!At(mid) \in Int
        BY <1>1, <1>2, <4>1
      <4> QED BY <1>1, <2>2, <4>2
    <3> QED BY <1>0, <1>1, <1>2, <1>3, <2>2, <3>1 DEF Search!Bracketed, Search!At
  <2> QED BY <2>1, <2>2
<1> QED BY <1>4, <1>5, <1>6 DEF Search!IInv

LEMMA ReturnStep == ASSUME Search!IInv, Search!Return PROVE Search!IInv'
<1> USE DEF Search!IInv, Search!TypeOK, Search!Return
<1>1. Search!TypeOK' OBVIOUS
<1>2. Search!Bracketed' BY DEF Search!Bracketed, Search!At
<1>3. Search!Splits'
  <2>1. left = right /\ Len(requests) \in Nat BY SearchInput
  <2> QED BY <2>1 DEF Search!Bracketed, Search!Splits, Search!At
<1> QED BY <1>1, <1>2, <1>3

LEMMA SearchKeeps == Search!IInv /\ [Search!Next]_(Search!vars) => Search!IInv'
<1> SUFFICES ASSUME Search!IInv, [Search!Next]_(Search!vars)
             PROVE  Search!IInv'
  OBVIOUS
<1>1. CASE Search!Enter BY <1>1, EnterStep
<1>2. CASE Search!Halve BY <1>2, HalveStep
<1>3. CASE Search!Return BY <1>3, ReturnStep
<1>4. CASE UNCHANGED Search!vars
  BY <1>4 DEF Search!vars, Search!IInv, Search!TypeOK, Search!Bracketed,
              Search!Splits, Search!At
<1> QED BY <1>1, <1>2, <1>3, <1>4 DEF Search!Next

\* findFirstValid is right for every sorted slice: everything before the
\* returned index has left the window, everything from it on has not.
THEOREM SearchCorrect == Search!Spec => []Search!Splits
<1>1. Search!IInv => Search!Splits BY DEF Search!IInv
<1> QED BY SearchStarts, SearchKeeps, <1>1, PTL DEF Search!Spec

-----------------------------------------------------------------------------
(* The window as module SlidingWindow has it: a call is one step.          *)

\* A nonempty set of naturals has a least element.
LEMMA LeastElement ==
  ASSUME NEW T \in SUBSET Nat, T # {}
  PROVE  \E m \in T : \A n \in T : ~(n < m)
<1> DEFINE R == OpToRel(<, Nat)
<1>1. IsWellFoundedOn(R, Nat) BY NatLessThanWellFounded
<1>2. \A m, n \in Nat : n < m => <<n, m>> \in R BY DEF OpToRel
<1> HIDE DEF R
<1>3. \E m \in T : \A n \in T : ~(<<n, m>> \in R) BY <1>1, WFMin
<1> QED BY <1>2, <1>3

\* For a sorted sequence, FirstValid splits it at the cutoff.
LEMMA FirstValidSplits ==
  ASSUME NEW s \in Seq(Int), NEW c \in Int,
         \A i, j \in 1..Len(s) : i <= j => s[i] <= s[j]
  PROVE  /\ Window!FirstValid(s, c) \in 0..Len(s)
         /\ \A i \in 1..Len(s) : i <= Window!FirstValid(s, c) <=> s[i] <= c
<1> DEFINE P(n) == /\ \A i \in 1..n : s[i] <= c
                   /\ n < Len(s) => s[n + 1] > c
           T == {n \in 0..Len(s) : n < Len(s) => s[n + 1] > c}
           fv == Window!FirstValid(s, c)
<1>1. \E n \in 0..Len(s) : P(n)
  <2>1. Len(s) \in T /\ T \in SUBSET Nat OBVIOUS
  <2>2. PICK m \in T : \A n \in T : ~(n < m) BY <2>1, LeastElement
  <2>3. ASSUME NEW i \in 1..m PROVE s[i] <= c
    <3>1. i - 1 \in 0..Len(s) /\ i - 1 < m /\ i \in 1..Len(s) OBVIOUS
    <3>2. i - 1 \notin T BY <2>2, <3>1
    <3>3. s[i] \in Int BY <3>1
    <3>4. i - 1 < Len(s) /\ ~(s[(i - 1) + 1] > c) BY <3>1, <3>2
    <3> QED BY <3>1, <3>3, <3>4
  <2> QED BY <2>2, <2>3
<1>2. fv = CHOOSE n \in 0..Len(s) : P(n) BY DEF Window!FirstValid
<1>3. fv \in 0..Len(s) /\ P(fv)
  <2> HIDE DEF P, fv
  <2> QED BY <1>1, <1>2
<1>4. ASSUME NEW i \in 1..Len(s), i > fv PROVE s[i] > c
  <2>1. fv + 1 \in 1..Len(s) /\ fv + 1 <= i BY <1>3, <1>4
  <2>2. s[fv + 1] \in Int /\ s[i] \in Int BY <2>1
  <2>3. s[fv + 1] <= s[i] BY <2>1
  <2>4. s[fv + 1] > c BY <1>3, <2>1
  <2> QED BY <2>2, <2>3, <2>4
<1>5. ASSUME NEW i \in 1..Len(s), i <= fv PROVE s[i] <= c
  BY <1>3, <1>5
<1> HIDE DEF P, fv
<1>6. \A i \in 1..Len(s) : s[i] \in Int OBVIOUS
<1> QED BY <1>3, <1>4, <1>5, <1>6 DEF fv

-----------------------------------------------------------------------------
\* What trimming keeps: the tail of the history that is inside the window.
LEMMA ValidTail ==
  ASSUME Window!IInv
  PROVE  /\ Window!Valid \in Seq(0..MaxTime)
         /\ Len(Window!Valid) <= Len(requests)
         /\ \A i \in 1..Len(Window!Valid) :
              /\ Window!Valid[i] = granted[Len(granted) - Len(Window!Valid) + i]
              /\ Window!Valid[i] > now - WindowSize
         /\ \A i \in 1..(Len(granted) - Len(Window!Valid)) :
              granted[i] <= now - WindowSize
<1> DEFINE n == Window!FirstValid(requests, cutoff)
<1> USE DEF Window!IInv, Window!TypeOK, Window!KeepsTail, Window!Dropped, cutoff
<1>1. requests \in Seq(Int) /\ cutoff \in Int
  BY WindowAssumption, MaxTimeAssumption
<1>2. \A i, j \in 1..Len(requests) : i <= j => requests[i] <= requests[j]
  <2> SUFFICES ASSUME NEW i \in 1..Len(requests), NEW j \in 1..Len(requests),
                      i <= j
               PROVE  requests[i] <= requests[j]
    OBVIOUS
  <2>1. /\ Window!Dropped + i \in 1..Len(granted)
        /\ Window!Dropped + j \in 1..Len(granted)
        /\ Window!Dropped + i <= Window!Dropped + j
    OBVIOUS
  <2> QED BY <2>1 DEF Window!Sorted
<1>3. /\ n \in 0..Len(requests)
      /\ \A i \in 1..Len(requests) : i <= n <=> requests[i] <= cutoff
  BY <1>1, <1>2, FirstValidSplits
<1> HIDE DEF n
<1>4. Window!Valid = SubSeq(requests, n + 1, Len(requests))
  BY DEF Window!Valid, n
<1>5. /\ Window!Valid \in Seq(0..MaxTime)
      /\ Len(Window!Valid) = Len(requests) - n
      /\ \A i \in 1..Len(Window!Valid) : Window!Valid[i] = requests[n + i]
  <2>1. \A i \in (n + 1)..Len(requests) : requests[i] \in 0..MaxTime
    <3>1. \A i \in (n + 1)..Len(requests) : i \in 1..Len(requests) BY <1>3
    <3> QED BY <3>1, ElementOfSeq
  <2>2. n + 1 \in Int /\ Len(requests) \in Int BY <1>3
  <2>3. /\ Window!Valid \in Seq(0..MaxTime)
        /\ Len(Window!Valid) = IF n + 1 <= Len(requests)
                        THEN Len(requests) - (n + 1) + 1 ELSE 0
        /\ \A i \in 1..(Len(requests) - (n + 1) + 1) :
             Window!Valid[i] = requests[(n + 1) + i - 1]
    BY <1>4, <2>1, <2>2, SubSeqProperties
  <2>4. Len(Window!Valid) = Len(requests) - n BY <1>3, <2>3
  <2>5. ASSUME NEW i \in 1..Len(Window!Valid)
        PROVE  Window!Valid[i] = requests[n + i]
    <3>1. (n + 1) + i - 1 = n + i BY <1>3
    <3> QED BY <1>3, <2>3, <2>4, <3>1
  <2> QED BY <2>3, <2>4, <2>5
<1>6. ASSUME NEW i \in 1..Len(Window!Valid)
      PROVE  /\ Window!Valid[i] = granted[Len(granted) - Len(Window!Valid) + i]
             /\ Window!Valid[i] > cutoff
  <2>1. n + i \in 1..Len(requests) /\ ~(n + i <= n) BY <1>3, <1>5
  <2>2. requests[n + i] \in Int BY <1>1, <2>1
  <2>3. requests[n + i] > cutoff BY <1>1, <1>3, <2>1, <2>2
  <2>4. granted[Len(granted) - Len(Window!Valid) + i] = requests[n + i]
    BY <1>3, <1>5, <2>1
  <2> QED BY <1>5, <2>3, <2>4
<1>7. ASSUME NEW i \in 1..(Len(granted) - Len(Window!Valid))
      PROVE  granted[i] <= cutoff
  <2>1. CASE i <= Window!Dropped BY <2>1
  <2>2. CASE i > Window!Dropped
    <3>1. i - Window!Dropped \in 1..n BY <1>3, <1>5, <2>2
    <3>2. granted[i] = requests[i - Window!Dropped] BY <1>3, <3>1
    <3> QED BY <1>3, <3>1, <3>2
  <2> QED BY <2>1, <2>2
<1> QED BY <1>3, <1>5, <1>6, <1>7

-----------------------------------------------------------------------------
LEMMA WindowStarts == Window!Init => Window!IInv
<1> SUFFICES ASSUME Window!Init PROVE Window!IInv OBVIOUS
<1> USE DEF Window!Init
<1>1. Window!TypeOK BY MaxTimeAssumption DEF Window!TypeOK
<1>2. Window!KeepsTail /\ Window!Sorted
  BY DEF Window!KeepsTail, Window!Dropped, Window!Sorted
<1>3. Window!WithinLimit /\ Window!RateLimited /\ Window!DeniedOnlyWhenFull
  BY LimitAssumption
     DEF Window!WithinLimit, Window!RateLimited, Window!DeniedOnlyWhenFull
<1> QED BY <1>1, <1>2, <1>3 DEF Window!IInv

\* A denied request only trims, and the window it was denied for is full.
LEMMA WindowDenies ==
  ASSUME Window!IInv, Window!Allow, Len(Window!Valid) >= Limit
  PROVE  Window!IInv'
<1> DEFINE V == Window!Valid
           k == Len(granted) - Len(V)
<1>1. /\ requests' = V /\ outcome' = "denied"
      /\ granted' = granted /\ now' = now
  BY DEF Window!Allow
<1>2. /\ V \in Seq(0..MaxTime)
      /\ Len(V) <= Len(requests)
      /\ \A i \in 1..Len(V) : V[i] = granted[k + i] /\ V[i] > now - WindowSize
      /\ \A i \in 1..k : granted[i] <= now - WindowSize
  BY ValidTail
<1> HIDE DEF V
<1>3. Len(V) \in Nat /\ Len(granted) \in Nat /\ Len(requests) \in Nat
  BY <1>2 DEF Window!IInv, Window!TypeOK
<1>4. k \in Nat /\ Len(V) = Limit
  BY <1>1, <1>2, <1>3, LimitAssumption
     DEF Window!IInv, Window!KeepsTail, Window!Dropped, Window!WithinLimit, V
<1>5. Window!TypeOK' BY <1>1, <1>2 DEF Window!IInv, Window!TypeOK
<1>6. Window!KeepsTail'
  BY <1>1, <1>2, <1>4 DEF Window!KeepsTail, Window!Dropped
<1>7. Window!Sorted' /\ Window!RateLimited'
  BY <1>1 DEF Window!IInv, Window!Sorted, Window!RateLimited
<1>8. Window!WithinLimit' BY <1>1, <1>4, LimitAssumption DEF Window!WithinLimit
<1>9. Window!DeniedOnlyWhenFull'
  <2>1. Len(granted) >= Limit BY <1>3, <1>4, LimitAssumption
  <2>2. ASSUME Limit > 0
        PROVE  granted[Len(granted) - Limit + 1] > now - WindowSize
    <3>1. 1 \in 1..Len(V) BY <1>4, <2>2, LimitAssumption
    <3>2. V[1] = granted[k + 1] /\ V[1] > now - WindowSize BY <1>2, <3>1
    <3> QED BY <1>4, <3>2
  <2> QED BY <1>1, <2>1, <2>2 DEF Window!DeniedOnlyWhenFull
<1> QED BY <1>5, <1>6, <1>7, <1>8, <1>9 DEF Window!IInv

\* An admitted request is at least a window away from the one Limit before it,
\* which trimming has dropped.
LEMMA WindowGrants ==
  ASSUME Window!IInv, Window!Allow, ~(Len(Window!Valid) >= Limit)
  PROVE  Window!IInv'
<1> DEFINE V == Window!Valid
           k == Len(granted) - Len(V)
<1>1. /\ requests' = Append(V, now) /\ outcome' = "granted"
      /\ granted' = Append(granted, now) /\ now' = now
  BY DEF Window!Allow
<1>2. /\ V \in Seq(0..MaxTime)
      /\ Len(V) <= Len(requests)
      /\ \A i \in 1..Len(V) : V[i] = granted[k + i] /\ V[i] > now - WindowSize
      /\ \A i \in 1..k : granted[i] <= now - WindowSize
  BY ValidTail
<1>0. Len(V) < Limit BY <1>2, LimitAssumption
<1> HIDE DEF V
<1>3. /\ Len(V) \in Nat /\ Len(granted) \in Nat /\ Len(requests) \in Nat
      /\ now \in 0..MaxTime /\ granted \in Seq(0..MaxTime)
  BY <1>2 DEF Window!IInv, Window!TypeOK
<1>4. k \in Nat
  BY <1>2, <1>3 DEF Window!IInv, Window!KeepsTail, Window!Dropped
<1>5. /\ requests' \in Seq(0..MaxTime) /\ granted' \in Seq(0..MaxTime)
      /\ Len(requests') = Len(V) + 1 /\ Len(granted') = Len(granted) + 1
      /\ \A i \in 1..Len(V) : requests'[i] = V[i]
      /\ \A i \in 1..Len(granted) : granted'[i] = granted[i]
      /\ requests'[Len(V) + 1] = now /\ granted'[Len(granted) + 1] = now
  BY <1>1, <1>2, <1>3, AppendProperties
<1>6. Window!TypeOK' BY <1>1, <1>3, <1>5 DEF Window!TypeOK
<1>7. Window!Dropped' = k BY <1>3, <1>5 DEF Window!Dropped
<1>8. Window!KeepsTail'
  <2>1. ASSUME NEW i \in 1..Len(requests') PROVE requests'[i] = granted'[k + i]
    <3>1. CASE i <= Len(V)
      <4>1. i \in 1..Len(V) /\ k + i \in 1..Len(granted) BY <1>3, <1>4, <3>1
      <4> QED BY <1>2, <1>5, <4>1
    <3>2. CASE i = Len(V) + 1
      <4>1. k + i = Len(granted) + 1 BY <1>3, <3>2
      <4> QED BY <1>5, <3>2, <4>1
    <3> QED BY <1>3, <1>5, <3>1, <3>2
  <2>2. ASSUME NEW i \in 1..k PROVE granted'[i] <= now - WindowSize
    <3>1. i \in 1..Len(granted) BY <1>3, <1>4
    <3> QED BY <1>2, <1>5, <3>1
  <2>3. now' = now BY <1>1
  <2>4. Window!Dropped' >= 0 BY <1>4, <1>7
  <2>5. \A i \in 1..Len(requests') :
          requests'[i] = granted'[Window!Dropped' + i]
    BY <1>7, <2>1
  <2>6. \A i \in 1..Window!Dropped' : granted'[i] <= now' - WindowSize
    BY <1>7, <2>2, <2>3
  <2> QED BY <2>4, <2>5, <2>6 DEF Window!KeepsTail
<1>9. Window!Sorted'
  <2>1. ASSUME NEW i \in 1..Len(granted') PROVE granted'[i] <= now
    BY <1>3, <1>5 DEF Window!IInv, Window!Sorted
  <2>2. ASSUME NEW i \in 1..Len(granted'), NEW j \in 1..Len(granted'), i <= j
        PROVE  granted'[i] <= granted'[j]
    <3>1. CASE j <= Len(granted)
      <4>1. i \in 1..Len(granted) /\ j \in 1..Len(granted)
        BY <1>3, <2>2, <3>1
      <4> QED BY <1>5, <2>2, <4>1 DEF Window!IInv, Window!Sorted
    <3>2. CASE j = Len(granted) + 1 BY <1>5, <2>1, <3>2
    <3> QED BY <1>3, <1>5, <3>1, <3>2
  <2> QED BY <1>1, <2>1, <2>2 DEF Window!Sorted
<1>10. Window!WithinLimit'
  BY <1>0, <1>3, <1>5, LimitAssumption DEF Window!WithinLimit
<1>11. Window!RateLimited'
  <2> SUFFICES ASSUME NEW i \in 1..(Len(granted') - Limit)
               PROVE  granted'[i + Limit] - granted'[i] >= WindowSize
    BY DEF Window!RateLimited
  <2>1. CASE i + Limit <= Len(granted)
    <3>1. /\ i \in 1..(Len(granted) - Limit)
          /\ i \in 1..Len(granted) /\ i + Limit \in 1..Len(granted)
      BY <1>3, <2>1, LimitAssumption
    <3> QED BY <1>5, <3>1 DEF Window!IInv, Window!RateLimited
  <2>2. CASE i + Limit = Len(granted) + 1
    <3>1. i \in 1..k /\ i \in 1..Len(granted)
      BY <1>0, <1>3, <2>2, LimitAssumption
    <3>2. granted[i] <= now - WindowSize BY <1>2, <3>1
    <3>3. granted'[i] = granted[i] /\ granted'[i + Limit] = now
      BY <1>5, <2>2, <3>1
    <3>4. granted[i] \in 0..MaxTime BY <1>3, <3>1, ElementOfSeq
    <3> QED BY <1>3, <3>2, <3>3, <3>4, WindowAssumption, MaxTimeAssumption
  <2>3. i + Limit <= Len(granted) \/ i + Limit = Len(granted) + 1
    <3>1. Len(granted') = Len(granted) + 1 BY <1>5
    <3> QED BY <1>3, <3>1, LimitAssumption
  <2> QED BY <2>1, <2>2, <2>3
<1>12. Window!DeniedOnlyWhenFull' BY <1>1 DEF Window!DeniedOnlyWhenFull
<1> QED BY <1>6, <1>8, <1>9, <1>10, <1>11, <1>12 DEF Window!IInv

LEMMA WindowReadsClock ==
  ASSUME Window!IInv, Window!ReadClock
  PROVE  Window!IInv'
<1>1. /\ now' \in now..MaxTime /\ outcome' = "none"
      /\ requests' = requests /\ granted' = granted
  BY DEF Window!ReadClock
<1>2. /\ now \in 0..MaxTime
      /\ \A i \in 1..Len(granted) : granted[i] \in 0..MaxTime
      /\ Len(requests) \in Nat /\ Len(granted) \in Nat
  <2>1. /\ now \in 0..MaxTime /\ granted \in Seq(0..MaxTime)
        /\ requests \in Seq(0..MaxTime)
    BY DEF Window!IInv, Window!TypeOK
  <2>2. \A i \in 1..Len(granted) : granted[i] \in 0..MaxTime
    BY <2>1, ElementOfSeq
  <2> QED BY <2>1, <2>2
<1>3. Window!TypeOK' BY <1>1, MaxTimeAssumption DEF Window!IInv, Window!TypeOK
<1>4. Window!KeepsTail'
  <2>1. Window!Dropped' = Window!Dropped BY <1>1 DEF Window!Dropped
  <2>2. Window!Dropped \in Nat /\ Window!Dropped <= Len(granted)
    BY <1>2 DEF Window!IInv, Window!KeepsTail, Window!Dropped
  <2>3. ASSUME NEW i \in 1..Window!Dropped PROVE granted[i] =< now' - WindowSize
    <3>1. now' \in Nat /\ now \in Nat /\ now <= now'
      BY <1>1, <1>2, MaxTimeAssumption
    <3>2. granted[i] \in Nat BY <1>2, <2>2, MaxTimeAssumption
    <3>3. granted[i] =< now - WindowSize BY DEF Window!IInv, Window!KeepsTail
    <3> QED BY <3>1, <3>2, <3>3, WindowAssumption
  <2>4. \A i \in 1..Window!Dropped' : granted'[i] =< now' - WindowSize
    BY <1>1, <2>1, <2>3
  <2>5. \A i \in 1..Len(requests') :
          requests'[i] = granted'[Window!Dropped' + i]
    BY <1>1, <2>1 DEF Window!IInv, Window!KeepsTail
  <2> QED BY <2>1, <2>2, <2>4, <2>5 DEF Window!KeepsTail
<1>5. Window!Sorted'
  BY <1>1, <1>2, MaxTimeAssumption DEF Window!IInv, Window!Sorted
<1>6. Window!WithinLimit' /\ Window!RateLimited' /\ Window!DeniedOnlyWhenFull'
  BY <1>1 DEF Window!IInv, Window!WithinLimit, Window!RateLimited,
              Window!DeniedOnlyWhenFull
<1> QED BY <1>3, <1>4, <1>5, <1>6 DEF Window!IInv

LEMMA WindowKeeps == Window!IInv /\ [Window!Next]_(Window!vars) => Window!IInv'
<1> SUFFICES ASSUME Window!IInv, [Window!Next]_(Window!vars) PROVE Window!IInv' OBVIOUS
<1>1. CASE Window!Allow BY <1>1, WindowDenies, WindowGrants
<1>2. CASE Window!ReadClock BY <1>2, WindowReadsClock
<1>3. CASE UNCHANGED Window!vars
  BY <1>3 DEF Window!vars, Window!IInv, Window!TypeOK, Window!KeepsTail,
              Window!Dropped, Window!Sorted, Window!WithinLimit,
              Window!RateLimited, Window!DeniedOnlyWhenFull
<1> QED BY <1>1, <1>2, <1>3 DEF Window!Next

\* No window of WindowSize ticks, wherever it starts, holds more than Limit
\* admissions of one sliding window.
THEOREM NeverOverLimit == Window!Spec => []Window!RateLimited
<1>1. Window!IInv => Window!RateLimited BY DEF Window!IInv
<1> QED BY WindowStarts, WindowKeeps, <1>1, PTL DEF Window!Spec

\* No request is denied while the window has room.
THEOREM NeverDeniedEarly == Window!Spec => []Window!DeniedOnlyWhenFull
<1>1. Window!IInv => Window!DeniedOnlyWhenFull BY DEF Window!IInv
<1> QED BY WindowStarts, WindowKeeps, <1>1, PTL DEF Window!Spec

-----------------------------------------------------------------------------
(* The window, step by step.                                               *)

LEMMA KeptFacts ==
  ASSUME Typed, InOrder, left \in 0..Len(requests)
  PROVE  /\ Kept \in Seq(0..MaxTime)
         /\ Len(Kept) = Len(requests) - left
         /\ \A i \in 1..Len(Kept) : /\ i + left \in 1..Len(requests)
                                    /\ Kept[i] = requests[i + left]
<1>1. /\ requests \in Seq(0..MaxTime) /\ Len(requests) \in Nat
      /\ left + 1 \in 1..(Len(requests) + 1)
  BY DEF Typed
<1>2. /\ Kept \in Seq(0..MaxTime)
      /\ Len(Kept) = Len(requests) - left
      /\ \A i \in 1..Len(Kept) : Kept[i] = requests[left + 1 + i - 1]
  <2>1. \A i \in (left + 1)..Len(requests) : requests[i] \in 0..MaxTime
    <3>1. \A i \in (left + 1)..Len(requests) : i \in 1..Len(requests) BY <1>1
    <3> QED BY <1>1, <3>1, ElementOfSeq
  <2>2. left + 1 \in Int /\ Len(requests) \in Int BY <1>1
  <2>3. /\ Kept \in Seq(0..MaxTime)
        /\ Len(Kept) = IF left + 1 <= Len(requests)
                       THEN Len(requests) - (left + 1) + 1 ELSE 0
        /\ \A i \in 1..(Len(requests) - (left + 1) + 1) :
             Kept[i] = requests[(left + 1) + i - 1]
    BY <2>1, <2>2, SubSeqProperties DEF Kept
  <2> QED BY <1>1, <2>3
<1>3. ASSUME NEW i \in 1..Len(Kept)
      PROVE  i + left \in 1..Len(requests) /\ Kept[i] = requests[i + left]
  <2>1. left + 1 + i - 1 = i + left /\ i + left \in 1..Len(requests)
    BY <1>1, <1>2
  <2> QED BY <1>2, <2>1
<1> QED BY <1>2, <1>3

LEMMA InitIInv == Init => IInv
BY MaxTimeAssumption DEF Init, IInv, Typed, InOrder

LEMMA BeginStep ==
  ASSUME IInv, NEW c \in {"Allow", "Count"}, Begin(c)
  PROVE  IInv'
<1> USE DEF IInv, Begin
<1>1. Typed' BY DEF Typed
<1>2. InOrder'
  <2>1. \A i \in 1..Len(requests) : requests[i] \in 0..MaxTime
    BY ElementOfSeq DEF Typed
  <2> QED BY <2>1 DEF Typed, InOrder
<1>3. Search!IInv'
  <2>1. requests' \in Seq(Int) /\ (now - WindowSize)' \in Int
    <3>1. \A i \in 1..Len(requests) : requests[i] \in 0..MaxTime
      BY ElementOfSeq DEF Typed
    <3>2. requests \in Seq(Int) BY <3>1, SeqDef DEF Typed
    <3> QED BY <3>2, WindowAssumption DEF Typed
  <2>2. Search!TypeOK'
    BY <2>1 DEF Search!TypeOK, Search!IsSorted, InOrder, Typed, cutoff
  <2>3. Search!Bracketed' BY <2>1 DEF Search!Bracketed, Typed
  <2>4. Search!Splits' BY DEF Search!Splits
  <2> QED BY <2>2, <2>3, <2>4 DEF Search!IInv
<1> QED BY <1>1, <1>2, <1>3

LEMMA SearchStepStep ==
  ASSUME IInv, SearchStep
  PROVE  IInv'
<1>1. /\ call # "none" /\ Search!Next
      /\ UNCHANGED <<time, granted, now, call, outcome, counted>>
  BY DEF SearchStep
<1>2. requests' = requests
  BY <1>1 DEF Search!Next, Search!Enter, Search!Halve, Search!Return
<1>3. Search!IInv' BY <1>1, SearchKeeps DEF IInv
<1>4. Typed' /\ InOrder' BY <1>1, <1>2 DEF IInv, Typed, InOrder
<1> QED BY <1>3, <1>4 DEF IInv

LEMMA DenyStep ==
  ASSUME IInv, Deny
  PROVE  IInv'
<1>1. /\ requests' = Kept /\ call' = "none" /\ call = "Allow"
      /\ UNCHANGED <<time, now>>
  BY DEF Deny
<1>2. left \in 0..Len(requests) BY <1>1 DEF IInv, Search!IInv, Search!TypeOK
<1>3. Typed' BY <1>1, <1>2, KeptFacts DEF IInv, Typed
<1>4. InOrder'
  <2> DEFINE k == Kept
             n == Len(requests)
  <2>1. /\ n \in Nat /\ Len(k) = n - left
        /\ \A i \in 1..Len(k) : i + left \in 1..n /\ k[i] = requests[i + left]
    BY <1>2, KeptFacts DEF IInv, Typed
  <2>2. /\ \A i, j \in 1..n : i <= j => requests[i] <= requests[j]
        /\ \A i \in 1..n : requests[i] <= now
    BY DEF IInv, InOrder
  <2> HIDE DEF k, n
  <2>3. ASSUME NEW i \in 1..Len(k), NEW j \in 1..Len(k), i <= j
        PROVE  k[i] <= k[j]
    <3>1. /\ i + left \in 1..n /\ k[i] = requests[i + left]
          /\ j + left \in 1..n /\ k[j] = requests[j + left]
      BY <2>1
    <3>2. i + left <= j + left BY <1>2, <2>3
    <3> QED BY <2>2, <3>1, <3>2
  <2>4. \A i \in 1..Len(k) : k[i] <= now BY <2>1, <2>2
  <2> QED BY <1>1, <2>3, <2>4 DEF InOrder, k
<1> QED BY <1>1, <1>3, <1>4 DEF IInv

LEMMA GrantStep ==
  ASSUME IInv, Grant
  PROVE  IInv'
<1>1. /\ requests' = Append(Kept, now) /\ call' = "none" /\ call = "Allow"
      /\ UNCHANGED <<time, now>>
  BY DEF Grant
<1>2. left \in 0..Len(requests) BY <1>1 DEF IInv, Search!IInv, Search!TypeOK
<1>3. Typed' BY <1>1, <1>2, KeptFacts DEF IInv, Typed
<1>4. InOrder'
  <2> DEFINE k == Kept
             n == Len(requests)
             a == Append(k, now)
  <2>1. /\ n \in Nat /\ Len(k) = n - left /\ k \in Seq(0..MaxTime)
        /\ \A i \in 1..Len(k) : i + left \in 1..n /\ k[i] = requests[i + left]
    BY <1>2, KeptFacts DEF IInv, Typed
  <2>2. /\ \A i, j \in 1..n : i <= j => requests[i] <= requests[j]
        /\ \A i \in 1..n : requests[i] <= now
    BY DEF IInv, InOrder
  <2>3. now \in 0..MaxTime BY DEF IInv, Typed
  <2> HIDE DEF k, n
  <2>4. /\ \A i, j \in 1..Len(k) : i <= j => k[i] <= k[j]
        /\ \A i \in 1..Len(k) : k[i] <= now
    <3>1. ASSUME NEW i \in 1..Len(k), NEW j \in 1..Len(k), i <= j
          PROVE  k[i] <= k[j]
      <4>1. /\ i + left \in 1..n /\ k[i] = requests[i + left]
            /\ j + left \in 1..n /\ k[j] = requests[j + left]
        BY <2>1
      <4>2. i + left <= j + left BY <1>2, <3>1
      <4> QED BY <2>2, <4>1, <4>2
    <3>2. \A i \in 1..Len(k) : k[i] <= now BY <2>1, <2>2
    <3> QED BY <3>1, <3>2
  <2>5. /\ Len(a) = Len(k) + 1 /\ a[Len(k) + 1] = now
        /\ \A i \in 1..Len(k) : a[i] = k[i]
    BY <2>1, <2>3
  <2> HIDE DEF a
  <2>6. /\ \A i, j \in 1..Len(a) : i <= j => a[i] <= a[j]
        /\ \A i \in 1..Len(a) : a[i] <= now
    <3>1. Len(k) \in Nat BY <2>1
    <3>2. \A i \in 1..Len(a) : i = Len(k) + 1 \/ i \in 1..Len(k)
      BY <2>5, <3>1
    <3> QED BY <2>3, <2>4, <2>5, <3>1, <3>2
  <2> QED BY <1>1, <2>6 DEF InOrder, a, k
<1> QED BY <1>1, <1>3, <1>4 DEF IInv

LEMMA NextIInv == IInv /\ [Next]_vars => IInv'
<1> SUFFICES ASSUME IInv, [Next]_vars PROVE IInv' OBVIOUS
<1> USE DEF Search!IInv, Search!TypeOK, Search!Bracketed, Search!Splits,
            Search!At, cutoff
<1>1. CASE \E c \in {"Allow", "Count"} : Begin(c) BY <1>1, BeginStep
<1>2. CASE SearchStep BY <1>2, SearchStepStep
<1>3. CASE Deny BY <1>3, DenyStep
<1>4. CASE Grant BY <1>4, GrantStep
<1>5. CASE ReturnCount
  BY <1>5 DEF ReturnCount, IInv, Typed, InOrder
<1>6. CASE Tick
  BY <1>6, MaxTimeAssumption DEF Tick, IInv, Typed, InOrder
<1>7. CASE UNCHANGED vars BY <1>7 DEF vars, IInv, Typed, InOrder
<1> QED BY <1>1, <1>2, <1>3, <1>4, <1>5, <1>6, <1>7 DEF Next, Finish

-----------------------------------------------------------------------------
\* The search, when it is done, has found what the abstract window trims by.
LEMMA KeptIsValid ==
  ASSUME IInv, call # "none", pc = "done"
  PROVE  Window!Valid = Kept
<1> DEFINE c == now - WindowSize
           P(n) == /\ \A i \in 1..n : requests[i] <= c
                   /\ n < Len(requests) => requests[n + 1] > c
           fv == CHOOSE n \in 0..Len(requests) : P(n)
<1>1. /\ requests \in Seq(Int) /\ c \in Int /\ Len(requests) \in Nat
      /\ left \in 0..Len(requests)
  BY WindowAssumption DEF IInv, Typed, Search!IInv, Search!TypeOK
<1>2. \A i, j \in 1..Len(requests) : i <= j => requests[i] <= requests[j]
  BY DEF IInv, InOrder
<1>3. \A i \in 1..Len(requests) : i <= left <=> requests[i] <= c
  <2>1. /\ \A i \in 0..(left - 1) : requests[i + 1] <= c
        /\ \A i \in left..(Len(requests) - 1) : requests[i + 1] > c
    BY DEF IInv, Search!IInv, Search!Splits, Search!At, cutoff
  <2> SUFFICES ASSUME NEW i \in 1..Len(requests)
               PROVE  i <= left <=> requests[i] <= c
    OBVIOUS
  <2>2. (i - 1) + 1 = i /\ requests[i] \in Int BY <1>1
  <2>3. CASE i <= left
    <3>1. i - 1 \in 0..(left - 1) BY <1>1, <2>3
    <3>2. requests[(i - 1) + 1] <= c BY <2>1, <3>1
    <3> QED BY <2>2, <2>3, <3>2
  <2>4. CASE ~(i <= left)
    <3>1. i - 1 \in left..(Len(requests) - 1) BY <1>1, <2>4
    <3>2. requests[(i - 1) + 1] > c BY <2>1, <3>1
    <3> HIDE DEF c
    <3> QED BY <1>1, <2>2, <2>4, <3>2
  <2> QED BY <2>3, <2>4
<1>4. /\ \A i \in 1..Len(requests) : requests[i] \in Int
      /\ c \in Int
  BY <1>1
<1>5. P(left)
  <2>1. left < Len(requests) => left + 1 \in 1..Len(requests) BY <1>1
  <2>2. \A i \in 1..left : i \in 1..Len(requests) /\ i <= left BY <1>1
  <2> HIDE DEF c
  <2> QED BY <1>1, <1>3, <1>4, <2>1, <2>2
<1>6. fv \in 0..Len(requests) /\ P(fv)
  <2> HIDE DEF P
  <2> QED BY <1>1, <1>5
<1> HIDE DEF c, fv
<1>7. fv = left
  <2>1. CASE fv < left
    <3>1. fv + 1 \in 1..Len(requests) /\ fv < Len(requests) /\ fv + 1 <= left
      BY <1>1, <1>6, <2>1
    <3> QED BY <1>3, <1>4, <1>6, <3>1
  <2>2. CASE left < fv
    <3>1. left + 1 \in 1..Len(requests) /\ left + 1 \in 1..fv
          /\ ~(left + 1 <= left)
      BY <1>1, <1>6, <2>2
    <3> QED BY <1>3, <1>4, <1>6, <3>1
  <2> QED BY <1>1, <1>6, <2>1, <2>2
<1>8. Window!FirstValid(requests, c) = fv BY DEF fv, Window!FirstValid
<1> QED BY <1>7, <1>8 DEF c, Window!Valid, Kept

LEMMA InitImplements == Init => Window!Init
BY DEF Init, Window!Init

LEMMA StepImplements ==
  ASSUME IInv, [Next]_vars
  PROVE  [Window!Next]_(Window!vars)
<1> USE DEF Window!Next, Window!vars
<1>1. ASSUME NEW c \in {"Allow", "Count"}, Begin(c) PROVE Window!ReadClock
  <2>1. time \in now..MaxTime BY DEF IInv, Typed
  <2> QED BY <1>1, <2>1 DEF Begin, Window!ReadClock
<1>2. CASE SearchStep
  BY <1>2 DEF SearchStep, Search!Next, Search!Enter, Search!Halve,
              Search!Return
<1>3. CASE Deny
  <2>1. Window!Valid = Kept BY <1>3, KeptIsValid DEF Deny
  <2> QED BY <1>3, <2>1 DEF Deny, Window!Allow
<1>4. CASE Grant
  <2>1. Window!Valid = Kept BY <1>4, KeptIsValid DEF Grant
  <2>2. ~(Len(Kept) >= Limit)
    <3>1. left \in 0..Len(requests)
      BY <1>4 DEF Grant, IInv, Search!IInv, Search!TypeOK
    <3>2. Len(Kept) \in Int BY <3>1, KeptFacts DEF IInv
    <3> QED BY <1>4, <3>2, LimitAssumption DEF Grant
  <2> QED BY <1>4, <2>1, <2>2 DEF Grant, Window!Allow
<1>5. CASE ReturnCount BY <1>5 DEF ReturnCount
<1>6. CASE Tick BY <1>6 DEF Tick
<1>7. CASE UNCHANGED vars BY <1>7 DEF vars
<1> QED BY <1>1, <1>2, <1>3, <1>4, <1>5, <1>6, <1>7 DEF Next, Finish

\* The calls of Allow and Count, searching step by step while time passes,
\* implement a window in which a call is a reading of the clock and one step.
THEOREM Implements == Spec => ImplementsSlidingWindow
<1>1. IInv /\ [Next]_vars => [Window!Next]_(Window!vars) BY StepImplements
<1> QED BY InitIInv, NextIInv, InitImplements, <1>1, PTL
        DEF Spec, ImplementsSlidingWindow, Window!Spec

\* Hence the inductive invariant of the window holds of the calls.
LEMMA Inherits == Spec => [](IInv /\ Window!IInv)
<1>1. Spec => Window!Init /\ [][Window!Next]_(Window!vars)
  BY Implements DEF ImplementsSlidingWindow, Window!Spec
<1> QED BY <1>1, InitIInv, NextIInv, WindowStarts, WindowKeeps, PTL DEF Spec

\* No window of WindowSize ticks holds more than Limit admissions, however long
\* each call searches.
THEOREM StepwiseRateLimited == Spec => []RateLimited
<1>1. Window!IInv => RateLimited BY DEF Window!IInv, RateLimited
<1> QED BY <1>1, Inherits, PTL

\* A call is denied only if Limit admissions are inside the window that ended
\* when it read the clock, although the clock has moved on since.
THEOREM StepwiseDenied == Spec => []DeniedOnlyWhenFull
<1>1. Window!IInv => DeniedOnlyWhenFull
  BY DEF Window!IInv, DeniedOnlyWhenFull
<1> QED BY <1>1, Inherits, PTL

\* The search of every call returns the boundary between the requests that have
\* left the window and those that have not.
THEOREM BoundaryFound == Spec => []Splits
<1>1. IInv => Splits BY DEF IInv, Search!IInv, Splits
<1> QED BY <1>1, Inherits, PTL

-----------------------------------------------------------------------------
(* Count does not trim: the requests behind the boundary are admissions,   *)
(* and the admissions that are not among them have left the window.        *)

CountInv ==
  /\ CountExact
  /\ call # "none" => counted = NoCount

LEMMA CountStep ==
  ASSUME IInv, Window!IInv, ReturnCount
  PROVE  CountExact'
<1> DEFINE n == Len(requests)
           m == Len(granted)
           recent == {i \in DOMAIN granted : granted[i] > cutoff}
<1>1. /\ call = "Count" /\ pc = "done" /\ counted' = n - left
      /\ UNCHANGED <<granted, now>>
  BY DEF ReturnCount
<1>2. /\ n \in Nat /\ left \in 0..n /\ requests \in Seq(Int) /\ cutoff \in Int
  BY <1>1, WindowAssumption DEF IInv, Typed, Search!IInv, Search!TypeOK, cutoff
<1>3. /\ m \in Nat /\ DOMAIN granted = 1..m /\ \A i \in 1..m : granted[i] \in Int
      /\ m - n >= 0
      /\ \A i \in 1..n : requests[i] = granted[(m - n) + i]
      /\ \A i \in 1..(m - n) : granted[i] <= cutoff
  <2>1. granted \in Seq(0..MaxTime)
    BY DEF Window!IInv, Window!TypeOK
  <2>2. \A i \in 1..m : granted[i] \in 0..MaxTime BY <2>1, ElementOfSeq
  <2>3. \A i \in 1..m : granted[i] \in Int BY <2>2, MaxTimeAssumption
  <2> QED BY <2>1, <2>3
          DEF Window!IInv, Window!KeepsTail, Window!Dropped,
              cutoff
<1>4. \A i \in 1..n : i <= left <=> requests[i] <= cutoff
  <2>1. /\ \A i \in 0..(left - 1) : requests[i + 1] <= cutoff
        /\ \A i \in left..(n - 1) : requests[i + 1] > cutoff
    BY <1>1 DEF IInv, Search!IInv, Search!Splits, Search!At
  <2> SUFFICES ASSUME NEW i \in 1..n
               PROVE  i <= left <=> requests[i] <= cutoff
    OBVIOUS
  <2>2. (i - 1) + 1 = i /\ requests[i] \in Int BY <1>2
  <2> HIDE DEF n
  <2>3. CASE i <= left
    <3>1. i - 1 \in 0..(left - 1) BY <1>2, <2>3
    <3> QED BY <2>1, <2>2, <2>3, <3>1
  <2>4. CASE ~(i <= left)
    <3>1. i - 1 \in left..(n - 1) BY <1>2, <2>4
    <3>2. requests[(i - 1) + 1] > cutoff BY <2>1, <3>1
    <3> HIDE DEF cutoff
    <3> QED BY <1>2, <2>2, <2>4, <3>2
  <2> QED BY <2>3, <2>4
<1> HIDE DEF n, m
<1>5. recent = (m - n + left + 1)..m
  <2> SUFFICES ASSUME NEW i \in 1..m
               PROVE  granted[i] > cutoff <=> i >= m - n + left + 1
    BY <1>2, <1>3
  <2>1. CASE i <= m - n BY <1>2, <1>3, <2>1
  <2>2. CASE i > m - n
    <3>1. i - (m - n) \in 1..n /\ (m - n) + (i - (m - n)) = i
      BY <1>2, <1>3, <2>2
    <3>2. requests[i - (m - n)] = granted[i] BY <1>3, <3>1
    <3>3. i - (m - n) <= left <=> granted[i] <= cutoff BY <1>4, <3>1, <3>2
    <3> QED BY <1>2, <1>3, <3>3
  <2> QED BY <1>2, <1>3, <2>1, <2>2
<1>6. Cardinality(recent) = n - left
  <2> HIDE DEF recent
  <2>1. m - n + left + 1 \in Int /\ m \in Int BY <1>2, <1>3
  <2>2. Cardinality(recent) = IF m - n + left + 1 > m THEN 0
                              ELSE m - (m - n + left + 1) + 1
    BY <1>5, <2>1, FS_Interval
  <2> QED BY <1>2, <1>3, <2>2
<1>7. counted' = Cardinality(recent) /\ recent' = recent
  BY <1>1, <1>6 DEF cutoff
<1> QED BY <1>7 DEF CountExact

LEMMA NextCountInv ==
  ASSUME IInv, Window!IInv, CountInv, [Next]_vars
  PROVE  CountInv'
<1>1. CASE \E c \in {"Allow", "Count"} : Begin(c)
  BY <1>1 DEF Begin, CountInv, CountExact
<1>2. CASE SearchStep
  BY <1>2 DEF SearchStep, CountInv, CountExact, cutoff
<1>3. CASE Deny BY <1>3 DEF Deny, CountInv, CountExact, cutoff
<1>4. CASE Grant BY <1>4 DEF Grant, CountInv, CountExact, cutoff
<1>5. CASE ReturnCount BY <1>5, CountStep DEF ReturnCount, CountInv
<1>6. CASE Tick BY <1>6 DEF Tick, CountInv, CountExact, cutoff
<1>7. CASE UNCHANGED vars BY <1>7 DEF vars, CountInv, CountExact, cutoff
<1> QED BY <1>1, <1>2, <1>3, <1>4, <1>5, <1>6, <1>7 DEF Next, Finish

\* Count returns the number of all admissions inside the window that ends when
\* it read the clock, also of those that other calls have trimmed.
THEOREM CountsAll == Spec => []CountExact
<1>1. Init => CountInv BY DEF Init, CountInv, CountExact
<1>2. CountInv => CountExact BY DEF CountInv
<1> QED BY <1>1, <1>2, NextCountInv, Inherits, PTL DEF Spec

-----------------------------------------------------------------------------
(* Sequences without one element, and with one more at the front.          *)

CutOut(q, p) == [i \in 1..(Len(q) - 1) |-> IF i < p THEN q[i] ELSE q[i + 1]]
PutFirst(x, q) == [i \in 1..(Len(q) + 1) |-> IF i = 1 THEN x ELSE q[i - 1]]

LEMMA CutOutFacts ==
  ASSUME NEW S, NEW q \in Seq(S), NEW p \in 1..Len(q)
  PROVE  /\ CutOut(q, p) \in Seq(S) /\ Len(CutOut(q, p)) = Len(q) - 1
         /\ \A i \in 1..(Len(q) - 1) :
              CutOut(q, p)[i] = IF i < p THEN q[i] ELSE q[i + 1]
         /\ CutOut(q, p) = SubSeq(q, 1, p - 1) \o SubSeq(q, p + 1, Len(q))
<1> DEFINE n == Len(q)
           c == CutOut(q, p)
           s == SubSeq(q, 1, p - 1)
           t == SubSeq(q, p + 1, n)
<1>1. n \in Nat \ {0} /\ p \in 1..n /\ \A i \in 1..n : q[i] \in S
  BY LenProperties, ElementOfSeq
<1> HIDE DEF n
<1>2. /\ c = [i \in 1..(n - 1) |-> IF i < p THEN q[i] ELSE q[i + 1]]
      /\ n - 1 \in Nat
  BY <1>1 DEF CutOut, n
<1>3. \A i \in 1..(n - 1) : c[i] \in S /\ c[i] = IF i < p THEN q[i] ELSE q[i + 1]
  BY <1>1, <1>2
<1>4. c \in [1..(n - 1) -> S] BY <1>2, <1>3
<1>5. c \in Seq(S) /\ Len(c) = n - 1 BY <1>2, <1>4, LenProperties
<1>6. s \in Seq(S) /\ Len(s) = p - 1 /\ \A i \in 1..(p - 1) : s[i] = q[i]
  <2>1. \A i \in 1..(p - 1) : q[i] \in S BY <1>1
  <2>2. /\ s \in Seq(S) /\ Len(s) = IF 1 <= p - 1 THEN p - 1 - 1 + 1 ELSE 0
        /\ \A i \in 1..(p - 1 - 1 + 1) : s[i] = q[1 + i - 1]
    BY <1>1, <2>1, SubSeqProperties
  <2> QED BY <1>1, <2>2
<1>7. t \in Seq(S) /\ Len(t) = n - p /\ \A i \in 1..(n - p) : t[i] = q[p + i]
  <2>1. \A i \in (p + 1)..n : q[i] \in S BY <1>1
  <2>2. /\ t \in Seq(S) /\ Len(t) = IF p + 1 <= n THEN n - (p + 1) + 1 ELSE 0
        /\ \A i \in 1..(n - (p + 1) + 1) : t[i] = q[p + 1 + i - 1]
    BY <1>1, <2>1, SubSeqProperties
  <2> QED BY <1>1, <2>2
<1> HIDE DEF c, s, t
<1>8. /\ s \o t \in Seq(S) /\ Len(s \o t) = n - 1
      /\ \A i \in 1..(n - 1) : (s \o t)[i] = c[i]
  <2>1. /\ s \o t \in Seq(S) /\ Len(s \o t) = Len(s) + Len(t)
        /\ \A i \in 1..(Len(s) + Len(t)) :
             (s \o t)[i] = IF i <= Len(s) THEN s[i] ELSE t[i - Len(s)]
    BY <1>6, <1>7, ConcatProperties
  <2>2. Len(s) + Len(t) = n - 1 BY <1>1, <1>6, <1>7
  <2>3. ASSUME NEW i \in 1..(n - 1) PROVE (s \o t)[i] = c[i]
    <3>1. (s \o t)[i] = IF i <= p - 1 THEN s[i] ELSE t[i - (p - 1)]
      BY <1>6, <2>1, <2>2
    <3>2. CASE i < p
      <4>1. i \in 1..(p - 1) /\ i <= p - 1 BY <1>1, <3>2
      <4> QED BY <1>3, <1>6, <3>1, <3>2, <4>1
    <3>3. CASE ~(i < p)
      <4>1. i - (p - 1) \in 1..(n - p) /\ p + (i - (p - 1)) = i + 1
        BY <1>1, <3>3
      <4>2. ~(i <= p - 1) BY <1>1, <3>3
      <4> QED BY <1>3, <1>7, <3>1, <3>3, <4>1, <4>2
    <3> QED BY <3>2, <3>3
  <2> QED BY <2>1, <2>2, <2>3
<1>9. c = s \o t BY <1>5, <1>8, SeqEqual
<1> QED BY <1>3, <1>5, <1>9 DEF c, s, t, n

LEMMA PutFirstFacts ==
  ASSUME NEW S, NEW q \in Seq(S), NEW x \in S
  PROVE  /\ PutFirst(x, q) \in Seq(S) /\ Len(PutFirst(x, q)) = Len(q) + 1
         /\ \A i \in 1..(Len(q) + 1) :
              PutFirst(x, q)[i] = IF i = 1 THEN x ELSE q[i - 1]
         /\ PutFirst(x, q) = <<x>> \o q
<1> DEFINE n == Len(q)
           f == PutFirst(x, q)
<1>1. n \in Nat /\ \A i \in 1..n : q[i] \in S BY LenProperties, ElementOfSeq
<1> HIDE DEF n
<1>2. f = [i \in 1..(n + 1) |-> IF i = 1 THEN x ELSE q[i - 1]] /\ n + 1 \in Nat
  BY <1>1 DEF PutFirst, n
<1>3. \A i \in 1..(n + 1) : f[i] \in S /\ f[i] = IF i = 1 THEN x ELSE q[i - 1]
  BY <1>1, <1>2
<1>4. f \in [1..(n + 1) -> S] BY <1>2, <1>3
<1>5. f \in Seq(S) /\ Len(f) = n + 1 BY <1>2, <1>4, LenProperties
<1> HIDE DEF f
<1>6. /\ <<x>> \o q \in Seq(S) /\ Len(<<x>> \o q) = n + 1
      /\ \A i \in 1..(n + 1) : (<<x>> \o q)[i] = f[i]
  <2>1. <<x>> \in Seq(S) /\ Len(<<x>>) = 1 /\ <<x>>[1] = x OBVIOUS
  <2>2. /\ <<x>> \o q \in Seq(S) /\ Len(<<x>> \o q) = Len(<<x>>) + Len(q)
        /\ \A i \in 1..(Len(<<x>>) + Len(q)) :
             (<<x>> \o q)[i] = IF i <= Len(<<x>>) THEN <<x>>[i]
                                                 ELSE q[i - Len(<<x>>)]
    BY <2>1, ConcatProperties
  <2>3. ASSUME NEW i \in 1..(n + 1) PROVE (<<x>> \o q)[i] = f[i]
    <3>1. i \in 1..(1 + n) /\ (i <= 1 <=> i = 1) BY <1>1
    <3>2. (<<x>> \o q)[i] = IF i = 1 THEN x ELSE q[i - 1]
      BY <2>1, <2>2, <3>1 DEF n
    <3> QED BY <1>3, <3>2
  <2>4. Len(<<x>> \o q) = n + 1 BY <1>1, <2>1, <2>2 DEF n
  <2> QED BY <2>2, <2>3, <2>4
<1>7. f = <<x>> \o q BY <1>5, <1>6, SeqEqual
<1> QED BY <1>3, <1>5, <1>7 DEF f, n

LEMMA PutFirstEntry ==
  ASSUME NEW q \in Seq(Entries), NEW x \in Entries
  PROVE  /\ PutFirst(x, q) \in Seq(Entries)
         /\ Len(PutFirst(x, q)) = Len(q) + 1
         /\ \A i \in 1..(Len(q) + 1) :
              PutFirst(x, q)[i] = IF i = 1 THEN x ELSE q[i - 1]
<1>1. PutFirst(x, q) \in Seq(Entries) /\ Len(PutFirst(x, q)) = Len(q) + 1
  <2>1. PutFirst(x, q) \in Seq(Entries) BY PutFirstFacts
  <2>2. Len(PutFirst(x, q)) = Len(q) + 1 BY PutFirstFacts
  <2> QED BY <2>1, <2>2
<1>2. \A i \in 1..(Len(q) + 1) :
        PutFirst(x, q)[i] = IF i = 1 THEN x ELSE q[i - 1]
  BY DEF PutFirst
<1> QED BY <1>1, <1>2

-----------------------------------------------------------------------------
(* The linked list: the pointers of l link the entries of q, in order,     *)
(* between the sentinels.                                                  *)

Pointers == [next : [Nodes -> Nodes \cup {None}], prev : [Nodes -> Nodes \cup {None}]]
NodeAt(q, i) == IF i = 0 THEN Front ELSE IF i = Len(q) + 1 THEN Back ELSE q[i]
Links(l, q) ==
  \A i \in 0..Len(q) : /\ l.next[NodeAt(q, i)] = NodeAt(q, i + 1)
                       /\ l.prev[NodeAt(q, i + 1)] = NodeAt(q, i)
Linked(l, q) ==
  /\ l \in Pointers
  /\ q \in Seq(Entries)
  /\ \A i, j \in 1..Len(q) : q[i] = q[j] => i = j
  /\ Links(l, q)

LEMMA NodeAtFacts ==
  ASSUME NEW q \in Seq(Entries), \A i, j \in 1..Len(q) : q[i] = q[j] => i = j
  PROVE  /\ Len(q) \in Nat
         /\ NodeAt(q, 0) = Front /\ NodeAt(q, Len(q) + 1) = Back
         /\ \A i \in 1..Len(q) : NodeAt(q, i) = q[i] /\ q[i] \in Entries
         /\ \A i \in 0..(Len(q) + 1) : NodeAt(q, i) \in Nodes
         /\ \A i, j \in 0..(Len(q) + 1) : NodeAt(q, i) = NodeAt(q, j) => i = j
<1>1. Len(q) \in Nat /\ \A i \in 1..Len(q) : q[i] \in Entries
  BY LenProperties, ElementOfSeq
<1>2. NodeAt(q, 0) = Front /\ NodeAt(q, Len(q) + 1) = Back
  BY <1>1 DEF NodeAt
<1>3. \A i \in 1..Len(q) : NodeAt(q, i) = q[i] BY <1>1 DEF NodeAt
<1>4. \A i \in 0..(Len(q) + 1) : i = 0 \/ i = Len(q) + 1 \/ i \in 1..Len(q)
  BY <1>1
<1>5. \A i \in 0..(Len(q) + 1) : NodeAt(q, i) \in Nodes
  BY <1>1, <1>2, <1>3, <1>4 DEF Nodes
<1>6. ASSUME NEW i \in 0..(Len(q) + 1), NEW j \in 0..(Len(q) + 1),
             NodeAt(q, i) = NodeAt(q, j)
      PROVE  i = j
  <2>1. Front # Back /\ \A e \in Entries : e # Front /\ e # Back
    BY NodesAssumption
  <2>2. CASE i \in 1..Len(q) /\ j \in 1..Len(q) BY <1>3, <1>6, <2>2
  <2>3. CASE i \in 1..Len(q) /\ j \notin 1..Len(q)
    BY <1>1, <1>2, <1>3, <1>4, <1>6, <2>1, <2>3
  <2>4. CASE i \notin 1..Len(q) /\ j \in 1..Len(q)
    BY <1>1, <1>2, <1>3, <1>4, <1>6, <2>1, <2>4
  <2>5. CASE i \notin 1..Len(q) /\ j \notin 1..Len(q)
    BY <1>2, <1>4, <1>6, <2>1, <2>5
  <2> QED BY <2>2, <2>3, <2>4, <2>5
<1> QED BY <1>1, <1>2, <1>3, <1>5, <1>6

\* Removing the entry at p takes it out of the sequence.
LEMMA Unlink ==
  ASSUME NEW l, NEW q, Linked(l, q), NEW p \in 1..Len(q)
  PROVE  Linked(RemoveFromList(l, q[p]), CutOut(q, p))
<1> DEFINE n == Len(q)
           c == CutOut(q, p)
           r == RemoveFromList(l, q[p])
           A(i) == NodeAt(q, i)
<1>1. /\ q \in Seq(Entries) /\ n \in Nat /\ p \in 1..n /\ A(p) = q[p]
      /\ \A i \in 0..(n + 1) : A(i) \in Nodes
      /\ \A i, j \in 0..(n + 1) : A(i) = A(j) => i = j
      /\ A(0) = Front /\ A(n + 1) = Back /\ \A i \in 1..n : A(i) = q[i]
  BY NodeAtFacts DEF Linked
<1>2. /\ l.next \in [Nodes -> Nodes \cup {None}]
      /\ l.prev \in [Nodes -> Nodes \cup {None}]
  BY DEF Linked, Pointers
<1>3. \A i \in 0..n : l.next[A(i)] = A(i + 1) /\ l.prev[A(i + 1)] = A(i)
  BY DEF Linked, Links
<1>4. c \in Seq(Entries) /\ Len(c) = n - 1
      /\ \A i \in 1..(n - 1) : c[i] = IF i < p THEN q[i] ELSE q[i + 1]
  BY <1>1, CutOutFacts
<1>5. l.prev[A(p)] = A(p - 1) /\ l.next[A(p)] = A(p + 1)
  <2>1. p - 1 \in 0..n /\ p \in 0..n /\ p - 1 + 1 = p BY <1>1
  <2> QED BY <1>3, <2>1
<1>6. /\ r.next = [l.next EXCEPT ![A(p - 1)] = A(p + 1)]
      /\ r.prev = [l.prev EXCEPT ![A(p + 1)] = A(p - 1)]
      /\ r = [next |-> r.next, prev |-> r.prev]
  BY <1>1, <1>5 DEF RemoveFromList
<1>7. A(p - 1) \in Nodes /\ A(p + 1) \in Nodes BY <1>1
<1>8. ASSUME NEW i \in 0..n
      PROVE  NodeAt(c, i) = IF i < p THEN A(i) ELSE A(i + 1)
  <2>1. i = 0 \/ i = n \/ i \in 1..(n - 1) BY <1>1
  <2>2. CASE i = 0 BY <1>1, <2>2 DEF NodeAt
  <2>3. CASE i = n /\ i # 0
    <3>1. NodeAt(c, i) = Back BY <1>1, <1>4, <2>3 DEF NodeAt
    <3> QED BY <1>1, <2>3, <3>1
  <2>4. CASE i \in 1..(n - 1)
    <3>1. NodeAt(c, i) = c[i] BY <1>1, <1>4, <2>4 DEF NodeAt
    <3>2. i \in 1..n /\ i + 1 \in 1..n BY <1>1, <2>4
    <3> QED BY <1>1, <1>4, <2>4, <3>1, <3>2
  <2> QED BY <2>1, <2>2, <2>3, <2>4
<1> HIDE DEF n, c, r, A
<1>9. r \in Pointers
  BY <1>2, <1>6, <1>7 DEF Pointers
<1>10. ASSUME NEW i \in 0..(n - 1)
       PROVE  /\ r.next[NodeAt(c, i)] = NodeAt(c, i + 1)
              /\ r.prev[NodeAt(c, i + 1)] = NodeAt(c, i)
  <2>1. /\ i \in 0..n /\ i + 1 \in 0..n /\ i + 1 \in 0..(n + 1)
        /\ i + 2 \in 0..(n + 1) /\ i \in 0..(n + 1)
        /\ p - 1 \in 0..(n + 1) /\ p + 1 \in 0..(n + 1)
    BY <1>1
  <2>2. CASE i < p - 1
    <3>1. NodeAt(c, i) = A(i) /\ NodeAt(c, i + 1) = A(i + 1)
      BY <1>1, <1>8, <2>1, <2>2
    <3>2. A(i) # A(p - 1) /\ A(i + 1) # A(p + 1) BY <1>1, <2>1, <2>2
    <3>3. A(i) \in Nodes /\ A(i + 1) \in Nodes BY <1>1, <2>1
    <3> QED BY <1>2, <1>3, <1>6, <2>1, <3>1, <3>2, <3>3
  <2>3. CASE i = p - 1
    <3>1. NodeAt(c, i) = A(p - 1) /\ NodeAt(c, i + 1) = A(p + 1)
      BY <1>1, <1>8, <2>1, <2>3
    <3> QED BY <1>2, <1>6, <1>7, <3>1
  <2>4. CASE i > p - 1
    <3>1. i + 1 + 1 = i + 2 OBVIOUS
    <3>2. NodeAt(c, i) = A(i + 1) /\ NodeAt(c, i + 1) = A(i + 2)
      BY <1>1, <1>8, <2>1, <2>4, <3>1
    <3>3. A(i + 1) # A(p - 1) /\ A(i + 2) # A(p + 1) BY <1>1, <2>1, <2>4
    <3>4. A(i + 1) \in Nodes /\ A(i + 2) \in Nodes BY <1>1, <2>1
    <3>5. l.next[A(i + 1)] = A(i + 2) /\ l.prev[A(i + 2)] = A(i + 1)
      BY <1>3, <2>1, <3>1
    <3> QED BY <1>2, <1>6, <3>2, <3>3, <3>4, <3>5
  <2> QED BY <1>1, <2>2, <2>3, <2>4
<1>11. ASSUME NEW i \in 1..(n - 1), NEW j \in 1..(n - 1), c[i] = c[j]
       PROVE  i = j
  <2> DEFINE at(h) == IF h < p THEN h ELSE h + 1
  <2>1. \A h \in 1..(n - 1) : at(h) \in 1..n /\ c[h] = q[at(h)] BY <1>1, <1>4
  <2>2. \A a, b \in 1..n : q[a] = q[b] => a = b BY DEF Linked, n
  <2>3. at(i) = at(j) BY <1>11, <2>1, <2>2
  <2> QED BY <1>1, <2>3
<1> QED
  <2>1. Len(c) = n - 1 BY <1>4
  <2>2. Links(r, c) BY <1>10, <2>1 DEF Links
  <2>3. Linked(r, c) BY <1>4, <1>9, <1>11, <2>1, <2>2 DEF Linked
  <2> QED BY <2>3 DEF r, c

\* Adding an entry puts it in front of the sequence.
LEMMA Link ==
  ASSUME NEW l, NEW q, Linked(l, q), NEW e \in Entries,
         \A i \in 1..Len(q) : q[i] # e
  PROVE  Linked(AddToFront(l, e), PutFirst(e, q))
<1> DEFINE n == Len(q)
           f == PutFirst(e, q)
           r == AddToFront(l, e)
           A(i) == NodeAt(q, i)
<1>1. /\ q \in Seq(Entries) /\ n \in Nat
      /\ \A i \in 0..(n + 1) : A(i) \in Nodes
      /\ \A i, j \in 0..(n + 1) : A(i) = A(j) => i = j
      /\ A(0) = Front /\ A(n + 1) = Back /\ \A i \in 1..n : A(i) = q[i]
  BY NodeAtFacts DEF Linked
<1>2. /\ l.next \in [Nodes -> Nodes \cup {None}]
      /\ l.prev \in [Nodes -> Nodes \cup {None}]
  BY DEF Linked, Pointers
<1>3. \A i \in 0..n : l.next[A(i)] = A(i + 1) /\ l.prev[A(i + 1)] = A(i)
  BY DEF Linked, Links
<1>4. /\ f \in Seq(Entries) /\ Len(f) = n + 1
      /\ \A i \in 1..(n + 1) : f[i] = IF i = 1 THEN e ELSE q[i - 1]
  <2> HIDE DEF A, r
  <2>1. PutFirst(e, q) \in Seq(Entries) /\ Len(PutFirst(e, q)) = Len(q) + 1
    BY <1>1, PutFirstEntry
  <2>2. \A i \in 1..(Len(q) + 1) :
          PutFirst(e, q)[i] = IF i = 1 THEN e ELSE q[i - 1]
    BY <1>1, PutFirstEntry
  <2> QED BY <2>1, <2>2
<1>5. e \in Nodes /\ e # Front /\ e # Back /\ \A i \in 0..(n + 1) : A(i) # e
  <2>1. e \in Nodes /\ e # Front /\ e # Back BY NodesAssumption DEF Nodes
  <2>2. ASSUME NEW i \in 0..(n + 1) PROVE A(i) # e
    <3>1. i = 0 \/ i = n + 1 \/ i \in 1..n BY <1>1
    <3> QED BY <1>1, <2>1, <3>1
  <2> QED BY <2>1, <2>2
<1>6. l.next[Front] = A(1)
  <2>1. 0 \in 0..n BY <1>1
  <2>2. l.next[A(0)] = A(0 + 1) BY <1>3, <2>1
  <2> QED BY <1>1, <2>2
<1>7. /\ r.next = [l.next EXCEPT ![e] = A(1), ![Front] = e]
      /\ r.prev = [l.prev EXCEPT ![e] = Front, ![A(1)] = e]
      /\ r = [next |-> r.next, prev |-> r.prev]
  BY <1>6 DEF AddToFront
<1>8. ASSUME NEW i \in 0..(n + 2)
      PROVE  NodeAt(f, i) = IF i = 0 THEN Front ELSE IF i = 1 THEN e ELSE A(i - 1)
  <2>1. i = 0 \/ i = n + 2 \/ i \in 1..(n + 1) BY <1>1
  <2>2. CASE i = 0 BY <2>2 DEF NodeAt
  <2>3. CASE i = n + 2
    <3>1. NodeAt(f, i) = Back BY <1>1, <1>4, <2>3 DEF NodeAt
    <3>2. i - 1 = n + 1 /\ i # 0 /\ i # 1 BY <1>1, <2>3
    <3> QED BY <1>1, <3>1, <3>2
  <2>4. CASE i \in 1..(n + 1)
    <3>1. NodeAt(f, i) = f[i] BY <1>1, <1>4, <2>4 DEF NodeAt
    <3>2. i # 1 => i - 1 \in 1..n BY <1>1, <2>4
    <3> QED BY <1>1, <1>4, <2>4, <3>1, <3>2
  <2> QED BY <2>1, <2>2, <2>3, <2>4
<1>9. A(1) \in Nodes /\ Front \in Nodes /\ A(1) # Front
  <2>1. 1 \in 0..(n + 1) /\ 0 \in 0..(n + 1) BY <1>1
  <2>2. A(1) # A(0) BY <1>1, <2>1
  <2> QED BY <1>1, <2>1, <2>2
<1> HIDE DEF n, f, r, A
<1>10. r \in Pointers
  BY <1>2, <1>5, <1>7, <1>9 DEF Pointers
<1>11. ASSUME NEW i \in 0..(n + 1)
       PROVE  /\ r.next[NodeAt(f, i)] = NodeAt(f, i + 1)
              /\ r.prev[NodeAt(f, i + 1)] = NodeAt(f, i)
  <2>1. i \in 0..(n + 2) /\ i + 1 \in 0..(n + 2) BY <1>1
  <2>2. CASE i = 0
    <3>1. NodeAt(f, i) = Front /\ NodeAt(f, i + 1) = e BY <1>8, <2>1, <2>2
    <3>2. e # A(1)
      <4>1. 1 \in 0..(n + 1) BY <1>1
      <4> QED BY <1>5, <4>1
    <3> QED BY <1>2, <1>5, <1>7, <1>9, <3>1, <3>2
  <2>3. CASE i = 1
    <3>1. NodeAt(f, i) = e /\ NodeAt(f, i + 1) = A(1)
      BY <1>8, <2>1, <2>3
    <3> QED BY <1>2, <1>5, <1>7, <1>9, <3>1
  <2>4. CASE i > 1
    <3>1. i + 1 - 1 = i /\ i - 1 \in 0..n /\ i - 1 + 1 = i /\ i \in 0..(n + 1)
          /\ i - 1 \in 0..(n + 1) /\ 1 \in 0..(n + 1) /\ 0 \in 0..(n + 1)
      BY <1>1, <2>4
    <3>2. NodeAt(f, i) = A(i - 1) /\ NodeAt(f, i + 1) = A(i)
      BY <1>8, <2>1, <2>4, <3>1
    <3>3. A(i - 1) # Front /\ A(i - 1) # e /\ A(i) # e /\ A(i) # A(1)
      BY <1>1, <1>5, <2>4, <3>1
    <3>4. A(i - 1) \in Nodes /\ A(i) \in Nodes BY <1>1, <3>1
    <3>5. l.next[A(i - 1)] = A(i) /\ l.prev[A(i)] = A(i - 1) BY <1>3, <3>1
    <3> QED BY <1>2, <1>5, <1>7, <1>9, <3>2, <3>3, <3>4, <3>5
  <2> QED BY <1>1, <2>2, <2>3, <2>4
<1>12. ASSUME NEW i \in 1..(n + 1), NEW j \in 1..(n + 1), f[i] = f[j]
       PROVE  i = j
  <2>1. \A h \in 1..n : q[h] # e BY DEF n
  <2>2. \A a, b \in 1..n : q[a] = q[b] => a = b BY DEF Linked, n
  <2>3. i # 1 => i - 1 \in 1..n BY <1>1
  <2>4. j # 1 => j - 1 \in 1..n BY <1>1
  <2>5. CASE i = 1 \/ j = 1 BY <1>4, <1>12, <2>1, <2>3, <2>4, <2>5
  <2>6. CASE i # 1 /\ j # 1
    <3>1. i - 1 = j - 1 BY <1>4, <1>12, <2>2, <2>3, <2>4, <2>6
    <3> QED BY <3>1
  <2> QED BY <2>5, <2>6
<1> QED
  <2>1. Len(f) = n + 1 BY <1>4
  <2>2. Links(r, f) BY <1>11, <2>1 DEF Links
  <2>3. Linked(r, f) BY <1>4, <1>10, <1>12, <2>1, <2>2 DEF Linked
  <2> QED BY <2>3 DEF r, f

-----------------------------------------------------------------------------
(* The cache: the sequence r of its cells, most recently used first, is    *)
(* what the map m and the pointers of l represent.                         *)

Cells == [key : Keys, entry : Entries]
EntriesOf(r) == [i \in 1..Len(r) |-> r[i].entry]
Rep(l, m, r) ==
  /\ r \in Seq(Cells)
  /\ \A i, j \in 1..Len(r) : r[i].key = r[j].key => i = j
  /\ DOMAIN m = {r[i].key : i \in 1..Len(r)}
  /\ \A i \in 1..Len(r) : m[r[i].key] = r[i].entry
  /\ Linked(l, EntriesOf(r))

LEMMA EntriesOfFacts ==
  ASSUME NEW r \in Seq(Cells)
  PROVE  /\ Len(r) \in Nat
         /\ \A i \in 1..Len(r) : /\ r[i] \in Cells /\ r[i].key \in Keys
                                 /\ r[i].entry \in Entries
                                 /\ r[i] = [key |-> r[i].key, entry |-> r[i].entry]
         /\ EntriesOf(r) \in Seq(Entries) /\ Len(EntriesOf(r)) = Len(r)
         /\ \A i \in 1..Len(r) : EntriesOf(r)[i] = r[i].entry
<1>1. Len(r) \in Nat /\ \A i \in 1..Len(r) : r[i] \in Cells
  BY LenProperties, ElementOfSeq
<1>2. \A i \in 1..Len(r) : /\ r[i].key \in Keys /\ r[i].entry \in Entries
                           /\ r[i] = [key |-> r[i].key, entry |-> r[i].entry]
  BY <1>1 DEF Cells
<1>3. \A i \in 1..Len(r) : EntriesOf(r)[i] = r[i].entry BY DEF EntriesOf
<1>4. EntriesOf(r) \in [1..Len(r) -> Entries] BY <1>2 DEF EntriesOf
<1>5. EntriesOf(r) \in Seq(Entries) /\ Len(EntriesOf(r)) = Len(r)
  BY <1>1, <1>4, LenProperties
<1> QED BY <1>1, <1>2, <1>3, <1>5

LEMMA PutFirstCell ==
  ASSUME NEW q \in Seq(Cells), NEW x \in Cells
  PROVE  /\ PutFirst(x, q) \in Seq(Cells)
         /\ Len(PutFirst(x, q)) = Len(q) + 1
         /\ \A i \in 1..(Len(q) + 1) :
              PutFirst(x, q)[i] = IF i = 1 THEN x ELSE q[i - 1]
<1>1. PutFirst(x, q) \in Seq(Cells) /\ Len(PutFirst(x, q)) = Len(q) + 1
  <2>1. PutFirst(x, q) \in Seq(Cells) BY PutFirstFacts
  <2>2. Len(PutFirst(x, q)) = Len(q) + 1 BY PutFirstFacts
  <2> QED BY <2>1, <2>2
<1>2. \A i \in 1..(Len(q) + 1) :
        PutFirst(x, q)[i] = IF i = 1 THEN x ELSE q[i - 1]
  BY DEF PutFirst
<1> QED BY <1>1, <1>2

LEMMA EntriesOfCutOut ==
  ASSUME NEW r \in Seq(Cells), NEW p \in 1..Len(r)
  PROVE  EntriesOf(CutOut(r, p)) = CutOut(EntriesOf(r), p)
<1> DEFINE n == Len(r)
<1>1. /\ n \in Nat /\ EntriesOf(r) \in Seq(Entries) /\ Len(EntriesOf(r)) = n
      /\ \A i \in 1..n : EntriesOf(r)[i] = r[i].entry
  BY EntriesOfFacts
<1>2. CutOut(r, p) \in Seq(Cells) /\ Len(CutOut(r, p)) = n - 1
  BY CutOutFacts
<1>3. \A i \in 1..(n - 1) : CutOut(r, p)[i] = IF i < p THEN r[i] ELSE r[i + 1]
  BY CutOutFacts
<1>4. /\ EntriesOf(CutOut(r, p)) \in Seq(Entries)
      /\ Len(EntriesOf(CutOut(r, p))) = n - 1
      /\ \A i \in 1..(n - 1) :
           EntriesOf(CutOut(r, p))[i] = CutOut(r, p)[i].entry
  BY <1>2, EntriesOfFacts
<1>5. /\ CutOut(EntriesOf(r), p) \in Seq(Entries)
      /\ Len(CutOut(EntriesOf(r), p)) = n - 1
  BY <1>1, CutOutFacts
<1>6. \A i \in 1..(n - 1) : CutOut(EntriesOf(r), p)[i] =
          IF i < p THEN EntriesOf(r)[i] ELSE EntriesOf(r)[i + 1]
  BY <1>1, CutOutFacts
<1>7. ASSUME NEW i \in 1..(n - 1)
      PROVE  EntriesOf(CutOut(r, p))[i] = CutOut(EntriesOf(r), p)[i]
  <2>1. i \in 1..n /\ i + 1 \in 1..n BY <1>1
  <2> QED BY <1>1, <1>3, <1>4, <1>6, <2>1
<1> QED BY <1>4, <1>5, <1>7, SeqEqual

LEMMA EntriesOfPutFirst ==
  ASSUME NEW r \in Seq(Cells), NEW x \in Cells
  PROVE  EntriesOf(PutFirst(x, r)) = PutFirst(x.entry, EntriesOf(r))
<1> DEFINE n == Len(r)
           q == EntriesOf(r)
           f == PutFirst(x, r)
<1>1. /\ n \in Nat /\ q \in Seq(Entries) /\ Len(q) = n /\ x.entry \in Entries
      /\ \A i \in 1..n : q[i] = r[i].entry
  BY EntriesOfFacts DEF Cells
<1>2. f \in Seq(Cells) /\ Len(f) = n + 1 BY PutFirstCell
<1>3. \A i \in 1..(n + 1) : f[i] = IF i = 1 THEN x ELSE r[i - 1]
  BY PutFirstCell
<1>4. /\ EntriesOf(f) \in Seq(Entries) /\ Len(EntriesOf(f)) = n + 1
      /\ \A i \in 1..(n + 1) : EntriesOf(f)[i] = f[i].entry
  BY <1>2, EntriesOfFacts
<1>5. /\ PutFirst(x.entry, q) \in Seq(Entries)
      /\ Len(PutFirst(x.entry, q)) = n + 1
  BY <1>1, PutFirstEntry
<1>6. \A i \in 1..(n + 1) :
        PutFirst(x.entry, q)[i] = IF i = 1 THEN x.entry ELSE q[i - 1]
  BY <1>1, PutFirstEntry
<1> HIDE DEF n, q, f
<1>7. ASSUME NEW i \in 1..(n + 1)
      PROVE  EntriesOf(f)[i] = PutFirst(x.entry, q)[i]
  <2>1. EntriesOf(f)[i] = f[i].entry BY <1>4
  <2>2. CASE i = 1 BY <1>3, <1>6, <2>1, <2>2
  <2>3. CASE i # 1
    <3>1. i - 1 \in 1..n BY <1>1, <2>3
    <3>2. f[i] = r[i - 1] BY <1>3, <2>3
    <3>3. PutFirst(x.entry, q)[i] = q[i - 1] BY <1>6, <2>3
    <3> QED BY <1>1, <2>1, <3>1, <3>2, <3>3
  <2> QED BY <2>2, <2>3
<1> QED BY <1>4, <1>5, <1>7, SeqEqual DEF f, q

\* Taking out the cell at p.
LEMMA DropRep ==
  ASSUME NEW l, NEW m, NEW r, Rep(l, m, r), NEW p \in 1..Len(r)
  PROVE  /\ r[p].key \in DOMAIN m /\ m[r[p].key] = r[p].entry
         /\ Rep(RemoveFromList(l, r[p].entry), Drop(m, r[p].key), CutOut(r, p))
<1> DEFINE n == Len(r)
           c == CutOut(r, p)
           d == Drop(m, r[p].key)
<1>1. /\ r \in Seq(Cells) /\ n \in Nat /\ p \in 1..n
      /\ \A i, j \in 1..n : r[i].key = r[j].key => i = j
      /\ DOMAIN m = {r[i].key : i \in 1..n}
      /\ \A i \in 1..n : m[r[i].key] = r[i].entry
      /\ Linked(l, EntriesOf(r))
  BY EntriesOfFacts DEF Rep
<1>2. c \in Seq(Cells) /\ Len(c) = n - 1 BY <1>1, CutOutFacts
<1>3. \A i \in 1..(n - 1) : c[i] = IF i < p THEN r[i] ELSE r[i + 1]
  BY <1>1, CutOutFacts
<1>4. Linked(RemoveFromList(l, r[p].entry), EntriesOf(c))
  <2>1. EntriesOf(r)[p] = r[p].entry /\ p \in 1..Len(EntriesOf(r))
    BY <1>1, EntriesOfFacts
  <2>2. EntriesOf(c) = CutOut(EntriesOf(r), p) BY <1>1, EntriesOfCutOut
  <2> QED BY <1>1, <2>1, <2>2, Unlink
<1> DEFINE at(i) == IF i < p THEN i ELSE i + 1
<1>5. \A i \in 1..(n - 1) : at(i) \in 1..n /\ at(i) # p /\ c[i] = r[at(i)]
  BY <1>1, <1>3
<1>6. ASSUME NEW i \in 1..(n - 1), NEW j \in 1..(n - 1), c[i].key = c[j].key
      PROVE  i = j
  <2>1. at(i) = at(j) BY <1>1, <1>5, <1>6
  <2> QED BY <1>1, <2>1
<1>7. DOMAIN d = DOMAIN m \ {r[p].key} /\ \A k \in DOMAIN d : d[k] = m[k]
  BY DEF Drop
<1> HIDE DEF n, c, d
<1>8. DOMAIN d = {c[i].key : i \in 1..(n - 1)}
  <2>1. ASSUME NEW i \in 1..(n - 1) PROVE c[i].key \in DOMAIN d
    <3>1. r[at(i)].key # r[p].key BY <1>1, <1>5
    <3> QED BY <1>1, <1>5, <1>7, <3>1
  <2>2. ASSUME NEW k \in DOMAIN d PROVE \E i \in 1..(n - 1) : c[i].key = k
    <3>1. PICK i \in 1..n : r[i].key = k BY <1>1, <1>7
    <3>2. i # p BY <1>7, <3>1
    <3> DEFINE h == IF i < p THEN i ELSE i - 1
    <3>3. h \in 1..(n - 1) /\ at(h) = i BY <1>1, <3>2
    <3> QED BY <1>5, <3>1, <3>3
  <2> QED BY <2>1, <2>2
<1>9. ASSUME NEW i \in 1..(n - 1) PROVE d[c[i].key] = c[i].entry
  <2>1. d[c[i].key] = m[c[i].key] BY <1>7, <1>8
  <2>2. at(i) \in 1..n /\ c[i] = r[at(i)] BY <1>5
  <2> HIDE DEF at
  <2>3. m[r[at(i)].key] = r[at(i)].entry BY <1>1, <2>2
  <2> QED BY <2>1, <2>2, <2>3
<1>10. Rep(RemoveFromList(l, r[p].entry), d, c)
  BY <1>2, <1>4, <1>6, <1>8, <1>9 DEF Rep
<1> QED BY <1>1, <1>10 DEF c, d

\* Putting a cell with a new key and a new entry in front.
LEMMA PlusRep ==
  ASSUME NEW l, NEW m, NEW r, Rep(l, m, r), NEW k \in Keys, NEW e \in Entries,
         k \notin DOMAIN m, \A i \in 1..Len(r) : r[i].entry # e,
         NEW map, DOMAIN map = DOMAIN m \cup {k}, map[k] = e,
         \A j \in DOMAIN m : map[j] = m[j]
  PROVE  Rep(AddToFront(l, e), map, PutFirst([key |-> k, entry |-> e], r))
<1> DEFINE n == Len(r)
           x == [key |-> k, entry |-> e]
           f == PutFirst(x, r)
<1>1. /\ r \in Seq(Cells) /\ n \in Nat
      /\ \A i, j \in 1..n : r[i].key = r[j].key => i = j
      /\ DOMAIN m = {r[i].key : i \in 1..n}
      /\ \A i \in 1..n : m[r[i].key] = r[i].entry
      /\ Linked(l, EntriesOf(r))
  BY EntriesOfFacts DEF Rep
<1>2. x \in Cells /\ x.key = k /\ x.entry = e BY DEF Cells
<1> HIDE DEF x
<1>3. f \in Seq(Cells) /\ Len(f) = n + 1 BY <1>1, <1>2, PutFirstCell
<1>4. \A i \in 1..(n + 1) : f[i] = IF i = 1 THEN x ELSE r[i - 1]
  BY <1>1, <1>2, PutFirstCell
<1>5. Linked(AddToFront(l, e), EntriesOf(f))
  <2>1. /\ Len(EntriesOf(r)) = n
        /\ \A i \in 1..n : EntriesOf(r)[i] = r[i].entry
    BY <1>1, EntriesOfFacts
  <2>2. \A i \in 1..Len(EntriesOf(r)) : EntriesOf(r)[i] # e BY <2>1
  <2>3. EntriesOf(f) = PutFirst(e, EntriesOf(r))
    BY <1>1, <1>2, EntriesOfPutFirst
  <2> QED BY <1>1, <2>2, <2>3, Link
<1> HIDE DEF n, f
<1>6. \A i \in 1..n : r[i].key \in DOMAIN m /\ r[i].key # k BY <1>1
<1>7. \A i \in 1..(n + 1) : i # 1 => i - 1 \in 1..n BY <1>1
<1>8. ASSUME NEW i \in 1..(n + 1), NEW j \in 1..(n + 1), f[i].key = f[j].key
      PROVE  i = j
  <2>1. CASE i = 1 \/ j = 1 BY <1>2, <1>4, <1>6, <1>7, <1>8, <2>1
  <2>2. CASE i # 1 /\ j # 1
    <3>1. i - 1 = j - 1 BY <1>1, <1>4, <1>7, <1>8, <2>2
    <3> QED BY <3>1
  <2> QED BY <2>1, <2>2
<1>9. DOMAIN map = {f[i].key : i \in 1..(n + 1)}
  <2>1. ASSUME NEW i \in 1..(n + 1) PROVE f[i].key \in DOMAIN map
    <3>1. CASE i = 1 BY <1>2, <1>4, <3>1
    <3>2. CASE i # 1 BY <1>4, <1>6, <1>7, <3>2
    <3> QED BY <3>1, <3>2
  <2>2. ASSUME NEW j \in DOMAIN map PROVE \E i \in 1..(n + 1) : f[i].key = j
    <3>1. CASE j = k
      <4>1. 1 \in 1..(n + 1) BY <1>1
      <4> QED BY <1>2, <1>4, <3>1, <4>1
    <3>2. CASE j \in DOMAIN m
      <4>1. PICK i \in 1..n : r[i].key = j BY <1>1, <3>2
      <4>2. i + 1 \in 1..(n + 1) /\ i + 1 # 1 /\ i + 1 - 1 = i BY <1>1
      <4> QED BY <1>4, <4>1, <4>2
    <3> QED BY <3>1, <3>2
  <2> QED BY <2>1, <2>2
<1>10. ASSUME NEW i \in 1..(n + 1) PROVE map[f[i].key] = f[i].entry
  <2>1. CASE i = 1 BY <1>2, <1>4, <2>1
  <2>2. CASE i # 1
    <3>1. f[i] = r[i - 1] /\ i - 1 \in 1..n BY <1>4, <1>7, <2>2
    <3> QED BY <1>1, <1>6, <3>1
  <2> QED BY <2>1, <2>2
<1>11. Rep(AddToFront(l, e), map, f)
  BY <1>3, <1>5, <1>8, <1>9, <1>10 DEF Rep
<1> QED BY <1>11 DEF f, x

\* Evict drops the last cell.
LEMMA EvictRep ==
  ASSUME NEW l, NEW m, NEW r, Rep(l, m, r), Len(r) > 0, NEW x \in Evict(l, m)
  PROVE  Rep(x[1], x[2], SubSeq(r, 1, Len(r) - 1))
<1> DEFINE n == Len(r)
           q == EntriesOf(r)
           b == r[n].entry
<1>1. /\ r \in Seq(Cells) /\ n \in Nat /\ n \in 1..n
      /\ \A i, j \in 1..n : r[i].key = r[j].key => i = j
      /\ DOMAIN m = {r[i].key : i \in 1..n}
      /\ \A i \in 1..n : m[r[i].key] = r[i].entry
      /\ Linked(l, q)
      /\ q \in Seq(Entries) /\ Len(q) = n /\ \A i \in 1..n : q[i] = r[i].entry
  BY EntriesOfFacts DEF Rep
<1>2. \A i, j \in 1..n : q[i] = q[j] => i = j BY <1>1 DEF Linked
<1>3. l.prev[Back] = b /\ b \in Entries
  <2>1. NodeAt(q, n) = b /\ NodeAt(q, n + 1) = Back
    BY <1>1, <1>2, NodeAtFacts
  <2>2. l.prev[NodeAt(q, n + 1)] = NodeAt(q, n) BY <1>1 DEF Linked, Links
  <2>3. b \in Entries BY <1>1, EntriesOfFacts
  <2> QED BY <2>1, <2>2, <2>3
<1>4. {k \in DOMAIN m : m[k] = b} = {r[n].key}
  <2>1. r[n].key \in DOMAIN m /\ m[r[n].key] = b BY <1>1
  <2>2. ASSUME NEW k \in DOMAIN m, m[k] = b PROVE k = r[n].key
    <3>1. PICK i \in 1..n : r[i].key = k BY <1>1
    <3>2. q[i] = q[n] BY <1>1, <2>2, <3>1
    <3> QED BY <1>1, <1>2, <3>1, <3>2
  <2> QED BY <2>1, <2>2
<1>5. b # Front BY <1>3, NodesAssumption
<1>6. Evict(l, m) = {<<RemoveFromList(l, b), Drop(m, r[n].key)>>}
  BY <1>3, <1>4, <1>5 DEF Evict
<1>7. Rep(RemoveFromList(l, b), Drop(m, r[n].key), CutOut(r, n))
  BY <1>1, DropRep
<1>8. CutOut(r, n) = SubSeq(r, 1, n - 1)
  <2>1. CutOut(r, n) = [i \in 1..(n - 1) |-> r[i]] BY <1>1 DEF CutOut
  <2>2. SubSeq(r, 1, n - 1) = [i \in 1..(n - 1) |-> r[i]]
    BY <1>1
  <2> QED BY <2>1, <2>2
<1> QED BY <1>6, <1>7, <1>8

\* The map has one key, and one entry, per cell.
LEMMA RepSize ==
  ASSUME NEW l, NEW m, NEW r, Rep(l, m, r)
  PROVE  /\ Len(r) \in Nat
         /\ Cardinality(DOMAIN m) = Len(r)
         /\ {m[k] : k \in DOMAIN m} = {r[i].entry : i \in 1..Len(r)}
         /\ Cardinality({m[k] : k \in DOMAIN m}) = Len(r)
<1> DEFINE n == Len(r)
           q == EntriesOf(r)
           K == [i \in 1..n |-> r[i].key]
           V == {r[i].entry : i \in 1..n}
<1>1. /\ n \in Nat
      /\ \A i, j \in 1..n : r[i].key = r[j].key => i = j
      /\ DOMAIN m = {r[i].key : i \in 1..n}
      /\ \A i \in 1..n : m[r[i].key] = r[i].entry
      /\ Len(q) = n /\ \A i \in 1..n : q[i] = r[i].entry
  BY EntriesOfFacts DEF Rep
<1>2. \A i, j \in 1..n : q[i] = q[j] => i = j BY <1>1 DEF Rep, Linked
<1>3. Cardinality(DOMAIN m) = n
  <2>1. K \in [1..n -> DOMAIN m] BY <1>1
  <2>2. \A a, b \in 1..n : K[a] = K[b] => a = b BY <1>1
  <2>3. \A t \in DOMAIN m : \E a \in 1..n : K[a] = t BY <1>1
  <2> HIDE DEF K
  <2>4. K \in Bijection(1..n, DOMAIN m)
    BY <2>1, <2>2, <2>3
    DEF Bijection, Injection, Surjection, IsInjective
  <2>5. ExistsBijection(1..n, DOMAIN m) BY <2>4 DEF ExistsBijection
  <2> QED BY <1>1, <2>5, FS_CountingElements
<1>4. {m[k] : k \in DOMAIN m} = V BY <1>1
<1>5. Cardinality(V) = n
  <2> DEFINE E == [i \in 1..n |-> r[i].entry]
  <2>1. E \in [1..n -> V] OBVIOUS
  <2>2. \A a, b \in 1..n : E[a] = E[b] => a = b BY <1>1, <1>2
  <2>3. \A t \in V : \E a \in 1..n : E[a] = t OBVIOUS
  <2> HIDE DEF E, V
  <2>4. E \in Bijection(1..n, V)
    BY <2>1, <2>2, <2>3
    DEF Bijection, Injection, Surjection, IsInjective
  <2>5. ExistsBijection(1..n, V) BY <2>4 DEF ExistsBijection
  <2> QED BY <1>1, <2>5, FS_CountingElements
<1> QED BY <1>1, <1>3, <1>4, <1>5

-----------------------------------------------------------------------------
(* Reading the list forwards gives the cells back.                         *)

Walk(nx, n) ==
  LET step[i \in 0..n] == IF i = 0 THEN Front ELSE nx[step[i - 1]] IN step
ReadCells(nx, m) ==
  [i \in 1..Cardinality(DOMAIN m) |->
     LET e == Walk(nx, Cardinality(DOMAIN m))[i]
     IN  [key |-> CHOOSE k \in DOMAIN m : m[k] = e, entry |-> e]]
Recent == [i \in 1..Size |-> [key |-> KeyOf(Node[i]), entry |-> Node[i]]]

LEMMA RecentIsRead ==
  /\ Node = Walk(next, Cardinality(DOMAIN items))
  /\ Recent = ReadCells(next, items)
  /\ Recent' = ReadCells(next', items')
<1>1. Node = Walk(next, Size) BY DEF Node, Walk
<1>2. Node' = Walk(next', Size') BY DEF Node, Walk
<1>3. Recent = ReadCells(next, items)
  BY <1>1 DEF Recent, ReadCells, KeyOf, Size
<1>4. Recent' = ReadCells(next', items')
  BY <1>2 DEF Recent, ReadCells, KeyOf, Size
<1> QED BY <1>1, <1>3, <1>4 DEF Size

\* The recursion has one solution.
Follow(nx, n, q) ==
  /\ NodeAt(q, 0) = Front
  /\ \A i \in 1..n : NodeAt(q, i) = nx[NodeAt(q, i - 1)]

LEMMA WalkValue ==
  ASSUME NEW nx, NEW n \in Nat, NEW q, Follow(nx, n, q)
  PROVE  \A i \in 0..n : Walk(nx, n)[i] = NodeAt(q, i)
<1> DEFINE P(s) == s = [i \in 0..n |-> IF i = 0 THEN Front ELSE nx[s[i - 1]]]
           v == CHOOSE s : P(s)
           w == [i \in 0..n |-> NodeAt(q, i)]
<1>1. /\ Walk(nx, n) = v
      /\ NodeAt(q, 0) = Front
      /\ \A i \in 1..n : NodeAt(q, i) = nx[NodeAt(q, i - 1)]
  BY DEF Walk, Follow
<1>2. P(v)
  <2>1. ASSUME NEW i \in 0..n
        PROVE  NodeAt(q, i) = IF i = 0 THEN Front ELSE nx[w[i - 1]]
    <3>1. i # 0 => i \in 1..n /\ i - 1 \in 0..n OBVIOUS
    <3>2. i # 0 => w[i - 1] = NodeAt(q, i - 1) BY <3>1
    <3> QED BY <1>1, <3>1, <3>2
  <2>2. P(w) BY <2>1
  <2> HIDE DEF P, w
  <2> QED BY <2>2
<1> HIDE DEF v
<1>3. /\ v[0] = Front
      /\ \A i \in 1..n : v[i] = nx[v[i - 1]]
  <2>1. 0 \in 0..n /\ \A i \in 1..n : i \in 0..n /\ i # 0 OBVIOUS
  <2> QED BY <1>2, <2>1
<1>4. \A i \in 0..n : v[i] = NodeAt(q, i)
  <2> DEFINE T == {i \in 0..n : v[i] # NodeAt(q, i)}
  <2>1. SUFFICES ASSUME T # {} PROVE FALSE OBVIOUS
  <2>2. PICK i \in T : \A j \in T : ~(j < i)
    <3>1. T \in SUBSET Nat OBVIOUS
    <3> HIDE DEF T
    <3> QED BY <2>1, <3>1, LeastElement
  <2>3. i # 0 /\ i \in 0..n BY <1>1, <1>3, <2>2
  <2>4. i \in 1..n /\ i - 1 \in 0..n /\ i - 1 < i BY <2>3
  <2>5. v[i - 1] = NodeAt(q, i - 1) BY <2>2, <2>4
  <2> QED BY <1>1, <1>3, <2>2, <2>4, <2>5
<1> QED BY <1>1, <1>4

LEMMA ReadBack ==
  ASSUME NEW l, NEW m, NEW r, Rep(l, m, r)
  PROVE  /\ \A i \in 0..Len(r) :
              Walk(l.next, Len(r))[i] = NodeAt(EntriesOf(r), i)
         /\ \A i \in 1..Len(r) : NodeAt(EntriesOf(r), i) = r[i].entry
         /\ ReadCells(l.next, m) = r
<1> DEFINE n == Len(r)
           q == EntriesOf(r)
<1>1. /\ r \in Seq(Cells) /\ n \in Nat
      /\ \A i, j \in 1..n : r[i].key = r[j].key => i = j
      /\ DOMAIN m = {r[i].key : i \in 1..n}
      /\ \A i \in 1..n : m[r[i].key] = r[i].entry
      /\ q \in Seq(Entries) /\ Len(q) = n /\ \A i \in 1..n : q[i] = r[i].entry
      /\ \A i \in 1..n : r[i] = [key |-> r[i].key, entry |-> r[i].entry]
  BY EntriesOfFacts DEF Rep
<1>2. /\ \A i, j \in 1..n : q[i] = q[j] => i = j
      /\ \A i \in 0..n : l.next[NodeAt(q, i)] = NodeAt(q, i + 1)
  BY <1>1 DEF Rep, Linked, Links
<1>3. NodeAt(q, 0) = Front /\ \A i \in 1..n : NodeAt(q, i) = r[i].entry
  BY <1>1, <1>2, NodeAtFacts
<1> HIDE DEF n, q
<1>4. \A i \in 1..n : NodeAt(q, i) = l.next[NodeAt(q, i - 1)]
  <2>1. \A i \in 1..n : i - 1 \in 0..n /\ i - 1 + 1 = i BY <1>1
  <2> QED BY <1>2, <2>1
<1>6. \A i \in 0..n : Walk(l.next, n)[i] = NodeAt(q, i)
  <2>1. Follow(l.next, n, q) BY <1>3, <1>4 DEF Follow
  <2> QED BY <1>1, <2>1, WalkValue
<1>7. \A i \in 1..n : Walk(l.next, n)[i] = r[i].entry
  <2>1. \A i \in 1..n : i \in 0..n BY <1>1
  <2> QED BY <1>3, <1>6, <2>1
<1>8. ASSUME NEW i \in 1..n
      PROVE  (CHOOSE k \in DOMAIN m : m[k] = r[i].entry) = r[i].key
  <2>1. r[i].key \in DOMAIN m /\ m[r[i].key] = r[i].entry BY <1>1
  <2>2. ASSUME NEW k \in DOMAIN m, m[k] = r[i].entry PROVE k = r[i].key
    <3>1. PICK j \in 1..n : r[j].key = k BY <1>1
    <3>2. q[i] = q[j] BY <1>1, <2>2, <3>1
    <3> QED BY <1>2, <3>1, <3>2
  <2> QED BY <2>1, <2>2
<1>9. Cardinality(DOMAIN m) = n BY RepSize DEF n
<1>10. ReadCells(l.next, m) = [i \in 1..n |-> r[i]]
  <2>1. ASSUME NEW i \in 1..n
        PROVE  [key |-> CHOOSE k \in DOMAIN m :
                          m[k] = Walk(l.next, n)[i],
                entry |-> Walk(l.next, n)[i]] = r[i]
    <3> DEFINE e == Walk(l.next, n)[i]
    <3>1. e = r[i].entry BY <1>7
    <3> HIDE DEF e
    <3>2. (CHOOSE k \in DOMAIN m : m[k] = e) = r[i].key BY <1>8, <3>1
    <3>3. r[i] = [key |-> r[i].key, entry |-> r[i].entry] BY <1>1
    <3>4. [key |-> CHOOSE k \in DOMAIN m : m[k] = e, entry |-> e] = r[i]
      BY <3>1, <3>2, <3>3
    <3> QED BY <3>4 DEF e
  <2> QED BY <1>9, <2>1 DEF ReadCells
<1>11. r = [i \in 1..n |-> r[i]] BY <1>1 DEF n
<1> QED BY <1>3, <1>6, <1>10, <1>11 DEF n, q

-----------------------------------------------------------------------------
(* What the operators of the abstract cache do to such a sequence.         *)

LEMMA AbstractHit ==
  ASSUME NEW r \in Seq(Cells),
         \A i, j \in 1..Len(r) : r[i].key = r[j].key => i = j,
         NEW p \in 1..Len(r)
  PROVE  /\ Abstract!Holds(r, r[p].key)
         /\ Abstract!EntryOf(r, r[p].key) = r[p].entry
         /\ Abstract!Without(r, r[p].key) = CutOut(r, p)
         /\ Abstract!Used(r, r[p].key) = PutFirst(r[p], CutOut(r, p))
<1>1. DOMAIN r = 1..Len(r) /\ r[p] \in Cells
      /\ r[p] = [key |-> r[p].key, entry |-> r[p].entry]
  BY EntriesOfFacts
<1>2. Abstract!Holds(r, r[p].key) BY <1>1 DEF Abstract!Holds
<1>3. Abstract!Place(r, r[p].key) = p BY <1>1 DEF Abstract!Place
<1>4. Abstract!EntryOf(r, r[p].key) = r[p].entry
  BY <1>3 DEF Abstract!EntryOf
<1>5. Abstract!Without(r, r[p].key) = CutOut(r, p)
  <2>1. CutOut(r, p) = SubSeq(r, 1, p - 1) \o SubSeq(r, p + 1, Len(r))
    BY CutOutFacts
  <2> QED BY <1>2, <1>3, <2>1 DEF Abstract!Without
<1>6. Abstract!Used(r, r[p].key) = <<r[p]>> \o CutOut(r, p)
  BY <1>1, <1>2, <1>4, <1>5 DEF Abstract!Used
<1>7. PutFirst(r[p], CutOut(r, p)) = <<r[p]>> \o CutOut(r, p)
  <2>1. CutOut(r, p) \in Seq(Cells) BY CutOutFacts
  <2> QED BY <1>1, <2>1, PutFirstFacts
<1> QED BY <1>2, <1>4, <1>5, <1>6, <1>7

LEMMA AbstractMiss ==
  ASSUME NEW r \in Seq(Cells), NEW k, \A i \in 1..Len(r) : r[i].key # k
  PROVE  /\ ~Abstract!Holds(r, k)
         /\ Abstract!Without(r, k) = r
         /\ Abstract!Used(r, k) = r
<1>1. DOMAIN r = 1..Len(r) OBVIOUS
<1> QED
  BY <1>1 DEF Abstract!Holds, Abstract!Without, Abstract!Used

-----------------------------------------------------------------------------
(* The inductive invariant of the cache, and its steps.                    *)

ListInv ==
  /\ Rep(List, items, Recent)
  /\ Len(Recent) <= Capacity
  /\ result \in Entries \cup {None}

\* A step that sets the list and the map to represent s.
LEMMA Settled ==
  ASSUME NEW l, NEW s, SetList(l), Rep(l, items', s), Len(s) <= Capacity,
         result' \in Entries \cup {None}
  PROVE  ListInv' /\ Recent' = s
<1>1. l = [next |-> l.next, prev |-> l.prev]
  BY DEF Rep, Linked, Pointers
<1>2. List' = l BY <1>1 DEF List, SetList
<1>3. Recent' = s
  <2>1. next' = l.next BY DEF SetList
  <2> QED BY <2>1, ReadBack, RecentIsRead
<1> QED BY <1>2, <1>3 DEF ListInv

LEMMA InitListInv == ListInit => ListInv /\ Abstract!Init
<1> SUFFICES ASSUME ListInit PROVE ListInv /\ Abstract!Init OBVIOUS
<1> DEFINE q == EntriesOf(<< >>)
<1>1. << >> \in Seq(Cells) /\ Len(<< >>) = 0 OBVIOUS
<1>2. q \in Seq(Entries) /\ Len(q) = 0 BY <1>1, EntriesOfFacts
<1>3. List \in Pointers
  BY DEF ListInit, List, Pointers, Nodes
<1>4. Links(List, q)
  <2>1. /\ NodeAt(q, 0) = Front /\ NodeAt(q, 0 + 1) = Back
    BY <1>2 DEF NodeAt
  <2>2. next[Front] = Back /\ prev[Back] = Front
    BY DEF ListInit, Nodes
  <2>3. \A i \in 0..Len(q) : i = 0 BY <1>2
  <2> QED BY <2>1, <2>2, <2>3 DEF Links, List
<1>5. Linked(List, q) BY <1>2, <1>3, <1>4 DEF Linked
<1>6. DOMAIN items = {} BY DEF ListInit
<1>7. Rep(List, items, << >>) BY <1>1, <1>5, <1>6 DEF Rep
<1>8. Recent = << >>
  <2>1. List.next = next BY DEF List
  <2> QED BY <1>7, <2>1, ReadBack, RecentIsRead
<1>9. ListInv
  BY <1>1, <1>7, <1>8, CapacityAssumption DEF ListInv, ListInit
<1>10. Abstract!Init BY <1>8 DEF Abstract!Init, ListInit, Recent
<1> QED BY <1>9, <1>10

\* A cell is moved to the front.
LEMMA MoveRep ==
  ASSUME NEW l, NEW m, NEW r, Rep(l, m, r), NEW p \in 1..Len(r)
  PROVE  /\ Rep(MoveToFront(l, r[p].entry), m, PutFirst(r[p], CutOut(r, p)))
         /\ Len(PutFirst(r[p], CutOut(r, p))) = Len(r)
<1> DEFINE k == r[p].key
           e == r[p].entry
           c == CutOut(r, p)
           u == RemoveFromList(l, e)
           d == Drop(m, k)
<1>1. /\ r \in Seq(Cells) /\ Len(r) \in Nat /\ k \in Keys /\ e \in Entries
      /\ r[p] \in Cells /\ r[p] = [key |-> k, entry |-> e]
      /\ \A i \in 1..Len(r) : EntriesOf(r)[i] = r[i].entry
      /\ Len(EntriesOf(r)) = Len(r)
  BY EntriesOfFacts DEF Rep
<1>2. k \in DOMAIN m /\ m[k] = e /\ Rep(u, d, c) BY DropRep
<1>3. c \in Seq(Cells) /\ Len(c) = Len(r) - 1 BY <1>1, CutOutFacts
<1>4. \A i \in 1..(Len(r) - 1) : c[i] = IF i < p THEN r[i] ELSE r[i + 1]
  BY <1>1, CutOutFacts
<1>5. \A i \in 1..Len(c) : c[i].entry # e
  <2>1. \A i, j \in 1..Len(r) : r[i].entry = r[j].entry => i = j
    BY <1>1 DEF Rep, Linked
  <2>2. \A i \in 1..Len(c) : /\ i < p => i \in 1..Len(r) /\ i # p
                             /\ ~(i < p) => i + 1 \in 1..Len(r) /\ i + 1 # p
    BY <1>1, <1>3
  <2> QED BY <1>1, <1>3, <1>4, <2>1, <2>2
<1>6. /\ DOMAIN d = DOMAIN m \ {k} /\ \A j \in DOMAIN d : d[j] = m[j]
  BY DEF Drop
<1> HIDE DEF k, e, c, u, d
<1>7. Len(PutFirst(r[p], c)) = Len(r)
  <2>1. Len(PutFirst(r[p], c)) = Len(c) + 1 BY <1>1, <1>3, PutFirstCell
  <2> QED BY <1>1, <1>3, <2>1
<1>8. DOMAIN m = DOMAIN d \cup {k} /\ k \notin DOMAIN d BY <1>2, <1>6
<1>9. Rep(AddToFront(u, e), m, PutFirst([key |-> k, entry |-> e], c))
  BY <1>1, <1>2, <1>5, <1>6, <1>8, PlusRep
<1> QED BY <1>1, <1>7, <1>9 DEF MoveToFront, u, c, e

LEMMA GetList ==
  ASSUME ListInv, NEW k \in Keys, Get(k)
  PROVE  ListInv' /\ Abstract!Get(k)
<1> DEFINE r == Recent
<1>1. /\ Rep(List, items, r) /\ Len(r) <= Capacity /\ r \in Seq(Cells)
      /\ \A i, j \in 1..Len(r) : r[i].key = r[j].key => i = j
      /\ DOMAIN items = {r[i].key : i \in 1..Len(r)}
      /\ \A i \in 1..Len(r) : items[r[i].key] = r[i].entry
  BY DEF ListInv, Rep
<1> HIDE DEF r
<1>2. CASE k \in DOMAIN items
  <2>1. PICK p \in 1..Len(r) : r[p].key = k BY <1>1, <1>2
  <2> DEFINE e == r[p].entry
             s == PutFirst(r[p], CutOut(r, p))
  <2>2. e \in Entries /\ items[k] = e BY <1>1, <2>1, EntriesOfFacts
  <2>3. /\ SetList(MoveToFront(List, e)) /\ items' = items /\ result' = e
    BY <1>2, <2>2 DEF Get
  <2>4. Rep(MoveToFront(List, e), items, s) /\ Len(s) = Len(r)
    BY <1>1, MoveRep
  <2>5. /\ Abstract!Holds(r, k) /\ Abstract!EntryOf(r, k) = e
        /\ Abstract!Used(r, k) = s
    BY <1>1, <2>1, AbstractHit
  <2> HIDE DEF e, s
  <2>6. ListInv' /\ Recent' = s BY <1>1, <2>2, <2>3, <2>4, Settled
  <2>7. Abstract!Get(k)
    BY <2>3, <2>5, <2>6 DEF Abstract!Get, Recent, r
  <2> QED BY <2>6, <2>7
<1>3. CASE k \notin DOMAIN items
  <2>1. result' = None /\ items' = items /\ next' = next /\ prev' = prev
    BY <1>3 DEF Get
  <2>2. SetList(List) BY <2>1 DEF SetList, List
  <2>3. ListInv' /\ Recent' = r BY <1>1, <2>1, <2>2, Settled
  <2>4. ~Abstract!Holds(r, k) /\ Abstract!Used(r, k) = r
    BY <1>1, <1>3, AbstractMiss
  <2>5. Abstract!Get(k)
    BY <2>1, <2>3, <2>4 DEF Abstract!Get, Recent, r
  <2> QED BY <2>3, <2>5
<1> QED BY <1>2, <1>3

LEMMA RemoveList ==
  ASSUME ListInv, NEW k \in Keys, Remove(k)
  PROVE  ListInv' /\ Abstract!Remove(k)
<1> DEFINE r == Recent
<1>1. /\ Rep(List, items, r) /\ Len(r) <= Capacity /\ r \in Seq(Cells)
      /\ \A i, j \in 1..Len(r) : r[i].key = r[j].key => i = j
      /\ DOMAIN items = {r[i].key : i \in 1..Len(r)}
      /\ \A i \in 1..Len(r) : items[r[i].key] = r[i].entry
      /\ Len(r) \in Nat
  BY EntriesOfFacts DEF ListInv, Rep
<1>2. result' = None BY DEF Remove
<1> HIDE DEF r
<1>3. CASE k \in DOMAIN items
  <2>1. PICK p \in 1..Len(r) : r[p].key = k BY <1>1, <1>3
  <2> DEFINE e == r[p].entry
             s == CutOut(r, p)
  <2>2. e \in Entries /\ items[k] = e BY <1>1, <2>1, EntriesOfFacts
  <2>3. SetList(RemoveFromList(List, e)) /\ items' = Drop(items, k)
    BY <1>3, <2>2 DEF Remove
  <2>4. Rep(RemoveFromList(List, e), Drop(items, k), s)
    BY <1>1, <2>1, DropRep
  <2>5. Len(s) = Len(r) - 1 BY <1>1, CutOutFacts
  <2>6. Abstract!Without(r, k) = s BY <1>1, <2>1, AbstractHit
  <2> HIDE DEF e, s
  <2>7. Len(s) <= Capacity BY <1>1, <2>5, CapacityAssumption
  <2>8. ListInv' /\ Recent' = s BY <1>2, <2>3, <2>4, <2>7, Settled
  <2>9. Abstract!Remove(k)
    BY <1>2, <2>6, <2>8 DEF Abstract!Remove, Recent, r
  <2> QED BY <2>8, <2>9
<1>4. CASE k \notin DOMAIN items
  <2>1. items' = items /\ next' = next /\ prev' = prev
    BY <1>4 DEF Remove
  <2>2. SetList(List) BY <2>1 DEF SetList, List
  <2>3. ListInv' /\ Recent' = r BY <1>1, <1>2, <2>1, <2>2, Settled
  <2>4. Abstract!Without(r, k) = r BY <1>1, <1>4, AbstractMiss
  <2>5. Abstract!Remove(k)
    BY <1>2, <2>3, <2>4 DEF Abstract!Remove, Recent, r
  <2> QED BY <2>3, <2>5
<1> QED BY <1>3, <1>4

\* What is left of the cache once the key to be added is gone.
UnlinkKey(l, m, k) == IF k \in DOMAIN m THEN RemoveFromList(l, m[k]) ELSE l
DropKey(m, k) == IF k \in DOMAIN m THEN Drop(m, k) ELSE m

LEMMA UnlinkedRep ==
  ASSUME NEW l, NEW m, NEW r, Rep(l, m, r), NEW k
  PROVE  /\ Rep(UnlinkKey(l, m, k), DropKey(m, k), Abstract!Without(r, k))
         /\ k \notin DOMAIN DropKey(m, k)
         /\ DOMAIN m \cup {k} = DOMAIN DropKey(m, k) \cup {k}
         /\ \A j \in DOMAIN DropKey(m, k) : j # k /\ DropKey(m, k)[j] = m[j]
         /\ \A i \in 1..Len(Abstract!Without(r, k)) :
              \E j \in 1..Len(r) : Abstract!Without(r, k)[i] = r[j]
         /\ Len(Abstract!Without(r, k)) <= Len(r)
<1>1. /\ r \in Seq(Cells)
      /\ \A i, j \in 1..Len(r) : r[i].key = r[j].key => i = j
      /\ DOMAIN m = {r[i].key : i \in 1..Len(r)}
      /\ Len(r) \in Nat
  BY EntriesOfFacts DEF Rep
<1>2. CASE k \in DOMAIN m
  <2>1. PICK p \in 1..Len(r) : r[p].key = k BY <1>1, <1>2
  <2>2. m[k] = r[p].entry BY <2>1, DropRep
  <2>3. Rep(RemoveFromList(l, m[k]), Drop(m, k), CutOut(r, p))
    BY <2>1, <2>2, DropRep
  <2>4. Abstract!Without(r, k) = CutOut(r, p) BY <1>1, <2>1, AbstractHit
  <2>5. Len(CutOut(r, p)) = Len(r) - 1 BY <1>1, CutOutFacts
  <2>6. \A i \in 1..(Len(r) - 1) :
          CutOut(r, p)[i] = IF i < p THEN r[i] ELSE r[i + 1]
    BY <1>1, CutOutFacts
  <2>7. \A i \in 1..Len(CutOut(r, p)) :
          \E j \in 1..Len(r) : CutOut(r, p)[i] = r[j]
    <3>1. \A i \in 1..(Len(r) - 1) : i \in 1..Len(r) /\ i + 1 \in 1..Len(r)
      BY <1>1
    <3> QED BY <2>5, <2>6, <3>1
  <2>8. /\ k \notin DOMAIN Drop(m, k)
        /\ DOMAIN m \cup {k} = DOMAIN Drop(m, k) \cup {k}
        /\ \A j \in DOMAIN Drop(m, k) : j # k /\ Drop(m, k)[j] = m[j]
    BY <1>2 DEF Drop
  <2>9. Len(CutOut(r, p)) <= Len(r) BY <1>1, <2>5
  <2>10. UnlinkKey(l, m, k) = RemoveFromList(l, m[k]) /\ DropKey(m, k) = Drop(m, k)
    BY <1>2 DEF UnlinkKey, DropKey
  <2> QED BY <2>3, <2>4, <2>7, <2>8, <2>9, <2>10
<1>3. CASE k \notin DOMAIN m
  <2>1. Abstract!Without(r, k) = r BY <1>1, <1>3, AbstractMiss
  <2>2. UnlinkKey(l, m, k) = l /\ DropKey(m, k) = m
    BY <1>3 DEF UnlinkKey, DropKey
  <2> QED BY <1>1, <1>3, <2>1, <2>2
<1> QED BY <1>2, <1>3

LEMMA AddList ==
  ASSUME ListInv, NEW k \in Keys, NEW e \in Entries, Add(k, e)
  PROVE  ListInv' /\ Abstract!Add(k, e)
<1> DEFINE r == Recent
           w == Abstract!Without(r, k)
           u == UnlinkKey(List, items, k)
           d == DropKey(items, k)
           x == [key |-> k, entry |-> e]
           map == [j \in DOMAIN items \cup {k} |->
                     IF j = k THEN e ELSE items[j]]
           l == AddToFront(u, e)
           f == PutFirst(x, w)
           n == Len(f)
<1>1. /\ Rep(List, items, r) /\ Len(r) <= Capacity
      /\ r \in Seq(Cells) /\ Len(r) \in Nat
      /\ DOMAIN items = {r[i].key : i \in 1..Len(r)}
      /\ \A i \in 1..Len(r) : items[r[i].key] = r[i].entry
  BY EntriesOfFacts DEF ListInv, Rep
<1>2. PICK after \in IF Cardinality(DOMAIN map) > Capacity
                     THEN Evict(l, map) ELSE {<<l, map>>} :
        SetList(after[1]) /\ items' = after[2]
  BY DEF Add, UnlinkKey
<1>3. result' = None /\ \A j \in DOMAIN items : items[j] # e
  BY DEF Add, Fresh
<1>4. \A i \in 1..Len(r) : r[i].entry # e BY <1>1, <1>3
<1>5. /\ DOMAIN map = DOMAIN items \cup {k} /\ map[k] = e
      /\ \A j \in DOMAIN items : j # k => map[j] = items[j]
  OBVIOUS
<1> HIDE DEF r, map
<1>6. /\ Rep(u, d, w) /\ k \notin DOMAIN d
      /\ DOMAIN items \cup {k} = DOMAIN d \cup {k}
      /\ \A j \in DOMAIN d : j # k /\ d[j] = items[j]
      /\ \A i \in 1..Len(w) : \E j \in 1..Len(r) : w[i] = r[j]
      /\ Len(w) <= Len(r)
  <2>1. /\ Rep(u, d, w) /\ k \notin DOMAIN d
        /\ DOMAIN items \cup {k} = DOMAIN d \cup {k}
    BY <1>1, UnlinkedRep
  <2>2. \A j \in DOMAIN d : j # k /\ d[j] = items[j] BY <1>1, UnlinkedRep
  <2>3. \A i \in 1..Len(w) : \E j \in 1..Len(r) : w[i] = r[j]
    BY <1>1, UnlinkedRep
  <2>4. Len(w) <= Len(r) BY <1>1, UnlinkedRep
  <2> QED BY <2>1, <2>2, <2>3, <2>4
<1>7. w \in Seq(Cells) /\ Len(w) \in Nat BY <1>6, EntriesOfFacts DEF Rep
<1>8. x \in Cells BY DEF Cells
<1> HIDE DEF u, d, w
<1>9. Rep(l, map, f)
  <2>1. \A i \in 1..Len(w) : w[i].entry # e BY <1>4, <1>6
  <2>2. DOMAIN map = DOMAIN d \cup {k} BY <1>5, <1>6
  <2>3. \A j \in DOMAIN d : map[j] = d[j]
    <3>1. \A j \in DOMAIN d : j \in DOMAIN items BY <1>6
    <3> QED BY <1>5, <1>6, <3>1
  <2> QED BY <1>5, <1>6, <2>1, <2>2, <2>3, PlusRep
<1> HIDE DEF x
<1>10. n = Len(w) + 1 /\ n \in Nat /\ n <= Len(r) + 1
  <2>1. n = Len(w) + 1 BY <1>7, <1>8, PutFirstCell
  <2> QED BY <1>1, <1>6, <1>7, <2>1
<1>11. f = <<x>> \o w BY <1>7, <1>8, PutFirstFacts
<1>12. f \in Seq(Cells) BY <1>7, <1>8, PutFirstCell
<1> HIDE DEF f, l, n
<1>13. Cardinality(DOMAIN map) = n BY <1>9, RepSize DEF n
<1> DEFINE s == IF n > Capacity THEN SubSeq(f, 1, n - 1) ELSE f
<1>14. Rep(after[1], after[2], s) /\ Len(s) <= Capacity
  <2>1. CASE n > Capacity
    <3>1. after \in Evict(l, map) BY <1>2, <1>13, <2>1
    <3>2. n > 0 BY <1>7, <1>10
    <3>3. Rep(after[1], after[2], SubSeq(f, 1, n - 1))
      BY <1>9, <3>1, <3>2, EvictRep DEF n
    <3>4. Len(SubSeq(f, 1, n - 1)) = n - 1
      BY <1>10, <1>12, <3>2 DEF n
    <3>5. n - 1 <= Capacity BY <1>1, <1>10, CapacityAssumption
    <3> QED BY <2>1, <3>3, <3>4, <3>5
  <2>2. CASE ~(n > Capacity)
    <3>1. after = <<l, map>> BY <1>2, <1>13, <2>2
    <3>2. n <= Capacity BY <1>10, <2>2, CapacityAssumption
    <3> QED BY <1>9, <2>2, <3>1, <3>2 DEF n
  <2> QED BY <2>1, <2>2
<1>15. s = Abstract!Added(r, k, e, Capacity)
  BY <1>11 DEF Abstract!Added, n, x, w
<1> HIDE DEF s
<1>16. ListInv' /\ Recent' = s BY <1>2, <1>3, <1>14, Settled
<1>17. Abstract!Add(k, e)
  <2>1. \A i \in DOMAIN r : r[i].entry # e
    <3>1. DOMAIN r = 1..Len(r) BY <1>1
    <3> QED BY <1>4, <3>1
  <2> QED BY <1>3, <1>15, <1>16, <2>1 DEF Abstract!Add, Recent, r
<1> QED BY <1>16, <1>17

LEMMA NextListInv ==
  ListInv /\ [ListNext]_listVars
    => ListInv' /\ [Abstract!Next]_(Abstract!vars)
<1> SUFFICES ASSUME ListInv, [ListNext]_listVars
             PROVE  ListInv' /\ [Abstract!Next]_(Abstract!vars)
  OBVIOUS
<1>1. ASSUME NEW k \in Keys, Get(k)
      PROVE  ListInv' /\ Abstract!Next
  BY <1>1, GetList DEF Abstract!Next
<1>2. ASSUME NEW k \in Keys, Remove(k)
      PROVE  ListInv' /\ Abstract!Next
  BY <1>2, RemoveList DEF Abstract!Next
<1>3. ASSUME NEW k \in Keys, NEW e \in Entries, Add(k, e)
      PROVE  ListInv' /\ Abstract!Next
  BY <1>3, AddList DEF Abstract!Next
<1>4. CASE UNCHANGED listVars
  <2>1. items' = items /\ next' = next /\ prev' = prev /\ result' = result
    BY <1>4 DEF listVars
  <2>2. SetList(List) BY <2>1 DEF SetList, List
  <2>3. ListInv' /\ Recent' = Recent BY <2>1, <2>2, Settled DEF ListInv
  <2>4. UNCHANGED Abstract!vars BY <2>1, <2>3 DEF Abstract!vars, Recent
  <2> QED BY <2>3, <2>4
<1> QED BY <1>1, <1>2, <1>3, <1>4 DEF ListNext

\* The invariant says that the list is well linked.
LEMMA ListInvLinked == ListInv => WellLinked
<1> SUFFICES ASSUME ListInv PROVE WellLinked OBVIOUS
<1> DEFINE r == Recent
           n == Len(r)
           q == EntriesOf(r)
<1>1. /\ Rep(List, items, r) /\ n <= Capacity /\ n \in Nat
      /\ DOMAIN items = {r[i].key : i \in 1..n}
      /\ \A i \in 1..n : items[r[i].key] = r[i].entry
      /\ \A i \in 1..n : r[i].key \in Keys /\ r[i].entry \in Entries
      /\ result \in Entries \cup {None} /\ Len(q) = n
  BY EntriesOfFacts DEF ListInv, Rep
<1>2. Linked(List, q) BY <1>1 DEF Rep
<1>3. /\ next \in [Nodes -> Nodes \cup {None}]
      /\ prev \in [Nodes -> Nodes \cup {None}]
      /\ \A i \in 0..n : /\ next[NodeAt(q, i)] = NodeAt(q, i + 1)
                         /\ prev[NodeAt(q, i + 1)] = NodeAt(q, i)
  BY <1>1, <1>2 DEF Linked, Links, List, Pointers
<1> HIDE DEF r, n, q
<1>4. Size = n /\ Cardinality({items[k] : k \in DOMAIN items}) = Size
      /\ {items[k] : k \in DOMAIN items} = {r[i].entry : i \in 1..n}
  <2>1. Size = n BY <1>1, RepSize DEF n, Size
  <2>2. Cardinality({items[k] : k \in DOMAIN items}) = n
    BY <1>1, RepSize DEF n
  <2>3. {items[k] : k \in DOMAIN items} = {r[i].entry : i \in 1..n}
    BY <1>1, RepSize DEF n
  <2> QED BY <2>1, <2>2, <2>3
<1>5. /\ \A i \in 0..n : Node[i] = NodeAt(q, i)
      /\ \A i \in 1..n : NodeAt(q, i) = r[i].entry
  <2>1. List.next = next BY DEF List
  <2>2. Node = Walk(next, n) BY <1>4, RecentIsRead DEF Size
  <2> QED BY <1>1, <2>1, <2>2, ReadBack DEF n, q
<1>6. NodeAt(q, n + 1) = Back BY <1>1 DEF NodeAt
<1>7. ListTypeOK BY <1>1, <1>3, <1>4 DEF ListTypeOK, Size
<1>8. {Node[i] : i \in 1..Size} = {items[k] : k \in DOMAIN items}
  <2>1. \A i \in 1..n : i \in 0..n BY <1>1
  <2>2. \A i \in 1..n : Node[i] = r[i].entry BY <1>5, <2>1
  <2> QED BY <1>4, <2>2
<1>9. next[Node[Size]] = Back /\ prev[Back] = Node[Size]
  <2>1. n \in 0..n BY <1>1
  <2> QED BY <1>3, <1>4, <1>5, <1>6, <2>1
<1>10. \A i \in 1..Size : prev[Node[i]] = Node[i - 1]
  <2>1. \A i \in 1..n : i \in 0..n /\ i - 1 \in 0..n /\ i - 1 + 1 = i
    BY <1>1
  <2> QED BY <1>3, <1>4, <1>5, <2>1
<1> QED BY <1>4, <1>7, <1>8, <1>9, <1>10 DEF WellLinked

\* The map never outgrows the capacity; the list holds exactly its entries,
\* each once, and reads the same in both directions, whatever the calls.
THEOREM WellLinkedAlways == ListSpec => []WellLinked
<1>1. ListSpec => []ListInv
  BY InitListInv, NextListInv, PTL DEF ListSpec
<1> QED BY <1>1, ListInvLinked, PTL

\* The map and its doubly linked list implement the abstract cache: a hit
\* returns the entry and makes it the most recent, an add that is one too many
\* forgets the least recently used key and no other.
THEOREM ListImplementsLRU == ListSpec => ImplementsLRU
<1>1. ListSpec => []ListInv
  BY InitListInv, NextListInv, PTL DEF ListSpec
<1> QED
  BY <1>1, InitListInv, NextListInv, PTL
  DEF ListSpec, ImplementsLRU, Abstract!Spec
=============================================================================
