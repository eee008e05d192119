-------------------------- MODULE MiddlewareProofs --------------------------
(***************************************************************************)
(* Proofs about the request pipeline: the counters add up, strict errors   *)
(* fail closed, blocks are enforced and no longer than their maximum, for  *)
(* any number of goroutines and keys, any limits and any failures of the   *)
(* backend.  The inductive invariants are IInv, of the requests, and       *)
(* BlockInv, of the blocks.                                                *)
(***************************************************************************)
EXTENDS Middleware, FiniteSetTheorems, SequenceTheorems, TLAPS

IInv == ControlTypeOK /\ Accounting /\ StrictFailsClosed

(***************************************************************************)
(* How one goroutine's move changes the sets Accounting counts.            *)
(***************************************************************************)

\* Both sets are finite, whatever the goroutines do.
LEMMA FiniteSets ==
  /\ IsFiniteSet(Busy) /\ IsFiniteSet(Uncounted)
  /\ IsFiniteSet(Busy') /\ IsFiniteSet(Uncounted')
BY FinitelyManyGoroutines, FS_Subset DEF Busy, Uncounted

\* A move inside the handler leaves the number of busy goroutines alone.
LEMMA StayBusy ==
  ASSUME ControlTypeOK, NEW g \in Goroutines, NEW from, NEW to,
         Goto(g, from, to), from # "idle", to # "idle"
  PROVE  Busy' = Busy
BY DEF Goto, Busy, ControlTypeOK

\* A move between two steps on the same side of the counting.
LEMMA SameSide ==
  ASSUME ControlTypeOK, NEW g \in Goroutines, NEW from, NEW to,
         Goto(g, from, to),
         from \in CountedSteps \cup {"idle"} <=> to \in CountedSteps \cup {"idle"}
  PROVE  Uncounted' = Uncounted
BY DEF Goto, Uncounted, ControlTypeOK

\* A move that counts the request.
LEMMA GetsCounted ==
  ASSUME ControlTypeOK, NEW g \in Goroutines, NEW from, NEW to,
         Goto(g, from, to),
         from \notin CountedSteps \cup {"idle"},
         to \in CountedSteps \cup {"idle"}
  PROVE  Cardinality(Uncounted') = Cardinality(Uncounted) - 1
<1>1. g \in Uncounted /\ Uncounted' = Uncounted \ {g}
  BY DEF Goto, Uncounted, ControlTypeOK
<1> QED
  BY <1>1, FiniteSets, FS_RemoveElement

-----------------------------------------------------------------------------
(* Accounting, for the five kinds of moves there are.                      *)

\* Nothing that Accounting mentions changes.
LEMMA QuietMove ==
  ASSUME IInv, NEW g \in Goroutines, NEW from, NEW to, Goto(g, from, to),
         from # "idle", to # "idle", from \in CountedSteps <=> to \in CountedSteps,
         UNCHANGED counters, UNCHANGED arrivals
  PROVE  Accounting'
<1>1. Busy' = Busy /\ Uncounted' = Uncounted
  BY StayBusy, SameSide DEF IInv
<1> QED
  BY <1>1 DEF IInv, Accounting, counters

\* The request is counted by exactly one counter.
LEMMA CountingMove ==
  ASSUME IInv, NEW g \in Goroutines, NEW from, NEW to, Goto(g, from, to),
         from \notin CountedSteps \cup {"idle"}, to \in CountedSteps,
         UNCHANGED <<InFlight, arrivals>>,
         Allowed' + Blocked' + BotBlocked' + errors' =
           Allowed + Blocked + BotBlocked + errors + 1
  PROVE  Accounting'
<1>1. Busy' = Busy
  BY StayBusy DEF CountedSteps, IInv
<1>2. Cardinality(Uncounted') = Cardinality(Uncounted) - 1
  BY GetsCounted DEF IInv
<1>3. Cardinality(Uncounted) \in Nat /\ Cardinality(Uncounted') \in Nat
  BY FiniteSets, FS_CardinalityType
<1>4. arrivals = Allowed + Blocked + BotBlocked + errors + Cardinality(Uncounted)
  BY DEF IInv, Accounting
<1>5. arrivals' =
        Allowed' + Blocked' + BotBlocked' + errors' + Cardinality(Uncounted')
  BY <1>2, <1>3, <1>4 DEF IInv, ControlTypeOK
<1> QED
  BY <1>1, <1>5 DEF IInv, Accounting

\* A request arrives.
LEMMA ArrivingMove ==
  ASSUME IInv, NEW g \in Goroutines, Goto(g, "idle", "body"),
         InFlight' = InFlight + 1, arrivals' = arrivals + 1,
         UNCHANGED <<Allowed, Blocked, BotBlocked, errors>>
  PROVE  Accounting'
<1>1. g \notin Busy /\ Busy' = Busy \cup {g}
  BY DEF IInv, Goto, Busy, ControlTypeOK
<1>2. g \notin Uncounted /\ Uncounted' = Uncounted \cup {g}
  BY DEF IInv, Goto, Uncounted, CountedSteps, ControlTypeOK
<1>3. /\ Cardinality(Busy') = Cardinality(Busy) + 1
      /\ Cardinality(Uncounted') = Cardinality(Uncounted) + 1
  BY <1>1, <1>2, FiniteSets, FS_AddElement
<1>4. Cardinality(Uncounted) \in Nat
  BY FiniteSets, FS_CardinalityType
<1> QED
  BY <1>3, <1>4 DEF IInv, Accounting, ControlTypeOK

\* A request leaves the handler.
LEMMA LeavingMove ==
  ASSUME IInv, NEW g \in Goroutines, Goto(g, "return", "idle"),
         InFlight' = InFlight - 1,
         UNCHANGED <<Allowed, Blocked, BotBlocked, errors, arrivals>>
  PROVE  Accounting' /\ InFlight' \in Nat
<1>1. g \in Busy /\ Busy' = Busy \ {g}
  BY DEF IInv, Goto, Busy, ControlTypeOK
<1>2. Uncounted' = Uncounted
  BY SameSide DEF IInv, CountedSteps
<1>3. Cardinality(Busy') = Cardinality(Busy) - 1
  BY <1>1, FiniteSets, FS_RemoveElement
<1>4. Cardinality(Busy') \in Nat
  BY FiniteSets, FS_CardinalityType
<1> QED
  BY <1>2, <1>3, <1>4 DEF IInv, Accounting

-----------------------------------------------------------------------------
(* The typing of the control state.                                        *)

\* A move keeps the control state typed, whatever it does to the rest.
LEMMA MoveType ==
  ASSUME ControlTypeOK, NEW g \in Goroutines, NEW from, NEW to \in Steps,
         Goto(g, from, to),
         \/ UNCHANGED reply
         \/ \E r \in Replies : reply' = [reply EXCEPT ![g] = r],
         UNCHANGED <<key, bot>>,
         \/ UNCHANGED failed
         \/ failed' = [failed EXCEPT ![g] = TRUE]
  PROVE  /\ pc' \in [Goroutines -> Steps] /\ reply' \in [Goroutines -> Replies]
         /\ key' \in [Goroutines -> Keys] /\ bot' \in [Goroutines -> BOOLEAN]
         /\ failed' \in [Goroutines -> BOOLEAN]
BY DEF ControlTypeOK, Goto

\* A request whose check failed under strict errors does nothing more: it is
\* only at a failing call that `failed' is set, and that answers the request.
LEMMA MoveStrict ==
  ASSUME IInv, NEW g \in Goroutines, NEW from, NEW to, Goto(g, from, to),
         from \notin {"return", "idle"}, UNCHANGED strict,
         \/ UNCHANGED failed /\ UNCHANGED reply
         \/ UNCHANGED failed /\ \E r : reply' = [reply EXCEPT ![g] = r]
  PROVE  StrictFailsClosed'
BY DEF IInv, ControlTypeOK, StrictFailsClosed, Goto

LEMMA InitIInv == Init => IInv
<1> SUFFICES ASSUME Init PROVE IInv OBVIOUS
<1>1. ControlTypeOK /\ StrictFailsClosed
  <2>1. (CHOOSE k \in Keys : TRUE) \in Keys
    BY KeysAssumption
  <2> QED BY <2>1 DEF Init, ControlTypeOK, StrictFailsClosed, Steps, Replies
<1>2. Busy = {} /\ Uncounted = {}
  BY DEF Init, Busy, Uncounted
<1> QED
  BY <1>1, <1>2, FS_EmptySet DEF Init, IInv, Accounting

\* A failing call, whose answer depends on StrictBackendErrors.
LEMMA FailingStep ==
  ASSUME IInv, NEW g \in Goroutines,
         NEW from \in {"global", "checkBlocked", "allow"},
         NEW to \in {"checkBlocked", "detectBot", "forward"},
         CallFails(g, from, to)
  PROVE  IInv'
<1>1. CASE strict
  <2>1. /\ Answer(g, from, "unavailable") /\ CountError
        /\ failed' = [failed EXCEPT ![g] = TRUE] /\ UNCHANGED request
        /\ UNCHANGED <<arrivals, strict>>
    BY <1>1 DEF CallFails, config
  <2>a. /\ InFlight' \in Nat /\ Allowed' \in Nat /\ Blocked' \in Nat
        /\ BotBlocked' \in Nat /\ errors' \in Nat /\ arrivals' \in Nat
    BY <2>1 DEF IInv, ControlTypeOK, CountError
  <2>2. ControlTypeOK'
    BY <2>1, <2>a, MoveType
    DEF IInv, ControlTypeOK, Answer, Steps, Replies, request
  <2>3. Accounting'
    <3>1. Allowed' + Blocked' + BotBlocked' + errors' =
            Allowed + Blocked + BotBlocked + errors + 1
      BY <2>1 DEF IInv, ControlTypeOK, CountError
    <3> QED
      BY <2>1, <3>1, CountingMove DEF Answer, CountError, CountedSteps
  <2>4. StrictFailsClosed'
    BY <2>1 DEF IInv, ControlTypeOK, StrictFailsClosed, Answer, Goto
  <2> QED BY <2>2, <2>3, <2>4 DEF IInv
<1>2. CASE ~strict
  <2>1. /\ Goto(g, from, to) /\ UNCHANGED reply /\ UNCHANGED counters
        /\ failed' = [failed EXCEPT ![g] = TRUE] /\ UNCHANGED request
        /\ UNCHANGED <<arrivals, strict>>
    BY <1>2 DEF CallFails, config
  <2>2. ControlTypeOK'
    BY <2>1, MoveType DEF IInv, ControlTypeOK, Steps, request, counters
  <2>3. Accounting'
    BY <2>1, QuietMove DEF CountedSteps
  <2>4. StrictFailsClosed'
    BY <1>2, <2>1 DEF StrictFailsClosed
  <2> QED BY <2>2, <2>3, <2>4 DEF IInv
<1> QED BY <1>1, <1>2

\* A step that neither counts nor answers.
LEMMA QuietStep ==
  ASSUME IInv, NEW g \in Goroutines, NEW from \in Steps, NEW to \in Steps,
         Goto(g, from, to), from \notin {"idle", "return"}, to # "idle",
         from \in CountedSteps <=> to \in CountedSteps,
         UNCHANGED <<strict, key, bot, reply, counters, arrivals, failed>>
  PROVE  IInv'
<1>1. ControlTypeOK'
  BY MoveType DEF IInv, ControlTypeOK, counters
<1>2. Accounting'
  BY QuietMove
<1>3. StrictFailsClosed'
  BY MoveStrict
<1> QED BY <1>1, <1>2, <1>3 DEF IInv

\* A step that answers a counted request.
LEMMA AnsweringStep ==
  ASSUME IInv, NEW g \in Goroutines, NEW from \in {"blockBot", "serve"},
         NEW r \in Replies, Answer(g, from, r),
         UNCHANGED <<strict, key, bot, counters, arrivals, failed>>
  PROVE  IInv'
<1>1. ControlTypeOK'
  BY MoveType DEF IInv, ControlTypeOK, counters, Answer, Steps
<1>2. Accounting'
  BY QuietMove DEF Answer, CountedSteps
<1>3. StrictFailsClosed'
  BY MoveStrict DEF Answer
<1> QED BY <1>1, <1>2, <1>3 DEF IInv

\* A step that counts and answers a request.
LEMMA RefusingStep ==
  ASSUME IInv, NEW g \in Goroutines, NEW from \in Steps, NEW r \in Replies,
         Answer(g, from, r), from \notin CountedSteps \cup {"idle"},
         CountBlocked \/ CountError,
         UNCHANGED <<strict, key, bot, arrivals, failed>>
  PROVE  IInv'
<1>0. /\ InFlight' \in Nat /\ Allowed' \in Nat /\ Blocked' \in Nat
      /\ BotBlocked' \in Nat /\ errors' \in Nat /\ arrivals' \in Nat
  BY DEF IInv, ControlTypeOK, CountBlocked, CountError
<1>1. ControlTypeOK'
  BY <1>0, MoveType DEF IInv, ControlTypeOK, Answer, Steps
<1>2. /\ UNCHANGED InFlight
      /\ Allowed' + Blocked' + BotBlocked' + errors' =
           Allowed + Blocked + BotBlocked + errors + 1
  BY DEF IInv, ControlTypeOK, CountBlocked, CountError
<1>3. Accounting'
  BY <1>2, CountingMove DEF Answer, CountedSteps
<1>4. StrictFailsClosed'
  BY MoveStrict DEF Answer, CountedSteps
<1> QED BY <1>1, <1>3, <1>4 DEF IInv

-----------------------------------------------------------------------------
\* Every step of a request preserves the invariant.
LEMMA StepIInv ==
  ASSUME IInv, NEW g \in Goroutines, Step(g)
  PROVE  IInv'
<1> USE DEF Steps, Replies, CountedSteps, request, history, config
<1>1. CASE RejectBody(g)
  BY <1>1, RefusingStep DEF RejectBody
<1>2. CASE ReadBody(g)
  BY <1>2, QuietStep DEF ReadBody
<1>3. CASE PassGlobal(g) \/ PassBlockCheck(g) \/ PassBotCheck(g)
  BY <1>3, QuietStep DEF PassGlobal, PassBlockCheck, PassBotCheck
<1>4. CASE GlobalFails(g) \/ BlockCheckFails(g) \/ LimitFails(g)
  BY <1>4, FailingStep DEF GlobalFails, BlockCheckFails, LimitFails
<1>5. CASE RefuseGlobal(g) \/ RefuseBlocked(g)
  BY <1>5, RefusingStep DEF RefuseGlobal, RefuseBlocked
<1>6. CASE DetectBot(g)
  <2>1. ControlTypeOK'
    BY <1>6, MoveType DEF IInv, ControlTypeOK, DetectBot
  <2>2. Accounting'
    <3>1. Allowed' + Blocked' + BotBlocked' + errors' =
            Allowed + Blocked + BotBlocked + errors + 1
      BY <1>6 DEF IInv, ControlTypeOK, DetectBot
    <3> QED BY <1>6, <3>1, CountingMove DEF DetectBot
  <2>3. StrictFailsClosed'
    BY <1>6, MoveStrict DEF DetectBot
  <2> QED BY <2>1, <2>2, <2>3 DEF IInv
<1>7. CASE BlockBot(g) \/ BlockBotFails(g) \/ Serve(g)
  BY <1>7, AnsweringStep DEF BlockBot, BlockBotFails, Serve, Unpromised
<1>8. CASE PassLimit(g) \/ BlockRunsOut(g)
  BY <1>8, QuietStep DEF PassLimit, BlockRunsOut
<1>9. CASE RefuseFull(g) \/ RefuseNewlyBlocked(g)
  BY <1>9, RefusingStep DEF RefuseFull, RefuseNewlyBlocked
<1>10. CASE IncrementViolation(g) \/ IncrementFails(g)
  BY <1>10, QuietStep DEF IncrementViolation, IncrementFails
<1>11. CASE Escalate(g) \/ EscalateFails(g)
  BY <1>11, RefusingStep DEF Escalate, EscalateFails, Unpromised
<1>12. CASE Forward(g)
  <2>1. ControlTypeOK'
    BY <1>12, MoveType DEF IInv, ControlTypeOK, Forward
  <2>2. Accounting'
    <3>1. Allowed' + Blocked' + BotBlocked' + errors' =
            Allowed + Blocked + BotBlocked + errors + 1
      BY <1>12 DEF IInv, ControlTypeOK, Forward
    <3> QED BY <1>12, <3>1, CountingMove DEF Forward
  <2>3. StrictFailsClosed'
    BY <1>12, MoveStrict DEF Forward
  <2> QED BY <2>1, <2>2, <2>3 DEF IInv
<1>13. CASE Return(g)
  <2>1. Accounting' /\ InFlight' \in Nat
    BY <1>13, LeavingMove DEF Return
  <2>2. ControlTypeOK'
    BY <1>13, <2>1, MoveType DEF IInv, ControlTypeOK, Return
  <2>3. StrictFailsClosed'
    BY <1>13 DEF IInv, ControlTypeOK, StrictFailsClosed, Return, Goto
  <2> QED BY <2>1, <2>2, <2>3 DEF IInv
<1> QED
  BY <1>1, <1>2, <1>3, <1>4, <1>5, <1>6, <1>7, <1>8, <1>9, <1>10, <1>11,
     <1>12, <1>13 DEF Step

LEMMA ArriveIInv ==
  ASSUME IInv, NEW g \in Goroutines, NEW k \in Keys, NEW b \in BOOLEAN,
         Arrive(g, k, b)
  PROVE  IInv'
<1>1. ControlTypeOK'
  BY DEF IInv, ControlTypeOK, Arrive, Goto, Steps, Replies
<1>2. Accounting'
  BY ArrivingMove DEF Arrive
<1>3. StrictFailsClosed'
  BY DEF IInv, ControlTypeOK, StrictFailsClosed, Arrive, Goto, config
<1> QED BY <1>1, <1>2, <1>3 DEF IInv

\* Steps that leave the requests alone.
LEMMA ElsewhereIInv ==
  ASSUME IInv, UNCHANGED <<strict, pc, request, reply, counters, arrivals, failed>>
  PROVE  IInv'
<1> USE DEF IInv, request, counters
<1>1. ControlTypeOK' BY DEF ControlTypeOK
<1>2. Accounting' BY DEF Accounting, Busy, Uncounted
<1>3. StrictFailsClosed' BY DEF StrictFailsClosed
<1> QED BY <1>1, <1>2, <1>3

LEMMA NextIInv == IInv /\ [Next]_vars => IInv'
<1> SUFFICES ASSUME IInv, [Next]_vars PROVE IInv' OBVIOUS
<1>1. CASE \E g \in Goroutines : Step(g)
  BY <1>1, StepIInv
<1>2. CASE \E g \in Goroutines, k \in Keys, b \in BOOLEAN : Arrive(g, k, b)
  BY <1>2, ArriveIInv
<1>3. CASE \E k \in Keys : Unblock(k)
  BY <1>3, ElsewhereIInv DEF Unblock, Unpromised, config
<1>4. CASE \E k \in Keys \cup {Global} : Evict(k)
  BY <1>4, ElsewhereIInv DEF Evict, config
<1>5. CASE Tick
  BY <1>5, ElsewhereIInv DEF Tick, history, config
<1>6. CASE UNCHANGED vars
  BY <1>6, ElsewhereIInv DEF vars, history, config
<1> QED BY <1>1, <1>2, <1>3, <1>4, <1>5, <1>6 DEF Next

\* The inductive invariant holds of the specification.
LEMMA Inductive == Spec => []IInv
<1> QED BY InitIInv, NextIInv, PTL DEF Spec

\* Every request is counted exactly once, and InFlight counts the requests in
\* the handler: the statistics of the limiter are exact.
THEOREM CountersAddUp == Spec => []Accounting
<1>1. IInv => Accounting BY DEF IInv
<1> QED BY <1>1, Inductive, PTL

\* With strict_backend_errors no request gets past a check that failed.
THEOREM FailClosed == Spec => []StrictFailsClosed
<1>1. IInv => StrictFailsClosed BY DEF IInv
<1> QED BY <1>1, Inductive, PTL

-----------------------------------------------------------------------------
(* Blocks.                                                                 *)

\* What was promised of a block is at most what is in force.
Promises == \A k \in Keys : promised[k] <= blockedUntil[k]

BlockInv == BackendTypeOK /\ Promises /\ BlockCapped

\* What is kept of a window is a window.
LEMMA InWindowType ==
  ASSUME BackendTypeOK, NEW k \in Keys \cup {Global}
  PROVE  InWindow(k) \in Seq(1..MaxTime)
<1> DEFINE w == window[k]
           old == {i \in DOMAIN w : w[i] <= now - WindowSize}
<1>1. w \in Seq(1..MaxTime) /\ DOMAIN w = 1..Len(w) /\ Len(w) \in Nat
  BY DEF BackendTypeOK
<1>2. Cardinality(old) \in Nat
  <2>1. IsFiniteSet(1..Len(w)) BY <1>1, FS_Interval
  <2>2. old \subseteq 1..Len(w) BY <1>1
  <2> HIDE DEF old
  <2> QED BY <2>1, <2>2, FS_Subset, FS_CardinalityType
<1>3. InWindow(k) = SubSeq(w, Cardinality(old) + 1, Len(w)) BY DEF InWindow
<1> HIDE DEF w, old
<1>4. \A i \in (Cardinality(old) + 1)..Len(w) : w[i] \in 1..MaxTime
  <2>1. \A i \in (Cardinality(old) + 1)..Len(w) : i \in 1..Len(w)
    BY <1>1, <1>2
  <2> QED BY <1>1, <2>1, ElementOfSeq
<1> QED BY <1>1, <1>2, <1>3, <1>4, SubSeqProperties

\* A call of the limiter changes the window only, to another window.
LEMMA LimiterCall ==
  ASSUME BackendTypeOK, NEW k \in Keys \cup {Global}, NEW limit,
         Admit(k, limit) \/ Full(k, limit)
  PROVE  /\ window' \in [Keys \cup {Global} -> Seq(1..MaxTime)]
         /\ UNCHANGED <<blockedUntil, violations>>
<1>1. InWindow(k) \in Seq(1..MaxTime) BY InWindowType
<1>2. Append(InWindow(k), now) \in Seq(1..MaxTime)
  BY <1>1, AppendProperties DEF BackendTypeOK
<1> QED BY <1>1, <1>2 DEF Admit, Full, BackendTypeOK

\* A percentage of a natural number is one, and grows with it.
LEMMA Percentage ==
  ASSUME NEW d \in Nat, NEW e \in Nat, d <= e, NEW n \in 0..99
  PROVE  Jitter(d, n) \in Nat /\ Jitter(d, n) <= Jitter(e, n)
<1> DEFINE x == d * JitterMax
           y == e * JitterMax
           p == x * n
           q == y * n
<1>1. x \in Nat /\ y \in Nat /\ x <= y BY ConfigAssumption
<1> HIDE DEF x, y
<1>2. p \in Nat /\ q \in Nat /\ p <= q BY <1>1
<1> HIDE DEF p, q
<1>3. p \div 10000 \in Nat /\ p \div 10000 <= q \div 10000 BY <1>2
<1> QED BY <1>3 DEF p, q, x, y, Jitter

\* Jitters are integers, and grow with the duration.
LEMMA JitterFacts ==
  /\ \A d \in Int : \A j \in Jitters(d) : j \in Int
  /\ \A d \in Nat : \A j \in Jitters(d) : j \in Nat
  /\ \A d, e \in Nat : d <= e =>
       \A j \in Jitters(d) : \E i \in Jitters(e) : j <= i
<1>1. ASSUME NEW d \in Nat, NEW n \in 0..99 PROVE Jitter(d, n) \in Nat
  <2>1. d <= d OBVIOUS
  <2> QED BY <2>1, Percentage
<1>2. ASSUME NEW d \in Int, NEW j \in Jitters(d)
      PROVE  j \in Int /\ (d \in Nat => j \in Nat)
  <2>1. CASE d \in Nat
    <3>1. PICK n \in 0..99 : j = Jitter(d, n) BY <2>1 DEF Jitters
    <3>2. Jitter(d, n) \in Nat BY <1>1, <2>1
    <3> QED BY <3>1, <3>2
  <2>2. CASE d \notin Nat
    <3>1. -d \in Nat /\ d < 0 BY <2>2
    <3>2. PICK n \in 0..99 : j = -Jitter(-d, n) BY <3>1 DEF Jitters
    <3>3. Jitter(-d, n) \in Nat BY <1>1, <3>1
    <3> QED BY <2>2, <3>2, <3>3
  <2> QED BY <2>1, <2>2
<1>3. ASSUME NEW d \in Nat, NEW e \in Nat, d <= e, NEW j \in Jitters(d)
      PROVE  \E i \in Jitters(e) : j <= i
  <2>1. PICK n \in 0..99 : j = Jitter(d, n) BY DEF Jitters
  <2>2. Jitter(e, n) \in Jitters(e) BY DEF Jitters
  <2> QED BY <1>3, <2>1, <2>2, Percentage
<1> QED BY <1>2, <1>3

\* Without a jitter, or when the clock says so, nothing is added.
LEMMA NoJitter == 0 \in Jitters(MaxBlockDuration)
<1>1. Jitter(MaxBlockDuration, 0) = 0 /\ ~(MaxBlockDuration < 0)
  BY ConfigAssumption DEF Jitter
<1> QED BY <1>1 DEF Jitters

\* What calculateBlockDuration returns is at most the maximum and its jitter,
\* unless the escalation does not fit a Duration.
LEMMA DurationsCapped ==
  ASSUME NEW base \in BaseDurations, NEW v \in Nat,
         NEW d \in BlockDurations(base, v)
  PROVE  /\ d \in Int
         /\ MaxBlockDuration > 0 /\ ~Overflows(base, v) =>
              \E i \in Jitters(MaxBlockDuration) : d <= MaxBlockDuration + i
<1>1. PICK e \in Escalated(base, v) : \E j \in Jitters(Capped(e)) :
        d = Wrapped(Capped(e) + j)
  BY DEF BlockDurations
<1>2. PICK j \in Jitters(Capped(e)) : d = Wrapped(Capped(e) + j)
  BY <1>1
<1>3. /\ MaxDuration \in Nat /\ MaxBlockDuration \in Nat
      /\ base \in 0..MaxDuration
  BY ConfigAssumption, MaximumAssumption
<1>4. e \in Int /\ (~Overflows(base, v) => e \in 0..MaxDuration)
  BY <1>3 DEF Escalated, ToDurations, Overflows
<1>5. Capped(e) \in Int /\ j \in Int
  <2>1. Capped(e) \in Int BY <1>3, <1>4 DEF Capped
  <2> QED BY <2>1, JitterFacts
<1>6. d \in Int BY <1>2, <1>3, <1>5 DEF Wrapped
<1>7. ASSUME MaxBlockDuration > 0, ~Overflows(base, v)
      PROVE  \E i \in Jitters(MaxBlockDuration) : d <= MaxBlockDuration + i
  <2>1. Capped(e) \in Nat /\ Capped(e) <= MaxBlockDuration
    BY <1>3, <1>4, <1>7 DEF Capped
  <2>2. PICK i \in Jitters(MaxBlockDuration) : j <= i
    BY <1>3, <2>1, JitterFacts
  <2>3. i \in Int /\ MaxBlockDuration + i <= MaxDuration
    BY <1>3, <1>7, JitterFacts, MaximumAssumption
  <2>4. Capped(e) + j <= MaxDuration BY <1>3, <1>5, <2>1, <2>2, <2>3
  <2>5. j >= 0 BY <2>1, JitterFacts
  <2>6. d = Capped(e) + j BY <1>2, <1>3, <1>5, <2>1, <2>4, <2>5 DEF Wrapped
  <2> QED BY <1>3, <1>5, <2>1, <2>2, <2>3, <2>6
<1> QED BY <1>6, <1>7

\* A step that leaves blocks, promises and the clock alone.
LEMMA NoBlockChange ==
  ASSUME BlockInv, UNCHANGED <<now, config, blockedUntil, promised, overflowed>>,
         window' \in [Keys \cup {Global} -> Seq(1..MaxTime)],
         violations' \in [Keys -> Nat], counted' \in [Goroutines -> Nat]
  PROVE  BlockInv'
<1>1. BackendTypeOK' BY DEF BlockInv, BackendTypeOK, config
<1>2. Promises' BY DEF BlockInv, Promises
<1>3. BlockCapped' BY DEF BlockInv, BlockCapped
<1> QED BY <1>1, <1>2, <1>3 DEF BlockInv

\* A step that sets or removes a block.
LEMMA BlockChange ==
  ASSUME BlockInv, NEW k \in Keys, NEW d \in Int, SetBlock(k, d),
         UNCHANGED <<now, config, counted>>,
         promised' = [promised EXCEPT ![k] = 0] \/
           promised' = [promised EXCEPT ![k] = IF d < 0 THEN 0 ELSE now + d],
         overflowed' \in BOOLEAN, overflowed => overflowed',
         d < 0 \/ (MaxBlockDuration > 0 /\ ~overflowed' =>
           \E i \in Jitters(MaxBlockDuration) : d <= MaxBlockDuration + i)
  PROVE  BlockInv'
<1> DEFINE end == IF d < 0 THEN 0 ELSE now + d
<1>1. /\ now \in Nat /\ now <= MaxTime /\ end \in Nat /\ now' = now
      /\ blockedUntil \in [Keys -> Nat] /\ promised \in [Keys -> Nat]
      /\ violations \in [Keys -> Nat]
  <2>1. now \in Nat /\ now <= MaxTime
    BY ConfigAssumption DEF BlockInv, BackendTypeOK
  <2>2. end \in Nat BY <2>1
  <2> HIDE DEF end
  <2> QED BY <2>1, <2>2 DEF BlockInv, BackendTypeOK
<1>2. /\ blockedUntil' = [blockedUntil EXCEPT ![k] = end]
      /\ violations' \in [Keys -> Nat]
      /\ promised'[k] \in {0, end} /\ promised' \in [Keys -> Nat]
      /\ \A h \in Keys \ {k} : promised'[h] = promised[h]
  <2>1. blockedUntil' = [blockedUntil EXCEPT ![k] = end] BY DEF SetBlock
  <2>2. violations' \in [Keys -> Nat] BY <1>1 DEF SetBlock
  <2>3. promised' = [promised EXCEPT ![k] = 0] \/
          promised' = [promised EXCEPT ![k] = end]
    OBVIOUS
  <2>4. promised \in [Keys -> Nat] /\ end \in Nat BY <1>1
  <2> HIDE DEF end
  <2>5. promised'[k] \in {0, end} /\ promised' \in [Keys -> Nat]
    BY <2>3, <2>4
  <2>6. \A h \in Keys \ {k} : promised'[h] = promised[h]
    BY <2>3, <2>4
  <2> QED BY <2>1, <2>2, <2>5, <2>6
<1>a. window' \in [Keys \cup {Global} -> Seq(1..MaxTime)]
  <2>1. << >> \in Seq(1..MaxTime) OBVIOUS
  <2> QED BY <2>1 DEF SetBlock, BlockInv, BackendTypeOK
<1>3. BackendTypeOK'
  BY <1>1, <1>2, <1>a DEF BlockInv, BackendTypeOK, config
<1>4. Promises'
  <2> HIDE DEF end
  <2> QED BY <1>1, <1>2 DEF BlockInv, Promises
<1>5. BlockCapped'
  <2> SUFFICES ASSUME MaxBlockDuration > 0, ~overflowed', NEW h \in Keys
               PROVE  \E i \in Jitters(MaxBlockDuration) :
                        blockedUntil'[h] <= now' + MaxBlockDuration + i
    BY DEF BlockCapped
  <2>1. CASE h # k
    BY <1>1, <1>2, <2>1 DEF BlockInv, BlockCapped
  <2>2. CASE h = k /\ d < 0
    <3>1. 0 \in Jitters(MaxBlockDuration) BY NoJitter
    <3>2. blockedUntil'[h] = 0 BY <1>1, <1>2, <2>2
    <3>3. 0 <= now' + MaxBlockDuration + 0 BY <1>1, ConfigAssumption
    <3> QED BY <3>1, <3>2, <3>3
  <2>3. CASE h = k /\ ~(d < 0)
    <3>1. PICK i \in Jitters(MaxBlockDuration) : d <= MaxBlockDuration + i
      BY <2>3
    <3>2. i \in Int /\ MaxBlockDuration \in Int
      BY JitterFacts, ConfigAssumption
    <3>3. blockedUntil'[h] = now + d BY <1>1, <1>2, <2>3
    <3> QED BY <1>1, <3>1, <3>2, <3>3
  <2> QED BY <2>1, <2>2, <2>3
<1> QED BY <1>3, <1>4, <1>5 DEF BlockInv

\* A promise that is withdrawn, the block staying as it is.
LEMMA PromiseWithdrawn ==
  ASSUME BlockInv, NEW k \in Keys,
         UNCHANGED <<now, config, backend, counted>>,
         promised' = [promised EXCEPT ![k] = 0],
         overflowed' \in BOOLEAN, overflowed => overflowed'
  PROVE  BlockInv'
<1>1. /\ promised' \in [Keys -> Nat] /\ promised'[k] = 0
      /\ \A h \in Keys \ {k} : promised'[h] = promised[h]
      /\ blockedUntil \in [Keys -> Nat]
  BY DEF BlockInv, BackendTypeOK
<1>2. BackendTypeOK' BY <1>1 DEF BlockInv, BackendTypeOK, backend, config
<1>3. Promises' BY <1>1 DEF BlockInv, Promises, backend
<1>4. BlockCapped' BY DEF BlockInv, BlockCapped, backend
<1> QED BY <1>2, <1>3, <1>4 DEF BlockInv

LEMMA InitBlockInv == Init => BlockInv
<1> SUFFICES ASSUME Init PROVE BlockInv OBVIOUS
<1>1. BackendTypeOK
  <2>1. << >> \in Seq(1..MaxTime) OBVIOUS
  <2>2. violations \in [Keys -> Nat] BY ConfigAssumption DEF Init
  <2>3. now \in 1..MaxTime /\ strict \in BOOLEAN /\ store \in {"memory", "redis"}
    BY ConfigAssumption DEF Init
  <2>4. window \in [Keys \cup {Global} -> Seq(1..MaxTime)] BY <2>1 DEF Init
  <2>5. blockedUntil \in [Keys -> Nat] /\ counted \in [Goroutines -> Nat]
    BY DEF Init
  <2>6. promised \in [Keys -> Nat] /\ overflowed \in BOOLEAN BY DEF Init
  <2> QED BY <2>2, <2>3, <2>4, <2>5, <2>6 DEF BackendTypeOK
<1>2. Promises BY DEF Init, Promises
<1>3. BlockCapped
  <2>1. 0 \in Jitters(MaxBlockDuration) BY NoJitter
  <2>2. \A k \in Keys : blockedUntil[k] <= now + MaxBlockDuration + 0
    BY ConfigAssumption DEF Init
  <2> QED BY <2>1, <2>2 DEF BlockCapped
<1> QED BY <1>1, <1>2, <1>3 DEF BlockInv

-----------------------------------------------------------------------------
\* Every step keeps the invariant of the blocks.
LEMMA StepBlockInv ==
  ASSUME IInv, BlockInv, NEW g \in Goroutines, Step(g)
  PROVE  BlockInv'
<1> DEFINE k == key[g]
<1> USE DEF request, history
<1>0. /\ k \in Keys /\ violations \in [Keys -> Nat]
      /\ counted \in [Goroutines -> Nat] /\ BackendTypeOK
      /\ window \in [Keys \cup {Global} -> Seq(1..MaxTime)]
      /\ overflowed \in BOOLEAN
  BY DEF IInv, ControlTypeOK, BlockInv, BackendTypeOK
<1>1. CASE \/ RejectBody(g) \/ ReadBody(g) \/ RefuseBlocked(g)
           \/ PassBlockCheck(g) \/ BlockCheckFails(g) \/ DetectBot(g)
           \/ PassBotCheck(g) \/ RefuseNewlyBlocked(g) \/ BlockRunsOut(g)
           \/ Forward(g) \/ Serve(g) \/ Return(g)
  <2>1. UNCHANGED <<now, config, backend, promised, overflowed, counted>>
    BY <1>1 DEF RejectBody, ReadBody, RefuseBlocked, PassBlockCheck,
                BlockCheckFails, DetectBot, PassBotCheck, RefuseNewlyBlocked,
                BlockRunsOut, Forward, Serve, Return, CallFails
  <2> QED BY <1>0, <2>1, NoBlockChange DEF backend
<1>2. CASE PassGlobal(g) \/ RefuseGlobal(g) \/ GlobalFails(g)
  <2>1. /\ UNCHANGED <<now, config, promised, overflowed, counted>>
        /\ \/ UNCHANGED backend
           \/ Admit(Global, GlobalLimit) \/ Full(Global, GlobalLimit)
    BY <1>2 DEF PassGlobal, RefuseGlobal, GlobalFails, CallFails
  <2>2. Global \in Keys \cup {Global} OBVIOUS
  <2> QED BY <1>0, <2>1, <2>2, LimiterCall, NoBlockChange DEF backend
<1>3. CASE PassLimit(g) \/ RefuseFull(g) \/ LimitFails(g)
  <2>1. /\ UNCHANGED <<now, config, promised, overflowed, counted>>
        /\ UNCHANGED backend \/ Admit(k, KeyLimit) \/ Full(k, KeyLimit)
    BY <1>3 DEF PassLimit, RefuseFull, LimitFails, CallFails
  <2> QED BY <1>0, <2>1, LimiterCall, NoBlockChange DEF backend
<1>4. CASE IncrementViolation(g) \/ IncrementFails(g)
  <2>1. /\ UNCHANGED <<now, config, window, blockedUntil, promised, overflowed>>
        /\ violations' \in {violations, [violations EXCEPT ![k] = @ + 1]}
        /\ counted' = [counted EXCEPT ![g] = violations'[k]] \/
             counted' = [counted EXCEPT ![g] = 0]
    BY <1>4 DEF IncrementViolation, IncrementFails
  <2>2. violations' \in [Keys -> Nat]
    <3>1. [violations EXCEPT ![k] = @ + 1] \in [Keys -> Nat]
      <4>1. violations[k] + 1 \in Nat BY <1>0
      <4> HIDE DEF k
      <4> QED BY <1>0, <4>1
    <3> QED BY <1>0, <2>1, <3>1
  <2>3. counted' \in [Goroutines -> Nat] BY <1>0, <2>1, <2>2
  <2> QED BY <1>0, <2>1, <2>2, <2>3, NoBlockChange
<1>5. CASE BlockBot(g) \/ BlockBotFails(g)
  <2>1. /\ UNCHANGED <<now, config, counted, overflowed>>
        /\ \/ /\ UNCHANGED backend
              /\ promised' = [promised EXCEPT ![k] = 0]
           \/ /\ SetBlock(k, BlockDuration)
              /\ promised' = [promised EXCEPT ![k] = 0] \/
                   promised' = [promised EXCEPT ![k] = now + BlockDuration]
    BY <1>5 DEF BlockBot, BlockBotFails, Unpromised
  <2>2. BlockDuration \in Nat \ {0} BY ConfigAssumption
  <2>3. MaxBlockDuration > 0 =>
          \E i \in Jitters(MaxBlockDuration) :
            BlockDuration <= MaxBlockDuration + i
    <3>1. MaxBlockDuration > 0 => BlockDuration <= MaxBlockDuration + 0
      BY <2>2, ConfigAssumption, MaximumAssumption
    <3> QED BY <3>1, NoJitter
  <2>4. CASE UNCHANGED backend /\ promised' = [promised EXCEPT ![k] = 0]
    BY <1>0, <2>1, <2>4, PromiseWithdrawn
  <2>5. CASE /\ SetBlock(k, BlockDuration)
             /\ promised' = [promised EXCEPT ![k] = 0] \/
                  promised' = [promised EXCEPT ![k] = now + BlockDuration]
    <3>1. BlockDuration \in Int /\ ~(BlockDuration < 0) BY <2>2
    <3> HIDE DEF k
    <3> QED BY <1>0, <2>1, <2>3, <2>5, <3>1, BlockChange
  <2> QED BY <2>1, <2>4, <2>5
<1>6. CASE Escalate(g) \/ EscalateFails(g)
  <2>1. PICK base \in BaseDurations :
        /\ UNCHANGED <<now, config, counted>>
        /\ overflowed' = (overflowed \/ Overflows(base, counted[g]))
        /\ \/ /\ UNCHANGED backend
              /\ promised' = [promised EXCEPT ![k] = 0]
           \/ \E d \in BlockDurations(base, counted[g]) :
                /\ SetBlock(k, d)
                /\ promised' = [promised EXCEPT ![k] = 0] \/
                     promised' =
                       [promised EXCEPT ![k] = IF d < 0 THEN 0 ELSE now + d]
    BY <1>6 DEF Escalate, EscalateFails, Unpromised
  <2>2. overflowed' \in BOOLEAN /\ (overflowed => overflowed')
    BY <1>0, <2>1 DEF Overflows
  <2>3. CASE UNCHANGED backend /\ promised' = [promised EXCEPT ![k] = 0]
    BY <1>0, <2>1, <2>2, <2>3, PromiseWithdrawn
  <2>4. ASSUME NEW d \in BlockDurations(base, counted[g]), SetBlock(k, d),
               promised' = [promised EXCEPT ![k] = 0] \/
                 promised' =
                   [promised EXCEPT ![k] = IF d < 0 THEN 0 ELSE now + d]
        PROVE  BlockInv'
    <3>1. counted[g] \in Nat BY <1>0
    <3>2. /\ d \in Int
          /\ MaxBlockDuration > 0 /\ ~overflowed' =>
               \E i \in Jitters(MaxBlockDuration) : d <= MaxBlockDuration + i
      BY <2>1, <3>1, DurationsCapped
    <3> HIDE DEF k
    <3> QED BY <1>0, <2>1, <2>2, <2>4, <3>2, BlockChange
  <2> QED BY <2>1, <2>3, <2>4
<1> QED
  BY <1>1, <1>2, <1>3, <1>4, <1>5, <1>6 DEF Step

LEMMA NextBlockInv == IInv /\ BlockInv /\ [Next]_vars => BlockInv'
<1> SUFFICES ASSUME IInv, BlockInv, [Next]_vars PROVE BlockInv' OBVIOUS
<1>0. /\ window \in [Keys \cup {Global} -> Seq(1..MaxTime)]
      /\ violations \in [Keys -> Nat] /\ counted \in [Goroutines -> Nat]
      /\ overflowed \in BOOLEAN
  BY DEF BlockInv, BackendTypeOK
<1>1. CASE \E g \in Goroutines : Step(g)
  BY <1>1, StepBlockInv
<1>2. CASE \E g \in Goroutines, k \in Keys, b \in BOOLEAN : Arrive(g, k, b)
  BY <1>0, <1>2, NoBlockChange DEF Arrive, backend
<1>3. CASE \E k \in Keys : Unblock(k)
  <2>1. PICK k \in Keys : Unblock(k) BY <1>3
  <2>2. /\ SetBlock(k, -1) /\ promised' = [promised EXCEPT ![k] = 0]
        /\ UNCHANGED <<now, config, counted, overflowed>>
    BY <2>1 DEF Unblock, Unpromised, request
  <2>3. -1 \in Int /\ -1 < 0 OBVIOUS
  <2> QED BY <1>0, <2>2, <2>3, BlockChange
<1>4. CASE \E k \in Keys \cup {Global} : Evict(k)
  <2>1. PICK k \in Keys \cup {Global} : Evict(k) BY <1>4
  <2>2. BackendTypeOK'
    <3>1. << >> \in Seq(1..MaxTime) OBVIOUS
    <3>2. /\ window' \in [Keys \cup {Global} -> Seq(1..MaxTime)]
          /\ blockedUntil' \in [Keys -> Nat] /\ violations' \in [Keys -> Nat]
          /\ promised' \in [Keys -> Nat]
      BY <2>1, <3>1 DEF Evict, BlockInv, BackendTypeOK
    <3> QED BY <2>1, <3>2 DEF Evict, BlockInv, BackendTypeOK, config, request
  <2>3. Promises' BY <2>1 DEF Evict, BlockInv, Promises, BackendTypeOK
  <2>4. BlockCapped'
    <3> SUFFICES ASSUME MaxBlockDuration > 0, ~overflowed, NEW h \in Keys
                 PROVE  \E i \in Jitters(MaxBlockDuration) :
                          blockedUntil'[h] <= now + MaxBlockDuration + i
      BY <2>1 DEF BlockCapped, Evict
    <3>1. CASE h = k
      <4>1. blockedUntil'[h] = 0 BY <2>1, <3>1 DEF Evict
      <4>2. 0 <= now + MaxBlockDuration + 0
        BY ConfigAssumption DEF BlockInv, BackendTypeOK
      <4> QED BY <4>1, <4>2, NoJitter
    <3>2. CASE h # k
      BY <2>1, <3>2 DEF Evict, BlockInv, BlockCapped
    <3> QED BY <3>1, <3>2
  <2> QED BY <2>2, <2>3, <2>4 DEF BlockInv
<1>5. CASE Tick
  <2>1. /\ now' = now + 1 /\ now < MaxTime
        /\ UNCHANGED <<config, backend, counted, promised, overflowed>>
    BY <1>5 DEF Tick, request, history
  <2>2. now' \in 1..MaxTime BY <2>1, ConfigAssumption DEF BlockInv, BackendTypeOK
  <2>3. BackendTypeOK' BY <2>1, <2>2 DEF BlockInv, BackendTypeOK, backend, config
  <2>4. Promises' BY <2>1 DEF BlockInv, Promises, backend
  <2>5. BlockCapped'
    <3> SUFFICES ASSUME MaxBlockDuration > 0, ~overflowed, NEW k \in Keys
                 PROVE  \E i \in Jitters(MaxBlockDuration) :
                          blockedUntil[k] <= now' + MaxBlockDuration + i
      BY <2>1 DEF BlockCapped, backend
    <3>1. PICK i \in Jitters(MaxBlockDuration) :
            blockedUntil[k] <= now + MaxBlockDuration + i
      BY DEF BlockInv, BlockCapped
    <3>2. /\ i \in Int /\ MaxBlockDuration \in Int /\ now \in Int
          /\ blockedUntil[k] \in Int
      BY JitterFacts, ConfigAssumption DEF BlockInv, BackendTypeOK
    <3> QED BY <2>1, <3>1, <3>2
  <2> QED BY <2>3, <2>4, <2>5 DEF BlockInv
<1>6. CASE UNCHANGED vars
  BY <1>0, <1>6, NoBlockChange DEF vars, backend, request, history
<1> QED BY <1>1, <1>2, <1>3, <1>4, <1>5, <1>6 DEF Next

LEMMA BlockInductive == Spec => [](IInv /\ BlockInv)
<1> QED BY InitIInv, NextIInv, InitBlockInv, NextBlockInv, PTL DEF Spec

\* Every variable keeps its type, whatever fails and however blocks escalate.
THEOREM TypeCorrect == Spec => []TypeOK
<1>1. IInv /\ BlockInv => TypeOK BY DEF IInv, BlockInv, TypeOK
<1> QED BY <1>1, BlockInductive, PTL

\* No block lasts longer than max_block_duration and its jitter, as long as no
\* escalation has exceeded the range of a Duration.
THEOREM BlocksAreCapped == Spec => []BlockCapped
<1>1. BlockInv => BlockCapped BY DEF BlockInv
<1> QED BY <1>1, BlockInductive, PTL

\* A block that was set is in force until it ends, is lifted or is evicted: no
\* request of its key passes the block check or, in memory, is admitted while it
\* lasts, unless a check failed.
THEOREM BlocksAreEnforced == Spec => BlocksEnforced
<1> DEFINE Enforced ==
             \A g \in Goroutines :
               PassesCheck(g) \/ (store = "memory" /\ PassesLimiter(g)) =>
                 failed'[g] \/ now >= promised[key[g]]
<1>1. ASSUME IInv, BlockInv, [Next]_vars PROVE Enforced
  <2> SUFFICES ASSUME NEW g \in Goroutines,
                      PassesCheck(g) \/ (store = "memory" /\ PassesLimiter(g)),
                      ~failed'[g]
               PROVE  now >= promised[key[g]]
    OBVIOUS
  <2>0. /\ pc \in [Goroutines -> Steps] /\ failed \in [Goroutines -> BOOLEAN]
        /\ key[g] \in Keys /\ promised[key[g]] <= blockedUntil[key[g]]
        /\ promised[key[g]] \in Nat /\ blockedUntil[key[g]] \in Nat
        /\ now \in 1..MaxTime /\ MaxTime \in Nat
    <3>1. key[g] \in Keys BY <1>1 DEF IInv, ControlTypeOK
    <3>2. BackendTypeOK /\ Promises BY <1>1 DEF BlockInv
    <3> QED BY <1>1, <3>1, <3>2, ConfigAssumption
            DEF IInv, ControlTypeOK, BackendTypeOK, Promises
  <2>1. /\ pc'[g] # pc[g]
        /\ \/ pc[g] = "checkBlocked" /\ pc'[g] = "detectBot"
           \/ store = "memory" /\ pc[g] = "allow" /\ pc'[g] = "forward"
    BY DEF PassesCheck, PassesLimiter
  <2>2. /\ ~(\E k \in Keys : Unblock(k)) /\ ~Tick /\ ~UNCHANGED vars
        /\ ~(\E k \in Keys \cup {Global} : Evict(k))
    BY <2>1 DEF Unblock, Evict, Tick, vars
  <2>3. \E h \in Goroutines :
          Step(h) \/ \E k \in Keys, b \in BOOLEAN : Arrive(h, k, b)
    BY <1>1, <2>2, Zenon DEF Next
  <2>4. PICK h \in Goroutines :
           Step(h) \/ \E k \in Keys, b \in BOOLEAN : Arrive(h, k, b)
    BY <2>3
  <2>5. \E from, to : Goto(h, from, to)
    BY <2>4 DEF Step, Arrive, RejectBody, ReadBody, PassGlobal, RefuseGlobal,
         GlobalFails, RefuseBlocked, PassBlockCheck, BlockCheckFails, DetectBot,
         PassBotCheck, BlockBot, BlockBotFails, PassLimit, RefuseFull,
         RefuseNewlyBlocked, BlockRunsOut, LimitFails, IncrementViolation,
         IncrementFails, Escalate, EscalateFails, Forward, Serve, Return,
         CallFails, Answer
  <2>6. h = g BY <2>0, <2>1, <2>5 DEF Goto
  <2>7. \/ PassBlockCheck(g) \/ BlockCheckFails(g) \/ LimitFails(g)
        \/ store = "memory" /\ PassLimit(g)
    BY <2>0, <2>1, <2>4, <2>6
       DEF Step, Arrive, RejectBody, ReadBody, PassGlobal, RefuseGlobal,
         GlobalFails, RefuseBlocked, DetectBot,
         PassBotCheck, BlockBot, BlockBotFails, PassLimit, RefuseFull,
         RefuseNewlyBlocked, BlockRunsOut, IncrementViolation,
         IncrementFails, Escalate, EscalateFails, Forward, Serve, Return,
         CallFails, Answer, Goto
  <2>8. ~BlockCheckFails(g) /\ ~LimitFails(g)
    BY <2>0 DEF BlockCheckFails, LimitFails, CallFails
  <2>9. ~IsBlocked(key[g])
    BY <2>7, <2>8 DEF PassBlockCheck, PassLimit, LimiterSeesBlock
  <2> QED BY <2>0, <2>9 DEF IsBlocked
<1>2. IInv /\ BlockInv /\ [Next]_vars => [Enforced]_vars
  <2> HIDE DEF Enforced
  <2> QED BY <1>1
<1> QED BY <1>2, BlockInductive, PTL DEF Spec, BlocksEnforced
=============================================================================
