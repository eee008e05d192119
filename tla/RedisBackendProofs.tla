------------------------- MODULE RedisBackendProofs -------------------------
(***************************************************************************)
(* Proofs about RedisBackend, for any calls, limit, window, durations,     *)
(* number of retries and delay: whatever runs late, twice or never.  And   *)
(* about CircuitBreaker, which every call goes through, for any finite set *)
(* of callers, threshold, timeout and number of probes.                    *)
(***************************************************************************)
EXTENDS RedisBackend, CircuitBreaker, FiniteSetTheorems, SequenceTheorems, TLAPS

Durations == Nat \cup {Missing}

Typed ==
  /\ workload \in Workloads
  /\ time \in Times
  /\ blockedUntil \in Durations /\ expiry \in Durations
  /\ scores \in [Times -> Nat]
  /\ args \in [Calls -> [op : {"Allow", "Count", "Block", "IsBlocked"},
                         d : Int, now : Times]]
  /\ pc \in [Calls -> {"idle", "waiting"}]
  /\ try \in [Calls -> Nat]
  /\ flight \in [Calls -> SUBSET Nat]
  /\ field \in [Calls -> Durations \cup {Unread}]
  /\ roomAt \in Int
  /\ acked \in Durations /\ due \in [Calls -> Durations]

\* A command runs at most MaxDelay after its caller read the clock.
Timely ==
  \A c \in Calls : /\ args[c].now <= time
                   /\ InUse(c) => time <= args[c].now + MaxDelay

-----------------------------------------------------------------------------
(* The members of the sorted set.                                          *)

Scores == [Times -> Nat]

LEMMA MembersFinite ==
  ASSUME NEW z \in Scores
  PROVE  IsFiniteSet(Members(z)) /\ Card(z) \in Nat
<1> DEFINE S == {{t} \X (1..z[t]) : t \in Times}
<1>1. IsFiniteSet(Times) BY RedisAssumption, FS_Interval DEF Times
<1>2. IsFiniteSet(S)
  <2> DEFINE f == [t \in Times |-> {t} \X (1..z[t])]
  <2>1. f \in Surjection(Times, S) BY DEF Surjection
  <2> QED BY <1>1, <2>1, FS_Surjection
<1>3. ASSUME NEW t \in Times PROVE IsFiniteSet({t} \X (1..z[t]))
  <2>1. z[t] \in Int BY DEF Scores
  <2>2. IsFiniteSet(1..z[t]) BY <2>1, FS_Interval
  <2> QED BY <2>2, FS_Singleton, FS_Product
<1>4. IsFiniteSet(UNION S) BY <1>2, <1>3, FS_UNION
<1> QED BY <1>4, FS_CardinalityType DEF Members, Card

\* Fewer of any score are not more altogether, and fewer if any are missing.
LEMMA CardMonotone ==
  ASSUME NEW y \in Scores, NEW z \in Scores, \A t \in Times : y[t] <= z[t]
  PROVE  /\ Card(y) <= Card(z)
         /\ (\E t \in Times : y[t] < z[t]) => Card(y) < Card(z)
<1>1. /\ IsFiniteSet(Members(y)) /\ Card(y) \in Nat
      /\ IsFiniteSet(Members(z)) /\ Card(z) \in Nat
  BY MembersFinite
<1>2. Members(y) \subseteq Members(z)
  <2> SUFFICES ASSUME NEW t \in Times, NEW i \in 1..y[t]
               PROVE  i \in 1..z[t]
    BY DEF Members
  <2>1. y[t] \in Nat /\ z[t] \in Nat /\ y[t] <= z[t] BY DEF Scores
  <2> QED BY <2>1
<1>3. Card(y) <= Card(z) BY <1>1, <1>2, FS_Subset DEF Card
<1>4. ASSUME NEW t \in Times, y[t] < z[t] PROVE Members(y) # Members(z)
  <2>1. y[t] \in Nat /\ z[t] \in Nat BY DEF Scores
  <2>2. <<t, z[t]>> \in Members(z) BY <1>4, <2>1 DEF Members
  <2>3. <<t, z[t]>> \notin Members(y) BY <1>4, <2>1 DEF Members
  <2> QED BY <2>2, <2>3
<1>5. Members(y) # Members(z) => Card(y) # Card(z)
  BY <1>1, <1>2, FS_Subset DEF Card
<1> QED BY <1>1, <1>3, <1>4, <1>5

\* ZADD adds a member.
LEMMA CardAdd ==
  ASSUME NEW z \in Scores, NEW t \in Times
  PROVE  /\ [z EXCEPT ![t] = @ + 1] \in Scores
         /\ Card([z EXCEPT ![t] = @ + 1]) = Card(z) + 1
<1> DEFINE y == [z EXCEPT ![t] = @ + 1]
           m == <<t, z[t] + 1>>
<1>1. /\ y \in Scores /\ z[t] \in Nat /\ y[t] = z[t] + 1
      /\ \A u \in Times : u # t => y[u] = z[u]
  BY DEF Scores
<1> HIDE DEF y
<1>2. Members(y) = Members(z) \cup {m}
  <2>1. \A u \in Times : {u} \X (1..y[u]) \subseteq Members(z) \cup {m}
    <3> SUFFICES ASSUME NEW u \in Times, NEW i \in 1..y[u]
                 PROVE  <<u, i>> \in Members(z) \cup {m}
      OBVIOUS
    <3>1. CASE u = t /\ i = z[t] + 1 BY <3>1
    <3>2. CASE ~(u = t /\ i = z[t] + 1)
      <4>1. i \in 1..z[u] BY <1>1, <3>2
      <4> QED BY <4>1 DEF Members
    <3> QED BY <3>1, <3>2
  <2>2. \A u \in Times : {u} \X (1..z[u]) \subseteq Members(y)
    <3> SUFFICES ASSUME NEW u \in Times, NEW i \in 1..z[u]
                 PROVE  <<u, i>> \in Members(y)
      OBVIOUS
    <3>1. z[u] \in Nat BY DEF Scores
    <3>2. i \in 1..y[u] BY <1>1, <3>1
    <3> QED BY <3>2 DEF Members
  <2>3. m \in Members(y)
    <3>1. z[t] + 1 \in 1..y[t] BY <1>1
    <3> QED BY <3>1 DEF Members
  <2>4. Members(y) \subseteq Members(z) \cup {m} BY <2>1 DEF Members
  <2>5. Members(z) \subseteq Members(y) BY <2>2 DEF Members
  <2> QED BY <2>3, <2>4, <2>5
<1>3. m \notin Members(z) BY <1>1 DEF Members
<1> HIDE DEF m
<1>4. Card(y) = Card(z) + 1
  BY <1>2, <1>3, MembersFinite, FS_AddElement DEF Card
<1> QED BY <1>1, <1>4 DEF y

\* What is left of a sorted set that is trimmed.
Cut(z, x) == [t \in Times |-> IF t <= x THEN 0 ELSE z[t]]

LEMMA CutFacts ==
  ASSUME NEW z \in Scores, NEW x \in Int
  PROVE  /\ Cut(z, x) \in Scores
         /\ \A t \in Times : Cut(z, x)[t] <= z[t]
         /\ Card(Cut(z, x)) <= Card(z)
         /\ \A y \in Int : y <= x => /\ Cut(Cut(z, y), x) = Cut(z, x)
                                     /\ Card(Cut(z, x)) <= Card(Cut(z, y))
<1>0. \A t \in Times : t \in Int BY RedisAssumption DEF Times
<1>1. ASSUME NEW y \in Int
      PROVE  Cut(z, y) \in Scores /\ \A t \in Times : Cut(z, y)[t] <= z[t]
  <2>1. \A t \in Times : Cut(z, y)[t] = IF t <= y THEN 0 ELSE z[t]
    BY DEF Cut
  <2> QED BY <2>1 DEF Cut, Scores
<1>2. ASSUME NEW y \in Int, y <= x PROVE Cut(Cut(z, y), x) = Cut(z, x)
  BY <1>0, <1>2 DEF Cut
<1>3. ASSUME NEW y \in Int, y <= x PROVE Card(Cut(z, x)) <= Card(Cut(z, y))
  <2>1. Cut(z, y) \in Scores /\ Cut(z, x) \in Scores BY <1>1
  <2>2. \A t \in Times : Cut(Cut(z, y), x)[t] <= Cut(z, y)[t]
    BY <1>0, <2>1 DEF Cut, Scores
  <2>3. \A t \in Times : Cut(z, x)[t] <= Cut(z, y)[t] BY <1>2, <1>3, <2>2
  <2> QED BY <2>1, <2>3, CardMonotone
<1>4. Card(Cut(z, x)) <= Card(z) BY <1>1, CardMonotone
<1> QED BY <1>1, <1>2, <1>3, <1>4

LEMMA CutAdd ==
  ASSUME NEW z \in Scores, NEW t \in Times, NEW x \in Int
  PROVE  Cut([z EXCEPT ![t] = @ + 1], x) =
           IF t <= x THEN Cut(z, x) ELSE [Cut(z, x) EXCEPT ![t] = @ + 1]
<1>0. DOMAIN z = Times BY DEF Scores
<1> QED BY <1>0 DEF Cut

\* A nonempty set of times has an earliest one.
LEMMA Earliest ==
  ASSUME NEW T \in SUBSET Times, T # {}
  PROVE  Min(T) \in T
<1> DEFINE R == OpToRel(<, Nat)
<1>1. T \in SUBSET Nat BY RedisAssumption DEF Times
<1>2. IsWellFoundedOn(R, Nat) BY NatLessThanWellFounded
<1>3. \A m, n \in Nat : n < m => <<n, m>> \in R BY DEF OpToRel
<1> HIDE DEF R
<1>4. \E m \in T : \A n \in T : ~(<<n, m>> \in R) BY <1>1, <1>2, WFMin
<1>5. PICK m \in T : \A n \in T : ~(<<n, m>> \in R) BY <1>4
<1>6. ASSUME NEW n \in T PROVE m <= n
  <2>1. m \in Nat /\ n \in Nat /\ ~(n < m) BY <1>1, <1>3, <1>5
  <2> QED BY <2>1
<1> QED BY <1>6 DEF Min

\* A set that is not empty has an oldest score, and without it one member less.
LEMMA OldestFacts ==
  ASSUME NEW z \in Scores, Card(z) > 0
  PROVE  /\ Oldest(z) \in Times /\ z[Oldest(z)] > 0
         /\ \A x \in Int : Oldest(z) <= x => Card(Cut(z, x)) < Card(z)
<1> DEFINE T == {t \in Times : z[t] > 0}
<1>1. T # {}
  <2> SUFFICES ASSUME T = {} PROVE FALSE OBVIOUS
  <2>1. ASSUME NEW t \in Times PROVE 1..z[t] = {}
    <3>1. z[t] \in Nat /\ ~(z[t] > 0) BY DEF Scores
    <3> QED BY <3>1
  <2>2. Members(z) = {} BY <2>1 DEF Members
  <2> QED BY <2>2, FS_EmptySet DEF Card
<1>2. Oldest(z) \in T BY <1>1, Earliest DEF Oldest
<1>3. ASSUME NEW x \in Int, Oldest(z) <= x PROVE Card(Cut(z, x)) < Card(z)
  <2>1. Cut(z, x) \in Scores /\ \A t \in Times : Cut(z, x)[t] <= z[t]
    BY CutFacts
  <2>2. Cut(z, x)[Oldest(z)] = 0 BY <1>2, <1>3 DEF Cut
  <2>3. Cut(z, x)[Oldest(z)] < z[Oldest(z)] BY <1>2, <2>2
  <2> QED BY <1>2, <2>1, <2>3, CardMonotone
<1> QED BY <1>2, <1>3

-----------------------------------------------------------------------------
(* Types and times.                                                        *)

LEMMA InitTyped == Init => Typed /\ Timely
<1> SUFFICES ASSUME Init PROVE Typed /\ Timely OBVIOUS
<1>1. Start \in Times BY RedisAssumption DEF Times
<1> QED BY <1>1 DEF Init, Typed, Timely, InUse, Durations, Missing, Unread

\* The time in whole seconds is not later than the time.
LEMMA WholeSeconds ==
  ASSUME Typed, NEW c \in Calls
  PROVE  Seconds(c) \in Nat /\ Seconds(c) <= args[c].now
<1> DEFINE n == args[c].now
<1>1. n \in Nat /\ PerSecond \in Nat \ {0}
  BY RedisAssumption DEF Typed, Times
<1> HIDE DEF n
<1>2. /\ n \div PerSecond \in Nat
      /\ n = PerSecond * (n \div PerSecond) + (n % PerSecond)
      /\ n % PerSecond \in Nat
  BY <1>1
<1>3. (n \div PerSecond) * PerSecond = PerSecond * (n \div PerSecond)
  BY <1>1, <1>2
<1>4. PerSecond * (n \div PerSecond) \in Nat BY <1>1, <1>2
<1> QED BY <1>1, <1>2, <1>3, <1>4 DEF Seconds, n

LEMMA MaxOfTwo ==
  ASSUME NEW a \in Nat, NEW b \in Nat
  PROVE  Max({a, b}) \in {a, b} /\ a <= Max({a, b})
<1>1. \E x \in {a, b} : \A y \in {a, b} : x >= y OBVIOUS
<1> QED BY <1>1 DEF Max

\* How long a hash lasts is a number, and no less than the block.
LEMMA LastsFacts ==
  ASSUME NEW c \in Calls, args[c].d \in Nat
  PROVE  Lasts(c) \in Nat /\ args[c].d <= Lasts(c)
BY MaxOfTwo, RedisAssumption DEF Lasts

\* What is less than p is the remainder of a multiple of p and it.
LEMMA Remainder ==
  ASSUME NEW p \in Nat \ {0}, NEW a \in Int, NEW b \in 0..(p - 1)
  PROVE  (a * p + b) % p = b
<1> DEFINE n == a * p + b
           q == n \div p
           m == n % p
<1>1. n \in Int /\ q \in Int /\ m \in 0..(p - 1) /\ n = p * q + m
  <2>1. n \in Int OBVIOUS
  <2> HIDE DEF n
  <2> QED BY <2>1
<1>2. p * (a - q) = m - b
  <2>1. a * p + b = p * q + m BY <1>1
  <2> HIDE DEF n, q, m
  <2> QED BY <1>1, <2>1
<1> HIDE DEF n, q, m
<1>3. ~(a - q >= 1)
  <2> SUFFICES ASSUME a - q >= 1 PROVE FALSE OBVIOUS
  <2>1. p * (a - q) >= p * 1 BY <1>1
  <2> QED BY <1>1, <1>2, <2>1
<1>4. ~(a - q <= -1)
  <2> SUFFICES ASSUME a - q <= -1 PROVE FALSE OBVIOUS
  <2>1. p * (q - a) >= p * 1 BY <1>1
  <2>2. p * (q - a) = b - m BY <1>1, <1>2
  <2> QED BY <1>1, <2>1, <2>2
<1>5. a - q = 0 BY <1>1, <1>3, <1>4
<1>6. m = b BY <1>1, <1>2, <1>5
<1> QED BY <1>6 DEF n, m

\* A block whose expiry is not in whole seconds does not end on one.
LEMMA FractionStored ==
  ASSUME Typed, NEW c \in Calls, args[c].d \in Nat, ~Whole(Lasts(c))
  PROVE  ~Whole(BlockEnd(c))
<1> DEFINE d == args[c].d
           s == args[c].now \div PerSecond
           q == d \div PerSecond
           b == d % PerSecond
<1>1. PerSecond \in Nat \ {0} BY RedisAssumption
<1>2. d \in Nat /\ ~Whole(d)
  <2>1. DefaultWindow \in Nat /\ Whole(DefaultWindow)
    BY RedisAssumption DEF Whole
  <2>2. Lasts(c) \in {d, DefaultWindow}
    BY <2>1, MaxOfTwo DEF Lasts
  <2> QED BY <2>1, <2>2
<1>3. s \in Int
  <2>1. args[c].now \in Int BY DEF Typed, Times
  <2> QED BY <1>1, <2>1
<1>4. q \in Int /\ b \in 0..(PerSecond - 1) /\ d = PerSecond * q + b
  <2> HIDE DEF d
  <2> QED BY <1>1, <1>2
<1>5. b # 0 BY <1>2 DEF Whole
<1>6. BlockEnd(c) = (s + q) * PerSecond + b
  <2>1. BlockEnd(c) = s * PerSecond + d BY DEF BlockEnd, Seconds
  <2> HIDE DEF d, s, q, b
  <2> QED BY <1>1, <1>3, <1>4, <2>1
<1>7. s + q \in Int BY <1>3, <1>4
<1> HIDE DEF d, s, q, b
<1>8. BlockEnd(c) % PerSecond = b BY <1>1, <1>4, <1>6, <1>7, Remainder
<1> QED BY <1>5, <1>8 DEF Whole


\* What every command that runs leaves alone.
LEMMA RunsFacts ==
  ASSUME Typed, Timely, NEW c \in Calls, NEW k \in flight[c], NEW op,
         Runs(c, k, op)
  PROVE  /\ workload' = workload /\ time' = time /\ args' = args /\ try' = try
         /\ args[c].op = op
         /\ flight' \in [Calls -> SUBSET Nat]
         /\ \A b \in Calls : flight'[b] \subseteq flight[b]
         /\ args[c].now \in Nat /\ args[c].now <= time
         /\ time <= args[c].now + MaxDelay
<1>1. InUse(c) BY DEF InUse
<1>2. args[c].now \in Nat BY RedisAssumption DEF Typed, Times
<1> QED BY <1>1, <1>2 DEF Runs, Typed, Timely

LEMMA TrimmedFacts ==
  ASSUME Typed, NEW x \in Int
  PROVE  Trimmed(x) = Cut(scores, x) /\ Trimmed(x) \in Scores
<1>1. Trimmed(x) = Cut(scores, x) BY DEF Trimmed, Cut
<1> QED BY <1>1, CutFacts DEF Typed, Scores

\* The time a refusal promises: not before the oldest member leaves the window.
LEMMA PromiseFacts ==
  ASSUME NEW oldest \in Int, NEW now \in Int
  PROVE  /\ now + RetryAfter(oldest, now) * PerSecond \in Int
         /\ now + RetryAfter(oldest, now) * PerSecond >= oldest + Window
<1> DEFINE n == oldest + Window - now + PerSecond - 1
           q == n \div PerSecond
<1>1. n \in Int /\ PerSecond \in Nat \ {0} /\ Window \in Nat
  BY RedisAssumption
<1>2. n - PerSecond + 1 = oldest + Window - now BY <1>1
<1> HIDE DEF n
<1>3. q \in Int /\ n = PerSecond * q + (n % PerSecond)
      /\ n % PerSecond \in 0..(PerSecond - 1)
  BY <1>1
<1> HIDE DEF q
<1>4. q * PerSecond = PerSecond * q /\ PerSecond * q \in Int BY <1>1, <1>3
<1>5. q = RetryAfter(oldest, now) BY DEF RetryAfter, n, q
<1> QED BY <1>1, <1>2, <1>3, <1>4, <1>5

LEMMA ClientTyped ==
  ASSUME Typed, Timely, NEW c \in Calls, Client(c)
  PROVE  Typed' /\ Timely'
<1> USE DEF Typed, server, history
<1>1. ASSUME NEW r \in workload, Begin(c, r) PROVE Typed' /\ Timely'
  <2>1. r \in [op : {"Allow", "Count", "Block", "IsBlocked"}, d : Int]
    BY RedisAssumption
  <2>2. /\ args' = [args EXCEPT ![c] = [op |-> r.op, d |-> r.d, now |-> time]]
        /\ time' = time
    BY <1>1 DEF Begin
  <2>3. Typed' BY <1>1, <2>1 DEF Begin, Unread, Durations, Missing
  <2>4. time \in Nat /\ MaxDelay \in Nat BY RedisAssumption DEF Times
  <2>5. ASSUME NEW b \in Calls
        PROVE  /\ args'[b].now <= time'
               /\ InUse(b)' => time' <= args'[b].now + MaxDelay
    <3>1. CASE b = c BY <2>2, <2>4, <3>1
    <3>2. CASE b # c
      <4>1. args'[b] = args[b] /\ (InUse(b)' => InUse(b))
        BY <1>1, <3>2 DEF Begin, InUse
      <4> QED BY <2>2, <4>1 DEF Timely
    <3> QED BY <3>1, <3>2
  <2> QED BY <2>3, <2>5 DEF Timely
<1>2. CASE Answer(c) BY <1>2 DEF Answer, Timely, InUse
<1>3. CASE Retry(c)
  <2>1. Typed' BY <1>3 DEF Retry
  <2>2. InUse(c) /\ \A b \in Calls : InUse(b)' => InUse(b)
    BY <1>3 DEF Retry, InUse
  <2> QED BY <1>3, <2>1, <2>2 DEF Retry, Timely
<1>4. CASE GiveUp(c) BY <1>4 DEF GiveUp, Timely, InUse
<1> QED BY <1>1, <1>2, <1>3, <1>4 DEF Client

LEMMA ServerTyped ==
  ASSUME Typed, Timely, NEW c \in Calls, NEW k \in flight[c],
         \/ RunAdmit(c, k) \/ RunRefuse(c, k) \/ RunCount(c, k)
         \/ RunBlock(c, k) \/ RunBlockFraction(c, k) \/ RunUnblock(c, k)
         \/ RunIsBlocked(c, k) \/ Lose(c, k)
  PROVE  Typed' /\ Timely'
<1> DEFINE Lasting ==
             /\ workload' = workload /\ time' = time
             /\ args' = args /\ try' = try
             /\ flight' \in [Calls -> SUBSET Nat]
             /\ \A b \in Calls : flight'[b] \subseteq flight[b]
             /\ pc' \in [Calls -> {"idle", "waiting"}]
             /\ \A b \in Calls : pc'[b] = "waiting" => pc[b] = "waiting"
             /\ field' \in [Calls -> Durations \cup {Unread}]
           Kept == /\ roomAt' \in Int
                   /\ acked' \in Durations /\ due' \in [Calls -> Durations]
                   /\ blockedUntil' \in Durations /\ expiry' \in Durations
                   /\ scores' \in [Times -> Nat]
<1>0. Missing \in Durations /\ Missing \in Int BY DEF Durations, Missing
<1>1. Lasting /\ Kept => Typed' /\ Timely' BY DEF Typed, Timely, InUse
<1>2. ASSUME Returns(c, k), NEW op, Runs(c, k, op) PROVE Lasting
  BY <1>2, RunsFacts DEF Returns, Answered, Typed
<1>3. args[c].now \in Nat /\ args[c].now \in Int /\ args[c].now \in Times
      /\ args[c].now - Window \in Int /\ time \in Nat /\ args[c].d \in Int
  BY RedisAssumption DEF Typed, Times
<1>4. Trimmed(args[c].now - Window) \in Scores BY <1>3, TrimmedFacts
<1>5. CASE RunAdmit(c, k)
  <2>1. Lasting BY <1>2, <1>5 DEF RunAdmit
  <2>2. scores' \in Scores BY <1>3, <1>4, <1>5, CardAdd DEF RunAdmit
  <2>3. Kept BY <1>0, <1>5, <2>2 DEF RunAdmit, Typed, Scores
  <2> QED BY <1>1, <2>1, <2>3
<1>6. CASE RunRefuse(c, k)
  <2> DEFINE kept == Trimmed(args[c].now - Window)
             promise == args[c].now
                          + RetryAfter(Oldest(kept), args[c].now) * PerSecond
  <2>1. Lasting BY <1>2, <1>6 DEF RunRefuse
  <2>2. Card(kept) > 0
    <3>1. Card(kept) \in Nat BY <1>4, MembersFinite
    <3> QED BY <1>6, <3>1, RedisAssumption DEF RunRefuse
  <2>3. Oldest(kept) \in Int
    BY <1>4, <2>2, OldestFacts, RedisAssumption DEF Times
  <2>4. promise \in Int BY <1>3, <2>3, PromiseFacts
  <2> HIDE DEF promise
  <2>5. roomAt' = promise \/ roomAt' = roomAt BY <1>6 DEF RunRefuse, promise
  <2>6. Kept BY <1>4, <1>6, <2>4, <2>5 DEF RunRefuse, Typed, Scores
  <2> QED BY <1>1, <2>1, <2>6
<1>7. CASE RunCount(c, k)
  <2>1. Lasting BY <1>2, <1>7 DEF RunCount
  <2>2. Kept BY <1>4, <1>7 DEF RunCount, Typed, Scores, history
  <2> QED BY <1>1, <2>1, <2>2
<1>8. CASE RunBlock(c, k)
  <2>1. BlockEnd(c) \in Nat
    BY <1>3, <1>8, WholeSeconds DEF RunBlock, BlockEnd
  <2>2. expiry' \in Nat
    <3>1. args[c].d \in Nat BY <1>3, <1>8 DEF RunBlock
    <3>2. Lasts(c) \in Nat BY <3>1, LastsFacts
    <3> QED BY <1>3, <1>8, <3>2 DEF RunBlock
  <2>3. Lasting
    BY <1>8, RunsFacts DEF RunBlock, Answered, Typed
  <2>4. acked' \in Durations /\ due' \in [Calls -> Durations]
    BY <1>0, <1>8, <2>1 DEF RunBlock, Lifted, Typed, Durations
  <2>5. Kept BY <1>8, <2>1, <2>2, <2>4 DEF RunBlock, Typed, Durations
  <2> QED BY <1>1, <2>3, <2>5
<1>9. CASE RunBlockFraction(c, k)
  <2>1. BlockEnd(c) \in Nat
    BY <1>3, <1>9, WholeSeconds DEF RunBlockFraction, BlockEnd
  <2>2. Lasting BY <1>2, <1>9 DEF RunBlockFraction
  <2>3. acked' \in Durations /\ due' \in [Calls -> Durations]
    BY <1>0, <1>9 DEF RunBlockFraction, Lifted, Typed, Durations
  <2>4. Kept BY <1>9, <2>1, <2>3 DEF RunBlockFraction, Typed, Durations
  <2> QED BY <1>1, <2>2, <2>4
<1>10. CASE RunUnblock(c, k)
  <2>1. Lasting BY <1>2, <1>10 DEF RunUnblock
  <2>2. Kept BY <1>0, <1>10 DEF RunUnblock, Typed
  <2> QED BY <1>1, <2>1, <2>2
<1>11. CASE RunIsBlocked(c, k)
  <2>1. field' \in [Calls -> Durations \cup {Unread}]
    BY <1>11 DEF RunIsBlocked, Typed
  <2>2. Lasting BY <1>11, <2>1, RunsFacts DEF RunIsBlocked, Typed
  <2>3. Kept BY <1>11 DEF RunIsBlocked, Typed, server, history
  <2> QED BY <1>1, <2>2, <2>3
<1>12. CASE Lose(c, k)
  <2>1. Lasting BY <1>12 DEF Lose, Typed
  <2>2. Kept BY <1>12 DEF Lose, Typed, server, history
  <2> QED BY <1>1, <2>1, <2>2
<1> QED BY <1>5, <1>6, <1>7, <1>8, <1>9, <1>10, <1>11, <1>12

LEMMA TickTyped ==
  ASSUME Typed, Timely, Tick
  PROVE  Typed' /\ Timely'
<1>1. time \in Nat /\ time' = time + 1 /\ time' \in Times /\ MaxDelay \in Nat
  BY RedisAssumption DEF Tick, Typed, Times
<1>2. Typed' BY <1>1 DEF Tick, Typed, history, Durations
<1>3. ASSUME NEW c \in Calls
      PROVE  /\ args'[c].now <= time'
             /\ InUse(c)' => time' <= args'[c].now + MaxDelay
  <2>1. args'[c] = args[c] /\ args[c].now \in Nat /\ InUse(c)' = InUse(c)
    BY RedisAssumption DEF Tick, Typed, Times, InUse
  <2>2. args[c].now <= time BY DEF Timely
  <2>3. InUse(c) => time < args[c].now + MaxDelay BY DEF Tick
  <2> QED BY <1>1, <2>1, <2>2, <2>3
<1> QED BY <1>2, <1>3 DEF Timely

LEMMA NextTyped == Typed /\ Timely /\ [Next]_vars => Typed' /\ Timely'
<1> SUFFICES ASSUME Typed, Timely, [Next]_vars PROVE Typed' /\ Timely' OBVIOUS
<1>1. CASE Tick BY <1>1, TickTyped
<1>2. ASSUME NEW c \in Calls, Client(c) \/ Server(c) PROVE Typed' /\ Timely'
  BY <1>2, ClientTyped, ServerTyped DEF Server
<1>3. CASE UNCHANGED vars
  BY <1>3 DEF vars, Typed, Timely, InUse, server, history
<1> QED BY <1>1, <1>2, <1>3 DEF Next

-----------------------------------------------------------------------------
(* Blocks.                                                                 *)

\* v, a field blocked_until, keeps what was promised until then.
Keeps(v, promise) ==
  time < promise => v # Missing /\ Whole(v) /\ promise <= v

\* So does what is stored, which does not expire before.
Stored(promise) ==
  /\ Keeps(blockedUntil, promise)
  /\ time < promise /\ expiry # Missing => promise <= expiry

Promised ==
  /\ Stored(acked)
  /\ \A c \in Calls : /\ Stored(due[c])
                      /\ field[c] # Unread => Keeps(field[c], due[c])

LEMMA InitPromised == Init => Promised
BY RedisAssumption DEF Init, Promised, Stored, Keeps, Missing

\* A promise that was lifted says nothing.
LEMMA NoPromise ==
  ASSUME Typed, NEW v
  PROVE  Keeps(v, Missing) /\ Stored(Missing)
<1>1. ~(time < Missing) BY RedisAssumption DEF Typed, Times, Missing
<1> QED BY <1>1 DEF Keeps, Stored

LEMMA ClientPromised ==
  ASSUME Typed, Promised, NEW c \in Calls, Client(c)
  PROVE  Promised'
<1>1. /\ UNCHANGED <<time, blockedUntil, expiry, acked>>
      /\ \A b \in Calls :
           \/ due'[b] = due[b] /\ field'[b] \in {field[b], Unread}
           \/ due'[b] \in {acked, Missing} /\ field'[b] = Unread
  <2> USE DEF server, history, Typed
  <2>1. CASE \E r \in workload : Begin(c, r) BY <2>1 DEF Begin
  <2>2. CASE Answer(c) BY <2>2 DEF Answer
  <2>3. CASE Retry(c) BY <2>3 DEF Retry
  <2>4. CASE GiveUp(c) BY <2>4 DEF GiveUp
  <2> QED BY <2>1, <2>2, <2>3, <2>4 DEF Client
<1>2. Stored(Missing) BY NoPromise
<1>3. \A p, v : (Stored(p) <=> Stored(p)') /\ (Keeps(v, p) <=> Keeps(v, p)')
  BY <1>1 DEF Stored, Keeps
<1> QED BY <1>1, <1>2, <1>3 DEF Promised

\* A block that is set keeps every promise it neither cuts short nor masks.
LEMMA BlockPromised ==
  ASSUME Typed, Timely, Promised,
         NEW c \in Calls, NEW k \in flight[c], RunBlock(c, k)
  PROVE  Promised'
<1> DEFINE e == BlockEnd(c)
<1>1. /\ e \in Nat /\ time \in Nat /\ e <= time + args[c].d
      /\ args[c].d \in Nat
  <2>1. args[c].d \in Nat BY DEF RunBlock, Typed
  <2>2. args[c].now <= time /\ time \in Nat /\ args[c].now \in Nat
    BY RedisAssumption DEF Timely, Typed, Times
  <2>3. Seconds(c) \in Nat /\ Seconds(c) <= args[c].now BY WholeSeconds
  <2>4. e = Seconds(c) + args[c].d BY DEF BlockEnd
  <2> QED BY <2>1, <2>2, <2>3, <2>4 DEF RunBlock
<1> HIDE DEF e
<1>2. /\ blockedUntil' = e /\ expiry' = time + Lasts(c)
      /\ time' = time /\ field' = field
      /\ acked' \in {Lifted(e, e), Lifted(e, acked)}
      /\ due' = [b \in Calls |-> Lifted(e, due[b])]
  BY RunsFacts DEF RunBlock, e
<1>3. /\ expiry' \in Nat /\ e <= expiry'
  <2>1. Lasts(c) \in Nat /\ args[c].d <= Lasts(c) BY <1>1, LastsFacts
  <2> QED BY <1>1, <1>2, <2>1
<1>4. ASSUME NEW q \in Int, q = Missing \/ (q <= e /\ Whole(e)) PROVE Stored(q)'
  <2>1. CASE q <= e /\ Whole(e)
    <3>1. e # Missing BY <1>1 DEF Missing
    <3>2. Keeps(blockedUntil, q)' BY <1>1, <1>2, <2>1, <3>1 DEF Keeps
    <3>3. q <= expiry' BY <1>1, <1>3, <2>1
    <3> QED BY <3>2, <3>3 DEF Stored
  <2>2. CASE q = Missing
    <3>1. ~(time' < q) BY <1>1, <1>2, <2>2 DEF Missing
    <3> QED BY <3>1 DEF Stored, Keeps
  <2> QED BY <1>4, <2>1, <2>2
<1>5. ASSUME NEW p \in Durations
      PROVE  /\ Lifted(e, p) \in Int
             /\ Lifted(e, p) = Missing \/ (Lifted(e, p) <= e /\ Whole(e))
  BY <1>1, <1>5 DEF Lifted, Durations, Missing
<1>6. Stored(acked)'
  <2>1. e \in Durations /\ acked \in Durations BY <1>1 DEF Typed, Durations
  <2>2. /\ acked' \in Int
        /\ acked' = Missing \/ (acked' <= e /\ Whole(e))
    BY <1>2, <1>5, <2>1
  <2> QED BY <1>4, <2>2
<1>7. ASSUME NEW b \in Calls
      PROVE  Stored(due[b])' /\ (field'[b] # Unread => Keeps(field[b], due[b])')
  <2>1. due[b] \in Durations /\ due'[b] = Lifted(e, due[b])
    BY <1>2 DEF Typed
  <2>2. Stored(due[b])' BY <1>4, <1>5, <2>1
  <2>3. due'[b] \in {due[b], Missing} BY <2>1 DEF Lifted
  <2>4. field[b] # Unread => Keeps(field[b], due'[b])
    BY <2>3, NoPromise DEF Promised
  <2> QED BY <1>2, <2>2, <2>4 DEF Keeps
<1> QED BY <1>6, <1>7 DEF Promised

LEMMA ServerPromised ==
  ASSUME Typed, Timely, Promised, NEW c \in Calls, NEW k \in flight[c],
         \/ RunAdmit(c, k) \/ RunRefuse(c, k) \/ RunCount(c, k)
         \/ RunBlock(c, k) \/ RunBlockFraction(c, k) \/ RunUnblock(c, k)
         \/ RunIsBlocked(c, k) \/ Lose(c, k)
  PROVE  Promised'
<1>1. CASE RunAdmit(c, k) \/ RunRefuse(c, k) \/ RunCount(c, k) \/ Lose(c, k)
  <2>1. UNCHANGED <<time, blockedUntil, expiry, acked, due, field>>
    BY <1>1, RunsFacts
       DEF RunAdmit, RunRefuse, RunCount, Lose, Returns, server, history
  <2> QED BY <2>1 DEF Promised, Stored, Keeps
<1>2. CASE RunBlock(c, k) BY <1>2, BlockPromised
<1>3. CASE RunBlockFraction(c, k)
  <2>1. /\ time' = time /\ field' = field /\ ~Whole(Lasts(c))
        /\ args[c].d >= 0
        /\ acked' = Lifted(BlockEnd(c), acked)
        /\ due' = [b \in Calls |-> Lifted(BlockEnd(c), due[b])]
    BY <1>3, RunsFacts DEF RunBlockFraction, Returns
  <2>2. ~Whole(BlockEnd(c))
    <3>1. args[c].d \in Nat BY <2>1 DEF Typed
    <3> QED BY <2>1, <3>1, FractionStored
  <2>3. acked' = Missing /\ due' = [b \in Calls |-> Missing]
    BY <2>1, <2>2 DEF Lifted
  <2>4. ~(time' < Missing)
    BY <2>1, RedisAssumption DEF Typed, Times, Missing
  <2> QED BY <2>1, <2>3, <2>4 DEF Promised, Stored, Keeps
<1>4. CASE RunUnblock(c, k)
  <2>1. /\ time' = time /\ field' = field /\ acked' = Missing
        /\ due' = [b \in Calls |-> Missing]
    BY <1>4, RunsFacts DEF RunUnblock, Returns
  <2>2. ~(time' < Missing)
    BY <2>1, RedisAssumption DEF Typed, Times, Missing
  <2> QED BY <2>1, <2>2 DEF Promised, Stored, Keeps
<1>5. CASE RunIsBlocked(c, k)
  <2>1. /\ UNCHANGED <<time, blockedUntil, expiry, acked, due>>
        /\ \A b \in Calls : field'[b] \in {field[b], blockedUntil}
    BY <1>5, RunsFacts DEF RunIsBlocked, server, history, Typed
  <2>2. \A p, v : (Stored(p) <=> Stored(p)') /\ (Keeps(v, p) <=> Keeps(v, p)')
    BY <2>1 DEF Stored, Keeps
  <2>3. \A b \in Calls : Keeps(blockedUntil, due[b])
    BY DEF Promised, Stored
  <2> QED BY <2>1, <2>2, <2>3 DEF Promised
<1> QED BY <1>1, <1>2, <1>3, <1>4, <1>5

\* A hash that expires has nothing in it that is still in force.
LEMMA TickPromised ==
  ASSUME Typed, Promised, Tick
  PROVE  Promised'
<1>1. /\ time \in Int /\ time' = time + 1 /\ UNCHANGED <<acked, due, field>>
      /\ expiry \in Int /\ Missing \in Int
  BY RedisAssumption DEF Tick, history, Typed, Times, Durations, Missing
<1>2. ASSUME NEW v, NEW p \in Int, Keeps(v, p) PROVE Keeps(v, p)'
  BY <1>1, <1>2 DEF Keeps
<1>3. ASSUME NEW p \in Int, Stored(p) PROVE Stored(p)'
  <2>1. CASE expiry # Missing /\ expiry <= time'
    <3>1. ~(time' < p) BY <1>1, <1>3, <2>1 DEF Stored
    <3> QED BY <3>1 DEF Stored, Keeps
  <2>2. CASE ~(expiry # Missing /\ expiry <= time')
    <3>1. UNCHANGED <<blockedUntil, expiry>> BY <2>2 DEF Tick
    <3>2. time' < p => time < p BY <1>1
    <3> QED BY <1>3, <3>1, <3>2 DEF Stored, Keeps
  <2> QED BY <2>1, <2>2
<1>4. acked \in Int /\ \A c \in Calls : due[c] \in Int
  BY DEF Typed, Durations, Missing
<1> QED BY <1>1, <1>2, <1>3, <1>4 DEF Promised

LEMMA NextPromised ==
  ASSUME Typed, Timely, Promised, [Next]_vars
  PROVE  Promised'
<1>1. CASE Tick BY <1>1, TickPromised
<1>2. ASSUME NEW c \in Calls, Client(c) \/ Server(c) PROVE Promised'
  BY <1>2, ClientPromised, ServerPromised DEF Server
<1>3. CASE UNCHANGED vars
  BY <1>3 DEF vars, Promised, Stored, Keeps, server, history
<1> QED BY <1>1, <1>2, <1>3 DEF Next

\* A block that was acknowledged before IsBlocked was called, and ends at a whole
\* second, is reported until it ends, unless it was lifted, shortened or masked
\* since: however late commands run, however often, and whichever answers are
\* lost.
THEOREM BlocksHold == Spec => []BlockHolds
<1>1. Typed /\ Promised => BlockHolds
  <2> SUFFICES ASSUME Typed, Promised, NEW c \in Calls,
                      field[c] # Unread, time < due[c]
               PROVE  SaysBlocked(field[c])
    BY DEF BlockHolds
  <2>1. field[c] # Missing /\ Whole(field[c]) /\ due[c] <= field[c]
    BY DEF Promised, Keeps
  <2>2. time \in Int /\ due[c] \in Int /\ field[c] \in Int
    BY RedisAssumption DEF Typed, Times, Durations, Missing, Unread
  <2> QED BY <2>1, <2>2 DEF SaysBlocked
<1> QED BY <1>1, InitTyped, NextTyped, InitPromised, NextPromised, PTL DEF Spec

-----------------------------------------------------------------------------
(* The window.                                                             *)

\* The j-th last admission.
Last(s, j) == s[Len(s) + 1 - j]

Admissions ==
  /\ admitted \in Seq(Times)
  /\ Len(admitted) <= Limit + 1
  /\ \A i, j \in 1..Len(admitted) : i <= j => admitted[i] <= admitted[j]
  /\ \A i \in 1..Len(admitted) : admitted[i] <= time

\* An admission that ran less than a window, less a delay, ago has left a member
\* which no trimming has taken yet; the set never has more than Limit members.
Counted ==
  /\ Card(scores) <= Limit
  /\ \A j \in 1..Len(admitted), x \in Int :
       x >= time - Window /\ Last(admitted, j) > x + MaxDelay
         => Card(Cut(scores, x)) >= j

Room == roomAt # Missing => Card(Cut(scores, roomAt - Window)) < Limit

WindowInv == Admissions /\ Counted /\ WithinLimit /\ Room

LEMMA InitWindowInv == Init => WindowInv
<1> SUFFICES ASSUME Init PROVE WindowInv OBVIOUS
<1>1. Members(scores) = {} BY DEF Init, Members
<1>2. Card(scores) = 0 BY <1>1, FS_EmptySet DEF Card
<1>3. admitted = << >> /\ Len(admitted) = 0 BY DEF Init
<1>4. Limit \in Nat \ {0} BY RedisAssumption
<1>5. Admissions BY <1>3, <1>4 DEF Admissions
<1>6. Counted BY <1>2, <1>3, <1>4 DEF Counted
<1>7. WithinLimit BY <1>3, <1>4 DEF WithinLimit
<1>8. Room BY DEF Init, Room
<1> QED BY <1>5, <1>6, <1>7, <1>8 DEF WindowInv

\* One more admission: the last ones before it are one further from the end.
LEMMA OneMore ==
  ASSUME Typed, Admissions, NEW s, s = LastOf(Append(admitted, time))
  PROVE  /\ s \in Seq(Times) /\ Len(s) \in 1..(Limit + 1)
         /\ Len(s) <= Len(admitted) + 1
         /\ Last(s, 1) = time
         /\ \A j \in 1..(Len(s) - 1) : Last(s, j + 1) = Last(admitted, j)
<1> DEFINE n == Len(admitted)
           a == Append(admitted, time)
<1>1. /\ n \in Nat /\ n <= Limit + 1 /\ Limit \in Nat \ {0}
      /\ admitted \in Seq(Times) /\ time \in Times
  BY RedisAssumption DEF Admissions, Typed
<1>2. /\ a \in Seq(Times) /\ Len(a) = n + 1 /\ a[n + 1] = time
      /\ \A i \in 1..n : a[i] = admitted[i]
  BY <1>1
<1> HIDE DEF a
<1>3. CASE n + 1 > Limit + 1
  <2>1. s = Tail(a) BY <1>2, <1>3 DEF LastOf, a
  <2>2. /\ s \in Seq(Times) /\ Len(s) = n
        /\ \A i \in 1..n : s[i] = a[i + 1]
    BY <1>1, <1>2, <2>1
  <2>3. ASSUME NEW j \in 1..(n - 1) PROVE Last(s, j + 1) = Last(admitted, j)
    <3>1. n + 1 - (j + 1) \in 1..n /\ n + 1 - (j + 1) + 1 = n + 1 - j
          /\ n + 1 - j \in 1..n
      BY <1>1
    <3> QED BY <1>2, <2>2, <3>1 DEF Last
  <2>4. Last(s, 1) = time
    <3>1. n + 1 - 1 \in 1..n /\ n + 1 - 1 + 1 = n + 1 BY <1>1, <1>3
    <3> QED BY <1>2, <2>2, <3>1 DEF Last
  <2> QED BY <1>1, <1>3, <2>2, <2>3, <2>4
<1>4. CASE ~(n + 1 > Limit + 1)
  <2>1. s = a BY <1>2, <1>4 DEF LastOf, a
  <2>2. ASSUME NEW j \in 1..n PROVE Last(s, j + 1) = Last(admitted, j)
    <3>1. (n + 1) + 1 - (j + 1) = n + 1 - j /\ n + 1 - j \in 1..n BY <1>1
    <3> QED BY <1>2, <2>1, <3>1 DEF Last
  <2>3. Last(s, 1) = time
    <3>1. (n + 1) + 1 - 1 = n + 1 BY <1>1
    <3> QED BY <1>2, <2>1, <3>1 DEF Last
  <2> QED BY <1>1, <1>2, <1>4, <2>1, <2>2, <2>3
<1> QED BY <1>3, <1>4

\* Admissions are in order, with one more as with one less.
LEMMA OneMoreAdmission ==
  ASSUME Typed, Admissions, time' = time,
         admitted' = LastOf(Append(admitted, time))
  PROVE  Admissions'
<1> DEFINE n == Len(admitted)
           m == Len(admitted')
<1>1. /\ admitted' \in Seq(Times) /\ m \in 1..(Limit + 1) /\ m <= n + 1
      /\ Last(admitted', 1) = time
      /\ \A j \in 1..(m - 1) : Last(admitted', j + 1) = Last(admitted, j)
  BY OneMore
<1>2. /\ n \in Nat /\ m \in Nat /\ time \in Int
      /\ \A i \in 1..n : admitted[i] \in Int
  <2>1. \A i \in 1..n : admitted[i] \in Times BY ElementOfSeq DEF Admissions
  <2>2. \A t \in Times : t \in Int BY RedisAssumption DEF Times
  <2> QED BY <1>1, <2>1, <2>2 DEF Admissions, Typed
<1> HIDE DEF n, m
<1>3. admitted'[m] = time
  <2>1. m + 1 - 1 = m BY <1>2
  <2> QED BY <1>1, <2>1 DEF Last, m
<1>4. ASSUME NEW i \in 1..(m - 1)
      PROVE  /\ n + 1 - (m - i) \in 1..n
             /\ admitted'[i] = admitted[n + 1 - (m - i)]
  <2>1. m - i \in 1..(m - 1) /\ m + 1 - ((m - i) + 1) = i BY <1>2
  <2>2. Last(admitted', (m - i) + 1) = Last(admitted, m - i) BY <1>1, <2>1
  <2>3. n + 1 - (m - i) \in 1..n BY <1>1, <1>2, <2>1
  <2> QED BY <2>1, <2>2, <2>3 DEF Last, m, n
<1>5. ASSUME NEW i \in 1..m PROVE admitted'[i] <= time
  <2>1. CASE i = m BY <1>2, <1>3, <2>1
  <2>2. CASE i # m
    <3>1. i \in 1..(m - 1) BY <1>2, <2>2
    <3> QED BY <1>4, <3>1 DEF Admissions, n
  <2> QED BY <2>1, <2>2
<1>6. ASSUME NEW i \in 1..m, NEW j \in 1..m, i <= j
      PROVE  admitted'[i] <= admitted'[j]
  <2>1. CASE j = m BY <1>3, <1>5, <2>1
  <2>2. CASE j # m
    <3>1. i \in 1..(m - 1) /\ j \in 1..(m - 1) BY <1>2, <1>6, <2>2
    <3>2. n + 1 - (m - i) <= n + 1 - (m - j) BY <1>2, <1>6
    <3> QED BY <1>4, <3>1, <3>2 DEF Admissions, n
  <2> QED BY <2>1, <2>2
<1>7. m <= Limit + 1 BY <1>1, RedisAssumption
<1> QED BY <1>1, <1>5, <1>6, <1>7 DEF Admissions, m

\* The admission that exceeds the limit would find the set full: the members
\* the last Limit admissions have left are all in the window it looks at.
LEMMA AdmitWindow ==
  ASSUME Typed, Timely, WindowInv,
         NEW c \in Calls, NEW k \in flight[c], RunAdmit(c, k)
  PROVE  WindowInv'
<1> DEFINE now == args[c].now
           kept == Cut(scores, now - Window)
<1>1. /\ now \in Times /\ now \in Nat /\ now <= time /\ time <= now + MaxDelay
      /\ time \in Nat /\ Window \in Nat /\ MaxDelay \in Nat /\ Limit \in Nat \ {0}
      /\ now - Window \in Int /\ time' = time
  <2>1. /\ now \in Nat /\ now <= time /\ time <= now + MaxDelay /\ time' = time
    BY RunsFacts DEF RunAdmit
  <2>2. now \in Times /\ time \in Nat BY RedisAssumption DEF Typed, Times
  <2> QED BY <2>1, <2>2, RedisAssumption
<1>2. /\ scores' = [kept EXCEPT ![now] = @ + 1] /\ kept \in Scores
      /\ Card(kept) < Limit /\ Card(kept) \in Nat
      /\ admitted' = LastOf(Append(admitted, time))
      /\ roomAt' = Missing
  BY <1>1, TrimmedFacts, MembersFinite DEF RunAdmit
<1>3. scores' \in Scores /\ Card(scores') = Card(kept) + 1
  BY <1>1, <1>2, CardAdd
<1>0. scores \in Scores BY DEF Typed, Scores
<1> HIDE DEF now, kept
<1>4. Admissions' BY <1>1, <1>2, OneMoreAdmission DEF WindowInv
<1>5. /\ Len(admitted') \in 1..(Limit + 1)
      /\ Len(admitted') <= Len(admitted) + 1 /\ Len(admitted) \in Nat
      /\ Last(admitted', 1) = time
      /\ \A j \in 1..(Len(admitted') - 1) :
           Last(admitted', j + 1) = Last(admitted, j)
  BY <1>2, OneMore DEF WindowInv, Admissions
<1>6. ASSUME NEW x \in Int, x >= time - Window, now > x
      PROVE  Card(Cut(scores', x)) = Card(Cut(scores, x)) + 1
  <2>1. ~(now <= x) /\ now - Window <= x BY <1>1, <1>6
  <2>2. Cut(scores', x) = [Cut(kept, x) EXCEPT ![now] = @ + 1]
    BY <1>1, <1>2, <2>1, CutAdd
  <2>3. Cut(kept, x) = Cut(scores, x) BY <1>0, <1>1, <2>1, CutFacts DEF kept
  <2>4. Cut(scores, x) \in Scores BY <1>0, CutFacts
  <2> QED BY <1>1, <2>2, <2>3, <2>4, CardAdd
<1>7. Counted'
  <2>1. Card(scores') <= Limit BY <1>1, <1>2, <1>3
  <2>2. ASSUME NEW j \in 1..Len(admitted'), NEW x \in Int,
               x >= time - Window, Last(admitted', j) > x + MaxDelay
        PROVE  Card(Cut(scores', x)) >= j
    <3>0. Card(Cut(scores, x)) \in Nat BY <1>0, CutFacts, MembersFinite
    <3>1. CASE j = 1
      <4>1. now > x BY <1>1, <1>5, <2>2, <3>1
      <4> QED BY <1>6, <2>2, <3>0, <3>1, <4>1
    <3>2. CASE j # 1
      <4> DEFINE i == j - 1
      <4>1. i \in 1..(Len(admitted') - 1) /\ i + 1 = j /\ i \in 1..Len(admitted)
        BY <1>5, <3>2
      <4>2. Last(admitted, i) > x + MaxDelay BY <1>5, <2>2, <4>1
      <4>3. Card(Cut(scores, x)) >= i
        BY <2>2, <4>1, <4>2 DEF WindowInv, Counted
      <4>4. Last(admitted, i) \in Int /\ Last(admitted, i) <= time
        <5>1. Len(admitted) + 1 - i \in 1..Len(admitted) BY <1>5, <4>1
        <5> QED BY <5>1, RedisAssumption
                DEF Last, WindowInv, Admissions, Times
      <4>5. now > x BY <1>1, <4>2, <4>4
      <4> QED BY <1>6, <2>2, <3>0, <4>1, <4>3, <4>5
    <3> QED BY <3>1, <3>2
  <2> QED BY <1>1, <2>1, <2>2 DEF Counted
<1>8. WithinLimit'
  <2> SUFFICES ASSUME Len(admitted') = Limit + 1,
                      ~(admitted'[Limit + 1] - admitted'[1] >= Window - MaxDelay)
               PROVE  FALSE
    BY DEF WithinLimit
  <2>1. Limit \in 1..(Len(admitted') - 1) /\ Limit \in 1..Len(admitted)
    BY <1>1, <1>5
  <2>2. admitted'[1] = Last(admitted, Limit)
    <3>1. Last(admitted', Limit + 1) = Last(admitted, Limit) BY <1>5, <2>1
    <3>2. (Limit + 1) + 1 - (Limit + 1) = 1 BY <1>1
    <3> QED BY <3>1, <3>2 DEF Last
  <2>3. admitted'[Limit + 1] = time
    <3>1. (Limit + 1) + 1 - 1 = Limit + 1 BY <1>1
    <3> QED BY <1>5, <3>1 DEF Last
  <2>4. Last(admitted, Limit) \in Int
    <3>1. Len(admitted) + 1 - Limit \in 1..Len(admitted) BY <1>1, <1>5, <2>1
    <3> QED BY <3>1, RedisAssumption DEF Last, WindowInv, Admissions, Times
  <2>5. Last(admitted, Limit) > (time - Window) + MaxDelay
    BY <1>1, <2>2, <2>3, <2>4
  <2>6. Card(Cut(scores, time - Window)) >= Limit
    BY <1>1, <2>1, <2>5 DEF WindowInv, Counted
  <2>7. time - Window \in Int /\ now - Window <= time - Window BY <1>1
  <2>8. Card(Cut(scores, time - Window)) <= Card(kept)
    BY <1>0, <1>1, <2>7, CutFacts DEF kept
  <2>9. Card(Cut(scores, time - Window)) \in Nat
    BY <1>0, <2>7, CutFacts, MembersFinite
  <2> QED BY <1>1, <1>2, <2>6, <2>8, <2>9
<1>9. Room' BY <1>2 DEF Room
<1> QED BY <1>4, <1>7, <1>8, <1>9 DEF WindowInv

\* Trimming takes away members that no admission in the window counts on.
LEMMA TrimWindow ==
  ASSUME Typed, WindowInv, NEW y \in Int, y <= time - Window,
         scores' = Cut(scores, y), time' = time, admitted' = admitted,
         \/ roomAt' = roomAt
         \/ Card(Cut(scores', roomAt' - Window)) < Limit
  PROVE  WindowInv'
<1>1. /\ time \in Int /\ Window \in Int /\ Limit \in Int /\ roomAt \in Int
      /\ time - Window \in Int
  BY RedisAssumption DEF Typed, Times
<1>2. scores \in Scores /\ scores' \in Scores
  <2>1. scores \in Scores BY DEF Typed, Scores
  <2> QED BY <2>1, CutFacts
<1>3. Admissions' /\ WithinLimit'
  BY DEF WindowInv, Admissions, WithinLimit
<1>4. Counted'
  <2>1. Card(scores') <= Limit
    <3>1. Card(scores') <= Card(scores) BY <1>2, CutFacts
    <3>2. Card(scores') \in Nat /\ Card(scores) \in Nat BY <1>2, MembersFinite
    <3> QED BY <1>1, <3>1, <3>2 DEF WindowInv, Counted
  <2>2. ASSUME NEW x \in Int, x >= time - Window
        PROVE  Cut(scores', x) = Cut(scores, x)
    <3>1. y <= x BY <1>1, <2>2
    <3> QED BY <1>2, <3>1, CutFacts
  <2> QED BY <2>1, <2>2 DEF WindowInv, Counted
<1>5. Room'
  <2>1. CASE roomAt' = roomAt
    <3> SUFFICES ASSUME roomAt # Missing
                 PROVE  Card(Cut(scores', roomAt - Window)) < Limit
      BY <2>1 DEF Room
    <3> DEFINE x == roomAt - Window
    <3>1. x \in Int BY <1>1
    <3>2. Card(Cut(scores, x)) < Limit BY DEF WindowInv, Room
    <3> HIDE DEF x
    <3>3. /\ Cut(scores, x) \in Scores /\ Cut(scores', x) \in Scores
          /\ Card(Cut(scores', x)) \in Nat /\ Card(Cut(scores, x)) \in Nat
      BY <1>2, <3>1, CutFacts, MembersFinite
    <3>4. \A t \in Times : Cut(scores', x)[t] <= Cut(scores, x)[t]
      <4>1. \A t \in Times : scores'[t] <= scores[t] BY <1>2, CutFacts
      <4> QED BY <4>1 DEF Cut
    <3>5. Card(Cut(scores', x)) <= Card(Cut(scores, x))
      BY <3>3, <3>4, CardMonotone
    <3>6. Card(Cut(scores', x)) < Limit BY <1>1, <3>2, <3>3, <3>5
    <3> QED BY <3>6 DEF x
  <2>2. CASE Card(Cut(scores', roomAt' - Window)) < Limit BY <2>2 DEF Room
  <2> QED BY <2>1, <2>2
<1> QED BY <1>3, <1>4, <1>5 DEF WindowInv

LEMMA RefuseWindow ==
  ASSUME Typed, Timely, WindowInv,
         NEW c \in Calls, NEW k \in flight[c], RunRefuse(c, k)
  PROVE  WindowInv'
<1> DEFINE now == args[c].now
           kept == Cut(scores, now - Window)
           promise == now + RetryAfter(Oldest(kept), now) * PerSecond
<1>1. /\ now \in Nat /\ now <= time /\ time \in Nat
      /\ Window \in Nat /\ Limit \in Nat \ {0}
      /\ now - Window \in Int /\ now - Window <= time - Window
      /\ UNCHANGED <<time, admitted>>
  <2>1. now \in Nat /\ now <= time /\ UNCHANGED <<time, admitted>>
    BY RunsFacts DEF RunRefuse
  <2>2. time \in Nat BY RedisAssumption DEF Typed, Times
  <2> QED BY <2>1, <2>2, RedisAssumption
<1>2. /\ Trimmed(now - Window) = kept /\ kept \in Scores
      /\ Card(kept) \in Nat /\ Card(kept) <= Limit
  <2>1. Trimmed(now - Window) = kept BY <1>1, TrimmedFacts
  <2>2. scores \in Scores BY DEF Typed, Scores
  <2>3. kept \in Scores /\ Card(kept) <= Card(scores) BY <1>1, <2>2, CutFacts
  <2>4. Card(kept) \in Nat /\ Card(scores) \in Nat BY <2>2, <2>3, MembersFinite
  <2>5. Card(scores) <= Limit BY DEF WindowInv, Counted
  <2> QED BY <1>1, <2>1, <2>3, <2>4, <2>5
<1>3. /\ scores' = kept /\ Card(kept) >= Limit
      /\ roomAt' = roomAt \/ roomAt' = promise
  BY <1>2 DEF RunRefuse
<1> HIDE DEF kept
<1>4. promise \in Int /\ Card(Cut(kept, promise - Window)) < Limit
  <2>1. Card(kept) > 0 BY <1>1, <1>2, <1>3
  <2>2. /\ Oldest(kept) \in Int
        /\ \A x \in Int : Oldest(kept) <= x => Card(Cut(kept, x)) < Card(kept)
    BY <1>2, <2>1, OldestFacts, RedisAssumption DEF Times
  <2>3. promise \in Int /\ promise >= Oldest(kept) + Window
    <3>1. now \in Int /\ Oldest(kept) \in Int BY <1>1, <2>2
    <3> HIDE DEF now
    <3> QED BY <3>1, PromiseFacts
  <2> HIDE DEF promise
  <2>4. promise - Window \in Int /\ Oldest(kept) <= promise - Window
    BY <1>1, <2>2, <2>3
  <2>5. Card(Cut(kept, promise - Window)) < Card(kept) BY <2>2, <2>4
  <2>6. Card(Cut(kept, promise - Window)) \in Nat
    BY <1>2, <2>4, CutFacts, MembersFinite
  <2> QED BY <1>1, <1>2, <2>3, <2>5, <2>6
<1> HIDE DEF promise, now
<1>5. \/ roomAt' = roomAt
      \/ Card(Cut(scores', roomAt' - Window)) < Limit
  BY <1>3, <1>4
<1>6. scores' = Cut(scores, now - Window) BY <1>3 DEF kept
<1> QED BY <1>1, <1>5, <1>6, TrimWindow

LEMMA ServerWindow ==
  ASSUME Typed, Timely, WindowInv, NEW c \in Calls, NEW k \in flight[c],
         \/ RunAdmit(c, k) \/ RunRefuse(c, k) \/ RunCount(c, k)
         \/ RunBlock(c, k) \/ RunBlockFraction(c, k) \/ RunUnblock(c, k)
         \/ RunIsBlocked(c, k) \/ Lose(c, k)
  PROVE  WindowInv'
<1>1. CASE RunAdmit(c, k) BY <1>1, AdmitWindow
<1>2. CASE RunRefuse(c, k) BY <1>2, RefuseWindow
<1>3. CASE RunCount(c, k)
  <2> DEFINE y == args[c].now - Window
  <2>1. /\ args[c].now \in Nat /\ args[c].now <= time
        /\ UNCHANGED <<time, admitted, roomAt>> /\ scores' = Trimmed(y)
    BY <1>3, RunsFacts DEF RunCount, history
  <2>2. time \in Int /\ Window \in Int
    BY RedisAssumption DEF Typed, Times
  <2>3. y \in Int /\ y <= time - Window BY <2>1, <2>2
  <2> HIDE DEF y
  <2>4. scores' = Cut(scores, y) BY <2>1, <2>3, TrimmedFacts
  <2> QED BY <2>1, <2>3, <2>4, TrimWindow
<1>4. CASE RunUnblock(c, k)
  <2>1. /\ scores' = [t \in Times |-> 0]
        /\ admitted' = << >> /\ roomAt' = Missing
    BY <1>4 DEF RunUnblock
  <2>2. Members(scores') = {} BY <2>1 DEF Members
  <2>3. Card(scores') = 0 BY <2>2, FS_EmptySet DEF Card
  <2>4. Len(admitted') = 0 /\ Limit \in Nat \ {0} BY <2>1, RedisAssumption
  <2>5. Admissions' BY <2>1, <2>4 DEF Admissions
  <2>6. Counted' BY <2>3, <2>4 DEF Counted
  <2>7. WithinLimit' /\ Room' BY <2>1, <2>4 DEF WithinLimit, Room
  <2> QED BY <2>5, <2>6, <2>7 DEF WindowInv
<1>5. CASE \/ RunBlock(c, k) \/ RunBlockFraction(c, k)
           \/ RunIsBlocked(c, k) \/ Lose(c, k)
  <2>1. UNCHANGED <<time, scores, admitted, roomAt>>
    BY <1>5, RunsFacts
       DEF RunBlock, RunBlockFraction, RunIsBlocked, Lose, server, history
  <2> QED BY <2>1 DEF WindowInv, Admissions, Counted, WithinLimit, Room
<1> QED BY <1>1, <1>2, <1>3, <1>4, <1>5

LEMMA NextWindow ==
  ASSUME Typed, Timely, WindowInv, [Next]_vars
  PROVE  WindowInv'
<1> USE DEF WindowInv, Admissions, Counted, WithinLimit, Room
<1>1. CASE Tick
  <2>1. UNCHANGED <<scores, admitted, roomAt>> /\ time' = time + 1
    BY <1>1 DEF Tick, history
  <2>2. time \in Int /\ Window \in Int
    BY RedisAssumption DEF Typed, Times
  <2>3. \A x \in Int : x >= time' - Window => x >= time - Window
    BY <2>1, <2>2
  <2>4. \A i \in 1..Len(admitted) : admitted[i] <= time'
    <3>1. \A i \in 1..Len(admitted) : admitted[i] \in Times BY ElementOfSeq
    <3>2. \A t \in Times : t \in Int BY RedisAssumption DEF Times
    <3> QED BY <2>1, <2>2, <3>1, <3>2
  <2> QED BY <2>1, <2>3, <2>4
<1>2. ASSUME NEW c \in Calls, Client(c) PROVE WindowInv'
  <2>1. UNCHANGED <<time, scores, admitted, roomAt>>
    BY <1>2 DEF Client, Begin, Answer, Retry, GiveUp, server, history
  <2> QED BY <2>1
<1>3. ASSUME NEW c \in Calls, Server(c) PROVE WindowInv'
  BY <1>3, ServerWindow DEF Server
<1>4. CASE UNCHANGED vars BY <1>4 DEF vars, server, history
<1> QED BY <1>1, <1>2, <1>3, <1>4 DEF Next

LEMMA WindowHolds == Spec => [](Typed /\ WindowInv)
BY InitTyped, NextTyped, InitWindowInv, NextWindow, PTL DEF Spec

\* Whatever runs late or twice: in no time shorter than the window, less the
\* time a command may be under way, do more than Limit admissions run.
THEOREM NeverOverLimit == Spec => []WithinLimit
<1>1. WindowInv => WithinLimit BY DEF WindowInv
<1> QED BY <1>1, WindowHolds, PTL

\* When the time is over that a refusal tells its caller to wait there is room,
\* unless others were admitted in between.
THEOREM RetriesFindRoom == Spec => []RetryAdmits
<1>1. Typed /\ WindowInv => RetryAdmits
  <2>1. ASSUME Typed
        PROVE  Trimmed(roomAt - Window) = Cut(scores, roomAt - Window)
    <3>1. roomAt - Window \in Int BY <2>1, RedisAssumption DEF Typed
    <3> QED BY <2>1, <3>1, TrimmedFacts
  <2> QED BY <2>1 DEF WindowInv, Room, RetryAdmits
<1> QED BY <1>1, WindowHolds, PTL

-----------------------------------------------------------------------------
(* The breaker.                                                            *)

\* The initial state is well typed and every step keeps it so.
LEMMA BreakerInitType == BreakerInit => TypeOK
  BY ThresholdAssumption, TimeoutAssumption DEF BreakerInit, TypeOK, Steps

LEMMA BreakerStepType ==
  ASSUME TypeOK, NEW c \in Callers, StartCall(c) \/ Step(c)
  PROVE  TypeOK'
<1> USE DEF TypeOK, Steps, AllowSteps, CallSteps, Goto, breaker
<1>1. CASE StartCall(c) BY <1>1 DEF StartCall
<1>2. CASE LoadState(c) BY <1>2 DEF LoadState
<1>3. CASE LoadLastFailure(c) BY <1>3 DEF LoadLastFailure
<1>4. CASE RejectOpen(c) BY <1>4, TimeoutAssumption DEF RejectOpen, Forget
<1>5. CASE CasHalfOpen(c) BY <1>5, TimeoutAssumption DEF CasHalfOpen, Forget
<1>6. CASE ZeroProbes(c) BY <1>6 DEF ZeroProbes
<1>7. CASE TakeSlot(c) BY <1>7 DEF TakeSlot
<1>8. CASE RejectFull(c) BY <1>8 DEF RejectFull
<1>9. CASE \E r \in Results : Finish(c, r)
  BY <1>9, ResultsAssumption DEF Finish, Failed
<1>10. CASE StampFailure(c) BY <1>10, TimeoutAssumption DEF StampFailure
<1>11. CASE CountFailure(c)
  BY <1>11, ThresholdAssumption DEF CountFailure, AfterFailure
<1>12. CASE StoreOpen(c) BY <1>12 DEF StoreOpen
<1>13. CASE ZeroOpen(c) BY <1>13 DEF ZeroOpen, AfterFailure
<1>14. CASE ResetFailures(c) BY <1>14, ThresholdAssumption DEF ResetFailures
<1>15. CASE CasClosed(c) BY <1>15 DEF CasClosed
<1>16. CASE ZeroClosed(c) BY <1>16 DEF ZeroClosed
<1>17. CASE LoadRelease(c) BY <1>17 DEF LoadRelease
<1>18. CASE Decrement(c) BY <1>18 DEF Decrement
<1> QED
  BY <1>1, <1>2, <1>3, <1>4, <1>5, <1>6, <1>7, <1>8, <1>9, <1>10, <1>11,
     <1>12, <1>13, <1>14, <1>15, <1>16, <1>17, <1>18 DEF Step

LEMMA BreakerTickType == TypeOK /\ BreakerTick => TypeOK'
  BY TimeoutAssumption DEF TypeOK, BreakerTick, Older

LEMMA BreakerNextType == TypeOK /\ [BreakerNext]_breakerVars => TypeOK'
<1> SUFFICES ASSUME TypeOK, [BreakerNext]_breakerVars PROVE TypeOK' OBVIOUS
<1>1. CASE \E c \in Callers : StartCall(c) \/ Step(c) BY <1>1, BreakerStepType
<1>2. CASE BreakerTick BY <1>2, BreakerTickType
<1>3. CASE BackendChanges BY <1>3 DEF BackendChanges, TypeOK, breaker
<1>4. CASE UNCHANGED breakerVars BY <1>4 DEF breakerVars, TypeOK
<1> QED BY <1>1, <1>2, <1>3, <1>4 DEF BreakerNext

\* Every variable of the breaker keeps its type.
THEOREM BreakerTypeCorrect == BreakerSpec => []TypeOK
<1> QED BY BreakerInitType, BreakerNextType, PTL DEF BreakerSpec

-----------------------------------------------------------------------------
\* Probe slots only change hands at four accesses.
LEMMA HoldersStep ==
  ASSUME TypeOK, SlotsHeldInCalls, [BreakerNext]_breakerVars
  PROVE  SlotsHeldInCalls'
<1> USE DEF TypeOK, SlotsHeldInCalls, CallSteps, Goto, breaker
<1>1. ASSUME NEW c \in Callers, StartCall(c) \/ Step(c) PROVE SlotsHeldInCalls'
  <2>1. CASE StartCall(c) BY <1>1, <2>1 DEF StartCall
  <2>2. CASE LoadState(c) BY <2>2 DEF LoadState
  <2>3. CASE LoadLastFailure(c) BY <2>3 DEF LoadLastFailure
  <2>4. CASE RejectOpen(c) BY <2>4 DEF RejectOpen
  <2>5. CASE CasHalfOpen(c) BY <2>5 DEF CasHalfOpen
  <2>6. CASE ZeroProbes(c) BY <2>6 DEF ZeroProbes
  <2>7. CASE TakeSlot(c) BY <2>7 DEF TakeSlot
  <2>8. CASE RejectFull(c) BY <2>8 DEF RejectFull
  <2>9. CASE \E r \in Results : Finish(c, r)
    BY <2>9, ResultsAssumption DEF Finish, Failed
  <2>10. CASE StampFailure(c) BY <2>10 DEF StampFailure
  <2>11. CASE CountFailure(c) BY <2>11 DEF CountFailure, AfterFailure
  <2>12. CASE StoreOpen(c) BY <2>12 DEF StoreOpen
  <2>13. CASE ZeroOpen(c) BY <2>13 DEF ZeroOpen, AfterFailure
  <2>14. CASE ResetFailures(c) BY <2>14 DEF ResetFailures
  <2>15. CASE CasClosed(c) BY <2>15 DEF CasClosed
  <2>16. CASE ZeroClosed(c) BY <2>16 DEF ZeroClosed
  <2>17. CASE LoadRelease(c) BY <2>17 DEF LoadRelease
  <2>18. CASE Decrement(c) BY <2>18 DEF Decrement
  <2> QED
    BY <1>1, <2>1, <2>2, <2>3, <2>4, <2>5, <2>6, <2>7, <2>8, <2>9, <2>10,
       <2>11, <2>12, <2>13, <2>14, <2>15, <2>16, <2>17, <2>18 DEF Step
<1>2. CASE BreakerTick BY <1>2 DEF BreakerTick
<1>3. CASE BackendChanges BY <1>3 DEF BackendChanges
<1>4. CASE UNCHANGED breakerVars BY <1>4 DEF breakerVars
<1> QED BY <1>1, <1>2, <1>3, <1>4 DEF BreakerNext

\* Adding or removing one holder changes the number of holders accordingly.
LEMMA HolderCount ==
  ASSUME TypeOK
  PROVE  /\ Cardinality(probes) \in Nat
         /\ \A c \in Callers :
              Cardinality(probes \cup {c}) =
                IF c \in probes THEN Cardinality(probes)
                                ELSE Cardinality(probes) + 1
         /\ \A c \in Callers :
              Cardinality(probes \ {c}) =
                IF c \in probes THEN Cardinality(probes) - 1
                                ELSE Cardinality(probes)
<1>1. IsFiniteSet(probes)
  BY CallersAssumption, FS_Subset DEF TypeOK
<1> QED
  BY <1>1, FS_CardinalityType, FS_AddElement, FS_RemoveElement

\* The slots in use never outgrow their holders, step by step.
LEMMA SlotStep ==
  ASSUME IInv, NEW c \in Callers, StartCall(c) \/ Step(c)
  PROVE  NoLeakedSlot'
<1> USE DEF IInv, TypeOK, NoLeakedSlot, Goto, breaker
<1>0. /\ Cardinality(probes) \in Nat
      /\ Cardinality(probes \cup {c}) =
           IF c \in probes THEN Cardinality(probes) ELSE Cardinality(probes) + 1
      /\ Cardinality(probes \ {c}) =
           IF c \in probes THEN Cardinality(probes) - 1 ELSE Cardinality(probes)
  BY HolderCount
<1>1. CASE StartCall(c) BY <1>1 DEF StartCall
<1>2. CASE LoadState(c) BY <1>2 DEF LoadState
<1>3. CASE LoadLastFailure(c) BY <1>3 DEF LoadLastFailure
<1>4. CASE RejectOpen(c) BY <1>4 DEF RejectOpen
<1>5. CASE CasHalfOpen(c)
  \* The winner of the swap is about to store zero; a loser changes nothing.
  BY <1>5 DEF CasHalfOpen
<1>6. CASE ZeroProbes(c)
  <2>1. halfOpenReqs' = 0 /\ Cardinality(probes') \in Nat
    BY <1>0, <1>6 DEF ZeroProbes
  <2> QED BY <2>1
<1>7. CASE TakeSlot(c)
  \* A caller inside Allow holds no slot, so the holders grow with the count.
  <2>1. c \notin probes
    BY <1>7 DEF TakeSlot, SlotsHeldInCalls, CallSteps
  <2>2. Cardinality(probes') = Cardinality(probes) + 1
    BY <1>0, <1>7, <2>1 DEF TakeSlot
  <2> QED BY <1>0, <1>7, <2>2 DEF TakeSlot
<1>8. CASE RejectFull(c) BY <1>8 DEF RejectFull
<1>9. CASE \E r \in Results : Finish(c, r)
  BY <1>9, ResultsAssumption DEF Finish, Failed
<1>10. CASE StampFailure(c) BY <1>10 DEF StampFailure
<1>11. CASE CountFailure(c) BY <1>11 DEF CountFailure, AfterFailure
<1>12. CASE StoreOpen(c) BY <1>12 DEF StoreOpen
<1>13. CASE ZeroOpen(c)
  <2>1. halfOpenReqs' = 0 /\ Cardinality(probes') \in Nat
    BY <1>0, <1>13 DEF ZeroOpen
  <2> QED BY <2>1
<1>14. CASE ResetFailures(c) BY <1>14 DEF ResetFailures
<1>15. CASE CasClosed(c) BY <1>15 DEF CasClosed
<1>16. CASE ZeroClosed(c)
  <2>1. halfOpenReqs' = 0 /\ Cardinality(probes') \in Nat
    BY <1>0, <1>16 DEF ZeroClosed
  <2> QED BY <2>1
<1>17. CASE LoadRelease(c)
  \* Only a release outside HalfOpen forgets a slot without giving it back.
  BY <1>17 DEF LoadRelease
<1>18. CASE Decrement(c)
  <2>1. Cardinality(probes') >= Cardinality(probes) - 1
    BY <1>0, <1>18 DEF Decrement
  <2>2. Cardinality(probes') \in Int
    BY <1>0, <1>18 DEF Decrement
  <2> QED BY <1>0, <1>18, <2>1, <2>2 DEF Decrement
<1> QED
  BY <1>1, <1>2, <1>3, <1>4, <1>5, <1>6, <1>7, <1>8, <1>9, <1>10, <1>11,
     <1>12, <1>13, <1>14, <1>15, <1>16, <1>17, <1>18 DEF Step

LEMMA BreakerInitIInv == BreakerInit => IInv
<1> SUFFICES ASSUME BreakerInit PROVE IInv OBVIOUS
<1>1. TypeOK BY BreakerInitType
<1> QED BY <1>1 DEF IInv, BreakerInit, SlotsHeldInCalls, NoLeakedSlot

LEMMA BreakerNextIInv == IInv /\ [BreakerNext]_breakerVars => IInv'
<1> SUFFICES ASSUME IInv, [BreakerNext]_breakerVars PROVE IInv' OBVIOUS
<1>1. TypeOK' BY BreakerNextType DEF IInv
<1>2. SlotsHeldInCalls' BY HoldersStep DEF IInv
<1>3. NoLeakedSlot'
  <2>1. CASE \E c \in Callers : StartCall(c) \/ Step(c) BY <2>1, SlotStep
  <2>2. CASE BreakerTick BY <2>2 DEF BreakerTick, IInv, NoLeakedSlot
  <2>3. CASE BackendChanges
    BY <2>3 DEF BackendChanges, IInv, NoLeakedSlot, breaker
  <2>4. CASE UNCHANGED breakerVars BY <2>4 DEF breakerVars, IInv, NoLeakedSlot
  <2> QED BY <2>1, <2>2, <2>3, <2>4 DEF BreakerNext
<1> QED BY <1>1, <1>2, <1>3 DEF IInv

\* The inductive invariant holds: the breaker keeps its types, every probe slot
\* is held by a call in progress, and the counter exceeds none of them.
THEOREM BreakerInvariant == BreakerSpec => []IInv
<1> QED BY BreakerInitIInv, BreakerNextIInv, PTL DEF BreakerSpec

\* No interleaving of callers leaks a probe slot.
THEOREM SlotsNotLeaked == BreakerSpec => []NoLeakedSlot
<1>1. IInv => NoLeakedSlot BY DEF IInv
<1> QED BY BreakerInvariant, <1>1, PTL

\* A half-open breaker that no call is using admits the next caller.
THEOREM HalfOpenNotStuck == BreakerSpec => []HalfOpenAdmits
<1>1. IInv => HalfOpenAdmits
  <2> SUFFICES ASSUME IInv, state = "HalfOpen",
                      \A c \in Callers : access[c] = "idle"
               PROVE  halfOpenReqs < MaxProbes
    BY DEF HalfOpenAdmits
  <2>1. probes = {}
    BY DEF IInv, TypeOK, SlotsHeldInCalls, CallSteps
  <2>2. halfOpenReqs <= 0
    BY <2>1, FS_EmptySet DEF IInv, NoLeakedSlot
  <2> QED
    BY <2>2, MaxProbesAssumption DEF MaxProbes, IInv, TypeOK
<1> QED BY BreakerInvariant, <1>1, PTL
=============================================================================
