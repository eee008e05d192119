---------------------------- MODULE MetricsProofs ----------------------------
(***************************************************************************)
(* Proofs about Metrics, for any savers, days, retention, numbers of       *)
(* requests and of restarts.                                               *)
(***************************************************************************)
EXTENDS Metrics, FiniteSetTheorems, TLAPS

-----------------------------------------------------------------------------
(* Sums.                                                                   *)

\* A finite number of finite counts is counted by a number.
LEMMA SumType ==
  ASSUME NEW S, IsFiniteSet(S), NEW f, \A x \in S : f[x] \in Nat
  PROVE  IsFiniteSet(Counted(f, S)) /\ SumOf(f, S) \in Nat
<1> DEFINE g == [x \in S |-> {x} \X (1..f[x])]
           P == {{x} \X (1..f[x]) : x \in S}
<1>1. IsFiniteSet(P)
  <2>1. g \in Surjection(S, P) BY DEF Surjection
  <2> QED BY <2>1, FS_Surjection
<1>2. ASSUME NEW x \in S PROVE IsFiniteSet({x} \X (1..f[x]))
  <2>1. f[x] \in Int OBVIOUS
  <2>2. IsFiniteSet(1..f[x]) BY <2>1, FS_Interval
  <2> QED BY <2>2, FS_Singleton, FS_Product
<1>3. IsFiniteSet(UNION P) BY <1>1, <1>2, FS_UNION
<1> QED BY <1>3, FS_CardinalityType DEF Counted, SumOf

\* More is counted in a larger set, of counts that are larger.
LEMMA SumMonotone ==
  ASSUME NEW R, IsFiniteSet(R), NEW S \in SUBSET R,
         NEW g, \A x \in R : g[x] \in Nat,
         NEW f, \A x \in S : f[x] \in Nat /\ f[x] <= g[x]
  PROVE  SumOf(f, S) <= SumOf(g, R)
<1>1. Counted(f, S) \subseteq Counted(g, R)
  <2> SUFFICES ASSUME NEW x \in S, NEW i \in 1..f[x]
               PROVE  i \in 1..g[x]
    BY DEF Counted
  <2>1. f[x] \in Nat /\ g[x] \in Nat /\ f[x] <= g[x] OBVIOUS
  <2> QED BY <2>1
<1>2. IsFiniteSet(Counted(g, R)) BY SumType
<1> QED BY <1>1, <1>2, FS_Subset DEF SumOf

\* One more of one of them is one more altogether.
LEMMA SumAdd ==
  ASSUME NEW S, IsFiniteSet(S), NEW a \in S,
         NEW f, \A x \in S : f[x] \in Nat,
         NEW g, \A x \in S : g[x] = IF x = a THEN f[x] + 1 ELSE f[x]
  PROVE  SumOf(g, S) = SumOf(f, S) + 1
<1> DEFINE m == <<a, f[a] + 1>>
<1>1. f[a] \in Nat /\ g[a] = f[a] + 1 OBVIOUS
<1>2. Counted(g, S) \subseteq Counted(f, S) \cup {m}
  <2> SUFFICES ASSUME NEW x \in S, NEW i \in 1..g[x], <<x, i>> # m
               PROVE  i \in 1..f[x]
    BY DEF Counted
  <2>1. f[x] \in Nat OBVIOUS
  <2> QED BY <2>1
<1>3. Counted(f, S) \subseteq Counted(g, S)
  <2> SUFFICES ASSUME NEW x \in S, NEW i \in 1..f[x]
               PROVE  i \in 1..g[x]
    BY DEF Counted
  <2>1. f[x] \in Nat OBVIOUS
  <2> QED BY <2>1
<1>4. m \in Counted(g, S) /\ m \notin Counted(f, S) BY <1>1 DEF Counted
<1> HIDE DEF m
<1>5. Counted(g, S) = Counted(f, S) \cup {m} BY <1>2, <1>3, <1>4
<1> QED BY <1>4, <1>5, SumType, FS_AddElement DEF SumOf

LEMMA SumOfOne ==
  ASSUME NEW a, NEW f, f[a] \in Nat
  PROVE  SumOf(f, {a}) = f[a]
<1>1. Counted(f, {a}) = {a} \X (1..f[a]) BY DEF Counted
<1>2. IsFiniteSet(1..f[a]) /\ Cardinality(1..f[a]) = f[a]
  <2> DEFINE n == f[a]
  <2>1. n \in Nat OBVIOUS
  <2> HIDE DEF n
  <2>2. n \in Int /\ 1 \in Int BY <2>1
  <2>3. IsFiniteSet(1..n) /\ Cardinality(1..n) = IF 1 > n THEN 0 ELSE n - 1 + 1
    BY <2>2, FS_Interval
  <2>4. IsFiniteSet(1..n) /\ Cardinality(1..n) = n BY <2>1, <2>3
  <2> QED BY <2>4 DEF n
<1>3. IsFiniteSet({a}) /\ Cardinality({a}) = 1 BY FS_Singleton
<1>4. Cardinality({a} \X (1..f[a])) = 1 * f[a] BY <1>2, <1>3, FS_Product
<1>5. 1 * f[a] = f[a] OBVIOUS
<1> QED BY <1>1, <1>4, <1>5 DEF SumOf

LEMMA SumOfSame ==
  ASSUME NEW S, NEW f, NEW g, \A x \in S : f[x] = g[x]
  PROVE  SumOf(f, S) = SumOf(g, S)
BY DEF SumOf, Counted

LEMMA SumOfZero ==
  ASSUME NEW S, NEW f, \A x \in S : f[x] = 0
  PROVE  SumOf(f, S) = 0
<1>1. Counted(f, S) = {} BY DEF Counted
<1> QED BY <1>1, FS_EmptySet DEF SumOf

-----------------------------------------------------------------------------
(* Hours and days.                                                         *)

LEMMA ProductMonotone ==
  ASSUME NEW a \in Nat, NEW b \in Nat, a <= b, NEW p \in Nat
  PROVE  a * p <= b * p
<1>1. PICK n \in Nat : b = a + n
  <2>1. b - a \in Nat /\ b = a + (b - a) OBVIOUS
  <2> QED BY <2>1
<1>2. b * p = a * p + n * p BY <1>1
<1>3. n * p \in Nat /\ a * p \in Nat OBVIOUS
<1> QED BY <1>2, <1>3

LEMMA DayFacts ==
  ASSUME NEW h \in Hours
  PROVE  /\ h \in Nat /\ Day(h) \in Nat /\ Day(h) \in Days
         /\ Midnight(Day(h)) <= h /\ h < Midnight(Day(h)) + HoursPerDay
<1>1. h \in Nat /\ HoursPerDay \in Nat \ {0}
  BY BoundsAssumption DEF Hours
<1>2. /\ h \div HoursPerDay \in Nat
      /\ (h \div HoursPerDay) * HoursPerDay <= h
      /\ h < (h \div HoursPerDay) * HoursPerDay + HoursPerDay
  BY <1>1, Z3
<1> QED BY <1>1, <1>2 DEF Day, Days, Midnight

LEMMA FiniteHours == IsFiniteSet(Hours) /\ IsFiniteSet(Days)
<1>1. IsFiniteSet(Hours) BY BoundsAssumption, FS_Interval DEF Hours
<1> DEFINE f == [h \in Hours |-> Day(h)]
<1>2. f \in Surjection(Hours, Days) BY DEF Surjection, Days
<1> QED BY <1>1, <1>2, FS_Surjection

LEMMA FiniteDay ==
  ASSUME NEW d
  PROVE  HoursOf(d) \subseteq Hours /\ IsFiniteSet(HoursOf(d))
BY FiniteHours, FS_Subset DEF HoursOf

\* The next day starts when the hours of this one are over.
LEMMA NextDay ==
  ASSUME NEW a \in Nat, NEW b \in Nat, a < b
  PROVE  Midnight(a) \in Nat /\ Midnight(b) \in Nat
         /\ Midnight(a) + HoursPerDay <= Midnight(b)
<1>1. HoursPerDay \in Nat /\ a + 1 <= b BY BoundsAssumption
<1>2. (a + 1) * HoursPerDay <= b * HoursPerDay BY <1>1, ProductMonotone
<1>3. (a + 1) * HoursPerDay = a * HoursPerDay + HoursPerDay BY <1>1
<1>4. a * HoursPerDay \in Nat /\ b * HoursPerDay \in Nat BY <1>1
<1> QED BY <1>2, <1>3, <1>4 DEF Midnight

\* The dates between midnight and an hour of the day: the day's own, where local
\* time is not behind UTC, and the next day's where it is.
LEMMA OneDay ==
  ASSUME NEW h \in Hours, NEW d \in Days, NEW zone \in Zones,
         Midnight(Day(h)) <= DateTime(d, zone), DateTime(d, zone) <= h
  PROVE  IF zone >= 0 THEN d = Day(h) ELSE d > Day(h)
<1>1. /\ d \in Nat /\ h \in Nat /\ Day(h) \in Nat
      /\ h < Midnight(Day(h)) + HoursPerDay
  BY DayFacts DEF Days
<1>2. /\ HoursPerDay \in Nat \ {0} /\ zone \in Int
      /\ 1 - HoursPerDay <= zone /\ zone <= HoursPerDay - 1
  BY BoundsAssumption, ZonesAssumption
<1>3. Midnight(d) \in Nat /\ Midnight(Day(h)) \in Nat BY <1>1, <1>2 DEF Midnight
<1>4. Midnight(Day(h)) <= Midnight(d) + zone /\ Midnight(d) + zone <= h
  BY DEF DateTime
<1>5. CASE d < Day(h)
  <2>1. Midnight(d) + HoursPerDay <= Midnight(Day(h)) BY <1>1, <1>5, NextDay
  <2> QED BY <1>2, <1>3, <1>4, <2>1
<1>6. CASE d = Day(h)
  <2>1. zone >= 0 BY <1>2, <1>3, <1>4, <1>6
  <2> QED BY <1>6, <2>1
<1>7. CASE d > Day(h)
  <2>1. Midnight(Day(h)) + HoursPerDay <= Midnight(d) BY <1>1, <1>7, NextDay
  <2>2. ~(zone >= 0) BY <1>1, <1>2, <1>3, <1>4, <2>1
  <2> QED BY <1>7, <2>2
<1> QED BY <1>1, <1>5, <1>6, <1>7

\* No hour of the present day is as old as the cutoff.
LEMMA TodayIsKept ==
  ASSUME NEW h \in Hours, now \in Hours, Day(h) = Day(now)
  PROVE  ~Old(h)
<1>1. HoursPerDay \in Nat /\ Retention \in Nat /\ 1 <= Retention
  BY BoundsAssumption
<1>2. 1 * HoursPerDay <= Retention * HoursPerDay BY <1>1, ProductMonotone
<1>3. HoursPerDay <= Retention * HoursPerDay BY <1>1, <1>2
<1>4. Retention * HoursPerDay \in Nat BY <1>1
<1>5. Midnight(Day(h)) <= h /\ now < Midnight(Day(h)) + HoursPerDay
  BY DayFacts
<1>6. h \in Nat /\ now \in Nat /\ Midnight(Day(h)) \in Nat
  BY <1>1, DayFacts DEF Midnight
<1> DEFINE m == Midnight(Day(h))
           r == Retention * HoursPerDay
<1> HIDE DEF m, r
<1>7. ~(h < now - r) BY <1>1, <1>3, <1>4, <1>5, <1>6 DEF m, r
<1> QED BY <1>7 DEF Old, r

-----------------------------------------------------------------------------
(* Nothing is counted twice: every counter there is, in memory, in a copy  *)
(* being saved or in the file, is bounded by the history of the requests.  *)

Below(f) == f \in [Hours -> Nat] /\ \A h \in Hours : f[h] <= counted[h]
BelowDays(f) ==
  f \in [Days -> Nat] /\ \A d \in Days : f[d] <= SumOf(counted, HoursOf(d))
BelowTotal(n) == n \in Nat /\ n <= SumOf(counted, Hours)

States == {"idle", "hours", "create", "encode", "cleanup", "exit"}
Copies == [hours : [Hours -> Nat], total : Nat]
Saves == [hours : [Hours -> Nat], days : [Days -> Nat], total : Nat]

Control ==
  /\ now \in Hours /\ running \in BOOLEAN /\ known \in BOOLEAN
  /\ cut \in BOOLEAN /\ unread \in BOOLEAN
  /\ pc \in [Savers -> States]
  /\ saved \in Nat /\ restarts \in Nat
  /\ counted \in [Hours -> Nat] /\ SumOf(counted, Hours) <= MaxRequests
MemoryBelow == Below(hours) /\ BelowDays(days) /\ BelowTotal(total)
CopiesBelow ==
  /\ copy \in [Savers -> Copies]
  /\ \A s \in Savers : Below(copy[s].hours) /\ BelowTotal(copy[s].total)
FileBelow ==
  file \notin {NoFile, Torn} =>
    /\ file \in Saves
    /\ Below(file.hours) /\ BelowDays(file.days) /\ BelowTotal(file.total)

Bounded == Control /\ MemoryBelow /\ CopiesBelow /\ FileBelow

LEMMA CountedType ==
  ASSUME counted \in [Hours -> Nat]
  PROVE  /\ SumOf(counted, Hours) \in Nat
         /\ \A d \in Days : SumOf(counted, HoursOf(d)) \in Nat
BY FiniteHours, FiniteDay, SumType

\* One hour's requests, and a day's, are among all of them.
LEMMA PartsOfAll ==
  ASSUME counted \in [Hours -> Nat]
  PROVE  /\ \A h \in Hours : counted[h] <= SumOf(counted, Hours)
         /\ \A d \in Days : SumOf(counted, HoursOf(d)) <= SumOf(counted, Hours)
<1>1. ASSUME NEW h \in Hours PROVE counted[h] <= SumOf(counted, Hours)
  <2>1. SumOf(counted, {h}) <= SumOf(counted, Hours)
    BY FiniteHours, SumMonotone
  <2> QED BY <2>1, SumOfOne
<1>2. ASSUME NEW d \in Days
      PROVE  SumOf(counted, HoursOf(d)) <= SumOf(counted, Hours)
  BY FiniteHours, FiniteDay, SumMonotone
<1> QED BY <1>1, <1>2

LEMMA BoundedSuffices == Bounded => NothingInvented
<1> SUFFICES ASSUME Bounded PROVE NothingInvented OBVIOUS
<1> USE DEF Bounded, Control
<1>1. SumOf(counted, Hours) \in Nat /\ MaxRequests \in Nat
  BY CountedType, BoundsAssumption
<1>2. ASSUME NEW f, Below(f) PROVE f \in Counts
  <2>1. f \in [Hours -> Nat] /\ \A h \in Hours : f[h] <= counted[h]
    BY <1>2 DEF Below
  <2>2. ASSUME NEW h \in Hours PROVE f[h] \in 0..MaxRequests
    <3>1. f[h] \in Nat /\ counted[h] \in Nat /\ f[h] <= counted[h] BY <2>1
    <3>2. counted[h] <= SumOf(counted, Hours) BY PartsOfAll
    <3> QED BY <1>1, <3>1, <3>2
  <2> QED BY <2>1, <2>2 DEF Counts
<1>3. ASSUME NEW f, BelowDays(f) PROVE f \in DayCounts
  <2>1. f \in [Days -> Nat]
        /\ \A d \in Days : f[d] <= SumOf(counted, HoursOf(d))
    BY <1>3 DEF BelowDays
  <2>2. ASSUME NEW d \in Days PROVE f[d] \in 0..MaxRequests
    <3>1. f[d] \in Nat /\ f[d] <= SumOf(counted, HoursOf(d)) BY <2>1
    <3>2. /\ SumOf(counted, HoursOf(d)) \in Nat
          /\ SumOf(counted, HoursOf(d)) <= SumOf(counted, Hours)
      BY CountedType, PartsOfAll
    <3> QED BY <1>1, <3>1, <3>2
  <2> QED BY <2>1, <2>2 DEF DayCounts
<1>4. ASSUME NEW n, BelowTotal(n) PROVE n \in 0..MaxRequests
  BY <1>1, <1>4 DEF BelowTotal
<1>5. file \in {NoFile, Torn} \cup Texts
  <2>1. CASE file \notin {NoFile, Torn}
    <3>1. /\ file \in Saves /\ file.hours \in Counts
          /\ file.days \in DayCounts /\ file.total \in 0..MaxRequests
      BY <1>2, <1>3, <1>4, <2>1 DEF FileBelow
    <3> QED BY <3>1 DEF Saves, Texts
  <2> QED BY <2>1
<1>6. copy \in [Savers -> [hours : Counts, total : 0..MaxRequests]]
  <2>1. ASSUME NEW s \in Savers
        PROVE  copy[s] \in [hours : Counts, total : 0..MaxRequests]
    <3>1. /\ copy[s] \in Copies /\ copy[s].hours \in Counts
          /\ copy[s].total \in 0..MaxRequests
      BY <1>2, <1>4 DEF CopiesBelow
    <3> QED BY <3>1 DEF Copies
  <2> QED BY <2>1 DEF CopiesBelow
<1>7. hours \in Counts /\ days \in DayCounts /\ total \in 0..MaxRequests
  BY <1>2, <1>3, <1>4 DEF MemoryBelow
<1>8. TypeOK BY <1>5, <1>6, <1>7 DEF TypeOK, States
<1> QED BY <1>8 DEF NothingInvented, MemoryBelow, Below, BelowDays, BelowTotal

\* Without requests every counter is 0.
LEMMA EmptyIsBelow ==
  ASSUME counted \in [Hours -> Nat]
  PROVE  Below(None) /\ BelowDays(NoDays) /\ BelowTotal(0)
BY CountedType DEF Below, BelowDays, BelowTotal, None, NoDays

LEMMA InitBounded == Init => Bounded
<1> SUFFICES ASSUME Init PROVE Bounded OBVIOUS
<1>1. counted \in [Hours -> Nat] BY DEF Init, None
<1>2. SumOf(counted, Hours) = 0 BY SumOfZero DEF Init, None
<1>3. Control
  <2>1. pc \in [Savers -> States] BY DEF Init, States
  <2>2. SumOf(counted, Hours) <= MaxRequests BY <1>2, BoundsAssumption
  <2> QED BY <1>1, <2>1, <2>2 DEF Init, Control
<1>4. MemoryBelow BY <1>1, EmptyIsBelow DEF Init, MemoryBelow
<1>5. CopiesBelow
  BY <1>1, EmptyIsBelow DEF Init, CopiesBelow, Copies, NoCopy, Below
<1> QED BY <1>3, <1>4, <1>5 DEF Init, Bounded, FileBelow

\* What is bounded by fewer requests is bounded by more.
LEMMA BelowMonotone ==
  ASSUME counted \in [Hours -> Nat], counted' \in [Hours -> Nat],
         \A h \in Hours : counted[h] <= counted'[h]
  PROVE  /\ \A f : Below(f) => Below(f)'
         /\ \A f : BelowDays(f) => BelowDays(f)'
         /\ \A n : BelowTotal(n) => BelowTotal(n)'
<1>1. ASSUME NEW f, Below(f) PROVE Below(f)'
  <2>1. f \in [Hours -> Nat] /\ \A h \in Hours : f[h] <= counted[h]
    BY <1>1 DEF Below
  <2>2. ASSUME NEW h \in Hours PROVE f[h] <= counted'[h]
    <3>1. /\ f[h] \in Nat /\ counted[h] \in Nat /\ counted'[h] \in Nat
          /\ f[h] <= counted[h] /\ counted[h] <= counted'[h]
      BY <2>1
    <3> QED BY <3>1
  <2> QED BY <2>1, <2>2 DEF Below
<1>2. ASSUME NEW S, S \subseteq Hours
      PROVE  /\ SumOf(counted, S) \in Nat /\ SumOf(counted', S) \in Nat
             /\ SumOf(counted, S) <= SumOf(counted', S)
  <2>1. IsFiniteSet(S) BY <1>2, FiniteHours, FS_Subset
  <2> QED BY <1>2, <2>1, SumMonotone, SumType
<1>3. ASSUME NEW f, BelowDays(f) PROVE BelowDays(f)'
  <2>1. f \in [Days -> Nat]
        /\ \A d \in Days : f[d] <= SumOf(counted, HoursOf(d))
    BY <1>3 DEF BelowDays
  <2>2. ASSUME NEW d \in Days PROVE f[d] <= SumOf(counted', HoursOf(d))
    <3>1. f[d] \in Nat /\ f[d] <= SumOf(counted, HoursOf(d)) BY <2>1
    <3>2. /\ SumOf(counted, HoursOf(d)) \in Nat
          /\ SumOf(counted', HoursOf(d)) \in Nat
          /\ SumOf(counted, HoursOf(d)) <= SumOf(counted', HoursOf(d))
      BY <1>2, FiniteDay
    <3> QED BY <3>1, <3>2
  <2> QED BY <2>1, <2>2 DEF BelowDays
<1>4. ASSUME NEW n, BelowTotal(n) PROVE BelowTotal(n)'
  BY <1>2, <1>4 DEF BelowTotal
<1> QED BY <1>1, <1>3, <1>4

\* What a request adds to the history.
LEMMA OneMore ==
  ASSUME now \in Hours, counted \in [Hours -> Nat],
         counted' = [counted EXCEPT ![now] = @ + 1]
  PROVE  /\ counted' \in [Hours -> Nat]
         /\ \A h \in Hours : counted[h] <= counted'[h]
         /\ SumOf(counted', Hours) = SumOf(counted, Hours) + 1
<1>1. /\ \A h \in Hours : counted[h] \in Nat
      /\ \A h \in Hours : counted'[h] = IF h = now THEN counted[h] + 1
                                                    ELSE counted[h]
  OBVIOUS
<1>2. SumOf(counted', Hours) = SumOf(counted, Hours) + 1
  <2> DEFINE c == counted
             d == counted'
  <2>1. IsFiniteSet(Hours) /\ now \in Hours BY FiniteHours
  <2>2. /\ \A h \in Hours : c[h] \in Nat
        /\ \A h \in Hours : d[h] = IF h = now THEN c[h] + 1 ELSE c[h]
    BY <1>1
  <2> HIDE DEF c, d
  <2>3. SumOf(d, Hours) = SumOf(c, Hours) + 1 BY <2>1, <2>2, SumAdd
  <2> QED BY <2>3 DEF c, d
<1>3. \A h \in Hours : counted[h] <= counted'[h]
  <2> SUFFICES ASSUME NEW h \in Hours PROVE counted[h] <= counted'[h] OBVIOUS
  <2>1. counted[h] \in Nat /\ counted'[h] \in {counted[h], counted[h] + 1}
    BY <1>1
  <2> QED BY <2>1
<1> QED BY <1>2, <1>3

LEMMA RecordBounded ==
  ASSUME Bounded, Record
  PROVE  Bounded'
<1> USE DEF Bounded
<1>1. /\ now \in Hours /\ counted \in [Hours -> Nat]
      /\ counted' = [counted EXCEPT ![now] = @ + 1]
      /\ hours' = [hours EXCEPT ![now] = @ + 1]
      /\ days' = [days EXCEPT ![Day(now)] = SumOf(hours', HoursOf(Day(now)))]
      /\ total' = total + 1
  BY DEF Control, Record
<1>2. /\ counted' \in [Hours -> Nat]
      /\ \A h \in Hours : counted[h] <= counted'[h]
      /\ SumOf(counted', Hours) = SumOf(counted, Hours) + 1
  BY <1>1, OneMore
<1>3. Below(hours)'
  <2>1. hours \in [Hours -> Nat] /\ \A h \in Hours : hours[h] <= counted[h]
    BY DEF MemoryBelow, Below
  <2>2. hours' \in [Hours -> Nat] BY <1>1, <2>1
  <2>3. ASSUME NEW h \in Hours PROVE hours'[h] <= counted'[h]
    <3>1. hours[h] \in Nat /\ counted[h] \in Nat /\ hours[h] <= counted[h]
      BY <1>1, <2>1
    <3>2. CASE h = now BY <1>1, <2>1, <3>1, <3>2
    <3>3. CASE h # now BY <1>1, <2>1, <3>1, <3>3
    <3> QED BY <3>2, <3>3
  <2> QED BY <2>2, <2>3 DEF Below
<1>4. \A f : Below(f) => Below(f)' BY <1>1, <1>2, BelowMonotone
<1>5. \A f : BelowDays(f) => BelowDays(f)' BY <1>1, <1>2, BelowMonotone
<1>6. \A n : BelowTotal(n) => BelowTotal(n)' BY <1>1, <1>2, BelowMonotone
<1>7. BelowDays(days)'
  <2> DEFINE today == SumOf(hours', HoursOf(Day(now)))
  <2>1. BelowDays(days)
        /\ hours' \in [Hours -> Nat] /\ \A h \in Hours : hours'[h] <= counted'[h]
    BY <1>3 DEF MemoryBelow, Below
  <2>2. Day(now) \in Days BY <1>1, DayFacts
  <2>3. /\ HoursOf(Day(now)) \subseteq Hours
        /\ IsFiniteSet(HoursOf(Day(now)))
    BY FiniteDay
  <2>4. today \in Nat
    <3>1. \A h \in HoursOf(Day(now)) : hours'[h] \in Nat BY <2>1, <2>3
    <3> QED BY <2>3, <3>1, SumType
  <2>5. today <= SumOf(counted', HoursOf(Day(now)))
    <3>1. \A h \in HoursOf(Day(now)) :
            hours'[h] \in Nat /\ counted'[h] \in Nat /\ hours'[h] <= counted'[h]
      BY <1>2, <2>1, <2>3
    <3> QED BY <2>3, <3>1, SumMonotone
  <2>6. \A d \in Days : days[d] \in Nat /\ days[d] <= SumOf(counted', HoursOf(d))
    <3>1. ASSUME NEW d \in Days
          PROVE  days[d] \in Nat /\ days[d] <= SumOf(counted', HoursOf(d))
      <4>1. /\ days[d] \in Nat /\ SumOf(counted, HoursOf(d)) \in Nat
            /\ days[d] <= SumOf(counted, HoursOf(d))
        BY <1>1, <2>1, CountedType DEF BelowDays
      <4>2. /\ SumOf(counted', HoursOf(d)) \in Nat
            /\ SumOf(counted, HoursOf(d)) <= SumOf(counted', HoursOf(d))
        BY <1>1, <1>2, FiniteDay, SumMonotone, SumType
      <4> QED BY <4>1, <4>2
    <3> QED BY <3>1
  <2> HIDE DEF today
  <2>7. days' = [days EXCEPT ![Day(now)] = today] BY <1>1 DEF today
  <2>8. days' \in [Days -> Nat] BY <2>1, <2>4, <2>7 DEF BelowDays
  <2>9. ASSUME NEW d \in Days PROVE days'[d] <= SumOf(counted', HoursOf(d))
    BY <2>1, <2>2, <2>5, <2>6, <2>7 DEF BelowDays, today
  <2> QED BY <2>8, <2>9 DEF BelowDays
<1>8. BelowTotal(total)'
  BY <1>1, <1>2, CountedType DEF MemoryBelow, BelowTotal
<1>9. MemoryBelow' BY <1>3, <1>7, <1>8 DEF MemoryBelow
<1>10. CopiesBelow' BY <1>4, <1>6 DEF CopiesBelow, Record
<1>11. FileBelow' BY <1>4, <1>5, <1>6 DEF FileBelow, Record
<1>12. Control'
  <2>1. SumOf(counted, Hours) \in Nat /\ SumOf(counted, Hours) < MaxRequests
    BY <1>1, CountedType DEF Record
  <2>2. SumOf(counted', Hours) <= MaxRequests BY <1>2, <2>1, BoundsAssumption
  <2> QED BY <1>2, <2>2 DEF Control, Record
<1> QED BY <1>9, <1>10, <1>11, <1>12

LEMMA SaveBounded ==
  ASSUME Bounded, NEW s \in Savers,
         CopyTotals(s) \/ CopyHours(s) \/ CreateFile(s)
           \/ EncodeFile(s) \/ SaveFails(s)
  PROVE  Bounded'
<1>1. /\ now' = now /\ running' = running /\ UNCHANGED memory
      /\ counted' = counted /\ restarts' = restarts
  BY DEF CopyTotals, CopyHours, CreateFile, EncodeFile, SaveFails, Flushed,
         history, memory
<1>2. /\ \A f : Below(f) = Below(f)' /\ BelowDays(f) = BelowDays(f)'
      /\ \A n : BelowTotal(n) = BelowTotal(n)'
  BY <1>1 DEF Below, BelowDays, BelowTotal
<1>3. pc' \in [Savers -> States]
  BY DEF Bounded, Control, CopyTotals, CopyHours, CreateFile, EncodeFile,
         SaveFails, Flushed, Goto, States
<1>4. cut' \in BOOLEAN /\ saved' \in Nat /\ unread' \in BOOLEAN
  <2>1. /\ cut \in BOOLEAN /\ saved \in Nat /\ unread \in BOOLEAN
        /\ copy[s].total \in Nat
    BY DEF Bounded, Control, CopiesBelow, Copies
  <2>2. unread' = unread
    BY DEF CopyTotals, CopyHours, CreateFile, EncodeFile, SaveFails, Flushed,
           history
  <2>3. saved' \in {saved, copy[s].total}
    BY DEF CopyTotals, CopyHours, CreateFile, EncodeFile, SaveFails, history
  <2>4. cut' \in BOOLEAN
    <3>1. CASE CopyTotals(s) \/ CopyHours(s)
      BY <2>1, <3>1 DEF CopyTotals, CopyHours, history
    <3>2. CASE CreateFile(s) BY <3>2 DEF CreateFile
    <3>3. CASE EncodeFile(s) BY <3>3 DEF EncodeFile
    <3>4. CASE SaveFails(s) BY <3>4 DEF SaveFails
    <3> QED BY <3>1, <3>2, <3>3, <3>4
  <2> QED BY <2>1, <2>2, <2>3, <2>4
<1>5. Control'
  <2>1. /\ running' \in BOOLEAN /\ known' \in BOOLEAN /\ now' \in Hours
        /\ counted' \in [Hours -> Nat] /\ SumOf(counted', Hours) <= MaxRequests
        /\ restarts' \in Nat
    BY <1>1 DEF Bounded, Control, memory
  <2> QED BY <1>3, <1>4, <2>1 DEF Control
<1>6. MemoryBelow' BY <1>1, <1>2 DEF Bounded, MemoryBelow, memory
<1>7. CopiesBelow'
  <2>1. /\ copy \in [Savers -> Copies]
        /\ \A r \in Savers : Below(copy[r].hours) /\ BelowTotal(copy[r].total)
        /\ Below(hours) /\ BelowTotal(total)
    BY DEF Bounded, CopiesBelow, MemoryBelow
  <2>2. CASE CopyTotals(s)
    <3>1. copy' = [copy EXCEPT ![s].total = total] BY <2>2 DEF CopyTotals
    <3>2. copy'[s] = [copy[s] EXCEPT !.total = total] BY <2>1, <3>1
    <3>3. /\ copy'[s] \in Copies
          /\ copy'[s].hours = copy[s].hours /\ copy'[s].total = total
      BY <2>1, <3>2 DEF Copies, BelowTotal
    <3>4. copy' \in [Savers -> Copies] /\ \A r \in Savers \ {s} : copy'[r] = copy[r]
      BY <2>1, <3>1, <3>3
    <3> QED BY <1>2, <2>1, <3>3, <3>4 DEF CopiesBelow
  <2>3. CASE CopyHours(s)
    <3>1. copy' = [copy EXCEPT ![s].hours = hours] BY <2>3 DEF CopyHours
    <3>2. copy'[s] = [copy[s] EXCEPT !.hours = hours] BY <2>1, <3>1
    <3>3. /\ copy'[s] \in Copies
          /\ copy'[s].total = copy[s].total /\ copy'[s].hours = hours
      BY <2>1, <3>2 DEF Copies, Below
    <3>4. copy' \in [Savers -> Copies] /\ \A r \in Savers \ {s} : copy'[r] = copy[r]
      BY <2>1, <3>1, <3>3
    <3> QED BY <1>2, <2>1, <3>3, <3>4 DEF CopiesBelow
  <2>4. CASE copy' = [copy EXCEPT ![s] = NoCopy]
    <3>1. Below(NoCopy.hours) /\ BelowTotal(NoCopy.total) /\ NoCopy \in Copies
      BY EmptyIsBelow DEF Bounded, Control, NoCopy, Copies, None
    <3>2. copy' \in [Savers -> Copies]
          /\ \A r \in Savers : copy'[r] \in {copy[r], NoCopy}
      BY <2>1, <2>4, <3>1
    <3> QED BY <1>2, <2>1, <3>1, <3>2 DEF CopiesBelow
  <2>5. CASE CreateFile(s) BY <1>2, <2>1, <2>5 DEF CreateFile, CopiesBelow
  <2> QED BY <2>2, <2>3, <2>4, <2>5 DEF EncodeFile, SaveFails, Flushed
<1>8. FileBelow'
  <2>1. CASE file' = file BY <1>2, <2>1 DEF Bounded, FileBelow
  <2>2. CASE file' = Torn BY <2>2 DEF FileBelow
  <2>3. CASE file' = [hours |-> copy[s].hours, days |-> days,
                      total |-> copy[s].total]
    <3>1. /\ copy[s] \in Copies /\ Below(copy[s].hours)
          /\ BelowTotal(copy[s].total) /\ BelowDays(days)
      BY DEF Bounded, CopiesBelow, MemoryBelow
    <3>2. /\ file' \in Saves /\ file'.hours = copy[s].hours
          /\ file'.days = days /\ file'.total = copy[s].total
      BY <2>3, <3>1 DEF Copies, Saves, BelowDays
    <3> QED BY <1>2, <3>1, <3>2 DEF FileBelow
  <2> QED BY <2>1, <2>2, <2>3
    DEF CopyTotals, CopyHours, CreateFile, EncodeFile, SaveFails
<1> QED BY <1>5, <1>6, <1>7, <1>8 DEF Bounded

LEMMA NextBounded == Bounded /\ [Next]_vars => Bounded'
<1> SUFFICES ASSUME Bounded, [Next]_vars PROVE Bounded' OBVIOUS
<1>1. CASE Record BY <1>1, RecordBounded
<1>2. CASE \E s \in Savers : CopyTotals(s) \/ CopyHours(s) \/ CreateFile(s)
                               \/ EncodeFile(s) \/ SaveFails(s)
  BY <1>2, SaveBounded
<1>3. ASSUME counted' = counted
      PROVE  /\ \A f : Below(f) = Below(f)' /\ BelowDays(f) = BelowDays(f)'
             /\ \A n : BelowTotal(n) = BelowTotal(n)'
  BY <1>3 DEF Below, BelowDays, BelowTotal
<1>4. CASE CleanupOldData
  <2>1. /\ counted' = counted /\ copy' = copy /\ file' = file
        /\ days' = days /\ total' = total
        /\ hours' = [h \in Hours |-> IF Old(h) THEN 0 ELSE hours[h]]
    BY <1>4 DEF CleanupOldData, history
  <2>2. Below(hours) /\ counted \in [Hours -> Nat]
    BY DEF Bounded, MemoryBelow, Control
  <2>3. Below(hours')
    <3>1. hours' \in [Hours -> Nat] BY <2>1, <2>2 DEF Below
    <3>2. ASSUME NEW h \in Hours PROVE hours'[h] <= counted[h]
      <4>1. hours'[h] \in {0, hours[h]} BY <2>1
      <4>2. counted[h] \in Nat /\ hours[h] <= counted[h] BY <2>2 DEF Below
      <4> QED BY <4>1, <4>2
    <3> QED BY <3>1, <3>2 DEF Below
  <2>4. Below(hours)' BY <2>1, <2>3 DEF Below
  <2>5. MemoryBelow' BY <1>3, <2>1, <2>4 DEF Bounded, MemoryBelow
  <2>6. CopiesBelow' /\ FileBelow'
    BY <1>3, <2>1 DEF Bounded, CopiesBelow, FileBelow
  <2>7. Control'
    BY <1>4, <2>1 DEF Bounded, Control, CleanupOldData, Goto, States, history
  <2> QED BY <2>5, <2>6, <2>7 DEF Bounded
<1>5. CASE Stop
  <2>1. /\ counted' = counted /\ hours' = None /\ days' = NoDays /\ total' = 0
        /\ copy' = [s \in Savers |-> NoCopy] /\ file' = file
    BY <1>5 DEF Stop
  <2>2. counted' \in [Hours -> Nat] BY <2>1 DEF Bounded, Control
  <2>3. (Below(None) /\ BelowDays(NoDays) /\ BelowTotal(0))'
    BY <1>3, <2>1, EmptyIsBelow DEF Bounded, Control
  <2>4. MemoryBelow' BY <2>1, <2>3 DEF MemoryBelow, None, NoDays
  <2>5. CopiesBelow'
    BY <2>1, <2>3 DEF CopiesBelow, Copies, NoCopy, None, Below
  <2>6. FileBelow' BY <1>3, <2>1 DEF Bounded, FileBelow
  <2>7. Control'
    <3>1. pc' \in [Savers -> States] BY <1>5 DEF Stop, States
    <3>2. now' \in Hours /\ saved' \in Nat /\ restarts' \in Nat
      BY <1>5 DEF Bounded, Control, Stop
    <3>3. /\ running' \in BOOLEAN /\ known' \in BOOLEAN
          /\ cut' \in BOOLEAN /\ unread' \in BOOLEAN
      BY <1>5 DEF Bounded, Control, Stop
    <3> QED BY <2>1, <2>2, <3>1, <3>2, <3>3 DEF Bounded, Control
  <2> QED BY <2>4, <2>5, <2>6, <2>7 DEF Bounded
<1>6. CASE LoadAll
  <2>1. counted' = counted /\ copy' = copy /\ file' = file
    BY <1>6 DEF LoadAll, history
  <2>2. MemoryBelow'
    <3>1. CASE UNCHANGED memory
      BY <1>3, <2>1, <3>1 DEF Bounded, MemoryBelow, memory
    <3>2. CASE /\ file \notin {NoFile, Torn}
               /\ hours' = file.hours /\ days' = file.days /\ total' = file.total
      <4>1. Below(file.hours) /\ BelowDays(file.days) /\ BelowTotal(file.total)
        BY <3>2 DEF Bounded, FileBelow
      <4>2. Below(hours') /\ BelowDays(days') /\ BelowTotal(total')
        BY <3>2, <4>1
      <4> QED BY <2>1, <4>2 DEF MemoryBelow, Below, BelowDays, BelowTotal
    <3> QED BY <1>6, <3>1, <3>2 DEF LoadAll
  <2>3. CopiesBelow' /\ FileBelow'
    BY <1>3, <2>1 DEF Bounded, CopiesBelow, FileBelow
  <2>4. Control' BY <1>6, <2>1 DEF Bounded, Control, LoadAll, history, memory
  <2> QED BY <2>2, <2>3, <2>4 DEF Bounded
<1>7. CASE Tick \/ LoadFails
  BY <1>3, <1>7 DEF Bounded, Control, MemoryBelow, CopiesBelow, FileBelow, Tick,
                    LoadFails, memory, history
<1>8. CASE UNCHANGED vars
  BY <1>3, <1>8 DEF Bounded, Control, MemoryBelow, CopiesBelow, FileBelow, vars
<1> QED BY <1>1, <1>2, <1>4, <1>5, <1>6, <1>7, <1>8 DEF Next

LEMMA AlwaysBounded == Spec => []Bounded
<1> QED BY InitBounded, NextBounded, PTL DEF Spec

\* However saves, losses and restarts follow one another, no counter in memory
\* or in the file counts more requests than there were.
THEOREM NoneInvented == Spec => []NothingInvented
<1> QED BY AlwaysBounded, BoundedSuffices, PTL

-----------------------------------------------------------------------------
(* Nothing is missing until a restart: the hours that are not old enough   *)
(* to be removed are complete, and so are the days that are summed from    *)
(* them and the total.                                                     *)

DayExact == \A d \in Days : days[d] = SumOf(counted, HoursOf(d))
Exact ==
  /\ running
  /\ DayExact
  /\ total = SumOf(counted, Hours)
  /\ \A h \in Hours : ~Old(h) => hours[h] = counted[h]

ExactUntilRestart == restarts = 0 => Exact

LEMMA InitExact == Init => ExactUntilRestart
<1> SUFFICES ASSUME Init PROVE Exact BY DEF ExactUntilRestart
<1>1. /\ counted = None /\ hours = None /\ days = NoDays /\ total = 0
      /\ running
  BY DEF Init
<1>2. \A h \in Hours : counted[h] = 0 BY <1>1 DEF None
<1>3. SumOf(counted, Hours) = 0 BY <1>2, SumOfZero
<1>4. ASSUME NEW d \in Days PROVE days[d] = SumOf(counted, HoursOf(d))
  <2>1. \A h \in HoursOf(d) : counted[h] = 0 BY <1>2, FiniteDay
  <2>2. SumOf(counted, HoursOf(d)) = 0 BY <2>1, SumOfZero
  <2> QED BY <1>1, <2>2 DEF NoDays
<1> QED BY <1>1, <1>3, <1>4 DEF Exact, DayExact

LEMMA RecordExact ==
  ASSUME Bounded, ExactUntilRestart, Record
  PROVE  ExactUntilRestart'
<1> SUFFICES ASSUME restarts = 0 PROVE Exact'
  BY DEF ExactUntilRestart, Record
<1> USE DEF Bounded, Control
<1>1. Exact BY DEF ExactUntilRestart
<1>2. /\ now \in Hours /\ now' = now /\ running'
      /\ counted \in [Hours -> Nat]
      /\ counted' = [counted EXCEPT ![now] = @ + 1]
      /\ hours \in [Hours -> Nat] /\ hours' = [hours EXCEPT ![now] = @ + 1]
      /\ days \in [Days -> Nat]
      /\ days' = [days EXCEPT ![Day(now)] = SumOf(hours', HoursOf(Day(now)))]
      /\ total' = total + 1
  BY DEF Record, MemoryBelow, Below, BelowDays
<1>3. SumOf(counted', Hours) = SumOf(counted, Hours) + 1 BY <1>2, OneMore
<1>4. ASSUME NEW h \in Hours, ~Old(h) PROVE hours'[h] = counted'[h]
  <2>1. hours[h] = counted[h] BY <1>1, <1>4 DEF Exact
  <2> QED BY <1>2, <2>1
<1>5. \A h \in Hours : Old(h)' = Old(h) BY <1>2 DEF Old
<1>6. ASSUME NEW d \in Days PROVE days'[d] = SumOf(counted', HoursOf(d))
  <2>1. CASE d = Day(now)
    <3>1. \A h \in HoursOf(d) : hours'[h] = counted'[h]
      BY <1>2, <1>4, <2>1, TodayIsKept DEF HoursOf
    <3>2. SumOf(hours', HoursOf(d)) = SumOf(counted', HoursOf(d))
      BY <3>1, SumOfSame
    <3> QED BY <1>2, <2>1, <3>2
  <2>2. CASE d # Day(now)
    <3>1. \A h \in HoursOf(d) : counted'[h] = counted[h]
      BY <1>2, <2>2 DEF HoursOf
    <3>2. SumOf(counted', HoursOf(d)) = SumOf(counted, HoursOf(d))
      BY <3>1, SumOfSame
    <3>3. days'[d] = days[d] BY <1>2, <2>2
    <3> QED BY <1>1, <3>2, <3>3 DEF Exact, DayExact
  <2> QED BY <2>1, <2>2
<1>7. total' = SumOf(counted', Hours) BY <1>1, <1>2, <1>3 DEF Exact
<1> QED BY <1>2, <1>4, <1>5, <1>6, <1>7 DEF Exact, DayExact

LEMMA NextExact ==
  Bounded /\ ExactUntilRestart /\ [Next]_vars => ExactUntilRestart'
<1> SUFFICES ASSUME Bounded, ExactUntilRestart, [Next]_vars
             PROVE  ExactUntilRestart'
  OBVIOUS
<1>1. CASE Record BY <1>1, RecordExact
<1>2. ASSUME UNCHANGED <<days, total, counted, running, restarts>>
      PROVE  /\ ExactUntilRestart \/ restarts' # 0
             /\ (restarts' = 0 => (DayExact /\ running)')
             /\ restarts' = 0 => total' = SumOf(counted', Hours)
  BY <1>2 DEF ExactUntilRestart, Exact, DayExact
<1>3. CASE \E s \in Savers : CopyTotals(s) \/ CopyHours(s) \/ CreateFile(s)
                               \/ EncodeFile(s) \/ SaveFails(s)
  <2>1. UNCHANGED <<now, hours, days, total, counted, running, restarts>>
    BY <1>3 DEF CopyTotals, CopyHours, CreateFile, EncodeFile, SaveFails,
                Flushed, memory, history
  <2> QED BY <2>1 DEF ExactUntilRestart, Exact, DayExact, Old
<1>4. CASE CleanupOldData
  <2>1. UNCHANGED <<now, days, total, counted, running, restarts>>
        /\ hours' = [h \in Hours |-> IF Old(h) THEN 0 ELSE hours[h]]
    BY <1>4 DEF CleanupOldData, history
  <2>2. \A h \in Hours : Old(h)' = Old(h) /\ (~Old(h) => hours'[h] = hours[h])
    BY <2>1 DEF Old
  <2> QED BY <2>1, <2>2 DEF ExactUntilRestart, Exact, DayExact
<1>5. CASE Stop
  <2>1. restarts' # 0 BY <1>5 DEF Stop, Bounded, Control
  <2> QED BY <2>1 DEF ExactUntilRestart
<1>6. CASE LoadAll \/ LoadFails
  <2>1. restarts' # 0
    BY <1>6 DEF LoadAll, LoadFails, ExactUntilRestart, Exact, history
  <2> QED BY <2>1 DEF ExactUntilRestart
<1>7. CASE Tick
  <2>1. UNCHANGED <<hours, days, total, counted, running, restarts>>
        /\ now' = now + 1
    BY <1>7 DEF Tick, memory, history
  <2>2. ASSUME NEW h \in Hours, Old(h) PROVE Old(h)'
    <3>1. h \in Nat /\ now \in Nat BY DayFacts DEF Bounded, Control
    <3>2. Retention * HoursPerDay \in Nat BY BoundsAssumption
    <3> DEFINE r == Retention * HoursPerDay
    <3> HIDE DEF r
    <3>3. h < now - r BY <1>7, <2>2 DEF Old, r
    <3>4. h < now' - r BY <2>1, <3>1, <3>2, <3>3 DEF r
    <3> QED BY <3>4 DEF Old, r
  <2> QED BY <2>1, <2>2 DEF ExactUntilRestart, Exact, DayExact
<1>8. CASE UNCHANGED vars
  BY <1>8 DEF vars, ExactUntilRestart, Exact, DayExact, Old
<1> QED BY <1>1, <1>3, <1>4, <1>5, <1>6, <1>7, <1>8 DEF Next

LEMMA AlwaysExact == Spec => []ExactUntilRestart
<1> QED BY InitExact, NextExact, AlwaysBounded, PTL DEF Spec

\* Until the process restarts the days and the total count every request,
\* whatever the saves and the cleanup do meanwhile.
THEOREM NoneMissing == Spec => []NothingMissing
<1>1. ExactUntilRestart => NothingMissing
  BY DEF ExactUntilRestart, Exact, DayExact, NothingMissing
<1> QED BY <1>1, AlwaysExact, PTL

\* No request is of an hour to come.
NoneToCome == \A h \in Hours : h > now => counted[h] = 0

LEMMA AlwaysNoneToCome == Spec => []NoneToCome
<1>1. Init => NoneToCome BY DEF Init, NoneToCome, None
<1>2. Bounded /\ NoneToCome /\ [Next]_vars => NoneToCome'
  <2> SUFFICES ASSUME Bounded, NoneToCome, [Next]_vars PROVE NoneToCome' OBVIOUS
  <2>1. now \in Nat /\ counted \in [Hours -> Nat] /\ Hours \subseteq Nat
    BY BoundsAssumption DEF Bounded, Control, Hours
  <2>2. CASE Record
    <3>1. now' = now /\ counted' = [counted EXCEPT ![now] = @ + 1]
      BY <2>2 DEF Record
    <3> QED BY <2>1, <3>1 DEF NoneToCome
  <2>3. CASE Tick
    <3>1. now' = now + 1 /\ counted' = counted BY <2>3 DEF Tick, history
    <3> QED BY <2>1, <3>1 DEF NoneToCome
  <2>4. CASE UNCHANGED <<now, counted>> BY <2>4 DEF NoneToCome
  <2>5. CASE \E s \in Savers : CopyTotals(s) \/ CopyHours(s) \/ CreateFile(s)
                                 \/ EncodeFile(s) \/ SaveFails(s)
    BY <2>4, <2>5 DEF CopyTotals, CopyHours, CreateFile, EncodeFile, SaveFails,
                      Flushed, history
  <2>6. CASE CleanupOldData \/ Stop \/ LoadAll \/ LoadFails \/ UNCHANGED vars
    BY <2>4, <2>6 DEF CleanupOldData, Stop, LoadAll, LoadFails, history, vars
  <2> QED BY <2>2, <2>3, <2>5, <2>6 DEF Next
<1> QED BY <1>1, <1>2, AlwaysBounded, PTL DEF Spec

\* Until then the query of the present day answers with its requests, where local
\* time is UTC.  Elsewhere the dates of the buckets are taken for other moments:
\* east of UTC today's is not reached before the zone's number of hours, and west
\* of it only dates to come are in the range.
THEOREM TodayIsCounted == Spec => []TodayCounted
<1>1. Bounded /\ ExactUntilRestart /\ NoneToCome => TodayCounted
  <2> DEFINE today == Day(now)
             requests == SumOf(counted, HoursOf(today))
  <2> SUFFICES ASSUME Bounded, ExactUntilRestart, NoneToCome,
                      NEW zone \in Zones, restarts = 0
               PROVE  TodayTotal(zone) = IF zone \in 0 .. now - Midnight(today)
                                         THEN requests ELSE 0
    BY DEF TodayCounted
  <2> DEFINE range == {d \in Days : Within(Midnight(today), now, DateTime(d, zone))}
  <2>1. now \in Hours /\ days \in [Days -> Nat] /\ zone \in Int
    BY ZonesAssumption, BoundsAssumption
    DEF Bounded, Control, MemoryBelow, BelowDays
  <2>2. /\ today \in Days /\ now \in Nat
        /\ Midnight(today) \in Nat /\ Midnight(today) <= now
    BY <2>1, BoundsAssumption, DayFacts DEF Midnight
  <2>3. TodayTotal(zone) = SumOf(days, range) BY DEF TodayTotal, Query
  <2>4. ASSUME NEW d \in range
        PROVE  d \in Days /\ (IF zone >= 0 THEN d = today ELSE d > today)
    BY <2>1, OneDay DEF Within
  <2>5. DateTime(today, zone) = Midnight(today) + zone BY DEF DateTime
  <2>6. today \in range <=> zone \in 0 .. now - Midnight(today)
    BY <2>1, <2>2, <2>5 DEF Within
  <2>7. \A d \in Days : days[d] = SumOf(counted, HoursOf(d))
    BY DEF ExactUntilRestart, Exact, DayExact
  <2> HIDE DEF range
  <2>8. CASE zone \in 0 .. now - Midnight(today)
    <3>1. range = {today} BY <2>1, <2>4, <2>6, <2>8
    <3>2. SumOf(days, {today}) = days[today] BY <2>1, <2>2, SumOfOne
    <3> QED BY <2>2, <2>3, <2>7, <2>8, <3>1, <3>2
  <2>9. CASE zone \notin 0 .. now - Midnight(today)
    <3>1. ASSUME NEW d \in range PROVE days[d] = 0
      <4>1. d \in Days /\ d > today
        BY <2>1, <2>4, <2>6, <2>9
      <4>2. ASSUME NEW h \in HoursOf(d) PROVE counted[h] = 0
        <5>1. h \in Hours /\ Day(h) = d BY <4>2 DEF HoursOf
        <5>2. /\ h \in Nat /\ Midnight(d) <= h /\ d \in Nat /\ today \in Nat
              /\ now < Midnight(today) + HoursPerDay
          BY <2>1, <5>1, DayFacts
        <5>3. Midnight(d) \in Nat /\ Midnight(today) + HoursPerDay <= Midnight(d)
          BY <4>1, <5>2, NextDay
        <5>4. HoursPerDay \in Nat BY BoundsAssumption
        <5>5. h > now BY <2>2, <5>2, <5>3, <5>4
        <5> QED BY <5>1, <5>5 DEF NoneToCome
      <4>3. SumOf(counted, HoursOf(d)) = 0 BY <4>2, SumOfZero
      <4> QED BY <2>7, <4>1, <4>3
    <3>2. SumOf(days, range) = 0 BY <3>1, SumOfZero
    <3> QED BY <2>3, <2>9, <3>2
  <2> QED BY <2>8, <2>9
<1> QED BY <1>1, AlwaysBounded, AlwaysExact, AlwaysNoneToCome, PTL

-----------------------------------------------------------------------------
(* What was saved is still there: unless a save was cut, failed, overlapped *)
(* with another or replaced what was not read, the file a stopped process  *)
(* leaves has the saved total, and so have the memory and the copies being *)
(* saved of a process that has read it.                                    *)

FileHolds ==
  /\ file = NoFile => saved = 0
  /\ file \notin {NoFile, Torn} => saved <= file.total
CopiesAhead == \A s \in Saving : saved <= copy[s].total
CopiesBehind == \A s \in Saving : copy[s].total <= total
\* A process that has not read the file has not truncated it.
Untouched == file # Torn /\ \A s \in Savers : pc[s] # "encode"
SavedKept ==
  /\ ~running => Saving = {}
  /\ CopiesBehind
  /\ ~cut => /\ running /\ ~unread => saved <= total
             /\ ~running => file # Torn
             /\ unread => Untouched
             /\ ~unread => CopiesAhead
             /\ FileHolds

LEMMA InitKept == Init => SavedKept
  BY DEF Init, SavedKept, Saving, CopiesAhead, CopiesBehind, FileHolds, Untouched

LEMMA NextKept == Bounded /\ SavedKept /\ [Next]_vars => SavedKept'
<1> SUFFICES ASSUME Bounded, SavedKept, [Next]_vars PROVE SavedKept' OBVIOUS
<1> DEFINE view == <<running, total, file, pc, copy, saved, cut, unread>>
<1>1. /\ total \in Nat /\ saved \in Nat /\ pc \in [Savers -> States]
      /\ copy \in [Savers -> Copies] /\ \A s \in Savers : copy[s].total \in Nat
      /\ running \in BOOLEAN /\ cut \in BOOLEAN /\ unread \in BOOLEAN
  BY DEF Bounded, Control, MemoryBelow, BelowTotal, CopiesBelow
<1>2. CASE Record
  <2>1. /\ total' = total + 1 /\ running
        /\ UNCHANGED <<running, file, pc, copy, saved, cut, unread>>
    BY <1>2 DEF Record
  <2>2. Saving' = Saving BY <2>1 DEF Saving
  <2>3. CopiesBehind'
    BY <1>1, <2>1, <2>2 DEF CopiesBehind, SavedKept, Saving
  <2>4. ~cut /\ ~unread => saved <= total + 1 BY <1>1, <2>1 DEF SavedKept
  <2> QED BY <2>1, <2>2, <2>3, <2>4
    DEF SavedKept, CopiesAhead, FileHolds, Untouched
<1>3. ASSUME NEW s \in Savers, CopyTotals(s) PROVE SavedKept'
  <2>1. /\ running /\ pc' = [pc EXCEPT ![s] = "hours"]
        /\ copy' = [copy EXCEPT ![s].total = total]
        /\ UNCHANGED <<running, total, file, saved, cut, unread>>
    BY <1>3 DEF CopyTotals, Goto, memory, history
  <2>2. Saving' = Saving \cup {s} BY <1>1, <2>1 DEF Saving
  <2>3. copy'[s].total = total /\ \A r \in Savers \ {s} : copy'[r] = copy[r]
    BY <1>1, <2>1 DEF Copies
  <2>4. CopiesBehind'
    BY <1>1, <2>1, <2>2, <2>3 DEF CopiesBehind, SavedKept, Saving
  <2>5. ~cut /\ ~unread => CopiesAhead'
    BY <1>1, <2>1, <2>2, <2>3 DEF CopiesAhead, SavedKept, Saving
  <2>6. ~cut /\ unread => Untouched' BY <1>1, <2>1 DEF SavedKept, Untouched
  <2> QED BY <2>1, <2>4, <2>5, <2>6 DEF SavedKept, FileHolds
<1>4. ASSUME NEW s \in Savers, CopyHours(s) PROVE SavedKept'
  <2>1. /\ running /\ pc[s] = "hours" /\ pc' = [pc EXCEPT ![s] = "create"]
        /\ copy' = [copy EXCEPT ![s].hours = hours]
        /\ UNCHANGED <<running, total, file, saved, cut, unread>>
    BY <1>4 DEF CopyHours, Goto, memory, history
  <2>2. Saving' = Saving BY <1>1, <2>1 DEF Saving
  <2>3. \A r \in Savers : copy'[r].total = copy[r].total
    BY <1>1, <2>1 DEF Copies
  <2>4. CopiesBehind'
    BY <1>1, <2>1, <2>2, <2>3 DEF CopiesBehind, SavedKept, Saving
  <2>5. ~cut /\ ~unread => CopiesAhead'
    BY <1>1, <2>1, <2>2, <2>3 DEF CopiesAhead, SavedKept, Saving
  <2>6. ~cut /\ unread => Untouched' BY <1>1, <2>1 DEF SavedKept, Untouched
  <2> QED BY <2>1, <2>4, <2>5, <2>6 DEF SavedKept, FileHolds
<1>5. ASSUME NEW s \in Savers, CreateFile(s) PROVE SavedKept'
  <2>1. /\ running /\ pc[s] = "create" /\ pc' = [pc EXCEPT ![s] = "encode"]
        /\ file' = Torn /\ cut' = (cut \/ unread)
        /\ UNCHANGED <<running, total, copy, saved, unread>>
    BY <1>5 DEF CreateFile, Goto, memory
  <2>2. Saving' = Saving BY <1>1, <2>1 DEF Saving
  <2>3. FileHolds' BY <2>1, FileAssumption DEF FileHolds
  <2> QED BY <2>1, <2>2, <2>3 DEF SavedKept, CopiesAhead, CopiesBehind
<1>6. ASSUME NEW s \in Savers, NEW from \in {"create", "encode"}, Flushed(s, from)
      PROVE  /\ running /\ running' /\ total' = total
             /\ s \in Saving /\ Saving' = Saving \ {s}
             /\ \A r \in Saving' : copy'[r] = copy[r]
             /\ CopiesBehind' /\ unread' = unread
  <2>1. /\ running /\ pc[s] = from
        /\ pc' = [pc EXCEPT ![s] = IF s = "flusher" THEN "cleanup" ELSE "exit"]
        /\ copy' = [copy EXCEPT ![s] = NoCopy] /\ total' = total /\ running' = running
        /\ unread' = unread
    BY <1>6 DEF Flushed, Goto, memory
  <2>2. s \in Saving /\ Saving' = Saving \ {s} BY <1>1, <2>1 DEF Saving
  <2>3. \A r \in Saving' : copy'[r] = copy[r] BY <1>1, <2>1, <2>2 DEF Saving
  <2>4. CopiesBehind' BY <2>1, <2>2, <2>3 DEF CopiesBehind, SavedKept
  <2> QED BY <2>1, <2>2, <2>3, <2>4
<1>7. ASSUME NEW s \in Savers, SaveFails(s) PROVE SavedKept'
  <2>1. cut' /\ running' /\ CopiesBehind' BY <1>6, <1>7 DEF SaveFails
  <2> QED BY <2>1 DEF SavedKept
<1>8. ASSUME NEW s \in Savers, EncodeFile(s) PROVE SavedKept'
  <2> DEFINE text == [hours |-> copy[s].hours, days |-> days,
                      total |-> copy[s].total]
  <2>1. /\ running /\ running' /\ total' = total
        /\ s \in Saving /\ Saving' = Saving \ {s} /\ CopiesBehind'
        /\ unread' = unread /\ pc[s] = "encode"
    BY <1>6, <1>8 DEF EncodeFile, Flushed, Goto
  <2>2. /\ file' \in {text} \cup (IF file = Torn THEN {} ELSE {Torn})
        /\ saved' = IF file' = text /\ copy[s].total > saved
                      THEN copy[s].total ELSE saved
        /\ cut' = (cut \/ file' = Torn \/ Saving # {s})
    BY <1>8 DEF EncodeFile
  <2>3. CASE cut' BY <2>1, <2>3 DEF SavedKept
  <2>4. CASE ~cut'
    <3>1. /\ ~cut /\ file' = text /\ Saving = {s} /\ ~unread /\ ~unread'
      BY <2>1, <2>2, <2>4 DEF SavedKept, Untouched
    <3>2. /\ saved <= copy[s].total /\ copy[s].total <= total
          /\ copy[s].total \in Nat
      BY <1>1, <2>1, <3>1 DEF SavedKept, CopiesAhead, CopiesBehind
    <3>3. saved' = copy[s].total BY <1>1, <2>2, <3>1, <3>2
    <3>4. file'.total = copy[s].total BY <3>1
    <3>5. text \in Texts /\ file' \notin {NoFile, Torn}
      <4>1. NothingInvented BY BoundedSuffices
      <4>2. text \in Texts BY <4>1 DEF NothingInvented, TypeOK, Texts
      <4> QED BY <3>1, <4>2, FileAssumption
    <3>6. FileHolds' BY <3>2, <3>3, <3>4, <3>5 DEF FileHolds
    <3>7. Saving' = {} BY <2>1, <3>1
    <3> QED BY <2>1, <3>1, <3>2, <3>3, <3>6, <3>7 DEF SavedKept, CopiesAhead
  <2> QED BY <2>3, <2>4
<1>9. CASE CleanupOldData
  <2>1. /\ running /\ "flusher" \in Savers /\ pc["flusher"] = "cleanup"
        /\ pc' = [pc EXCEPT !["flusher"] = "idle"]
        /\ UNCHANGED <<running, total, file, copy, saved, cut, unread>>
    BY <1>9 DEF CleanupOldData, Goto, history
  <2>2. Saving' = Saving BY <1>1, <2>1 DEF Saving
  <2>3. ~cut /\ unread => Untouched' BY <1>1, <2>1 DEF SavedKept, Untouched
  <2> QED BY <2>1, <2>2, <2>3
    DEF SavedKept, CopiesAhead, CopiesBehind, FileHolds
<1>10. CASE Stop
  <2>1. /\ ~running' /\ cut' = (cut \/ file = Torn) /\ file' = file
        /\ saved' = saved /\ pc' = [s \in Savers |-> "idle"] /\ ~unread'
    BY <1>10 DEF Stop
  <2>2. Saving' = {} BY <2>1 DEF Saving
  <2> QED BY <2>1, <2>2 DEF SavedKept, CopiesAhead, CopiesBehind, FileHolds
<1>11. CASE LoadAll
  <2>1. /\ ~running /\ running' /\ UNCHANGED <<file, pc, copy, saved, cut, unread>>
        /\ IF file \in {NoFile, Torn} THEN total' = total
                                      ELSE total' = file.total
    BY <1>11 DEF LoadAll, memory, history
  <2>2. Saving = {} /\ Saving' = {} BY <2>1 DEF SavedKept, Saving
  <2>3. ASSUME ~cut PROVE saved <= total'
    <3>1. file # Torn /\ FileHolds BY <2>1, <2>3 DEF SavedKept
    <3> QED BY <1>1, <2>1, <3>1 DEF FileHolds
  <2>4. ~cut /\ unread => Untouched' BY <2>1 DEF SavedKept, Untouched
  <2> QED BY <2>1, <2>2, <2>3, <2>4
    DEF SavedKept, CopiesAhead, CopiesBehind, FileHolds
<1>12. CASE LoadFails
  <2>1. /\ ~running /\ running' /\ unread' /\ file # Torn
        /\ UNCHANGED <<file, pc, copy, saved, cut, total>>
    BY <1>12 DEF LoadFails, memory
  <2>2. Saving = {} /\ Saving' = {} BY <2>1 DEF SavedKept, Saving
  <2>3. Untouched' BY <2>1, <2>2 DEF Untouched, Saving
  <2> QED BY <2>1, <2>2, <2>3 DEF SavedKept, CopiesBehind, FileHolds
<1>13. CASE UNCHANGED view
  <2>1. Saving' = Saving BY <1>13 DEF Saving
  <2> QED BY <1>13, <2>1
    DEF SavedKept, CopiesAhead, CopiesBehind, FileHolds, Untouched
<1>14. CASE Tick BY <1>13, <1>14 DEF Tick, memory, history
<1>15. CASE UNCHANGED vars BY <1>13, <1>15 DEF vars
<1> QED BY <1>2, <1>3, <1>4, <1>5, <1>7, <1>8, <1>9, <1>10, <1>11, <1>12, <1>14,
       <1>15 DEF Next

\* Metrics that were saved survive every restart, as long as no save fails, is
\* cut short by the end of the process, overlaps with another, or replaces a file
\* the process could not read, and are in the memory of a process that read it.
THEOREM SavesAreKept == Spec => []SavedUnlessCut
<1>1. Bounded /\ SavedKept => SavedUnlessCut
  BY DEF SavedKept, SavedUnlessCut, Bounded, Control, MemoryBelow, BelowTotal
<1>2. Spec => []SavedKept BY InitKept, NextKept, AlwaysBounded, PTL DEF Spec
<1> QED BY <1>1, <1>2, AlwaysBounded, PTL
=============================================================================
