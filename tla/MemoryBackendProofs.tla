------------------------- MODULE MemoryBackendProofs -------------------------
(***************************************************************************)
(* Proofs about MemoryBackend, for any goroutines, keys, calls, capacity,  *)
(* limits, durations and clock: a block that was set is seen by every      *)
(* later request, and ends when it should; and racing requests of one key  *)
(* admit no more than one window's worth per goroutine.                    *)
(***************************************************************************)
EXTENDS MemoryBackend, SequenceTheorems, FiniteSetTheorems, TLAPS

-----------------------------------------------------------------------------
(* The cache as a sequence, and as a relation between keys and entries.    *)

Entries == [key : Keys, entry : Ids]

\* No key and no entry is in the cache twice.
Distinct(c) ==
  \A i, j \in 1..Len(c) :
    c[i].key = c[j].key \/ c[i].entry = c[j].entry => i = j

\* The cache has entry e for key k.
Caches(c, k, e) == \E i \in 1..Len(c) : c[i] = [key |-> k, entry |-> e]

LEMMA DomainOfCache ==
  ASSUME NEW c \in Seq(Entries)
  PROVE  /\ DOMAIN c = 1..Len(c) /\ Len(c) \in Nat
         /\ \A i \in 1..Len(c) : /\ c[i].key \in Keys /\ c[i].entry \in Ids
                                 /\ c[i] = [key |-> c[i].key, entry |-> c[i].entry]
         /\ \A k : Holds(c, k) <=> \E e : Caches(c, k, e)
<1>1. DOMAIN c = 1..Len(c) /\ Len(c) \in Nat
  BY LenProperties
<1>2. \A i \in 1..Len(c) : c[i] \in Entries
  BY ElementOfSeq
<1>3. \A x \in Entries : /\ x.key \in Keys /\ x.entry \in Ids
                         /\ x = [key |-> x.key, entry |-> x.entry]
  BY DEF Entries
<1>4. \A i \in 1..Len(c) : /\ c[i].key \in Keys /\ c[i].entry \in Ids
                           /\ c[i] = [key |-> c[i].key, entry |-> c[i].entry]
  BY <1>2, <1>3
<1>5. ASSUME NEW k PROVE Holds(c, k) <=> \E e : Caches(c, k, e)
  <2>1. ASSUME Holds(c, k) PROVE \E e : Caches(c, k, e)
    <3>1. PICK i \in 1..Len(c) : c[i].key = k
      BY <1>1, <2>1 DEF Holds
    <3>2. Caches(c, k, c[i].entry)
      BY <1>4, <3>1 DEF Caches
    <3> QED
      BY <3>2
  <2>2. ASSUME NEW e, Caches(c, k, e) PROVE Holds(c, k)
    BY <1>1, <2>2 DEF Caches, Holds
  <2> QED
    BY <2>1, <2>2
<1> QED
  BY <1>1, <1>4, <1>5

LEMMA CachedTypes ==
  ASSUME NEW c \in Seq(Entries), NEW k, NEW e, Caches(c, k, e)
  PROVE  k \in Keys /\ e \in Ids
<1>1. PICK i \in 1..Len(c) : c[i] = [key |-> k, entry |-> e]
  BY DEF Caches
<1>2. c[i].key = k /\ c[i].entry = e
  BY <1>1
<1> QED
  BY <1>2, DomainOfCache

\* A key has one entry, and an entry one key.
LEMMA CachesIsAMap ==
  ASSUME NEW c \in Seq(Entries), Distinct(c),
         NEW k, NEW e, Caches(c, k, e), NEW l, NEW f, Caches(c, l, f)
  PROVE  k = l <=> e = f
<1>1. PICK i \in 1..Len(c) : c[i] = [key |-> k, entry |-> e]
  BY DEF Caches
<1>2. PICK j \in 1..Len(c) : c[j] = [key |-> l, entry |-> f]
  BY DEF Caches
<1>3. c[i].key = k /\ c[i].entry = e /\ c[j].key = l /\ c[j].entry = f
  BY <1>1, <1>2
<1> QED
  BY <1>3 DEF Distinct

LEMMA PlaceFacts ==
  ASSUME NEW c \in Seq(Entries), NEW k, Holds(c, k)
  PROVE  Place(c, k) \in 1..Len(c) /\ c[Place(c, k)].key = k
BY DomainOfCache DEF Holds, Place

LEMMA EntryOfFacts ==
  ASSUME NEW c \in Seq(Entries), NEW k, Holds(c, k)
  PROVE  EntryOf(c, k) \in Ids /\ Caches(c, k, EntryOf(c, k)) /\ k \in Keys
BY DomainOfCache, PlaceFacts DEF EntryOf, Caches

LEMMA WithoutFacts ==
  ASSUME NEW c \in Seq(Entries), Distinct(c), NEW k
  PROVE  /\ Without(c, k) \in Seq(Entries) /\ Distinct(Without(c, k))
         /\ Len(Without(c, k)) = IF Holds(c, k) THEN Len(c) - 1 ELSE Len(c)
         /\ \A l, e : Caches(Without(c, k), l, e) <=> l # k /\ Caches(c, l, e)
<1>1. CASE ~Holds(c, k)
  <2>1. Without(c, k) = c
    BY <1>1 DEF Without
  <2>2. ASSUME NEW e PROVE ~Caches(c, k, e)
    BY <1>1, DomainOfCache
  <2> QED
    BY <1>1, <2>1, <2>2
<1>2. CASE Holds(c, k)
  <2> DEFINE p == Place(c, k)
             w == Without(c, k)
             s == SubSeq(c, 1, p - 1)
             t == SubSeq(c, p + 1, Len(c))
  <2>1. /\ p \in 1..Len(c) /\ c[p].key = k /\ Len(c) \in Nat
        /\ \A i \in 1..Len(c) : c[i] \in Entries
    BY <1>2, PlaceFacts, DomainOfCache, ElementOfSeq
  <2>2. w = s \o t
    BY <1>2 DEF Without
  <2> HIDE DEF p, w
  <2>3. /\ s \in Seq(Entries) /\ Len(s) = p - 1
        /\ \A i \in 1..(p - 1) : s[i] = c[i]
    <3>1. \A i \in 1..(p - 1) : c[i] \in Entries
      BY <2>1
    <3>2. /\ s \in Seq(Entries)
          /\ Len(s) = IF 1 <= p - 1 THEN p - 1 - 1 + 1 ELSE 0
          /\ \A i \in 1..(p - 1 - 1 + 1) : s[i] = c[1 + i - 1]
      BY <2>1, <3>1, SubSeqProperties
    <3> QED
      BY <2>1, <3>2
  <2>4. /\ t \in Seq(Entries) /\ Len(t) = Len(c) - p
        /\ \A i \in 1..(Len(c) - p) : t[i] = c[p + i]
    <3>1. \A i \in (p + 1)..Len(c) : c[i] \in Entries
      BY <2>1
    <3>2. /\ t \in Seq(Entries)
          /\ Len(t) = IF p + 1 <= Len(c) THEN Len(c) - (p + 1) + 1 ELSE 0
          /\ \A i \in 1..(Len(c) - (p + 1) + 1) : t[i] = c[p + 1 + i - 1]
      BY <2>1, <3>1, SubSeqProperties
    <3> QED
      BY <2>1, <3>2
  <2> HIDE DEF s, t
  <2>5. /\ w \in Seq(Entries) /\ Len(w) = Len(c) - 1
        /\ \A i \in 1..(Len(c) - 1) : w[i] = IF i < p THEN c[i] ELSE c[i + 1]
    <3>1. /\ w \in Seq(Entries) /\ Len(w) = Len(s) + Len(t)
          /\ \A i \in 1..(Len(s) + Len(t)) :
               w[i] = IF i <= Len(s) THEN s[i] ELSE t[i - Len(s)]
      BY <2>2, <2>3, <2>4, ConcatProperties
    <3>2. ASSUME NEW i \in 1..(Len(c) - 1)
          PROVE  w[i] = IF i < p THEN c[i] ELSE c[i + 1]
      <4>1. CASE i < p
        <5>1. i \in 1..(p - 1) /\ i \in 1..(Len(s) + Len(t)) /\ i <= Len(s)
          BY <2>1, <2>3, <2>4, <4>1
        <5>2. w[i] = s[i]
          BY <3>1, <5>1
        <5> QED
          BY <2>3, <4>1, <5>1, <5>2
      <4>2. CASE ~(i < p)
        <5>1. i - (p - 1) \in 1..(Len(c) - p) /\ p + (i - (p - 1)) = i + 1
          BY <2>1, <4>2
        <5>2. i \in 1..(Len(s) + Len(t)) /\ ~(i <= Len(s)) /\ Len(s) = p - 1
          BY <2>1, <2>3, <2>4, <4>2
        <5>3. w[i] = t[i - Len(s)]
          BY <3>1, <5>2
        <5> QED
          BY <2>4, <4>2, <5>1, <5>2, <5>3
      <4> QED
        BY <4>1, <4>2
    <3> QED
      BY <2>1, <2>3, <2>4, <3>1, <3>2
  <2> DEFINE at(i) == IF i < p THEN i ELSE i + 1
  <2>6. \A i \in 1..Len(w) : /\ at(i) \in 1..Len(c) /\ at(i) # p /\ w[i] = c[at(i)]
                             /\ \A j \in 1..Len(w) : at(i) = at(j) => i = j
    BY <2>1, <2>5
  <2>7. Distinct(w)
    BY <2>6 DEF Distinct
  <2>8. ASSUME NEW l, NEW e PROVE Caches(w, l, e) <=> l # k /\ Caches(c, l, e)
    <3>1. ASSUME Caches(w, l, e) PROVE l # k /\ Caches(c, l, e)
      <4>1. PICK i \in 1..Len(w) : w[i] = [key |-> l, entry |-> e]
        BY <3>1 DEF Caches
      <4>2. at(i) \in 1..Len(c) /\ at(i) # p /\ c[at(i)] = [key |-> l, entry |-> e]
        BY <2>6, <4>1
      <4>3. c[at(i)].key = l
        BY <4>2
      <4>4. l # k
        BY <2>1, <4>2, <4>3 DEF Distinct
      <4> QED
        BY <4>2, <4>4 DEF Caches
    <3>2. ASSUME l # k, Caches(c, l, e) PROVE Caches(w, l, e)
      <4>1. PICK i \in 1..Len(c) : c[i] = [key |-> l, entry |-> e]
        BY <3>2 DEF Caches
      <4>2. c[i].key = l
        BY <4>1
      <4>3. i # p
        BY <2>1, <3>2, <4>2
      <4> DEFINE j == IF i < p THEN i ELSE i - 1
      <4>4. j \in 1..(Len(c) - 1) /\ at(j) = i
        BY <2>1, <4>3
      <4> HIDE DEF j
      <4>5. j \in 1..Len(w) /\ w[j] = c[i]
        BY <2>5, <2>6, <4>4
      <4> QED
        BY <4>1, <4>5 DEF Caches
    <3> QED
      BY <3>1, <3>2
  <2> QED
    BY <1>2, <2>5, <2>7, <2>8 DEF w
<1> QED
  BY <1>1, <1>2

LEMMA FrontFacts ==
  ASSUME NEW c \in Seq(Entries), Distinct(c), NEW k \in Keys, NEW e \in Ids,
         \A l, f : Caches(c, l, f) => l # k /\ f # e
  PROVE  LET w == <<[key |-> k, entry |-> e]>> \o c
         IN  /\ w \in Seq(Entries) /\ Distinct(w) /\ Len(w) = Len(c) + 1
             /\ \A l, f : Caches(w, l, f) <=> (l = k /\ f = e) \/ Caches(c, l, f)
<1> DEFINE r == [key |-> k, entry |-> e]
           w == <<r>> \o c
<1>1. r \in Entries /\ r.key = k /\ r.entry = e
  BY DEF Entries
<1> HIDE DEF r
<1>2. <<r>> \in Seq(Entries) /\ Len(<<r>>) = 1 /\ <<r>>[1] = r
  BY <1>1
<1>3. /\ w \in Seq(Entries) /\ Len(w) = 1 + Len(c)
      /\ \A i \in 1..(1 + Len(c)) : w[i] = IF i <= 1 THEN <<r>>[i] ELSE c[i - 1]
  BY <1>2, ConcatProperties
<1>4. Len(c) \in Nat
  BY DomainOfCache
<1>5. w[1] = r /\ \A i \in 1..Len(c) : w[i + 1] = c[i]
  <2>1. w[1] = r
    BY <1>2, <1>3, <1>4
  <2>2. ASSUME NEW i \in 1..Len(c) PROVE w[i + 1] = c[i]
    <3>1. i + 1 \in 1..(1 + Len(c)) /\ ~(i + 1 <= 1) /\ i + 1 - 1 = i
      BY <1>4
    <3> QED
      BY <1>3, <3>1
  <2> QED
    BY <2>1, <2>2
<1> HIDE DEF w
<1>6. ASSUME NEW i \in 1..Len(c) PROVE c[i].key # k /\ c[i].entry # e
  <2>1. Caches(c, c[i].key, c[i].entry)
    BY DomainOfCache DEF Caches
  <2> QED
    BY <2>1
<1>7. \A i \in 1..Len(w) : \/ i = 1 /\ w[i] = r
                           \/ i - 1 \in 1..Len(c) /\ w[i] = c[i - 1]
  <2> TAKE i \in 1..Len(w)
  <2>1. CASE i = 1
    BY <1>5, <2>1
  <2>2. CASE i # 1
    <3>1. i - 1 \in 1..Len(c) /\ i - 1 + 1 = i
      BY <1>3, <1>4, <2>2
    <3> QED
      BY <1>5, <3>1
  <2> QED
    BY <2>1, <2>2
<1>8. Distinct(w)
  <2> SUFFICES ASSUME NEW i \in 1..Len(w), NEW j \in 1..Len(w),
                      w[i].key = w[j].key \/ w[i].entry = w[j].entry
               PROVE  i = j
    BY DEF Distinct
  <2>1. CASE i = 1 \/ j = 1
    BY <1>1, <1>6, <1>7, <2>1
  <2>2. CASE i # 1 /\ j # 1
    <3>1. /\ i - 1 \in 1..Len(c) /\ w[i] = c[i - 1]
          /\ j - 1 \in 1..Len(c) /\ w[j] = c[j - 1]
      BY <1>7, <2>2
    <3>2. i - 1 = j - 1
      BY <3>1 DEF Distinct
    <3> QED
      BY <1>3, <1>4, <3>2
  <2> QED
    BY <2>1, <2>2
<1>9. ASSUME NEW l, NEW f
      PROVE  Caches(w, l, f) <=> (l = k /\ f = e) \/ Caches(c, l, f)
  <2>1. ASSUME Caches(w, l, f) PROVE (l = k /\ f = e) \/ Caches(c, l, f)
    <3>1. PICK i \in 1..Len(w) : w[i] = [key |-> l, entry |-> f]
      BY <2>1 DEF Caches
    <3>2. w[i].key = l /\ w[i].entry = f
      BY <3>1
    <3>3. CASE i = 1
      BY <1>1, <1>7, <3>2, <3>3
    <3>4. CASE i # 1
      BY <1>7, <3>1, <3>4 DEF Caches
    <3> QED
      BY <3>3, <3>4
  <2>2. ASSUME l = k, f = e PROVE Caches(w, l, f)
    <3>1. 1 \in 1..Len(w) /\ w[1] = [key |-> l, entry |-> f]
      BY <1>3, <1>4, <1>5, <2>2 DEF r
    <3> QED
      BY <3>1 DEF Caches
  <2>3. ASSUME Caches(c, l, f) PROVE Caches(w, l, f)
    <3>1. PICK i \in 1..Len(c) : c[i] = [key |-> l, entry |-> f]
      BY <2>3 DEF Caches
    <3>2. i + 1 \in 1..Len(w) /\ w[i + 1] = [key |-> l, entry |-> f]
      BY <1>3, <1>4, <1>5, <3>1
    <3> QED
      BY <3>2 DEF Caches
  <2> QED
    BY <2>1, <2>2, <2>3
<1> QED
  BY <1>3, <1>4, <1>8, <1>9 DEF w, r

\* A hit moves an entry to the front.
LEMMA UsedFacts ==
  ASSUME NEW c \in Seq(Entries), Distinct(c), NEW k, Holds(c, k)
  PROVE  /\ Used(c, k) \in Seq(Entries) /\ Distinct(Used(c, k))
         /\ Len(Used(c, k)) = Len(c)
         /\ \A l, f : Caches(Used(c, k), l, f) <=> Caches(c, l, f)
<1> DEFINE e == EntryOf(c, k)
           w == Without(c, k)
<1>1. e \in Ids /\ Caches(c, k, e) /\ k \in Keys
  BY EntryOfFacts
<1>2. /\ w \in Seq(Entries) /\ Distinct(w) /\ Len(w) = Len(c) - 1
      /\ \A l, f : Caches(w, l, f) <=> l # k /\ Caches(c, l, f)
  BY WithoutFacts
<1>3. Used(c, k) = <<[key |-> k, entry |-> e]>> \o w
  BY DEF Used
<1> HIDE DEF e, w
<1>4. \A l, f : Caches(w, l, f) => l # k /\ f # e
  BY <1>1, <1>2, CachesIsAMap
<1>5. /\ Used(c, k) \in Seq(Entries) /\ Distinct(Used(c, k))
      /\ Len(Used(c, k)) = Len(w) + 1
      /\ \A l, f : Caches(Used(c, k), l, f) <=> (l = k /\ f = e) \/ Caches(w, l, f)
  BY <1>1, <1>2, <1>3, <1>4, FrontFacts
<1>6. Len(c) \in Nat
  BY DomainOfCache
<1>7. \A l, f : Caches(Used(c, k), l, f) <=> Caches(c, l, f)
  BY <1>1, <1>2, <1>5, CachesIsAMap
<1> QED
  BY <1>2, <1>5, <1>6, <1>7

\* The last entry is dropped.
LEMMA ShorterFacts ==
  ASSUME NEW c \in Seq(Entries), Distinct(c), Len(c) > 1
  PROVE  LET s == SubSeq(c, 1, Len(c) - 1)
         IN  /\ s \in Seq(Entries) /\ Distinct(s) /\ Len(s) = Len(c) - 1
             /\ s[1] = c[1]
             /\ \A l, f : Caches(s, l, f) => Caches(c, l, f)
<1> DEFINE n == Len(c) - 1
           s == SubSeq(c, 1, n)
<1>1. n \in Nat \ {0} /\ Len(c) = n + 1 /\ \A i \in 1..n : c[i] \in Entries
  BY DomainOfCache, ElementOfSeq
<1> HIDE DEF n
<1>2. /\ s \in Seq(Entries) /\ Len(s) = IF 1 <= n THEN n - 1 + 1 ELSE 0
      /\ \A i \in 1..(n - 1 + 1) : s[i] = c[1 + i - 1]
  BY <1>1, SubSeqProperties
<1>3. Len(s) = n /\ \A i \in 1..n : s[i] = c[i]
  BY <1>1, <1>2
<1> HIDE DEF s
<1>4. Distinct(s)
  BY <1>1, <1>3 DEF Distinct
<1>5. \A l, f : Caches(s, l, f) => Caches(c, l, f)
  BY <1>1, <1>3 DEF Caches
<1> QED
  BY <1>1, <1>2, <1>3, <1>4, <1>5 DEF n, s

\* A new entry is in the cache, for its key only, and one other may be gone.
LEMMA AddedFacts ==
  ASSUME NEW c \in Seq(Entries), Distinct(c), NEW n \in Nat \ {0}, Len(c) <= n,
         NEW k \in Keys, NEW e \in Ids, \A l : ~Caches(c, l, e)
  PROVE  LET a == Added(c, k, e, n)
         IN  /\ a \in Seq(Entries) /\ Distinct(a) /\ Len(a) <= n
             /\ Caches(a, k, e)
             /\ \A l, f : Caches(a, l, f) =>
                  (l = k /\ f = e) \/ (l # k /\ Caches(c, l, f))
<1> DEFINE w == Without(c, k)
           longer == <<[key |-> k, entry |-> e]>> \o w
           a == Added(c, k, e, n)
<1>1. /\ w \in Seq(Entries) /\ Distinct(w) /\ Len(w) <= Len(c)
      /\ \A l, f : Caches(w, l, f) <=> l # k /\ Caches(c, l, f)
      /\ Len(c) \in Nat /\ Len(w) \in Nat
  BY WithoutFacts, DomainOfCache
<1>2. \A l, f : Caches(w, l, f) => l # k /\ f # e
  BY <1>1
<1> HIDE DEF w
<1>3. /\ longer \in Seq(Entries) /\ Distinct(longer) /\ Len(longer) = Len(w) + 1
      /\ \A l, f : Caches(longer, l, f) <=> (l = k /\ f = e) \/ Caches(w, l, f)
  BY <1>1, <1>2, FrontFacts
<1>4. longer[1] = [key |-> k, entry |-> e]
  BY <1>1
<1> HIDE DEF longer
<1>5. a = IF Len(longer) > n THEN SubSeq(longer, 1, Len(longer) - 1) ELSE longer
  BY DEF Added, longer, w
<1> HIDE DEF a
<1>6. CASE ~(Len(longer) > n)
  <2>1. a = longer /\ Len(longer) <= n
    BY <1>1, <1>3, <1>5, <1>6
  <2> QED
    BY <1>1, <1>3, <2>1 DEF a
<1>7. CASE Len(longer) > n
  <2>1. Len(longer) > 1 /\ a = SubSeq(longer, 1, Len(longer) - 1)
    BY <1>1, <1>3, <1>5, <1>7
  <2>2. /\ a \in Seq(Entries) /\ Distinct(a) /\ Len(a) = Len(longer) - 1
        /\ a[1] = longer[1]
        /\ \A l, f : Caches(a, l, f) => Caches(longer, l, f)
    BY <1>3, <2>1, ShorterFacts
  <2>3. Len(a) <= n /\ 1 \in 1..Len(a)
    BY <1>1, <1>3, <1>7, <2>1, <2>2
  <2>4. Caches(a, k, e)
    BY <1>4, <2>2, <2>3 DEF Caches
  <2> QED
    BY <1>1, <1>3, <2>2, <2>3, <2>4 DEF a
<1> QED
  BY <1>6, <1>7 DEF a

-----------------------------------------------------------------------------
(* The invariant.                                                          *)

Words == [wall : BOOLEAN, ext : 0..(MaxTime + BlockTicks)]
Objects ==
  {o \in [requests : Seq(Int), blockedUntil : Words, violations : {0, 1}] :
     Len(o.requests) <= EntryLimit}

\* Where Block has a deadline that it stores.
Stored == {"store", "storeExt", "storeWall", "blocked", "clear"}
Halfway == {"storeExt", "storeWall"}
Outside == {"idle", "get", "add"}
Steps == Outside \cup Stored
           \cup {"deadline", "checkBlocked", "window", "violate", "read"}

Typed ==
  /\ now \in 1..MaxTime
  /\ cache \in Seq(Entries) /\ Len(cache) <= Capacity /\ Distinct(cache)
  /\ heap \in [Ids -> Objects]
  /\ pc \in [Goroutines -> Steps]
  /\ op \in [Goroutines -> Methods \cup {"none"}]
  /\ key \in [Goroutines -> Keys \cup {None}]
  /\ held \in [Goroutines -> Ids \cup {None}]
  /\ until \in [Goroutines -> Words]
  /\ promised \in [Keys -> 0..(MaxTime + BlockTicks)]

\* A goroutine in a method has its arguments and, behind the lookup, an entry.
InMethod ==
  \A g \in Goroutines :
    /\ pc[g] \in Outside <=> held[g] = None
    /\ pc[g] = "idle" => op[g] = "none"
    /\ pc[g] # "idle" => key[g] \in Keys /\ <<g, key[g], op[g]>> \in Serves
    /\ pc[g] \in Stored \cup {"deadline"} => op[g] \in {"block", "unblock"}
    /\ pc[g] = "blocked" => op[g] = "block"
    /\ pc[g] = "clear" => op[g] = "unblock"

\* An entry is of one key, in the cache and in the hands of goroutines.
OfOneKey ==
  /\ \A g \in Goroutines, k \in Keys : Caches(cache, k, held[g]) => key[g] = k
  /\ \A g, h \in Goroutines :
       held[g] # None /\ held[g] = held[h] => key[g] = key[h]

\* The deadlines that are being stored.
Prepared ==
  \A g \in Goroutines :
    pc[g] \in Stored =>
      /\ op[g] = "block" => until[g].wall /\ until[g].ext <= now + BlockTicks
      /\ op[g] = "unblock" => until[g] = ZeroTime

Word(i) == heap[i].blockedUntil

\* What is stored already, if nobody else stores.
HalfStored ==
  \A g \in Goroutines :
    OneWriter(key[g]) =>
      /\ pc[g] = "storeExt" => Word(held[g]).wall = until[g].wall
      /\ pc[g] = "storeWall" => Word(held[g]).ext = until[g].ext
      /\ pc[g] = "blocked" => Word(held[g]) = until[g]

\* An entry that nobody is storing to blocks for BlockTicks at most.
Sane(u) == u = ZeroTime \/ (u.wall /\ u.ext <= now + BlockTicks)
Settled ==
  \A k \in Keys, e \in Ids :
    /\ OneWriter(k) /\ Caches(cache, k, e)
    /\ \A g \in Goroutines : held[g] = e => pc[g] \notin Halfway
    => Sane(Word(e))

\* A key whose entry was never lost has one: whoever works on an entry of it
\* works on that one.
NeverLost(k) == k \notin evicted \cup replaced
Current ==
  \A g \in Goroutines :
    held[g] # None /\ NeverLost(key[g]) => Caches(cache, key[g], held[g])

\* A promise is about the entry in the cache.
Backed ==
  \A k \in Keys :
    promised[k] # 0 =>
      NeverLost(k) /\ Holds(cache, k) /\ promised[k] <= now + BlockTicks

\* A promise is kept by the entry, and by what is being stored to it.
Honoured ==
  \A k \in Keys :
    OneWriter(k) /\ promised[k] # 0 =>
      /\ \A e \in Ids :
           Caches(cache, k, e) => Word(e).wall /\ Word(e).ext >= promised[k]
      /\ \A g \in Goroutines :
           key[g] = k =>
             /\ op[g] # "unblock"
             /\ pc[g] \in Stored => until[g].ext >= promised[k]

IInv == /\ Typed /\ InMethod /\ OfOneKey
        /\ Prepared /\ HalfStored /\ Settled
        /\ Current /\ Backed /\ Honoured

LEMMA Constants ==
  /\ BlockTicks \in Nat \ {0} /\ MaxTime \in Nat \ {0} /\ Capacity \in Nat \ {0}
  /\ WindowSize \in Nat \ {0} /\ None \notin Ids
BY SizeAssumption, NoneAssumption

LEMMA EntryLimitIsNat == EntryLimit \in Nat
<1>1. Rps \in Nat /\ Burst \in Nat /\ WindowSize \in Nat
  BY SizeAssumption
<1>2. Rps * WindowSize \in Nat
  BY <1>1
<1> QED
  BY <1>1, <1>2 DEF EntryLimit, Larger

LEMMA NewEntryIsEmpty ==
  NewEntry \in Objects /\ NewEntry.blockedUntil = ZeroTime /\ ZeroTime \in Words
<1>1. ZeroTime \in Words
  BY Constants DEF ZeroTime, Words
<1>2. << >> \in Seq(Int) /\ Len(<< >>) = 0
  BY EmptySeq
<1>3. NewEntry \in [requests : Seq(Int), blockedUntil : Words, violations : {0, 1}]
  BY <1>1, <1>2 DEF NewEntry
<1>4. Len(NewEntry.requests) = 0
  BY <1>2 DEF NewEntry
<1> QED
  BY <1>1, <1>3, <1>4, EntryLimitIsNat DEF Objects, NewEntry

LEMMA TypesHold == Typed => TypeOK
<1> SUFFICES ASSUME Typed PROVE TypeOK
  OBVIOUS
<1>1. Words \subseteq Times
  BY DEF Words, Times
<1>2. ASSUME NEW i \in Ids
      PROVE  /\ Len(heap[i].requests) <= EntryLimit
             /\ heap[i].blockedUntil \in Words /\ heap[i].violations \in {0, 1}
  BY DEF Typed, Objects
<1> QED
  BY <1>1, <1>2 DEF Typed, TypeOK, Entries

\* Two goroutines that store the block of a key, which has one writer, are one.
LEMMA OnlyOneWriter ==
  ASSUME NEW k, OneWriter(k), NEW g \in Goroutines, NEW h \in Goroutines,
         NEW o \in {"block", "unblock"}, NEW p \in {"block", "unblock"},
         <<g, k, o>> \in Serves, <<h, k, p>> \in Serves
  PROVE  g = h
<1> DEFINE S == Serve(k, {"block", "unblock"})
<1>1. S \subseteq Goroutines /\ g \in S /\ h \in S
  BY DEF Serve
<1>2. IsFiniteSet(S) /\ Cardinality(S) <= 1
  BY <1>1, IdsAssumption, FS_Subset DEF OneWriter
<1> HIDE DEF S
<1>3. ASSUME g # h PROVE FALSE
  <2>1. Cardinality({g, h}) = 2
    <3>1. IsFiniteSet({g}) /\ Cardinality({g}) = 1
      BY FS_Singleton
    <3>2. Cardinality({g} \cup {h}) = Cardinality({g}) + 1
      BY <1>3, <3>1, FS_AddElement
    <3>3. {g} \cup {h} = {g, h}
      OBVIOUS
    <3> QED
      BY <3>1, <3>2, <3>3
  <2>2. Cardinality({g, h}) <= Cardinality(S)
    BY <1>1, <1>2, FS_Subset
  <2>3. Cardinality(S) \in Nat
    BY <1>2, FS_CardinalityType
  <2> QED
    BY <1>2, <2>1, <2>2, <2>3
<1> QED
  BY <1>3

LEMMA Initially == Init => IInv
<1> SUFFICES ASSUME Init PROVE IInv
  OBVIOUS
<1> USE DEF Init
<1>1. /\ Len(<< >>) = 0 /\ \A S : << >> \in Seq(S)
  BY EmptySeq
<1>3. NewEntry \in Objects /\ ZeroTime \in Words
  BY NewEntryIsEmpty
<1>4. Typed
  <2>1. Distinct(cache)
    BY <1>1 DEF Distinct
  <2> QED
    BY <1>1, <1>3, <2>1, Constants
    DEF Typed, Steps, Outside, Methods
<1>5. \A k, e : ~Caches(cache, k, e)
  BY <1>1 DEF Caches
<1>6. InMethod /\ OfOneKey /\ Prepared /\ HalfStored
  BY <1>5 DEF InMethod, OfOneKey, Prepared, HalfStored, Outside, Stored
<1>7. Settled /\ Current /\ Backed /\ Honoured
  BY <1>5 DEF Settled, Current, Backed, Honoured
<1> QED
  BY <1>4, <1>6, <1>7 DEF IInv

-----------------------------------------------------------------------------
(* Steps that store no deadline.                                           *)

\* Goroutine h is where it was.
Stays(h) ==
  /\ pc'[h] = pc[h] /\ op'[h] = op[h] /\ key'[h] = key[h]
  /\ held'[h] = held[h] /\ until'[h] = until[h]

SameCache == \A k, e : Caches(cache, k, e)' <=> Caches(cache, k, e)
SameWords == \A e \in Ids : Word(e)' = Word(e)

\* A step of one goroutine that leaves the cached entries and their deadlines as
\* they are.
LEMMA EntriesFrame ==
  ASSUME IInv, Typed', UNCHANGED <<now, evicted, replaced>>,
         SameCache, SameWords,
         NEW g \in Goroutines,
         \A h \in Goroutines \ {g} : Stays(h),
         pc[g] \notin Halfway, pc'[g] \notin Stored,
         \/ held'[g] = None
         \/ key'[g] = key[g] /\ held'[g] = held[g]
         \/ key'[g] = key[g] /\ Caches(cache, key[g], held'[g])
  PROVE  /\ \A k : Holds(cache, k)' <=> Holds(cache, k)
         /\ OfOneKey' /\ Prepared' /\ HalfStored' /\ Settled' /\ Current'
<1>1. cache \in Seq(Entries) /\ Distinct(cache)
  BY DEF IInv, Typed
<1>2. \A k, e : Caches(cache, k, e) => k \in Keys /\ e \in Ids
  BY <1>1, CachedTypes
<1>3. \A k : Holds(cache, k)' <=> Holds(cache, k)
  <2>1. cache' \in Seq(Entries)
    BY DEF Typed
  <2>2. \A k : Holds(cache, k) <=> \E e : Caches(cache, k, e)
    BY <1>1, DomainOfCache
  <2>3. \A k : Holds(cache', k) <=> \E e : Caches(cache', k, e)
    BY <2>1, DomainOfCache
  <2>4. \A k, e : Caches(cache', k, e) <=> Caches(cache, k, e)
    BY DEF SameCache, Caches
  <2>5. \A k : Holds(cache', k) <=> Holds(cache, k)
    BY <2>2, <2>3, <2>4
  <2> QED
    BY <2>5 DEF Holds
<1>4. OfOneKey'
  <2>1. ASSUME NEW h \in Goroutines, NEW k \in Keys, Caches(cache, k, held'[h])
        PROVE  key'[h] = k
    <3>1. CASE h # g
      BY <2>1, <3>1 DEF IInv, OfOneKey, Stays
    <3>2. CASE h = g
      BY <1>1, <1>2, <2>1, <3>2, Constants, CachesIsAMap DEF IInv, OfOneKey
    <3> QED
      BY <3>1, <3>2
  <2>2. ASSUME NEW h \in Goroutines \ {g}, held'[g] # None, held'[g] = held'[h]
        PROVE  key'[g] = key'[h]
    BY <1>2, <2>2 DEF IInv, OfOneKey, Stays
  <2>3. ASSUME NEW h \in Goroutines, NEW i \in Goroutines,
               held'[h] # None, held'[h] = held'[i]
        PROVE  key'[h] = key'[i]
    <3>1. CASE h # g /\ i # g
      BY <2>3, <3>1 DEF IInv, OfOneKey, Stays
    <3> QED
      BY <2>2, <2>3, <3>1
  <2> QED
    BY <2>1, <2>3 DEF OfOneKey, SameCache
<1>5. Prepared'
  BY DEF IInv, Prepared, Stays
<1>6. HalfStored'
  <2> SUFFICES ASSUME NEW h \in Goroutines, OneWriter(key'[h])
               PROVE  /\ pc'[h] = "storeExt" => Word(held[h])'.wall = until'[h].wall
                      /\ pc'[h] = "storeWall" => Word(held[h])'.ext = until'[h].ext
                      /\ pc'[h] = "blocked" => Word(held[h])' = until'[h]
    BY DEF HalfStored, OneWriter
  <2>1. CASE h = g
    BY <2>1 DEF Stored
  <2>2. CASE h # g /\ pc[h] \in Stored
    <3>0. pc[h] \notin Outside
      BY <2>2 DEF Stored, Outside
    <3>1. held[h] \in Ids /\ held'[h] = held[h]
      BY <2>2, <3>0 DEF IInv, Typed, InMethod, Stays
    <3>2. Word(held[h])' = Word(held[h])
      BY <3>1 DEF SameWords, Word
    <3> QED
      BY <2>2, <3>2 DEF IInv, HalfStored, Stays
  <2>3. CASE h # g /\ pc[h] \notin Stored
    BY <2>3 DEF Stays, Stored
  <2> QED
    BY <2>1, <2>2, <2>3
<1>7. Settled'
  <2> SUFFICES ASSUME NEW k \in Keys, NEW e \in Ids, OneWriter(k),
                      Caches(cache, k, e)',
                      \A h \in Goroutines : held'[h] = e => pc'[h] \notin Halfway
               PROVE  Sane(Word(e))'
    BY DEF Settled, OneWriter
  <2>1. \A h \in Goroutines : held[h] = e => pc[h] \notin Halfway
    BY DEF Stays
  <2>2. Sane(Word(e))
    BY <2>1 DEF IInv, Settled, SameCache
  <2> QED
    BY <2>2 DEF Sane, SameWords
<1>8. Current'
  BY DEF IInv, Current, NeverLost, SameCache, Stays
<1> QED
  BY <1>3, <1>4, <1>5, <1>6, <1>7, <1>8

\* Such a step, taking back promises at most.
LEMMA Frame ==
  ASSUME IInv, Typed', InMethod', UNCHANGED <<now, evicted, replaced>>,
         SameCache, SameWords,
         \A k \in Keys : promised'[k] \in {0, promised[k]},
         NEW g \in Goroutines,
         \A h \in Goroutines \ {g} : Stays(h),
         pc[g] \notin Halfway, pc'[g] \notin Stored,
         \/ held'[g] = None
         \/ key'[g] = key[g] /\ held'[g] = held[g]
         \/ key'[g] = key[g] /\ Caches(cache, key[g], held'[g]),
         op'[g] = "unblock" => \/ op[g] = "unblock" /\ key'[g] = key[g]
                               \/ promised'[key'[g]] = 0
  PROVE  IInv'
<1>1. /\ \A k : Holds(cache, k)' <=> Holds(cache, k)
      /\ OfOneKey' /\ Prepared' /\ HalfStored' /\ Settled' /\ Current'
  BY EntriesFrame
<1>2. Backed'
  BY <1>1 DEF IInv, Backed, NeverLost
<1>3. Honoured'
  <2> SUFFICES ASSUME NEW k \in Keys, OneWriter(k), promised'[k] # 0
               PROVE  /\ \A e \in Ids : Caches(cache, k, e)' =>
                           Word(e)'.wall /\ Word(e)'.ext >= promised'[k]
                      /\ \A h \in Goroutines : key'[h] = k =>
                           /\ op'[h] # "unblock"
                           /\ pc'[h] \in Stored => until'[h].ext >= promised'[k]
    BY DEF Honoured, OneWriter
  <2>1. promised'[k] = promised[k] /\ promised[k] # 0
    OBVIOUS
  <2>2. /\ \A e \in Ids :
             Caches(cache, k, e) => Word(e).wall /\ Word(e).ext >= promised[k]
        /\ \A h \in Goroutines :
             key[h] = k => /\ op[h] # "unblock"
                           /\ pc[h] \in Stored => until[h].ext >= promised[k]
    BY <2>1 DEF IInv, Honoured
  <2> QED
    BY <2>1, <2>2 DEF SameCache, SameWords, Stays
<1> QED
  BY <1>1, <1>2, <1>3 DEF IInv

LEMMA PointwiseWord ==
  ASSUME UNCHANGED heap PROVE SameWords
BY DEF SameWords, Word

LEMMA SameCacheIfUnchanged ==
  ASSUME UNCHANGED cache PROVE SameCache
BY DEF SameCache, Caches

LEMMA CallKeeps ==
  ASSUME IInv, NEW g \in Goroutines, NEW o \in Methods, NEW k \in Keys, NEW l \in Limits,
         Call(g, o, k, l)
  PROVE  IInv'
<1> USE DEF Call, Goto, mem
<1>1. Typed'
  BY Constants DEF IInv, Typed, Steps, Outside
<1>2. pc[g] = "idle" /\ held[g] = None
  BY DEF IInv, InMethod, Outside
<1>3. InMethod'
  BY <1>2 DEF IInv, Typed, InMethod, Outside, Stored
<1>4. \A j \in Keys : promised'[j] \in {0, promised[j]}
  BY DEF IInv, Typed
<1>5. \A h \in Goroutines \ {g} : Stays(h)
  BY DEF IInv, Typed, Stays
<1>6. op'[g] = "unblock" => promised'[key'[g]] = 0
  BY DEF IInv, Typed
<1>7. pc'[g] = "get" /\ held'[g] = None
  BY <1>2 DEF IInv, Typed
<1>8. SameCache /\ SameWords
  BY PointwiseWord, SameCacheIfUnchanged
<1>9. UNCHANGED <<now, evicted, replaced>>
  OBVIOUS
<1> HIDE DEF Call, Goto, mem
<1> QED
  BY <1>1, <1>2, <1>3, <1>4, <1>5, <1>6, <1>7, <1>8, <1>9, Frame
  DEF Halfway, Stored

LEMMA CacheHitKeeps ==
  ASSUME IInv, NEW g \in Goroutines, CacheHit(g)
  PROVE  IInv'
<1> USE DEF CacheHit, Goto, history
<1>1. /\ cache \in Seq(Entries) /\ Distinct(cache) /\ Holds(cache, key[g])
      /\ pc[g] = "get"
  BY DEF IInv, Typed
<1> DEFINE e == EntryOf(cache, key[g])
<1>2. e \in Ids /\ Caches(cache, key[g], e)
  BY <1>1, EntryOfFacts
<1> HIDE DEF e
<1>3. /\ cache' \in Seq(Entries) /\ Distinct(cache') /\ Len(cache') = Len(cache)
      /\ \A l, f : Caches(cache', l, f) <=> Caches(cache, l, f)
  BY <1>1, UsedFacts
<1>4. held' = [held EXCEPT ![g] = e]
  BY DEF e
<1>5. Body(g) \in Steps \ (Outside \cup Stored)
  BY DEF Body, Steps, Outside, Stored
<1>6. Typed'
  <2>1. pc' \in [Goroutines -> Steps]
    BY <1>5 DEF IInv, Typed
  <2>2. held' \in [Goroutines -> Ids \cup {None}]
    BY <1>2, <1>4 DEF IInv, Typed
  <2>3. Distinct(cache)'
    BY <1>3 DEF Distinct
  <2> QED
    BY <1>3, <2>1, <2>2, <2>3 DEF IInv, Typed
<1>7. InMethod'
  <2>1. ASSUME NEW h \in Goroutines \ {g}
        PROVE  pc'[h] = pc[h] /\ held'[h] = held[h] /\ key' = key /\ op' = op
    BY <1>4 DEF IInv, Typed
  <2>2. pc'[g] = Body(g) /\ held'[g] = e /\ e # None
    BY <1>2, <1>4, Constants DEF IInv, Typed
  <2>3. Body(g) = "deadline" => op[g] \in {"block", "unblock"}
    BY DEF Body
  <2>4. Body(g) \notin Outside \cup Stored
    BY <1>5
  <2>5. <<g, key[g], op[g]>> \in Serves /\ key[g] \in Keys
    BY <1>1 DEF IInv, InMethod
  <2>6. ASSUME NEW h \in Goroutines
        PROVE  /\ pc'[h] \in Outside <=> held'[h] = None
               /\ pc'[h] = "idle" => op'[h] = "none"
               /\ pc'[h] # "idle" => key'[h] \in Keys /\ <<h, key'[h], op'[h]>> \in Serves
               /\ pc'[h] \in Stored \cup {"deadline"} => op'[h] \in {"block", "unblock"}
               /\ pc'[h] = "blocked" => op'[h] = "block"
               /\ pc'[h] = "clear" => op'[h] = "unblock"
    <3>1. CASE h = g
      BY <2>2, <2>3, <2>4, <2>5, <3>1 DEF Stored, Outside
    <3>2. CASE h # g
      BY <2>1, <3>2 DEF IInv, InMethod
    <3> QED
      BY <3>1, <3>2
  <2> QED
    BY <2>6 DEF InMethod
<1>8. \A h \in Goroutines \ {g} : Stays(h)
  BY <1>4 DEF IInv, Typed, Stays
<1>9. SameCache
  BY <1>3 DEF SameCache, Caches
<1>10. SameWords
  BY PointwiseWord
<1>11. pc'[g] \notin Stored /\ key'[g] = key[g] /\ op'[g] = op[g] /\ held'[g] = e
  BY <1>4, <1>5 DEF IInv, Typed
<1>12. UNCHANGED <<now, evicted, replaced, promised>>
  OBVIOUS
<1> HIDE DEF CacheHit, Goto, history
<1> QED
  BY <1>1, <1>2, <1>6, <1>7, <1>8, <1>9, <1>10, <1>11, <1>12, Frame DEF Halfway

\* A method that returns.
LEMMA ReturnKeeps ==
  ASSUME IInv, NEW g \in Goroutines, NEW from \in Steps \ Halfway, Return(g, from),
         UNCHANGED <<now, cache, evicted, replaced, promised>>,
         heap' \in [Ids -> Objects], SameWords
  PROVE  IInv'
<1> USE DEF Return, Goto
<1>1. ZeroTime \in Words
  BY Constants DEF ZeroTime, Words
<1>2. Typed'
  <2>1. Distinct(cache)'
    BY DEF IInv, Typed, Distinct
  <2>2. /\ pc' \in [Goroutines -> Steps]
        /\ op' \in [Goroutines -> Methods \cup {"none"}]
        /\ key' \in [Goroutines -> Keys \cup {None}]
        /\ held' \in [Goroutines -> Ids \cup {None}]
        /\ until' \in [Goroutines -> Words]
    BY <1>1 DEF IInv, Typed, Steps, Outside
  <2> QED
    BY <2>1, <2>2 DEF IInv, Typed
<1>3. InMethod'
  BY DEF IInv, Typed, InMethod, Outside, Stored
<1>4. \A h \in Goroutines \ {g} : Stays(h)
  BY DEF IInv, Typed, Stays
<1>5. /\ pc[g] \notin Halfway /\ pc'[g] = "idle" /\ held'[g] = None
      /\ op'[g] = "none"
  BY DEF IInv, Typed
<1>6. SameCache
  BY SameCacheIfUnchanged
<1> HIDE DEF Return, Goto
<1> QED
  BY <1>2, <1>3, <1>4, <1>5, <1>6, Frame DEF Stored

\* A method that goes on, with what it has.
LEMMA GoesOnKeeps ==
  ASSUME IInv, NEW g \in Goroutines, NEW from, NEW to, Goto(g, from, to),
         from # "idle", from \notin Stored \cup {"deadline"},
         to \in Steps \ (Stored \cup {"idle", "deadline"}),
         from \in Outside <=> to \in Outside,
         UNCHANGED <<now, mem, call, history>>
  PROVE  IInv'
<1> USE DEF Goto, mem, call, history
<1>1. Typed'
  <2>1. Distinct(cache)'
    BY DEF IInv, Typed, Distinct
  <2> QED
    BY <2>1 DEF IInv, Typed
<1>2. InMethod'
  BY DEF IInv, Typed, InMethod, Stored
<1>3. \A h \in Goroutines \ {g} : Stays(h)
  BY DEF IInv, Typed, Stays
<1>4. SameCache /\ SameWords
  BY PointwiseWord, SameCacheIfUnchanged
<1>5. pc[g] \notin Halfway /\ pc'[g] \notin Stored
  BY DEF IInv, Typed, Halfway, Stored
<1>6. /\ UNCHANGED <<now, evicted, replaced, promised>>
      /\ op'[g] = op[g] /\ key'[g] = key[g] /\ held'[g] = held[g]
  OBVIOUS
<1> HIDE DEF Goto, mem, call, history
<1> QED
  BY <1>1, <1>2, <1>3, <1>4, <1>5, <1>6, Frame

LEMMA CacheMissKeeps ==
  ASSUME IInv, NEW g \in Goroutines, CacheMiss(g)
  PROVE  IInv'
<1>1. CASE Return(g, "get")
  BY <1>1, ReturnKeeps, PointwiseWord
  DEF CacheMiss, mem, history, Steps, Outside, Halfway, IInv, Typed
<1>2. CASE Goto(g, "get", "add") /\ UNCHANGED call
  BY <1>2, GoesOnKeeps DEF CacheMiss, Steps, Outside, Stored
<1> QED
  BY <1>1, <1>2 DEF CacheMiss

LEMMA PlainStepsKeep ==
  ASSUME IInv, NEW g \in Goroutines, RefuseBlocked(g) \/ PassBlockCheck(g) \/ Read(g)
  PROVE  IInv'
<1>1. CASE RefuseBlocked(g)
  BY <1>1, ReturnKeeps, PointwiseWord
  DEF RefuseBlocked, mem, history, Steps, Halfway, IInv, Typed
<1>2. CASE PassBlockCheck(g)
  BY <1>2, GoesOnKeeps DEF PassBlockCheck, Steps, Outside, Stored
<1>3. CASE Read(g)
  BY <1>3, ReturnKeeps, PointwiseWord
  DEF Read, mem, history, Steps, Halfway, IInv, Typed
<1> QED
  BY <1>1, <1>2, <1>3

\* The admissions of an entry: at most EntryLimit times in its window.
LEMMA InWindowFacts ==
  ASSUME NEW times \in Seq(Int), now \in Int
  PROVE  /\ InWindow(times) \in Seq(Int)
         /\ Len(InWindow(times)) \in Nat /\ Len(InWindow(times)) <= Len(times)
<1> DEFINE old == {i \in DOMAIN times : times[i] <= now - WindowSize}
           n == Cardinality(old)
<1>1. Len(times) \in Nat /\ DOMAIN times = 1..Len(times)
  BY LenProperties
<1>2. old \subseteq 1..Len(times)
  BY <1>1
<1>3. IsFiniteSet(1..Len(times))
  BY <1>1, FS_Interval
<1> HIDE DEF old
<1>4. n \in Nat
  BY <1>2, <1>3, FS_Subset, FS_CardinalityType
<1>5. InWindow(times) = SubSeq(times, n + 1, Len(times))
  BY DEF InWindow, old
<1> HIDE DEF n
<1>6. \A i \in (n + 1)..Len(times) : times[i] \in Int
  BY <1>1, <1>4, ElementOfSeq
<1>7. /\ SubSeq(times, n + 1, Len(times)) \in Seq(Int)
      /\ Len(SubSeq(times, n + 1, Len(times))) =
           IF n + 1 <= Len(times) THEN Len(times) - (n + 1) + 1 ELSE 0
  BY <1>1, <1>4, <1>6, SubSeqProperties
<1> QED
  BY <1>1, <1>4, <1>5, <1>7

LEMMA WindowAllowKeeps ==
  ASSUME IInv, NEW g \in Goroutines, WindowAllow(g)
  PROVE  IInv'
<1> DEFINE id == held[g]
           kept == InWindow(heap[id].requests)
           times == IF Admits(kept) THEN Append(kept, now) ELSE kept
<1>1. /\ Return(g, "window") /\ heap' = [heap EXCEPT ![id].requests = times]
      /\ UNCHANGED <<now, cache, evicted, replaced, promised>>
  BY DEF WindowAllow
<1>2. pc[g] = "window" /\ id \in Ids /\ now \in Nat /\ heap \in [Ids -> Objects]
  <2>1. pc[g] = "window"
    BY <1>1 DEF Return, Goto
  <2>2. id \in Ids
    BY <2>1 DEF Outside, IInv, Typed, InMethod
  <2> QED
    BY <2>1, <2>2 DEF IInv, Typed
<1>3. heap[id].requests \in Seq(Int) /\ Len(heap[id].requests) <= EntryLimit
  BY <1>2 DEF Objects
<1>4. EntryLimit \in Nat
  BY EntryLimitIsNat
<1> HIDE DEF id
<1>5. /\ kept \in Seq(Int) /\ Len(kept) \in Nat
      /\ Len(kept) <= Len(heap[id].requests) /\ Len(heap[id].requests) \in Nat
  BY <1>2, <1>3, InWindowFacts, LenProperties
<1> HIDE DEF kept
<1>6. times \in Seq(Int) /\ Len(times) <= EntryLimit
  <2>1. Append(kept, now) \in Seq(Int) /\ Len(Append(kept, now)) = Len(kept) + 1
    BY <1>2, <1>5, AppendProperties
  <2> QED
    BY <1>3, <1>4, <1>5, <2>1 DEF Admits
<1> HIDE DEF times
<1>7. heap' \in [Ids -> Objects]
  BY <1>1, <1>2, <1>6 DEF Objects
<1>8. SameWords
  BY <1>1, <1>2 DEF SameWords, Word
<1> QED
  BY <1>1, <1>7, <1>8, ReturnKeeps DEF Steps, Halfway

LEMMA ViolationsKeep ==
  ASSUME IInv, NEW g \in Goroutines, Violate(g) \/ ClearViolations(g)
  PROVE  IInv'
<1>1. PICK from \in {"violate", "clear"}, v \in {0, 1} :
        /\ Return(g, from) /\ heap' = [heap EXCEPT ![held[g]].violations = v]
        /\ UNCHANGED <<now, cache, history>>
  BY DEF Violate, ClearViolations
<1>2. held[g] \in Ids /\ heap \in [Ids -> Objects]
  BY <1>1 DEF Return, Goto, Outside, IInv, Typed, InMethod
<1>3. heap' \in [Ids -> Objects]
  BY <1>1, <1>2 DEF Objects
<1>4. SameWords
  BY <1>1, <1>2 DEF SameWords, Word
<1> QED
  BY <1>1, <1>3, <1>4, ReturnKeeps DEF Steps, Halfway, Stored, history

-----------------------------------------------------------------------------
(* Block.                                                                  *)

\* The deadline to store is BlockTicks from now.
LEMMA ComputeDeadlineKeeps ==
  ASSUME IInv, NEW g \in Goroutines, ComputeDeadline(g)
  PROVE  IInv'
<1> USE DEF ComputeDeadline, Goto, mem, history
<1> DEFINE d == IF op[g] = "unblock" THEN ZeroTime ELSE Deadline(now + BlockTicks)
<1>1. /\ pc[g] = "deadline" /\ held[g] \in Ids /\ op[g] \in {"block", "unblock"}
      /\ now \in 1..MaxTime
  BY DEF IInv, Typed, InMethod, Outside, Stored
<1>2. /\ d \in Words
      /\ op[g] = "block" => d.wall /\ d.ext = now + BlockTicks
      /\ op[g] = "unblock" => d = ZeroTime
  BY <1>1, Constants DEF Words, ZeroTime, Deadline
<1>3. until' = [until EXCEPT ![g] = d]
  OBVIOUS
<1> HIDE DEF d
<1>4. pc' = [pc EXCEPT ![g] = "store"]
  OBVIOUS
<1>5. /\ UNCHANGED <<now, cache, heap, op, key, held, evicted, replaced, promised>>
  OBVIOUS
<1>6. until \in [Goroutines -> Words] /\ pc \in [Goroutines -> Steps]
  BY DEF IInv, Typed
<1> HIDE DEF ComputeDeadline, Goto, mem, history
<1>7. \A h \in Goroutines \ {g} : until'[h] = until[h] /\ pc'[h] = pc[h]
  BY <1>3, <1>4, <1>6
<1>8. until'[g] = d /\ pc'[g] = "store"
  BY <1>3, <1>4, <1>6
<1>9. SameCache /\ SameWords
  BY <1>5, PointwiseWord, SameCacheIfUnchanged
<1>10. Typed'
  <2>1. Distinct(cache)'
    BY <1>5 DEF IInv, Typed, Distinct
  <2>2. until' \in [Goroutines -> Words] /\ pc' \in [Goroutines -> Steps]
    BY <1>2, <1>3, <1>4, <1>6 DEF Steps, Stored
  <2> QED
    BY <1>5, <2>1, <2>2 DEF IInv, Typed
<1>11. InMethod'
  <2> SUFFICES ASSUME NEW h \in Goroutines
               PROVE  /\ pc'[h] \in Outside <=> held'[h] = None
                      /\ pc'[h] = "idle" => op'[h] = "none"
                      /\ pc'[h] # "idle" => key'[h] \in Keys
                                            /\ <<h, key'[h], op'[h]>> \in Serves
                      /\ pc'[h] \in Stored \cup {"deadline"} =>
                           op'[h] \in {"block", "unblock"}
                      /\ pc'[h] = "blocked" => op'[h] = "block"
                      /\ pc'[h] = "clear" => op'[h] = "unblock"
    BY DEF InMethod
  <2>1. CASE h = g
    BY <1>1, <1>5, <1>8, <2>1, Constants DEF IInv, InMethod, Outside
  <2>2. CASE h # g
    BY <1>5, <1>7, <2>2 DEF IInv, InMethod
  <2> QED
    BY <2>1, <2>2
<1>12. OfOneKey'
  BY <1>5, <1>9 DEF IInv, OfOneKey, SameCache
<1>13. Prepared'
  <2>1. d.ext = now + BlockTicks => d.ext <= now + BlockTicks
    BY <1>1, Constants
  <2> QED
    BY <1>2, <1>5, <1>7, <1>8, <2>1 DEF IInv, Prepared
<1>14. HalfStored'
  <2> SUFFICES ASSUME NEW h \in Goroutines, OneWriter(key[h])
               PROVE  /\ pc'[h] = "storeExt" => Word(held[h])'.wall = until'[h].wall
                      /\ pc'[h] = "storeWall" => Word(held[h])'.ext = until'[h].ext
                      /\ pc'[h] = "blocked" => Word(held[h])' = until'[h]
    BY <1>5 DEF HalfStored, OneWriter
  <2>1. Word(held[h])' = Word(held[h])
    BY <1>5 DEF Word
  <2> QED
    BY <1>7, <1>8, <2>1 DEF IInv, HalfStored
<1>15. Settled'
  <2> SUFFICES ASSUME NEW k \in Keys, NEW e \in Ids, OneWriter(k),
                      Caches(cache, k, e)',
                      \A h \in Goroutines : held'[h] = e => pc'[h] \notin Halfway
               PROVE  Sane(Word(e))'
    BY DEF Settled, OneWriter
  <2>1. \A h \in Goroutines : held[h] = e => pc[h] \notin Halfway
    BY <1>1, <1>5, <1>7 DEF Halfway
  <2>2. Sane(Word(e))
    BY <1>9, <2>1 DEF IInv, Settled, SameCache
  <2> QED
    BY <1>5, <1>9, <2>2 DEF Sane, SameWords
<1>16. Current'
  BY <1>5, <1>9 DEF IInv, Current, NeverLost, SameCache
<1>17. Backed'
  BY <1>5 DEF IInv, Backed, NeverLost, Holds
<1>18. Honoured'
  <2> SUFFICES ASSUME NEW k \in Keys, OneWriter(k), promised[k] # 0
               PROVE  /\ \A e \in Ids : Caches(cache, k, e)' =>
                           Word(e)'.wall /\ Word(e)'.ext >= promised[k]
                      /\ \A h \in Goroutines : key[h] = k =>
                           /\ op[h] # "unblock"
                           /\ pc'[h] \in Stored => until'[h].ext >= promised[k]
    BY <1>5 DEF Honoured, OneWriter
  <2>1. /\ \A e \in Ids :
             Caches(cache, k, e) => Word(e).wall /\ Word(e).ext >= promised[k]
        /\ \A h \in Goroutines :
             key[h] = k => /\ op[h] # "unblock"
                           /\ pc[h] \in Stored => until[h].ext >= promised[k]
    BY DEF IInv, Honoured
  <2>2. promised[k] <= now + BlockTicks /\ promised[k] \in Nat
    BY Constants DEF IInv, Backed, Typed
  <2>3. key[g] = k => d.ext >= promised[k]
    <3>1. ASSUME key[g] = k PROVE d.ext >= promised[k]
      <4>1. d.ext = now + BlockTicks
        BY <1>1, <1>2, <2>1, <3>1
      <4> QED
        BY <1>1, <2>2, <4>1, Constants
    <3> QED
      BY <3>1
  <2> QED
    BY <1>7, <1>8, <1>9, <2>1, <2>3 DEF SameCache, SameWords
<1> QED
  BY <1>10, <1>11, <1>12, <1>13, <1>14, <1>15, <1>16, <1>17, <1>18 DEF IInv

\* A step of g that stores a word of its deadline into its entry.
LEMMA StoreKeeps ==
  ASSUME IInv, NEW g \in Goroutines, NEW w,
         NEW from \in {"store", "storeExt", "storeWall"},
         NEW to \in {"storeExt", "storeWall", "blocked", "clear"},
         Goto(g, from, to), UNCHANGED <<now, cache, call, history>>,
         heap' = [heap EXCEPT ![held[g]].blockedUntil = w],
         w \in Words,
         w.wall \in {Word(held[g]).wall, until[g].wall},
         w.ext \in {Word(held[g]).ext, until[g].ext},
         OneWriter(key[g]) =>
           /\ to = "storeExt" => w.wall = until[g].wall
           /\ to = "storeWall" => w.ext = until[g].ext
           /\ to \in {"blocked", "clear"} => w = until[g],
         to = "blocked" => op[g] = "block",
         to = "clear" => op[g] = "unblock"
  PROVE  IInv'
<1> USE DEF Goto, call, history
<1>1. pc' = [pc EXCEPT ![g] = to]
  OBVIOUS
<1>2. UNCHANGED <<now, cache, op, key, held, until, evicted, replaced, promised>>
  OBVIOUS
<1>3. pc[g] \in {"store", "storeExt", "storeWall"}
  OBVIOUS
<1> HIDE DEF Goto, call, history
<1> DEFINE id == held[g]
<1>4. /\ id \in Ids /\ key[g] \in Keys /\ <<g, key[g], op[g]>> \in Serves
      /\ op[g] \in {"block", "unblock"} /\ pc[g] \in Stored /\ pc[g] \notin Outside
  BY <1>3 DEF IInv, Typed, InMethod, Outside, Stored
<1>5. heap \in [Ids -> Objects] /\ pc \in [Goroutines -> Steps]
  BY DEF IInv, Typed
<1>6. \A e \in Ids : e = id => Word(e)' = w
  BY <1>4, <1>5 DEF Word, Objects
<1>7. \A e \in Ids \ {id} : Word(e)' = Word(e)
  BY <1>4, <1>5 DEF Word
<1>8. \A h \in Goroutines \ {g} : pc'[h] = pc[h]
  BY <1>1, <1>5
<1>9. pc'[g] = to /\ to \in Stored /\ to \notin Outside
  BY <1>1, <1>5 DEF Stored, Outside
<1>10. SameCache
  BY <1>2, SameCacheIfUnchanged
<1>11. Typed'
  <2>1. Distinct(cache)'
    BY <1>2 DEF IInv, Typed, Distinct
  <2>2. heap' \in [Ids -> Objects]
    BY <1>4, <1>5 DEF Objects
  <2>3. pc' \in [Goroutines -> Steps]
    BY <1>1, <1>5, <1>9 DEF Steps
  <2> QED
    BY <1>2, <2>1, <2>2, <2>3 DEF IInv, Typed
<1>12. InMethod'
  <2> SUFFICES ASSUME NEW h \in Goroutines
               PROVE  /\ pc'[h] \in Outside <=> held'[h] = None
                      /\ pc'[h] = "idle" => op'[h] = "none"
                      /\ pc'[h] # "idle" => key'[h] \in Keys
                                            /\ <<h, key'[h], op'[h]>> \in Serves
                      /\ pc'[h] \in Stored \cup {"deadline"} =>
                           op'[h] \in {"block", "unblock"}
                      /\ pc'[h] = "blocked" => op'[h] = "block"
                      /\ pc'[h] = "clear" => op'[h] = "unblock"
    BY DEF InMethod
  <2>1. CASE h = g
    BY <1>2, <1>4, <1>9, <2>1, Constants
  <2>2. CASE h # g
    BY <1>2, <1>8, <2>2 DEF IInv, InMethod
  <2> QED
    BY <2>1, <2>2
<1>13. OfOneKey'
  BY <1>2, <1>10 DEF IInv, OfOneKey, SameCache
<1>14. Prepared'
  <2> SUFFICES ASSUME NEW h \in Goroutines, pc'[h] \in Stored
               PROVE  /\ op[h] = "block" =>
                           until[h].wall /\ until[h].ext <= now + BlockTicks
                      /\ op[h] = "unblock" => until[h] = ZeroTime
    BY <1>2 DEF Prepared
  <2>1. pc[h] \in Stored
    BY <1>4, <1>8
  <2> QED
    BY <2>1 DEF IInv, Prepared
\* Nobody else stores to the entry.
<1>15. ASSUME NEW h \in Goroutines, OneWriter(key[h]), pc[h] \in Stored, h # g
       PROVE  held[h] # id
  <2>1. SUFFICES ASSUME held[h] = id PROVE FALSE
    OBVIOUS
  <2>2. key[h] = key[g]
    BY <1>4, <2>1, Constants DEF IInv, OfOneKey
  <2>3. <<h, key[h], op[h]>> \in Serves /\ op[h] \in {"block", "unblock"}
    BY <1>15 DEF IInv, InMethod, Stored
  <2> QED
    BY <1>4, <1>15, <2>2, <2>3, OnlyOneWriter
<1>16. HalfStored'
  <2> SUFFICES ASSUME NEW h \in Goroutines, OneWriter(key[h])
               PROVE  /\ pc'[h] = "storeExt" => Word(held[h])'.wall = until[h].wall
                      /\ pc'[h] = "storeWall" => Word(held[h])'.ext = until[h].ext
                      /\ pc'[h] = "blocked" => Word(held[h])' = until[h]
    BY <1>2 DEF HalfStored, OneWriter
  <2>1. CASE h = g
    <3>1. Word(held[h])' = w
      BY <1>2, <1>4, <1>6, <2>1 DEF Word
    <3> QED
      BY <1>9, <2>1, <3>1
  <2>2. CASE h # g /\ pc[h] \in Stored
    <3>1. held[h] \in Ids /\ held[h] # id
      BY <1>15, <2>2 DEF IInv, Typed, InMethod, Outside, Stored
    <3>2. Word(held[h])' = Word(held[h])
      BY <1>2, <1>7, <3>1 DEF Word
    <3> QED
      BY <1>8, <2>2, <3>2 DEF IInv, HalfStored
  <2>3. CASE h # g /\ pc[h] \notin Stored
    BY <1>8, <2>3 DEF Stored
  <2> QED
    BY <2>1, <2>2, <2>3
<1>17. Settled'
  <2> SUFFICES ASSUME NEW k \in Keys, NEW e \in Ids, OneWriter(k),
                      Caches(cache, k, e),
                      \A h \in Goroutines : held[h] = e => pc'[h] \notin Halfway
               PROVE  Sane(Word(e))'
    BY <1>2, <1>10 DEF Settled, OneWriter, SameCache
  <2>1. CASE e = id
    <3>1. key[g] = k
      BY <2>1 DEF IInv, OfOneKey
    <3>2. to \in {"blocked", "clear"}
      BY <1>9, <2>1 DEF Halfway
    <3>3. w = until[g]
      BY <3>1, <3>2
    <3>4. Sane(w)
      BY <1>4, <3>3 DEF IInv, Prepared, Sane
    <3> QED
      BY <1>2, <1>6, <2>1, <3>4 DEF Sane
  <2>2. CASE e # id
    <3>1. \A h \in Goroutines : held[h] = e => pc[h] \notin Halfway
      BY <1>8, <2>2
    <3>2. Sane(Word(e))
      BY <3>1 DEF IInv, Settled
    <3>3. Word(e)' = Word(e)
      BY <1>7, <2>2
    <3> QED
      BY <1>2, <3>2, <3>3 DEF Sane
  <2> QED
    BY <2>1, <2>2
<1>18. Current'
  BY <1>2, <1>10 DEF IInv, Current, NeverLost, SameCache
<1>19. Backed'
  BY <1>2 DEF IInv, Backed, NeverLost, Holds
<1>20. Honoured'
  <2> SUFFICES ASSUME NEW k \in Keys, OneWriter(k), promised[k] # 0
               PROVE  /\ \A e \in Ids : Caches(cache, k, e) =>
                           Word(e)'.wall /\ Word(e)'.ext >= promised[k]
                      /\ \A h \in Goroutines : key[h] = k =>
                           /\ op[h] # "unblock"
                           /\ pc'[h] \in Stored => until[h].ext >= promised[k]
    BY <1>2, <1>10 DEF Honoured, OneWriter, SameCache
  <2>1. /\ \A e \in Ids :
             Caches(cache, k, e) => Word(e).wall /\ Word(e).ext >= promised[k]
        /\ \A h \in Goroutines :
             key[h] = k => /\ op[h] # "unblock"
                           /\ pc[h] \in Stored => until[h].ext >= promised[k]
    BY DEF IInv, Honoured
  <2>2. ASSUME Caches(cache, k, id) PROVE w.wall /\ w.ext >= promised[k]
    <3>1. key[g] = k
      BY <2>2 DEF IInv, OfOneKey
    <3>2. op[g] = "block" /\ until[g].ext >= promised[k]
      BY <1>4, <2>1, <3>1
    <3>3. until[g].wall
      BY <1>4, <3>2 DEF IInv, Prepared
    <3>4. Word(id).wall /\ Word(id).ext >= promised[k]
      BY <1>4, <2>1, <2>2
    <3> QED
      BY <3>2, <3>3, <3>4
  <2>3. \A h \in Goroutines : pc'[h] \in Stored => pc[h] \in Stored
    BY <1>4, <1>8
  <2> QED
    BY <1>6, <1>7, <2>1, <2>2, <2>3
<1> QED
  BY <1>11, <1>12, <1>13, <1>14, <1>16, <1>17, <1>18, <1>19, <1>20 DEF IInv

\* Both orders of the two words.
LEMMA WordsKeep ==
  ASSUME IInv, NEW g \in Goroutines, StoreFirstWord(g) \/ StoreSecondWord(g)
  PROVE  IInv'
<1> DEFINE id == held[g]
           u == Word(id)
           W(w) == heap' = [heap EXCEPT ![id].blockedUntil = w]
<1>1. UNCHANGED <<now, cache, call, history>>
  BY DEF StoreFirstWord, StoreSecondWord
<1>2. pc[g] \in {"store", "storeExt", "storeWall"}
  BY DEF StoreFirstWord, StoreSecondWord, Goto
<1>3. id \in Ids /\ op[g] \in {"block", "unblock"}
  BY <1>2 DEF IInv, Typed, InMethod, Outside, Stored
<1>4. heap \in [Ids -> Objects] /\ until[g] \in Words
  BY DEF IInv, Typed
<1>5. u \in Words /\ heap[id].blockedUntil = u
  BY <1>3, <1>4 DEF Word, Objects
<1> DEFINE x == [wall |-> until[g].wall, ext |-> u.ext]
           y == [wall |-> u.wall, ext |-> until[g].ext]
<1>6. x \in Words /\ y \in Words
  BY <1>4, <1>5 DEF Words
<1>7. /\ [u EXCEPT !.wall = until[g].wall] = x
      /\ [u EXCEPT !.ext = until[g].ext] = y
  BY <1>4, <1>5 DEF Words
<1>8. /\ heap' = [heap EXCEPT ![id].blockedUntil.wall = until[g].wall] => W(x)
      /\ heap' = [heap EXCEPT ![id].blockedUntil.ext = until[g].ext] => W(y)
  BY <1>5, <1>7
<1> HIDE DEF u
<1>9. CASE StoreFirstWord(g)
  <2>1. CASE Goto(g, "store", "storeExt") /\ W(x)
    BY <1>1, <1>6, <2>1, StoreKeeps DEF u
  <2>2. CASE Goto(g, "store", "storeWall") /\ W(y)
    BY <1>1, <1>6, <2>2, StoreKeeps DEF u
  <2> QED
    BY <1>8, <1>9, <2>1, <2>2 DEF StoreFirstWord
<1>10. CASE StoreSecondWord(g)
  <2> DEFINE to == IF op[g] = "unblock" THEN "clear" ELSE "blocked"
  <2>1. /\ to \in {"blocked", "clear"} /\ (to = "blocked" => op[g] = "block")
        /\ to = "clear" => op[g] = "unblock"
    BY <1>3
  <2>2. OneWriter(key[g]) => /\ pc[g] = "storeExt" => u.wall = until[g].wall
                             /\ pc[g] = "storeWall" => u.ext = until[g].ext
    BY DEF IInv, HalfStored, u
  <2>3. /\ u.wall = until[g].wall => y = until[g]
        /\ u.ext = until[g].ext => x = until[g]
    BY <1>4 DEF Words
  <2>4. \/ Goto(g, "storeExt", to) /\ W(y)
        \/ Goto(g, "storeWall", to) /\ W(x)
    BY <1>8, <1>10 DEF StoreSecondWord
  <2> HIDE DEF to
  <2>5. CASE Goto(g, "storeExt", to) /\ W(y)
    <3>1. OneWriter(key[g]) => y = until[g]
      BY <2>2, <2>3, <2>5 DEF Goto
    <3> HIDE DEF y
    <3>2. y.wall = u.wall /\ y.ext = until[g].ext
      BY DEF y
    <3> QED
      BY <1>1, <1>6, <2>1, <2>5, <3>1, <3>2, StoreKeeps DEF u
  <2>6. CASE Goto(g, "storeWall", to) /\ W(x)
    <3>1. OneWriter(key[g]) => x = until[g]
      BY <2>2, <2>3, <2>6 DEF Goto
    <3> HIDE DEF x
    <3>2. x.wall = until[g].wall /\ x.ext = u.ext
      BY DEF x
    <3> QED
      BY <1>1, <1>6, <2>1, <2>6, <3>1, <3>2, StoreKeeps DEF u
  <2> QED
    BY <2>4, <2>5, <2>6
<1> QED
  BY <1>9, <1>10

\* A Block that returns has its deadline in the entry, and that entry is the one
\* in the cache unless the key's entry was lost: it can be promised.
LEMMA BlockReturnsKeeps ==
  ASSUME IInv, NEW g \in Goroutines, BlockReturns(g)
  PROVE  IInv'
<1> DEFINE k == key[g]
           u == until[g]
<1>1. /\ Return(g, "blocked") /\ UNCHANGED <<now, cache, heap, evicted, replaced>>
      /\ promised' = IF NeverLost(k) THEN [promised EXCEPT ![k] = u.ext]
                                     ELSE promised
  BY DEF BlockReturns, mem, NeverLost
<1>2. pc[g] = "blocked" /\ pc[g] \notin Halfway
  BY <1>1 DEF Return, Goto, Halfway
<1>3. /\ held[g] \in Ids /\ k \in Keys /\ op[g] = "block"
      /\ <<g, k, "block">> \in Serves
  BY <1>2 DEF IInv, Typed, InMethod, Outside
<1>4. u.wall /\ u.ext <= now + BlockTicks /\ u \in Words
  BY <1>2, <1>3 DEF IInv, Typed, Prepared, Stored
<1>5. cache \in Seq(Entries) /\ Distinct(cache)
      /\ promised \in [Keys -> 0..(MaxTime + BlockTicks)]
  BY DEF IInv, Typed
<1>6. \A h \in Goroutines \ {g} : Stays(h)
  BY <1>1 DEF Return, Goto, IInv, Typed, Stays
<1>7. pc'[g] = "idle" /\ held'[g] = None /\ op'[g] = "none"
  BY <1>1 DEF Return, Goto, IInv, Typed
<1>8. Typed'
  <2>1. Distinct(cache)'
    BY <1>1, <1>5 DEF Distinct
  <2>2. /\ pc' \in [Goroutines -> Steps]
        /\ op' \in [Goroutines -> Methods \cup {"none"}]
        /\ key' \in [Goroutines -> Keys \cup {None}]
        /\ held' \in [Goroutines -> Ids \cup {None}]
    BY <1>1 DEF IInv, Typed, Return, Goto, Steps, Outside
  <2>3. ZeroTime \in Words
    BY Constants DEF ZeroTime, Words
  <2>4. until' \in [Goroutines -> Words]
    BY <1>1, <2>3 DEF IInv, Typed, Return
  <2>5. promised' \in [Keys -> 0..(MaxTime + BlockTicks)]
    BY <1>1, <1>3, <1>4, <1>5 DEF Words
  <2> QED
    BY <1>1, <2>1, <2>2, <2>4, <2>5 DEF IInv, Typed
<1>9. InMethod'
  BY <1>1, <1>6, <1>7 DEF IInv, InMethod, Stays, Outside, Stored
<1>10. SameCache /\ SameWords
  BY <1>1, PointwiseWord, SameCacheIfUnchanged
<1>11. /\ \A l : Holds(cache, l)' <=> Holds(cache, l)
       /\ OfOneKey' /\ Prepared' /\ HalfStored' /\ Settled' /\ Current'
  BY <1>1, <1>2, <1>6, <1>7, <1>8, <1>10, EntriesFrame DEF Stored
\* What is promised now is promised of the entry in the cache.
<1>12. ASSUME NeverLost(k)
       PROVE  /\ Caches(cache, k, held[g]) /\ Holds(cache, k)
              /\ \A e : Caches(cache, k, e) => e = held[g]
  <2>1. Caches(cache, k, held[g])
    BY <1>3, <1>12, Constants DEF IInv, Current
  <2> QED
    BY <1>5, <2>1, DomainOfCache, CachesIsAMap
<1>13. /\ NeverLost(k) => promised'[k] = u.ext
       /\ ~NeverLost(k) => promised'[k] = promised[k]
       /\ \A l \in Keys \ {k} : promised'[l] = promised[l]
  BY <1>1, <1>3, <1>5
<1> HIDE DEF k, u
<1>14. Backed'
  <2> SUFFICES ASSUME NEW l \in Keys, promised'[l] # 0
               PROVE  /\ NeverLost(l) /\ Holds(cache, l)
                      /\ promised'[l] <= now + BlockTicks
    BY <1>1, <1>11 DEF Backed, NeverLost
  <2>1. CASE l = k /\ NeverLost(k)
    BY <1>4, <1>12, <1>13, <2>1
  <2>2. CASE l # k \/ ~NeverLost(k)
    BY <1>13, <2>2 DEF IInv, Backed
  <2> QED
    BY <2>1, <2>2
<1>15. Honoured'
  <2> SUFFICES ASSUME NEW l \in Keys, OneWriter(l), promised'[l] # 0
               PROVE  /\ \A e \in Ids : Caches(cache, l, e) =>
                           Word(e).wall /\ Word(e).ext >= promised'[l]
                      /\ \A h \in Goroutines : key'[h] = l =>
                           /\ op'[h] # "unblock"
                           /\ pc'[h] \in Stored => until'[h].ext >= promised'[l]
    BY <1>10 DEF Honoured, OneWriter, SameCache, SameWords
  <2>1. CASE l = k /\ NeverLost(k)
    <3>1. Word(held[g]) = u
      BY <1>2, <2>1 DEF IInv, HalfStored, k, u
    <3>2. ASSUME NEW e \in Ids, Caches(cache, l, e)
          PROVE  Word(e).wall /\ Word(e).ext >= promised'[l]
      <4>1. e = held[g]
        BY <1>12, <2>1, <3>2
      <4>2. Word(e).wall /\ Word(e).ext = promised'[l]
        BY <1>4, <1>13, <2>1, <3>1, <4>1
      <4>3. promised'[l] \in Int
        BY <1>4, <1>13, <2>1 DEF Words
      <4> QED
        BY <4>2, <4>3
    <3>3. ASSUME NEW h \in Goroutines \ {g}, key[h] = l
          PROVE  op[h] # "unblock" /\ pc[h] \notin Stored
      <4>1. SUFFICES ASSUME op[h] = "unblock" \/ pc[h] \in Stored PROVE FALSE
        OBVIOUS
      <4>2. op[h] \in {"block", "unblock"} /\ <<h, l, op[h]>> \in Serves
        BY <3>3, <4>1 DEF IInv, InMethod, Stored
      <4> QED
        BY <1>3, <2>1, <4>2, OnlyOneWriter
    <3> QED
      BY <1>6, <1>7, <3>2, <3>3 DEF Stays, Stored
  <2>2. CASE l # k \/ ~NeverLost(k)
    <3>1. promised'[l] = promised[l]
      BY <1>13, <2>2
    <3> QED
      BY <1>6, <1>7, <3>1 DEF IInv, Honoured, Stays, Stored
  <2> QED
    BY <2>1, <2>2
<1> QED
  BY <1>8, <1>9, <1>11, <1>14, <1>15 DEF IInv

-----------------------------------------------------------------------------
(* A new entry.                                                            *)

LEMMA CacheAddKeeps ==
  ASSUME IInv, NEW g \in Goroutines, CacheAdd(g)
  PROVE  IInv'
<1>1. PICK id \in Ids \ Reachable :
        LET lost == {k \in Keys : Holds(cache, k) /\ ~Holds(cache', k)}
            twice == {key[g]} \cap {k \in Keys : Holds(cache, k)}
        IN  /\ Goto(g, "add", Body(g))
            /\ heap' = [i \in Ids |-> IF i \in Reachable THEN heap[i] ELSE NewEntry]
            /\ cache' = Added(cache, key[g], id, Capacity)
            /\ held' = [held EXCEPT ![g] = id]
            /\ evicted' = evicted \cup lost
            /\ replaced' = replaced \cup twice
            /\ promised' = [k \in Keys |->
                              IF k \in lost \cup twice THEN 0 ELSE promised[k]]
            /\ UNCHANGED <<now, op, key, limit, until>>
  BY DEF CacheAdd
<1> DEFINE gone == {k \in Keys : Holds(cache, k) /\ ~Holds(cache', k)}
                     \cup ({key[g]} \cap {k \in Keys : Holds(cache, k)})
<1>2. /\ Goto(g, "add", Body(g))
      /\ heap' = [i \in Ids |-> IF i \in Reachable THEN heap[i] ELSE NewEntry]
      /\ cache' = Added(cache, key[g], id, Capacity)
      /\ held' = [held EXCEPT ![g] = id]
      /\ promised' = [k \in Keys |-> IF k \in gone THEN 0 ELSE promised[k]]
      /\ UNCHANGED <<now, op, key, limit, until>>
  BY <1>1
<1>3. \A k : NeverLost(k)' <=> NeverLost(k) /\ k \notin gone
  BY <1>1 DEF NeverLost
<1>4. /\ cache \in Seq(Entries) /\ Distinct(cache) /\ Len(cache) <= Capacity
      /\ heap \in [Ids -> Objects] /\ held \in [Goroutines -> Ids \cup {None}]
      /\ pc \in [Goroutines -> Steps] /\ promised \in [Keys -> 0..(MaxTime + BlockTicks)]
  BY DEF IInv, Typed
<1>5. pc[g] = "add" /\ pc' = [pc EXCEPT ![g] = Body(g)]
  BY <1>2 DEF Goto
<1>6. Body(g) \in Steps \ (Outside \cup Stored)
  BY DEF Body, Steps, Outside, Stored
<1>7. held[g] = None /\ key[g] \in Keys /\ <<g, key[g], op[g]>> \in Serves
  BY <1>5 DEF IInv, InMethod, Outside
\* Nobody holds or finds the new entry yet.
<1>8. \A i \in 1..Len(cache) : cache[i].entry \in Reachable
  BY <1>4, DomainOfCache DEF Reachable
<1>9. /\ \A l, e : Caches(cache, l, e) => e \in Reachable /\ e \in Ids /\ l \in Keys
      /\ \A l : ~Caches(cache, l, id)
  <2>1. ASSUME NEW l, NEW e, Caches(cache, l, e)
        PROVE  e \in Reachable /\ e \in Ids /\ l \in Keys
    <3>1. PICK i \in 1..Len(cache) : cache[i] = [key |-> l, entry |-> e]
      BY <2>1 DEF Caches
    <3>2. cache[i].key = l /\ cache[i].entry = e
      BY <3>1
    <3> QED
      BY <1>4, <1>8, <3>2, DomainOfCache
  <2> QED
    BY <2>1
<1>10. \A h \in Goroutines : held[h] \in Reachable /\ held[h] # id
  BY DEF Reachable
<1>11. /\ cache' \in Seq(Entries) /\ Distinct(cache') /\ Len(cache') <= Capacity
       /\ Caches(cache', key[g], id)
       /\ \A l, f : Caches(cache', l, f) =>
            (l = key[g] /\ f = id) \/ (l # key[g] /\ Caches(cache, l, f))
  BY <1>2, <1>4, <1>7, <1>9, Constants, AddedFacts
<1>12. \A l, f : Caches(cache, l, f)' <=> Caches(cache', l, f)
  BY DEF Caches
<1>13. /\ \A h \in Goroutines \ {g} : pc'[h] = pc[h] /\ held'[h] = held[h]
       /\ pc'[g] = Body(g) /\ held'[g] = id
  BY <1>2, <1>4, <1>5
<1>14. /\ \A e \in Ids : e \in Reachable => Word(e)' = Word(e)
       /\ \A e \in Ids : e = id => Word(e)' = ZeroTime
  <2>1. ASSUME NEW e \in Ids, e \in Reachable PROVE Word(e)' = Word(e)
    BY <1>2, <2>1 DEF Word
  <2>2. ASSUME NEW e \in Ids, e = id PROVE Word(e)' = ZeroTime
    BY <1>2, <2>2, NewEntryIsEmpty DEF Word
  <2> QED
    BY <2>1, <2>2
<1>15. /\ \A k : Holds(cache, k) <=> \E e : Caches(cache, k, e)
       /\ \A k : Holds(cache', k) <=> \E e : Caches(cache', k, e)
       /\ \A k : Holds(cache, k)' <=> Holds(cache', k)
  <2>1. \A k : Holds(cache, k)' <=> Holds(cache', k)
    BY DEF Holds
  <2> QED
    BY <1>4, <1>11, <2>1, DomainOfCache
<1>16. \A k \in Keys \ gone : Holds(cache, k) => k # key[g] /\ Holds(cache', k)
  OBVIOUS
<1>17. \A k \in Keys : promised'[k] # 0 => k \notin gone /\ promised'[k] = promised[k]
  BY <1>2
<1>18. UNCHANGED <<now, op, key, until>>
  BY <1>2
<1>19. Typed'
  <2>1. heap' \in [Ids -> Objects]
    BY <1>2, <1>4, NewEntryIsEmpty
  <2>2. held' \in [Goroutines -> Ids \cup {None}]
    BY <1>2, <1>4
  <2>3. pc' \in [Goroutines -> Steps]
    BY <1>4, <1>5, <1>6
  <2>4. promised' \in [Keys -> 0..(MaxTime + BlockTicks)]
    BY <1>2, <1>4, Constants
  <2>5. Distinct(cache)'
    BY <1>11 DEF Distinct
  <2> QED
    BY <1>11, <1>18, <2>1, <2>2, <2>3, <2>4, <2>5 DEF IInv, Typed
<1> HIDE DEF gone
<1>20. InMethod'
  <2> SUFFICES ASSUME NEW h \in Goroutines
               PROVE  /\ pc'[h] \in Outside <=> held'[h] = None
                      /\ pc'[h] = "idle" => op[h] = "none"
                      /\ pc'[h] # "idle" => key[h] \in Keys
                                            /\ <<h, key[h], op[h]>> \in Serves
                      /\ pc'[h] \in Stored \cup {"deadline"} =>
                           op[h] \in {"block", "unblock"}
                      /\ pc'[h] = "blocked" => op[h] = "block"
                      /\ pc'[h] = "clear" => op[h] = "unblock"
    BY <1>18 DEF InMethod
  <2>1. CASE h = g
    <3>1. pc'[h] \notin Outside \cup Stored /\ held'[h] # None
      BY <1>6, <1>13, <2>1, Constants
    <3>2. Body(g) = "deadline" => op[g] \in {"block", "unblock"}
      BY DEF Body
    <3> QED
      BY <1>7, <1>13, <2>1, <3>1, <3>2 DEF Outside, Stored
  <2>2. CASE h # g
    BY <1>13, <2>2 DEF IInv, InMethod
  <2> QED
    BY <2>1, <2>2
<1>21. OfOneKey'
  <2>1. ASSUME NEW h \in Goroutines, NEW k \in Keys, Caches(cache', k, held'[h])
        PROVE  key[h] = k
    <3>1. CASE h = g
      BY <1>9, <1>11, <1>13, <2>1, <3>1
    <3>2. CASE h # g
      BY <1>10, <1>11, <1>13, <2>1, <3>2 DEF IInv, OfOneKey
    <3> QED
      BY <3>1, <3>2
  <2>2. ASSUME NEW h \in Goroutines, NEW i \in Goroutines,
               held'[h] # None, held'[h] = held'[i]
        PROVE  key[h] = key[i]
    <3>1. CASE h # g /\ i # g
      BY <1>13, <2>2, <3>1 DEF IInv, OfOneKey
    <3>2. CASE h = g \/ i = g
      BY <1>10, <1>13, <2>2, <3>2
    <3> QED
      BY <3>1, <3>2
  <2> QED
    BY <1>12, <1>18, <2>1, <2>2 DEF OfOneKey
<1>22. Prepared'
  <2>1. \A h \in Goroutines : pc'[h] \in Stored => pc[h] \in Stored
    BY <1>6, <1>13
  <2> QED
    BY <1>18, <2>1 DEF IInv, Prepared
<1>23. HalfStored'
  <2> SUFFICES ASSUME NEW h \in Goroutines, OneWriter(key[h])
               PROVE  /\ pc'[h] = "storeExt" => Word(held[h])'.wall = until[h].wall
                      /\ pc'[h] = "storeWall" => Word(held[h])'.ext = until[h].ext
                      /\ pc'[h] = "blocked" => Word(held[h])' = until[h]
    BY <1>18 DEF HalfStored, OneWriter
  <2>1. CASE pc'[h] \notin Stored
    BY <2>1 DEF Stored
  <2>2. CASE pc'[h] \in Stored
    <3>1. h # g /\ pc'[h] = pc[h] /\ held'[h] = held[h]
      BY <1>6, <1>13, <2>2
    <3>2. pc[h] \notin Outside
      BY <2>2, <3>1 DEF Stored, Outside
    <3>3. held[h] \in Ids
      BY <1>4, <3>2 DEF IInv, InMethod
    <3>4. \A e \in Ids : e = held[h] => Word(e)' = Word(e)
      BY <1>10, <1>14
    <3>5. Word(held[h])' = Word(held[h])
      BY <3>1, <3>3, <3>4 DEF Word
    <3> QED
      BY <3>1, <3>5 DEF IInv, HalfStored
  <2> QED
    BY <2>1, <2>2
<1>24. Settled'
  <2> SUFFICES ASSUME NEW k \in Keys, NEW e \in Ids, OneWriter(k),
                      Caches(cache', k, e),
                      \A h \in Goroutines : held'[h] = e => pc'[h] \notin Halfway
               PROVE  Sane(Word(e))'
    BY <1>12 DEF Settled, OneWriter
  <2>1. CASE e = id
    BY <1>14, <2>1 DEF Sane
  <2>2. CASE e # id
    <3>1. Caches(cache, k, e) /\ e \in Reachable
      BY <1>9, <1>11, <2>2
    <3>2. \A h \in Goroutines : held[h] = e => pc[h] \notin Halfway
      BY <1>5, <1>13 DEF Halfway
    <3>3. Sane(Word(e))
      BY <3>1, <3>2 DEF IInv, Settled
    <3>4. Word(e)' = Word(e)
      BY <1>14, <3>1
    <3> QED
      BY <1>18, <3>3, <3>4 DEF Sane
  <2> QED
    BY <2>1, <2>2
<1>25. Current'
  <2> SUFFICES ASSUME NEW h \in Goroutines, held'[h] # None, NeverLost(key[h])'
               PROVE  Caches(cache', key[h], held'[h])
    BY <1>12, <1>18 DEF Current, NeverLost
  <2>1. CASE h = g
    BY <1>11, <1>13, <2>1
  <2>2. CASE h # g
    <3>1. held'[h] = held[h] /\ held[h] # None
      BY <1>13, <2>2
    <3>2. pc[h] \notin Outside
      BY <3>1 DEF IInv, InMethod
    <3>3. key[h] \in Keys
      BY <3>2 DEF IInv, InMethod, Outside
    <3>4. NeverLost(key[h]) /\ key[h] \notin gone
      BY <1>3, <1>18 DEF NeverLost
    <3>5. Caches(cache, key[h], held[h])
      BY <3>1, <3>4 DEF IInv, Current
    <3>6. Holds(cache', key[h]) /\ key[h] # key[g]
      BY <1>15, <1>16, <3>3, <3>4, <3>5
    <3>7. PICK f : Caches(cache', key[h], f)
      BY <1>15, <3>6
    <3>8. Caches(cache, key[h], f)
      BY <1>11, <3>6, <3>7
    <3>9. f = held[h]
      BY <1>4, <3>5, <3>8, CachesIsAMap
    <3> QED
      BY <3>1, <3>7, <3>9
  <2> QED
    BY <2>1, <2>2
<1>26. Backed'
  <2> SUFFICES ASSUME NEW k \in Keys, promised'[k] # 0
               PROVE  /\ NeverLost(k)' /\ Holds(cache', k)
                      /\ promised'[k] <= now + BlockTicks
    BY <1>15, <1>18 DEF Backed
  <2>1. k \notin gone /\ promised'[k] = promised[k]
    BY <1>17
  <2>2. NeverLost(k) /\ Holds(cache, k) /\ promised[k] <= now + BlockTicks
    BY <2>1 DEF IInv, Backed
  <2> QED
    BY <1>3, <1>16, <2>1, <2>2
<1>27. Honoured'
  <2> SUFFICES ASSUME NEW k \in Keys, OneWriter(k), promised'[k] # 0
               PROVE  /\ \A e \in Ids : Caches(cache', k, e) =>
                           Word(e)'.wall /\ Word(e)'.ext >= promised'[k]
                      /\ \A h \in Goroutines : key[h] = k =>
                           /\ op[h] # "unblock"
                           /\ pc'[h] \in Stored => until[h].ext >= promised'[k]
    BY <1>12, <1>18 DEF Honoured, OneWriter
  <2>1. k \notin gone /\ promised'[k] = promised[k]
    BY <1>17
  <2>2. Holds(cache, k)
    BY <2>1 DEF IInv, Backed
  <2>3. k # key[g]
    BY <1>16, <2>1, <2>2
  <2>4. /\ \A e \in Ids :
             Caches(cache, k, e) => Word(e).wall /\ Word(e).ext >= promised[k]
        /\ \A h \in Goroutines :
             key[h] = k => /\ op[h] # "unblock"
                           /\ pc[h] \in Stored => until[h].ext >= promised[k]
    BY <2>1 DEF IInv, Honoured
  <2>5. \A e \in Ids : Caches(cache', k, e) => Caches(cache, k, e) /\ Word(e)' = Word(e)
    BY <1>9, <1>11, <1>14, <2>3
  <2> QED
    BY <1>13, <2>1, <2>3, <2>4, <2>5
<1> QED
  BY <1>19, <1>20, <1>21, <1>22, <1>23, <1>24, <1>25, <1>26, <1>27 DEF IInv

-----------------------------------------------------------------------------
(* Times in order, and the window at their end.                            *)

Ordered(times) == \A i, j \in 1..Len(times) : i <= j => times[i] <= times[j]
Recent(t, time) == time > t - WindowSize

LEMMA LeastElement ==
  ASSUME NEW T \in SUBSET Nat, T # {}
  PROVE  \E m \in T : \A n \in T : ~(n < m)
<1> DEFINE R == OpToRel(<, Nat)
<1>1. IsWellFoundedOn(R, Nat) BY NatLessThanWellFounded
<1>2. \A m, n \in Nat : n < m => <<n, m>> \in R BY DEF OpToRel
<1> HIDE DEF R
<1>3. \E m \in T : \A n \in T : ~(<<n, m>> \in R) BY <1>1, WFMin
<1> QED BY <1>2, <1>3

LEMMA InWindowOrdered ==
  ASSUME NEW times \in Seq(Int), Ordered(times), now \in Int
  PROVE  \E d \in 0..Len(times) :
           /\ \A i \in 1..Len(times) : Recent(now, times[i]) <=> i > d
           /\ InWindow(times) \in Seq(Int)
           /\ Len(InWindow(times)) = Len(times) - d
           /\ \A i \in 1..(Len(times) - d) : InWindow(times)[i] = times[i + d]
<1> DEFINE n == Len(times)
           T == {i \in 1..(n + 1) : i = n + 1 \/ Recent(now, times[i])}
           old == {i \in DOMAIN times : times[i] <= now - WindowSize}
<1>1. n \in Nat /\ DOMAIN times = 1..n /\ \A i \in 1..n : times[i] \in Int
  BY LenProperties, ElementOfSeq
<1>2. WindowSize \in Int BY Constants
<1> HIDE DEF n
<1>3. PICK m \in T : \A i \in T : ~(i < m)
  <2>1. T \in SUBSET Nat /\ n + 1 \in T BY <1>1
  <2> HIDE DEF T
  <2> QED BY <2>1, LeastElement
<1> DEFINE d == m - 1
<1>4. m \in 1..(n + 1) /\ d \in 0..n BY <1>1, <1>3
<1>5. ASSUME NEW i \in 1..n PROVE Recent(now, times[i]) <=> i > d
  <2>1. CASE i > d
    <3>1. m <= i /\ m \in 1..n BY <1>1, <1>4, <2>1
    <3>2. Recent(now, times[m]) BY <1>1, <1>3, <3>1
    <3>3. times[m] <= times[i] BY <3>1 DEF Ordered, n
    <3>4. times[m] \in Int /\ times[i] \in Int BY <1>1, <3>1
    <3> HIDE DEF d, T
    <3> QED BY <1>2, <2>1, <3>2, <3>3, <3>4 DEF Recent
  <2>2. CASE ~(i > d)
    <3>1. i < m BY <1>1, <1>4, <2>2
    <3>2. i \notin T BY <1>3, <3>1
    <3> QED BY <1>1, <2>2, <3>2
  <2> QED BY <2>1, <2>2
<1> HIDE DEF T, d
<1>6. old = 1..d
  <2>1. \A i \in 1..n : i \in old <=> ~Recent(now, times[i])
    BY <1>1, <1>2 DEF Recent
  <2>2. \A i : i \in 1..d <=> i \in 1..n /\ ~(i > d) BY <1>1, <1>4
  <2>3. old \subseteq 1..n BY <1>1
  <2> HIDE DEF old
  <2> QED BY <1>5, <2>1, <2>2, <2>3
<1>7. InWindow(times) = SubSeq(times, d + 1, n)
  <2>1. Cardinality(1..d) = d
    <3>1. d \in Nat /\ (1 > d => d = 0) BY <1>1, <1>4
    <3> QED BY <3>1, FS_Interval
  <2> QED BY <1>6, <2>1 DEF InWindow, n
<1>8. \A i \in (d + 1)..n : times[i] \in Int BY <1>1, <1>4
<1>9. /\ SubSeq(times, d + 1, n) \in Seq(Int)
      /\ Len(SubSeq(times, d + 1, n)) =
           IF d + 1 <= n THEN n - (d + 1) + 1 ELSE 0
      /\ \A i \in 1..(n - (d + 1) + 1) :
           SubSeq(times, d + 1, n)[i] = times[d + 1 + i - 1]
  BY <1>1, <1>4, <1>8, SubSeqProperties
<1>10. /\ InWindow(times) \in Seq(Int) /\ Len(InWindow(times)) = n - d
       /\ \A i \in 1..(n - d) : InWindow(times)[i] = times[i + d]
  <2>1. n - (d + 1) + 1 = n - d /\ (IF d + 1 <= n THEN n - (d + 1) + 1 ELSE 0) = n - d
    BY <1>1, <1>4
  <2>2. \A i \in 1..(n - d) : d + 1 + i - 1 = i + d BY <1>1, <1>4
  <2> QED BY <1>7, <1>9, <2>1, <2>2
<1> QED BY <1>4, <1>5, <1>10 DEF n

-----------------------------------------------------------------------------
(* Admissions and who created the entries they were counted in.            *)

\* The recent ones of the admission times adm are spread over the slots of the
\* goroutines in S: slot[i] is a goroutine and a place.  Where the goroutine has
\* created one of the entries E, and own tells which, the admission is in that
\* place of the entry's slice.
Spread(t, objects, adm, slot, S, E, own) ==
  /\ slot \in [1..Len(adm) -> S \X (1..EntryLimit)]
  /\ \A i, j \in 1..Len(adm) :
       Recent(t, adm[i]) /\ Recent(t, adm[j]) /\ slot[i] = slot[j] => i = j
  /\ \A i \in 1..Len(adm), e \in E :
       Recent(t, adm[i]) /\ slot[i][1] = own[e] =>
         /\ slot[i][2] <= Len(objects[e].requests)
         /\ objects[e].requests[slot[i][2]] = adm[i]

\* There are no more recent admissions than slots.
LEMMA SlotsBound ==
  ASSUME NEW n \in Nat, NEW S, IsFiniteSet(S),
         NEW slot \in [1..n -> S \X (1..EntryLimit)],
         \A i, j \in 1..n : slot[i] = slot[j] => i = j
  PROVE  n <= EntryLimit * Cardinality(S)
<1> DEFINE L == 1..EntryLimit
           P == S \X L
<1>1. IsFiniteSet(L) /\ Cardinality(L) = EntryLimit
  <2>1. EntryLimit \in Nat /\ (1 > EntryLimit => EntryLimit = 0)
    BY EntryLimitIsNat
  <2> QED BY <2>1, FS_Interval
<1>2. IsFiniteSet(P) /\ Cardinality(P) = Cardinality(S) * Cardinality(L)
  <2> HIDE DEF L
  <2> QED BY <1>1, FS_Product
<1>3. slot \in Injection(1..n, P) BY DEF Injection, IsInjective
<1> HIDE DEF P
<1>4. Cardinality(1..n) <= Cardinality(P) BY <1>2, <1>3, FS_Injection
<1>5. Cardinality(1..n) = n
  <2>1. 1 > n => n = 0 OBVIOUS
  <2> QED BY <2>1, FS_Interval
<1>6. Cardinality(S) \in Nat BY FS_CardinalityType
<1>7. Cardinality(S) * EntryLimit = EntryLimit * Cardinality(S)
  BY <1>6, EntryLimitIsNat
<1> QED BY <1>1, <1>2, <1>4, <1>5, <1>7

\* An entry forgets the times that have left the window: the admissions that
\* remain move to the front of its slice.
Moved(t, adm, slot, d, g) ==
  [i \in 1..Len(adm) |-> IF Recent(t, adm[i]) /\ slot[i][1] = g
                         THEN <<g, slot[i][2] - d>> ELSE slot[i]]

Alone(own, e, E) == \A f \in E : own[f] = own[e] => f = e
Dropped(t, objects, after, e, E, n, d) ==
  /\ \A f \in E : f # e => after[f].requests = objects[f].requests
  /\ n \in Nat /\ Len(objects[e].requests) = n /\ d \in 0..n
  /\ \A i \in 1..n : Recent(t, objects[e].requests[i]) <=> i > d
  /\ Len(after[e].requests) \in Nat /\ n - d <= Len(after[e].requests)
  /\ \A i \in 1..(n - d) : after[e].requests[i] = objects[e].requests[i + d]

\* Goroutine g has no admission in or behind place p.
Behind(t, adm, slot, g, p) ==
  \A i \in 1..Len(adm) : Recent(t, adm[i]) /\ slot[i][1] = g => slot[i][2] < p

LEMMA Trimmed ==
  ASSUME NEW t \in Int, NEW objects, NEW after, NEW adm \in Seq(Int), NEW slot,
         NEW S, NEW E, NEW own, NEW e \in E, Alone(own, e, E),
         Spread(t, objects, adm, slot, S, E, own),
         NEW n, NEW d, Dropped(t, objects, after, e, E, n, d)
  PROVE  LET moved == Moved(t, adm, slot, d, own[e])
         IN  /\ Spread(t, after, adm, moved, S, E, own)
             /\ \A i \in 1..Len(adm) : moved[i][1] = slot[i][1]
             /\ Behind(t, adm, moved, own[e], n - d + 1)
<1>0. /\ \A f \in E : own[f] = own[e] => f = e
      /\ \A f \in E : f # e => after[f].requests = objects[f].requests
      /\ n \in Nat /\ Len(objects[e].requests) = n /\ d \in 0..n
      /\ \A i \in 1..n : Recent(t, objects[e].requests[i]) <=> i > d
      /\ Len(after[e].requests) \in Nat /\ n - d <= Len(after[e].requests)
      /\ \A i \in 1..(n - d) : after[e].requests[i] = objects[e].requests[i + d]
  BY DEF Alone, Dropped
<1> USE <1>0
<1> DEFINE m == Len(after[e].requests)
            g == own[e]
           moved == Moved(t, adm, slot, d, g)
           mine(i) == Recent(t, adm[i]) /\ slot[i][1] = g
<1>1. /\ \A i \in 1..Len(adm) : slot[i] \in S \X (1..EntryLimit)
      /\ \A i \in 1..Len(adm) : slot[i] = <<slot[i][1], slot[i][2]>>
                                /\ slot[i][1] \in S /\ slot[i][2] \in 1..EntryLimit
  <2>1. slot \in [1..Len(adm) -> S \X (1..EntryLimit)] BY DEF Spread
  <2>2. \A x \in S \X (1..EntryLimit) :
          x = <<x[1], x[2]>> /\ x[1] \in S /\ x[2] \in 1..EntryLimit
    OBVIOUS
  <2>3. \A i \in 1..Len(adm) : slot[i] \in S \X (1..EntryLimit) BY <2>1
  <2> QED BY <2>2, <2>3
<1>2. EntryLimit \in Nat BY EntryLimitIsNat
<1>3. ASSUME NEW i \in 1..Len(adm), mine(i)
      PROVE  /\ slot[i][2] \in 1..n /\ slot[i][2] > d
             /\ slot[i][2] - d \in 1..(n - d) /\ slot[i][2] - d \in 1..EntryLimit
             /\ after[e].requests[slot[i][2] - d] = adm[i]
  <2>1. slot[i][2] <= n /\ objects[e].requests[slot[i][2]] = adm[i]
    BY <1>3 DEF Spread
  <2>2. slot[i][2] \in 1..n BY <1>1, <1>2, <2>1
  <2>3. slot[i][2] > d BY <1>3, <2>1, <2>2
  <2>4. slot[i][2] - d \in 1..(n - d) /\ slot[i][2] - d + d = slot[i][2]
    <3>1. \A x, y, z \in Nat : y <= x /\ x <= z /\ y < x =>
            x - y \in 1..(z - y) /\ x - y + y = x
      OBVIOUS
    <3>2. slot[i][2] \in Nat /\ slot[i][2] <= n /\ d \in Nat /\ n \in Nat
      BY <2>2
    <3>3. d < slot[i][2] /\ d <= slot[i][2] BY <2>3, <3>2
    <3> QED BY <3>1, <3>2, <3>3
  <2>5. slot[i][2] - d \in 1..EntryLimit BY <1>1, <1>2, <2>2, <2>3
  <2> QED BY <2>1, <2>2, <2>3, <2>4, <2>5
<1>4. \A i \in 1..Len(adm) :
        moved[i] = IF mine(i) THEN <<g, slot[i][2] - d>> ELSE slot[i]
  BY DEF Moved
<1>5. ASSUME NEW i \in 1..Len(adm)
      PROVE  /\ moved[i][1] = slot[i][1]
             /\ mine(i) => moved[i][2] = slot[i][2] - d
             /\ ~mine(i) => moved[i] = slot[i]
  <2> HIDE DEF moved, g
  <2>1. CASE mine(i)
    <3>1. moved[i] = <<g, slot[i][2] - d>> BY <1>4, <2>1
    <3>2. moved[i][1] = g /\ moved[i][2] = slot[i][2] - d BY <3>1
    <3> QED BY <2>1, <3>2
  <2>2. CASE ~mine(i) BY <1>4, <2>2
  <2> QED BY <2>1, <2>2
<1>6. moved \in [1..Len(adm) -> S \X (1..EntryLimit)]
  <2>1. ASSUME NEW i \in 1..Len(adm) PROVE moved[i] \in S \X (1..EntryLimit)
    <3>1. CASE mine(i)
      <4>1. g \in S BY <1>1, <3>1
      <4>2. moved[i] = <<g, slot[i][2] - d>> BY <1>4, <3>1
      <4> QED BY <1>3, <3>1, <4>1, <4>2
    <3>2. CASE ~mine(i) BY <1>1, <1>4, <3>2
    <3> QED BY <3>1, <3>2
  <2>2. moved = [i \in 1..Len(adm) |-> moved[i]] BY DEF Moved
  <2> HIDE DEF moved
  <2> QED BY <2>1, <2>2
<1> HIDE DEF moved
<1>7. ASSUME NEW i \in 1..Len(adm), NEW j \in 1..Len(adm),
             Recent(t, adm[i]), Recent(t, adm[j]), moved[i] = moved[j]
      PROVE  i = j
  <2>1. slot[i][1] = slot[j][1] BY <1>5, <1>7
  <2>2. mine(i) <=> mine(j) BY <1>7, <2>1
  <2>3. CASE ~mine(i) BY <1>5, <1>7, <2>2, <2>3 DEF Spread
  <2>4. CASE mine(i)
    <3>0. mine(i) /\ mine(j) BY <2>2, <2>4
    <3>1. slot[i][2] - d = slot[j][2] - d
      <4>1. moved[i][2] = slot[i][2] - d /\ moved[j][2] = slot[j][2] - d
        BY <1>5, <3>0
      <4> QED BY <1>7, <4>1
    <3>2. slot[i][2] \in Int /\ slot[j][2] \in Int /\ d \in Int BY <1>1, <1>2
    <3>3. slot[i][2] = slot[j][2]
      <4>1. \A x, y, z \in Int : x - z = y - z => x = y OBVIOUS
      <4> QED BY <3>1, <3>2, <4>1
    <3>4. slot[i] = slot[j] BY <1>1, <2>1, <3>3
    <3> QED BY <1>7, <3>4 DEF Spread
  <2> QED BY <2>3, <2>4
<1>8. ASSUME NEW i \in 1..Len(adm), NEW f \in E,
             Recent(t, adm[i]), moved[i][1] = own[f]
      PROVE  /\ moved[i][2] <= Len(after[f].requests)
             /\ after[f].requests[moved[i][2]] = adm[i]
  <2>1. slot[i][1] = own[f] BY <1>5, <1>8
  <2>2. CASE f = e
    <3>1. mine(i) BY <1>8, <2>1, <2>2
    <3>2. moved[i][2] = slot[i][2] - d BY <1>5, <3>1
    <3>3. slot[i][2] - d \in 1..(n - d) /\ after[e].requests[slot[i][2] - d] = adm[i]
      BY <1>3, <3>1
    <3>4. slot[i][2] - d <= m BY <3>3
    <3> QED BY <2>2, <3>2, <3>3, <3>4
  <2>3. CASE f # e
    <3>1. ~mine(i) BY <2>1, <2>3
    <3>2. moved[i] = slot[i] BY <1>5, <3>1
    <3>3. /\ slot[i][2] <= Len(objects[f].requests)
          /\ objects[f].requests[slot[i][2]] = adm[i]
      BY <1>8, <2>1 DEF Spread
    <3> QED BY <2>3, <3>2, <3>3
  <2> QED BY <2>2, <2>3
<1>9. Spread(t, after, adm, moved, S, E, own) BY <1>6, <1>7, <1>8 DEF Spread
<1>10. ASSUME NEW i \in 1..Len(adm), Recent(t, adm[i]), moved[i][1] = g
       PROVE  moved[i][2] < n - d + 1
  <2>1. mine(i) BY <1>5, <1>10
  <2>2. moved[i][2] = slot[i][2] - d BY <1>5, <2>1
  <2> QED BY <1>3, <2>1, <2>2
<1> QED BY <1>5, <1>9, <1>10 DEF moved, Behind

\* An admission: what is left of the window, and one more, in the place behind
\* the last of the entry.
Extended(adm, slot, c, g, p) ==
  [i \in 1..(Len(adm) - c + 1) |->
     IF i <= Len(adm) - c THEN slot[i + c] ELSE <<g, p>>]

Lengthened(t, adm, longer, c) ==
  /\ c \in 0..Len(adm) /\ \A i \in 1..Len(adm) : Recent(t, adm[i]) <=> i > c
  /\ longer \in Seq(Int) /\ Len(longer) = Len(adm) - c + 1
  /\ \A i \in 1..(Len(adm) - c) : longer[i] = adm[i + c]
  /\ longer[Len(adm) - c + 1] = t

LEMMA Recorded ==
  ASSUME NEW t \in Int, NEW objects, NEW adm \in Seq(Int), NEW slot,
         NEW S, NEW E, NEW own, NEW e \in E, Alone(own, e, E), own[e] \in S,
         Spread(t, objects, adm, slot, S, E, own),
         NEW p \in 1..EntryLimit, Len(objects[e].requests) = p,
         objects[e].requests[p] = t, Behind(t, adm, slot, own[e], p),
         NEW c, NEW longer, Lengthened(t, adm, longer, c)
  PROVE  LET more == Extended(adm, slot, c, own[e], p)
         IN  /\ Spread(t, objects, longer, more, S, E, own)
             /\ \A i, j \in 1..Len(longer) : more[i] = more[j] => i = j
             /\ \A i \in 1..Len(longer) :
                  \/ more[i][1] = own[e]
                  \/ \E j \in 1..Len(adm) :
                       Recent(t, adm[j]) /\ more[i][1] = slot[j][1]
<1>0. /\ \A f \in E : own[f] = own[e] => f = e
      /\ \A i \in 1..Len(adm) :
           Recent(t, adm[i]) /\ slot[i][1] = own[e] => slot[i][2] < p
      /\ c \in 0..Len(adm) /\ \A i \in 1..Len(adm) : Recent(t, adm[i]) <=> i > c
      /\ longer \in Seq(Int) /\ Len(longer) = Len(adm) - c + 1
      /\ \A i \in 1..(Len(adm) - c) : longer[i] = adm[i + c]
      /\ longer[Len(adm) - c + 1] = t
  BY DEF Alone, Behind, Lengthened
<1> USE <1>0
<1> DEFINE k == Len(adm) - c
           x == <<own[e], p>>
           more == Extended(adm, slot, c, own[e], p)
<1>1. Len(adm) \in Nat /\ k \in Nat /\ c \in Nat /\ Len(longer) = k + 1
  BY LenProperties
<1>2. /\ slot \in [1..Len(adm) -> S \X (1..EntryLimit)]
      /\ \A i \in 1..Len(adm) : slot[i] \in S \X (1..EntryLimit)
  BY DEF Spread
<1>3. x \in S \X (1..EntryLimit) /\ x[1] = own[e] /\ x[2] = p OBVIOUS
<1>4. more = [i \in 1..(k + 1) |-> IF i <= k THEN slot[i + c] ELSE x]
  BY DEF Extended
<1> HIDE DEF k, x, more
<1>5. \A i \in 1..(k + 1) : i <= k => /\ i \in 1..k /\ i + c \in 1..Len(adm)
                                      /\ i + c > c
  BY <1>1 DEF k
<1>6. ASSUME NEW i \in 1..(k + 1)
      PROVE  /\ i <= k => /\ more[i] = slot[i + c] /\ longer[i] = adm[i + c]
                          /\ Recent(t, adm[i + c])
             /\ ~(i <= k) => more[i] = x /\ longer[i] = t /\ i = k + 1
  <2>1. CASE i <= k
    <3>1. i \in 1..k /\ i + c \in 1..Len(adm) /\ i + c > c BY <1>5, <2>1
    <3>2. more[i] = slot[i + c] BY <1>4, <2>1
    <3>3. longer[i] = adm[i + c] BY <3>1 DEF k
    <3>4. Recent(t, adm[i + c]) BY <3>1
    <3> QED BY <2>1, <3>2, <3>3, <3>4
  <2>2. CASE ~(i <= k)
    <3>1. i = k + 1 BY <1>1, <2>2
    <3> QED BY <1>4, <2>2, <3>1 DEF k
  <2> QED BY <2>1, <2>2
<1>7. more \in [1..Len(longer) -> S \X (1..EntryLimit)]
  <2>1. \A i \in 1..(k + 1) : more[i] \in S \X (1..EntryLimit)
    BY <1>2, <1>3, <1>5, <1>6
  <2> QED BY <1>1, <1>4, <2>1
<1>8. ASSUME NEW i \in 1..(k + 1), i <= k PROVE more[i] # x
  <2>1. more[i] = slot[i + c] /\ Recent(t, adm[i + c]) /\ i + c \in 1..Len(adm)
    BY <1>5, <1>6, <1>8
  <2>2. slot[i + c][1] = own[e] => slot[i + c][2] < p BY <2>1
  <2>3. slot[i + c] = x => slot[i + c][1] = own[e] /\ slot[i + c][2] = p
    BY <1>3
  <2>4. ~(p < p) BY EntryLimitIsNat
  <2> QED BY <2>1, <2>2, <2>3, <2>4
<1>9. ASSUME NEW i \in 1..(k + 1), NEW j \in 1..(k + 1), more[i] = more[j]
      PROVE  i = j
  <2>1. CASE i <= k /\ j <= k
    <3>1. /\ i + c \in 1..Len(adm) /\ j + c \in 1..Len(adm)
          /\ Recent(t, adm[i + c]) /\ Recent(t, adm[j + c])
          /\ slot[i + c] = slot[j + c]
      BY <1>5, <1>6, <1>9, <2>1
    <3>2. i + c = j + c BY <3>1 DEF Spread
    <3> QED BY <1>1, <3>2
  <2>2. CASE i <= k /\ ~(j <= k) BY <1>6, <1>8, <1>9, <2>2
  <2>3. CASE ~(i <= k) /\ j <= k BY <1>6, <1>8, <1>9, <2>3
  <2>4. CASE ~(i <= k) /\ ~(j <= k) BY <1>6, <2>4
  <2> QED BY <2>1, <2>2, <2>3, <2>4
<1>10. ASSUME NEW i \in 1..(k + 1), NEW f \in E, more[i][1] = own[f]
       PROVE  /\ more[i][2] <= Len(objects[f].requests)
              /\ objects[f].requests[more[i][2]] = longer[i]
  <2>1. CASE i <= k
    <3>1. /\ i + c \in 1..Len(adm) /\ Recent(t, adm[i + c])
          /\ more[i] = slot[i + c] /\ longer[i] = adm[i + c]
      BY <1>5, <1>6, <2>1
    <3>2. slot[i + c][1] = own[f] BY <1>10, <3>1
    <3>3. /\ slot[i + c][2] <= Len(objects[f].requests)
          /\ objects[f].requests[slot[i + c][2]] = adm[i + c]
      BY <3>1, <3>2 DEF Spread
    <3> QED BY <3>1, <3>3
  <2>2. CASE ~(i <= k)
    <3>1. more[i] = x /\ longer[i] = t BY <1>6, <2>2
    <3>2. f = e /\ more[i][2] = p BY <1>3, <1>10, <3>1
    <3>3. p <= p BY EntryLimitIsNat
    <3> QED BY <3>1, <3>2, <3>3
  <2> QED BY <2>1, <2>2
<1>11. Spread(t, objects, longer, more, S, E, own)
  BY <1>1, <1>7, <1>9, <1>10 DEF Spread
<1>12. ASSUME NEW i \in 1..(k + 1)
       PROVE  \/ more[i][1] = own[e]
              \/ \E j \in 1..Len(adm) :
                   Recent(t, adm[j]) /\ more[i][1] = slot[j][1]
  <2>1. CASE i <= k BY <1>5, <1>6, <2>1
  <2>2. CASE ~(i <= k) BY <1>3, <1>6, <2>2
  <2> QED BY <2>1, <2>2
<1> QED BY <1>1, <1>9, <1>11, <1>12 DEF more, x

-----------------------------------------------------------------------------
(* The invariant of the admissions.                                        *)

\* The entries that admissions of key k are counted in: the cached one, and those
\* goroutines still hold.
Hands(k, e) == \E g \in Goroutines : held[g] = e /\ key[g] = k
Live(k) == {e \in Ids : Caches(cache, k, e) \/ Hands(k, e)}
Present(k) == \E e \in Ids : Caches(cache, k, e)

\* Times are recorded in order.
InOrder ==
  /\ \A e \in Ids : /\ Ordered(heap[e].requests)
                    /\ \A i \in 1..Len(heap[e].requests) : heap[e].requests[i] <= now
  /\ admitted \in [Keys -> Seq(Int)]
  /\ \A k \in Keys : /\ Ordered(admitted[k])
                     /\ \A i \in 1..Len(admitted[k]) : admitted[k][i] <= now

\* An evicted key has no admissions; nor has one that was never added, and nobody
\* holds an entry of it.
Founded ==
  \A k \in Keys :
    /\ k \in evicted => admitted[k] = << >>
    /\ k \notin evicted /\ ~Present(k) => Live(k) = {} /\ admitted[k] = << >>

\* The entries of a key have different creators, and a goroutine that is about to
\* create one has created none.
Creates(g, k) == pc[g] = "add" /\ key[g] = k
Created(own) ==
  \A k \in Keys \ evicted :
    /\ \A e \in Live(k) : own[e] \in Serve(k, Methods)
    /\ \A e, f \in Live(k) : own[e] = own[f] => e = f
    /\ \A g \in Goroutines : Creates(g, k) => \A e \in Live(k) : own[e] # g

Slots(own) ==
  \A k \in Keys \ evicted : \E slot :
    /\ Spread(now, heap, admitted[k], slot, Serve(k, Methods), Live(k), own)
    /\ \A g \in Goroutines : Creates(g, k) =>
         \A i \in 1..Len(admitted[k]) :
           Recent(now, admitted[k][i]) => slot[i][1] # g

Ledger ==
  /\ InOrder /\ Founded /\ OverrunBounded
  /\ \E own : Created(own) /\ Slots(own)

LEMMA ServeIsFinite ==
  ASSUME NEW k
  PROVE  /\ IsFiniteSet(Serve(k, Methods))
         /\ Cardinality(Serve(k, Methods)) \in Nat
<1>1. Serve(k, Methods) \in SUBSET Goroutines BY DEF Serve
<1> QED BY <1>1, IdsAssumption, FS_Subset, FS_CardinalityType

LEMMA LedgerStarts == Init => Ledger
<1> SUFFICES ASSUME Init PROVE Ledger OBVIOUS
<1>1. << >> \in Seq(Int) /\ Len(<< >>) = 0 BY EmptySeq
<1>2. /\ \A e \in Ids : heap[e].requests = << >>
      /\ admitted \in [Keys -> Seq(Int)] /\ \A k \in Keys : admitted[k] = << >>
      /\ cache = << >> /\ \A g \in Goroutines : held[g] = None
      /\ evicted = {}
  BY <1>1 DEF Init, NewEntry
<1>3. InOrder BY <1>1, <1>2 DEF InOrder, Ordered
<1>4. \A k \in Keys : Live(k) = {}
  BY <1>1, <1>2, NoneAssumption DEF Live, Caches, Hands
<1>5. Founded BY <1>2, <1>4 DEF Founded
<1>6. OverrunBounded
  <2>1. \A k \in Keys : 0 <= EntryLimit * Cardinality(Serve(k, Methods))
    BY ServeIsFinite, EntryLimitIsNat
  <2> QED BY <1>1, <1>2, <2>1 DEF OverrunBounded
<1>7. \A own : Created(own) BY <1>4 DEF Created
<1>8. ASSUME NEW own PROVE Slots(own)
  <2>1. \A k \in Keys : \A S :
         Spread(now, heap, admitted[k], << >>, S, Live(k), own)
    BY <1>1, <1>2, <1>4 DEF Spread
  <2> QED BY <1>1, <1>2, <2>1 DEF Slots
<1> QED BY <1>3, <1>5, <1>6, <1>7, <1>8 DEF Ledger

\* Fewer entries, and fewer recent times, are easier to account for.
LEMMA SpreadLess ==
  ASSUME NEW t \in Int, NEW u \in Int, t <= u, NEW objects, NEW after,
         NEW adm \in Seq(Int), NEW slot, NEW S, NEW E, NEW F \in SUBSET E, NEW own,
         Spread(t, objects, adm, slot, S, E, own),
         \A e \in F : after[e].requests = objects[e].requests
  PROVE  Spread(u, after, adm, slot, S, F, own)
<1>1. \A i \in 1..Len(adm) : Recent(u, adm[i]) => Recent(t, adm[i])
  <2>1. \A i \in 1..Len(adm) : adm[i] \in Int BY ElementOfSeq
  <2>2. \A x \in Int : Recent(u, x) => Recent(t, x)
    BY Constants DEF Recent
  <2> QED BY <2>1, <2>2
<1> QED BY <1>1 DEF Spread

\* Steps that record and create nothing.
LEMMA LedgerFrame ==
  ASSUME IInv, Ledger, now' \in Int, now <= now', UNCHANGED <<evicted, admitted>>,
         \A e \in Ids : heap'[e].requests = heap[e].requests,
         \A k \in Keys : /\ Live(k)' \subseteq Live(k)
                         /\ Present(k) => Present(k)',
         \A g \in Goroutines, k \in Keys :
           Creates(g, k)' => Creates(g, k) \/ ~Present(k)
  PROVE  Ledger'
<1>1. now \in Int /\ now <= now' BY DEF IInv, Typed
<1>2. InOrder'
  <2>1. /\ \A e \in Ids : Ordered(heap'[e].requests)
        /\ \A k \in Keys : Ordered(admitted'[k]) /\ admitted' \in [Keys -> Seq(Int)]
    BY DEF Ledger, InOrder
  <2>2. ASSUME NEW e \in Ids, NEW i \in 1..Len(heap'[e].requests)
        PROVE  heap'[e].requests[i] <= now'
    <3>1. heap[e].requests \in Seq(Int) BY DEF IInv, Typed, Objects
    <3>2. heap[e].requests[i] \in Int BY <2>2, <3>1, ElementOfSeq
    <3>3. heap[e].requests[i] <= now BY <2>2 DEF Ledger, InOrder
    <3> QED BY <1>1, <3>2, <3>3
  <2>3. ASSUME NEW k \in Keys, NEW i \in 1..Len(admitted[k])
        PROVE  admitted[k][i] <= now'
    <3>1. admitted[k] \in Seq(Int) BY DEF Ledger, InOrder
    <3>2. admitted[k][i] \in Int BY <3>1, ElementOfSeq
    <3>3. admitted[k][i] <= now BY DEF Ledger, InOrder
    <3> QED BY <1>1, <3>2, <3>3
  <2> QED BY <2>1, <2>2, <2>3 DEF InOrder, Ledger
<1>3. Founded' BY DEF Ledger, Founded
<1>4. OverrunBounded' BY DEF Ledger, OverrunBounded, Serve
<1>5. PICK own : Created(own) /\ Slots(own) BY DEF Ledger
<1>6. \A k \in Keys \ evicted : ~Present(k) => Live(k) = {} /\ admitted[k] = << >>
  BY DEF Ledger, Founded
<1>7. Created(own)'
  BY <1>5, <1>6 DEF Created, Serve
<1>8. Slots(own)'
  <2> SUFFICES ASSUME NEW k \in Keys \ evicted
               PROVE  \E slot :
                 /\ Spread(now', heap', admitted[k], slot, Serve(k, Methods),
                           Live(k)', own)
                 /\ \A g \in Goroutines : Creates(g, k)' =>
                      \A i \in 1..Len(admitted[k]) :
                        Recent(now', admitted[k][i]) => slot[i][1] # g
    BY DEF Slots, Serve, Spread, Recent
  <2>1. PICK slot :
          /\ Spread(now, heap, admitted[k], slot, Serve(k, Methods), Live(k), own)
          /\ \A g \in Goroutines : Creates(g, k) =>
               \A i \in 1..Len(admitted[k]) :
                 Recent(now, admitted[k][i]) => slot[i][1] # g
    BY <1>5 DEF Slots
  <2>2. admitted[k] \in Seq(Int) BY DEF Ledger, InOrder
  <2>3. Live(k)' \in SUBSET Live(k) /\ Live(k) \subseteq Ids BY DEF Live
  <2>4. Spread(now', heap', admitted[k], slot, Serve(k, Methods), Live(k)', own)
    BY <1>1, <2>1, <2>2, <2>3, SpreadLess
  <2>5. ASSUME NEW g \in Goroutines, Creates(g, k)', NEW i \in 1..Len(admitted[k]),
               Recent(now', admitted[k][i])
        PROVE  slot[i][1] # g
    <3>1. Present(k)
      <4>1. Len(<< >>) = 0 BY EmptySeq
      <4> QED BY <1>6, <2>5, <4>1
    <3>2. Creates(g, k) BY <2>5, <3>1
    <3>3. Recent(now, admitted[k][i])
      <4>1. admitted[k][i] \in Int BY <2>2, ElementOfSeq
      <4> QED BY <1>1, <2>5, <4>1, Constants DEF Recent
    <3> QED BY <2>1, <3>2, <3>3
  <2> QED BY <2>4, <2>5
<1> QED BY <1>2, <1>3, <1>4, <1>7, <1>8 DEF Ledger

\* Such a step of one goroutine.
LEMMA LedgerStep ==
  ASSUME IInv, Ledger, UNCHANGED <<now, evicted, admitted>>, SameCache,
         \A e \in Ids : heap'[e].requests = heap[e].requests,
         NEW g \in Goroutines,
         \A h \in Goroutines \ {g} : Stays(h),
         \/ held'[g] = None
         \/ key'[g] = key[g] /\ held'[g] = held[g]
         \/ key'[g] = key[g] /\ Caches(cache, key[g], held'[g]),
         pc'[g] = "add" => ~Present(key'[g])
  PROVE  Ledger'
<1>1. now \in Int /\ now' = now /\ now <= now' BY DEF IInv, Typed
<1>2. ASSUME NEW k \in Keys PROVE Live(k)' \subseteq Live(k)
  <2> SUFFICES ASSUME NEW e \in Ids, Caches(cache, k, e)' \/ Hands(k, e)'
               PROVE  Caches(cache, k, e) \/ Hands(k, e)
    BY DEF Live
  <2>1. CASE Caches(cache, k, e)' BY <2>1 DEF SameCache
  <2>2. CASE Hands(k, e)'
    <3>1. PICK h \in Goroutines : held'[h] = e /\ key'[h] = k BY <2>2 DEF Hands
    <3>2. CASE h # g BY <3>1, <3>2 DEF Hands, Stays
    <3>3. CASE h = g BY <3>1, <3>3, Constants DEF Hands
    <3> QED BY <3>2, <3>3
  <2> QED BY <2>1, <2>2
<1>3. \A k \in Keys : Present(k) => Present(k)' BY DEF Present, SameCache
<1>4. ASSUME NEW h \in Goroutines, NEW k \in Keys, Creates(h, k)'
      PROVE  Creates(h, k) \/ ~Present(k)
  BY <1>4 DEF Creates, Stays
<1> QED BY <1>1, <1>2, <1>3, <1>4, LedgerFrame

\* The steps that leave the admissions alone.
LEMMA LedgerReturn ==
  ASSUME IInv, Ledger, NEW g \in Goroutines, NEW from, Return(g, from),
         UNCHANGED <<now, cache, evicted, admitted>>,
         \A e \in Ids : heap'[e].requests = heap[e].requests
  PROVE  Ledger'
<1>1. \A h \in Goroutines \ {g} : Stays(h)
  BY DEF IInv, Typed, Stays, Return, Goto
<1>2. held'[g] = None /\ pc'[g] = "idle" BY DEF IInv, Typed, Return, Goto
<1>3. SameCache BY SameCacheIfUnchanged
<1> QED BY <1>1, <1>2, <1>3, LedgerStep

LEMMA LedgerGoesOn ==
  ASSUME IInv, Ledger, NEW g \in Goroutines, NEW from, NEW to, Goto(g, from, to),
         UNCHANGED <<now, cache, op, key, held, evicted, admitted>>,
         until' \in [Goroutines -> Words],
         \A h \in Goroutines \ {g} : until'[h] = until[h],
         \A e \in Ids : heap'[e].requests = heap[e].requests,
         to = "add" => ~Present(key[g])
  PROVE  Ledger'
<1>1. \A h \in Goroutines \ {g} : Stays(h) BY DEF IInv, Typed, Stays, Goto
<1>2. pc'[g] = to BY DEF IInv, Typed, Goto
<1>3. SameCache BY SameCacheIfUnchanged
<1> QED BY <1>1, <1>2, <1>3, LedgerStep

LEMMA PresentIsHeld ==
  ASSUME IInv, NEW k PROVE Present(k) <=> Holds(cache, k)
<1>1. cache \in Seq(Entries) BY DEF IInv, Typed
<1>2. Holds(cache, k) <=> \E e : Caches(cache, k, e) BY <1>1, DomainOfCache
<1>3. \A e : Caches(cache, k, e) => e \in Ids BY <1>1, CachedTypes
<1> QED BY <1>2, <1>3 DEF Present

LEMMA LedgerLookup ==
  ASSUME IInv, Ledger, NEW g \in Goroutines
  PROVE  /\ \A o \in Methods, k \in Keys, l \in Limits : Call(g, o, k, l) => Ledger'
         /\ CacheHit(g) => Ledger'
         /\ CacheMiss(g) => Ledger'
<1>1. ASSUME NEW o \in Methods, NEW k \in Keys, NEW l \in Limits, Call(g, o, k, l)
      PROVE  Ledger'
  <2>1. \A h \in Goroutines \ {g} : Stays(h)
    BY <1>1 DEF IInv, Typed, Stays, Call, Goto
  <2>2. pc[g] = "idle" /\ pc'[g] = "get" BY <1>1 DEF IInv, Typed, Call, Goto
  <2>3. held'[g] = None BY <1>1, <2>2 DEF IInv, InMethod, Call, Outside
  <2>4. UNCHANGED <<now, cache, heap, evicted, admitted>> BY <1>1 DEF Call, mem
  <2>5. SameCache BY <2>4, SameCacheIfUnchanged
  <2> QED BY <2>1, <2>2, <2>3, <2>4, <2>5, LedgerStep
<1>2. ASSUME CacheHit(g) PROVE Ledger'
  <2>1. \A h \in Goroutines \ {g} : Stays(h)
    BY <1>2 DEF IInv, Typed, Stays, CacheHit, Goto
  <2>2. cache \in Seq(Entries) /\ Distinct(cache) BY DEF IInv, Typed
  <2>3. Holds(cache, key[g]) /\ cache' = Used(cache, key[g])
    BY <1>2 DEF CacheHit
  <2>4. SameCache
    <3>1. \A l, f : Caches(cache', l, f) <=> Caches(cache, l, f)
      BY <2>2, <2>3, UsedFacts
    <3> QED BY <3>1 DEF SameCache, Caches
  <2>5. Caches(cache, key[g], EntryOf(cache, key[g])) BY <2>2, <2>3, EntryOfFacts
  <2>6. held'[g] = EntryOf(cache, key[g]) /\ key' = key
    BY <1>2 DEF IInv, Typed, CacheHit
  <2>7. pc'[g] # "add"
    <3>1. pc'[g] = Body(g) BY <1>2 DEF IInv, Typed, CacheHit, Goto
    <3> QED BY <3>1 DEF Body
  <2>8. UNCHANGED <<now, heap, evicted, admitted>> BY <1>2 DEF CacheHit, history
  <2> QED BY <2>1, <2>4, <2>5, <2>6, <2>7, <2>8, LedgerStep
<1>3. ASSUME CacheMiss(g) PROVE Ledger'
  <2>1. UNCHANGED <<now, cache, heap, evicted, admitted>>
    BY <1>3 DEF CacheMiss, mem, history
  <2>2. CASE Return(g, "get") BY <2>1, <2>2, LedgerReturn
  <2>3. CASE Goto(g, "get", "add") /\ UNCHANGED call
    <3>1. ~Present(key[g]) BY <1>3, PresentIsHeld DEF CacheMiss
    <3>2. UNCHANGED <<op, key, held, until>> BY <2>3 DEF call
    <3>3. until' \in [Goroutines -> Words] BY <3>2 DEF IInv, Typed
    <3> QED BY <2>1, <2>3, <3>1, <3>2, <3>3, LedgerGoesOn
  <2> QED BY <1>3, <2>2, <2>3 DEF CacheMiss
<1> QED BY <1>1, <1>2, <1>3

LEMMA LedgerOthers ==
  ASSUME IInv, IInv', Ledger, NEW g \in Goroutines,
         \/ RefuseBlocked(g) \/ PassBlockCheck(g) \/ Violate(g) \/ Read(g)
         \/ ComputeDeadline(g) \/ StoreFirstWord(g) \/ StoreSecondWord(g)
         \/ BlockReturns(g) \/ ClearViolations(g)
  PROVE  Ledger'
<1>1. until' \in [Goroutines -> Words] /\ heap \in [Ids -> Objects]
  BY DEF IInv, Typed
<1>2. ASSUME NEW e, UNCHANGED heap PROVE heap'[e].requests = heap[e].requests
  BY <1>2
<1>3. CASE RefuseBlocked(g)
  BY <1>3, LedgerReturn DEF RefuseBlocked, mem, history
<1>4. CASE PassBlockCheck(g)
  BY <1>1, <1>4, LedgerGoesOn DEF PassBlockCheck, mem, call, history
<1>5. CASE Read(g)
  BY <1>5, LedgerReturn DEF Read, mem, history
<1>6. CASE BlockReturns(g)
  BY <1>6, LedgerReturn DEF BlockReturns, mem
<1>7. CASE Violate(g)
  <2>1. \A e \in Ids : heap'[e].requests = heap[e].requests
    BY <1>1, <1>7 DEF Violate, Objects
  <2>2. Return(g, "violate") /\ UNCHANGED <<now, cache, evicted, admitted>>
    BY <1>7 DEF Violate, history
  <2> QED BY <2>1, <2>2, LedgerReturn
<1>8. CASE ClearViolations(g)
  <2>1. \A e \in Ids : heap'[e].requests = heap[e].requests
    BY <1>1, <1>8 DEF ClearViolations, Objects
  <2>2. Return(g, "clear") /\ UNCHANGED <<now, cache, evicted, admitted>>
    BY <1>8 DEF ClearViolations, history
  <2> QED BY <2>1, <2>2, LedgerReturn
<1>9. CASE ComputeDeadline(g)
  <2>1. \A h \in Goroutines \ {g} : until'[h] = until[h]
    BY <1>9 DEF ComputeDeadline, IInv, Typed
  <2>2. /\ Goto(g, "deadline", "store")
        /\ UNCHANGED <<now, cache, heap, op, key, held, evicted, admitted>>
    BY <1>9 DEF ComputeDeadline, mem, history
  <2> QED BY <1>1, <2>1, <2>2, LedgerGoesOn
<1>10. CASE StoreFirstWord(g) \/ StoreSecondWord(g)
  <2>1. PICK from \in {"store", "storeExt", "storeWall"},
             to \in {"storeExt", "storeWall", "clear", "blocked"} : Goto(g, from, to)
    BY <1>10 DEF StoreFirstWord, StoreSecondWord
  <2>2. \/ heap' = [heap EXCEPT ![held[g]].blockedUntil.wall = until[g].wall]
        \/ heap' = [heap EXCEPT ![held[g]].blockedUntil.ext = until[g].ext]
    BY <1>10 DEF StoreFirstWord, StoreSecondWord
  <2>3. ASSUME NEW e \in Ids PROVE heap'[e].requests = heap[e].requests
    <3>1. heap[e] \in [requests : Seq(Int), blockedUntil : Words,
                       violations : {0, 1}]
      BY <1>1 DEF Objects
    <3>2. CASE heap' = [heap EXCEPT ![held[g]].blockedUntil.wall = until[g].wall]
      BY <1>1, <3>1, <3>2
    <3>3. CASE heap' = [heap EXCEPT ![held[g]].blockedUntil.ext = until[g].ext]
      BY <1>1, <3>1, <3>3
    <3> QED BY <2>2, <3>2, <3>3
  <2>4. UNCHANGED <<now, cache, op, key, held, until, evicted, admitted>>
    BY <1>10 DEF StoreFirstWord, StoreSecondWord, call, history
  <2> QED BY <1>1, <2>1, <2>3, <2>4, LedgerGoesOn
<1> QED BY <1>3, <1>4, <1>5, <1>6, <1>7, <1>8, <1>9, <1>10

LEMMA LedgerTick == ASSUME IInv, Ledger, Tick \/ UNCHANGED vars PROVE Ledger'
<1>1. now' \in Int /\ now <= now'
  BY DEF IInv, Typed, Tick, vars
<1>2. UNCHANGED <<cache, heap, held, key, pc, evicted, admitted>>
  BY DEF Tick, vars, mem, call, history
<1>3. \A k \in Keys : Live(k)' \subseteq Live(k) /\ (Present(k) => Present(k)')
  BY <1>2 DEF Live, Present, Caches, Hands
<1>4. \A g \in Goroutines, k \in Keys : Creates(g, k)' => Creates(g, k)
  BY <1>2 DEF Creates
<1> QED BY <1>1, <1>2, <1>3, <1>4, LedgerFrame

\* A new entry is its goroutine's first of the key since the key was last evicted,
\* so that the goroutine's slots are free.
LEMMA LedgerAdd ==
  ASSUME IInv, Ledger, NEW g \in Goroutines, CacheAdd(g)
  PROVE  Ledger'
<1>1. PICK id \in Ids \ Reachable :
        LET lost == {k \in Keys : Holds(cache, k) /\ ~Holds(cache', k)}
        IN  /\ Goto(g, "add", Body(g))
            /\ heap' = [i \in Ids |-> IF i \in Reachable THEN heap[i] ELSE NewEntry]
            /\ cache' = Added(cache, key[g], id, Capacity)
            /\ held' = [held EXCEPT ![g] = id]
            /\ evicted' = evicted \cup lost
            /\ admitted' = [k \in Keys |->
                              IF k \in lost THEN << >> ELSE admitted[k]]
            /\ UNCHANGED <<now, op, key, limit, until>>
  BY DEF CacheAdd
<1> DEFINE lost == {k \in Keys : Holds(cache, k) /\ ~Holds(cache', k)}
<1>2. /\ heap' = [i \in Ids |-> IF i \in Reachable THEN heap[i] ELSE NewEntry]
      /\ cache' = Added(cache, key[g], id, Capacity)
      /\ held' = [held EXCEPT ![g] = id]
      /\ evicted' = evicted \cup lost
      /\ admitted' = [k \in Keys |-> IF k \in lost THEN << >> ELSE admitted[k]]
      /\ UNCHANGED <<now, op, key>>
  BY <1>1
<1>3. /\ cache \in Seq(Entries) /\ Distinct(cache) /\ Len(cache) <= Capacity
      /\ held \in [Goroutines -> Ids \cup {None}] /\ now \in Int
      /\ pc \in [Goroutines -> Steps]
  BY DEF IInv, Typed
<1>4. pc[g] = "add" /\ pc' = [pc EXCEPT ![g] = Body(g)]
  BY <1>1 DEF Goto
<1>5. Body(g) # "add" BY DEF Body
<1>6. key[g] \in Keys /\ g \in Serve(key[g], Methods)
  <2>1. key[g] \in Keys /\ <<g, key[g], op[g]>> \in Serves
    BY <1>4 DEF IInv, InMethod
  <2> QED BY <2>1, ServesAssumption DEF Serve
<1>7. /\ \A l, e : Caches(cache, l, e) => e \in Reachable
      /\ \A l : ~Caches(cache, l, id)
      /\ \A h \in Goroutines : held[h] \in Reachable /\ held[h] # id
  <2>1. ASSUME NEW l, NEW e, Caches(cache, l, e) PROVE e \in Reachable
    <3>1. PICK i \in 1..Len(cache) : cache[i] = [key |-> l, entry |-> e]
      BY <2>1 DEF Caches
    <3>2. cache[i].entry = e /\ i \in DOMAIN cache
      BY <1>3, <3>1, DomainOfCache
    <3> QED BY <3>2 DEF Reachable
  <2>2. \A h \in Goroutines : held[h] \in Reachable BY DEF Reachable
  <2> QED BY <2>1, <2>2
<1>8. /\ cache' \in Seq(Entries) /\ Caches(cache', key[g], id)
      /\ \A l, f : Caches(cache', l, f) =>
           (l = key[g] /\ f = id) \/ (l # key[g] /\ Caches(cache, l, f))
  BY <1>2, <1>3, <1>6, <1>7, Constants, AddedFacts
<1>9. \A l, f : Caches(cache, l, f)' <=> Caches(cache', l, f) BY DEF Caches
<1>10. /\ \A k : Holds(cache, k) <=> Present(k)
       /\ \A k : Holds(cache', k) <=> Present(k)'
  <2>1. \A k : Holds(cache', k) <=> \E e : Caches(cache', k, e)
    BY <1>8, DomainOfCache
  <2>2. \A k, e : Caches(cache', k, e) => e \in Ids BY <1>8, CachedTypes
  <2>3. \A k : Present(k)' <=> \E e \in Ids : Caches(cache', k, e)
    BY <1>9 DEF Present
  <2>4. \A k : Holds(cache, k) <=> Present(k) BY PresentIsHeld
  <2> QED BY <2>1, <2>2, <2>3, <2>4
<1>11. /\ \A k \in Keys : \A e \in Live(k) : e \in Reachable /\ e # id
       /\ \A k \in Keys : \A e \in Live(k)' :
            \/ e \in Live(k)
            \/ e = id /\ k = key[g]
  <2>1. ASSUME NEW k \in Keys, NEW e \in Live(k) PROVE e \in Reachable /\ e # id
    BY <1>7, <2>1 DEF Live, Hands
  <2>2. ASSUME NEW k \in Keys, NEW e \in Live(k)'
        PROVE  e \in Live(k) \/ (e = id /\ k = key[g])
    <3>1. e \in Ids /\ (Caches(cache', k, e) \/ Hands(k, e)')
      BY <1>9 DEF Live
    <3>2. CASE Caches(cache', k, e) BY <1>8, <3>1, <3>2 DEF Live
    <3>3. CASE Hands(k, e)'
      <4>1. PICK h \in Goroutines : held'[h] = e /\ key[h] = k
        BY <1>2, <3>3 DEF Hands
      <4>2. CASE h = g BY <1>2, <1>3, <4>1, <4>2
      <4>3. CASE h # g BY <1>2, <3>1, <4>1, <4>3 DEF Live, Hands
      <4> QED BY <4>2, <4>3
    <3> QED BY <3>1, <3>2, <3>3
  <2> QED BY <2>1, <2>2
<1>12. \A k \in Keys \ lost : admitted'[k] = admitted[k] BY <1>2
<1>13. \A k \in Keys \cap lost : admitted'[k] = << >> BY <1>2
<1>14. /\ \A e \in Ids \cap Reachable : heap'[e].requests = heap[e].requests
       /\ \A e \in Ids \ Reachable : heap'[e].requests = << >>
  <2>1. NewEntry.requests = << >> BY DEF NewEntry
  <2> QED BY <1>2, <2>1
<1>15. key[g] \notin lost BY <1>8, <1>10, DomainOfCache
<1>16. \A k \in Keys \ lost : Present(k) => Present(k)' BY <1>10
<1> HIDE DEF lost
<1>17. << >> \in Seq(Int) /\ Len(<< >>) = 0 BY EmptySeq
<1>18. InOrder'
  <2>1. ASSUME NEW e \in Ids
        PROVE  /\ Ordered(heap'[e].requests)
               /\ \A i \in 1..Len(heap'[e].requests) : heap'[e].requests[i] <= now
    <3>1. CASE e \in Reachable BY <1>14, <3>1 DEF Ledger, InOrder
    <3>2. CASE e \notin Reachable BY <1>14, <1>17, <3>2 DEF Ordered
    <3> QED BY <3>1, <3>2
  <2>2. ASSUME NEW k \in Keys
        PROVE  /\ Ordered(admitted'[k]) /\ admitted'[k] \in Seq(Int)
               /\ \A i \in 1..Len(admitted'[k]) : admitted'[k][i] <= now
    <3>1. CASE k \in lost
      <4>1. Ordered(<< >>) BY <1>17 DEF Ordered
      <4>2. admitted'[k] = << >> BY <1>13, <3>1
      <4> QED BY <1>17, <4>1, <4>2
    <3>2. CASE k \notin lost BY <1>12, <3>2 DEF Ledger, InOrder
    <3> QED BY <3>1, <3>2
  <2>3. admitted' \in [Keys -> Seq(Int)] BY <1>2, <2>2
  <2> QED BY <1>2, <2>1, <2>2, <2>3 DEF InOrder, Ordered
<1>19. Founded'
  <2>1. ASSUME NEW k \in Keys, k \in evicted' PROVE admitted'[k] = << >>
    BY <1>2, <1>12, <1>13, <2>1 DEF Ledger, Founded
  <2>2. ASSUME NEW k \in Keys, k \notin evicted', ~Present(k)'
        PROVE  Live(k)' = {} /\ admitted'[k] = << >>
    <3>1. k \notin evicted /\ k \notin lost BY <1>2, <2>2
    <3>2. k # key[g]
      <4>1. k = key[g] => Present(k)' BY <1>8, <1>9 DEF Present
      <4> QED BY <2>2, <4>1
    <3>3. ~Present(k) BY <1>16, <2>2, <3>1
    <3>4. Live(k) = {} /\ admitted[k] = << >>
      BY <3>1, <3>3 DEF Ledger, Founded
    <3> QED BY <1>11, <1>12, <3>1, <3>2, <3>4
  <2> QED BY <2>1, <2>2 DEF Founded
<1>20. OverrunBounded'
  <2> SUFFICES ASSUME NEW k \in Keys
               PROVE  Len(admitted'[k]) <= EntryLimit * Cardinality(Serve(k, Methods))
    BY DEF OverrunBounded, Serve
  <2>1. CASE k \in lost
    <3>1. 0 <= EntryLimit * Cardinality(Serve(k, Methods))
      BY ServeIsFinite, EntryLimitIsNat
    <3> QED BY <1>13, <1>17, <2>1, <3>1
  <2>2. CASE k \notin lost BY <1>12, <2>2 DEF Ledger, OverrunBounded
  <2> QED BY <2>1, <2>2
<1>21. PICK own : Created(own) /\ Slots(own) BY DEF Ledger
<1> DEFINE owns == [e \in Ids |-> IF e = id THEN g ELSE own[e]]
<1>22. ASSUME NEW k \in Keys, NEW e \in Live(k)'
       PROVE  \/ e \in Live(k) /\ owns[e] = own[e]
              \/ e = id /\ k = key[g] /\ owns[e] = g
  <2>1. e \in Ids BY DEF Live
  <2> QED BY <1>11, <2>1
<1> HIDE DEF owns
<1>23. ASSUME NEW k \in Keys, NEW h \in Goroutines, Creates(h, k)'
       PROVE  Creates(h, k) /\ h # g
  BY <1>2, <1>3, <1>4, <1>5, <1>23 DEF Creates
<1>24. Creates(g, key[g]) BY <1>4 DEF Creates
<1>25. Created(owns)'
  <2> SUFFICES ASSUME NEW k \in Keys, k \notin evicted
               PROVE  /\ \A e \in Live(k)' : owns[e] \in Serve(k, Methods)
                      /\ \A e, f \in Live(k)' : owns[e] = owns[f] => e = f
                      /\ \A h \in Goroutines : Creates(h, k)' =>
                           \A e \in Live(k)' : owns[e] # h
    BY <1>2 DEF Created, Serve
  <2>1. /\ \A e \in Live(k) : own[e] \in Serve(k, Methods)
        /\ \A e, f \in Live(k) : own[e] = own[f] => e = f
        /\ \A h \in Goroutines : Creates(h, k) => \A e \in Live(k) : own[e] # h
    BY <1>21 DEF Created
  <2>2. k = key[g] => \A e \in Live(k) : own[e] # g BY <1>24, <2>1
  <2> HIDE DEF Creates, Live
  <2>3. \A e \in Live(k)' : owns[e] \in Serve(k, Methods)
    BY <1>6, <1>22, <2>1
  <2>4. \A e, f \in Live(k)' : owns[e] = owns[f] => e = f
    BY <1>22, <2>1, <2>2
  <2>5. ASSUME NEW h \in Goroutines, Creates(h, k)', NEW e \in Live(k)'
        PROVE  owns[e] # h
    BY <1>22, <1>23, <2>1, <2>5
  <2> QED BY <2>3, <2>4, <2>5
<1>26. Slots(owns)'
  <2> SUFFICES ASSUME NEW k \in Keys, k \notin evicted'
               PROVE  \E slot :
                 /\ Spread(now', heap', admitted'[k], slot, Serve(k, Methods),
                           Live(k)', owns)
                 /\ \A h \in Goroutines : Creates(h, k)' =>
                      \A i \in 1..Len(admitted'[k]) :
                        Recent(now', admitted'[k][i]) => slot[i][1] # h
    BY DEF Slots, Serve, Spread, Recent
  <2>0. k \notin evicted /\ now' = now /\ admitted'[k] = admitted[k]
    BY <1>2, <1>12
  <2>1. PICK slot :
          /\ Spread(now, heap, admitted[k], slot, Serve(k, Methods), Live(k), own)
          /\ \A h \in Goroutines : Creates(h, k) =>
               \A i \in 1..Len(admitted[k]) :
                 Recent(now, admitted[k][i]) => slot[i][1] # h
    BY <1>21, <2>0 DEF Slots
  <2>2. ASSUME NEW i \in 1..Len(admitted[k]), NEW e \in Live(k)',
               Recent(now, admitted[k][i]), slot[i][1] = owns[e]
        PROVE  /\ slot[i][2] <= Len(heap'[e].requests)
               /\ heap'[e].requests[slot[i][2]] = admitted[k][i]
    <3>1. e \in Live(k) /\ owns[e] = own[e] BY <1>22, <1>24, <2>1, <2>2
    <3>2. heap'[e].requests = heap[e].requests
      <4>1. e \in Ids \cap Reachable BY <1>11, <3>1 DEF Live
      <4> QED BY <1>14, <4>1
    <3> QED BY <2>1, <2>2, <3>1, <3>2 DEF Spread
  <2>3. Spread(now, heap', admitted[k], slot, Serve(k, Methods), Live(k)', owns)
    BY <2>1, <2>2 DEF Spread
  <2>4. \A h \in Goroutines : Creates(h, k)' =>
          \A i \in 1..Len(admitted[k]) :
            Recent(now, admitted[k][i]) => slot[i][1] # h
    BY <1>23, <2>1
  <2> QED BY <2>0, <2>3, <2>4
<1> QED BY <1>18, <1>19, <1>20, <1>25, <1>26 DEF Ledger

\* The window of times in order, and the times after an admission, are in order.
Past(times) == Ordered(times) /\ \A i \in 1..Len(times) : times[i] <= now

LEMMA PastWindow ==
  ASSUME now \in Int, NEW times \in Seq(Int), Past(times)
  PROVE  /\ InWindow(times) \in Seq(Int) /\ Past(InWindow(times))
         /\ Append(InWindow(times), now) \in Seq(Int)
         /\ Past(Append(InWindow(times), now))
<1> DEFINE kept == InWindow(times)
           more == Append(kept, now)
<1>1. PICK d \in 0..Len(times) :
        /\ kept \in Seq(Int) /\ Len(kept) = Len(times) - d
        /\ \A i \in 1..(Len(times) - d) : kept[i] = times[i + d]
  BY InWindowOrdered DEF Past
<1> HIDE DEF kept
<1>2. Len(times) \in Nat /\ Len(kept) \in Nat BY <1>1, LenProperties
<1>3. \A i \in 1..Len(kept) : i + d \in 1..Len(times) BY <1>1, <1>2
<1>4. Past(kept)
  <2>1. Ordered(kept)
    <3> SUFFICES ASSUME NEW i \in 1..Len(kept), NEW j \in 1..Len(kept), i <= j
                 PROVE  kept[i] <= kept[j]
      BY DEF Ordered
    <3>1. i + d <= j + d BY <1>2
    <3>2. times[i + d] <= times[j + d] BY <1>3, <3>1 DEF Past, Ordered
    <3> QED BY <1>1, <3>2
  <2> QED BY <1>1, <1>3, <2>1 DEF Past
<1>5. /\ more \in Seq(Int) /\ Len(more) = Len(kept) + 1
      /\ \A i \in 1..Len(kept) : more[i] = kept[i]
      /\ more[Len(kept) + 1] = now
  BY <1>1, AppendProperties
<1> HIDE DEF more
<1>6. \A i \in 1..Len(more) : \/ i \in 1..Len(kept) /\ more[i] = kept[i]
                              \/ i = Len(kept) + 1 /\ more[i] = now
  BY <1>2, <1>5
<1>7. \A i \in 1..Len(more) : more[i] <= now
  BY <1>4, <1>6 DEF Past
<1>8. Ordered(more)
  <2> SUFFICES ASSUME NEW i \in 1..Len(more), NEW j \in 1..Len(more), i <= j
               PROVE  more[i] <= more[j]
    BY DEF Ordered
  <2>1. CASE j = Len(kept) + 1 BY <1>5, <1>7, <2>1
  <2>2. CASE j # Len(kept) + 1
    <3>1. j \in 1..Len(kept) /\ i \in 1..Len(kept) BY <1>2, <1>5, <2>2
    <3> QED BY <1>4, <1>5, <3>1 DEF Past, Ordered
  <2> QED BY <2>1, <2>2
<1> QED BY <1>1, <1>4, <1>5, <1>7, <1>8 DEF Past, kept, more

LEMMA InOrderIsPast ==
  InOrder <=> /\ \A e \in Ids : Past(heap[e].requests)
              /\ admitted \in [Keys -> Seq(Int)]
              /\ \A k \in Keys : Past(admitted[k])
BY DEF InOrder, Past


\* What WindowAllow leaves in entry e, and in the admissions of its key.
Kept(e) == InWindow(heap[e].requests)
TimesOf(e) == IF Admits(Kept(e)) THEN Append(Kept(e), now) ELSE Kept(e)
Admissions(e, adm) ==
  IF Admits(Kept(e)) THEN Append(InWindow(adm), now) ELSE adm
Updated(after, e, E) ==
  \A f \in E : after[f].requests = IF f = e THEN TimesOf(e) ELSE heap[f].requests

\* The first d times of entry e have left the window.
Trims(e, d) ==
  LET reqs == heap[e].requests
      n == Len(reqs)
      times == TimesOf(e)
  IN  /\ \A i \in 1..n : Recent(now, reqs[i]) <=> i > d
      /\ n \in Nat /\ d \in 0..n /\ Len(Kept(e)) = n - d
      /\ Len(times) \in Nat /\ n - d <= Len(times)
      /\ \A i \in 1..(n - d) : times[i] = reqs[i + d]
      /\ Admits(Kept(e)) => Len(times) = n - d + 1 /\ times[n - d + 1] = now

LEMMA TimesFacts ==
  ASSUME now \in Int, NEW e, heap[e].requests \in Seq(Int), Past(heap[e].requests)
  PROVE  \E d : Trims(e, d)
<1> DEFINE reqs == heap[e].requests
           n == Len(reqs)
           kept == Kept(e)
           times == TimesOf(e)
<1>1. PICK d \in 0..n :
        /\ \A i \in 1..n : Recent(now, reqs[i]) <=> i > d
        /\ kept \in Seq(Int) /\ Len(kept) = n - d
        /\ \A i \in 1..(n - d) : kept[i] = reqs[i + d]
  BY InWindowOrdered DEF Past, Kept
<1>2. n \in Nat /\ n - d \in Nat BY <1>1, LenProperties
<1>3. times = IF Admits(kept) THEN Append(kept, now) ELSE kept BY DEF TimesOf
<1> HIDE DEF times, kept, n, reqs
<1>4. /\ Len(times) \in Nat /\ n - d <= Len(times)
      /\ \A i \in 1..(n - d) : times[i] = reqs[i + d]
      /\ Admits(kept) => Len(times) = n - d + 1 /\ times[n - d + 1] = now
  <2>1. CASE Admits(kept)
    <3>1. times = Append(kept, now) BY <1>3, <2>1
    <3>2. /\ times \in Seq(Int) /\ Len(times) = Len(kept) + 1
          /\ \A i \in 1..Len(kept) : times[i] = kept[i]
          /\ times[Len(kept) + 1] = now
      BY <1>1, <3>1, AppendProperties
    <3>3. /\ Len(times) = n - d + 1 /\ times[n - d + 1] = now
          /\ \A i \in 1..(n - d) : times[i] = reqs[i + d]
      BY <1>1, <3>2
    <3> QED BY <1>2, <3>3
  <2>2. CASE ~Admits(kept)
    <3>1. times = kept BY <1>3, <2>2
    <3>2. Len(times) = n - d /\ \A i \in 1..(n - d) : times[i] = reqs[i + d]
      BY <1>1, <3>1
    <3> QED BY <1>2, <2>2, <3>2
  <2> QED BY <2>1, <2>2
<1>5. Trims(e, d) BY <1>1, <1>2, <1>4 DEF Trims, reqs, n, kept, times
<1> QED BY <1>5

\* An admission takes a place in its entry behind those of the admissions that are
\* still in the window, and there are EntryLimit places.
LEMMA AllowedSlots ==
  ASSUME now \in Int, NEW adm \in Seq(Int), Past(adm),
         NEW S, IsFiniteSet(S), NEW E, NEW own, NEW e \in E, own[e] \in S, Alone(own, e, E),
         NEW slot, Spread(now, heap, adm, slot, S, E, own),
         NEW d, Trims(e, d), NEW after, Updated(after, e, E)
  PROVE  \E more :
           /\ Spread(now, after, Admissions(e, adm), more, S, E, own)
           /\ Admits(Kept(e)) =>
                Len(Admissions(e, adm)) <= EntryLimit * Cardinality(S)
           /\ \A i \in 1..Len(Admissions(e, adm)) :
                Recent(now, Admissions(e, adm)[i]) =>
                  \/ more[i][1] = own[e]
                  \/ \E j \in 1..Len(adm) :
                       Recent(now, adm[j]) /\ more[i][1] = slot[j][1]
<1> DEFINE n == Len(heap[e].requests)
           p == n - d + 1
           longer == Admissions(e, adm)
           moved == Moved(now, adm, slot, d, own[e])
<1>1. n \in Nat /\ d \in 0..n /\ Len(Kept(e)) = n - d
  BY DEF Trims
<1>2. /\ \A f \in E : f # e => after[f].requests = heap[f].requests
      /\ after[e].requests = TimesOf(e)
  BY DEF Updated
<1>3. Admits(Kept(e)) => Len(after[e].requests) = p /\ after[e].requests[p] = now
  BY <1>2 DEF Trims
<1>4. Dropped(now, heap, after, e, E, n, d)
  BY <1>2 DEF Trims, Dropped
<1> HIDE DEF n
<1>6. /\ Spread(now, after, adm, moved, S, E, own)
      /\ \A i \in 1..Len(adm) : moved[i][1] = slot[i][1]
      /\ Behind(now, adm, moved, own[e], p)
  BY <1>4, Trimmed
<1> HIDE DEF moved, p, longer
<1>7. CASE ~Admits(Kept(e))
  <2>1. longer = adm BY <1>7 DEF Admissions, longer
  <2> QED BY <1>6, <1>7, <2>1 DEF longer
<1>8. CASE Admits(Kept(e))
  <2>1. p \in 1..EntryLimit
    <3>1. n - d < EntryLimit BY <1>1, <1>8 DEF Admits
    <3> QED BY <1>1, <3>1, EntryLimitIsNat DEF p
  <2>2. Len(after[e].requests) = p /\ after[e].requests[p] = now
    BY <1>3, <1>8
  <2>4. PICK c \in 0..Len(adm) :
          /\ \A i \in 1..Len(adm) : Recent(now, adm[i]) <=> i > c
          /\ InWindow(adm) \in Seq(Int) /\ Len(InWindow(adm)) = Len(adm) - c
          /\ \A i \in 1..(Len(adm) - c) : InWindow(adm)[i] = adm[i + c]
    BY InWindowOrdered DEF Past
  <2>5. longer = Append(InWindow(adm), now) BY <1>8 DEF longer, Admissions
  <2>6. /\ longer \in Seq(Int) /\ Len(longer) = Len(adm) - c + 1
        /\ longer[Len(adm) - c + 1] = now
        /\ \A i \in 1..(Len(adm) - c) : longer[i] = adm[i + c]
    <3> DEFINE w == InWindow(adm)
    <3> HIDE DEF w
    <3>1. /\ w \in Seq(Int) /\ Len(w) = Len(adm) - c /\ longer = Append(w, now)
          /\ \A i \in 1..(Len(adm) - c) : w[i] = adm[i + c]
      BY <2>4, <2>5 DEF w
    <3>2. /\ longer \in Seq(Int) /\ Len(longer) = Len(w) + 1
          /\ \A i \in 1..Len(w) : longer[i] = w[i]
          /\ longer[Len(w) + 1] = now
      BY <3>1, AppendProperties
    <3> QED BY <3>1, <3>2
  <2>3. Lengthened(now, adm, longer, c) BY <2>4, <2>6 DEF Lengthened
  <2> DEFINE more == Extended(adm, moved, c, own[e], p)
  <2>7. /\ Spread(now, after, longer, more, S, E, own)
        /\ \A i, j \in 1..Len(longer) : more[i] = more[j] => i = j
        /\ \A i \in 1..Len(longer) :
             \/ more[i][1] = own[e]
             \/ \E j \in 1..Len(adm) :
                  Recent(now, adm[j]) /\ more[i][1] = moved[j][1]
    <3>1. /\ own[e] \in S /\ Spread(now, after, adm, moved, S, E, own)
          /\ Behind(now, adm, moved, own[e], p)
      BY <1>6
    <3>2. Spread(now, after, longer, more, S, E, own)
      BY <2>1, <2>2, <2>3, <3>1, Recorded
    <3>3. \A i, j \in 1..Len(longer) : more[i] = more[j] => i = j
      BY <2>1, <2>2, <2>3, <3>1, Recorded
    <3>4. \A i \in 1..Len(longer) :
             \/ more[i][1] = own[e]
             \/ \E j \in 1..Len(adm) :
                  Recent(now, adm[j]) /\ more[i][1] = moved[j][1]
      BY <2>1, <2>2, <2>3, <3>1, Recorded
    <3> QED BY <3>2, <3>3, <3>4
  <2> HIDE DEF more
  <2>8. Len(longer) <= EntryLimit * Cardinality(S)
    <3>1. Len(longer) \in Nat BY <2>6, LenProperties
    <3>2. more \in [1..Len(longer) -> S \X (1..EntryLimit)] BY <2>7 DEF Spread
    <3> QED BY <2>7, <3>1, <3>2, SlotsBound
  <2>9. \A i \in 1..Len(longer) :
          \/ more[i][1] = own[e]
          \/ \E j \in 1..Len(adm) : Recent(now, adm[j]) /\ more[i][1] = slot[j][1]
    BY <1>6, <2>7
  <2> QED BY <2>7, <2>8, <2>9 DEF longer
<1> QED BY <1>7, <1>8

LEMMA LedgerAllow ==
  ASSUME IInv, Ledger, NEW g \in Goroutines, WindowAllow(g)
  PROVE  Ledger'
<1>0. PICK e, k : e = held[g] /\ k = key[g] OBVIOUS
<1> DEFINE S == Serve(k, Methods)
<1>1. /\ Return(g, "window") /\ UNCHANGED <<now, cache, evicted>>
      /\ heap' = [heap EXCEPT ![e].requests = TimesOf(e)]
      /\ admitted' = IF Admits(Kept(e)) /\ k \notin evicted
                     THEN [admitted EXCEPT ![k] = Append(InWindow(@), now)]
                     ELSE admitted
  BY <1>0 DEF WindowAllow, Kept, TimesOf
<1>2. pc[g] = "window" BY <1>1 DEF Return, Goto
<1>3. /\ e \in Ids /\ k \in Keys /\ now \in Int /\ heap \in [Ids -> Objects]
      /\ e # None
  <2>1. held[g] \in Ids /\ key[g] \in Keys
    BY <1>2 DEF Outside, IInv, Typed, InMethod
  <2> QED BY <1>0, <2>1, Constants DEF IInv, Typed
<1>4. /\ \A h \in Goroutines \ {g} :
           pc'[h] = pc[h] /\ held'[h] = held[h] /\ key'[h] = key[h]
      /\ held'[g] = None /\ pc'[g] = "idle"
  BY <1>1 DEF IInv, Typed, Return, Goto
<1>5. /\ InOrder /\ Founded /\ OverrunBounded
      /\ admitted \in [Keys -> Seq(Int)]
  BY DEF Ledger, InOrder
\* Entry e is one of k, and of no other key.
<1>6. \A l \in Keys : e \in Live(l) <=> l = k
  <2>1. e \in Live(k) BY <1>0, <1>3 DEF Live, Hands
  <2>2. ASSUME NEW l \in Keys, e \in Live(l) PROVE l = k
    <3>1. CASE Caches(cache, l, e) BY <1>0, <3>1 DEF IInv, OfOneKey
    <3>2. CASE Hands(l, e) BY <1>0, <1>3, <3>2 DEF IInv, OfOneKey, Hands
    <3> QED BY <2>2, <3>1, <3>2 DEF Live
  <2> QED BY <2>1, <2>2
<1>7. \A l \in Keys : Live(l)' \subseteq Live(l) /\ Live(l) \subseteq Ids
  <2> SUFFICES ASSUME NEW l \in Keys, NEW f \in Ids,
                      Caches(cache, l, f)' \/ Hands(l, f)'
               PROVE  Caches(cache, l, f) \/ Hands(l, f)
    BY DEF Live
  <2>1. CASE Caches(cache, l, f)' BY <1>1, <2>1 DEF Caches
  <2>2. CASE Hands(l, f)' BY <1>3, <1>4, <2>2, Constants DEF Hands
  <2> QED BY <2>1, <2>2
<1>8. \A l : Present(l)' <=> Present(l) BY <1>1 DEF Present, Caches
<1>9. \A h \in Goroutines : \A l \in Keys : Creates(h, l)' => Creates(h, l)
  BY <1>4 DEF Creates
<1>10. /\ \A f \in Ids \ {e} : heap'[f].requests = heap[f].requests
       /\ heap'[e].requests = TimesOf(e)
       /\ \A f \in Ids : heap[f].requests \in Seq(Int) /\ Past(heap[f].requests)
  BY <1>1, <1>3, <1>5, InOrderIsPast DEF Objects
<1>11. /\ \A l \in Keys \ {k} : admitted'[l] = admitted[l]
       /\ k \in evicted => admitted'[k] = admitted[k]
       /\ k \notin evicted => admitted'[k] = Admissions(e, admitted[k])
  BY <1>1, <1>3, <1>5 DEF Admissions
<1>12. \A l \in Keys : admitted[l] \in Seq(Int) /\ Past(admitted[l])
  BY <1>5, InOrderIsPast
<1> HIDE DEF Live, Creates, Present
<1>13. InOrder'
  <2>1. ASSUME NEW f \in Ids PROVE Past(heap'[f].requests)
    <3>1. heap[e].requests \in Seq(Int) /\ Past(heap[e].requests) BY <1>3, <1>10
    <3>2. Past(TimesOf(e)) BY <1>3, <3>1, PastWindow DEF TimesOf, Kept
    <3> QED BY <1>10, <3>2
  <2>2. ASSUME NEW l \in Keys PROVE Past(admitted'[l]) /\ admitted'[l] \in Seq(Int)
    <3>1. admitted[k] \in Seq(Int) /\ Past(admitted[k]) BY <1>3, <1>12
    <3>2. Past(Admissions(e, admitted[k])) BY <1>3, <3>1, PastWindow DEF Admissions
    <3>3. Admissions(e, admitted[k]) \in Seq(Int)
      BY <1>3, <3>1, PastWindow DEF Admissions
    <3> QED BY <1>11, <1>12, <3>1, <3>2, <3>3
  <2>3. admitted' = [l \in Keys |-> admitted'[l]] BY <1>1, <1>5
  <2>4. admitted' \in [Keys -> Seq(Int)] BY <2>2, <2>3
  <2> QED BY <1>1, <2>1, <2>2, <2>4 DEF InOrder, Past, Ordered
<1>14. Founded'
  <2>1. ASSUME NEW l \in Keys, l \in evicted PROVE admitted'[l] = << >>
    BY <1>5, <1>11, <2>1 DEF Founded
  <2>2. ASSUME NEW l \in Keys, l \notin evicted, ~Present(l)'
        PROVE  Live(l)' = {} /\ admitted'[l] = << >>
    <3>1. Live(l) = {} /\ admitted[l] = << >> BY <1>5, <1>8, <2>2 DEF Founded
    <3>2. l # k BY <1>6, <3>1
    <3> QED BY <1>7, <1>11, <3>1, <3>2
  <2> QED BY <1>1, <2>1, <2>2 DEF Founded
<1>15. PICK own : Created(own) /\ Slots(own) BY DEF Ledger
<1>16. Created(own)'
  <2>1. ASSUME NEW l \in Keys, l \notin evicted
        PROVE  /\ \A f \in Live(l) : own[f] \in Serve(l, Methods)
               /\ \A f, h \in Live(l) : own[f] = own[h] => f = h
               /\ \A h \in Goroutines :
                    Creates(h, l) => \A f \in Live(l) : own[f] # h
    BY <1>15, <2>1 DEF Created
  <2>2. ASSUME NEW l \in Keys, l \notin evicted
        PROVE  /\ \A f \in Live(l)' : own[f] \in Serve(l, Methods)
               /\ \A f, h \in Live(l)' : own[f] = own[h] => f = h
               /\ \A h \in Goroutines :
                    Creates(h, l)' => \A f \in Live(l)' : own[f] # h
    BY <1>7, <1>9, <2>1, <2>2
  <2> QED BY <1>1, <2>2 DEF Created, Serve
<1>17. ASSUME NEW l \in Keys, l \notin evicted
       PROVE  \E slot :
                /\ Spread(now, heap, admitted[l], slot, Serve(l, Methods), Live(l), own)
                /\ \A h \in Goroutines : Creates(h, l) =>
                     \A i \in 1..Len(admitted[l]) :
                       Recent(now, admitted[l][i]) => slot[i][1] # h
  BY <1>15, <1>17 DEF Slots
\* The admissions of k.
<1>18. ASSUME k \notin evicted
       PROVE  \E more :
                /\ Spread(now, heap', admitted'[k], more, S, Live(k)', own)
                /\ Admits(Kept(e)) =>
                     Len(admitted'[k]) <= EntryLimit * Cardinality(S)
                /\ \A h \in Goroutines : Creates(h, k)' =>
                     \A i \in 1..Len(admitted'[k]) :
                       Recent(now, admitted'[k][i]) => more[i][1] # h
  <2>1. PICK slot :
          /\ Spread(now, heap, admitted[k], slot, S, Live(k), own)
          /\ \A h \in Goroutines : Creates(h, k) =>
               \A i \in 1..Len(admitted[k]) :
                 Recent(now, admitted[k][i]) => slot[i][1] # h
    BY <1>3, <1>17, <1>18
  <2>2. /\ e \in Live(k) /\ own[e] \in S /\ Alone(own, e, Live(k))
        /\ \A h \in Goroutines : Creates(h, k) => own[e] # h
    BY <1>3, <1>6, <1>15, <1>18 DEF Created, Alone
  <2>3. heap[e].requests \in Seq(Int) /\ Past(heap[e].requests) BY <1>3, <1>10
  <2>4. PICK d : Trims(e, d) BY <1>3, <2>3, TimesFacts
  <2>5. Updated(heap', e, Live(k)) BY <1>3, <1>7, <1>10 DEF Updated
  <2>6. admitted[k] \in Seq(Int) /\ Past(admitted[k]) /\ IsFiniteSet(S)
    BY <1>3, <1>12, ServeIsFinite
  <2> HIDE DEF S
  <2>7. PICK more :
          /\ Spread(now, heap', Admissions(e, admitted[k]), more, S, Live(k), own)
          /\ Admits(Kept(e)) =>
               Len(Admissions(e, admitted[k])) <= EntryLimit * Cardinality(S)
          /\ \A i \in 1..Len(Admissions(e, admitted[k])) :
               Recent(now, Admissions(e, admitted[k])[i]) =>
                 \/ more[i][1] = own[e]
                 \/ \E j \in 1..Len(admitted[k]) :
                      Recent(now, admitted[k][j]) /\ more[i][1] = slot[j][1]
    BY <1>3, <2>1, <2>2, <2>4, <2>5, <2>6, AllowedSlots
  <2>8. admitted'[k] = Admissions(e, admitted[k]) BY <1>11, <1>18
  <2>9. Live(k)' \in SUBSET Live(k) BY <1>3, <1>7
  <2>10. Spread(now, heap', admitted'[k], more, S, Live(k)', own)
    BY <2>7, <2>8, <2>9 DEF Spread
  <2>11. ASSUME NEW h \in Goroutines, Creates(h, k)',
                NEW i \in 1..Len(admitted'[k]), Recent(now, admitted'[k][i])
         PROVE  more[i][1] # h
    <3>1. Creates(h, k) BY <1>3, <1>9, <2>11
    <3> QED BY <2>1, <2>2, <2>7, <2>8, <2>11, <3>1
  <2> QED BY <2>7, <2>8, <2>10, <2>11
<1>19. OverrunBounded'
  <2> SUFFICES ASSUME NEW l \in Keys
               PROVE  Len(admitted'[l]) <= EntryLimit * Cardinality(Serve(l, Methods))
    BY DEF OverrunBounded, Serve
  <2>1. CASE l = k /\ k \notin evicted /\ Admits(Kept(e)) BY <1>18, <2>1
  <2>2. CASE ~(l = k /\ k \notin evicted /\ Admits(Kept(e)))
    <3>1. admitted'[l] = admitted[l] BY <1>11, <2>2 DEF Admissions
    <3> QED BY <1>5, <3>1 DEF OverrunBounded
  <2> QED BY <2>1, <2>2
<1>20. Slots(own)'
  <2> SUFFICES ASSUME NEW l \in Keys, l \notin evicted'
               PROVE  \E slot :
                 /\ Spread(now', heap', admitted'[l], slot, Serve(l, Methods),
                           Live(l)', own)
                 /\ \A h \in Goroutines : Creates(h, l)' =>
                      \A i \in 1..Len(admitted'[l]) :
                        Recent(now', admitted'[l][i]) => slot[i][1] # h
    BY DEF Slots, Serve, Spread, Recent
  <2>0. l \notin evicted /\ now' = now BY <1>1
  <2>1. CASE l = k BY <1>18, <2>0, <2>1
  <2>2. CASE l # k
    <3>1. PICK slot :
            /\ Spread(now, heap, admitted[l], slot, Serve(l, Methods), Live(l), own)
            /\ \A h \in Goroutines : Creates(h, l) =>
                 \A i \in 1..Len(admitted[l]) :
                   Recent(now, admitted[l][i]) => slot[i][1] # h
      BY <1>17, <2>0
    <3>2. admitted'[l] = admitted[l] BY <1>11, <2>2
    <3>3. \A f \in Live(l)' : heap'[f].requests = heap[f].requests
      BY <1>6, <1>7, <1>10, <2>2
    <3>4. Live(l)' \in SUBSET Live(l) BY <1>7
    <3>5. Spread(now, heap', admitted[l], slot, Serve(l, Methods), Live(l)', own)
      BY <3>1, <3>3, <3>4 DEF Spread
    <3> QED BY <1>9, <2>0, <3>1, <3>2, <3>5
  <2> QED BY <2>1, <2>2
<1> QED BY <1>13, <1>14, <1>16, <1>19, <1>20 DEF Ledger

LEMMA LedgerKept == IInv /\ IInv' /\ Ledger /\ [Next]_vars => Ledger'
<1> SUFFICES ASSUME IInv, IInv', Ledger, [Next]_vars PROVE Ledger'
  OBVIOUS
<1>1. ASSUME NEW g \in Goroutines, NEW o \in Methods, NEW k \in Keys, NEW l \in Limits,
             Call(g, o, k, l)
      PROVE  Ledger'
  BY <1>1, LedgerLookup
<1>2. ASSUME NEW g \in Goroutines, CacheHit(g) \/ CacheMiss(g) \/ CacheAdd(g)
      PROVE  Ledger'
  BY <1>2, LedgerLookup, LedgerAdd
<1>3. ASSUME NEW g \in Goroutines, WindowAllow(g) PROVE Ledger'
  BY <1>3, LedgerAllow
<1>4. ASSUME NEW g \in Goroutines,
             \/ RefuseBlocked(g) \/ PassBlockCheck(g) \/ Violate(g) \/ Read(g)
             \/ ComputeDeadline(g) \/ StoreFirstWord(g) \/ StoreSecondWord(g)
             \/ BlockReturns(g) \/ ClearViolations(g)
      PROVE  Ledger'
  BY <1>4, LedgerOthers
<1> QED
  BY <1>1, <1>2, <1>3, <1>4, LedgerTick DEF Next

-----------------------------------------------------------------------------
(* The theorems.                                                           *)

LEMMA TickKeeps == ASSUME IInv, Tick PROVE IInv'
<1>1. now' = now + 1 /\ now < MaxTime
  BY DEF Tick
<1>2. UNCHANGED <<cache, heap, pc, op, key, held, until, evicted, replaced, promised>>
  BY DEF Tick, mem, call, history
<1>3. now \in Nat /\ now \in 1..MaxTime
  BY DEF IInv, Typed
<1>4. \A x \in Int : x <= now + BlockTicks => x <= now' + BlockTicks
  BY <1>1, <1>3, Constants
<1>5. /\ \A u \in Words : u.ext \in Int
      /\ \A g \in Goroutines : until[g].ext \in Int
      /\ \A e \in Ids : Word(e) \in Words
      /\ \A k \in Keys : promised[k] \in Int
  <2>1. \A u \in Words : u.ext \in Int
    BY DEF Words
  <2>2. \A e \in Ids : Word(e) \in Words
    BY DEF IInv, Typed, Objects, Word
  <2>3. \A k \in Keys : promised[k] \in Int
    BY Constants DEF IInv, Typed
  <2> QED
    BY <2>1, <2>2, <2>3 DEF IInv, Typed
<1>6. SameCache /\ SameWords
  BY <1>2, PointwiseWord, SameCacheIfUnchanged
<1>7. Typed'
  <2>1. Distinct(cache)'
    BY <1>2 DEF IInv, Typed, Distinct
  <2>2. now' \in 1..MaxTime
    BY <1>1, <1>3, Constants
  <2> QED
    BY <1>2, <2>1, <2>2 DEF IInv, Typed
<1>8. InMethod'
  BY <1>2 DEF IInv, InMethod
<1>9. OfOneKey'
  BY <1>2, <1>6 DEF IInv, OfOneKey, SameCache
<1>10. Prepared'
  BY <1>2, <1>4, <1>5 DEF IInv, Prepared
<1>11. HalfStored'
  BY <1>2 DEF IInv, HalfStored, Word, OneWriter
<1>12. Settled'
  <2> SUFFICES ASSUME NEW k \in Keys, NEW e \in Ids, OneWriter(k),
                      Caches(cache, k, e),
                      \A h \in Goroutines : held[h] = e => pc[h] \notin Halfway
               PROVE  Sane(Word(e))'
    BY <1>2, <1>6 DEF Settled, OneWriter, SameCache
  <2>1. Sane(Word(e)) /\ Word(e).ext \in Int
    BY <1>5 DEF IInv, Settled
  <2> QED
    BY <1>4, <1>6, <2>1 DEF Sane, SameWords
<1>13. Current'
  BY <1>2, <1>6 DEF IInv, Current, NeverLost, SameCache
<1>14. Backed'
  BY <1>2, <1>4, <1>5 DEF IInv, Backed, NeverLost, Holds
<1>15. Honoured'
  BY <1>2, <1>6 DEF IInv, Honoured, OneWriter, SameCache, SameWords
<1> QED
  BY <1>7, <1>8, <1>9, <1>10, <1>11, <1>12, <1>13, <1>14, <1>15 DEF IInv

LEMMA StutterKeeps == ASSUME IInv, UNCHANGED vars PROVE IInv'
<1>1. UNCHANGED <<now, cache, heap, pc, op, key, held, until, evicted, replaced,
                  promised>>
  BY DEF vars
<1>2. Typed' /\ InMethod' /\ Prepared'
  BY <1>1 DEF IInv, Typed, InMethod, Prepared, Distinct
<1>3. OfOneKey' /\ Current'
  BY <1>1 DEF IInv, OfOneKey, Current, NeverLost, Caches
<1>4. HalfStored' /\ Settled'
  BY <1>1 DEF IInv, HalfStored, Settled, Sane, Word, OneWriter, Caches
<1>5. Backed' /\ Honoured'
  BY <1>1 DEF IInv, Backed, Honoured, NeverLost, Holds, Word, OneWriter, Caches
<1> QED
  BY <1>2, <1>3, <1>4, <1>5 DEF IInv

LEMMA EveryStepKeeps == IInv /\ [Next]_vars => IInv'
<1> SUFFICES ASSUME IInv, [Next]_vars PROVE IInv'
  OBVIOUS
<1>1. ASSUME NEW g \in Goroutines, NEW o \in Methods, NEW k \in Keys, NEW l \in Limits,
             Call(g, o, k, l)
      PROVE  IInv'
  BY <1>1, CallKeeps
<1>2. ASSUME NEW g \in Goroutines, CacheHit(g) \/ CacheMiss(g) \/ CacheAdd(g)
      PROVE  IInv'
  BY <1>2, CacheHitKeeps, CacheMissKeeps, CacheAddKeeps
<1>3. ASSUME NEW g \in Goroutines,
             \/ RefuseBlocked(g) \/ PassBlockCheck(g) \/ WindowAllow(g)
             \/ Violate(g) \/ Read(g)
      PROVE  IInv'
  BY <1>3, PlainStepsKeep, WindowAllowKeeps, ViolationsKeep
<1>4. ASSUME NEW g \in Goroutines,
             \/ ComputeDeadline(g) \/ StoreFirstWord(g) \/ StoreSecondWord(g)
             \/ BlockReturns(g) \/ ClearViolations(g)
      PROVE  IInv'
  BY <1>4, ComputeDeadlineKeeps, WordsKeep, BlockReturnsKeeps, ViolationsKeep
<1> QED
  BY <1>1, <1>2, <1>3, <1>4, TickKeeps, StutterKeeps DEF Next

\* The invariant.
LEMMA Always == Spec => []IInv
<1> QED
  BY Initially, EveryStepKeeps, PTL DEF Spec

\* No block outlasts block_duration: Block in middleware/storage/memory/store.go
\* stores a deadline of at most BlockTicks from then, and when nobody is halfway
\* through storing one, no entry blocks for longer.  With it, every variable keeps
\* its type, and the cache its capacity.
THEOREM BlocksEnd == Spec => []BlockBounded
<1>1. IInv => BlockBounded
  <2> SUFFICES ASSUME IInv,
                      \A g \in Goroutines : pc[g] \notin {"storeExt", "storeWall"},
                      NEW i \in DOMAIN cache, OneWriter(cache[i].key),
                      Before(heap[cache[i].entry].blockedUntil)
               PROVE  /\ heap[cache[i].entry].blockedUntil.wall
                      /\ heap[cache[i].entry].blockedUntil.ext <= now + BlockTicks
    BY TypesHold DEF BlockBounded, IInv
  <2> DEFINE k == cache[i].key
             e == cache[i].entry
  <2>1. cache \in Seq(Entries)
    BY DEF IInv, Typed
  <2>2. k \in Keys /\ e \in Ids /\ Caches(cache, k, e)
    BY <2>1, DomainOfCache DEF Caches
  <2> HIDE DEF k, e
  <2>3. Sane(Word(e))
    BY <2>2 DEF IInv, Settled, Halfway, k
  <2>4. ~Before(ZeroTime)
    BY DEF Before, ZeroTime
  <2> QED
    BY <2>3, <2>4 DEF Sane, Word, e
<1> QED
  BY <1>1, Always, PTL

\* A completed Block holds: no request of the key passes isBlocked of
\* middleware/storage/memory/store.go before the promised moment, whatever it
\* reads between the two stores of a later Block, as long as one goroutine at a time
\* blocks the key and its entry is neither evicted nor replaced.
THEOREM BlocksHold == Spec => BlockHolds
<1> DEFINE Step(g) == pc[g] = "checkBlocked" /\ pc'[g] = "window" /\ OneWriter(key[g])
                        => now >= promised[key[g]]
           A == \A g \in Goroutines : Step(g)
<1>1. IInv /\ [Next]_vars => [A]_vars
  <2> SUFFICES ASSUME IInv, Next, NEW g \in Goroutines, pc[g] = "checkBlocked",
                      pc'[g] = "window", OneWriter(key[g])
               PROVE  now >= promised[key[g]]
    OBVIOUS
  <2> DEFINE k == key[g]
             e == held[g]
  <2>1. ~Blocked(g)
    <3>1. pc \in [Goroutines -> Steps]
      BY DEF IInv, Typed
    <3>2. ASSUME NEW h \in Goroutines, PassBlockCheck(h) PROVE ~Blocked(g)
      BY <3>1, <3>2 DEF PassBlockCheck, Goto
    <3>3. ASSUME NEW h \in Goroutines, CacheHit(h) \/ CacheMiss(h) \/ CacheAdd(h)
          PROVE  FALSE
      <4>1. h # g
        BY <3>3 DEF CacheHit, CacheMiss, CacheAdd, Goto, Return
      <4> QED
        BY <3>1, <3>3, <4>1 DEF CacheHit, CacheMiss, CacheAdd, Goto, Return
    <3>4. ASSUME NEW h \in Goroutines, NEW o, NEW l, NEW m, Call(h, o, l, m)
          PROVE  FALSE
      BY <3>1, <3>4 DEF Call, Goto
    <3>5. ASSUME NEW h \in Goroutines,
                 \/ RefuseBlocked(h) \/ WindowAllow(h) \/ BlockReturns(h)
                 \/ ClearViolations(h) \/ Violate(h) \/ Read(h)
          PROVE  FALSE
      BY <3>1, <3>5 DEF RefuseBlocked, WindowAllow, BlockReturns, ClearViolations,
                        Violate, Read, Return, Goto
    <3>6. ASSUME NEW h \in Goroutines,
                 ComputeDeadline(h) \/ StoreFirstWord(h) \/ StoreSecondWord(h)
          PROVE  FALSE
      BY <3>1, <3>6 DEF ComputeDeadline, StoreFirstWord, StoreSecondWord, Goto
    <3>7. ~Tick
      BY DEF Tick
    <3> QED
      BY <3>2, <3>3, <3>4, <3>5, <3>6, <3>7 DEF Next
  <2>2. k \in Keys /\ e \in Ids
    BY DEF IInv, Typed, InMethod, Outside
  <2>3. now \in Nat /\ promised[k] \in Nat
    BY <2>2, Constants DEF IInv, Typed
  <2>4. CASE promised[k] = 0
    BY <2>3, <2>4
  <2>5. CASE promised[k] # 0
    <3>1. NeverLost(k)
      BY <2>2, <2>5 DEF IInv, Backed
    <3>2. Caches(cache, k, e)
      BY <2>2, <3>1, Constants DEF IInv, Current
    <3>3. Word(e).wall /\ Word(e).ext >= promised[k]
      BY <2>2, <2>5, <3>2 DEF IInv, Honoured
    <3>4. Word(e).ext \in Int
      BY <2>2 DEF IInv, Typed, Objects, Words, Word
    <3>5. ~(now < Word(e).ext)
      BY <2>1, <3>3 DEF Blocked, Before, Word
    <3> QED
      BY <2>3, <3>3, <3>4, <3>5
  <2> QED
    BY <2>4, <2>5
<1> QED
  BY <1>1, Always, PTL DEF Spec, BlockHolds

\* No window admits more of a key than one limit's worth per goroutine that serves
\* it: getOrCreateEntry of middleware/storage/memory/store.go may create several
\* entries of the key, but a goroutine creates one at most before an eviction, and
\* the admissions of each are in its own slice.
THEOREM OverrunsBounded == Spec => []OverrunBounded
<1>1. Init => Ledger BY LedgerStarts
<1>2. IInv /\ IInv' /\ Ledger /\ [Next]_vars => Ledger' BY LedgerKept
<1>3. Ledger => OverrunBounded BY DEF Ledger
<1> QED BY <1>1, <1>2, <1>3, Always, PTL DEF Spec
=============================================================================
