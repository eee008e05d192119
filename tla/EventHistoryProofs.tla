------------------------- MODULE EventHistoryProofs -------------------------
(***************************************************************************)
(* Proofs about EventHistory, for any goroutines, capacity of the channel, *)
(* size of the store's memory and number of changes, refused imports and   *)
(* crashes: the file has every change that was acknowledged, the memory is *)
(* the end of the file, and a subscriber that is alone misses nothing.     *)
(***************************************************************************)
EXTENDS EventHistory, SequenceTheorems, TLAPS

\* An actor has an event to append exactly while it appends.
EventInHand ==
  \A a \in Actors : pc[a] \in {"append", "write"} <=> event[a] # None

Typed ==
  /\ TypeOK
  /\ joined \in [Subscribers -> Events]
  /\ DOMAIN sent = Subscribers
  /\ crashes \in Nat
  /\ EventInHand

\* Whoever is between the two steps of Append holds the store's mutex.
Mutex == \A a \in Actors : pc[a] = "write" <=> owner = a

\* What the file holds, or what the owner will write back to it.
Kept == IF owner = None THEN file ELSE day

\* Nothing that was acknowledged is missing.
Complete ==
  ~damaged => /\ Kept # Torn
              /\ answered \subseteq Range(Kept)

\* The memory is the end of the file as it will be.
Remembered ==
  ~damaged /\ crashes = 0 =>
    events = Newest(IF owner = None THEN file ELSE Append(day, event[owner]),
                    MaxMem)

\* The channel never holds more than the changes that were made.
InQueue == Len(queue) <= newest

IInv == /\ Typed /\ Mutex
        /\ Complete /\ Remembered
        /\ InQueue /\ EverySubscriberSees

-----------------------------------------------------------------------------
(* Sequences.                                                              *)

LEMMA RangeOfAppend ==
  ASSUME NEW S, NEW s \in Seq(S), NEW e \in S
  PROVE  Append(s, e) \in Seq(S) /\ Range(Append(s, e)) = Range(s) \cup {e}
<1>1. /\ Append(s, e) \in Seq(S) /\ Len(Append(s, e)) = Len(s) + 1
      /\ \A i \in 1..Len(s) : Append(s, e)[i] = s[i]
      /\ Append(s, e)[Len(s) + 1] = e
      /\ Len(s) \in Nat
  OBVIOUS
<1>2. /\ DOMAIN s = 1..Len(s)
      /\ DOMAIN Append(s, e) = 1..(Len(s) + 1)
  BY <1>1, LenProperties
<1>3. ASSUME NEW x PROVE x \in Range(Append(s, e)) <=> x \in Range(s) \cup {e}
  BY <1>1, <1>2 DEF Range
<1> QED
  BY <1>1, <1>3

LEMMA RangeOfTail ==
  ASSUME NEW S, NEW s \in Seq(S), s # << >>
  PROVE  /\ Head(s) \in S /\ Tail(s) \in Seq(S) /\ Len(Tail(s)) = Len(s) - 1
         /\ Range(s) = Range(Tail(s)) \cup {Head(s)}
<1>1. /\ Head(s) \in S /\ Tail(s) \in Seq(S)
      /\ Len(Tail(s)) = Len(s) - 1
      /\ \A i \in 1..Len(Tail(s)) : Tail(s)[i] = s[i + 1]
  BY HeadTailProperties
<1>2. Head(s) = s[1] /\ Len(s) \in Nat \ {0}
  BY EmptySeq
<1>3. DOMAIN s = 1..Len(s) /\ DOMAIN Tail(s) = 1..(Len(s) - 1)
  BY <1>1, LenProperties
<1>4. ASSUME NEW x \in Range(s) PROVE x \in Range(Tail(s)) \cup {Head(s)}
  <2>1. PICK i \in 1..Len(s) : x = s[i]
    BY <1>3 DEF Range
  <2>2. CASE i = 1
    BY <1>2, <2>1, <2>2
  <2>3. CASE i # 1
    <3>1. i - 1 \in 1..(Len(s) - 1) /\ Tail(s)[i - 1] = x
      BY <1>1, <1>2, <2>1, <2>3
    <3> QED
      BY <1>3, <3>1 DEF Range
  <2> QED
    BY <2>2, <2>3
<1>5. ASSUME NEW x \in Range(Tail(s)) PROVE x \in Range(s)
  BY <1>1, <1>2, <1>3 DEF Range
<1>6. Head(s) \in Range(s)
  BY <1>2, <1>3 DEF Range
<1> QED
  BY <1>1, <1>4, <1>5, <1>6

\* What Newest returns.
LEMMA NewestFacts ==
  ASSUME NEW S, NEW s \in Seq(S), NEW n \in Nat \ {0}
  PROVE  /\ Newest(s, n) \in Seq(S)
         /\ Len(Newest(s, n)) = IF Len(s) > n THEN n ELSE Len(s)
         /\ \A i \in 1..Len(Newest(s, n)) :
              Newest(s, n)[i] = s[i + Len(s) - Len(Newest(s, n))]
<1>1. Len(s) \in Nat /\ \A i \in 1..Len(s) : s[i] \in S
  BY ElementOfSeq
<1>2. CASE Len(s) > n
  <2> DEFINE m == Len(s) - n + 1
             t == SubSeq(s, m, Len(s))
  <2>1. /\ m \in Int /\ Len(s) \in Int /\ m <= Len(s)
        /\ \A i \in m..Len(s) : s[i] \in S
    BY <1>1, <1>2
  <2>2. Newest(s, n) = t
    BY <1>2 DEF Newest
  <2> HIDE DEF m
  <2>3. /\ t \in Seq(S)
        /\ Len(t) = IF m <= Len(s) THEN Len(s) - m + 1 ELSE 0
        /\ \A i \in 1..(Len(s) - m + 1) : t[i] = s[m + i - 1]
    BY <2>1, SubSeqProperties
  <2> HIDE DEF t
  <2>4. Len(t) = n /\ \A i \in 1..n : t[i] = s[i + Len(s) - n]
    BY <1>1, <2>1, <2>3 DEF m
  <2> QED
    BY <1>1, <1>2, <2>2, <2>3, <2>4
<1>3. CASE ~(Len(s) > n)
  <2>1. Newest(s, n) = s
    BY <1>3 DEF Newest
  <2>2. \A i \in 1..Len(s) : i + Len(s) - Len(s) = i
    BY <1>1
  <2> QED
    BY <1>3, <2>1, <2>2
<1> QED
  BY <1>1, <1>2, <1>3

\* Events can be forgotten before an event is added or after.
LEMMA NewestAppend ==
  ASSUME NEW S, NEW s \in Seq(S), NEW e \in S, NEW n \in Nat \ {0}
  PROVE  Newest(Append(Newest(s, n), e), n) = Newest(Append(s, e), n)
<1> DEFINE t == Newest(s, n)
           u == Append(t, e)
           w == Append(s, e)
<1>1. /\ t \in Seq(S) /\ Len(t) = IF Len(s) > n THEN n ELSE Len(s)
      /\ \A i \in 1..Len(t) : t[i] = s[i + Len(s) - Len(t)]
  BY NewestFacts
<1> HIDE DEF t
<1>2. /\ u \in Seq(S) /\ w \in Seq(S)
      /\ Len(u) = Len(t) + 1 /\ Len(w) = Len(s) + 1
      /\ Len(s) \in Nat /\ Len(t) \in Nat
      /\ \A i \in 1..Len(t) : u[i] = t[i]
      /\ \A i \in 1..Len(s) : w[i] = s[i]
      /\ u[Len(t) + 1] = e /\ w[Len(s) + 1] = e
  BY <1>1
<1> HIDE DEF u, w
<1>3. ASSUME NEW i \in 1..Len(u) PROVE u[i] = w[i + Len(w) - Len(u)]
  <2>1. CASE i = Len(t) + 1
    BY <1>2, <2>1
  <2>2. CASE i <= Len(t)
    <3>1. i \in 1..Len(t) /\ i + Len(s) - Len(t) \in 1..Len(s)
      BY <1>1, <1>2, <2>2
    <3>2. u[i] = s[i + Len(s) - Len(t)]
      BY <1>1, <1>2, <3>1
    <3>3. i + Len(w) - Len(u) = i + Len(s) - Len(t)
      BY <1>2
    <3> QED
      BY <1>2, <3>1, <3>2, <3>3
  <2> QED
    BY <1>2, <2>1, <2>2
<1>4. /\ Newest(u, n) \in Seq(S) /\ Newest(w, n) \in Seq(S)
      /\ Len(Newest(u, n)) = IF Len(u) > n THEN n ELSE Len(u)
      /\ Len(Newest(w, n)) = IF Len(w) > n THEN n ELSE Len(w)
      /\ \A i \in 1..Len(Newest(u, n)) :
           Newest(u, n)[i] = u[i + Len(u) - Len(Newest(u, n))]
      /\ \A i \in 1..Len(Newest(w, n)) :
           Newest(w, n)[i] = w[i + Len(w) - Len(Newest(w, n))]
  BY <1>2, NewestFacts
<1>5. Len(Newest(u, n)) = Len(Newest(w, n))
  BY <1>1, <1>2, <1>4
<1>6. ASSUME NEW i \in 1..Len(Newest(u, n))
      PROVE  Newest(u, n)[i] = Newest(w, n)[i]
  <2> DEFINE k == Len(Newest(u, n))
             j == i + Len(u) - k
  <2>0. /\ k \in Nat /\ k <= Len(u) /\ i \in 1..k /\ k = Len(Newest(w, n))
        /\ Len(u) \in Nat /\ Len(w) \in Nat
    BY <1>2, <1>4, <1>5
  <2>1. j \in 1..Len(u) /\ j + Len(w) - Len(u) = i + Len(w) - k
    BY <2>0
  <2>2. Newest(u, n)[i] = u[j] /\ Newest(w, n)[i] = w[j + Len(w) - Len(u)]
    BY <1>4, <2>0, <2>1
  <2> QED
    BY <1>3, <2>1, <2>2
<1> QED
  BY <1>4, <1>5, <1>6, SeqEqual DEF t, u, w
-----------------------------------------------------------------------------
(* The invariant, part by part.                                            *)

LEMMA Initially == Init => IInv
<1> SUFFICES ASSUME Init PROVE IInv
  OBVIOUS
<1>1. Len(<< >>) = 0 /\ \A S : << >> \in Seq(S)
  BY EmptySeq
<1>2. Typed
  BY <1>1, BoundsAssumption, NoneAssumption
  DEF Init, Typed, TypeOK, EventInHand, Events, Actors
<1>3. Mutex
  BY NoneAssumption DEF Init, Mutex
<1>4. Complete
  BY <1>1, TornAssumption DEF Init, Complete, Kept
<1>5. Newest(<< >>, MaxMem) = << >>
  BY <1>1, BoundsAssumption DEF Newest
<1>6. Remembered
  BY <1>5 DEF Init, Remembered
<1>7. InQueue /\ EverySubscriberSees
  BY <1>1 DEF Init, InQueue, EverySubscriberSees, Actors
<1> QED
  BY <1>2, <1>3, <1>4, <1>6, <1>7 DEF IInv

\* The owner's event stays as it is while others work.
LEMMA OthersKeep ==
  ASSUME IInv, UNCHANGED <<events, file, owner, day, damaged, crashes>>,
         answered' \subseteq answered,
         owner # None => event'[owner] = event[owner]
  PROVE  Complete' /\ Remembered'
BY DEF IInv, Complete, Remembered, Kept

\* A step outside Append.
LEMMA MutexKept ==
  ASSUME IInv, UNCHANGED owner,
         \A a \in Actors : pc'[a] = "write" <=> pc[a] = "write"
  PROVE  Mutex'
BY DEF IInv, Mutex

LEMMA ChangeRegistryKeeps ==
  ASSUME IInv, NEW a \in Admins, ChangeRegistry(a)
  PROVE  IInv'
<1> USE DEF ChangeRegistry, Goto, store, stream, Actors
<1>1. /\ newest \in Nat /\ newest < MaxChanges /\ newest + 1 \in 1..MaxChanges
      /\ queue \in Seq(1..MaxChanges) /\ Len(queue) \in Nat
      /\ Capacity \in Nat /\ MaxChanges \in Nat
  BY BoundsAssumption DEF IInv, Typed, TypeOK
<1>2. /\ Append(queue, newest + 1) \in Seq(1..MaxChanges)
      /\ Len(Append(queue, newest + 1)) = Len(queue) + 1
      /\ Range(Append(queue, newest + 1)) = Range(queue) \cup {newest + 1}
  BY <1>1, RangeOfAppend
<1>3. newest + 1 \in Events /\ newest + 1 # None
  BY <1>1, NoneAssumption DEF Events
<1>4. TypeOK'
  <2>1. newest' \in 0..MaxChanges
    BY <1>1
  <2>2. queue' \in Seq(1..MaxChanges) /\ Len(queue') <= Capacity
    <3>1. Len(queue) <= Capacity
      BY DEF IInv, Typed, TypeOK
    <3>2. CASE Len(queue) < Capacity
      BY <1>1, <1>2, <3>2
    <3>3. CASE ~(Len(queue) < Capacity)
      BY <1>1, <3>1, <3>3
    <3> QED
      BY <3>2, <3>3
  <2>3. event' \in [Actors -> Events \cup {None}]
    BY <1>3 DEF IInv, Typed, TypeOK
  <2>4. pc' \in [Actors -> {"idle", "append", "write", "listen"}]
    BY DEF IInv, Typed, TypeOK
  <2> QED
    BY <2>1, <2>2, <2>3, <2>4 DEF IInv, Typed, TypeOK
<1>5. EventInHand'
  BY <1>3 DEF IInv, Typed, TypeOK, EventInHand
<1>6. Typed'
  BY <1>4, <1>5 DEF IInv, Typed
<1>7. Mutex'
  BY MutexKept DEF IInv, Typed, TypeOK
<1>8. Complete' /\ Remembered'
  BY OthersKeep DEF IInv, Typed, TypeOK, Mutex
<1>9. InQueue'
  BY <1>1, <1>2 DEF IInv, InQueue
<1>10. ASSUME NEW s \in Subscribers, Subscribers = {s}, MaxChanges <= Capacity,
              pc'[s] # "idle", NEW n \in joined'[s] + 1 .. newest'
       PROVE  \/ n \in sent'[s] \/ n \in Range(queue') \/ n = hand'[s]
              \/ n = event'[s] \/ n \in lost'
  <2>1. s # a /\ pc'[s] = pc[s] /\ event'[s] = event[s] /\ joined[s] \in Nat
    BY ActorsAssumption DEF IInv, Typed, TypeOK, Events
  <2>2. Len(queue) < Capacity
    BY <1>1, <1>10 DEF IInv, InQueue
  <2>3. CASE n = newest + 1
    BY <1>2, <2>2, <2>3
  <2>4. CASE n \in joined[s] + 1 .. newest
    BY <1>2, <1>10, <2>1, <2>2, <2>4 DEF IInv, EverySubscriberSees
  <2> QED
    BY <1>1, <1>10, <2>1, <2>3, <2>4
<1> QED
  BY <1>6, <1>7, <1>8, <1>9, <1>10 DEF IInv, EverySubscriberSees

LEMMA ImportRefusedKeeps ==
  ASSUME IInv, NEW a \in Admins, ImportRefused(a)
  PROVE  IInv'
<1> USE DEF ImportRefused, Goto, store, stream, Actors
<1>1. 0 \in Events /\ None # 0
  BY BoundsAssumption, NoneAssumption DEF Events
<1>2. TypeOK'
  BY <1>1 DEF IInv, Typed, TypeOK
<1>3. EventInHand'
  BY <1>1 DEF IInv, Typed, TypeOK, EventInHand
<1>4. Typed'
  BY <1>2, <1>3 DEF IInv, Typed
<1>5. Mutex'
  BY MutexKept DEF IInv, Typed, TypeOK
<1>6. Complete' /\ Remembered'
  BY OthersKeep DEF IInv, Typed, TypeOK, Mutex
<1>7. EverySubscriberSees' /\ InQueue'
  BY ActorsAssumption DEF IInv, Typed, TypeOK, EverySubscriberSees, InQueue
<1> QED
  BY <1>4, <1>5, <1>6, <1>7 DEF IInv

-----------------------------------------------------------------------------
(* Append.                                                                 *)

\* What both ways to begin have in common: the file is read, or counts as empty.
LEMMA BeginKeeps ==
  ASSUME IInv, NEW a \in Actors, owner = None, Goto(a, "append", "write"),
         owner' = a, events' = Newest(Append(events, event[a]), MaxMem),
         NEW read \in Seq(Events), day' = read, file' = Torn,
         UNCHANGED <<newest, queue, stream, event, answered, crashes>>,
         ~damaged' => ~damaged /\ read = file
  PROVE  IInv'
<1> USE DEF Goto, stream
<1>1. /\ event[a] \in Events /\ event[a] # None /\ a # None
      /\ events \in Seq(Events) /\ MaxMem \in Nat \ {0}
  BY BoundsAssumption, NoneAssumption DEF IInv, Typed, TypeOK, EventInHand
<1>2. Append(events, event[a]) \in Seq(Events)
  BY <1>1
<1>3. events' \in Seq(Events) /\ Len(events') <= MaxMem
  <2> DEFINE longer == Append(events, event[a])
  <2>1. /\ Newest(longer, MaxMem) \in Seq(Events)
        /\ Len(Newest(longer, MaxMem)) = IF Len(longer) > MaxMem THEN MaxMem
                                         ELSE Len(longer)
    BY <1>1, <1>2, NewestFacts
  <2>2. Len(longer) \in Nat /\ events' = Newest(longer, MaxMem)
    BY <1>2
  <2> HIDE DEF longer
  <2> QED
    BY <1>1, <2>1, <2>2
<1>4. TypeOK'
  BY <1>3 DEF IInv, Typed, TypeOK
<1>5. EventInHand'
  BY <1>1 DEF IInv, Typed, TypeOK, EventInHand
<1>6. Typed'
  BY <1>4, <1>5 DEF IInv, Typed
<1>7. Mutex'
  BY NoneAssumption DEF IInv, Typed, TypeOK, Mutex
<1>8. Complete'
  BY <1>1, TornAssumption DEF IInv, Complete, Kept
<1>9. Remembered'
  <2> SUFFICES ASSUME ~damaged', crashes' = 0
               PROVE  events' = Newest(Append(day', event'[a]), MaxMem)
    BY <1>1 DEF Remembered
  <2>1. events = Newest(read, MaxMem)
    BY DEF IInv, Remembered
  <2> QED
    BY <1>1, <2>1, NewestAppend
<1>10. InQueue'
  BY DEF IInv, InQueue
<1>11. EverySubscriberSees'
  <2>1. \A b \in Actors : pc'[b] = "idle" <=> pc[b] = "idle"
    BY DEF IInv, Typed, TypeOK
  <2> QED
    BY <2>1 DEF IInv, EverySubscriberSees, Actors
<1> QED
  BY <1>6, <1>7, <1>8, <1>9, <1>10, <1>11 DEF IInv

\* What both ways to end have in common.
LEMMA EndKeeps ==
  ASSUME IInv, NEW a \in Actors, Appended(a), UNCHANGED damaged,
         file' = Append(day, event[a])
  PROVE  Complete' /\ Remembered'
<1>1. /\ pc[a] = "write" /\ owner = a /\ owner' = None /\ a # None
      /\ event[a] \in Events /\ day \in Seq(Events)
  BY NoneAssumption
  DEF Appended, Goto, IInv, Mutex, Typed, TypeOK, EventInHand
<1>2. file' \in Seq(Events) /\ Range(file') = Range(day) \cup {event[a]}
  BY <1>1, RangeOfAppend
<1>3. answered' \subseteq answered \cup {event[a]}
  BY DEF Appended
<1>4. Complete'
  BY <1>1, <1>2, <1>3, TornAssumption DEF IInv, Complete, Kept
<1>5. Remembered'
  BY <1>1 DEF IInv, Remembered, Appended
<1> QED
  BY <1>4, <1>5

LEMMA AppendedKeeps ==
  ASSUME IInv, NEW a \in Actors, Appended(a),
         file' = Torn \/ file' \in Seq(Events), Complete', Remembered'
  PROVE  IInv'
<1> USE DEF Appended, Goto
<1>1. event[a] \in Events /\ event[a] # None /\ a # None /\ pc[a] = "write"
  BY NoneAssumption DEF IInv, Typed, TypeOK, EventInHand
<1>2. << >> \in Seq(Events)
  BY EmptySeq
<1>3. TypeOK'
  BY <1>1, <1>2 DEF IInv, Typed, TypeOK
<1>4. EventInHand'
  BY <1>1 DEF IInv, Typed, TypeOK, EventInHand
<1>5. Typed'
  BY <1>3, <1>4 DEF IInv, Typed
<1>6. Mutex'
  BY <1>1, NoneAssumption DEF IInv, Typed, TypeOK, Mutex
<1>7. ASSUME NEW s \in Subscribers, Subscribers = {s}, MaxChanges <= Capacity,
             pc'[s] # "idle", NEW n \in joined'[s] + 1 .. newest'
      PROVE  \/ n \in sent'[s] \/ n \in Range(queue') \/ n = hand'[s]
             \/ n = event'[s] \/ n \in lost'
  <2>1. s \in Actors /\ pc[s] # "idle"
    BY <1>1, <1>7 DEF IInv, Typed, TypeOK, Actors
  <2>2. \/ n \in sent[s] \/ n \in Range(queue) \/ n = hand[s]
        \/ n = event[s] \/ n \in lost
    BY <1>7, <2>1 DEF IInv, EverySubscriberSees
  <2>3. sent[s] \subseteq sent'[s]
    BY DEF IInv, Typed
  <2>4. n = event[s] => n \in sent'[s] \/ n = event'[s]
    BY <2>1, ActorsAssumption DEF IInv, Typed, TypeOK, Actors
  <2> QED
    BY <2>2, <2>3, <2>4
<1>8. InQueue'
  BY DEF IInv, InQueue
<1> QED
  BY <1>5, <1>6, <1>7, <1>8 DEF IInv, EverySubscriberSees

LEMMA AppendKeeps ==
  ASSUME IInv, NEW a \in Actors,
         BeginAppend(a) \/ BeginAppendUnread(a) \/ EndAppend(a) \/ AppendFails(a)
  PROVE  IInv'
<1>1. << >> \in Seq(Events)
  BY EmptySeq
<1>2. CASE BeginAppend(a)
  <2> DEFINE read == IF file = Torn THEN << >> ELSE file
  <2>1. read \in Seq(Events) /\ (~damaged => read = file)
    BY <1>1, <1>2 DEF BeginAppend, IInv, Typed, TypeOK, Complete, Kept
  <2>2. /\ owner = None /\ Goto(a, "append", "write") /\ owner' = a
        /\ events' = Newest(Append(events, event[a]), MaxMem)
        /\ day' = read /\ file' = Torn
        /\ UNCHANGED <<newest, queue, stream, event, answered, crashes>>
        /\ damaged' = damaged
    BY <1>2 DEF BeginAppend
  <2> HIDE DEF read
  <2> QED
    BY <2>1, <2>2, BeginKeeps
<1>3. CASE BeginAppendUnread(a)
  <2>1. /\ owner = None /\ Goto(a, "append", "write") /\ owner' = a
        /\ events' = Newest(Append(events, event[a]), MaxMem)
        /\ day' = << >> /\ file' = Torn
        /\ UNCHANGED <<newest, queue, stream, event, answered, crashes>>
        /\ damaged'
    BY <1>3 DEF BeginAppendUnread
  <2> QED
    BY <1>1, <2>1, BeginKeeps
<1>4. CASE EndAppend(a)
  <2>1. /\ Appended(a) /\ file' = Append(day, event[a]) /\ damaged' = damaged
    BY <1>4 DEF EndAppend
  <2>2. event[a] \in Events /\ day \in Seq(Events)
    BY <2>1 DEF Appended, Goto, IInv, Typed, TypeOK, EventInHand
  <2> QED
    BY <2>1, <2>2, EndKeeps, AppendedKeeps
<1>5. CASE AppendFails(a)
  <2>1. Appended(a) /\ file' \in {day, Torn} /\ damaged'
    BY <1>5 DEF AppendFails
  <2>2. Complete' /\ Remembered'
    BY <2>1 DEF Complete, Remembered
  <2> QED
    BY <2>1, <2>2, AppendedKeeps DEF IInv, Typed, TypeOK
<1> QED
  BY <1>2, <1>3, <1>4, <1>5

-----------------------------------------------------------------------------
(* Event streams, and crashes.                                             *)

LEMMA SubscribeKeeps ==
  ASSUME IInv, NEW s \in Subscribers, Subscribe(s) \/ Disconnect(s)
  PROVE  IInv'
<1> USE DEF Subscribe, Disconnect, Goto, store, Actors
<1>1. TypeOK' /\ newest \in Events
  <2>1. MaxLeft \in Nat
    BY BoundsAssumption
  <2>2. left' \in 0..MaxLeft
    BY <2>1 DEF IInv, Typed, TypeOK
  <2> QED
    BY <2>2 DEF IInv, Typed, TypeOK, Events
<1>2. EventInHand'
  BY DEF IInv, Typed, TypeOK, EventInHand
<1>3. Typed'
  BY <1>1, <1>2 DEF IInv, Typed
<1>4. Mutex'
  BY MutexKept DEF IInv, Typed, TypeOK
<1>5. Complete' /\ Remembered'
  BY OthersKeep DEF IInv
<1>6. InQueue'
  BY DEF IInv, InQueue
<1>7. ASSUME NEW t \in Subscribers, Subscribers = {t}, pc'[t] # "idle"
      PROVE  joined'[t] + 1 .. newest' = {}
  <2>1. s = t /\ newest \in Nat
    BY <1>7 DEF IInv, Typed, TypeOK
  <2>2. Subscribe(s)
    BY <1>7, <2>1 DEF IInv, Typed, TypeOK
  <2> QED
    BY <2>1, <2>2 DEF IInv, Typed
<1> QED
  BY <1>3, <1>4, <1>5, <1>6, <1>7 DEF IInv, EverySubscriberSees

LEMMA TakeKeeps ==
  ASSUME IInv, NEW s \in Subscribers, Take(s)
  PROVE  IInv'
<1> USE DEF Take, Actors
<1>1. /\ queue \in Seq(1..MaxChanges) /\ queue # << >> /\ Len(queue) \in Nat
      /\ Capacity \in Nat /\ newest \in Nat
  BY BoundsAssumption DEF IInv, Typed, TypeOK
<1>2. /\ Head(queue) \in 1..MaxChanges /\ Tail(queue) \in Seq(1..MaxChanges)
      /\ Len(Tail(queue)) = Len(queue) - 1
      /\ Range(queue) = Range(Tail(queue)) \cup {Head(queue)}
  BY <1>1, RangeOfTail
<1>3. TypeOK'
  BY <1>1, <1>2 DEF IInv, Typed, TypeOK, store
<1>4. Typed'
  BY <1>3 DEF IInv, Typed, EventInHand, store
<1>5. Mutex' /\ Complete' /\ Remembered'
  BY MutexKept, OthersKeep DEF IInv, store
<1>6. InQueue'
  BY <1>1, <1>2 DEF IInv, InQueue
<1>7. ASSUME NEW t \in Subscribers, Subscribers = {t}, MaxChanges <= Capacity,
             pc'[t] # "idle", NEW n \in joined'[t] + 1 .. newest'
      PROVE  \/ n \in sent'[t] \/ n \in Range(queue') \/ n = hand'[t]
             \/ n = event'[t] \/ n \in lost'
  <2>1. t = s /\ hand'[s] = Head(queue)
    BY <1>7 DEF IInv, Typed, TypeOK
  <2>2. \/ n \in sent[s] \/ n \in Range(queue) \/ n = hand[s]
        \/ n = event[s] \/ n \in lost
    BY <1>7, <2>1 DEF IInv, EverySubscriberSees
  <2>3. n # hand[s]
    BY <1>1, <1>7, <2>1, NoneAssumption, BoundsAssumption
    DEF IInv, Typed, TypeOK, Events
  <2> QED
    BY <1>2, <2>1, <2>2, <2>3
<1> QED
  BY <1>4, <1>5, <1>6, <1>7 DEF IInv, EverySubscriberSees

LEMMA HandOverKeeps ==
  ASSUME IInv, NEW s \in Subscribers, HandOver(s)
  PROVE  IInv'
<1> USE DEF HandOver, Goto, Actors
<1>1. hand[s] \in Events /\ hand[s] # None /\ event[s] = None /\ MaxChanges \in Nat
  <2>1. MaxChanges \in Nat
    BY BoundsAssumption
  <2>2. hand[s] \in 1..MaxChanges
    BY DEF IInv, Typed, TypeOK
  <2>3. event[s] = None
    BY DEF IInv, Typed, EventInHand
  <2> QED
    BY <2>1, <2>2, <2>3 DEF Events
<1>2. TypeOK'
  BY <1>1 DEF IInv, Typed, TypeOK, store
<1>3. EventInHand'
  BY <1>1 DEF IInv, Typed, TypeOK, EventInHand
<1>4. Typed'
  BY <1>2, <1>3 DEF IInv, Typed, store
<1>5. Mutex'
  BY MutexKept DEF IInv, Typed, TypeOK, store
<1>6. Complete' /\ Remembered'
  BY OthersKeep DEF IInv, Typed, TypeOK, Mutex, store
<1>7. InQueue'
  BY DEF IInv, InQueue
<1>8. ASSUME NEW t \in Subscribers, Subscribers = {t}, MaxChanges <= Capacity,
             pc'[t] # "idle", NEW n \in joined'[t] + 1 .. newest'
      PROVE  \/ n \in sent'[t] \/ n \in Range(queue') \/ n = hand'[t]
             \/ n = event'[t] \/ n \in lost'
  <2>1. t = s /\ event'[s] = hand[s] /\ pc[s] # "idle"
    BY <1>8 DEF IInv, Typed, TypeOK
  <2>2. \/ n \in sent[s] \/ n \in Range(queue) \/ n = hand[s]
        \/ n = event[s] \/ n \in lost
    BY <1>8, <2>1 DEF IInv, EverySubscriberSees
  <2>3. n # None
    BY <1>8, <2>1, NoneAssumption, BoundsAssumption
    DEF IInv, Typed, TypeOK, Events
  <2> QED
    BY <1>1, <2>1, <2>2, <2>3
<1> QED
  BY <1>4, <1>5, <1>6, <1>7, <1>8 DEF IInv, EverySubscriberSees

LEMMA QuitForwarderKeeps ==
  ASSUME IInv, QuitForwarder
  PROVE  IInv'
<1> USE DEF QuitForwarder, store
<1>1. left' \in 0..MaxLeft
  BY BoundsAssumption DEF IInv, Typed, TypeOK
<1>2. queue \in Seq(1..MaxChanges) /\ Len(queue) \in Nat /\ Len(queue) <= Capacity
  BY DEF IInv, Typed, TypeOK
<1>3. /\ queue' \in Seq(1..MaxChanges) /\ Len(queue') <= Len(queue)
      /\ lost \subseteq lost' /\ Range(queue) \subseteq Range(queue') \cup lost'
  <2>1. CASE queue' = queue /\ lost' = lost
    BY <1>2, <2>1
  <2>2. CASE queue # << >> /\ lost' = lost \cup {Head(queue)} /\ queue' = Tail(queue)
    BY <1>2, <2>2, RangeOfTail
  <2> QED
    BY <2>1, <2>2
<1>4. Capacity \in Nat /\ newest \in Nat /\ Len(queue') \in Nat
  BY <1>3, BoundsAssumption DEF IInv, Typed, TypeOK
<1>5. TypeOK'
  BY <1>1, <1>2, <1>3, <1>4 DEF IInv, Typed, TypeOK
<1>6. Typed'
  BY <1>5 DEF IInv, Typed, EventInHand
<1>7. Mutex' /\ Complete' /\ Remembered'
  BY MutexKept, OthersKeep DEF IInv
<1>8. InQueue'
  BY <1>2, <1>3, <1>4 DEF IInv, InQueue
<1>9. EverySubscriberSees'
  BY <1>3 DEF IInv, EverySubscriberSees
<1> QED
  BY <1>6, <1>7, <1>8, <1>9 DEF IInv

LEMMA CrashKeeps ==
  ASSUME IInv, Crash
  PROVE  IInv'
<1> USE DEF Crash
<1>1. /\ Len(<< >>) = 0 /\ \A S : << >> \in Seq(S)
      /\ Capacity \in Nat /\ MaxMem \in Nat /\ newest \in Nat /\ MaxLeft \in Nat
  BY EmptySeq, BoundsAssumption DEF IInv, Typed, TypeOK
<1>2. TypeOK'
  BY <1>1 DEF IInv, Typed, TypeOK
<1>3. Typed'
  BY <1>2 DEF IInv, Typed, EventInHand
<1>4. Mutex'
  BY NoneAssumption DEF Mutex
<1>5. Complete'
  BY DEF IInv, Complete, Kept
<1>6. Remembered'
  BY DEF IInv, Typed, Remembered
<1>7. InQueue' /\ EverySubscriberSees'
  BY <1>1 DEF InQueue, EverySubscriberSees, Actors
<1> QED
  BY <1>3, <1>4, <1>5, <1>6, <1>7 DEF IInv

LEMMA Steps == IInv /\ [Next]_vars => IInv'
<1> SUFFICES ASSUME IInv, [Next]_vars PROVE IInv'
  OBVIOUS
<1>1. CASE UNCHANGED vars
  BY <1>1 DEF vars, IInv, Typed, TypeOK, EventInHand, Mutex, Complete, Kept,
              Remembered, InQueue, EverySubscriberSees
<1> QED
  BY <1>1, ChangeRegistryKeeps, ImportRefusedKeeps, AppendKeeps, SubscribeKeeps,
     TakeKeeps, HandOverKeeps, QuitForwarderKeeps, CrashKeeps DEF Next

LEMMA Always == Spec => []IInv
BY Initially, Steps, PTL DEF Spec

-----------------------------------------------------------------------------
\* Every change whose administrator was told of success has its event in the
\* file, however many admin requests and streams append and whenever the process
\* crashes, as long as the file could be read and written.
THEOREM HistoryIsComplete == Spec => []CompleteUnlessDamaged
<1>1. IInv => CompleteUnlessDamaged
  BY DEF IInv, Complete, Kept, CompleteUnlessDamaged
<1> QED
  BY <1>1, Always, PTL

\* The memory a new subscriber is sent is the end of the file, as long as the
\* process has not restarted, for any size of the memory; and every variable
\* keeps its type.
THEOREM MemoryIsEndOfFile == Spec => []MemoryIsTail
<1>1. IInv => MemoryIsTail
  BY DEF IInv, Typed, Remembered, MemoryIsTail
<1> QED
  BY <1>1, Always, PTL

\* A subscriber that is alone, with a channel that has room for every change, is
\* sent or will be sent every change since it subscribed that no forwarder of an
\* ended stream has taken.
THEOREM NothingIsMissed == Spec => []EverySubscriberSees
<1>1. IInv => EverySubscriberSees
  BY DEF IInv
<1> QED
  BY <1>1, Always, PTL
=============================================================================
