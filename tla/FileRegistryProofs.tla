------------------------- MODULE FileRegistryProofs -------------------------
(***************************************************************************)
(* Proofs about FileRegistry, for any goroutines, APIs, endpoints, values, *)
(* capacity of the channel and number of crashes: the file holds what was  *)
(* acknowledged, the map agrees with the file, and changes are announced   *)
(* in order.                                                               *)
(***************************************************************************)
EXTENDS FileRegistry, SequenceTheorems, TLAPS

EndpointOps == {"addEndpoint", "updateEndpoint", "removeEndpoint"}
ValueOps == {"register", "update", "import", "addEndpoint", "updateEndpoint"}

\* The arguments a call needs are there.
HasArguments(r) ==
  /\ r.op \in Changing \cup {"import"} => r.id \in Ids
  /\ r.op \in EndpointOps => r.ep \in Endpoints
  /\ r.op \in ValueOps => r.value \in Values

OpNames == {"register", "update", "delete", "addEndpoint", "updateEndpoint",
            "removeEndpoint", "import", "reload", "close", "none"}

Calls == [op : OpNames, id : Ids \cup {None}, ep : Endpoints \cup {None},
          value : Values \cup {None}, overwrite : BOOLEAN, upstream : BOOLEAN]

Serving ==
  \A g \in Goroutines :
    /\ pc[g] # "idle" => HasArguments(request[g])
    /\ pc[g] = "exists" => request[g].op = "import"
    /\ pc[g] \in {"save", "notify"} => request[g].op \in Changing

Typed ==
  /\ TypeOK
  /\ request \in [Goroutines -> Calls] /\ number \in [Goroutines -> Nat]
  /\ last \in Nat /\ received \in Nat /\ received <= last
  /\ Serving

\* Whoever is in the middle of a change or a reload holds the mutex; before the
\* process serves, one goroutine loads the file and no other does anything.
Mutex ==
  /\ \A g \in Goroutines :
       /\ pc[g] \in {"save", "notify"} => owner = g
       /\ pc[g] = "load" /\ serving => owner = g
  /\ owner # None => serving /\ pc[owner] \in {"save", "notify", "load"}
  /\ ~serving =>
       /\ \A g \in Goroutines : pc[g] \in {"idle", "load"}
       /\ \A g, h \in Goroutines : pc[g] = "load" /\ pc[h] = "load" => g = h

\* What the map, the file and the administrators know of each other, by where
\* the holder of the mutex is.  A process that has not read the file knows less
\* of it, until it replaces it.
Agree ==
  /\ ~serving => apis = NoApis
  /\ owner = None => disk = acked
  /\ serving /\ owner = None /\ ~unread => apis = disk
  /\ \A g \in Goroutines :
       /\ pc[g] = "save" =>
            /\ disk = acked
            /\ ~unread => /\ Valid(disk, request[g])
                          /\ apis = Changed(disk, request[g])
       /\ pc[g] = "notify" =>
            ~unread /\ apis = disk /\ disk = Changed(acked, request[g])
       /\ pc[g] = "load" /\ serving => disk = acked

\* The channel is in order, and behind it is the change under way.
Ordered ==
  /\ \A i, j \in 1..Len(changes) : i < j => changes[i] < changes[j]
  /\ \A i \in 1..Len(changes) : received < changes[i]
  /\ \A g \in Goroutines :
       pc[g] \in {"save", "notify"} =>
         /\ number[g] = last /\ received < last
         /\ \A i \in 1..Len(changes) : changes[i] < last

IInv == Typed /\ Mutex /\ (~dirty => Agree) /\ Ordered

-----------------------------------------------------------------------------
(* Registries.                                                             *)

EndpointMaps == UNION {[E -> Values] : E \in SUBSET Endpoints}

LEMMA IsCatalog ==
  ASSUME NEW cat
  PROVE  cat \in Catalogs <=>
           /\ DOMAIN cat \subseteq Ids
           /\ cat = [i \in DOMAIN cat |-> cat[i]]
           /\ \A i \in DOMAIN cat : cat[i] \in Api
BY DEF Catalogs

LEMMA IsEndpointMap ==
  ASSUME NEW eps
  PROVE  eps \in EndpointMaps <=>
           /\ DOMAIN eps \subseteq Endpoints
           /\ eps = [i \in DOMAIN eps |-> eps[i]]
           /\ \A i \in DOMAIN eps : eps[i] \in Values
BY DEF EndpointMaps

LEMMA ApiType == Api = [value : Values, endpoints : EndpointMaps]
BY DEF Api, EndpointMaps

LEMMA NoApisType == NoApis \in Catalogs /\ NoApis \in EndpointMaps
<1>1. DOMAIN NoApis = {} BY DEF NoApis
<1> QED BY <1>1, IsCatalog, IsEndpointMap DEF NoApis

LEMMA PutType ==
  /\ \A cat \in Catalogs, i \in Ids, a \in Api : Put(cat, i, a) \in Catalogs
  /\ \A eps \in EndpointMaps, e \in Endpoints, v \in Values :
       Put(eps, e, v) \in EndpointMaps
<1>1. ASSUME NEW cat \in Catalogs, NEW i \in Ids, NEW a \in Api
      PROVE  Put(cat, i, a) \in Catalogs
  BY IsCatalog DEF Put
<1>2. ASSUME NEW eps \in EndpointMaps, NEW e \in Endpoints, NEW v \in Values
      PROVE  Put(eps, e, v) \in EndpointMaps
  BY IsEndpointMap DEF Put
<1> QED BY <1>1, <1>2

LEMMA DropType ==
  /\ \A cat \in Catalogs : \A i : Drop(cat, i) \in Catalogs
  /\ \A eps \in EndpointMaps : \A e : Drop(eps, e) \in EndpointMaps
BY IsCatalog, IsEndpointMap DEF Drop

LEMMA WithEndpointsType ==
  ASSUME NEW cat \in Catalogs, NEW r,
         NEW eps, r.id \in DOMAIN cat => eps \in EndpointMaps
  PROVE  WithEndpoints(cat, r, eps) \in Catalogs
<1>1. /\ DOMAIN cat \subseteq Ids /\ \A i \in DOMAIN cat : cat[i] \in Api
  BY IsCatalog
<1>2. \A i \in DOMAIN cat : WithEndpoints(cat, r, eps)[i] \in Api
  BY <1>1, ApiType DEF WithEndpoints
<1> QED BY <1>1, <1>2, IsCatalog DEF WithEndpoints

\* A change keeps a registry a registry, also when its API is not there.
LEMMA ChangedType ==
  ASSUME NEW cat \in Catalogs, NEW r, r.op \in Changing, HasArguments(r)
  PROVE  Changed(cat, r) \in Catalogs
<1>1. \A i \in DOMAIN cat : cat[i] \in Api /\ cat[i].endpoints \in EndpointMaps
  BY IsCatalog, ApiType
<1>2. CASE r.op = "register"
  <2>1. [value |-> r.value, endpoints |-> NoApis] \in Api
    BY <1>2, NoApisType, ApiType DEF HasArguments, ValueOps
  <2> QED BY <1>2, <2>1, PutType DEF Changed, Registered, HasArguments
<1>3. CASE r.op = "update"
  <2>1. \A i \in DOMAIN cat : [cat EXCEPT ![r.id].value = r.value][i] \in Api
    BY <1>1, <1>3, ApiType, IsCatalog DEF HasArguments, ValueOps
  <2>2. [cat EXCEPT ![r.id].value = r.value] \in Catalogs
    BY <2>1, IsCatalog
  <2> QED BY <1>3, <2>2 DEF Changed, Updated
<1>4. CASE r.op = "delete"
  BY <1>4, DropType DEF Changed
<1>5. CASE r.op = "removeEndpoint"
  <2>1. r.id \in DOMAIN cat => Drop(cat[r.id].endpoints, r.ep) \in EndpointMaps
    BY <1>1, DropType
  <2> QED BY <1>5, <2>1, WithEndpointsType DEF Changed, WithoutEndpoint
<1>6. CASE r.op \in {"addEndpoint", "updateEndpoint"}
  <2>1. r.id \in DOMAIN cat =>
          Put(cat[r.id].endpoints, r.ep, r.value) \in EndpointMaps
    BY <1>1, <1>6, PutType DEF HasArguments, EndpointOps, ValueOps
  <2>2. Changed(cat, r) =
          WithEndpoints(cat, r, Put(cat[r.id].endpoints, r.ep, r.value))
    BY <1>6 DEF Changed, WithEndpoint
  <2> QED BY <2>1, <2>2, WithEndpointsType
<1> QED BY <1>2, <1>3, <1>4, <1>5, <1>6 DEF Changing

LEMMA RolledBackType ==
  ASSUME NEW cat \in Catalogs, NEW r
  PROVE  RolledBack(cat, r) \in Catalogs
<1>1. \A i \in DOMAIN cat : cat[i].endpoints \in EndpointMaps
  BY IsCatalog, ApiType
<1>2. r.id \in DOMAIN cat => Drop(cat[r.id].endpoints, r.ep) \in EndpointMaps
  BY <1>1, DropType
<1> QED BY <1>2, DropType, WithEndpointsType DEF RolledBack, WithoutEndpoint

\* Rolling back an addition that was valid gives the registry there was before.
LEMMA RollbackUndoes ==
  ASSUME NEW cat \in Catalogs, NEW r, HasArguments(r), Valid(cat, r),
         r.op \in {"register", "addEndpoint"}
  PROVE  RolledBack(Changed(cat, r), r) = cat
<1>1. cat = [i \in DOMAIN cat |-> cat[i]] BY IsCatalog
<1>2. CASE r.op = "register"
  <2>1. r.id \notin DOMAIN cat BY <1>2 DEF Valid
  <2>2. DOMAIN Changed(cat, r) = DOMAIN cat \cup {r.id}
    BY <1>2 DEF Changed, Registered, Put
  <2>3. \A i \in DOMAIN cat : Changed(cat, r)[i] = cat[i]
    BY <1>2, <2>1 DEF Changed, Registered, Put
  <2>4. DOMAIN Changed(cat, r) \ {r.id} = DOMAIN cat BY <2>1, <2>2
  <2>5. RolledBack(Changed(cat, r), r) = Drop(Changed(cat, r), r.id)
    BY <1>2 DEF RolledBack
  <2> QED BY <1>1, <2>3, <2>4, <2>5 DEF Drop
<1>3. CASE r.op = "addEndpoint"
  <2> DEFINE eps == cat[r.id].endpoints
             more == Put(eps, r.ep, r.value)
             now == Changed(cat, r)
  <2>1. r.id \in DOMAIN cat /\ r.ep \notin DOMAIN eps BY <1>3 DEF Valid
  <2>2. cat[r.id] \in Api BY <2>1, IsCatalog
  <2>3. /\ eps \in EndpointMaps
        /\ cat[r.id] = [value |-> cat[r.id].value, endpoints |-> eps]
    BY <2>2, ApiType
  <2>4. Drop(more, r.ep) = eps
    <3>1. eps = [e \in DOMAIN eps |-> eps[e]] BY <2>3, IsEndpointMap
    <3>2. DOMAIN more \ {r.ep} = DOMAIN eps BY <2>1 DEF Put
    <3>3. \A e \in DOMAIN eps : more[e] = eps[e] BY <2>1 DEF Put
    <3> HIDE DEF eps, more
    <3> QED BY <3>1, <3>2, <3>3 DEF Drop
  <2>5. now = WithEndpoints(cat, r, more) BY <1>3 DEF Changed, WithEndpoint
  <2>6. /\ DOMAIN now = DOMAIN cat
        /\ now[r.id] = [value |-> cat[r.id].value, endpoints |-> more]
        /\ \A i \in DOMAIN cat : i # r.id => now[i] = cat[i]
    BY <1>1, <2>1, <2>5 DEF WithEndpoints
  <2>7. RolledBack(now, r) = WithEndpoints(now, r, Drop(more, r.ep))
    BY <1>3, <2>6 DEF RolledBack, WithoutEndpoint
  <2>8. \A i \in DOMAIN cat : WithEndpoints(now, r, eps)[i] = cat[i]
    BY <2>1, <2>3, <2>6 DEF WithEndpoints
  <2>9. WithEndpoints(now, r, eps) =
          [i \in DOMAIN cat |-> WithEndpoints(now, r, eps)[i]]
    BY <2>6 DEF WithEndpoints
  <2> HIDE DEF eps, more, now
  <2>10. WithEndpoints(now, r, eps) = cat BY <1>1, <2>8, <2>9
  <2> QED BY <2>4, <2>7, <2>10 DEF now
<1> QED BY <1>2, <1>3

-----------------------------------------------------------------------------
(* Steps.                                                                  *)

LEMMA InitIInv == Init => IInv
<1> SUFFICES ASSUME Init PROVE IInv OBVIOUS
<1>1. Typed
  <2>1. TypeOK
    <3>1. changes \in Seq(1..last) /\ Len(changes) <= Capacity
      BY BoundsAssumption DEF Init
    <3>2. /\ pc \in [Goroutines ->
                     {"load", "idle", "exists", "lock", "save", "notify"}]
          /\ reply \in [Goroutines -> {"none", "ok", "error", "panic"}]
      BY DEF Init
    <3> QED BY <3>1, <3>2, NoApisType DEF Init, TypeOK
  <2>2. request \in [Goroutines -> Calls]
    BY DEF Init, NoRequest, Calls, OpNames
  <2>3. \A g \in Goroutines : pc[g] \in {"load", "idle"} BY DEF Init
  <2>4. Serving
    BY <2>3 DEF Init, Serving, NoRequest, HasArguments, EndpointOps, ValueOps,
                Changing
  <2> QED BY <2>1, <2>2, <2>4 DEF Init, Typed
<1>2. Mutex BY DEF Init, Mutex
<1>3. Agree BY DEF Init, Agree
<1>4. Ordered BY DEF Init, Ordered
<1> QED BY <1>1, <1>2, <1>3, <1>4 DEF IInv

\* A call's arguments are those it needs.
LEMMA RequestArguments ==
  ASSUME NEW r \in Requests
  PROVE  r \in Calls /\ HasArguments(r)
BY OpsAssumption
   DEF Requests, Calls, OpNames, HasArguments, EndpointOps, ValueOps, Changing

\* A goroutine moves.
LEMMA Moves ==
  ASSUME Typed, NEW g \in Goroutines, NEW from,
         NEW to \in {"load", "idle", "exists", "lock", "save", "notify"},
         Goto(g, from, to)
  PROVE  /\ pc[g] = from /\ pc'[g] = to
         /\ \A h \in Goroutines \ {g} : pc'[h] = pc[h]
         /\ pc' \in [Goroutines ->
                      {"load", "idle", "exists", "lock", "save", "notify"}]
BY DEF Typed, TypeOK, Goto

\* A call that returns.
LEMMA Replies ==
  ASSUME Typed, NEW g \in Goroutines, NEW from,
         NEW r \in {"ok", "error", "panic"}, Reply(g, from, r)
  PROVE  /\ pc[g] = from /\ pc'[g] = "idle"
         /\ \A h \in Goroutines \ {g} :
              pc'[h] = pc[h] /\ request'[h] = request[h] /\ number'[h] = number[h]
         /\ pc' \in [Goroutines ->
                      {"load", "idle", "exists", "lock", "save", "notify"}]
         /\ reply' \in [Goroutines -> {"none", "ok", "error", "panic"}]
         /\ request' \in [Goroutines -> Calls]
         /\ number' \in [Goroutines -> Nat]
         /\ Serving'
<1>1. /\ pc[g] = from /\ pc'[g] = "idle"
      /\ \A h \in Goroutines \ {g} : pc'[h] = pc[h]
      /\ pc' \in [Goroutines ->
                   {"load", "idle", "exists", "lock", "save", "notify"}]
  BY Moves DEF Reply
<1>2. /\ reply' \in [Goroutines -> {"none", "ok", "error", "panic"}]
      /\ number' \in [Goroutines -> Nat]
      /\ \A h \in Goroutines \ {g} : number'[h] = number[h]
  BY DEF Typed, TypeOK, Reply
<1>3. /\ request' \in [Goroutines -> Calls]
      /\ \A h \in Goroutines \ {g} : request'[h] = request[h]
  <2>1. NoRequest \in Calls BY DEF NoRequest, Calls, OpNames
  <2> QED BY <2>1 DEF Typed, Reply
<1>4. Serving' BY <1>1, <1>3 DEF Typed, Serving
<1> QED BY <1>1, <1>2, <1>3, <1>4

\* The steps of one goroutine that leave the mutex and those who are working
\* under it alone.
LEMMA Apart ==
  ASSUME IInv, NEW g \in Goroutines, UNCHANGED <<store, owner, serving, acked>>,
         UNCHANGED <<channel, last, unread>>,
         pc[g] \in {"idle", "exists", "lock"},
         pc'[g] \in {"idle", "exists", "lock"}, serving,
         \A h \in Goroutines \ {g} :
           pc'[h] = pc[h] /\ request'[h] = request[h] /\ number'[h] = number[h]
  PROVE  Mutex' /\ (Agree => Agree') /\ Ordered'
<1>1. Mutex' BY DEF IInv, Mutex, Typed, TypeOK
<1>2. Agree => Agree' BY DEF Agree, store
<1>3. Ordered' BY DEF IInv, Ordered, channel
<1> QED BY <1>1, <1>2, <1>3

\* Nobody is in a call before the process serves.
LEMMA InCallServing ==
  ASSUME IInv, NEW g \in Goroutines, pc[g] \notin {"idle", "load"}
  PROVE  serving
BY DEF IInv, Mutex

LEMMA CallStep ==
  ASSUME IInv, NEW g \in Goroutines, NEW r \in Requests, Call(g, r)
  PROVE  IInv'
<1>1. /\ serving /\ pc[g] = "idle" /\ pc'[g] \in {"exists", "lock"}
      /\ pc'[g] = "exists" => r.op = "import"
      /\ \A h \in Goroutines \ {g} : pc'[h] = pc[h]
      /\ pc' \in [Goroutines ->
                   {"load", "idle", "exists", "lock", "save", "notify"}]
  <2>1. Goto(g, "idle", IF r.op = "import" THEN "exists" ELSE "lock") /\ serving
    BY DEF Call
  <2> QED BY <2>1, Moves DEF IInv
<1>2. /\ request' \in [Goroutines -> Calls] /\ request'[g] = r
      /\ \A h \in Goroutines \ {g} : request'[h] = request[h]
  BY RequestArguments DEF Call, IInv, Typed
<1>3. reply' \in [Goroutines -> {"none", "ok", "error", "panic"}]
  BY DEF Call, IInv, Typed, TypeOK
<1>4. UNCHANGED <<store, owner, channel, serving, number, last, acked, crashes,
                  unread, dirty>>
  BY DEF Call
<1>5. Serving' BY <1>1, <1>2, RequestArguments DEF IInv, Typed, Serving
<1>6. Typed'
  BY <1>1, <1>2, <1>3, <1>4, <1>5 DEF IInv, Typed, TypeOK, store, channel
<1>7. Mutex' /\ (Agree => Agree') /\ Ordered' BY <1>1, <1>2, <1>4, Apart
<1> QED BY <1>4, <1>6, <1>7 DEF IInv

LEMMA ImportStep ==
  ASSUME IInv, NEW g \in Goroutines, NEW o \in {"update", "register"},
         Goto(g, "exists", "lock"),
         request' = [request EXCEPT ![g].op = o],
         UNCHANGED <<store, owner, channel, serving, reply, number, last, acked,
                     crashes, unread, dirty>>
  PROVE  IInv'
<1>1. /\ pc[g] = "exists" /\ pc'[g] = "lock"
      /\ \A h \in Goroutines \ {g} : pc'[h] = pc[h]
      /\ pc' \in [Goroutines ->
                   {"load", "idle", "exists", "lock", "save", "notify"}]
  BY Moves DEF IInv
<1>2. /\ request' \in [Goroutines -> Calls]
      /\ request'[g] = [request[g] EXCEPT !.op = o]
      /\ \A h \in Goroutines \ {g} : request'[h] = request[h]
  BY DEF IInv, Typed, Calls, OpNames
<1>3. HasArguments(request'[g])
  BY <1>1, <1>2 DEF IInv, Typed, Serving, HasArguments, Calls, Changing,
                    EndpointOps, ValueOps
<1>4. Serving' BY <1>1, <1>2, <1>3 DEF IInv, Typed, Serving
<1>5. Typed' BY <1>1, <1>2, <1>4 DEF IInv, Typed, TypeOK, store, channel
<1>6. serving BY <1>1, InCallServing
<1>7. Mutex' /\ (Agree => Agree') /\ Ordered' BY <1>1, <1>2, <1>6, Apart
<1> QED BY <1>5, <1>7 DEF IInv

\* A call that is refused, or closes the channel.
LEMMA EndsStep ==
  ASSUME IInv, NEW g \in Goroutines, NEW from \in {"exists", "lock"},
         NEW r \in {"ok", "error"}, Reply(g, from, r),
         UNCHANGED <<store, owner, changes, received, serving, last, acked,
                     crashes, unread, dirty>>,
         closed' \in BOOLEAN
  PROVE  IInv'
<1>1. /\ pc[g] = from /\ pc'[g] = "idle"
      /\ \A h \in Goroutines \ {g} :
           pc'[h] = pc[h] /\ request'[h] = request[h] /\ number'[h] = number[h]
      /\ pc' \in [Goroutines ->
                   {"load", "idle", "exists", "lock", "save", "notify"}]
      /\ reply' \in [Goroutines -> {"none", "ok", "error", "panic"}]
      /\ request' \in [Goroutines -> Calls]
      /\ number' \in [Goroutines -> Nat]
      /\ Serving'
  BY Replies DEF IInv
<1>2. serving BY <1>1, InCallServing
<1>3. Typed' BY <1>1 DEF IInv, Typed, TypeOK, store
<1>4. Mutex' BY <1>1, <1>2 DEF IInv, Mutex, Typed, TypeOK
<1>5. Agree => Agree' BY <1>1 DEF Agree, store
<1>6. Ordered' BY <1>1 DEF IInv, Ordered
<1> QED BY <1>3, <1>4, <1>5, <1>6 DEF IInv

-----------------------------------------------------------------------------
(* A change, under the mutex.                                              *)

LEMMA ChangeStep ==
  ASSUME IInv, NEW g \in Goroutines, Change(g)
  PROVE  IInv'
<1>1. /\ pc[g] = "lock" /\ pc'[g] = "save"
      /\ \A h \in Goroutines \ {g} : pc'[h] = pc[h]
      /\ pc' \in [Goroutines ->
                   {"load", "idle", "exists", "lock", "save", "notify"}]
  BY Moves DEF Change, IInv
<1>2. /\ owner = None /\ owner' = g
      /\ request[g].op \in Changing /\ Valid(apis, request[g])
      /\ apis' = Changed(apis, request[g])
      /\ last' = last + 1
      /\ number' = [number EXCEPT ![g] = last + 1]
      /\ UNCHANGED <<disk, channel, serving, request, reply, acked, crashes,
                     unread, dirty>>
  BY DEF Change
<1>3. serving BY <1>1, InCallServing
<1>4. \A h \in Goroutines : pc[h] \notin {"save", "notify", "load"}
  BY <1>2, <1>3, NobodyAssumption DEF IInv, Mutex
<1>5. Typed'
  <2>1. apis' \in Catalogs
    BY <1>1, <1>2, ChangedType DEF IInv, Typed, TypeOK, Serving
  <2>2. changes \in Seq(1..last')
    <3>1. 1..last \subseteq 1..last' BY <1>2 DEF IInv, Typed
    <3> QED BY <3>1, SeqMonotonic DEF IInv, Typed, TypeOK
  <2>3. Serving' BY <1>1, <1>2 DEF IInv, Typed, Serving
  <2>4. number' \in [Goroutines -> Nat] BY <1>2 DEF IInv, Typed
  <2> QED BY <1>1, <1>2, <2>1, <2>2, <2>3, <2>4
          DEF IInv, Typed, TypeOK, channel
<1>6. Mutex' BY <1>1, <1>2, <1>3, <1>4 DEF Mutex
<1>7. Agree => Agree' BY <1>1, <1>2, <1>3, <1>4, NobodyAssumption DEF Agree
<1>8. Ordered'
  <2>1. \A i \in 1..Len(changes) : changes[i] \in 1..last
    BY ElementOfSeq DEF IInv, Typed, TypeOK
  <2>2. number'[g] = last' /\ last \in Nat /\ received \in Nat /\ received <= last
    BY <1>2 DEF IInv, Typed
  <2>3. \A h \in Goroutines : pc'[h] \in {"save", "notify"} => h = g
    BY <1>1, <1>4
  <2>4. \A i \in 1..Len(changes) : changes[i] < last' BY <1>2, <2>1, <2>2
  <2>5. received < last' BY <1>2, <2>2
  <2> QED BY <1>2, <2>2, <2>3, <2>4, <2>5 DEF IInv, Ordered, channel
<1> QED BY <1>2, <1>5, <1>6, <1>7, <1>8 DEF IInv

\* Whoever saves or announces is the only one working under the mutex.
LEMMA Alone ==
  ASSUME IInv, NEW g \in Goroutines, pc[g] \in {"save", "notify"}
  PROVE  /\ owner = g /\ serving /\ owner # None
         /\ request[g].op \in Changing /\ HasArguments(request[g])
         /\ \A h \in Goroutines \ {g} : pc[h] \in {"idle", "exists", "lock"}
BY NobodyAssumption DEF IInv, Mutex, Typed, TypeOK, Serving

LEMMA SaveStep ==
  ASSUME IInv, NEW g \in Goroutines, Save(g)
  PROVE  IInv'
<1>1. /\ pc[g] = "save" /\ pc'[g] = "notify"
      /\ \A h \in Goroutines \ {g} : pc'[h] = pc[h]
      /\ pc' \in [Goroutines ->
                   {"load", "idle", "exists", "lock", "save", "notify"}]
  BY Moves DEF Save, IInv
<1>2. /\ disk' = apis /\ dirty' = (dirty \/ unread)
      /\ UNCHANGED <<apis, owner, channel, serving, request, reply, number, last,
                     acked, crashes, unread>>
  BY DEF Save
<1>3. /\ owner = g /\ serving /\ owner # None
      /\ request[g].op \in Changing /\ HasArguments(request[g])
      /\ \A h \in Goroutines \ {g} : pc[h] \in {"idle", "exists", "lock"}
  BY <1>1, Alone
<1>4. Typed' BY <1>1, <1>2 DEF IInv, Typed, TypeOK, Serving, channel
<1>5. Mutex' BY <1>1, <1>2, <1>3 DEF IInv, Mutex
<1>6. ASSUME ~dirty' PROVE Agree'
  <2>1. Agree /\ ~unread BY <1>2, <1>6 DEF IInv
  <2> QED BY <1>1, <1>2, <1>3, <2>1 DEF Agree
<1>7. Ordered' BY <1>1, <1>2 DEF IInv, Ordered, channel
<1> QED BY <1>2, <1>4, <1>5, <1>6, <1>7 DEF IInv

\* The end of a change gives the mutex back.
LEMMA Released ==
  ASSUME IInv, NEW g \in Goroutines, NEW from \in {"save", "notify"},
         NEW r \in {"ok", "error", "panic"}, Reply(g, from, r), owner' = None,
         UNCHANGED serving
  PROVE  /\ Mutex' /\ serving'
         /\ \A h \in Goroutines : pc'[h] \in {"idle", "exists", "lock"}
<1>1. /\ pc[g] = from /\ pc'[g] = "idle"
      /\ \A h \in Goroutines \ {g} : pc'[h] = pc[h]
  BY Replies DEF IInv
<1>2. serving /\ \A h \in Goroutines \ {g} : pc[h] \in {"idle", "exists", "lock"}
  BY <1>1, Alone
<1> QED BY <1>1, <1>2 DEF Mutex

LEMMA SaveFailsStep ==
  ASSUME IInv, NEW g \in Goroutines, SaveFails(g)
  PROVE  IInv'
<1>1. /\ Reply(g, "save", "error")
      /\ apis' = RolledBack(apis, request[g])
      /\ owner' = None
      /\ dirty' = (dirty \/ request[g].op \notin {"register", "addEndpoint"})
      /\ UNCHANGED <<disk, channel, serving, last, acked, crashes, unread>>
  BY DEF SaveFails
<1>2. /\ Mutex' /\ serving'
      /\ \A h \in Goroutines : pc'[h] \in {"idle", "exists", "lock"}
  BY <1>1, Released
<1>3. Typed'
  <2>1. apis' \in Catalogs BY <1>1, RolledBackType DEF IInv, Typed, TypeOK
  <2>2. /\ pc' \in [Goroutines ->
                     {"load", "idle", "exists", "lock", "save", "notify"}]
        /\ reply' \in [Goroutines -> {"none", "ok", "error", "panic"}]
        /\ request' \in [Goroutines -> Calls]
        /\ number' \in [Goroutines -> Nat]
        /\ Serving'
    BY <1>1, Replies DEF IInv
  <2>3. dirty' \in BOOLEAN BY <1>1 DEF IInv, Typed, TypeOK
  <2> QED BY <1>1, <2>1, <2>2, <2>3 DEF IInv, Typed, TypeOK, channel
<1>4. ASSUME ~dirty' PROVE Agree'
  <2>1. ~dirty /\ request[g].op \in {"register", "addEndpoint"} BY <1>1, <1>4
  <2>2. pc[g] = "save" BY <1>1 DEF Reply, Goto
  <2>3. /\ disk = acked
        /\ ~unread => /\ Valid(disk, request[g])
                      /\ apis = Changed(disk, request[g])
    BY <2>1, <2>2 DEF IInv, Agree
  <2>4. HasArguments(request[g]) BY <2>2, Alone
  <2>5. ~unread => RolledBack(apis, request[g]) = disk
    BY <2>1, <2>3, <2>4, RollbackUndoes DEF IInv, Typed, TypeOK
  <2> QED BY <1>1, <1>2, <2>3, <2>5 DEF Agree
<1>5. Ordered' BY <1>1, <1>2 DEF IInv, Ordered, channel
<1> QED BY <1>2, <1>3, <1>4, <1>5 DEF IInv

\* An announcement keeps the channel in order: it is newer than all in it.
LEMMA AnnouncedInOrder ==
  ASSUME IInv, NEW g \in Goroutines, pc[g] = "notify"
  PROVE  LET new == Announced(changes, number[g])
         IN  /\ new \in Seq(1..last) /\ Len(new) <= Capacity
             /\ \A i, j \in 1..Len(new) : i < j => new[i] < new[j]
             /\ \A i \in 1..Len(new) : received < new[i]
<1> DEFINE new == Announced(changes, number[g])
<1>1. /\ number[g] = last /\ received < last /\ last \in Nat /\ received \in Nat
      /\ \A i \in 1..Len(changes) : changes[i] < last
      /\ \A i, j \in 1..Len(changes) : i < j => changes[i] < changes[j]
      /\ \A i \in 1..Len(changes) : received < changes[i]
      /\ changes \in Seq(1..last) /\ Len(changes) \in Nat
      /\ Len(changes) <= Capacity /\ Capacity \in Nat
  BY BoundsAssumption DEF IInv, Ordered, Typed, TypeOK
<1>2. CASE Len(changes) < Capacity
  <2>1. new = Append(changes, last) BY <1>1, <1>2 DEF Announced
  <2>2. /\ new \in Seq(1..last) /\ Len(new) = Len(changes) + 1
        /\ \A i \in 1..Len(changes) : new[i] = changes[i]
        /\ new[Len(changes) + 1] = last
    BY <1>1, <2>1, AppendProperties
  <2>3. \A i \in 1..Len(new) : i \in 1..Len(changes) \/ i = Len(changes) + 1
    BY <1>1, <2>2
  <2> HIDE DEF new
  <2>4. \A i, j \in 1..Len(new) : i < j => new[i] < new[j]
    <3> SUFFICES ASSUME NEW i \in 1..Len(new), NEW j \in 1..Len(new), i < j
                 PROVE  new[i] < new[j]
      OBVIOUS
    <3>1. i \in 1..Len(changes) BY <1>1, <2>2
    <3> QED BY <1>1, <2>2, <2>3, <3>1
  <2>5. \A i \in 1..Len(new) : received < new[i] BY <1>1, <2>2, <2>3
  <2>6. Len(new) <= Capacity BY <1>1, <1>2, <2>2
  <2> QED BY <2>2, <2>4, <2>5, <2>6 DEF new
<1>3. CASE ~(Len(changes) < Capacity)
  BY <1>1, <1>3 DEF Announced
<1> QED BY <1>2, <1>3

\* The change is announced, or the channel has been closed.
LEMMA NotifyStep ==
  ASSUME IInv, NEW g \in Goroutines, Notify(g) \/ NotifyPanics(g)
  PROVE  IInv'
<1>1. PICK r \in {"ok", "panic"} : Reply(g, "notify", r)
  BY DEF Notify, NotifyPanics
<1>2. /\ owner' = None /\ acked' = Changed(acked, request[g])
      /\ changes' \in {changes, Announced(changes, number[g])}
      /\ UNCHANGED <<store, closed, received, serving, last, crashes,
                     unread, dirty>>
  BY DEF Notify, NotifyPanics, channel
<1>3. pc[g] = "notify" BY <1>1 DEF Reply, Goto
<1>4. /\ Mutex' /\ serving'
      /\ \A h \in Goroutines : pc'[h] \in {"idle", "exists", "lock"}
  BY <1>1, <1>2, Released
<1>5. /\ changes' \in Seq(1..last) /\ Len(changes') <= Capacity
      /\ \A i, j \in 1..Len(changes') : i < j => changes'[i] < changes'[j]
      /\ \A i \in 1..Len(changes') : received < changes'[i]
  <2>1. CASE changes' = changes
    BY <2>1 DEF IInv, Typed, TypeOK, Ordered
  <2>2. CASE changes' = Announced(changes, number[g])
    BY <1>3, <2>2, AnnouncedInOrder
  <2> QED BY <1>2, <2>1, <2>2
<1>6. Typed'
  <2>1. acked' \in Catalogs
    BY <1>2, <1>3, Alone, ChangedType DEF IInv, Typed, TypeOK
  <2>2. /\ pc' \in [Goroutines ->
                     {"load", "idle", "exists", "lock", "save", "notify"}]
        /\ reply' \in [Goroutines -> {"none", "ok", "error", "panic"}]
        /\ request' \in [Goroutines -> Calls]
        /\ number' \in [Goroutines -> Nat]
        /\ Serving'
    BY <1>1, Replies DEF IInv
  <2> QED BY <1>2, <1>5, <2>1, <2>2 DEF IInv, Typed, TypeOK, store
<1>7. Agree => Agree' BY <1>2, <1>3, <1>4 DEF Agree, store
<1>8. Ordered' BY <1>2, <1>4, <1>5 DEF Ordered
<1> QED BY <1>2, <1>4, <1>6, <1>7, <1>8 DEF IInv

-----------------------------------------------------------------------------
(* Loading, and the channel's other end.                                   *)

\* main's Load finds an empty map; the one of a reload never gets the mutex.
LEMMA LoadStep ==
  ASSUME IInv, NEW g \in Goroutines, Load(g)
  PROVE  IInv'
<1>1. /\ Reply(g, "load", "ok") /\ owner = None
      /\ apis' = [i \in DOMAIN apis \cup DOMAIN disk |->
                    IF i \in DOMAIN disk THEN disk[i] ELSE apis[i]]
      /\ serving' = TRUE
      /\ UNCHANGED <<disk, owner, channel, last, acked, crashes, unread, dirty>>
  BY DEF Load
<1>2. /\ pc[g] = "load" /\ pc'[g] = "idle"
      /\ \A h \in Goroutines \ {g} :
           pc'[h] = pc[h] /\ request'[h] = request[h] /\ number'[h] = number[h]
      /\ pc' \in [Goroutines ->
                   {"load", "idle", "exists", "lock", "save", "notify"}]
      /\ reply' \in [Goroutines -> {"none", "ok", "error", "panic"}]
      /\ request' \in [Goroutines -> Calls]
      /\ number' \in [Goroutines -> Nat]
      /\ Serving'
  BY <1>1, Replies DEF IInv
<1>3. ~serving BY <1>1, <1>2, NobodyAssumption DEF IInv, Mutex
<1>4. \A h \in Goroutines : pc'[h] = "idle"
  BY <1>2, <1>3 DEF IInv, Mutex
<1>5. Typed'
  <2>1. apis' \in Catalogs
    <3>1. /\ DOMAIN apis \subseteq Ids /\ DOMAIN disk \subseteq Ids
          /\ \A i \in DOMAIN apis : apis[i] \in Api
          /\ \A i \in DOMAIN disk : disk[i] \in Api
      BY IsCatalog DEF IInv, Typed, TypeOK
    <3> QED BY <1>1, <3>1, IsCatalog
  <2> QED BY <1>1, <1>2, <2>1 DEF IInv, Typed, TypeOK, channel
<1>6. Mutex' BY <1>1, <1>4 DEF Mutex
<1>7. Agree => Agree'
  <2>1. Agree => apis' = disk
    <3> SUFFICES ASSUME Agree PROVE apis' = disk OBVIOUS
    <3>1. DOMAIN apis = {} BY <1>3 DEF Agree, NoApis
    <3>2. apis' = [i \in DOMAIN disk |-> disk[i]] BY <1>1, <3>1
    <3> QED BY <3>2, IsCatalog DEF IInv, Typed, TypeOK
  <2> QED BY <1>1, <1>4, <2>1 DEF Agree
<1>8. Ordered' BY <1>1, <1>4 DEF IInv, Ordered, channel
<1> QED BY <1>1, <1>5, <1>6, <1>7, <1>8 DEF IInv

\* A failed load leaves the map empty, and the file as the administrators know it.
LEMMA LoadFailsStep ==
  ASSUME IInv, NEW g \in Goroutines, LoadFails(g)
  PROVE  IInv'
<1>1. /\ Reply(g, "load", "error") /\ owner = None
      /\ serving' = TRUE /\ unread' = (disk # NoApis)
      /\ UNCHANGED <<store, owner, channel, last, acked, crashes, dirty>>
  BY DEF LoadFails
<1>2. /\ pc[g] = "load" /\ pc'[g] = "idle"
      /\ \A h \in Goroutines \ {g} :
           pc'[h] = pc[h] /\ request'[h] = request[h] /\ number'[h] = number[h]
      /\ pc' \in [Goroutines ->
                   {"load", "idle", "exists", "lock", "save", "notify"}]
      /\ reply' \in [Goroutines -> {"none", "ok", "error", "panic"}]
      /\ request' \in [Goroutines -> Calls]
      /\ number' \in [Goroutines -> Nat]
      /\ Serving'
  BY <1>1, Replies DEF IInv
<1>3. ~serving BY <1>1, <1>2, NobodyAssumption DEF IInv, Mutex
<1>4. \A h \in Goroutines : pc'[h] = "idle"
  BY <1>2, <1>3 DEF IInv, Mutex
<1>5. Typed' BY <1>1, <1>2 DEF IInv, Typed, TypeOK, channel, store
<1>6. Mutex' BY <1>1, <1>4 DEF Mutex
<1>7. Agree => Agree' BY <1>1, <1>3, <1>4 DEF Agree, store
<1>8. Ordered' BY <1>1, <1>4 DEF IInv, Ordered, channel
<1> QED BY <1>1, <1>5, <1>6, <1>7, <1>8 DEF IInv

LEMMA ReloadStep ==
  ASSUME IInv, NEW g \in Goroutines, Reload(g)
  PROVE  IInv'
<1>1. /\ pc[g] = "lock" /\ pc'[g] = "load"
      /\ \A h \in Goroutines \ {g} : pc'[h] = pc[h]
      /\ pc' \in [Goroutines ->
                   {"load", "idle", "exists", "lock", "save", "notify"}]
  BY Moves DEF Reload, IInv
<1>2. /\ owner = None /\ owner' = g /\ apis' = NoApis
      /\ UNCHANGED <<disk, channel, serving, request, reply, number, last, acked,
                     crashes, unread, dirty>>
  BY DEF Reload
<1>3. serving BY <1>1, InCallServing
<1>4. \A h \in Goroutines : pc[h] \notin {"save", "notify", "load"}
  BY <1>2, <1>3, NobodyAssumption DEF IInv, Mutex
<1>5. Typed'
  BY <1>1, <1>2, NoApisType DEF IInv, Typed, TypeOK, Serving, channel
<1>6. Mutex' BY <1>1, <1>2, <1>3, <1>4 DEF Mutex
<1>7. Agree => Agree' BY <1>1, <1>2, <1>3, <1>4, NobodyAssumption DEF Agree
<1>8. Ordered' BY <1>1, <1>2, <1>4 DEF IInv, Ordered, channel
<1> QED BY <1>2, <1>5, <1>6, <1>7, <1>8 DEF IInv

LEMMA ReceiveStep ==
  ASSUME IInv, Receive
  PROVE  IInv'
<1>0. /\ changes # << >> /\ received' = Head(changes) /\ changes' = Tail(changes)
      /\ UNCHANGED <<store, owner, closed, serving, pc, request, reply, number,
                     last, acked, crashes, unread, dirty>>
  BY DEF Receive
<1>1. /\ Len(changes) \in Nat \ {0}
      /\ \A i \in 1..Len(changes) : changes[i] \in 1..last
      /\ received' = changes[1] /\ changes' \in Seq(1..last)
      /\ Len(changes') = Len(changes) - 1
      /\ \A i \in 1..Len(changes') : changes'[i] = changes[i + 1]
  <2>1. changes \in Seq(1..last) /\ changes # << >>
    BY <1>0 DEF IInv, Typed, TypeOK
  <2>2. Len(changes) \in Nat \ {0} BY <2>1, EmptySeq, LenProperties
  <2>3. \A i \in 1..Len(changes) : changes[i] \in 1..last
    BY <2>1, ElementOfSeq
  <2> QED BY <1>0, <2>1, <2>2, <2>3, HeadTailProperties
<1>2. /\ last \in Nat /\ changes[1] \in 1..last /\ 1 \in 1..Len(changes)
      /\ \A i \in 1..Len(changes') : i + 1 \in 1..Len(changes) /\ 1 < i + 1
      /\ \A i, j \in 1..Len(changes) : i < j => changes[i] < changes[j]
  BY <1>1 DEF IInv, Typed, Ordered
<1>3. Typed'
  <2>1. Len(changes') <= Capacity
    BY <1>1, BoundsAssumption DEF IInv, Typed, TypeOK
  <2>2. received' \in Nat /\ received' <= last BY <1>1, <1>2
  <2> QED BY <1>0, <1>1, <2>1, <2>2 DEF IInv, Typed, TypeOK, Serving, store
<1>4. Mutex' BY <1>0 DEF IInv, Mutex
<1>5. Agree => Agree' BY <1>0 DEF Agree, store
<1>6. Ordered'
  <2>1. \A i, j \in 1..Len(changes') : i < j => changes'[i] < changes'[j]
    <3> SUFFICES ASSUME NEW i \in 1..Len(changes'), NEW j \in 1..Len(changes'),
                        i < j
                 PROVE  changes'[i] < changes'[j]
      OBVIOUS
    <3>1. i + 1 < j + 1 OBVIOUS
    <3> QED BY <1>1, <1>2, <3>1
  <2>2. \A i \in 1..Len(changes') : received' < changes'[i] BY <1>1, <1>2
  <2>3. ASSUME NEW g \in Goroutines, pc'[g] \in {"save", "notify"}
        PROVE  /\ number'[g] = last' /\ received' < last'
               /\ \A i \in 1..Len(changes') : changes'[i] < last'
    <3>1. /\ number[g] = last
          /\ \A i \in 1..Len(changes) : changes[i] < last
      BY <1>0, <2>3 DEF IInv, Ordered
    <3> QED BY <1>0, <1>1, <1>2, <3>1
  <2> QED BY <2>1, <2>2, <2>3 DEF Ordered
<1> QED BY <1>0, <1>3, <1>4, <1>5, <1>6 DEF IInv

LEMMA CrashStep ==
  ASSUME IInv, NEW main \in Goroutines, Crash(main)
  PROVE  IInv'
<1>1. /\ apis' = NoApis /\ owner' = None /\ changes' = << >> /\ closed' = FALSE
      /\ serving' = FALSE
      /\ pc' = [g \in Goroutines |-> IF g = main THEN "load" ELSE "idle"]
      /\ reply' = [g \in Goroutines |-> "none"]
      /\ request' = [g \in Goroutines |-> NoRequest]
      /\ number' = [g \in Goroutines |-> 0]
      /\ acked' = IF \E g \in Goroutines : pc[g] = "notify" THEN disk ELSE acked
      /\ unread' = FALSE
      /\ UNCHANGED <<disk, last, received, dirty>>
  BY DEF Crash
<1>2. Typed'
  <2>1. Serving'
    BY <1>1 DEF Serving, NoRequest, HasArguments, EndpointOps, ValueOps, Changing
  <2>2. request' \in [Goroutines -> Calls] BY <1>1 DEF NoRequest, Calls, OpNames
  <2>3. changes' \in Seq(1..last') /\ Len(changes') <= Capacity
    BY <1>1, BoundsAssumption
  <2>4. acked' \in Catalogs BY <1>1 DEF IInv, Typed, TypeOK
  <2> QED BY <1>1, <2>1, <2>2, <2>3, <2>4, NoApisType DEF IInv, Typed, TypeOK
<1>3. Mutex' BY <1>1 DEF Mutex
<1>4. ASSUME Agree PROVE Agree'
  <2>1. disk' = acked'
    <3>1. CASE \E g \in Goroutines : pc[g] = "notify" BY <1>1, <3>1
    <3>2. CASE \A g \in Goroutines : pc[g] # "notify"
      <4>1. CASE owner = None BY <1>1, <1>4, <3>2, <4>1 DEF Agree
      <4>2. CASE owner # None
        <5>1. owner \in Goroutines /\ serving /\ pc[owner] \in {"save", "load"}
          BY <3>2, <4>2 DEF IInv, Mutex, Typed, TypeOK
        <5> QED BY <1>1, <1>4, <3>2, <5>1 DEF Agree
      <4> QED BY <4>1, <4>2
    <3> QED BY <3>1, <3>2
  <2> QED BY <1>1, <2>1 DEF Agree
<1>5. Ordered' BY <1>1 DEF Ordered
<1> QED BY <1>1, <1>2, <1>3, <1>4, <1>5 DEF IInv

LEMMA NextIInv == IInv /\ [Next]_vars => IInv'
<1> SUFFICES ASSUME IInv, [Next]_vars PROVE IInv' OBVIOUS
<1>1. ASSUME NEW g \in Goroutines, Step(g) PROVE IInv'
  <2>1. CASE ImportExisting(g) \/ ImportNew(g)
    BY <2>1, ImportStep DEF ImportExisting, ImportNew
  <2>2. CASE ImportRefused(g) \/ Refuse(g) \/ Close(g)
    BY <2>2, EndsStep
       DEF ImportRefused, Refuse, Close, channel, IInv, Typed, TypeOK
  <2> QED BY <1>1, <2>1, <2>2, ChangeStep, SaveStep, SaveFailsStep, NotifyStep,
             LoadStep, LoadFailsStep, ReloadStep DEF Step
<1>2. CASE \E g \in Goroutines, r \in Requests : Call(g, r)
  BY <1>2, CallStep
<1>3. CASE Receive BY <1>3, ReceiveStep
<1>4. CASE \E main \in Goroutines : Crash(main) BY <1>4, CrashStep
<1>5. CASE UNCHANGED vars
  BY <1>5 DEF vars, IInv, Typed, TypeOK, Serving, Mutex, Agree, Ordered
<1> QED BY <1>1, <1>2, <1>3, <1>4, <1>5 DEF Next

LEMMA Inductive == Spec => []IInv
<1> QED BY InitIInv, NextIInv, PTL DEF Spec

-----------------------------------------------------------------------------
\* Every variable keeps its type: the map and the file are registries, also
\* after failed saves, crashes and changes of what is not there.
THEOREM TypeCorrect == Spec => []TypeOK
<1>1. IInv => TypeOK BY DEF IInv, Typed
<1> QED BY <1>1, Inductive, PTL

\* Unless a failed change was left in memory, or a process saved that had not read
\* the file, the file holds what was acknowledged whenever no save is being
\* announced.
THEOREM FileIsDurable == Spec => []Durable
<1>1. IInv => Durable
  <2> SUFFICES ASSUME IInv, ~dirty, \A g \in Goroutines : pc[g] # "notify"
               PROVE  disk = acked
    BY DEF Durable
  <2>1. Agree BY DEF IInv
  <2>2. CASE owner = None BY <2>1, <2>2 DEF Agree
  <2>3. CASE owner # None
    <3>1. owner \in Goroutines /\ serving /\ pc[owner] \in {"save", "load"}
      BY <2>3 DEF IInv, Mutex, Typed, TypeOK
    <3> QED BY <2>1, <3>1 DEF Agree
  <2> QED BY <2>2, <2>3
<1> QED BY <1>1, Inductive, PTL

\* In a process that has read its file, unless a failed change was left in memory,
\* requests are routed by what the file holds whenever nobody has the mutex.
THEOREM MemoryIsFile == Spec => []MemoryMatchesFile
<1>1. IInv => MemoryMatchesFile BY DEF IInv, Agree, MemoryMatchesFile
<1> QED BY <1>1, Inductive, PTL

\* Changes are announced in the order they were made.
THEOREM AnnouncedInTurn == Spec => []EventsInOrder
<1>1. ASSUME IInv PROVE EventsInOrder
  <2> DEFINE seen == <<received>> \o changes
  <2>1. /\ changes \in Seq(Nat) /\ received \in Nat
        /\ \A i \in 1..Len(changes) : received < changes[i]
        /\ \A i, j \in 1..Len(changes) : i < j => changes[i] < changes[j]
    <3>1. 1..last \subseteq Nat OBVIOUS
    <3>2. changes \in Seq(1..last) /\ received \in Nat
      BY <1>1 DEF IInv, Typed, TypeOK
    <3> QED BY <1>1, <3>1, <3>2, SeqMonotonic DEF IInv, Ordered
  <2>2. /\ <<received>> \in Seq(Nat) /\ Len(<<received>>) = 1
        /\ <<received>>[1] = received
    BY <2>1
  <2>3. /\ Len(seen) = 1 + Len(changes) /\ Len(changes) \in Nat
        /\ seen[1] = received
        /\ \A i \in 2..Len(seen) : seen[i] = changes[i - 1]
    BY <2>1, <2>2, ConcatProperties
  <2> HIDE DEF seen
  <2>4. ASSUME NEW i \in 2..Len(seen) PROVE seen[i - 1] < seen[i]
    <3>1. i - 1 \in 1..Len(changes) /\ seen[i] = changes[i - 1] BY <2>3
    <3>2. CASE i = 2 BY <2>1, <2>3, <3>1, <3>2
    <3>3. CASE i # 2
      <4>1. i - 1 \in 2..Len(seen) /\ i - 2 \in 1..Len(changes) /\ i - 2 < i - 1
        BY <2>3, <3>3
      <4>2. seen[i - 1] = changes[i - 2]
        <5>1. (i - 1) - 1 = i - 2 OBVIOUS
        <5> QED BY <2>3, <4>1, <5>1
      <4> QED BY <2>1, <3>1, <4>1, <4>2
    <3> QED BY <3>2, <3>3
  <2> QED BY <2>4 DEF EventsInOrder, seen
<1> QED BY <1>1, Inductive, PTL
=============================================================================
