---------------------------- MODULE FileRegistry ----------------------------
(***************************************************************************)
(* The registry of APIs and their rate limit rules                         *)
(* (middleware/storage/file/registry.go): a map in memory, saved to a JSON *)
(* file by every change, under a mutex.  Administrators call it from       *)
(* concurrent request goroutines; a change is announced on a bounded       *)
(* channel; the process may crash and restart at any step.                 *)
(*                                                                         *)
(* A change holds the mutex through three steps: the map, the file, the    *)
(* announcement.  The file is replaced by renaming a temporary file over   *)
(* it, so a save happens as a whole or fails without effect.  A file that  *)
(* cannot be read or parsed at the start is logged, and the process serves *)
(* with an empty map.  An API is its endpoints and one more value that     *)
(* stands for its other fields.                                            *)
(***************************************************************************)
EXTENDS Integers, Sequences

CONSTANTS
  Goroutines,   \* request goroutines
  Ids,          \* ids of APIs
  Endpoints,    \* ids of endpoints
  Values,       \* contents of APIs and endpoints
  Ops,          \* the operations called
  Capacity,     \* capacity of the changes channel
  MaxChanges,   \* bound on the number of changes
  MaxCrashes,   \* bound on the number of crashes
  None          \* nobody

Changing == {"register", "update", "delete",
             "addEndpoint", "updateEndpoint", "removeEndpoint"}

ASSUME OpsAssumption == Ops \subseteq Changing \cup {"import", "reload", "close"}
ASSUME SetsAssumption == Ids # {} /\ Endpoints # {} /\ Values # {}
ASSUME BoundsAssumption ==
  /\ Capacity \in Nat /\ MaxChanges \in Nat /\ MaxCrashes \in Nat
ASSUME NobodyAssumption == None \notin Goroutines

VARIABLES
  apis,      \* the map in memory
  disk,      \* the contents of the file
  owner,     \* who holds the mutex
  changes,   \* the channel: the numbers of the changes announced
  closed,    \* whether Close has closed the channel
  serving,   \* whether the process has loaded the file and serves requests
  pc,        \* pc[g]: the next step of goroutine g
  request,   \* request[g]: the call g is in
  reply,     \* reply[g]: how the last call of g ended
  number,    \* history: number[g] of the change g is making
  last,      \* history: the number of the newest change
  received,  \* history: the newest change a subscriber received
  acked,     \* history: the APIs as the administrators were told they are
  unread,    \* history: whether the process serves without what its file held
  dirty,     \* history: whether a change that was not saved stayed in memory, or
             \* a save replaced a file that had not been read
  crashes    \* history: crashes so far

store == <<apis, disk>>
channel == <<changes, closed, received>>
vars == <<apis, disk, owner, changes, closed, serving, pc, request, reply,
          number, last, received, acked, unread, dirty, crashes>>

\* A call and its arguments; the arguments a call does not have are None.  Only
\* a registration or an import may come without an upstream_url: in an update
\* that leaves the one there is.
Requests ==
  {r \in [op : Ops, id : Ids \cup {None}, ep : Endpoints \cup {None},
          value : Values \cup {None}, overwrite : BOOLEAN, upstream : BOOLEAN] :
     /\ (r.id = None) = (r.op \in {"reload", "close"})
     /\ (r.ep = None) =
          (r.op \notin {"addEndpoint", "updateEndpoint", "removeEndpoint"})
     /\ (r.value = None) =
          (r.op \in {"delete", "removeEndpoint", "reload", "close"})
     /\ r.overwrite => r.op = "import"
     /\ r.upstream \/ r.op \in {"register", "import"}}

NoRequest ==
  [op |-> "none", id |-> None, ep |-> None, value |-> None,
   overwrite |-> FALSE, upstream |-> TRUE]

NoApis == [i \in {} |-> 0]
Put(f, x, y) == [z \in DOMAIN f \cup {x} |-> IF z = x THEN y ELSE f[z]]
Drop(f, x) == [z \in DOMAIN f \ {x} |-> f[z]]

\* What a call finds wrong with its arguments: the id exists already, the
\* registration names no upstream, or the API or the endpoint does not exist.
Valid(cat, r) ==
  CASE r.op = "register" -> r.id \notin DOMAIN cat /\ r.upstream
    [] r.op \in {"update", "delete"} -> r.id \in DOMAIN cat
    [] r.op = "addEndpoint" ->
         r.id \in DOMAIN cat /\ r.ep \notin DOMAIN cat[r.id].endpoints
    [] OTHER -> r.id \in DOMAIN cat /\ r.ep \in DOMAIN cat[r.id].endpoints

WithEndpoints(cat, r, eps) ==
  [cat EXCEPT ![r.id] = [value |-> @.value, endpoints |-> eps]]

Registered(cat, r) == Put(cat, r.id, [value |-> r.value, endpoints |-> NoApis])
Updated(cat, r) == [cat EXCEPT ![r.id].value = r.value]
WithEndpoint(cat, r) ==
  WithEndpoints(cat, r, Put(cat[r.id].endpoints, r.ep, r.value))
WithoutEndpoint(cat, r) ==
  WithEndpoints(cat, r, Drop(cat[r.id].endpoints, r.ep))

\* The registry after a valid change.
Changed(cat, r) ==
  CASE r.op = "register" -> Registered(cat, r)
    [] r.op = "update" -> Updated(cat, r)
    [] r.op = "delete" -> Drop(cat, r.id)
    [] r.op = "removeEndpoint" -> WithoutEndpoint(cat, r)
    [] OTHER -> WithEndpoint(cat, r)

\* Mutant: the change stays in memory.
NotRolledBack(cat, r) == cat

\* RegisterAPI and AddEndpoint take their change back when the save fails, all
\* but the time of the update; the other operations leave it in memory.
RolledBack(cat, r) ==
  CASE r.op = "register" -> Drop(cat, r.id)
    [] r.op = "addEndpoint" -> WithoutEndpoint(cat, r)
    [] OTHER -> cat

Init ==
  /\ apis = NoApis /\ disk = NoApis /\ acked = NoApis
  /\ owner = None
  /\ changes = << >> /\ closed = FALSE
  /\ serving = FALSE
  /\ \E main \in Goroutines :
       pc = [g \in Goroutines |-> IF g = main THEN "load" ELSE "idle"]
  /\ request = [g \in Goroutines |-> NoRequest]
  /\ reply = [g \in Goroutines |-> "none"]
  /\ number = [g \in Goroutines |-> 0]
  /\ last = 0 /\ received = 0 /\ crashes = 0
  /\ unread = FALSE /\ dirty = FALSE

Goto(g, from, to) ==
  /\ pc[g] = from
  /\ pc' = [pc EXCEPT ![g] = to]

Reply(g, from, r) ==
  /\ Goto(g, from, "idle")
  /\ reply' = [reply EXCEPT ![g] = r]
  /\ request' = [request EXCEPT ![g] = NoRequest]
  /\ number' = [number EXCEPT ![g] = 0]

-----------------------------------------------------------------------------
\* An administrator's request reaches the registry.
Call(g, r) ==
  /\ serving
  /\ last < MaxChanges
  /\ Goto(g, "idle", IF r.op = "import" THEN "exists" ELSE "lock")
  /\ request' = [request EXCEPT ![g] = r]
  /\ reply' = [reply EXCEPT ![g] = "none"]
  /\ UNCHANGED <<store, owner, channel, serving, number, last, acked, crashes,
                 unread, dirty>>

\* BulkImport looks for the API without the mutex, then calls UpdateAPI or
\* RegisterAPI, which take it.
ImportExisting(g) ==
  /\ request[g].id \in DOMAIN apis
  /\ request[g].overwrite
  /\ Goto(g, "exists", "lock")
  /\ request' = [request EXCEPT ![g].op = "update"]
  /\ UNCHANGED <<store, owner, channel, serving, reply, number, last, acked,
                 crashes, unread, dirty>>

ImportNew(g) ==
  /\ request[g].id \notin DOMAIN apis
  /\ Goto(g, "exists", "lock")
  /\ request' = [request EXCEPT ![g].op = "register"]
  /\ UNCHANGED <<store, owner, channel, serving, reply, number, last, acked,
                 crashes, unread, dirty>>

ImportRefused(g) ==
  /\ request[g].id \in DOMAIN apis
  /\ ~request[g].overwrite
  /\ Reply(g, "exists", "error")
  /\ UNCHANGED <<store, owner, channel, serving, last, acked, crashes, unread,
                 dirty>>

-----------------------------------------------------------------------------
(* A change, under the mutex.                                              *)

Refuse(g) ==
  /\ owner = None
  /\ request[g].op \in Changing
  /\ ~Valid(apis, request[g])
  /\ Reply(g, "lock", "error")
  /\ UNCHANGED <<store, owner, channel, serving, last, acked, crashes, unread,
                 dirty>>

Change(g) ==
  /\ owner = None
  /\ request[g].op \in Changing
  /\ Valid(apis, request[g])
  /\ Goto(g, "lock", "save")
  /\ owner' = g
  /\ apis' = Changed(apis, request[g])
  /\ last' = last + 1
  /\ number' = [number EXCEPT ![g] = last + 1]
  /\ UNCHANGED <<disk, channel, serving, request, reply, acked, crashes, unread,
                 dirty>>

\* Mutant: the temporary file is never renamed.
SaveSkips(g) ==
  /\ Goto(g, "save", "notify")
  /\ UNCHANGED <<store, owner, channel, serving, request, reply, number, last,
                 acked, crashes, unread, dirty>>

\* Mutant: the mutex is released before the announcement.
SaveUnlocks(g) ==
  /\ Goto(g, "save", "notify")
  /\ disk' = apis
  /\ owner' = None
  /\ UNCHANGED <<apis, channel, serving, request, reply, number, last, acked,
                 crashes, unread, dirty>>

Save(g) ==
  /\ Goto(g, "save", "notify")
  /\ disk' = apis
  /\ dirty' = (dirty \/ unread)
  /\ UNCHANGED <<apis, owner, channel, serving, request, reply, number, last,
                 acked, crashes, unread>>

\* The disk is full, or the file may not be written.
SaveFails(g) ==
  /\ Reply(g, "save", "error")
  /\ apis' = RolledBack(apis, request[g])
  /\ owner' = None
  /\ dirty' = (dirty \/ request[g].op \notin {"register", "addEndpoint"})
  /\ UNCHANGED <<disk, channel, serving, last, acked, crashes, unread>>

\* Mutant: the channel is unbounded.
AnnouncedUnbounded(seq, n) == Append(seq, n)

\* The send never waits: a full channel loses the event.
Announced(seq, n) == IF Len(seq) < Capacity THEN Append(seq, n) ELSE seq

Notify(g) ==
  /\ ~closed
  /\ Reply(g, "notify", "ok")
  /\ changes' = Announced(changes, number[g])
  /\ owner' = None
  /\ acked' = Changed(acked, request[g])
  /\ UNCHANGED <<store, closed, received, serving, last, crashes, unread, dirty>>

\* Sending on a closed channel panics; the deferred Unlock still runs, and the
\* server recovers and drops the connection.  The administrator has to look.
NotifyPanics(g) ==
  /\ closed
  /\ Reply(g, "notify", "panic")
  /\ owner' = None
  /\ acked' = Changed(acked, request[g])
  /\ UNCHANGED <<store, channel, serving, last, crashes, unread, dirty>>

-----------------------------------------------------------------------------
(* Loading the file.                                                       *)

\* Load: takes the mutex and puts the APIs of the file into the map.  main
\* calls it before it serves, and ReloadRules calls it.
Load(g) ==
  /\ owner = None
  /\ Reply(g, "load", "ok")
  /\ apis' = [i \in DOMAIN apis \cup DOMAIN disk |->
                IF i \in DOMAIN disk THEN disk[i] ELSE apis[i]]
  /\ serving' = TRUE
  /\ UNCHANGED <<disk, owner, channel, last, acked, crashes, unread, dirty>>

\* The directory cannot be made, or the file cannot be read or parsed: main logs
\* the error and serves with the map as it is.
LoadFails(g) ==
  /\ owner = None
  /\ Reply(g, "load", "error")
  /\ serving' = TRUE
  /\ unread' = (disk # NoApis)
  /\ UNCHANGED <<store, owner, channel, last, acked, crashes, dirty>>

\* ReloadRules: takes the mutex, empties the map, and calls Load, keeping the
\* mutex until Load returns.
Reload(g) ==
  /\ owner = None
  /\ request[g].op = "reload"
  /\ Goto(g, "lock", "load")
  /\ owner' = g
  /\ apis' = NoApis
  /\ UNCHANGED <<disk, channel, serving, request, reply, number, last, acked,
                 crashes, unread, dirty>>

Close(g) ==
  /\ owner = None
  /\ request[g].op = "close"
  /\ Reply(g, "lock", "ok")
  /\ closed' = TRUE
  /\ UNCHANGED <<store, owner, changes, received, serving, last, acked,
                 crashes, unread, dirty>>

-----------------------------------------------------------------------------
\* SubscribeChanges: a forwarding goroutine takes the next event.
Receive ==
  /\ changes # << >>
  /\ received' = Head(changes)
  /\ changes' = Tail(changes)
  /\ UNCHANGED <<store, owner, closed, serving, pc, request, reply, number,
                 last, acked, crashes, unread, dirty>>

\* The process dies; a new one will load the file.  An administrator whose
\* change was already saved gets no answer and has to look.
Crash(main) ==
  /\ crashes < MaxCrashes
  /\ crashes' = crashes + 1
  /\ apis' = NoApis
  /\ owner' = None
  /\ changes' = << >> /\ closed' = FALSE
  /\ serving' = FALSE
  /\ pc' = [g \in Goroutines |-> IF g = main THEN "load" ELSE "idle"]
  /\ reply' = [g \in Goroutines |-> "none"]
  /\ request' = [g \in Goroutines |-> NoRequest]
  /\ number' = [g \in Goroutines |-> 0]
  /\ unread' = FALSE
  /\ acked' = IF \E g \in Goroutines : pc[g] = "notify" THEN disk ELSE acked
  /\ UNCHANGED <<disk, last, received, dirty>>

Step(g) ==
  \/ ImportExisting(g) \/ ImportNew(g) \/ ImportRefused(g)
  \/ Refuse(g) \/ Change(g) \/ Save(g) \/ SaveFails(g)
  \/ Notify(g) \/ NotifyPanics(g)
  \/ Load(g) \/ LoadFails(g) \/ Reload(g) \/ Close(g)

Next ==
  \/ \E g \in Goroutines : Step(g)
  \/ \E g \in Goroutines, r \in Requests : Call(g, r)
  \/ Receive
  \/ \E main \in Goroutines : Crash(main)

Spec == Init /\ [][Next]_vars

\* Goroutines are scheduled, and sync.RWMutex does not starve a waiting writer.
FairSpec == Spec /\ \A g \in Goroutines : SF_vars(Step(g))

-----------------------------------------------------------------------------
Api == [value : Values, endpoints : UNION {[E -> Values] : E \in SUBSET Endpoints}]
Catalogs == UNION {[S -> Api] : S \in SUBSET Ids}

TypeOK ==
  /\ apis \in Catalogs /\ disk \in Catalogs /\ acked \in Catalogs
  /\ owner \in Goroutines \cup {None}
  /\ changes \in Seq(1..last)
  /\ Len(changes) <= Capacity
  /\ closed \in BOOLEAN /\ serving \in BOOLEAN
  /\ unread \in BOOLEAN /\ dirty \in BOOLEAN
  /\ pc \in [Goroutines ->
               {"load", "idle", "exists", "lock", "save", "notify"}]
  /\ reply \in [Goroutines -> {"none", "ok", "error", "panic"}]

\* Persistence: whenever no save is under way, the file holds exactly the changes
\* that were acknowledged, in spite of crashes between any two steps and of saves
\* and loads that fail, as long as every change that failed was taken back and no
\* change was saved by a process that had failed to read the file.
Durable ==
  ~dirty /\ (\A g \in Goroutines : pc[g] # "notify") => disk = acked

\* What requests are routed by is what the file holds: while nobody holds the
\* mutex the map and the file agree, likewise, in a process that has read it.
MemoryMatchesFile ==
  ~dirty /\ ~unread /\ serving /\ owner = None => apis = disk

\* Subscribers see changes in the order they were made: the channel, after the
\* newest change received, is in increasing order.
EventsInOrder ==
  LET seen == <<received>> \o changes
  IN  \A i \in 2..Len(seen) : seen[i - 1] < seen[i]

\* A reload of the rules returns.
ReloadReturns ==
  \A g \in Goroutines :
    pc[g] = "lock" /\ request[g].op = "reload" ~> pc[g] = "idle"
=============================================================================
