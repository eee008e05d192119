---------------------------- MODULE EventHistory ----------------------------
(***************************************************************************)
(* The history of registry changes: the admin handlers                     *)
(* (middleware/routing/admin_api.go) change the registry and then append   *)
(* an event to the event store (middleware/base/events.go); the handlers   *)
(* of the event stream take the registry's announcements off its channel,  *)
(* append them to the store too, and send them to their client.            *)
(*                                                                         *)
(* A change of the registry is one step (module FileRegistry has the steps *)
(* inside) and is named by its number.  Append holds the store's mutex     *)
(* through two steps: remember the event, read and truncate the file of    *)
(* the day; write the file.  All events are of one day.                    *)
(***************************************************************************)
EXTENDS Integers, Sequences, Functions

CONSTANTS
  Admins,        \* goroutines of admin requests
  Subscribers,   \* goroutines of event streams
  Capacity,      \* capacity of the registry's channel
  MaxMem,        \* events the store keeps in memory
  MaxChanges,    \* bound on the number of changes
  MaxImports,    \* bound on the number of refused imports
  MaxCrashes,    \* bound on the number of crashes
  MaxLeft,       \* bound on the forwarders that have not seen their stream end
  None, Torn     \* no event; the contents of a file that is not valid JSON

Actors == Admins \cup Subscribers

\* An event is the number of the change it tells of; 0 if there was none.
Events == 0..MaxChanges

ASSUME ActorsAssumption == Admins \cap Subscribers = {}
ASSUME NoneAssumption == None \notin Actors \cup Events
ASSUME TornAssumption == Torn \notin Seq(Events)
ASSUME BoundsAssumption ==
  /\ {Capacity, MaxChanges, MaxImports, MaxCrashes, MaxLeft} \subseteq Nat
  /\ MaxMem \in Nat \ {0}

VARIABLES
  newest,    \* the number of the newest change of the registry
  queue,     \* the registry's channel
  hand,      \* hand[s]: the announcement the forwarder of s has taken
  left,      \* how many forwarders have not seen that their stream has ended
  events,    \* the store's memory
  file,      \* the file of the day
  owner,     \* who holds the store's mutex
  day,       \* the events the owner has read from the file
  pc,        \* pc[a]: the next step of a
  event,     \* event[a]: the event a is about to append
  answered,  \* history: changes whose administrator was told of success
  joined,    \* history: the newest change when s subscribed
  sent,      \* history: the changes sent to the client of s
  lost,      \* history: the changes such forwarders took
  damaged,   \* history: whether the file could not be read or written
  refused,   \* history: refused imports so far
  crashes    \* history: crashes so far

store == <<events, file, owner, day>>
stream == <<hand, left, joined, sent, lost>>
vars == <<newest, queue, hand, left, events, file, owner, day, pc, event,
          answered, joined, sent, lost, damaged, refused, crashes>>

Init ==
  /\ newest = 0 /\ queue = << >>
  /\ hand = [s \in Subscribers |-> None] /\ left = 0
  /\ events = << >> /\ file = << >> /\ owner = None /\ day = << >>
  /\ pc = [a \in Actors |-> "idle"]
  /\ event = [a \in Actors |-> None]
  /\ answered = {}
  /\ joined = [s \in Subscribers |-> 0]
  /\ sent = [s \in Subscribers |-> {}] /\ lost = {}
  /\ damaged = FALSE /\ refused = 0 /\ crashes = 0

Goto(a, from, to) ==
  /\ pc[a] = from
  /\ pc' = [pc EXCEPT ![a] = to]

-----------------------------------------------------------------------------
(* Admin requests.                                                         *)

\* The registry makes the change and announces it unless the channel is full.
ChangeRegistry(a) ==
  /\ newest < MaxChanges
  /\ Goto(a, "idle", "append")
  /\ newest' = newest + 1
  /\ queue' = IF Len(queue) < Capacity THEN Append(queue, newest + 1) ELSE queue
  /\ event' = [event EXCEPT ![a] = newest + 1]
  /\ UNCHANGED <<store, stream, answered, damaged, refused, crashes>>

\* BulkImport reports an API it could not import in its response, and appends
\* an api_created event for every API of the request.
ImportRefused(a) ==
  /\ refused < MaxImports
  /\ Goto(a, "idle", "append")
  /\ event' = [event EXCEPT ![a] = 0]
  /\ refused' = refused + 1
  /\ UNCHANGED <<newest, queue, store, stream, answered, damaged, crashes>>

-----------------------------------------------------------------------------
(* EventStore.Append.                                                      *)

Newest(seq, n) == IF Len(seq) > n THEN SubSeq(seq, Len(seq) - n + 1, Len(seq))
                                  ELSE seq

\* A file that is no valid JSON counts as empty.
BeginAppend(a) ==
  /\ owner = None
  /\ Goto(a, "append", "write")
  /\ owner' = a
  /\ events' = Newest(Append(events, event[a]), MaxMem)
  /\ day' = IF file = Torn THEN << >> ELSE file
  /\ file' = Torn
  /\ UNCHANGED <<newest, queue, stream, event, answered, damaged, refused,
                 crashes>>

\* The file is there but cannot be read: it counts as empty just the same, and
\* will be overwritten with the new event alone.
BeginAppendUnread(a) ==
  /\ owner = None
  /\ Goto(a, "append", "write")
  /\ owner' = a
  /\ events' = Newest(Append(events, event[a]), MaxMem)
  /\ day' = << >>
  /\ file' = Torn
  /\ damaged' = TRUE
  /\ UNCHANGED <<newest, queue, stream, event, answered, refused, crashes>>

\* What follows Append: the admin's answer, or the message to the client.
Appended(a) ==
  /\ Goto(a, "write", IF a \in Admins THEN "idle" ELSE "listen")
  /\ owner' = None /\ day' = << >>
  /\ event' = [event EXCEPT ![a] = None]
  /\ IF a \in Admins
     THEN answered' = answered \cup {event[a]} /\ UNCHANGED sent
     ELSE /\ sent' = [sent EXCEPT ![a] = @ \cup {event[a]}]
          /\ UNCHANGED answered
  /\ UNCHANGED <<newest, queue, hand, left, events, joined, lost, refused,
                 crashes>>

\* Mutant: the new event replaces those of the day.
EndAppendReplaces(a) ==
  /\ Appended(a)
  /\ file' = <<event[a]>>
  /\ UNCHANGED damaged

\* Mutant: the file is written newest first.
EndAppendReversed(a) ==
  /\ Appended(a)
  /\ file' = <<event[a]>> \o day
  /\ UNCHANGED damaged

EndAppend(a) ==
  /\ Appended(a)
  /\ file' = Append(day, event[a])
  /\ UNCHANGED damaged

\* An error of Append is ignored: the file could not be opened, and is as it was
\* read, or it could not be written.
AppendFails(a) ==
  /\ Appended(a)
  /\ file' \in {day, Torn}
  /\ damaged' = TRUE

-----------------------------------------------------------------------------
(* Event streams.                                                          *)

Subscribe(s) ==
  /\ Goto(s, "idle", "listen")
  /\ joined' = [joined EXCEPT ![s] = newest]
  /\ sent' = [sent EXCEPT ![s] = {}]
  /\ UNCHANGED <<newest, queue, hand, left, store, event, answered, lost,
                 damaged, refused, crashes>>

\* Mutant: the forwarder does not wait for the handler.
TakeOverwrites(s) ==
  /\ pc[s] # "idle" /\ queue # << >>
  /\ hand' = [hand EXCEPT ![s] = Head(queue)]
  /\ queue' = Tail(queue)
  /\ UNCHANGED <<newest, left, store, pc, event, answered, joined, sent, lost,
                 damaged, refused, crashes>>

\* The forwarder of a subscription takes the next announcement.
Take(s) ==
  /\ pc[s] # "idle" /\ hand[s] = None /\ queue # << >>
  /\ hand' = [hand EXCEPT ![s] = Head(queue)]
  /\ queue' = Tail(queue)
  /\ UNCHANGED <<newest, left, store, pc, event, answered, joined, sent, lost,
                 damaged, refused, crashes>>

\* It hands the announcement to the handler, which appends it to the store.
HandOver(s) ==
  /\ hand[s] # None
  /\ Goto(s, "listen", "append")
  /\ event' = [event EXCEPT ![s] = hand[s]]
  /\ hand' = [hand EXCEPT ![s] = None]
  /\ UNCHANGED <<newest, queue, left, store, answered, joined, sent, lost,
                 damaged, refused, crashes>>

\* The client goes away.  What the forwarder has taken is lost, and it quits; a
\* forwarder that waits at the channel is left behind.
Disconnect(s) ==
  /\ Goto(s, "listen", "idle")
  /\ hand' = [hand EXCEPT ![s] = None]
  /\ IF hand[s] = None THEN left < MaxLeft /\ left' = left + 1
                       ELSE UNCHANGED left
  /\ UNCHANGED <<newest, queue, store, event, answered, joined, sent, lost,
                 damaged, refused, crashes>>

\* A forwarder left behind sees that its stream has ended, or an announcement
\* first: it takes that one, has nobody to hand it to, and quits.
QuitForwarder ==
  /\ left > 0
  /\ left' = left - 1
  /\ \/ UNCHANGED <<queue, lost>>
     \/ /\ queue # << >>
        /\ lost' = lost \cup {Head(queue)}
        /\ queue' = Tail(queue)
  /\ UNCHANGED <<newest, hand, store, pc, event, answered, joined, sent,
                 damaged, refused, crashes>>

Crash ==
  /\ crashes < MaxCrashes
  /\ crashes' = crashes + 1
  /\ queue' = << >> /\ events' = << >> /\ owner' = None /\ day' = << >>
  /\ hand' = [s \in Subscribers |-> None] /\ left' = 0
  /\ pc' = [a \in Actors |-> "idle"]
  /\ event' = [a \in Actors |-> None]
  /\ damaged' = (damaged \/ owner # None)
  /\ UNCHANGED <<newest, file, answered, joined, sent, lost, refused>>

Next ==
  \/ \E a \in Admins : ChangeRegistry(a) \/ ImportRefused(a)
  \/ \E a \in Actors : BeginAppend(a) \/ BeginAppendUnread(a)
                       \/ EndAppend(a) \/ AppendFails(a)
  \/ \E s \in Subscribers :
       Subscribe(s) \/ Take(s) \/ HandOver(s) \/ Disconnect(s)
  \/ QuitForwarder \/ Crash

Spec == Init /\ [][Next]_vars

-----------------------------------------------------------------------------
TypeOK ==
  /\ newest \in 0..MaxChanges
  /\ queue \in Seq(1..MaxChanges) /\ Len(queue) <= Capacity
  /\ hand \in [Subscribers -> 1..MaxChanges \cup {None}]
  /\ left \in 0..MaxLeft
  /\ events \in Seq(Events) /\ Len(events) <= MaxMem
  /\ file = Torn \/ file \in Seq(Events)
  /\ day \in Seq(Events)
  /\ owner \in Actors \cup {None}
  /\ pc \in [Actors -> {"idle", "append", "write", "listen"}]
  /\ event \in [Actors -> Events \cup {None}]

\* The history is complete: every change whose administrator was told of success
\* has an event in the file, however the appends interleave.  A crash between
\* appends loses nothing, unless the file could not be read or written, or the
\* crash cut its writing short.
CompleteUnlessDamaged ==
  ~damaged /\ owner = None =>
    answered \subseteq (IF file = Torn THEN {} ELSE Range(file))

\* The history sent to a new subscriber is the end of the persisted history,
\* until the process restarts, which leaves the memory empty.  It never outgrows
\* its bound, and every variable keeps its type.
MemoryIsTail ==
  /\ TypeOK
  /\ ~damaged /\ crashes = 0 /\ owner = None => events = Newest(file, MaxMem)

\* A subscriber is sent, or will be sent, every change since it subscribed, but
\* for those that the forwarder of a stream that had ended took off the channel.
\* The streams share one channel, from which each change goes to one of them, and
\* an announcement that finds it full is lost: this is about a subscriber that is
\* alone, and a channel with room for every change.
EverySubscriberSees ==
  \A s \in Subscribers :
    Subscribers = {s} /\ MaxChanges <= Capacity /\ pc[s] # "idle" =>
      \A n \in joined[s] + 1 .. newest :
        \/ n \in sent[s] \/ n \in Range(queue) \/ n = hand[s]
        \/ n = event[s] \/ n \in lost
=============================================================================
