---------------------------- MODULE MemoryBackend ----------------------------
(***************************************************************************)
(* The in-memory rate limit backend (middleware/storage/memory/store.go)   *)
(* called by concurrent request goroutines.  A method looks its entry up   *)
(* under the cache's mutex, adds a new entry under a second acquisition if *)
(* there was none, and then works on the entry without the mutex: between  *)
(* any two of these steps other goroutines run, replace the entry in the   *)
(* cache, or evict it.                                                     *)
(*                                                                         *)
(* blockedUntil is a plain time.Time, written and read without             *)
(* synchronisation.  Its two words are kept apart: `wall' (does it carry a *)
(* monotonic reading?) and `ext' (that reading).  A write stores them one  *)
(* after the other in either order.  Reads are single steps: a torn read   *)
(* returns the words of some moment in the middle of a write.              *)
(*                                                                         *)
(* main constructs the backend with sliding windows on, so an entry always *)
(* has one and the branch of AllowSlidingWindow that creates it is dead.   *)
(***************************************************************************)
EXTENDS LRU, FiniteSets

CONSTANTS
  Goroutines,   \* request goroutines
  Keys,         \* client keys
  Serves,       \* the calls <<goroutine, key, method>> that occur
  Ids,          \* names for entry objects
  Capacity,     \* max_tracked_ips
  Limits,       \* the limits the rules of a request ask for
  Rps, Burst,   \* the limits the backend was constructed with, per tick
  WindowSize,   \* window length in ticks
  BlockTicks,   \* block duration in ticks
  MaxTime,      \* bound on the clock
  None          \* no entry

Methods == {"allow", "block", "unblock", "isBlocked", "violate", "count"}

ASSUME ServesAssumption == Serves \subseteq Goroutines \X Keys \X Methods
ASSUME NoneAssumption == None \notin Ids
\* What main takes from a configuration that was accepted (Usable of module
\* Gateway): room for at least one entry.
ASSUME SizeAssumption ==
  /\ {Rps, Burst} \cup Limits \subseteq Nat
  /\ {Capacity, WindowSize, BlockTicks, MaxTime} \subseteq Nat \ {0}
\* Enough names: one per cached entry and one per goroutine that holds one.
ASSUME IdsAssumption ==
  /\ IsFiniteSet(Goroutines)
  /\ Cardinality(Ids) >= Capacity + Cardinality(Goroutines)

VARIABLES
  now,       \* the clock
  cache,     \* the LRU cache: a sequence of [key, entry]
  heap,      \* the entry objects
  pc,        \* pc[g]: the next step of goroutine g
  op, key,   \* op[g], key[g]: the method g is in and its key
  limit,     \* limit[g]: the limit the caller asks for
  held,      \* held[g]: the entry g works on
  until,     \* until[g]: the value g is storing into blockedUntil
  evicted,   \* history: the keys whose entry was evicted at some time
  replaced,  \* history: the keys whose entry was replaced by another one
  admitted,  \* history: admission times in the last window, until an eviction
  promised   \* history: until when a Block has promised to block, until the
             \* entry is evicted or replaced

mem == <<cache, heap>>
call == <<op, key, limit, held, until>>
history == <<evicted, replaced, admitted, promised>>
vars ==
  <<now, cache, heap, pc, op, key, limit, held, until, evicted, replaced,
    admitted, promised>>

Larger(a, b) == IF a >= b THEN a ELSE b

\* newIPEntry: the limit of a new entry comes from the backend's own settings.
EntryLimit == Larger(Larger(Rps * WindowSize, 1), Burst)

ZeroTime == [wall |-> FALSE, ext |-> 0]
\* Mutant: the duration is added twice.
DeadlineTwice(t) == [wall |-> TRUE, ext |-> t + BlockTicks]

Deadline(t) == [wall |-> TRUE, ext |-> t]

NewEntry == [requests |-> << >>, blockedUntil |-> ZeroTime, violations |-> 0]

\* Mutant: a block ends one tick early.
BeforeEarly(u) == IF u.wall THEN now + 1 < u.ext ELSE u.ext # 0

\* time.Now().Before(u): monotonic readings are compared if u carries one;
\* otherwise ext is read as seconds since year 1, and a block's monotonic
\* reading in nanoseconds, so read, is thousands of years away.
Before(u) == IF u.wall THEN now < u.ext ELSE u.ext # 0

\* The entries some goroutine or the cache can still reach.
Reachable == {cache[i].entry : i \in DOMAIN cache}
               \cup {held[g] : g \in Goroutines}

Init ==
  /\ now = 1
  /\ cache = << >>
  /\ heap = [i \in Ids |-> NewEntry]
  /\ pc = [g \in Goroutines |-> "idle"]
  /\ op = [g \in Goroutines |-> "none"]
  /\ key = [g \in Goroutines |-> None]
  /\ limit = [g \in Goroutines |-> 0]
  /\ held = [g \in Goroutines |-> None]
  /\ until = [g \in Goroutines |-> ZeroTime]
  /\ admitted = [k \in Keys |-> << >>]
  /\ promised = [k \in Keys |-> 0]
  /\ evicted = {} /\ replaced = {}

Goto(g, from, to) ==
  /\ pc[g] = from
  /\ pc' = [pc EXCEPT ![g] = to]

\* The method returns: the goroutine lets go of its arguments and its entry.
Return(g, from) ==
  /\ Goto(g, from, "idle")
  /\ op' = [op EXCEPT ![g] = "none"]
  /\ key' = [key EXCEPT ![g] = None]
  /\ limit' = [limit EXCEPT ![g] = 0]
  /\ held' = [held EXCEPT ![g] = None]
  /\ until' = [until EXCEPT ![g] = ZeroTime]

-----------------------------------------------------------------------------
\* A goroutine calls a method.  An unblock withdraws the promise of a Block.
Call(g, o, k, l) ==
  /\ <<g, k, o>> \in Serves
  /\ Goto(g, "idle", "get")
  /\ op' = [op EXCEPT ![g] = o]
  /\ key' = [key EXCEPT ![g] = k]
  /\ limit' = [limit EXCEPT ![g] = l]
  /\ promised' = IF o = "unblock" THEN [promised EXCEPT ![k] = 0] ELSE promised
  /\ UNCHANGED <<now, mem, held, until, evicted, replaced, admitted>>

\* What a method does first with its entry.
Body(g) == CASE op[g] \in {"block", "unblock"} -> "deadline"
             [] op[g] = "allow"                -> "checkBlocked"
             [] op[g] = "violate"              -> "violate"
             [] OTHER                          -> "read"

CacheHit(g) ==
  /\ Holds(cache, key[g])
  /\ Goto(g, "get", Body(g))
  /\ held' = [held EXCEPT ![g] = EntryOf(cache, key[g])]
  /\ cache' = Used(cache, key[g])
  /\ UNCHANGED <<now, heap, op, key, limit, until, history>>

\* IsBlocked and the getters answer from a miss; the others will add an entry.
CacheMiss(g) ==
  /\ ~Holds(cache, key[g])
  /\ IF op[g] \in {"isBlocked", "count"}
     THEN Return(g, "get")
     ELSE Goto(g, "get", "add") /\ UNCHANGED call
  /\ UNCHANGED <<now, mem, history>>

\* Between the lookup and the addition another goroutine may have added an entry
\* for the key, which is replaced.  Entries nobody can reach are garbage.
CacheAdd(g) ==
  \E id \in Ids \ Reachable :
    LET lost == {k \in Keys : Holds(cache, k) /\ ~Holds(cache', k)}
        twice == {key[g]} \cap {k \in Keys : Holds(cache, k)}
    IN  /\ Goto(g, "add", Body(g))
        /\ heap' = [i \in Ids |-> IF i \in Reachable THEN heap[i] ELSE NewEntry]
        /\ cache' = Added(cache, key[g], id, Capacity)
        /\ held' = [held EXCEPT ![g] = id]
        /\ evicted' = evicted \cup lost
        /\ replaced' = replaced \cup twice
        /\ admitted' = [k \in Keys |->
                          IF k \in lost THEN << >> ELSE admitted[k]]
        /\ promised' = [k \in Keys |->
                          IF k \in lost \cup twice THEN 0 ELSE promised[k]]
        /\ UNCHANGED <<now, op, key, limit, until>>

-----------------------------------------------------------------------------
(* AllowSlidingWindow: isBlocked, then the window under its own mutex.     *)

Blocked(g) == Before(heap[held[g]].blockedUntil)

RefuseBlocked(g) ==
  /\ Return(g, "checkBlocked")
  /\ Blocked(g)
  /\ UNCHANGED <<now, mem, history>>

PassBlockCheck(g) ==
  /\ Goto(g, "checkBlocked", "window")
  /\ ~Blocked(g)
  /\ UNCHANGED <<now, mem, call, history>>

\* Times are in order: those that have left the window come first.
InWindow(times) ==
  LET old == {i \in DOMAIN times : times[i] <= now - WindowSize}
  IN  SubSeq(times, Cardinality(old) + 1, Len(times))

\* Mutant: the limit is compared with <= instead of <.
AdmitsOneMore(kept) == Len(kept) <= EntryLimit

Admits(kept) == Len(kept) < EntryLimit

WindowAllow(g) ==
  LET e == heap[held[g]]
      kept == InWindow(e.requests)
      admits == Admits(kept)
  IN  /\ Return(g, "window")
      /\ heap' = [heap EXCEPT ![held[g]].requests =
                    IF admits THEN Append(kept, now) ELSE kept]
      /\ admitted' = IF admits /\ key[g] \notin evicted
                     THEN [admitted EXCEPT ![key[g]] = Append(InWindow(@), now)]
                     ELSE admitted
      /\ UNCHANGED <<now, cache, evicted, replaced, promised>>

-----------------------------------------------------------------------------
(* Block: duration < 0 unblocks.  The two words of blockedUntil are stored *)
(* in either order.                                                        *)

ComputeDeadline(g) ==
  /\ Goto(g, "deadline", "store")
  /\ until' = [until EXCEPT ![g] = IF op[g] = "unblock" THEN ZeroTime
                                   ELSE Deadline(now + BlockTicks)]
  /\ UNCHANGED <<now, mem, op, key, limit, held, history>>

StoreFirstWord(g) ==
  /\ \/ /\ Goto(g, "store", "storeExt")
        /\ heap' = [heap EXCEPT ![held[g]].blockedUntil.wall = until[g].wall]
     \/ /\ Goto(g, "store", "storeWall")
        /\ heap' = [heap EXCEPT ![held[g]].blockedUntil.ext = until[g].ext]
  /\ UNCHANGED <<now, cache, call, history>>

StoreSecondWord(g) ==
  LET to == IF op[g] = "unblock" THEN "clear" ELSE "blocked"
  IN  /\ \/ /\ Goto(g, "storeExt", to)
            /\ heap' = [heap EXCEPT ![held[g]].blockedUntil.ext = until[g].ext]
         \/ /\ Goto(g, "storeWall", to)
            /\ heap' = [heap EXCEPT ![held[g]].blockedUntil.wall =
                          until[g].wall]
      /\ UNCHANGED <<now, cache, call, history>>

BlockReturns(g) ==
  /\ Return(g, "blocked")
  /\ promised' = IF key[g] \in evicted \cup replaced THEN promised
                 ELSE [promised EXCEPT ![key[g]] = until[g].ext]
  /\ UNCHANGED <<now, mem, evicted, replaced, admitted>>

ClearViolations(g) ==
  /\ Return(g, "clear")
  /\ heap' = [heap EXCEPT ![held[g]].violations = 0]
  /\ UNCHANGED <<now, cache, history>>

-----------------------------------------------------------------------------
\* IncrementViolation; the count saturates: no method compares it.
Violate(g) ==
  /\ Return(g, "violate")
  /\ heap' = [heap EXCEPT ![held[g]].violations = 1]
  /\ UNCHANGED <<now, cache, history>>

\* IsBlocked, GetViolationCount and GetSlidingWindowCount only read.
Read(g) ==
  /\ Return(g, "read")
  /\ UNCHANGED <<now, mem, history>>

Tick ==
  /\ now < MaxTime
  /\ now' = now + 1
  /\ UNCHANGED <<mem, pc, call, history>>

Next ==
  \/ \E g \in Goroutines :
       \/ \E o \in Methods, k \in Keys, l \in Limits : Call(g, o, k, l)
       \/ CacheHit(g) \/ CacheMiss(g) \/ CacheAdd(g)
       \/ RefuseBlocked(g) \/ PassBlockCheck(g) \/ WindowAllow(g)
       \/ ComputeDeadline(g) \/ StoreFirstWord(g) \/ StoreSecondWord(g)
       \/ BlockReturns(g) \/ ClearViolations(g)
       \/ Violate(g) \/ Read(g)
  \/ Tick

Spec == Init /\ [][Next]_vars

-----------------------------------------------------------------------------
Times == {ZeroTime} \cup [wall : BOOLEAN, ext : 0..(MaxTime + BlockTicks)]

TypeOK ==
  /\ now \in 1..MaxTime
  /\ Len(cache) <= Capacity
  /\ cache \in Seq([key : Keys, entry : Ids])
  /\ \A i \in Ids : /\ Len(heap[i].requests) <= EntryLimit
                    /\ heap[i].blockedUntil \in Times
                    /\ heap[i].violations \in {0, 1}
  /\ \A g \in Goroutines : held[g] \in Ids \cup {None} /\ until[g] \in Times
  /\ \A k \in Keys : promised[k] \in 0..(MaxTime + BlockTicks)

\* The limit of the request's own rule is kept: a request is only admitted when
\* the admissions of its key, itself included, do not exceed that limit.
AskedLimitKept ==
  [][\A g \in Goroutines :
       LET k == key[g]
       IN  pc[g] = "window" /\ Len(admitted'[k]) > Len(InWindow(admitted[k]))
             => Len(admitted'[k]) <= limit[g]]_vars

Serve(k, methods) ==
  {g \in Goroutines : \E o \in methods : <<g, k, o>> \in Serves}

\* The rate limit: no window holds more than EntryLimit admissions of a key that
\* is served by one goroutine at a time, however its entry was created.  When
\* several serve it, the only entries ever lost are those created before the
\* first of them was visible: the overrun is at most one window per goroutine.
\* An eviction forgets the admissions and blocks of its key, and nothing is
\* promised of the key from then on.
OverrunBounded ==
  \A k \in Keys :
    Len(admitted[k]) <= EntryLimit * Cardinality(Serve(k, Methods))

\* The keys whose blockedUntil is written by one goroutine at a time: two racing
\* writes can leave the words of two different values, or the earlier deadline.
OneWriter(k) == Cardinality(Serve(k, {"block", "unblock"})) <= 1

\* A completed Block is observed by every goroutine: no request of the key passes
\* the block check before the block has ended, whatever it reads in the middle of
\* the writes of blockedUntil, unless an unblock came in between, or the entry was
\* evicted or replaced.
BlockHolds ==
  [][\A g \in Goroutines :
       pc[g] = "checkBlocked" /\ pc'[g] = "window" /\ OneWriter(key[g])
         => now >= promised[key[g]]]_vars

\* Every variable keeps its type, and no block outlasts block_duration: when no
\* goroutine is storing a deadline, an entry that blocks does so for at most
\* BlockTicks more.
BlockBounded ==
  /\ TypeOK
  /\ (\A g \in Goroutines : pc[g] \notin {"storeExt", "storeWall"}) =>
       \A i \in DOMAIN cache :
         LET u == heap[cache[i].entry].blockedUntil
         IN  OneWriter(cache[i].key) /\ Before(u)
               => u.wall /\ u.ext <= now + BlockTicks
=============================================================================
