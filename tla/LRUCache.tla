------------------------------ MODULE LRUCache ------------------------------
(***************************************************************************)
(* What the lruCache of middleware/storage/memory/store.go promises: a map *)
(* of at most Capacity keys that forgets the least recently used one.      *)
(***************************************************************************)
EXTENDS LRU

CONSTANTS
  Keys,      \* client keys
  Entries,   \* entry objects
  Capacity,  \* capacity of the cache
  None       \* the result of a call that returns no entry

VARIABLES
  recent,  \* the cache, most recently used first
  result   \* what the last call returned

vars == <<recent, result>>

Init == recent = << >> /\ result = None

Get(k) ==
  /\ recent' = Used(recent, k)
  /\ result' = IF Holds(recent, k) THEN EntryOf(recent, k) ELSE None

Add(k, e) ==
  /\ \A i \in DOMAIN recent : recent[i].entry # e
  /\ recent' = Added(recent, k, e, Capacity)
  /\ result' = None

Remove(k) ==
  /\ recent' = Without(recent, k)
  /\ result' = None

Next == \E k \in Keys : Get(k) \/ Remove(k) \/ \E e \in Entries : Add(k, e)

Spec == Init /\ [][Next]_vars
=============================================================================
