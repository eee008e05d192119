--------------------------------- MODULE LRU ---------------------------------
(***************************************************************************)
(* Least-recently-used order as a value: a sequence of [key, entry]        *)
(* records, most recently used first, no key twice.  This is what the      *)
(* lruCache of middleware/storage/memory/store.go promises; module LRUList *)
(* shows that its map and doubly linked list keep the promise.             *)
(***************************************************************************)
EXTENDS Integers, Sequences

\* Whether the cache holds an entry for k, and the entry it holds.
Holds(cache, k) == \E i \in DOMAIN cache : cache[i].key = k
Place(cache, k) == CHOOSE i \in DOMAIN cache : cache[i].key = k
EntryOf(cache, k) == cache[Place(cache, k)].entry

Without(cache, k) ==
  LET i == Place(cache, k)
  IN  IF Holds(cache, k)
      THEN SubSeq(cache, 1, i - 1) \o SubSeq(cache, i + 1, Len(cache))
      ELSE cache

\* Get: a hit makes the key the most recently used one.
Used(cache, k) ==
  IF Holds(cache, k)
  THEN <<[key |-> k, entry |-> EntryOf(cache, k)]>> \o Without(cache, k)
  ELSE cache

\* Add: the entry replaces an older one of the same key; one key too many
\* evicts the least recently used.
Added(cache, k, e, capacity) ==
  LET longer == <<[key |-> k, entry |-> e]>> \o Without(cache, k)
  IN  IF Len(longer) > capacity THEN SubSeq(longer, 1, Len(longer) - 1)
                                ELSE longer
=============================================================================
