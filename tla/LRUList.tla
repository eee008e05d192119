------------------------------- MODULE LRUList -------------------------------
(***************************************************************************)
(* The lruCache of middleware/storage/memory/store.go as it is built: a    *)
(* map from keys to entries and a doubly linked list through the entries,  *)
(* between two sentinels.  Every method holds the cache's mutex, so each   *)
(* is one action; the pointer assignments inside are composed in order.    *)
(* The names do not clash with those of SearchedWindow, the other data     *)
(* structure of an entry: SearchedWindowProofs extends both.               *)
(***************************************************************************)
EXTENDS Integers, Sequences, FiniteSets

CONSTANTS
  Keys,        \* client keys
  Entries,     \* entry objects
  Capacity,    \* newLRUCache's capacity
  None,        \* nil
  Front, Back   \* the sentinel nodes

ASSUME CapacityAssumption == Capacity \in Nat
ASSUME NodesAssumption == Front # Back /\ {Front, Back, None} \cap Entries = {}

VARIABLES
  items,   \* c.items: a function from the keys present to their entries
  next,    \* the next pointer of every node
  prev,    \* the prev pointer of every node
  result   \* what the last call returned

listVars == <<items, next, prev, result>>

Nodes == Entries \cup {Front, Back}

ListInit ==
  /\ items = << >>
  /\ next = [n \in Nodes |-> IF n = Front THEN Back ELSE None]
  /\ prev = [n \in Nodes |-> IF n = Back THEN Front ELSE None]
  /\ result = None

\* A list is the pair of its pointer maps.
List == [next |-> next, prev |-> prev]

\* Mutant: the old first node keeps pointing back to the sentinel.
AddToFrontHalf(l, e) ==
  [next |-> [l.next EXCEPT ![e] = l.next[Front], ![Front] = e],
   prev |-> [l.prev EXCEPT ![e] = Front]]

AddToFront(l, e) ==
  LET first == l.next[Front]
  IN  [next |-> [l.next EXCEPT ![e] = first, ![Front] = e],
       prev |-> [l.prev EXCEPT ![e] = Front, ![first] = e]]

RemoveFromList(l, e) ==
  [next |-> [l.next EXCEPT ![l.prev[e]] = l.next[e]],
   prev |-> [l.prev EXCEPT ![l.next[e]] = l.prev[e]]]

\* Mutant: a hit does not move the entry.
StayInPlace(l, e) == l

MoveToFront(l, e) == AddToFront(RemoveFromList(l, e), e)

Drop(map, k) == [j \in DOMAIN map \ {k} |-> map[j]]

\* evict deletes the first key found that maps to the last node.
Evict(l, map) ==
  LET back == l.prev[Back]
  IN  IF back = Front
      THEN {<<l, map>>}
      ELSE LET keys == {k \in DOMAIN map : map[k] = back}
           IN  IF keys = {} THEN {<<RemoveFromList(l, back), map>>}
               ELSE {<<RemoveFromList(l, back), Drop(map, k)>> : k \in keys}

SetList(l) == next' = l.next /\ prev' = l.prev

Get(k) ==
  IF k \in DOMAIN items
  THEN /\ SetList(MoveToFront(List, items[k]))
       /\ result' = items[k]
       /\ UNCHANGED items
  ELSE /\ result' = None
       /\ UNCHANGED <<items, next, prev>>

\* Callers add entries they have just allocated.
Fresh(e) == \A k \in DOMAIN items : items[k] # e

Add(k, e) ==
  /\ Fresh(e)
  /\ LET unlinked == IF k \in DOMAIN items THEN RemoveFromList(List, items[k])
                                           ELSE List
         linked == AddToFront(unlinked, e)
         map == [j \in DOMAIN items \cup {k} |-> IF j = k THEN e ELSE items[j]]
     IN  \E after \in IF Cardinality(DOMAIN map) > Capacity
                      THEN Evict(linked, map) ELSE {<<linked, map>>} :
           SetList(after[1]) /\ items' = after[2]
  /\ result' = None

Remove(k) ==
  /\ IF k \in DOMAIN items
     THEN /\ SetList(RemoveFromList(List, items[k]))
          /\ items' = Drop(items, k)
     ELSE UNCHANGED <<items, next, prev>>
  /\ result' = None

ListNext == \E k \in Keys : Get(k) \/ Remove(k) \/ \E e \in Entries : Add(k, e)

ListSpec == ListInit /\ [][ListNext]_listVars

-----------------------------------------------------------------------------
ListTypeOK ==
  /\ DOMAIN items \subseteq Keys
  /\ Cardinality(DOMAIN items) <= Capacity
  /\ \A k \in DOMAIN items : items[k] \in Entries
  /\ next \in [Nodes -> Nodes \cup {None}]
  /\ prev \in [Nodes -> Nodes \cup {None}]
  /\ result \in Entries \cup {None}

\* The list read forwards, node by node.
Size == Cardinality(DOMAIN items)
Node == LET step[i \in 0..Size] == IF i = 0 THEN Front ELSE next[step[i - 1]]
        IN  step

\* The map never outgrows the capacity, and every variable keeps its type.
\* The list holds exactly the entries of the map, each once, and reads the
\* same in both directions: no sequence of calls leaves a node unlinked, linked
\* twice, or reachable from one side only.
WellLinked ==
  /\ ListTypeOK
  /\ {Node[i] : i \in 1..Size} = {items[k] : k \in DOMAIN items}
  /\ Cardinality({items[k] : k \in DOMAIN items}) = Size
  /\ next[Node[Size]] = Back /\ prev[Back] = Node[Size]
  /\ \A i \in 1..Size : prev[Node[i]] = Node[i - 1]

KeyOf(e) == CHOOSE k \in DOMAIN items : items[k] = e

\* The list and the map implement the abstract cache.
Abstract == INSTANCE LRUCache WITH
  recent <- [i \in 1..Size |-> [key |-> KeyOf(Node[i]), entry |-> Node[i]]]

ImplementsLRU == Abstract!Spec
=============================================================================
