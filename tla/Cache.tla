------------------------------- MODULE Cache -------------------------------
(***************************************************************************)
(* DM::Cache of dmcache.h: a doubly linked list of nodes with a map from   *)
(* key to node.  Every operation runs under the cache's mutex and is one   *)
(* action.  A key has at most one node, so the node is named by its key,   *)
(* and what a deleted node's fields hold is cleared.  The counters of hits *)
(* and misses are left out.                                                *)
(***************************************************************************)
EXTENDS Naturals, Sequences, FiniteSets

CONSTANTS
  Keys, Values,
  Size,       \* the constructor's size, 0 for an infinite cache
  Null        \* NULL: no node, no value

ASSUME CacheAssumption ==
  /\ Size \in Nat
  /\ Null \notin Keys \cup Values

VARIABLES
  map,        \* the keys that have a node
  list,       \* _root, _last, _cnt and the links of the nodes
  value,      \* node -> its value
  answer      \* what the last get returned

cacheVars == <<map, list, value, answer>>

NoLinks == [k \in Keys |-> Null]
Empty == [root |-> Null, last |-> Null, cnt |-> 0, next |-> NoLinks, prev |-> NoLinks]

TypeOK ==
  /\ map \subseteq Keys
  /\ list \in [root : Keys \cup {Null}, last : Keys \cup {Null}, cnt : Nat,
               next : [Keys -> Keys \cup {Null}], prev : [Keys -> Keys \cup {Null}]]
  /\ value \in [Keys -> Values \cup {Null}]
  /\ answer \in Values \cup {Null}

Init ==
  /\ map = {} /\ list = Empty
  /\ value = [k \in Keys |-> Null] /\ answer = Null

-----------------------------------------------------------------------------
(* The list *)

UncountedPush(l, n) ==                                    \* mutant of PushFront
  [l EXCEPT !.root = n, !.last = IF @ = Null THEN n ELSE @, !.next[n] = l.root,
            !.prev = [x \in Keys |-> IF x = n THEN Null ELSE IF x = l.root THEN n ELSE @[x]]]
PushFront(l, n) ==
  [root |-> n,
   last |-> IF l.last = Null THEN n ELSE l.last,
   cnt  |-> l.cnt + 1,
   next |-> [l.next EXCEPT ![n] = l.root],
   prev |-> [x \in Keys |-> IF x = n THEN Null ELSE IF x = l.root THEN n ELSE l.prev[x]]]

(* Unlinks n; its own links stay as they are.                              *)
LastStays(l, n) ==                                        \* mutant of Pop
  [l EXCEPT !.root = IF @ = n THEN l.next[n] ELSE @, !.cnt = @ - 1,
            !.next = [x \in Keys |-> IF x = l.prev[n] THEN l.next[n] ELSE @[x]],
            !.prev = [x \in Keys |-> IF x = l.next[n] THEN l.prev[n] ELSE @[x]]]
Pop(l, n) ==
  [root |-> IF n = l.root THEN l.next[n] ELSE l.root,
   last |-> IF n = l.last THEN l.prev[n] ELSE l.last,
   cnt  |-> l.cnt - 1,
   next |-> [x \in Keys |-> IF x = l.prev[n] THEN l.next[n] ELSE l.next[x]],
   prev |-> [x \in Keys |-> IF x = l.next[n] THEN l.prev[n] ELSE l.prev[x]]]

(* pop and delete: the links of a deleted node are gone.                   *)
Unlinked(l, n) ==
  [Pop(l, n) EXCEPT !.next[n] = Null, !.prev[n] = Null]

KeepsPlace(l, n) == l                                     \* mutant of MovedToFront
MovedToFront(l, n) == PushFront(Pop(l, n), n)

(* add keeps the size by removing the node at the end.                     *)
OneTooMany(l) == Size # 0 /\ l.cnt > Size + 1             \* mutant of TooLong
TooLong(l) == Size # 0 /\ l.cnt > Size

(* The list, map and values after newNode, push_front and the removal.     *)
Inserted(l, m, vals, k, v) ==
  LET longer == PushFront(l, k)
      out == IF TooLong(longer) THEN {longer.last} ELSE {}
  IN [list  |-> IF TooLong(longer) THEN Unlinked(longer, longer.last) ELSE longer,
      map   |-> (m \cup {k}) \ out,
      value |-> [x \in Keys |-> IF x \in out THEN Null ELSE IF x = k THEN v ELSE vals[x]]]

-----------------------------------------------------------------------------
(* The operations *)

Get(k) ==
  /\ IF k \in map
     THEN list' = MovedToFront(list, k) /\ answer' = value[k]
     ELSE answer' = Null /\ UNCHANGED list
  /\ UNCHANGED <<map, value>>

(* A key that exists keeps its value.                                      *)
Add(k, v) ==
  /\ k \notin map
  /\ LET new == Inserted(list, map, value, k, v)
     IN list' = new.list /\ map' = new.map /\ value' = new.value
  /\ UNCHANGED answer

(* replace removes the node and adds the key again.                        *)
Replace(k, v) ==
  /\ k \in map
  /\ LET new == Inserted(Unlinked(list, k), map \ {k}, value, k, v)
     IN list' = new.list /\ map' = new.map /\ value' = new.value
  /\ UNCHANGED answer

Delete(k) ==
  /\ k \in map
  /\ list' = Unlinked(list, k)
  /\ map' = map \ {k}
  /\ value' = [value EXCEPT ![k] = Null]
  /\ UNCHANGED answer

Clear ==
  /\ map' = {} /\ list' = Empty
  /\ value' = [k \in Keys |-> Null]
  /\ UNCHANGED answer

Next ==
  \/ \E k \in Keys : Get(k) \/ Delete(k)
  \/ \E k \in Keys, v \in Values : Add(k, v) \/ Replace(k, v)
  \/ Clear

Spec == Init /\ [][Next]_cacheVars

-----------------------------------------------------------------------------
(* The list from the root along next, and from the end along prev.         *)
Forward[n \in Nat] ==
  IF n = 0 THEN (IF list.root = Null THEN <<>> ELSE <<list.root>>)
  ELSE LET s == Forward[n - 1]
       IN IF s = <<>> \/ list.next[s[Len(s)]] = Null THEN s
          ELSE Append(s, list.next[s[Len(s)]])
Backward[n \in Nat] ==
  IF n = 0 THEN (IF list.last = Null THEN <<>> ELSE <<list.last>>)
  ELSE LET s == Backward[n - 1]
       IN IF s = <<>> \/ list.prev[s[1]] = Null THEN s
          ELSE <<list.prev[s[1]]>> \o s
Order == Forward[Cardinality(map)]

(* Whatever the sequence of calls, both directions of the list visit the   *)
(* nodes of the map, each once and in the same order, and _cnt is their    *)
(* number: no call needs the NULL checks the list goes without.            *)
ListMatchesMap ==
  /\ Order = Backward[Cardinality(map)]
  /\ {Order[i] : i \in DOMAIN Order} = map
  /\ Len(Order) = Cardinality(map)
  /\ list.cnt = Cardinality(map)

(* The cache never holds more than its size, and every node has a value.   *)
SizeKept ==
  /\ Size # 0 => Cardinality(map) <= Size
  /\ \A k \in Keys : k \in map <=> value[k] # Null

(* The linked list implements the dictionary sorted by access order.       *)
Lru == INSTANCE LruCache WITH entries <- Order, Nothing <- Null
SortedByAccess == Lru!Spec
=============================================================================
