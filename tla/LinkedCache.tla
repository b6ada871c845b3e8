---------------------------- MODULE LinkedCache -----------------------------
(* prac/LRUCache.h: a least-recently-used cache as a doubly linked list    *)
(* between two sentinels and a map from keys to nodes.  A node is named by *)
(* a number; the nodes that put allocates and never frees (for a key that  *)
(* is there already, and the evicted ones) leave the model once nothing    *)
(* points to them.  A capacity of 0 makes put delete a sentinel, and is    *)
(* excluded.                                                               *)
EXTENDS Integers, Sequences, SequencesExt, FiniteSetsExt

CONSTANTS Keys, Values, capacity

VARIABLES nodes,     \* node -> key, value, next, prev
          m,         \* key -> node, for the keys cached
          cursize, returned

vars == <<nodes, m, cursize, returned>>

head == 0
tail == 1
node(k, v, next, prev) == [key |-> k, value |-> v, next |-> next, prev |-> prev]
Fresh == Min((2..(capacity + 2)) \ DOMAIN nodes)

Init == /\ nodes = [p \in {head, tail} |-> node(-1, -1, tail, head)]
        /\ m = [k \in {} |-> head] /\ cursize = 0 /\ returned = -1

\* head->next = n and the links on either side of it.
AtHead(ns, n) ==
    LET temp == ns[head].next
    IN  [ns EXCEPT ![head].next = n, ![n].prev = head, ![n].next = temp, ![temp].prev = n]

\* The six assignments in their order: inode's neighbours were read before.
StaysPut(ns, inode) == ns
MoveToHead(ns, inode) ==
    LET tprev == ns[inode].prev
        tnext == ns[inode].next
    IN  IF ns[head].next = inode THEN ns
        ELSE [AtHead(ns, inode) EXCEPT ![tprev].next = tnext, ![tnext].prev = tprev]

get(key) == /\ UNCHANGED <<m, cursize>>
            /\ IF key \notin DOMAIN m THEN returned' = -1 /\ UNCHANGED nodes
               ELSE /\ nodes' = MoveToHead(nodes, m[key])
                    /\ returned' = nodes[m[key]].value

With(ns, n, key, value) ==
    [p \in DOMAIN ns \cup {n} |-> IF p = n THEN node(key, value, n, n) ELSE ns[p]]

PutOver(key, value) ==
    /\ key \in DOMAIN m
    /\ nodes' = MoveToHead([nodes EXCEPT ![m[key]].value = value], m[key])
    /\ UNCHANGED <<m, cursize, returned>>

PutNew(key, value) ==
    /\ key \notin DOMAIN m /\ cursize < capacity
    /\ nodes' = AtHead(With(nodes, Fresh, key, value), Fresh)
    /\ m' = [k \in DOMAIN m \cup {key} |-> IF k = key THEN Fresh ELSE m[k]]
    /\ cursize' = cursize + 1 /\ UNCHANGED returned

\* The last node is unlinked and its key erased before the new one goes in.
PutEvict(key, value) ==
    LET end == nodes[tail].prev
        cut == [nodes EXCEPT ![nodes[end].prev].next = tail, ![tail].prev = nodes[end].prev]
        ns == AtHead(With(cut, Fresh, key, value), Fresh)
    IN  /\ key \notin DOMAIN m /\ cursize >= capacity
        /\ nodes' = [p \in DOMAIN ns \ {end} |-> ns[p]]
        /\ m' = [k \in (DOMAIN m \ {nodes[end].key}) \cup {key} |->
                   IF k = key THEN Fresh ELSE m[k]]
        /\ UNCHANGED <<cursize, returned>>

put(key, value) == PutOver(key, value) \/ PutNew(key, value) \/ PutEvict(key, value)

Next == \E k \in Keys : get(k) \/ \E v \in Values : put(k, v)
Spec == Init /\ [][Next]_vars

---------------------------------------------------------------------------
RECURSIVE Forward(_)
Forward(p) == IF p = tail THEN <<>>
              ELSE <<<<nodes[p].key, nodes[p].value>>>> \o Forward(nodes[p].next)

Recent == INSTANCE RecentCache WITH entries <- Forward(nodes[head].next)

(* Read from its head, the list of prac/LRUCache.h behaves as the cache    *)
(* that RecentCache promises: it keeps the entries in the order of their   *)
(* last use, evicts the least recent one, and get returns the last value   *)
(* put, however calls follow each other.                                   *)
ImplementsRecentCache == Recent!Spec

(* The list reads the same backward, the map leads to the node of each     *)
(* key, and nothing else is linked.                                        *)
LinksMatchMap ==
    /\ \A p \in DOMAIN nodes \ {tail} : nodes[nodes[p].next].prev = p
    /\ \A k \in DOMAIN m : nodes[m[k]].key = k
    /\ DOMAIN nodes = {head, tail} \cup {m[k] : k \in DOMAIN m}
    /\ cursize = Cardinality(DOMAIN m)
=============================================================================
