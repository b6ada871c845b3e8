---------------------------- MODULE DbLinkedList ----------------------------
(* sta/linkedlist.cpp, class dbLinkedList: a ring of doubly linked nodes.  *)
(* An empty list has one node whose flag is false.  Deleting the only      *)
(* element leaves head and tail null: every later call but the destructor  *)
(* dereferences it, so no call follows.                                    *)
EXTENDS Integers, Sequences, SequencesExt, FiniteSetsExt

CONSTANTS Values, MaxNodes

VARIABLES nodes, head, tail,
          elements,   \* the sequence meant
          answer      \* what the last call returned, and what was meant

vars == <<nodes, head, tail, elements, answer>>

NULL == -1
List(ns, h, t) == [nodes |-> ns, head |-> h, tail |-> t]
dbnode(v, next, prev, flag) == [value |-> v, next |-> next, prev |-> prev, flag |-> flag]
Fresh(ns) == Min((0..MaxNodes) \ DOMAIN ns)
Free(ns, p) == [q \in DOMAIN ns \ {p} |-> ns[q]]
Alloc(ns, p, n) == [q \in DOMAIN ns \cup {p} |-> IF q = p THEN n ELSE ns[q]]

dbLinkedList == List([p \in {0} |-> dbnode(0, 0, 0, FALSE)], 0, 0)

Unused(l) == l.head = l.tail /\ ~l.nodes[l.head].flag

push(l, x) ==
    LET p == Fresh(l.nodes)
        linked == [Alloc(l.nodes, p, dbnode(x, l.head, l.tail, TRUE))
                     EXCEPT ![l.tail].next = p]
    IN  IF Unused(l)
        THEN [l EXCEPT !.nodes[l.head].value = x, !.nodes[l.head].flag = TRUE]
        ELSE List([linked EXCEPT ![l.head].prev = p], l.head, p)

\* The ring, read from p until it comes back to stop.
RECURSIVE Around(_, _, _)
Around(ns, p, stop) ==
    <<p>> \o (IF ns[p].next = stop THEN <<>> ELSE Around(ns, ns[p].next, stop))
Ring(l) == Around(l.nodes, l.head, l.head)
Holding(l, x) == SelectSeq(Ring(l), LAMBDA p : l.nodes[p].value = x)

Link(ns, p, q) == [ns EXCEPT ![p].next = q, ![q].prev = p]
Unlink(l, p) ==
    LET ns == Free(l.nodes, p)
        pr == l.nodes[p].prev
        ne == l.nodes[p].next
    IN  IF p = l.head THEN List(Link(ns, l.tail, ne), ne, l.tail)
        ELSE IF p = l.tail THEN List(Link(ns, pr, l.head), l.head, pr)
        ELSE List(Link(ns, pr, ne), l.head, l.tail)

Delete(l, x) ==
    IF Unused(l) THEN [list |-> l, ret |-> FALSE]
    ELSE IF l.head = l.tail /\ l.nodes[l.head].value = x
    THEN [list |-> List(Free(l.nodes, l.head), NULL, NULL), ret |-> TRUE]
    ELSE IF Holding(l, x) = <<>> THEN [list |-> l, ret |-> FALSE]
    ELSE [list |-> Unlink(l, Head(Holding(l, x))), ret |-> TRUE]

getHeader(l) == l.nodes[l.head].value

\* ~dbLinkedList deletes from head up to tail, and then tail.
RECURSIVE Upto(_, _, _)
Upto(ns, p, last) == {p} \cup (IF p = last THEN {} ELSE Upto(ns, ns[p].next, last))
Destroyed(l) == DOMAIN l.nodes
                \ (IF l.head = NULL THEN {} ELSE Upto(l.nodes, l.head, l.tail))
---------------------------------------------------------------------------
list == List(nodes, head, tail)
Becomes(l, s, got, meant) ==
    /\ nodes' = l.nodes /\ head' = l.head /\ tail' = l.tail
    /\ elements' = s /\ answer' = [got |-> got, meant |-> meant]

Init == /\ nodes = dbLinkedList.nodes /\ head = dbLinkedList.head
        /\ tail = dbLinkedList.tail
        /\ elements = <<>> /\ answer = [got |-> 0, meant |-> 0]

Push == /\ head # NULL /\ Cardinality(DOMAIN nodes) < MaxNodes
        /\ \E x \in Values : Becomes(push(list, x), Append(elements, x), TRUE, TRUE)
Remove1 == /\ head # NULL
           /\ \E x \in Values :
                 LET d == Delete(list, x)
                     there == Contains(elements, x)
                 IN  Becomes(d.list, IF there THEN RemoveFirst(elements, x) ELSE elements,
                             d.ret, there)
First == /\ head # NULL
         /\ Becomes(list, elements, getHeader(list),
                    IF elements = <<>> THEN 0 ELSE Head(elements))

\* The destructor, and a new list.
Renew == /\ head = NULL
         /\ Becomes(dbLinkedList, <<>>, 0, 0)

Next == Push \/ Remove1 \/ First \/ Renew
Spec == Init /\ [][Next]_vars

---------------------------------------------------------------------------
(* After any calls the ring reads as the sequence meant, forward and       *)
(* backward, tail is its last node, every call has returned what it should *)
(* and every node in memory is one the destructor frees.                   *)
RingIsSequence ==
    LET ring == Ring(list)
        n == Len(ring)
    IN  /\ answer.got = answer.meant
        /\ Destroyed(list) = {}
        /\ elements # <<>> =>
             /\ [i \in 1..n |-> nodes[ring[i]].value] = elements
             /\ \A i \in 1..n : nodes[ring[i]].prev = ring[IF i = 1 THEN n ELSE i - 1]
             /\ tail = ring[n]
        /\ elements = <<>> => head = NULL \/ Unused(list)
=============================================================================
