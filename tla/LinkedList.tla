----------------------------- MODULE LinkedList -----------------------------
(* sta/linkedlist.cpp, class linkedList: a singly linked list behind a     *)
(* header node.  The heap is the function from the addresses in use to     *)
(* nodes, so that reading a deleted node has no value.  pop dereferences a *)
(* null pointer when fewer than two elements are left and is not called    *)
(* then.                                                                   *)
EXTENDS Integers, Sequences, SequencesExt, FiniteSetsExt

CONSTANTS Values, MaxNodes

VARIABLES nodes,      \* address -> value and next
          elements,   \* the sequence meant
          answer      \* what the last call returned, and what was meant

vars == <<nodes, elements, answer>>

NULL == -1
header == 0
node(v, next) == [value |-> v, next |-> next]
Fresh(heap) == Min((0..MaxNodes) \ DOMAIN heap)
Free(heap, p) == [q \in DOMAIN heap \ {p} |-> heap[q]]
Alloc(heap, p, n) == [q \in DOMAIN heap \cup {p} |-> IF q = p THEN n ELSE heap[q]]

\* The nodes from p on, in order.
RECURSIVE From(_, _)
From(heap, p) == IF p = NULL THEN <<>> ELSE <<p>> \o From(heap, heap[p].next)
Chain(heap) == From(heap, heap[header].next)
Read(heap) == [i \in 1..Len(Chain(heap)) |-> heap[Chain(heap)[i]].value]

linkedList == [p \in {header} |-> node(0, NULL)]

insert(heap, x, pos) ==
    IF pos = NULL THEN heap
    ELSE [Alloc(heap, Fresh(heap), node(x, heap[pos].next))
            EXCEPT ![pos].next = Fresh(heap)]

push(heap, x) ==
    [Alloc(heap, Fresh(heap), node(x, NULL))
       EXCEPT ![Last(<<header>> \o Chain(heap))].next = Fresh(heap)]

find(heap, x) == LET found == SelectSeq(Chain(heap), LAMBDA p : heap[p].value = x)
                 IN  IF found = <<>> THEN NULL ELSE Head(found)

Before(heap, p) == CHOOSE q \in DOMAIN heap : heap[q].next = p
LosesRest(heap, x) ==
    LET p == find(heap, x)
    IN  IF p = NULL THEN heap ELSE Free([heap EXCEPT ![Before(heap, p)].next = NULL], p)
Delete(heap, x) ==
    LET p == find(heap, x)
    IN  IF p = NULL THEN heap
        ELSE Free([heap EXCEPT ![Before(heap, p)].next = heap[p].next], p)

\* The walk starts with prev at the first node.
pop(heap) == LET p == Last(Chain(heap))
             IN  Free([heap EXCEPT ![Before(heap, p)].next = NULL], p)

dequeue(heap) ==
    LET p == heap[header].next
    IN  IF p = NULL THEN heap
        ELSE Free([heap EXCEPT ![header].next = heap[p].next], p)

\* ~linkedList: what is still allocated afterwards.
Destroyed(heap) == DOMAIN heap \ ({header} \cup ToSet(Chain(heap)))

isEmpty(heap) == heap[header].next = NULL
---------------------------------------------------------------------------
Init == nodes = linkedList /\ elements = <<>> /\ answer = [got |-> 0, meant |-> 0]

Becomes(heap, s, got, meant) ==
    nodes' = heap /\ elements' = s /\ answer' = [got |-> got, meant |-> meant]
Room == Cardinality(DOMAIN nodes) < MaxNodes
Without(s, x) == IF Contains(s, x) THEN RemoveFirst(s, x) ELSE s

Push == /\ Room
        /\ \E x \in Values : Becomes(push(nodes, x), Append(elements, x), TRUE, TRUE)
\* The list is given a position by find.
Insert == /\ Room
          /\ \E x, y \in Values :
                LET pos == find(nodes, y)
                    i == SelectInSeq(elements, LAMBDA e : e = y)
                IN  Becomes(insert(nodes, x, pos),
                            IF i = 0 THEN elements ELSE InsertAt(elements, i + 1, x),
                            pos # NULL, i # 0)
Remove1 == \E x \in Values : Becomes(Delete(nodes, x), Without(elements, x),
                                     find(nodes, x) # NULL, Contains(elements, x))
Pop == /\ Len(elements) >= 2
       /\ Becomes(pop(nodes), Front(elements),
                  nodes[Last(Chain(nodes))].value, Last(elements))
Dequeue == IF isEmpty(nodes) THEN Becomes(nodes, elements, 0, 0)
           ELSE Becomes(dequeue(nodes), Tail(elements),
                        nodes[nodes[header].next].value, Head(elements))

Next == Push \/ Insert \/ Remove1 \/ Pop \/ Dequeue
Spec == Init /\ [][Next]_vars

---------------------------------------------------------------------------
(* After any calls, the list reads as the sequence meant, every call has   *)
(* returned what it should, no deleted node is linked, and every node in   *)
(* memory is in the list, so that the destructor frees them all.           *)
ListIsSequence ==
    /\ Read(nodes) = elements /\ answer.got = answer.meant
    /\ isEmpty(nodes) <=> elements = <<>>
    /\ Destroyed(nodes) = {}
=============================================================================
