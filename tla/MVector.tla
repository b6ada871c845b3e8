------------------------------ MODULE MVector -------------------------------
(* cpp/structure/m_vector.h: a vector of integers in an array of m_capcity *)
(* cells, with its searches and sorts.  Beside it the state machine keeps  *)
(* the sequence the vector stands for.  Positions are counted from 0, as   *)
(* in the code; an empty vector is not popped, made unique or, with no     *)
(* capacity at all, pushed to: the code would write outside the array.     *)
EXTENDS Integers, Sequences, SequencesExt, FiniteSetsExt

CONSTANTS DEFAULT_SIZE,   \* 16
          Values, MaxSize

VARIABLES vec,        \* the cells and m_size
          elements    \* the sequence meant

vars == <<vec, elements>>

Unwritten == 0
New(n) == [i \in 1..n |-> Unwritten]
Vector(cells, size) == [cells |-> cells, size |-> size]
At(v, i) == v.cells[i + 1]
Set(v, i, x) == [v EXCEPT !.cells[i + 1] = x]
capacity(v) == Len(v.cells)
Contents(v) == SubSeq(v.cells, 1, v.size)

\* std::fill on the first n of 2 n cells.
Filled(n, x) == Vector([i \in 1..(2 * n) |-> IF i <= n THEN x ELSE Unwritten], n)

reserve(v, n) == Vector(SubSeq(v.cells, 1, v.size) \o New(n - v.size), v.size)
Room(v) == IF v.size + 1 > capacity(v) THEN reserve(v, v.size * 2) ELSE v

\* operator=: a new array of the same capacity, filled through operator[].
Assigned(v) == Vector(SubSeq(v.cells, 1, v.size) \o New(capacity(v) - v.size), v.size)

push_back(v, x) == [Set(Room(v), v.size, x) EXCEPT !.size = @ + 1]
pop_back(v) == [Set(v, v.size - 1, 0) EXCEPT !.size = @ - 1]

\* *p = *(p - 1) from the new end down to pos.
insert(v, pos, x) ==
    LET r == Room(v)
    IN  Vector([i \in 1..capacity(r) |->
                  IF i = pos + 1 THEN x
                  ELSE IF i > pos + 1 /\ i <= v.size + 1 THEN r.cells[i - 1]
                  ELSE r.cells[i]], v.size + 1)

\* *p = *(p + 1) from pos on; the last cell keeps its value.
remove(v, pos) ==
    Vector([i \in 1..capacity(v) |->
              IF i > pos /\ i < v.size THEN v.cells[i + 1] ELSE v.cells[i]],
           v.size - 1)

\* *l++ = *r++ until r is at the end.
erase(v, l, r) ==
    IF l >= r THEN v
    ELSE Vector([i \in 1..capacity(v) |->
                   IF i > l /\ i + r - l <= v.size THEN v.cells[i + r - l]
                   ELSE v.cells[i]], v.size - (r - l))

RECURSIVE DropFrom(_, _, _)
DropFrom(v, i, j) == IF j >= v.size THEN v
                     ELSE IF At(v, j) = At(v, i) THEN DropFrom(remove(v, j), i, j)
                     ELSE DropFrom(v, i, j + 1)
RECURSIVE DedupFrom(_, _)
DedupFrom(v, i) == IF i >= v.size THEN v ELSE DedupFrom(DropFrom(v, i, i + 1), i + 1)
deduplicate(v) == DedupFrom(v, 0)

RECURSIVE UniqueFrom(_, _, _)
UniqueFrom(v, i, j) ==
    IF j >= v.size THEN [v EXCEPT !.size = i + 1]
    ELSE IF At(v, i) # At(v, j) THEN UniqueFrom(Set(v, i + 1, At(v, j)), i + 1, j + 1)
    ELSE UniqueFrom(v, i, j + 1)
unique(v) == UniqueFrom(v, 0, 1)

\* One pass of bubble: the vector and the position of the last exchange.
RECURSIVE BubbleFrom(_, _, _, _)
BubbleFrom(v, p, hi, last) ==
    IF p >= hi THEN [vec |-> v, last |-> last]
    ELSE IF At(v, p) < At(v, p - 1)
    THEN BubbleFrom(Set(Set(v, p, At(v, p - 1)), p - 1, At(v, p)), p + 1, hi, p)
    ELSE BubbleFrom(v, p + 1, hi, last)
bubbleSkipsFirst(v, lo, hi) == BubbleFrom(v, lo + 2, hi, lo)
bubble(v, lo, hi) == BubbleFrom(v, lo + 1, hi, lo)

RECURSIVE bubbleSort(_, _, _)
bubbleSort(v, lo, hi) ==
    LET pass == bubble(v, lo, hi)
    IN  IF lo < pass.last THEN bubbleSort(pass.vec, lo, pass.last) ELSE pass.vec

\* The array temp: of two equal heads the one of the second half goes first.
RECURSIVE Merged(_, _)
Merged(a, b) == IF a = <<>> \/ b = <<>> THEN a \o b
                ELSE IF Head(a) < Head(b) THEN <<Head(a)>> \o Merged(Tail(a), b)
                ELSE <<Head(b)>> \o Merged(a, Tail(b))
merge(v, lo, mid, hi) ==
    LET temp == Merged(SubSeq(v.cells, lo + 1, mid), SubSeq(v.cells, mid + 1, hi))
    IN  [v EXCEPT !.cells = SubSeq(@, 1, lo) \o temp \o SubSeq(@, hi + 1, Len(@))]

RECURSIVE mergeSort(_, _, _)
mergeSort(v, lo, hi) ==
    LET mid == lo + (hi - lo) \div 2
    IN  IF hi - lo < 2 THEN v
        ELSE merge(mergeSort(mergeSort(v, lo, mid), mid, hi), lo, mid, hi)

find(v, e, start, end) ==
    LET found == {i \in start..(end - 1) : At(v, i) = e}
    IN  IF found = {} THEN end ELSE Min(found)

find_all(v, e) == find(v, e, 0, v.size)

\* search returns hi, not the narrowed end, when e is not there.
RECURSIVE SearchIn(_, _, _, _, _)
SearchIn(v, e, start, end, none) ==
    LET mid == start + (end - start) \div 2
    IN  IF start >= end THEN none
        ELSE IF At(v, mid) < e THEN SearchIn(v, e, mid + 1, end, none)
        ELSE IF e < At(v, mid) THEN SearchIn(v, e, start, mid, none)
        ELSE mid
search(v, e, lo, hi) == SearchIn(v, e, lo, hi, hi)

\* Fib: g is a Fibonacci number and f the one before it.
RECURSIVE FibFrom(_, _)
FibFrom(fib, n) == IF fib.g >= n THEN fib
                   ELSE FibFrom([f |-> fib.g, g |-> fib.g + fib.f], n)
Fib(n) == FibFrom([f |-> 1, g |-> 0], n)
RECURSIVE Prev(_, _)
Prev(fib, n) == IF n >= fib.g THEN fib
                ELSE Prev([f |-> fib.g - fib.f, g |-> fib.f], n)

RECURSIVE FibIn(_, _, _, _, _, _)
FibIn(v, e, lo, hi, fib, none) ==
    LET small == Prev(fib, hi - lo)
        mid == lo + small.g - 1
    IN  IF lo >= hi THEN none
        ELSE IF At(v, mid) < e THEN FibIn(v, e, mid + 1, hi, small, none)
        ELSE IF e < At(v, mid) THEN FibIn(v, e, lo, mid, small, none)
        ELSE mid
fibsearch(v, e, lo, hi) == FibIn(v, e, lo, hi, Fib(hi - lo), hi)

---------------------------------------------------------------------------
Init == \/ vec = Vector(New(DEFAULT_SIZE), 0) /\ elements = <<>>
        \/ \E n \in 1..2, x \in Values :
              vec = Filled(n, x) /\ elements = [i \in 1..n |-> x]

Becomes(v, s) == vec' = v /\ elements' = s

Sorted(s) == \A i \in 1..(Len(s) - 1) : s[i] <= s[i + 1]
Ordered(s) == SortSeq(s, LAMBDA x, y : x < y)
Positions == 0..(vec.size - 1)

\* The first of each value, in their order.
Firsts(s) == LET first == {i \in DOMAIN s : s[i] \notin ToSet(SubSeq(s, 1, i - 1))}
             IN  [k \in 1..Len(SetToSeq(first)) |->
                    s[CHOOSE i \in first : Len(SetToSeq({j \in first : j <= i})) = k]]

Assign == Becomes(Assigned(vec), elements)   \* another vector takes its place
Push == /\ vec.size < MaxSize
        /\ \E x \in Values : Becomes(push_back(vec, x), Append(elements, x))
Pop == /\ vec.size > 0
       /\ Becomes(pop_back(vec), Front(elements))
Insert == /\ vec.size < MaxSize
          /\ \E pos \in 0..vec.size, x \in Values :
                Becomes(insert(vec, pos, x), InsertAt(elements, pos + 1, x))
RemoveAny == \E pos \in Positions : Becomes(remove(vec, pos), RemoveAt(elements, pos + 1))
Erase == \E l, r \in 0..vec.size :
            Becomes(erase(vec, l, r),
                    IF l >= r THEN elements
                    ELSE SubSeq(elements, 1, l) \o SubSeq(elements, r + 1, vec.size))
Dedup == Becomes(deduplicate(vec), Firsts(elements))
Uniq == /\ vec.size > 0 /\ Sorted(elements)
        /\ Becomes(unique(vec), Firsts(elements))
Sort == \E lo, hi \in 0..vec.size :
           /\ lo <= hi
           /\ \/ vec' = bubbleSort(vec, lo, hi)
              \/ vec' = mergeSort(vec, lo, hi)
           /\ elements' = SubSeq(elements, 1, lo)
                          \o Ordered(SubSeq(elements, lo + 1, hi))
                          \o SubSeq(elements, hi + 1, vec.size)

Next == Assign \/ Push \/ Pop \/ Insert \/ RemoveAny \/ Erase \/ Dedup \/ Uniq \/ Sort
Spec == Init /\ [][Next]_vars

---------------------------------------------------------------------------
(* After any sequence of calls the vector is the sequence meant, across    *)
(* every growth of its array, and never larger than it; find returns the   *)
(* first position, and in any sorted range search and fibsearch return a   *)
(* position of the value, or the end when it is not there.                 *)
VectorIsSequence ==
    /\ vec.size <= capacity(vec) /\ Contents(vec) = elements
    /\ \A e \in Values : find_all(vec, e) < vec.size <=> e \in ToSet(elements)
    /\ \A e \in Values, lo, hi \in 0..Len(elements) :
          LET range == SubSeq(elements, lo + 1, hi)
              Right(p) == IF e \in ToSet(range) THEN p \in lo..(hi - 1) /\ elements[p + 1] = e
                          ELSE p = hi
              first == find(vec, e, lo, hi)
          IN  lo < hi =>
                /\ Right(first) /\ e \notin ToSet(SubSeq(elements, lo + 1, first))
                /\ Sorted(range) => Right(search(vec, e, lo, hi)) /\ Right(fibsearch(vec, e, lo, hi))
=============================================================================
