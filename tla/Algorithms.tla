----------------------------- MODULE Algorithms -----------------------------
(* Pure algorithms of the repository: the sorts of sta/algorithms.h, the   *)
(* two longest common subsequences of sta/algorithms.cpp and the base64    *)
(* encoder of test/test.cpp.  They are applied to every sequence of bytes  *)
(* up to a length; positions are counted from 1.                           *)
EXTENDS Integers, Sequences, SequencesExt, FiniteSetsExt

CONSTANTS Bytes, MaxLen

VARIABLE input

Exchange(v, i, j) == [v EXCEPT ![i] = v[j], ![j] = v[i]]

\* The inner loop of bubbleSort: the array and the place of the last exchange.
RECURSIVE Pass(_, _, _, _)
Pass(v, j, high, last) ==
    IF j > high THEN [vec |-> v, last |-> last]
    ELSE IF v[j - 1] > v[j] THEN Pass(Exchange(v, j - 1, j), j + 1, high, j)
    ELSE Pass(v, j + 1, high, last)
RECURSIVE bubbleSort(_, _, _)
bubbleSort(v, low, high) ==
    IF low >= high THEN v
    ELSE LET pass == Pass(v, low + 1, high, low) IN bubbleSort(pass.vec, low, pass.last)

\* Of two equal heads merge takes neither, and its loop never ends.
Endless == <<-1>>
RECURSIVE Merged(_, _, _)
Merged(v1, v2, out) ==
    IF v1 = <<>> \/ v2 = <<>> THEN out \o v1 \o v2
    ELSE IF Head(v1) > Head(v2) THEN Merged(v1, Tail(v2), Append(out, Head(v2)))
    ELSE IF Head(v2) > Head(v1) THEN Merged(Tail(v1), v2, Append(out, Head(v1)))
    ELSE Endless
MergeKeepsOrder(v1, v2) == v1 \o v2
merge(v1, v2) == IF v1 = Endless \/ v2 = Endless THEN Endless ELSE Merged(v1, v2, <<>>)
RECURSIVE mergeSort(_)
mergeSort(v) ==
    LET mid == (Len(v) + 1) \div 2
    IN  IF Len(v) = 1 THEN v
        ELSE merge(mergeSort(SubSeq(v, 1, mid)), mergeSort(SubSeq(v, mid + 1, Len(v))))

Larger(a, b) == IF a > b THEN a ELSE b
RECURSIVE lcsWithRecursion1(_, _, _, _)
lcsWithRecursion1(s1, m, s2, n) ==
    IF m = 0 \/ n = 0 THEN 0
    ELSE IF s1[m] = s2[n] THEN 1 + lcsWithRecursion1(s1, m - 1, s2, n - 1)
    ELSE Larger(lcsWithRecursion1(s1, m, s2, n - 1), lcsWithRecursion1(s1, m - 1, s2, n))

\* The result and the table index, in which only what is above 0 is found.
RECURSIVE childRecursion(_, _, _, _, _)
childRecursion(s1, m, s2, n, index) ==
    IF m = 0 \/ n = 0 THEN [val |-> 0, index |-> index]
    ELSE IF index[m][n] > 0 THEN [val |-> index[m][n], index |-> index]
    ELSE LET both == childRecursion(s1, m - 1, s2, n - 1, index)
             one == childRecursion(s1, m, s2, n - 1, index)
             two == childRecursion(s1, m - 1, s2, n, one.index)
             Stored(ix, v) == [val |-> v, index |-> [ix EXCEPT ![m][n] = v]]
         IN  IF s1[m] = s2[n] THEN Stored(both.index, 1 + both.val)
             ELSE Stored(two.index, Larger(one.val, two.val))
lcsWithRecursion2(s1, m, s2, n) ==
    childRecursion(s1, m, s2, n, [i \in 1..m |-> [j \in 1..n |-> -1]]).val

\* Three bytes are four sextets; PAD is '='.
PAD == 64
RECURSIVE encode(_)
encode(buf) ==
    LET b(i) == IF i <= Len(buf) THEN buf[i] ELSE 0
        split4 == <<b(1) \div 4, (b(1) % 4) * 16 + b(2) \div 16,
                    (b(2) % 16) * 4 + b(3) \div 64, b(3) % 64>>
    IN  CASE buf = <<>> -> <<>>
          [] Len(buf) = 1 -> SubSeq(split4, 1, 2) \o <<PAD, PAD>>
          [] Len(buf) = 2 -> SubSeq(split4, 1, 3) \o <<PAD>>
          [] OTHER -> split4 \o encode(SubSeq(buf, 4, Len(buf)))

---------------------------------------------------------------------------
Init == input = <<>>
Next == Len(input) < MaxLen /\ \E b \in Bytes : input' = Append(input, b)
Spec == Init /\ [][Next]_input

---------------------------------------------------------------------------
Bits(n, width) == [i \in 1..width |-> (n \div 2 ^ (width - i)) % 2]
AllBits(s, width) == FlattenSeq([i \in 1..Len(s) |-> Bits(s[i], width)])

\* The definition: the longest sequence that both contain.
Picked(s, I) == LET order == SetToSortSeq(I, LAMBDA i, j : i < j)
                IN  [k \in 1..Len(order) |-> s[order[k]]]
Subsequences(s) == {Picked(s, I) : I \in SUBSET DOMAIN s}
Longest(s, t) == Max({Len(c) : c \in Subsequences(s) \cap Subsequences(t)})

(* bubbleSort sorts, and mergeSort does when no value comes twice; with    *)
(* and without the table the longest common subsequence of two texts is    *)
(* the longest; and the bits of the base64 text are those of the bytes,    *)
(* filled up with zeros and '=' to groups of four.                         *)
AlgorithmsAreRight ==
    LET n == Len(input)
        sorted == SortSeq(input, LAMBDA x, y : x < y)
        code == encode(input)
        sextets == SelectSeq(code, LAMBDA c : c # PAD)
        bits == AllBits(sextets, 6)
    IN  /\ bubbleSort(input, 1, n) = sorted
        /\ n > 0 /\ IsInjective(input) => mergeSort(input) = sorted
        /\ \A k \in 0..n :
             LET s == SubSeq(input, 1, k)
                 t == SubSeq(input, k + 1, n)
             IN  /\ lcsWithRecursion1(s, k, t, n - k) = Longest(s, t)
                 /\ lcsWithRecursion2(s, k, t, n - k) = Longest(s, t)
        /\ Len(code) % 4 = 0 /\ IsPrefix(sextets, code)
        /\ IsPrefix(AllBits(input, 8), bits) /\ Len(bits) - 8 * n < 6
        /\ \A i \in (8 * n + 1)..Len(bits) : bits[i] = 0
=============================================================================
