----------------------------- MODULE SearchTree -----------------------------
(* sta/tree.h: a binary search tree.  A tree is null, <<>>, or a node      *)
(* <<left, value, right>>.  Delete(v) drops the root that the recursive    *)
(* Delete returns, so deleting a root without two children leaves root     *)
(* dangling; and a deleted node with only a left child takes that subtree  *)
(* with it.  The model stops at the first and records the second in lost.  *)
EXTENDS Integers, Sequences, SequencesExt

CONSTANTS Values, MaxLen

VARIABLES root,
          meant,      \* the values inserted and not deleted
          lost,       \* a subtree has been dropped
          dangling    \* root points to a deleted node

vars == <<root, meant, lost, dangling>>

Null == <<>>
left(t) == t[1]
value(t) == t[2]
right(t) == t[3]

RECURSIVE insert(_, _)
insert(t, v) == IF t = Null THEN <<Null, v, Null>>
                ELSE IF v < value(t) THEN <<insert(left(t), v), value(t), right(t)>>
                ELSE IF v > value(t) THEN <<left(t), value(t), insert(right(t), v)>>
                ELSE t

RECURSIVE find(_, _)
find(t, v) == IF t = Null \/ value(t) = v THEN t
              ELSE IF value(t) < v THEN find(right(t), v) ELSE find(left(t), v)

RECURSIVE findMin(_)
findMin(t) == IF left(t) = Null THEN t ELSE findMin(left(t))

\* Puts the successor into the node and leaves it in the right subtree.
RECURSIVE KeepsSuccessor(_, _)
KeepsSuccessor(t, v) ==
    IF v > value(t) THEN <<left(t), value(t), KeepsSuccessor(right(t), v)>>
    ELSE IF v < value(t) THEN <<KeepsSuccessor(left(t), v), value(t), right(t)>>
    ELSE IF left(t) # Null /\ right(t) # Null
    THEN <<left(t), value(findMin(right(t))), right(t)>>
    ELSE right(t)

RECURSIVE Delete(_, _)
Delete(t, v) ==
    IF v > value(t) THEN <<left(t), value(t), Delete(right(t), v)>>
    ELSE IF v < value(t) THEN <<Delete(left(t), v), value(t), right(t)>>
    ELSE IF left(t) # Null /\ right(t) # Null
    THEN LET next == value(findMin(right(t)))
         IN  <<left(t), next, Delete(right(t), next)>>
    ELSE right(t)

\* The vector constructor: the middle first, then outwards on both sides.
RECURSIVE Outwards(_, _, _, _)
Outwards(t, vec, i, j) ==
    IF i < Len(vec)
    THEN Outwards(insert(insert(t, vec[i + 1]), vec[j + 1]), vec, i + 1, j - 1)
    ELSE IF j = 0 THEN insert(t, vec[1]) ELSE t
FromVector(vec) == LET mid == Len(vec) \div 2
                   IN  Outwards(insert(Null, vec[mid + 1]), vec, mid + 1, mid - 1)

\* operator<<: in order.
RECURSIVE printTree(_)
printTree(t) == IF t = Null THEN <<>>
                ELSE printTree(left(t)) \o <<value(t)>> \o printTree(right(t))
---------------------------------------------------------------------------
Init == /\ lost = FALSE /\ dangling = FALSE
        /\ \/ root = Null /\ meant = {}
           \/ \E vec \in UNION {[1..n -> Values] : n \in 1..MaxLen} :
                 root = FromVector(vec) /\ meant = ToSet(vec)

Insert == /\ ~dangling
          /\ \E v \in Values : root' = insert(root, v) /\ meant' = meant \cup {v}
          /\ UNCHANGED <<lost, dangling>>

DeleteValue ==
    /\ ~dangling
    /\ \E v \in Values :
         LET del == find(root, v)
             atRoot == del # Null /\ v = value(root) /\ (left(root) = Null \/ right(root) = Null)
         IN  /\ meant' = meant \ {v}
             /\ root' = IF del = Null \/ atRoot THEN root ELSE Delete(root, v)
             /\ dangling' = atRoot
             /\ lost' = (lost \/ (del # Null /\ left(del) # Null /\ right(del) = Null))

Next == Insert \/ DeleteValue
Spec == Init /\ [][Next]_vars

---------------------------------------------------------------------------
(* As long as root is valid, printing the tree gives strictly increasing   *)
(* values whatever was inserted and deleted, find and findMin agree with   *)
(* it, and unless a node with only a left child was deleted the tree holds *)
(* exactly the values inserted and not deleted.                            *)
TreeHoldsKeys ==
    ~dangling =>
      LET s == printTree(root)
      IN  /\ \A i \in 1..(Len(s) - 1) : s[i] < s[i + 1]
          /\ \A v \in Values : find(root, v) # Null <=> v \in ToSet(s)
          /\ root # Null => value(findMin(root)) = Head(s)
          /\ ToSet(s) \subseteq meant /\ (~lost => ToSet(s) = meant)
=============================================================================
