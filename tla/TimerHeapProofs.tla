-------------------------- MODULE TimerHeapProofs --------------------------
(***************************************************************************)
(* Proofs about TimerHeap for every capacity, set of timers and set of     *)
(* delays, without the postponements of HttpConnection::handleRead (which  *)
(* break the heap order).                                                  *)
(***************************************************************************)
EXTENDS TimerHeap, TLAPS

Children(i) == {2 * i + 1, 2 * i + 2}

(* The holder of the lock has read nothing beyond the array.               *)
Defined == sift # "undefined"

(* The positions in use are within the array and hold timers.              *)
Filled ==
    Defined => /\ nums <= Capacity
               /\ \A i \in Stored : vec[i] \in Timers

(* A push in progress holds a timer that has no index yet, at hole.        *)
Pushing ==
    /\ sift # "up" => pushed = Null
    /\ sift = "up" => /\ pushed \in Timers /\ index[pushed] = NotInHeap
                      /\ hole < nums

(* tick pops only what it has seen: nobody else pops.                      *)
Ticking ==
    /\ ticker \in {"top", "test", "cb", "pop"} => nums > 0
    /\ ticker \in {"test", "cb", "pop"} => top \in Timers

(* While tick works on top that timer is in the heap, and the root is top  *)
(* or has since become a timer that expires earlier.                       *)
TopSeen ==
    /\ sift = "down" => ticker = "empty"
    /\ ticker \in {"test", "cb", "pop"} =>
           index[top] >= 0 /\ (vec[0] = top \/ expire[vec[0]] < expire[top])

(* The heap order but for the pairs the sift loop is working on: those     *)
(* whose lower end ("up") or upper end ("down") is hole.                   *)
OrderedBut ==
    \A i \in Stored, j \in Stored :
        j \in Children(i) /\ ~(sift = "up" /\ j = hole) /\ ~(sift = "down" /\ i = hole)
            => expire[vec[i]] <= expire[vec[j]]

(* Across hole the order holds between its parent and its children.        *)
OrderedAcross ==
    sift \in {"up", "down"} =>
        \A g \in Stored, j \in Stored :
            hole \in Children(g) /\ j \in Children(hole) => expire[vec[g]] <= expire[vec[j]]

Ordered == Defined => OrderedBut /\ OrderedAcross

(* The inductive invariant.                                                *)
IInv ==
    /\ TypeOK
    /\ Filled
    /\ Pushing
    /\ Ticking
    /\ TopSeen
    /\ Ordered
    /\ TimersInOnePlace

-----------------------------------------------------------------------------
(* The parent of a position, computed by a shift in the code.              *)
LEMMA ParentFacts ==
    ASSUME NEW h \in Nat, h > 0
    PROVE  Parent(h) \in Nat /\ Parent(h) < h /\ h \in Children(Parent(h))
  BY DEF Parent, Children

(* No position has two parents.                                            *)
LEMMA ChildrenFacts ==
    ASSUME NEW i \in Nat, NEW k \in Nat, NEW j \in Children(i)
    PROVE  j \in Nat /\ j > i /\ j # 0 /\ (j \in Children(k) => k = i)
  BY DEF Children

(* What a swap of two positions does to the array.                         *)
LEMMA SwapFacts ==
    ASSUME NEW v \in [0..(Capacity - 1) -> Timers \cup {Null}],
           NEW i \in 0..(Capacity - 1), NEW j \in 0..(Capacity - 1)
    PROVE  /\ Swap(v, i, j) \in [0..(Capacity - 1) -> Timers \cup {Null}]
           /\ Swap(v, i, j)[i] = v[j] /\ Swap(v, i, j)[j] = v[i]
           /\ \A k \in 0..(Capacity - 1) : k # i /\ k # j => Swap(v, i, j)[k] = v[k]
  BY DEF Swap

(* An empty heap satisfies the invariant.                                  *)
LEMMA InitIInv == Init => IInv
  <1> SUFFICES ASSUME Init PROVE IInv
    OBVIOUS
  <1> USE HeapAssumption DEF Init, NotInHeap
  <1>1. Stored = {}
    BY DEF Stored
  <1>2. TypeOK
    BY DEF TypeOK
  <1>3. Filled /\ Pushing /\ Ticking /\ TopSeen /\ Ordered /\ TimersInOnePlace
    BY <1>1 DEF Filled, Pushing, Ticking, TopSeen, Ordered, OrderedBut, OrderedAcross,
       TimersInOnePlace
  <1> QED
    BY <1>2, <1>3 DEF IInv

(* pushTimer stores the timer behind the last one and starts to sift up.   *)
LEMMA PushTimerIInv ==
    ASSUME IInv, NEW t \in Timers, NEW sec \in Delays, PushTimer(t, sec)
    PROVE  IInv'
  <1> USE HeapAssumption DEF IInv, PushTimer, LockFree, NewTimer, heapVars, tickVars
  <1>1. TypeOK'
    BY DEF TypeOK
  <1>2. /\ Stored' = Stored \cup {nums} /\ nums \notin Stored
        /\ \A i \in Stored : vec'[i] = vec[i] /\ vec[i] # t
        /\ vec'[nums] = t
    <2>1. nums \in 0..(Capacity - 1)
      BY DEF TypeOK
    <2>2. Stored' = Stored \cup {nums} /\ nums \notin Stored
      BY <2>1 DEF Stored
    <2>3. vec'[nums] = t /\ \A i \in Stored : vec'[i] = vec[i]
      BY <2>1, <2>2 DEF TypeOK, Stored
    <2>4. ~(index[t] >= 0) /\ pushed # t
      BY DEF NotInHeap
    <2>5. \A i \in Stored : vec[i] # t
      BY <2>4 DEF TimersInOnePlace
    <2> QED
      BY <2>2, <2>3, <2>5
  <1>3. Filled' /\ Pushing' /\ Ticking'
    BY <1>2 DEF TypeOK, Filled, Defined, Pushing, Ticking, NotInHeap
  <1>4. OrderedBut'
    <2> SUFFICES ASSUME NEW i \in Stored', NEW j \in Stored', j \in Children(i), j # nums
                 PROVE  expire'[vec'[i]] <= expire'[vec'[j]]
      BY DEF OrderedBut
    <2>1. i \in Stored /\ j \in Stored
      BY <1>2, ChildrenFacts DEF Stored, TypeOK
    <2>2. expire[vec[i]] <= expire[vec[j]]
      BY <2>1 DEF Ordered, OrderedBut, Defined
    <2> QED
      BY <1>2, <2>1, <2>2, Zenon DEF Filled, Defined, TypeOK
  <1>5. OrderedAcross'
    BY <1>2, ChildrenFacts DEF OrderedAcross, Stored, TypeOK, Children
  <1>6. TimersInOnePlace'
    <2>1. \A i, j \in Stored' : vec'[i] = vec'[j] => i = j
      BY <1>2 DEF TimersInOnePlace
    <2>2. ASSUME NEW u \in Timers
          PROVE  (\E i \in Stored' : vec'[i] = u) <=> (index'[u] >= 0 \/ pushed' = u)
      <3>1. (\E i \in Stored' : vec'[i] = u) <=> (u = t \/ \E i \in Stored : vec[i] = u)
        BY <1>2
      <3>2. (\E i \in Stored : vec[i] = u) <=> index[u] >= 0
        BY DEF TimersInOnePlace, Pushing
      <3> QED
        BY <3>1, <3>2
    <2> QED
      BY <2>1, <2>2 DEF TimersInOnePlace
  <1>7. TopSeen'
    <2> SUFFICES ASSUME ticker \in {"test", "cb", "pop"}
                 PROVE  index'[top] >= 0 /\ (vec'[0] = top \/ expire'[vec'[0]] < expire'[top])
      BY DEF TopSeen
    <2>1. top \in Timers /\ 0 \in Stored /\ top # t
      BY DEF Ticking, TopSeen, Stored, TypeOK, Filled, Defined, NotInHeap
    <2>2. vec'[0] = vec[0] /\ vec[0] # t /\ vec[0] \in Timers
      BY <1>2, <2>1 DEF Filled, Defined
    <2> QED
      BY <2>1, <2>2 DEF TopSeen, TypeOK
  <1> QED
    BY <1>1, <1>3, <1>4, <1>5, <1>6, <1>7 DEF Ordered

(* One swap of either loop, of hole with another position in use.          *)
LEMMA SwapKeepsTimers ==
    ASSUME IInv, Defined, NEW k \in Stored, hole \in Stored,
           vec' = Swap(vec, hole, k), hole' \in Stored,
           UNCHANGED <<nums, expire, index, sift, pushed, tickVars, now>>
    PROVE  TypeOK' /\ Filled' /\ Pushing' /\ Ticking' /\ TimersInOnePlace'
  <1> USE HeapAssumption DEF IInv, tickVars
  <1>1. /\ vec' \in [0..(Capacity - 1) -> Timers \cup {Null}]
        /\ vec'[hole] = vec[k] /\ vec'[k] = vec[hole]
        /\ \A m \in 0..(Capacity - 1) : m # hole /\ m # k => vec'[m] = vec[m]
    BY SwapFacts DEF TypeOK, Stored
  <1>2. Stored' = Stored
    BY DEF Stored
  <1>3. TypeOK'
    BY <1>1 DEF TypeOK, Stored
  <1>4. Filled' /\ Pushing' /\ Ticking'
    BY <1>1, <1>2, Zenon DEF Filled, Pushing, Ticking, Defined, Stored, TypeOK
  <1>5. \A i, j \in Stored : vec'[i] = vec'[j] => i = j
    BY <1>1 DEF TimersInOnePlace, Stored
  <1>6. \A t : (\E i \in Stored : vec'[i] = t) <=> (\E i \in Stored : vec[i] = t)
    BY <1>1 DEF Stored
  <1>7. TimersInOnePlace'
    BY <1>2, <1>5, <1>6, Zenon DEF TimersInOnePlace
  <1> QED
    BY <1>3, <1>4, <1>7

(* One iteration of the loop of pushTimer.                                 *)
LEMMA SiftUpIInv ==
    ASSUME IInv, SiftUp
    PROVE  IInv'
  <1> USE HeapAssumption DEF IInv, SiftUp
  <1> DEFINE p == Parent(hole)
             E(i) == expire[vec[i]]
             F(i) == expire'[vec'[i]]
  <1>1. /\ hole \in Stored /\ p \in Stored /\ hole \in Children(p) /\ p # hole
        /\ E(p) > E(hole) /\ Defined
    BY ParentFacts DEF Rises, Pushing, Stored, TypeOK, Defined
  <1>2. Swap(vec, p, hole) = Swap(vec, hole, p)
    BY <1>1, Zenon DEF Swap, TypeOK, Stored
  <1>3. TypeOK' /\ Filled' /\ Pushing' /\ Ticking' /\ TimersInOnePlace'
    <2>1. hole' \in Stored
      BY <1>1
    <2> QED
      BY <1>1, <1>2, <2>1, SwapKeepsTimers
  <1>4. /\ Stored' = Stored /\ Stored \subseteq Nat
        /\ F(hole) = E(p) /\ F(p) = E(hole)
        /\ \A i \in Stored : i # hole /\ i # p => F(i) = E(i)
        /\ \A i \in Stored : E(i) \in Nat
    <2>1. Stored' = Stored /\ Stored \subseteq 0..(Capacity - 1)
      BY DEF Stored
    <2>2. /\ vec'[hole] = vec[p] /\ vec'[p] = vec[hole]
          /\ \A i \in Stored : i # hole /\ i # p => vec'[i] = vec[i]
      <3>1. /\ vec \in [0..(Capacity - 1) -> Timers \cup {Null}]
            /\ hole \in 0..(Capacity - 1) /\ p \in 0..(Capacity - 1)
            /\ vec' = Swap(vec, hole, p)
        BY <1>1, <1>2, <2>1, Zenon DEF TypeOK
      <3> HIDE DEF IInv, SiftUp, p
      <3> QED
        BY <2>1, <3>1, SwapFacts
    <2>3. \A i \in Stored : E(i) \in Nat
      BY <1>1 DEF TypeOK, Filled
    <2> QED
      BY <1>1, <2>1, <2>2, <2>3
  <1>5. /\ \A i, j \in Stored : j \in Children(i) /\ j # hole => E(i) <= E(j)
        /\ \A g, j \in Stored : hole \in Children(g) /\ j \in Children(hole) => E(g) <= E(j)
    BY <1>1 DEF Ordered, OrderedBut, OrderedAcross
  <1> HIDE DEF E, F, p
  <1>6. \A i, j \in Stored : j \in Children(i) /\ j # p => F(i) <= F(j)
    <2> SUFFICES ASSUME NEW i \in Stored, NEW j \in Stored, j \in Children(i), j # p
                 PROVE  F(i) <= F(j)
      OBVIOUS
    <2>1. CASE i = p
      BY <1>1, <1>4, <1>5, <2>1
    <2>2. CASE i = hole
      <3>1. j # hole
        BY <1>4, <2>2, ChildrenFacts
      <3> QED
        BY <1>1, <1>4, <1>5, <2>2, <3>1
    <2>3. CASE i # p /\ i # hole
      <3>1. j # hole
        BY <1>1, <1>4, <2>3, ChildrenFacts
      <3> QED
        BY <1>4, <1>5, <2>3, <3>1
    <2> QED
      BY <2>1, <2>2, <2>3
  <1>7. \A g, j \in Stored : p \in Children(g) /\ j \in Children(p) => F(g) <= F(j)
    <2> SUFFICES ASSUME NEW g \in Stored, NEW j \in Stored,
                        p \in Children(g), j \in Children(p)
                 PROVE  F(g) <= F(j)
      OBVIOUS
    <2>1. g # p /\ g # hole /\ j # p
      BY <1>1, <1>4, ChildrenFacts
    <2>2. E(g) <= E(p)
      BY <1>1, <1>5
    <2> QED
      BY <1>1, <1>4, <1>5, <2>1, <2>2
  <1>8. Ordered'
    BY <1>4, <1>6, <1>7 DEF Ordered, OrderedBut, OrderedAcross, E, F, p
  <1>9. TopSeen'
    <2> SUFFICES ASSUME ticker \in {"test", "cb", "pop"}
                 PROVE  vec'[0] = top \/ F(0) < expire[top]
      BY DEF TopSeen, tickVars, F
    <2>1. /\ vec[0] = top \/ E(0) < expire[top]
          /\ expire[top] \in Nat /\ 0 \in Stored
      BY <1>1 DEF TopSeen, Ticking, TypeOK, Stored, Filled, E
    <2>2. hole # 0
      BY <1>1, <1>4, ChildrenFacts
    <2>3. CASE p = 0
      <3>1. E(0) <= expire[top]
        BY <1>4, <2>1 DEF E
      <3> QED
        BY <1>1, <1>4, <2>1, <2>3, <3>1
    <2>4. CASE p # 0
      <3>1. vec'[0] = vec[0]
        <4>1. /\ vec \in [0..(Capacity - 1) -> Timers \cup {Null}] /\ vec' = Swap(vec, hole, p)
              /\ hole \in 0..(Capacity - 1) /\ p \in 0..(Capacity - 1) /\ 0 \in 0..(Capacity - 1)
          BY <1>1, <1>2, <2>1 DEF TypeOK, Stored, p
        <4> HIDE DEF IInv, SiftUp
        <4> QED
          BY <2>2, <2>4, <4>1, SwapFacts
      <3> QED
        BY <1>4, <2>1, <2>2, <2>4, <3>1
    <2> QED
      BY <2>3, <2>4
  <1> QED
    BY <1>3, <1>8, <1>9

(* One iteration of the loop of down.                                      *)
LEMMA SiftDownIInv ==
    ASSUME IInv, SiftDown
    PROVE  IInv'
  <1> USE HeapAssumption DEF IInv, SiftDown
  <1> DEFINE c == Child(hole)
             E(i) == expire[vec[i]]
             F(i) == expire'[vec'[i]]
  <1>1. /\ hole \in Stored /\ c \in Stored /\ c \in Children(hole) /\ c # hole
        /\ E(hole) > E(c) /\ Defined
    BY DEF Sinks, Child, Children, Stored, TypeOK, Defined, Filled
  <1>2. TypeOK' /\ Filled' /\ Pushing' /\ Ticking' /\ TimersInOnePlace'
    <2>1. hole' \in Stored
      BY <1>1
    <2> QED
      BY <1>1, <2>1, SwapKeepsTimers
  <1>3. /\ Stored' = Stored /\ Stored \subseteq Nat
        /\ F(hole) = E(c) /\ F(c) = E(hole)
        /\ \A i \in Stored : i # hole /\ i # c => F(i) = E(i)
        /\ \A i \in Stored : E(i) \in Nat
    <2>1. Stored' = Stored /\ Stored \subseteq 0..(Capacity - 1)
      BY DEF Stored
    <2>2. /\ vec'[hole] = vec[c] /\ vec'[c] = vec[hole]
          /\ \A i \in Stored : i # hole /\ i # c => vec'[i] = vec[i]
      <3>1. /\ vec \in [0..(Capacity - 1) -> Timers \cup {Null}]
            /\ hole \in 0..(Capacity - 1) /\ c \in 0..(Capacity - 1)
            /\ vec' = Swap(vec, hole, c)
        BY <1>1, <2>1, Zenon DEF TypeOK
      <3> HIDE DEF IInv, SiftDown, c
      <3> QED
        BY <2>1, <3>1, SwapFacts
    <2>3. \A i \in Stored : E(i) \in Nat
      BY <1>1 DEF TypeOK, Filled
    <2> QED
      BY <1>1, <2>1, <2>2, <2>3
  <1>4. \A j \in Stored : j \in Children(hole) => E(c) <= E(j)
    <2> SUFFICES ASSUME NEW j \in Stored, j \in Children(hole) PROVE E(c) <= E(j)
      OBVIOUS
    <2>1. 2 * hole + 2 < nums => 2 * hole + 1 \in Stored /\ 2 * hole + 2 \in Stored
      BY <1>1 DEF Stored, TypeOK, Filled
    <2>2. j < nums /\ j \in {2 * hole + 1, 2 * hole + 2}
      BY DEF Stored, Children
    <2>3. CASE 2 * hole + 2 < nums /\ E(2 * hole + 1) >= E(2 * hole + 2)
      <3>1. c = 2 * hole + 2
        BY <2>3 DEF Child
      <3> HIDE DEF E, c
      <3> QED
        BY <1>3, <2>1, <2>2, <2>3, <3>1
    <2>4. CASE ~(2 * hole + 2 < nums /\ E(2 * hole + 1) >= E(2 * hole + 2))
      <3>1. c = 2 * hole + 1
        BY <2>4 DEF Child
      <3> HIDE DEF E, c
      <3> QED
        BY <1>3, <2>1, <2>2, <2>4, <3>1 DEF TypeOK
    <2> QED
      BY <2>3, <2>4
  <1>5. /\ \A i, j \in Stored : j \in Children(i) /\ i # hole => E(i) <= E(j)
        /\ \A g, j \in Stored : hole \in Children(g) /\ j \in Children(hole) => E(g) <= E(j)
    BY <1>1 DEF Ordered, OrderedBut, OrderedAcross
  <1> HIDE DEF E, F, c
  <1>6. \A i, j \in Stored : j \in Children(i) /\ i # c => F(i) <= F(j)
    <2> SUFFICES ASSUME NEW i \in Stored, NEW j \in Stored, j \in Children(i), i # c
                 PROVE  F(i) <= F(j)
      OBVIOUS
    <2>1. CASE i = hole
      <3>1. j # hole
        BY <1>3, <2>1, ChildrenFacts
      <3>2. CASE j = c
        BY <1>1, <1>3, <2>1, <3>2
      <3>3. CASE j # c
        BY <1>1, <1>3, <1>4, <2>1, <3>1, <3>3
      <3> QED
        BY <3>2, <3>3
    <2>2. CASE i # hole /\ j = hole
      BY <1>1, <1>3, <1>5, <2>2
    <2>3. CASE i # hole /\ j # hole
      <3>1. j # c
        BY <1>1, <1>3, <2>3, ChildrenFacts
      <3> QED
        BY <1>3, <1>5, <2>3, <3>1
    <2> QED
      BY <2>1, <2>2, <2>3
  <1>7. \A g, j \in Stored : c \in Children(g) /\ j \in Children(c) => F(g) <= F(j)
    <2> SUFFICES ASSUME NEW g \in Stored, NEW j \in Stored,
                        c \in Children(g), j \in Children(c)
                 PROVE  F(g) <= F(j)
      OBVIOUS
    <2>1. g = hole /\ j # hole /\ j # c
      BY <1>1, <1>3, ChildrenFacts
    <2>2. E(c) <= E(j)
      BY <1>1, <1>5
    <2> QED
      BY <1>3, <2>1, <2>2
  <1>8. Ordered'
    BY <1>3, <1>6, <1>7 DEF Ordered, OrderedBut, OrderedAcross, E, F, c
  <1>9. TopSeen'
    BY DEF TopSeen, tickVars
  <1> QED
    BY <1>2, <1>8, <1>9

(* popTimer: the last timer replaces the root, and sinks from there.       *)
LEMMA TickPopIInv ==
    ASSUME IInv, TickPop
    PROVE  IInv'
  <1> USE HeapAssumption DEF IInv, TickPop, LockFree
  <1> DEFINE last == nums - 1
             E(i) == expire[vec[i]]
  <1>1. /\ Defined /\ Defined' /\ nums > 0 /\ nums <= Capacity /\ last \in Stored /\ 0 \in Stored
        /\ Stored' = Stored \ {last} /\ Stored \subseteq 0..(Capacity - 1)
    BY DEF Defined, Ticking, Filled, Stored, TypeOK
  <1>2. /\ RootLast[last] = vec[0] /\ vec[0] \in Timers
        /\ vec' \in [0..(Capacity - 1) -> Timers \cup {Null}]
        /\ \A i \in Stored' : vec'[i] = IF i = 0 THEN vec[last] ELSE vec[i]
    BY <1>1 DEF RootLast, Swap, TypeOK, Filled
  <1>3. index' = [index EXCEPT ![vec[0]] = Popped]
    BY <1>2
  <1>4. TypeOK'
    BY <1>1, <1>2, <1>3 DEF TypeOK, Popped
  <1>5. Filled' /\ Pushing' /\ Ticking' /\ TopSeen'
    BY <1>1, <1>2 DEF Filled, Pushing, Ticking, TopSeen, TypeOK
  <1>6. Ordered'
    <2>1. OrderedBut'
      <3> SUFFICES ASSUME NEW i \in Stored', NEW j \in Stored', j \in Children(i), i # 0
                   PROVE  expire'[vec'[i]] <= expire'[vec'[j]]
        BY DEF OrderedBut
      <3>1. i \in Stored /\ j \in Stored /\ j # 0
        BY <1>1, ChildrenFacts
      <3>2. expire[vec[i]] <= expire[vec[j]]
        BY <1>1, <3>1 DEF Ordered, OrderedBut
      <3> QED
        BY <1>2, <3>1, <3>2
    <2>2. OrderedAcross'
      <3>1. \A g \in Stored' : 0 \notin Children(g)
        BY <1>1 DEF Children
      <3> QED
        BY <3>1 DEF OrderedAcross
    <2> QED
      BY <2>1, <2>2 DEF Ordered
  <1>7. TimersInOnePlace'
    <2>1. \A i, j \in Stored' : vec'[i] = vec'[j] => i = j
      BY <1>1, <1>2 DEF TimersInOnePlace
    <2>2. ASSUME NEW t \in Timers
          PROVE  (\E i \in Stored' : vec'[i] = t) <=> (index'[t] >= 0 \/ pushed' = t)
      <3>1. pushed' = Null
        BY DEF Pushing
      <3>2. (\E i \in Stored : vec[i] = t) <=> index[t] >= 0
        BY DEF TimersInOnePlace, Pushing
      <3>3. (\E i \in Stored' : vec'[i] = t) <=> (t # vec[0] /\ \E i \in Stored : vec[i] = t)
        <4>1. ASSUME NEW i \in Stored', vec'[i] = t
              PROVE  t # vec[0] /\ \E k \in Stored : vec[k] = t
          BY <1>1, <1>2, <4>1 DEF TimersInOnePlace
        <4>2. ASSUME NEW i \in Stored, vec[i] = t, t # vec[0]
              PROVE  \E k \in Stored' : vec'[k] = t
          <5>1. CASE i = last
            BY <1>1, <1>2, <4>2, <5>1
          <5>2. CASE i # last
            BY <1>1, <1>2, <4>2, <5>2
          <5> QED
            BY <5>1, <5>2
        <4> QED
          BY <4>1, <4>2
      <3>4. index'[t] >= 0 <=> (t # vec[0] /\ index[t] >= 0)
        BY <1>2, <1>3 DEF TypeOK, Popped
      <3> QED
        BY <3>1, <3>2, <3>3, <3>4
    <2> QED
      BY <2>1, <2>2 DEF TimersInOnePlace
  <1> QED
    BY <1>4, <1>5, <1>6, <1>7

(* The ends of the sift loops: hole is in order with its neighbours.       *)
LEMMA SiftEndsIInv ==
    ASSUME IInv, SiftUpEnds \/ SiftDownEnds
    PROVE  IInv'
  <1> USE HeapAssumption DEF IInv, heapVars, tickVars
  <1>1. CASE SiftUpEnds
    <2> USE <1>1 DEF SiftUpEnds, FinalIndex
    <2>1. TypeOK'
      <3>1. hole \in -2..(Capacity - 1) /\ index \in [Timers -> -2..(Capacity - 1)]
        BY DEF TypeOK
      <3>2. index' \in [Timers -> -2..(Capacity - 1)]
        BY <3>1, Zenon
      <3> QED
        BY <3>2 DEF TypeOK
    <2>2. Filled' /\ Pushing' /\ Ticking'
      BY DEF Filled, Pushing, Ticking, Defined, Stored
    <2>3. Stored' = Stored /\ hole \in Stored /\ Stored \subseteq Nat
      BY DEF Stored, Pushing, TypeOK
    <2>4. ASSUME NEW i \in Stored, hole \in Children(i)
          PROVE  expire[vec[i]] <= expire[vec[hole]]
      <3>1. hole > 0 /\ Parent(hole) = i
        BY <2>3, <2>4, ChildrenFacts, ParentFacts
      <3> QED
        BY <2>3, <3>1 DEF Rises, Filled, Defined, TypeOK
    <2>5. Ordered'
      BY <2>3, <2>4 DEF Ordered, OrderedBut, OrderedAcross, Defined
    <2>6. TimersInOnePlace'
      BY <2>3 DEF TimersInOnePlace, Pushing, TypeOK, NotInHeap
    <2>7. TopSeen'
      BY <2>3 DEF TopSeen, Ticking, TypeOK
    <2> QED
      BY <2>1, <2>2, <2>5, <2>6, <2>7
  <1>2. CASE SiftDownEnds
    <2> USE <1>2 DEF SiftDownEnds
    <2>1. TypeOK'
      BY DEF TypeOK
    <2>2. Filled' /\ Pushing' /\ Ticking' /\ TimersInOnePlace' /\ Stored' = Stored
      BY DEF Filled, Pushing, Ticking, TimersInOnePlace, Defined, Stored
    <2>3. \A i \in Stored : expire[vec[i]] \in Nat
      BY DEF Filled, Defined, TypeOK
    <2>4. ASSUME NEW j \in Stored, j \in Children(hole), hole \in Stored
          PROVE  expire[vec[hole]] <= expire[vec[j]]
      <3>1. 2 * hole + 1 < nums /\ 2 * hole + 1 \in Stored
        BY <2>4 DEF Children, Stored, TypeOK
      <3>2. 2 * hole + 2 < nums => 2 * hole + 2 \in Stored
        BY DEF Stored, TypeOK, Filled, Defined
      <3>3. ~ (expire[vec[hole]] > expire[vec[Child(hole)]])
        BY <3>1 DEF Sinks
      <3>4. j \in Nat /\ j < nums /\ (j = 2 * hole + 1 \/ j = 2 * hole + 2)
        BY <2>4 DEF Children, Stored
      <3>5. CASE 2 * hole + 2 < nums /\ expire[vec[2 * hole + 1]] >= expire[vec[2 * hole + 2]]
        <4>1. Child(hole) = 2 * hole + 2
          BY <3>5 DEF Child
        <4> QED
          BY <2>3, <2>4, <3>1, <3>2, <3>3, <3>4, <3>5, <4>1
      <3>6. CASE ~(2 * hole + 2 < nums /\ expire[vec[2 * hole + 1]] >= expire[vec[2 * hole + 2]])
        <4>1. Child(hole) = 2 * hole + 1
          BY <3>6 DEF Child
        <4> QED
          BY <2>3, <2>4, <3>1, <3>2, <3>3, <3>4, <3>6, <4>1
      <3> QED
        BY <3>5, <3>6
    <2>5. Ordered'
      BY <2>2, <2>4 DEF Ordered, OrderedBut, OrderedAcross, Defined
    <2>6. TopSeen'
      BY DEF TopSeen
    <2> QED
      BY <2>1, <2>2, <2>5, <2>6
  <1> QED
    BY <1>1, <1>2

(* The steps that leave the array alone.                                   *)
LEMMA OtherIInv ==
    ASSUME IInv,
           \/ Elapse \/ TickBegins \/ TickEmpty \/ TickTop \/ TickTest \/ TickCallback
           \/ \E t \in Timers : PushOverflows(t)
           \/ UNCHANGED vars
    PROVE  IInv'
  <1> USE HeapAssumption DEF IInv, heapVars, siftVars, tickVars
  <1>1. CASE \E t \in Timers : PushOverflows(t)
    <2>1. TypeOK'
      BY <1>1 DEF PushOverflows, TypeOK
    <2>2. Stored' = Stored
      BY <1>1 DEF PushOverflows, Stored, TypeOK
    <2> QED
      BY <1>1, <2>1, <2>2 DEF PushOverflows, LockFree, Filled, Defined, Pushing, Ticking,
         TopSeen, Ordered, TimersInOnePlace, TypeOK
  <1>2. CASE Elapse \/ TickBegins \/ TickEmpty \/ TickTop \/ TickTest \/ TickCallback \/ UNCHANGED vars
    <2>1. UNCHANGED <<vec, nums, expire, index, sift, hole, pushed>>
      BY <1>2 DEF Elapse, TickBegins, TickEmpty, TickTop, TickTest, TickCallback, vars
    <2>2. TypeOK' /\ Ticking' /\ TopSeen'
      <3>1. TickTop => vec[0] \in Timers
        BY DEF TickTop, LockFree, Ticking, Filled, Defined, Stored, TypeOK
      <3>2. TickTop => index[vec[0]] >= 0
        <4>1. TickTop => 0 \in Stored /\ pushed = Null
          BY DEF TickTop, LockFree, Ticking, Pushing, Filled, Defined, Stored, TypeOK
        <4> QED
          BY <3>1, <4>1 DEF TimersInOnePlace
      <3>3. TypeOK' /\ Ticking'
        BY <1>2, <2>1, <3>1 DEF Elapse, TickBegins, TickEmpty, TickTop, TickTest,
           TickCallback, vars, TypeOK, Ticking
      <3>4. TopSeen'
        BY <1>2, <2>1, <3>2, Zenon DEF Elapse, TickBegins, TickEmpty, TickTop, TickTest,
           TickCallback, LockFree, vars, TopSeen
      <3> QED
        BY <3>3, <3>4
    <2> QED
      BY <2>1, <2>2 DEF Filled, Defined, Pushing, Ordered, OrderedBut, OrderedAcross,
         TimersInOnePlace, Stored
  <1>3. CASE UNCHANGED vars
    BY <1>2, <1>3
  <1> QED
    BY <1>1, <1>2, <1>3

-----------------------------------------------------------------------------
(* The inductive invariant holds in every reachable state.                 *)
THEOREM HeapInvariant == Spec => []IInv
  <1>1. ASSUME IInv, [Next]_vars PROVE IInv'
    BY <1>1, PushTimerIInv, SiftUpIInv, SiftDownIInv, TickPopIInv, SiftEndsIInv, OtherIInv
       DEF Next, HeapStep, TickStep
  <1> QED
    BY <1>1, InitIInv, PTL DEF Spec

(* Every variable keeps its type.                                          *)
THEOREM HeapTypes == Spec => []TypeOK
  BY HeapInvariant, PTL DEF IInv

(* Pushes and pops keep the heap order, whatever the interleaving with     *)
(* tick: whenever the lock is free no timer expires before its parent.     *)
THEOREM HeapIsOrdered == Spec => []HeapOrder
  <1>1. IInv => HeapOrder
    BY DEF IInv, Ordered, OrderedBut, HeapOrder, LockFree, Defined, Children
  <1> QED
    BY <1>1, HeapInvariant, PTL

(* No timer is lost or duplicated by the swaps.                            *)
THEOREM HeapTimersInOnePlace == Spec => []TimersInOnePlace
  BY HeapInvariant, PTL DEF IInv

(* What tick pops has fired, or has been pushed since and expires earlier. *)
THEOREM HeapPopsFiredOrEarlier == Spec => []PopsFiredOrEarlier
  <1>1. IInv => PopsFiredOrEarlier
    BY DEF IInv, TopSeen, PopsFiredOrEarlier
  <1> QED
    BY <1>1, HeapInvariant, PTL
=============================================================================
