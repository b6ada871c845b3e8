--------------------------- MODULE ProgramsProofs ---------------------------
(* Theorems about programs that stand by themselves: that neighbours never *)
(* eat together and no forks lie idle, that start() of eventloopThreadPool *)
(* hands out the loop of each thread, and that the chat server passes on   *)
(* each chunk once and in order, for any number of philosophers, threads   *)
(* and clients.                                                            *)
EXTENDS Philosophers, EventLoopThread, ChatServer, TLAPS

-----------------------------------------------------------------------------
(* cpp/philosopher.cpp                                                     *)

InSection(i) == pc[i] \in {"take", "put"}

\* One thread at most is between Mutex.wait() and Mutex.notify().
Section == /\ Mutex \in {0, 1}
           /\ \A i \in People : InSection(i) => Mutex = 0
           /\ \A i, j \in People : InSection(i) /\ InSection(j) => i = j

\* Where a thread is, its state and its semaphore say the same.
Agree == \A i \in People :
    /\ pc[i] \in {"think", "take"} => states[i] = THINKING /\ s[i] = 0
    /\ pc[i] = "wait" => \/ states[i] = HUNGRY /\ s[i] = 0
                         \/ states[i] = EATING /\ s[i] = 1
    /\ pc[i] \in {"eat", "put"} => states[i] = EATING /\ s[i] = 0

Apart(st) == \A i \in People : ~(st[i] = EATING /\ st[RIGHT(i)] = EATING)

Served(st) == \A i \in People :
    st[i] = HUNGRY => st[LEFT(i)] = EATING \/ st[RIGHT(i)] = EATING

IInv == TypeOK /\ Section /\ Agree /\ Apart(states) /\ Served(states)

(* The neighbours of a philosopher are philosophers, each is the other's   *)
(* neighbour on the other side, and nobody is their own.                   *)
LEMMA Ring ==
    ASSUME NEW i \in People
    PROVE  /\ LEFT(i) \in People /\ RIGHT(i) \in People
           /\ LEFT(RIGHT(i)) = i /\ RIGHT(LEFT(i)) = i
           /\ RIGHT(i) # i
<1>1. /\ RIGHT(i) = IF i = NUMS - 1 THEN 0 ELSE i + 1
      /\ LEFT(i) = IF i = 0 THEN NUMS - 1 ELSE i - 1
  BY NumsAssumption DEF People, LEFT, RIGHT
<1> QED BY <1>1, NumsAssumption DEF People, LEFT, RIGHT

States == [People -> {THINKING, HUNGRY, EATING}]

(* test lets i eat if i is hungry and may, and changes nothing else.       *)
LEMMA TestFacts ==
    ASSUME NEW st \in States, NEW i \in People
    PROVE  /\ test(st, i) \in States
           /\ \A j \in People :
                 \/ test(st, i)[j] = st[j]
                 \/ j = i /\ st[j] = HUNGRY /\ test(st, i)[j] = EATING
           /\ test(st, i)[i] = HUNGRY =>
                 \/ test(st, i)[LEFT(i)] = EATING
                 \/ test(st, i)[RIGHT(i)] = EATING
BY DEF test, States, HUNGRY, EATING, THINKING

(* It never lets i eat beside someone who eats.                            *)
LEMMA TestApart ==
    ASSUME NEW st \in States, NEW i \in People, Apart(st)
    PROVE  Apart(test(st, i))
<1> SUFFICES ASSUME NEW j \in People, test(st, i)[j] = EATING,
                    test(st, i)[RIGHT(j)] = EATING
             PROVE  FALSE
  BY DEF Apart
<1>1. RIGHT(j) \in People /\ LEFT(RIGHT(j)) = j /\ RIGHT(j) # j
  BY Ring
<1>2. CASE j = i
  BY <1>1, <1>2 DEF test, Apart, States, HUNGRY, EATING
<1>3. CASE RIGHT(j) = i
  BY <1>1, <1>3 DEF test, Apart, States, HUNGRY, EATING
<1>4. CASE j # i /\ RIGHT(j) # i
  BY <1>1, <1>4 DEF test, Apart, States
<1> QED BY <1>2, <1>3, <1>4

(* What take_fork does to the states: nobody but i changes.                *)
LEMMA TakenFacts ==
    ASSUME NEW i \in People, states \in States, states[i] = THINKING,
           Apart(states), Served(states)
    PROVE  /\ taken(i) \in States /\ Apart(taken(i)) /\ Served(taken(i))
           /\ taken(i)[i] \in {HUNGRY, EATING}
           /\ \A j \in People \ {i} : taken(i)[j] = states[j]
<1> DEFINE st == [states EXCEPT ![i] = HUNGRY]
<1>1. st \in States /\ st[i] = HUNGRY /\ \A j \in People \ {i} : st[j] = states[j]
  BY DEF States
<1>2. Apart(st)
  BY <1>1, Ring DEF Apart, HUNGRY, EATING
<1>3. taken(i) = test(st, i)
  BY DEF taken
<1> HIDE DEF st
<1>4. taken(i) \in States /\ Apart(taken(i))
  BY <1>1, <1>2, <1>3, TestFacts, TestApart
<1>5. \A j \in People \ {i} : taken(i)[j] = states[j]
  BY <1>1, <1>3, TestFacts
<1>6. taken(i)[i] \in {HUNGRY, EATING}
  BY <1>1, <1>3, TestFacts
<1>7. Served(taken(i))
  <2> SUFFICES ASSUME NEW j \in People, taken(i)[j] = HUNGRY
               PROVE  taken(i)[LEFT(j)] = EATING \/ taken(i)[RIGHT(j)] = EATING
    BY DEF Served
  <2>1. CASE j = i
    BY <2>1, <1>1, <1>3, TestFacts
  <2>2. CASE j # i
    BY <2>2, <1>5, Ring DEF Served, THINKING, EATING
  <2> QED BY <2>1, <2>2
<1> QED BY <1>4, <1>5, <1>6, <1>7

(* What put_fork does to them: i thinks, and a neighbour may begin to eat. *)
LEMMA PutFacts ==
    ASSUME NEW i \in People, states \in States, states[i] = EATING,
           Apart(states), Served(states)
    PROVE  /\ put(i) \in States /\ Apart(put(i)) /\ Served(put(i))
           /\ put(i)[i] = THINKING
           /\ \A j \in People \ {i} :
                 \/ put(i)[j] = states[j]
                 \/ states[j] = HUNGRY /\ put(i)[j] = EATING
<1> DEFINE st == [states EXCEPT ![i] = THINKING]
           l == LEFT(i)
           r == RIGHT(i)
           sl == test(st, l)
<1>1. st \in States /\ st[i] = THINKING /\ \A j \in People \ {i} : st[j] = states[j]
  BY DEF States
<1>2. Apart(st)
  BY <1>1, Ring DEF Apart, THINKING, EATING
<1>3. l \in People /\ r \in People /\ l # i /\ r # i
  BY Ring
<1>4. put(i) = test(sl, r) /\ sl = test(st, l) /\ l = LEFT(i) /\ r = RIGHT(i)
  BY DEF put
<1> HIDE DEF st, l, r, sl
<1>5. sl \in States /\ Apart(sl)
  BY <1>1, <1>2, <1>3, <1>4, TestFacts, TestApart
<1>6. put(i) \in States /\ Apart(put(i))
  BY <1>3, <1>4, <1>5, TestFacts, TestApart
<1>7. /\ \A j \in People : \/ sl[j] = st[j]
                           \/ j = l /\ st[j] = HUNGRY /\ sl[j] = EATING
      /\ sl[l] = HUNGRY => sl[LEFT(l)] = EATING \/ sl[RIGHT(l)] = EATING
  <2>1. st \in States /\ l \in People
    BY <1>1, <1>3
  <2>2. sl = test(st, l)
    BY <1>4
  <2> QED BY <2>1, <2>2, TestFacts
<1>8. /\ \A j \in People : \/ put(i)[j] = sl[j]
                           \/ j = r /\ sl[j] = HUNGRY /\ put(i)[j] = EATING
      /\ put(i)[r] = HUNGRY => put(i)[LEFT(r)] = EATING \/ put(i)[RIGHT(r)] = EATING
  <2>1. put(i) = test(sl, r)
    BY <1>4
  <2>2. sl \in States /\ r \in People
    BY <1>3, <1>5
  <2> QED BY <2>1, <2>2, TestFacts
<1>9. \A j \in People \ {i} : \/ put(i)[j] = states[j]
                              \/ states[j] = HUNGRY /\ put(i)[j] = EATING
  BY <1>1, <1>7, <1>8 DEF HUNGRY, EATING
<1>10. put(i)[i] = THINKING
  BY <1>1, <1>3, <1>7, <1>8
<1>11. Served(put(i))
  <2> SUFFICES ASSUME NEW j \in People, put(i)[j] = HUNGRY
               PROVE  put(i)[LEFT(j)] = EATING \/ put(i)[RIGHT(j)] = EATING
    BY DEF Served
  <2>1. j # i /\ states[j] = HUNGRY /\ sl[j] = HUNGRY
    BY <1>1, <1>7, <1>8, <1>10 DEF HUNGRY, EATING, THINKING
  <2>2. LEFT(j) \in People /\ RIGHT(j) \in People /\ LEFT(RIGHT(j)) = j /\ RIGHT(LEFT(j)) = j
    BY Ring
  <2>3. \A k \in People : sl[k] = EATING => put(i)[k] = EATING
    BY <1>8 DEF HUNGRY, EATING
  <2>4. CASE j = l
    BY <2>1, <2>2, <2>3, <2>4, <1>7
  <2>5. CASE j = r
    BY <2>5, <1>8
  <2>6. CASE j # l /\ j # r
    <3>1. LEFT(j) # i /\ RIGHT(j) # i
      BY <2>2, <2>6, <1>4
    <3>2. states[LEFT(j)] = EATING \/ states[RIGHT(j)] = EATING
      BY <2>1 DEF Served
    <3> QED BY <3>1, <3>2, <2>2, <1>9 DEF HUNGRY, EATING
  <2> QED BY <2>4, <2>5, <2>6
<1> QED BY <1>6, <1>9, <1>10, <1>11

LEMMA InitIInv == Init => IInv
BY NumsAssumption, Ring DEF Init, IInv, TypeOK, Section, InSection, Agree, Apart, Served,
      THINKING, HUNGRY, EATING

(* Mutex.wait(), at the beginning of take_fork and of put_fork.            *)
LEMMA WaitMutexIInv ==
    ASSUME IInv, NEW i \in People, TakeWaits(i) \/ PutWaits(i)
    PROVE  IInv'
<1> USE DEF TakeWaits, PutWaits, WaitMutex, IInv, TypeOK
<1>1. UNCHANGED <<states, s>> /\ Mutex = 1 /\ Mutex' = 0
  BY DEF Section
<1>2. /\ \A j \in People : ~InSection(j)
      /\ \A j \in People : InSection(j)' => j = i
  BY <1>1 DEF Section, InSection
<1>3. Section'
  BY <1>1, <1>2 DEF Section
<1>4. Agree'
  BY <1>1 DEF Agree
<1> QED BY <1>1, <1>3, <1>4 DEF Apart, Served

(* Leaving the critical section: it is free again.                         *)
LEMMA NotifyMutex ==
    ASSUME IInv, NEW i \in People, InSection(i), Mutex' = Mutex + 1,
           NEW to \in {"think", "wait"}, pc' = [pc EXCEPT ![i] = to]
    PROVE  Section'
<1>1. Mutex = 0 /\ \A j \in People : InSection(j) => j = i
  BY DEF IInv, Section
<1>2. \A j \in People : ~InSection(j)'
  BY <1>1 DEF IInv, TypeOK, InSection
<1> QED BY <1>1, <1>2 DEF Section

LEMMA TakeForkIInv ==
    ASSUME IInv, NEW i \in People, TakeFork(i)
    PROVE  IInv'
<1>1. states \in States /\ states[i] = THINKING /\ s[i] = 0 /\ Apart(states) /\ Served(states)
  BY DEF TakeFork, IInv, TypeOK, States, Agree
<1>2. /\ states' \in States /\ Apart(states') /\ Served(states')
      /\ states'[i] \in {HUNGRY, EATING}
      /\ \A j \in People \ {i} : states'[j] = states[j]
  BY <1>1, TakenFacts DEF TakeFork
<1>3. s' = [j \in People |-> IF states'[j] = EATING /\ states[j] # EATING
                             THEN s[j] + 1 ELSE s[j]]
  BY DEF TakeFork, Posted
<1>4. TypeOK'
  <2>1. \A j \in People : s[j] \in Nat
    BY DEF IInv, TypeOK
  <2>2. s' \in [People -> Nat]
    BY <1>3, <2>1
  <2>3. pc' \in [People -> {"think", "take", "wait", "eat", "put"}] /\ Mutex' \in Nat
    BY DEF TakeFork, IInv, TypeOK
  <2> QED BY <1>2, <2>2, <2>3 DEF TypeOK, States
<1>5. Section'
  BY NotifyMutex, Zenon DEF TakeFork, InSection
<1>6. Agree'
  <2> SUFFICES ASSUME NEW j \in People
               PROVE  /\ pc'[j] \in {"think", "take"} => states'[j] = THINKING /\ s'[j] = 0
                      /\ pc'[j] = "wait" => \/ states'[j] = HUNGRY /\ s'[j] = 0
                                            \/ states'[j] = EATING /\ s'[j] = 1
                      /\ pc'[j] \in {"eat", "put"} => states'[j] = EATING /\ s'[j] = 0
    BY DEF Agree
  <2>1. CASE j = i
    BY <2>1, <1>1, <1>2, <1>3 DEF TakeFork, IInv, TypeOK, THINKING, HUNGRY, EATING
  <2>2. CASE j # i
    <3>1. states'[j] = states[j] /\ s'[j] = s[j] /\ pc'[j] = pc[j]
      BY <2>2, <1>2, <1>3 DEF TakeFork, IInv, TypeOK
    <3> QED BY <3>1 DEF IInv, Agree
  <2> QED BY <2>1, <2>2
<1> QED BY <1>2, <1>4, <1>5, <1>6 DEF IInv, Apart, Served

LEMMA EatIInv ==
    ASSUME IInv, NEW i \in People, Eat(i)
    PROVE  IInv'
<1> USE DEF Eat, IInv, TypeOK
<1>1. TypeOK'
  OBVIOUS
<1>2. Section'
  BY DEF Section, InSection
<1>3. Agree'
  BY DEF Agree
<1> QED BY <1>1, <1>2, <1>3 DEF Apart, Served

LEMMA PutForkIInv ==
    ASSUME IInv, NEW i \in People, PutFork(i)
    PROVE  IInv'
<1>1. states \in States /\ states[i] = EATING /\ s[i] = 0 /\ Apart(states) /\ Served(states)
  BY DEF PutFork, IInv, TypeOK, States, Agree
<1>2. /\ states' \in States /\ Apart(states') /\ Served(states')
      /\ states'[i] = THINKING
      /\ \A j \in People \ {i} : \/ states'[j] = states[j]
                                 \/ states[j] = HUNGRY /\ states'[j] = EATING
  BY <1>1, PutFacts DEF PutFork
<1>3. s' = [j \in People |-> IF states'[j] = EATING /\ states[j] # EATING
                             THEN s[j] + 1 ELSE s[j]]
  BY DEF PutFork, Posted
<1>4. TypeOK'
  <2>1. \A j \in People : s[j] \in Nat
    BY DEF IInv, TypeOK
  <2>2. s' \in [People -> Nat]
    BY <1>3, <2>1
  <2>3. pc' \in [People -> {"think", "take", "wait", "eat", "put"}] /\ Mutex' \in Nat
    BY DEF PutFork, IInv, TypeOK
  <2> QED BY <1>2, <2>2, <2>3 DEF TypeOK, States
<1>5. Section'
  BY NotifyMutex, Zenon DEF PutFork, InSection
<1>6. Agree'
  <2> SUFFICES ASSUME NEW j \in People
               PROVE  /\ pc'[j] \in {"think", "take"} => states'[j] = THINKING /\ s'[j] = 0
                      /\ pc'[j] = "wait" => \/ states'[j] = HUNGRY /\ s'[j] = 0
                                            \/ states'[j] = EATING /\ s'[j] = 1
                      /\ pc'[j] \in {"eat", "put"} => states'[j] = EATING /\ s'[j] = 0
    BY DEF Agree
  <2>1. CASE j = i
    BY <2>1, <1>1, <1>2, <1>3 DEF PutFork, IInv, TypeOK, THINKING, EATING
  <2>2. CASE j # i /\ states'[j] = states[j]
    <3>1. s'[j] = s[j] /\ pc'[j] = pc[j]
      BY <2>2, <1>3 DEF PutFork, IInv, TypeOK
    <3> QED BY <2>2, <3>1 DEF IInv, Agree
  <2>3. CASE j # i /\ states[j] = HUNGRY /\ states'[j] = EATING
    <3>1. pc[j] = "wait" /\ s[j] = 0 /\ pc'[j] = pc[j]
      BY <2>3 DEF PutFork, IInv, TypeOK, Agree, THINKING, HUNGRY, EATING
    <3>2. s'[j] = 1
      BY <2>3, <3>1, <1>3 DEF HUNGRY, EATING
    <3> QED BY <2>3, <3>1, <3>2
  <2> QED BY <2>1, <2>2, <2>3, <1>2
<1> QED BY <1>2, <1>4, <1>5, <1>6 DEF IInv, Apart, Served

LEMMA NextIInv == IInv /\ [Next]_vars => IInv'
<1> SUFFICES ASSUME IInv, [Next]_vars PROVE IInv'
  OBVIOUS
<1>1. CASE UNCHANGED vars
  BY <1>1 DEF vars, IInv, TypeOK, Section, InSection, Agree, Apart, Served
<1>2. ASSUME NEW i \in People, philosopher(i) PROVE IInv'
  BY <1>2, WaitMutexIInv, TakeForkIInv, EatIInv, PutForkIInv DEF philosopher
<1> QED BY <1>1, <1>2 DEF Next

(* The invariant of philosopher.cpp: one thread in the critical section,   *)
(* semaphores that agree with the states, no two neighbours EATING, and    *)
(* an eater beside everyone who is HUNGRY.                                 *)
THEOREM Invariant == Spec => []IInv
BY InitIInv, NextIInv, PTL DEF Spec

(* For any number of philosophers from two on, neighbours never eat at the *)
(* same time (take_fork, put_fork, test).                                  *)
THEOREM Exclusion == Spec => []NeighboursDoNotEat
<1>1. IInv => NeighboursDoNotEat
  BY Ring DEF IInv, Agree, Apart, NeighboursDoNotEat, Eats
<1> QED BY <1>1, Invariant, PTL

(* For any number of philosophers, nobody stays hungry beside free forks   *)
(* once put_fork or take_fork is done.                                     *)
THEOREM Handover == Spec => []NoForksIdle
<1>1. IInv => NoForksIdle
  BY DEF IInv, Served, NoForksIdle
<1> QED BY <1>1, Invariant, PTL

-----------------------------------------------------------------------------
(* http_server/eventloopThreadPool.  The invariant ties the pointer _loop  *)
(* to where the thread is: it is set only while the loop is on the stack,  *)
(* and a thread leaves its loop only after quit was set.                   *)

Places == {"none", "constructing", "publishing", "looping", "left", "ended"}

PoolTypes == /\ starter \in {"start", "lock", "test", "join", "undefined"}
             /\ _loops \in Seq(Ids \cup {Garbage})
             /\ Len(_loops) <= ThreadNums
             /\ starter \in {"lock", "test"} => Len(_loops) < ThreadNums
             /\ _loop \in [Ids -> Ids \cup Unset]
             /\ holder \in [Ids -> {"nobody", "owner", "thread"}]
             /\ waiting \in [Ids -> BOOLEAN]
             /\ thread \in [Ids -> Places]
             /\ quit \in [Ids -> BOOLEAN]

Published(k) == /\ _loop[k] \in Unset \cup {k}
                /\ _loop[k] = k => thread[k] \in {"looping", "left"}
                /\ thread[k] \in {"left", "ended"} => quit[k]

\* The threads the pool has not come to are not there yet.
Unborn(k) == k > (IF starter \in {"lock", "test"} THEN current ELSE Len(_loops)) =>
                thread[k] = "none"

Given(k) == /\ _loops[k] \in {k, Garbage}
            /\ _loops[k] = k => thread[k] \in {"looping", "left", "ended"}

PoolIInv == /\ PoolTypes
            /\ \A k \in Ids : Published(k) /\ Unborn(k)
            /\ \A k \in DOMAIN _loops : Given(k)

\* What the proofs ask of the constants.
Named == /\ ThreadNums \in Nat \ {0}
         /\ Null \notin Nat /\ Garbage \notin Nat /\ Null # Garbage

\* At first no thread exists and the pool is empty.
LEMMA InitPoolIInv == ASSUME Named, PoolInit PROVE PoolIInv
  BY DEF Named, PoolInit, PoolIInv, PoolTypes, Published, Unborn, Given, Ids, Unset, Places,
         current

\* Every step of the owner and of the threads keeps the invariant.
LEMMA NextPoolIInv == ASSUME Named, PoolIInv, [PoolNext]_poolVars PROVE PoolIInv'
  <1> USE DEF Named, PoolIInv, Ids, Unset, Places
  <1>1. CASE NewThread
    <2>1. current \in Ids /\ current \notin DOMAIN _loops /\ thread[current] = "none"
      BY <1>1 DEF NewThread, current, PoolTypes, Unborn
    <2>2. PoolTypes'
      BY <1>1, <2>1 DEF NewThread, PoolTypes, current
    <2>3. \A k \in Ids : Published(k)' /\ Unborn(k)'
      BY <1>1, <2>1 DEF NewThread, PoolTypes, Published, Unborn, current
    <2>4. \A k \in DOMAIN _loops' : Given(k)'
      BY <1>1, <2>1 DEF NewThread, PoolTypes, Given, current
    <2> QED BY <2>2, <2>3, <2>4
  <1>2. CASE Lock
    BY <1>2 DEF Lock, PoolTypes, Published, Unborn, Given, current
  <1>3. CASE TestLoop
    <2>1. current \in Ids
      BY <1>3 DEF TestLoop, PoolTypes, current
    <2>2. CASE _loop[current] = Null
      <3>1. /\ UNCHANGED <<_loops, _loop, thread, quit>> /\ starter = "test" /\ starter' = "lock"
            /\ waiting' = [waiting EXCEPT ![current] = TRUE]
            /\ holder' = [holder EXCEPT ![current] = "nobody"]
        BY <1>3, <2>2 DEF TestLoop
      <3>2. PoolTypes'
        BY <2>1, <3>1 DEF PoolTypes
      <3> QED BY <3>1, <3>2 DEF Published, Unborn, Given, current
    <2>3. CASE _loop[current] # Null
      <3>1. /\ _loops' = Append(_loops, _loop[current]) /\ _loop[current] \in {current, Garbage}
            /\ UNCHANGED <<_loop, thread, quit, waiting>> /\ starter = "test" /\ starter' = "start"
        BY <1>3, <2>1, <2>3 DEF TestLoop, Published
      <3>2. PoolTypes'
        BY <1>3, <2>1, <3>1 DEF TestLoop, PoolTypes, current
      <3>3. \A k \in Ids : Published(k)' /\ Unborn(k)'
        BY <3>1 DEF Published, Unborn, PoolTypes, current
      <3>4. \A k \in DOMAIN _loops' : Given(k)'
        BY <2>1, <3>1 DEF Given, Published, PoolTypes, current
      <3> QED BY <3>2, <3>3, <3>4
    <2> QED BY <2>2, <2>3
  <1>4. CASE Join
    BY <1>4 DEF Join, PoolTypes, Published, Unborn, Given, current
  <1>5. ASSUME NEW k \in Ids, Destroy(k) PROVE PoolIInv'
    <2>1. /\ UNCHANGED <<_loops, _loop, holder, waiting, thread>>
          /\ starter = "start" /\ starter' \in {"join", "undefined"}
          /\ quit' = quit \/ \E n \in Ids : quit' = [quit EXCEPT ![n] = TRUE]
      BY <1>5 DEF Destroy, Alive
    <2>2. PoolTypes' /\ \A n \in Ids : quit[n] => quit'[n]
      BY <2>1, Zenon DEF PoolTypes
    <2> QED BY <2>1, <2>2 DEF Published, Unborn, Given, current
  <1>6. ASSUME NEW k \in Ids, Construct(k) PROVE PoolIInv'
    BY <1>6 DEF Construct, PoolTypes, Published, Unborn, Given, current
  <1>7. ASSUME NEW k \in Ids, Publish(k) PROVE PoolIInv'
    BY <1>7 DEF Publish, PoolTypes, Published, Unborn, Given, current
  <1>8. ASSUME NEW k \in Ids, Leave(k) PROVE PoolIInv'
    BY <1>8 DEF Leave, PoolTypes, Published, Unborn, Given, current
  <1>9. ASSUME NEW k \in Ids, Return(k) PROVE PoolIInv'
    BY <1>9 DEF Return, PoolTypes, Published, Unborn, Given, current
  <1>10. CASE UNCHANGED poolVars
    BY <1>10 DEF poolVars, PoolTypes, Published, Unborn, Given, current
  <1> QED
    BY <1>1, <1>2, <1>3, <1>4, <1>5, <1>6, <1>7, <1>8, <1>9, <1>10
    DEF PoolNext, Owner, ThreadFunc

\* A descriptor is given the loop whose number is its remainder.
LEMMA LoopOfThread ==
    ASSUME Named, PoolIInv, NEW fd \in Nat, Len(_loops) = ThreadNums,
           \A k \in DOMAIN _loops : _loops[k] # Garbage
    PROVE  getLoop(fd) \in Ids /\ _loops[getLoop(fd)] = getLoop(fd)
  <1> DEFINE k == (fd % ThreadNums) + 1
  <1>1. k \in 1..ThreadNums
    BY DEF Named
  <1>2. k \in DOMAIN _loops /\ _loops # <<>>
    BY <1>1 DEF Named, PoolIInv, PoolTypes
  <1>3. _loops[k] = k
    BY <1>2 DEF PoolIInv, Given
  <1> QED BY <1>1, <1>2, <1>3 DEF getLoop, Ids

\* The property follows: what is given is published, and what has ended was told to.
LEMMA IInvGives == ASSUME Named, PoolIInv PROVE StartReturnsItsLoop
  <1> SUFFICES ASSUME \A k \in DOMAIN _loops : _loops[k] # Garbage
               PROVE  /\ \A k \in DOMAIN _loops : _loops[k] = k
                      /\ Len(_loops) = ThreadNums =>
                            \A fd \in 0..(2 * ThreadNums) :
                               ~quit[getLoop(fd)] => Alive(getLoop(fd))
    BY DEF StartReturnsItsLoop
  <1>1. \A k \in DOMAIN _loops : _loops[k] = k
    BY DEF PoolIInv, Given
  <1>2. ASSUME Len(_loops) = ThreadNums, NEW fd \in 0..(2 * ThreadNums), ~quit[getLoop(fd)]
        PROVE  Alive(getLoop(fd))
    <2>1. fd \in Nat
      BY DEF Named
    <2>2. getLoop(fd) \in Ids /\ _loops[getLoop(fd)] = getLoop(fd)
      BY <1>2, <2>1, LoopOfThread
    <2>3. getLoop(fd) \in DOMAIN _loops
      BY <1>2, <2>2 DEF PoolIInv, PoolTypes, Ids, NobodyAssumption
    <2>4. thread[getLoop(fd)] \in {"looping", "left"}
      BY <1>2, <2>2, <2>3 DEF PoolIInv, Given, Published
    <2> QED BY <2>2, <2>4 DEF Alive
  <1> QED BY <1>1, <1>2

(* For any number of threads, start() of the pool keeps the loop of that   *)
(* very thread for each, if the memory of the threads was zero, and every  *)
(* descriptor is given a loop that exists until its thread is destroyed.   *)
THEOREM PoolGivesItsLoops == ASSUME Named PROVE PoolSpec => []StartReturnsItsLoop
  <1>1. PoolInit => PoolIInv
    BY InitPoolIInv
  <1>2. PoolIInv /\ [PoolNext]_poolVars => PoolIInv'
    BY NextPoolIInv
  <1>3. PoolIInv => StartReturnsItsLoop
    BY IInvGives
  <1> QED BY <1>1, <1>2, <1>3, PTL DEF PoolSpec
-----------------------------------------------------------------------------
(* cpp/chatServer.cpp                                                      *)

ChatTypes == /\ chunks \in [Clients -> Nat] /\ buf \in [Clients -> Nat]
             /\ write_pos \in [Clients -> Clients \cup {Nobody}]
             /\ got \in [Clients -> Seq(Clients \X Nat)]

\* What c was sent of d is not newer than what came from d, and older than
\* what c is still to be sent from the buffer of d.
Older == \A c, d \in Clients : \A k \in DOMAIN got[c] :
            got[c][k][1] = d =>
                /\ got[c][k][2] <= chunks[d]
                /\ write_pos[c] = d /\ buf[d] # 0 => got[c][k][2] < buf[d]

ChatIInv == /\ ChatTypes /\ ChatInOrder /\ Older
            /\ \A c \in Clients : buf[c] \in {0, chunks[c]} /\ write_pos[c] # c

\* A server without clients.
LEMMA InitChatIInv == ChatInit => ChatIInv
<1> SUFFICES ASSUME ChatInit PROVE ChatIInv
  OBVIOUS
<1>1. ChatTypes
  BY DEF ChatInit, ChatTypes
<1>2. \A c \in Clients : DOMAIN got[c] = {}
  BY DEF ChatInit
<1>3. \A c \in Clients : buf[c] = 0 /\ write_pos[c] = Nobody
  BY DEF ChatInit
<1> QED BY <1>1, <1>2, <1>3, NobodyAssumption DEF ChatIInv, ChatInOrder, Older

\* recv into the buffer of c: a new chunk for the others to be sent, or nothing.
Receives(c, pos, mem) ==
    \/ /\ pos = write_pos /\ mem = [buf EXCEPT ![c] = 0] /\ chunks' = chunks
    \/ /\ mem = [buf EXCEPT ![c] = chunks[c] + 1]
       /\ chunks' = [chunks EXCEPT ![c] = @ + 1]
       /\ pos \in [Clients -> Clients \cup {Nobody}]
       /\ \A d \in Clients : pos[d] = write_pos[d] \/ (pos[d] = c /\ d # c)
    \/ pos = write_pos /\ mem = buf /\ chunks' = chunks

\* Whether c is written to, and what was in the buffer it points to.
Writes(c, pos, mem) ==
    /\ buf' = mem
    /\ \/ write_pos' \in {pos, [pos EXCEPT ![c] = Nobody]} /\ got' = got
       \/ /\ write_pos' = [pos EXCEPT ![c] = Nobody]
          /\ pos[c] \in Clients /\ mem[pos[c]] # 0
          /\ got' = [got EXCEPT ![c] = Append(@, <<pos[c], mem[pos[c]]>>)]

\* Handle(c) as a step of the buffers, the pointers and what c was sent.
LEMMA HandleReceives ==
    ASSUME ChatIInv, NEW c \in Clients, Handle(c)
    PROVE  \E pos \in [Clients -> Clients \cup {Nobody}], mem \in [Clients -> Nat] :
              Receives(c, pos, mem) /\ Writes(c, pos, mem)
<1> DEFINE in == c \in revents.in
           pos == IF in THEN Pointers(c) ELSE write_pos
           mem == IF in THEN [buf EXCEPT ![c] = Received(c)] ELSE buf
           out == c \in revents.out /\ pos[c] # Nobody
<1>1. /\ buf' = mem
      /\ write_pos' = IF out THEN Written(pos, c) ELSE pos
      /\ got' = IF out /\ mem[pos[c]] # 0
                THEN [got EXCEPT ![c] = Append(@, <<pos[c], mem[pos[c]]>>)] ELSE got
      /\ chunks' = IF in /\ Received(c) > 0 THEN [chunks EXCEPT ![c] = @ + 1] ELSE chunks
  BY DEF Handle
<1>2. Received(c) \in Nat /\ (Received(c) = 0 \/ Received(c) = chunks[c] + 1)
  BY DEF Received, ChatIInv, ChatTypes
<1>3. /\ chunks \in [Clients -> Nat] /\ buf \in [Clients -> Nat]
      /\ write_pos \in [Clients -> Clients \cup {Nobody}]
  BY DEF ChatIInv, ChatTypes
<1>4. mem \in [Clients -> Nat]
  BY <1>2, <1>3
<1>5. pos \in [Clients -> Clients \cup {Nobody}]
  BY <1>3 DEF Pointers
<1>6. Receives(c, pos, mem)
  <2>1. CASE ~in
    BY <1>1, <2>1 DEF Receives
  <2>2. CASE in /\ Received(c) = 0
    <3>1. pos = write_pos /\ mem = [buf EXCEPT ![c] = 0] /\ chunks' = chunks
      BY <1>1, <2>2 DEF Pointers
    <3> QED BY <3>1 DEF Receives
  <2>3. CASE in /\ Received(c) = chunks[c] + 1
    <3>1. chunks[c] + 1 # 0 /\ chunks[c] + 1 > 0
      BY <1>3
    <3>2. pos = [d \in Clients |-> IF d \in Range(fds) \ {c} THEN c ELSE write_pos[d]]
      BY <2>3, <3>1 DEF Pointers
    <3>3. \A d \in Clients : pos[d] = write_pos[d] \/ (pos[d] = c /\ d # c)
      BY <3>2
    <3>4. chunks' = [chunks EXCEPT ![c] = @ + 1] /\ mem = [buf EXCEPT ![c] = chunks[c] + 1]
      BY <1>1, <2>3, <3>1
    <3> HIDE DEF pos, mem
    <3> QED BY <1>5, <3>3, <3>4 DEF Receives
  <2> QED BY <1>2, <2>1, <2>2, <2>3
<1> HIDE DEF in, pos, mem
<1>7. Writes(c, pos, mem)
  BY <1>1, <1>5 DEF Writes, Written
<1> QED BY <1>4, <1>5, <1>6, <1>7

\* What was sent stays older than what is still to be sent, and what Handle(c)
\* sends is newer than all that c was sent of the same client.
LEMMA HandleChatIInv ==
    ASSUME ChatIInv, NEW c \in Clients, Handle(c)
    PROVE  ChatIInv'
<1>1. PICK pos \in [Clients -> Clients \cup {Nobody}], mem \in [Clients -> Nat] :
              Receives(c, pos, mem) /\ Writes(c, pos, mem)
  BY HandleReceives
<1>2. /\ chunks \in [Clients -> Nat] /\ buf \in [Clients -> Nat]
      /\ write_pos \in [Clients -> Clients \cup {Nobody}]
      /\ got \in [Clients -> Seq(Clients \X Nat)]
  BY DEF ChatIInv, ChatTypes
<1>3. /\ chunks' \in [Clients -> Nat]
      /\ \A d \in Clients : chunks'[d] >= chunks[d] /\ mem[d] \in {0, chunks'[d]}
      /\ \A d \in Clients : pos[d] # d
  <2>1. \A d \in Clients : buf[d] \in {0, chunks[d]} /\ write_pos[d] # d
    BY DEF ChatIInv
  <2>2. CASE chunks' = chunks /\ pos = write_pos /\ mem \in {buf, [buf EXCEPT ![c] = 0]}
    <3>1. CASE mem = buf
      BY <1>2, <2>1, <2>2, <3>1
    <3>2. CASE mem = [buf EXCEPT ![c] = 0]
      <4>1. \A d \in Clients : mem[d] \in {0, buf[d]}
        BY <1>2, <3>2
      <4> QED BY <1>2, <2>1, <2>2, <4>1
    <3> QED BY <2>2, <3>1, <3>2
  <2>3. CASE /\ chunks' = [chunks EXCEPT ![c] = @ + 1] /\ mem = [buf EXCEPT ![c] = chunks[c] + 1]
             /\ \A d \in Clients : pos[d] = write_pos[d] \/ (pos[d] = c /\ d # c)
    BY <1>2, <2>1, <2>3
  <2> QED BY <1>1, <2>2, <2>3 DEF Receives
<1>4. \A d, e \in Clients : pos[d] = e => \/ write_pos[d] = e /\ mem[e] = buf[e]
                                          \/ mem[e] = 0
                                          \/ mem[e] > chunks[e]
  <2>1. CASE pos = write_pos /\ mem \in {buf, [buf EXCEPT ![c] = 0]}
    BY <1>2, <2>1
  <2>2. CASE /\ mem = [buf EXCEPT ![c] = chunks[c] + 1]
             /\ \A d \in Clients : pos[d] = write_pos[d] \/ (pos[d] = c /\ d # c)
    <3>1. mem[c] > chunks[c] /\ \A e \in Clients \ {c} : mem[e] = buf[e]
      BY <1>2, <2>2
    <3> QED BY <2>2, <3>1
  <2> QED BY <1>1, <2>1, <2>2 DEF Receives
<1>5. \A d \in Clients : \A k \in DOMAIN got[d] :
         /\ got[d][k] \in Clients \X Nat
         /\ got[d][k][2] <= chunks'[got[d][k][1]]
         /\ pos[d] = got[d][k][1] /\ mem[pos[d]] # 0 => got[d][k][2] < mem[pos[d]]
  <2> TAKE d \in Clients
  <2> TAKE k \in DOMAIN got[d]
  <2>1. got[d][k] \in Clients \X Nat
    BY <1>2
  <2>2. PICK e \in Clients, n \in Nat : got[d][k] = <<e, n>>
    BY <2>1
  <2>3. n <= chunks[e] /\ (write_pos[d] = e /\ buf[e] # 0 => n < buf[e])
    <3>1. got[d][k][1] = e /\ got[d][k][2] = n
      BY <2>2
    <3> QED BY <3>1 DEF ChatIInv, Older
  <2>4. n <= chunks'[e] /\ (pos[d] = e /\ mem[e] # 0 => n < mem[e])
    <3>1. /\ chunks[e] \in Nat /\ chunks'[e] \in Nat /\ mem[e] \in Nat
          /\ chunks'[e] >= chunks[e]
      BY <1>2, <1>3
    <3> QED BY <1>4, <2>3, <3>1
  <2> QED BY <2>1, <2>2, <2>4
<1>6. /\ buf' = mem /\ write_pos' \in [Clients -> Clients \cup {Nobody}]
      /\ \A d \in Clients : write_pos'[d] \in {pos[d], Nobody}
  BY <1>1 DEF Writes
<1>7. \A d \in Clients : buf'[d] \in {0, chunks'[d]} /\ write_pos'[d] # d
  BY <1>3, <1>6, NobodyAssumption
<1>8. CASE got' = got
  <2>1. ChatInOrder'
    BY <1>8 DEF ChatIInv, ChatInOrder
  <2>2. Older'
    <3> SUFFICES ASSUME NEW d \in Clients, NEW e \in Clients, NEW k \in DOMAIN got[d],
                        got[d][k][1] = e
                 PROVE  /\ got[d][k][2] <= chunks'[e]
                        /\ write_pos'[d] = e /\ buf'[e] # 0 => got[d][k][2] < buf'[e]
      BY <1>8 DEF Older
    <3> QED BY <1>5, <1>6, NobodyAssumption
  <2>3. ChatTypes'
    BY <1>2, <1>3, <1>6, <1>8 DEF ChatTypes
  <2> QED BY <1>7, <2>1, <2>2, <2>3 DEF ChatIInv
<1>9. CASE /\ write_pos' = [pos EXCEPT ![c] = Nobody]
           /\ pos[c] \in Clients /\ mem[pos[c]] # 0
           /\ got' = [got EXCEPT ![c] = Append(@, <<pos[c], mem[pos[c]]>>)]
  <2> DEFINE new == <<pos[c], mem[pos[c]]>>
  <2>1. new \in Clients \X Nat
    BY <1>9
  <2>2. /\ got' \in [Clients -> Seq(Clients \X Nat)]
        /\ \A d \in Clients \ {c} : got'[d] = got[d]
        /\ DOMAIN got'[c] = DOMAIN got[c] \cup {Len(got[c]) + 1}
        /\ \A k \in DOMAIN got[c] : got'[c][k] = got[c][k] /\ k < Len(got[c]) + 1 /\ k \in Nat
        /\ got'[c][Len(got[c]) + 1] = new
    <3>1. got[c] \in Seq(Clients \X Nat) /\ got'[c] = Append(got[c], new)
      BY <1>2, <1>9
    <3>2. \A d \in Clients \ {c} : got'[d] = got[d]
      BY <1>2, <1>9
    <3>3. got' \in [Clients -> Seq(Clients \X Nat)]
      BY <1>2, <1>9, <2>1, <3>1
    <3> HIDE DEF new
    <3>4. Len(got[c]) \in Nat /\ DOMAIN got[c] = 1 .. Len(got[c])
      BY <3>1
    <3>5. /\ DOMAIN Append(got[c], new) = 1 .. (Len(got[c]) + 1)
          /\ \A k \in 1 .. Len(got[c]) : Append(got[c], new)[k] = got[c][k]
          /\ Append(got[c], new)[Len(got[c]) + 1] = new
      BY <3>1
    <3>6. DOMAIN got'[c] = DOMAIN got[c] \cup {Len(got[c]) + 1}
      BY <3>1, <3>4, <3>5
    <3>7. \A k \in DOMAIN got[c] : got'[c][k] = got[c][k] /\ k < Len(got[c]) + 1 /\ k \in Nat
      BY <3>1, <3>4, <3>5
    <3>8. got'[c][Len(got[c]) + 1] = new
      BY <3>1, <3>5
    <3> QED BY <3>2, <3>3, <3>6, <3>7, <3>8
  <2>3. ChatInOrder'
    <3> SUFFICES ASSUME NEW d \in Clients, NEW j \in DOMAIN got'[d], NEW k \in DOMAIN got'[d]
                 PROVE  /\ got'[d][j][1] # d
                        /\ j < k /\ got'[d][j][1] = got'[d][k][1] =>
                              got'[d][j][2] < got'[d][k][2]
      BY DEF ChatInOrder
    <3> HIDE DEF new
    <3>a. ChatInOrder
      BY DEF ChatIInv
    <3>1. CASE d # c
      <4>1. got'[d] = got[d]
        BY <2>2, <3>1
      <4> QED BY <3>a, <4>1 DEF ChatInOrder
    <3>2. CASE d = c /\ j \in DOMAIN got[c] /\ k \in DOMAIN got[c]
      <4>1. got'[d][j] = got[c][j] /\ got'[d][k] = got[c][k]
        BY <2>2, <3>2, Zenon
      <4> QED BY <3>2, <3>a, <4>1 DEF ChatInOrder
    <3>3. CASE d = c /\ j = Len(got[c]) + 1
      <4>1. ~ (j < k)
        <5>1. Len(got[c]) \in Nat
          BY <1>2
        <5>2. k = Len(got[c]) + 1 \/ (k \in Nat /\ k < Len(got[c]) + 1)
          BY <2>2, <3>3, Zenon
        <5> QED BY <3>3, <5>1, <5>2
      <4>2. got'[d][j] = new
        BY <2>2, <3>3
      <4>3. new[1] # c
        BY <1>3 DEF new
      <4> QED BY <3>3, <4>1, <4>2, <4>3
    <3>4. CASE d = c /\ j \in DOMAIN got[c] /\ k = Len(got[c]) + 1
      <4>1. got'[d][j] = got[c][j] /\ got'[d][k] = new
        BY <2>2, <3>4, Zenon
      <4>2. got[c][j][1] # c
        BY <3>4 DEF ChatIInv, ChatInOrder
      <4>3. got[c][j][1] = pos[c] => got[c][j][2] < mem[pos[c]]
        BY <1>5, <1>9, <3>4
      <4>4. new[1] = pos[c] /\ new[2] = mem[pos[c]]
        BY DEF new
      <4> QED BY <3>4, <4>1, <4>2, <4>3, <4>4
    <3> QED BY <2>2, <3>1, <3>2, <3>3, <3>4, Zenon
  <2>4. Older'
    <3> SUFFICES ASSUME NEW d \in Clients, NEW e \in Clients, NEW k \in DOMAIN got'[d],
                        got'[d][k][1] = e
                 PROVE  /\ got'[d][k][2] <= chunks'[e]
                        /\ write_pos'[d] = e /\ buf'[e] # 0 => got'[d][k][2] < buf'[e]
      BY DEF Older
    <3> HIDE DEF new
    <3>1. CASE d = c /\ k = Len(got[c]) + 1
      <4>1. got'[d][k] = new /\ write_pos'[c] = Nobody
        BY <1>9, <2>2, <3>1
      <4>2. new[1] = pos[c] /\ new[2] = mem[pos[c]]
        BY DEF new
      <4>3. mem[pos[c]] <= chunks'[pos[c]]
        BY <1>3, <1>9
      <4> QED BY <3>1, <4>1, <4>2, <4>3, NobodyAssumption
    <3>2. CASE ~ (d = c /\ k = Len(got[c]) + 1)
      <4>1. k \in DOMAIN got[d] /\ got'[d][k] = got[d][k]
        BY <2>2, <3>2, Zenon
      <4> QED BY <1>5, <1>6, <4>1, NobodyAssumption
    <3> QED BY <3>1, <3>2
  <2>5. ChatTypes'
    BY <1>3, <1>6, <2>2, Zenon DEF ChatTypes
  <2> QED BY <1>7, <2>3, <2>4, <2>5 DEF ChatIInv
<1> QED BY <1>1, <1>8, <1>9 DEF Writes

\* Only Handle changes what ChatIInv speaks of.
LEMMA NextChatIInv == ChatIInv /\ [ChatNext]_chatVars => ChatIInv'
<1> SUFFICES ASSUME ChatIInv, [ChatNext]_chatVars PROVE ChatIInv'
  OBVIOUS
<1>1. CASE UNCHANGED <<chunks, buf, write_pos, got>>
  BY <1>1 DEF ChatIInv, ChatTypes, ChatInOrder, Older
<1>2. CASE \E c \in Clients : Handle(c)
  BY <1>2, HandleChatIInv
<1>3. Poll \/ Accept => UNCHANGED <<chunks, buf, write_pos, got>>
  BY Zenon DEF Poll, Accept, serverVars
<1>4. \A c \in Clients : Connect(c) \/ SendLine(c, "text") \/ SendLine(c, "blank")
                            => UNCHANGED <<chunks, buf, write_pos, got>>
  BY DEF Connect, SendLine, serverVars
<1>5. UNCHANGED chatVars => UNCHANGED <<chunks, buf, write_pos, got>>
  BY DEF chatVars, serverVars
<1> QED BY <1>1, <1>2, <1>3, <1>4, <1>5 DEF ChatNext, Server

(* For any clients and any number of lines, a client is sent only what     *)
(* others wrote, the chunks of each once at most and in order.             *)
THEOREM ChatKeepsOrder == ChatSpec => []ChatInOrder
<1>1. ChatInit => ChatIInv
  BY InitChatIInv
<1>2. ChatIInv /\ [ChatNext]_chatVars => ChatIInv'
  BY NextChatIInv
<1>3. ChatIInv => ChatInOrder
  BY DEF ChatIInv
<1> QED BY <1>1, <1>2, <1>3, PTL DEF ChatSpec
=============================================================================
