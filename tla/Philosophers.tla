---------------------------- MODULE Philosophers ----------------------------
(* cpp/philosopher.cpp: NUMS philosophers, one thread each.  The states    *)
(* are guarded by the semaphore Mutex; a philosopher who cannot have both  *)
(* forks waits on a semaphore of their own, which a neighbour posts who    *)
(* puts the forks down.  Printing and sleeping are left out.               *)
EXTENDS Integers

CONSTANT NUMS

ASSUME NumsAssumption == NUMS \in Nat \ {0, 1}

VARIABLES pc,       \* where the thread of each philosopher is
          states,   \* THINKING, HUNGRY or EATING
          s,        \* the semaphore of each
          Mutex     \* the value of the semaphore Mutex

vars == <<pc, states, s, Mutex>>

People == 0..(NUMS - 1)
LEFT(i) == (i - 1 + NUMS) % NUMS
RIGHT(i) == (i + 1) % NUMS

THINKING == "THINKING"
EATING == "EATING"
HUNGRY == "HUNGRY"

Init == /\ pc = [i \in People |-> "think"]
        /\ states = [i \in People |-> THINKING]
        /\ s = [i \in People |-> 0]
        /\ Mutex = 1

testsLeftOnly(st, i) ==
    IF st[i] = HUNGRY /\ st[LEFT(i)] # EATING THEN [st EXCEPT ![i] = EATING] ELSE st

\* The states after test(i).
test(st, i) ==
    IF st[i] = HUNGRY /\ st[LEFT(i)] # EATING /\ st[RIGHT(i)] # EATING
    THEN [st EXCEPT ![i] = EATING]
    ELSE st

\* take_fork and put_fork between Mutex.wait() and Mutex.notify().
taken(i) == test([states EXCEPT ![i] = HUNGRY], i)
putsForOneSide(i) == test([states EXCEPT ![i] = THINKING], RIGHT(i))
put(i) == test(test([states EXCEPT ![i] = THINKING], LEFT(i)), RIGHT(i))

\* test posts the semaphore of whoever it lets eat.
Posted(st) == [i \in People |-> IF st[i] = EATING /\ states[i] # EATING
                                THEN s[i] + 1 ELSE s[i]]

WaitMutex(i, from, to) == /\ pc[i] = from
                          /\ Mutex > 0
                          /\ Mutex' = Mutex - 1
                          /\ pc' = [pc EXCEPT ![i] = to]
                          /\ UNCHANGED <<states, s>>

TakeWaits(i) == WaitMutex(i, "think", "take")

TakeFork(i) == /\ pc[i] = "take"
               /\ states' = taken(i)
               /\ s' = Posted(states')
               /\ Mutex' = Mutex + 1
               /\ pc' = [pc EXCEPT ![i] = "wait"]

Eat(i) == /\ pc[i] = "wait"
          /\ s[i] > 0
          /\ s' = [s EXCEPT ![i] = @ - 1]
          /\ pc' = [pc EXCEPT ![i] = "eat"]
          /\ UNCHANGED <<states, Mutex>>

PutWaits(i) == WaitMutex(i, "eat", "put")

PutFork(i) == /\ pc[i] = "put"
              /\ states' = put(i)
              /\ s' = Posted(states')
              /\ Mutex' = Mutex + 1
              /\ pc' = [pc EXCEPT ![i] = "think"]

philosopher(i) == TakeWaits(i) \/ TakeFork(i) \/ Eat(i) \/ PutWaits(i) \/ PutFork(i)

Next == \E i \in People : philosopher(i)
Spec == Init /\ [][Next]_vars

\* A thread that can go on and stays able to does.
Fairness == \A i \in People : WF_vars(philosopher(i))
FairSpec == Spec /\ Fairness

---------------------------------------------------------------------------
TypeOK == /\ pc \in [People -> {"think", "take", "wait", "eat", "put"}]
          /\ states \in [People -> {THINKING, HUNGRY, EATING}]
          /\ s \in [People -> Nat]
          /\ Mutex \in Nat

\* The forks of philosopher i are in use from Eat until put_fork is done.
Eats(i) == pc[i] \in {"eat", "put"}

(* Two neighbours never eat at the same time, whoever posted the semaphore *)
(* that let them go on: the states, the semaphores and where the threads   *)
(* are agree.                                                              *)
NeighboursDoNotEat == \A i \in People : ~(Eats(i) /\ Eats(RIGHT(i)))

(* Whenever no thread is in the critical section, a hungry philosopher has *)
(* a neighbour who eats: take_fork and put_fork leave no one hungry whose  *)
(* forks are free, so nobody waits for a semaphore no one will post.       *)
NoForksIdle ==
    Mutex > 0 => \A i \in People :
        states[i] = HUNGRY => states[LEFT(i)] = EATING \/ states[RIGHT(i)] = EATING

(* There is always a meal to come (one may starve between two others who   *)
(* take turns; the program does not prevent it).                           *)
MealsGoOn == []<>(\E i \in People : pc[i] = "eat")
=============================================================================
