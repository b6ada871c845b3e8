----------------------- MODULE FixedThreadPoolProofs -----------------------
(***************************************************************************)
(* Proofs about FixedThreadPool for any set of workers, producers and      *)
(* tasks, any queue limits, and with or without failures of                *)
(* pthread_create.                                                         *)
(***************************************************************************)
EXTENDS FixedThreadPool, TLAPS

(* Pushing an element at the back of a queue (std::queue::push,            *)
(* vector::push_back) adds it to the queue's elements and keeps the order  *)
(* of the others.                                                          *)
LEMMA AppendFacts ==
    ASSUME NEW S, NEW s \in Seq(S), NEW e \in S
    PROVE  /\ Append(s, e) \in Seq(S)
           /\ Append(s, e) # <<>>
           /\ Range(Append(s, e)) = Range(s) \cup {e}
           /\ IsInjective(s) /\ e \notin Range(s) => IsInjective(Append(s, e))
  <1>1. Append(s, e) \in Seq(S) /\ Len(Append(s, e)) = Len(s) + 1
    OBVIOUS
  <1>2. \A i \in 1..Len(s) : Append(s, e)[i] = s[i]
    OBVIOUS
  <1>3. Append(s, e)[Len(s) + 1] = e
    OBVIOUS
  <1>4. DOMAIN Append(s, e) = 1..Len(s) + 1 /\ DOMAIN s = 1..Len(s) /\ Len(s) \in Nat
    BY <1>1
  <1>5. 1..Len(s) + 1 = (1..Len(s)) \cup {Len(s) + 1}
    BY <1>4
  <1>6. Range(Append(s, e)) = Range(s) \cup {e}
    BY <1>2, <1>3, <1>4, <1>5 DEF Range
  <1>7. ASSUME IsInjective(s), e \notin Range(s)
        PROVE  IsInjective(Append(s, e))
    BY <1>2, <1>3, <1>4, <1>5, <1>7 DEF Range, IsInjective
  <1> QED
    BY <1>1, <1>6, <1>7

(* Taking the front of a queue without repetitions (front and pop) removes *)
(* exactly that element.                                                   *)
LEMMA TailFacts ==
    ASSUME NEW S, NEW s \in Seq(S), s # <<>>
    PROVE  /\ Head(s) \in S /\ Head(s) \in Range(s)
           /\ Tail(s) \in Seq(S)
           /\ Range(s) = {Head(s)} \cup Range(Tail(s))
           /\ IsInjective(s) => /\ IsInjective(Tail(s))
                                /\ Head(s) \notin Range(Tail(s))
  <1>1. Len(s) \in Nat \ {0} /\ DOMAIN s = 1..Len(s)
    OBVIOUS
  <1>2. Head(s) = s[1] /\ s[1] \in S
    OBVIOUS
  <1>3. Tail(s) \in Seq(S) /\ Len(Tail(s)) = Len(s) - 1
    OBVIOUS
  <1>4. \A i \in 1..Len(s) - 1 : Tail(s)[i] = s[i + 1]
    OBVIOUS
  <1>5. DOMAIN Tail(s) = 1..Len(s) - 1
    BY <1>3
  <1>6. \A i \in 1..Len(s) : i = 1 \/ i - 1 \in 1..Len(s) - 1
    BY <1>1
  <1>7. Range(s) = {Head(s)} \cup Range(Tail(s))
    <2>1. ASSUME NEW x \in Range(s) PROVE x \in {Head(s)} \cup Range(Tail(s))
      <3>1. PICK i \in 1..Len(s) : x = s[i]
        BY <1>1 DEF Range
      <3>2. CASE i = 1
        BY <3>1, <3>2, <1>2
      <3>3. CASE i - 1 \in 1..Len(s) - 1
        <4>1. Tail(s)[i - 1] = s[i]
          BY <3>3, <1>4
        <4> QED
          BY <4>1, <3>1, <3>3, <1>5, Zenon DEF Range
      <3> QED BY <3>2, <3>3, <1>6
    <2>2. ASSUME NEW x \in {Head(s)} \cup Range(Tail(s)) PROVE x \in Range(s)
      BY <1>1, <1>2, <1>4, <1>5 DEF Range
    <2> QED BY <2>1, <2>2
  <1>8. ASSUME IsInjective(s)
        PROVE  IsInjective(Tail(s)) /\ Head(s) \notin Range(Tail(s))
    BY <1>1, <1>2, <1>4, <1>5, <1>8 DEF IsInjective, Range
  <1> QED
    BY <1>2, <1>3, <1>7, <1>8

(* A queue with nothing in it has no elements.                             *)
LEMMA EmptyFacts ==
    /\ Range(<<>>) = {}
    /\ IsInjective(<<>>)
    /\ \A S : <<>> \in Seq(S)
  BY DEF Range, IsInjective

-----------------------------------------------------------------------------
(* Who can be in a wait set, and what a thread in a given place holds.     *)
Sleepers ==
    /\ \A w \in empty : worker[w] = "take"
    /\ \A p \in full : producer[p] = "add"
    /\ isRunning \/ empty = {}

Arguments ==
    /\ \A p \in Producers : producer[p] = "add" => arg[p] \in Tasks
    /\ \A p \in Producers : producer[p] = "idle" => arg[p] = NoTask
    /\ \A p \in Producers : arg[p] \notin accepted
    /\ \A p, q \in Producers : arg[p] = arg[q] /\ arg[p] # NoTask => p = q
    /\ \A w \in Workers : worker[w] = "run" => task[w] \in Tasks

Births ==
    /\ \A w \in toCreate : worker[w] = "unborn"
    /\ \A w \in sem : worker[w] \notin {"unborn", "created"}

(* The inductive invariant.                                                *)
IInv ==
    /\ TypeOK
    /\ Sleepers
    /\ Arguments
    /\ Births
    /\ TasksInOnePlace
    /\ NoLostWorkerWakeup
    /\ NoLostProducerWakeup
    /\ StartedWhenConstructed

-----------------------------------------------------------------------------
(* The constructor leaves the pool empty, so every part of the invariant   *)
(* holds before the first call.                                            *)
LEMMA InitIInv == Init => IInv
  <1> SUFFICES ASSUME Init PROVE IInv
    OBVIOUS
  <1> USE PoolAssumption DEF Init
  <1>1. TypeOK
    BY EmptyFacts, Zenon DEF TypeOK, WorkerPC, OwnerPC
  <1>2. Sleepers /\ Arguments /\ Births
    BY DEF Sleepers, Arguments, Births
  <1>3. Running = {}
    BY DEF Running
  <1>4. TasksInOnePlace
    BY <1>3, EmptyFacts DEF TasksInOnePlace
  <1>5. NoLostWorkerWakeup /\ NoLostProducerWakeup /\ StartedWhenConstructed
    BY DEF NoLostWorkerWakeup, NoLostProducerWakeup, StartedWhenConstructed
  <1> QED
    BY <1>1, <1>2, <1>4, <1>5 DEF IInv

(* What addTask's push does: the argument of one producer moves to the     *)
(* back of _wq.                                                            *)
LEMMA AddTaskPushIInv ==
    ASSUME IInv, NEW p \in Producers, AddTaskPush(p)
    PROVE  IInv'
  <1> USE PoolAssumption DEF IInv, AddTaskPush, ownerVars, limitVars, workerVars
  <1>1. arg[p] \in Tasks /\ arg[p] \notin accepted
    BY DEF Arguments
  <1>2. /\ wq' \in Seq(Tasks) /\ wq' # <<>>
        /\ Range(wq') = Range(wq) \cup {arg[p]}
        /\ IsInjective(wq) /\ arg[p] \notin Range(wq) => IsInjective(wq')
    BY <1>1, AppendFacts DEF TypeOK
  <1>3. empty' \subseteq empty
    BY DEF Notify
  <1>4. TypeOK'
    BY <1>1, <1>2, <1>3 DEF TypeOK
  <1>5. Sleepers' /\ Births'
    BY <1>3 DEF Sleepers, Births, TypeOK
  <1>6. Arguments'
    BY <1>1 DEF Arguments, TypeOK
  <1>7. Running' = Running
    BY DEF Running
  <1>8. TasksInOnePlace'
    BY <1>1, <1>2, <1>7 DEF TasksInOnePlace
  <1>9. NoLostWorkerWakeup'
    <2>1. CASE empty = {}
      BY <2>1, <1>3 DEF NoLostWorkerWakeup
    <2>2. CASE empty # {}
      <3>1. PICK w \in empty : empty' = empty \ {w}
        BY <2>2 DEF Notify
      <3>2. Alive(w)' /\ w \in Workers
        BY <3>1 DEF Sleepers, Alive, TypeOK
      <3> QED
        BY <3>1, <3>2 DEF NoLostWorkerWakeup
    <2> QED
      BY <2>1, <2>2
  <1>10. NoLostProducerWakeup' /\ StartedWhenConstructed'
    BY <1>2 DEF NoLostProducerWakeup, StartedWhenConstructed
  <1> QED
    BY <1>4, <1>5, <1>6, <1>8, <1>9, <1>10

(* What take's pop does: the head of _wq moves to one worker.              *)
LEMMA TakePopIInv ==
    ASSUME IInv, NEW w \in Workers, TakePop(w)
    PROVE  IInv'
  <1> USE PoolAssumption DEF IInv, TakePop, Popped, ownerVars, limitVars, producerVars
  <1>1. /\ Head(wq) \in Tasks /\ wq' \in Seq(Tasks)
        /\ Range(wq) = {Head(wq)} \cup Range(wq')
        /\ IsInjective(wq') /\ Head(wq) \notin Range(wq')
    BY TailFacts DEF TypeOK, TasksInOnePlace
  <1>2. full' \subseteq full
    BY DEF Notify
  <1>3. /\ worker'[w] = "run" /\ task'[w] = Head(wq)
        /\ \A v \in Workers \ {w} : worker'[v] = worker[v] /\ task'[v] = task[v]
        /\ worker[w] = "take"
    BY DEF TypeOK
  <1>4. TypeOK'
    BY <1>1, <1>2 DEF TypeOK, WorkerPC
  <1>5. Sleepers' /\ Births'
    BY <1>2, <1>3 DEF Sleepers, Births, TypeOK
  <1>6. Arguments'
    BY <1>1, <1>3 DEF Arguments, TypeOK
  <1>7. Running' = Running \cup {Head(wq)}
    BY <1>3 DEF Running
  <1>8. \A v \in Workers : worker[v] = "run" => task[v] # Head(wq)
    BY <1>1 DEF TasksInOnePlace, Running
  <1>9. TasksInOnePlace'
    BY <1>1, <1>3, <1>7, <1>8 DEF TasksInOnePlace
  <1>10. NoLostWorkerWakeup'
    BY <1>3 DEF NoLostWorkerWakeup, Alive
  <1>11. NoLostProducerWakeup'
    <2>1. CASE full = {}
      BY <2>1, <1>2 DEF NoLostProducerWakeup
    <2>2. CASE full # {}
      <3>1. PICK p \in full : full' = full \ {p}
        BY <2>2 DEF Notify
      <3> QED
        BY <3>1 DEF NoLostProducerWakeup, Sleepers, TypeOK
    <2> QED
      BY <2>1, <2>2
  <1>12. StartedWhenConstructed'
    BY <1>3 DEF StartedWhenConstructed
  <1> QED
    BY <1>4, <1>5, <1>6, <1>9, <1>10, <1>11, <1>12

(* The steps of a worker other than the pop.                               *)
LEMMA WorkerIInv ==
    ASSUME IInv, NEW w \in Workers,
           ThreadRun(w) \/ ThreadLoop(w) \/ TakeWait(w) \/ TakeNull(w) \/ RunTask(w)
    PROVE  IInv'
  <1> USE PoolAssumption DEF IInv
  <1> USE DEF queueVars, ownerVars, limitVars, workerVars, producerVars
  <1>1. CASE ThreadRun(w)
    <2> USE <1>1 DEF ThreadRun
    <2>1. TypeOK'
      BY DEF TypeOK, WorkerPC
    <2>2. Sleepers' /\ Arguments' /\ Births'
      BY DEF Sleepers, Arguments, Births, TypeOK
    <2>3. Running' = Running
      BY DEF Running, TypeOK
    <2>4. TasksInOnePlace'
      BY <2>3 DEF TasksInOnePlace, TypeOK
    <2>5. NoLostWorkerWakeup' /\ NoLostProducerWakeup' /\ StartedWhenConstructed'
      BY DEF NoLostWorkerWakeup, NoLostProducerWakeup, StartedWhenConstructed, Alive, TypeOK
    <2> QED BY <2>1, <2>2, <2>4, <2>5
  <1>2. CASE ThreadLoop(w)
    <2> USE <1>2 DEF ThreadLoop
    <2>1. TypeOK'
      BY DEF TypeOK, WorkerPC
    <2>2. Sleepers' /\ Arguments' /\ Births'
      BY DEF Sleepers, Arguments, Births, TypeOK
    <2>3. Running' = Running
      BY DEF Running, TypeOK
    <2>4. TasksInOnePlace'
      BY <2>3 DEF TasksInOnePlace, TypeOK
    <2>5. NoLostWorkerWakeup' /\ NoLostProducerWakeup' /\ StartedWhenConstructed'
      BY DEF NoLostWorkerWakeup, NoLostProducerWakeup, StartedWhenConstructed, Alive,
             TypeOK, Sleepers
    <2> QED BY <2>1, <2>2, <2>4, <2>5
  <1>3. CASE TakeWait(w)
    <2> USE <1>3 DEF TakeWait
    <2>1. TypeOK'
      BY DEF TypeOK
    <2>2. Sleepers' /\ Arguments' /\ Births'
      BY DEF Sleepers, Arguments, Births, TypeOK
    <2>3. TasksInOnePlace'
      BY DEF TasksInOnePlace, Running
    <2>4. NoLostWorkerWakeup' /\ NoLostProducerWakeup' /\ StartedWhenConstructed'
      BY DEF NoLostWorkerWakeup, NoLostProducerWakeup, StartedWhenConstructed, Alive
    <2> QED BY <2>1, <2>2, <2>3, <2>4
  <1>4. CASE TakeNull(w)
    <2> USE <1>4 DEF TakeNull
    <2>1. TypeOK'
      BY DEF TypeOK, WorkerPC
    <2>2. Sleepers' /\ Arguments' /\ Births'
      BY DEF Sleepers, Arguments, Births, TypeOK
    <2>3. Running' = Running
      BY DEF Running, TypeOK
    <2>4. TasksInOnePlace'
      BY <2>3 DEF TasksInOnePlace, TypeOK
    <2>5. NoLostWorkerWakeup' /\ NoLostProducerWakeup' /\ StartedWhenConstructed'
      BY DEF NoLostWorkerWakeup, NoLostProducerWakeup, StartedWhenConstructed, Alive, TypeOK
    <2> QED BY <2>1, <2>2, <2>4, <2>5
  <1>5. CASE RunTask(w)
    <2> USE <1>5 DEF RunTask
    <2>1. TypeOK'
      BY DEF TypeOK, WorkerPC, Arguments
    <2>2. Sleepers' /\ Arguments' /\ Births'
      BY DEF Sleepers, Arguments, Births, TypeOK
    <2>3. Running' = Running \ {task[w]} /\ task[w] \in Running
      BY DEF Running, TypeOK, TasksInOnePlace
    <2>4. TasksInOnePlace'
      BY <2>3 DEF TasksInOnePlace, TypeOK
    <2>5. NoLostWorkerWakeup' /\ NoLostProducerWakeup' /\ StartedWhenConstructed'
      BY DEF NoLostWorkerWakeup, NoLostProducerWakeup, StartedWhenConstructed, Alive, TypeOK
    <2> QED BY <2>1, <2>2, <2>4, <2>5
  <1> QED
    BY <1>1, <1>2, <1>3, <1>4, <1>5

(* The steps that only move a producer or a sleeper.                       *)
LEMMA ProducerIInv ==
    ASSUME IInv,
           \/ SpuriousWakeup
           \/ \E p \in Producers : AddTaskWait(p)
           \/ \E p \in Producers, t \in Tasks : CallAddTask(p, t)
    PROVE  IInv'
  <1> USE PoolAssumption DEF IInv
  <1> USE DEF queueVars, ownerVars, limitVars, workerVars, producerVars
  <1>1. CASE SpuriousWakeup
    <2> USE <1>1 DEF SpuriousWakeup
    <2>1. TypeOK'
      BY DEF TypeOK
    <2>2. Sleepers' /\ Arguments' /\ Births'
      BY DEF Sleepers, Arguments, Births, TypeOK
    <2>3. TasksInOnePlace'
      BY DEF TasksInOnePlace, Running
    <2>4. NoLostWorkerWakeup' /\ NoLostProducerWakeup' /\ StartedWhenConstructed'
      BY DEF NoLostWorkerWakeup, NoLostProducerWakeup, StartedWhenConstructed, Alive
    <2> QED BY <2>1, <2>2, <2>3, <2>4
  <1>2. ASSUME NEW p \in Producers, AddTaskWait(p) PROVE IInv'
    <2> USE <1>2 DEF AddTaskWait
    <2>1. TypeOK'
      BY DEF TypeOK
    <2>2. Sleepers' /\ Arguments' /\ Births'
      BY DEF Sleepers, Arguments, Births, TypeOK
    <2>3. TasksInOnePlace'
      BY DEF TasksInOnePlace, Running
    <2>4. wq # <<>>
      BY DEF QueueIsFull, TypeOK
    <2>5. NoLostWorkerWakeup' /\ NoLostProducerWakeup' /\ StartedWhenConstructed'
      BY <2>4 DEF NoLostWorkerWakeup, NoLostProducerWakeup, StartedWhenConstructed, Alive
    <2> QED BY <2>1, <2>2, <2>3, <2>5
  <1>3. ASSUME NEW p \in Producers, NEW t \in Tasks, CallAddTask(p, t) PROVE IInv'
    <2> USE <1>3 DEF CallAddTask
    <2>1. TypeOK'
      BY DEF TypeOK
    <2>2. Sleepers' /\ Births'
      BY DEF Sleepers, Births, TypeOK
    <2>3. Arguments'
      BY DEF Arguments, TypeOK
    <2>4. TasksInOnePlace'
      <3>1. UNCHANGED <<wq, accepted, finished, worker, task>>
        OBVIOUS
      <3>2. Running' = Running
        BY <3>1 DEF Running
      <3> QED BY <3>1, <3>2, Zenon DEF TasksInOnePlace
    <2>5. NoLostWorkerWakeup' /\ NoLostProducerWakeup' /\ StartedWhenConstructed'
      BY DEF NoLostWorkerWakeup, NoLostProducerWakeup, StartedWhenConstructed, Alive, TypeOK
    <2> QED BY <2>1, <2>2, <2>3, <2>4, <2>5
  <1> QED
    BY <1>1, <1>2, <1>3

(* The steps of the owner: start, its constructors, stop, setMaxQueSize.   *)
LEMMA OwnerIInv ==
    ASSUME IInv,
           \/ OwnerStep
           \/ \E W \in SUBSET Unborn : Start(W)
           \/ Stop
           \/ \E n \in Limits : SetMaxQueSize(n)
    PROVE  IInv'
  <1> USE PoolAssumption DEF IInv
  <1> USE DEF queueVars, ownerVars, limitVars, workerVars, producerVars
  <1>1. ASSUME NEW w \in Workers, CreateThread(w) PROVE IInv'
    <2> USE <1>1 DEF CreateThread
    <2>1. TypeOK'
      BY DEF TypeOK, WorkerPC, OwnerPC
    <2>2. Sleepers' /\ Arguments' /\ Births'
      BY DEF Sleepers, Arguments, Births, TypeOK
    <2>3. Running' = Running
      BY DEF Running, TypeOK, Births
    <2>4. TasksInOnePlace'
      BY <2>3 DEF TasksInOnePlace, TypeOK, Births
    <2>5. NoLostWorkerWakeup' /\ NoLostProducerWakeup' /\ StartedWhenConstructed'
      BY DEF NoLostWorkerWakeup, NoLostProducerWakeup, StartedWhenConstructed, Alive,
             TypeOK, Births
    <2> QED BY <2>1, <2>2, <2>4, <2>5
  <1>2. ASSUME NEW w \in Workers, CreateFails(w) PROVE IInv'
    <2> USE <1>2 DEF CreateFails
    <2>1. TypeOK'
      BY DEF TypeOK, WorkerPC, OwnerPC
    <2>2. Sleepers' /\ Arguments' /\ Births'
      BY DEF Sleepers, Arguments, Births, TypeOK
    <2>3. Running' = Running
      BY DEF Running, TypeOK, Births
    <2>4. TasksInOnePlace'
      BY <2>3 DEF TasksInOnePlace, TypeOK, Births
    <2>5. NoLostWorkerWakeup' /\ NoLostProducerWakeup' /\ StartedWhenConstructed'
      BY DEF NoLostWorkerWakeup, NoLostProducerWakeup, StartedWhenConstructed, Alive,
             TypeOK, Births
    <2> QED BY <2>1, <2>2, <2>4, <2>5
  <1>3. ASSUME NEW w \in Workers, SemWait(w) PROVE IInv'
    <2> USE <1>3 DEF SemWait, Posted
    <2>1. TypeOK'
      BY DEF TypeOK, WorkerPC, OwnerPC
    <2>2. Sleepers' /\ Arguments' /\ Births'
      BY DEF Sleepers, Arguments, Births, TypeOK
    <2>3. Running' = Running
      BY DEF Running, TypeOK, Births
    <2>4. TasksInOnePlace'
      BY <2>3 DEF TasksInOnePlace, TypeOK, Births
    <2>5. NoLostWorkerWakeup' /\ NoLostProducerWakeup' /\ StartedWhenConstructed'
      BY DEF NoLostWorkerWakeup, NoLostProducerWakeup, StartedWhenConstructed, Alive,
             TypeOK, Births
    <2> QED BY <2>1, <2>2, <2>4, <2>5
  <1>4. CASE StartReturns
    <2> USE <1>4 DEF StartReturns
    <2>1. TypeOK'
      BY DEF TypeOK, WorkerPC, OwnerPC
    <2>2. Sleepers' /\ Arguments' /\ Births'
      BY DEF Sleepers, Arguments, Births, TypeOK
    <2>3. Running' = Running
      BY DEF Running, TypeOK, Births
    <2>4. TasksInOnePlace'
      BY <2>3 DEF TasksInOnePlace, TypeOK, Births
    <2>5. NoLostWorkerWakeup' /\ NoLostProducerWakeup' /\ StartedWhenConstructed'
      BY DEF NoLostWorkerWakeup, NoLostProducerWakeup, StartedWhenConstructed, Alive,
             TypeOK, Births
    <2> QED BY <2>1, <2>2, <2>4, <2>5
  <1>5. CASE StopReturns
    <2> USE <1>5 DEF StopReturns
    <2>1. TypeOK'
      BY DEF TypeOK, WorkerPC, OwnerPC
    <2>2. Sleepers' /\ Arguments' /\ Births'
      BY DEF Sleepers, Arguments, Births, TypeOK
    <2>3. Running' = Running
      BY DEF Running, TypeOK, Births
    <2>4. TasksInOnePlace'
      BY <2>3 DEF TasksInOnePlace, TypeOK, Births
    <2>5. NoLostWorkerWakeup' /\ NoLostProducerWakeup' /\ StartedWhenConstructed'
      BY DEF NoLostWorkerWakeup, NoLostProducerWakeup, StartedWhenConstructed, Alive,
             TypeOK, Births
    <2> QED BY <2>1, <2>2, <2>4, <2>5
  <1>6. ASSUME NEW W \in SUBSET Unborn, Start(W) PROVE IInv'
    <2> USE <1>6 DEF Start, Unborn
    <2>1. TypeOK'
      BY DEF TypeOK, WorkerPC, OwnerPC
    <2>2. Sleepers' /\ Arguments' /\ Births'
      BY DEF Sleepers, Arguments, Births, TypeOK
    <2>3. Running' = Running
      BY DEF Running, TypeOK, Births
    <2>4. TasksInOnePlace'
      BY <2>3 DEF TasksInOnePlace, TypeOK, Births
    <2>5. NoLostWorkerWakeup' /\ NoLostProducerWakeup' /\ StartedWhenConstructed'
      BY DEF NoLostWorkerWakeup, NoLostProducerWakeup, StartedWhenConstructed, Alive,
             TypeOK, Births
    <2> QED BY <2>1, <2>2, <2>4, <2>5
  <1>7. CASE Stop
    <2> USE <1>7 DEF Stop, NotifyAll
    <2>1. TypeOK'
      BY Zenon DEF TypeOK, WorkerPC, OwnerPC
    <2>2. Sleepers' /\ Arguments' /\ Births'
      BY DEF Sleepers, Arguments, Births, TypeOK
    <2>3. Running' = Running
      BY DEF Running, TypeOK, Births
    <2>4. TasksInOnePlace'
      BY <2>3 DEF TasksInOnePlace, TypeOK, Births
    <2>5. NoLostWorkerWakeup' /\ NoLostProducerWakeup' /\ StartedWhenConstructed'
      BY DEF NoLostWorkerWakeup, NoLostProducerWakeup, StartedWhenConstructed, Alive,
             TypeOK, Births
    <2> QED BY <2>1, <2>2, <2>4, <2>5
  <1>8. ASSUME NEW n \in Limits, SetMaxQueSize(n) PROVE IInv'
    <2> USE <1>8 DEF SetMaxQueSize, ValidLimit
    <2>1. TypeOK'
      BY DEF TypeOK, WorkerPC, OwnerPC
    <2>2. Sleepers' /\ Arguments' /\ Births'
      BY DEF Sleepers, Arguments, Births, TypeOK
    <2>3. Running' = Running
      BY DEF Running, TypeOK, Births
    <2>4. TasksInOnePlace'
      BY <2>3 DEF TasksInOnePlace, TypeOK, Births
    <2>5. NoLostWorkerWakeup' /\ NoLostProducerWakeup' /\ StartedWhenConstructed'
      BY DEF NoLostWorkerWakeup, NoLostProducerWakeup, StartedWhenConstructed, Alive,
             TypeOK, Births
    <2> QED BY <2>1, <2>2, <2>4, <2>5
  <1> QED
    BY <1>1, <1>2, <1>3, <1>4, <1>5, <1>6, <1>7, <1>8 DEF OwnerStep

(* The inductive invariant holds in every reachable state of the pool.     *)
THEOREM PoolInvariant == Spec => []IInv
  <1>1. ASSUME IInv, [Next]_vars PROVE IInv'
    <2>1. CASE UNCHANGED vars
      <3> USE <1>1, <2>1 DEF vars, queueVars, ownerVars, limitVars, workerVars,
              producerVars, IInv
      <3>1. TypeOK' /\ Arguments' /\ Births' /\ StartedWhenConstructed'
        BY DEF TypeOK, Arguments, Births, StartedWhenConstructed, Alive
      <3>2. Sleepers' /\ NoLostWorkerWakeup' /\ NoLostProducerWakeup'
        BY DEF Sleepers, NoLostWorkerWakeup, NoLostProducerWakeup, Alive
      <3>3. TasksInOnePlace'
        BY DEF TasksInOnePlace, Running
      <3> QED BY <3>1, <3>2, <3>3
    <2>2. ASSUME NEW w \in Workers, WorkerStep(w) PROVE IInv'
      BY <1>1, <2>2, TakePopIInv, WorkerIInv DEF WorkerStep
    <2>3. ASSUME NEW p \in Producers, ProducerStep(p) PROVE IInv'
      BY <1>1, <2>3, AddTaskPushIInv, ProducerIInv DEF ProducerStep
    <2> QED
      BY <1>1, <2>1, <2>2, <2>3, OwnerIInv, ProducerIInv DEF Next
  <1> QED
    BY <1>1, InitIInv, PTL DEF Spec

(* Every variable keeps its type.                                          *)
THEOREM PoolTypes == Spec => []TypeOK
  BY PoolInvariant, PTL DEF IInv

(* addTask, take, start and stop, in any interleaving and for any number   *)
(* of threads, neither lose an accepted task nor run one twice.            *)
THEOREM PoolTasksInOnePlace == Spec => []TasksInOnePlace
  BY PoolInvariant, PTL DEF IInv

(* One notify per push and per pop is enough: no worker sleeps beside a    *)
(* queue nobody will come to, and no producer sleeps beside one that can   *)
(* never shrink.                                                           *)
THEOREM PoolNoLostWakeup == Spec => []NoLostWakeup
  BY PoolInvariant, PTL DEF IInv, NoLostWakeup

(* start returns only when its threads run.                                *)
THEOREM PoolStarted == Spec => []StartedWhenConstructed
  BY PoolInvariant, PTL DEF IInv

-----------------------------------------------------------------------------
(* The refinement: each step of the pool is a step of FifoTasks or none.   *)

(* A push is the abstract Accept.                                          *)
LEMMA PushAccepts ==
    ASSUME IInv, NEW p \in Producers, AddTaskPush(p)
    PROVE  Abstract!Accept(arg[p]) /\ arg[p] \in Tasks
  <1> USE DEF IInv, AddTaskPush, workerVars, limitVars
  <1>1. arg[p] \in Tasks /\ arg[p] \notin accepted
    BY DEF Arguments
  <1>2. arg[p] \notin Range(wq) \cup Running \cup finished
    BY <1>1 DEF TasksInOnePlace
  <1>3. UNCHANGED <<Open, Running, finished>>
    BY DEF Open, Alive, Running
  <1> QED
    BY <1>1, <1>2, <1>3, Zenon DEF Abstract!Accept, Abstract!Known, Range, Abstract!Range

(* A pop is the abstract Begin.                                            *)
LEMMA PopBegins ==
    ASSUME IInv, NEW w \in Workers, TakePop(w)
    PROVE  Abstract!Begin
  <1> USE DEF IInv, TakePop, Popped, limitVars
  <1>1. /\ worker'[w] = "run" /\ task'[w] = Head(wq) /\ worker[w] = "take"
        /\ \A v \in Workers \ {w} : worker'[v] = worker[v] /\ task'[v] = task[v]
    BY DEF TypeOK
  <1>2. Running' = Running \cup {Head(wq)}
    BY <1>1 DEF Running
  <1>3. Open' = Open
    BY <1>1 DEF Open, Alive
  <1> QED
    BY <1>2, <1>3 DEF Abstract!Begin

(* Running a task to its end is the abstract Finish.                       *)
LEMMA RunFinishes ==
    ASSUME IInv, NEW w \in Workers, RunTask(w)
    PROVE  Abstract!Finish(task[w]) /\ task[w] \in Tasks
  <1> USE DEF IInv, RunTask, limitVars, queueVars
  <1>1. Running' = Running \ {task[w]} /\ task[w] \in Running
    BY DEF Running, TypeOK, TasksInOnePlace
  <1>2. /\ worker'[w] = "loop" /\ worker[w] = "run"
        /\ \A v \in Workers \ {w} : worker'[v] = worker[v]
    BY DEF TypeOK
  <1>3. Open' = Open
    BY <1>2 DEF Open, Alive
  <1>4. task[w] \in Tasks
    BY DEF Arguments
  <1> QED
    BY <1>1, <1>3, <1>4 DEF Abstract!Finish

(* Every other step leaves the tasks where they are; it opens the service, *)
(* closes it, or is invisible.                                             *)
LEMMA OtherStepsSwitch ==
    ASSUME IInv, UNCHANGED <<wq, finished>>, Running' = Running
    PROVE  Abstract!Switch \/ UNCHANGED Abstract!vars
  BY DEF Abstract!Switch, Abstract!vars, Open

(* The pool implements the abstract task queue: first accepted, first      *)
(* begun, each task at most once.                                          *)
THEOREM PoolImplementsFifoTasks == Spec => Abstract!SafeSpec
  <1>1. Init => Abstract!Init
    BY DEF Init, Abstract!Init, Open, Running, Alive
  <1>2. ASSUME IInv, [Next]_vars PROVE [Abstract!Next]_(Abstract!vars)
    <2> USE DEF queueVars, ownerVars, limitVars, workerVars, producerVars
    <2>1. ASSUME NEW p \in Producers, AddTaskPush(p) PROVE Abstract!Next
      BY <1>2, <2>1, PushAccepts DEF Abstract!Next
    <2>2. ASSUME NEW w \in Workers, TakePop(w) PROVE Abstract!Next
      BY <1>2, <2>2, PopBegins DEF Abstract!Next
    <2>3. ASSUME NEW w \in Workers, RunTask(w) PROVE Abstract!Next
      BY <1>2, <2>3, RunFinishes DEF Abstract!Next
    <2>4. ASSUME NEW w \in Workers,
                 ThreadRun(w) \/ ThreadLoop(w) \/ TakeWait(w) \/ TakeNull(w)
          PROVE  UNCHANGED <<wq, finished>> /\ Running' = Running
      BY <1>2, <2>4 DEF ThreadRun, ThreadLoop, TakeWait, TakeNull, IInv, TypeOK, Running
    <2>5. ASSUME NEW w \in Workers, CreateThread(w) \/ CreateFails(w) \/ SemWait(w)
          PROVE  UNCHANGED <<wq, finished>> /\ Running' = Running
      BY <1>2, <2>5 DEF CreateThread, CreateFails, SemWait, IInv, TypeOK, Running, Births
    <2>6. ASSUME \/ StartReturns \/ StopReturns \/ Stop
                 \/ \E W \in SUBSET Unborn : Start(W)
                 \/ \E n \in Limits : SetMaxQueSize(n)
                 \/ SpuriousWakeup
                 \/ \E p \in Producers : AddTaskWait(p)
                 \/ \E p \in Producers, t \in Tasks : CallAddTask(p, t)
          PROVE  UNCHANGED <<wq, finished>> /\ Running' = Running
      <3>1. UNCHANGED <<wq, finished, worker, task>>
        BY <2>6 DEF StartReturns, StopReturns, Stop, Start, SetMaxQueSize, SpuriousWakeup,
           AddTaskWait, CallAddTask
      <3> QED BY <3>1 DEF Running
    <2>7. CASE UNCHANGED vars
      BY <2>7 DEF vars, Abstract!vars, Open, Alive, Running
    <2> QED
      BY <1>2, <2>1, <2>2, <2>3, <2>4, <2>5, <2>6, <2>7, OtherStepsSwitch
         DEF Next, WorkerStep, ProducerStep, OwnerStep, Abstract!Next
  <1> QED
    BY <1>1, <1>2, PoolInvariant, PTL DEF Spec, Abstract!SafeSpec
=============================================================================
