-------------------------- MODULE FixedThreadPool --------------------------
(***************************************************************************)
(* The thread pool of http_server/FixedThreadPool.{h,cpp}, with the start  *)
(* handshake and the join of http_server/Thread.cpp.                       *)
(*                                                                         *)
(* Threads: the Workers run thread_func; the Producers call addTask; one   *)
(* owner thread calls start, stop and setMaxQueSize, as the code's callers *)
(* do.  Every critical section of _mutex is one action: inside it a thread *)
(* reads isRunning once, and everything else it touches is only touched    *)
(* under the mutex.  A thread that waits on a condition variable is in its *)
(* wait set; when it is taken out it runs the critical section again from  *)
(* the loop condition, which is what pthread_cond_wait does.               *)
(***************************************************************************)
EXTENDS Naturals, Sequences, Functions

CONSTANTS
    Workers,        \* the threads the pool may ever create
    Producers,      \* the threads that call addTask
    Tasks,          \* the tasks, each handed to addTask at most once
    Limits,         \* the values setMaxQueSize may be given
    DefaultLimit,   \* DEFAULT_QUE_SIZE
    CreateMayFail,  \* whether pthread_create can fail
    Nobody,         \* no worker
    NoTask          \* an empty std::function

ASSUME PoolAssumption ==
    /\ Limits \subseteq Nat
    /\ DefaultLimit \in Nat \ {0}
    /\ CreateMayFail \in BOOLEAN
    /\ Nobody \notin Workers
    /\ NoTask \notin Tasks

VARIABLES
    isRunning, maxQueSize,
    wq,        \* _wq
    empty,     \* the workers waiting on _empty
    full,      \* the producers waiting on _full
    worker,    \* where each worker is
    task,      \* the task a worker in "run" holds
    producer,  \* "idle", or "add" inside addTask
    arg,       \* the task a producer in "add" is adding
    owner,     \* where the owner is: "idle", "start", "sem" or "join"
    toCreate,  \* the workers start has still to create
    creating,  \* the worker whose constructor the owner is in
    sem,       \* the workers whose m_sem was notified and not yet waited for
    accepted,  \* history: the tasks pushed so far
    finished   \* history: the tasks executed so far

queueVars == <<wq, empty, full, accepted>>
ownerVars == <<owner, toCreate, creating>>
limitVars == <<isRunning, maxQueSize>>
workerVars == <<worker, task, sem, finished>>
producerVars == <<producer, arg>>
vars == <<queueVars, ownerVars, limitVars, workerVars, producerVars>>

WorkerPC == {"unborn", "created", "loop", "take", "run", "exit"}
OwnerPC == {"idle", "start", "sem", "join"}

Init ==
    /\ isRunning = FALSE
    /\ maxQueSize = DefaultLimit
    /\ wq = <<>>
    /\ empty = {} /\ full = {}
    /\ worker = [w \in Workers |-> "unborn"]
    /\ task = [w \in Workers |-> NoTask]
    /\ producer = [p \in Producers |-> "idle"]
    /\ arg = [p \in Producers |-> NoTask]
    /\ owner = "idle" /\ toCreate = {} /\ creating = Nobody
    /\ sem = {}
    /\ accepted = {} /\ finished = {}

-----------------------------------------------------------------------------
(* Condition::notify, and the wakeup pthread allows without any notify.    *)

LosesNotify(waiters) ==
    waiters' = waiters

Notify(waiters) ==
    \/ waiters = {} /\ waiters' = {}
    \/ \E t \in waiters : waiters' = waiters \ {t}

SpuriousWakeup ==
    /\ \/ \E w \in empty : empty' = empty \ {w} /\ UNCHANGED full
       \/ \E p \in full : full' = full \ {p} /\ UNCHANGED empty
    /\ UNCHANGED <<wq, accepted, ownerVars, limitVars, workerVars, producerVars>>

-----------------------------------------------------------------------------
(* addTask                                                                 *)

CallAddTask(p, t) ==
    /\ producer[p] = "idle"
    /\ t \notin accepted /\ \A q \in Producers : arg[q] # t
    /\ producer' = [producer EXCEPT ![p] = "add"]
    /\ arg' = [arg EXCEPT ![p] = t]
    /\ UNCHANGED <<queueVars, ownerVars, limitVars, workerVars>>

QueueIsFull == Len(wq) > maxQueSize /\ isRunning

AddTaskWait(p) ==
    /\ producer[p] = "add" /\ p \notin full
    /\ QueueIsFull
    /\ full' = full \cup {p}
    /\ UNCHANGED <<wq, empty, accepted, ownerVars, limitVars, workerVars, producerVars>>

AddTaskPush(p) ==
    /\ producer[p] = "add" /\ p \notin full
    /\ ~QueueIsFull
    /\ wq' = Append(wq, arg[p])
    /\ accepted' = accepted \cup {arg[p]}
    /\ Notify(empty)
    /\ producer' = [producer EXCEPT ![p] = "idle"]
    /\ arg' = [arg EXCEPT ![p] = NoTask]
    /\ UNCHANGED <<full, ownerVars, limitVars, workerVars>>

-----------------------------------------------------------------------------
(* thread_func and take                                                    *)

(* Thread::run: m_sem.notify(), then the pool's thread_func.               *)
ThreadRun(w) ==
    /\ worker[w] = "created"
    /\ worker' = [worker EXCEPT ![w] = "loop"]
    /\ sem' = sem \cup {w}
    /\ UNCHANGED <<task, finished, queueVars, ownerVars, limitVars, producerVars>>

(* while(isRunning), read without the mutex.                               *)
ThreadLoop(w) ==
    /\ worker[w] = "loop"
    /\ worker' = [worker EXCEPT ![w] = IF isRunning THEN "take" ELSE "exit"]
    /\ UNCHANGED <<task, sem, finished, queueVars, ownerVars, limitVars, producerVars>>

TakeWait(w) ==
    /\ worker[w] = "take" /\ w \notin empty
    /\ wq = <<>> /\ isRunning
    /\ empty' = empty \cup {w}
    /\ UNCHANGED <<wq, full, accepted, ownerVars, limitVars, workerVars, producerVars>>

LeavesHead == wq

Popped == Tail(wq)

TakePop(w) ==
    /\ worker[w] = "take" /\ w \notin empty
    /\ wq # <<>>
    /\ task' = [task EXCEPT ![w] = Head(wq)]
    /\ wq' = Popped
    /\ Notify(full)
    /\ worker' = [worker EXCEPT ![w] = "run"]
    /\ UNCHANGED <<empty, accepted, sem, finished, ownerVars, limitVars, producerVars>>

(* take returns nullptr, and thread_func runs nothing.                     *)
TakeNull(w) ==
    /\ worker[w] = "take" /\ w \notin empty
    /\ wq = <<>> /\ ~isRunning
    /\ worker' = [worker EXCEPT ![w] = "loop"]
    /\ UNCHANGED <<task, sem, finished, queueVars, ownerVars, limitVars, producerVars>>

(* task(), after which thread_func goes round its loop.                    *)
RunTask(w) ==
    /\ worker[w] = "run"
    /\ finished' = finished \cup {task[w]}
    /\ task' = [task EXCEPT ![w] = NoTask]
    /\ worker' = [worker EXCEPT ![w] = "loop"]
    /\ UNCHANGED <<sem, queueVars, ownerVars, limitVars, producerVars>>

-----------------------------------------------------------------------------
(* The owner: start, stop, setMaxQueSize                                   *)

(* start(threadnums): the new threads are any threadnums of those not yet  *)
(* created.                                                                *)
Start(W) ==
    /\ owner = "idle"
    /\ isRunning' = TRUE
    /\ owner' = "start"
    /\ toCreate' = W
    /\ UNCHANGED <<maxQueSize, creating, queueVars, workerVars, producerVars>>

(* One turn of start's loop: Thread's constructor calls pthread_create ... *)
CreateThread(w) ==
    /\ owner = "start" /\ w \in toCreate
    /\ worker' = [worker EXCEPT ![w] = "created"]
    /\ owner' = "sem"
    /\ creating' = w
    /\ toCreate' = toCreate \ {w}
    /\ UNCHANGED <<task, sem, finished, queueVars, limitVars, producerVars>>

(* ... whose failure it ignores ...                                        *)
CreateFails(w) ==
    /\ CreateMayFail
    /\ owner = "start" /\ w \in toCreate
    /\ owner' = "sem"
    /\ creating' = w
    /\ toCreate' = toCreate \ {w}
    /\ UNCHANGED <<queueVars, limitVars, workerVars, producerVars>>

(* ... and waits on m_sem either way.                                      *)
Posted(w) == w = creating /\ w \in sem

SemWait(w) ==
    /\ owner = "sem"
    /\ Posted(w)
    /\ sem' = sem \ {w}
    /\ creating' = Nobody
    /\ owner' = "start"
    /\ UNCHANGED <<toCreate, worker, task, finished, queueVars, limitVars, producerVars>>

StartReturns ==
    /\ owner = "start" /\ toCreate = {}
    /\ owner' = "idle"
    /\ UNCHANGED <<toCreate, creating, queueVars, limitVars, workerVars, producerVars>>

(* stop's critical section; the destructor calls stop if isRunning.        *)
WakesOne(waiters) ==
    \/ waiters = {} /\ waiters' = {}
    \/ \E t \in waiters : waiters' = waiters \ {t}

NotifyAll(waiters) == waiters' = {}

Stop ==
    /\ owner = "idle"
    /\ isRunning' = FALSE
    /\ NotifyAll(empty)
    /\ owner' = "join"
    /\ UNCHANGED <<maxQueSize, toCreate, creating, wq, full, accepted, workerVars, producerVars>>

(* Every join has returned.                                                *)
StopReturns ==
    /\ owner = "join"
    /\ \A w \in Workers : worker[w] \in {"unborn", "exit"}
    /\ owner' = "idle"
    /\ UNCHANGED <<toCreate, creating, queueVars, limitVars, workerVars, producerVars>>

(* setMaxQueSize throws on 0 and changes nothing.                          *)
ValidLimit(n) == n > 0

SetMaxQueSize(n) ==
    /\ owner = "idle"
    /\ ValidLimit(n)
    /\ maxQueSize' = n
    /\ UNCHANGED <<isRunning, queueVars, ownerVars, workerVars, producerVars>>

-----------------------------------------------------------------------------
Unborn == {w \in Workers : worker[w] = "unborn"}

WorkerStep(w) ==
    \/ ThreadRun(w) \/ ThreadLoop(w)
    \/ TakeWait(w) \/ TakePop(w) \/ TakeNull(w)
    \/ RunTask(w)

ProducerStep(p) == AddTaskWait(p) \/ AddTaskPush(p)

OwnerStep ==
    \/ \E w \in Workers : CreateThread(w) \/ CreateFails(w) \/ SemWait(w)
    \/ StartReturns
    \/ StopReturns

Next ==
    \/ \E w \in Workers : WorkerStep(w)
    \/ \E p \in Producers : ProducerStep(p)
    \/ \E p \in Producers, t \in Tasks : CallAddTask(p, t)
    \/ OwnerStep
    \/ \E W \in SUBSET Unborn : Start(W)
    \/ Stop
    \/ \E n \in Limits : SetMaxQueSize(n)
    \/ SpuriousWakeup

Spec == Init /\ [][Next]_vars

(* Threads are scheduled, get the mutex when they keep asking for it, and  *)
(* a task returns.  Nobody has to call addTask, start or stop.             *)
Fairness ==
    /\ \A w \in Workers : WF_vars(WorkerStep(w))
    /\ \A p \in Producers : WF_vars(ProducerStep(p))
    /\ WF_vars(OwnerStep)

FairSpec == Spec /\ Fairness

-----------------------------------------------------------------------------
TypeOK ==
    /\ isRunning \in BOOLEAN
    /\ maxQueSize \in Nat \ {0}
    /\ wq \in Seq(Tasks)
    /\ empty \subseteq Workers /\ full \subseteq Producers
    /\ worker \in [Workers -> WorkerPC]
    /\ task \in [Workers -> Tasks \cup {NoTask}]
    /\ producer \in [Producers -> {"idle", "add"}]
    /\ arg \in [Producers -> Tasks \cup {NoTask}]
    /\ owner \in OwnerPC
    /\ toCreate \subseteq Workers
    /\ creating \in Workers \cup {Nobody}
    /\ sem \subseteq Workers
    /\ accepted \subseteq Tasks /\ finished \subseteq Tasks

Running == {task[w] : w \in {v \in Workers : worker[v] = "run"}}

(* No task is lost and none is run twice: whatever the interleaving of     *)
(* addTask, take, start and stop, an accepted task is in exactly one of    *)
(* three places: once in _wq, in the hands of one worker, or executed.     *)
TasksInOnePlace ==
    /\ accepted = Range(wq) \cup Running \cup finished
    /\ Range(wq) \cap (Running \cup finished) = {}
    /\ Running \cap finished = {}
    /\ IsInjective(wq)
    /\ \A v, w \in Workers :
          worker[v] = "run" /\ worker[w] = "run" /\ task[v] = task[w] => v = w

Alive(w) == worker[w] \in {"loop", "take", "run"}

(* No lost wakeup on _empty: a worker sleeps beside a non-empty queue only *)
(* while another one is awake and will come to take.  addTask notifies one *)
(* waiter per push, and that one may find its task stolen.                 *)
NoLostWorkerWakeup ==
    wq # <<>> /\ empty # {} => \E w \in Workers : Alive(w) /\ w \notin empty

(* No lost wakeup on _full: a producer sleeps in addTask only while a task *)
(* is left whose removal will notify _full, or while another producer is   *)
(* awake and about to push one.  setMaxQueSize changes the limit without a *)
(* notify, and stop notifies _empty only.                                  *)
NoLostProducerWakeup ==
    full # {} => \/ wq # <<>>
                \/ \E p \in Producers : producer[p] = "add" /\ p \notin full

(* The two together: in take and in addTask nobody sleeps on what is there *)
(* to be had without a thread on its way that will notify.                 *)
NoLostWakeup == NoLostWorkerWakeup /\ NoLostProducerWakeup

(* The constructor of Thread returns only when its thread is running, so   *)
(* start returns only when every thread it created is in thread_func       *)
(* (Thread.cpp: "ensure the thread has started when the object is          *)
(* complete").                                                             *)
StartedWhenConstructed ==
    \A w \in Workers : worker[w] = "created" => owner = "sem" /\ creating = w

(* Liveness of stop: once it has cleared isRunning and notified _empty, all *)
(* joins return.                                                            *)
StopCompletes == owner = "join" ~> owner = "idle"

Open == isRunning /\ \E w \in Workers : worker[w] = "created" \/ Alive(w)

(* addTask returns as long as the pool has a thread and is not stopped.    *)
AddTaskReturnsWhileOpen ==
    \A p \in Producers : producer[p] = "add" ~> (producer[p] = "idle" \/ ~Open)

(* The pool implements the abstract task queue: tasks begin in the order   *)
(* addTask pushed them, each once; every task accepted while the pool has  *)
(* a thread is begun and finished unless stop comes first.                 *)
Abstract == INSTANCE FifoTasks WITH
    Task <- Tasks, open <- Open, pending <- wq, begun <- Running

ImplementsFifoTasks == Abstract!Spec
=============================================================================
