-------------------------- MODULE EventLoopThread ---------------------------
(* http_server/eventloopThread and eventloopThreadPool: the pool starts    *)
(* its threads one after the other, each start() waits until the thread    *)
(* has published the loop on its stack, and the destructor of a thread     *)
(* ends that loop.  The constructor of Thread returns when the thread runs *)
(* (FixedThreadPool); what the loop does meanwhile is EventLoop.           *)
EXTENDS Integers, Sequences

CONSTANTS ThreadNums, Null, Garbage

VARIABLES starter,   \* the thread that calls start and the destructors
          _loops,    \* the vector of the pool
          _loop,     \* of each eventloopThread; not set by its constructor
          holder,    \* who holds _mutex
          waiting,   \* whether start() waits on cond
          thread,    \* where threadfunc of each is
          quit       \* of the loop on its stack

poolVars == <<starter, _loops, _loop, holder, waiting, thread, quit>>

Ids == 1..ThreadNums
current == Len(_loops) + 1
Unset == {Null, Garbage}
\* The loop on the stack of thread k is named by k.
Alive(k) == k \in Ids /\ thread[k] \in {"publishing", "looping", "left"}

PoolInit == /\ starter = "start"
            /\ _loops = <<>>
            /\ _loop \in [Ids -> Unset]
            /\ holder = [k \in Ids |-> "nobody"]
            /\ waiting = [k \in Ids |-> FALSE]
            /\ thread = [k \in Ids |-> "none"]
            /\ quit = [k \in Ids |-> FALSE]

NewThread == /\ starter = "start" /\ current \in Ids
             /\ thread' = [thread EXCEPT ![current] = "constructing"]
             /\ starter' = "lock"
             /\ UNCHANGED <<_loops, _loop, holder, waiting, quit>>

Lock == /\ starter = "lock" /\ holder[current] = "nobody" /\ ~waiting[current]
        /\ holder' = [holder EXCEPT ![current] = "owner"]
        /\ starter' = "test"
        /\ UNCHANGED <<_loops, _loop, waiting, thread, quit>>

NeverWaits == /\ starter = "test"
              /\ holder' = [holder EXCEPT ![current] = "nobody"]
              /\ _loops' = Append(_loops, _loop[current])
              /\ starter' = "start"
              /\ UNCHANGED <<waiting, _loop, thread, quit>>

TestLoop == /\ starter = "test"
            /\ holder' = [holder EXCEPT ![current] = "nobody"]
            /\ IF _loop[current] = Null
               THEN /\ waiting' = [waiting EXCEPT ![current] = TRUE]
                    /\ starter' = "lock"
                    /\ UNCHANGED _loops
               ELSE /\ _loops' = Append(_loops, _loop[current])
                    /\ starter' = "start"
                    /\ UNCHANGED waiting
            /\ UNCHANGED <<_loop, thread, quit>>

\* The constructor of eventloop, then the lock.
Construct(k) == /\ thread[k] = "constructing" /\ holder[k] = "nobody"
                /\ thread' = [thread EXCEPT ![k] = "publishing"]
                /\ holder' = [holder EXCEPT ![k] = "thread"]
                /\ UNCHANGED <<starter, _loops, _loop, waiting, quit>>

PublishSilently(k) == /\ thread[k] = "publishing"
                      /\ _loop' = [_loop EXCEPT ![k] = k]
                      /\ holder' = [holder EXCEPT ![k] = "nobody"]
                      /\ thread' = [thread EXCEPT ![k] = "looping"]
                      /\ UNCHANGED <<starter, _loops, waiting, quit>>

Publish(k) == /\ thread[k] = "publishing"
              /\ _loop' = [_loop EXCEPT ![k] = k]
              /\ waiting' = [waiting EXCEPT ![k] = FALSE]
              /\ holder' = [holder EXCEPT ![k] = "nobody"]
              /\ thread' = [thread EXCEPT ![k] = "looping"]
              /\ UNCHANGED <<starter, _loops, quit>>

Leave(k) == /\ thread[k] = "looping" /\ quit[k]
            /\ thread' = [thread EXCEPT ![k] = "left"]
            /\ UNCHANGED <<starter, _loops, _loop, holder, waiting, quit>>

Return(k) == /\ thread[k] = "left"
             /\ _loop' = [_loop EXCEPT ![k] = Null]
             /\ thread' = [thread EXCEPT ![k] = "ended"]
             /\ UNCHANGED <<starter, _loops, holder, waiting, quit>>

\* ~eventloopThread of thread k, once the pool has been started; through a
\* pointer that is no loop the call of exit is undefined.
Destroy(k) == /\ starter = "start" /\ current \notin Ids
              /\ _loop[k] # Null
              /\ IF Alive(_loop[k])
                 THEN /\ quit' = [quit EXCEPT ![_loop[k]] = TRUE]
                      /\ starter' = "join"
                 ELSE starter' = "undefined" /\ UNCHANGED quit
              /\ UNCHANGED <<_loops, _loop, holder, waiting, thread>>

\* Threads destroyed before this one have been joined.
Join == /\ starter = "join"
        /\ \A k \in Ids : quit[k] => thread[k] = "ended"
        /\ starter' = "start"
        /\ UNCHANGED <<_loops, _loop, holder, waiting, thread, quit>>

Owner == NewThread \/ Lock \/ TestLoop \/ Join \/ \E k \in Ids : Destroy(k)
ThreadFunc(k) == Construct(k) \/ Publish(k) \/ Leave(k) \/ Return(k)
PoolNext == Owner \/ \E k \in Ids : ThreadFunc(k)

PoolFairness == WF_poolVars(Owner) /\ \A k \in Ids : WF_poolVars(ThreadFunc(k))
PoolSpec == PoolInit /\ [][PoolNext]_poolVars
FairPoolSpec == PoolSpec /\ PoolFairness

getLoop(fd) == IF _loops = <<>> THEN Null ELSE _loops[(fd % ThreadNums) + 1]

---------------------------------------------------------------------------
(* If the memory of an eventloopThread was zero, what start() puts into    *)
(* the pool is the loop of that very thread; every descriptor is then      *)
(* given a loop that exists, until its thread is destroyed.                *)
StartReturnsItsLoop ==
    Garbage \notin {_loop[k] : k \in Ids} /\ (\A k \in DOMAIN _loops : _loops[k] # Garbage) =>
        /\ \A k \in DOMAIN _loops : _loops[k] = k
        /\ Len(_loops) = ThreadNums =>
              \A fd \in 0..(2 * ThreadNums) :
                 ~quit[getLoop(fd)] => Alive(getLoop(fd))

(* The pool's start() and every destructor come to an end: no notify is    *)
(* lost between the test of _loop and the wait, and join follows exit.     *)
ThreadsEnd == <>(\/ starter = "undefined"
                 \/ starter = "start" /\ \A k \in Ids : thread[k] = "ended")
=============================================================================
