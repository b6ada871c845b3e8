--------------------------- MODULE HttpConnection ---------------------------
(***************************************************************************)
(* The life of the server's connections: HttpServer::AcceptCallback and    *)
(* onClose, HttpConnection, the dispatchers and loops that run them, and   *)
(* the keep-alive timers (http_server/HttpConnection.cpp, HttpServer.cpp,  *)
(* TimerHeap.cpp, main.cpp).                                               *)
(*                                                                         *)
(* The threads are the main thread, which accepts, and one thread per io   *)
(* loop.  SIGALRM is handled on the main thread, interrupting whatever it  *)
(* does: while tick runs, the accept callback does not move, and a mutex   *)
(* it holds stays held.                                                    *)
(*                                                                         *)
(* Abstracted: requests and responses to whether the connection is kept    *)
(* ("keep") or closed ("close") after them; time, so that any timer in the *)
(* heap may have expired; the order of the heap (TimerHeap has it), so     *)
(* that a timer postponed between topTimer and popTimer lets any other     *)
(* take its place at the top; the wakeup of a loop (EventLoop has it).     *)
(* After a destroyed connection or timer is used nothing is defined, and   *)
(* the model stops.                                                        *)
(***************************************************************************)
EXTENDS Naturals, Sequences

CONSTANTS
    Conns,       \* the connection objects
    Fds,         \* the descriptors accept may return
    ThreadNums,  \* THREAD_NUMS, the number of io loops
    Requests,    \* what clients ask for: a subset of {"keep", "close"}
    Nobody

ASSUME ConnectionAssumption ==
    /\ Fds \subseteq Nat
    /\ ThreadNums \in Nat \ {0}
    /\ Requests \subseteq {"keep", "close"}
    /\ Nobody \notin Conns

Loops == 0..(ThreadNums - 1)

VARIABLES
    phase,      \* of a connection: "new", "accepted", "queued", "open", "dead"
    fd,
    registered, \* the connections whose dispatcher is in the epoller of its loop
    input,      \* what read would return: "none", "data" or "eof"
    writing,    \* the connections with EPOLLOUT enabled
    reply,      \* what the request being answered asked for
    tim,        \* _tim: "none", "heap" or "popped" (index -2)
    heap,       \* the connections whose timer is in the heap
    heapLock,   \* "free", or "kept" by a handler that returned without unlock
    functors,   \* non_io_functors of each loop
    batch,      \* the functors a loop has swapped out
    at, conn,   \* where each loop thread is, and the connection it serves there
    active,     \* the dispatchers of this round still to be processed
    main,       \* the accept callback: "idle", "call" or "locked" (in runInLoop)
    accepting,  \* the connection it is about
    ticker, top,\* tick, and the timer it is about
    moved,      \* some timer was postponed since topTimer
    undefined   \* something destroyed was used

connVars == <<phase, fd, registered, input, writing, reply>>
heapVars == <<tim, heap, heapLock>>
loopVars == <<functors, batch, at, conn, active>>
mainVars == <<main, accepting, ticker, top, moved>>
vars == <<connVars, heapVars, loopVars, mainVars, undefined>>

Init ==
    /\ phase = [c \in Conns |-> "new"]
    /\ fd = [c \in Conns |-> 0]
    /\ registered = {} /\ writing = {}
    /\ input = [c \in Conns |-> "none"]
    /\ reply = [c \in Conns |-> "keep"]
    /\ tim = [c \in Conns |-> "none"]
    /\ heap = {} /\ heapLock = "free"
    /\ functors = [l \in Loops |-> <<>>] /\ batch = [l \in Loops |-> <<>>]
    /\ at = [l \in Loops |-> "epoll"]
    /\ conn = [l \in Loops |-> Nobody]
    /\ active = [l \in Loops |-> {}]
    /\ main = "idle" /\ accepting = Nobody
    /\ ticker = "idle" /\ top = Nobody /\ moved = FALSE
    /\ undefined = FALSE

LoopOf(c) == fd[c] % ThreadNums

Live(c) == phase[c] \in {"accepted", "queued", "open"}

(* The heap refers to a timer that was deleted; a sift loop may read it.   *)
Dangling == \E c \in heap : phase[c] = "dead"

-----------------------------------------------------------------------------
(* AcceptCallback, on the main thread                                      *)

FreeFds == {f \in Fds : \A c \in Conns : Live(c) => fd[c] # f}

Accept(c) ==
    /\ main = "idle" /\ ticker = "idle"
    /\ phase[c] = "new"
    /\ \E f \in FreeFds : /\ \A g \in FreeFds : f <= g
                          /\ fd' = [fd EXCEPT ![c] = f]
    /\ phase' = [phase EXCEPT ![c] = "accepted"]
    /\ main' = "call" /\ accepting' = c
    /\ UNCHANGED <<registered, input, writing, reply, heapVars, loopVars, ticker, top,
                   moved, undefined>>

AcceptLocksLoop ==
    /\ main = "call" /\ ticker = "idle"
    /\ main' = "locked"
    /\ UNCHANGED <<connVars, heapVars, loopVars, accepting, ticker, top, moved, undefined>>

LosesFunctor(l, f) == UNCHANGED functors

Enqueue(l, f) == functors' = [functors EXCEPT ![l] = Append(@, f)]

AcceptQueues ==
    /\ main = "locked" /\ ticker = "idle"
    /\ Enqueue(LoopOf(accepting), <<"establish", accepting>>)
    /\ phase' = [phase EXCEPT ![accepting] = "queued"]
    /\ main' = "idle" /\ accepting' = Nobody
    /\ UNCHANGED <<fd, registered, input, writing, reply, heapVars, batch, at, conn, active,
                   ticker, top, moved, undefined>>

(* The mutex of a loop is taken: the accept callback is inside runInLoop.  *)
LoopLocked(l) == main = "locked" /\ LoopOf(accepting) = l

-----------------------------------------------------------------------------
(* The clients                                                             *)

ClientSends(c) ==
    /\ Live(c) /\ input[c] = "none"
    /\ input' = [input EXCEPT ![c] = "data"]
    /\ UNCHANGED <<phase, fd, registered, writing, reply, heapVars, loopVars, mainVars,
                   undefined>>

ClientCloses(c) ==
    /\ Live(c) /\ input[c] = "none"
    /\ input' = [input EXCEPT ![c] = "eof"]
    /\ UNCHANGED <<phase, fd, registered, writing, reply, heapVars, loopVars, mainVars,
                   undefined>>

-----------------------------------------------------------------------------
(* One round of an io loop                                                 *)

Registered(l) == {c \in registered : LoopOf(c) = l}

(* epoll returns every connection with input, and of those with EPOLLOUT   *)
(* enabled the ones the client has made room in the socket for.            *)
Readable(l) == {c \in Registered(l) : input[c] # "none"}

Poll(l) ==
    /\ at[l] = "epoll"
    /\ \E W \in SUBSET (Registered(l) \cap writing) :
           /\ Readable(l) \cup W # {} \/ functors[l] # <<>>
           /\ active' = [active EXCEPT ![l] = Readable(l) \cup W]
    /\ at' = [at EXCEPT ![l] = "dispatch"]
    /\ UNCHANGED <<connVars, heapVars, functors, batch, conn, mainVars, undefined>>

(* handleClose and HttpServer::onClose: nobody but the list refers to the  *)
(* connection, so it is destroyed, its timer with it.                      *)
KeepsDispatcher(c) ==
    /\ phase' = [phase EXCEPT ![c] = "dead"]
    /\ UNCHANGED registered

HandleClose(c) ==
    /\ phase' = [phase EXCEPT ![c] = "dead"]
    /\ registered' = registered \ {c}

(* dispatcher::process calls a callback bound to the connection.           *)
Dispatched(l, c) == at[l] = "dispatch" /\ c \in active[l]

(* handleRead up to the unlock.                                            *)
HandleRead(l, c) ==
    /\ Dispatched(l, c)
    /\ input[c] # "none"
    /\ heapLock = "free"
    /\ active' = [active EXCEPT ![l] = @ \ {c}]
    /\ \/ /\ tim[c] = "popped"
          /\ heapLock' = "kept"
          /\ undefined' = (phase[c] = "dead")
          /\ UNCHANGED <<at, conn, moved>>
       \/ /\ tim[c] # "popped"
          /\ moved' = (moved \/ tim[c] = "heap")
          /\ undefined' \in {phase[c] = "dead",
                             phase[c] = "dead" \/ (tim[c] = "heap" /\ Dangling)}
          /\ at' = [at EXCEPT ![l] = "message"]
          /\ conn' = [conn EXCEPT ![l] = c]
          /\ UNCHANGED heapLock
    /\ UNCHANGED <<connVars, tim, heap, functors, batch, main, accepting, ticker, top>>

Returns(l) ==
    /\ at' = [at EXCEPT ![l] = "dispatch"]
    /\ conn' = [conn EXCEPT ![l] = Nobody]

(* The rest of a response is left in output_buffer.                        *)
ForgetsWriting(c) == UNCHANGED writing

EnableWriting(c) == writing' = writing \cup {c}

(* The whole response is written: close, or start the keep-alive timer.    *)
Answered(l, c, r) ==
    \/ /\ r = "close"
       /\ HandleClose(c)
       /\ Returns(l)
    \/ /\ r = "keep" /\ tim[c] # "none"
       /\ Returns(l)
       /\ UNCHANGED <<phase, registered>>
    \/ /\ r = "keep" /\ tim[c] = "none"
       /\ at' = [at EXCEPT ![l] = "push"]
       /\ conn' = [conn EXCEPT ![l] = c]
       /\ UNCHANGED <<phase, registered>>

(* The rest of handleRead: read returns 0 and nothing is done, or it       *)
(* returns data and onMessage waits for more of the request or answers it, *)
(* with one write or with part of the response left for handleWrite.       *)
ReadsEof(l) ==
    /\ at[l] = "message" /\ input[conn[l]] = "eof"
    /\ Returns(l)
    /\ UNCHANGED <<connVars, heapVars, functors, batch, active, mainVars, undefined>>

OnMessage(l) ==
    LET c == conn[l] IN
    /\ at[l] = "message" /\ input[c] = "data"
    /\ input' = [input EXCEPT ![c] = "none"]
    /\ \/ /\ Returns(l)
          /\ UNCHANGED <<phase, registered, writing, reply>>
       \/ \E r \in Requests :
             /\ reply' = [reply EXCEPT ![c] = r]
             /\ \/ /\ EnableWriting(c)
                   /\ Returns(l)
                   /\ UNCHANGED <<phase, registered>>
                \/ /\ Answered(l, c, r)
                   /\ UNCHANGED writing
    /\ UNCHANGED <<fd, heapVars, functors, batch, active, mainVars, undefined>>

(* handleWrite, with part of output_buffer left or with none.              *)
HandleWrite(l, c) ==
    /\ Dispatched(l, c)
    /\ c \in writing
    /\ active' = [active EXCEPT ![l] = @ \ {c}]
    /\ undefined' = (phase[c] = "dead")
    /\ UNCHANGED <<connVars, heapVars, functors, batch, at, conn, mainVars>>

HandleWriteAll(l, c) ==
    /\ Dispatched(l, c)
    /\ c \in writing
    /\ active' = [active EXCEPT ![l] = @ \ {c}]
    /\ writing' = writing \ {c}
    /\ Answered(l, c, reply[c])
    /\ undefined' = (phase[c] = "dead")
    /\ UNCHANGED <<fd, input, reply, heapVars, functors, batch, mainVars>>

PushTimer(l) ==
    /\ at[l] = "push"
    /\ heapLock = "free"
    /\ tim' = [tim EXCEPT ![conn[l]] = "heap"]
    /\ heap' = heap \cup {conn[l]}
    /\ undefined' \in {FALSE, Dangling}
    /\ Returns(l)
    /\ UNCHANGED <<connVars, heapLock, functors, batch, active, mainVars>>

SwapFunctors(l) ==
    /\ at[l] = "dispatch" /\ active[l] = {}
    /\ ~LoopLocked(l)
    /\ batch' = [batch EXCEPT ![l] = functors[l]]
    /\ functors' = [functors EXCEPT ![l] = <<>>]
    /\ at' = [at EXCEPT ![l] = "run"]
    /\ UNCHANGED <<connVars, heapVars, conn, active, mainVars, undefined>>

(* connecionEstablished, or a handleClose queued by the timer's callback.  *)
RunFunctor(l) ==
    /\ at[l] = "run" /\ batch[l] # <<>>
    /\ batch' = [batch EXCEPT ![l] = Tail(@)]
    /\ LET c == Head(batch[l])[2] IN
       \/ /\ Head(batch[l])[1] = "establish"
          /\ phase' = [phase EXCEPT ![c] = "open"]
          /\ registered' = registered \cup {c}
          /\ UNCHANGED undefined
       \/ /\ Head(batch[l])[1] = "close" /\ phase[c] # "dead"
          /\ HandleClose(c)
          /\ UNCHANGED undefined
       \/ /\ Head(batch[l])[1] = "close" /\ phase[c] = "dead"
          /\ undefined' = TRUE
          /\ UNCHANGED <<phase, registered>>
    /\ UNCHANGED <<fd, input, writing, reply, heapVars, functors, at, conn, active, mainVars>>

RoundEnds(l) ==
    /\ at[l] = "run" /\ batch[l] = <<>>
    /\ at' = [at EXCEPT ![l] = "epoll"]
    /\ UNCHANGED <<connVars, heapVars, functors, batch, conn, active, mainVars, undefined>>

-----------------------------------------------------------------------------
(* tick, in the handler of SIGALRM on the main thread                      *)

TickBegins ==
    /\ ticker = "idle"
    /\ ticker' = "top"
    /\ UNCHANGED <<connVars, heapVars, loopVars, main, accepting, top, moved, undefined>>

(* Nothing is in the heap, or nothing has expired.                         *)
TickEnds ==
    /\ ticker = "top" /\ heapLock = "free"
    /\ ticker' = "idle"
    /\ UNCHANGED <<connVars, heapVars, loopVars, main, accepting, top, moved, undefined>>

TickTop ==
    /\ ticker = "top" /\ heapLock = "free"
    /\ \E c \in heap : top' = c /\ undefined' = (phase[c] = "dead")
    /\ moved' = FALSE
    /\ ticker' = "cb"
    /\ UNCHANGED <<connVars, heapVars, loopVars, main, accepting>>

(* handleTimerCb: runInLoop(handleClose), waiting for the loop's mutex.    *)
TickCallback ==
    /\ ticker = "cb"
    /\ undefined' = (phase[top] = "dead")
    /\ ~LoopLocked(LoopOf(top))
    /\ Enqueue(LoopOf(top), <<"close", top>>)
    /\ ticker' = "pop"
    /\ UNCHANGED <<connVars, heapVars, batch, at, conn, active, main, accepting, top, moved>>

TickPop ==
    /\ ticker = "pop" /\ heapLock = "free"
    /\ \E c \in heap : /\ moved \/ c = top
                       /\ undefined' = (phase[c] = "dead")
                       /\ heap' = heap \ {c}
                       /\ tim' = [tim EXCEPT ![c] = "popped"]
    /\ ticker' = "top"
    /\ UNCHANGED <<connVars, heapLock, loopVars, main, accepting, top, moved>>

-----------------------------------------------------------------------------
MainStep == ~undefined /\ (AcceptLocksLoop \/ AcceptQueues)

TickStep == ~undefined /\ (TickBegins \/ TickEnds \/ TickTop \/ TickCallback \/ TickPop)

LoopStep(l) ==
    /\ ~undefined
    /\ \/ Poll(l) \/ ReadsEof(l) \/ OnMessage(l) \/ PushTimer(l)
       \/ SwapFunctors(l) \/ RunFunctor(l) \/ RoundEnds(l)
       \/ \E c \in Conns : HandleRead(l, c) \/ HandleWrite(l, c) \/ HandleWriteAll(l, c)

ClientStep == ~undefined /\ \E c \in Conns : Accept(c) \/ ClientSends(c) \/ ClientCloses(c)

Next ==
    \/ ClientStep
    \/ MainStep
    \/ TickStep
    \/ \E l \in Loops : LoopStep(l)

Spec == Init /\ [][Next]_vars

(* The loop threads and tick are scheduled.  The main thread gets to run   *)
(* between two alarms, which are a second apart.  A client that is owed    *)
(* the rest of a response reads it.                                        *)
Fairness ==
    /\ \A l \in Loops : WF_vars(LoopStep(l))
    /\ SF_vars(MainStep)
    /\ WF_vars(TickStep)
    /\ \A l \in Loops, c \in Conns :
           /\ SF_vars(~undefined /\ Poll(l) /\ c \in writing \cap active'[l])
           /\ SF_vars(~undefined /\ HandleWriteAll(l, c))

FairSpec == Spec /\ Fairness

-----------------------------------------------------------------------------
TypeOK ==
    /\ phase \in [Conns -> {"new", "accepted", "queued", "open", "dead"}]
    /\ fd \in [Conns -> Fds \cup {0}]
    /\ registered \subseteq Conns /\ writing \subseteq Conns
    /\ input \in [Conns -> {"none", "data", "eof"}]
    /\ reply \in [Conns -> {"keep", "close"}]
    /\ tim \in [Conns -> {"none", "heap", "popped"}]
    /\ heap \subseteq Conns /\ heapLock \in {"free", "kept"}
    /\ functors \in [Loops -> Seq({"establish", "close"} \X Conns)]
    /\ batch \in [Loops -> Seq({"establish", "close"} \X Conns)]
    /\ at \in [Loops -> {"epoll", "dispatch", "message", "push", "run"}]
    /\ conn \in [Loops -> Conns \cup {Nobody}]
    /\ \A l \in Loops : conn[l] = Nobody <=> at[l] \notin {"message", "push"}
    /\ active \in [Loops -> SUBSET Conns]
    /\ main \in {"idle", "call", "locked"} /\ accepting \in Conns \cup {Nobody}
    /\ ticker \in {"idle", "top", "cb", "pop"} /\ top \in Conns \cup {Nobody}
    /\ moved \in BOOLEAN /\ undefined \in BOOLEAN

(* The dispatchers a loop collected in epoll, and the connection whose     *)
(* handler it is in, belong to open connections of that loop, although     *)
(* they are raw pointers and handlers and functors close connections.      *)
NoEventAfterClose ==
    \A l \in Loops : \A c \in active[l] \cup ({conn[l]} \ {Nobody}) :
        phase[c] = "open" /\ LoopOf(c) = l

(* No connection has had a keep-alive timer yet.                           *)
NoTimers == \A c \in Conns : tim[c] = "none"

(* As long as no connection is kept alive nothing destroyed is used again. *)
NothingDestroyedUsed == NoTimers => ~undefined

(* As long as no connection is kept alive an accepted connection reaches   *)
(* its loop and is registered there.                                       *)
AcceptedIsEstablished ==
    \A c \in Conns : phase[c] = "accepted" ~> (phase[c] = "open" \/ ~NoTimers)

(* A request that asks for the connection to be closed is answered, in one *)
(* write or in many, and the connection closed.                            *)
ReplyThenClose ==
    \A c \in Conns : reply[c] = "close" ~> (phase[c] = "dead" \/ ~NoTimers)

Queued(c) == \E l \in Loops : \E i \in DOMAIN functors[l] : functors[l][i] = <<"close", c>>

(* "adds the call to the event loop for processing": a handleClose that    *)
(* the timer's callback gave to runInLoop is taken up by the loop.         *)
FunctorsAreProcessed ==
    []~undefined => \A c \in Conns : Queued(c) ~> ~Queued(c)
=============================================================================
