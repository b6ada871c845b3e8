------------------------ MODULE HttpConnectionProofs ------------------------
(***************************************************************************)
(* That the raw pointers an io loop holds, the dispatchers that epoll      *)
(* returned and the connection in whose handler it is, are open            *)
(* connections of that loop, and that without keep-alive timers nothing    *)
(* destroyed is used, for any number of connections, descriptors and       *)
(* loops.                                                                  *)
(*                                                                         *)
(* A connection is closed by a handler of its own loop, when epoll's list  *)
(* no longer has it, or by a functor of its own loop, when that list is    *)
(* empty.  So the invariant says of every functor whose loop it is queued  *)
(* at, and where a loop is when it still has dispatchers to process.       *)
(***************************************************************************)
EXTENDS HttpConnection, TLAPS

(* epoll's list is empty while the loop waits or runs functors, and the    *)
(* connection in whose handler the loop is has been taken off it.          *)
ListTaken == \A l \in Loops : /\ at[l] \in {"epoll", "run"} => active[l] = {}
                              /\ conn[l] \notin active[l]

(* Only open connections are in an epoller.                                *)
RegisteredOpen == \A c \in registered : phase[c] = "open"

(* The connection in AcceptCallback has not been given to its loop yet.    *)
AcceptedHere == main # "idle" => accepting \in Conns /\ phase[accepting] = "accepted"

(* The connection was open once and has had a keep-alive timer.            *)
Timed(c) == tim[c] # "none" /\ phase[c] \in {"open", "dead"}

(* The functor e may be queued at loop l.                                  *)
Belongs(e, l) == /\ phase[e[2]] \in {"queued", "open", "dead"}
                 /\ LoopOf(e[2]) = l
                 /\ e[1] = "close" => Timed(e[2])

(* What runInLoop was given for loop l and the loop has not run yet.       *)
Pending(l) == {functors[l][i] : i \in DOMAIN functors[l]} \cup
              {batch[l][i] : i \in DOMAIN batch[l]}

FunctorsBelong == \A l \in Loops : \A e \in Pending(l) : Belongs(e, l)

TimersTimed == /\ \A c \in heap : Timed(c)
               /\ ticker \in {"cb", "pop"} => top \in Conns /\ Timed(top)

IInv == /\ TypeOK /\ ListTaken /\ NoEventAfterClose /\ RegisteredOpen /\ AcceptedHere
        /\ FunctorsBelong /\ TimersTimed /\ NothingDestroyedUsed

-----------------------------------------------------------------------------
(* getLoop finds a loop of the pool for every descriptor.                  *)
LEMMA LoopOfIsLoop ==
    ASSUME TypeOK, NEW c \in Conns
    PROVE  LoopOf(c) \in Loops
<1>1. ThreadNums \in Nat \ {0}
  BY ConnectionAssumption
<1>2. \A n \in Fds \cup {0} : n \in Nat
  BY ConnectionAssumption
<1>3. fd[c] \in Nat
  BY <1>2 DEF TypeOK
<1> QED BY <1>1, <1>3 DEF LoopOf, Loops

Functor == {"establish", "close"} \X Conns

(* What is queued for a loop is functors.                                  *)
LEMMA PendingTypes == TypeOK => \A l \in Loops : Pending(l) \subseteq Functor
BY DEF TypeOK, Pending, Functor

(* The functors pending for a loop change only with its queue and its batch.*)
LEMMA PendingKept ==
    ASSUME UNCHANGED <<functors, batch>>, NEW l \in Loops
    PROVE  Pending(l)' = Pending(l)
BY DEF Pending

(* runInLoop: the functor is added to those of its loop.                   *)
LEMMA EnqueueAdds ==
    ASSUME TypeOK, NEW l \in Loops, NEW e \in Functor, Enqueue(l, e), UNCHANGED batch
    PROVE  /\ functors' \in [Loops -> Seq(Functor)]
           /\ \A m \in Loops : Pending(m)' \subseteq Pending(m) \cup {x \in {e} : m = l}
<1>1. functors \in [Loops -> Seq(Functor)]
  BY DEF TypeOK, Functor
<1>2. functors' = [functors EXCEPT ![l] = Append(functors[l], e)]
  BY DEF Enqueue
<1>3. functors' \in [Loops -> Seq(Functor)]
  BY <1>1, <1>2
<1> SUFFICES ASSUME NEW m \in Loops, NEW i \in DOMAIN functors'[m]
             PROVE  \/ \E j \in DOMAIN functors[m] : functors'[m][i] = functors[m][j]
                    \/ m = l /\ functors'[m][i] = e
  BY <1>3 DEF Pending
<1>4. CASE m = l
  <2>1. functors'[m] = Append(functors[m], e) /\ functors[m] \in Seq(Functor)
    BY <1>1, <1>2, <1>4
  <2> QED BY <1>4, <2>1
<1>5. CASE m # l
  BY <1>1, <1>2, <1>5
<1> QED BY <1>4, <1>5

(* The swap at the end of a round takes the functors as they are.          *)
LEMMA SwapMoves ==
    ASSUME TypeOK, NEW l \in Loops,
           batch' = [batch EXCEPT ![l] = functors[l]],
           functors' = [functors EXCEPT ![l] = <<>>]
    PROVE  \A m \in Loops : Pending(m)' \subseteq Pending(m)
<1> SUFFICES ASSUME NEW m \in Loops PROVE Pending(m)' \subseteq Pending(m)
  OBVIOUS
<1>1. CASE m = l
  <2>1. functors'[m] = <<>> /\ batch'[m] = functors[m]
    BY <1>1 DEF TypeOK
  <2> QED BY <2>1 DEF Pending
<1>2. CASE m # l
  <2>1. functors'[m] = functors[m] /\ batch'[m] = batch[m]
    BY <1>2 DEF TypeOK
  <2> QED BY <2>1 DEF Pending
<1> QED BY <1>1, <1>2

(* The functor a loop runs is one of those pending, and the others stay.   *)
LEMMA RunTakes ==
    ASSUME TypeOK, NEW l \in Loops, batch[l] # <<>>,
           batch' = [batch EXCEPT ![l] = Tail(@)], UNCHANGED functors
    PROVE  /\ Head(batch[l]) \in Functor \cap Pending(l)
           /\ batch' \in [Loops -> Seq(Functor)]
           /\ \A m \in Loops : Pending(m)' \subseteq Pending(m)
<1>1. batch \in [Loops -> Seq(Functor)]
  BY DEF TypeOK, Functor
<1>2. PICK b \in Seq(Functor) : b = batch[l] /\ b # <<>>
  BY <1>1
<1>3. 1 \in DOMAIN b /\ b[1] = Head(b) /\ Head(b) \in Functor /\ Tail(b) \in Seq(Functor)
  BY <1>2
<1>4. \A i \in DOMAIN Tail(b) : i + 1 \in DOMAIN b /\ Tail(b)[i] = b[i + 1]
  BY <1>2
<1>5. Head(batch[l]) \in Functor \cap Pending(l)
  BY <1>2, <1>3 DEF Pending
<1>6. batch' \in [Loops -> Seq(Functor)]
  BY <1>1, <1>2, <1>3
<1>7. ASSUME NEW m \in Loops PROVE Pending(m)' \subseteq Pending(m)
  <2>1. CASE m = l
    <3>1. functors'[m] = functors[m] /\ batch'[m] = Tail(b) /\ batch[m] = b
      BY <2>1, <1>1, <1>2
    <3> QED BY <3>1, <1>4 DEF Pending
  <2>2. CASE m # l
    <3>1. functors'[m] = functors[m] /\ batch'[m] = batch[m]
      BY <2>2, <1>1
    <3> QED BY <3>1, Zenon DEF Pending
  <2> QED BY <2>1, <2>2
<1> QED BY <1>5, <1>6, <1>7

(* A functor goes on belonging to its loop when its descriptor stays, and  *)
(* its connection is not unmade.                                           *)
LEMMA StillBelong ==
    ASSUME NEW l \in Loops, NEW e \in Functor, Belongs(e, l),
           \A c \in Conns : phase[c] # "new" => fd'[c] = fd[c],
           \A c \in Conns : \/ phase'[c] = phase[c] \/ phase[c] \in {"new", "accepted"}
                            \/ phase'[c] \in {"open", "dead"},
           \A c \in Conns : tim[c] # "none" => tim'[c] # "none"
    PROVE  Belongs(e, l)'
BY DEF Belongs, LoopOf, Timed, Functor

(* Before the server starts nothing is registered, timed or queued.        *)
LEMMA InitIInv == Init => IInv
<1> SUFFICES ASSUME Init PROVE IInv
  OBVIOUS
<1> USE DEF Init
<1>1. TypeOK
  <2>1. functors \in [Loops -> Seq({"establish", "close"} \X Conns)] /\ batch = functors
    OBVIOUS
  <2>2. \A l \in Loops : conn[l] = Nobody /\ at[l] = "epoll"
    OBVIOUS
  <2> QED BY <2>1, <2>2, Zenon DEF TypeOK
<1>2. FunctorsBelong
  BY DEF FunctorsBelong, Pending
<1>3. ListTaken /\ NoEventAfterClose
  BY DEF ListTaken, NoEventAfterClose
<1> QED BY <1>1, <1>2, <1>3 DEF IInv, RegisteredOpen, AcceptedHere, TimersTimed,
           NothingDestroyedUsed

-----------------------------------------------------------------------------
(* AcceptCallback and the clients: they touch no connection a loop has.    *)
LEMMA AcceptIInv ==
    ASSUME IInv, NEW c \in Conns, Accept(c)
    PROVE  IInv'
<1> USE DEF Accept, IInv, heapVars, loopVars
<1>1. TypeOK'
  BY DEF TypeOK, FreeFds
<1>2. /\ phase[c] = "new" /\ phase'[c] = "accepted"
      /\ \A d \in Conns \ {c} : phase'[d] = phase[d] /\ LoopOf(d)' = LoopOf(d)
  BY DEF TypeOK, LoopOf
<1>3. NoEventAfterClose'
  BY <1>2 DEF NoEventAfterClose, TypeOK
<1>4. RegisteredOpen' /\ AcceptedHere'
  BY <1>2 DEF RegisteredOpen, AcceptedHere, TypeOK
<1>5. FunctorsBelong'
  <2> SUFFICES ASSUME NEW m \in Loops, NEW e \in Pending(m)
               PROVE  Belongs(e, m)'
    BY PendingKept DEF FunctorsBelong
  <2> QED BY <1>2, PendingTypes DEF FunctorsBelong, Belongs, Timed, Functor
<1>6. TimersTimed'
  BY <1>2 DEF TimersTimed, Timed, TypeOK
<1> QED BY <1>1, <1>3, <1>4, <1>5, <1>6 DEF ListTaken, NothingDestroyedUsed, NoTimers

(* onConnection: the accepted connection is handed to its loop by a functor.*)
LEMMA AcceptQueuesIInv ==
    ASSUME IInv, AcceptQueues
    PROVE  IInv'
<1> USE DEF AcceptQueues, IInv, heapVars
<1>1. PICK c \in Conns : c = accepting /\ phase[c] = "accepted"
  BY DEF AcceptedHere
<1>2. LoopOf(c) \in Loops /\ Enqueue(LoopOf(c), <<"establish", c>>)
  BY <1>1, LoopOfIsLoop
<1>3. TypeOK'
  BY <1>1, <1>2, EnqueueAdds DEF TypeOK, Functor
<1>4. /\ phase'[c] = "queued"
      /\ \A d \in Conns \ {c} : phase'[d] = phase[d]
      /\ \A d \in Conns : LoopOf(d)' = LoopOf(d)
  BY <1>1 DEF TypeOK, LoopOf
<1>5. NoEventAfterClose'
  BY <1>1, <1>4 DEF NoEventAfterClose, TypeOK
<1>6. RegisteredOpen' /\ AcceptedHere'
  BY <1>1, <1>4 DEF RegisteredOpen, AcceptedHere, TypeOK
<1>7. FunctorsBelong'
  <2> SUFFICES ASSUME NEW m \in Loops, NEW e \in Pending(m)'
               PROVE  Belongs(e, m)'
    BY DEF FunctorsBelong
  <2>1. CASE e \in Pending(m)
    BY <2>1, <1>1, <1>4, PendingTypes, StillBelong DEF FunctorsBelong
  <2>2. CASE m = LoopOf(c) /\ e = <<"establish", c>>
    BY <2>2, <1>4 DEF Belongs
  <2> QED BY <2>1, <2>2, <1>2, EnqueueAdds DEF Functor
<1>8. TimersTimed'
  BY <1>1, <1>4 DEF TimersTimed, Timed, TypeOK
<1> QED BY <1>3, <1>5, <1>6, <1>7, <1>8 DEF ListTaken, NothingDestroyedUsed, NoTimers

(* Steps that move no connection, functor or timer.                        *)
LEMMA QuietIInv ==
    ASSUME IInv, TypeOK', UNCHANGED <<phase, fd, registered, tim, heap, functors, batch, at,
           conn, active, accepting, top, undefined>>,
           main' # "idle" => main # "idle",
           ticker' \in {"cb", "pop"} => ticker \in {"cb", "pop"}
    PROVE  IInv'
BY DEF IInv, ListTaken, NoEventAfterClose, RegisteredOpen, AcceptedHere, FunctorsBelong,
   Pending, Belongs, TimersTimed, Timed, NothingDestroyedUsed, NoTimers, LoopOf

(* Steps that touch neither a connection object nor the timer heap.        *)
LEMMA ClientAndTickIInv ==
    ASSUME IInv,
           \/ AcceptLocksLoop \/ TickBegins \/ TickEnds
           \/ \E c \in Conns : ClientSends(c) \/ ClientCloses(c)
    PROVE  IInv'
<1> USE DEF AcceptLocksLoop, TickBegins, TickEnds, ClientSends, ClientCloses,
            connVars, heapVars, loopVars, mainVars
<1>1. CASE AcceptLocksLoop \/ TickBegins \/ TickEnds
  <2>1. TypeOK'
    BY <1>1 DEF IInv, TypeOK
  <2> QED BY <1>1, <2>1, QuietIInv
<1>2. ASSUME NEW c \in Conns, ClientSends(c) \/ ClientCloses(c) PROVE IInv'
  <2>1. TypeOK'
    <3>1. input' \in [Conns -> {"none", "data", "eof"}]
      BY <1>2 DEF IInv, TypeOK
    <3> QED BY <1>2, <3>1 DEF IInv, TypeOK
  <2> QED BY <1>2, <2>1, QuietIInv
<1> QED BY <1>1, <1>2

-----------------------------------------------------------------------------
(* The rounds of a loop                                                    *)
LEMMA PollIInv ==
    ASSUME IInv, NEW l \in Loops, Poll(l)
    PROVE  IInv'
<1> USE DEF Poll, IInv, connVars, heapVars, mainVars
<1>1. PICK A \in SUBSET registered : /\ active' = [active EXCEPT ![l] = A]
                                     /\ \A c \in A : LoopOf(c) = l
  BY Zenon DEF Readable, Registered
<1>2. TypeOK'
  BY <1>1 DEF TypeOK
<1>3. conn[l] = Nobody
  BY Zenon DEF TypeOK
<1>4. ListTaken'
  BY <1>1, <1>3, ConnectionAssumption DEF ListTaken, TypeOK
<1>5. NoEventAfterClose'
  BY <1>1, <1>3 DEF NoEventAfterClose, RegisteredOpen, TypeOK, LoopOf
<1>6. FunctorsBelong'
  BY PendingKept, Zenon DEF FunctorsBelong, Belongs, Timed, LoopOf
<1> QED BY <1>2, <1>4, <1>5, <1>6, Zenon DEF RegisteredOpen, AcceptedHere, TimersTimed, Timed,
           NothingDestroyedUsed, NoTimers

(* What the handlers of connection c do, up to a return: the loop goes on  *)
(* with less of epoll's list, and if c is closed the loop is done with it. *)
Handles(l, c) ==
    /\ UNCHANGED <<fd, tim, heap, functors, batch, main, accepting, ticker, top>>
    /\ \A m \in Loops \ {l} : at'[m] = at[m] /\ conn'[m] = conn[m] /\ active'[m] = active[m]
    /\ active'[l] \subseteq active[l] \ {c}
    /\ at'[l] \in {"dispatch", "message", "push"}
    /\ \/ /\ conn'[l] \in {c, Nobody}
          /\ UNCHANGED <<phase, registered>>
       \/ /\ conn'[l] = Nobody
          /\ HandleClose(c)
    /\ NoTimers => ~undefined'

(* A handler serves an open connection of its own loop and may close it.   *)
LEMMA HandlesIInv ==
    ASSUME IInv, NEW l \in Loops, NEW c \in Conns, phase[c] = "open", LoopOf(c) = l,
           Handles(l, c), TypeOK'
    PROVE  IInv'
<1> USE DEF IInv
<1>1. /\ \A d \in Conns \ {c} : phase'[d] = phase[d]
      /\ phase'[c] = "open" \/ (phase'[c] = "dead" /\ conn'[l] = Nobody /\ c \notin registered')
      /\ registered' \subseteq registered
      /\ \A d \in Conns : LoopOf(d)' = LoopOf(d)
  BY DEF Handles, HandleClose, TypeOK, LoopOf
<1>0. /\ registered \subseteq Conns /\ heap \subseteq Conns
      /\ \A m \in Loops : active[m] \subseteq Conns /\ conn[m] \in Conns \cup {Nobody}
  BY DEF TypeOK
<1>2. ListTaken'
  <2> SUFFICES ASSUME NEW m \in Loops
               PROVE  /\ at'[m] \in {"epoll", "run"} => active'[m] = {}
                      /\ conn'[m] \notin active'[m]
    BY DEF ListTaken
  <2>1. Nobody \notin active[l]
    BY ConnectionAssumption DEF TypeOK
  <2> QED BY <2>1, Zenon DEF Handles, ListTaken
<1>3. NoEventAfterClose'
  <2> SUFFICES ASSUME NEW m \in Loops, NEW d \in active'[m] \cup ({conn'[m]} \ {Nobody})
               PROVE  phase'[d] = "open" /\ LoopOf(d)' = m
    BY DEF NoEventAfterClose
  <2>1. CASE m = l
    <3>1. CASE d = c
      <4>1. c \notin active'[l]
        BY DEF Handles
      <4>2. conn'[l] = c /\ conn'[l] # Nobody
        BY <2>1, <3>1, <4>1
      <4> QED BY <2>1, <3>1, <4>2, <1>1
    <3>2. CASE d # c
      <4>1. d \in active[l]
        BY <2>1, <3>2 DEF Handles
      <4>2. phase[d] = "open" /\ LoopOf(d) = l /\ d \in Conns
        BY <4>1, <1>0 DEF NoEventAfterClose
      <4> QED BY <2>1, <3>2, <4>2, <1>1
    <3> QED BY <3>1, <3>2
  <2>2. CASE m # l
    <3>1. d \in active[m] \cup ({conn[m]} \ {Nobody})
      BY <2>2 DEF Handles
    <3>2. phase[d] = "open" /\ LoopOf(d) = m /\ d \in Conns
      BY <3>1, <1>0 DEF NoEventAfterClose
    <3> QED BY <2>2, <3>2, <1>1
  <2> QED BY <2>1, <2>2
<1>4. RegisteredOpen' /\ AcceptedHere'
  <2>1. RegisteredOpen'
    BY <1>0, <1>1 DEF RegisteredOpen
  <2>2. UNCHANGED main /\ UNCHANGED accepting
    BY DEF Handles
  <2>3. AcceptedHere'
    BY <2>2, <1>1 DEF AcceptedHere
  <2> QED BY <2>1, <2>3
<1>5. FunctorsBelong'
  <2> SUFFICES ASSUME NEW m \in Loops, NEW e \in Pending(m)
               PROVE  Belongs(e, m)'
    BY PendingKept DEF FunctorsBelong, Handles
  <2> QED BY <1>1, PendingTypes, StillBelong, Zenon DEF FunctorsBelong, Handles
<1>6. TimersTimed'
  <2>1. UNCHANGED tim /\ UNCHANGED heap /\ UNCHANGED ticker /\ UNCHANGED top
    BY DEF Handles
  <2>2. ASSUME NEW d \in Conns, Timed(d) PROVE Timed(d)'
    BY <2>1, <2>2, <1>1 DEF Timed
  <2> QED BY <2>1, <2>2, <1>0 DEF TimersTimed
<1>7. NothingDestroyedUsed'
  BY DEF NothingDestroyedUsed, NoTimers, Handles
<1> QED BY <1>2, <1>3, <1>4, <1>5, <1>6, <1>7

(* A connection is closed, opened or left as it is.                        *)
LEMMA PhaseTypesKept ==
    ASSUME TypeOK, NEW c \in Conns,
           \/ UNCHANGED phase
           \/ phase' = [phase EXCEPT ![c] = "dead"]
           \/ phase' = [phase EXCEPT ![c] = "open"],
           registered' \subseteq registered \cup {c}, writing' \subseteq writing \cup {c}
    PROVE  /\ phase' \in [Conns -> {"new", "accepted", "queued", "open", "dead"}]
           /\ registered' \subseteq Conns /\ writing' \subseteq Conns
           /\ \A d \in Conns \ {c} : phase'[d] = phase[d]
<1>1. phase \in [Conns -> {"new", "accepted", "queued", "open", "dead"}]
  BY Zenon DEF TypeOK
<1>2. registered \subseteq Conns /\ writing \subseteq Conns
  BY Zenon DEF TypeOK
<1>3. registered' \subseteq Conns /\ writing' \subseteq Conns
  BY <1>2
<1> QED BY <1>1, <1>3

(* Where the loops are, the connections they serve and epoll's lists.      *)
LoopTypes == /\ at \in [Loops -> {"epoll", "dispatch", "message", "push", "run"}]
             /\ conn \in [Loops -> Conns \cup {Nobody}]
             /\ \A l \in Loops : conn[l] = Nobody <=> at[l] \notin {"message", "push"}
             /\ active \in [Loops -> SUBSET Conns]

(* A handler leaves its loop at one of its places, serving somebody or not.*)
LEMMA LoopTypesKept ==
    ASSUME TypeOK, NEW l \in Loops, NEW c,
           \/ /\ at[l] \in {"dispatch", "run"}
              /\ \/ at' = [at EXCEPT ![l] = "run"]
                 \/ at' = [at EXCEPT ![l] = "epoll"]
              /\ UNCHANGED conn
           \/ /\ at' = [at EXCEPT ![l] = "dispatch"]
              /\ conn' = [conn EXCEPT ![l] = Nobody]
           \/ /\ \/ at' = [at EXCEPT ![l] = "message"]
                 \/ at' = [at EXCEPT ![l] = "push"]
              /\ c \in Conns
              /\ conn' = [conn EXCEPT ![l] = c]
           \/ UNCHANGED <<at, conn>>,
           active' = [active EXCEPT ![l] = @ \ {c}] \/ UNCHANGED active
    PROVE  LoopTypes'
<1>1. /\ at \in [Loops -> {"epoll", "dispatch", "message", "push", "run"}]
      /\ conn \in [Loops -> Conns \cup {Nobody}]
      /\ active \in [Loops -> SUBSET Conns]
  BY DEF TypeOK
<1>2. at' \in [Loops -> {"epoll", "dispatch", "message", "push", "run"}]
  BY <1>1
<1>3. conn' \in [Loops -> Conns \cup {Nobody}]
  BY <1>1
<1>4. active' \in [Loops -> SUBSET Conns]
  BY <1>1
<1>5. \A m \in Loops : conn[m] = Nobody <=> at[m] \notin {"message", "push"}
  BY DEF TypeOK
<1>6. \A m \in Loops : conn'[m] = Nobody <=> at'[m] \notin {"message", "push"}
  BY <1>1, <1>5, ConnectionAssumption
<1> QED BY <1>2, <1>3, <1>4, <1>6 DEF LoopTypes

(* The connection in whose handler a loop is.                              *)
LEMMA Served ==
    ASSUME IInv, NEW l \in Loops, at[l] \in {"message", "push"}
    PROVE  /\ conn[l] \in Conns /\ phase[conn[l]] = "open" /\ LoopOf(conn[l]) = l
           /\ active[l] \subseteq active[l] \ {conn[l]}
BY DEF IInv, TypeOK, NoEventAfterClose, ListTaken

(* The dispatcher that is about to be processed.                           *)
LEMMA Listed ==
    ASSUME IInv, NEW l \in Loops, NEW c \in Conns, Dispatched(l, c)
    PROVE  phase[c] = "open" /\ LoopOf(c) = l /\ conn[l] = Nobody
BY Zenon DEF IInv, TypeOK, NoEventAfterClose, Dispatched

(* handleRead takes an open connection off the active list and serves it.  *)
LEMMA HandleReadIInv ==
    ASSUME IInv, NEW l \in Loops, NEW c \in Conns, HandleRead(l, c)
    PROVE  IInv'
<1>1. Dispatched(l, c) /\ phase[c] = "open" /\ LoopOf(c) = l /\ conn[l] = Nobody
  BY Listed DEF HandleRead
<1> USE DEF IInv, HandleRead, connVars
<1>2. TypeOK'
  <2>1. LoopTypes'
    BY LoopTypesKept, Zenon
  <2> QED BY <2>1, Zenon DEF TypeOK, LoopTypes
<1>3. NoTimers => ~undefined'
  BY <1>1, Zenon DEF NoTimers
<1>4. Handles(l, c)
  BY <1>1, <1>3 DEF Handles, TypeOK, Dispatched
<1> QED BY <1>1, <1>2, <1>4, HandlesIInv, Zenon

(* read() returns 0: handleClose on the connection being served.           *)
LEMMA ReadsEofIInv ==
    ASSUME IInv, NEW l \in Loops, ReadsEof(l)
    PROVE  IInv'
<1> USE DEF IInv, ReadsEof, Returns, connVars, heapVars, mainVars
<1>1. TypeOK'
  BY DEF TypeOK
<1>2. PICK c \in Conns : c = conn[l] /\ phase[c] = "open" /\ LoopOf(c) = l
                         /\ active[l] \subseteq active[l] \ {c}
  BY Served
<1>3. Handles(l, c)
  BY <1>2 DEF Handles, TypeOK, NothingDestroyedUsed
<1> QED BY <1>1, <1>2, <1>3, HandlesIInv, Zenon

(* onMessage: the answer is sent or queued, and may close the connection.  *)
LEMMA OnMessageIInv ==
    ASSUME IInv, NEW l \in Loops, OnMessage(l)
    PROVE  IInv'
<1>1. PICK c \in Conns : c = conn[l] /\ phase[c] = "open" /\ LoopOf(c) = l
                         /\ active[l] \subseteq active[l] \ {c}
  BY Served, Zenon DEF OnMessage
<1> USE DEF IInv, OnMessage, Returns, Answered, heapVars, mainVars
<1>2. TypeOK'
  <2>1. LoopTypes'
    BY <1>1, LoopTypesKept
  <2>2. /\ phase' \in [Conns -> {"new", "accepted", "queued", "open", "dead"}]
        /\ registered' \subseteq Conns /\ writing' \subseteq Conns
    <3>1. /\ phase' = phase \/ phase' = [phase EXCEPT ![c] = "dead"]
          /\ registered' \subseteq registered
          /\ writing' \subseteq writing \cup {c}
      BY <1>1 DEF HandleClose, EnableWriting
    <3> QED BY <3>1, PhaseTypesKept
  <2>3. /\ input' \in [Conns -> {"none", "data", "eof"}]
        /\ reply' \in [Conns -> {"keep", "close"}]
    BY <1>1, ConnectionAssumption DEF TypeOK
  <2> QED BY <2>1, <2>2, <2>3 DEF TypeOK, LoopTypes
<1>3. Handles(l, c)
  BY <1>1 DEF Handles, TypeOK, NothingDestroyedUsed
<1> QED BY <1>1, <1>2, <1>3, HandlesIInv

(* handleWrite sends the rest, in part or whole; whole, it may close.      *)
LEMMA HandleWriteIInv ==
    ASSUME IInv, NEW l \in Loops, NEW c \in Conns, HandleWrite(l, c) \/ HandleWriteAll(l, c)
    PROVE  IInv'
<1>1. Dispatched(l, c) /\ phase[c] = "open" /\ LoopOf(c) = l /\ conn[l] = Nobody
  BY Listed, Zenon DEF HandleWrite, HandleWriteAll
<1> USE DEF IInv, HandleWrite, HandleWriteAll, Returns, Answered, connVars, heapVars, mainVars
<1>2. TypeOK'
  <2>1. LoopTypes'
    BY LoopTypesKept, Zenon
  <2>2. /\ phase' \in [Conns -> {"new", "accepted", "queued", "open", "dead"}]
        /\ registered' \subseteq Conns /\ writing' \subseteq Conns
    <3>1. /\ phase' = phase \/ phase' = [phase EXCEPT ![c] = "dead"]
          /\ registered' \subseteq registered /\ writing' \subseteq writing
      BY DEF HandleClose
    <3> QED BY <3>1, PhaseTypesKept, Zenon
  <2>3. /\ undefined' \in BOOLEAN
        /\ UNCHANGED <<fd, input, reply, tim, heap, heapLock, functors, batch, main, accepting,
                       ticker, top, moved>>
    BY Zenon
  <2> QED BY <2>1, <2>2, <2>3 DEF TypeOK, LoopTypes
<1>3. Handles(l, c)
  <2>1. /\ \A m \in Loops \ {l} : at'[m] = at[m] /\ conn'[m] = conn[m] /\ active'[m] = active[m]
        /\ active'[l] \subseteq active[l] \ {c}
        /\ at'[l] \in {"dispatch", "message", "push"}
    BY <1>1 DEF TypeOK, Dispatched
  <2>2. \/ conn'[l] \in {c, Nobody} /\ UNCHANGED <<phase, registered>>
        \/ conn'[l] = Nobody /\ HandleClose(c)
    BY <1>1, Zenon DEF TypeOK
  <2> QED BY <1>1, <2>1, <2>2, Zenon DEF Handles
<1> QED BY <1>1, <1>2, <1>3, HandlesIInv, Zenon

(* timerHeap::pushTimer, called by an open connection.                     *)
LEMMA PushTimerIInv ==
    ASSUME IInv, NEW l \in Loops, PushTimer(l)
    PROVE  IInv'
<1>1. PICK c \in Conns : c = conn[l] /\ phase[c] = "open" /\ LoopOf(c) = l
                         /\ active[l] \subseteq active[l] \ {c}
  BY Served, Zenon DEF PushTimer
<1> USE DEF IInv, PushTimer, Returns, connVars, mainVars
<1>2. TypeOK'
  <2>1. LoopTypes'
    BY <1>1, LoopTypesKept, Zenon
  <2>2. tim' \in [Conns -> {"none", "heap", "popped"}] /\ heap' \subseteq Conns
    BY <1>1 DEF TypeOK
  <2>3. undefined' \in BOOLEAN
    BY Zenon DEF Dangling
  <2> QED BY <2>1, <2>2, <2>3 DEF TypeOK, LoopTypes
<1>3. ListTaken'
  BY ConnectionAssumption DEF ListTaken, TypeOK
<1>4. NoEventAfterClose'
  BY DEF NoEventAfterClose, TypeOK, LoopOf
<1>5. tim'[c] = "heap" /\ \A d \in Conns \ {c} : tim'[d] = tim[d]
  BY <1>1 DEF TypeOK
<1>6. FunctorsBelong'
  <2> SUFFICES ASSUME NEW m \in Loops, NEW e \in Pending(m)
               PROVE  Belongs(e, m)'
    BY PendingKept DEF FunctorsBelong
  <2> QED BY <1>5, PendingTypes, StillBelong, Zenon DEF FunctorsBelong
<1>7. TimersTimed'
  BY <1>1, <1>5 DEF TimersTimed, Timed, TypeOK
<1>8. NothingDestroyedUsed'
  BY <1>5 DEF NothingDestroyedUsed, NoTimers
<1> QED BY <1>2, <1>3, <1>4, <1>6, <1>7, <1>8 DEF RegisteredOpen, AcceptedHere

(* The loop takes its functors and comes back from them.                   *)
LEMMA RoundIInv ==
    ASSUME IInv, NEW l \in Loops, SwapFunctors(l) \/ RoundEnds(l)
    PROVE  IInv'
<1> USE DEF IInv, SwapFunctors, RoundEnds, connVars, heapVars, mainVars
<1>1. TypeOK'
  <2>1. /\ functors' \in [Loops -> Seq({"establish", "close"} \X Conns)]
        /\ batch' \in [Loops -> Seq({"establish", "close"} \X Conns)]
    <3>0. <<>> \in Seq({"establish", "close"} \X Conns)
      OBVIOUS
    <3>1. PICK S : S = Seq({"establish", "close"} \X Conns) /\ <<>> \in S
      BY <3>0, Zenon
    <3>2. functors \in [Loops -> S] /\ batch \in [Loops -> S]
      BY <3>1 DEF TypeOK
    <3>3. functors' \in [Loops -> S] /\ batch' \in [Loops -> S]
      BY <3>1, <3>2, Zenon
    <3> QED BY <3>1, <3>3
  <2>2. LoopTypes'
    BY LoopTypesKept, Zenon
  <2>3. UNCHANGED <<phase, fd, registered, writing, input, reply, tim, heap, heapLock, main,
                    accepting, ticker, top, moved, undefined>>
    OBVIOUS
  <2> HIDE DEF SwapFunctors, RoundEnds
  <2> QED BY <2>1, <2>2, <2>3 DEF TypeOK, LoopTypes
<1>2. ListTaken'
  BY Zenon DEF ListTaken, TypeOK
<1>3. \A m \in Loops : Pending(m)' \subseteq Pending(m)
  BY SwapMoves, PendingKept, Zenon
<1>4. FunctorsBelong'
  <2> SUFFICES ASSUME NEW m \in Loops, NEW e \in Pending(m)
               PROVE  Belongs(e, m)'
    BY <1>3, Zenon DEF FunctorsBelong
  <2> QED BY PendingTypes, StillBelong, Zenon DEF FunctorsBelong
<1>5. UNCHANGED <<phase, fd, registered, tim, heap, main, accepting, ticker, top, undefined,
                  active, conn>>
  BY Zenon
<1> HIDE DEF SwapFunctors, RoundEnds
<1>6. NoEventAfterClose' /\ RegisteredOpen' /\ AcceptedHere'
  BY <1>5, Zenon DEF NoEventAfterClose, RegisteredOpen, AcceptedHere, LoopOf
<1>7. TimersTimed' /\ NothingDestroyedUsed'
  BY <1>5 DEF TimersTimed, Timed, NothingDestroyedUsed, NoTimers
<1> QED BY <1>1, <1>2, <1>4, <1>6, <1>7

(* connecionEstablished, and the handleClose of an expired timer.          *)
LEMMA RunFunctorIInv ==
    ASSUME IInv, NEW l \in Loops, RunFunctor(l)
    PROVE  IInv'
<1> USE DEF IInv, RunFunctor, heapVars, mainVars
<1>1. PICK f \in Functor : f = Head(batch[l]) /\ f \in Pending(l)
  BY RunTakes, Zenon
<1>2. PICK c \in Conns : c = f[2]
  BY DEF Functor
<1>3. /\ LoopOf(c) = l /\ phase[c] \in {"queued", "open", "dead"}
      /\ f[1] = "close" => Timed(c)
  BY <1>1, <1>2 DEF FunctorsBelong, Belongs
<1>3a. \/ /\ phase' = [phase EXCEPT ![c] = "open"] /\ registered' = registered \cup {c}
         /\ UNCHANGED undefined
      \/ /\ f[1] = "close"
         /\ phase' = [phase EXCEPT ![c] = "dead"] /\ registered' = registered \ {c}
         /\ UNCHANGED undefined
      \/ /\ f[1] = "close" /\ phase[c] = "dead"
         /\ UNCHANGED <<phase, registered>> /\ undefined' = TRUE
  BY <1>1, <1>2, Zenon DEF HandleClose
<1>4. /\ \A d \in Conns \ {c} : phase'[d] = phase[d] /\ (d \in registered' <=> d \in registered)
      /\ \/ phase'[c] = "open" /\ UNCHANGED undefined
         \/ phase'[c] = "dead" /\ c \notin registered' /\ UNCHANGED undefined
         \/ undefined' /\ f[1] = "close" /\ phase'[c] = phase[c] /\ phase[c] = "dead"
            /\ UNCHANGED registered
  <2>1. phase \in [Conns -> {"new", "accepted", "queued", "open", "dead"}]
    BY DEF TypeOK
  <2> HIDE DEF RunFunctor
  <2> QED BY <1>3a, <2>1
<1>5. TypeOK'
  <2>1. batch' \in [Loops -> Seq({"establish", "close"} \X Conns)]
    BY RunTakes, Zenon DEF Functor
  <2>2. /\ phase' \in [Conns -> {"new", "accepted", "queued", "open", "dead"}]
        /\ registered' \subseteq Conns /\ undefined' \in BOOLEAN
    <3> HIDE DEF RunFunctor
    <3> QED BY <1>3a, <1>2, Zenon DEF TypeOK
  <2> QED BY <2>1, <2>2, Zenon DEF TypeOK
<1>6. active[l] = {} /\ conn[l] = Nobody
  BY Zenon DEF ListTaken, TypeOK
<1>7. NoEventAfterClose'
  <2> SUFFICES ASSUME NEW m \in Loops, NEW d \in active[m] \cup ({conn[m]} \ {Nobody})
               PROVE  phase'[d] = "open" /\ LoopOf(d)' = m
    BY Zenon DEF NoEventAfterClose
  <2>1. d \in Conns /\ phase[d] = "open" /\ LoopOf(d) = m /\ m # l
    <3>1. d \in Conns /\ m # l
      <4>1. active[m] \subseteq Conns /\ conn[m] \in Conns \cup {Nobody}
        BY Zenon DEF TypeOK
      <4> QED BY <1>6, <4>1
    <3> QED BY <3>1, Zenon DEF NoEventAfterClose
  <2> QED BY <2>1, <1>3, <1>4, Zenon DEF LoopOf
<1>8. RegisteredOpen'
  <2>1. registered \subseteq Conns /\ registered' \subseteq Conns
    BY <1>5, Zenon DEF TypeOK
  <2> QED BY <1>4, <2>1, Zenon DEF RegisteredOpen
<1>9. AcceptedHere'
  BY <1>3, <1>4, Zenon DEF AcceptedHere
<1>10. FunctorsBelong'
  <2>1. \A m \in Loops : Pending(m)' \subseteq Pending(m)
    BY RunTakes, Zenon
  <2> SUFFICES ASSUME NEW m \in Loops, NEW e \in Pending(m)
               PROVE  Belongs(e, m)'
    BY <2>1 DEF FunctorsBelong
  <2> QED BY <1>4, PendingTypes, StillBelong, Zenon DEF FunctorsBelong
<1>11. TimersTimed'
  BY <1>4, Zenon DEF TimersTimed, Timed, TypeOK
<1>12. NothingDestroyedUsed'
  BY <1>3, <1>4, Zenon DEF NothingDestroyedUsed, NoTimers, Timed
<1> QED BY <1>5, <1>7, <1>8, <1>9, <1>10, <1>11, <1>12 DEF ListTaken

-----------------------------------------------------------------------------
(* tick                                                                    *)
LEMMA TickTopIInv ==
    ASSUME IInv, TickTop
    PROVE  IInv'
<1> USE DEF IInv, TickTop, connVars, heapVars, loopVars
<1>1. TypeOK'
  BY Zenon DEF TypeOK
<1>2. TimersTimed' /\ NothingDestroyedUsed'
  BY Zenon DEF TimersTimed, Timed, TypeOK, NothingDestroyedUsed, NoTimers
<1>3. FunctorsBelong'
  BY PendingKept DEF FunctorsBelong, Belongs, Timed, LoopOf
<1> QED BY <1>1, <1>2, <1>3, Zenon DEF ListTaken, NoEventAfterClose, RegisteredOpen, AcceptedHere,
           LoopOf

(* tick: the callback of the top timer queues a close for its loop.        *)
LEMMA TickCallbackIInv ==
    ASSUME IInv, TickCallback
    PROVE  IInv'
<1> USE DEF IInv, TickCallback, connVars, heapVars
<1>1. PICK c \in Conns : c = top /\ Timed(c)
  BY Zenon DEF TimersTimed
<1>2. LoopOf(c) \in Loops /\ Enqueue(LoopOf(c), <<"close", c>>)
  BY <1>1, LoopOfIsLoop
<1>3. TypeOK'
  BY <1>1, <1>2, EnqueueAdds DEF TypeOK, Functor
<1>4. FunctorsBelong'
  <2> SUFFICES ASSUME NEW m \in Loops, NEW e \in Pending(m)'
               PROVE  Belongs(e, m)'
    BY DEF FunctorsBelong
  <2>1. CASE e \in Pending(m)
    BY <2>1, PendingTypes, StillBelong, Zenon DEF FunctorsBelong
  <2>2. CASE m = LoopOf(c) /\ e = <<"close", c>>
    BY <2>2, <1>1 DEF Belongs, Timed, LoopOf
  <2> QED BY <2>1, <2>2, <1>2, EnqueueAdds DEF Functor
<1>5. TimersTimed' /\ NothingDestroyedUsed'
  BY <1>1, Zenon DEF TimersTimed, Timed, NothingDestroyedUsed, NoTimers
<1> QED BY <1>3, <1>4, <1>5 DEF ListTaken, NoEventAfterClose, RegisteredOpen, AcceptedHere,
           LoopOf

(* tick: the timer is popped off the heap after its callback.              *)
LEMMA TickPopIInv ==
    ASSUME IInv, TickPop
    PROVE  IInv'
<1> USE DEF IInv, TickPop, connVars, loopVars
<1>1. PICK c \in heap : /\ undefined' = (phase[c] = "dead")
                        /\ heap' = heap \ {c}
                        /\ tim' = [tim EXCEPT ![c] = "popped"]
  BY Zenon
<1>2. TypeOK'
  BY <1>1, Zenon DEF TypeOK
<1>3. c \in Conns /\ tim'[c] = "popped" /\ \A d \in Conns \ {c} : tim'[d] = tim[d]
  BY <1>1 DEF TypeOK
<1>4. FunctorsBelong'
  <2> SUFFICES ASSUME NEW m \in Loops, NEW e \in Pending(m)
               PROVE  Belongs(e, m)'
    BY PendingKept DEF FunctorsBelong
  <2> QED BY <1>3, PendingTypes, StillBelong, Zenon DEF FunctorsBelong
<1>5. TimersTimed' /\ NothingDestroyedUsed'
  <2>1. TimersTimed'
    BY <1>1, <1>3 DEF TimersTimed, Timed, TypeOK
  <2>2. NothingDestroyedUsed'
    BY <1>3, Zenon DEF NothingDestroyedUsed, NoTimers
  <2> QED BY <2>1, <2>2
<1> QED BY <1>2, <1>4, <1>5, Zenon DEF ListTaken, NoEventAfterClose, RegisteredOpen, AcceptedHere,
           LoopOf

-----------------------------------------------------------------------------
(* Every step preserves the inductive invariant.                           *)
LEMMA NextIInv == IInv /\ [Next]_vars => IInv'
<1> SUFFICES ASSUME IInv, [Next]_vars PROVE IInv'
  OBVIOUS
<1>1. CASE UNCHANGED vars
  <2>1. TypeOK'
    BY <1>1 DEF vars, connVars, heapVars, loopVars, mainVars, IInv, TypeOK
  <2> QED BY <1>1, <2>1, QuietIInv DEF vars, connVars, heapVars, loopVars, mainVars
<1>2. CASE ClientStep
  BY <1>2, AcceptIInv, ClientAndTickIInv DEF ClientStep
<1>3. CASE MainStep
  BY <1>3, ClientAndTickIInv, AcceptQueuesIInv DEF MainStep
<1>4. CASE TickStep
  BY <1>4, ClientAndTickIInv, TickTopIInv, TickCallbackIInv, TickPopIInv DEF TickStep
<1>5. ASSUME NEW l \in Loops, LoopStep(l) PROVE IInv'
  BY <1>5, PollIInv, ReadsEofIInv, OnMessageIInv, PushTimerIInv, RoundIInv, RunFunctorIInv,
     HandleReadIInv, HandleWriteIInv DEF LoopStep
<1> QED BY <1>1, <1>2, <1>3, <1>4, <1>5 DEF Next

(* The invariant of the server's connections: lists, handlers, functors    *)
(* and timers refer to connections of the right loop in the right phase.   *)
THEOREM ConnectionInvariant == Spec => []IInv
BY InitIInv, NextIInv, PTL DEF Spec

(* For any number of connections and loops, a dispatcher that epoll        *)
(* returned and the connection in whose handler a loop is belong to open   *)
(* connections of that loop (dispatcher::process, HttpServer::onClose).    *)
THEOREM ConnNoEventAfterClose == Spec => []NoEventAfterClose
BY ConnectionInvariant, PTL DEF IInv

(* Until a first connection is kept alive nothing destroyed is used: the   *)
(* keep-alive timers are the only way to a connection that is gone         *)
(* (handleTimerCb, timerHeap).                                             *)
THEOREM ConnNothingDestroyedUsed == Spec => []NothingDestroyedUsed
BY ConnectionInvariant, PTL DEF IInv
=============================================================================
