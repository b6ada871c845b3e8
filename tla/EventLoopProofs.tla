-------------------------- MODULE EventLoopProofs --------------------------
(***************************************************************************)
(* Proofs about EventLoop for any number of calling threads, functors and  *)
(* descriptors and any initial size of the events vector, and about the    *)
(* Buffer its connections read into, for any size of its vector.           *)
(***************************************************************************)
EXTENDS EventLoop, Buffer, WellFoundedInduction, TLAPS

(* Pushing an element at the back of a queue (std::queue::push,            *)
(* vector::push_back) adds it to the queue's elements and keeps the order  *)
(* of the others.                                                          *)
LEMMA AppendFacts ==
    ASSUME NEW S, NEW s \in Seq(S), NEW e \in S
    PROVE  /\ Append(s, e) \in Seq(S)
           /\ Append(s, e) # <<>>
           /\ Range(Append(s, e)) = Range(s) \cup {e}
           /\ IsInjective(s) /\ e \notin Range(s) => IsInjective(Append(s, e))
  <1>1. Append(s, e) \in Seq(S) /\ Len(Append(s, e)) = Len(s) + 1
    OBVIOUS
  <1>2. \A i \in 1..Len(s) : Append(s, e)[i] = s[i]
    OBVIOUS
  <1>3. Append(s, e)[Len(s) + 1] = e
    OBVIOUS
  <1>4. DOMAIN Append(s, e) = 1..Len(s) + 1 /\ DOMAIN s = 1..Len(s) /\ Len(s) \in Nat
    BY <1>1
  <1>5. 1..Len(s) + 1 = (1..Len(s)) \cup {Len(s) + 1}
    BY <1>4
  <1>6. Range(Append(s, e)) = Range(s) \cup {e}
    BY <1>2, <1>3, <1>4, <1>5 DEF Range
  <1>7. ASSUME IsInjective(s), e \notin Range(s)
        PROVE  IsInjective(Append(s, e))
    BY <1>2, <1>3, <1>4, <1>5, <1>7 DEF Range, IsInjective
  <1> QED
    BY <1>1, <1>6, <1>7

(* Taking the front of a queue without repetitions (front and pop) removes *)
(* exactly that element.                                                   *)
LEMMA TailFacts ==
    ASSUME NEW S, NEW s \in Seq(S), s # <<>>
    PROVE  /\ Head(s) \in S /\ Head(s) \in Range(s)
           /\ Tail(s) \in Seq(S)
           /\ Range(s) = {Head(s)} \cup Range(Tail(s))
           /\ IsInjective(s) => /\ IsInjective(Tail(s))
                                /\ Head(s) \notin Range(Tail(s))
  <1>1. Len(s) \in Nat \ {0} /\ DOMAIN s = 1..Len(s)
    OBVIOUS
  <1>2. Head(s) = s[1] /\ s[1] \in S
    OBVIOUS
  <1>3. Tail(s) \in Seq(S) /\ Len(Tail(s)) = Len(s) - 1
    OBVIOUS
  <1>4. \A i \in 1..Len(s) - 1 : Tail(s)[i] = s[i + 1]
    OBVIOUS
  <1>5. DOMAIN Tail(s) = 1..Len(s) - 1
    BY <1>3
  <1>6. \A i \in 1..Len(s) : i = 1 \/ i - 1 \in 1..Len(s) - 1
    BY <1>1
  <1>7. Range(s) = {Head(s)} \cup Range(Tail(s))
    <2>1. ASSUME NEW x \in Range(s) PROVE x \in {Head(s)} \cup Range(Tail(s))
      <3>1. PICK i \in 1..Len(s) : x = s[i]
        BY <1>1 DEF Range
      <3>2. CASE i = 1
        BY <3>1, <3>2, <1>2
      <3>3. CASE i - 1 \in 1..Len(s) - 1
        <4>1. Tail(s)[i - 1] = s[i]
          BY <3>3, <1>4
        <4> QED
          BY <4>1, <3>1, <3>3, <1>5, Zenon DEF Range
      <3> QED BY <3>2, <3>3, <1>6
    <2>2. ASSUME NEW x \in {Head(s)} \cup Range(Tail(s)) PROVE x \in Range(s)
      BY <1>1, <1>2, <1>4, <1>5 DEF Range
    <2> QED BY <2>1, <2>2
  <1>8. ASSUME IsInjective(s)
        PROVE  IsInjective(Tail(s)) /\ Head(s) \notin Range(Tail(s))
    BY <1>1, <1>2, <1>4, <1>5, <1>8 DEF IsInjective, Range
  <1> QED
    BY <1>2, <1>3, <1>7, <1>8

(* A queue with nothing in it has no elements.                             *)
LEMMA EmptyFacts ==
    /\ Range(<<>>) = {}
    /\ IsInjective(<<>>)
    /\ \A S : <<>> \in Seq(S)
  BY DEF Range, IsInjective

(* Two queues emptied one after the other (the batch being run and the     *)
(* vector being filled) behave as their concatenation.                     *)
LEMMA ConcatFacts ==
    ASSUME NEW S, NEW s \in Seq(S), NEW u \in Seq(S)
    PROVE  /\ s \o u \in Seq(S)
           /\ s = <<>> => s \o u = u
           /\ u = <<>> => s \o u = s
           /\ \A e \in S : s \o Append(u, e) = Append(s \o u, e)
           /\ s # <<>> => /\ s \o u # <<>>
                          /\ Head(s \o u) = Head(s)
                          /\ Tail(s \o u) = Tail(s) \o u
  <1>1. s \o u \in Seq(S) /\ Len(s \o u) = Len(s) + Len(u)
    OBVIOUS
  <1>2. /\ \A i \in 1..Len(s) : (s \o u)[i] = s[i]
        /\ \A i \in Len(s) + 1..Len(s) + Len(u) : (s \o u)[i] = u[i - Len(s)]
    OBVIOUS
  <1>3. s = <<>> => s \o u = u
    OBVIOUS
  <1>4. u = <<>> => s \o u = s
    OBVIOUS
  <1>5. ASSUME NEW e \in S PROVE s \o Append(u, e) = Append(s \o u, e)
    OBVIOUS
  <1>6. ASSUME s # <<>>
        PROVE  s \o u # <<>> /\ Head(s \o u) = Head(s) /\ Tail(s \o u) = Tail(s) \o u
    <2>1. s \o u # <<>> /\ Head(s \o u) = Head(s)
      BY <1>6, <1>1, <1>2
    <2>2. Tail(s \o u) = Tail(s) \o u
      BY <1>6, <1>1, <1>2
    <2> QED BY <2>1, <2>2
  <1> QED
    BY <1>1, <1>3, <1>4, <1>5, <1>6

-----------------------------------------------------------------------------

Waiting == temp \o non_io_functors

InCallback == {callback} \cap Tasks

WriterPending == \E c \in Callers : caller[c] = "write"

(* Between the read of the eventfd and the swap, a functor may be in the   *)
(* vector with nobody left to write; everywhere else a functor that is     *)
(* waiting is announced.                                                   *)
Announced ==
    /\ pc # "dispatch" /\ non_io_functors # <<>> => signalled \/ WriterPending
    /\ pc = "epoll" /\ quit => signalled \/ WriterPending

(* What the loop thread holds in each part of its round.                   *)
Phases ==
    /\ pc # "run" => temp = <<>>
    /\ callback \in Tasks => pc = "run"
    /\ callback \in Fds => pc = "dispatch"
    /\ pc # "dispatch" => active = {}

(* The inductive invariant.                                                *)
IInv ==
    /\ TypeOK
    /\ Announced
    /\ Phases
    /\ FunctorsInOnePlace

-----------------------------------------------------------------------------
(* A loop that was just constructed has nothing to run.                    *)
LEMMA InitIInv == Init => IInv
  <1> SUFFICES ASSUME Init PROVE IInv
    OBVIOUS
  <1> USE LoopAssumption, EmptyFacts DEF Init
  <1>1. TypeOK
    BY Zenon DEF TypeOK, LoopPC
  <1>2. Announced /\ Phases
    BY DEF Announced, Phases
  <1>3. temp \o non_io_functors = <<>>
    BY ConcatFacts
  <1>4. FunctorsInOnePlace
    BY <1>3 DEF FunctorsInOnePlace
  <1> QED
    BY <1>1, <1>2, <1>4 DEF IInv

(* runInLoop on another thread: the functor joins the back of the vector   *)
(* and its wakeup is still to be written.                                  *)
LEMMA RunInLoopIInv ==
    ASSUME IInv, NEW c \in Callers, NEW t \in Tasks, RunInLoop(c, t)
    PROVE  IInv'
  <1> USE LoopAssumption DEF IInv, RunInLoop, WillWrite, loopVars
  <1>1. non_io_functors' \in Seq(Tasks)
    BY AppendFacts DEF TypeOK
  <1>2. TypeOK'
    BY <1>1 DEF TypeOK
  <1>3. WriterPending'
    BY DEF WriterPending, TypeOK
  <1>4. Announced' /\ Phases'
    BY <1>3 DEF Announced, Phases
  <1>5. Waiting' = Append(Waiting, t) /\ Waiting \in Seq(Tasks)
    BY ConcatFacts DEF Waiting, TypeOK
  <1>6. /\ Range(Waiting') = Range(Waiting) \cup {t}
        /\ IsInjective(Waiting) /\ t \notin Range(Waiting) => IsInjective(Waiting')
    BY <1>5, AppendFacts
  <1>7. FunctorsInOnePlace'
    BY <1>6 DEF FunctorsInOnePlace, Waiting
  <1> QED
    BY <1>2, <1>4, <1>7

(* A functor of the batch is begun.                                        *)
LEMMA BeginFunctorIInv ==
    ASSUME IInv, BeginFunctor
    PROVE  IInv'
  <1> USE LoopAssumption DEF IInv, BeginFunctor
  <1>1. Head(temp) \in Tasks /\ temp' \in Seq(Tasks)
    BY TailFacts DEF TypeOK
  <1>2. TypeOK'
    BY <1>1 DEF TypeOK
  <1>3. Announced' /\ Phases'
    BY <1>1 DEF Announced, Phases, WriterPending
  <1>4. /\ Waiting \in Seq(Tasks) /\ Waiting # <<>>
        /\ Head(Waiting) = Head(temp) /\ Waiting' = Tail(Waiting)
    BY ConcatFacts DEF Waiting, TypeOK
  <1>5. /\ Range(Waiting) = {Head(temp)} \cup Range(Waiting')
        /\ IsInjective(Waiting') /\ Head(temp) \notin Range(Waiting')
    <2>1. IsInjective(Waiting)
      BY DEF FunctorsInOnePlace, Waiting
    <2> QED
      BY <1>4, <2>1, TailFacts
  <1>6. InCallback = {} /\ InCallback' = {Head(temp)}
    BY <1>1 DEF InCallback
  <1>7. FunctorsInOnePlace'
    BY <1>5, <1>6 DEF FunctorsInOnePlace, Waiting, InCallback
  <1> QED
    BY <1>2, <1>3, <1>7

(* The swap takes over the whole vector; the batch was empty before it.    *)
LEMMA SwapFunctorsIInv ==
    ASSUME IInv, SwapFunctors
    PROVE  IInv'
  <1> USE LoopAssumption DEF IInv, SwapFunctors, Emptied
  <1>1. TypeOK'
    BY EmptyFacts DEF TypeOK, LoopPC
  <1>2. Announced' /\ Phases'
    BY DEF Announced, Phases
  <1>3. Waiting' = Waiting
    BY EmptyFacts, ConcatFacts DEF Waiting, Phases, TypeOK
  <1>4. FunctorsInOnePlace'
    BY <1>3, Zenon DEF FunctorsInOnePlace, Waiting
  <1> QED
    BY <1>1, <1>2, <1>4

(* A callback returns; if it was a functor it is now executed.             *)
LEMMA CallbackReturnsIInv ==
    ASSUME IInv, CallbackReturns
    PROVE  IInv'
  <1> USE LoopAssumption DEF IInv, CallbackReturns
  <1>1. TypeOK'
    BY DEF TypeOK
  <1>2. Announced' /\ Phases'
    BY DEF Announced, Phases, WriterPending
  <1>3. InCallback' = {}
    BY DEF InCallback
  <1>4. FunctorsInOnePlace'
    BY <1>3 DEF FunctorsInOnePlace, InCallback
  <1> QED
    BY <1>1, <1>2, <1>4

(* The steps that leave every functor where it is.                         *)
LEMMA OtherIInv ==
    ASSUME IInv,
           \/ TestQuit \/ EpollReturnsNothing \/ ProcessWakeup \/ ExitInLoop \/ RoundEnds
           \/ \E E \in SUBSET Readable : EpollReturns(E)
           \/ \E fd \in Fds : ProcessFd(fd) \/ InputArrives(fd)
           \/ \E c \in Callers : Exit(c) \/ WriteWakeup(c)
    PROVE  IInv'
  <1> USE LoopAssumption DEF IInv, loopVars
  <1>1. CASE TestQuit
    <2> USE <1>1 DEF TestQuit
    <2>1. TypeOK' /\ Announced' /\ Phases'
      BY DEF TypeOK, LoopPC, Announced, Phases, WriterPending
    <2> QED BY <2>1 DEF FunctorsInOnePlace
  <1>2. CASE EpollReturnsNothing
    <2> USE <1>2 DEF EpollReturnsNothing
    <2>1. TypeOK' /\ Announced' /\ Phases'
      BY DEF TypeOK, LoopPC, Announced, Phases, WriterPending
    <2> QED BY <2>1 DEF FunctorsInOnePlace
  <1>3. CASE ProcessWakeup
    <2> USE <1>3 DEF ProcessWakeup
    <2>1. TypeOK' /\ Announced' /\ Phases'
      BY Zenon DEF TypeOK, LoopPC, Announced, Phases, WriterPending
    <2> QED BY <2>1 DEF FunctorsInOnePlace
  <1>4. CASE ExitInLoop
    <2> USE <1>4 DEF ExitInLoop
    <2>1. pc # "epoll"
      <3>1. callback \in Tasks \/ callback \in Fds
        BY DEF TypeOK
      <3> QED BY <3>1 DEF Phases
    <2>2. TypeOK' /\ Announced' /\ Phases'
      BY <2>1 DEF TypeOK, LoopPC, Announced, Phases, WriterPending
    <2> QED BY <2>2 DEF FunctorsInOnePlace
  <1>5. CASE RoundEnds
    <2> USE <1>5 DEF RoundEnds
    <2>1. TypeOK' /\ Announced' /\ Phases'
      BY DEF TypeOK, LoopPC, Announced, Phases, WriterPending
    <2> QED BY <2>1 DEF FunctorsInOnePlace
  <1>6. ASSUME NEW E \in SUBSET Readable, EpollReturns(E) PROVE IInv'
    <2> USE <1>6 DEF EpollReturns
    <2>1. events' \in Nat \ {0}
      BY DEF Resized, TypeOK
    <2>2. E \subseteq Fds \cup {WakeupFd}
      BY Zenon DEF Readable, TypeOK
    <2>3. TypeOK' /\ Announced' /\ Phases'
      BY <2>1, <2>2 DEF TypeOK, LoopPC, Announced, Phases, WriterPending
    <2> QED BY <2>3 DEF FunctorsInOnePlace
  <1>7. ASSUME NEW fd \in Fds, ProcessFd(fd) PROVE IInv'
    <2> USE <1>7 DEF ProcessFd
    <2>1. TypeOK' /\ Announced' /\ Phases'
      BY DEF TypeOK, LoopPC, Announced, Phases, WriterPending
    <2>2. InCallback' = InCallback
      BY DEF InCallback, TypeOK
    <2> QED BY <2>1, <2>2 DEF FunctorsInOnePlace, InCallback
  <1>8. ASSUME NEW fd \in Fds, InputArrives(fd) PROVE IInv'
    <2> USE <1>8 DEF InputArrives
    <2>1. TypeOK' /\ Announced' /\ Phases'
      BY DEF TypeOK, LoopPC, Announced, Phases, WriterPending
    <2> QED BY <2>1 DEF FunctorsInOnePlace
  <1>9. ASSUME NEW c \in Callers, Exit(c) PROVE IInv'
    <2> USE <1>9 DEF Exit, WillWrite
    <2>1. WriterPending'
      BY DEF WriterPending, TypeOK
    <2>2. TypeOK' /\ Announced' /\ Phases'
      BY <2>1 DEF TypeOK, LoopPC, Announced, Phases
    <2> QED BY <2>2 DEF FunctorsInOnePlace
  <1>10. ASSUME NEW c \in Callers, WriteWakeup(c) PROVE IInv'
    <2> USE <1>10 DEF WriteWakeup
    <2>1. TypeOK' /\ Announced' /\ Phases'
      BY DEF TypeOK, LoopPC, Announced, Phases
    <2> QED BY <2>1 DEF FunctorsInOnePlace
  <1> QED
    BY <1>1, <1>2, <1>3, <1>4, <1>5, <1>6, <1>7, <1>8, <1>9, <1>10

(* The inductive invariant holds in every reachable state of the loop.     *)
THEOREM LoopInvariant == Spec => []IInv
  <1>1. ASSUME IInv, [Next]_vars PROVE IInv'
    <2>1. CASE UNCHANGED vars
      BY <1>1, <2>1 DEF vars, loopVars, IInv, TypeOK, Announced, Phases, WriterPending,
         FunctorsInOnePlace
    <2>2. CASE Next
      BY <1>1, <2>2, RunInLoopIInv, BeginFunctorIInv, SwapFunctorsIInv,
         CallbackReturnsIInv, OtherIInv, Zenon DEF Next, LoopStep
    <2> QED
      BY <1>1, <2>1, <2>2
  <1> QED
    BY <1>1, InitIInv, PTL DEF Spec

(* Every variable keeps its type.                                          *)
THEOREM LoopTypes == Spec => []TypeOK
  BY LoopInvariant, PTL DEF IInv

(* runInLoop and exit never leave the loop asleep in epoll_wait with work  *)
(* to do and nobody to wake it.                                            *)
THEOREM LoopNoLostWakeup == Spec => []NoLostWakeup
  <1>1. IInv => NoLostWakeup
    BY DEF IInv, Announced, NoLostWakeup, WriterPending
  <1> QED
    BY <1>1, LoopInvariant, PTL

(* No functor is lost or run twice.                                        *)
THEOREM LoopFunctorsInOnePlace == Spec => []FunctorsInOnePlace
  BY LoopInvariant, PTL DEF IInv

-----------------------------------------------------------------------------
(* The steps that move no functor are the abstract Switch or invisible.    *)
LEMMA InvisibleSteps ==
    ASSUME IInv, UNCHANGED <<temp, non_io_functors, finished>>, InCallback' = InCallback
    PROVE  TypeOK' => Abstract!Switch \/ UNCHANGED Abstract!vars
  BY DEF Abstract!Switch, Abstract!vars, InCallback, IInv, TypeOK

(* The loop implements the abstract task queue: first posted, first run,   *)
(* each functor at most once.                                              *)
THEOREM LoopImplementsFifoTasks == Spec => Abstract!SafeSpec
  <1> USE LoopAssumption
  <1>1. Init => Abstract!Init
    <2> SUFFICES ASSUME Init PROVE Abstract!Init
      OBVIOUS
    <2>1. temp \o non_io_functors = <<>>
      BY EmptyFacts, ConcatFacts DEF Init
    <2> QED
      BY <2>1 DEF Init, Abstract!Init
  <1>2. ASSUME IInv, IInv', [Next]_vars PROVE [Abstract!Next]_(Abstract!vars)
    <2> USE DEF loopVars
    <2>1. ASSUME NEW c \in Callers, NEW t \in Tasks, RunInLoop(c, t)
          PROVE  Abstract!Next
      <3>1. Waiting' = Append(Waiting, t)
        BY <1>2, <2>1, ConcatFacts DEF Waiting, IInv, TypeOK, RunInLoop
      <3>2. t \notin Range(Waiting) \cup InCallback \cup finished
        BY <1>2, <2>1 DEF IInv, FunctorsInOnePlace, Waiting, InCallback, RunInLoop
      <3>3. Abstract!Accept(t)
        BY <2>1, <3>1, <3>2 DEF RunInLoop, Waiting, InCallback,
           Abstract!Accept, Abstract!Known, Range, Abstract!Range
      <3> QED
        BY <3>3 DEF Abstract!Next
    <2>2. CASE BeginFunctor
      <3>1. /\ Waiting # <<>> /\ Head(Waiting) = Head(temp)
            /\ Waiting' = Tail(Waiting)
        <4>1. temp \in Seq(Tasks) /\ non_io_functors \in Seq(Tasks)
          BY <1>2, Zenon DEF IInv, TypeOK
        <4>2. temp # <<>> /\ temp' = Tail(temp) /\ non_io_functors' = non_io_functors
          BY <2>2 DEF BeginFunctor
        <4>3. /\ temp \o non_io_functors # <<>> /\ Head(temp \o non_io_functors) = Head(temp)
              /\ Tail(temp \o non_io_functors) = Tail(temp) \o non_io_functors
          BY <4>1, <4>2, ConcatFacts
        <4> QED BY <4>2, <4>3 DEF Waiting
      <3>2. Head(temp) \in Tasks
        BY <1>2, <2>2, TailFacts DEF IInv, TypeOK, BeginFunctor
      <3>3. Abstract!Begin
        BY <2>2, <3>1, <3>2 DEF BeginFunctor, Waiting, Abstract!Begin
      <3> QED
        BY <3>3 DEF Abstract!Next
    <2>3. CASE CallbackReturns /\ callback \in Tasks
      <3>1. Abstract!Finish(callback)
        BY <2>3 DEF CallbackReturns, Abstract!Finish
      <3> QED
        BY <2>3, <3>1 DEF Abstract!Next
    <2>4. CASE CallbackReturns /\ callback \notin Tasks
      BY <2>4 DEF CallbackReturns, Abstract!vars
    <2>5. CASE SwapFunctors
      <3>1. Waiting' = Waiting
        BY <1>2, <2>5, EmptyFacts, ConcatFacts
           DEF Waiting, Phases, IInv, TypeOK, SwapFunctors, Emptied
      <3> QED
        BY <2>5, <3>1 DEF SwapFunctors, Waiting, Abstract!vars
    <2>6. CASE \/ TestQuit \/ EpollReturnsNothing \/ ProcessWakeup \/ ExitInLoop
               \/ RoundEnds
               \/ \E E \in SUBSET Readable : EpollReturns(E)
               \/ \E fd \in Fds : ProcessFd(fd) \/ InputArrives(fd)
               \/ \E c \in Callers : Exit(c) \/ WriteWakeup(c)
      <3>1. UNCHANGED <<temp, non_io_functors, finished>>
        BY <2>6 DEF TestQuit, EpollReturnsNothing, ProcessWakeup, ExitInLoop, RoundEnds,
           EpollReturns, ProcessFd, InputArrives, Exit, WriteWakeup
      <3>2. InCallback' = InCallback
        BY <2>6 DEF TestQuit, EpollReturnsNothing, ProcessWakeup, ExitInLoop, RoundEnds,
           EpollReturns, ProcessFd, InputArrives, Exit, WriteWakeup, InCallback
      <3> QED
        BY <1>2, <3>1, <3>2, InvisibleSteps DEF IInv, Abstract!Next
    <2>7. CASE UNCHANGED vars
      BY <2>7 DEF vars, Abstract!vars
    <2> QED
      BY <1>2, <2>1, <2>2, <2>3, <2>4, <2>5, <2>6, <2>7, Zenon DEF Next, LoopStep
  <1> QED
    BY <1>1, <1>2, LoopInvariant, PTL DEF Spec, Abstract!SafeSpec

-----------------------------------------------------------------------------
(* http_server/Buffer                                                      *)

Byte == 0 .. 6
BufferOf == [mem : Seq(Byte), low : Nat, high : Nat, capacity : Nat, over : BOOLEAN, moved : BOOLEAN]

\* The bytes q stand in the memory between low and high.
Holds(b, q) == /\ b \in BufferOf /\ q \in Seq(Byte)
               /\ b.low <= b.high /\ b.high <= Len(b.mem)
               /\ Len(q) = b.high - b.low
               /\ \A i \in 1 .. Len(q) : q[i] = b.mem[b.low + i]

BufferInv == total \in Nat /\ (Defined(buffer) => Holds(buffer, unread))

(* Two sequences with the same elements are one.                           *)
LEMMA SameElements ==
    ASSUME NEW S, NEW u \in Seq(S), NEW w \in Seq(S), Len(u) = Len(w),
           \A i \in 1 .. Len(u) : u[i] = w[i]
    PROVE  u = w
  OBVIOUS

(* A sequence cut in two and put together again (the two parts of readv).  *)
LEMMA CutAndJoined ==
    ASSUME NEW S, NEW w \in Seq(S), NEW k \in Nat, k <= Len(w)
    PROVE  w = SubSeq(w, 1, k) \o SubSeq(w, k + 1, Len(w))
  <1>1. PICK u \in Seq(S) : u = SubSeq(w, 1, k) /\ Len(u) = k /\ \A i \in 1 .. k : u[i] = w[i]
    <2>1. /\ SubSeq(w, 1, k) \in Seq(S) /\ Len(SubSeq(w, 1, k)) = k
          /\ \A i \in 1 .. k : SubSeq(w, 1, k)[i] = w[i]
      OBVIOUS
    <2> QED BY <2>1, Zenon
  <1>2. PICK v \in Seq(S) : /\ v = SubSeq(w, k + 1, Len(w)) /\ Len(v) = Len(w) - k
                            /\ \A i \in 1 .. (Len(w) - k) : v[i] = w[k + i]
    <2>1. /\ SubSeq(w, k + 1, Len(w)) \in Seq(S) /\ Len(SubSeq(w, k + 1, Len(w))) = Len(w) - k
          /\ \A i \in 1 .. (Len(w) - k) : SubSeq(w, k + 1, Len(w))[i] = w[k + i]
      OBVIOUS
    <2> QED BY <2>1, Zenon
  <1>3. /\ u \o v \in Seq(S) /\ Len(u \o v) = Len(u) + Len(v)
        /\ \A i \in 1 .. Len(u) : (u \o v)[i] = u[i]
        /\ \A i \in 1 .. Len(v) : (u \o v)[Len(u) + i] = v[i]
    OBVIOUS
  <1>4. Len(u) = k /\ Len(v) = Len(w) - k /\ Len(w) \in Nat
    BY <1>1, <1>2
  <1>5. Len(u \o v) = Len(w)
    <2>1. Len(u \o v) = Len(u) + Len(v)
      BY <1>3, Zenon
    <2> QED BY <1>4, <2>1
  <1>6. ASSUME NEW i \in 1 .. Len(w) PROVE (u \o v)[i] = w[i]
    <2>1. CASE i \in 1 .. k
      BY <1>1, <1>3, <1>4, <2>1
    <2>2. CASE ~(i \in 1 .. k)
      <3>1. i - k \in 1 .. (Len(w) - k) /\ i = k + (i - k)
        BY <1>4, <2>2
      <3>2. PICK j \in 1 .. (Len(w) - k) : i = k + j
        BY <3>1, Zenon
      <3>3. (u \o v)[k + j] = v[j] /\ v[j] = w[k + j]
        BY <1>2, <1>3, <1>4, Zenon
      <3> QED BY <3>2, <3>3
    <2> QED BY <2>1, <2>2, Zenon
  <1>7. u \o v = w
    BY <1>3, <1>5, <1>6, SameElements, Zenon
  <1> QED BY <1>1, <1>2, <1>7, Zenon

(* A copy of bytes to a place in the memory changes nothing before it.     *)
LEMMA CopyFacts ==
    ASSUME NEW mem \in Seq(Byte), NEW at \in 0 .. Len(mem), NEW w \in Seq(Byte)
    PROVE  /\ Copy(mem, at, w) \in Seq(Byte) /\ Len(Copy(mem, at, w)) >= at + Len(w)
           /\ \A i \in 1 .. at : Copy(mem, at, w)[i] = mem[i]
           /\ \A i \in 1 .. Len(w) : Copy(mem, at, w)[at + i] = w[i]
  <1>1. PICK u \in Seq(Byte) : u = SubSeq(mem, 1, at) /\ Len(u) = at /\ \A i \in 1 .. at : u[i] = mem[i]
    <2>1. /\ SubSeq(mem, 1, at) \in Seq(Byte) /\ Len(SubSeq(mem, 1, at)) = at
          /\ \A i \in 1 .. at : SubSeq(mem, 1, at)[i] = mem[i]
      OBVIOUS
    <2> QED BY <2>1, Zenon
  <1>2. PICK v \in Seq(Byte) : v = SubSeq(mem, at + Len(w) + 1, Len(mem)) /\ Len(v) \in Nat
    <2>1. SubSeq(mem, at + Len(w) + 1, Len(mem)) \in Seq(Byte)
      OBVIOUS
    <2>2. Len(SubSeq(mem, at + Len(w) + 1, Len(mem))) \in Nat
      BY <2>1
    <2> QED BY <2>1, <2>2, Zenon
  <1>3. Copy(mem, at, w) = (u \o w) \o v
    BY <1>1, <1>2 DEF Copy
  <1>4. /\ u \o w \in Seq(Byte) /\ Len(u \o w) = at + Len(w)
        /\ \A i \in 1 .. at : (u \o w)[i] = mem[i]
        /\ \A i \in 1 .. Len(w) : (u \o w)[at + i] = w[i]
    <2>1. /\ u \o w \in Seq(Byte) /\ Len(u \o w) = Len(u) + Len(w)
          /\ \A i \in 1 .. Len(u) : (u \o w)[i] = u[i]
          /\ \A i \in 1 .. Len(w) : (u \o w)[Len(u) + i] = w[i]
      OBVIOUS
    <2> QED BY <1>1, <2>1, Zenon
  <1>5. PICK x \in Seq(Byte) : x = u \o w
    BY <1>4, Zenon
  <1>6. /\ x \o v \in Seq(Byte) /\ Len(x \o v) = at + Len(w) + Len(v)
        /\ \A i \in 1 .. (at + Len(w)) : (x \o v)[i] = x[i]
    <2>1. Len(x) = at + Len(w)
      BY <1>4, <1>5
    <2>2. /\ x \o v \in Seq(Byte) /\ Len(x \o v) = Len(x) + Len(v)
          /\ \A i \in 1 .. Len(x) : (x \o v)[i] = x[i]
      OBVIOUS
    <2> QED BY <2>1, <2>2
  <1>7. Copy(mem, at, w) = x \o v /\ \A i \in 1 .. at : i \in 1 .. (at + Len(w))
    BY <1>3, <1>5
  <1>8. \A i \in 1 .. Len(w) : at + i \in 1 .. (at + Len(w))
    OBVIOUS
  <1>9. Len(x \o v) >= at + Len(w)
    <2>1. Len(x \o v) = at + Len(w) + Len(v)
      BY <1>6, Zenon
    <2>2. Len(v) \in Nat /\ Len(w) \in Nat
      OBVIOUS
    <2> QED BY <2>1, <2>2
  <1> QED BY <1>4, <1>5, <1>6, <1>7, <1>8, <1>9, Zenon

(* Bytes written at high are queued behind the data.                       *)
LEMMA PutHolds ==
    ASSUME NEW b, NEW q, Holds(b, q), NEW w \in Seq(Byte)
    PROVE  Holds(Put(b, w), q \o w) /\ Put(b, w).moved = b.moved
  <1>1. b \in BufferOf /\ q \in Seq(Byte) /\ b.low <= b.high /\ b.high <= Len(b.mem)
        /\ Len(q) = b.high - b.low
    BY DEF Holds
  <1>2. PICK m \in Seq(Byte), lo \in Nat, hi \in Nat :
           /\ m = b.mem /\ lo = b.low /\ hi = b.high
           /\ lo <= hi /\ hi \in 0 .. Len(m) /\ Len(q) = hi - lo
    BY <1>1 DEF BufferOf
  <1>3. \A i \in 1 .. Len(q) : q[i] = m[lo + i]
    BY <1>2 DEF Holds
  <1>4. PICK n \in Seq(Byte) :
           /\ n = Copy(m, hi, w) /\ Len(n) >= hi + Len(w)
           /\ \A i \in 1 .. hi : n[i] = m[i]
           /\ \A i \in 1 .. Len(w) : n[hi + i] = w[i]
    <2>1. hi \in 0 .. Len(m)
      BY <1>2
    <2> QED BY <2>1, CopyFacts, Zenon
  <1>5. /\ Put(b, w) \in BufferOf /\ Put(b, w).moved = b.moved
        /\ Put(b, w).mem = n /\ Put(b, w).low = lo /\ Put(b, w).high = hi + Len(w)
    <2>1. hi + Len(w) \in Nat /\ (b.over \/ hi + Len(w) > b.capacity) \in BOOLEAN
      OBVIOUS
    <2> QED BY <1>1, <1>2, <1>4, <2>1, Zenon DEF Put, BufferOf
  <1>6. PICK p \in Seq(Byte) :
           /\ p = q \o w /\ Len(p) = Len(q) + Len(w)
           /\ \A i \in 1 .. Len(q) : p[i] = q[i]
           /\ \A i \in 1 .. Len(w) : p[Len(q) + i] = w[i]
    <2>1. /\ q \o w \in Seq(Byte) /\ Len(q \o w) = Len(q) + Len(w)
          /\ \A i \in 1 .. Len(q) : (q \o w)[i] = q[i]
          /\ \A i \in 1 .. Len(w) : (q \o w)[Len(q) + i] = w[i]
      <3>1. q \in Seq(Byte)
        BY <1>1
      <3> QED BY <3>1
    <2> QED BY <2>1, Zenon
  <1>7. ASSUME NEW i \in 1 .. Len(p) PROVE p[i] = n[lo + i]
    <2>1. Len(q) \in Nat /\ Len(w) \in Nat /\ Len(q) = hi - lo
      BY <1>1, <1>2
    <2>2. CASE i <= Len(q)
      <3>1. i \in 1 .. Len(q) /\ lo + i \in 1 .. hi
        BY <2>1, <2>2
      <3> QED BY <1>3, <1>4, <1>6, <3>1, Zenon
    <2>3. CASE i > Len(q)
      <3>0. i - Len(q) \in 1 .. Len(w) /\ i = Len(q) + (i - Len(q)) /\ lo + i = hi + (i - Len(q))
        <4>1. Len(p) = Len(q) + Len(w) /\ i \in 1 .. Len(p)
          BY <1>6, Zenon
        <4> QED BY <2>1, <2>3, <4>1
      <3>1. PICK j \in 1 .. Len(w) : i = Len(q) + j /\ lo + i = hi + j
        BY <3>0, Zenon
      <3>2. p[i] = w[j] /\ n[hi + j] = w[j]
        BY <1>4, <1>6, <3>1
      <3> QED BY <3>1, <3>2
    <2> QED BY <1>6, <2>1, <2>2, <2>3
  <1>8. Len(p) = (hi + Len(w)) - lo /\ lo <= hi + Len(w)
    <2>1. Len(p) = Len(q) + Len(w) /\ Len(q) = hi - lo /\ lo <= hi
      BY <1>2, <1>6, Zenon
    <2>2. Len(w) \in Nat
      OBVIOUS
    <2> QED BY <2>1, <2>2
  <1> QED BY <1>4, <1>5, <1>6, <1>7, <1>8, Zenon DEF Holds

(* reserve() leaves the bytes where they are.                              *)
LEMMA ReserveHolds ==
    ASSUME NEW b, NEW q, Holds(b, q), NEW n \in Nat
    PROVE  Holds(Reserve(b, n), q)
  <1>1. b \in BufferOf
    BY DEF Holds
  <1>2. b.capacity + 2 * n \in Nat
    BY <1>1 DEF BufferOf
  <1>3. /\ Reserve(b, n) \in BufferOf /\ Reserve(b, n).mem = b.mem
        /\ Reserve(b, n).low = b.low /\ Reserve(b, n).high = b.high
    BY <1>1, <1>2, Zenon DEF Reserve, BufferOf
  <1> QED BY <1>3 DEF Holds

(* append() queues the bytes, unless it moves the data down.               *)
LEMMA AppendHolds ==
    ASSUME NEW b, NEW q, Holds(b, q), NEW w \in Seq(Byte)
    PROVE  Holds(append(b, w), q \o w) \/ append(b, w).moved
  <1>1. Len(w) \in Nat
    OBVIOUS
  <1>2. CASE append(b, w) = Put(b, w)
    BY <1>2, PutHolds
  <1>3. CASE append(b, w) = Put(Reserve(b, Len(w)), w)
    <2>1. Holds(Reserve(b, Len(w)), q)
      BY <1>1, ReserveHolds
    <2> QED BY <1>3, <2>1, PutHolds
  <1>4. CASE append(b, w) = Put(Compact(b), w)
    <2>1. b \in BufferOf
      BY DEF Holds
    <2>2. DOMAIN Compact(b) = DOMAIN b /\ Compact(b).moved
      BY <2>1 DEF Compact, BufferOf
    <2>3. Put(Compact(b), w).moved = Compact(b).moved
      BY <2>1, <2>2 DEF Put, Compact, BufferOf
    <2> QED BY <1>4, <2>2, <2>3
  <1> QED BY <1>2, <1>3, <1>4 DEF append

(* read(fd) queues what it has got, what came by the stack array included. *)
LEMMA ReadvHolds ==
    ASSUME NEW b, NEW q, Holds(b, q), NEW w \in Seq(Byte), CanRead(b)
    PROVE  Holds(readv(b, w), q \o w) \/ readv(b, w).moved
  <1>1. CASE Len(w) <= writeLen(b)
    <2>1. readv(b, w) = Put(b, w)
      BY <1>1 DEF readv
    <2> QED BY <2>1, PutHolds
  <1>2. CASE ~(Len(w) <= writeLen(b))
    <2>1. b.high \in Nat /\ q \in Seq(Byte)
      BY DEF Holds, BufferOf
    <2>2. PICK k \in Nat : k = writeLen(b)
      BY <2>1, BufferAssumption DEF writeLen, CanRead
    <2>3. k < Len(w)
      BY <1>2, <2>2
    <2>4. PICK u \in Seq(Byte), v \in Seq(Byte) :
             u = SubSeq(w, 1, k) /\ v = SubSeq(w, k + 1, Len(w)) /\ w = u \o v
      <3>1. SubSeq(w, 1, k) \in Seq(Byte) /\ SubSeq(w, k + 1, Len(w)) \in Seq(Byte)
        BY <2>3
      <3>2. w = SubSeq(w, 1, k) \o SubSeq(w, k + 1, Len(w))
        <4>1. k <= Len(w)
          BY <2>3
        <4> QED BY <4>1, CutAndJoined, Zenon
      <3> QED BY <3>1, <3>2, Zenon
    <2>5. readv(b, w) = append(Put(b, u), v)
      BY <1>2, <2>2, <2>4 DEF readv
    <2>6. Holds(Put(b, u), q \o u)
      BY PutHolds
    <2>7. Holds(append(Put(b, u), v), (q \o u) \o v) \/ append(Put(b, u), v).moved
      BY <2>6, AppendHolds
    <2>8. (q \o u) \o v = q \o w
      <3>1. (q \o u) \o v = q \o (u \o v)
        BY <2>1
      <3> QED BY <2>4, <3>1, Zenon
    <2> QED BY <2>5, <2>7, <2>8
  <1> QED BY <1>1, <1>2

(* read(fd, len) queues what it has got.                                   *)
LEMMA ReadLenHolds ==
    ASSUME NEW b, NEW q, Holds(b, q), NEW len \in Nat, NEW w \in Seq(Byte)
    PROVE  Holds(readLen(b, len, w), q \o w)
  <1>1. Holds(Reserve(b, len), q)
    BY ReserveHolds
  <1>2. readLen(b, len, w) \in {Put(b, w), Put(Reserve(b, len), w)}
    BY DEF readLen
  <1> QED BY <1>1, <1>2, PutHolds

(* moveLow() drops the first n bytes, or nothing when there are fewer.     *)
LEMMA MoveLowHolds ==
    ASSUME NEW b, NEW q, Holds(b, q), NEW n \in Nat
    PROVE  Holds(moveLow(b, n), IF n > Len(q) THEN q ELSE SubSeq(q, n + 1, Len(q)))
  <1>1. b \in BufferOf /\ q \in Seq(Byte) /\ b.low <= b.high /\ b.high <= Len(b.mem)
        /\ Len(q) = b.high - b.low
    BY DEF Holds
  <1>2. PICK m \in Seq(Byte), lo \in Nat, hi \in Nat :
           /\ m = b.mem /\ lo = b.low /\ hi = b.high
           /\ lo <= hi /\ hi <= Len(m) /\ Len(q) = hi - lo
    BY <1>1 DEF BufferOf
  <1>3. n + lo > hi <=> n > Len(q)
    BY <1>2
  <1>4. CASE n > Len(q)
    BY <1>2, <1>3, <1>4 DEF moveLow
  <1>5. CASE ~(n > Len(q))
    <2>1. /\ moveLow(b, n) \in BufferOf /\ moveLow(b, n).mem = m
          /\ moveLow(b, n).low = lo + n /\ moveLow(b, n).high = hi
      <3>1. moveLow(b, n) = [b EXCEPT !.low = lo + n] /\ lo + n \in Nat
        BY <1>2, <1>3, <1>5 DEF moveLow
      <3> QED BY <1>1, <1>2, <3>1, Zenon DEF BufferOf
    <2>2. PICK p \in Seq(Byte) : /\ p = SubSeq(q, n + 1, Len(q)) /\ Len(p) = Len(q) - n
                                 /\ \A i \in 1 .. Len(p) : p[i] = q[n + i] /\ n + i \in 1 .. Len(q)
      <3>1. q \in Seq(Byte) /\ n <= Len(q)
        BY <1>1, <1>5
      <3>2. /\ SubSeq(q, n + 1, Len(q)) \in Seq(Byte) /\ Len(SubSeq(q, n + 1, Len(q))) = Len(q) - n
            /\ \A i \in 1 .. (Len(q) - n) : SubSeq(q, n + 1, Len(q))[i] = q[n + i] /\ n + i \in 1 .. Len(q)
        BY <3>1
      <3> QED BY <3>2, Zenon
    <2>3. ASSUME NEW i \in 1 .. Len(p) PROVE p[i] = m[(lo + n) + i]
      <3>1. q[n + i] = m[lo + (n + i)]
        BY <1>2, <2>2, Zenon DEF Holds
      <3>2. lo + (n + i) = (lo + n) + i
        OBVIOUS
      <3> QED BY <2>2, <3>1, <3>2
    <2>4. Len(p) = hi - (lo + n) /\ lo + n <= hi
      <3>1. Len(p) = Len(q) - n /\ Len(q) = hi - lo /\ n <= Len(q)
        BY <1>2, <1>5, <2>2
      <3> QED BY <3>1
    <2>5. Holds(moveLow(b, n), p)
      BY <1>2, <2>1, <2>2, <2>3, <2>4, Zenon DEF Holds
    <2> QED BY <1>5, <2>2, <2>5
  <1> QED BY <1>4, <1>5

(* moveHigh() to a position in the data gives up what is behind it.        *)
LEMMA MoveHighHolds ==
    ASSUME NEW b, NEW q, Holds(b, q), NEW n \in Nat, n <= b.high
    PROVE  Holds(moveHigh(b, n), IF n < b.low THEN q ELSE SubSeq(q, 1, n - b.low))
  <1>1. b \in BufferOf /\ q \in Seq(Byte) /\ b.low <= b.high /\ b.high <= Len(b.mem)
        /\ Len(q) = b.high - b.low
    BY DEF Holds
  <1>2. PICK m \in Seq(Byte), lo \in Nat, hi \in Nat :
           /\ m = b.mem /\ lo = b.low /\ hi = b.high
           /\ lo <= hi /\ hi <= Len(m) /\ Len(q) = hi - lo
    BY <1>1 DEF BufferOf
  <1>4. CASE n < lo
    BY <1>2, <1>4 DEF moveHigh
  <1>5. CASE ~(n < lo)
    <2>1. /\ moveHigh(b, n) \in BufferOf /\ moveHigh(b, n).mem = m
          /\ moveHigh(b, n).low = lo /\ moveHigh(b, n).high = n
      <3>1. moveHigh(b, n) = [b EXCEPT !.high = n]
        BY <1>2, <1>5 DEF moveHigh
      <3> QED BY <1>1, <1>2, <3>1 DEF BufferOf
    <2>2. PICK k \in Nat : k = n - lo /\ k <= Len(q) /\ lo <= n /\ n <= hi
      BY <1>2, <1>5
    <2>3. PICK p \in Seq(Byte) : /\ p = SubSeq(q, 1, k) /\ Len(p) = k
                                 /\ \A i \in 1 .. k : p[i] = q[i] /\ i \in 1 .. Len(q)
      <3>1. q \in Seq(Byte) /\ k <= Len(q)
        BY <1>1, <2>2
      <3>2. /\ SubSeq(q, 1, k) \in Seq(Byte) /\ Len(SubSeq(q, 1, k)) = k
            /\ \A i \in 1 .. k : SubSeq(q, 1, k)[i] = q[i] /\ i \in 1 .. Len(q)
        BY <3>1
      <3> QED BY <3>2, Zenon
    <2>4. ASSUME NEW i \in 1 .. Len(p) PROVE p[i] = m[lo + i]
      BY <1>2, <2>3 DEF Holds
    <2>5. Len(p) = n - lo /\ lo <= n /\ n <= Len(m)
      <3>1. Len(p) = k /\ k = n - lo /\ lo <= n /\ n <= hi /\ hi <= Len(m)
        BY <1>2, <2>2, <2>3, Zenon
      <3>2. Len(m) \in Nat
        OBVIOUS
      <3> QED BY <3>1, <3>2
    <2>6. Holds(moveHigh(b, n), p)
      BY <2>1, <2>3, <2>4, <2>5 DEF Holds
    <2>7. p = SubSeq(q, 1, n - b.low)
      BY <1>2, <2>2, <2>3
    <2> QED BY <1>2, <1>5, <2>6, <2>7
  <1> QED BY <1>2, <1>4, <1>5

(* The bytes that arrive are bytes.                                        *)
LEMMA ArrivingType ==
    ASSUME NEW n \in Nat, total \in Nat
    PROVE  Arriving(n) \in Seq(Byte) /\ Len(Arriving(n)) = n
  <1>1. \A i \in 1 .. n : (total + i) % 7 \in Byte
    BY DEF Byte
  <1>2. Arriving(n) \in [1 .. n -> Byte]
    BY <1>1, Zenon DEF Arriving
  <1> QED BY <1>2

(* A new buffer is empty.                                                  *)
LEMMA InitBufferInv == BufferInit => BufferInv
  <1> SUFFICES ASSUME BufferInit PROVE BufferInv
    OBVIOUS
  <1>1. PICK m \in Seq(Byte) : m = [i \in 1 .. Size |-> 0] /\ Len(m) = Size
    <2>1. [i \in 1 .. Size |-> 0] \in [1 .. Size -> Byte]
      BY DEF Byte
    <2>2. [i \in 1 .. Size |-> 0] \in Seq(Byte) /\ Len([i \in 1 .. Size |-> 0]) = Size
      BY <2>1, BufferAssumption
    <2> QED BY <2>2, Zenon
  <1>2. NewBuffer = [mem |-> m, low |-> 0, high |-> 0, capacity |-> Size, over |-> FALSE, moved |-> FALSE]
    BY <1>1 DEF NewBuffer
  <1>3. NewBuffer \in BufferOf /\ NewBuffer.mem = m /\ NewBuffer.low = 0 /\ NewBuffer.high = 0
    BY <1>2, BufferAssumption DEF BufferOf
  <1>4. <<>> \in Seq(Byte) /\ Len(<<>>) = 0
    OBVIOUS
  <1>5. Holds(NewBuffer, <<>>)
    BY <1>1, <1>3, <1>4, BufferAssumption DEF Holds
  <1> QED BY <1>5 DEF BufferInit, BufferInv

(* Every call keeps the bytes queued: append and the two reads put what    *)
(* has come behind them, moveLow and moveHigh drop from the two ends.      *)
LEMMA StepBufferInv ==
    ASSUME BufferInv, BufferNext
    PROVE  BufferInv'
  <1>1. Holds(buffer, unread) /\ total \in Nat
    BY DEF BufferInv, BufferNext
  <1>2. ASSUME NEW n \in Nat, NEW c, Gets(c, Arriving(n)), Holds(c, unread \o Arriving(n)) \/ c.moved
        PROVE  BufferInv'
    <2>1. total' \in Nat
      <3>1. total' = total + Len(Arriving(n)) /\ Len(Arriving(n)) = n
        BY <1>1, <1>2, ArrivingType DEF Gets
      <3> QED BY <1>1, <3>1
    <2>2. buffer' = c /\ unread' = unread \o Arriving(n)
      BY <1>2 DEF Gets
    <2> QED BY <1>2, <2>1, <2>2 DEF BufferInv, Defined
  <1>3. PICK n \in Nat : \/ AppendBytes(n) \/ Read(n) \/ MoveLow(n) \/ MoveHigh(n)
                         \/ \E len \in Nat : ReadLen(len, n)
    BY BufferAssumption DEF BufferNext
  <1>4. PICK w \in Seq(Byte) : w = Arriving(n)
    BY <1>1, ArrivingType
  <1>5. CASE AppendBytes(n)
    <2>1. Holds(append(buffer, w), unread \o w) \/ append(buffer, w).moved
      BY <1>1, AppendHolds
    <2> QED BY <1>2, <1>4, <1>5, <2>1 DEF AppendBytes
  <1>6. CASE Read(n)
    <2>1. Holds(readv(buffer, w), unread \o w) \/ readv(buffer, w).moved
      BY <1>1, <1>6, ReadvHolds DEF Read
    <2> QED BY <1>2, <1>4, <1>6, <2>1 DEF Read
  <1>7. ASSUME NEW len \in Nat, ReadLen(len, n) PROVE BufferInv'
    <2>1. Holds(readLen(buffer, len, w), unread \o w)
      BY <1>1, ReadLenHolds
    <2> QED BY <1>2, <1>4, <1>7, <2>1 DEF ReadLen
  <1>8. CASE MoveLow(n)
    <2>1. Holds(buffer', unread')
      BY <1>1, <1>8, MoveLowHolds DEF MoveLow
    <2> QED BY <1>1, <1>8, <2>1 DEF BufferInv, MoveLow
  <1>9. CASE MoveHigh(n)
    <2>1. Holds(buffer', unread')
      BY <1>1, <1>9, MoveHighHolds DEF MoveHigh
    <2> QED BY <1>1, <1>9, <2>1 DEF BufferInv, MoveHigh
  <1> QED BY <1>3, <1>5, <1>6, <1>7, <1>8, <1>9

(* A set of natural numbers has a least one.                               *)
LEMMA LeastElement ==
    ASSUME NEW I, I \subseteq Nat, I # {}
    PROVE  \E x \in I : \A y \in I : x <= y
  <1>1. PICK x \in I : \A y \in I : ~(<<y, x>> \in OpToRel(<, Nat))
    BY NatLessThanWellFounded, WFMin, Zenon
  <1>2. \A y \in I : ~(y < x)
    BY <1>1, Zenon DEF OpToRel
  <1>3. \A y \in I : x <= y
    BY <1>2
  <1> QED BY <1>3

(* findChar() over [first, last) of the bytes q.                           *)
LEMMA FindCharFinds ==
    ASSUME NEW b, NEW q, Holds(b, q), NEW c \in Byte, NEW first \in 0 .. Len(q), NEW last \in 0 .. Len(q)
    PROVE  LET i == findChar(b, c, first, last)
           IN  IF first < last /\ c \in Range(SubSeq(q, first + 1, last))
               THEN /\ i \in first..(last - 1)
                    /\ q[i + 1] = c
                    /\ c \notin Range(SubSeq(q, first + 1, i))
               ELSE i = -1
  <1>1. b \in BufferOf /\ q \in Seq(Byte) /\ Len(q) = b.high - b.low /\ Len(q) \in Nat
    BY DEF Holds
  <1>2. PICK lo \in Nat : lo = b.low
    BY <1>1 DEF BufferOf
  <1>3. \A i \in 0 .. (Len(q) - 1) : b.mem[lo + i + 1] = q[i + 1]
    <2>1. ASSUME NEW i \in 0 .. (Len(q) - 1) PROVE b.mem[lo + i + 1] = q[i + 1]
      <3>1. i + 1 \in 1 .. Len(q) /\ lo + (i + 1) = lo + i + 1
        BY <1>1
      <3>2. q[i + 1] = b.mem[lo + (i + 1)]
        BY <1>2, <3>1 DEF Holds
      <3> QED BY <3>1, <3>2
    <2> QED BY <2>1, Zenon
  <1> DEFINE found == {i \in first .. (last - 1) : b.mem[b.low + i + 1] = c}
  <1>4. \A i \in first .. (last - 1) : i \in found <=> q[i + 1] = c
    <2>1. \A i \in first .. (last - 1) : i \in 0 .. (Len(q) - 1)
      BY <1>1
    <2> QED BY <1>2, <1>3, <2>1
  <1>5. found \subseteq first .. (last - 1) /\ found \subseteq Nat
    OBVIOUS
  <1>6. findChar(b, c, first, last) =
           IF first >= last \/ last > dataLen(b) \/ found = {} THEN -1
           ELSE CHOOSE i \in found : \A j \in found : i <= j
    BY DEF findChar
  <1>7. dataLen(b) = Len(q)
    BY <1>1 DEF dataLen
  <1> HIDE DEF found
  <1>8. ASSUME NEW k \in Int, first < k, k <= Len(q)
        PROVE  c \in Range(SubSeq(q, first + 1, k)) <=> \E i \in first .. (k - 1) : q[i + 1] = c
    <2>1. /\ SubSeq(q, first + 1, k) \in Seq(Byte) /\ Len(SubSeq(q, first + 1, k)) = k - first
          /\ \A i \in 1 .. (k - first) : SubSeq(q, first + 1, k)[i] = q[first + i]
      BY <1>1, <1>8
    <2>2. c \in Range(SubSeq(q, first + 1, k)) <=> \E i \in 1 .. (k - first) : q[first + i] = c
      <3>1. DOMAIN SubSeq(q, first + 1, k) = 1 .. (k - first)
        BY <2>1
      <3>2. Range(SubSeq(q, first + 1, k)) = {SubSeq(q, first + 1, k)[i] : i \in 1 .. (k - first)}
        BY <3>1, Zenon DEF Range
      <3> QED BY <2>1, <3>2, Zenon
    <2>3. ASSUME NEW i \in 1 .. (k - first), q[first + i] = c PROVE \E j \in first .. (k - 1) : q[j + 1] = c
      <3>1. (first + i) - 1 \in first .. (k - 1) /\ ((first + i) - 1) + 1 = first + i
        BY <1>8
      <3> QED BY <2>3, <3>1, Zenon
    <2>4. ASSUME NEW j \in first .. (k - 1), q[j + 1] = c PROVE \E i \in 1 .. (k - first) : q[first + i] = c
      <3>1. (j + 1) - first \in 1 .. (k - first) /\ first + ((j + 1) - first) = j + 1
        BY <1>8
      <3> QED BY <2>4, <3>1
    <2> QED BY <2>2, <2>3, <2>4, Zenon
  <1>9. CASE first < last /\ c \in Range(SubSeq(q, first + 1, last))
    <2>1. found # {}
      <3>1. last \in Int /\ last <= Len(q)
        BY <1>1
      <3>2. \E i \in first .. (last - 1) : q[i + 1] = c
        BY <1>8, <1>9, <3>1
      <3> QED BY <1>4, <3>2, Zenon
    <2>2. \E x \in found : \A y \in found : x <= y
      BY <1>5, <2>1, LeastElement, Zenon
    <2>3. PICK x \in found : x = (CHOOSE i \in found : \A j \in found : i <= j) /\ \A y \in found : x <= y
      BY <2>2
    <2>4. findChar(b, c, first, last) = x
      <3>1. ~(first >= last) /\ ~(last > dataLen(b))
        BY <1>1, <1>7, <1>9
      <3> QED BY <1>6, <2>1, <2>3, <3>1
    <2>5. x \in first .. (last - 1) /\ q[x + 1] = c
      BY <1>4, <1>5, <2>3, Zenon
    <2>6. c \notin Range(SubSeq(q, first + 1, x))
      <3>1. CASE x = first
        <4>1. SubSeq(q, first + 1, first) = <<>>
          BY <1>1
        <4> QED BY <3>1, <4>1 DEF Range
      <3>2. CASE first < x
        <4>1. x \in Int /\ x <= Len(q)
          BY <1>1, <2>5
        <4>2. ASSUME NEW i \in first .. (x - 1), q[i + 1] = c PROVE FALSE
          <5>1. i \in first .. (last - 1) /\ ~(x <= i)
            BY <2>5
          <5> QED BY <1>4, <2>3, <4>2, <5>1
        <4> QED BY <1>8, <3>2, <4>1, <4>2
      <3> QED BY <2>5, <3>1, <3>2
    <2> QED BY <1>9, <2>4, <2>5, <2>6
  <1>10. CASE ~(first < last /\ c \in Range(SubSeq(q, first + 1, last)))
    <2>1. CASE ~(first < last)
      <3>1. first >= last
        BY <2>1
      <3> QED BY <1>6, <1>10, <3>1
    <2>2. CASE first < last
      <3>1. last \in Int /\ last <= Len(q) /\ c \notin Range(SubSeq(q, first + 1, last))
        BY <1>1, <1>10, <2>2
      <3>2. \A i \in first .. (last - 1) : q[i + 1] # c
        BY <1>8, <2>2, <3>1
      <3>3. found = {}
        BY <1>4, <1>5, <3>2
      <3> QED BY <1>6, <1>10, <3>3
    <2> QED BY <2>1, <2>2
  <1> QED BY <1>9, <1>10

(* The data of a buffer that holds q is q.                                 *)
LEMMA DataIsHeld ==
    ASSUME NEW b, NEW q, Holds(b, q)
    PROVE  Data(b) = q
  <1>1. b \in BufferOf /\ q \in Seq(Byte) /\ b.low <= b.high /\ b.high <= Len(b.mem)
        /\ Len(q) = b.high - b.low
    BY DEF Holds
  <1>2. PICK m \in Seq(Byte), lo \in Nat, hi \in Nat :
           /\ m = b.mem /\ lo = b.low /\ hi = b.high
           /\ lo <= hi /\ hi <= Len(m) /\ Len(q) = hi - lo
    BY <1>1 DEF BufferOf
  <1>3. /\ SubSeq(m, lo + 1, hi) \in Seq(Byte) /\ Len(SubSeq(m, lo + 1, hi)) = hi - lo
        /\ \A i \in 1 .. (hi - lo) : SubSeq(m, lo + 1, hi)[i] = m[lo + i]
    <2>1. lo <= hi /\ hi <= Len(m)
      BY <1>2
    <2> QED BY <2>1
  <1>4. /\ Len(q) = hi - lo /\ q \in Seq(Byte)
        /\ \A i \in 1 .. (hi - lo) : q[i] = m[lo + i]
    BY <1>1, <1>2 DEF Holds
  <1>5. SubSeq(m, lo + 1, hi) = q
    <2>1. PICK d \in Seq(Byte) : /\ d = SubSeq(m, lo + 1, hi) /\ Len(d) = hi - lo
                                 /\ \A i \in 1 .. (hi - lo) : d[i] = m[lo + i]
      BY <1>3, Zenon
    <2>2. Len(d) = Len(q) /\ \A i \in 1 .. Len(d) : d[i] = q[i]
      BY <1>4, <2>1, Zenon
    <2>3. d = q
      BY <1>4, <2>2, SameElements, Zenon
    <2> QED BY <2>1, <2>3
  <1> QED BY <1>2, <1>5 DEF Data

(* A Buffer that is still defined is the queue of the bytes put in and not *)
(* yet dropped, whatever the size of its vector and of the stack array and *)
(* however much is appended and read, and findChar finds the first byte    *)
(* that is equal in any range of it.  (Buffer)                             *)
THEOREM BufferStaysQueue == BufferSpec => []BufferIsQueue
  <1>1. BufferInv /\ [BufferNext]_bufferVars => BufferInv'
    <2> SUFFICES ASSUME BufferInv, [BufferNext]_bufferVars PROVE BufferInv'
      OBVIOUS
    <2>1. CASE UNCHANGED bufferVars
      BY <2>1, Zenon DEF bufferVars, BufferInv
    <2> QED BY <2>1, StepBufferInv
  <1>2. BufferInv => BufferIsQueue
    <2> SUFFICES ASSUME BufferInv, Defined(buffer) PROVE BufferIsQueue
      BY DEF BufferIsQueue
    <2>1. Holds(buffer, unread)
      BY DEF BufferInv
    <2>2. Data(buffer) = unread
      BY <2>1, DataIsHeld
    <2> QED BY <2>1, <2>2, FindCharFinds DEF BufferIsQueue, Byte
  <1> QED BY <1>1, <1>2, InitBufferInv, PTL DEF BufferSpec
=============================================================================
