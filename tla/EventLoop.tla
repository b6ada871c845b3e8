----------------------------- MODULE EventLoop -----------------------------
(***************************************************************************)
(* One event loop: http_server/eventloop.{h,cpp} with epoller::epoll.      *)
(*                                                                         *)
(* The loop thread runs startloop.  The Callers are other threads: they    *)
(* hand functors to the loop with runInLoop, which pushes under _mutex and *)
(* then, with the mutex free again, writes the wakeup eventfd; and they    *)
(* call exit.  On the loop's own thread runInLoop calls the functor at     *)
(* once, as part of the callback that called it.                           *)
(*                                                                         *)
(* The 10 s timeout of epoll_wait (and EINTR) can end a wait early.  No    *)
(* fairness is asked of it: what holds here holds with the timeout         *)
(* replaced by infinity.                                                   *)
(***************************************************************************)
EXTENDS Naturals, Sequences, FiniteSets, Functions

CONSTANTS
    Callers,     \* the other threads
    Tasks,       \* the functors, each posted at most once
    Fds,         \* the descriptors registered with the epoller
    WakeupFd,    \* the eventfd
    InitEvents,  \* EVENTS_INIT_SIZE
    None         \* no functor, no descriptor

ASSUME LoopAssumption ==
    /\ InitEvents \in Nat \ {0}
    /\ WakeupFd \notin Fds
    /\ None \notin Tasks \cup Fds \cup {WakeupFd}
    /\ Tasks \cap (Fds \cup {WakeupFd}) = {}

VARIABLES
    quit,
    signalled,        \* the counter of the eventfd is not 0
    non_io_functors,
    temp,             \* what is left of the local vector startloop swapped out
    pc,               \* where the loop thread is
    active,           \* the dispatchers still to process in this round
    callback,         \* the descriptor or functor whose callback is running
    events,           \* the size of epoller::events
    ready,            \* the descriptors with pending input (level triggered)
    caller,           \* "idle", or "write" before the write to the eventfd
    posted, finished  \* history: the functors pushed, and those executed

loopVars == <<temp, pc, active, callback, events>>
vars == <<quit, signalled, non_io_functors, loopVars, ready, caller, posted, finished>>

LoopPC == {"test", "epoll", "dispatch", "run", "done"}

Init ==
    /\ quit = FALSE
    /\ signalled = FALSE
    /\ non_io_functors = <<>> /\ temp = <<>>
    /\ pc = "test"
    /\ active = {}
    /\ callback = None
    /\ events = InitEvents
    /\ ready = {}
    /\ caller = [c \in Callers |-> "idle"]
    /\ posted = {} /\ finished = {}

-----------------------------------------------------------------------------
(* runInLoop and exit, called on another thread                            *)

ForgetsWrite(c) == UNCHANGED caller

WillWrite(c) == caller' = [caller EXCEPT ![c] = "write"]

RunInLoop(c, t) ==
    /\ caller[c] = "idle"
    /\ t \notin posted
    /\ non_io_functors' = Append(non_io_functors, t)
    /\ posted' = posted \cup {t}
    /\ WillWrite(c)
    /\ UNCHANGED <<quit, signalled, loopVars, ready, finished>>

Exit(c) ==
    /\ caller[c] = "idle"
    /\ quit' = TRUE
    /\ WillWrite(c)
    /\ UNCHANGED <<signalled, non_io_functors, loopVars, ready, posted, finished>>

WriteWakeup(c) ==
    /\ caller[c] = "write"
    /\ signalled' = TRUE
    /\ caller' = [caller EXCEPT ![c] = "idle"]
    /\ UNCHANGED <<quit, non_io_functors, loopVars, ready, posted, finished>>

(* The environment: input arrives on a descriptor.                         *)
InputArrives(fd) ==
    /\ ready' = ready \cup {fd}
    /\ UNCHANGED <<quit, signalled, non_io_functors, loopVars, caller, posted, finished>>

-----------------------------------------------------------------------------
(* startloop                                                               *)

TestQuit ==
    /\ pc = "test"
    /\ pc' = IF quit THEN "done" ELSE "epoll"
    /\ UNCHANGED <<quit, signalled, non_io_functors, temp, active, callback, events,
                   ready, caller, posted, finished>>

Readable == ready \cup (IF signalled THEN {WakeupFd} ELSE {})

(* epoll_wait fills at most events.size() entries; the vector is resized   *)
(* when more than its size were returned.                                  *)
Resized(n) == IF n > events THEN 2 * events ELSE events

EpollReturns(E) ==
    /\ pc = "epoll"
    /\ E # {} /\ Cardinality(E) <= events
    /\ active' = E
    /\ events' = Resized(Cardinality(E))
    /\ pc' = "dispatch"
    /\ UNCHANGED <<quit, signalled, non_io_functors, temp, callback, ready, caller,
                   posted, finished>>

(* The timeout, or a signal.                                               *)
EpollReturnsNothing ==
    /\ pc = "epoll"
    /\ Readable = {}
    /\ active' = {}
    /\ pc' = "dispatch"
    /\ UNCHANGED <<quit, signalled, non_io_functors, temp, callback, events, ready, caller,
                   posted, finished>>

(* process_wakeup_read resets the counter of the eventfd.                  *)
ProcessWakeup ==
    /\ pc = "dispatch" /\ callback = None
    /\ WakeupFd \in active
    /\ active' = active \ {WakeupFd}
    /\ signalled' = FALSE
    /\ UNCHANGED <<quit, non_io_functors, temp, pc, callback, events, ready, caller,
                   posted, finished>>

(* A descriptor's callback; it reads its input.                            *)
ProcessFd(fd) ==
    /\ pc = "dispatch" /\ callback = None
    /\ fd \in active
    /\ active' = active \ {fd}
    /\ ready' = ready \ {fd}
    /\ callback' = fd
    /\ UNCHANGED <<quit, signalled, non_io_functors, temp, pc, events, caller,
                   posted, finished>>

KeepsFunctors == non_io_functors

Emptied == <<>>

SwapFunctors ==
    /\ pc = "dispatch" /\ callback = None
    /\ active = {}
    /\ temp' = non_io_functors
    /\ non_io_functors' = Emptied
    /\ pc' = "run"
    /\ UNCHANGED <<quit, signalled, active, callback, events, ready, caller, posted, finished>>

BeginFunctor ==
    /\ pc = "run" /\ callback = None
    /\ temp # <<>>
    /\ callback' = Head(temp)
    /\ temp' = Tail(temp)
    /\ UNCHANGED <<quit, signalled, non_io_functors, pc, active, events, ready, caller,
                   posted, finished>>

CallbackReturns ==
    /\ callback # None
    /\ callback' = None
    /\ finished' = finished \cup ({callback} \cap Tasks)
    /\ UNCHANGED <<quit, signalled, non_io_functors, temp, pc, active, events, ready,
                   caller, posted>>

(* exit, called by a callback on the loop's thread: no wakeup is needed.   *)
ExitInLoop ==
    /\ callback # None
    /\ quit' = TRUE
    /\ UNCHANGED <<signalled, non_io_functors, loopVars, ready, caller, posted, finished>>

RoundEnds ==
    /\ pc = "run" /\ callback = None
    /\ temp = <<>>
    /\ pc' = "test"
    /\ UNCHANGED <<quit, signalled, non_io_functors, temp, active, callback, events, ready,
                   caller, posted, finished>>

-----------------------------------------------------------------------------
LoopStep ==
    \/ TestQuit
    \/ \E E \in SUBSET Readable : EpollReturns(E)
    \/ ProcessWakeup
    \/ \E fd \in Fds : ProcessFd(fd)
    \/ SwapFunctors
    \/ BeginFunctor
    \/ CallbackReturns
    \/ RoundEnds

Next ==
    \/ LoopStep
    \/ EpollReturnsNothing
    \/ ExitInLoop
    \/ \E c \in Callers, t \in Tasks : RunInLoop(c, t)
    \/ \E c \in Callers : Exit(c) \/ WriteWakeup(c)
    \/ \E fd \in Fds : InputArrives(fd)

Spec == Init /\ [][Next]_vars

(* The loop thread is scheduled, its callbacks return, and a thread that   *)
(* has pushed a functor gets to its write.  Nobody has to post or to exit, *)
(* and the timeout of epoll_wait need never fire.                          *)
Fairness ==
    /\ WF_vars(LoopStep)
    /\ \A c \in Callers : WF_vars(WriteWakeup(c))

FairSpec == Spec /\ Fairness

-----------------------------------------------------------------------------
TypeOK ==
    /\ quit \in BOOLEAN /\ signalled \in BOOLEAN
    /\ non_io_functors \in Seq(Tasks) /\ temp \in Seq(Tasks)
    /\ pc \in LoopPC
    /\ active \subseteq Fds \cup {WakeupFd}
    /\ callback \in Tasks \cup Fds \cup {None}
    /\ events \in Nat \ {0}
    /\ ready \subseteq Fds
    /\ caller \in [Callers -> {"idle", "write"}]
    /\ posted \subseteq Tasks /\ finished \subseteq Tasks

(* No lost wakeup: whenever the loop thread is inside epoll_wait with a    *)
(* functor waiting for it, or with quit set, the eventfd is readable or    *)
(* some thread is about to write it.  runInLoop pushes before it writes,   *)
(* and startloop reads the eventfd before it swaps the vector out.         *)
NoLostWakeup ==
    pc = "epoll" /\ (non_io_functors # <<>> \/ quit) =>
        signalled \/ \E c \in Callers : caller[c] = "write"

(* Nothing posted is lost or run twice: a posted functor is in             *)
(* non_io_functors, in the batch of this round, running, or executed, and  *)
(* in one of them only.                                                    *)
FunctorsInOnePlace ==
    LET waiting == temp \o non_io_functors
        running == {callback} \cap Tasks
    IN  /\ posted = Range(waiting) \cup running \cup finished
        /\ IsInjective(waiting)
        /\ Range(waiting) \cap (running \cup finished) = {}
        /\ running \cap finished = {}

(* exit ends the loop, whichever thread called it and however long         *)
(* epoll_wait would otherwise have slept.                                  *)
ExitEndsLoop == quit ~> pc = "done"

(* The functor queue implements the abstract task queue: functors run in   *)
(* the order runInLoop pushed them, each once, and every functor posted    *)
(* to a loop that is not told to exit is executed.                         *)
Abstract == INSTANCE FifoTasks WITH
    Task <- Tasks, open <- ~quit, pending <- temp \o non_io_functors,
    begun <- {callback} \cap Tasks

ImplementsFifoTasks == Abstract!Spec
=============================================================================
