----------------------------- MODULE FifoTasks -----------------------------
(***************************************************************************)
(* What a task queue of this code base promises to the threads that hand   *)
(* it work: tasks are begun in the order in which they were accepted, each *)
(* at most once, and every task accepted while the service is open is      *)
(* begun and finished, unless the service is closed first.  The thread     *)
(* pool (FixedThreadPool) and the functor queue of an event loop           *)
(* (EventLoop) are both shown to implement it.                             *)
(***************************************************************************)
EXTENDS Naturals, Sequences, Functions

CONSTANT Task

VARIABLES
    open,      \* the service is running
    pending,   \* accepted and not yet begun, oldest first
    begun,     \* being executed
    finished   \* executed

vars == <<open, pending, begun, finished>>

Init ==
    /\ open \in BOOLEAN
    /\ pending = <<>>
    /\ begun = {}
    /\ finished = {}

Known == Range(pending) \cup begun \cup finished

Accept(t) ==
    /\ t \notin Known
    /\ pending' = Append(pending, t)
    /\ UNCHANGED <<open, begun, finished>>

Begin ==
    /\ pending # <<>>
    /\ begun' = begun \cup {Head(pending)}
    /\ pending' = Tail(pending)
    /\ UNCHANGED <<open, finished>>

Finish(t) ==
    /\ t \in begun
    /\ begun' = begun \ {t}
    /\ finished' = finished \cup {t}
    /\ UNCHANGED <<open, pending>>

Switch ==
    /\ open' = ~open
    /\ UNCHANGED <<pending, begun, finished>>

Next ==
    \/ \E t \in Task : Accept(t) \/ Finish(t)
    \/ Begin
    \/ Switch

SafeSpec == Init /\ [][Next]_vars

(* A service that stays open keeps beginning tasks, and every task that    *)
(* was begun is finished.                                                  *)
Spec ==
    /\ SafeSpec
    /\ WF_vars(open /\ Begin)
    /\ \A t \in Task : WF_vars(Finish(t))

=============================================================================
