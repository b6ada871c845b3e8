------------------------------ MODULE SyncProc ------------------------------
(* signal/sync_proc.c: a parent that waits, with sigsuspend, for a signal  *)
(* of its child.  Signals are blocked before the fork, so one that comes   *)
(* between the test of flag and sigsuspend stays pending.                  *)
EXTENDS Sequences

VARIABLES parent, child,     \* where each process is
          flag,              \* the parent's; fork copies memory
          blocked, pending,  \* SIGUSR1 in the parent
          printed

vars == <<parent, child, flag, blocked, pending, printed>>

Init == /\ parent = "tell_wait" /\ child = "none"
        /\ flag = FALSE /\ blocked = FALSE /\ pending = FALSE
        /\ printed = <<>>

Goes(from, to) == parent = from /\ parent' = to

Unmasked == FALSE
\* The mask after tell_wait.
Masked == TRUE

tell_wait == /\ Goes("tell_wait", "fork")
             /\ blocked' = Masked
             /\ UNCHANGED <<child, flag, pending, printed>>

Fork == /\ \/ Goes("fork", "wait_child") /\ child' = "print"
           \/ Goes("fork", "exited") /\ UNCHANGED child
        /\ UNCHANGED <<flag, blocked, pending, printed>>

ChildPrints == /\ child = "print"
               /\ child' = "tell_parent"
               /\ printed' = Append(printed, "first child")
               /\ UNCHANGED <<parent, flag, blocked, pending>>

\* The signal waits while it is blocked; else the handler usr runs at once.
tell_parent == /\ child = "tell_parent"
               /\ child' = "exited"
               /\ pending' = blocked /\ flag' = (flag \/ ~blocked)
               /\ UNCHANGED <<parent, blocked, printed>>

TestFlag == /\ \/ Goes("wait_child", "sigsuspend") /\ ~flag /\ UNCHANGED flag
               \/ Goes("wait_child", "print") /\ flag /\ flag' = FALSE
            /\ UNCHANGED <<child, blocked, pending, printed>>

\* sigsuspend unblocks, runs the handler and blocks again, in one step.
Sigsuspend == /\ Goes("sigsuspend", "wait_child")
              /\ pending
              /\ flag' = TRUE /\ pending' = FALSE
              /\ UNCHANGED <<child, blocked, printed>>

\* sigprocmask with no new set leaves the signals blocked.
ParentPrints == /\ Goes("print", "wait")
                /\ printed' = Append(printed, "later parent")
                /\ UNCHANGED <<child, flag, blocked, pending>>

ParentWaits == /\ Goes("wait", "exited")
               /\ child = "exited"
               /\ UNCHANGED <<child, flag, blocked, pending, printed>>

Next == tell_wait \/ Fork \/ ChildPrints \/ tell_parent \/ TestFlag
        \/ Sigsuspend \/ ParentPrints \/ ParentWaits
Fairness == WF_vars(Next)
FairSpec == Init /\ [][Next]_vars /\ Fairness

---------------------------------------------------------------------------
(* Unless fork fails, both processes come to their end and the parent has  *)
(* printed after the child: the signal is neither missed between the test  *)
(* of flag and sigsuspend nor taken before it was sent.                    *)
ChildThenParent ==
    <>(/\ parent = "exited"
       /\ child # "none" => printed = <<"first child", "later parent">>)
=============================================================================
