------------------------------ MODULE SigSleep ------------------------------
(* signal/sleep.c: sleep() made of alarm and sigsuspend.  SIGALRM is       *)
(* blocked while the handler and the alarm are set, so that it can only    *)
(* be taken inside sigsuspend.  Time and the other signals, whose handler  *)
(* returns, are external; seconds are bounded by MaxSec.                   *)
EXTENDS Naturals

CONSTANT MaxSec

VARIABLES pc,        \* the next call of sleep, "returned", or "killed"
          sec, res,  \* the argument and the result
          omask,     \* whether the caller has SIGALRM blocked
          blocked, pending,
          action,    \* of SIGALRM: "oact", which kills, or "wakeup"
          clock      \* seconds until the alarm, 0 for none

vars == <<pc, sec, res, omask, blocked, pending, action, clock>>

Init == /\ pc = "block"
        /\ sec \in 1..MaxSec
        /\ omask \in BOOLEAN /\ blocked = omask
        /\ res = 0 /\ pending = FALSE /\ action = "oact" /\ clock = 0

Goes(from, to) == pc = from /\ pc' = to

LeavesOpen == /\ Goes("block", "action")
              /\ UNCHANGED <<sec, res, omask, blocked, pending, action, clock>>
Block == /\ Goes("block", "action")
         /\ blocked' = TRUE
         /\ UNCHANGED <<sec, res, omask, pending, action, clock>>

SetAction == /\ Goes("action", "alarm")
             /\ action' = "wakeup"
             /\ UNCHANGED <<sec, res, omask, blocked, pending, clock>>

Alarm == /\ Goes("alarm", "suspend")
         /\ clock' = sec
         /\ UNCHANGED <<sec, res, omask, blocked, pending, action>>

\* The mask of sigsuspend lets SIGALRM in; any signal ends it.
Sigsuspend == /\ Goes("suspend", "cancel")
              /\ pending
              /\ pending' = FALSE
              /\ UNCHANGED <<sec, res, omask, blocked, action, clock>>
Interrupted == /\ Goes("suspend", "cancel")
               /\ UNCHANGED <<sec, res, omask, blocked, pending, action, clock>>

Cancel == /\ Goes("cancel", "unmask")
          /\ res' = clock /\ clock' = 0
          /\ UNCHANGED <<sec, omask, blocked, pending, action>>

\* A pending SIGALRM is taken before sigprocmask returns.
Unmask == /\ pc = "unmask"
          /\ blocked' = omask
          /\ pending' = (pending /\ omask)
          /\ pc' = IF pending /\ ~omask /\ action = "oact" THEN "killed" ELSE "restore"
          /\ UNCHANGED <<sec, res, omask, action, clock>>

Restore == /\ Goes("restore", "returned")
           /\ action' = "oact"
           /\ UNCHANGED <<sec, res, omask, blocked, pending, clock>>

\* A second passes; when the alarm is due the signal waits, or is taken.
Tick == /\ clock > 0
        /\ clock' = clock - 1
        /\ pending' = (pending \/ (clock = 1 /\ blocked))
        /\ pc' = IF clock = 1 /\ ~blocked /\ action = "oact" THEN "killed" ELSE pc
        /\ UNCHANGED <<sec, res, omask, blocked, action>>

Step == Block \/ SetAction \/ Alarm \/ Sigsuspend \/ Cancel \/ Unmask \/ Restore
Next == Step \/ Tick \/ Interrupted

Fairness == WF_vars(Step) /\ WF_vars(Tick)
FairSpec == Init /\ [][Next]_vars /\ Fairness

---------------------------------------------------------------------------
(* sleep returns, whenever the alarm comes: it is not lost before the wait *)
(* and does not meet the action of the caller after it.  The mask and the  *)
(* action are then those of the caller, the result no more than the        *)
(* argument.  (With the argument 0 no alarm is set and nothing ends the    *)
(* wait but another signal.)                                               *)
SleepReturns == <>(pc = "returned" /\ blocked = omask /\ action = "oact" /\ res <= sec)
=============================================================================
