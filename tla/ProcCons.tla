------------------------------ MODULE ProcCons ------------------------------
(* pthread/proc_cons.c: a producer and a consumer around an array of       *)
(* slots, with a mutex and two condition variables.  What a thread does    *)
(* under the mutex is one step, up to a wait.  The process ends ten        *)
(* milliseconds after its start; the model is of the threads until then.   *)
EXTENDS Integers, Sequences

CONSTANTS Slots,      \* 1024
          MaxConsumed \* data consumed (bound of the exploration)

VARIABLES buf, proc_index, cons_index, ind,
          producing, consuming,   \* FALSE while the thread waits
          consumed                \* the data printed by the consumer

vars == <<buf, proc_index, cons_index, ind, producing, consuming, consumed>>

Init == /\ buf = [k \in 0..(Slots - 1) |-> -1]
        /\ proc_index = 0 /\ cons_index = 0 /\ ind = 0
        /\ producing = TRUE /\ consuming = TRUE
        /\ consumed = <<>>

Following(k) == IF k + 1 = Slots THEN 0 ELSE k + 1

Full == buf[proc_index] # -1
NeverEmpty == FALSE
Empty == proc_index = cons_index /\ buf[cons_index] = -1

WaitNotFull == /\ producing /\ Full
               /\ producing' = FALSE
               /\ UNCHANGED <<buf, proc_index, cons_index, ind, consuming, consumed>>

produce == /\ producing /\ ~Full
           /\ buf' = [buf EXCEPT ![proc_index] = ind]
           /\ ind' = ind + 1
           /\ proc_index' = Following(proc_index)
           /\ consuming' = TRUE
           /\ UNCHANGED <<cons_index, producing, consumed>>

WaitNotEmpty == /\ consuming /\ Empty
                /\ consuming' = FALSE
                /\ UNCHANGED <<buf, proc_index, cons_index, ind, producing, consumed>>

\* "buf[cons_index] == -1;" compares and clears nothing: the slot keeps its
\* datum, and after one round there is no slot the producer would fill.
consum == /\ consuming /\ ~Empty
          /\ Len(consumed) < MaxConsumed
          /\ consumed' = Append(consumed, buf[cons_index])
          /\ cons_index' = Following(cons_index)
          /\ producing' = TRUE
          /\ UNCHANGED <<buf, proc_index, ind, consuming>>

Next == produce \/ WaitNotFull \/ consum \/ WaitNotEmpty
Fairness == WF_vars(produce \/ WaitNotFull) /\ WF_vars(consum \/ WaitNotEmpty)
FairSpec == Init /\ [][Next]_vars /\ Fairness

---------------------------------------------------------------------------
(* In the first round through the slots, every datum produced is consumed  *)
(* later, once and in its turn: the two tests of the slots and the two     *)
(* signals lose no wake-up and let the consumer take no empty slot.        *)
ProducedIsConsumed ==
    \A d \in 0..(Slots - 1) :
        ind > d ~> (Len(consumed) > d /\ consumed[d + 1] = d)
=============================================================================
