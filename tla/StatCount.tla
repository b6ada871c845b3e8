------------------------------ MODULE StatCount -----------------------------
(* pthread/main.c: an object with a count and a mutex, held Times times by *)
(* a thread and released Times times by main, which sleeps for a second in *)
(* between.  A release that finds the count 0 returns with the mutex       *)
(* locked, the one that makes it 0 destroys the object.  The sleep is no   *)
(* guard: main may go on at any time, and early records that it did so     *)
(* before the thread was done.                                             *)
EXTENDS Naturals

CONSTANT Times

VARIABLES count, freed,
          locked,          \* by a release that did not unlock
          held, released,  \* calls made by the thread and by main
          early,
          main             \* "runs", "ended" or, after a use of what was freed, "undefined"

vars == <<count, freed, locked, held, released, early, main>>

init_stat == /\ count = 0 /\ freed = FALSE /\ locked = FALSE
             /\ held = 0 /\ released = 0 /\ early = FALSE /\ main = "runs"

hold_stat == /\ main # "undefined" /\ ~locked
             /\ held < Times
             /\ held' = held + 1
             /\ IF freed THEN main' = "undefined" /\ UNCHANGED count
                ELSE count' = count + 1 /\ UNCHANGED main
             /\ UNCHANGED <<freed, locked, released, early>>

FreesAtOne(n) == n = 1
Last(n) == n = 0

release_stat == /\ main = "runs" /\ ~locked
                /\ released < Times
                /\ released' = released + 1
                /\ early' = (early \/ held < Times)
                /\ IF freed THEN main' = "undefined" /\ UNCHANGED <<count, freed, locked>>
                   ELSE IF count = 0 THEN locked' = TRUE /\ UNCHANGED <<main, count, freed>>
                   ELSE /\ count' = count - 1
                        /\ freed' = Last(count - 1)
                        /\ UNCHANGED <<main, locked>>
                /\ UNCHANGED held

Join == /\ main = "runs" /\ released = Times /\ held = Times
        /\ main' = "ended"
        /\ UNCHANGED <<count, freed, locked, held, released, early>>

Next == hold_stat \/ release_stat \/ Join
Fairness == WF_vars(hold_stat) /\ WF_vars(release_stat \/ Join)
FairSpec == init_stat /\ [][Next]_vars /\ Fairness

---------------------------------------------------------------------------
(* If the sleep of main was long enough, the object is destroyed by the    *)
(* last release, nothing uses it afterwards, and main joins the thread.    *)
FreedByTheLast == <>(early \/ (main = "ended" /\ freed /\ ~locked))
=============================================================================
