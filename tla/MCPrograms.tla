----------------------------- MODULE MCPrograms -----------------------------
(* The concurrent programs and threads of the repository that stand by     *)
(* themselves, side by side for TLC: running says which of them is started.*)
(* The others stay in their initial state.                                 *)
EXTENDS Philosophers, EventLoopThread, ChatServer

CONSTANTS Slots, MaxConsumed, Base, Size, Extra, BUFSIZE, MaxSegments, MaxSec, Times

VARIABLES running,
          slots, proc_index, cons_index, ind, producing, consuming, consumed,
          parent, child, flag, blocked, pending, printed,
          at, request, answer, left, out, wire, tosend, sock, segments, peer, header,
          content, cut,
          sleeping, sec, res, omask, masked, alarmed, action, clock,
          count, freed, locked, held, released, early, main

\* Strings of n bytes, records of the answer, and requests with parameters of
\* given lengths: around Base / 2, Base and the sizes of the buffer.
Str(n) == [i \in 1..n |-> (i * 3) % Base]
Rec(t, n, p) == [type |-> t, body |-> Str(n), padding |-> p]
Req(ps, post, n) ==
    [params |-> [i \in DOMAIN ps |-> <<Str(ps[i][1]), Str(ps[i][2])>>],
     post |-> post, content |-> Str(n)]
Requests == {Req(<<<<2, 3>>>>, FALSE, 0), Req(<<<<7, 8>>>>, FALSE, 0),
             Req(<<<<8, 7>>>>, FALSE, 0), Req(<<<<7, 8>>, <<8, 7>>, <<9, 20>>>>, FALSE, 0),
             Req(<<<<0, 0>>, <<1, 1>>>>, TRUE, 5), Req(<<>>, TRUE, 50), Req(<<>>, TRUE, 60),
             Req(<<>>, TRUE, 255), Req(<<>>, TRUE, 256), Req(<<<<20, 60>>>>, FALSE, 0)}
Short == <<Rec(3, 8, 0)>>
Long == <<Rec(6, 3, 2), Rec(7, 2, 1), Rec(6, 2, 0), Rec(3, 8, 0)>>
Plain == [request |-> Req(<<>>, FALSE, 0), answer |-> Long]
Exchanges == {[request |-> r, answer |-> Short] : r \in Requests} \cup {Plain}
Zeros == [i \in 1..8 |-> 0]
Headers == {Zeros, <<1, 6, 0, 1, 0, 2, 0, 0>>}

C == INSTANCE ProcCons WITH buf <- slots
S == INSTANCE SyncProc
F == INSTANCE FcgiConnection WITH pc <- at, Garbage <- Headers
Z == INSTANCE SigSleep WITH pc <- sleeping, blocked <- masked, pending <- alarmed
N == INSTANCE StatCount

cVars == <<slots, proc_index, cons_index, ind, producing, consuming, consumed>>
sVars == <<parent, child, flag, blocked, pending, printed>>
fVars == <<at, request, answer, left, out, wire, tosend, sock, segments, peer, header,
           content, cut>>
zVars == <<sleeping, sec, res, omask, masked, alarmed, action, clock>>
nVars == <<count, freed, locked, held, released, early, main>>
allVars == <<running, vars, poolVars, cVars, sVars, chatVars, fVars, zVars, nVars>>

Programs == {"philosopher", "eventloopThread", "proc_cons", "sync_proc", "chatServer",
             "FcgiConnection", "sleep", "stat"}

ProgramsInit ==
    /\ running \in Programs
    /\ Init /\ PoolInit /\ C!Init /\ S!Init /\ ChatInit /\ F!Init /\ Z!Init /\ N!init_stat
    /\ running # "eventloopThread" => _loop = [k \in Ids |-> Null]
    /\ running # "FcgiConnection" => request = Plain.request /\ peer = "open" /\ header = Zeros
    /\ running # "sleep" => sec = 1 /\ ~omask

\* Whose step it is; the others stay as they are.
Philosophy == /\ running = "philosopher"
              /\ UNCHANGED <<running, poolVars, cVars, sVars, chatVars, fVars, zVars, nVars>>
Threading == /\ running = "eventloopThread"
             /\ UNCHANGED <<running, vars, cVars, sVars, chatVars, fVars, zVars, nVars>>
Producing == /\ running = "proc_cons"
             /\ UNCHANGED <<running, vars, poolVars, sVars, chatVars, fVars, zVars, nVars>>
Signalling == /\ running = "sync_proc"
              /\ UNCHANGED <<running, vars, poolVars, cVars, chatVars, fVars, zVars, nVars>>
Chatting == /\ running = "chatServer"
            /\ UNCHANGED <<running, vars, poolVars, cVars, sVars, fVars, zVars, nVars>>
Asking == /\ running = "FcgiConnection"
          /\ UNCHANGED <<running, vars, poolVars, cVars, sVars, chatVars, zVars, nVars>>
Sleeping == /\ running = "sleep"
            /\ UNCHANGED <<running, vars, poolVars, cVars, sVars, chatVars, fVars, nVars>>
Counting == /\ running = "stat"
            /\ UNCHANGED <<running, vars, poolVars, cVars, sVars, chatVars, fVars, zVars>>

ProgramsNext == \/ Philosophy /\ Next
                \/ Threading /\ PoolNext
                \/ Producing /\ C!Next
                \/ Signalling /\ S!Next
                \/ Chatting /\ ChatNext
                \/ Asking /\ F!Next
                \/ Sleeping /\ Z!Next
                \/ Counting /\ N!Next

\* The fairness of each program, for its own steps.
ProgramsFairness ==
    /\ \A i \in People : WF_allVars(Philosophy /\ philosopher(i))
    /\ WF_allVars(Threading /\ Owner)
    /\ \A k \in Ids : WF_allVars(Threading /\ ThreadFunc(k))
    /\ WF_allVars(Producing /\ (C!produce \/ C!WaitNotFull))
    /\ WF_allVars(Producing /\ (C!consum \/ C!WaitNotEmpty))
    /\ WF_allVars(Signalling /\ S!Next)
    /\ WF_allVars(Sleeping /\ Z!Step) /\ WF_allVars(Sleeping /\ Z!Tick)
    /\ WF_allVars(Counting /\ N!hold_stat)
    /\ WF_allVars(Counting /\ (N!release_stat \/ N!Join))
    /\ WF_allVars(Asking /\ F!Client)
    /\ WF_allVars(Asking /\ F!Deliver) /\ WF_allVars(Asking /\ F!Close)

ProgramsSpec == ProgramsInit /\ [][ProgramsNext]_allVars /\ ProgramsFairness

---------------------------------------------------------------------------
(* What one side waits for reaches it: a meal of the philosophers is       *)
(* always to come, pthread/proc_cons.c consumes every datum of the first   *)
(* round in turn, in signal/sync_proc.c the parent always prints, and      *)
(* after the child, and the last release of pthread/main.c, if none came   *)
(* early, destroys what the thread held.                                   *)
HandedOver == /\ running = "philosopher" => MealsGoOn
              /\ running = "proc_cons" => C!ProducedIsConsumed
              /\ running = "sync_proc" => S!ChildThenParent
              /\ running = "stat" => N!FreedByTheLast

(* The records FcgiConnection writes are the request, and readContent      *)
(* gathers the content of the answer and nothing else.                     *)
RecordsAreRight == F!RequestParses /\ F!ContentIsRead

(* The calls that wait come back: start() of the pool of loops and the     *)
(* destructors of its threads, readContent however the answer is cut or    *)
(* broken off, and the sleep of signal/sleep.c whenever its alarm comes.   *)
CallsReturn == /\ running = "eventloopThread" => ThreadsEnd
               /\ running = "FcgiConnection" => F!ReadContentReturns
               /\ running = "sleep" => Z!SleepReturns
=============================================================================
