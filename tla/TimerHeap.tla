----------------------------- MODULE TimerHeap -----------------------------
(***************************************************************************)
(* The timer heap: http_server/TimerHeap.{h,cpp}.                          *)
(*                                                                         *)
(* Loop threads push timers and, in HttpConnection::handleRead, postpone   *)
(* them; the SIGALRM handler runs tick.  pushTimer, popTimer and the       *)
(* postponement hold _lock from their first to their last statement.  Each *)
(* iteration of their sift loops is a step of its own, taken with the lock *)
(* held: the lock is free exactly when sift = "none".  tick takes the lock *)
(* anew for empty, topTimer and popTimer, and calls the callback without.  *)
(***************************************************************************)
EXTENDS Integers

CONSTANTS
    Timers,
    Capacity,  \* the length of _vec, 64 in the server
    Delays,    \* the seconds a timer is created with, or postponed by
    MaxTime,   \* bound: where the clock stops, and the latest expiry
    Null

ASSUME HeapAssumption ==
    /\ Capacity \in Nat \ {0}
    /\ Delays \subseteq Nat
    /\ MaxTime \in Nat
    /\ Null \notin Timers

VARIABLES
    vec,       \* _vec
    nums,      \* _nums
    expire,
    index,
    now,       \* time(nullptr)
    sift,      \* the loop the holder of _lock is in: "none", "up" or "down"
    hole,      \* the variable h of pushTimer, index of down
    pushed,    \* the timer whose pushTimer is in progress
    ticker,    \* the next call of tick
    cur, top,  \* the local variables of tick
    fired      \* history: the timers whose callback was called

heapVars == <<vec, nums, expire, index>>
siftVars == <<sift, hole, pushed>>
tickVars == <<ticker, cur, top, fired>>
vars == <<heapVars, siftVars, tickVars, now>>

NotInHeap == -1
Popped == -2

(* The positions of the array in use.                                      *)
Stored == {i \in 0..(Capacity - 1) : i < nums}

LockFree == sift = "none"

Init ==
    /\ vec = [i \in 0..(Capacity - 1) |-> Null]
    /\ nums = 0
    /\ expire = [t \in Timers |-> 0]
    /\ index = [t \in Timers |-> NotInHeap]
    /\ now = 0
    /\ sift = "none" /\ hole = 0 /\ pushed = Null
    /\ ticker = "idle" /\ cur = 0 /\ top = Null
    /\ fired = {}

Elapse ==
    /\ now < MaxTime
    /\ now' = now + 1
    /\ UNCHANGED <<heapVars, siftVars, tickVars>>

-----------------------------------------------------------------------------
OverwritesOnSwap(v, i, j) == [v EXCEPT ![i] = v[j]]

Swap(v, i, j) == [v EXCEPT ![i] = v[j], ![j] = v[i]]

Parent(h) == (h - 1) \div 2

(* pushTimer                                                               *)

NewTimer(t) == index[t] = NotInHeap /\ pushed # t

PushTimer(t, sec) ==
    /\ LockFree /\ NewTimer(t)
    /\ nums < Capacity
    /\ now + sec <= MaxTime
    /\ expire' = [expire EXCEPT ![t] = now + sec]
    /\ nums' = nums + 1
    /\ vec' = [vec EXCEPT ![nums] = t]
    /\ sift' = "up" /\ hole' = nums /\ pushed' = t
    /\ UNCHANGED <<index, tickVars, now>>

(* A push beyond the capacity counts the timer without storing it; the     *)
(* loop then reads past the end of the array, after which nothing is       *)
(* defined.                                                                *)
PushOverflows(t) ==
    /\ LockFree /\ NewTimer(t)
    /\ nums = Capacity
    /\ nums' = nums + 1
    /\ sift' = "undefined"
    /\ UNCHANGED <<vec, expire, index, hole, pushed, tickVars, now>>

RisesOnTies(h) == h > 0 /\ expire[vec[Parent(h)]] >= expire[vec[h]]

Rises(h) == h > 0 /\ expire[vec[Parent(h)]] > expire[vec[h]]

SiftUp ==
    /\ sift = "up"
    /\ Rises(hole)
    /\ vec' = Swap(vec, Parent(hole), hole)
    /\ hole' = Parent(hole)
    /\ UNCHANGED <<nums, expire, index, sift, pushed, tickVars, now>>

FinalIndex == hole

SiftUpEnds ==
    /\ sift = "up"
    /\ ~Rises(hole)
    /\ index' = [index EXCEPT ![pushed] = FinalIndex]
    /\ sift' = "none" /\ pushed' = Null
    /\ UNCHANGED <<vec, nums, expire, hole, tickVars, now>>

-----------------------------------------------------------------------------
(* down                                                                    *)

Child(i) ==
    IF 2 * i + 2 < nums /\ expire[vec[2 * i + 1]] >= expire[vec[2 * i + 2]]
    THEN 2 * i + 2 ELSE 2 * i + 1

NeedsTwoChildren(i) == 2 * i + 2 < nums /\ expire[vec[i]] > expire[vec[Child(i)]]

Sinks(i) == 2 * i + 1 < nums /\ expire[vec[i]] > expire[vec[Child(i)]]

SiftDown ==
    /\ sift = "down"
    /\ Sinks(hole)
    /\ vec' = Swap(vec, hole, Child(hole))
    /\ hole' = Child(hole)
    /\ UNCHANGED <<nums, expire, index, sift, pushed, tickVars, now>>

SiftDownEnds ==
    /\ sift = "down"
    /\ ~Sinks(hole)
    /\ sift' = "none"
    /\ UNCHANGED <<heapVars, hole, pushed, tickVars, now>>

-----------------------------------------------------------------------------
(* tick, with the calls it makes                                           *)

TickBegins ==
    /\ ticker = "idle"
    /\ cur' = now
    /\ ticker' = "empty"
    /\ UNCHANGED <<heapVars, siftVars, top, fired, now>>

TickEmpty ==
    /\ ticker = "empty" /\ LockFree
    /\ ticker' = IF nums = 0 THEN "idle" ELSE "top"
    /\ UNCHANGED <<heapVars, siftVars, cur, top, fired, now>>

TickTop ==
    /\ ticker = "top" /\ LockFree
    /\ top' = vec[0]
    /\ ticker' = "test"
    /\ UNCHANGED <<heapVars, siftVars, cur, fired, now>>

TickTest ==
    /\ ticker = "test"
    /\ ticker' = IF expire[top] > cur THEN "idle" ELSE "cb"
    /\ UNCHANGED <<heapVars, siftVars, cur, top, fired, now>>

TickCallback ==
    /\ ticker = "cb"
    /\ fired' = fired \cup {top}
    /\ ticker' = "pop"
    /\ UNCHANGED <<heapVars, siftVars, cur, top, now>>

RootLast == Swap(vec, 0, nums - 1)

TickPop ==
    /\ ticker = "pop" /\ LockFree
    /\ index' = [index EXCEPT ![RootLast[nums - 1]] = Popped]
    /\ vec' = [RootLast EXCEPT ![nums - 1] = Null]
    /\ nums' = nums - 1
    /\ sift' = "down" /\ hole' = 0
    /\ ticker' = "empty"
    /\ UNCHANGED <<expire, pushed, cur, top, fired, now>>

-----------------------------------------------------------------------------
(* HttpConnection::handleRead: postpone a timer that is in the heap.       *)
Postpone(t, sec) ==
    /\ LockFree
    /\ index[t] >= 0
    /\ now + sec <= MaxTime
    /\ expire' = [expire EXCEPT ![t] = now + sec]
    /\ sift' = "down" /\ hole' = index[t]
    /\ UNCHANGED <<vec, nums, index, pushed, tickVars, now>>

-----------------------------------------------------------------------------
HeapStep == SiftUp \/ SiftUpEnds \/ SiftDown \/ SiftDownEnds

TickStep == TickBegins \/ TickEmpty \/ TickTop \/ TickTest \/ TickCallback \/ TickPop

Next ==
    \/ Elapse
    \/ \E t \in Timers : PushOverflows(t) \/ \E sec \in Delays : PushTimer(t, sec)
    \/ HeapStep
    \/ TickStep

Spec == Init /\ [][Next]_vars

(* The heap as the server uses it: its timers are postponed, too.          *)
ServerNext == Next \/ \E t \in Timers, sec \in Delays : Postpone(t, sec)

ServerSpec == Init /\ [][ServerNext]_vars

-----------------------------------------------------------------------------
TypeOK ==
    /\ vec \in [0..(Capacity - 1) -> Timers \cup {Null}]
    /\ nums \in 0..(Capacity + 1)
    /\ expire \in [Timers -> Nat]
    /\ index \in [Timers -> -2..(Capacity - 1)]
    /\ now \in Nat
    /\ sift \in {"none", "up", "down", "undefined"}
    /\ hole \in 0..(Capacity - 1)
    /\ pushed \in Timers \cup {Null}
    /\ ticker \in {"idle", "empty", "top", "test", "cb", "pop"}
    /\ cur \in Nat
    /\ top \in Timers \cup {Null}
    /\ fired \subseteq Timers

(* The heap order, whenever a thread can take the lock: no timer expires   *)
(* before its parent in the array.                                         *)
HeapOrder ==
    LockFree => \A i \in Stored, j \in Stored :
                    j \in {2 * i + 1, 2 * i + 2} => expire[vec[i]] <= expire[vec[j]]

(* The swaps of the sift loops lose and duplicate nothing: the array holds *)
(* exactly the timers that were pushed and not popped, each once.          *)
TimersInOnePlace ==
    /\ \A i, j \in Stored : vec[i] = vec[j] => i = j
    /\ \A t \in Timers : (\E i \in Stored : vec[i] = t) <=> (index[t] >= 0 \/ pushed = t)

(* popTimer removes the timer whose callback tick has just called, or one  *)
(* that expires earlier, pushed meanwhile: tick lets the lock go between   *)
(* topTimer and popTimer.  With the one delay the server uses no timer     *)
(* pushed later expires earlier, so what is popped has fired.              *)
PopsFiredOrEarlier ==
    ticker = "pop" => vec[0] = top \/ expire[vec[0]] < expire[top]
=============================================================================
