---------------------------- MODULE RecentCache -----------------------------
(* What a least-recently-used cache promises: the entries from the most to *)
(* the least recently used, at most capacity of them.                      *)
EXTENDS Integers, Sequences, SequencesExt

CONSTANTS Keys, Values, capacity
VARIABLES entries,   \* <<key, value>> pairs, most recently used first
          returned   \* the answer to the last get, -1 when there is none

Of(k) == SelectSeq(entries, LAMBDA e : e[1] = k)
Others(k) == SelectSeq(entries, LAMBDA e : e[1] # k)
Kept(s) == SubSeq(s, 1, IF Len(s) < capacity THEN Len(s) ELSE capacity)

Init == entries = <<>> /\ returned = -1

Get(k) == /\ entries' = Of(k) \o Others(k)
          /\ returned' = IF Of(k) = <<>> THEN -1 ELSE Of(k)[1][2]
Put(k, v) == entries' = Kept(<<<<k, v>>>> \o Others(k)) /\ UNCHANGED returned

Next == \E k \in Keys : Get(k) \/ \E v \in Values : Put(k, v)
Spec == Init /\ [][Next]_<<entries, returned>>
=============================================================================
