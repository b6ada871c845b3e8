------------------------------- MODULE Buffer -------------------------------
(* http_server/Buffer: a vector of bytes with two positions. The bytes in  *)
(* [low, high) are the data, those in [high, size) can be written.  The    *)
(* functions are operators on a buffer; the state machine below drives one *)
(* the way HttpConnection and FcgiConnection do and keeps beside it the    *)
(* queue of bytes it stands for.                                           *)
(*                                                                         *)
(* Memory behind the capacity is not the buffer's: the first write to it,  *)
(* like the compaction that leaves high where it was, makes the buffer     *)
(* undefined (over, moved), and nothing is said of it from then on.        *)
EXTENDS Integers, Sequences, Functions

CONSTANTS Size,      \* length of the vector a buffer is made with, 4096
          Extra,     \* bytes read(fd) can take beyond the buffer, 65536
          Lengths,   \* lengths of the strings appended, read and dropped
          MaxBytes   \* bytes put into one buffer (bound of the exploration)

ASSUME BufferAssumption == Size \in Nat /\ Extra \in Nat /\ MaxBytes \in Nat /\ Lengths \subseteq Nat

VARIABLES buffer,    \* the Buffer
          unread,    \* the bytes put in and not yet dropped
          total      \* how many were put in

bufferVars == <<buffer, unread, total>>

NewBuffer == [mem |-> [i \in 1..Size |-> 0], low |-> 0, high |-> 0,
              capacity |-> Size, over |-> FALSE, moved |-> FALSE]

freeLen(b) == b.low + Size - b.high
dataLen(b) == b.high - b.low
\* Negative once the data extends into reserved memory behind the size.
writeLen(b) == Size - b.high

Data(b) == SubSeq(b.mem, b.low + 1, b.high)
Defined(b) == ~b.over /\ ~b.moved

Copy(mem, at, s) ==
    SubSeq(mem, 1, at) \o s \o SubSeq(mem, at + Len(s) + 1, Len(mem))

Put(b, s) == [b EXCEPT !.mem = Copy(@, b.high, s), !.high = @ + Len(s),
                       !.over = @ \/ b.high + Len(s) > b.capacity]

\* reserve changes the capacity and not the size.
Reserve(b, len) == [b EXCEPT !.capacity = @ + 2 * len]

\* high is computed by dataLen() after low has become 0: it stays.
Compact(b) == [b EXCEPT !.mem = Copy(@, 0, Data(b)), !.low = 0, !.moved = TRUE]

\* The comparisons are made as size_t, in which a negative writeLen is huge.
Fits(b, len) == writeLen(b) < 0 \/ len <= writeLen(b)

append(b, s) ==
    CASE s = <<>> \/ Fits(b, Len(s)) -> Put(b, s)
      [] ~Fits(b, Len(s)) /\ freeLen(b) < Len(s) -> Put(Reserve(b, Len(s)), s)
      [] OTHER -> Put(Compact(b), s)

\* read(fd): readv into the rest of the vector and an array on the stack.
\* With a negative writeLen the first length is no ssize_t and readv fails.
CanRead(b) == writeLen(b) >= 0
readvDropsRest(b, s) == IF Len(s) <= writeLen(b) THEN Put(b, s)
                        ELSE Put(b, SubSeq(s, 1, writeLen(b)))
readv(b, s) ==
    IF Len(s) <= writeLen(b) THEN Put(b, s)
    ELSE append(Put(b, SubSeq(s, 1, writeLen(b))),
                SubSeq(s, writeLen(b) + 1, Len(s)))

\* read(fd, len), when read(2) has returned the bytes s.
readLen(b, len, s) ==
    Put(IF Fits(b, len) THEN b ELSE Reserve(b, len), s)

\* The new buffer, or the same one when the call returns false.
moveLow(b, n) == IF n + b.low > b.high THEN b ELSE [b EXCEPT !.low = @ + n]
moveHigh(b, n) == IF b.low > n THEN b ELSE [b EXCEPT !.high = n]

\* findChar over [first, last), counted from peek(); -1 when there is none.
findChar(b, c, first, last) ==
    LET found == {i \in first..(last - 1) : b.mem[b.low + i + 1] = c}
    IN  IF first >= last \/ last > dataLen(b) \/ found = {} THEN -1
        ELSE CHOOSE i \in found : \A j \in found : i <= j

---------------------------------------------------------------------------
\* The bytes that arrive are numbered, so that none is taken for its neighbour.
Arriving(n) == [i \in 1..n |-> (total + i) % 7]

BufferInit == buffer = NewBuffer /\ unread = <<>> /\ total = 0

Gets(b, s) == /\ total + Len(s) <= MaxBytes
              /\ buffer' = b
              /\ unread' = unread \o s
              /\ total' = total + Len(s)

AppendBytes(n) == Gets(append(buffer, Arriving(n)), Arriving(n))

Read(n) == /\ CanRead(buffer)
           /\ n <= writeLen(buffer) + Extra
           /\ Gets(readv(buffer, Arriving(n)), Arriving(n))

\* read(2) may return fewer bytes than it was asked for.
ReadLen(len, n) == /\ n <= len
                   /\ Gets(readLen(buffer, len, Arriving(n)), Arriving(n))

MoveLow(n) ==
    /\ buffer' = moveLow(buffer, n)
    /\ unread' = IF n > Len(unread) THEN unread
                 ELSE SubSeq(unread, n + 1, Len(unread))
    /\ UNCHANGED total

\* Called with a position in the data: what is behind it is given up.
MoveHigh(n) ==
    /\ n <= buffer.high
    /\ buffer' = moveHigh(buffer, n)
    /\ unread' = IF n < buffer.low THEN unread
                 ELSE SubSeq(unread, 1, n - buffer.low)
    /\ UNCHANGED total

BufferNext ==
    /\ Defined(buffer)
    /\ \E n \in Lengths :
          \/ AppendBytes(n) \/ Read(n) \/ MoveLow(n) \/ MoveHigh(n)
          \/ \E len \in Lengths : ReadLen(len, n)

BufferSpec == BufferInit /\ [][BufferNext]_bufferVars

---------------------------------------------------------------------------
(* Through reads that overflow into the stack array, growth and writes     *)
(* behind the size, the data of a buffer that is still defined is exactly  *)
(* the bytes put in and not yet dropped, in order (append, read, moveLow   *)
(* and moveHigh agree on low, high and size), and findChar finds in any    *)
(* range the first byte that is equal.                                     *)
BufferIsQueue ==
    Defined(buffer) =>
        /\ Data(buffer) = unread
        /\ \A first, last \in 0..Len(unread), c \in 0..6 :
              LET i == findChar(buffer, c, first, last)
              IN  IF first < last /\ c \in Range(SubSeq(unread, first + 1, last))
                  THEN /\ i \in first..(last - 1)
                       /\ unread[i + 1] = c
                       /\ c \notin Range(SubSeq(unread, first + 1, i))
                  ELSE i = -1
=============================================================================
