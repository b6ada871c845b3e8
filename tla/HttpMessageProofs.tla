------------------------- MODULE HttpMessageProofs -------------------------
(***************************************************************************)
(* Proofs about HttpMessage for any requests of any length, cut into any   *)
(* segments, and any number of them: the answers are the right ones, the   *)
(* client gets them whole, and the connection is closed when it should be. *)
(***************************************************************************)
EXTENDS HttpMessage, TLAPS

BodyTokens == {Pairs, Junk}

Tokens == Lines \cup Headers \cup BodyTokens \cup {CR, LF}

-----------------------------------------------------------------------------

(* The position of a piece in a concatenation, as in the appends to the    *)
(* two buffers.                                                            *)
LEMMA ConcatFacts ==
    ASSUME NEW S, NEW s \in Seq(S), NEW u \in Seq(S)
    PROVE  /\ s \o u \in Seq(S)
           /\ Len(s \o u) = Len(s) + Len(u)
           /\ \A i \in 1..Len(s) : (s \o u)[i] = s[i]
           /\ \A i \in 1..Len(u) : (s \o u)[Len(s) + i] = u[i]
           /\ \A i \in (Len(s) + 1)..(Len(s) + Len(u)) : (s \o u)[i] = u[i - Len(s)]
  OBVIOUS

(* The empty sequence: no data in a buffer, nothing sent or answered.      *)
LEMMA EmptyFacts == Len(<<>>) = 0 /\ DOMAIN <<>> = {} /\ \A S : <<>> \in Seq(S)
  OBVIOUS

(* What a moveLow, or a segment that was read, leaves of a sequence.       *)
LEMMA RestFacts ==
    ASSUME NEW S, NEW s \in Seq(S), NEW m \in 0..Len(s)
    PROVE  /\ SubSeq(s, m + 1, Len(s)) \in Seq(S)
           /\ Len(SubSeq(s, m + 1, Len(s))) = Len(s) - m
           /\ \A i \in 1..(Len(s) - m) : SubSeq(s, m + 1, Len(s))[i] = s[m + i]
  OBVIOUS

(* What is in front of a place in a sequence: the text of a line, what the *)
(* socket takes of a write.                                                *)
LEMMA FrontFacts ==
    ASSUME NEW S, NEW s \in Seq(S), NEW n \in 0..Len(s)
    PROVE  /\ SubSeq(s, 1, n) \in Seq(S)
           /\ Len(SubSeq(s, 1, n)) = n
           /\ \A i \in 1..n : SubSeq(s, 1, n)[i] = s[i]
  OBVIOUS

(* The bytes of a request, by position.                                    *)
LEMMA BytesFacts ==
    ASSUME NEW r \in Requests
    PROVE  /\ r.line \in Lines /\ r.headers \in Seq(Headers) /\ r.body \in Seq(BodyTokens)
           /\ Bytes(r) \in Seq(Tokens)
           /\ Len(Bytes(r)) = 3 * Len(r.headers) + 5 + Len(r.body)
           /\ Bytes(r)[1] = r.line
           /\ \A j \in 1..Len(r.headers) : Bytes(r)[3 * j + 1] = r.headers[j]
           /\ \A j \in 0..Len(r.headers) : Bytes(r)[3 * j + 2] = CR /\ Bytes(r)[3 * j + 3] = LF
           /\ Bytes(r)[3 * Len(r.headers) + 4] = CR /\ Bytes(r)[3 * Len(r.headers) + 5] = LF
           /\ \A i \in 1..Len(r.body) : Bytes(r)[3 * Len(r.headers) + 5 + i] = r.body[i]
  <1> DEFINE H == Len(r.headers)
             F == [i \in 1..3 * (H + 1) |->
                      IF i % 3 = 2 THEN CR ELSE IF i % 3 = 0 THEN LF
                      ELSE IF i = 1 THEN r.line ELSE r.headers[i \div 3]]
             G == F \o <<CR, LF>>
  <1>1. r.line \in Lines /\ r.headers \in Seq(Headers) /\ r.body \in Seq(BodyTokens)
    BY RequestsAssumption DEF BodyTokens
  <1>2. H \in Nat /\ Len(r.body) \in Nat
    BY <1>1
  <1>3. ASSUME NEW i \in 1..3 * (H + 1) PROVE F[i] \in Tokens
    <2>1. CASE i % 3 = 2 \/ i % 3 = 0 \/ i = 1
      BY <2>1, <1>1 DEF Tokens
    <2>2. CASE ~(i % 3 = 2 \/ i % 3 = 0 \/ i = 1)
      <3>1. i \div 3 \in 1..H
        BY <2>2, <1>2
      <3> QED
        BY <3>1, <2>2, <1>1 DEF Tokens
    <2> QED
      BY <2>1, <2>2
  <1>4. F \in Seq(Tokens) /\ Len(F) = 3 * (H + 1)
    <2>1. 3 * (H + 1) \in Nat
      BY <1>2
    <2>2. F \in [1..3 * (H + 1) -> Tokens]
      BY <1>3, Zenon
    <2> HIDE DEF F
    <2> QED
      BY <2>1, <2>2
  <1>5. <<CR, LF>> \in Seq(Tokens) /\ Len(<<CR, LF>>) = 2
    BY DEF Tokens
  <1>6. r.body \in Seq(Tokens)
    BY <1>1 DEF Tokens
  <1>7. F[1] = r.line
    BY <1>2
  <1>8. ASSUME NEW j \in 1..H PROVE F[3 * j + 1] = r.headers[j]
    <2>1. 3 * j + 1 \in 1..3 * (H + 1) /\ (3 * j + 1) % 3 = 1 /\ (3 * j + 1) \div 3 = j
      BY <1>2
    <2> QED
      BY <2>1
  <1>9. ASSUME NEW j \in 0..H PROVE F[3 * j + 2] = CR /\ F[3 * j + 3] = LF
    <2>1. /\ 3 * j + 2 \in 1..3 * (H + 1) /\ (3 * j + 2) % 3 = 2
          /\ 3 * j + 3 \in 1..3 * (H + 1) /\ (3 * j + 3) % 3 = 0
      BY <1>2
    <2> QED
      BY <2>1
  <1>10. Bytes(r) = G \o r.body
    BY DEF Bytes
  <1> HIDE DEF F
  <1>11. /\ G \in Seq(Tokens) /\ Len(G) = 3 * H + 5
         /\ \A i \in 1..3 * (H + 1) : G[i] = F[i]
         /\ G[3 * H + 4] = CR /\ G[3 * H + 5] = LF
    <2>1. /\ G \in Seq(Tokens) /\ Len(G) = Len(F) + 2
          /\ \A i \in 1..Len(F) : G[i] = F[i]
          /\ \A i \in 1..2 : G[Len(F) + i] = <<CR, LF>>[i]
      BY <1>4, <1>5, ConcatFacts
    <2> HIDE DEF G
    <2>2. /\ 3 * (H + 1) + 1 = 3 * H + 4 /\ 3 * (H + 1) + 2 = 3 * H + 5
          /\ 3 * (H + 1) \in Nat
      BY <1>2
    <2>3. G[3 * H + 4] = <<CR, LF>>[1] /\ G[3 * H + 5] = <<CR, LF>>[2]
      BY <2>1, <2>2, <1>4
    <2> QED
      BY <2>1, <2>2, <2>3, <1>4
  <1> HIDE DEF G
  <1>12. /\ Bytes(r) \in Seq(Tokens) /\ Len(Bytes(r)) = 3 * H + 5 + Len(r.body)
         /\ \A i \in 1..(3 * H + 5) : Bytes(r)[i] = G[i]
         /\ \A i \in 1..Len(r.body) : Bytes(r)[3 * H + 5 + i] = r.body[i]
    <2>1. /\ Bytes(r) \in Seq(Tokens) /\ Len(Bytes(r)) = Len(G) + Len(r.body)
          /\ \A i \in 1..Len(G) : Bytes(r)[i] = G[i]
          /\ \A i \in 1..Len(r.body) : Bytes(r)[Len(G) + i] = r.body[i]
      <3>1. G \in Seq(Tokens)
        BY <1>11
      <3> QED
        BY <3>1, <1>6, <1>10, ConcatFacts
    <2> QED
      BY <2>1, <1>11, <1>2, Zenon
  <1>13. \A j \in 1..H : Bytes(r)[3 * j + 1] = r.headers[j]
    <2> TAKE j \in 1..H
    <2>1. 3 * j + 1 \in 1..3 * (H + 1) /\ 3 * j + 1 \in 1..(3 * H + 5)
      BY <1>2
    <2> QED
      BY <2>1, <1>8, <1>11, <1>12, Zenon
  <1>14. \A j \in 0..H : Bytes(r)[3 * j + 2] = CR /\ Bytes(r)[3 * j + 3] = LF
    <2> TAKE j \in 0..H
    <2>1. /\ 3 * j + 2 \in 1..3 * (H + 1) /\ 3 * j + 2 \in 1..(3 * H + 5)
          /\ 3 * j + 3 \in 1..3 * (H + 1) /\ 3 * j + 3 \in 1..(3 * H + 5)
      BY <1>2
    <2>2. Bytes(r)[3 * j + 2] = G[3 * j + 2] /\ Bytes(r)[3 * j + 3] = G[3 * j + 3]
      BY <2>1, <1>12, Zenon
    <2>3. G[3 * j + 2] = F[3 * j + 2] /\ G[3 * j + 3] = F[3 * j + 3]
      BY <2>1, <1>11
    <2> QED
      BY <2>2, <2>3, <1>9
  <1>15. Bytes(r)[1] = r.line /\ Bytes(r)[3 * H + 4] = CR /\ Bytes(r)[3 * H + 5] = LF
    <2>1. /\ 1 \in 1..3 * (H + 1) /\ 1 \in 1..(3 * H + 5)
          /\ 3 * H + 4 \in 1..(3 * H + 5) /\ 3 * H + 5 \in 1..(3 * H + 5)
      BY <1>2
    <2> QED
      BY <2>1, <1>7, <1>11, <1>12, Zenon
  <1> QED
    BY <1>1, <1>12, <1>13, <1>14, <1>15, Zenon

-----------------------------------------------------------------------------
(* The request being sent, and where in its bytes the data part of         *)
(* input_buffer begins.  At a request line there may be the rest of an     *)
(* earlier body in front of it: the position is then negative.             *)
current == sent[Len(sent)]

lines == Len(current.headers)

BodyAt == 3 * lines + 5

pos == Len(Bytes(current)) - Len(input) - Len(script)

(* Nothing is lost between the client and the parser: what is in           *)
(* input_buffer and what is still to be sent are the end of the request.   *)
Suffix ==
    /\ pos + Len(input) >= 0
    /\ \A i \in DOMAIN input :
           IF pos + i >= 1 THEN input[i] = Bytes(current)[pos + i] ELSE input[i] \in BodyTokens
    /\ \A i \in DOMAIN script : script[i] = Bytes(current)[pos + Len(input) + i]

(* Before the request line is parsed, and after the content is.            *)
Fresh == reqstate = "REQUESTLINE" /\ pos <= 0

Drained == reqstate = "REQUESTLINE" /\ pos >= BodyAt

(* The request line and h headers are parsed.                              *)
Read(h) ==
    \/ reqstate = "HEADER" /\ pos = 3 * h + 3
    \/ (reqstate = "CONTENT" \/ Drained) /\ h = lines

Position ==
    /\ Suffix
    /\ Fresh \/ \E h \in 0..lines : Read(h)
    /\ reqstate = "CONTENT" => pos = BodyAt
    /\ pc = "respond" => flag
    /\ pc \in {"parse", "respond"} /\ flag => Drained

(* An error has been met.                                                  *)
Err == pc = "error" \/ \E i \in DOMAIN answers : answers[i] = "error"

GoodLine(l) == l.method # "UNKNOW" /\ l.query # "bad" /\ l.version \in {10, 11}

AskedIn(r, h, name) ==
    LET V == {i \in 1..h : r.headers[i].name = name}
    IN  IF V = {} THEN "" ELSE r.headers[Max(V)].value

NoneBefore(n) == \A j \in 1..(Len(sent) - 1) : Asked(sent[j], n) = ""

Others == {"If-Modified-Since", "Content-Type"}

(* What the HttpRequest holds of the request.                              *)
Holds(h) ==
    /\ GoodLine(current.line)
    /\ req.method = current.line.method
    /\ req.url = current.line.url
    /\ req.version = current.line.version
    /\ \A j \in 1..h : current.headers[j].name # "UNKNOW"
    /\ req.headers["Connection"] = "close" <=> AskedIn(current, h, "Connection") = "close"
    /\ \A n \in Others : NoneBefore(n) => req.headers[n] = AskedIn(current, h, n)

Parsed ==
    ~Err =>
        /\ Fresh => /\ req.headers["Connection"] # "close"
                    /\ \A n \in Others : NoneBefore(n) => req.headers[n] = ""
        /\ \A h \in 0..lines : Read(h) => Holds(h)

(* An error is met again whatever comes, until the content is complete.    *)
Stuck ==
    Err => /\ req.headers["Connection"] = "close"
           /\ Fresh => Len(input) >= 3 - pos /\ (pos < 0 \/ ~GoodLine(current.line))
           /\ reqstate = "HEADER" =>
                /\ Len(input) >= 3
                /\ \E h \in 0..(lines - 1) :
                       pos = 3 * h + 3 /\ current.headers[h + 1].name = "UNKNOW"

(* A body that comes with its blank line leaves nothing behind.            *)
Unsplit ==
    ~split =>
        /\ Len(script) \notin 1..Len(current.body)
        /\ Fresh => pos = 0
        /\ reqstate = "CONTENT" => script = <<>>
        /\ Drained => script = <<>> /\ input = <<>>

(* Every request gets one answer, until there is an error.                 *)
Count ==
    /\ ~Err => Len(answers) = IF ~Drained \/ (pc \in {"parse", "respond"} /\ flag)
                              THEN Len(sent) - 1 ELSE Len(sent)
    /\ Err => \/ Len(answers) >= Len(sent) /\ answers[Len(sent)] = "error"
              \/ pc = "error" /\ Len(answers) = Len(sent) - 1
    /\ \A i \in DOMAIN answers : answers[i] = "error" => i >= Len(sent)
    /\ pc = "idle" /\ ~Err /\ ~Drained => script # <<>>

(* What handleWrite still has to write ends with the end of the last       *)
(* answer, and the client has not got that.                                *)
Writing ==
    /\ writing => Len(answers) >= Len(sent) /\ (Err \/ Drained)
    /\ Err /\ pc \in {"idle", "parse"} => writing
    /\ writing /\ pc \in {"idle", "parse"} =>
          /\ output # <<>> /\ ~Answered
          /\ output[Len(output)] = <<Len(answers), 2>>
          /\ \A i \in 1..(Len(output) - 1) : output[i] # <<Len(answers), 2>>

(* The answers that asked for it were the last of their connection.        *)
Closing ==
    /\ ~Err /\ ~writing /\ Drained /\ Len(answers) = Len(sent) /\ pc # "closed" =>
           ~AsksClose(current)
    /\ ~Err /\ Len(answers) = Len(sent) - 1 /\ answers # <<>> =>
           ~AsksClose(sent[Len(answers)])
    /\ pc = "closed" /\ Len(answers) <= Len(sent) =>
           answers # <<>> /\ (answers[Len(answers)] = "error" \/ AsksClose(sent[Len(answers)]))

Delivery ==
    /\ rests = 0 => /\ output = <<>> /\ ~writing
                    /\ Len(received) = 2 * Len(answers)
    /\ rests <= 1 /\ Len(answers) <= Len(sent) =>
        /\ \A i \in DOMAIN received : received[i] = Piece(i)
        /\ writing /\ pc # "closed" =>
            /\ Len(received) + Len(output) = 2 * Len(answers)
            /\ \A i \in DOMAIN output : output[i] = Piece(Len(received) + i)
        /\ ~writing \/ pc = "closed" => Len(received) = 2 * Len(answers)

(* The last answer is what the request calls for.                          *)
Judged ==
    ~split /\ (\A n \in Others : NoneBefore(n)) =>
        /\ ~Err /\ Drained => ~IsBad(current)
        /\ pc = "error" /\ Len(answers) = Len(sent) - 1 => IsBad(current)

Pieces == Nat \X {1, 2}

Types ==
    /\ sent \in Seq(Requests)
    /\ script \in Seq(Tokens) /\ input \in Seq(Tokens)
    /\ reqstate \in {"REQUESTLINE", "HEADER", "CONTENT"}
    /\ pc \in {"idle", "parse", "respond", "error", "closed"}
    /\ flag \in BOOLEAN /\ writing \in BOOLEAN /\ split \in BOOLEAN
    /\ req = [method |-> req.method, url |-> req.url, version |-> req.version, headers |-> req.headers]
    /\ req.headers = [n \in Names |-> req.headers[n]]
    /\ answers \in Seq({"200", "304", "404", "error"})
    /\ output \in Seq(Pieces) /\ received \in Seq(Pieces) /\ rests \in Nat
    /\ \A i \in DOMAIN output : output[i][1] <= Len(answers)
    /\ \A i \in DOMAIN received : received[i][1] <= Len(answers)

Begun ==
    sent # <<>> => /\ Position /\ Parsed /\ Stuck /\ Unsplit /\ Count
                   /\ Writing /\ Closing /\ Delivery /\ Judged

Silent ==
    sent = <<>> => /\ script = <<>> /\ input = <<>> /\ reqstate = "REQUESTLINE"
                   /\ pc = "idle" /\ answers = <<>> /\ ~writing /\ output = <<>>
                   /\ received = <<>> /\ rests = 0 /\ ~split
                   /\ \A n \in Names : req.headers[n] = ""

IInv == Types /\ Begun /\ Silent /\ AnswersAreRight

-----------------------------------------------------------------------------

(* What is known of the current request.                                   *)
LEMMA CurrentFacts ==
    ASSUME Types, sent # <<>>
    PROVE  /\ current \in Requests /\ lines \in Nat /\ BodyAt \in Nat
           /\ current.headers \in Seq(Headers) /\ current.body \in Seq(BodyTokens)
           /\ Len(current.body) \in Nat
           /\ Len(Bytes(current)) \in Nat /\ Len(Bytes(current)) = BodyAt + Len(current.body)
           /\ pos \in Int
           /\ pos + Len(input) + Len(script) = Len(Bytes(current))
           /\ Len(input) \in Nat /\ Len(script) \in Nat /\ Len(sent) \in Nat \ {0}
           /\ BodyAt >= 5 /\ BodyAt = 3 * lines + 5
  <1>1. current \in Requests /\ Len(sent) \in Nat \ {0}
    BY DEF Types, current
  <1>2. /\ current.headers \in Seq(Headers) /\ current.body \in Seq(BodyTokens)
        /\ Len(Bytes(current)) = 3 * Len(current.headers) + 5 + Len(current.body)
    BY <1>1, BytesFacts, Zenon
  <1>3. lines \in Nat /\ BodyAt \in Nat /\ Len(current.body) \in Nat
    BY <1>2 DEF lines, BodyAt
  <1>4. Len(Bytes(current)) = BodyAt + Len(current.body) /\ Len(Bytes(current)) \in Nat
    <2>1. Len(Bytes(current)) = BodyAt + Len(current.body)
      BY <1>2 DEF lines, BodyAt
    <2> QED
      BY <2>1, <1>3
  <1>5. Len(input) \in Nat /\ Len(script) \in Nat
    BY DEF Types
  <1>6. pos \in Int /\ pos + Len(input) + Len(script) = Len(Bytes(current))
    BY <1>3, <1>4, <1>5 DEF pos
  <1>7. BodyAt >= 5 /\ BodyAt = 3 * lines + 5
    BY <1>3 DEF BodyAt
  <1> QED
    BY <1>1, <1>2, <1>3, <1>4, <1>5, <1>6, <1>7, Zenon

(* The modes of the parser exclude each other.                             *)
LEMMA Modes ==
    ASSUME Types, sent # <<>>
    PROVE  /\ ~(Fresh /\ Drained)
           /\ Fresh => \A h \in 0..lines : ~Read(h)
           /\ Drained => Read(lines) /\ lines \in 0..lines
           /\ reqstate = "CONTENT" => Read(lines) /\ lines \in 0..lines /\ ~Fresh /\ ~Drained
           /\ reqstate = "HEADER" => ~Fresh /\ ~Drained
  <1>1. pos \in Int /\ BodyAt >= 5 /\ lines \in Nat /\ BodyAt \in Nat
    BY CurrentFacts
  <1> QED
    BY <1>1 DEF Fresh, Drained, Read

(* A step that leaves sent alone leaves the request the same.              *)
LEMMA SameRequest ==
    ASSUME UNCHANGED sent
    PROVE  /\ current' = current /\ lines' = lines /\ BodyAt' = BodyAt
           /\ Bytes(current)' = Bytes(current)
           /\ \A n : NoneBefore(n)' <=> NoneBefore(n)
  BY DEF current, lines, BodyAt, NoneBefore, Bytes

(* Where the parser stands, when neither the position nor the state of the *)
(* parse changes.                                                          *)
LEMMA SameMode ==
    ASSUME UNCHANGED sent, pos' = pos, UNCHANGED reqstate
    PROVE  /\ Fresh' <=> Fresh
           /\ Drained' <=> Drained
           /\ \A h : Read(h)' <=> Read(h)
           /\ lines' = lines /\ BodyAt' = BodyAt /\ current' = current
           /\ \A n : NoneBefore(n)' <=> NoneBefore(n)
           /\ UNCHANGED req => \A h : Holds(h)' <=> Holds(h)
  <1>1. /\ lines' = lines /\ BodyAt' = BodyAt /\ current' = current
        /\ \A n : NoneBefore(n)' <=> NoneBefore(n)
    BY SameRequest
  <1>2. (Fresh' <=> Fresh) /\ (Drained' <=> Drained)
    BY <1>1 DEF Fresh, Drained
  <1>3. \A h : Read(h)' <=> Read(h)
    BY <1>1, <1>2 DEF Read
  <1>4. UNCHANGED req => \A h : Holds(h)' <=> Holds(h)
    BY <1>1 DEF Holds
  <1> QED
    BY <1>1, <1>2, <1>3, <1>4

(* What the first h headers ask, one header after the other.               *)
LEMMA AskedFacts ==
    ASSUME NEW r, r.headers \in Seq(Headers), NEW n
    PROVE  /\ Asked(r, n) = AskedIn(r, Len(r.headers), n)
           /\ AskedIn(r, 0, n) = ""
           /\ \A h \in 0..(Len(r.headers) - 1) :
                AskedIn(r, h + 1, n) = IF r.headers[h + 1].name = n THEN r.headers[h + 1].value
                                       ELSE AskedIn(r, h, n)
  <1>1. Asked(r, n) = AskedIn(r, Len(r.headers), n)
    <2>1. DOMAIN r.headers = 1..Len(r.headers)
      OBVIOUS
    <2> QED
      BY <2>1 DEF Asked, AskedIn
  <1>2. AskedIn(r, 0, n) = ""
    BY DEF AskedIn
  <1>3. ASSUME NEW h \in 0..(Len(r.headers) - 1)
        PROVE  AskedIn(r, h + 1, n) = IF r.headers[h + 1].name = n THEN r.headers[h + 1].value
                                      ELSE AskedIn(r, h, n)
    <2> DEFINE V(k) == {i \in 1..k : r.headers[i].name = n}
    <2>1. CASE r.headers[h + 1].name = n
      <3>1. h + 1 \in V(h + 1) /\ \A i \in V(h + 1) : i \in Nat /\ i <= h + 1
        BY <2>1
      <3>2. Max(V(h + 1)) \in V(h + 1) /\ \A i \in V(h + 1) : i <= Max(V(h + 1))
        BY <3>1, Zenon DEF Max
      <3>3. AskedIn(r, h + 1, n) = r.headers[Max(V(h + 1))].value
        BY <3>1, Zenon DEF AskedIn
      <3> HIDE DEF V
      <3>4. Max(V(h + 1)) = h + 1
        BY <3>1, <3>2
      <3> QED
        BY <3>3, <3>4, <2>1
    <2>2. CASE r.headers[h + 1].name # n
      <3>1. V(h + 1) = V(h)
        BY <2>2
      <3> QED
        BY <3>1, <2>2, Zenon DEF AskedIn
    <2> QED
      BY <2>1, <2>2
  <1> QED
    BY <1>1, <1>2, <1>3, Zenon

(* When a request is parsed the connection is to be closed if it says so.  *)
LEMMA HoldsClose ==
    ASSUME Types, sent # <<>>, Holds(lines)
    PROVE  CloseAfter <=> AsksClose(current)
  <1>1. Asked(current, "Connection") = AskedIn(current, lines, "Connection")
    BY CurrentFacts, AskedFacts, Zenon DEF lines
  <1> QED
    BY <1>1 DEF Holds, CloseAfter, AsksClose

(* The parts of the invariant, for a connection that has been used.        *)
LEMMA Parts ==
    ASSUME IInv, sent # <<>>
    PROVE  /\ Types /\ Position /\ Parsed /\ Stuck /\ Unsplit /\ Count
           /\ Writing /\ Closing /\ Delivery /\ Judged /\ AnswersAreRight
  BY DEF IInv, Begun

(* And the whole of it from its parts, once a request has begun.           *)
LEMMA PartsGiveIInv ==
    ASSUME sent' # <<>>, Types', Position', Parsed', Stuck', Unsplit', Count',
           Writing', Closing', Delivery', Judged', AnswersAreRight'
    PROVE  IInv'
  BY Zenon DEF IInv, Begun, Silent

(* A connection on which nothing has come yet.                             *)
LEMMA InitIInv == Init => IInv
  <1> SUFFICES ASSUME Init PROVE IInv
    OBVIOUS
  <1>1. Types
    <2>1. req = [method |-> "UNKNOW", url |-> "", version |-> 0, headers |-> [n \in Names |-> ""]]
      BY Zenon DEF Init
    <2>2. /\ req = [method |-> req.method, url |-> req.url, version |-> req.version, headers |-> req.headers]
          /\ req.headers = [n \in Names |-> req.headers[n]]
      BY <2>1, Zenon
    <2> QED
      BY <2>2, EmptyFacts, Zenon DEF Init, Types
  <1>2. Begun
    BY Zenon DEF Init, Begun
  <1>3. Silent
    BY Zenon DEF Init, Silent
  <1>4. AnswersAreRight
    BY EmptyFacts, Zenon DEF Init, AnswersAreRight
  <1> QED
    BY <1>1, <1>2, <1>3, <1>4 DEF IInv

-----------------------------------------------------------------------------

(* The pieces of the n-th response have their places in the whole.         *)
LEMMA PieceFacts ==
    ASSUME NEW n \in Nat
    PROVE  Piece(2 * n + 1) = <<n + 1, 1>> /\ Piece(2 * n + 2) = <<n + 1, 2>>
  <1>1. /\ ((2 * n + 1) + 1) \div 2 = n + 1 /\ (2 * n + 1) % 2 = 1
        /\ ((2 * n + 2) + 1) \div 2 = n + 1 /\ (2 * n + 2) % 2 = 0
    OBVIOUS
  <1> QED
    BY <1>1 DEF Piece

(* The two pieces of a response.                                           *)
LEMMA ResponseFacts ==
    ASSUME NEW i \in Nat
    PROVE  /\ Response(i) \in Seq(Pieces) /\ Len(Response(i)) = 2
           /\ \A j \in 1..2 : Response(i)[j] = <<i, j>>
  <1>1. <<i, 1>> \in Pieces /\ <<i, 2>> \in Pieces
    BY DEF Pieces
  <1> QED
    BY <1>1 DEF Response

(* What send does to output_buffer and to the client: the socket takes k   *)
(* pieces of the response and output_buffer the others.                    *)
LEMMA SendOut ==
    ASSUME Types, NEW reply, NEW k \in 0..2, Send(reply, k)
    PROVE  /\ received' \in Seq(Pieces) /\ Len(received') = Len(received) + k
           /\ \A i \in 1..Len(received) : received'[i] = received[i]
           /\ \A i \in 1..k : received'[Len(received) + i] = <<Len(answers) + 1, i>>
           /\ k < 2 => /\ output' \in Seq(Pieces) /\ Len(output') = Len(output) + (2 - k)
                       /\ \A i \in 1..Len(output) : output'[i] = output[i]
                       /\ \A i \in 1..(2 - k) : output'[Len(output) + i] = <<Len(answers) + 1, k + i>>
  <1>1. PICK n \in Nat : n = Len(answers) + 1
    BY DEF Types
  <1>2. PICK resp : resp = Response(n)
    OBVIOUS
  <1>3. /\ resp \in Seq(Pieces) /\ Len(resp) = 2
        /\ \A j \in 1..2 : resp[j] = <<n, j>>
    BY <1>2, ResponseFacts
  <1>4. /\ received \in Seq(Pieces) /\ output \in Seq(Pieces)
        /\ Len(received) \in Nat /\ Len(output) \in Nat
    BY DEF Types
  <1>5. PICK front : front = SubSeq(resp, 1, k)
    BY Zenon
  <1>6. front \in Seq(Pieces) /\ Len(front) = k /\ \A i \in 1..k : front[i] = <<n, i>>
    <2>1. front \in Seq(Pieces) /\ Len(front) = k /\ \A i \in 1..k : front[i] = resp[i]
      BY <1>3, <1>5, FrontFacts
    <2> QED
      BY <2>1, <1>3
  <1>7. received' = received \o front
    BY <1>1, <1>2, <1>5 DEF Send
  <1>8. /\ received' \in Seq(Pieces) /\ Len(received') = Len(received) + k
        /\ \A i \in 1..Len(received) : received'[i] = received[i]
        /\ \A i \in 1..k : received'[Len(received) + i] = <<n, i>>
    <2>1. /\ received \o front \in Seq(Pieces)
          /\ Len(received \o front) = Len(received) + Len(front)
          /\ \A i \in 1..Len(received) : (received \o front)[i] = received[i]
          /\ \A i \in 1..Len(front) : (received \o front)[Len(received) + i] = front[i]
      <3>1. received \in Seq(Pieces) /\ front \in Seq(Pieces)
        BY <1>4, <1>6
      <3> QED
        BY <3>1, ConcatFacts
    <2> QED
      BY <2>1, <1>6, <1>7
  <1>9. ASSUME k < 2
        PROVE  /\ output' \in Seq(Pieces) /\ Len(output') = Len(output) + (2 - k)
               /\ \A i \in 1..Len(output) : output'[i] = output[i]
               /\ \A i \in 1..(2 - k) : output'[Len(output) + i] = <<n, k + i>>
    <2>1. PICK rest : rest = SubSeq(resp, k + 1, Len(resp))
      BY Zenon
    <2>2. rest \in Seq(Pieces) /\ Len(rest) = 2 - k /\ \A i \in 1..(2 - k) : rest[i] = resp[k + i]
      BY <2>1, <1>3, RestFacts
    <2>3. \A i \in 1..(2 - k) : rest[i] = <<n, k + i>>
      <3>1. \A i \in 1..(2 - k) : k + i \in 1..2
        OBVIOUS
      <3> QED
        BY <3>1, <2>2, <1>3
    <2>4. output' = output \o rest
      <3>1. output' = output \o Rest(n, k)
        BY <1>1, <1>9 DEF Send
      <3>2. Rest(n, k) = rest
        BY <2>1, <1>2, <1>3 DEF Rest
      <3> QED
        BY <3>1, <3>2
    <2>5. /\ output \o rest \in Seq(Pieces) /\ Len(output \o rest) = Len(output) + Len(rest)
          /\ \A i \in 1..Len(output) : (output \o rest)[i] = output[i]
          /\ \A i \in 1..Len(rest) : (output \o rest)[Len(output) + i] = rest[i]
      BY <2>2, <1>4, ConcatFacts
    <2> QED
      BY <2>2, <2>3, <2>4, <2>5
  <1> QED
    BY <1>1, <1>8, <1>9

(* Who sends a response: the only answer to the current request, the first *)
(* error found in it, or one more answer after that error.                 *)
FirstAnswer ==
    /\ ~Err /\ Drained /\ ~writing /\ Len(answers) = Len(sent) - 1
    /\ Holds(lines)

FirstFailure ==
    /\ pc = "error" /\ CloseAfter /\ ~writing /\ Len(answers) = Len(sent) - 1

Again ==
    /\ Err /\ CloseAfter /\ Len(answers) >= Len(sent) /\ answers[Len(sent)] = "error"

(* One of the three it is whenever onMessage has something to send.        *)
LEMMA Senders ==
    ASSUME IInv, sent # <<>>, pc \in {"respond", "error"}
    PROVE  \/ pc = "respond" /\ FirstAnswer
           \/ FirstFailure
           \/ Again
  <1>1. /\ Types /\ Position /\ Parsed /\ Stuck /\ Count /\ Writing
    BY Parts
  <1>2. Len(sent) \in Nat \ {0} /\ Len(answers) \in Nat /\ lines \in 0..lines
    <2>1. Len(answers) \in Nat
      BY <1>1 DEF Types
    <2>2. Len(sent) \in Nat \ {0} /\ lines \in Nat
      BY <1>1, CurrentFacts
    <2> QED
      BY <2>1, <2>2
  <1>3. CASE ~Err
    <2>1. pc = "respond" /\ flag /\ Drained
      BY <1>1, <1>3 DEF Err, Position
    <2>2. Len(answers) = Len(sent) - 1
      BY <2>1, <1>1, <1>3 DEF Count
    <2>3. ~writing
      BY <2>2, <1>1, <1>2, <1>3 DEF Writing
    <2>4. Holds(lines)
      BY <2>1, <1>1, <1>2, <1>3, Modes, Zenon DEF Parsed
    <2> QED
      BY <2>1, <2>2, <2>3, <2>4, <1>3 DEF FirstAnswer
  <1>4. CASE Err
    <2>1. CloseAfter
      BY <1>1, <1>4 DEF Stuck, CloseAfter
    <2>2. CASE pc = "error" /\ Len(answers) = Len(sent) - 1
      <3>1. ~writing
        BY <2>2, <1>1, <1>2 DEF Writing
      <3> QED
        BY <2>1, <2>2, <3>1 DEF FirstFailure
    <2>3. CASE Len(answers) >= Len(sent) /\ answers[Len(sent)] = "error"
      BY <2>1, <2>3, <1>4 DEF Again
    <2> QED
      BY <2>2, <2>3, <1>1, <1>4 DEF Count
  <1> QED
    BY <1>3, <1>4

(* send, after a response or an error.                                     *)
LEMMA SendIInv ==
    ASSUME IInv, NEW reply, NEW k \in 0..2, Send(reply, k),
           \/ pc = "respond" /\ reply \in Replies(req.url, req.headers["If-Modified-Since"])
           \/ pc = "error" /\ reply = "error"
    PROVE  IInv'
  <1>1. /\ UNCHANGED sent /\ UNCHANGED script /\ UNCHANGED split
        /\ UNCHANGED input /\ UNCHANGED reqstate /\ UNCHANGED req /\ UNCHANGED flag
    BY DEF Send, inVars, parseVars
  <1>2. sent # <<>>
    BY Zenon DEF IInv, Silent
  <1>3. /\ Types /\ Position /\ Parsed /\ Stuck /\ Unsplit /\ Count
        /\ Writing /\ Closing /\ Delivery /\ Judged /\ AnswersAreRight
    BY <1>2, Parts
  <1>4. /\ k < 2 => writing' = TRUE /\ rests' = rests + 1 /\ pc' = "idle"
        /\ k = 2 => /\ pc' = IF CloseAfter THEN "closed" ELSE "idle"
                    /\ UNCHANGED writing /\ UNCHANGED output /\ UNCHANGED rests
        /\ k < 2 \/ k = 2
        /\ pc' \in {"idle", "closed"}
    <2>1. k \in {0, 1, 2}
      OBVIOUS
    <2> QED
      BY <2>1 DEF Send
  <1>5. /\ reply \in {"200", "304", "404", "error"}
        /\ pc = "respond" => reply # "error"
    BY DEF Replies, Static
  <1>6. PICK n \in Nat, q \in Nat, w \in Nat, m \in Nat, z \in Nat \ {0} :
            /\ n = Len(answers) /\ q = Len(received) /\ w = Len(output)
            /\ m = rests /\ z = Len(sent)
    <2>1. /\ answers \in Seq({"200", "304", "404", "error"}) /\ rests \in Nat
          /\ received \in Seq(Pieces) /\ output \in Seq(Pieces)
      BY <1>3 DEF Types
    <2>2. Len(sent) \in Nat \ {0}
      BY <1>2, <1>3, CurrentFacts
    <2> QED
      BY <2>1, <2>2
  <1>7. /\ Len(answers') = n + 1
        /\ DOMAIN answers = 1..n /\ DOMAIN answers' = 1..(n + 1)
        /\ answers'[n + 1] = reply /\ \A i \in 1..n : answers'[i] = answers[i]
        /\ answers' \in Seq({"200", "304", "404", "error"})
    <2>1. answers \in Seq({"200", "304", "404", "error"}) /\ answers' = Append(answers, reply)
      BY <1>3 DEF Types, Send
    <2> QED
      BY <2>1, <1>5, <1>6
  <1>8. /\ received' \in Seq(Pieces) /\ Len(received') = q + k
        /\ \A i \in 1..q : received'[i] = received[i]
        /\ \A i \in 1..k : received'[q + i] = <<n + 1, i>>
        /\ k < 2 => /\ output' \in Seq(Pieces) /\ Len(output') = w + (2 - k)
                    /\ \A i \in 1..w : output'[i] = output[i]
                    /\ \A i \in 1..(2 - k) : output'[w + i] = <<n + 1, k + i>>
    BY <1>3, <1>6, SendOut, Zenon
  <1>9. pos' = pos
    BY <1>1 DEF pos, current
  <1>10. /\ Fresh' <=> Fresh
         /\ Drained' <=> Drained
         /\ \A h : Read(h)' <=> Read(h)
         /\ lines' = lines /\ BodyAt' = BodyAt /\ current' = current
         /\ \A name : NoneBefore(name)' <=> NoneBefore(name)
         /\ \A h : Holds(h)' <=> Holds(h)
    BY <1>1, <1>9, SameMode
  <1>11. \/ pc = "respond" /\ FirstAnswer /\ n + 1 = z
         \/ FirstFailure /\ reply = "error" /\ n + 1 = z
         \/ Again /\ z \in 1..n
    <2>1. (pc = "respond" /\ FirstAnswer) \/ FirstFailure \/ Again
      BY <1>2, Senders
    <2>2. FirstAnswer \/ FirstFailure => n = z - 1
      BY <1>6 DEF FirstAnswer, FirstFailure
    <2>3. Again => n >= z
      BY <1>6 DEF Again
    <2>4. (n = z - 1 => n + 1 = z) /\ (n >= z => z \in 1..n)
      OBVIOUS
    <2>5. FirstFailure => reply = "error"
      BY DEF FirstFailure
    <2> QED
      BY <2>1, <2>2, <2>3, <2>4, <2>5
  <1>12. \A i \in 1..(n + 1) : i = n + 1 \/ i \in 1..n
    OBVIOUS
  <1>13. Err' <=> Err
    <2>1. CASE pc = "respond" /\ FirstAnswer
      <3>1. \A i \in 1..n : answers[i] # "error"
        BY <2>1, <1>7 DEF FirstAnswer, Err
      <3>2. ~Err'
        BY <2>1, <3>1, <1>4, <1>5, <1>7, <1>12 DEF Err
      <3> QED
        BY <2>1, <3>2 DEF FirstAnswer
    <2>2. CASE FirstFailure /\ reply = "error"
      <3>1. Err /\ n + 1 \in 1..(n + 1)
        BY <2>2 DEF FirstFailure, Err
      <3> QED
        BY <2>2, <3>1, <1>7 DEF Err
    <2>3. CASE Again /\ z \in 1..n
      <3>1. z \in 1..(n + 1)
        BY <2>3
      <3> QED
        BY <2>3, <3>1, <1>6, <1>7 DEF Err, Again
    <2> QED
      BY <2>1, <2>2, <2>3, <1>11
  <1>14. n + 1 >= z
    BY <1>11
  <1>15. /\ DOMAIN received = 1..q /\ DOMAIN received' = 1..(q + k) /\ DOMAIN output = 1..w
         /\ \A i \in 1..q : received[i][1] \in Nat /\ received[i][1] <= n
         /\ \A i \in 1..w : output[i][1] \in Nat /\ output[i][1] <= n
    <2>1. /\ received \in Seq(Pieces) /\ output \in Seq(Pieces)
          /\ \A i \in DOMAIN output : output[i][1] <= n
          /\ \A i \in DOMAIN received : received[i][1] <= n
      BY <1>3, <1>6 DEF Types
    <2>2. DOMAIN received = 1..q /\ DOMAIN output = 1..w
      BY <2>1, <1>6
    <2>3. DOMAIN received' = 1..(q + k)
      BY <1>8
    <2>4. \A x \in Pieces : x[1] \in Nat
      BY DEF Pieces
    <2>5. (\A i \in 1..q : received[i] \in Pieces) /\ (\A i \in 1..w : output[i] \in Pieces)
      BY <2>1, <2>2
    <2> QED
      BY <2>1, <2>2, <2>3, <2>4, <2>5, Zenon
  <1>16. Types'
    <2>1. rests' \in Nat /\ writing' \in BOOLEAN /\ output' \in Seq(Pieces)
      <3>1. writing \in BOOLEAN /\ output \in Seq(Pieces)
        BY <1>3 DEF Types
      <3>2. CASE k < 2
        BY <3>2, <1>4, <1>6, <1>8
      <3>3. CASE k = 2
        BY <3>1, <3>3, <1>4, <1>6
      <3> QED
        BY <3>2, <3>3, <1>4
    <2>2. ASSUME NEW i \in 1..(q + k) PROVE received'[i][1] <= n + 1
      <3>1. CASE i \in 1..q
        BY <3>1, <1>8, <1>15
      <3>2. CASE i \notin 1..q
        <4>1. i - q \in 1..k /\ q + (i - q) = i
          BY <3>2
        <4>2. received'[q + (i - q)] = <<n + 1, i - q>>
          BY <4>1, <1>8
        <4> QED
          BY <4>1, <4>2
      <3> QED
        BY <3>1, <3>2
    <2>3. ASSUME NEW i \in DOMAIN output' PROVE output'[i][1] <= n + 1
      <3>1. CASE k = 2
        <4>1. output' = output /\ i \in 1..w
          BY <3>1, <1>4, <1>15
        <4> QED
          BY <4>1, <1>15
      <3>2. CASE k < 2
        <4>1. i \in 1..(w + (2 - k))
          BY <3>2, <1>8
        <4>2. CASE i \in 1..w
          BY <4>2, <3>2, <1>8, <1>15
        <4>3. CASE i \notin 1..w
          <5>1. i - w \in 1..(2 - k) /\ w + (i - w) = i
            BY <4>1, <4>3
          <5>2. output'[w + (i - w)] = <<n + 1, k + (i - w)>>
            BY <5>1, <3>2, <1>8, Zenon
          <5> QED
            BY <5>1, <5>2
        <4> QED
          BY <4>2, <4>3
      <3> QED
        BY <3>1, <3>2, <1>4
    <2>4. Types
      BY <1>3
    <2> QED
      BY <2>1, <2>2, <2>3, <2>4, <1>1, <1>4, <1>7, <1>8, <1>15 DEF Types
  <1>17. Position' /\ Parsed' /\ Stuck' /\ Unsplit' /\ Judged'
    <2>1. Position'
      BY <1>1, <1>3, <1>4, <1>9, <1>10 DEF Position, Suffix, current
    <2>2. Parsed' /\ Stuck' /\ Unsplit'
      BY <1>1, <1>3, <1>9, <1>10, <1>13, Zenon DEF Parsed, Stuck, Unsplit
    <2>3. Judged'
      BY <1>1, <1>3, <1>4, <1>10, <1>13 DEF Judged
    <2> QED
      BY <2>1, <2>2, <2>3
  <1>18. Count'
    <2>1. CASE pc = "respond" /\ FirstAnswer /\ n + 1 = z
      <3>1. Len(answers') = Len(sent') /\ ~Err' /\ Drained'
        BY <2>1, <1>1, <1>6, <1>7, <1>10, <1>13 DEF FirstAnswer
      <3>2. \A i \in DOMAIN answers' : answers'[i] # "error"
        BY <3>1 DEF Err
      <3> QED
        BY <3>1, <3>2, <1>4 DEF Count
    <2>2. CASE FirstFailure /\ reply = "error" /\ n + 1 = z
      <3>1. Len(sent') = z /\ Len(answers') = z /\ answers'[z] = "error"
        BY <2>2, <1>1, <1>6, <1>7
      <3>2. Err'
        BY <2>2, <1>13 DEF FirstFailure, Err
      <3>3. \A i \in 1..n : answers[i] = "error" => i >= z
        BY <1>3, <1>6, <1>7 DEF Count
      <3>4. \A i \in 1..n : ~(i >= z)
        BY <2>2
      <3>5. \A i \in 1..(n + 1) : answers'[i] = "error" => i = z
        BY <2>2, <3>3, <3>4, <1>7, <1>12
      <3>6. \A i \in DOMAIN answers' : answers'[i] = "error" => i >= z
        BY <3>5, <1>7
      <3> QED
        BY <3>1, <3>2, <3>6 DEF Count
    <2>3. CASE Again /\ z \in 1..n
      <3>1. Len(sent') = z /\ Len(answers') = n + 1 /\ n + 1 >= z
        BY <1>1, <1>6, <1>7, <1>14
      <3>2. answers'[z] = "error" /\ Err'
        BY <2>3, <1>6, <1>7, <1>13 DEF Again
      <3>3. \A i \in 1..n : answers[i] = "error" => i >= z
        BY <1>3, <1>6, <1>7 DEF Count
      <3>4. \A i \in 1..(n + 1) : answers'[i] = "error" => i >= z
        BY <3>1, <3>3, <1>7, <1>12
      <3>5. \A i \in DOMAIN answers' : answers'[i] = "error" => i >= z
        BY <3>4, <1>7
      <3> QED
        BY <3>1, <3>2, <3>5 DEF Count
    <2> QED
      BY <2>1, <2>2, <2>3, <1>11
  <1>19. Writing'
    <2>1. Err \/ Drained
      BY <1>11 DEF FirstAnswer, FirstFailure, Again, Err
    <2>2. ASSUME k = 2, pc' = "idle" PROVE ~Err' /\ ~writing'
      <3>1. ~CloseAfter
        BY <2>2, <1>4
      <3>2. FirstAnswer
        BY <3>1, <1>11 DEF FirstFailure, Again
      <3> QED
        BY <2>2, <3>2, <1>4, <1>13 DEF FirstAnswer
    <2>3. ASSUME k < 2
          PROVE  /\ output' # <<>> /\ ~Answered'
                 /\ output'[Len(output')] = <<n + 1, 2>>
                 /\ \A i \in 1..(Len(output') - 1) : output'[i] # <<n + 1, 2>>
      <3>1. /\ \A i \in 1..w : output[i] # <<n + 1, 2>>
            /\ \A i \in 1..q : received[i] # <<n + 1, 2>>
        <4>1. <<n + 1, 2>>[1] = n + 1 /\ ~(n + 1 <= n)
          OBVIOUS
        <4> QED
          BY <4>1, <1>15
      <3>2. Len(output') = w + (2 - k) /\ 2 - k \in 1..(2 - k) /\ k + (2 - k) = 2
        BY <2>3, <1>8
      <3>3. output' # <<>>
        BY <3>2, EmptyFacts
      <3>4. output'[w + (2 - k)] = <<n + 1, 2>>
        <4>1. output'[w + (2 - k)] = <<n + 1, k + (2 - k)>>
          BY <2>3, <3>2, <1>8, Zenon
        <4> QED
          BY <3>2, <4>1
      <3>5. ASSUME NEW i \in 1..(w + (2 - k) - 1) PROVE output'[i] # <<n + 1, 2>>
        <4>1. CASE i \in 1..w
          BY <4>1, <2>3, <3>1, <1>8
        <4>2. CASE i \notin 1..w
          <5>1. 1 \in 1..(2 - k) /\ k = 0 /\ w + 1 = i
            BY <2>3, <4>2
          <5>2. output'[w + 1] = <<n + 1, k + 1>>
            BY <2>3, <5>1, <1>8
          <5> QED
            BY <5>1, <5>2
        <4> QED
          BY <4>1, <4>2
      <3>6. ~Answered'
        <4> SUFFICES ASSUME received' # <<>> PROVE received'[q + k] # <<n + 1, 2>>
          BY <1>7, <1>8 DEF Answered
        <4>1. CASE k = 0
          <5>1. q + k = q /\ q # 0
            BY <4>1, <1>8
          <5>2. q \in 1..q
            BY <5>1
          <5> QED
            BY <5>1, <5>2, <3>1, <1>8
        <4>2. CASE k = 1
          <5>1. received'[q + 1] = <<n + 1, 1>>
            BY <4>2, <1>8
          <5> QED
            BY <4>2, <5>1
        <4> QED
          BY <2>3, <4>1, <4>2
      <3> QED
        BY <3>2, <3>3, <3>4, <3>5, <3>6
    <2>4. writing' => Len(answers') >= Len(sent') /\ (Err' \/ Drained')
      BY <2>1, <1>1, <1>6, <1>7, <1>10, <1>13, <1>14
    <2>5. Err' /\ pc' \in {"idle", "parse"} => writing'
      BY <2>2, <1>4
    <2>6. writing' /\ pc' \in {"idle", "parse"} =>
              /\ output' # <<>> /\ ~Answered'
              /\ output'[Len(output')] = <<Len(answers'), 2>>
              /\ \A i \in 1..(Len(output') - 1) : output'[i] # <<Len(answers'), 2>>
      BY <2>2, <2>3, <1>4, <1>7
    <2> QED
      BY <2>4, <2>5, <2>6 DEF Writing
  <1>20. Closing'
    <2>1. ASSUME FirstAnswer PROVE CloseAfter <=> AsksClose(current)
      BY <2>1, <1>2, <1>3, HoldsClose DEF FirstAnswer
    <2>2. ASSUME ~Err', ~writing', pc' # "closed" PROVE ~AsksClose(current')
      <3>1. FirstAnswer
        BY <2>2, <1>11, <1>13 DEF FirstFailure, Again, Err
      <3>2. k = 2 /\ ~CloseAfter
        BY <2>2, <1>4
      <3> QED
        BY <3>1, <3>2, <2>1, <1>10
    <2>3. Len(answers') = n + 1 /\ Len(sent') = z /\ n + 1 # z - 1
      BY <1>1, <1>6, <1>7, <1>14
    <2>4. ASSUME pc' = "closed", n + 1 <= z
          PROVE  answers'[n + 1] = "error" \/ AsksClose(sent'[n + 1])
      <3>1. CloseAfter
        BY <2>4, <1>4
      <3>2. ~(z \in 1..n)
        BY <2>4
      <3>3. CASE FirstFailure /\ reply = "error"
        BY <3>3, <1>7
      <3>4. CASE FirstAnswer /\ n + 1 = z
        BY <3>1, <3>4, <2>1, <1>1, <1>6 DEF current
      <3> QED
        BY <3>2, <3>3, <3>4, <1>11
    <2>5. answers' # <<>>
      BY <1>7, EmptyFacts
    <2> QED
      BY <2>2, <2>3, <2>4, <2>5 DEF Closing
  <1>21. Delivery'
    <2>1. ASSUME rests' = 0 PROVE output' = <<>> /\ ~writing' /\ q + k = 2 * (n + 1)
      <3>1. k = 2 /\ rests = 0
        BY <2>1, <1>4, <1>6
      <3>2. output = <<>> /\ ~writing /\ q = 2 * n
        BY <3>1, <1>3, <1>6 DEF Delivery
      <3>3. q + k = 2 * (n + 1)
        BY <3>1, <3>2
      <3> QED
        BY <3>1, <3>2, <3>3, <1>4
    <2>2. ASSUME rests' <= 1, n + 1 <= z
          PROVE  /\ \A i \in 1..(q + k) : received'[i] = Piece(i)
                 /\ k < 2 => /\ q + k + Len(output') = 2 * (n + 1)
                             /\ \A i \in DOMAIN output' : output'[i] = Piece(q + k + i)
                 /\ k = 2 => ~writing' /\ q + k = 2 * (n + 1)
      <3>1. ~(z \in 1..n) /\ n <= z
        BY <2>2
      <3>2. ~writing
        BY <3>1, <1>11 DEF FirstAnswer, FirstFailure
      <3>3. rests <= 1 /\ (k < 2 => rests = 0)
        <4>1. (k < 2 => rests' = m + 1) /\ (k = 2 => rests' = m) /\ rests = m
          BY <1>4, <1>6
        <4> QED
          BY <4>1, <2>2, <1>4
      <3>4. q = 2 * n /\ \A i \in 1..q : received[i] = Piece(i)
        BY <3>1, <3>2, <3>3, <1>3, <1>6, <1>15, Zenon DEF Delivery
      <3>5. Piece(q + 1) = <<n + 1, 1>> /\ Piece(q + 2) = <<n + 1, 2>>
        BY <3>4, PieceFacts
      <3>6. ASSUME NEW i \in 1..(q + k) PROVE received'[i] = Piece(i)
        <4>1. CASE i \in 1..q
          BY <4>1, <3>4, <1>8
        <4>2. CASE i = q + 1
          <5>1. 1 \in 1..k
            BY <4>2
          <5> QED
            BY <5>1, <4>2, <3>5, <1>8, Zenon
        <4>3. CASE i = q + 2
          <5>1. 2 \in 1..k
            BY <4>3
          <5> QED
            BY <5>1, <4>3, <3>5, <1>8, Zenon
        <4> QED
          BY <4>1, <4>2, <4>3
      <3>7. ASSUME k < 2
            PROVE  /\ q + k + Len(output') = 2 * (n + 1)
                   /\ \A i \in DOMAIN output' : output'[i] = Piece(q + k + i)
        <4>1. w = 0
          BY <3>3, <3>7, <1>3, <1>6, EmptyFacts DEF Delivery
        <4>2. w + (2 - k) = 2 - k /\ \A i \in 1..(2 - k) : w + i = i
          BY <4>1
        <4>3. /\ Len(output') = 2 - k /\ DOMAIN output' = 1..(2 - k)
              /\ \A i \in 1..(2 - k) : output'[i] = <<n + 1, k + i>>
          BY <3>7, <4>2, <1>8
        <4>4. ASSUME NEW i \in 1..(2 - k) PROVE output'[i] = Piece(q + k + i)
          <5>1. (k + i = 1 /\ q + k + i = q + 1) \/ (k + i = 2 /\ q + k + i = q + 2)
            OBVIOUS
          <5> QED
            BY <5>1, <4>3, <3>5
        <4>5. q + k + (2 - k) = 2 * (n + 1)
          BY <3>4
        <4> QED
          BY <4>3, <4>4, <4>5
      <3>8. k = 2 => ~writing' /\ q + k = 2 * (n + 1)
        BY <3>2, <3>4, <1>4
      <3> QED
        BY <3>6, <3>7, <3>8
    <2>3. k < 2 => writing' /\ pc' # "closed"
      BY <1>4
    <2>4. Len(answers') = n + 1 /\ Len(sent') = z /\ Len(received') = q + k
      BY <1>1, <1>6, <1>7, <1>8
    <2> QED
      BY <2>1, <2>2, <2>3, <2>4, <1>4, <1>15 DEF Delivery
  <1>22. AnswersAreRight'
    <2> SUFFICES ASSUME ~split, NEW i \in 1..(n + 1), FirstError(i)', ~Stale(i)'
                 PROVE  /\ i <= Len(sent)
                        /\ answers'[i] \in IF IsBad(sent[i]) THEN {"error"}
                                           ELSE Replies(sent[i].line.url,
                                                        Asked(sent[i], "If-Modified-Since"))
      BY <1>1, <1>7 DEF AnswersAreRight
    <2>1. ~Stale(i)
      BY <1>1, Zenon DEF Stale
    <2>2. CASE i \in 1..n
      <3>1. 1..(i - 1) \subseteq 1..n
        BY <2>2
      <3>2. FirstError(i)
        BY <3>1, <1>7 DEF FirstError
      <3> QED
        BY <2>1, <2>2, <3>2, <1>3, <1>7 DEF AnswersAreRight
    <2>3. CASE i = n + 1
      <3>1. ~(Again /\ z \in 1..n)
        <4> SUFFICES ASSUME Again, z \in 1..n PROVE FALSE
          OBVIOUS
        <4>1. z \in 1..(i - 1) /\ answers'[z] = "error"
          BY <2>3, <1>6, <1>7 DEF Again
        <4> QED
          BY <4>1 DEF FirstError
      <3>2. n + 1 = z
        BY <3>1, <1>11
      <3>3. i = Len(sent) /\ sent[i] = current /\ i <= Len(sent)
        BY <3>2, <2>3, <1>6 DEF current
      <3>4. \A name \in Others : NoneBefore(name)
        BY <3>3, <2>1, Zenon DEF NoneBefore, Others, Stale
      <3>5. CASE FirstFailure /\ reply = "error"
        <4>1. IsBad(current)
          BY <3>4, <3>5, <1>3 DEF Judged, FirstFailure
        <4> QED
          BY <4>1, <3>3, <3>5, <2>3, <1>7
      <3>6. CASE pc = "respond" /\ FirstAnswer
        <4>1. ~IsBad(current)
          BY <3>4, <3>6, <1>3 DEF Judged, FirstAnswer
        <4>2. /\ req.url = current.line.url
              /\ req.headers["If-Modified-Since"] = AskedIn(current, lines, "If-Modified-Since")
          BY <3>4, <3>6 DEF FirstAnswer, Holds, Others
        <4>3. Asked(current, "If-Modified-Since") = AskedIn(current, lines, "If-Modified-Since")
          BY <1>2, <1>3, CurrentFacts, AskedFacts, Zenon DEF lines
        <4>4. reply \in Replies(req.url, req.headers["If-Modified-Since"])
          BY <3>6
        <4>5. answers'[i] \in Replies(current.line.url, Asked(current, "If-Modified-Since"))
          BY <4>2, <4>3, <4>4, <2>3, <1>7
        <4> QED
          BY <4>1, <4>5, <3>3
      <3> QED
        BY <3>1, <3>5, <3>6, <1>11
    <2> QED
      BY <2>2, <2>3, <1>12
  <1> QED
    BY <1>1, <1>2, <1>16, <1>17, <1>18, <1>19, <1>20, <1>21, <1>22, PartsGiveIInv

(* What handleWrite does to output_buffer and to the client.               *)
LEMMA WriteOut ==
    ASSUME Types, NEW k \in 1..Len(output), HandleWrite(k)
    PROVE  /\ received' \in Seq(Pieces) /\ Len(received') = Len(received) + k
           /\ \A i \in 1..Len(received) : received'[i] = received[i]
           /\ \A i \in 1..k : received'[Len(received) + i] = output[i]
           /\ k < Len(output) => /\ output' \in Seq(Pieces) /\ Len(output') = Len(output) - k
                                /\ \A i \in 1..(Len(output) - k) : output'[i] = output[k + i]
  <1>1. /\ received \in Seq(Pieces) /\ output \in Seq(Pieces)
        /\ k \in 0..Len(output)
    BY DEF Types
  <1>2. PICK front : front = SubSeq(output, 1, k)
    BY Zenon
  <1>3. front \in Seq(Pieces) /\ Len(front) = k /\ \A i \in 1..k : front[i] = output[i]
    BY <1>1, <1>2, FrontFacts
  <1>4. received' = received \o front
    BY <1>2 DEF HandleWrite
  <1>5. /\ received' \in Seq(Pieces) /\ Len(received') = Len(received) + k
        /\ \A i \in 1..Len(received) : received'[i] = received[i]
        /\ \A i \in 1..k : received'[Len(received) + i] = front[i]
    <2>1. /\ received \o front \in Seq(Pieces)
          /\ Len(received \o front) = Len(received) + Len(front)
          /\ \A i \in 1..Len(received) : (received \o front)[i] = received[i]
          /\ \A i \in 1..Len(front) : (received \o front)[Len(received) + i] = front[i]
      <3>1. received \in Seq(Pieces) /\ front \in Seq(Pieces)
        BY <1>1, <1>3
      <3> QED
        BY <3>1, ConcatFacts
    <2> QED
      BY <2>1, <1>3, <1>4
  <1>6. ASSUME k < Len(output)
        PROVE  /\ output' \in Seq(Pieces) /\ Len(output') = Len(output) - k
               /\ \A i \in 1..(Len(output) - k) : output'[i] = output[k + i]
    <2>1. k # Len(output)
      BY <1>1, <1>6
    <2>2. output' = SubSeq(output, k + 1, Len(output))
      BY <2>1, Zenon DEF HandleWrite
    <2> QED
      BY <2>2, <1>1, RestFacts
  <1> QED
    BY <1>3, <1>5, <1>6

(* handleWrite: the client gets part of the output, or the last of it and  *)
(* then the connection is closed if the request asked for that.            *)
LEMMA HandleWriteIInv ==
    ASSUME IInv, NEW k \in 1..Len(output), HandleWrite(k)
    PROVE  IInv'
  <1>1. /\ pc = "idle" /\ writing
        /\ UNCHANGED sent /\ UNCHANGED script /\ UNCHANGED split
        /\ UNCHANGED input /\ UNCHANGED reqstate /\ UNCHANGED req /\ UNCHANGED flag
        /\ UNCHANGED answers /\ UNCHANGED rests
    BY DEF HandleWrite, inVars, parseVars
  <1>2. sent # <<>>
    BY <1>1 DEF IInv, Silent
  <1>3. /\ Types /\ Position /\ Parsed /\ Stuck /\ Unsplit /\ Count
        /\ Writing /\ Closing /\ Delivery /\ Judged /\ AnswersAreRight
    BY <1>2, Parts
  <1>4. PICK n \in Nat, q \in Nat, w \in Nat :
            n = Len(answers) /\ q = Len(received) /\ w = Len(output)
    <2>1. /\ answers \in Seq({"200", "304", "404", "error"})
          /\ received \in Seq(Pieces) /\ output \in Seq(Pieces)
      BY <1>3 DEF Types
    <2> QED
      BY <2>1
  <1>5. /\ k \in 1..w
        /\ k < w => writing' = writing /\ pc' = pc
        /\ k = w => /\ pc' = IF CloseAfter THEN "closed" ELSE "idle"
                    /\ writing' = CloseAfter /\ output' = output
    <2>1. k < w => k # w
      BY <1>4
    <2> QED
      BY <2>1, <1>4, Zenon DEF HandleWrite
  <1>6. (k < w \/ k = w) /\ pc' \in {"idle", "closed"}
    <2>1. k < w \/ k = w
      BY <1>5
    <2> QED
      BY <2>1, <1>1, <1>5, Zenon
  <1>7. /\ received' \in Seq(Pieces) /\ Len(received') = q + k
        /\ \A i \in 1..q : received'[i] = received[i]
        /\ \A i \in 1..k : received'[q + i] = output[i]
        /\ k < w => /\ output' \in Seq(Pieces) /\ Len(output') = w - k
                    /\ \A i \in 1..(w - k) : output'[i] = output[k + i]
    BY <1>3, <1>4, WriteOut
  <1>8. pos' = pos
    BY <1>1 DEF pos, current
  <1>9. /\ Fresh' <=> Fresh
        /\ Drained' <=> Drained
        /\ \A h : Read(h)' <=> Read(h)
        /\ lines' = lines /\ BodyAt' = BodyAt /\ current' = current
        /\ \A m : NoneBefore(m)' <=> NoneBefore(m)
        /\ \A h : Holds(h)' <=> Holds(h)
    BY <1>1, <1>8, SameMode
  <1>10. Err' <=> Err
    BY <1>1, <1>6 DEF Err
  <1>11. /\ Len(sent) \in Nat \ {0} /\ lines \in 0..lines
         /\ n >= Len(sent) /\ (Err \/ Drained)
    <2>1. Len(sent) \in Nat \ {0} /\ lines \in Nat
      BY <1>2, <1>3, CurrentFacts
    <2>2. n >= Len(sent) /\ (Err \/ Drained)
      BY <1>1, <1>3, <1>4 DEF Writing
    <2> QED
      BY <2>1, <2>2
  <1>12. ASSUME ~Err PROVE CloseAfter <=> AsksClose(current)
    <2>1. Parsed /\ Drained /\ lines \in 0..lines
      BY <1>3, <1>11, <1>12
    <2>2. Read(lines)
      BY <2>1 DEF Read
    <2>3. Holds(lines)
      BY <2>1, <2>2, <1>12, Zenon DEF Parsed
    <2> QED
      BY <2>3, <1>2, <1>3, HoldsClose
  <1>13. Err => CloseAfter
    BY <1>3 DEF Stuck, CloseAfter
  <1>14. Types'
    <2>1. writing' \in BOOLEAN /\ output' \in Seq(Pieces)
      <3>1. CASE k < w
        BY <3>1, <1>1, <1>5, <1>7
      <3>2. CASE k = w
        BY <3>2, <1>3, <1>5 DEF Types, CloseAfter
      <3> QED
        BY <3>1, <3>2, <1>6
    <2>2. /\ DOMAIN received = 1..q /\ DOMAIN received' = 1..(q + k) /\ DOMAIN output = 1..w
          /\ \A i \in 1..q : received[i][1] <= n
          /\ \A i \in 1..w : output[i][1] <= n
      <3>1. /\ received \in Seq(Pieces) /\ output \in Seq(Pieces)
            /\ \A i \in DOMAIN output : output[i][1] <= n
            /\ \A i \in DOMAIN received : received[i][1] <= n
        BY <1>3, <1>4 DEF Types
      <3>2. DOMAIN received = 1..q /\ DOMAIN output = 1..w
        BY <3>1, <1>4
      <3>3. DOMAIN received' = 1..(q + k)
        BY <1>7
      <3> QED
        BY <3>1, <3>2, <3>3
    <2>3. ASSUME NEW i \in 1..(q + k) PROVE received'[i][1] <= n
      <3>1. CASE i \in 1..q
        BY <3>1, <2>2, <1>7
      <3>2. CASE i \notin 1..q
        <4>1. i - q \in 1..k /\ i - q \in 1..w /\ q + (i - q) = i
          BY <3>2, <1>5
        <4>2. received'[q + (i - q)] = output[i - q]
          BY <4>1, <1>7
        <4> QED
          BY <4>1, <4>2, <2>2
      <3> QED
        BY <3>1, <3>2
    <2>4. ASSUME NEW i \in DOMAIN output' PROVE output'[i][1] <= n
      <3>1. CASE k < w
        <4>1. i \in 1..(w - k)
          BY <3>1, <1>7
        <4>2. k + i \in 1..w
          BY <4>1, <1>5
        <4> QED
          BY <3>1, <4>1, <4>2, <2>2, <1>7
      <3>2. CASE k = w
        BY <3>2, <2>2, <1>5
      <3> QED
        BY <3>1, <3>2, <1>6
    <2> QED
      BY <2>1, <2>2, <2>3, <2>4, <1>1, <1>3, <1>4, <1>6, <1>7 DEF Types
  <1>15. Position'
    BY <1>1, <1>3, <1>6, <1>8, <1>9 DEF Position, Suffix, current
  <1>16. Parsed' /\ Stuck' /\ Unsplit'
    BY <1>1, <1>3, <1>8, <1>9, <1>10, Zenon DEF Parsed, Stuck, Unsplit
  <1>17. Judged'
    BY <1>1, <1>3, <1>6, <1>9, <1>10 DEF Judged
  <1>18. Count'
    BY <1>1, <1>3, <1>6, <1>9, <1>10 DEF Count
  <1>19. Writing'
    <2>1. ASSUME k = w, pc' = "idle" PROVE ~Err /\ ~writing'
      BY <2>1, <1>5, <1>13
    <2>2. ASSUME k < w
          PROVE  /\ output' # <<>> /\ ~Answered'
                 /\ output'[Len(output')] = <<n, 2>>
                 /\ \A i \in 1..(Len(output') - 1) : output'[i] # <<n, 2>>
      <3>1. /\ output[w] = <<n, 2>>
            /\ \A i \in 1..(w - 1) : output[i] # <<n, 2>>
        BY <1>1, <1>3, <1>4 DEF Writing
      <3>2. w - k \in 1..(w - k) /\ k + (w - k) = w /\ k \in 1..(w - 1) /\ w - k # 0
        BY <2>2, <1>5
      <3>3. Len(output') = w - k
        BY <2>2, <1>7
      <3>4. output' # <<>>
        BY <3>2, <3>3, EmptyFacts
      <3>5. output'[w - k] = <<n, 2>>
        <4>1. output'[w - k] = output[k + (w - k)]
          BY <2>2, <3>2, <1>7
        <4> QED
          BY <4>1, <3>1, <3>2
      <3>6. ASSUME NEW i \in 1..(w - k - 1) PROVE output'[i] # <<n, 2>>
        <4>1. i \in 1..(w - k) /\ k + i \in 1..(w - 1)
          BY <1>5
        <4> QED
          BY <2>2, <4>1, <3>1, <1>7, Zenon
      <3>7. ~Answered'
        <4>1. k \in 1..k
          BY <3>2
        <4>2. received'[q + k] = output[k]
          BY <4>1, <1>7
        <4> QED
          BY <4>2, <3>1, <3>2, <1>1, <1>4, <1>7, Zenon DEF Answered
      <3> QED
        BY <3>3, <3>4, <3>5, <3>6, <3>7
    <2>3. writing' => Len(answers') >= Len(sent') /\ (Err' \/ Drained')
      BY <1>1, <1>4, <1>9, <1>10, <1>11
    <2>4. Err' /\ pc' \in {"idle", "parse"} => writing'
      BY <2>1, <1>1, <1>5, <1>6, <1>10, Zenon
    <2>5. writing' /\ pc' \in {"idle", "parse"} =>
              /\ output' # <<>> /\ ~Answered'
              /\ output'[Len(output')] = <<Len(answers'), 2>>
              /\ \A i \in 1..(Len(output') - 1) : output'[i] # <<Len(answers'), 2>>
      BY <2>1, <2>2, <1>1, <1>4, <1>6
    <2> QED
      BY <2>3, <2>4, <2>5 DEF Writing
  <1>20. Closing'
    <2>1. ASSUME ~Err', ~writing', pc' # "closed" PROVE ~AsksClose(current')
      BY <2>1, <1>1, <1>5, <1>6, <1>9, <1>10, <1>12, Zenon
    <2>2. Len(answers') # Len(sent') - 1
      BY <1>1, <1>4, <1>11
    <2>3. ASSUME pc' = "closed", Len(answers') <= Len(sent')
          PROVE  /\ answers' # <<>>
                 /\ answers'[Len(answers')] = "error" \/ AsksClose(sent'[Len(answers')])
      <3>1. CloseAfter
        BY <2>3, <1>1, <1>5, <1>6
      <3>2. Len(answers) = Len(sent)
        BY <2>3, <1>1, <1>4, <1>11
      <3>3. answers # <<>>
        BY <3>2, <1>11, EmptyFacts
      <3>4. CASE Err
        BY <3>2, <3>3, <3>4, <1>1, <1>3 DEF Count
      <3>5. CASE ~Err
        BY <3>1, <3>2, <3>3, <3>5, <1>1, <1>12 DEF current
      <3> QED
        BY <3>4, <3>5
    <2> QED
      BY <2>1, <2>2, <2>3 DEF Closing
  <1>21. Delivery'
    <2>1. rests # 0
      BY <1>1, <1>3 DEF Delivery
    <2>2. ASSUME rests <= 1, Len(answers) <= Len(sent)
          PROVE  /\ \A i \in DOMAIN received' : received'[i] = Piece(i)
                 /\ k < w => /\ Len(received') + Len(output') = 2 * n
                             /\ \A i \in DOMAIN output' : output'[i] = Piece(Len(received') + i)
                 /\ k = w => Len(received') = 2 * n
      <3>1. /\ DOMAIN received = 1..q /\ DOMAIN received' = 1..(q + k) /\ DOMAIN output = 1..w
        <4>1. received \in Seq(Pieces) /\ output \in Seq(Pieces)
          BY <1>3 DEF Types
        <4> QED
          BY <4>1, <1>4, <1>7
      <3>2. /\ \A i \in 1..q : received[i] = Piece(i)
            /\ q + w = 2 * n
            /\ \A i \in 1..w : output[i] = Piece(q + i)
        BY <2>2, <3>1, <1>1, <1>3, <1>4, Zenon DEF Delivery
      <3>3. ASSUME NEW i \in 1..(q + k) PROVE received'[i] = Piece(i)
        <4>1. CASE i \in 1..q
          BY <4>1, <3>2, <1>7
        <4>2. CASE i \notin 1..q
          <5>1. i - q \in 1..k /\ i - q \in 1..w /\ q + (i - q) = i
            BY <4>2, <1>5
          <5>2. received'[q + (i - q)] = output[i - q] /\ output[i - q] = Piece(q + (i - q))
            BY <5>1, <3>2, <1>7
          <5> QED
            BY <5>1, <5>2
        <4> QED
          BY <4>1, <4>2
      <3>4. ASSUME k < w
            PROVE  /\ Len(received') + Len(output') = 2 * n
                   /\ \A i \in DOMAIN output' : output'[i] = Piece(Len(received') + i)
        <4>1. DOMAIN output' = 1..(w - k) /\ Len(output') = w - k
          BY <3>4, <1>7
        <4>2. q + k + (w - k) = 2 * n
          BY <3>2
        <4>3. ASSUME NEW i \in 1..(w - k) PROVE output'[i] = Piece(q + k + i)
          <5>1. k + i \in 1..w /\ q + (k + i) = q + k + i
            BY <1>5
          <5>2. output'[i] = output[k + i] /\ output[k + i] = Piece(q + (k + i))
            BY <5>1, <3>2, <3>4, <1>7, Zenon
          <5> QED
            BY <5>1, <5>2
        <4> QED
          BY <4>1, <4>2, <4>3, <1>7
      <3>5. k = w => Len(received') = 2 * n
        BY <3>2, <1>7
      <3> QED
        BY <3>1, <3>3, <3>4, <3>5
    <2>3. /\ k < w => writing' /\ pc' # "closed"
          /\ k = w => (~writing' \/ pc' = "closed")
      <3>1. ASSUME k < w PROVE writing' /\ pc' # "closed"
        <4>1. writing' = writing /\ pc' = "idle"
          BY <3>1, <1>1, <1>5
        <4> QED
          BY <4>1, <1>1
      <3>2. ASSUME k = w, CloseAfter PROVE pc' = "closed"
        BY <3>2, <1>5
      <3>3. ASSUME k = w, ~CloseAfter PROVE ~writing'
        BY <3>3, <1>5
      <3> QED
        BY <3>1, <3>2, <3>3
    <2>4. (writing' /\ pc' # "closed" => k < w) /\ (~writing' \/ pc' = "closed" => k = w)
      BY <2>3, <1>6
    <2> QED
      BY <2>1, <2>2, <2>4, <1>1, <1>4 DEF Delivery
  <1>22. AnswersAreRight'
    BY <1>1, <1>3, Zenon DEF AnswersAreRight, FirstError, Stale
  <1> QED
    BY <1>1, <1>2, <1>14, <1>15, <1>16, <1>17, <1>18, <1>19, <1>20, <1>21, <1>22, PartsGiveIInv

-----------------------------------------------------------------------------

(* Where the body of the request is among its bytes.                       *)
LEMMA BodyFacts ==
    ASSUME Types, sent # <<>>
    PROVE  \A k \in 1..Len(current.body) : Bytes(current)[BodyAt + k] = current.body[k]
  BY BytesFacts, CurrentFacts, Zenon DEF BodyAt, lines

(* The data part of input_buffer is a sequence of tokens.                  *)
LEMMA InputFacts ==
    ASSUME Types
    PROVE  input \in Seq(Tokens) /\ DOMAIN input = 1..Len(input) /\ Len(input) \in Nat
  BY DEF Types

(* Nothing but a '\r' is taken for one.                                    *)
LEMMA Kinds ==
    /\ CR # LF
    /\ \A x \in BodyTokens : x # CR
    /\ \A x \in Lines : x # CR /\ x.is = "line"
    /\ \A x \in Headers : x # CR /\ x.is = "header"
  <1>1. CR.is = "CR" /\ LF.is = "LF" /\ Pairs.is = "pairs" /\ Junk.is = "junk"
    BY DEF CR, LF, Pairs, Junk
  <1>2. \A x \in Lines : x.is = "line"
    BY DEF Lines
  <1>3. \A x \in Headers : x.is = "header"
    BY DEF Headers
  <1> QED
    BY <1>1, <1>2, <1>3 DEF BodyTokens

(* parseLine waits for more where there is no '\r'.                        *)
LEMMA NoCR ==
    ASSUME \A i \in DOMAIN input : input[i] # CR
    PROVE  parseLine = "LINE_MORE"
  BY DEF CRs, parseLine

(* What is left of a body has no line end.                                 *)
LEMMA DrainedLine ==
    ASSUME Types, sent # <<>>, Suffix, pos >= BodyAt
    PROVE  /\ parseLine = "LINE_MORE"
           /\ \A i \in DOMAIN input : input[i] \in BodyTokens
  <1>1. /\ pos \in Int /\ Len(input) \in Nat /\ DOMAIN input = 1..Len(input)
        /\ Len(script) \in Nat /\ Len(current.body) \in Nat
        /\ pos + Len(input) + Len(script) = BodyAt + Len(current.body)
        /\ current.body \in Seq(BodyTokens)
        /\ BodyAt \in Nat /\ BodyAt >= 5
    BY CurrentFacts, InputFacts, Zenon
  <1>2. ASSUME NEW i \in 1..Len(input) PROVE input[i] \in BodyTokens
    <2> DEFINE k == pos + i - BodyAt
    <2>1. k \in 1..Len(current.body) /\ pos + i = BodyAt + k /\ pos + i >= 1
      BY <1>1
    <2>2. input[i] = Bytes(current)[pos + i]
      BY <2>1, <1>1 DEF Suffix
    <2> HIDE DEF k
    <2>3. Bytes(current)[BodyAt + k] = current.body[k]
      BY <2>1, BodyFacts
    <2> QED
      BY <2>1, <2>2, <2>3, <1>1
  <1> QED
    BY <1>1, <1>2, NoCR, Kinds

(* When the client sends its next request nothing is left of the last one  *)
(* but, at most, the end of its body.                                      *)
LEMMA Ready ==
    ASSUME IInv, pc = "idle", script = <<>>,
           sent # <<>> => Answered /\ Len(answers) >= Len(sent)
    PROVE  /\ ~Err /\ ~writing /\ reqstate = "REQUESTLINE"
           /\ Len(answers) = Len(sent)
           /\ \A i \in DOMAIN input : input[i] \in BodyTokens
           /\ ~split => input = <<>>
           /\ req.headers["Connection"] # "close"
           /\ \A n \in Others :
                (\A j \in 1..Len(sent) : Asked(sent[j], n) = "") => req.headers[n] = ""
           /\ sent # <<>> => ~AsksClose(current)
           /\ rests <= 1 => /\ \A i \in DOMAIN received : received[i] = Piece(i)
                            /\ Len(received) = 2 * Len(answers)
           /\ rests = 0 => output = <<>>
  <1>1. CASE sent = <<>>
    <2>1. /\ reqstate = "REQUESTLINE" /\ pc = "idle" /\ answers = <<>> /\ ~writing /\ output = <<>>
          /\ received = <<>> /\ input = <<>> /\ \A n \in Names : req.headers[n] = ""
      BY <1>1, Zenon DEF IInv, Silent
    <2>2. ~Err /\ Len(answers) = Len(sent)
      BY <2>1, <1>1, EmptyFacts, Zenon DEF Err
    <2>3. req.headers["Connection"] # "close" /\ \A n \in Others : req.headers[n] = ""
      BY <2>1, Zenon DEF Others, Names
    <2>4. DOMAIN input = {} /\ DOMAIN received = {}
      BY <2>1, EmptyFacts, Zenon
    <2>5. Len(received) = 0 /\ Len(answers) = 0
      BY <2>1, EmptyFacts, Zenon
    <2>6. Len(received) = 2 * Len(answers)
      BY <2>5
    <2> QED
      BY <2>1, <2>2, <2>3, <2>4, <2>6, <1>1, Zenon
  <1>2. CASE sent # <<>>
    <2>1. /\ Types /\ Position /\ Parsed /\ Unsplit /\ Count /\ Writing /\ Closing /\ Delivery
      BY <1>2 DEF IInv, Begun
    <2>2. ~Err /\ ~writing
      BY <2>1, <1>2 DEF Writing
    <2>3. Drained
      BY <2>1, <2>2 DEF Count
    <2>4. Len(answers) = Len(sent)
      BY <2>1, <2>2, <2>3 DEF Count
    <2>5. \A i \in DOMAIN input : input[i] \in BodyTokens
      BY <2>1, <2>3, <1>2, DrainedLine DEF Position, Drained
    <2>6. ~split => input = <<>>
      BY <2>1, <2>3 DEF Unsplit
    <2>7. ~AsksClose(current)
      BY <2>1, <2>2, <2>3, <2>4 DEF Closing
    <2>8. Holds(lines)
      BY <2>1, <2>2, <2>3, <1>2, Modes, Zenon DEF Parsed
    <2>9. req.headers["Connection"] # "close"
      BY <2>1, <2>7, <2>8, <1>2, HoldsClose DEF CloseAfter
    <2>10. ASSUME NEW n \in Others, \A j \in 1..Len(sent) : Asked(sent[j], n) = ""
           PROVE  req.headers[n] = ""
      <3>1. NoneBefore(n) /\ Asked(current, n) = ""
        <4>1. Len(sent) \in 1..Len(sent) /\ 1..(Len(sent) - 1) \subseteq 1..Len(sent)
          <5>1. Len(sent) \in Nat \ {0}
            BY <2>1, <1>2, CurrentFacts
          <5> QED
            BY <5>1
        <4> QED
          BY <4>1, <2>10, Zenon DEF NoneBefore, current
      <3>2. req.headers[n] = AskedIn(current, lines, n)
        BY <3>1, <2>8, Zenon DEF Holds
      <3> QED
        BY <3>1, <3>2, <2>1, <1>2, CurrentFacts, AskedFacts, Zenon DEF lines
    <2>11. /\ rests <= 1 => /\ \A i \in DOMAIN received : received[i] = Piece(i)
                            /\ Len(received) = 2 * Len(answers)
           /\ rests = 0 => output = <<>>
      BY <2>1, <2>2, <2>4, <1>2, CurrentFacts DEF Delivery
    <2> QED
      BY <2>2, <2>3, <2>4, <2>5, <2>6, <2>7, <2>9, <2>10, <2>11, Zenon DEF Drained
  <1> QED
    BY <1>1, <1>2, Zenon

(* ClientRequests: the next request begins, perhaps behind what is left of *)
(* the last body.                                                          *)
LEMMA ClientRequestsIInv ==
    ASSUME IInv, NEW r \in Requests, ClientRequests(r)
    PROVE  IInv'
  <1>1. /\ pc = "idle" /\ script = <<>> /\ sent' = Append(sent, r) /\ script' = Bytes(r)
        /\ sent # <<>> => Answered /\ Len(answers) >= Len(sent)
        /\ UNCHANGED input /\ UNCHANGED reqstate /\ UNCHANGED req /\ UNCHANGED flag
        /\ UNCHANGED pc /\ UNCHANGED answers /\ UNCHANGED output /\ UNCHANGED writing
        /\ UNCHANGED received /\ UNCHANGED rests /\ UNCHANGED split
    BY DEF ClientRequests, parseVars, outVars
  <1>2. /\ ~Err /\ ~writing /\ reqstate = "REQUESTLINE"
        /\ Len(answers) = Len(sent)
        /\ \A i \in DOMAIN input : input[i] \in BodyTokens
        /\ ~split => input = <<>>
        /\ req.headers["Connection"] # "close"
        /\ \A n \in Others :
             (\A j \in 1..Len(sent) : Asked(sent[j], n) = "") => req.headers[n] = ""
        /\ sent # <<>> => ~AsksClose(current)
        /\ rests <= 1 => /\ \A i \in DOMAIN received : received[i] = Piece(i)
                         /\ Len(received) = 2 * Len(answers)
        /\ rests = 0 => output = <<>>
    BY <1>1, Ready, Zenon
  <1>3. /\ sent \in Seq(Requests) /\ Len(sent) \in Nat /\ input \in Seq(Tokens)
        /\ Len(input) \in Nat /\ DOMAIN input = 1..Len(input) /\ Types
    BY DEF IInv, Types
  <1>4. /\ sent' \in Seq(Requests) /\ Len(sent') = Len(sent) + 1 /\ sent'[Len(sent) + 1] = r
        /\ \A j \in 1..Len(sent) : sent'[j] = sent[j]
        /\ sent' # <<>>
    BY <1>1, <1>3
  <1>5. Types'
    <2>1. Bytes(r) \in Seq(Tokens)
      BY BytesFacts, Zenon
    <2> QED
      BY <1>1, <1>3, <1>4, <2>1 DEF Types
  <1>eq. Len(answers) = Len(sent) /\ Len(sent') = Len(answers) + 1 /\ DOMAIN answers = 1..Len(sent)
    <2>1. Len(answers) = Len(sent)
      BY <1>2, Zenon
    <2>2. DOMAIN answers = 1..Len(answers)
      BY <1>3 DEF Types
    <2> QED
      BY <2>1, <2>2, <1>4
  <1>6. current' = r /\ Bytes(current)' = Bytes(r)
    BY <1>4 DEF current
  <1>7. /\ lines' \in Nat /\ BodyAt' \in Nat /\ BodyAt' >= 5
        /\ Len(Bytes(r)) = BodyAt' + Len(r.body) /\ Len(r.body) \in Nat
        /\ Bytes(r) \in Seq(Tokens)
    <2>1. /\ r.headers \in Seq(Headers) /\ r.body \in Seq(BodyTokens) /\ Bytes(r) \in Seq(Tokens)
          /\ Len(Bytes(r)) = 3 * Len(r.headers) + 5 + Len(r.body)
      BY BytesFacts, Zenon
    <2>2. lines' = Len(r.headers) /\ BodyAt' = 3 * Len(r.headers) + 5
      BY <1>6 DEF lines, BodyAt
    <2> QED
      BY <2>1, <2>2
  <1>8. pos' = 0 - Len(input)
    BY <1>1, <1>3, <1>6, <1>7 DEF pos
  <1>9. pos' \in Int /\ pos' <= 0 /\ pos' + Len(input) = 0
    BY <1>3, <1>8
  <1>10. Suffix'
    <2>1. pos' + Len(input') >= 0
      BY <1>1, <1>9
    <2>2. ASSUME NEW i \in DOMAIN input PROVE ~(pos' + i >= 1)
      BY <1>3, <1>8
    <2>3. ASSUME NEW i \in DOMAIN Bytes(r) PROVE pos' + Len(input) + i = i
      <3>1. i \in Int
        BY <1>7
      <3> QED
        BY <3>1, <1>3, <1>9
    <2> QED
      BY <2>1, <2>2, <2>3, <1>1, <1>2, <1>6, Zenon DEF Suffix
  <1>11. Fresh' /\ ~Drained' /\ \A h \in 0..lines' : ~Read(h)'
    <2>1. reqstate' = "REQUESTLINE"
      BY <1>1, <1>2, Zenon
    <2> QED
      BY <2>1, <1>7, <1>9 DEF Fresh, Drained, Read
  <1>12. ~Err'
    BY <1>1, <1>2, Zenon DEF Err
  <1>13. Position'
    BY <1>1, <1>2, <1>10, <1>11, Zenon DEF Position
  <1>14. Parsed' /\ Stuck'
    <2>1. ASSUME NEW n \in Others, NoneBefore(n)' PROVE req.headers[n] = ""
      <3>1. ASSUME NEW j \in 1..Len(sent) PROVE Asked(sent[j], n) = ""
        <4>1. j \in 1..(Len(sent') - 1) /\ sent'[j] = sent[j]
          BY <1>3, <1>4
        <4>2. Asked(sent'[j], n) = ""
          BY <2>1, <4>1, Zenon DEF NoneBefore
        <4> QED
          BY <4>1, <4>2, Zenon
      <3> QED
        BY <3>1, <1>2, Zenon
    <2> QED
      BY <2>1, <1>1, <1>2, <1>11, <1>12, Zenon DEF Parsed, Stuck
  <1>15. Len(script') = BodyAt' + Len(r.body) /\ script' # <<>>
    BY <1>1, <1>7, EmptyFacts
  <1>16. Unsplit'
    <2>1. Len(script') \notin 1..Len(r.body)
      BY <1>7, <1>15
    <2>2. ASSUME ~split PROVE Len(input) = 0
      BY <2>2, <1>2, EmptyFacts, Zenon
    <2>3. Len(input) = 0 => pos' = 0
      <3>1. PICK x \in Int, y \in Nat : x = pos' /\ y = Len(input)
        <4>1. pos' \in Int
          BY <1>9
        <4>2. Len(input) \in Nat
          BY <1>3
        <4> QED
          BY <4>1, <4>2
      <3>2. x + y = 0
        BY <3>1, <1>9
      <3>3. y = 0 => x = 0
        BY <3>2
      <3> QED
        BY <3>1, <3>3
    <2>4. ASSUME ~split PROVE pos' = 0
      BY <2>2, <2>3, <2>4
    <2> QED
      BY <2>1, <2>4, <1>1, <1>2, <1>6, <1>11, Zenon DEF Unsplit
  <1>17. Count'
    <2>1. Len(answers') = Len(sent') - 1
      BY <1>1, <1>3, <1>eq
    <2>2. \A i \in DOMAIN answers' : answers'[i] # "error"
      BY <1>12 DEF Err
    <2> QED
      BY <2>1, <2>2, <1>11, <1>12, <1>15 DEF Count
  <1>18. Writing'
    BY <1>1, <1>2, <1>12, Zenon DEF Writing
  <1>19. Closing'
    <2>1. ASSUME answers # <<>> PROVE sent # <<>> /\ sent'[Len(answers)] = current
      <3>1. Len(answers) # 0
        BY <2>1, <1>3 DEF Types
      <3>2. sent # <<>> /\ Len(sent) \in 1..Len(sent)
        BY <3>1, <1>3, <1>eq, EmptyFacts
      <3> QED
        BY <3>2, <1>eq, <1>4 DEF current
    <2>2. ASSUME answers # <<>> PROVE ~AsksClose(sent'[Len(answers)])
      BY <2>1, <2>2, <1>2, Zenon
    <2> QED
      BY <2>2, <1>1, <1>11 DEF Closing
  <1>20. Delivery'
    <2>1. rests = 0 => rests <= 1
      BY <1>3 DEF Types
    <2> QED
      BY <2>1, <1>1, <1>2, Zenon DEF Delivery
  <1>21. Judged'
    BY <1>1, <1>11 DEF Judged
  <1>22. AnswersAreRight'
    <2> SUFFICES ASSUME ~split', NEW i \in DOMAIN answers', FirstError(i)', ~Stale(i)'
                 PROVE  /\ i <= Len(sent')
                        /\ answers'[i] \in IF IsBad(sent'[i]) THEN {"error"}
                             ELSE Replies(sent'[i].line.url, Asked(sent'[i], "If-Modified-Since"))
      BY DEF AnswersAreRight
    <2>1. i \in DOMAIN answers /\ i \in 1..Len(sent)
      BY <1>1, <1>eq
    <2>2. sent'[i] = sent[i] /\ i <= Len(sent')
      BY <2>1, <1>3, <1>4
    <2>3. FirstError(i) /\ ~split
      BY <1>1 DEF FirstError
    <2>4. ~Stale(i)
      <3>1. \A j \in 1..(i - 1) : sent'[j] = sent[j]
        BY <2>1, <1>3, <1>4
      <3> QED
        BY <3>1, Zenon DEF Stale
    <2>5. answers[i] \in IF IsBad(sent[i]) THEN {"error"}
                         ELSE Replies(sent[i].line.url, Asked(sent[i], "If-Modified-Since"))
      BY <2>1, <2>3, <2>4 DEF IInv, AnswersAreRight
    <2> QED
      BY <2>2, <2>5, <1>1
  <1> QED
    BY <1>4, <1>5, <1>13, <1>14, <1>16, <1>17, <1>18, <1>19, <1>20, <1>21, <1>22, Zenon
       DEF IInv, Begun, Silent

-----------------------------------------------------------------------------

(* onMessage's parser leaves the output side alone.                        *)
LEMMA OutKept ==
    ASSUME IInv, sent # <<>>, pc # "closed", pc' # "closed", split => split',
           UNCHANGED sent, UNCHANGED answers, UNCHANGED output, UNCHANGED writing,
           UNCHANGED received, UNCHANGED rests
    PROVE  Delivery' /\ AnswersAreRight'
  <1>1. Delivery /\ AnswersAreRight
    BY Parts
  <1>2. Delivery'
    BY <1>1 DEF Delivery
  <1>3. AnswersAreRight'
    <2>1. \A i : (FirstError(i)' <=> FirstError(i)) /\ (Stale(i)' <=> Stale(i))
      BY DEF FirstError, Stale
    <2> QED
      BY <1>1, <2>1 DEF AnswersAreRight
  <1> QED
    BY <1>2, <1>3

(* handleRead moves bytes from the client to the end of input_buffer.      *)
LEMMA Reads ==
    ASSUME Types, sent # <<>>, Suffix, UNCHANGED sent, NEW n \in 1..Len(script),
           input' \in Seq(Tokens), Len(input') = Len(input) + n,
           \A i \in 1..Len(input) : input'[i] = input[i],
           \A i \in 1..n : input'[Len(input) + i] = script[i],
           script' \in Seq(Tokens), Len(script') = Len(script) - n,
           \A i \in 1..(Len(script) - n) : script'[i] = script[n + i]
    PROVE  pos' = pos /\ Suffix'
  <1>1. /\ input \in Seq(Tokens) /\ Len(input) \in Nat /\ DOMAIN input = 1..Len(input)
        /\ script \in Seq(Tokens) /\ Len(script) \in Nat /\ DOMAIN script = 1..Len(script)
        /\ pos \in Int /\ Len(Bytes(current)) \in Nat
    <2>1. pos \in Int /\ Len(Bytes(current)) \in Nat
      BY CurrentFacts, Zenon
    <2>2. input \in Seq(Tokens) /\ Len(input) \in Nat /\ DOMAIN input = 1..Len(input)
      BY InputFacts, Zenon
    <2>3. script \in Seq(Tokens)
      BY Zenon DEF Types
    <2>4. Len(script) \in Nat /\ DOMAIN script = 1..Len(script)
      BY <2>3
    <2> QED
      BY <2>1, <2>2, <2>3, <2>4, Zenon
  <1>2. Len(Bytes(current))' = Len(Bytes(current))
    BY SameRequest
  <1>5. pos' = pos
    BY <1>1, <1>2 DEF pos
  <1>6. /\ DOMAIN input' = 1..(Len(input) + n) /\ Len(input) + n \in Nat
        /\ DOMAIN script' = 1..(Len(script) - n) /\ Len(script) - n \in Nat
    BY <1>1
  <1>7. ASSUME NEW i \in DOMAIN input'
        PROVE  IF pos' + i >= 1 THEN input'[i] = Bytes(current)[pos' + i] ELSE input'[i] \in BodyTokens
    <2>1. CASE i \in 1..Len(input)
      <3>1. i \in DOMAIN input /\ input'[i] = input[i]
        BY <2>1, <1>1, Zenon
      <3> QED
        BY <3>1, <1>5, Zenon DEF Suffix
    <2>2. CASE i \in (Len(input) + 1)..(Len(input) + n)
      <3>1. i - Len(input) \in 1..n /\ i - Len(input) \in DOMAIN script /\ pos + i >= 1
        <4>1. pos + Len(input) >= 0
          BY Zenon DEF Suffix
        <4> QED
          BY <2>2, <1>1, <4>1
      <3>2. input'[i] = script[i - Len(input)]
        <4>1. Len(input) + (i - Len(input)) = i
          BY <2>2, <1>1
        <4> QED
          BY <4>1, <3>1
      <3>3. pos + Len(input) + (i - Len(input)) = pos + i
        BY <2>2, <1>1
      <3>4. script[i - Len(input)] = Bytes(current)[pos + i]
        BY <3>1, <3>3 DEF Suffix
      <3> QED
        BY <3>1, <3>2, <3>4, <1>5, Zenon
    <2> QED
      BY <2>1, <2>2, <1>6, <1>1
  <1>8. ASSUME NEW i \in DOMAIN script'
        PROVE  script'[i] = Bytes(current)[pos' + Len(input') + i]
    <2>1. n + i \in DOMAIN script /\ pos' + Len(input') + i = pos + Len(input) + (n + i)
      <3>1. i \in 1..(Len(script) - n)
        BY <1>6
      <3>2. n + i \in DOMAIN script
        BY <3>1, <1>1
      <3>3. pos' = pos /\ Len(input') = Len(input) + n
        BY <1>5
      <3>4. n \in Nat /\ i \in Nat /\ pos \in Int /\ Len(input) \in Nat
        BY <3>1, <1>1
      <3>5. pos + (Len(input) + n) + i = pos + Len(input) + (n + i)
        BY <3>4
      <3> QED
        BY <3>2, <3>3, <3>5
    <2> QED
      BY <2>1, <1>6, Zenon DEF Suffix
  <1>9. pos' + Len(input') >= 0
    BY <1>1, <1>5 DEF Suffix
  <1> QED
    BY <1>5, <1>7, <1>8, <1>9, SameRequest, Zenon DEF Suffix

(* handleRead: a segment comes.                                            *)
LEMMA HandleReadIInv ==
    ASSUME IInv, NEW n \in 1..Len(script), HandleRead(n)
    PROVE  IInv'
  <1>1. /\ pc = "idle" /\ pc' = "parse" /\ flag' = FALSE
        /\ split' = (split \/ Len(script') \in 1..Len(current.body))
        /\ UNCHANGED sent /\ UNCHANGED reqstate /\ UNCHANGED req
        /\ UNCHANGED answers /\ UNCHANGED output /\ UNCHANGED writing
        /\ UNCHANGED received /\ UNCHANGED rests
    BY DEF HandleRead, outVars, current
  <1>2. Types /\ script \in Seq(Tokens) /\ input \in Seq(Tokens) /\ Len(script) \in Nat /\ Len(input) \in Nat
    BY DEF IInv, Types
  <1>3. sent # <<>>
    <2>1. script # <<>>
      BY <1>2, EmptyFacts
    <2> QED
      BY <2>1, Zenon DEF IInv, Silent
  <1>4. /\ Types /\ Position /\ Parsed /\ Stuck /\ Unsplit /\ Count
        /\ Writing /\ Closing /\ Delivery /\ Judged /\ AnswersAreRight
    BY <1>3, Parts
  <1>5. /\ input' \in Seq(Tokens) /\ Len(input') = Len(input) + n
        /\ \A i \in 1..Len(input) : input'[i] = input[i]
        /\ \A i \in 1..n : input'[Len(input) + i] = script[i]
    <2>1. PICK seg : seg = SubSeq(script, 1, n)
      BY Zenon
    <2>2. seg \in Seq(Tokens) /\ Len(seg) = n /\ \A i \in 1..n : seg[i] = script[i]
      BY <2>1, <1>2, FrontFacts
    <2>3. input' = input \o seg
      BY <2>1 DEF HandleRead
    <2>4. /\ input \o seg \in Seq(Tokens) /\ Len(input \o seg) = Len(input) + Len(seg)
          /\ \A i \in 1..Len(input) : (input \o seg)[i] = input[i]
          /\ \A i \in 1..Len(seg) : (input \o seg)[Len(input) + i] = seg[i]
      <3>1. input \in Seq(Tokens) /\ seg \in Seq(Tokens)
        BY <2>2, <1>2
      <3> QED
        BY <3>1, ConcatFacts
    <2> QED
      BY <2>2, <2>3, <2>4
  <1>6. /\ script' \in Seq(Tokens) /\ Len(script') = Len(script) - n
        /\ \A i \in 1..(Len(script) - n) : script'[i] = script[n + i]
    <2>1. PICK rest : rest = SubSeq(script, n + 1, Len(script))
      BY Zenon
    <2>2. /\ rest \in Seq(Tokens) /\ Len(rest) = Len(script) - n
          /\ \A i \in 1..(Len(script) - n) : rest[i] = script[n + i]
      BY <2>1, <1>2, RestFacts
    <2>3. script' = rest
      BY <2>1 DEF HandleRead
    <2> QED
      BY <2>2, <2>3
  <1>7. pos' = pos /\ Suffix'
    BY <1>1, <1>2, <1>3, <1>4, <1>5, <1>6, Reads, Zenon DEF Position
  <1>8. /\ Fresh' <=> Fresh
        /\ Drained' <=> Drained
        /\ \A h : Read(h)' <=> Read(h)
        /\ lines' = lines /\ BodyAt' = BodyAt /\ current' = current
        /\ \A m : NoneBefore(m)' <=> NoneBefore(m)
        /\ \A h : Holds(h)' <=> Holds(h)
    BY <1>1, <1>7, SameMode
  <1>9. Err' <=> Err
    BY <1>1 DEF Err
  <1>10. Types'
    <2>1. split' \in BOOLEAN
      BY <1>1
    <2> QED
      BY <2>1, <1>1, <1>4, <1>5, <1>6, Zenon DEF Types
  <1>11. Position'
    BY <1>1, <1>4, <1>7, <1>8 DEF Position
  <1>12. Parsed'
    BY <1>1, <1>4, <1>8, <1>9, Zenon DEF Parsed
  <1>13. Stuck'
    <2>1. Len(input') >= Len(input) /\ pos \in Int /\ Len(input') \in Nat
      BY <1>2, <1>3, <1>5, CurrentFacts
    <2> SUFFICES ASSUME Err PROVE Stuck'
      BY <1>9 DEF Stuck
    <2>2. pos' = pos /\ lines' = lines /\ current' = current /\ (Fresh' <=> Fresh)
      BY <1>7, <1>8
    <2>3. req'.headers["Connection"] = "close"
      BY <1>1, <1>4 DEF Stuck
    <2>4. ASSUME Fresh PROVE Len(input') >= 3 - pos /\ (pos < 0 \/ ~GoodLine(current.line))
      <3>1. Len(input) >= 3 - pos /\ (pos < 0 \/ ~GoodLine(current.line))
        BY <2>4, <1>4 DEF Stuck
      <3> QED
        BY <3>1, <2>1, <1>2
    <2>5. ASSUME reqstate = "HEADER"
          PROVE  /\ Len(input') >= 3
                 /\ \E h \in 0..(lines - 1) :
                       pos = 3 * h + 3 /\ current.headers[h + 1].name = "UNKNOW"
      <3>1. /\ Len(input) >= 3
            /\ \E h \in 0..(lines - 1) :
                   pos = 3 * h + 3 /\ current.headers[h + 1].name = "UNKNOW"
        BY <2>5, <1>4 DEF Stuck
      <3>2. Len(input') >= 3
        BY <3>1, <2>1, <1>2
      <3> QED
        BY <3>1, <3>2
    <2>6. reqstate' = reqstate
      BY <1>1
    <2> QED
      BY <2>2, <2>3, <2>4, <2>5, <2>6 DEF Stuck
  <1>14. Unsplit'
    <2> SUFFICES ASSUME ~split' PROVE Unsplit'
      BY DEF Unsplit
    <2>1. ~split /\ Len(script') \notin 1..Len(current.body)
      BY <1>1, Zenon
    <2>2. script # <<>>
      BY <1>2, EmptyFacts
    <2> QED
      BY <2>1, <2>2, <1>1, <1>4, <1>7, <1>8 DEF Unsplit
  <1>15. Count'
    BY <1>1, <1>4, <1>8, <1>9 DEF Count
  <1>16. Writing'
    BY <1>1, <1>4, <1>8, <1>9 DEF Writing, Answered
  <1>17. Closing'
    BY <1>1, <1>4, <1>8, <1>9 DEF Closing
  <1>18. Delivery' /\ AnswersAreRight'
    BY <1>1, <1>3, OutKept, Zenon
  <1>19. Judged'
    BY <1>1, <1>4, <1>8, <1>9, Zenon DEF Judged
  <1> QED
    BY <1>1, <1>3, <1>10, <1>11, <1>12, <1>13, <1>14, <1>15, <1>16, <1>17, <1>18, <1>19, PartsGiveIInv

-----------------------------------------------------------------------------

(* Parsing a line or the content moves the beginning of input_buffer, the  *)
(* rest stays in place.                                                    *)
LEMMA Moves ==
    ASSUME Types, sent # <<>>, Suffix, UNCHANGED sent, UNCHANGED script,
           NEW m \in 0..Len(input), pos + m >= 0,
           input' \in Seq(Tokens), Len(input') = Len(input) - m,
           \A i \in 1..(Len(input) - m) : input'[i] = input[m + i]
    PROVE  pos' = pos + m /\ Suffix'
  <1>1. /\ input \in Seq(Tokens) /\ Len(input) \in Nat /\ DOMAIN input = 1..Len(input)
        /\ pos \in Int /\ Len(script) \in Nat /\ Len(Bytes(current)) \in Nat
    BY CurrentFacts, InputFacts
  <1>2. Len(Bytes(current))' = Len(Bytes(current))
    BY SameRequest
  <1>3. pos' = pos + m
    BY <1>1, <1>2 DEF pos
  <1>4. DOMAIN input' = 1..(Len(input) - m) /\ Len(input) - m \in Nat
    BY <1>1
  <1>5. pos' + Len(input') >= 0
    BY <1>1, <1>3
  <1>6. ASSUME NEW i \in DOMAIN input'
        PROVE  IF pos' + i >= 1 THEN input'[i] = Bytes(current)[pos' + i] ELSE input'[i] \in BodyTokens
    <2>1. m + i \in DOMAIN input /\ pos' + i = pos + (m + i) /\ pos' + i >= 1
      BY <1>1, <1>3, <1>4
    <2> QED
      BY <2>1, <1>4 DEF Suffix
  <1>7. pos' + Len(input') = pos + Len(input)
    BY <1>1, <1>3
  <1>8. ASSUME NEW i \in DOMAIN script'
        PROVE  script'[i] = Bytes(current)[pos' + Len(input') + i]
    BY <1>7 DEF Suffix
  <1>9. Bytes(current)' = Bytes(current)
    BY SameRequest
  <1> QED
    BY <1>3, <1>5, <1>6, <1>8, <1>9, Zenon DEF Suffix

(* The content is the part of the body that is in input_buffer.            *)
LEMMA ContentFacts ==
    ASSUME Types, sent # <<>>, Suffix, pos = BodyAt
    PROVE  /\ \A i \in DOMAIN input : i \in DOMAIN current.body /\ input[i] = current.body[i]
           /\ script = <<>> => DOMAIN input = DOMAIN current.body
  <1>1. /\ Len(input) \in Nat /\ DOMAIN input = 1..Len(input) /\ BodyAt \in Nat /\ BodyAt >= 5
        /\ Len(script) \in Nat /\ Len(current.body) \in Nat /\ current.body \in Seq(BodyTokens)
    BY CurrentFacts, InputFacts
  <1>2. BodyAt + Len(input) + Len(script) = BodyAt + Len(current.body)
    BY CurrentFacts, Zenon
  <1>3. Len(input) + Len(script) = Len(current.body) /\ DOMAIN current.body = 1..Len(current.body)
    BY <1>1, <1>2
  <1>4. ASSUME NEW i \in DOMAIN input PROVE i \in DOMAIN current.body /\ input[i] = current.body[i]
    <2>1. i \in 1..Len(current.body) /\ pos + i >= 1
      BY <1>1, <1>3
    <2>2. Bytes(current)[BodyAt + i] = current.body[i]
      BY <2>1, BodyFacts
    <2> QED
      BY <2>1, <2>2, <1>3 DEF Suffix
  <1>5. ASSUME script = <<>> PROVE DOMAIN input = DOMAIN current.body
    <2>1. Len(script) = 0
      BY <1>5, EmptyFacts
    <2>2. Len(input) = Len(current.body)
      BY <2>1, <1>1, <1>3
    <2> QED
      BY <2>2, <1>1, <1>3
  <1> QED
    BY <1>4, <1>5

(* parseContent: the content is taken, with all of input_buffer.           *)
LEMMA ParseContentIInv ==
    ASSUME IInv, ParseContent
    PROVE  IInv'
  <1>1. /\ pc = "parse" /\ reqstate = "CONTENT" /\ IsContent
        /\ input' = <<>> /\ reqstate' = "REQUESTLINE" /\ flag' = TRUE
        /\ UNCHANGED sent /\ UNCHANGED script /\ UNCHANGED split /\ UNCHANGED req /\ UNCHANGED pc
        /\ UNCHANGED answers /\ UNCHANGED output /\ UNCHANGED writing
        /\ UNCHANGED received /\ UNCHANGED rests
    BY DEF ParseContent, ResetsState, inVars, outVars
  <1>2. sent # <<>>
    BY <1>1 DEF IInv, Silent
  <1>3. /\ Types /\ Position /\ Parsed /\ Stuck /\ Unsplit /\ Count
        /\ Writing /\ Closing /\ Delivery /\ Judged /\ AnswersAreRight
    BY <1>2, Parts
  <1>4. /\ pos \in Int /\ Len(input) \in Nat /\ lines \in Nat /\ BodyAt \in Nat
        /\ lines \in 0..lines /\ BodyAt >= 5 /\ pos = BodyAt
        /\ current.headers \in Seq(Headers)
    BY <1>1, <1>2, <1>3, CurrentFacts DEF Position
  <1>5. Read(lines) /\ ~Fresh /\ ~Drained
    BY <1>1, <1>2, <1>3, Modes
  <1>6. pos' = BodyAt + Len(input) /\ Suffix'
    <2>1. PICK m \in 0..Len(input) : m = Len(input)
      BY <1>4
    <2>2. /\ input' \in Seq(Tokens) /\ Len(input') = Len(input) - m /\ pos + m >= 0
          /\ \A i \in 1..(Len(input) - m) : input'[i] = input[m + i]
      BY <2>1, <1>1, <1>4, EmptyFacts
    <2>3. pos' = pos + m /\ Suffix'
      BY <2>1, <2>2, <1>1, <1>2, <1>3, Moves DEF Position
    <2> QED
      BY <2>1, <2>3, <1>4
  <1>7. /\ current' = current /\ lines' = lines /\ BodyAt' = BodyAt
        /\ \A n : NoneBefore(n)' <=> NoneBefore(n)
    BY <1>1, SameRequest
  <1>8. /\ ~Fresh' /\ Drained' /\ Read(lines)'
        /\ \A h \in 0..lines : Read(h)' => h = lines
    <2>1. pos' >= BodyAt /\ ~(pos' <= 0)
      BY <1>4, <1>6
    <2> QED
      BY <2>1, <1>1, <1>7 DEF Fresh, Drained, Read
  <1>9. Err' <=> Err
    BY <1>1 DEF Err
  <1>10. Types'
    BY <1>1, <1>3, EmptyFacts DEF Types
  <1>11. Position'
    BY <1>1, <1>4, <1>6, <1>7, <1>8 DEF Position
  <1>12. ASSUME ~Err PROVE Holds(lines) /\ Holds(lines)'
    <2>1. Holds(lines)
      BY <1>12, <1>3, <1>4, <1>5, Zenon DEF Parsed
    <2> QED
      BY <2>1, <1>1, <1>7, Zenon DEF Holds
  <1>13. Parsed' /\ Stuck'
    BY <1>1, <1>3, <1>7, <1>8, <1>9, <1>12, Zenon DEF Parsed, Stuck
  <1>14. Unsplit'
    BY <1>1, <1>3, <1>7, <1>8 DEF Unsplit
  <1>15. Count'
    BY <1>1, <1>3, <1>5, <1>8, <1>9 DEF Count
  <1>16. Writing'
    BY <1>1, <1>3, <1>5, <1>8, <1>9 DEF Writing, Answered
  <1>17. Closing'
    <2>1. ~Err => Len(answers) = Len(sent) - 1
      BY <1>3, <1>5 DEF Count
    <2>2. ~Err => Len(answers) # Len(sent)
      BY <2>1, <1>2, <1>3, CurrentFacts
    <2> QED
      BY <2>2, <1>1, <1>3, <1>9 DEF Closing
  <1>18. Delivery' /\ AnswersAreRight'
    BY <1>1, <1>2, OutKept
  <1>19. Judged'
    <2> SUFFICES ASSUME ~split, \A n \in Others : NoneBefore(n), ~Err PROVE ~IsBad(current)
      BY <1>1, <1>7, <1>9, Zenon DEF Judged, IsBad, Asked
    <2>1. /\ GoodLine(current.line) /\ req.method = current.line.method
          /\ \A j \in 1..lines : current.headers[j].name # "UNKNOW"
          /\ req.headers["Content-Type"] = AskedIn(current, lines, "Content-Type")
      BY <1>12, Zenon DEF Holds, Others
    <2>2. \A j \in DOMAIN current.headers : current.headers[j].name # "UNKNOW"
      <3>1. DOMAIN current.headers = 1..lines
        BY <1>4 DEF lines
      <3> QED
        BY <2>1, <3>1, Zenon
    <2>3. Asked(current, "Content-Type") = AskedIn(current, lines, "Content-Type")
      BY <1>4, AskedFacts, Zenon DEF lines
    <2>4. ASSUME current.line.method = "POST", Asked(current, "Content-Type") = "form"
          PROVE  \E i \in DOMAIN current.body : current.body[i] = Pairs
      <3>1. PICK i \in DOMAIN input : input[i] = Pairs
        BY <2>1, <2>3, <2>4, <1>1, Zenon DEF IsContent
      <3>2. i \in DOMAIN current.body /\ input[i] = current.body[i]
        BY <1>2, <1>3, <1>4, ContentFacts, Zenon DEF Position
      <3> QED
        BY <3>1, <3>2
    <2> QED
      BY <2>1, <2>2, <2>4, Zenon DEF IsBad, GoodLine
  <1> QED
    BY <1>1, <1>2, <1>10, <1>11, <1>13, <1>14, <1>15, <1>16, <1>17, <1>18, <1>19, PartsGiveIInv

-----------------------------------------------------------------------------

(* parseLine finds the first '\r' and looks at the byte after it.          *)
LEMMA FirstCRIs ==
    ASSUME input \in Seq(Tokens), NEW c \in 1..Len(input), input[c] = CR,
           \A i \in 1..Len(input) : i < c => input[i] # CR
    PROVE  /\ FirstCR = c /\ CRs # {}
           /\ Text \in Seq(Tokens) /\ Len(Text) = c - 1
           /\ \A i \in 1..Len(input) : i < c => Text[i] = input[i]
           /\ c = Len(input) => parseLine = "LINE_MORE"
           /\ c < Len(input) /\ input[c + 1] = LF => parseLine = "LINE_OK"
  <1>1. c \in CRs /\ \A i \in CRs : i \in Nat /\ c <= i
    BY DEF CRs
  <1>2. FirstCR = c
    <2>1. FirstCR \in CRs /\ \A i \in CRs : FirstCR <= i
      BY <1>1, Zenon DEF Min, FirstCR
    <2>2. FirstCR \in Nat /\ FirstCR <= c /\ c <= FirstCR
      BY <2>1, <1>1
    <2> QED
      BY <2>2
  <1>3. /\ Text \in Seq(Tokens) /\ Len(Text) = c - 1
        /\ \A i \in 1..Len(input) : i < c => Text[i] = input[i]
    BY <1>2, FrontFacts DEF Text
  <1> QED
    BY <1>1, <1>2, <1>3 DEF parseLine

(* The line at the front of input_buffer before the request line is        *)
(* parsed, with what is left of an earlier body in front of it.            *)
LEMMA FreshLine ==
    ASSUME Types, sent # <<>>, Suffix, pos <= 0
    PROVE  /\ Len(input) < 3 - pos => parseLine = "LINE_MORE"
           /\ Len(input) >= 3 - pos =>
                /\ parseLine = "LINE_OK" /\ FirstCR = 2 - pos
                /\ Text \in Seq(Tokens) /\ Len(Text) = 1 - pos
                /\ pos = 0 => Text[1] = current.line
  <1> DEFINE B == Bytes(current)
  <1>1. /\ pos \in Int /\ Len(input) \in Nat /\ input \in Seq(Tokens) /\ DOMAIN input = 1..Len(input)
        /\ current \in Requests /\ lines \in Nat
    BY CurrentFacts, InputFacts
  <1>2. B[1] = current.line /\ B[2] = CR /\ B[3] = LF /\ current.line # CR
    <2>1. 0 \in 0..Len(current.headers)
      BY <1>1 DEF lines
    <2>2. B[1] = current.line /\ current.line \in Lines /\ B[3 * 0 + 2] = CR /\ B[3 * 0 + 3] = LF
      BY <1>1, <2>1, BytesFacts, Zenon
    <2> QED
      BY <2>2, Kinds
  <1>3. \A i \in 1..Len(input) : i <= 1 - pos => input[i] # CR
    <2> TAKE i \in 1..Len(input)
    <2>1. CASE pos + i >= 1
      <3>1. input[i] = B[pos + i]
        BY <2>1, <1>1 DEF Suffix
      <3>2. i <= 1 - pos => pos + i = 1
        BY <2>1, <1>1
      <3> QED
        BY <3>1, <3>2, <1>2
    <2>2. CASE ~(pos + i >= 1)
      BY <2>2, <1>1, Kinds DEF Suffix
    <2> QED
      BY <2>1, <2>2
  <1>4. CASE Len(input) < 2 - pos
    BY <1>4, <1>1, <1>3, NoCR
  <1>5. CASE Len(input) >= 2 - pos
    <2>1. 2 - pos \in 1..Len(input) /\ input[2 - pos] = CR
      <3>1. 2 - pos \in 1..Len(input) /\ pos + (2 - pos) = 2
        BY <1>5, <1>1
      <3>2. input[2 - pos] = B[pos + (2 - pos)]
        BY <3>1, <1>1 DEF Suffix
      <3> QED
        BY <3>1, <3>2, <1>2
    <2>2. \A i \in 1..Len(input) : i < 2 - pos => input[i] # CR
      BY <1>5, <1>1, <1>3
    <2>3. 2 - pos < Len(input) => input[(2 - pos) + 1] = LF
      <3> SUFFICES ASSUME 2 - pos < Len(input) PROVE input[3 - pos] = LF
        BY <1>1
      <3>1. 3 - pos \in 1..Len(input) /\ pos + (3 - pos) = 3
        BY <1>1
      <3>2. input[3 - pos] = B[pos + (3 - pos)]
        BY <3>1, <1>1 DEF Suffix
      <3> QED
        BY <3>1, <3>2, <1>2
    <2>4. pos = 0 => input[1] = current.line
      BY <1>5, <1>1, <1>2 DEF Suffix
    <2>5. /\ FirstCR = 2 - pos
          /\ Text \in Seq(Tokens) /\ Len(Text) = (2 - pos) - 1
          /\ \A i \in 1..Len(input) : i < 2 - pos => Text[i] = input[i]
          /\ 2 - pos = Len(input) => parseLine = "LINE_MORE"
          /\ 2 - pos < Len(input) => parseLine = "LINE_OK"
      BY <2>1, <2>2, <2>3, <1>1, FirstCRIs, Zenon
    <2>6. pos = 0 => Text[1] = current.line
      BY <2>4, <2>5, <1>5, <1>1
    <2> QED
      BY <2>5, <2>6, <1>5, <1>1
  <1> QED
    BY <1>4, <1>5, <1>1

(* The '\r' and the '\n' go with the line: AfterLine begins two bytes after  *)
(* the '\r'.                                                               *)
LEMMA LineGone ==
    ASSUME Types, sent # <<>>, Suffix, UNCHANGED sent, UNCHANGED script,
           FirstCR \in 1..(Len(input) - 1), pos + FirstCR + 1 >= 0, input' = AfterLine
    PROVE  /\ input' \in Seq(Tokens) /\ Len(input') = Len(input) - (FirstCR + 1)
           /\ pos' = pos + FirstCR + 1
           /\ Suffix'
  <1>1. input \in Seq(Tokens) /\ Len(input) \in Nat /\ pos \in Int
    BY CurrentFacts, InputFacts
  <1>2. PICK m \in 0..Len(input) : m = FirstCR + 1
    BY <1>1
  <1>3. PICK rest : rest = SubSeq(input, m + 1, Len(input))
    BY Zenon
  <1>4. /\ rest \in Seq(Tokens) /\ Len(rest) = Len(input) - m
        /\ \A i \in 1..(Len(input) - m) : rest[i] = input[m + i]
    BY <1>1, <1>2, <1>3, RestFacts, Zenon
  <1>5. input' = rest
    <2>1. FirstCR + 2 = m + 1
      BY <1>1, <1>2
    <2> QED
      BY <2>1, <1>3 DEF AfterLine
  <1>6. pos + m >= 0 /\ pos + m = pos + FirstCR + 1
    BY <1>1, <1>2
  <1>7. /\ input' \in Seq(Tokens) /\ Len(input') = Len(input) - m
        /\ \A i \in 1..(Len(input) - m) : input'[i] = input[m + i]
    BY <1>4, <1>5
  <1>8. pos' = pos + m /\ Suffix'
    BY <1>2, <1>6, <1>7, Moves
  <1> QED
    BY <1>2, <1>6, <1>7, <1>8

(* parseRequestLine: the request line is read as it was sent.              *)
LEMMA ParseRequestLineIInv ==
    ASSUME IInv, ParseRequestLine
    PROVE  IInv'
  <1>1. /\ pc = "parse" /\ reqstate = "REQUESTLINE" /\ parseLine = "LINE_OK" /\ IsRequestLine
        /\ req' = [req EXCEPT !.method = Text[1].method, !.url = Text[1].url,
                              !.version = Text[1].version]
        /\ input' = AfterLine /\ reqstate' = "HEADER"
        /\ UNCHANGED sent /\ UNCHANGED script /\ UNCHANGED split /\ UNCHANGED flag /\ UNCHANGED pc
        /\ UNCHANGED answers /\ UNCHANGED output /\ UNCHANGED writing
        /\ UNCHANGED received /\ UNCHANGED rests
    BY DEF ParseRequestLine, parseRequestLine, inVars, outVars
  <1>2. sent # <<>>
    BY <1>1 DEF IInv, Silent
  <1>3. /\ Types /\ Position /\ Parsed /\ Stuck /\ Unsplit /\ Count
        /\ Writing /\ Closing /\ Delivery /\ Judged /\ AnswersAreRight
    BY <1>2, Parts
  <1>4. /\ pos \in Int /\ Len(input) \in Nat /\ lines \in Nat /\ BodyAt >= 5 /\ BodyAt \in Nat
        /\ current.headers \in Seq(Headers)
    BY <1>2, <1>3, CurrentFacts
  <1>5. Fresh /\ ~Drained /\ pos <= 0
    <2>1. ~Drained
      BY <1>1, <1>2, <1>3, DrainedLine DEF Position, Drained
    <2> QED
      BY <2>1, <1>1, <1>3 DEF Position, Read, Fresh
  <1>6. Len(input) >= 3 - pos
    BY <1>1, <1>2, <1>3, <1>4, <1>5, FreshLine DEF Position
  <1>7. /\ FirstCR = 2 - pos /\ Len(Text) = 1 - pos
        /\ pos = 0 => Text[1] = current.line
    BY <1>2, <1>3, <1>5, <1>6, FreshLine DEF Position
  <1>8. pos = 0 /\ Text[1] = current.line
    <2>1. Len(Text) = 1
      BY <1>1 DEF IsRequestLine
    <2>2. 1 - pos = 1
      BY <2>1, <1>7
    <2>3. pos = 0
      BY <2>2, <1>4
    <2> QED
      BY <2>3, <1>7
  <1>9. GoodLine(current.line)
    BY <1>1, <1>8 DEF IsRequestLine, GoodLine
  <1>10. ~Err
    BY <1>3, <1>4, <1>5, <1>8, <1>9 DEF Stuck
  <1>11. input' \in Seq(Tokens) /\ pos' = 3 /\ Suffix'
    <2>1. FirstCR = 2 /\ FirstCR \in 1..(Len(input) - 1) /\ pos + FirstCR + 1 = 3
      BY <1>4, <1>6, <1>7, <1>8
    <2> QED
      BY <2>1, <1>1, <1>2, <1>3, LineGone DEF Position
  <1>12. /\ req'.method = current.line.method /\ req'.url = current.line.url
         /\ req'.version = current.line.version /\ req'.headers = req.headers
         /\ req' = [method |-> req'.method, url |-> req'.url, version |-> req'.version,
                    headers |-> req'.headers]
    BY <1>1, <1>3, <1>8, Zenon DEF Types
  <1>13. /\ current' = current /\ lines' = lines /\ BodyAt' = BodyAt
         /\ \A n : NoneBefore(n)' <=> NoneBefore(n)
    BY <1>1, SameRequest
  <1>14. /\ ~Fresh' /\ ~Drained' /\ Read(0)'
         /\ \A h \in 0..lines : Read(h)' => h = 0
    <2>1. \A h \in 0..lines : 3 = 3 * h + 3 => h = 0
      BY <1>4
    <2> QED
      BY <2>1, <1>1, <1>11 DEF Fresh, Drained, Read
  <1>15. ~Err'
    BY <1>1, <1>10 DEF Err
  <1>16. Types'
    BY <1>1, <1>3, <1>11, <1>12 DEF Types
  <1>17. ~flag
    BY <1>1, <1>3, <1>5 DEF Position
  <1>18. Position'
    <2>1. 0 \in 0..lines'
      BY <1>4, <1>13
    <2> QED
      BY <2>1, <1>1, <1>11, <1>14, <1>17 DEF Position
  <1>19. Parsed' /\ Stuck'
    <2>1. \A n : AskedIn(current, 0, n) = ""
      BY <1>4, AskedFacts, Zenon
    <2>2. /\ req.headers["Connection"] # "close"
          /\ \A n \in Others : NoneBefore(n) => req.headers[n] = ""
      BY <1>3, <1>5, <1>10, Zenon DEF Parsed
    <2>3. Holds(0)'
      <3>1. AskedIn(current, 0, "Connection") # "close"
        BY <2>1, Zenon
      <3>2. \A j \in 1..0 : current.headers[j].name # "UNKNOW"
        OBVIOUS
      <3> QED
        BY <2>1, <2>2, <3>1, <3>2, <1>9, <1>12, <1>13, Zenon DEF Holds
    <2> QED
      BY <2>3, <1>13, <1>14, <1>15, Zenon DEF Parsed, Stuck
  <1>20. Unsplit'
    BY <1>1, <1>3, <1>13, <1>14 DEF Unsplit
  <1>21. Count'
    BY <1>1, <1>3, <1>5, <1>10, <1>14, <1>15 DEF Count
  <1>22. Writing'
    BY <1>1, <1>3, <1>5, <1>10, <1>15 DEF Writing
  <1>23. Closing'
    BY <1>1, <1>3, <1>10, <1>14, <1>15 DEF Closing
  <1>24. Delivery' /\ AnswersAreRight'
    BY <1>1, <1>2, OutKept
  <1>25. Judged'
    BY <1>1, <1>14 DEF Judged
  <1> QED
    BY <1>1, <1>2, <1>16, <1>18, <1>19, <1>20, <1>21, <1>22, <1>23, <1>24, <1>25, PartsGiveIInv

-----------------------------------------------------------------------------

(* The line at the front when h headers are parsed and another is to come. *)
LEMMA HeaderLine ==
    ASSUME Types, sent # <<>>, Suffix, NEW h \in 0..(lines - 1), pos = 3 * h + 3
    PROVE  /\ Len(input) < 3 => parseLine = "LINE_MORE"
           /\ Len(input) >= 3 =>
                /\ parseLine = "LINE_OK" /\ FirstCR = 2
                /\ Text \in Seq(Tokens) /\ Len(Text) = 1
                /\ Text[1] = current.headers[h + 1]
                /\ Text[1] \in Headers
  <1> DEFINE B == Bytes(current)
  <1>1. /\ pos \in Nat /\ Len(input) \in Nat /\ input \in Seq(Tokens) /\ DOMAIN input = 1..Len(input)
        /\ current \in Requests /\ lines \in Nat /\ h + 1 \in 1..lines
        /\ current.headers[h + 1] \in Headers
    <2>1. /\ pos \in Int /\ current \in Requests /\ lines \in Nat
          /\ current.headers \in Seq(Headers)
      BY CurrentFacts
    <2>2. h + 1 \in 1..Len(current.headers)
      BY <2>1 DEF lines
    <2>3. current.headers[h + 1] \in Headers
      BY <2>1, <2>2
    <2>4. pos \in Nat /\ h + 1 \in 1..lines
      BY <2>1
    <2> QED
      BY <2>1, <2>3, <2>4, InputFacts
  <1>2. B[pos + 1] = current.headers[h + 1] /\ B[pos + 2] = CR /\ B[pos + 3] = LF
    <2>1. /\ B[3 * (h + 1) + 1] = current.headers[h + 1]
          /\ B[3 * (h + 1) + 2] = CR /\ B[3 * (h + 1) + 3] = LF
      <3>1. h + 1 \in 1..Len(current.headers) /\ h + 1 \in 0..Len(current.headers)
        BY <1>1 DEF lines
      <3> QED
        BY <3>1, <1>1, BytesFacts, Zenon
    <2>2. 3 * (h + 1) = pos
      OBVIOUS
    <2> QED
      BY <2>1, <2>2, Zenon
  <1>3. \A i \in 1..Len(input) : input[i] = B[pos + i]
    <2> TAKE i \in 1..Len(input)
    <2>1. i \in DOMAIN input /\ pos + i >= 1
      BY <1>1
    <2> QED
      BY <2>1 DEF Suffix
  <1>4. 1 <= Len(input) => input[1] = current.headers[h + 1] /\ input[1] # CR
    <2>1. 1 <= Len(input) => input[1] = B[pos + 1]
      BY <1>1, <1>3
    <2>2. current.headers[h + 1] # CR
      BY <1>1, Kinds
    <2> QED
      BY <1>2, <2>1, <2>2, Zenon
  <1>5. CASE Len(input) < 2
    <2>1. \A i \in DOMAIN input : i = 1 /\ 1 <= Len(input)
      BY <1>1, <1>5
    <2>2. parseLine = "LINE_MORE"
      BY <1>4, <2>1, NoCR, Zenon
    <2> QED
      BY <1>1, <1>5, <2>2
  <1>6. CASE Len(input) >= 2
    <2>1. 2 \in 1..Len(input) /\ input[2] = CR /\ \A i \in 1..Len(input) : i < 2 => input[i] # CR
      BY <1>6, <1>1, <1>2, <1>3, <1>4
    <2>2. 2 < Len(input) => input[2 + 1] = LF
      BY <1>6, <1>1, <1>2, <1>3
    <2>3. PICK c \in 1..Len(input) : c = 2
      BY <2>1
    <2>4. /\ FirstCR = c
          /\ Text \in Seq(Tokens) /\ Len(Text) = c - 1
          /\ \A i \in 1..Len(input) : i < c => Text[i] = input[i]
          /\ c = Len(input) => parseLine = "LINE_MORE"
          /\ c < Len(input) => parseLine = "LINE_OK"
      BY <2>1, <2>2, <2>3, <1>1, FirstCRIs, Zenon
    <2>5. FirstCR = 2 /\ Text \in Seq(Tokens) /\ Len(Text) = 1
      BY <2>3, <2>4
    <2>6. Text[1] = current.headers[h + 1] /\ Text[1] \in Headers
      <3>1. 1 \in 1..Len(input) /\ 1 < c /\ 1 <= Len(input)
        BY <1>1, <1>6, <2>3
      <3> QED
        BY <1>1, <1>4, <2>4, <3>1, Zenon
    <2>7. /\ Len(input) < 3 => parseLine = "LINE_MORE"
          /\ Len(input) >= 3 => parseLine = "LINE_OK"
      <3>1. (Len(input) < 3 => c = Len(input)) /\ (Len(input) >= 3 => c < Len(input))
        BY <1>1, <1>6, <2>3
      <3> QED
        BY <2>4, <3>1, Zenon
    <2> QED
      BY <2>5, <2>6, <2>7, Zenon
  <1> QED
    BY <1>5, <1>6, <1>1

(* parseHeaderLine: one more header is read.                               *)
LEMMA HeaderIInv ==
    ASSUME IInv, ParseHeaderLine, sent # <<>>, NEW g \in 0..(lines - 1), pos = 3 * g + 3
    PROVE  IInv'
  <1>1. /\ pc = "parse" /\ reqstate = "HEADER" /\ parseLine = "LINE_OK" /\ parseHeaderLine
        /\ input' = AfterLine
        /\ UNCHANGED sent /\ UNCHANGED script /\ UNCHANGED split /\ UNCHANGED flag /\ UNCHANGED pc
        /\ UNCHANGED answers /\ UNCHANGED output /\ UNCHANGED writing
        /\ UNCHANGED received /\ UNCHANGED rests
    BY DEF ParseHeaderLine, inVars, outVars
  <1>3. /\ Types /\ Position /\ Parsed /\ Stuck /\ Unsplit /\ Count
        /\ Writing /\ Closing /\ Delivery /\ Judged /\ AnswersAreRight
    BY Parts
  <1>4. /\ pos \in Int /\ Len(input) \in Nat /\ lines \in Nat /\ BodyAt >= 5 /\ BodyAt \in Nat
        /\ current.headers \in Seq(Headers) /\ g + 1 \in 0..lines /\ g \in 0..lines
    <2>1. /\ pos \in Int /\ Len(input) \in Nat /\ lines \in Nat /\ BodyAt >= 5 /\ BodyAt \in Nat
          /\ current.headers \in Seq(Headers)
      BY <1>3, CurrentFacts
    <2>2. g + 1 \in 0..lines /\ g \in 0..lines
      BY <2>1
    <2> QED
      BY <2>1, <2>2
  <1>5. Read(g) /\ ~Fresh /\ ~Drained
    BY <1>1, <1>3, Modes DEF Read
  <1>6. Len(input) >= 3
    BY <1>1, <1>3, <1>4, HeaderLine DEF Position
  <1>7. /\ FirstCR = 2 /\ Len(Text) = 1
        /\ Text[1] = current.headers[g + 1]
    BY <1>3, <1>6, HeaderLine DEF Position
  <1>8. /\ Text[1].name # "UNKNOW" /\ UNCHANGED reqstate
        /\ req' = [req EXCEPT !.headers = WithHeader(Text[1].name, Text[1].value)]
    <2>1. ASSUME Text = <<>> PROVE FALSE
      <3>1. Len(Text) = 0
        BY <2>1, EmptyFacts
      <3> QED
        BY <3>1, <1>7
    <2> QED
      BY <2>1, <1>1 DEF parseHeaderLine, IsHeader
  <1>10. ~Err
    <2>1. ASSUME NEW h \in 0..(lines - 1), pos = 3 * h + 3 PROVE h = g
      BY <2>1, <1>4
    <2> QED
      BY <2>1, <1>1, <1>3, <1>7, <1>8 DEF Stuck
  <1>11. input' \in Seq(Tokens) /\ pos' = 3 * (g + 1) + 3 /\ Suffix'
    <2>1. FirstCR \in 1..(Len(input) - 1) /\ pos + FirstCR + 1 = 3 * (g + 1) + 3 /\ pos + FirstCR + 1 >= 0
      BY <1>4, <1>6, <1>7
    <2> QED
      BY <2>1, <1>1, <1>3, LineGone DEF Position
  <1>12. /\ req'.method = req.method /\ req'.url = req.url
         /\ req'.version = req.version
         /\ req'.headers = WithHeader(Text[1].name, Text[1].value)
         /\ req' = [method |-> req'.method, url |-> req'.url, version |-> req'.version,
                    headers |-> req'.headers]
    BY <1>8, <1>3, Zenon DEF Types
  <1>13. /\ current' = current /\ lines' = lines /\ BodyAt' = BodyAt
         /\ \A n : NoneBefore(n)' <=> NoneBefore(n)
    BY <1>1, SameRequest
  <1>14. /\ ~Fresh' /\ ~Drained' /\ Read(g + 1)'
         /\ \A h \in 0..lines : Read(h)' => h = g + 1
    <2>1. \A h \in 0..lines : 3 * (g + 1) + 3 = 3 * h + 3 => h = g + 1
      BY <1>4
    <2> QED
      BY <2>1, <1>1, <1>8, <1>11 DEF Fresh, Drained, Read
  <1>15. ~Err'
    BY <1>1, <1>10 DEF Err
  <1>16. Types'
    <2>1. req'.headers = [n \in Names |-> req'.headers[n]]
      BY <1>12 DEF WithHeader
    <2> QED
      BY <2>1, <1>1, <1>3, <1>8, <1>11, <1>12 DEF Types
  <1>17. ~flag
    BY <1>1, <1>3, <1>5 DEF Position
  <1>18. Position'
    BY <1>1, <1>4, <1>8, <1>11, <1>13, <1>14, <1>17 DEF Position
  <1>19. Parsed' /\ Stuck'
    <2>1. \A n : AskedIn(current, g + 1, n) =
                   IF current.headers[g + 1].name = n THEN current.headers[g + 1].value
                   ELSE AskedIn(current, g, n)
      BY <1>4, AskedFacts, Zenon DEF lines
    <2>2. Holds(g)
      BY <1>3, <1>4, <1>5, <1>10, Zenon DEF Parsed
    <2>3. ASSUME NEW n \in Names
          PROVE  req'.headers[n] = IF current.headers[g + 1].name = n THEN current.headers[g + 1].value
                                   ELSE req.headers[n]
      BY <1>7, <1>12 DEF WithHeader
    <2>4. Holds(g + 1)'
      <3>1. req'.headers["Connection"] = "close" <=> AskedIn(current, g + 1, "Connection") = "close"
        BY <2>1, <2>2, <2>3, Zenon DEF Holds, Names
      <3>2. ASSUME NEW n \in Others, NoneBefore(n) PROVE req'.headers[n] = AskedIn(current, g + 1, n)
        <4>1. n \in Names /\ req.headers[n] = AskedIn(current, g, n)
          BY <3>2, <2>2 DEF Holds, Others, Names
        <4> QED
          BY <4>1, <2>1, <2>3, Zenon
      <3>3. \A j \in 1..(g + 1) : current.headers[j].name # "UNKNOW"
        <4>1. \A j \in 1..(g + 1) : j = g + 1 \/ j \in 1..g
          BY <1>4
        <4> QED
          BY <4>1, <2>2, <1>7, <1>8 DEF Holds
      <3> QED
        BY <2>2, <3>1, <3>2, <3>3, <1>12, <1>13, Zenon DEF Holds
    <2> QED
      BY <2>4, <1>13, <1>14, <1>15, Zenon DEF Parsed, Stuck
  <1>20. Unsplit'
    BY <1>1, <1>3, <1>8, <1>13, <1>14 DEF Unsplit
  <1>21. Count'
    BY <1>1, <1>3, <1>5, <1>10, <1>14, <1>15 DEF Count
  <1>22. Writing'
    BY <1>1, <1>3, <1>5, <1>10, <1>15 DEF Writing
  <1>23. Closing'
    BY <1>1, <1>3, <1>10, <1>14, <1>15 DEF Closing
  <1>24. Delivery' /\ AnswersAreRight'
    BY <1>1, OutKept
  <1>25. Judged'
    BY <1>1, <1>14 DEF Judged
  <1> QED
    BY <1>1, <1>16, <1>18, <1>19, <1>20, <1>21, <1>22, <1>23, <1>24, <1>25, PartsGiveIInv

(* How much is still to come, for a parser at p with a bytes of input.     *)
LEMMA Sizes ==
    ASSUME NEW p \in Int, NEW a \in Nat, NEW s \in Nat, NEW b \in Nat, NEW l \in Nat,
           p + a + s = 3 * l + 5 + b
    PROVE  /\ a < 3 - p => s > 0
           /\ p = 3 * l + 3 => (a < 2 => s > 0) /\ (a >= 2 => s <= b)
           /\ \A g \in 0..(l - 1) : p = 3 * g + 3 /\ a < 3 => s > 0
  OBVIOUS

(* A line that is not complete in input_buffer is still being sent, and    *)
(* with the blank line no more than the body is.                           *)
LEMMA CurrentSizes ==
    ASSUME Types, sent # <<>>
    PROVE  /\ Len(input) < 3 - pos => Len(script) > 0
           /\ pos = 3 * lines + 3 =>
                /\ Len(input) < 2 => Len(script) > 0
                /\ Len(input) >= 2 => Len(script) <= Len(current.body)
           /\ \A g \in 0..(lines - 1) : pos = 3 * g + 3 /\ Len(input) < 3 => Len(script) > 0
  <1>1. /\ pos \in Int /\ Len(input) \in Nat /\ Len(script) \in Nat
        /\ Len(current.body) \in Nat /\ lines \in Nat
    BY CurrentFacts
  <1>2. pos + Len(input) + Len(script) = 3 * lines + 5 + Len(current.body)
    BY CurrentFacts, Zenon
  <1>3. PICK p \in Int, a \in Nat, s \in Nat, b \in Nat, l \in Nat :
            p = pos /\ a = Len(input) /\ s = Len(script) /\ b = Len(current.body) /\ l = lines
    BY <1>1, Zenon
  <1>4. p + a + s = 3 * l + 5 + b
    BY <1>2, <1>3, Zenon
  <1>5. /\ a < 3 - p => s > 0
        /\ p = 3 * l + 3 => (a < 2 => s > 0) /\ (a >= 2 => s <= b)
        /\ \A g \in 0..(l - 1) : p = 3 * g + 3 /\ a < 3 => s > 0
    BY <1>4, Sizes
  <1> QED
    BY <1>3, <1>5

(* The blank line at the front when all the headers are parsed.            *)
LEMMA BlankLine ==
    ASSUME Types, sent # <<>>, Suffix, pos = 3 * lines + 3
    PROVE  /\ Len(input) < 2 => parseLine = "LINE_MORE"
           /\ Len(input) >= 2 => parseLine = "LINE_OK" /\ FirstCR = 1 /\ Text = <<>>
  <1> DEFINE B == Bytes(current)
  <1>1. /\ pos \in Nat /\ Len(input) \in Nat /\ input \in Seq(Tokens) /\ DOMAIN input = 1..Len(input)
        /\ current \in Requests /\ lines \in Nat
    <2>1. current \in Requests /\ lines \in Nat
      BY CurrentFacts
    <2>2. pos \in Nat
      BY <2>1
    <2> QED
      BY <2>1, <2>2, InputFacts
  <1>2. B[pos + 1] = CR /\ B[pos + 2] = LF
    <2>1. B[3 * lines + 4] = CR /\ B[3 * lines + 5] = LF
      BY <1>1, BytesFacts, Zenon DEF lines
    <2>2. pos + 1 = 3 * lines + 4 /\ pos + 2 = 3 * lines + 5
      BY <1>1
    <2> QED
      BY <2>1, <2>2
  <1>3. \A i \in 1..Len(input) : input[i] = B[pos + i]
    <2> TAKE i \in 1..Len(input)
    <2>1. i \in DOMAIN input /\ pos + i >= 1
      BY <1>1
    <2> QED
      BY <2>1 DEF Suffix
  <1>4. CASE Len(input) = 0
    BY <1>4, <1>1, NoCR
  <1>5. CASE Len(input) >= 1
    <2>1. 1 \in 1..Len(input) /\ input[1] = CR /\ \A i \in 1..Len(input) : i < 1 => input[i] # CR
      BY <1>5, <1>1, <1>2, <1>3
    <2>2. 1 < Len(input) => input[1 + 1] = LF
      BY <1>5, <1>1, <1>2, <1>3
    <2>3. PICK c \in 1..Len(input) : c = 1
      BY <2>1
    <2>4. /\ FirstCR = c
          /\ Text \in Seq(Tokens) /\ Len(Text) = c - 1
          /\ c = Len(input) => parseLine = "LINE_MORE"
          /\ c < Len(input) => parseLine = "LINE_OK"
      BY <2>1, <2>2, <2>3, <1>1, FirstCRIs, Zenon
    <2> QED
      BY <2>3, <2>4, <1>5, <1>1
  <1> QED
    BY <1>4, <1>5, <1>1

(* parseHeaderLine: the blank line ends the headers, and the content that  *)
(* came with it is all of the body unless a segment ended in between.      *)
LEMMA BlankIInv ==
    ASSUME IInv, ParseHeaderLine, sent # <<>>, pos = 3 * lines + 3
    PROVE  IInv'
  <1>1. /\ pc = "parse" /\ reqstate = "HEADER" /\ parseLine = "LINE_OK" /\ parseHeaderLine
        /\ input' = AfterLine
        /\ UNCHANGED sent /\ UNCHANGED script /\ UNCHANGED split /\ UNCHANGED flag /\ UNCHANGED pc
        /\ UNCHANGED answers /\ UNCHANGED output /\ UNCHANGED writing
        /\ UNCHANGED received /\ UNCHANGED rests
    BY DEF ParseHeaderLine, inVars, outVars
  <1>3. /\ Types /\ Position /\ Parsed /\ Stuck /\ Unsplit /\ Count
        /\ Writing /\ Closing /\ Delivery /\ Judged /\ AnswersAreRight
    BY Parts
  <1>4. /\ pos \in Int /\ Len(input) \in Nat /\ lines \in Nat /\ BodyAt = 3 * lines + 5
        /\ BodyAt \in Nat /\ lines \in 0..lines /\ BodyAt >= 5
        /\ Len(script) \in Nat /\ Len(current.body) \in Nat
    BY <1>3, CurrentFacts
  <1>len. Len(input) >= 2 => Len(script) <= Len(current.body)
    BY <1>3, CurrentSizes
  <1>5. Read(lines) /\ ~Fresh /\ ~Drained
    BY <1>1, <1>3, Modes DEF Read
  <1>6. Len(input) >= 2
    BY <1>1, <1>3, <1>4, BlankLine DEF Position
  <1>7. FirstCR = 1 /\ Text = <<>>
    BY <1>3, <1>6, BlankLine DEF Position
  <1>8. UNCHANGED req /\ reqstate' = "CONTENT"
    BY <1>1, <1>7, EmptyFacts DEF parseHeaderLine, IsHeader
  <1>10. ~Err
    <2>1. ASSUME NEW h \in 0..(lines - 1), pos = 3 * h + 3 PROVE FALSE
      BY <2>1, <1>4
    <2> QED
      BY <2>1, <1>1, <1>3 DEF Stuck
  <1>11. input' \in Seq(Tokens) /\ pos' = BodyAt /\ Suffix'
    <2>1. FirstCR \in 1..(Len(input) - 1) /\ pos + FirstCR + 1 = BodyAt /\ pos + FirstCR + 1 >= 0
      BY <1>4, <1>6, <1>7
    <2> QED
      BY <2>1, <1>1, <1>3, LineGone DEF Position
  <1>13. /\ current' = current /\ lines' = lines /\ BodyAt' = BodyAt
         /\ \A n : NoneBefore(n)' <=> NoneBefore(n)
    BY <1>1, SameRequest
  <1>14. /\ ~Fresh' /\ ~Drained' /\ Read(lines)'
         /\ \A h \in 0..lines : Read(h)' => h = lines
    BY <1>8, <1>13 DEF Fresh, Drained, Read
  <1>15. ~Err'
    BY <1>1, <1>10 DEF Err
  <1>16. Types'
    BY <1>1, <1>3, <1>8, <1>11 DEF Types
  <1>17. ~flag
    BY <1>1, <1>3, <1>5 DEF Position
  <1>18. Position'
    BY <1>1, <1>4, <1>8, <1>11, <1>13, <1>14, <1>17 DEF Position
  <1>19. Parsed' /\ Stuck'
    <2>1. Holds(lines)
      BY <1>3, <1>4, <1>5, <1>10, Zenon DEF Parsed
    <2>2. Holds(lines)'
      BY <2>1, <1>8, <1>13, Zenon DEF Holds
    <2> QED
      BY <2>2, <1>8, <1>13, <1>14, <1>15, Zenon DEF Parsed, Stuck
  <1>20. Unsplit'
    <2>1. ASSUME ~split PROVE script = <<>>
      <3>1. Len(script) \notin 1..Len(current.body)
        BY <2>1, <1>3 DEF Unsplit
      <3>2. Len(script) <= Len(current.body)
        BY <1>len, <1>6
      <3>3. Len(script) = 0
        BY <3>1, <3>2, <1>4
      <3> QED
        BY <3>3, <1>3 DEF Types
    <2> QED
      BY <2>1, <1>1, <1>3, <1>8, <1>13, <1>14 DEF Unsplit
  <1>21. Count'
    BY <1>1, <1>3, <1>5, <1>10, <1>14, <1>15 DEF Count
  <1>22. Writing'
    BY <1>1, <1>3, <1>5, <1>10, <1>15 DEF Writing
  <1>23. Closing'
    BY <1>1, <1>3, <1>10, <1>14, <1>15 DEF Closing
  <1>24. Delivery' /\ AnswersAreRight'
    BY <1>1, OutKept
  <1>25. Judged'
    BY <1>1, <1>14 DEF Judged
  <1> QED
    BY <1>1, <1>16, <1>18, <1>19, <1>20, <1>21, <1>22, <1>23, <1>24, <1>25, PartsGiveIInv

(* In the HEADER state the parser is in front of a header or of the blank  *)
(* line.                                                                   *)
LEMMA HeaderOrBlank ==
    ASSUME Types, sent # <<>>, Position, reqstate = "HEADER"
    PROVE  pos = 3 * lines + 3 \/ \E g \in 0..(lines - 1) : pos = 3 * g + 3
  <1>1. PICK g \in 0..lines : pos = 3 * g + 3
    BY DEF Position, Fresh, Read, Drained
  <1>2. lines \in Nat
    BY CurrentFacts
  <1>3. g = lines \/ g \in 0..(lines - 1)
    BY <1>2
  <1> QED
    BY <1>1, <1>3

(* parseHeaderLine: a header, or the blank line after the last.            *)
LEMMA ParseHeaderLineIInv ==
    ASSUME IInv, ParseHeaderLine
    PROVE  IInv'
  <1>1. sent # <<>> /\ reqstate = "HEADER"
    BY DEF IInv, Silent, ParseHeaderLine
  <1>2. Types /\ Position
    BY <1>1, Parts
  <1> QED
    BY <1>1, <1>2, HeaderOrBlank, HeaderIInv, BlankIInv

-----------------------------------------------------------------------------

(* The loop of onMessage ends at an incomplete line.                       *)
LEMMA ParseEndsIInv ==
    ASSUME IInv, ParseEnds
    PROVE  IInv'
  <1>1. /\ pc = "parse" /\ reqstate # "CONTENT" /\ parseLine = "LINE_MORE"
        /\ pc' = IF flag THEN "respond" ELSE "idle"
        /\ UNCHANGED sent /\ UNCHANGED script /\ UNCHANGED split
        /\ UNCHANGED input /\ UNCHANGED reqstate /\ UNCHANGED req /\ UNCHANGED flag
        /\ UNCHANGED answers /\ UNCHANGED output /\ UNCHANGED writing
        /\ UNCHANGED received /\ UNCHANGED rests
    BY DEF ParseEnds, inVars, parseVars, outVars
  <1>2. sent # <<>>
    BY <1>1 DEF IInv, Silent
  <1>3. /\ Types /\ Position /\ Parsed /\ Stuck /\ Unsplit /\ Count
        /\ Writing /\ Closing /\ Delivery /\ Judged /\ AnswersAreRight
    BY <1>2, Parts
  <1>4. /\ pos \in Int /\ Len(input) \in Nat /\ lines \in Nat /\ BodyAt = 3 * lines + 5
        /\ Len(script) \in Nat /\ Len(current.body) \in Nat
    BY <1>2, <1>3, CurrentFacts
  <1>5. /\ Len(input) < 3 - pos => Len(script) > 0
        /\ pos = 3 * lines + 3 /\ Len(input) < 2 => Len(script) > 0
        /\ \A g \in 0..(lines - 1) : pos = 3 * g + 3 /\ Len(input) < 3 => Len(script) > 0
    BY <1>2, <1>3, CurrentSizes
  <1>6. pos' = pos
    BY <1>1 DEF pos, current
  <1>7. /\ Fresh' <=> Fresh
        /\ Drained' <=> Drained
        /\ \A h : Read(h)' <=> Read(h)
        /\ lines' = lines /\ BodyAt' = BodyAt /\ current' = current
        /\ \A m : NoneBefore(m)' <=> NoneBefore(m)
        /\ \A h : Holds(h)' <=> Holds(h)
    BY <1>1, <1>6, SameMode
  <1>8. Err' <=> Err
    BY <1>1 DEF Err
  <1>9. pc' \in {"idle", "respond"} /\ (pc' = "respond" <=> flag) /\ pc' # "closed"
    BY <1>1, <1>3, Zenon DEF Types
  <1>10. Types'
    BY <1>1, <1>3, <1>9, Zenon DEF Types
  <1>11. Position'
    BY <1>1, <1>3, <1>6, <1>7, <1>9, Zenon DEF Position, Suffix, current
  <1>12. Parsed' /\ Stuck' /\ Unsplit'
    BY <1>1, <1>3, <1>6, <1>7, <1>8, Zenon DEF Parsed, Stuck, Unsplit
  <1>13. ASSUME ~Drained PROVE script # <<>>
    <2>1. CASE Fresh
      <3>1. Len(input) < 3 - pos
        BY <2>1, <1>1, <1>2, <1>3, <1>4, FreshLine DEF Position, Fresh
      <3>2. Len(script) > 0
        BY <3>1, <1>4, <1>5
      <3> QED
        BY <3>2, EmptyFacts
    <2>2. CASE reqstate = "HEADER"
      <3>1. CASE pos = 3 * lines + 3
        <4>1. Len(input) < 2
          BY <3>1, <1>1, <1>2, <1>3, <1>4, BlankLine DEF Position
        <4>2. Len(script) > 0
          BY <4>1, <3>1, <1>4, <1>5
        <4> QED
          BY <4>2, EmptyFacts
      <3>2. ASSUME NEW g \in 0..(lines - 1), pos = 3 * g + 3 PROVE script # <<>>
        <4>1. Len(input) < 3
          BY <3>2, <1>1, <1>2, <1>3, <1>4, HeaderLine DEF Position
        <4>2. Len(script) > 0
          BY <4>1, <3>2, <1>4, <1>5
        <4> QED
          BY <4>2, EmptyFacts
      <3> QED
        BY <2>2, <3>1, <3>2, <1>2, <1>3, HeaderOrBlank
    <2> QED
      BY <2>1, <2>2, <1>1, <1>3, <1>13 DEF Position, Read
  <1>14. Count'
    BY <1>1, <1>3, <1>7, <1>8, <1>9, <1>13, Zenon DEF Count
  <1>15. Writing'
    BY <1>1, <1>3, <1>7, <1>8, <1>9, Zenon DEF Writing, Answered
  <1>16. Closing'
    BY <1>1, <1>3, <1>7, <1>8, <1>9 DEF Closing
  <1>17. Delivery' /\ AnswersAreRight'
    BY <1>1, <1>2, <1>9, OutKept
  <1>18. Judged'
    BY <1>1, <1>3, <1>7, <1>8, <1>9 DEF Judged
  <1> QED
    BY <1>1, <1>2, <1>10, <1>11, <1>12, <1>14, <1>15, <1>16, <1>17, <1>18, PartsGiveIInv

(* Each way to fail leaves the parser in front of what it fails on, and    *)
(* the request is a wrong one if all of it came in order.                  *)
LEMMA FailsWhere ==
    ASSUME IInv, sent # <<>>, ParseFails
    PROVE  /\ ~Drained
           /\ Fresh => Len(input) >= 3 - pos /\ (pos < 0 \/ ~GoodLine(current.line))
           /\ reqstate = "HEADER" =>
                /\ Len(input) >= 3
                /\ \E h \in 0..(lines - 1) :
                       pos = 3 * h + 3 /\ current.headers[h + 1].name = "UNKNOW"
           /\ reqstate = "CONTENT" => ~IsContent
  <1>1. Types /\ Position /\ Suffix
    BY Parts DEF Position
  <1>2. pos \in Int /\ Len(input) \in Nat /\ lines \in Nat /\ current \in Requests
    BY <1>1, CurrentFacts
  <1>3. ~Drained
    <2> SUFFICES ASSUME Drained PROVE FALSE
      OBVIOUS
    <2>1. parseLine = "LINE_MORE" /\ reqstate = "REQUESTLINE"
      BY <1>1, DrainedLine DEF Drained
    <2> QED
      BY <2>1 DEF ParseFails
  <1>4. reqstate = "CONTENT" => ~IsContent
    BY DEF ParseFails
  <1>5. ASSUME Fresh
        PROVE  Len(input) >= 3 - pos /\ (pos < 0 \/ ~GoodLine(current.line))
    <2>1. pos <= 0 /\ reqstate = "REQUESTLINE" /\ parseLine # "LINE_MORE"
      BY <1>5 DEF ParseFails, Fresh
    <2>2. Len(input) >= 3 - pos
      BY <2>1, <1>1, <1>2, FreshLine
    <2>3. /\ parseLine = "LINE_OK" /\ Len(Text) = 1 - pos
          /\ pos = 0 => Text[1] = current.line
      BY <2>1, <2>2, <1>1, FreshLine
    <2>4. pos < 0 \/ pos = 0
      BY <2>1, <1>2
    <2>5. ASSUME pos = 0 PROVE ~GoodLine(current.line)
      <3>1. Len(Text) = 1 /\ Text[1] = current.line
        BY <2>3, <2>5
      <3>2. Text[1].is = "line"
        BY <3>1, <1>2, BytesFacts, Kinds, Zenon
      <3>3. ~IsRequestLine
        BY <2>1, <2>3 DEF ParseFails
      <3> QED
        BY <3>1, <3>2, <3>3 DEF IsRequestLine, GoodLine
    <2> QED
      BY <2>2, <2>4, <2>5
  <1>6. ASSUME reqstate = "HEADER"
        PROVE  /\ Len(input) >= 3
               /\ \E h \in 0..(lines - 1) :
                      pos = 3 * h + 3 /\ current.headers[h + 1].name = "UNKNOW"
    <2>1. parseLine # "LINE_MORE"
      BY <1>6 DEF ParseFails
    <2>2. pos # 3 * lines + 3
      <3> SUFFICES ASSUME pos = 3 * lines + 3 PROVE FALSE
        OBVIOUS
      <3>1. parseLine = "LINE_OK" /\ Text = <<>>
        BY <2>1, <1>1, <1>2, BlankLine
      <3> QED
        BY <3>1, <1>6 DEF ParseFails
    <2>3. PICK h \in 0..(lines - 1) : pos = 3 * h + 3
      BY <2>2, <1>1, <1>6, HeaderOrBlank
    <2>4. Len(input) >= 3
      BY <2>1, <2>3, <1>1, <1>2, HeaderLine
    <2>5. /\ parseLine = "LINE_OK" /\ Len(Text) = 1
          /\ Text[1] = current.headers[h + 1] /\ Text[1] \in Headers
      BY <2>3, <2>4, <1>1, HeaderLine, Zenon
    <2>6. ~IsHeader
      BY <2>5, <1>6 DEF ParseFails
    <2>7. Text[1].is = "header"
      BY <2>5, Kinds
    <2> QED
      BY <2>3, <2>4, <2>5, <2>6, <2>7 DEF IsHeader
  <1> QED
    BY <1>3, <1>4, <1>5, <1>6

(* A line or the content is wrong: the error response asks for close.      *)
LEMMA ParseFailsIInv ==
    ASSUME IInv, ParseFails
    PROVE  IInv'
  <1>1. /\ pc = "parse" /\ pc' = "error"
        /\ req' = [Refused EXCEPT !.headers["Connection"] = "close"]
        /\ UNCHANGED sent /\ UNCHANGED script /\ UNCHANGED split
        /\ UNCHANGED input /\ UNCHANGED reqstate /\ UNCHANGED flag
        /\ UNCHANGED answers /\ UNCHANGED output /\ UNCHANGED writing
        /\ UNCHANGED received /\ UNCHANGED rests
    BY DEF ParseFails, inVars, outVars
  <1>2. sent # <<>>
    BY <1>1 DEF IInv, Silent
  <1>3. /\ Types /\ Position /\ Parsed /\ Stuck /\ Unsplit /\ Count
        /\ Writing /\ Closing /\ Delivery /\ Judged /\ AnswersAreRight
    BY <1>2, Parts
  <1>4. /\ pos \in Int /\ Len(input) \in Nat /\ lines \in Nat /\ lines \in 0..lines
        /\ current.headers \in Seq(Headers)
    BY <1>2, <1>3, CurrentFacts
  <1>5. /\ ~Drained
        /\ Fresh => Len(input) >= 3 - pos /\ (pos < 0 \/ ~GoodLine(current.line))
        /\ reqstate = "HEADER" =>
             /\ Len(input) >= 3
             /\ \E h \in 0..(lines - 1) :
                    pos = 3 * h + 3 /\ current.headers[h + 1].name = "UNKNOW"
        /\ reqstate = "CONTENT" => ~IsContent
    BY <1>2, FailsWhere
  <1>6. pos' = pos
    BY <1>1 DEF pos, current
  <1>7. /\ Fresh' <=> Fresh
        /\ Drained' <=> Drained
        /\ \A h : Read(h)' <=> Read(h)
        /\ lines' = lines /\ BodyAt' = BodyAt /\ current' = current
        /\ \A m : NoneBefore(m)' <=> NoneBefore(m)
    BY <1>1, <1>6, SameMode
  <1>8. Err'
    BY <1>1 DEF Err
  <1>9. /\ req' = [method |-> req'.method, url |-> req'.url, version |-> req'.version,
                   headers |-> req'.headers]
        /\ req'.headers = [n \in Names |-> req'.headers[n]]
        /\ req'.headers["Connection"] = "close"
    <2>1. /\ Refused = [method |-> Refused.method, url |-> Refused.url, version |-> Refused.version,
                        headers |-> Refused.headers]
          /\ Refused.headers = req.headers
      <3>1. CASE Refused = req
        BY <3>1, <1>3 DEF Types
      <3>2. CASE Refused = [req EXCEPT !.method = Text[1].method, !.url = Text[1].url]
        BY <3>2, <1>3, Zenon DEF Types
      <3> QED
        BY <3>1, <3>2 DEF Refused
    <2>2. req'.headers = [req.headers EXCEPT !["Connection"] = "close"]
      BY <2>1, <1>1
    <2>3. req' = [method |-> req'.method, url |-> req'.url, version |-> req'.version,
                  headers |-> req'.headers]
      BY <2>1, <1>1
    <2>4. "Connection" \in Names
      BY DEF Names
    <2>5. req.headers = [n \in Names |-> req.headers[n]]
      BY <1>3 DEF Types
    <2> QED
      BY <2>2, <2>3, <2>4, <2>5
  <1>10. Types'
    BY <1>1, <1>3, <1>9 DEF Types
  <1>11. Position'
    BY <1>1, <1>3, <1>6, <1>7 DEF Position, Suffix, current
  <1>12. Parsed'
    BY <1>8, Zenon DEF Parsed
  <1>13. Stuck'
    BY <1>1, <1>5, <1>6, <1>7, <1>9 DEF Stuck
  <1>14. Unsplit'
    BY <1>1, <1>3, <1>6, <1>7 DEF Unsplit
  <1>15. ~Err => Len(answers) = Len(sent) - 1
    BY <1>3, <1>5 DEF Count
  <1>16. Err => Len(answers) >= Len(sent) /\ answers[Len(sent)] = "error"
    BY <1>1, <1>3 DEF Count
  <1>17. Count'
    BY <1>1, <1>3, <1>8, <1>15, <1>16 DEF Count
  <1>18. Writing'
    BY <1>1, <1>3, <1>8 DEF Writing
  <1>19. Closing'
    BY <1>1, <1>8 DEF Closing
  <1>20. Delivery' /\ AnswersAreRight'
    BY <1>1, <1>2, OutKept
  <1>21. Judged'
    <2> SUFFICES ASSUME ~split, \A n \in Others : NoneBefore(n), Len(answers) = Len(sent) - 1
                 PROVE  IsBad(current)
      BY <1>1, <1>7, <1>8 DEF Judged, IsBad, Asked
    <2>1. ~Err
      <3>1. Len(sent) \in Nat /\ Len(answers) = Len(sent) - 1
        BY <1>2, <1>3, CurrentFacts
      <3>2. ~(Len(answers) >= Len(sent))
        BY <3>1
      <3> QED
        BY <1>16, <3>2, Zenon
    <2>2. CASE Fresh
      <3>1. pos = 0
        BY <2>2, <1>3 DEF Unsplit
      <3> QED
        BY <3>1, <2>2, <1>5 DEF IsBad, GoodLine
    <2>3. CASE reqstate = "HEADER"
      <3>1. PICK h \in 0..(lines - 1) : current.headers[h + 1].name = "UNKNOW"
        BY <2>3, <1>5
      <3>2. h + 1 \in DOMAIN current.headers
        BY <1>4 DEF lines
      <3> QED
        BY <3>1, <3>2 DEF IsBad
    <2>4. CASE reqstate = "CONTENT"
      <3>1. Holds(lines)
        BY <2>1, <2>4, <1>2, <1>3, <1>4, Modes, Zenon DEF Parsed
      <3>2. Asked(current, "Content-Type") = AskedIn(current, lines, "Content-Type")
        BY <1>4, AskedFacts, Zenon DEF lines
      <3>3. /\ current.line.method = "POST" /\ Asked(current, "Content-Type") = "form"
            /\ \A i \in DOMAIN input : input[i] # Pairs
        BY <2>4, <3>1, <3>2, <1>5, Zenon DEF IsContent, Holds, Others
      <3>4. script = <<>> /\ pos = BodyAt
        BY <2>4, <1>3 DEF Unsplit, Position
      <3>5. \A i \in DOMAIN current.body : current.body[i] # Pairs
        BY <3>3, <3>4, <1>2, <1>3, ContentFacts, Zenon DEF Position
      <3> QED
        BY <3>3, <3>5, Zenon DEF IsBad
    <2> QED
      BY <2>2, <2>3, <2>4, <1>3, <1>5, Zenon DEF Position, Read
  <1> QED
    BY <1>1, <1>2, <1>10, <1>11, <1>12, <1>13, <1>14, <1>17, <1>18, <1>19, <1>20, <1>21, PartsGiveIInv

-----------------------------------------------------------------------------

(* One step of the client, of onMessage or of handleWrite.                 *)
LEMMA NextIInv == IInv /\ [Next]_vars => IInv'
  <1> SUFFICES ASSUME IInv, [Next]_vars PROVE IInv'
    OBVIOUS
  <1>1. CASE UNCHANGED vars
    <2>1. /\ UNCHANGED sent /\ UNCHANGED script /\ UNCHANGED split
          /\ UNCHANGED input /\ UNCHANGED reqstate /\ UNCHANGED req /\ UNCHANGED flag
          /\ UNCHANGED pc /\ UNCHANGED answers /\ UNCHANGED output /\ UNCHANGED writing
          /\ UNCHANGED received /\ UNCHANGED rests
      BY <1>1 DEF vars, inVars, parseVars, outVars
    <2>2. /\ UNCHANGED current /\ UNCHANGED lines /\ UNCHANGED BodyAt /\ UNCHANGED pos
          /\ UNCHANGED Answered /\ UNCHANGED CloseAfter
      BY <2>1, Zenon DEF current, lines, BodyAt, pos, Answered, CloseAfter
    <2>3. /\ Fresh' <=> Fresh
          /\ Drained' <=> Drained
          /\ Suffix' <=> Suffix
          /\ Err' <=> Err
          /\ \A h : Read(h)' <=> Read(h)
          /\ \A m : NoneBefore(m)' <=> NoneBefore(m)
      BY <2>1, <2>2, Zenon DEF Fresh, Drained, Suffix, Err, Read, NoneBefore
    <2>4. \A h : Holds(h)' <=> Holds(h)
      BY <2>1, <2>2, <2>3, Zenon DEF Holds
    <2>5. (Position' <=> Position) /\ (Parsed' <=> Parsed) /\ (Stuck' <=> Stuck)
      BY <2>1, <2>2, <2>3, <2>4, Zenon DEF Position, Parsed, Stuck
    <2>6. (Unsplit' <=> Unsplit) /\ (Count' <=> Count) /\ (Writing' <=> Writing)
      BY <2>1, <2>2, <2>3, Zenon DEF Unsplit, Count, Writing
    <2>7. (Closing' <=> Closing) /\ (Delivery' <=> Delivery) /\ (Judged' <=> Judged)
      BY <2>1, <2>2, <2>3, Zenon DEF Closing, Delivery, Judged
    <2>8. (Types' <=> Types) /\ (Silent' <=> Silent)
      BY <2>1, Zenon DEF Types, Silent
    <2>9. AnswersAreRight' <=> AnswersAreRight
      BY <2>1 DEF AnswersAreRight, FirstError, Stale
    <2> QED
      BY <2>1, <2>5, <2>6, <2>7, <2>8, <2>9 DEF IInv, Begun
  <1>2. ASSUME NEW r \in Requests, ClientRequests(r) PROVE IInv'
    BY <1>2, ClientRequestsIInv
  <1>3. ASSUME NEW n \in 1..Len(script), HandleRead(n) PROVE IInv'
    BY <1>3, HandleReadIInv
  <1>4. CASE ParseRequestLine
    BY <1>4, ParseRequestLineIInv
  <1>5. CASE ParseHeaderLine
    BY <1>5, ParseHeaderLineIInv
  <1>6. CASE ParseContent
    BY <1>6, ParseContentIInv
  <1>7. CASE ParseFails
    BY <1>7, ParseFailsIInv
  <1>8. CASE ParseEnds
    BY <1>8, ParseEndsIInv
  <1>9. CASE Respond
    <2>1. PICK reply \in Replies(req.url, req.headers["If-Modified-Since"]), k \in 0..2 :
              Send(reply, k)
      BY <1>9 DEF Respond
    <2>2. pc = "respond"
      BY <1>9 DEF Respond
    <2> QED
      BY <2>1, <2>2, SendIInv
  <1>10. CASE RespondError
    <2>1. pc = "error" /\ \E k \in 0..2 : Send("error", k)
      BY <1>10 DEF RespondError
    <2> QED
      BY <2>1, SendIInv
  <1>11. ASSUME NEW k \in 1..Len(output), HandleWrite(k) PROVE IInv'
    BY <1>11, HandleWriteIInv
  <1> QED
    BY <1>1, <1>2, <1>3, <1>4, <1>5, <1>6, <1>7, <1>8, <1>9, <1>10, <1>11 DEF Next, ServerStep

-----------------------------------------------------------------------------

(* The parser is where the bytes it has been given put it, the HttpRequest *)
(* holds what was parsed of the request, and the response to it is made    *)
(* once or, after an error, again.                                         *)
THEOREM MessageInvariant == Spec => []IInv
  BY InitIInv, NextIInv, PTL DEF Spec

(* onMessage makes the response that the request calls for, however its    *)
(* bytes are cut into segments.                                            *)
THEOREM MessagesAnswersAreRight == Spec => []AnswersAreRight
  <1>1. IInv => AnswersAreRight
    BY DEF IInv
  <1> QED
    BY <1>1, MessageInvariant, PTL

(* send and handleWrite give the client the responses whole and in order.  *)
THEOREM MessagesReceivedIntact == Spec => []ReceivedIntact
  <1>1. IInv => ReceivedIntact
    <2> SUFFICES ASSUME IInv, rests <= 1, Len(answers) <= Len(sent)
                 PROVE  /\ Len(received) <= 2 * Len(answers)
                        /\ \A i \in DOMAIN received : received[i] = Piece(i)
                        /\ pc \in {"idle", "closed"} /\ ~writing => Len(received) = 2 * Len(answers)
      BY DEF ReceivedIntact
    <2>1. CASE sent = <<>>
      <3>1. answers = <<>> /\ received = <<>>
        BY <2>1, Zenon DEF IInv, Silent
      <3>2. Len(answers) = 0 /\ Len(received) = 0 /\ DOMAIN received = {}
        BY <3>1, EmptyFacts
      <3> QED
        BY <3>2
    <2>2. CASE sent # <<>>
      <3>1. Delivery /\ Types
        BY <2>2, Parts
      <3>2. PICK n \in Nat, q \in Nat, w \in Nat :
                n = Len(answers) /\ q = Len(received) /\ w = Len(output)
        <4>1. /\ answers \in Seq({"200", "304", "404", "error"})
              /\ received \in Seq(Pieces) /\ output \in Seq(Pieces)
          BY <3>1 DEF Types
        <4> QED
          BY <4>1
      <3>3. \A i \in DOMAIN received : received[i] = Piece(i)
        BY <3>1 DEF Delivery
      <3>4. (~writing \/ pc = "closed" => q = 2 * n) /\ (writing /\ pc # "closed" => q + w = 2 * n)
        BY <3>1, <3>2 DEF Delivery
      <3>5. q + w = 2 * n => q <= 2 * n
        OBVIOUS
      <3> QED
        BY <3>2, <3>3, <3>4, <3>5
    <2> QED
      BY <2>1, <2>2
  <1> QED
    BY <1>1, MessageInvariant, PTL

(* A request that has come in full is answered when onMessage returns, and *)
(* the connection is closed after an answer that calls for it and after no *)
(* other.                                                                  *)
THEOREM MessagesAnsweredThenClosed == Spec => []AnsweredThenClosed
  <1>1. IInv => AnsweredThenClosed
    <2> SUFFICES ASSUME IInv PROVE AnsweredThenClosed
      OBVIOUS
    <2>1. CASE sent = <<>>
      <3>1. answers = <<>> /\ Len(answers) = 0 /\ Len(sent) = 0
        BY <2>1, EmptyFacts, Zenon DEF IInv, Silent
      <3> QED
        BY <3>1 DEF AnsweredThenClosed
    <2>2. CASE sent # <<>>
      <3>1. Types /\ Position /\ Parsed /\ Stuck /\ Count /\ Writing /\ Closing
        BY <2>2, Parts
      <3>2. Len(sent) \in Nat \ {0} /\ Len(answers) \in Nat
        <4>1. answers \in Seq({"200", "304", "404", "error"})
          BY <3>1 DEF Types
        <4> QED
          BY <4>1, <3>1, <2>2, CurrentFacts
      <3>3. ASSUME pc = "idle", script = <<>> PROVE Len(answers) >= Len(sent)
        <4>1. CASE Err
          BY <3>1, <3>3, <4>1 DEF Count
        <4>2. CASE ~Err
          BY <3>1, <3>2, <3>3, <4>2 DEF Count
        <4> QED
          BY <4>1, <4>2
      <3>4. ASSUME pc = "closed", Len(answers) <= Len(sent)
            PROVE  answers[Len(answers)] = "error" \/ AsksClose(sent[Len(answers)])
        BY <3>1, <3>4 DEF Closing
      <3>5. ASSUME answers # <<>>, Len(answers) <= Len(sent), pc = "idle", ~writing
            PROVE  ~(answers[Len(answers)] = "error" \/ AsksClose(sent[Len(answers)]))
        <4>1. ~Err
          BY <3>1, <3>5 DEF Writing
        <4>2. Len(answers) \in DOMAIN answers
          <5>1. answers \in Seq({"200", "304", "404", "error"})
            BY <3>1 DEF Types
          <5> QED
            BY <5>1, <3>5
        <4>3. answers[Len(answers)] # "error"
          BY <4>1, <4>2 DEF Err
        <4>4. CASE Drained
          <5>1. Len(answers) = Len(sent)
            BY <4>1, <4>4, <3>1, <3>5 DEF Count
          <5> QED
            BY <4>1, <4>3, <4>4, <5>1, <3>1, <3>5 DEF Closing, current
        <4>5. CASE ~Drained
          <5>1. Len(answers) = Len(sent) - 1
            BY <4>1, <4>5, <3>1, <3>5 DEF Count
          <5> QED
            BY <4>1, <4>3, <5>1, <3>1, <3>5 DEF Closing
        <4> QED
          BY <4>4, <4>5
      <3> QED
        BY <3>3, <3>4, <3>5 DEF AnsweredThenClosed
    <2> QED
      BY <2>1, <2>2
  <1> QED
    BY <1>1, MessageInvariant, PTL

=============================================================================
