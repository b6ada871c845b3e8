---------------------------- MODULE HttpMessage ----------------------------
(***************************************************************************)
(* One connection of the server and its client: HttpServer::onMessage with *)
(* the parser (parseLine, parseRequestLine, parseHeaderLine, parseContent),*)
(* the responses it makes (createResponse, createPhpResponse,              *)
(* retErrResponse), and HttpConnection::send and handleWrite, which write  *)
(* them.  The client sends a request in segments cut anywhere, and the     *)
(* next one when it has the answer to the last; the socket takes any part  *)
(* of what is written.                                                     *)
(*                                                                         *)
(* The bytes are tokens: the text of a request line, of a header or of a   *)
(* body, a carriage return, a line feed.  A segment boundary inside a text *)
(* tells the parser no more than one before it: it looks for '\r' and      *)
(* reads a text only when that has come.                                   *)
(***************************************************************************)
EXTENDS Integers, Sequences, FiniteSetsExt

CONSTANTS
    Requests,       \* what the client may send: records with line, headers and body
    MaxRequests,    \* bound on the requests the client sends
    MaxAnswers      \* bound on the responses, one request may get several

(* A request line, a header, a piece of a body; what they are read as.     *)
Line(method, url, query, version) ==
    [is |-> "line", method |-> method, url |-> url, query |-> query, version |-> version]
Header(name, value) == [is |-> "header", name |-> name, value |-> value]
Pairs == [is |-> "pairs"]       \* key=value, with a leading & in a later piece
Junk == [is |-> "junk"]         \* text without '='
CR == [is |-> "CR"]
LF == [is |-> "LF"]

Lines == [is : {"line"}, method : STRING, url : STRING, query : STRING, version : Nat]
Headers == [is : {"header"}, name : STRING, value : STRING]

ASSUME RequestsAssumption ==
    Requests \subseteq [line : Lines, headers : Seq(Headers), body : Seq({Pairs, Junk})]

(* The request line and the headers, a line end after each of them, then   *)
(* the blank line and the body.                                            *)
Bytes(r) ==
    [i \in 1..3 * (Len(r.headers) + 1) |->
        IF i % 3 = 2 THEN CR ELSE IF i % 3 = 0 THEN LF
        ELSE IF i = 1 THEN r.line ELSE r.headers[i \div 3]]
        \o <<CR, LF>> \o r.body

VARIABLES
    sent,       \* the requests the client has begun to send
    script,     \* the bytes of the last of them still to be sent
    input,      \* the data part of input_buffer
    reqstate,   \* how far the request is parsed
    req,        \* the HttpRequest of the connection
    flag,       \* onMessage: the content has been parsed
    pc,         \* "idle", "parse", "respond", "error" in onMessage, or "closed"
    answers,    \* the responses made
    output,     \* the data part of output_buffer
    writing,    \* the dispatcher waits for writability
    received,   \* what the client has got
    rests,      \* history: how many responses were left in part to handleWrite
    split       \* history: a segment ended between a blank line and the end of the body

inVars == <<sent, script, split>>
parseVars == <<input, reqstate, req, flag>>
outVars == <<answers, output, writing, received, rests>>
vars == <<inVars, parseVars, pc, outVars>>

(* The names of the headers that are looked at again.                      *)
Names == {"Connection", "If-Modified-Since", "Content-Type"}

Init ==
    /\ sent = <<>> /\ script = <<>> /\ split = FALSE
    /\ input = <<>> /\ reqstate = "REQUESTLINE" /\ flag = FALSE
    /\ req = [method |-> "UNKNOW", url |-> "", version |-> 0, headers |-> [n \in Names |-> ""]]
    /\ pc = "idle"
    /\ answers = <<>> /\ output = <<>> /\ writing = FALSE /\ received = <<>> /\ rests = 0

-----------------------------------------------------------------------------
(* The client                                                              *)

(* A response is sent in two pieces at most.                               *)
Response(i) == <<<<i, 1>>, <<i, 2>>>>

Answered == received # <<>> /\ received[Len(received)] = <<Len(answers), 2>>

ClientRequests(r) ==
    /\ pc = "idle"
    /\ script = <<>> /\ Len(sent) < MaxRequests
    /\ sent # <<>> => Answered /\ Len(answers) >= Len(sent)
    /\ sent' = Append(sent, r)
    /\ script' = Bytes(r)
    /\ UNCHANGED <<parseVars, pc, outVars, split>>

(* handleRead: a segment is read into input_buffer, and onMessage called.  *)
HandleRead(n) ==
    /\ pc = "idle" /\ Len(answers) < MaxAnswers
    /\ input' = input \o SubSeq(script, 1, n)
    /\ script' = SubSeq(script, n + 1, Len(script))
    /\ split' = (split \/ Len(script') \in 1..Len(sent[Len(sent)].body))
    /\ flag' = FALSE
    /\ pc' = "parse"
    /\ UNCHANGED <<sent, reqstate, req, outVars>>

-----------------------------------------------------------------------------
(* The parser                                                              *)

CRs == {i \in DOMAIN input : input[i] = CR}

FirstCR == Min(CRs)

WaitsForOneMore ==
    IF CRs = {} \/ FirstCR + 1 >= Len(input) THEN "LINE_MORE"
    ELSE IF input[FirstCR + 1] = LF THEN "LINE_OK" ELSE "LINE_ERROR"

parseLine ==
    IF CRs = {} \/ FirstCR = Len(input) THEN "LINE_MORE"
    ELSE IF input[FirstCR + 1] = LF THEN "LINE_OK" ELSE "LINE_ERROR"

(* The line in front of the first '\r', and what moveLow leaves.           *)
Text == SubSeq(input, 1, FirstCR - 1)

DropsOnlyText == SubSeq(input, FirstCR + 1, Len(input))

AfterLine == SubSeq(input, FirstCR + 2, Len(input))

(* Two texts without a line end between them make neither a known method   *)
(* nor a known header.                                                     *)
IsRequestLine ==
    /\ Len(Text) = 1 /\ Text[1].is = "line"
    /\ Text[1].method # "UNKNOW" /\ Text[1].query # "bad" /\ Text[1].version \in {10, 11}

parseRequestLine ==
    /\ req' = [req EXCEPT !.method = Text[1].method, !.url = Text[1].url,
                          !.version = Text[1].version]
    /\ input' = AfterLine
    /\ reqstate' = "HEADER"

IsHeader == Len(Text) = 1 /\ Text[1].is = "header" /\ Text[1].name # "UNKNOW"

WithHeader(name, value) == [n \in Names |-> IF n = name THEN value ELSE req.headers[n]]

parseHeaderLine ==
    \/ /\ Text = <<>>
       /\ reqstate' = "CONTENT"
       /\ UNCHANGED req
    \/ /\ IsHeader
       /\ req' = [req EXCEPT !.headers = WithHeader(Text[1].name, Text[1].value)]
       /\ UNCHANGED reqstate

(* Every piece between two '&' of a form has a '='.                        *)
IsContent ==
    req.method = "POST" /\ req.headers["Content-Type"] = "form" =>
        \E i \in DOMAIN input : input[i] = Pairs

KeepsState == UNCHANGED reqstate

ResetsState == reqstate' = "REQUESTLINE"

(* One iteration of the loop of onMessage.                                 *)
ParseRequestLine ==
    /\ pc = "parse" /\ reqstate = "REQUESTLINE" /\ parseLine = "LINE_OK"
    /\ IsRequestLine
    /\ parseRequestLine
    /\ UNCHANGED <<inVars, flag, pc, outVars>>

ParseHeaderLine ==
    /\ pc = "parse" /\ reqstate = "HEADER" /\ parseLine = "LINE_OK"
    /\ parseHeaderLine
    /\ input' = AfterLine
    /\ UNCHANGED <<inVars, flag, pc, outVars>>

ParseContent ==
    /\ pc = "parse" /\ reqstate = "CONTENT"
    /\ IsContent
    /\ input' = <<>>
    /\ ResetsState
    /\ flag' = TRUE
    /\ UNCHANGED <<inVars, req, pc, outVars>>

(* What a request line that is refused has set by then.                    *)
Refused ==
    IF /\ reqstate = "REQUESTLINE" /\ parseLine = "LINE_OK"
       /\ Len(Text) = 1 /\ Text[1].is = "line" /\ Text[1].method # "UNKNOW"
    THEN [req EXCEPT !.method = Text[1].method, !.url = Text[1].url]
    ELSE req

(* A line or the content is wrong: retErrResponse.                         *)
ParseFails ==
    /\ pc = "parse"
    /\ \/ reqstate = "CONTENT" /\ ~IsContent
       \/ reqstate # "CONTENT" /\ parseLine = "LINE_ERROR"
       \/ reqstate = "REQUESTLINE" /\ parseLine = "LINE_OK" /\ ~IsRequestLine
       \/ reqstate = "HEADER" /\ parseLine = "LINE_OK" /\ Text # <<>> /\ ~IsHeader
    /\ req' = [Refused EXCEPT !.headers["Connection"] = "close"]
    /\ pc' = "error"
    /\ UNCHANGED <<inVars, input, reqstate, flag, outVars>>

(* The loop ends at an incomplete line: wait for more, or answer.          *)
ParseEnds ==
    /\ pc = "parse" /\ reqstate # "CONTENT" /\ parseLine = "LINE_MORE"
    /\ pc' = IF flag THEN "respond" ELSE "idle"
    /\ UNCHANGED <<inVars, parseVars, outVars>>

-----------------------------------------------------------------------------
(* The response and its way out                                            *)

OnlyTheHeader == req.headers["Connection"] = "close"

CloseAfter == req.headers["Connection"] = "close" \/ req.version = 10

(* createResponse: compareGMTStr finds the client's copy fresh or not.     *)
Static(url, since) ==
    CASE url = "missing" -> "404"
      [] url # "missing" /\ since = "fresh" -> "304"
      [] OTHER -> "200"

(* createPhpResponse: the FastCGI server answers or does not.              *)
Replies(url, since) ==
    IF url = "script" THEN {"200", "404"} ELSE {Static(url, since)}

DropsRest(i, k) == SubSeq(Response(i), k + 2, 2)

Rest(i, k) == SubSeq(Response(i), k + 1, 2)

(* send: the socket takes k pieces of the response.                        *)
Send(reply, k) ==
    LET i == Len(answers) + 1 IN
    /\ answers' = Append(answers, reply)
    /\ received' = received \o SubSeq(Response(i), 1, k)
    /\ \/ /\ k < 2
          /\ writing' = TRUE
          /\ output' = output \o Rest(i, k)
          /\ rests' = rests + 1
          /\ pc' = "idle"
       \/ /\ k = 2
          /\ pc' = IF CloseAfter THEN "closed" ELSE "idle"
          /\ UNCHANGED <<writing, output, rests>>
    /\ UNCHANGED <<inVars, parseVars>>

Respond ==
    /\ pc = "respond"
    /\ \E reply \in Replies(req.url, req.headers["If-Modified-Since"]), k \in 0..2 : Send(reply, k)

RespondError ==
    /\ pc = "error"
    /\ \E k \in 0..2 : Send("error", k)

(* handleWrite: part of output_buffer is written, or all of it; then       *)
(* nothing moves its low end.                                              *)
HandleWrite(k) ==
    /\ pc = "idle" /\ writing
    /\ received' = received \o SubSeq(output, 1, k)
    /\ \/ /\ k < Len(output)
          /\ output' = SubSeq(output, k + 1, Len(output))
          /\ UNCHANGED <<writing, pc>>
       \/ /\ k = Len(output)
          /\ pc' = IF CloseAfter THEN "closed" ELSE "idle"
          /\ writing' = CloseAfter
          /\ UNCHANGED output
    /\ UNCHANGED <<inVars, parseVars, answers, rests>>

-----------------------------------------------------------------------------
ServerStep ==
    \/ ParseRequestLine \/ ParseHeaderLine \/ ParseContent \/ ParseFails \/ ParseEnds
    \/ Respond \/ RespondError

Next ==
    \/ \E r \in Requests : ClientRequests(r)
    \/ \E n \in 1..Len(script) : HandleRead(n)
    \/ ServerStep
    \/ \E k \in 1..Len(output) : HandleWrite(k)

Spec == Init /\ [][Next]_vars

(* onMessage runs to its end once it is called.                            *)
FairSpec == Spec /\ WF_vars(ServerStep)

-----------------------------------------------------------------------------
TypeOK ==
    /\ sent \in Seq(Requests) /\ Len(sent) <= MaxRequests
    /\ reqstate \in {"REQUESTLINE", "HEADER", "CONTENT"}
    /\ req.method \in {"UNKNOW", "GET", "POST"} /\ req.version \in {0, 10, 11}
    /\ DOMAIN req.headers = Names
    /\ pc \in {"idle", "parse", "respond", "error", "closed"}
    /\ flag \in BOOLEAN /\ writing \in BOOLEAN /\ split \in BOOLEAN
    /\ answers \in Seq({"200", "304", "404", "error"}) /\ rests <= Len(answers)

Asked(r, name) ==
    LET V == {i \in DOMAIN r.headers : r.headers[i].name = name}
    IN  IF V = {} THEN "" ELSE r.headers[Max(V)].value

AsksClose(r) == Asked(r, "Connection") = "close" \/ r.line.version = 10

IsBad(r) ==
    \/ r.line.method = "UNKNOW" \/ r.line.query = "bad" \/ r.line.version \notin {10, 11}
    \/ \E i \in DOMAIN r.headers : r.headers[i].name = "UNKNOW"
    \/ /\ r.line.method = "POST" /\ Asked(r, "Content-Type") = "form"
       /\ \A i \in DOMAIN r.body : r.body[i] # Pairs

(* An earlier request of the connection has left a header that counts.     *)
Stale(i) ==
    \E j \in 1..(i - 1) : \E n \in {"If-Modified-Since", "Content-Type"} : Asked(sent[j], n) # ""

FirstError(i) == \A j \in 1..(i - 1) : answers[j] # "error"

(* The i-th answer is the one the i-th request calls for, however it was   *)
(* cut into segments, unless a body came later than its blank line, or     *)
(* onMessage, whose HttpRequest is the same for the whole connection, sees *)
(* a header of an earlier request.                                         *)
AnswersAreRight ==
    ~split => \A i \in DOMAIN answers :
        FirstError(i) /\ ~Stale(i) =>
            /\ i <= Len(sent)
            /\ answers[i] \in IF IsBad(sent[i]) THEN {"error"}
                              ELSE Replies(sent[i].line.url, Asked(sent[i], "If-Modified-Since"))

(* The i-th piece of all the responses, in the order they are made in.     *)
Piece(i) == <<(i + 1) \div 2, 2 - (i % 2)>>

(* The client gets the responses whole and in order while no more than one *)
(* of them was too long for its first write (handleWrite leaves the        *)
(* written bytes in output_buffer), and no wrong request is answered twice *)
(* (the rest of it makes onMessage find the same error again).             *)
ReceivedIntact ==
    rests <= 1 /\ Len(answers) <= Len(sent) =>
        /\ Len(received) <= 2 * Len(answers)
        /\ \A i \in DOMAIN received : received[i] = Piece(i)
        /\ pc \in {"idle", "closed"} /\ ~writing => Len(received) = 2 * Len(answers)

(* Once a request has come in full onMessage returns with it answered: no  *)
(* cut makes the parser wait for bytes that it has.  And the connection is *)
(* closed after the answer to a request that asks for it, after an error,  *)
(* and at no other time.                                                   *)
AnsweredThenClosed ==
    /\ pc = "idle" /\ script = <<>> => Len(answers) >= Len(sent)
    /\ answers # <<>> /\ Len(answers) <= Len(sent) =>
        LET asked == answers[Len(answers)] = "error" \/ AsksClose(sent[Len(answers)]) IN
        /\ pc = "closed" => asked
        /\ pc = "idle" /\ ~writing => ~asked

(* onMessage returns, however often a segment makes its loop go round.     *)
OnMessageReturns == pc = "parse" ~> pc \in {"idle", "closed"}
=============================================================================
