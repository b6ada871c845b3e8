--------------------------- MODULE FcgiConnection ---------------------------
(* http_server/FcgiConnection: one request to a FastCGI application, as    *)
(* HttpServer::createPhpResponse makes it.  The records are appended to    *)
(* output_buffer and written to a blocking socket; readContent then reads  *)
(* records until the application closes, and puts the content of those of  *)
(* type STDOUT into a Buffer.  Bytes are digits to the base Base (256 in   *)
(* the code), so that the boundaries of a one-byte length, of a four-byte  *)
(* length and of a sixteen-bit record length are met by short strings.     *)
(* The application and the socket are external.                            *)
EXTENDS Integers, Sequences, SequencesExt, FiniteSetsExt

CONSTANTS Base, Size, Extra,
          BUFSIZE,          \* the array sendParams builds a pair in
          Exchanges,        \* requests and their answers
          MaxSegments,      \* segments an answer arrives in (bound)
          Garbage           \* what resp_header may hold before it is read

VARIABLES pc,               \* where createPhpResponse is
          request, answer,  \* what is asked and what will be answered
          left,             \* params not yet sent
          out, wire,        \* output_buffer and the bytes written
          tosend, sock,     \* bytes of the answer not yet sent, not yet read
          segments,         \* how many have come
          peer,             \* "open", "closed", "reset" or "refused"
          header,           \* resp_header, the eight bytes
          content,          \* the Buffer readContent fills
          cut               \* a read has returned less than it was asked for

outVars == <<request, answer, left, out, wire>>
inVars == <<tosend, sock, segments, peer, header, content, cut>>
vars == <<pc, outVars, inVars>>

B == INSTANCE Buffer WITH Lengths <- {}, MaxBytes <- 0,
                          buffer <- content, unread <- <<>>, total <- 0

BEGIN_REQUEST == 1
END_REQUEST == 3
PARAMS == 4
STDIN == 5
STDOUT == 6
STDERR == 7
HEADER_LEN == 8
EndBody == 8

Low(n) == n % Base
Second(n) == (n \div Base) % Base

\* The request id is 1.
Header(type, len) == <<1, type, 0, 1, Second(len), Low(len), 0, 0>>

\* The responder role, and flags 0: the application closes when it is done.
BeginRecord == Header(BEGIN_REQUEST, 8) \o <<0, 1, 0, 0, 0, 0, 0, 0>>

OneByteTooLong(n) ==
    IF n <= Base \div 2 THEN <<n>>
    ELSE <<Low(n \div Base^3) + Base \div 2, Low(n \div Base^2), Second(n), Low(n)>>

LengthBytes(n) ==
    IF n < Base \div 2 THEN <<n>>
    ELSE <<Low(n \div Base^3) + Base \div 2, Low(n \div Base^2), Second(n), Low(n)>>

makeValueBody(key, value) ==
    LengthBytes(Len(key)) \o LengthBytes(Len(value)) \o key \o value

sendBeginRequest(b) == B!append(b, BeginRecord)
sendParams(b, key, value) ==
    LET body == makeValueBody(key, value)
    IN  B!append(B!append(b, Header(PARAMS, Len(body))), body)
sendEndRequest(b) == B!append(b, Header(PARAMS, 0))
sendContentHeader(b, s) ==
    B!append(B!append(B!append(b, Header(STDIN, Len(s))), s), Header(STDIN, 0))

---------------------------------------------------------------------------
Encoded(record) ==
    <<1, record.type, 0, 1, Second(Len(record.body)), Low(Len(record.body)),
      record.padding, 0>> \o record.body \o [i \in 1..record.padding |-> 0]

EncodedAll(records) == FlattenSeq([i \in DOMAIN records |-> Encoded(records[i])])

Init ==
    /\ \E x \in Exchanges : request = x.request /\ answer = x.answer
    /\ pc = "begin"
    /\ left = request.params
    /\ out = B!NewBuffer
    /\ wire = <<>>
    /\ tosend = EncodedAll(answer)
    /\ sock = <<>>
    /\ segments = 0
    /\ peer \in {"open", "refused"}
    /\ header \in Garbage
    /\ content = B!NewBuffer
    /\ cut = FALSE

Begin == /\ pc = "begin"
         /\ out' = sendBeginRequest(out)
         /\ pc' = "params"
         /\ UNCHANGED <<request, answer, left, wire, inVars>>

\* A pair that does not fit into the array on the stack is undefined.
Params == /\ pc = "params"
          /\ left # <<>>
          /\ LET pair == Head(left)
             IN  IF Len(makeValueBody(pair[1], pair[2])) > BUFSIZE
                 THEN pc' = "undefined" /\ UNCHANGED out
                 ELSE /\ out' = sendParams(out, pair[1], pair[2])
                      /\ UNCHANGED pc
          /\ left' = Tail(left)
          /\ UNCHANGED <<request, answer, wire, inVars>>

\* connect's result is not looked at; if it failed, write returns -1, which
\* as a size_t is more than moveLow will drop.
Write(b) == IF peer = "refused" THEN out' = b /\ UNCHANGED wire
            ELSE /\ wire' = wire \o B!Data(b)
                 /\ out' = B!moveLow(b, B!dataLen(b))

End == /\ pc = "params"
       /\ left = <<>>
       /\ Write(sendEndRequest(out))
       /\ pc' = IF request.post THEN "content" ELSE "header"
       /\ UNCHANGED <<request, answer, left, inVars>>

Content == /\ pc = "content"
           /\ Write(sendContentHeader(out, request.content))
           /\ pc' = "header"
           /\ UNCHANGED <<request, answer, left, inVars>>

Type == header[2]
ContentLen == IF Type = END_REQUEST THEN EndBody
              ELSE header[5] * Base + header[6]
Padding == header[7]

\* What read(2) of len bytes returns: what has arrived, at most len bytes.
Got(len) == SubSeq(sock, 1, Min({len, Len(sock)}))
\* Nothing has arrived and nothing more will: read returns 0, after a reset
\* -1 once.
Over == sock = <<>> /\ peer # "open"
Ended == IF peer = "reset" THEN "closed" ELSE peer

Takes(len) == /\ len = 0 \/ sock # <<>> \/ Over
              /\ sock' = SubSeq(sock, Len(Got(len)) + 1, Len(sock))
              /\ cut' = (cut \/ Len(Got(len)) < len)
              /\ peer' = IF len > 0 /\ Over THEN Ended ELSE peer
              /\ UNCHANGED <<outVars, tosend, segments>>

ReadHeader ==
    /\ pc = "header"
    /\ UNCHANGED content
    /\ \/ /\ Over
          /\ peer' = Ended
          /\ pc' = "returned"
          /\ UNCHANGED <<outVars, tosend, sock, segments, header, cut>>
       \/ /\ ~Over
          /\ Takes(HEADER_LEN)
          /\ header' = [i \in 1..HEADER_LEN |->
                           IF i <= Len(sock) THEN sock[i] ELSE header[i]]
          /\ pc' = IF header'[2] \in {STDOUT, STDERR, END_REQUEST}
                   THEN "body" ELSE "header"

\* Buffer::read adds what read returned to high, -1 included.
ReadInto(b) == IF ContentLen > 0 /\ Over /\ peer = "reset"
               THEN [b EXCEPT !.high = @ - 1]
               ELSE B!readLen(b, ContentLen, Got(ContentLen))

ReadBody ==
    /\ pc = "body"
    /\ Takes(ContentLen)
    /\ content' = IF Type = STDOUT THEN ReadInto(content) ELSE content
    /\ pc' = IF Type # END_REQUEST /\ Padding > 0 THEN "padding" ELSE "header"
    /\ UNCHANGED header

\* tmp has eight bytes.
ReadPadding ==
    /\ pc = "padding"
    /\ Takes(Padding)
    /\ pc' = IF Len(Got(Padding)) > 8 THEN "undefined" ELSE "header"
    /\ UNCHANGED <<header, content>>

---------------------------------------------------------------------------
(* The application: it answers once it has the request, its bytes arrive   *)
(* in segments cut anywhere, and it closes at the end or fails before.     *)
Reading == pc \in {"header", "body", "padding"}

Deliver == /\ Reading /\ peer = "open"
           /\ segments' = segments + 1
           /\ \E n \in 1..Len(tosend) :
                 /\ segments' < MaxSegments \/ n = Len(tosend)
                 /\ sock' = sock \o SubSeq(tosend, 1, n)
                 /\ tosend' = SubSeq(tosend, n + 1, Len(tosend))
           /\ UNCHANGED <<pc, outVars, peer, header, content, cut>>

Close == /\ Reading /\ peer = "open" /\ tosend = <<>>
         /\ peer' = "closed"
         /\ UNCHANGED <<pc, outVars, tosend, sock, segments, header, content, cut>>

Fail == /\ Reading /\ peer = "open"
        /\ peer' = "reset"
        /\ UNCHANGED <<pc, outVars, tosend, sock, segments, header, content, cut>>

Client == Begin \/ Params \/ End \/ Content \/ ReadHeader \/ ReadBody \/ ReadPadding
Next == Client \/ Deliver \/ Close \/ Fail

Fairness == WF_vars(Client) /\ WF_vars(Deliver) /\ WF_vars(Close)
FairSpec == Init /\ [][Next]_vars /\ Fairness

---------------------------------------------------------------------------
(* How the protocol reads a stream of records, and pairs of lengths, names *)
(* and values.                                                             *)
Record(type, body) == [type |-> type, body |-> body]

RECURSIVE Records(_)
Records(s) ==
    IF s = <<>> THEN <<>>
    ELSE LET len == s[5] * Base + s[6]
             end == HEADER_LEN + len + s[7]
         IN  IF Len(s) < HEADER_LEN \/ Len(s) < end THEN <<"malformed">>
             ELSE <<Record(s[2], SubSeq(s, 9, 8 + len))>> \o
                  Records(SubSeq(s, end + 1, Len(s)))

LengthAt(s, i) ==
    IF s[i] < Base \div 2 THEN [value |-> s[i], next |-> i + 1]
    ELSE [value |-> ((s[i] - Base \div 2) * Base + s[i+1]) * Base^2
                    + s[i+2] * Base + s[i+3], next |-> i + 4]

Pair(s) == LET name == LengthAt(s, 1)
               val == LengthAt(s, name.next)
           IN  <<SubSeq(s, val.next, val.next + name.value - 1),
                 SubSeq(s, val.next + name.value, Len(s))>>

Stdout == FlattenSeq([i \in DOMAIN answer |->
              IF answer[i].type = STDOUT THEN answer[i].body ELSE <<>>])

(* What has been written when readContent begins is, read by the rules of  *)
(* the protocol, the request: a begin record, one record for every pair    *)
(* with its name and value, an empty PARAMS record, and for a POST the     *)
(* content and an empty STDIN record (sendBeginRequest, sendParams,        *)
(* makeValueBody, sendEndRequest, sendContentHeader).  Stated for records  *)
(* of at most FCGI_MAX_LENGTH bytes and an output_buffer that was not      *)
(* compacted or overrun.                                                   *)
RequestParses ==
    Reading /\ peer # "refused" /\ B!Defined(out) /\ Len(request.content) < Base^2 =>
        LET records == Records(wire)
            n == Len(request.params)
            end == n + 2
        IN  /\ Len(records) = IF request.post THEN end + 2 ELSE end
            /\ records[1].type = BEGIN_REQUEST
            /\ \A i \in 1..n : /\ records[i + 1].type = PARAMS
                               /\ Pair(records[i + 1].body) = request.params[i]
            /\ records[end] = Record(PARAMS, <<>>)
            /\ request.post => /\ records[end + 1] = Record(STDIN, request.content)
                               /\ records[end + 2] = Record(STDIN, <<>>)

(* Unless a read was cut short, the content readContent has gathered when  *)
(* it returns is what the application wrote to its standard output, with   *)
(* nothing of headers, padding, errors or end records in it; a beginning   *)
(* of it if the application failed.                                        *)
ContentIsRead ==
    /\ pc = "returned" /\ peer # "refused"
    /\ ~cut /\ B!Defined(content) /\ B!dataLen(content) >= 0
    =>
        /\ IsPrefix(B!Data(content), Stdout)
        /\ tosend = <<>> => B!Data(content) = Stdout

(* readContent returns, however the answer is cut into segments and        *)
(* wherever the application fails: every read takes something or finds the *)
(* end, even when a short read has lost the boundaries of the records.     *)
ReadContentReturns == <>(pc \in {"returned", "undefined"})
=============================================================================
