----------------------------- MODULE ChatServer -----------------------------
(* cpp/chatServer.cpp with clients like cpp/chatClient.cpp: a server that  *)
(* polls its sockets and passes what one client wrote to all the others.   *)
(* Each client has one buffer; the others are given a pointer to it and    *)
(* are written to when poll reports them writable.  What one recv returns  *)
(* is a chunk, numbered; its text and its last byte, which is cut off, are *)
(* left out, as is the limit of 63 bytes.                                  *)
EXTENDS Integers, Sequences, Functions

CONSTANTS Clients, Nobody,
          MaxLines            \* lines a client sends (bound)

ASSUME NobodyAssumption == Nobody \notin Clients

VARIABLES backlog,    \* clients that have connected and are not accepted
          fds,        \* the clients accepted, in the order of fds and clidatas
          asked,      \* clients with POLLOUT in events; it is never removed
          lines,      \* of each client: what it has sent that is not received
          sent,       \* lines it has sent
          chunks,     \* chunks received from it
          buf,        \* the chunk in its buffer, 0 when that is empty
          write_pos,  \* whose buffer it is to be sent
          next,       \* the position of fds looked at, 0 in poll
          revents,    \* what the last poll returned
          got         \* what it was sent

clientVars == <<backlog, lines, sent>>
serverVars == <<fds, asked, chunks, buf, write_pos, got>>
chatVars == <<clientVars, serverVars, next, revents>>

None == [accept |-> FALSE, in |-> {}, out |-> {}]

ChatInit == /\ backlog = <<>> /\ fds = <<>> /\ asked = {}
            /\ lines = [c \in Clients |-> <<>>] /\ sent = [c \in Clients |-> 0]
            /\ chunks = [c \in Clients |-> 0] /\ buf = chunks
            /\ write_pos = [c \in Clients |-> Nobody]
            /\ next = 0 /\ revents = None
            /\ got = [c \in Clients |-> <<>>]

Connect(c) == /\ c \notin Range(backlog \o fds)
              /\ backlog' = Append(backlog, c)
              /\ UNCHANGED <<serverVars, lines, sent, next, revents>>

\* A line is "text" or "blank", the single byte of an empty line.
SendLine(c, line) == /\ c \in Range(backlog \o fds)
                     /\ sent[c] < MaxLines
                     /\ lines' = [lines EXCEPT ![c] = Append(@, line)]
                     /\ sent' = [sent EXCEPT ![c] = @ + 1]
                     /\ UNCHANGED <<serverVars, backlog, next, revents>>

Poll == /\ next = 0
        /\ revents' = [accept |-> backlog # <<>>,
                       in |-> {c \in Range(fds) : lines[c] # <<>>},
                       out |-> asked]
        /\ revents' # None
        /\ next' = 1
        /\ UNCHANGED <<clientVars, serverVars>>

\* A client accepted in this round has no revents: Handle passes it over.
Rest(k) == IF k > Len(fds) THEN 0 ELSE k + 1

Accept == /\ next = 1
          /\ next' = Rest(1)
          /\ IF revents.accept
             THEN fds' = Append(fds, Head(backlog)) /\ backlog' = Tail(backlog)
             ELSE UNCHANGED <<fds, backlog>>
          /\ UNCHANGED <<lines, sent, asked, chunks, buf, write_pos, revents, got>>

\* After recv: the new chunk, or 0 for a blank line.
Received(c) == IF lines[c] = <<"blank">> THEN 0 ELSE chunks[c] + 1

Pointers(c) == IF Received(c) = 0 THEN write_pos
               ELSE [d \in Clients |-> IF d \in Range(fds) \ {c} THEN c ELSE write_pos[d]]

\* The pointer of c once its buffer has been written.
StillPointing(pos, c) == pos
Written(pos, c) == [pos EXCEPT ![c] = Nobody]

\* One descriptor: recv, then write, both by what poll returned.
Handle(c) ==
    /\ next > 1 /\ fds[next - 1] = c
    /\ next' = Rest(next)
    /\ LET in == c \in revents.in
           pos == IF in THEN Pointers(c) ELSE write_pos
           mem == IF in THEN [buf EXCEPT ![c] = Received(c)] ELSE buf
           out == c \in revents.out /\ pos[c] # Nobody
       IN  /\ buf' = mem
           /\ write_pos' = IF out THEN Written(pos, c) ELSE pos
           /\ got' = IF out /\ mem[pos[c]] # 0
                     THEN [got EXCEPT ![c] = Append(@, <<pos[c], mem[pos[c]]>>)]
                     ELSE got
           /\ chunks' = IF in /\ Received(c) > 0 THEN [chunks EXCEPT ![c] = @ + 1] ELSE chunks
           /\ asked' = IF in /\ Received(c) > 0 THEN asked \cup (Range(fds) \ {c}) ELSE asked
           /\ lines' = IF in THEN [lines EXCEPT ![c] = <<>>] ELSE lines
    /\ UNCHANGED <<backlog, sent, fds, revents>>

Server == Poll \/ Accept \/ \E c \in Clients : Handle(c)
ChatNext == \/ Server
            \/ \E c \in Clients : Connect(c) \/ SendLine(c, "text") \/ SendLine(c, "blank")

ChatSpec == ChatInit /\ [][ChatNext]_chatVars

---------------------------------------------------------------------------
(* A client is sent only what others wrote, and the chunks of each other   *)
(* client once at most and in the order they were received, although the   *)
(* pointers lead to buffers that recv fills again before the write.        *)
ChatInOrder ==
    \A c \in Clients : \A j, k \in DOMAIN got[c] :
        /\ got[c][j][1] # c
        /\ j < k /\ got[c][j][1] = got[c][k][1] => got[c][j][2] < got[c][k][2]
=============================================================================
