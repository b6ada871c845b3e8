----------------------------- MODULE LogProofs ------------------------------
(* For any number of threads, loggers, appenders and calls: the locks      *)
(* never make threads wait in a circle, an appender taken off a logger is  *)
(* not written to, an appender follows the formatter of its logger, and a  *)
(* file consists of whole lines.                                           *)
EXTENDS Log, TLAPS

Objects == Loggers \cup Appenders
Points == {"idle", "check", "lock", "each", "reopen", "stamp", "format", "write",
           "set", "spread", "add", "look", "give"}
Appending == {"reopen", "stamp", "format", "write"}
CallOf == [logger : Loggers \cup {Null}, appender : Appenders \cup {Null},
           value : Patterns \cup {Null}, event : Nat, time : Nat, level : Int,
           index : Nat, pos : Nat]

Types == /\ pc \in [Threads -> Points]
         /\ call \in [Threads -> CallOf]
         /\ mutex \in [Objects -> Threads \cup {Null}]
         /\ appenders \in [Loggers -> Seq(Appenders)]
         /\ calls \in Nat /\ clock \in Nat

\* A call has its arguments, and the locks its point in the code says.
InCall(t) == /\ pc[t] # "idle" => call[t].logger \in Loggers
             /\ pc[t] \in Appending \cup {"add", "look", "give"} => call[t].appender \in Appenders
             /\ pc[t] \in {"each", "spread"} => call[t].index > 0
             /\ pc[t] \in Appending => call[t].index > 0

Locked(t) == /\ \A l \in Loggers : mutex[l] = t <=> HoldsLogger(t) /\ call[t].logger = l
             /\ \A a \in Appenders : mutex[a] = t <=> HoldsAppender(t) /\ call[t].appender = a

Listed(t) == pc[t] \in Appending => Current(t) \in Range(appenders[call[t].logger])

IInv == Types /\ \A t \in Threads : InCall(t) /\ Locked(t) /\ Listed(t)

-----------------------------------------------------------------------------
(* Erasing an element of the list of appenders (delAppender).             *)
LEMMA EraseType ==
    ASSUME NEW S, NEW s \in Seq(S), NEW i \in 1 .. Len(s)
    PROVE  Erase(s, i) \in Seq(S)
  <1>1. SubSeq(s, 1, i - 1) \in Seq(S) /\ SubSeq(s, i + 1, Len(s)) \in Seq(S)
    OBVIOUS
  <1> QED BY <1>1 DEF Erase

(* The locals of no call.                                                  *)
LEMMA NoCallType == NoCall \in CallOf
  BY DEF NoCall, CallOf

(* At first nobody calls, and the loggers have one appender at most.       *)
LEMMA InitIInv == Init => IInv
  <1> SUFFICES ASSUME Init PROVE IInv
    OBVIOUS
  <1>1. NoCall \in CallOf
    BY NoCallType
  <1>2. appenders \in [Loggers -> Seq(Appenders)]
    <2>0. PICK managed \in SUBSET Loggers :
             \E own \in Injection(managed, Appenders) :
                appenders = [l \in Loggers |-> IF l \in managed THEN <<own[l]>> ELSE <<>>]
      BY DEF Init
    <2>1. PICK own \in Injection(managed, Appenders) :
             appenders = [l \in Loggers |-> IF l \in managed THEN <<own[l]>> ELSE <<>>]
      BY <2>0
    <2>2. \A l \in managed : own[l] \in Appenders
      BY DEF Injection
    <2> QED BY <2>1, <2>2
  <1>3. clock \in Nat
    BY LogAssumption DEF Init
  <1>4. Types
    BY <1>1, <1>2, <1>3 DEF Init, Types, Points, Objects
  <1>5. ASSUME NEW t \in Threads PROVE InCall(t) /\ Locked(t) /\ Listed(t)
    <2>1. pc[t] = "idle" /\ \A x \in Objects : mutex[x] # t
      BY LogAssumption DEF Init, Objects
    <2> QED BY <2>1 DEF InCall, Locked, Listed, Appending, HoldsLogger, HoldsAppender, Objects
  <1> QED BY <1>4, <1>5 DEF IInv

-----------------------------------------------------------------------------
(* Every step keeps the invariant.  A step takes one thread t to a point p *)
(* with locals c, and takes a lock, gives one up, or does neither.         *)

LoggerPoints == {"each", "reopen", "stamp", "format", "write", "spread", "look", "give"}

Moves(t, p, c) == /\ pc' = [pc EXCEPT ![t] = p] /\ call' = [call EXCEPT ![t] = c]
                  /\ p \in Points /\ c \in CallOf
                  /\ calls' \in Nat /\ clock' \in Nat

\* What InCall and Listed ask of a point and its locals.
Fits(p, c) == /\ p # "idle" => c.logger \in Loggers
              /\ p \in Appending \cup {"add", "look", "give"} => c.appender \in Appenders
              /\ p \in {"each", "spread"} \cup Appending => c.index > 0
              /\ p \in Appending => c.appender \in Range(appenders[c.logger])

(* A thread is not disturbed by a step that leaves its locks to it.        *)
LEMMA Undisturbed ==
    ASSUME IInv, NEW u \in Threads, pc'[u] = pc[u], call'[u] = call[u],
           \A x \in Objects : mutex'[x] = u <=> mutex[x] = u,
           \A l \in Loggers : mutex[l] = u => appenders'[l] = appenders[l]
    PROVE  InCall(u)' /\ Locked(u)' /\ Listed(u)'
  <1>1. InCall(u) /\ Locked(u) /\ Listed(u)
    BY DEF IInv
  <1>2. InCall(u)'
    BY <1>1 DEF InCall
  <1>3. Locked(u)'
    BY <1>1 DEF Locked, HoldsLogger, HoldsAppender, Objects
  <1>4. Listed(u)'
    <2> SUFFICES ASSUME pc[u] \in Appending
                 PROVE  call[u].appender \in Range(appenders'[call[u].logger])
      BY DEF Listed, Current
    <2>1. mutex[call[u].logger] = u /\ call[u].logger \in Loggers
      BY <1>1 DEF InCall, Locked, HoldsLogger, Appending
    <2> QED BY <1>1, <2>1 DEF Listed, Current
  <1> QED BY <1>2, <1>3, <1>4

(* A step that takes no lock and gives none up.                            *)
LEMMA KeepsLocks ==
    ASSUME IInv, NEW t \in Threads, NEW p, NEW c, Moves(t, p, c), Fits(p, c),
           UNCHANGED <<mutex, appenders>>,
           p \in LoggerPoints <=> pc[t] \in LoggerPoints, p = "write" <=> pc[t] = "write",
           p \in LoggerPoints => c.logger = call[t].logger,
           p = "write" => c.appender = call[t].appender
    PROVE  IInv'
  <1>1. Types'
    BY DEF IInv, Types, Moves
  <1>2. pc'[t] = p /\ call'[t] = c
    BY DEF IInv, Types, Moves
  <1>3. InCall(t)' /\ Listed(t)'
    BY <1>2 DEF Fits, InCall, Listed, Current
  <1>4. Locked(t)'
    BY <1>2 DEF IInv, Locked, HoldsLogger, HoldsAppender, LoggerPoints
  <1>5. ASSUME NEW u \in Threads, u # t PROVE InCall(u)' /\ Locked(u)' /\ Listed(u)'
    <2>1. pc'[u] = pc[u] /\ call'[u] = call[u]
      BY <1>5 DEF IInv, Types, Moves
    <2> QED BY <2>1, Undisturbed
  <1> QED BY <1>1, <1>3, <1>4, <1>5 DEF IInv

(* A step that takes the free lock of x.                                   *)
LEMMA TakesLock ==
    ASSUME IInv, NEW t \in Threads, NEW p, NEW c, Moves(t, p, c), Fits(p, c),
           NEW x \in Objects, Acquire(t, x), UNCHANGED appenders,
           \/ /\ x \in Loggers /\ pc[t] \notin LoggerPoints
              /\ p \in LoggerPoints \ {"write"} /\ c.logger = x
           \/ /\ x \in Appenders /\ pc[t] \in LoggerPoints \ {"write"}
              /\ p = "write" /\ c.appender = x /\ c.logger = call[t].logger
    PROVE  IInv'
  <1>1. mutex[x] = Null /\ mutex' = [mutex EXCEPT ![x] = t] /\ Null \notin Threads
    BY LogAssumption DEF Acquire, Free
  <1>2. Types'
    BY <1>1 DEF IInv, Types, Moves
  <1>3. pc'[t] = p /\ call'[t] = c
    BY DEF IInv, Types, Moves
  <1>4. InCall(t)' /\ Listed(t)'
    BY <1>3 DEF Fits, InCall, Listed, Current
  <1>5. mutex'[x] = t /\ \A y \in Objects : y # x => mutex'[y] = mutex[y]
    BY <1>1 DEF IInv, Types
  <1>6. Locked(t)'
    <2>1. Loggers \cap Appenders = {}
      BY LogAssumption
    <2>2. Locked(t)
      BY DEF IInv
    <2>3. CASE x \in Loggers /\ pc[t] \notin LoggerPoints /\ p \in LoggerPoints \ {"write"} /\ c.logger = x
      BY <1>3, <1>5, <2>1, <2>2, <2>3 DEF Locked, HoldsLogger, HoldsAppender, LoggerPoints, Objects
    <2>4. CASE x \in Appenders /\ pc[t] \in LoggerPoints \ {"write"}
               /\ p = "write" /\ c.appender = x /\ c.logger = call[t].logger
      BY <1>3, <1>5, <2>1, <2>2, <2>4 DEF Locked, HoldsLogger, HoldsAppender, LoggerPoints, Objects
    <2> QED BY <2>3, <2>4
  <1>7. ASSUME NEW u \in Threads, u # t PROVE InCall(u)' /\ Locked(u)' /\ Listed(u)'
    <2>1. pc'[u] = pc[u] /\ call'[u] = call[u]
      BY <1>7 DEF IInv, Types, Moves
    <2>2. \A y \in Objects : mutex'[y] = u <=> mutex[y] = u
      BY <1>1, <1>5, <1>7
    <2> QED BY <2>1, <2>2, Undisturbed
  <1> QED BY <1>2, <1>4, <1>6, <1>7 DEF IInv

(* A step that gives up the lock of x; the list of a logger may change.    *)
LEMMA GivesLock ==
    ASSUME IInv, NEW t \in Threads, NEW p, NEW c, Moves(t, p, c), Fits(p, c),
           NEW x \in Objects, Release(x),
           \/ /\ x \in Loggers /\ pc[t] \in LoggerPoints \ {"write"} /\ call[t].logger = x
              /\ p = "idle"
              /\ appenders' \in [Loggers -> Seq(Appenders)]
              /\ \A l \in Loggers : l # x => appenders'[l] = appenders[l]
           \/ /\ x \in Appenders /\ pc[t] = "write" /\ call[t].appender = x
              /\ p = "each" /\ c.logger = call[t].logger /\ UNCHANGED appenders
    PROVE  IInv'
  <1>1. mutex' = [mutex EXCEPT ![x] = Null] /\ Null \notin Threads /\ Loggers \cap Appenders = {}
    BY LogAssumption DEF Release
  <1>2. Locked(t) /\ InCall(t)
    BY DEF IInv
  <1>3. mutex[x] = t
    BY <1>2 DEF Locked, HoldsLogger, HoldsAppender, LoggerPoints
  <1>4. Types'
    BY <1>1 DEF IInv, Types, Moves
  <1>5. pc'[t] = p /\ call'[t] = c
    BY DEF IInv, Types, Moves
  <1>6. InCall(t)' /\ Listed(t)'
    <2>1. p \notin Appending
      BY DEF Appending
    <2> QED BY <1>5, <2>1 DEF Fits, InCall, Listed
  <1>7. mutex'[x] = Null /\ \A y \in Objects : y # x => mutex'[y] = mutex[y]
    BY <1>1 DEF IInv, Types
  <1>8. Locked(t)'
    BY <1>1, <1>2, <1>5, <1>7 DEF Locked, HoldsLogger, HoldsAppender, LoggerPoints, Objects
  <1>9. ASSUME NEW u \in Threads, u # t PROVE InCall(u)' /\ Locked(u)' /\ Listed(u)'
    <2>1. pc'[u] = pc[u] /\ call'[u] = call[u]
      BY <1>9 DEF IInv, Types, Moves
    <2>2. \A y \in Objects : mutex'[y] = u <=> mutex[y] = u
      BY <1>1, <1>3, <1>7, <1>9
    <2>3. \A l \in Loggers : mutex[l] = u => appenders'[l] = appenders[l]
      BY <1>3, <1>9
    <2> QED BY <2>1, <2>2, <2>3, Undisturbed
  <1> QED BY <1>4, <1>6, <1>8, <1>9 DEF IInv

-----------------------------------------------------------------------------
(* A call that begins holds no lock and asks for none yet.                 *)
LEMMA BeginIInv ==
    ASSUME IInv, NEW t \in Threads, NEW p \in {"check", "set", "add"}, NEW c \in CallOf,
           Begin(t, p, c), c.logger \in Loggers, p = "add" => c.appender \in Appenders,
           UNCHANGED <<mutex, appenders, clock>>
    PROVE  IInv'
  <1>1. Moves(t, p, c)
    BY DEF IInv, Types, Moves, Begin, Goto, Points
  <1>2. Fits(p, c)
    BY DEF Fits, Appending
  <1>3. pc[t] = "idle"
    BY DEF Begin
  <1> QED BY <1>1, <1>2, <1>3, KeepsLocks DEF LoggerPoints

(* A call that is over in one step changes at most the list of a logger    *)
(* whose lock is free.                                                     *)
LEMMA OnceIInv ==
    ASSUME IInv, NEW t \in Threads, Once(t), UNCHANGED <<mutex, clock>>,
           appenders' \in [Loggers -> Seq(Appenders)],
           \A l \in Loggers : mutex[l] # Null => appenders'[l] = appenders[l]
    PROVE  IInv'
  <1>1. Types'
    BY DEF IInv, Types, Once
  <1>2. ASSUME NEW u \in Threads PROVE InCall(u)' /\ Locked(u)' /\ Listed(u)'
    <2>1. pc'[u] = pc[u] /\ call'[u] = call[u]
      BY DEF Once
    <2>2. u # Null
      BY LogAssumption
    <2>3. \A l \in Loggers : mutex[l] = u => appenders'[l] = appenders[l]
      BY <2>2
    <2> QED BY <2>1, <2>3, Undisturbed
  <1> QED BY <1>1, <1>2 DEF IInv

(* The calls that threads make.                                            *)
LEMMA CallsIInv == ASSUME IInv, NEW t \in Threads, Calls(t) PROVE IInv'
  <1>0. /\ appenders \in [Loggers -> Seq(Appenders)] /\ calls \in Nat /\ clock \in Nat
        /\ Levels \subseteq Int
    BY LogAssumption DEF IInv, Types
  <1>1. ASSUME NEW l \in Loggers, NEW v \in Levels, Log(t, l, v) PROVE IInv'
    <2> DEFINE c == [NoCall EXCEPT !.logger = l, !.level = v, !.event = calls + 1, !.time = clock]
    <2>1. c \in CallOf /\ c.logger = l
      <3>1. PICK e \in Nat : e = calls + 1
        BY <1>0
      <3>2. PICK n \in Nat : n = clock
        BY <1>0
      <3>3. PICK k \in Int : k = v
        BY <1>0
      <3> DEFINE d == [NoCall EXCEPT !.logger = l, !.level = k, !.event = e, !.time = n]
      <3>4. d \in CallOf /\ d.logger = l
        BY NoCallType, Zenon DEF CallOf
      <3>5. c = d
        BY <3>1, <3>2, <3>3
      <3> QED BY <3>4, <3>5
    <2>2. Begin(t, "check", c) /\ UNCHANGED <<mutex, appenders, clock>>
      BY <1>1 DEF Log, objects
    <2> HIDE DEF c
    <2> QED BY <2>1, <2>2, BeginIInv
  <1>2. ASSUME NEW l \in Loggers, NEW p \in Patterns, SetFormatter(t, l, p) PROVE IInv'
    <2> DEFINE c == [NoCall EXCEPT !.logger = l, !.value = p]
    <2>1. c \in CallOf /\ c.logger = l
      BY NoCallType, Zenon DEF CallOf
    <2>2. Begin(t, "set", c) /\ UNCHANGED <<mutex, appenders, clock>>
      BY <1>2 DEF SetFormatter, objects
    <2> HIDE DEF c
    <2> QED BY <2>1, <2>2, BeginIInv
  <1>3. ASSUME NEW l \in Loggers, NEW p \in Patterns, SetPattern(t, l, p) PROVE IInv'
    <2> DEFINE c == [NoCall EXCEPT !.logger = l, !.value = p]
    <2>1. c \in CallOf /\ c.logger = l
      BY NoCallType, Zenon DEF CallOf
    <2>2. (Once(t) \/ Begin(t, "set", c)) /\ UNCHANGED <<mutex, appenders, clock>>
      BY <1>3 DEF SetPattern, objects
    <2> HIDE DEF c
    <2>3. CASE Once(t)
      BY <1>0, <2>2, <2>3, OnceIInv
    <2>4. CASE Begin(t, "set", c)
      BY <2>1, <2>2, <2>4, BeginIInv
    <2> QED BY <2>2, <2>3, <2>4
  <1>4. ASSUME NEW l \in Loggers, NEW a \in Appenders, AddAppender(t, l, a) PROVE IInv'
    <2> DEFINE c == [NoCall EXCEPT !.logger = l, !.appender = a]
    <2>1. c \in CallOf /\ c.logger = l /\ c.appender = a
      BY NoCallType, Zenon DEF CallOf
    <2>2. Begin(t, "add", c) /\ UNCHANGED <<mutex, appenders, clock>>
      BY <1>4 DEF AddAppender, objects
    <2> HIDE DEF c
    <2> QED BY <2>1, <2>2, BeginIInv
  <1>5. ASSUME NEW l \in Loggers, NEW a \in Appenders, DelAppender(t, l, a) PROVE IInv'
    <2>0. PICK i \in DOMAIN appenders[l] : appenders' = [appenders EXCEPT ![l] = Erase(appenders[l], i)]
      BY <1>5, Zenon DEF DelAppender
    <2>1. Erase(appenders[l], i) \in Seq(Appenders)
      BY <1>0, <2>0, EraseType
    <2>2. appenders' = [appenders EXCEPT ![l] = Erase(appenders[l], i)] /\ mutex[l] = Null
      BY <1>5, <2>0, Zenon DEF DelAppender, Free
    <2>3. Once(t) /\ UNCHANGED <<mutex, clock>>
      BY <1>5 DEF DelAppender
    <2> QED BY <1>0, <2>1, <2>2, <2>3, OnceIInv
  <1>6. ASSUME NEW l \in Loggers, ClearAppenders(t, l) PROVE IInv'
    <2>1. appenders' = [appenders EXCEPT ![l] = <<>>] /\ mutex[l] = Null
      BY <1>6 DEF ClearAppenders, Free
    <2>2. Once(t) /\ UNCHANGED <<mutex, clock>>
      BY <1>6 DEF ClearAppenders
    <2> QED BY <1>0, <2>1, <2>2, OnceIInv
  <1>7. ASSUME NEW a \in Appenders, NEW p \in Patterns, SetOwnFormatter(t, a, p) PROVE IInv'
    BY <1>0, <1>7, OnceIInv DEF SetOwnFormatter
  <1>8. ASSUME NEW x \in Objects, NEW v \in Levels, SetLevel(t, x, v) PROVE IInv'
    BY <1>0, <1>8, OnceIInv DEF SetLevel
  <1> QED BY <1>1, <1>2, <1>3, <1>4, <1>5, <1>6, <1>7, <1>8 DEF Calls, Objects

-----------------------------------------------------------------------------
(* What a thread in a call knows of its locals.                            *)
LEMMA CallFacts ==
    ASSUME IInv, NEW t \in Threads
    PROVE  /\ call[t] \in CallOf /\ calls \in Nat /\ clock \in Nat
           /\ pc[t] # "idle" => call[t].logger \in Loggers
           /\ call[t].index \in Nat /\ call[t].pos \in Nat
           /\ pc \in [Threads -> Points] /\ call \in [Threads -> CallOf]
           /\ \A l \in Loggers : appenders[l] \in Seq(Appenders)
  BY DEF IInv, Types, InCall, CallOf

(* A call that has returned asks nothing of its locals.                    *)
LEMMA ReturnFits == Fits("idle", NoCall)
  BY DEF Fits, Appending

(* Logger::log up to the walk over its appenders.                          *)
LEMMA LogEntersIInv == ASSUME IInv, NEW t \in Threads, LogChecks(t) \/ LogLocks(t) PROVE IInv'
  <1>0. /\ call[t] \in CallOf /\ calls \in Nat /\ clock \in Nat
        /\ pc \in [Threads -> Points] /\ call \in [Threads -> CallOf]
    BY CallFacts
  <1>1. ASSUME LogChecks(t) PROVE IInv'
    <2>1. pc[t] = "check" /\ UNCHANGED <<mutex, appenders, calls, clock>>
      BY <1>1 DEF LogChecks, objects
    <2>2. call[t].logger \in Loggers
      BY <2>1, CallFacts
    <2>3. CASE Goto(t, "lock") /\ UNCHANGED call
      <3>1. Moves(t, "lock", call[t])
        BY <1>0, <2>1, <2>3 DEF Moves, Goto, Points
      <3>2. Fits("lock", call[t])
        BY <2>2 DEF Fits, Appending
      <3> QED BY <2>1, <3>1, <3>2, KeepsLocks DEF LoggerPoints
    <2>4. CASE Return(t)
      <3>1. Moves(t, "idle", NoCall)
        BY <1>0, <2>1, <2>4, NoCallType DEF Moves, Return, Goto, Points
      <3> QED BY <2>1, <3>1, ReturnFits, KeepsLocks DEF LoggerPoints
    <2> QED BY <1>1, <2>3, <2>4 DEF LogChecks
  <1>2. ASSUME LogLocks(t) PROVE IInv'
    <2>1. pc[t] = "lock" /\ UNCHANGED <<appenders, calls, clock>> /\ Acquire(t, call[t].logger)
      BY <1>2 DEF LogLocks, objects
    <2>2. call[t].logger \in Loggers
      BY <2>1, CallFacts
    <2> DEFINE c == [call[t] EXCEPT !.index = 1]
    <2>3. c \in CallOf /\ c.logger = call[t].logger /\ c.index = 1
      BY <1>0 DEF CallOf
    <2>4. pc' = [pc EXCEPT ![t] = "each"] /\ call' = [call EXCEPT ![t] = c]
      BY <1>2 DEF LogLocks, Goto
    <2> HIDE DEF c
    <2>5. Moves(t, "each", c)
      BY <1>0, <2>1, <2>3, <2>4 DEF Moves, Points
    <2>6. Fits("each", c)
      BY <2>2, <2>3 DEF Fits, Appending
    <2> QED BY <2>1, <2>2, <2>3, <2>5, <2>6, TakesLock DEF LoggerPoints, Objects
  <1> QED BY <1>1, <1>2

(* The walk of Logger::log: the appender it comes to is on the list, which *)
(* nobody else can change.                                                 *)
LEMMA LogEachIInv == ASSUME IInv, NEW t \in Threads, LogEach(t) PROVE IInv'
  <1>0. /\ call[t] \in CallOf /\ calls \in Nat /\ clock \in Nat /\ call[t].index \in Nat
        /\ pc \in [Threads -> Points] /\ call \in [Threads -> CallOf]
        /\ appenders \in [Loggers -> Seq(Appenders)]
    BY CallFacts DEF IInv, Types
  <1>1. pc[t] = "each" /\ UNCHANGED <<appenders, calls, clock>>
    BY DEF LogEach, objects
  <1>2. call[t].logger \in Loggers /\ call[t].index > 0
    BY <1>1 DEF IInv, InCall
  <1> DEFINE l == call[t].logger
             i == call[t].index
             a == appenders[l][i]
             c == [call[t] EXCEPT !.index = i + 1, !.appender = a]
  <1>3. CASE i > Len(appenders[l])
    <2>1. Return(t) /\ Release(l)
      BY <1>3 DEF LogEach
    <2>2. Moves(t, "idle", NoCall)
      BY <1>0, <1>1, <2>1, NoCallType DEF Moves, Return, Goto, Points
    <2> QED BY <1>0, <1>1, <1>2, <2>1, <2>2, ReturnFits, GivesLock DEF LoggerPoints, Objects
  <1>4. CASE ~(i > Len(appenders[l]))
    <2>1. appenders[l] \in Seq(Appenders) /\ i \in 1..Len(appenders[l])
      BY <1>0, <1>2, <1>4
    <2>2. a \in Appenders /\ a \in Range(appenders[l])
      BY <2>1 DEF Range
    <2>3. c \in CallOf /\ c.logger = l /\ c.index = i + 1 /\ c.appender = a
      <3>1. PICK b \in Appenders : b = a
        BY <2>2
      <3>2. PICK n \in Nat : n = i + 1
        BY <1>0
      <3> DEFINE d == [call[t] EXCEPT !.index = n, !.appender = b]
      <3>3. d \in CallOf /\ d.logger = l /\ d.index = n /\ d.appender = b
        BY <1>0, Zenon DEF CallOf
      <3>4. c = d
        BY <3>1, <3>2
      <3> HIDE DEF c, d
      <3> QED BY <3>1, <3>2, <3>3, <3>4
    <2>4. call' = [call EXCEPT ![t] = c] /\ UNCHANGED mutex
      BY <1>4, <1>0, Zenon DEF LogEach
    <2>5. PICK p \in {"each", "reopen", "format"} : pc' = [pc EXCEPT ![t] = p]
      <3>1. UNCHANGED pc \/ Goto(t, "reopen") \/ Goto(t, "format")
        BY <1>4 DEF LogEach
      <3> QED BY <1>0, <1>1, <3>1 DEF Goto
    <2> HIDE DEF c, a, i
    <2>6. Moves(t, p, c)
      BY <1>0, <1>1, <2>3, <2>4, <2>5 DEF Moves, Points
    <2>7. c.index > 0
      BY <1>0, <2>3 DEF i
    <2>8. Fits(p, c)
      BY <1>2, <2>2, <2>3, <2>7 DEF Fits, Appending
    <2> QED BY <1>1, <2>3, <2>4, <2>6, <2>8, KeepsLocks DEF LoggerPoints
  <1> QED BY <1>3, <1>4

(* FileLogAppender::log: what it writes to stays on the list, since the    *)
(* lock of the logger is held all the while.                               *)
LEMMA AppenderIInv ==
    ASSUME IInv, NEW t \in Threads, Reopen(t) \/ Stamp(t) \/ FormatLocks(t) \/ Write(t)
    PROVE  IInv'
  <1>0. /\ call[t] \in CallOf /\ calls \in Nat /\ clock \in Nat /\ call[t].pos \in Nat
        /\ pc \in [Threads -> Points] /\ call \in [Threads -> CallOf]
    BY CallFacts
  <1>1. pc[t] \in Appending /\ UNCHANGED <<appenders, calls, clock>>
    BY DEF Reopen, Stamp, FormatLocks, Write, objects, Appending
  <1>2. /\ call[t].logger \in Loggers /\ call[t].appender \in Appenders /\ call[t].index > 0
        /\ call[t].appender \in Range(appenders[call[t].logger])
    BY <1>1 DEF IInv, InCall, Listed, Current, Appending
  <1>3. ASSUME NEW n \in Nat
        PROVE  LET c == [call[t] EXCEPT !.pos = n]
               IN  /\ c \in CallOf /\ c.logger = call[t].logger
                   /\ c.appender = call[t].appender /\ c.index = call[t].index
    BY <1>0 DEF CallOf
  <1>4. ASSUME Reopen(t) \/ Stamp(t) PROVE IInv'
    <2>1. /\ pc[t] \in {"reopen", "stamp"} /\ UNCHANGED <<mutex, call>>
      BY <1>4 DEF Reopen, Stamp
    <2>2. PICK p \in {"stamp", "format"} : pc' = [pc EXCEPT ![t] = p]
      BY <1>4 DEF Reopen, Stamp, Goto
    <2>3. Moves(t, p, call[t])
      BY <1>0, <1>1, <2>1, <2>2 DEF Moves, Points
    <2>4. Fits(p, call[t])
      BY <1>2 DEF Fits
    <2> QED BY <1>1, <2>1, <2>3, <2>4, KeepsLocks DEF LoggerPoints
  <1>5. ASSUME FormatLocks(t) PROVE IInv'
    <2> DEFINE c == [call[t] EXCEPT !.pos = 1]
    <2>1. /\ c \in CallOf /\ c.logger = call[t].logger
          /\ c.appender = call[t].appender /\ c.index = call[t].index
      BY <1>3
    <2>2. pc' = [pc EXCEPT ![t] = "write"] /\ call' = [call EXCEPT ![t] = c]
      BY <1>5 DEF FormatLocks, Goto
    <2>3. pc[t] = "format" /\ Acquire(t, call[t].appender)
      BY <1>5 DEF FormatLocks, Current
    <2> HIDE DEF c
    <2>4. Moves(t, "write", c)
      BY <1>0, <1>1, <2>1, <2>2 DEF Moves, Points
    <2>5. Fits("write", c)
      BY <1>2, <2>1 DEF Fits
    <2> QED BY <1>1, <1>2, <2>1, <2>3, <2>4, <2>5, TakesLock DEF LoggerPoints, Objects
  <1>6. ASSUME Write(t) PROVE IInv'
    <2>1. pc[t] = "write"
      BY <1>6 DEF Write
    <2>2. PICK n : n = Len(m_items[formatter[Current(t)]])
      BY Zenon
    <2>3. CASE call[t].pos > n
      <3> DEFINE c == [call[t] EXCEPT !.pos = 0]
      <3>1. /\ c \in CallOf /\ c.logger = call[t].logger
            /\ c.appender = call[t].appender /\ c.index = call[t].index
        BY <1>3
      <3>2. /\ pc' = [pc EXCEPT ![t] = "each"] /\ call' = [call EXCEPT ![t] = c]
            /\ Release(call[t].appender)
        BY <1>6, <2>2, <2>3 DEF Write, Goto, Current
      <3> HIDE DEF c
      <3>3. Moves(t, "each", c)
        BY <1>0, <1>1, <3>1, <3>2 DEF Moves, Points
      <3>4. Fits("each", c)
        BY <1>2, <3>1 DEF Fits, Appending
      <3> QED BY <1>1, <1>2, <2>1, <3>1, <3>2, <3>3, <3>4, GivesLock DEF LoggerPoints, Objects
    <2>4. CASE ~(call[t].pos > n)
      <3> DEFINE c == [call[t] EXCEPT !.pos = call[t].pos + 1]
      <3>1. /\ c \in CallOf /\ c.logger = call[t].logger
            /\ c.appender = call[t].appender /\ c.index = call[t].index
        BY <1>0, <1>3
      <3>2. UNCHANGED <<pc, mutex>> /\ call' = [call EXCEPT ![t] = c]
        BY <1>6, <2>2, <2>4 DEF Write
      <3> HIDE DEF c
      <3>3. Moves(t, "write", c)
        BY <1>0, <1>1, <2>1, <3>1, <3>2 DEF Moves, Points
      <3>4. Fits("write", c)
        BY <1>2, <3>1 DEF Fits
      <3> QED BY <1>1, <2>1, <3>1, <3>2, <3>3, <3>4, KeepsLocks DEF LoggerPoints
    <2> QED BY <2>3, <2>4
  <1> QED BY <1>4, <1>5, <1>6

(* Logger::setFormatter: its loop visits the appenders under the lock of   *)
(* the logger, and takes the lock of each for one step.                    *)
LEMMA SetIInv == ASSUME IInv, NEW t \in Threads, SetLocks(t) \/ Spread(t) PROVE IInv'
  <1>0. /\ call[t] \in CallOf /\ calls \in Nat /\ clock \in Nat /\ call[t].index \in Nat
        /\ pc \in [Threads -> Points] /\ call \in [Threads -> CallOf]
        /\ appenders \in [Loggers -> Seq(Appenders)]
    BY CallFacts DEF IInv, Types
  <1>1. /\ pc[t] \in {"set", "spread"} /\ UNCHANGED <<appenders, calls, clock>>
    BY DEF SetLocks, Spread
  <1>2. call[t].logger \in Loggers
    BY <1>1, CallFacts
  <1>3. ASSUME NEW n \in Nat
        PROVE  LET c == [call[t] EXCEPT !.index = n]
               IN  c \in CallOf /\ c.logger = call[t].logger /\ c.index = n
    BY <1>0, Zenon DEF CallOf
  <1>4. ASSUME SetLocks(t) PROVE IInv'
    <2> DEFINE c == [call[t] EXCEPT !.index = 1]
    <2>1. c \in CallOf /\ c.logger = call[t].logger /\ c.index = 1
      BY <1>3
    <2>2. /\ pc[t] = "set" /\ pc' = [pc EXCEPT ![t] = "spread"] /\ call' = [call EXCEPT ![t] = c]
          /\ Acquire(t, call[t].logger)
      BY <1>4 DEF SetLocks, Goto
    <2> HIDE DEF c
    <2>3. Moves(t, "spread", c)
      BY <1>0, <1>1, <2>1, <2>2 DEF Moves, Points
    <2>4. Fits("spread", c)
      BY <1>2, <2>1 DEF Fits, Appending
    <2> QED BY <1>1, <1>2, <2>1, <2>2, <2>3, <2>4, TakesLock DEF LoggerPoints, Objects
  <1>5. ASSUME Spread(t) PROVE IInv'
    <2>1. pc[t] = "spread"
      BY <1>5, Zenon DEF Spread
    <2>2. CASE call[t].index > Len(appenders[call[t].logger])
      <3>1. Return(t) /\ Release(call[t].logger)
        BY <1>5, <2>2 DEF Spread
      <3>2. Moves(t, "idle", NoCall)
        BY <1>0, <1>1, <3>1, NoCallType DEF Moves, Return, Goto, Points
      <3> QED BY <1>0, <1>1, <1>2, <2>1, <3>1, <3>2, ReturnFits, GivesLock DEF LoggerPoints, Objects
    <2>3. CASE ~(call[t].index > Len(appenders[call[t].logger]))
      <3> DEFINE c == [call[t] EXCEPT !.index = call[t].index + 1]
      <3>1. c \in CallOf /\ c.logger = call[t].logger /\ c.index = call[t].index + 1
        <4>1. PICK n \in Nat : n = call[t].index + 1
          BY <1>0
        <4>2. LET d == [call[t] EXCEPT !.index = n]
              IN  d \in CallOf /\ d.logger = call[t].logger /\ d.index = n
          BY <1>3
        <4> QED BY <4>1, <4>2
      <3>2. UNCHANGED <<pc, mutex>> /\ call' = [call EXCEPT ![t] = c]
        BY <1>5, <2>3, Zenon DEF Spread
      <3> HIDE DEF c
      <3>3. Moves(t, "spread", c)
        BY <1>0, <1>1, <2>1, <3>1, <3>2 DEF Moves, Points
      <3>4. Fits("spread", c)
        BY <1>0, <1>2, <3>1 DEF Fits, Appending
      <3> QED BY <1>1, <2>1, <3>1, <3>2, <3>3, <3>4, KeepsLocks DEF LoggerPoints
    <2> QED BY <2>2, <2>3
  <1> QED BY <1>4, <1>5

(* Logger::addAppender: the list grows as the lock of the logger is given  *)
(* up.                                                                     *)
LEMMA AddIInv ==
    ASSUME IInv, NEW t \in Threads, AddLocks(t) \/ AddLooks(t) \/ AddGives(t) PROVE IInv'
  <1>0. /\ call[t] \in CallOf /\ calls \in Nat /\ clock \in Nat
        /\ pc \in [Threads -> Points] /\ call \in [Threads -> CallOf]
        /\ appenders \in [Loggers -> Seq(Appenders)]
    BY CallFacts DEF IInv, Types
  <1>1. pc[t] \in {"add", "look", "give"} /\ UNCHANGED <<calls, clock>>
    BY DEF AddLocks, AddLooks, AddGives
  <1>2. call[t].logger \in Loggers /\ call[t].appender \in Appenders
    BY <1>1 DEF IInv, InCall
  <1>3. ASSUME AddLocks(t) PROVE IInv'
    <2>1. /\ pc[t] = "add" /\ Acquire(t, call[t].logger) /\ UNCHANGED <<appenders, call>>
          /\ pc' = [pc EXCEPT ![t] = "look"]
      BY <1>3 DEF AddLocks, Goto, objects
    <2>2. Moves(t, "look", call[t])
      BY <1>0, <1>1, <2>1 DEF Moves, Points
    <2>3. Fits("look", call[t])
      BY <1>2 DEF Fits, Appending
    <2> QED BY <1>2, <2>1, <2>2, <2>3, TakesLock DEF LoggerPoints, Objects
  <1>4. ASSUME PushBack(t), pc[t] \in {"look", "give"} PROVE IInv'
    <2>1. Release(call[t].logger) /\ Return(t)
      BY <1>4 DEF PushBack
    <2>2. Moves(t, "idle", NoCall)
      BY <1>0, <1>1, <2>1, NoCallType DEF Moves, Return, Goto, Points
    <2>3. /\ appenders' \in [Loggers -> Seq(Appenders)]
          /\ \A l \in Loggers : l # call[t].logger => appenders'[l] = appenders[l]
      BY <1>0, <1>2, <1>4 DEF PushBack
    <2> QED BY <1>2, <1>4, <2>1, <2>2, <2>3, ReturnFits, GivesLock DEF LoggerPoints, Objects
  <1>5. ASSUME AddLooks(t) PROVE IInv'
    <2>1. pc[t] = "look"
      BY <1>5 DEF AddLooks
    <2>2. CASE Goto(t, "give") /\ UNCHANGED <<appenders, mutex, call>>
      <3>1. Moves(t, "give", call[t])
        BY <1>0, <1>1, <2>2 DEF Moves, Points, Goto
      <3>2. Fits("give", call[t])
        BY <1>2 DEF Fits, Appending
      <3> QED BY <2>1, <2>2, <3>1, <3>2, KeepsLocks DEF LoggerPoints
    <2> QED BY <1>4, <1>5, <2>1, <2>2 DEF AddLooks
  <1>6. ASSUME AddGives(t) PROVE IInv'
    BY <1>4, <1>6 DEF AddGives
  <1> QED BY <1>3, <1>5, <1>6

(* Every step, and a step that changes nothing, keeps the invariant.       *)
LEMMA NextIInv == IInv /\ [Next]_vars => IInv'
  <1> SUFFICES ASSUME IInv, [Next]_vars PROVE IInv'
    OBVIOUS
  <1>1. ASSUME NEW t \in Threads, Calls(t) PROVE IInv'
    BY <1>1, CallsIInv
  <1>2. ASSUME NEW t \in Threads, Steps(t) PROVE IInv'
    BY <1>2, LogEntersIInv, LogEachIInv, AppenderIInv, SetIInv, AddIInv DEF Steps
  <1>3. ASSUME UNCHANGED <<pc, call, mutex, appenders, calls>>, clock' \in Nat PROVE IInv'
    <2>1. Types'
      BY <1>3 DEF IInv, Types
    <2>2. ASSUME NEW u \in Threads PROVE InCall(u)' /\ Locked(u)' /\ Listed(u)'
      BY <1>3, Undisturbed
    <2> QED BY <2>1, <2>2 DEF IInv
  <1>4. CASE TimePasses
    <2>1. Times \subseteq Nat
      BY LogAssumption
    <2> QED BY <1>3, <1>4, <2>1 DEF TimePasses, objects
  <1>5. CASE UNCHANGED vars
    <2>1. clock \in Nat
      BY DEF IInv, Types
    <2> QED BY <1>3, <1>5, <2>1 DEF vars, objects
  <1>6. CASE Done
    BY <1>5, <1>6 DEF Done
  <1> QED BY <1>1, <1>2, <1>4, <1>5, <1>6 DEF Next

(* The invariant holds in every state of every behaviour.                  *)
LEMMA LogInvariant == Spec => []IInv
  BY InitIInv, NextIInv, PTL DEF Spec

-----------------------------------------------------------------------------
(* Nothing is written to an appender that delAppender or clearAppenders    *)
(* has taken off the list: Logger::log holds the lock of the logger from   *)
(* the look at the list to the end of the line.                            *)
THEOREM LogRemovedIsNotWritten == Spec => []RemovedIsNotWritten
  <1>1. IInv => RemovedIsNotWritten
    BY DEF IInv, Listed, Appending, RemovedIsNotWritten
  <1> QED BY <1>1, LogInvariant, PTL

(* A thread that waits holds no appender.  The one it waits for holds a    *)
(* logger, and an appender as well if the waiting thread holds a logger.   *)
LEMMA WaitsDown ==
    ASSUME IInv, NEW t \in Threads, WaitsFor(t) \in Threads
    PROVE  /\ ~HoldsAppender(t)
           /\ HoldsLogger(t) => HoldsAppender(WaitsFor(t))
           /\ HoldsLogger(WaitsFor(t))
  <1>1. /\ Null \notin Threads /\ Loggers \cap Appenders = {}
        /\ Null \notin Loggers /\ Null \notin Appenders
    BY LogAssumption
  <1>2. Wants(t) # Null /\ WaitsFor(t) = mutex[Wants(t)]
    BY <1>1 DEF WaitsFor
  <1>3. InCall(t) /\ appenders \in [Loggers -> Seq(Appenders)] /\ call[t].index \in Nat
    BY CallFacts DEF IInv, Types
  <1>4. PICK u \in Threads : u = WaitsFor(t)
    OBVIOUS
  <1>5. Locked(u) /\ InCall(u)
    BY DEF IInv
  <1>6. CASE pc[t] \in {"lock", "set", "add"}
    <2>1. Wants(t) = call[t].logger /\ call[t].logger \in Loggers
      BY <1>3, <1>6 DEF Wants, InCall
    <2>2. HoldsLogger(u)
      BY <1>2, <1>4, <1>5, <2>1 DEF Locked
    <2> QED BY <1>4, <1>6, <2>2 DEF HoldsLogger, HoldsAppender
  <1>7. ASSUME Wants(t) \in Appenders, pc[t] # "write" PROVE HoldsAppender(u) /\ HoldsLogger(u)
    <2>1. HoldsAppender(u)
      BY <1>2, <1>4, <1>5, <1>7 DEF Locked
    <2> QED BY <2>1 DEF HoldsAppender, HoldsLogger
  <1>8. CASE pc[t] \in {"reopen", "format", "look", "give"}
    <2>1. Wants(t) = call[t].appender /\ call[t].appender \in Appenders
      BY <1>3, <1>8 DEF Wants, InCall, Current, Appending
    <2> QED BY <1>4, <1>7, <1>8, <2>1 DEF HoldsAppender
  <1>9. CASE pc[t] = "spread" /\ call[t].index <= Len(appenders[call[t].logger])
    <2>1. call[t].logger \in Loggers /\ call[t].index > 0
      BY <1>3, <1>9 DEF InCall
    <2>2. Wants(t) = appenders[call[t].logger][call[t].index]
      BY <1>9 DEF Wants
    <2>3. appenders[call[t].logger] \in Seq(Appenders)
      BY <1>3, <2>1
    <2>4. Wants(t) \in Appenders
      BY <1>3, <1>9, <2>1, <2>2, <2>3
    <2> QED BY <1>4, <1>7, <1>9, <2>4 DEF HoldsAppender
  <1> QED BY <1>2, <1>6, <1>8, <1>9, Zenon DEF Wants

(* No threads wait for each other in a circle: follow who waits for whom.  *)
(* The second holds a logger; if it waits, the third holds an appender,    *)
(* and waits for nobody.                                                   *)
THEOREM LogNoCircularWait == Spec => []NoCircularWait
  <1>1. ASSUME IInv PROVE NoCircularWait
    <2> SUFFICES ASSUME NEW S \in SUBSET Threads, S # {}, \A t \in S : WaitsFor(t) \in S
                 PROVE  FALSE
      BY DEF NoCircularWait
    <2>1. PICK t \in S : TRUE
      OBVIOUS
    <2>2. PICK u \in S : u = WaitsFor(t)
      OBVIOUS
    <2>3. PICK v \in S : v = WaitsFor(u)
      OBVIOUS
    <2>4. HoldsLogger(u)
      BY <1>1, <2>2, WaitsDown
    <2>5. HoldsAppender(v)
      BY <1>1, <2>3, <2>4, WaitsDown
    <2>6. ~HoldsAppender(v)
      BY <1>1, WaitsDown
    <2> QED BY <2>5, <2>6
  <1> QED BY <1>1, LogInvariant, PTL

-----------------------------------------------------------------------------
(* Which formatter an appender has                                         *)

\* The loop of setFormatter has not come to appender a of logger l yet.
Spreading(t, l, a) == /\ pc[t] = "spread" /\ call[t].logger = l
                      /\ \A i \in 1 .. Len(appenders[l]) :
                            appenders[l][i] = a => i >= call[t].index

\* In setFormatter the logger has the new formatter first.
Handed(t) == /\ pc[t] \in {"set", "spread"} => call[t].value \in Patterns
             /\ pc[t] = "spread" => formatter[call[t].logger] = call[t].value

FormatterTypes == /\ formatter \in [Objects -> Layout \cup {Null}]
                  /\ \A l \in Loggers : formatter[l] # Null
                  /\ hasFormatter \in [Appenders -> BOOLEAN]

\* An appender never given to a logger has no formatter but its own.
Unused(a) == a \notin removed /\ \A l \in Loggers : a \notin Range(appenders[l])
Fresh(a) == Unused(a) /\ ~hasFormatter[a] => formatter[a] = Null

\* FollowsLogger, and what is true of it in the middle of setFormatter.
Follows(a, l) == OnlyUsedBy(a, l) /\ ~hasFormatter[a] =>
                    formatter[a] = formatter[l] \/ \E t \in Threads : Spreading(t, l, a)

FormatterInv == /\ FormatterTypes
                /\ \A t \in Threads : Handed(t)
                /\ \A a \in Appenders : Fresh(a)
                /\ \A a \in Appenders, l \in Loggers :
                      Follows(a, l) /\ (a \in Range(appenders[l]) => formatter[a] # Null)

(* push_back, clear and erase of the list of appenders.                    *)
LEMMA RangeFacts ==
    ASSUME NEW S, NEW s \in Seq(S), NEW e, NEW b
    PROVE  /\ e \in S => (b \in Range(Append(s, e)) <=> b \in Range(s) \/ b = e)
           /\ b \notin Range(<<>>)
  <1>1. ASSUME e \in S PROVE b \in Range(Append(s, e)) <=> b \in Range(s) \/ b = e
    <2>1. /\ Len(Append(s, e)) = Len(s) + 1 /\ Append(s, e)[Len(s) + 1] = e
          /\ \A i \in 1 .. Len(s) : Append(s, e)[i] = s[i] /\ i \in 1 .. (Len(s) + 1)
      BY <1>1
    <2>2. Len(s) \in Nat /\ \A i \in 1 .. (Len(s) + 1) : i \in 1 .. Len(s) \/ i = Len(s) + 1
      OBVIOUS
    <2> QED BY <2>1, <2>2 DEF Range
  <1>2. b \notin Range(<<>>)
    BY DEF Range
  <1> QED BY <1>1, <1>2

(* What is in the list after an erase, but for the element erased.         *)
LEMMA EraseRange ==
    ASSUME NEW S, NEW s \in Seq(S), NEW m \in 1 .. Len(s), NEW b
    PROVE  /\ b \in Range(Erase(s, m)) => b \in Range(s)
           /\ b # s[m] /\ b \in Range(s) => b \in Range(Erase(s, m))
  <1>1. /\ Len(Erase(s, m)) = Len(s) - 1
        /\ \A i \in 1 .. (m - 1) : Erase(s, m)[i] = s[i]
        /\ \A i \in m .. (Len(s) - 1) : Erase(s, m)[i] = s[i + 1]
    <2>7. /\ SubSeq(s, 1, m - 1) \in Seq(S) /\ Len(SubSeq(s, 1, m - 1)) = m - 1
          /\ \A i \in 1 .. (m - 1) : SubSeq(s, 1, m - 1)[i] = s[i]
      OBVIOUS
    <2>8. /\ SubSeq(s, m + 1, Len(s)) \in Seq(S) /\ Len(SubSeq(s, m + 1, Len(s))) = Len(s) - m
          /\ \A i \in 1 .. (Len(s) - m) : SubSeq(s, m + 1, Len(s))[i] = s[m + i]
      OBVIOUS
    <2>9. PICK u \in Seq(S) : /\ u = SubSeq(s, 1, m - 1) /\ Len(u) = m - 1
                              /\ \A i \in 1 .. (m - 1) : u[i] = s[i]
      BY <2>7, Zenon
    <2>10. PICK w \in Seq(S) : /\ w = SubSeq(s, m + 1, Len(s)) /\ Len(w) = Len(s) - m
                               /\ \A i \in 1 .. (Len(s) - m) : w[i] = s[m + i]
      BY <2>8, Zenon
    <2>11. /\ Len(u \o w) = Len(u) + Len(w)
           /\ \A i \in 1 .. Len(u) : (u \o w)[i] = u[i]
           /\ \A i \in (Len(u) + 1) .. (Len(u) + Len(w)) : (u \o w)[i] = w[i - Len(u)]
      OBVIOUS
    <2>a. Len(u) = m - 1 /\ Len(w) = Len(s) - m /\ Erase(s, m) = u \o w
      BY <2>9, <2>10 DEF Erase
    <2>b. \A i \in 1 .. (m - 1) : u[i] = s[i]
      BY <2>9
    <2>c. \A i \in 1 .. (Len(s) - m) : w[i] = s[m + i]
      BY <2>10
    <2>12. Len(u \o w) = Len(s) - 1 /\ \A i \in 1 .. (m - 1) : (u \o w)[i] = s[i]
      BY <2>11, <2>a, <2>b
    <2>13. ASSUME NEW i \in m .. (Len(s) - 1) PROVE (u \o w)[i] = s[i + 1]
      <3>1. i \in (Len(u) + 1) .. (Len(u) + Len(w))
        BY <2>a
      <3>2. (u \o w)[i] = w[i - Len(u)]
        BY <2>11, <3>1
      <3>3. PICK j \in 1 .. (Len(s) - m) : j = i - Len(u) /\ m + j = i + 1
        BY <2>a
      <3> QED BY <2>c, <3>2, <3>3
    <2> QED BY <2>12, <2>13, <2>a, Zenon
  <1>2. ASSUME NEW i \in 1 .. (Len(s) - 1), Erase(s, m)[i] = b PROVE b \in Range(s)
    <2>1. CASE i < m
      BY <1>1, <1>2, <2>1 DEF Range
    <2>2. CASE i >= m
      <3>1. i + 1 \in 1 .. Len(s) /\ s[i + 1] = b
        BY <1>1, <1>2, <2>2
      <3> QED BY <3>1 DEF Range
    <2> QED BY <2>1, <2>2
  <1>3. ASSUME NEW i \in 1 .. Len(s), s[i] = b, b # s[m] PROVE b \in Range(Erase(s, m))
    <2>1. CASE i < m
      <3>1. i \in 1 .. (Len(s) - 1) /\ Erase(s, m)[i] = b
        BY <1>1, <1>3, <2>1
      <3> QED BY <1>1, <3>1 DEF Range
    <2>2. CASE i > m
      <3>1. i - 1 \in 1 .. (Len(s) - 1) /\ Erase(s, m)[i - 1] = b
        <4>1. i - 1 \in m .. (Len(s) - 1) /\ (i - 1) + 1 = i
          BY <2>2
        <4> QED BY <1>1, <1>3, <4>1
      <3> QED BY <1>1, <3>1 DEF Range
    <2> QED BY <1>1, <1>3, <2>1, <2>2
  <1>4. ASSUME b \in Range(Erase(s, m)) PROVE \E i \in 1 .. (Len(s) - 1) : Erase(s, m)[i] = b
    <2>1. Erase(s, m) \in Seq(S)
      BY EraseType
    <2>2. DOMAIN Erase(s, m) = 1 .. (Len(s) - 1)
      BY <1>1, <2>1
    <2> QED BY <1>4, <2>2 DEF Range
  <1>5. b \in Range(s) => \E i \in 1 .. Len(s) : s[i] = b
    BY DEF Range
  <1> QED BY <1>2, <1>3, <1>4, <1>5

(* At first the loggers of LoggerManager share the default formatter with  *)
(* their appenders, and nobody else has one.                               *)
LEMMA InitFormatterInv == Init => FormatterInv
  <1> SUFFICES ASSUME Init PROVE FormatterInv
    OBVIOUS
  <1>1. PICK managed \in SUBSET Loggers : \E own \in Injection(managed, Appenders) :
           /\ appenders = [l \in Loggers |-> IF l \in managed THEN <<own[l]>> ELSE <<>>]
           /\ formatter = [x \in Objects |-> IF x \in Loggers \cup Range(own) THEN Default ELSE Null]
    BY DEF Init, Objects
  <1>2. PICK own \in Injection(managed, Appenders) :
           /\ appenders = [l \in Loggers |-> IF l \in managed THEN <<own[l]>> ELSE <<>>]
           /\ formatter = [x \in Objects |-> IF x \in Loggers \cup Range(own) THEN Default ELSE Null]
    BY <1>1
  <1>3. own \in [managed -> Appenders] /\ Range(own) = {own[l] : l \in managed}
    BY DEF Injection, IsInjective, Range
  <1>4. /\ Null # Default /\ Loggers \cap Appenders = {}
    BY LogAssumption
  <1>5. FormatterTypes
    BY <1>2, <1>4 DEF Init, FormatterTypes, Layout, Objects
  <1>6. \A l \in Loggers, a \in Appenders :
           a \in Range(appenders[l]) <=> l \in managed /\ own[l] = a
    BY <1>2 DEF Range
  <1>7. \A a \in Appenders : formatter[a] = Null \/ \E l \in managed : own[l] = a /\ formatter[a] = Default
    BY <1>2, <1>3, <1>4, Zenon DEF Objects
  <1>8. \A l \in managed : formatter[own[l]] = Default
    BY <1>2, <1>3 DEF Objects
  <1>9. \A l \in Loggers : formatter[l] = Default
    BY <1>2 DEF Objects
  <1>10. \A t \in Threads : Handed(t)
    BY Zenon DEF Init, Handed
  <1>11. \A a \in Appenders : Fresh(a)
    BY <1>6, <1>7 DEF Fresh, Unused
  <1>12. \A a \in Appenders, l \in Loggers :
            Follows(a, l) /\ (a \in Range(appenders[l]) => formatter[a] # Null)
    <2> TAKE a \in Appenders, l \in Loggers
    <2>1. a \in Range(appenders[l]) => formatter[a] = formatter[l] /\ formatter[a] # Null
      BY <1>4, <1>6, <1>8, <1>9
    <2>2. OnlyUsedBy(a, l) => a \in Range(appenders[l])
      BY DEF OnlyUsedBy
    <2> QED BY <2>1, <2>2, Zenon DEF Follows
  <1> QED BY <1>5, <1>10, <1>11, <1>12 DEF FormatterInv

\* Other threads than t stay where they are.
OthersStay(t) == \A u \in Threads \ {t} : pc'[u] = pc[u] /\ call'[u] = call[u]

(* Steps that change no list and no formatter, outside the loop of         *)
(* setFormatter.                                                           *)
LEMMA QuietFormatterInv ==
    ASSUME FormatterInv, NEW t \in Threads, OthersStay(t),
           UNCHANGED <<formatter, hasFormatter, appenders, removed>>,
           \/ pc[t] # "spread" /\ pc'[t] # "spread" /\ (pc'[t] = "set" => call'[t].value \in Patterns)
           \/ pc'[t] = pc[t] /\ call'[t] = call[t]
    PROVE  FormatterInv'
  <1>1. FormatterTypes'
    BY Zenon DEF FormatterInv, FormatterTypes
  <1>2. \A u \in Threads : pc'[u] = "spread" <=> pc[u] = "spread"
    BY DEF OthersStay
  <1>3. \A u \in Threads : pc[u] = "spread" => call'[u] = call[u]
    BY DEF OthersStay
  <1>4. ASSUME NEW u \in Threads PROVE Handed(u)'
    <2>1. Handed(u)
      BY DEF FormatterInv
    <2>2. pc'[u] = "set" => call'[u].value \in Patterns
      BY <2>1 DEF Handed, OthersStay
    <2> QED BY <1>2, <1>3, <2>1, <2>2 DEF Handed
  <1>5. ASSUME NEW u \in Threads, NEW a \in Appenders, NEW l \in Loggers, Spreading(u, l, a)
        PROVE  Spreading(u, l, a)'
    BY <1>2, <1>3, <1>5 DEF Spreading
  <1>6. ASSUME NEW a \in Appenders PROVE Fresh(a)'
    BY Zenon DEF FormatterInv, Fresh, Unused
  <1>7. ASSUME NEW a \in Appenders, NEW l \in Loggers
        PROVE  (Follows(a, l) /\ (a \in Range(appenders[l]) => formatter[a] # Null))'
    BY <1>5, Zenon DEF FormatterInv, Follows, OnlyUsedBy
  <1> QED BY <1>1, <1>4, <1>6, <1>7, Zenon DEF FormatterInv

(* Nobody is in the loop of setFormatter of a logger whose lock is free,   *)
(* or held by a thread that is elsewhere.                                  *)
LEMMA NobodySpreads ==
    ASSUME IInv, NEW l \in Loggers, NEW a, NEW u \in Threads, Spreading(u, l, a)
    PROVE  mutex[l] = u /\ mutex[l] # Null
  <1>1. Locked(u) /\ Null \notin Threads
    BY LogAssumption DEF IInv
  <1>2. HoldsLogger(u) /\ call[u].logger = l
    BY DEF Spreading, HoldsLogger
  <1> QED BY <1>1, <1>2 DEF Locked

(* delAppender, clearAppenders and the setFormatter of an appender.        *)
LEMMA OnceFormatterInv ==
    ASSUME IInv, FormatterInv, NEW t \in Threads,
           \/ \E l \in Loggers, a \in Appenders : DelAppender(t, l, a)
           \/ \E l \in Loggers : ClearAppenders(t, l)
           \/ \E a \in Appenders, p \in Patterns : SetOwnFormatter(t, a, p)
    PROVE  FormatterInv'
  <1>0. appenders \in [Loggers -> Seq(Appenders)] /\ Loggers \cap Appenders = {}
    BY LogAssumption DEF IInv, Types
  <1>1. UNCHANGED <<pc, call>>
    BY DEF DelAppender, ClearAppenders, SetOwnFormatter, Once
  <1>2. ASSUME NEW l \in Loggers, NEW s \in Seq(Appenders), NEW D \in SUBSET Appenders, mutex[l] = Null,
               appenders' = [appenders EXCEPT ![l] = s], removed' = removed \cup D,
               UNCHANGED <<formatter, hasFormatter>>,
               \A a \in Appenders : a \in Range(s) => a \in Range(appenders[l]),
               \A a \in Appenders \ D : a \in Range(appenders[l]) => a \in Range(s)
        PROVE  FormatterInv'
    <2>1. /\ appenders'[l] = s
          /\ \A k \in Loggers \ {l} : appenders'[k] = appenders[k]
      BY <1>0, <1>2
    <2>2. FormatterTypes' /\ \A u \in Threads : Handed(u)'
      BY <1>1, <1>2, Zenon DEF FormatterInv, FormatterTypes, Handed
    <2>3. ASSUME NEW a \in Appenders PROVE Fresh(a)'
      <3> SUFFICES ASSUME Unused(a)', ~hasFormatter[a] PROVE formatter[a] = Null
        BY <1>2, Zenon DEF Fresh
      <3>1. Unused(a)
        BY <1>2, <2>1 DEF Unused
      <3> QED BY <3>1, Zenon DEF FormatterInv, Fresh
    <2>4. ASSUME NEW a \in Appenders, NEW k \in Loggers PROVE Follows(a, k)'
      <3> SUFFICES ASSUME OnlyUsedBy(a, k)', ~hasFormatter[a]
                   PROVE  formatter[a] = formatter[k] \/ \E u \in Threads : Spreading(u, k, a)'
        BY <1>2, Zenon DEF Follows
      <3>1. OnlyUsedBy(a, k)
        <4>1. a \notin removed /\ a \notin D
          BY <1>2 DEF OnlyUsedBy
        <4>2. \A j \in Loggers : a \in Range(appenders'[j]) <=> a \in Range(appenders[j])
          BY <1>2, <2>1, <4>1, Zenon
        <4> QED BY <4>1, <4>2, Zenon DEF OnlyUsedBy
      <3>2. ASSUME NEW u \in Threads, Spreading(u, k, a) PROVE Spreading(u, k, a)'
        <4>1. k # l
          BY <1>2, <3>2, NobodySpreads, Zenon
        <4> QED BY <1>1, <2>1, <3>2, <4>1 DEF Spreading
      <3> QED BY <3>1, <3>2, Zenon DEF FormatterInv, Follows
    <2>5. ASSUME NEW a \in Appenders, NEW k \in Loggers, a \in Range(appenders'[k])
          PROVE  formatter'[a] # Null
      <3>1. a \in Range(appenders[k])
        BY <1>2, <2>1, <2>5, Zenon
      <3> QED BY <1>2, <3>1, Zenon DEF FormatterInv
    <2> QED BY <2>2, <2>3, <2>4, <2>5, Zenon DEF FormatterInv
  <1>3. ASSUME NEW l \in Loggers, NEW a \in Appenders, DelAppender(t, l, a) PROVE FormatterInv'
    <2>0. PICK i \in DOMAIN appenders[l] :
             appenders[l][i] = a /\ appenders' = [appenders EXCEPT ![l] = Erase(appenders[l], i)]
      BY <1>3, Zenon DEF DelAppender
    <2> DEFINE s == Erase(appenders[l], i)
    <2>a. appenders[l] \in Seq(Appenders)
      BY <1>0, Zenon
    <2>b. i \in 1 .. Len(appenders[l])
      BY <2>a
    <2>1. s \in Seq(Appenders)
      BY <2>a, <2>b, EraseType, Zenon
    <2>2. /\ \A b \in Appenders : b \in Range(s) => b \in Range(appenders[l])
          /\ \A b \in Appenders \ {a} : b \in Range(appenders[l]) => b \in Range(s)
      BY <2>0, <2>a, <2>b, EraseRange, Zenon
    <2>3. /\ mutex[l] = Null /\ appenders' = [appenders EXCEPT ![l] = s]
          /\ removed' = removed \cup {a} /\ UNCHANGED <<formatter, hasFormatter>>
      BY <1>3, <2>0, Zenon DEF DelAppender, Free
    <2> HIDE DEF s
    <2> QED BY <1>2, <2>1, <2>2, <2>3, Zenon
  <1>4. ASSUME NEW l \in Loggers, ClearAppenders(t, l) PROVE FormatterInv'
    <2> DEFINE D == Range(appenders[l])
    <2>1. appenders[l] \in Seq(Appenders) /\ D \in SUBSET Appenders
      BY <1>0 DEF Range
    <2>2. \A b \in Appenders \ D : b \notin Range(appenders[l])
      BY <2>1, Zenon DEF Range
    <2>3. /\ mutex[l] = Null /\ appenders' = [appenders EXCEPT ![l] = <<>>]
          /\ removed' = removed \cup D /\ UNCHANGED <<formatter, hasFormatter>>
      BY <1>4 DEF ClearAppenders, Free
    <2>4. <<>> \in Seq(Appenders) /\ \A b \in Appenders : b \notin Range(<<>>)
      BY DEF Range
    <2> HIDE DEF D
    <2> QED BY <1>2, <2>1, <2>2, <2>3, <2>4, Zenon
  <1>5. ASSUME NEW b \in Appenders, NEW p \in Patterns, SetOwnFormatter(t, b, p) PROVE FormatterInv'
    <2>1. p # Null /\ p \in Layout
      BY LogAssumption DEF Layout
    <2>2. /\ formatter' = [formatter EXCEPT ![b] = p] /\ hasFormatter' = [hasFormatter EXCEPT ![b] = TRUE]
          /\ UNCHANGED <<appenders, removed>>
      BY <1>5, <2>1, Zenon DEF SetOwnFormatter
    <2>3. FormatterTypes
      BY DEF FormatterInv
    <2>4. /\ formatter'[b] = p /\ hasFormatter'[b]
          /\ \A x \in Objects \ {b} : formatter'[x] = formatter[x]
          /\ \A a \in Appenders \ {b} : hasFormatter'[a] = hasFormatter[a]
      BY <2>2, <2>3 DEF FormatterTypes, Objects
    <2>5. FormatterTypes'
      BY <1>0, <2>1, <2>2, <2>3 DEF FormatterTypes, Objects
    <2>6. ASSUME NEW u \in Threads PROVE Handed(u)'
      <3>1. pc[u] = "spread" => call[u].logger \in Loggers
        BY Zenon DEF IInv, InCall
      <3> QED BY <1>0, <1>1, <2>4, <3>1, Zenon DEF FormatterInv, Handed, Objects
    <2>7. ASSUME NEW a \in Appenders PROVE Fresh(a)'
      <3>1. CASE a = b
        BY <2>4, <3>1 DEF Fresh
      <3>2. CASE a # b
        BY <2>2, <2>4, <3>2 DEF FormatterInv, Fresh, Unused, Objects
      <3> QED BY <3>1, <3>2
    <2>8. ASSUME NEW a \in Appenders, NEW k \in Loggers
          PROVE  (Follows(a, k) /\ (a \in Range(appenders[k]) => formatter[a] # Null))'
      <3>1. CASE a = b
        BY <2>1, <2>2, <2>4, <3>1 DEF Follows
      <3>2. CASE a # b
        <4>1. /\ formatter'[a] = formatter[a] /\ hasFormatter'[a] = hasFormatter[a]
              /\ formatter'[k] = formatter[k]
          BY <1>0, <2>4, <3>2, Zenon DEF Objects
        <4>2. \A u \in Threads : Spreading(u, k, a) => Spreading(u, k, a)'
          BY <1>1, <2>2, Zenon DEF Spreading
        <4>3. OnlyUsedBy(a, k)' <=> OnlyUsedBy(a, k)
          BY <2>2 DEF OnlyUsedBy
        <4> QED BY <2>2, <4>1, <4>2, <4>3 DEF FormatterInv, Follows
      <3> QED BY <3>1, <3>2
    <2> QED BY <2>5, <2>6, <2>7, <2>8, Zenon DEF FormatterInv
  <1> QED BY <1>3, <1>4, <1>5

(* The threads other than t when t moves on.                               *)
LEMMA MovesAlone ==
    ASSUME IInv, NEW t \in Threads, NEW p, NEW c,
           pc' = [pc EXCEPT ![t] = p], call' = [call EXCEPT ![t] = c]
    PROVE  OthersStay(t) /\ pc'[t] = p /\ call'[t] = c
  BY DEF IInv, Types, OthersStay

(* Logger::setFormatter: the logger first, then one appender after the     *)
(* other.                                                                  *)
LEMMA SetFormatterInv ==
    ASSUME IInv, FormatterInv, NEW t \in Threads, SetLocks(t) \/ Spread(t)
    PROVE  FormatterInv'
  <1>0. /\ appenders \in [Loggers -> Seq(Appenders)] /\ Loggers \cap Appenders = {}
        /\ call[t] \in CallOf /\ call[t].index \in Nat /\ Null \notin Patterns
    BY CallFacts, LogAssumption, Zenon DEF IInv, Types
  <1>1. FormatterTypes
    BY DEF FormatterInv
  <1>2. UNCHANGED <<hasFormatter, appenders, removed>> /\ pc[t] \in {"set", "spread"}
    BY DEF SetLocks, Spread
  <1>3. PICK l \in Loggers : l = call[t].logger
    BY <1>2, CallFacts
  <1>4. call[t].value \in Patterns /\ call[t].value \in Layout /\ call[t].value # Null
    BY <1>0, <1>2 DEF FormatterInv, Handed, Layout
  <1>5. ASSUME NEW a \in Appenders, NEW k \in Loggers
        PROVE  OnlyUsedBy(a, k)' <=> OnlyUsedBy(a, k)
    BY <1>2 DEF OnlyUsedBy
  <1>6. CASE SetLocks(t)
    <2> DEFINE c == [call[t] EXCEPT !.index = 1]
    <2>1. c.logger = l /\ c.index = 1 /\ c.value = call[t].value
      BY <1>0, <1>3 DEF CallOf
    <2>2. pc' = [pc EXCEPT ![t] = "spread"] /\ call' = [call EXCEPT ![t] = c] /\ mutex[l] = Null
      BY <1>3, <1>6 DEF SetLocks, Goto, Acquire, Free
    <2> HIDE DEF c
    <2>3. OthersStay(t) /\ pc'[t] = "spread" /\ call'[t] = c
      BY <2>2, MovesAlone, Zenon
    <2>4. formatter' = [formatter EXCEPT ![l] = call[t].value]
      BY <1>3, <1>6 DEF SetLocks
    <2>5. formatter'[l] = call[t].value /\ \A x \in Objects \ {l} : formatter'[x] = formatter[x]
      BY <1>1, <2>4 DEF FormatterTypes, Objects
    <2>6. FormatterTypes'
      <3>1. formatter' \in [Objects -> Layout \cup {Null}]
        BY <1>1, <1>4, <2>4, Zenon DEF FormatterTypes
      <3>2. \A k \in Loggers : formatter'[k] # Null
        BY <1>1, <1>4, <2>5 DEF FormatterTypes, Objects
      <3> QED BY <1>1, <1>2, <3>1, <3>2 DEF FormatterTypes
    <2>7. ASSUME NEW u \in Threads PROVE Handed(u)'
      <3>1. CASE u = t
        BY <1>4, <2>1, <2>3, <2>5, <3>1 DEF Handed
      <3>2. CASE u # t
        <4>1. Handed(u) /\ pc'[u] = pc[u] /\ call'[u] = call[u]
          BY <2>3, <3>2 DEF FormatterInv, OthersStay
        <4>2. pc[u] = "spread" => call[u].logger # l /\ call[u].logger \in Loggers
          BY <2>2, LogAssumption DEF IInv, InCall, Locked, HoldsLogger
        <4> QED BY <2>5, <4>1, <4>2 DEF Handed, Objects
      <3> QED BY <3>1, <3>2
    <2>8. ASSUME NEW a \in Appenders PROVE Fresh(a)' /\ formatter'[a] = formatter[a]
      BY <1>0, <1>2, <2>5, Zenon DEF FormatterInv, Fresh, Unused, Objects
    <2>9. ASSUME NEW a \in Appenders, NEW k \in Loggers PROVE Follows(a, k)'
      <3>1. CASE k = l
        <4>1. Spreading(t, l, a)'
          BY <2>1, <2>3 DEF Spreading
        <4> QED BY <3>1, <4>1 DEF Follows
      <3>2. CASE k # l
        <4>1. formatter'[k] = formatter[k] /\ formatter'[a] = formatter[a]
          BY <2>5, <2>8, <3>2 DEF Objects
        <4>2. ASSUME NEW u \in Threads, Spreading(u, k, a) PROVE Spreading(u, k, a)'
          <5>1. u # t
            BY <1>3, <3>2, <4>2 DEF Spreading
          <5> QED BY <1>2, <2>3, <4>2, <5>1 DEF Spreading, OthersStay
        <4>3. Follows(a, k)
          BY DEF FormatterInv
        <4> QED BY <1>2, <1>5, <4>1, <4>2, <4>3, Zenon DEF Follows
      <3> QED BY <3>1, <3>2
    <2> QED BY <1>2, <2>6, <2>7, <2>8, <2>9, Zenon DEF FormatterInv
  <1>7. CASE Spread(t) /\ call[t].index > Len(appenders[l])
    <2>1. pc[t] = "spread" /\ Return(t) /\ UNCHANGED formatter
      BY <1>3, <1>7 DEF Spread
    <2>2. OthersStay(t) /\ pc'[t] = "idle"
      BY <2>1, MovesAlone, Zenon DEF Return, Goto
    <2>3. FormatterTypes'
      BY <1>1, <1>2, <2>1 DEF FormatterTypes
    <2>4. ASSUME NEW u \in Threads PROVE Handed(u)'
      BY <2>1, <2>2, Zenon DEF FormatterInv, Handed, OthersStay
    <2>5. ASSUME NEW a \in Appenders PROVE Fresh(a)'
      BY <1>2, <2>1, Zenon DEF FormatterInv, Fresh, Unused
    <2>6. ASSUME NEW a \in Appenders, NEW k \in Loggers PROVE Follows(a, k)'
      <3> SUFFICES ASSUME OnlyUsedBy(a, k), ~hasFormatter[a]
                   PROVE  formatter[a] = formatter[k] \/ \E u \in Threads : Spreading(u, k, a)'
        BY <1>2, <1>5, <2>1, Zenon DEF Follows
      <3>1. ASSUME NEW u \in Threads, Spreading(u, k, a) PROVE Spreading(u, k, a)'
        <4>1. u # t
          <5>1. PICK i \in 1 .. Len(appenders[k]) : appenders[k][i] = a
            BY DEF OnlyUsedBy, Range
          <5> SUFFICES ASSUME u = t PROVE FALSE
            OBVIOUS
          <5>2. k = l /\ i >= call[t].index
            BY <1>3, <3>1, <5>1 DEF Spreading
          <5>3. Len(appenders[l]) \in Nat
            BY <1>0
          <5>4. i \in Nat /\ i <= Len(appenders[l]) /\ i >= call[t].index
            BY <5>1, <5>2, <5>3
          <5> QED BY <1>0, <1>7, <5>3, <5>4
        <4> QED BY <1>2, <2>2, <3>1, <4>1, Zenon DEF Spreading, OthersStay
      <3> QED BY <3>1, Zenon DEF FormatterInv, Follows
    <2> QED BY <1>2, <2>1, <2>3, <2>4, <2>5, <2>6 DEF FormatterInv
  <1>8. CASE Spread(t) /\ ~(call[t].index > Len(appenders[l]))
    <2> DEFINE c == [call[t] EXCEPT !.index = call[t].index + 1]
    <2>1. c.logger = l /\ c.index = call[t].index + 1 /\ c.value = call[t].value
      BY <1>0, <1>3 DEF CallOf
    <2>2. pc[t] = "spread" /\ pc' = pc /\ call' = [call EXCEPT ![t] = c]
      BY <1>3, <1>8, Zenon DEF Spread
    <2> HIDE DEF c
    <2>3. OthersStay(t) /\ pc'[t] = "spread" /\ call'[t] = c
      BY <2>2 DEF IInv, Types, OthersStay
    <2>4. call[t].index \in 1 .. Len(appenders[l])
      <3>1. call[t].index > 0
        BY <2>2 DEF IInv, InCall
      <3>2. Len(appenders[l]) \in Nat
        BY <1>0
      <3> QED BY <1>0, <1>8, <3>1, <3>2
    <2>5. PICK b \in Appenders : b = appenders[l][call[t].index]
      <3>1. appenders[l] \in Seq(Appenders)
        BY <1>0
      <3> QED BY <2>4, <3>1
    <2>6. formatter' = [formatter EXCEPT ![b] = Inherited(b, call[t].value)]
      BY <1>3, <1>8, <2>5, Zenon DEF Spread
    <2>7. /\ formatter'[b] = Inherited(b, call[t].value)
          /\ \A x \in Objects \ {b} : formatter'[x] = formatter[x]
      BY <1>1, <2>6 DEF FormatterTypes, Objects
    <2>8. b \in Range(appenders[l]) /\ formatter[b] # Null
      <3>1. b \in Range(appenders[l])
        BY <2>4, <2>5 DEF Range
      <3> QED BY <3>1 DEF FormatterInv
    <2>9. formatter'[b] \in Layout \cup {Null} /\ formatter'[b] # Null
      BY <1>1, <1>4, <2>7, <2>8 DEF Inherited, FormatterTypes, Objects
    <2>10. FormatterTypes'
      BY <1>0, <1>1, <1>2, <2>6, <2>7, <2>9, Zenon DEF FormatterTypes, Objects
    <2>11. \A k \in Loggers : formatter'[k] = formatter[k]
      BY <1>0, <2>7, Zenon DEF Objects
    <2>12. formatter[l] = call[t].value
      BY <1>3, <2>2, Zenon DEF FormatterInv, Handed
    <2>13. ASSUME NEW u \in Threads PROVE Handed(u)'
      <3>1. CASE u = t
        BY <1>4, <2>1, <2>3, <2>11, <2>12, <3>1 DEF Handed
      <3>2. CASE u # t
        <4>1. Handed(u) /\ pc'[u] = pc[u] /\ call'[u] = call[u]
          BY <2>3, <3>2, Zenon DEF FormatterInv, OthersStay
        <4>2. pc[u] = "spread" => call[u].logger \in Loggers
          BY Zenon DEF IInv, InCall
        <4> QED BY <2>11, <4>1, <4>2, Zenon DEF Handed
      <3> QED BY <3>1, <3>2
    <2>14. ASSUME NEW a \in Appenders PROVE Fresh(a)'
      <3>1. CASE a = b
        BY <1>2, <2>8, <3>1 DEF Fresh, Unused
      <3>2. CASE a # b
        BY <1>2, <2>7, <3>2, Zenon DEF FormatterInv, Fresh, Unused, Objects
      <3> QED BY <3>1, <3>2
    <2>15. ASSUME NEW a \in Appenders, NEW k \in Loggers PROVE Follows(a, k)'
      <3> SUFFICES ASSUME OnlyUsedBy(a, k), ~hasFormatter[a]
                   PROVE  formatter'[a] = formatter'[k] \/ \E u \in Threads : Spreading(u, k, a)'
        BY <1>2, <1>5 DEF Follows
      <3>1. CASE a = b
        <4>1. k = l
          BY <2>8, <3>1 DEF OnlyUsedBy
        <4> QED BY <2>7, <2>11, <2>12, <3>1, <4>1, Zenon DEF Inherited
      <3>2. CASE a # b
        <4>1. ASSUME NEW u \in Threads, Spreading(u, k, a) PROVE Spreading(u, k, a)'
          <5>1. CASE u # t
            BY <1>2, <2>3, <4>1, <5>1 DEF Spreading, OthersStay
          <5>2. CASE u = t
            <6>1. k = l
              BY <1>3, <4>1, <5>2 DEF Spreading
            <6>2. ASSUME NEW i \in 1 .. Len(appenders[l]), appenders[l][i] = a
                  PROVE  i >= call[t].index + 1
              <7>1. i >= call[t].index /\ i # call[t].index
                BY <2>5, <3>2, <4>1, <5>2, <6>1, <6>2, Zenon DEF Spreading
              <7> QED BY <1>0, <7>1
            <6> QED BY <1>2, <2>1, <2>3, <5>2, <6>1, <6>2 DEF Spreading
          <5> QED BY <5>1, <5>2
        <4>2. formatter'[a] = formatter[a] /\ formatter'[k] = formatter[k]
          BY <2>7, <2>11, <3>2 DEF Objects
        <4> QED BY <4>1, <4>2, Zenon DEF FormatterInv, Follows
      <3> QED BY <3>1, <3>2, Zenon
    <2>16. ASSUME NEW a \in Appenders, NEW k \in Loggers, a \in Range(appenders[k])
           PROVE  formatter'[a] # Null
      BY <2>7, <2>9, <2>16, Zenon DEF FormatterInv, Objects
    <2> QED BY <1>2, <2>10, <2>13, <2>14, <2>15, <2>16, Zenon DEF FormatterInv
  <1> QED BY <1>6, <1>7, <1>8

(* Logger::addAppender: the appender that is put on the list has, or is    *)
(* given, the formatter of the logger, or had one of its own.              *)
LEMMA PushFormatterInv ==
    ASSUME IInv, FormatterInv, NEW t \in Threads, pc[t] \in {"look", "give"}, PushBack(t),
           UNCHANGED <<hasFormatter, removed>>,
           \/ UNCHANGED formatter /\ formatter[call[t].appender] # Null
           \/ formatter' = [formatter EXCEPT ![call[t].appender] = formatter[call[t].logger]]
    PROVE  FormatterInv'
  <1>0. appenders \in [Loggers -> Seq(Appenders)] /\ Loggers \cap Appenders = {}
    BY LogAssumption DEF IInv, Types
  <1>1. PICK l \in Loggers, b \in Appenders : l = call[t].logger /\ b = call[t].appender
    BY DEF IInv, InCall
  <1>2. FormatterTypes
    BY DEF FormatterInv
  <1>3. OthersStay(t) /\ pc'[t] = "idle"
    BY MovesAlone, Zenon DEF PushBack, Return, Goto
  <1>4. appenders' = [appenders EXCEPT ![l] = Append(appenders[l], b)]
    BY <1>1 DEF PushBack
  <1>5. /\ \A a \in Appenders : a \in Range(appenders'[l]) <=> a \in Range(appenders[l]) \/ a = b
        /\ \A k \in Loggers \ {l} : appenders'[k] = appenders[k]
    BY <1>0, <1>4, RangeFacts
  <1>6. /\ formatter'[b] \in {formatter[b], formatter[l]} /\ formatter'[b] # Null
        /\ (formatter'[b] = formatter[b] /\ formatter[b] # Null) \/ formatter'[b] = formatter[l]
        /\ \A x \in Objects \ {b} : formatter'[x] = formatter[x]
        /\ formatter' \in [Objects -> Layout \cup {Null}]
    <2>1. formatter[l] # Null /\ l \in Objects /\ b \in Objects
      BY <1>2, Zenon DEF FormatterTypes, Objects
    <2>2. CASE UNCHANGED formatter /\ formatter[b] # Null
      BY <1>2, <2>1, <2>2 DEF FormatterTypes
    <2>3. CASE formatter' = [formatter EXCEPT ![b] = formatter[l]]
      BY <1>2, <2>1, <2>3 DEF FormatterTypes
    <2> QED BY <1>1, <2>2, <2>3, Zenon
  <1>7. \A k \in Loggers : formatter'[k] = formatter[k]
    BY <1>0, <1>6 DEF Objects
  <1>8. FormatterTypes'
    BY <1>2, <1>6, <1>7 DEF FormatterTypes
  <1>9. ASSUME NEW u \in Threads PROVE Handed(u)'
    <2>1. CASE u = t
      BY <1>3, <2>1 DEF Handed
    <2>2. CASE u # t
      <3>1. Handed(u) /\ pc'[u] = pc[u] /\ call'[u] = call[u]
        BY <1>3, <2>2 DEF FormatterInv, OthersStay
      <3>2. pc[u] = "spread" => call[u].logger \in Loggers
        BY DEF IInv, InCall
      <3> QED BY <1>7, <3>1, <3>2 DEF Handed
    <2> QED BY <2>1, <2>2
  <1>10. ASSUME NEW a \in Appenders PROVE Fresh(a)'
    <2> SUFFICES ASSUME Unused(a)', ~hasFormatter[a] PROVE formatter'[a] = Null
      BY DEF Fresh
    <2>1. a # b /\ \A k \in Loggers : a \notin Range(appenders[k])
      BY <1>5 DEF Unused
    <2>2. Unused(a)
      BY <2>1 DEF Unused
    <2> QED BY <1>6, <2>1, <2>2 DEF FormatterInv, Fresh, Objects
  <1>11. ASSUME NEW a \in Appenders, NEW k \in Loggers, a \in Range(appenders'[k])
         PROVE  formatter'[a] # Null
    <2>1. CASE a = b
      BY <1>6, <2>1
    <2>2. CASE a # b
      <3>1. a \in Range(appenders[k])
        BY <1>5, <1>11, <2>2
      <3> QED BY <1>6, <2>2, <3>1 DEF FormatterInv, Objects
    <2> QED BY <2>1, <2>2
  <1>12. ASSUME NEW a \in Appenders, NEW k \in Loggers PROVE Follows(a, k)'
    <2> SUFFICES ASSUME OnlyUsedBy(a, k)', ~hasFormatter[a]
                 PROVE  formatter'[a] = formatter'[k] \/ \E u \in Threads : Spreading(u, k, a)'
      BY DEF Follows
    <2>0. /\ a \notin removed /\ a \in Range(appenders'[k])
          /\ \A j \in Loggers : j # k => a \notin Range(appenders'[j])
      BY DEF OnlyUsedBy
    <2>1. \A u \in Threads : ~Spreading(u, l, a)
      <3>1. mutex[l] = t
        BY <1>1 DEF IInv, Locked, HoldsLogger
      <3> SUFFICES ASSUME NEW u \in Threads, Spreading(u, l, a) PROVE FALSE
        OBVIOUS
      <3>2. u = t
        BY <3>1, NobodySpreads
      <3> QED BY <3>2 DEF Spreading
    <2>2. ASSUME a \in Range(appenders[k])
          PROVE  OnlyUsedBy(a, k)
      <3>1. \A j \in Loggers : j # k => a \notin Range(appenders[j])
        BY <1>5, <2>0
      <3>2. \A j \in Loggers : (j = k) = (a \in Range(appenders[j]))
        BY <2>2, <3>1
      <3> QED BY <2>0, <3>2 DEF OnlyUsedBy
    <2>3. CASE a = b
      <3>1. k = l
        BY <1>5, <2>0, <2>3
      <3>2. CASE formatter'[b] = formatter[l]
        BY <1>7, <2>3, <3>1, <3>2
      <3>3. CASE formatter'[b] = formatter[b] /\ formatter[b] # Null
        <4>1. a \in Range(appenders[l])
          <5> SUFFICES ASSUME a \notin Range(appenders[l]) PROVE FALSE
            OBVIOUS
          <5>1. Unused(a)
            BY <1>5, <2>0, <3>1 DEF Unused
          <5> QED BY <2>3, <3>3, <5>1 DEF FormatterInv, Fresh
        <4>2. formatter[a] = formatter[l]
          BY <2>1, <2>2, <3>1, <4>1 DEF FormatterInv, Follows
        <4> QED BY <1>7, <2>3, <3>1, <3>3, <4>2
      <3> QED BY <1>6, <3>2, <3>3
    <2>4. CASE a # b
      <3>1. OnlyUsedBy(a, k)
        BY <1>5, <2>0, <2>2, <2>4
      <3>2. formatter'[a] = formatter[a] /\ formatter'[k] = formatter[k]
        BY <1>6, <1>7, <2>4 DEF Objects
      <3>3. ASSUME NEW u \in Threads, Spreading(u, k, a) PROVE Spreading(u, k, a)'
        <4>1. k # l /\ u # t
          BY <2>1, <3>3 DEF Spreading
        <4> QED BY <1>3, <1>5, <3>3, <4>1 DEF Spreading, OthersStay
      <3> QED BY <3>1, <3>2, <3>3 DEF FormatterInv, Follows
    <2> QED BY <2>3, <2>4
  <1> QED BY <1>8, <1>9, <1>10, <1>11, <1>12 DEF FormatterInv

(* A call that begins, or goes on, without touching lists or formatters.   *)
LEMMA CallsFormatterInv == ASSUME IInv, FormatterInv, NEW t \in Threads, Calls(t) PROVE FormatterInv'
  <1>1. ASSUME NEW p \in Points, NEW c, Begin(t, p, c), p # "spread", p = "set" => c.value \in Patterns,
               UNCHANGED <<objects, removed>>
        PROVE  FormatterInv'
    <2>1. pc[t] = "idle" /\ pc' = [pc EXCEPT ![t] = p] /\ call' = [call EXCEPT ![t] = c]
      BY <1>1 DEF Begin, Goto
    <2>2. OthersStay(t) /\ pc'[t] = p /\ call'[t] = c
      BY <2>1, MovesAlone, Zenon
    <2> QED BY <1>1, <2>1, <2>2, QuietFormatterInv DEF objects
  <1>2. ASSUME Once(t), UNCHANGED <<formatter, hasFormatter, appenders, removed>> PROVE FormatterInv'
    BY <1>2, QuietFormatterInv, Zenon DEF Once, OthersStay
  <1>3. ASSUME NEW l \in Loggers, NEW v \in Levels, Log(t, l, v) PROVE FormatterInv'
    <2>1. PICK c : Begin(t, "check", c) /\ UNCHANGED <<objects, removed>>
      BY <1>3 DEF Log
    <2> QED BY <1>1, <2>1 DEF Points
  <1>4. ASSUME NEW l \in Loggers, NEW p \in Patterns, SetFormatter(t, l, p) \/ SetPattern(t, l, p)
        PROVE  FormatterInv'
    <2> DEFINE c == [NoCall EXCEPT !.logger = l, !.value = p]
    <2>1. c.value = p
      BY NoCallType DEF CallOf
    <2>2. (Once(t) \/ Begin(t, "set", c)) /\ UNCHANGED <<objects, removed>>
      BY <1>4 DEF SetPattern, SetFormatter
    <2> HIDE DEF c
    <2> QED BY <1>1, <1>2, <2>1, <2>2 DEF Points, objects
  <1>5. ASSUME NEW l \in Loggers, NEW a \in Appenders, AddAppender(t, l, a) PROVE FormatterInv'
    <2>1. PICK c : Begin(t, "add", c) /\ UNCHANGED <<objects, removed>>
      BY <1>5 DEF AddAppender
    <2> QED BY <1>1, <2>1 DEF Points
  <1>6. ASSUME NEW x \in Objects, NEW v \in Levels, SetLevel(t, x, v) PROVE FormatterInv'
    BY <1>2, <1>6 DEF SetLevel
  <1> QED BY <1>3, <1>4, <1>5, <1>6, OnceFormatterInv DEF Calls, Objects

(* Logger::log and FileLogAppender::log change no list and no formatter.   *)
LEMMA StepsFormatterInv == ASSUME IInv, FormatterInv, NEW t \in Threads, Steps(t) PROVE FormatterInv'
  <1>1. ASSUME NEW p \in Points \ {"set", "spread"}, NEW c, pc[t] # "spread",
               pc' = [pc EXCEPT ![t] = p], call' = [call EXCEPT ![t] = c],
               UNCHANGED <<formatter, hasFormatter, appenders, removed>>
        PROVE  FormatterInv'
    <2>1. OthersStay(t) /\ pc'[t] = p
      BY <1>1, MovesAlone, Zenon
    <2> QED BY <1>1, <2>1, QuietFormatterInv
  <1>2. pc \in [Threads -> Points] /\ call \in [Threads -> CallOf]
    BY DEF IInv, Types
  <1>3. pc = [pc EXCEPT ![t] = pc[t]] /\ call = [call EXCEPT ![t] = call[t]]
    BY <1>2
  <1>4. CASE LogChecks(t) \/ LogLocks(t) \/ LogEach(t)
    <2>1. /\ pc[t] \in {"check", "lock", "each"}
          /\ UNCHANGED <<formatter, hasFormatter, appenders, removed>>
      BY <1>4 DEF LogChecks, LogLocks, LogEach, objects
    <2>2. PICK p \in Points \ {"set", "spread"} : pc' = [pc EXCEPT ![t] = p]
      BY <1>3, <1>4, <2>1, Zenon DEF LogChecks, LogLocks, LogEach, Goto, Return, Points
    <2>3. PICK c : call' = [call EXCEPT ![t] = c]
      BY <1>3, <1>4 DEF LogChecks, LogLocks, LogEach, Return
    <2> QED BY <1>1, <2>1, <2>2, <2>3, Zenon
  <1>5. CASE Reopen(t) \/ Stamp(t) \/ FormatLocks(t) \/ Write(t)
    <2>1. /\ pc[t] \in {"reopen", "stamp", "format", "write"}
          /\ UNCHANGED <<formatter, hasFormatter, appenders, removed>>
      BY <1>5 DEF Reopen, Stamp, FormatLocks, Write, objects
    <2>2. PICK p \in Points \ {"set", "spread"} : pc' = [pc EXCEPT ![t] = p]
      BY <1>3, <1>5, <2>1, Zenon DEF Reopen, Stamp, FormatLocks, Write, Goto, Points
    <2>3. PICK c : call' = [call EXCEPT ![t] = c]
      BY <1>3, <1>5 DEF Reopen, Stamp, FormatLocks, Write
    <2> QED BY <1>1, <2>1, <2>2, <2>3, Zenon
  <1>6. CASE AddLocks(t)
    <2>1. /\ pc[t] = "add" /\ pc' = [pc EXCEPT ![t] = "look"] /\ call' = [call EXCEPT ![t] = call[t]]
          /\ UNCHANGED <<formatter, hasFormatter, appenders, removed>>
      BY <1>3, <1>6 DEF AddLocks, Goto, objects
    <2> QED BY <1>1, <2>1, Zenon DEF Points
  <1>7. CASE AddLooks(t) /\ formatter[call[t].appender] = Null
    <2>1. /\ pc[t] = "look" /\ pc' = [pc EXCEPT ![t] = "give"] /\ call' = [call EXCEPT ![t] = call[t]]
          /\ UNCHANGED <<formatter, hasFormatter, appenders, removed>>
      BY <1>3, <1>7 DEF AddLooks, Goto
    <2> QED BY <1>1, <2>1, Zenon DEF Points
  <1>8. CASE AddLooks(t) /\ formatter[call[t].appender] # Null
    BY <1>8, PushFormatterInv DEF AddLooks
  <1>9. CASE AddGives(t)
    BY <1>9, PushFormatterInv, Zenon DEF AddGives
  <1> QED BY <1>4, <1>5, <1>6, <1>7, <1>8, <1>9, SetFormatterInv, Zenon DEF Steps

(* Every step keeps what is said of the formatters.                        *)
LEMMA LogFormatters == Spec => []FormatterInv
  <1>1. IInv /\ FormatterInv /\ [Next]_vars => FormatterInv'
    <2> SUFFICES ASSUME IInv, FormatterInv, [Next]_vars PROVE FormatterInv'
      OBVIOUS
    <2>1. CASE UNCHANGED <<objects, pc, call, removed>>
      <3>1. UNCHANGED <<formatter, hasFormatter, appenders, removed, pc, call>>
        BY <2>1 DEF objects
      <3>2. FormatterTypes' /\ (\A t \in Threads : Handed(t)') /\ \A a \in Appenders : Fresh(a)'
        BY <3>1, Zenon DEF FormatterInv, FormatterTypes, Handed, Fresh, Unused
      <3>3. ASSUME NEW a \in Appenders, NEW l \in Loggers
            PROVE  Follows(a, l)' /\ (a \in Range(appenders'[l]) => formatter'[a] # Null)
        <4>1. Follows(a, l) /\ (a \in Range(appenders[l]) => formatter[a] # Null)
          BY Zenon DEF FormatterInv
        <4>2. \A u \in Threads : Spreading(u, l, a)' = Spreading(u, l, a)
          BY <3>1, Zenon DEF Spreading
        <4>3. OnlyUsedBy(a, l)' = OnlyUsedBy(a, l)
          BY <3>1, Zenon DEF OnlyUsedBy
        <4> QED BY <3>1, <4>1, <4>2, <4>3, Zenon DEF Follows
      <3> QED BY <3>2, <3>3, Zenon DEF FormatterInv
    <2>2. TimePasses \/ Done \/ UNCHANGED vars => UNCHANGED <<objects, pc, call, removed>>
      BY DEF TimePasses, Done, vars
    <2> QED BY <2>1, <2>2, CallsFormatterInv, StepsFormatterInv DEF Next
  <1> QED BY <1>1, InitFormatterInv, LogInvariant, PTL DEF Spec

(* An appender without a formatter of its own that only one logger ever    *)
(* used has the formatter of that logger when no thread holds the lock of  *)
(* the logger, however setFormatter, addAppender, delAppender and          *)
(* clearAppenders of several threads interleave.                           *)
THEOREM LogFollowsLogger == Spec => []FollowsLogger
  <1>1. IInv /\ FormatterInv => FollowsLogger
    <2> SUFFICES ASSUME IInv, FormatterInv, NEW l \in Loggers, NEW a \in Appenders,
                        Free(l), OnlyUsedBy(a, l), ~hasFormatter[a]
                 PROVE  formatter[a] = formatter[l]
      BY DEF FollowsLogger
    <2> QED BY NobodySpreads, Zenon DEF FormatterInv, Follows, Free
  <1> QED BY <1>1, LogFormatters, LogInvariant, PTL

-----------------------------------------------------------------------------
(* What is written to the files                                            *)

\* The last line in the file of a is complete.
Whole(a) == tail[a].pos = tail[a].of

LineLength(a) == Len(m_items[formatter[a]])

\* Thread t, which writes to a, has written the items before pos.
InLine(t, a) == \/ call[t].pos = 1 /\ Whole(a)
                \/ /\ call[t].pos \in 2 .. (LineLength(a) + 1)
                   /\ tail[a] = [event |-> call[t].event, pos |-> call[t].pos - 1, of |-> LineLength(a)]

\* A file that takes no more items does so in the middle of a line only if
\* it is open and stays as it is.
FileInv(a) == /\ stream[a].good => stream[a].open
              /\ ~stream[a].open => Whole(a)
              /\ stream[a].good /\ mutex[a] = Null => Whole(a)
              /\ \A t \in Threads : stream[a].good /\ mutex[a] = t => InLine(t, a)

FilesInv == /\ stream \in [Appenders -> [open : BOOLEAN, good : BOOLEAN]]
            /\ tail \in [Appenders -> [event : Nat, pos : Nat, of : Nat]]
            /\ \A a \in Appenders : FileInv(a)

(* Nothing has been written at first.                                      *)
LEMMA InitFilesInv == Init => FilesInv
  <1> SUFFICES ASSUME Init PROVE FilesInv
    OBVIOUS
  <1>1. /\ stream = [a \in Appenders |-> [open |-> TRUE, good |-> TRUE]]
        /\ tail = [a \in Appenders |-> NoItem]
        /\ \A a \in Appenders : mutex[a] = Null
    BY Zenon DEF Init
  <1>2. NoItem \in [event : Nat, pos : Nat, of : Nat] /\ NoItem.pos = NoItem.of
    BY DEF NoItem
  <1>3. Null \notin Threads
    BY LogAssumption
  <1>4. ASSUME NEW a \in Appenders PROVE FileInv(a)
    BY <1>1, <1>2, <1>3 DEF FileInv, Whole
  <1> QED BY <1>1, <1>2, <1>4 DEF FilesInv

(* An appender that nobody writes to, and whose lock and file a step       *)
(* leaves alone; or one whose writer, formatter and file stay.             *)
LEMMA FileStays ==
    ASSUME IInv, FilesInv, NEW a \in Appenders, tail'[a] = tail[a], stream'[a] = stream[a],
           mutex'[a] = mutex[a], mutex[a] # Null => formatter'[a] = formatter[a],
           \A u \in Threads : mutex[a] = u => call'[u] = call[u]
    PROVE  FileInv(a)'
  <1>1. FileInv(a) /\ Null \notin Threads
    BY LogAssumption DEF FilesInv
  <1>2. Whole(a)' <=> Whole(a)
    BY DEF Whole
  <1>3. ASSUME NEW u \in Threads, mutex[a] = u PROVE InLine(u, a)' <=> InLine(u, a)
    <2>1. formatter'[a] = formatter[a] /\ call'[u] = call[u]
      BY <1>1, <1>3
    <2>2. LineLength(a)' = LineLength(a)
      BY <2>1 DEF LineLength
    <2> QED BY <1>2, <2>1, <2>2, Zenon DEF InLine
  <1> QED BY <1>1, <1>2, <1>3, Zenon DEF FileInv

(* The thread that holds the lock of an appender is writing to it.         *)
LEMMA WriterWrites ==
    ASSUME IInv, NEW a \in Appenders, NEW u \in Threads
    PROVE  mutex[a] = u <=> pc[u] = "write" /\ call[u].appender = a
  BY DEF IInv, Locked, HoldsAppender

(* The steps in which no thread opens, locks or writes a file.             *)
LEMMA QuietFilesInv ==
    ASSUME IInv, FilesInv, UNCHANGED <<tail, stream>>, \A a \in Appenders : mutex'[a] = mutex[a],
           \A a \in Appenders : mutex[a] # Null => formatter'[a] = formatter[a],
           \A u \in Threads : pc[u] = "write" => call'[u] = call[u]
    PROVE  FilesInv'
  <1>1. ASSUME NEW a \in Appenders PROVE FileInv(a)'
    <2>1. \A u \in Threads : mutex[a] = u => call'[u] = call[u]
      BY WriterWrites
    <2>2. tail'[a] = tail[a] /\ stream'[a] = stream[a]
      OBVIOUS
    <2> QED BY <2>1, <2>2, FileStays
  <1> QED BY <1>1 DEF FilesInv

(* reopen: nobody writes, so the last line is complete, unless the file is *)
(* not good and stays so.                                                  *)
LEMMA ReopenFilesInv == ASSUME IInv, FilesInv, NEW t \in Threads, Reopen(t) PROVE FilesInv'
  <1>1. PICK b \in Appenders : b = call[t].appender
    BY Zenon DEF IInv, InCall, Reopen, Appending
  <1>2. /\ stream \in [Appenders -> [open : BOOLEAN, good : BOOLEAN]] /\ FileInv(b)
        /\ mutex[b] = Null /\ UNCHANGED <<tail, mutex, formatter, call>>
    BY <1>1, Zenon DEF Reopen, FilesInv, Free, Current, objects
  <1>3. PICK s \in Reopened(stream[b]) : stream' = [stream EXCEPT ![b] = s]
    BY <1>1, Zenon DEF Reopen, Current
  <1>4. s \in [open : BOOLEAN, good : BOOLEAN] /\ (s = stream[b] \/ Whole(b)) /\ (s.good => s.open)
    <2>1. stream[b] \in [open : BOOLEAN, good : BOOLEAN]
      BY <1>2
    <2>2. CASE stream[b].open /\ ~stream[b].good
      BY <1>3, <2>1, <2>2 DEF Reopened
    <2>3. CASE ~stream[b].open \/ stream[b].good
      <3>1. Whole(b)
        BY <1>2, <2>3 DEF FileInv
      <3>2. s \in {[open |-> TRUE, good |-> TRUE], [open |-> FALSE, good |-> FALSE]}
        BY <1>3, <2>1, <2>3 DEF Reopened
      <3>3. CASE s = [open |-> TRUE, good |-> TRUE]
        BY <3>1, <3>3
      <3>4. CASE s = [open |-> FALSE, good |-> FALSE]
        BY <3>1, <3>4
      <3> QED BY <3>2, <3>3, <3>4
    <2> QED BY <2>1, <2>2, <2>3
  <1>5. stream' \in [Appenders -> [open : BOOLEAN, good : BOOLEAN]]
    BY <1>2, <1>3, <1>4
  <1>6. FileInv(b)'
    <2>1. stream'[b] = s /\ Null \notin Threads
      BY <1>2, <1>3, LogAssumption, Zenon
    <2>2. Whole(b)' <=> Whole(b)
      BY <1>2, Zenon DEF Whole
    <2> QED BY <1>2, <1>4, <2>1, <2>2, Zenon DEF FileInv
  <1>7. ASSUME NEW a \in Appenders, a # b PROVE FileInv(a)'
    BY <1>2, <1>3, <1>7, FileStays, Zenon
  <1> QED BY <1>2, <1>5, <1>6, <1>7 DEF FilesInv

(* The lock for a line: the line before is complete.                       *)
LEMMA FormatFilesInv == ASSUME IInv, FilesInv, NEW t \in Threads, FormatLocks(t) PROVE FilesInv'
  <1>1. PICK b \in Appenders : b = call[t].appender
    BY DEF IInv, InCall, FormatLocks, Appending
  <1>2. /\ FileInv(b) /\ mutex[b] = Null /\ mutex' = [mutex EXCEPT ![b] = t]
        /\ UNCHANGED <<tail, stream, formatter>> /\ pc[t] = "format"
    BY <1>1 DEF FormatLocks, Acquire, Free, Current, FilesInv, objects, files
  <1>3. /\ mutex'[b] = t /\ \A x \in Objects \ {b} : mutex'[x] = mutex[x]
        /\ Null \notin Threads
    BY <1>2, LogAssumption DEF IInv, Types, Objects
  <1>4. call[t] \in CallOf /\ call' = [call EXCEPT ![t] = [call[t] EXCEPT !.pos = 1]]
    BY CallFacts DEF FormatLocks
  <1>5. call'[t].pos = 1 /\ \A u \in Threads \ {t} : call'[u] = call[u]
    BY <1>4 DEF CallOf, IInv, Types
  <1>6. FileInv(b)'
    <2>1. Whole(b)' <=> Whole(b)
      BY <1>2, Zenon DEF Whole
    <2>2. ASSUME NEW u \in Threads, stream[b].good, mutex'[b] = u PROVE InLine(u, b)'
      BY <1>2, <1>3, <1>5, <2>1, <2>2, Zenon DEF FileInv, InLine
    <2> QED BY <1>2, <1>3, <2>1, <2>2 DEF FileInv
  <1>7. ASSUME NEW a \in Appenders, a # b PROVE FileInv(a)'
    <2>1. mutex'[a] = mutex[a]
      BY <1>3, <1>7 DEF Objects
    <2>2. \A u \in Threads : mutex[a] = u => call'[u] = call[u]
      BY <1>2, <1>5, WriterWrites
    <2> QED BY <1>2, <2>1, <2>2, FileStays
  <1> QED BY <1>2, <1>6, <1>7 DEF FilesInv

\* What LinesAreWhole asks of a step.
Continues(a) == tail'[a] # tail[a] =>
                   \/ tail'[a].pos = 1 /\ tail[a].pos = tail[a].of
                   \/ tail'[a] = [tail[a] EXCEPT !.pos = @ + 1]

(* An item is written to a good file after the items before it of the      *)
(* same line: the formatter, and with it the number of items, stays, since *)
(* the lock of the appender is held.                                       *)
LEMMA WriteFilesInv ==
    ASSUME IInv, FormatterInv, FilesInv, NEW t \in Threads, Write(t)
    PROVE  FilesInv' /\ \A a \in Appenders : Continues(a)
  <1>1. PICK b \in Appenders, l \in Loggers : b = call[t].appender /\ l = call[t].logger
    BY DEF IInv, InCall, Write, Appending
  <1>2. PICK n \in Nat : n = LineLength(b)
    <2>2. b \in Range(appenders[l])
      BY <1>1 DEF IInv, Types, Listed, Current, Write, Appending
    <2>3. formatter[b] \in Layout
      BY <2>2 DEF FormatterInv, FormatterTypes, Objects
    <2> QED BY <2>3, ItemsAssumption DEF LineLength, Layout
  <1>3. /\ mutex[b] = t /\ UNCHANGED formatter /\ pc[t] = "write"
    BY <1>1, WriterWrites DEF Write, objects
  <1>4. LineLength(b)' = n
    BY <1>2, <1>3 DEF LineLength
  <1>5. PICK c \in CallOf : c = call[t] /\ c.pos \in Nat /\ c.event \in Nat
    BY CallFacts DEF CallOf
  <1>6. /\ stream \in [Appenders -> [open : BOOLEAN, good : BOOLEAN]]
        /\ tail \in [Appenders -> [event : Nat, pos : Nat, of : Nat]] /\ FileInv(b)
        /\ call \in [Threads -> CallOf] /\ mutex \in [Objects -> Threads \cup {Null}]
        /\ Null \notin Threads
    BY LogAssumption DEF FilesInv, IInv, Types
  <1>7. ASSUME NEW a \in Appenders, a # b, tail'[a] = tail[a], stream'[a] = stream[a],
               mutex'[a] = mutex[a], \A u \in Threads \ {t} : call'[u] = call[u]
        PROVE  FileInv(a)'
    <2>1. mutex[a] # t
      BY <1>1, <1>3, <1>7, WriterWrites, Zenon
    <2> QED BY <1>3, <1>7, <2>1, FileStays
  <1>8. CASE c.pos > n
    <2>1. /\ mutex' = [mutex EXCEPT ![b] = Null] /\ UNCHANGED <<stream, tail>>
          /\ call' = [call EXCEPT ![t].pos = 0]
      BY <1>1, <1>2, <1>5, <1>8 DEF Write, Release, Current, LineLength
    <2>2. stream[b].good => Whole(b)
      <3>1. ASSUME stream[b].good PROVE InLine(t, b)
        BY <1>3, <1>6, <3>1 DEF FileInv
      <3>2. c.pos \in 2 .. (n + 1) /\ tail[b] = [event |-> c.event, pos |-> c.pos - 1, of |-> n]
               => Whole(b)
        <4> SUFFICES ASSUME c.pos \in 2 .. (n + 1), tail[b].pos = c.pos - 1, tail[b].of = n
                     PROVE  tail[b].pos = tail[b].of
          BY DEF Whole
        <4> QED BY <1>2, <1>5, <1>8
      <3> QED BY <1>2, <1>5, <3>1, <3>2, Zenon DEF InLine
    <2>3. mutex'[b] = Null /\ \A a \in Appenders \ {b} : mutex'[a] = mutex[a]
      BY <1>6, <2>1 DEF Objects
    <2>4. FileInv(b)'
      <3>1. Whole(b)' <=> Whole(b)
        BY <2>1 DEF Whole
      <3> QED BY <1>6, <2>1, <2>2, <2>3, <3>1 DEF FileInv
    <2>5. \A a \in Appenders \ {b} : FileInv(a)'
      BY <1>6, <1>7, <2>1, <2>3
    <2> QED BY <1>6, <2>1, <2>4, <2>5 DEF FilesInv, Continues
  <1>9. CASE ~(c.pos > n)
    <2>1. UNCHANGED mutex /\ call' = [call EXCEPT ![t].pos = @ + 1]
      BY <1>1, <1>2, <1>5, <1>9 DEF Write, Current, LineLength
    <2>2. /\ \A u \in Threads \ {t} : call'[u] = call[u]
          /\ call'[t] = [c EXCEPT !.pos = @ + 1]
      BY <1>5, <1>6, <2>1
    <2>3. call'[t].pos = c.pos + 1 /\ call'[t].event = c.event
      BY <1>5, <2>2 DEF CallOf
    <2>4. CASE /\ stream[b].good /\ UNCHANGED stream
               /\ tail' = [tail EXCEPT ![b] = [event |-> c.event, pos |-> c.pos, of |-> n]]
      <3> DEFINE item == [event |-> c.event, pos |-> c.pos, of |-> n]
      <3>1. item \in [event : Nat, pos : Nat, of : Nat]
        BY <1>5, Zenon
      <3>2. InLine(t, b)
        BY <1>3, <1>6, <2>4, Zenon DEF FileInv
      <3>3. \/ c.pos = 1 /\ Whole(b)
            \/ /\ c.pos \in 2 .. (n + 1)
               /\ tail[b] = [event |-> c.event, pos |-> c.pos - 1, of |-> n]
        BY <1>2, <1>5, <3>2, Zenon DEF InLine
      <3>4. c.pos \in 1 .. n
        <4>1. PICK p \in Nat : p = c.pos
          BY <1>5
        <4>2. p = 1 \/ p \in 2 .. (n + 1)
          BY <3>3, <4>1
        <4>3. ~(p > n)
          BY <1>9, <4>1
        <4>4. p \in 1 .. n
          BY <4>2, <4>3
        <4> QED BY <4>1, <4>4
      <3>5. tail'[b] = item /\ \A a \in Appenders \ {b} : tail'[a] = tail[a]
        BY <1>6, <2>4
      <3>6. Continues(b)
        <4>1. CASE c.pos = 1 /\ Whole(b)
          BY <3>5, <4>1 DEF Continues, Whole
        <4>2. CASE tail[b] = [event |-> c.event, pos |-> c.pos - 1, of |-> n]
          <5>1. [tail[b] EXCEPT !.pos = @ + 1] = [event |-> c.event, pos |-> (c.pos - 1) + 1, of |-> n]
            BY <4>2
          <5>2. (c.pos - 1) + 1 = c.pos
            BY <1>5
          <5> QED BY <3>5, <5>1, <5>2 DEF Continues
        <4> QED BY <3>3, <4>1, <4>2
      <3>7. \A a \in Appenders : Continues(a)
        BY <3>5, <3>6 DEF Continues
      <3>8. InLine(t, b)'
        <4>1. call'[t].pos \in 2 .. (n + 1) /\ call'[t].pos - 1 = c.pos
          BY <1>5, <2>3, <3>4
        <4>2. tail'[b] = [event |-> call'[t].event, pos |-> call'[t].pos - 1, of |-> n]
          BY <2>3, <3>5, <4>1, Zenon
        <4> QED BY <1>4, <4>1, <4>2, Zenon DEF InLine
      <3>9. FileInv(b)'
        BY <1>3, <1>6, <2>1, <2>4, <3>8 DEF FileInv
      <3>10. \A a \in Appenders \ {b} : FileInv(a)'
        BY <1>7, <2>1, <2>2, <2>4, <3>5
      <3>11. tail' \in [Appenders -> [event : Nat, pos : Nat, of : Nat]]
        BY <1>6, <2>4, <3>1, Zenon
      <3> QED BY <1>6, <2>4, <3>7, <3>9, <3>10, <3>11, Zenon DEF FilesInv
    <2>5. CASE stream' = [stream EXCEPT ![b].good = FALSE] /\ UNCHANGED tail
      <3>1. PICK s \in [open : BOOLEAN, good : BOOLEAN] : s = stream[b]
        BY <1>6
      <3>2. stream' = [stream EXCEPT ![b] = [s EXCEPT !.good = FALSE]]
        BY <2>5, <3>1
      <3>3. /\ [s EXCEPT !.good = FALSE] \in [open : BOOLEAN, good : BOOLEAN]
            /\ ~[s EXCEPT !.good = FALSE].good /\ [s EXCEPT !.good = FALSE].open = s.open
        BY Zenon
      <3>4. /\ stream' \in [Appenders -> [open : BOOLEAN, good : BOOLEAN]]
            /\ ~stream'[b].good /\ stream'[b].open = stream[b].open
            /\ \A a \in Appenders \ {b} : stream'[a] = stream[a]
        BY <1>6, <3>1, <3>2, <3>3
      <3>5. FileInv(b)'
        <4>1. Whole(b)' <=> Whole(b)
          BY <2>5 DEF Whole
        <4> QED BY <1>6, <3>4, <4>1, Zenon DEF FileInv
      <3>6. \A a \in Appenders \ {b} : FileInv(a)'
        BY <1>7, <2>1, <2>2, <2>5, <3>4
      <3> QED BY <1>6, <2>5, <3>4, <3>5, <3>6 DEF FilesInv, Continues
    <2> QED BY <1>1, <1>2, <1>5, <1>9, <2>4, <2>5 DEF Write, Current, LineLength
  <1> QED BY <1>8, <1>9

(* A step of a thread that does not write: it may take or give up the lock *)
(* of a logger, and change a formatter whose lock is free.                 *)
LEMMA ElsewhereFilesInv ==
    ASSUME IInv, FormatterInv, FilesInv, NEW t \in Threads, pc[t] # "write", UNCHANGED <<tail, stream>>,
           \E c : call' = [call EXCEPT ![t] = c],
           mutex' = mutex \/ \E l \in Loggers : \E v : mutex' = [mutex EXCEPT ![l] = v],
           \/ formatter' = formatter
           \/ \E x \in Objects : \E p : mutex[x] = Null /\ formatter' = [formatter EXCEPT ![x] = p]
    PROVE  FilesInv'
  <1>1. /\ call \in [Threads -> CallOf] /\ mutex \in [Objects -> Threads \cup {Null}]
        /\ formatter \in [Objects -> Layout \cup {Null}] /\ Loggers \cap Appenders = {}
    BY LogAssumption, Zenon DEF IInv, Types, FormatterInv, FormatterTypes
  <1>2. \A u \in Threads : pc[u] = "write" => call'[u] = call[u]
    BY <1>1
  <1>3. \A a \in Appenders : mutex'[a] = mutex[a]
    BY <1>1 DEF Objects
  <1>4. \A a \in Appenders : mutex[a] # Null => formatter'[a] = formatter[a]
    BY <1>1 DEF Objects
  <1> QED BY <1>2, <1>3, <1>4, QuietFilesInv

(* Only Write writes, and whoever changes the formatter of an appender     *)
(* takes its lock.                                                         *)
LEMMA StepsFilesInv ==
    ASSUME IInv, FormatterInv, FilesInv, NEW t \in Threads, Calls(t) \/ Steps(t)
    PROVE  Write(t) \/ (UNCHANGED tail /\ FilesInv')
  <1>1. /\ call = [call EXCEPT ![t] = call[t]]
        /\ pc[t] # "idle" => call[t].logger \in Loggers
        /\ pc[t] = "give" => call[t].appender \in Appenders
    BY DEF IInv, Types, InCall
  <1>2. CASE Reopen(t)
    BY <1>2, ReopenFilesInv, Zenon DEF Reopen
  <1>3. CASE FormatLocks(t)
    BY <1>3, FormatFilesInv, Zenon DEF FormatLocks, files
  <1>4. CASE Calls(t)
    <2>1. UNCHANGED <<tail, stream, mutex>> /\ pc[t] = "idle"
      BY <1>4, Zenon DEF Calls, Log, SetFormatter, SetPattern, AddAppender, DelAppender, ClearAppenders,
                  SetOwnFormatter, SetLevel, Once, Begin, files
    <2>2. \E c : call' = [call EXCEPT ![t] = c]
      BY <1>1, <1>4, Zenon DEF Calls, Log, SetFormatter, SetPattern, AddAppender, DelAppender, ClearAppenders,
                  SetOwnFormatter, SetLevel, Once, Begin
    <2>3. \/ formatter' = formatter
          \/ \E x \in Objects : \E p : mutex[x] = Null /\ formatter' = [formatter EXCEPT ![x] = p]
      BY <1>4, Zenon DEF Calls, Log, SetFormatter, SetPattern, AddAppender, DelAppender, ClearAppenders,
                  SetOwnFormatter, SetLevel, objects, Free, Objects
    <2> QED BY <2>1, <2>2, <2>3, ElsewhereFilesInv, Zenon
  <1>5. CASE LogChecks(t) \/ LogLocks(t) \/ LogEach(t) \/ Stamp(t)
    <2>1. UNCHANGED <<tail, stream, formatter>> /\ pc[t] \in {"check", "lock", "each", "stamp"}
      BY <1>5 DEF LogChecks, LogLocks, LogEach, Stamp, objects, files
    <2>2. \E c : call' = [call EXCEPT ![t] = c]
      BY <1>1, <1>5 DEF LogChecks, LogLocks, LogEach, Stamp, Return
    <2>3. mutex' = mutex \/ \E l \in Loggers : \E v : mutex' = [mutex EXCEPT ![l] = v]
      BY <1>1, <1>5, <2>1, Zenon DEF LogChecks, LogLocks, LogEach, Stamp, Acquire, Release
    <2> QED BY <2>1, <2>2, <2>3, ElsewhereFilesInv, Zenon
  <1>6. CASE AddLocks(t) \/ AddLooks(t) \/ AddGives(t)
    <2>1. UNCHANGED <<tail, stream>> /\ pc[t] \in {"add", "look", "give"}
      BY <1>6 DEF AddLocks, AddLooks, AddGives, files
    <2>2. \E c : call' = [call EXCEPT ![t] = c]
      BY <1>1, <1>6, Zenon DEF AddLocks, AddLooks, AddGives, PushBack, Return
    <2>3. mutex' = mutex \/ \E l \in Loggers : \E v : mutex' = [mutex EXCEPT ![l] = v]
      BY <1>1, <1>6, <2>1, Zenon DEF AddLocks, AddLooks, AddGives, PushBack, Acquire, Release
    <2>4. \/ formatter' = formatter
          \/ \E x \in Objects : \E p : mutex[x] = Null /\ formatter' = [formatter EXCEPT ![x] = p]
      BY <1>1, <1>6 DEF AddLocks, AddLooks, AddGives, objects, Free, Objects
    <2> QED BY <2>1, <2>2, <2>3, <2>4, ElsewhereFilesInv, Zenon
  <1>7. CASE SetLocks(t) \/ Spread(t)
    <2>1. UNCHANGED <<tail, stream>> /\ pc[t] \in {"set", "spread"}
      BY <1>7 DEF SetLocks, Spread, files
    <2>2. \E c : call' = [call EXCEPT ![t] = c]
      BY <1>7 DEF SetLocks, Spread, Return
    <2>3. mutex' = mutex \/ \E l \in Loggers : \E v : mutex' = [mutex EXCEPT ![l] = v]
      BY <1>1, <1>7, <2>1, Zenon DEF SetLocks, Spread, Acquire, Release
    <2>4. \/ formatter' = formatter
          \/ \E x \in Objects : \E p : mutex[x] = Null /\ formatter' = [formatter EXCEPT ![x] = p]
      <3>1. CASE SetLocks(t)
        BY <1>1, <3>1, Zenon DEF SetLocks, Acquire, Free, Objects
      <3>2. CASE Spread(t) /\ call[t].index > Len(appenders[call[t].logger])
        BY <3>2 DEF Spread
      <3>3. CASE Spread(t) /\ ~(call[t].index > Len(appenders[call[t].logger]))
        <4>1. /\ appenders[call[t].logger] \in Seq(Appenders) /\ call[t].index \in Nat
              /\ call[t].index > 0
          BY <1>1, <3>3, CallFacts DEF IInv, InCall, Spread
        <4>2. appenders[call[t].logger][call[t].index] \in Appenders
          <5>1. PICK s \in Seq(Appenders), i \in Nat : s = appenders[call[t].logger] /\ i = call[t].index
            BY <4>1
          <5>2. i > 0 /\ ~(i > Len(s)) /\ Len(s) \in Nat
            BY <3>3, <4>1, <5>1
          <5>3. i \in 1 .. Len(s)
            BY <5>2
          <5>4. s[i] \in Appenders
            BY <5>3
          <5> QED BY <5>1, <5>4
        <4> QED BY <3>3, <4>2, Zenon DEF Spread, Free, Objects
      <3> QED BY <1>7, <3>1, <3>2, <3>3, Zenon
    <2> QED BY <2>1, <2>2, <2>3, <2>4, ElsewhereFilesInv, Zenon
  <1> QED BY <1>2, <1>3, <1>4, <1>5, <1>6, <1>7 DEF Steps

(* A line is written to the file of an appender in one piece, whatever     *)
(* threads log to it through whatever loggers, and whatever formatters are *)
(* set meanwhile; a file that failed in the middle of a line gets no more  *)
(* items, and one that is closed and opened again was not in a line.       *)
THEOREM LogLinesAreWhole == Spec => LinesAreWhole
  <1>1. ASSUME IInv, FormatterInv, FilesInv, [Next]_vars
        PROVE  FilesInv' /\ \A a \in Appenders : Continues(a)
    <2>1. CASE UNCHANGED <<tail, stream, mutex, formatter, call>>
      <3>1. FilesInv'
        BY <2>1, QuietFilesInv, <1>1
      <3> QED BY <2>1, <3>1 DEF Continues
    <2>2. TimePasses \/ Done \/ UNCHANGED vars => UNCHANGED <<tail, stream, mutex, formatter, call>>
      BY DEF TimePasses, Done, vars, objects, files
    <2>3. ASSUME NEW t \in Threads, Calls(t) \/ Steps(t)
          PROVE  FilesInv' /\ \A a \in Appenders : Continues(a)
      <3>1. CASE Write(t)
        BY <1>1, <3>1, WriteFilesInv
      <3>2. CASE UNCHANGED tail /\ FilesInv'
        BY <3>2 DEF Continues
      <3> QED BY <1>1, <2>3, <3>1, <3>2, StepsFilesInv
    <2> QED BY <1>1, <2>1, <2>2, <2>3 DEF Next
  <1>2. Spec => []FilesInv
    BY <1>1, InitFilesInv, LogInvariant, LogFormatters, PTL DEF Spec
  <1>3. ASSUME IInv, FormatterInv, FilesInv, [Next]_vars
        PROVE  [\A a \in Appenders : tail'[a] # tail[a] =>
                  \/ tail'[a].pos = 1 /\ tail[a].pos = tail[a].of
                  \/ tail'[a] = [tail[a] EXCEPT !.pos = @ + 1]]_vars
    BY <1>1, <1>3 DEF Continues
  <1> QED BY <1>2, <1>3, LogInvariant, LogFormatters, PTL DEF Spec, LinesAreWhole
=============================================================================
