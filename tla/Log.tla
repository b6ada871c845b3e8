-------------------------------- MODULE Log --------------------------------
(***************************************************************************)
(* The logging library of http_server/Log.cpp: loggers, each with a level, *)
(* a formatter and a list of appenders, used by several threads at once.   *)
(*                                                                         *)
(* A logger's m_mutex guards its formatter and its list, an appender's     *)
(* m_mutex its formatter and its file stream; levels and m_lastTime are    *)
(* read and written under no lock of their own.  A formatter is the        *)
(* pattern it was built from.                                              *)
(***************************************************************************)
EXTENDS Integers, Sequences, Functions

CONSTANTS Threads, Loggers, Appenders,
          Patterns,       \* the patterns callers hand to setFormatter
          Default,        \* the pattern of the Logger constructor
          m_items,        \* m_items[p]: the items of a formatter built from the pattern p
          m_error,        \* m_error[p]: whether p has been rejected
          Levels,         \* the levels in use
          Times,          \* the seconds time(0) may return
          MaxCalls,       \* bound: calls made in one behaviour
          Null

ASSUME LogAssumption == /\ Levels \subseteq 1 .. 5 /\ 1 \in Levels
                        /\ Times \subseteq Nat /\ Times # {}
                        /\ MaxCalls \in Nat
                        /\ Null \notin Threads \cup Patterns \cup {Default}
                        /\ Null \notin Loggers \cup Appenders
                        /\ Loggers \cap Appenders = {}

ASSUME ItemsAssumption == \A p \in Patterns \cup {Default} : Len(m_items[p]) \in Nat

VARIABLES
    level,        \* level[x]: m_level of a logger or an appender
    formatter,    \* formatter[x]: m_formatter
    hasFormatter, \* hasFormatter[a]: m_hasFormatter
    appenders,    \* appenders[l]: m_appenders
    mutex,        \* mutex[x]: the thread that holds m_mutex
    lastTime,     \* lastTime[a]: m_lastTime
    stream,       \* stream[a]: whether m_filestream is open, and whether it is good()
    tail,         \* tail[a]: the last item written to the file, as [event, pos, of]
    clock,
    pc, call,     \* the point each thread has reached, and the arguments and locals of its call
    calls,        \* number of calls made so far
    removed       \* history: the appenders ever taken off a list

objects == <<level, formatter, hasFormatter, appenders>>
files   == <<lastTime, stream, tail>>
vars    == <<objects, mutex, files, clock, pc, call, calls, removed>>

NoCall  == [logger |-> Null, appender |-> Null, value |-> Null, event |-> 0, time |-> 0, level |-> 0,
            index |-> 0, pos |-> 0]
NoItem  == [event |-> 0, pos |-> 0, of |-> 0]

\* The loggers of LoggerManager() have a FileLogAppender each, which has been given the formatter of the
\* logger; other loggers and appenders are new.  Whether the constructor of a FileLogAppender could open
\* its file makes no difference: m_lastTime is 0, so the first line reopens it.
Init ==
    /\ level = [x \in Loggers \cup Appenders |-> 1]
    /\ \E managed \in SUBSET Loggers : \E own \in Injection(managed, Appenders) :
         /\ appenders = [l \in Loggers |-> IF l \in managed THEN <<own[l]>> ELSE <<>>]
         /\ formatter = [x \in Loggers \cup Appenders |->
                            IF x \in Loggers \cup Range(own) THEN Default ELSE Null]
    /\ hasFormatter = [a \in Appenders |-> FALSE]
    /\ mutex = [x \in Loggers \cup Appenders |-> Null]
    /\ lastTime = [a \in Appenders |-> 0]
    /\ stream = [a \in Appenders |-> [open |-> TRUE, good |-> TRUE]]
    /\ tail = [a \in Appenders |-> NoItem]
    /\ clock \in Times
    /\ pc = [t \in Threads |-> "idle"]
    /\ call = [t \in Threads |-> NoCall]
    /\ calls = 0
    /\ removed = {}

Free(x)      == mutex[x] = Null
Acquire(t, x) == Free(x) /\ mutex' = [mutex EXCEPT ![x] = t]
Release(x)   == mutex' = [mutex EXCEPT ![x] = Null]
Goto(t, p)   == pc' = [pc EXCEPT ![t] = p]

\* A call that begins at p with the locals c.
Begin(t, p, c) == /\ pc[t] = "idle" /\ calls < MaxCalls
                  /\ calls' = calls + 1
                  /\ Goto(t, p)
                  /\ call' = [call EXCEPT ![t] = c]

Return(t) == Goto(t, "idle") /\ call' = [call EXCEPT ![t] = NoCall]

\* A call that is over in one step, under no lock.
Once(t) == pc[t] = "idle" /\ calls < MaxCalls /\ calls' = calls + 1 /\ UNCHANGED <<pc, call>>

(***************************************************************************)
(* SONE_LOG_LEVEL and Logger::log.                                         *)
(***************************************************************************)

\* SONE_LOG_LEVEL: the level is looked at, the event is made with time(0).
Log(t, l, lvl) ==
    /\ level[l] <= lvl
    /\ Begin(t, "check", [NoCall EXCEPT !.logger = l, !.level = lvl, !.event = calls + 1, !.time = clock])
    /\ UNCHANGED <<objects, mutex, files, clock, removed>>

\* ~LogEventWrap calls Logger::log, which looks at the level again before it takes the lock.
LogChecks(t) ==
    /\ pc[t] = "check"
    /\ IF call[t].level >= level[call[t].logger] THEN Goto(t, "lock") /\ UNCHANGED call ELSE Return(t)
    /\ UNCHANGED <<objects, mutex, files, clock, calls, removed>>

\* Variant: the list is walked without the lock of the logger.
WalksUnlocked(t) ==
    /\ pc[t] = "lock"
    /\ Goto(t, "each")
    /\ call' = [call EXCEPT ![t].index = 1]
    /\ UNCHANGED <<objects, mutex, files, clock, calls, removed>>

LogLocks(t) ==
    /\ pc[t] = "lock"
    /\ Acquire(t, call[t].logger)
    /\ Goto(t, "each")
    /\ call' = [call EXCEPT ![t].index = 1]
    /\ UNCHANGED <<objects, files, clock, calls, removed>>

\* The appender the loop of Logger::log has reached.
Current(t) == call[t].appender

\* Whether an event of that time has the file of a reopened.
Reopens(a, time) == time >= lastTime[a] + 3

\* FileLogAppender::log up to its lock: the level, and whether the file is to be reopened.  When the
\* list is at its end (m_root is never set) the lock is released and log returns.
LogEach(t) ==
    LET l == call[t].logger
        i == call[t].index
        a == appenders[l][i]
    IN  /\ pc[t] = "each"
        /\ IF i > Len(appenders[l])
             THEN Return(t) /\ Release(l)
           ELSE /\ call' = [call EXCEPT ![t].index = i + 1, ![t].appender = a]
                /\ IF call[t].level < level[a] THEN UNCHANGED pc
                   ELSE Goto(t, IF Reopens(a, call[t].time) THEN "reopen" ELSE "format")
                /\ UNCHANGED mutex
        /\ UNCHANGED <<objects, files, clock, calls, removed>>

\* FileLogAppender::reopen on stream s, where open() may fail.  A stream that is not good is not
\* closed, and open() on one that is still open fails.
Reopened(s) ==
    IF s.open /\ ~s.good THEN {s}
    ELSE {[open |-> TRUE, good |-> TRUE], [open |-> FALSE, good |-> FALSE]}

\* reopen takes and releases the lock of the appender.
Reopen(t) ==
    LET a == Current(t)
    IN  /\ pc[t] = "reopen"
        /\ Free(a)
        /\ \E s \in Reopened(stream[a]) : stream' = [stream EXCEPT ![a] = s]
        /\ Goto(t, "stamp")
        /\ UNCHANGED <<objects, mutex, lastTime, tail, clock, call, calls, removed>>

Stamp(t) ==
    /\ pc[t] = "stamp"
    /\ lastTime' = [lastTime EXCEPT ![Current(t)] = call[t].time]
    /\ Goto(t, "format")
    /\ UNCHANGED <<objects, mutex, stream, tail, clock, call, calls, removed>>

\* Variant: FileLogAppender::log formats without the lock.
FormatsUnlocked(t) ==
    /\ pc[t] = "format"
    /\ Goto(t, "write")
    /\ call' = [call EXCEPT ![t].pos = 1]
    /\ UNCHANGED <<objects, mutex, files, clock, calls, removed>>

FormatLocks(t) ==
    /\ pc[t] = "format"
    /\ Acquire(t, Current(t))
    /\ Goto(t, "write")
    /\ call' = [call EXCEPT ![t].pos = 1]
    /\ UNCHANGED <<objects, files, clock, calls, removed>>

\* LogFormatter::format writes one item after the other.  A write to a stream that is not good does
\* nothing, and a write may fail and leave the stream not good.  After the last item the lock is
\* released.
Write(t) ==
    LET a == Current(t)
        n == Len(m_items[formatter[a]])
    IN  /\ pc[t] = "write"
        /\ IF call[t].pos > n
             THEN /\ Goto(t, "each")
                  /\ call' = [call EXCEPT ![t].pos = 0]
                  /\ Release(a)
                  /\ UNCHANGED <<stream, tail>>
             ELSE /\ call' = [call EXCEPT ![t].pos = @ + 1]
                  /\ \/ /\ stream[a].good
                        /\ tail' = [tail EXCEPT ![a] = [event |-> call[t].event, pos |-> call[t].pos, of |-> n]]
                        /\ UNCHANGED stream
                     \/ /\ stream' = [stream EXCEPT ![a].good = FALSE]
                        /\ UNCHANGED tail
                  /\ UNCHANGED <<pc, mutex>>
        /\ UNCHANGED <<objects, lastTime, clock, calls, removed>>

(***************************************************************************)
(* Logger::setFormatter, from a formatter or from a pattern.               *)
(***************************************************************************)

SetFormatter(t, l, p) ==
    /\ Begin(t, "set", [NoCall EXCEPT !.logger = l, !.value = p])
    /\ UNCHANGED <<objects, mutex, files, clock, removed>>

\* The formatter of a pattern that does not parse is dropped.
SetPattern(t, l, p) ==
    /\ IF m_error[p] THEN Once(t) ELSE Begin(t, "set", [NoCall EXCEPT !.logger = l, !.value = p])
    /\ UNCHANGED <<objects, mutex, files, clock, removed>>

SetLocks(t) ==
    LET l == call[t].logger
    IN  /\ pc[t] = "set"
        /\ Acquire(t, l)
        /\ formatter' = [formatter EXCEPT ![l] = call[t].value]
        /\ Goto(t, "spread")
        /\ call' = [call EXCEPT ![t].index = 1]
        /\ UNCHANGED <<level, hasFormatter, appenders, files, clock, calls, removed>>

\* Variant: only an appender that has no formatter at all is given the new one.
InheritsOnce(a, p) == IF formatter[a] # Null THEN formatter[a] ELSE p

\* The formatter an appender of the logger has once the loop has passed it.
Inherited(a, p) == IF hasFormatter[a] THEN formatter[a] ELSE p

Spread(t) ==
    LET l == call[t].logger
        a == appenders[l][call[t].index]
    IN  /\ pc[t] = "spread"
        /\ IF call[t].index > Len(appenders[l])
             THEN Return(t) /\ Release(l) /\ UNCHANGED formatter
             ELSE /\ Free(a)
                  /\ formatter' = [formatter EXCEPT ![a] = Inherited(a, call[t].value)]
                  /\ call' = [call EXCEPT ![t].index = @ + 1]
                  /\ UNCHANGED <<pc, mutex>>
        /\ UNCHANGED <<level, hasFormatter, appenders, files, clock, calls, removed>>

(***************************************************************************)
(* The list of appenders.                                                  *)
(***************************************************************************)

AddAppender(t, l, a) ==
    /\ Begin(t, "add", [NoCall EXCEPT !.logger = l, !.appender = a])
    /\ UNCHANGED <<objects, mutex, files, clock, removed>>

\* Variant: addAppender also takes the lock of the appender before it calls getFormatter.
LocksBoth(t) ==
    /\ pc[t] = "add"
    /\ Free(call[t].logger) /\ Free(call[t].appender)
    /\ mutex' = [mutex EXCEPT ![call[t].logger] = t, ![call[t].appender] = t]
    /\ Goto(t, "look")
    /\ UNCHANGED <<objects, files, clock, call, calls, removed>>

AddLocks(t) ==
    /\ pc[t] = "add"
    /\ Acquire(t, call[t].logger)
    /\ Goto(t, "look")
    /\ UNCHANGED <<objects, files, clock, call, calls, removed>>

PushBack(t) ==
    /\ appenders' = [appenders EXCEPT ![call[t].logger] = Append(@, call[t].appender)]
    /\ Release(call[t].logger)
    /\ Return(t)

\* getFormatter, under the lock of the appender, which is given up again.
AddLooks(t) ==
    /\ pc[t] = "look"
    /\ Free(call[t].appender)
    /\ IF formatter[call[t].appender] = Null
         THEN Goto(t, "give") /\ UNCHANGED <<appenders, mutex, call>>
         ELSE PushBack(t)
    /\ UNCHANGED <<level, formatter, hasFormatter, files, clock, calls, removed>>

AddGives(t) ==
    /\ pc[t] = "give"
    /\ Free(call[t].appender)
    /\ formatter' = [formatter EXCEPT ![call[t].appender] = formatter[call[t].logger]]
    /\ PushBack(t)
    /\ UNCHANGED <<level, hasFormatter, files, clock, calls, removed>>

\* The calls below do all they do under one lock, or under none, and are one step each.

\* erase() of the element at i.
Erase(s, i) == SubSeq(s, 1, i - 1) \o SubSeq(s, i + 1, Len(s))

DelAppender(t, l, a) ==
    /\ Once(t) /\ Free(l)
    /\ \E i \in DOMAIN appenders[l] :
         /\ appenders[l][i] = a
         /\ \A j \in 1 .. i - 1 : appenders[l][j] # a
         /\ appenders' = [appenders EXCEPT ![l] = Erase(@, i)]
    /\ removed' = removed \cup {a}
    /\ UNCHANGED <<level, formatter, hasFormatter, mutex, files, clock>>

ClearAppenders(t, l) ==
    /\ Once(t) /\ Free(l)
    /\ appenders' = [appenders EXCEPT ![l] = <<>>]
    /\ removed' = removed \cup Range(appenders[l])
    /\ UNCHANGED <<level, formatter, hasFormatter, mutex, files, clock>>

\* LogAppender::setFormatter; callers hand over a formatter, never a null pointer.
SetOwnFormatter(t, a, p) ==
    /\ Once(t) /\ Free(a)
    /\ formatter' = [formatter EXCEPT ![a] = p]
    /\ hasFormatter' = [hasFormatter EXCEPT ![a] = p # Null]
    /\ UNCHANGED <<level, appenders, mutex, files, clock, removed>>

SetLevel(t, x, v) ==
    /\ Once(t)
    /\ level' = [level EXCEPT ![x] = v]
    /\ UNCHANGED <<formatter, hasFormatter, appenders, mutex, files, clock, removed>>

TimePasses ==
    /\ \E now \in Times : now > clock /\ clock' = now
    /\ UNCHANGED <<objects, mutex, files, pc, call, calls, removed>>

\* Every call has been made and has returned.
Done == calls = MaxCalls /\ (\A t \in Threads : pc[t] = "idle") /\ UNCHANGED vars

Calls(t) ==
    \/ \E l \in Loggers, v \in Levels : Log(t, l, v)
    \/ \E l \in Loggers, p \in Patterns : SetFormatter(t, l, p) \/ SetPattern(t, l, p)
    \/ \E l \in Loggers, a \in Appenders : AddAppender(t, l, a) \/ DelAppender(t, l, a)
    \/ \E l \in Loggers : ClearAppenders(t, l)
    \/ \E a \in Appenders, p \in Patterns : SetOwnFormatter(t, a, p)
    \/ \E x \in Loggers \cup Appenders, v \in Levels : SetLevel(t, x, v)

Steps(t) ==
    \/ LogChecks(t) \/ LogLocks(t) \/ LogEach(t) \/ Reopen(t) \/ Stamp(t) \/ FormatLocks(t) \/ Write(t)
    \/ SetLocks(t) \/ Spread(t)
    \/ AddLocks(t) \/ AddLooks(t) \/ AddGives(t)

Next == (\E t \in Threads : Calls(t) \/ Steps(t)) \/ TimePasses \/ Done

Spec == Init /\ [][Next]_vars

(***************************************************************************)
(* Properties.                                                             *)
(***************************************************************************)

Layout == Patterns \cup {Default}

\* The points at which a thread holds the lock of its logger, and of its appender.
HoldsLogger(t)   == pc[t] \in {"each", "reopen", "stamp", "format", "write", "spread", "look", "give"}
HoldsAppender(t) == pc[t] = "write"

\* Every variable has its type, and a mutex is held exactly by the thread whose point in the code
\* holds it: the ScopedLocks of Log.cpp.
TypeOK ==
    /\ level \in [Loggers \cup Appenders -> Levels]
    /\ formatter \in [Loggers \cup Appenders -> Layout \cup {Null}]
    /\ \A l \in Loggers : formatter[l] # Null
    /\ hasFormatter \in [Appenders -> BOOLEAN]
    /\ \A l \in Loggers : appenders[l] \in Seq(Appenders)
    /\ \A l \in Loggers, t \in Threads : (mutex[l] = t) = (HoldsLogger(t) /\ call[t].logger = l)
    /\ \A a \in Appenders, t \in Threads : (mutex[a] = t) = (HoldsAppender(t) /\ call[t].appender = a)
    /\ stream \in [Appenders -> [open : BOOLEAN, good : BOOLEAN]]
    /\ \A a \in Appenders : stream[a].good => stream[a].open

\* A line is written to the file of an appender in one piece: an item either begins a line where the
\* last line is complete or follows the item before it of the same event.  (FileLogAppender::log)
LinesAreWhole ==
    [][\A a \in Appenders : tail'[a] # tail[a] =>
          \/ tail'[a].pos = 1 /\ tail[a].pos = tail[a].of
          \/ tail'[a] = [tail[a] EXCEPT !.pos = @ + 1]]_vars

\* An appender that a thread is writing to for a logger is on the list of that logger: after
\* delAppender or clearAppenders has returned nothing more is written to it.
RemovedIsNotWritten ==
    \A t \in Threads : pc[t] \in {"reopen", "stamp", "format", "write"} =>
        Current(t) \in Range(appenders[call[t].logger])

\* The only logger an appender has ever been given to.
OnlyUsedBy(a, l) ==
    a \notin removed /\ \A k \in Loggers : k = l <=> a \in Range(appenders[k])

\* An appender without a formatter of its own, on the list of one logger and never taken off one, has
\* the formatter of the logger whenever nobody holds the logger's lock.  (Logger::setFormatter, addAppender)
FollowsLogger ==
    \A l \in Loggers, a \in Appenders :
        (Free(l) /\ OnlyUsedBy(a, l) /\ ~hasFormatter[a]) => formatter[a] = formatter[l]

\* The lock a thread is waiting for.
Wants(t) ==
    CASE pc[t] \in {"lock", "set", "add"} -> call[t].logger
      [] pc[t] \in {"reopen", "format", "look", "give"} -> Current(t)
      [] pc[t] = "spread" /\ call[t].index <= Len(appenders[call[t].logger])
           -> appenders[call[t].logger][call[t].index]
      [] OTHER -> Null

WaitsFor(t) == IF Wants(t) = Null THEN Null ELSE mutex[Wants(t)]

\* No threads wait for each other in a circle, or for themselves: loggers are locked before appenders,
\* and no lock is taken by a thread that has it.
NoCircularWait ==
    \A S \in (SUBSET Threads) \ {{}} : \E t \in S : WaitsFor(t) \notin S
=============================================================================
