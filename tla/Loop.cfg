CONSTANTS
    Callers = {c1, c2}
    Tasks = {t1, t2, t3}
    Fds = {f1, f2}
    WakeupFd = WakeupFd
    InitEvents = 2
    None = None
SPECIFICATION FairSpec
INVARIANTS
    NoLostWakeup
PROPERTIES
    ExitEndsLoop
    ImplementsFifoTasks
CHECK_DEADLOCK FALSE
