CONSTANTS
    Workers = {w1, w2}
    Producers = {p1, p2}
    Tasks = {t1, t2, t3, t4}
    Limits = {0, 2}
    DefaultLimit = 1
    CreateMayFail = TRUE
    Nobody = Nobody
    NoTask = NoTask
SPECIFICATION FairSpec
INVARIANTS
    NoLostWakeup
PROPERTIES
    StopCompletes
    AddTaskReturnsWhileOpen
    ImplementsFifoTasks
CHECK_DEADLOCK FALSE
