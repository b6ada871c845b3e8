SPECIFICATION ServerSpec
CONSTANTS
    Timers = {t1, t2, t3}
    Capacity = 3
    Delays = {1}
    MaxTime = 3
    Null = Null
INVARIANTS HeapOrder
CHECK_DEADLOCK FALSE
