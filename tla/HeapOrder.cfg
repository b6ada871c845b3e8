SPECIFICATION Spec
CONSTANTS
    Timers = {t1, t2, t3, t4, t5}
    Capacity = 4
    Delays = {0, 1, 2, 3}
    MaxTime = 3
    Null = Null
SYMMETRY Symmetry
INVARIANTS HeapOrder TimersInOnePlace 
CHECK_DEADLOCK FALSE
