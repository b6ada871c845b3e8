CONSTANTS
    Threads = {t1, t2}
    Files = {f1, f2, f3}
    Mutable = {f1}
    Capacity = 2
    Times <- TwoSeconds
    Sizes = {1, 2}
    MaxAllocs = 4
    Null = Null
SYMMETRY Symmetry
SPECIFICATION Spec
INVARIANTS
    MapMatchesList
    BuffersAreOwned
    StaleIsDetected
    ServedIsNotOld
CHECK_DEADLOCK FALSE
