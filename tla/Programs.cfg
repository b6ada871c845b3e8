CONSTANTS
    NUMS = 5
    ThreadNums = 3
    Null = Null
    Garbage = Garbage
    Slots = 3
    MaxConsumed = 7
    Clients = {c1, c2}
    Nobody = Nobody
    MaxLines = 3
    Base = 16
    Size = 64
    Extra = 64
    BUFSIZE = 70
    MaxSegments = 3
    MaxSec = 3
    Times = 3
SPECIFICATION ProgramsSpec
INVARIANTS NeighboursDoNotEat NoForksIdle StartReturnsItsLoop ChatInOrder RecordsAreRight
PROPERTIES HandedOver CallsReturn
CHECK_DEADLOCK FALSE
