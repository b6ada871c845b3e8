CONSTANTS
    Conns = {c1, c2}
    Fds = {7, 8}
    ThreadNums = 2
    Requests = {"keep", "close"}
    Nobody = Nobody
SYMMETRY Symmetry
SPECIFICATION Spec
INVARIANTS NoEventAfterClose 
CHECK_DEADLOCK FALSE
