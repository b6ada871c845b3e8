SPECIFICATION FairSpec
CONSTANTS
    Conns = {c1, c2}
    Fds = {7, 8}
    ThreadNums = 1
    Requests = {"keep"}
    Nobody = Nobody
PROPERTIES FunctorsAreProcessed
CHECK_DEADLOCK FALSE
