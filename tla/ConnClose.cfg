CONSTANTS
    Conns = {c1, c2}
    Fds = {7, 8}
    ThreadNums = 1
    Requests = {"close"}
    Nobody = Nobody
SPECIFICATION FairSpec
PROPERTIES AcceptedIsEstablished ReplyThenClose
CHECK_DEADLOCK FALSE
