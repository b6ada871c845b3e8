CONSTANTS
    Requests <- AllRequests
    MaxRequests = 2
    MaxAnswers = 3
SPECIFICATION FairSpec
INVARIANTS
    AnswersAreRight
    AnsweredThenClosed
    ReceivedIntact
PROPERTIES
    OnMessageReturns
CHECK_DEADLOCK FALSE
