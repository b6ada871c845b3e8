CONSTANTS
    Letters = {"m", "q"}
    Others = {" "}
    Known = {"m"}
    MaxPattern = 4
    Threads = {t1, t2}
    Loggers = {root, trace}
    Appenders = {a1, a2}
    Patterns <- MCPatterns
    Default <- MCDefault
    m_items <- MCItems
    m_error <- MCError
    Levels = {1, 4}
    Times = {3, 6}
    MaxCalls = 3
    Null = Null
SPECIFICATION Spec
SYMMETRY Symmetry
INVARIANTS RemovedIsNotWritten  NoCircularWait PatternsAreParsed
PROPERTIES LinesAreWhole
