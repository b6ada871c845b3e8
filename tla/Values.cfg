CONSTANTS
    Size = 4
    Extra = 3
    Lengths = {1, 2, 4}
    MaxBytes = 9
    DEFAULT_SIZE = 2
    MaxSize = 5
    Numbers = {1, 2, 3}
    MaxNodes = 4
    Treed = {1, 2, 3, 4, 5}
    MaxLen = 4
    Keys = {1, 2, 3, 4}
    CachedValues = {1, 2}
    CacheSize = 3
    Chars = {0, 37, 48, 65, 175}
    MaxText = 2
    Names = {"Date", "Expires", "X-Other"}
    Params = {"k"}
    Cases = {"capitals", "small"}
    Strings = {"u", "v"}
    Bytes = {0, 77, 130, 255}
    MaxInput = 5
SPECIFICATION Spec
INVARIANTS BufferIsQueue VectorIsSequence LinksAreRight  AlgorithmsAreRight
PROPERTIES ImplementsRecentCache
CHECK_DEADLOCK FALSE
