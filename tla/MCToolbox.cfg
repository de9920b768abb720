SPECIFICATION Spec
CONSTANTS
    MaxChunkSize = 2
    Null = Null
    Quote <- MCQuote
    Adders = 3
    Cells = 3
    LruKey = {ka, kb, kc}
    Seconds = 2
    Sets = 4
    WayNums <- MCWayNums
    WordBits = 8
    Args = 3
    TooLong = {2}
    MaxDuplicates = 2
    SetThreads = {t1, t2}
    SetKeys = {1, 2}
    SetTimes = 2
    SetMin = 0
    SetMax = 9
    NoOne = NoOne
    TableThreads = {t1, t2}
    TableKeys = {0, 1, 2}
    TableValues = {v1, v2}
    Buckets = 2
    TableTimes = 2
    Free = Free
INVARIANTS
    SortsAgree
    ExercisesAgree
    AssertsHold
    VictimIsOther
    EchoAnswers
PROPERTIES
    RetiresOldest
    CoarseIsSet
    TableIsMap
    LatchAlwaysOpens
    EchoAlwaysEnds
