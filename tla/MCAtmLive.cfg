SPECIFICATION FairSpec
CONSTANTS
    Digits <- MCDigits
    CorrectPin <- MCLongPin
    PinLength = 2
    Amount = 2
    InitialBalance = 3
    MaxKeys = 5
    MaxTypeAhead = 1
PROPERTIES
    ShutdownCompletes
    AnswersArrive
    LastCancelEjects
