SPECIFICATION Spec
CONSTANTS
    Digits <- MCDigits
    CorrectPin <- MCShortPin
    PinLength = 1
    Amount = 2
    InitialBalance = 3
    MaxKeys = 7
    MaxTypeAhead = 2
INVARIANTS
    TypeOK
    CashBacked
    AuthBacked
    AnswerOnItsWay
    NoLostWakeup
PROPERTY
    LedgerKept
