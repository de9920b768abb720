SPECIFICATION Spec
CONSTANTS
    Digits <- MCDigits
    CorrectPin <- MCShortPin
    PinLength = 1
    Amount = 2
    InitialBalance = 3
    MaxKeys = 4
    MaxTypeAhead = 2
INVARIANT
    NoChargeForCancelled
