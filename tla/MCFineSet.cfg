SPECIFICATION FairSpec
CONSTANTS
    Adders = {a1, a2}
    Removers = {r1, r2}
    Times = 1
    Keys = {1, 2}
    MinKey = 0
    MaxKey = 3
    Address = {n1, n2}
    Head = head
    Tail = tail
    Free = free
    None = none
INVARIANTS HandOverHand DeletedAlone
PROPERTIES IsSet
PROPERTIES AllThreadsJoin
