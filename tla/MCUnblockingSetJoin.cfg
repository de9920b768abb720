SPECIFICATION FairSpec
CONSTANTS
    Adders = {a1, a2}
    Removers = {r1, r2}
    Times = 1
    Keys = {1, 2}
    MinKey = 0
    MaxKey = 3
    MaxNode = 2
    None = none
PROPERTIES AllThreadsJoin
