SPECIFICATION FairSpec
CONSTANTS
    Producers = {p1}
    Consumers = {c1}
    Times = 3
    MaxNode = 3
    Null = Null
    Free = Free
PROPERTY
    AllThreadsJoin
