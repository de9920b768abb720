SPECIFICATION FairSpec
CONSTANTS
    Producers = {p1, p2}
    Consumers = {c1, c2}
    Times = 2
    MaxNode = 4
    Null = Null
    Free = Free
INVARIANTS
    Linked
    PopFindsNode
PROPERTIES
    IsFifo
    ProducersFinish
