SPECIFICATION FairSpec
CONSTANTS
    Elem <- MCElem
    Less <- MCLess
    Main = main
    Workers = {w1, w2, w3, w4}
    Given <- MCGiven
    UintSize = 8
    None = none
INVARIANTS ChunkAlive SortsInput
PROPERTIES SortEnds
