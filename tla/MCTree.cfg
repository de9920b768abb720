SPECIFICATION TreeSpec
CONSTANTS
    Item <- MCItem
    KeyOf <- MCKeyOf
    NoNode = 0
    Garbage = 99
INVARIANTS IsRedBlackTree IteratorVisitsAll
PROPERTIES IsBag
