SPECIFICATION Spec
CONSTANTS
    Users = {u1, u2, u3}
    Owner = owner
    Times = 2
    Address = {n1, n2}
    CountLimit = 7
    EarlierPops = 6
    MaxRefs = 4
    Null = null
    None = none
    Empty = empty
INVARIANTS NoUseAfterFree CountsHolders DeletedOnce
PROPERTIES IsLifo
SYMMETRY Symmetry
