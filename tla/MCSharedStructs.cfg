CONSTANTS
    Elem = {a, b, c}
    MaxElems = 3
    Null = null
    Items = {1, 2, 3, 4, 5, 6}
    Key <- MCKey
    Nothing = 0
    Pointers = {1, 2, 3, 4}
    Hash <- MCHash
    NoPtr = 0
    EMPTY = empty
    DELETED = deleted
    InitialNumElems = 4
    MaxNumElems = 8
    MaxUnion = 2
    MaxConsts = 0
    PackShaders <- BehindStructs
    AlignShaders <- NoShaders
SPECIFICATION SharedSpec
INVARIANT ElementsDisjoint
