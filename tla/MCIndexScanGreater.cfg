SPECIFICATION Spec
CONSTANTS
    MaxPageNum = 11
    Data = {0, 1, 2, 3}
    MaxRid = 3
    LeafCapacity = 4
    InnerCapacity = 4
INVARIANT
    GreaterScansCorrect
