SPECIFICATION Spec
CONSTANTS
    MaxPageNum = 11
    Data = {0, 1, 2, 3, 4}
    MaxRid = 3
    LeafCapacity = 6
    InnerCapacity = 4
VIEW Shape
INVARIANTS
    TypeOK
    TreeWellFormed
    FillGuaranteed
    EqualScanCorrect
    LessScansCorrect
    ContainsDataCorrect
PROPERTY
    ImplementsIndexSet
