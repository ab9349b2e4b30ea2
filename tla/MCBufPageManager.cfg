SPECIFICATION Spec
CONSTANTS
    Files = {1}
    Pages = {0, 1, 2}
    Contents = {a, b}
    Absent = Absent
    Cap = 2
    Mod = 2
SYMMETRY Symmetry
INVARIANTS
    TypeOK
    OneFramePerPage
    LookupFindsBound
    
    FreeFramesFirst
PROPERTIES
    CloseSavesAll
    ImplementsPageStore
