SPECIFICATION Spec
CONSTANTS
    MaxPageNum = 5
    Names = {t1, t2}
    Values = {a, b}
    Free = Free
    RecordLength = 4000
    MaxTableCount = 2
SYMMETRY Symmetry
CONSTRAINT Undamaged
INVARIANTS
    TypeOK
    DirectoryMatches
    ChainsWellFormed
    
    LookupMatchesScan
PROPERTY
    ImplementsRecordStore
CHECK_DEADLOCK FALSE
