SPECIFICATION Spec
CONSTANTS
    Names     = {a, b}
    a = a
    b = b
    MaxRows   = 2
    Contents  <- MCContents
    Hole      = Hole
    NoFile    = NoFile
    Closed    = Closed
    WordBits  = 2
    MaxFiles  = 4
    MaxLeaks  = 2
    None      = None
    NotCached = NotCached
    Fresh     = Fresh
INVARIANTS
    TypeOK
    OpenFilesAccounted
    CacheIsCurrent
PROPERTIES
    ImplementsDatabaseSet
    DropRestores
