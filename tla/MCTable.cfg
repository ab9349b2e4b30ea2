SPECIFICATION Spec
CONSTANTS
    Tables = {"people", "borrow"}
    Schema <- Keys
    Data = {1, 2}
    Null = Null
    MaxIndexNum = 3
    MaxRows = 2
    MaxBatch = 2
VIEW Visible
CONSTRAINT InStep
INVARIANTS
    TypeOK
    
    
PROPERTIES
    ForeignKeysChecked
    
    
CHECK_DEADLOCK FALSE
