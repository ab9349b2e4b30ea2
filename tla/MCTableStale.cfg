SPECIFICATION Spec
CONSTANTS
    Tables = {"people", "orders"}
    Schema <- References
    Data = {1, 2}
    Null = Null
    MaxIndexNum = 2
    MaxRows = 2
    MaxBatch = 2
VIEW Visible
CONSTRAINT FewStale

    
PROPERTY
    ForeignKeysChecked
CHECK_DEADLOCK FALSE
