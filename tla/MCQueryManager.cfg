SPECIFICATION Spec
CONSTANTS
    Tables    = {"people", "borrow", "book"}
    Schema    <- Small
    Data      <- SmallData
    Null      = Null
    NoTable   = ""
    NoAttr    = NoAttr
    FirstText = 10
    Garbage   = 5
    Like      <- Prefix
    Queries   <- SmallQueries
    MaxRows   = 2
INVARIANTS
    AnswersExact
    
