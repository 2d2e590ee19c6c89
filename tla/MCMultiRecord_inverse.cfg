SPECIFICATION Spec
CONSTANTS
    Once = Once
    NoField = NoField
    MaxDepth = 1
    Rows <- NoRows
    Records <- SignedRecords
INVARIANT PackInverse
CHECK_DEADLOCK FALSE
