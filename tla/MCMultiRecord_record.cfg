SPECIFICATION Spec
CONSTANTS
    Once = Once
    NoField = NoField
    MaxDepth = 1
    Rows <- MCRows
    Records <- MCRecords
INVARIANTS
    TypeOK
    HeldRowsReturn
    Described
    PackedByCode
    DigitsHold
CHECK_DEADLOCK FALSE
