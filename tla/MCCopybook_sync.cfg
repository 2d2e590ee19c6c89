SPECIFICATION Spec
CONSTANTS
    Texts <- AllTexts
    MaxDepth = 1
    NoName = NoName
    Once = Once
INVARIANTS SyncFromRecord
CHECK_DEADLOCK FALSE
