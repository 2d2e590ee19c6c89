CONSTANTS
    Base = 4
    CR = 1
    LF = 2
    Inputs <- MCInputs
    RecordLens = {0, 2, 3, 4}
    BufSize = 3
    MaxRecord = 3
    MaxPlain = 4
    MaxFaults = 1
SPECIFICATION FairSpec
INVARIANTS
    TypeOK
    SameRecords
    RefusedForCause
    BlocksAreWhole
    LimitHolds
    BoundedLine
PROPERTIES
    Terminates
