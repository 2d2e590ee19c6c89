CONSTANTS
    Chunk = 2
    Lengths <- MCLengths
    OutSizes <- MCOutSizes
    MaxReplaced = 2
    MaxFaults = 1
SPECIFICATION FairSpec
INVARIANTS
    TypeOK
    Contiguous
    WholeObject
    EndsWithAVersion
    FailsForCause
PROPERTIES
    Terminates
