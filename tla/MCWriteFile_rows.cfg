CONSTANTS
    t1 = t1
    t2 = t2
    Threads = {t1, t2}
    NoRecord = NoRecord
    Old <- MCOld
    Base = 4
    CR = 1
    LF = 2
    RecordLen = 2
    PageSize = 1
    Works <- MCAll
    Dests = {"local", "object", "web"}
    Calls = {"write", "copy"}
    WrittenWith = {"newline", "fixed", "rdw", "rdw_blocked"}
    MaxFaults = 1
SPECIFICATION FairSpec
INVARIANTS
    TypeOK
    EveryRowOnce
    BadRowKeepsFile
    ReadsBack
PROPERTIES
    Terminates
    ImplementsSink
