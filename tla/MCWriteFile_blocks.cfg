CONSTANTS
    t1 = t1
    t2 = t2
    Threads = {t1, t2}
    NoRecord = NoRecord
    Old <- MCOld
    Base = 4
    CR = 1
    LF = 2
    RecordLen = 2
    PageSize = 1
    Works <- MCBlocks
    Dests = {"object"}
    Calls = {"write"}
    WrittenWith = {"rdw_blocked"}
    MaxFaults = 0
SPECIFICATION Spec
INVARIANTS
    InverseOfRead
