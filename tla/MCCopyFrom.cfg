SPECIFICATION Spec
CONSTANTS
    Once = Once
    NoField = NoField
    Jobs <- MCJobs
    Arrivals <- MCArrivals
    BatchRows = 2
    MaxRecord = 40
    MaxChanges = 1
INVARIANTS
    TypeOK
    RowsLoaded
    PlacesFound
CHECK_DEADLOCK FALSE
