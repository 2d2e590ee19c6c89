CONSTANTS
    Long = Long
    Short = Short
    Empty = Empty
    Garbled = Garbled
    Cut = Cut
    Missing = Missing
    Objects <- MCObjects
    Records <- MCRecords
    Undecodable <- MCUndecodable
    Ragged <- MCRagged
    Unreadable <- MCUnreadable
    Listings <- MCListings
    BatchRows = 2
    MaxRelists = 0
    MaxOverwrites = 0
    MaxFaults = 1
    MaxCrashes = 2
SPECIFICATION FairSpec
INVARIANTS
    TypeOK
    CompleteWhenDone
    TokenCovers
    FailsForCause
PROPERTIES
    ImplementsScan
    Terminates
