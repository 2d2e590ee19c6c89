CONSTANTS
    Long = Long
    Short = Short
    Empty = Empty
    Garbled = Garbled
    Cut = Cut
    Missing = Missing
    Objects <- MCObjects
    Records <- MCRecords
    Undecodable <- MCUndecodable
    Ragged <- MCRagged
    Unreadable <- MCUnreadable
    Listings <- MCBuckets
    BatchRows = 2
    MaxRelists = 1
    MaxOverwrites = 0
    MaxFaults = 1
    MaxCrashes = 1
SPECIFICATION Spec
INVARIANTS
    NoObjectTwice
