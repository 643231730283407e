SPECIFICATION Spec
CONSTANTS
    c1 = c1
    c2 = c2
    a1 = a1
    a2 = a2
    Clients <- TwoClients
    Addresses <- TwoAddresses
    Address <- OwnAddress
    Offsets <- SomeOffsets
    Rtts <- SomeRtts
    RecalcAfter = 1
    PurgeAfter = 2
    MaxTime = 4
INVARIANTS
    TypeOK
    Refreshed
PROPERTIES
    OffsetMaxCovers
    EntriesRecent
