CONSTANTS
    a = a
    b = b
    c = c
    Keys <- MCKeys
    Capacity = 2
    ProtectedCap = 1
    LowWater = 1
    MaxInflight = 1
    PendingCap = 1
    MaxAge = 1
    MaxLag = 0
    Environments <- MCEnvironments
SPECIFICATION FairSpec
INVARIANTS
    TableNeverOverReports
    EverySlotHasOneHolder
    TableFollowsClaims
PROPERTY
    DemandIsServed
