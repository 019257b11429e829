CONSTANTS
    PageSize = 2
    NumPages = 4
    Users = {u1, u2}
    Streams <- MCStreams
    SnapshotCap = 2
    MaxClock = 5
SYMMETRY Symmetry
SPECIFICATION Spec
INVARIANTS
    TreeWellFormed
    EvictNeverFails
    SnapshotsMatchNodes
PROPERTIES
    EvictsLeastRecentlyUsed
    MatchesAreRestorable
    TrieSpec
CHECK_DEADLOCK FALSE
