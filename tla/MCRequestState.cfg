SPECIFICATION Spec
CONSTANTS
    Requests <- MCRequests
    Tokens <- MCTokens
    Eos <- MCEos
    Says <- MCSays
    MaxTokens <- MCMaxTokens
    Chunks <- MCChunks
    Thinks <- MCThinks
    Budget <- MCBudget
    HasTools <- MCHasTools
    Gated <- NoRequests
    Rows = 2
    Overlap <- BothLoops
    Close <- MCClose
    Releases <- MCReleases
    DefaultBudget = 3
    Unbounded <- MCUnbounded
    LoopSpan = 2
    LoopReps = 2
    LoopPeriod = 1
    Openers <- MCOpeners
    Closers <- MCClosers
    ToolBudget = 2
INVARIANTS
    SlotsFollowRequests
    OnlyOwnRows
    ContextIsCommitted
    ReasoningIsBounded
    GatesFollowText
PROPERTY
    EosWaitsForReasoning
CHECK_DEADLOCK FALSE
