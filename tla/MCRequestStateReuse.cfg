SPECIFICATION Spec
CONSTANTS
    Requests <- MCRequests
    Tokens <- MCTokens
    Eos <- MCEos
    Says <- MCSays
    MaxTokens <- MCMaxTokens
    Chunks <- MCChunks
    Thinks <- NoRequests
    Budget <- MCBudget
    HasTools <- MCHasTools
    Gated <- NoRequests
    Rows = 2
    Overlap <- BothLoops
    Close <- MCClose
    Releases <- MCReleases
    DefaultBudget = 3
    Unbounded <- MCUnbounded
    LoopSpan = 2
    LoopReps = 2
    LoopPeriod = 1
    Openers <- MCOpeners
    Closers <- MCClosers
    ToolBudget = 2
INVARIANT
    ContextIsTheText
CHECK_DEADLOCK FALSE
