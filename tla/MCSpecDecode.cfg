SPECIFICATION Spec
CONSTANTS
    Requests = {1, 2, 3}
    Tokens <- MCTokens
    Eos = 2
    Filler = 0
    Prompt <- MCPrompt
    MaxTokens <- MCMaxTokens
    Thinks = {1}
    Budget <- MCBudget
    HasTools = {1}
    Gated = {}
    LogProbs = {3}
    Impatient = {2}
    NumDraft = 2
    Drafts <- MCDrafts
    SpecMaxBs = 2
    VerifyBs = 2
    PageSize = 2
    NumPages = 7
    Rows = 2
    Servers <- MCServers
    Argmax <- MCArgmax
    Close <- MCClose
    Releases <- MCReleases
    DefaultBudget = 2
    Unbounded = 100
    LoopSpan = 0
    LoopReps = 1
    LoopPeriod = 1
    Openers <- MCOpeners
    Closers <- MCClosers
    ToolBudget = 2
INVARIANTS
    StateFollowsText
    PagesFollowLength
    BlocksFit
    ReasoningIsDelimited
    SnapshotsAreExact
PROPERTY
    Lossless
CHECK_DEADLOCK FALSE
