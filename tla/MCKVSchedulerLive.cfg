CONSTANTS
    PageSize = 2
    NumPages = 4
    NumRows = 2
    Uids = {1, 3, 4, 5}
    Prompt <- MCPrompt
    MaxTokens <- MCMaxTokens
    CacheOutput = {1, 3}
    Tokens = {0, 1}
    Eos = {0}
    MaxSeqLen = 8
    Budgets = {2, 5}
    ChunkGran = 2
    ShortReqReserve = 1
    MinChunk = 1
    Loops = {"normal", "overlap"}
    AbortsInFlightPrefill = FALSE
    Twins = FALSE
SPECIFICATION FairSpec
INVARIANTS
    RowsReadCachedPages
PROPERTY
    EveryRequestEnds
