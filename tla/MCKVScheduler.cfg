CONSTANTS
    PageSize = 2
    NumPages = 5
    NumRows = 3
    Uids = {1, 2, 3}
    Prompt <- MCPrompt
    MaxTokens <- MCMaxTokens
    CacheOutput = {1, 3}
    Tokens = {0, 1}
    Eos = {0}
    MaxSeqLen = 8
    Budgets = {2, 4}
    ChunkGran = 2
    ShortReqReserve = 1
    MinChunk = 1
    Loops = {"normal", "overlap"}
    AbortsInFlightPrefill = FALSE
    Twins = TRUE
SPECIFICATION Spec
INVARIANTS
    EveryPageHasOneOwner
    EveryRowHasOneOwner
    NothingLeaks
    PackingIsSound
PROPERTIES
    LengthFinishes
    LedgerSpec
