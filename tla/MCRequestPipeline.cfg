CONSTANTS
    Uids = {1, 2}
    Kinds <- MCKinds
    Streaming = {1}
    Leaving = {1}
    DpSize = 2
    Tokenizers = {}
    MaxTokens <- MCMaxTokens
SPECIFICATION FairSpec
INVARIANTS
    OneStreamPerClient
    NoZombies
    InflightHonest
PROPERTY
    EveryClientAnswered
CHECK_DEADLOCK FALSE
