CONSTANTS
    Ranks = {1}
    Messages <- MCMessages
    MaxAhead = 2
SPECIFICATION FairSpec
INVARIANTS
    LinkIsLive
    BatchesAgree
PROPERTY
    EveryMessageArrives
