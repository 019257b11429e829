CONSTANTS
    Replicas <- MCReplicas
    Requests <- MCRequests
    Home <- MCHome
    PromptLen <- MCPromptLen
    OutputLen = 3
    Budget = 2
    Rows = 2
    GraphSizes = {1, 2}
    None = None
SPECIFICATION FairSpec
INVARIANTS
    CollectivesMatch
    EveryReplicaSteps
PROPERTY
    EveryRequestEnds
