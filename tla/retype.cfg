SPECIFICATION FairSpec
CONSTANTS
    NumPorts = 1
    MaxLBs = 2
    MaxTGs = 2
    TGName <- OwnNames
    PromptCloud = FALSE
    DeleteMissingFails = FALSE
    Limit <- RetypedOften
INVARIANT NothingForgotten
PROPERTIES CleanupCompletes
CHECK_DEADLOCK FALSE
