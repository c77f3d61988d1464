SPECIFICATION FairSpec
CONSTANTS
    NumPorts = 1
    MaxLBs = 2
    MaxTGs = 2
    TGName <- OwnNames
    PromptCloud = TRUE
    DeleteMissingFails = FALSE
    Limit <- Reapplied
PROPERTY Exposed
CHECK_DEADLOCK FALSE
