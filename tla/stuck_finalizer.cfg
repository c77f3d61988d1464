SPECIFICATION FairSpec
CONSTANTS
    NumPorts = 1
    MaxLBs = 1
    MaxTGs = 1
    TGName <- OwnNames
    PromptCloud = TRUE
    DeleteMissingFails = FALSE
    Limit <- Retyped
PROPERTY DeletionCompletes
CHECK_DEADLOCK FALSE
