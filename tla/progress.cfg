SPECIFICATION FairSpec
CONSTANTS
    NumPorts = 2
    MaxLBs = 2
    MaxTGs = 3
    TGName <- OwnNames
    PromptCloud = FALSE
    DeleteMissingFails = FALSE
    Limit <- Unlucky
PROPERTIES DeletionCompletes Exposed Named
CHECK_DEADLOCK FALSE
