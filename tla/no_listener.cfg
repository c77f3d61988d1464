SPECIFICATION FairSpec
CONSTANTS
    NumPorts = 1
    MaxLBs = 1
    MaxTGs = 1
    TGName <- OwnNames
    PromptCloud = FALSE
    DeleteMissingFails = FALSE
    Limit <- Undisturbed
PROPERTY ListenersFollow
CHECK_DEADLOCK FALSE
