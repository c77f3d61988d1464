SPECIFICATION Spec
CONSTANTS
    NumPorts = 1
    MaxLBs = 1
    MaxTGs = 1
    TGName <- OwnNames
    PromptCloud = TRUE
    DeleteMissingFails = FALSE
    Limit <- Undisturbed
INVARIANT NothingLeftBehind
CHECK_DEADLOCK FALSE
