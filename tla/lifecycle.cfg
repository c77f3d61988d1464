SPECIFICATION Spec
CONSTANTS
    NumPorts = 2
    MaxLBs = 2
    MaxTGs = 3
    TGName <- OwnNames
    PromptCloud = FALSE
    DeleteMissingFails = TRUE
    Limit <- Hostile
CONSTRAINT CrashOrTouch
INVARIANTS TypeOK NothingForgotten RecordedLBOwned IngressOwned ListenersMatch
           NamedGroupsGo
PROPERTIES CreatedUnderFinalizer TargetGroupsKept ImplementsOwnership WorkerComesBack
CHECK_DEADLOCK FALSE
