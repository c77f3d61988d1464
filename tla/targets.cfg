SPECIFICATION FairSpec
CONSTANTS
    NodeLists <- AnyCluster
    MaxCalls = 1
INVARIANTS TypeOK SettledWereSeen NotSentAgain WorkersCovered NilMeansServed
PROPERTIES CallComesToEnd Returns
CHECK_DEADLOCK FALSE
