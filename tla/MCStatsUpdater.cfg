CONSTANTS
    NumUpdaters = 2
    Tasks <- MCSmallTasks
    Retries = 2
    RefreshInterval = 2
    StoreMayFail = TRUE
    None = None
SPECIFICATION FairSpec
INVARIANTS
    TypeOK
    RetryBudget
PROPERTIES
    TasksComplete
    HandlesRefreshed
    Delivered
CHECK_DEADLOCK FALSE
