SPECIFICATION FairSpec
CONSTANTS
    Tasks = {1}
    Dispatchers = {d1, d2}
    MaxRetry = 1
    MaxFailures = 3
INVARIANTS ProcessedMeansSettled
PROPERTIES ProcessedIsFinal TasksProcessed
CHECK_DEADLOCK FALSE
