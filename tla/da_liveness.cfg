SPECIFICATION FairSpec
CONSTANTS
    NumOps = 2
    BatchSize = 2
    MaxAttempts = 1
    MaxRetryAttempts = 3
    RowLimit = 1
    FailureThreshold = 1
    MaxCrashes = 0
PROPERTIES RecordedOpCompletes BatchCompletes
