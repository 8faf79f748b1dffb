SPECIFICATION Spec
CONSTANTS
    NumOps = 2
    BatchSize = 2
    MaxAttempts = 1
    MaxRetryAttempts = 3
    RowLimit = 2
    FailureThreshold = 1
    MaxCrashes = 0
INVARIANT NoHashLost
