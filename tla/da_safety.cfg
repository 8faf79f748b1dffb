SPECIFICATION Spec
CONSTANTS
    NumOps = 3
    BatchSize = 2
    MaxAttempts = 2
    MaxRetryAttempts = 3
    RowLimit = 1
    FailureThreshold = 1
    MaxCrashes = 1
INVARIANTS TypeOK BatchWithinLimit HashInOneBatch QueuedOnlyCompleted NoRowExhausted BreakerBoundsBurst
