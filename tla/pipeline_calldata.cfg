SPECIFICATION Spec
CONSTANTS
    MaxBatches = 2
    MaxCommit = 1
    MaxProve = 1
    MaxExecute = 2
    MaxAllowedLag = 1
    Parallelism = 2
    RealProofs = FALSE
    Operate4844 = FALSE
    WithMinAge = TRUE
    MinAge = 2
    ExecutionDelay = 1
    COMMIT_TIMESTAMP_NOT_OLDER = 2
    COMMIT_TIMESTAMP_APPROXIMATION_DELTA = 1
    BlockLag = 1
    MaxTime = 4
INVARIANT OnlyLateCommitsRevert
