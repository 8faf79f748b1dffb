SPECIFICATION FairSpec
CONSTANTS
    MaxBatches = 3
    MaxCommit = 1
    MaxProve = 1
    MaxExecute = 2
    MaxAllowedLag = 2
    Parallelism = 2
    RealProofs = TRUE
    Operate4844 = TRUE
    WithMinAge = FALSE
    MinAge = 0
    ExecutionDelay = 0
    COMMIT_TIMESTAMP_NOT_OLDER = 0
    COMMIT_TIMESTAMP_APPROXIMATION_DELTA = 0
    BlockLag = 0
    MaxTime = 0
INVARIANTS TypeOK OnlyLateCommitsRevert StagesNested ConfirmedIsFinal
PROPERTIES FinalityRefined SealedIsExecuted
