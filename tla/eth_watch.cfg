SPECIFICATION FairSpec
CONSTANTS
    MaxBlocks = 4
    MaxOps = 3
    MaxUpgrades = 2
    LogLimit = 4
    PRIORITY_EXPIRATION = 4
INVARIANTS
    TypeOK
    NoOpBehindCursor
    SplitIsExact
PROPERTY
    OpsArrive
CHECK_DEADLOCK FALSE
