SPECIFICATION FairSpec
CONSTANTS
    MaxBlocks = 3
    MaxOps = 1
    MaxUpgrades = 1
    LogLimit = 4
    PRIORITY_EXPIRATION = 4
PROPERTY
    UpgradesArrive
CHECK_DEADLOCK FALSE
