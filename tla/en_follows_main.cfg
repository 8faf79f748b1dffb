SPECIFICATION FairSpec
CONSTANTS
    MaxLen = 2
    MaxIds = 3
    MaxReverts = 2
    MaxFaults = 1
    QueueCap = 1
    MaxPerIter = 2
INVARIANTS
    TypeOK
    StoresOfOneChain
PROPERTIES
    AnswersTellChain
    NothingSharedRolledBack
    CatchesUp
CHECK_DEADLOCK FALSE
