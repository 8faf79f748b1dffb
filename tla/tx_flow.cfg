SPECIFICATION Spec
CONSTANTS
    alice = alice
    bob = bob
    carol = carol
    Accounts = {alice, bob}
    Offers <- MCOffers
    OpFrom <- MCOpFrom
    Fees = {1, 2}
    Capacity = 1
    SyncBatch = 2
    QueueCap = 1
    MaxTxs = 3
    MaxCrashes = 1
INVARIANTS TypeOK MempoolConsistent PriorityInOrder RowsTellChain PendingReexecutable
CHECK_DEADLOCK FALSE
