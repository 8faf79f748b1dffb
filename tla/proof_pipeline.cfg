SPECIFICATION FairSpec
CONSTANTS
    Batches = {1}
    Circuits = {1}
    Basics <- MCBasics
    Arity = 2
    MaxDepth = 2
    Workers = {w1, w2}
    QueueSize = 1
    MaxAttempts = 2
    MaxFaults = 1
INVARIANTS TypeOK WholeTreeProven InputsProven
PROPERTIES FinishedStaysFinished ProvenOrStuck
CHECK_DEADLOCK FALSE
