SPECIFICATION Spec
CONSTANTS
    BlobOperator = TRUE
    MaxInFlight = 2
    MaxTxs = 3
    MaxLevel = 2
    MaxBlock = 2
    MaxCrashes = 1
INVARIANTS TypeOK L1AttemptRecorded ConfirmedInOrder ConfirmedIsFinal
PROPERTIES NonceNotTaken ConfirmedErasedByOtherOnly
