----------------------- MODULE DataAvailabilityProofs -----------------------
(***************************************************************************)
(* Proofs about DataAvailability for every number of operations, batch     *)
(* size, retry limit, row limit, breaker threshold and number of crashes.  *)
(*                                                                         *)
(* The two workers write whole copies of rows back, so an invariant of the *)
(* table is inductive only together with the same statement about every    *)
(* copy in a worker's hands: each property below is strengthened that way. *)
(***************************************************************************)
EXTENDS DataAvailability, TLAPS

\* The ids of the batch copies the workers hold were drawn before.
CopiesKnown ==
    /\ \A b \in mlQueue : b.id \in 1 .. nextBatch - 1
    /\ mlPc \in {"submit", "submitted"} => mlBatch.id \in 1 .. nextBatch - 1
    /\ ipfsPc = "queued" => ipfsBatch.id \in 1 .. nextBatch

\* The operations the upload task holds are pending rows, and the operation
\* between save_eth_tx and save_mintlayer_tx has no row yet.
Fresh(op) == op \in DOMAIN ipfsTable /\ ipfsTable[op].status = "pending"
OpsInHand ==
    /\ \A op \in ipfsQueue : Fresh(op)
    /\ ipfsPc \in {"upload", "uploaded", "queued"} => Fresh(ipfsOp) /\ ipfsOp \notin ipfsQueue
    /\ aggOp # NoOp => aggOp = lastOp /\ aggOp \notin DOMAIN ipfsTable

\* A row is pending or completed, and a pending one has no saved attempts.
RowsUnspent ==
    /\ \A i \in DOMAIN ipfsTable : ipfsTable[i].status \in {"pending", "completed"}
    /\ \A i \in DOMAIN ipfsTable : Fresh(i) => ipfsTable[i].attempts = 0
    /\ \A i \in DOMAIN mlTable : mlTable[i].attempts < MaxAttempts
    /\ \A b \in mlQueue : b.attempts < MaxAttempts
    /\ mlBatch.attempts < MaxAttempts /\ ipfsBatch.attempts < MaxAttempts
    /\ ipfsAttempts < MaxAttempts

\* The copies respect the batch size too.
CopiesWithinLimit ==
    /\ \A b \in mlQueue : Len(b.hashes) <= BatchSize
    /\ Len(mlBatch.hashes) <= BatchSize
    /\ Len(ipfsBatch.hashes) <= BatchSize

IndInv == /\ TypeOK /\ CopiesKnown /\ OpsInHand /\ RowsUnspent
          /\ BatchWithinLimit /\ CopiesWithinLimit

-----------------------------------------------------------------------------
\* The initial state satisfies the inductive invariant.
LEMMA InitInd == Init => IndInv
  BY ParamsAssumption
  DEF Init, IndInv, TypeOK, TypeAgg, TypeIpfsTable, TypeMlTable, TypeAged, TypeNet, TypeIpfs,
      TypeMl, TypeBreaker, CopiesKnown, OpsInHand, RowsUnspent, BatchWithinLimit,
      CopiesWithinLimit, NoBatch, NoOp, Ops, Workers, Status, PendingMintlayerBatch, Fresh

\* The empty list of hashes is one.
LEMMA EmptySeq == <<>> \in Seq(Ops)
  OBVIOUS

\* What the pending query returns: copies of rows, with their types and bounds.
LEMMA PendingCopies ==
    ASSUME IndInv, NEW b \in get_pending_mintlayer_batches
    PROVE  /\ b \in PendingMintlayerBatch /\ b.id \in 1 .. nextBatch - 1
           /\ b.id \in DOMAIN mlTable /\ b.hashes = mlTable[b.id].hashes
           /\ Len(b.hashes) <= BatchSize /\ b.attempts < MaxAttempts
<1>1. PICK i \in DOMAIN mlTable : b = CopyOf(i)
  BY DEF get_pending_mintlayer_batches, Oldest
<1>2. mlTable[i] \in MlRow /\ i \in 1 .. nextBatch - 1 /\ nextBatch \in Nat
  BY DEF IndInv, TypeOK, TypeMlTable
<1>3. b \in PendingMintlayerBatch /\ b.id = i
  BY <1>1, <1>2 DEF CopyOf, MlRow, PendingMintlayerBatch
<1> QED
  BY <1>1, <1>2, <1>3 DEF CopyOf, IndInv, BatchWithinLimit, RowsUnspent

\* Appending to a copy with room keeps its type and its bound.
LEMMA PushTyped ==
    ASSUME NEW b \in PendingMintlayerBatch, Len(b.hashes) < BatchSize, NEW op \in Ops
    PROVE  /\ Push(b, op) \in PendingMintlayerBatch
           /\ Len(Push(b, op).hashes) <= BatchSize
           /\ Push(b, op).id = b.id /\ Push(b, op).attempts = b.attempts
           /\ Push(b, op).hashes = Append(b.hashes, op)
<1>1. b.hashes \in Seq(Ops) /\ b.id \in Nat /\ b.attempts \in Nat
  BY DEF PendingMintlayerBatch
<1>2. Append(b.hashes, op) \in Seq(Ops) /\ Len(Append(b.hashes, op)) = Len(b.hashes) + 1
  BY <1>1
<1> QED
  BY <1>1, <1>2, ParamsAssumption DEF Push, PendingMintlayerBatch, Status

\* Recording a failure keeps the breaker's type.
LEMMA BreakerTyped ==
    ASSUME TypeBreaker, NEW w \in Workers, record_failure(w),
           burst' = [burst EXCEPT ![w] = @ + 1]
    PROVE  TypeBreaker'
<1>1. failures' \in [Workers -> 0 .. FailureThreshold]
  BY ParamsAssumption DEF TypeBreaker, record_failure
<1>2. elapsed' \in [Workers -> BOOLEAN]
  BY Zenon DEF TypeBreaker, record_failure
<1>3. burst' \in [Workers -> Nat]
  BY DEF TypeBreaker
<1> QED BY <1>1, <1>2, <1>3 DEF TypeBreaker

-----------------------------------------------------------------------------
\* Every step preserves the inductive invariant.
LEMMA StepInd == IndInv /\ [Next]_vars => IndInv'
<1> SUFFICES ASSUME IndInv, [Next]_vars PROVE IndInv'
  OBVIOUS
<1> USE ParamsAssumption DEF IndInv, TypeOK, aggVars, dbVars, ageVars, netVars, ipfsVars,
      mlVars, breakerVars
<1>1. CASE SaveEthTx
  <2>1. TypeAgg'
    BY <1>1 DEF SaveEthTx, TypeAgg
  <2>2. TypeIpfsTable'
    BY <1>1 DEF SaveEthTx, TypeAgg, TypeIpfsTable, TypeIpfs, IpfsRow, Status, Ops, NoOp
  <2>3. TypeAged'
    BY <1>1 DEF SaveEthTx, TypeAgg, TypeAged, TypeMlTable
  <2>4. TypeIpfs'
    BY <1>1 DEF SaveEthTx, TypeAgg, TypeIpfs, TypeIpfsTable, OpsInHand, RowsUnspent,
        Fresh, IpfsRow, NoOp, NoBatch, PendingMintlayerBatch, Status
  <2>5. OpsInHand'
    BY <1>1 DEF SaveEthTx, TypeAgg, TypeIpfsTable, OpsInHand, RowsUnspent, TypeIpfs,
        Fresh, NoOp
  <2> QED
    BY <1>1, <2>1, <2>2, <2>3, <2>4, <2>5
    DEF SaveEthTx, TypeMlTable, TypeNet, TypeMl, TypeBreaker, CopiesKnown, RowsUnspent,
        BatchWithinLimit, CopiesWithinLimit, Fresh
<1>2. CASE save_mintlayer_tx
  <2>1. TypeAgg'
    BY <1>2 DEF save_mintlayer_tx, TypeAgg, NoOp
  <2>2. TypeIpfsTable'
    BY <1>2 DEF save_mintlayer_tx, TypeAgg, TypeIpfsTable, TypeIpfs, IpfsRow, Status, Ops,
        NoOp
  <2>3. OpsInHand'
    BY <1>2 DEF save_mintlayer_tx, TypeAgg, TypeIpfsTable, OpsInHand, RowsUnspent,
        TypeIpfs, Fresh, NoOp
  <2>4. RowsUnspent'
    BY <1>2 DEF save_mintlayer_tx, RowsUnspent, OpsInHand, TypeIpfs, TypeIpfsTable,
        TypeMlTable, TypeMl, Fresh, NoBatch, PendingMintlayerBatch, MlRow, IpfsRow
  <2> QED
    BY <1>2, <2>1, <2>2, <2>3, <2>4
    DEF save_mintlayer_tx, TypeMlTable, TypeAged, TypeNet, TypeIpfs, TypeMl, TypeBreaker,
        CopiesKnown, BatchWithinLimit, CopiesWithinLimit
<1>3. CASE SaveMintlayerTxFails
  <2>1. TypeAgg'
    BY <1>3 DEF SaveMintlayerTxFails, TypeAgg, NoOp
  <2>2. OpsInHand'
    BY <1>3 DEF SaveMintlayerTxFails, TypeAgg, TypeIpfsTable, OpsInHand, RowsUnspent,
        TypeIpfs, Fresh, NoOp
  <2> QED
    BY <1>3, <2>1, <2>2
    DEF SaveMintlayerTxFails, TypeIpfsTable, TypeMlTable, TypeAged, TypeNet, TypeIpfs,
        TypeMl, TypeBreaker, CopiesKnown, RowsUnspent, BatchWithinLimit,
        CopiesWithinLimit, Fresh
<1>4. CASE IpfsFetch
  <2>1. TypeIpfs'
    BY <1>4 DEF IpfsFetch, get_pending_ipfs_operations, Oldest, Selected, TypeAgg,
        TypeIpfs, TypeIpfsTable, OpsInHand, RowsUnspent, Fresh, IpfsRow, NoOp, NoBatch,
        PendingMintlayerBatch, Status
  <2>2. CopiesKnown'
    BY <1>4 DEF IpfsFetch, get_pending_ipfs_operations, Oldest, Selected, CopiesKnown,
        TypeMlTable, TypeIpfs, TypeMl
  <2>3. OpsInHand'
    BY <1>4 DEF IpfsFetch, get_pending_ipfs_operations, Oldest, Selected, TypeAgg,
        TypeIpfsTable, OpsInHand, RowsUnspent, TypeIpfs, Fresh, NoOp
  <2> QED
    BY <1>4, <2>1, <2>2, <2>3
    DEF IpfsFetch, TypeAgg, TypeIpfsTable, TypeMlTable, TypeAged, TypeNet, TypeMl,
        TypeBreaker, RowsUnspent, BatchWithinLimit, CopiesWithinLimit, Fresh
<1>5. CASE IpfsSleep
  <2>1. TypeIpfs'
    BY <1>5 DEF IpfsSleep, TypeAgg, TypeIpfs, TypeIpfsTable, OpsInHand, RowsUnspent,
        Fresh, IpfsRow, NoOp, NoBatch, PendingMintlayerBatch, Status
  <2>2. CopiesKnown'
    BY <1>5 DEF IpfsSleep, CopiesKnown, TypeMlTable, TypeIpfs, TypeMl
  <2>3. OpsInHand'
    BY <1>5 DEF IpfsSleep, TypeAgg, TypeIpfsTable, OpsInHand, RowsUnspent, TypeIpfs,
        Fresh, NoOp
  <2> QED
    BY <1>5, <2>1, <2>2, <2>3
    DEF IpfsSleep, TypeAgg, TypeIpfsTable, TypeMlTable, TypeAged, TypeNet, TypeMl,
        TypeBreaker, RowsUnspent, BatchWithinLimit, CopiesWithinLimit, Fresh
<1>6. CASE IpfsTake
  <2>1. TypeIpfs'
    BY <1>6 DEF IpfsTake, TypeAgg, TypeIpfs, TypeIpfsTable, OpsInHand, RowsUnspent, Fresh,
        IpfsRow, NoOp, NoBatch, PendingMintlayerBatch, Status
  <2>2. CopiesKnown'
    BY <1>6 DEF IpfsTake, CopiesKnown, TypeMlTable, TypeIpfs, TypeMl
  <2>3. OpsInHand'
    BY <1>6 DEF IpfsTake, TypeAgg, TypeIpfsTable, OpsInHand, RowsUnspent, TypeIpfs, Fresh,
        NoOp
  <2>4. RowsUnspent'
    BY <1>6 DEF IpfsTake, RowsUnspent, OpsInHand, TypeIpfs, TypeIpfsTable, TypeMlTable,
        TypeMl, Fresh, NoBatch, PendingMintlayerBatch, MlRow, IpfsRow
  <2> QED
    BY <1>6, <2>1, <2>2, <2>3, <2>4
    DEF IpfsTake, TypeAgg, TypeIpfsTable, TypeMlTable, TypeAged, TypeNet, TypeMl,
        TypeBreaker, BatchWithinLimit, CopiesWithinLimit
<1>7. CASE IpfsUploadOk
  <2>1. TypeNet'
    <3>1. ipfsOp \in Ops
      BY <1>7 DEF IpfsUploadOk, TypeAgg, TypeIpfsTable, OpsInHand, Fresh, Ops
    <3> QED BY <1>7, <3>1 DEF IpfsUploadOk, TypeNet
  <2>2. TypeIpfs'
    BY <1>7 DEF IpfsUploadOk, TypeAgg, TypeIpfs, TypeIpfsTable, OpsInHand, RowsUnspent,
        Fresh, IpfsRow, NoOp, NoBatch, PendingMintlayerBatch, Status
  <2>3. TypeBreaker'
    BY <1>7 DEF IpfsUploadOk, TypeBreaker, Workers
  <2>4. CopiesKnown'
    BY <1>7 DEF IpfsUploadOk, CopiesKnown, TypeMlTable, TypeIpfs, TypeMl
  <2>5. OpsInHand'
    BY <1>7 DEF IpfsUploadOk, TypeAgg, TypeIpfsTable, OpsInHand, RowsUnspent, TypeIpfs,
        Fresh, NoOp
  <2> QED
    BY <1>7, <2>1, <2>2, <2>3, <2>4, <2>5
    DEF IpfsUploadOk, TypeAgg, TypeIpfsTable, TypeMlTable, TypeAged, TypeMl, RowsUnspent,
        BatchWithinLimit, CopiesWithinLimit, Fresh
<1>8. CASE IpfsUploadFails
  <2>1. TypeNet'
    BY SMTT(30), <1>8 DEF IpfsUploadFails, TypeAgg, TypeNet, TypeIpfs, TypeMl, OpsInHand,
        TypeIpfsTable, Fresh, Ops, PendingMintlayerBatch
  <2>2. TypeIpfs'
    BY <1>8 DEF IpfsUploadFails, TypeAgg, TypeIpfs, TypeIpfsTable, OpsInHand, RowsUnspent,
        Fresh, IpfsRow, NoOp, NoBatch, PendingMintlayerBatch, Status
  <2>3. TypeBreaker'
    <3>1. "ipfs" \in Workers
      BY DEF Workers
    <3>2. CASE record_failure("ipfs")
      BY <1>8, <3>1, <3>2, BreakerTyped DEF IpfsUploadFails
    <3>3. CASE UNCHANGED <<failures, elapsed>>
      BY <1>8, <3>1, <3>3 DEF IpfsUploadFails, TypeBreaker
    <3> QED BY <1>8, <3>2, <3>3 DEF IpfsUploadFails
  <2>4. CopiesKnown'
    BY <1>8 DEF IpfsUploadFails, CopiesKnown, TypeMlTable, TypeIpfs, TypeMl
  <2>5. OpsInHand'
    BY <1>8 DEF IpfsUploadFails, TypeAgg, TypeIpfsTable, OpsInHand, RowsUnspent, TypeIpfs,
        Fresh, NoOp
  <2>6. RowsUnspent'
    BY <1>8 DEF IpfsUploadFails, RowsUnspent, OpsInHand, TypeIpfs, TypeIpfsTable,
        TypeMlTable, TypeMl, Fresh, NoBatch, PendingMintlayerBatch, MlRow, IpfsRow
  <2> QED
    BY <1>8, <2>1, <2>2, <2>3, <2>4, <2>5, <2>6
    DEF IpfsUploadFails, TypeAgg, TypeIpfsTable, TypeMlTable, TypeAged, TypeMl,
        BatchWithinLimit, CopiesWithinLimit
<1>9. CASE QueueRead
  <2>1. /\ ipfsPc = "uploaded" /\ ipfsPc' = "queued"
        /\ ipfsOp \in Ops /\ UNCHANGED <<mlTable, nextBatch, ipfsOp, ipfsQueue, ipfsAttempts>>
    BY <1>9 DEF QueueRead, TypeIpfs, TypeAgg, TypeIpfsTable, OpsInHand, Fresh, Ops
  <2>2. PICK b \in PendingMintlayerBatch :
            /\ ipfsBatch' = Push(b, ipfsOp) /\ Len(b.hashes) < BatchSize
            /\ b.id \in 1 .. nextBatch /\ b.attempts < MaxAttempts
    <3>1. NewBatch(nextBatch) \in PendingMintlayerBatch
      BY EmptySeq DEF NewBatch, NoBatch, PendingMintlayerBatch, Status, TypeMlTable
    <3>2. /\ NewBatch(nextBatch).id = nextBatch /\ NewBatch(nextBatch).hashes = <<>>
          /\ NewBatch(nextBatch).attempts = 0
      BY DEF NewBatch, NoBatch
    <3> QED BY <1>9, <3>1, <3>2, PendingCopies DEF QueueRead, HasRoom, TypeMlTable
  <2>3. /\ ipfsBatch' \in PendingMintlayerBatch /\ Len(ipfsBatch'.hashes) <= BatchSize
        /\ ipfsBatch'.id \in 1 .. nextBatch /\ ipfsBatch'.attempts < MaxAttempts
    BY <2>1, <2>2, PushTyped
  <2>4. TypeIpfs'
    BY <1>9, <2>1, <2>3 DEF QueueRead, TypeIpfs
  <2>5. CopiesKnown' /\ CopiesWithinLimit' /\ RowsUnspent'
    BY <1>9, <2>1, <2>3 DEF QueueRead, CopiesKnown, CopiesWithinLimit, RowsUnspent, Fresh
  <2>6. OpsInHand'
    BY <1>9, <2>1 DEF QueueRead, OpsInHand, Fresh
  <2> QED
    BY <1>9, <2>4, <2>5, <2>6
    DEF QueueRead, TypeAgg, TypeIpfsTable, TypeMlTable, TypeAged, TypeNet, TypeMl, TypeBreaker, BatchWithinLimit
<1>10. CASE QueueCommit
  <2>1. TypeIpfsTable'
    BY <1>10 DEF QueueCommit, update_ipfs_operations, update_mintlayer_batch, TypeAgg,
        TypeIpfsTable, TypeIpfs, IpfsRow, Status, Ops, NoOp
  <2>2. TypeMlTable'
    BY <1>10 DEF QueueCommit, update_ipfs_operations, update_mintlayer_batch, TypeMlTable,
        TypeIpfs, TypeMl, CopiesKnown, MlRow, PendingMintlayerBatch, Status
  <2>3. TypeAged'
    BY <1>10 DEF QueueCommit, update_ipfs_operations, update_mintlayer_batch, TypeAgg,
        TypeAged, TypeMlTable
  <2>4. TypeIpfs'
    BY <1>10 DEF QueueCommit, update_ipfs_operations, update_mintlayer_batch, TypeAgg,
        TypeIpfs, TypeIpfsTable, OpsInHand, RowsUnspent, Fresh, IpfsRow, NoOp, NoBatch,
        PendingMintlayerBatch, Status
  <2>5. CopiesKnown'
    BY <1>10 DEF QueueCommit, update_ipfs_operations, update_mintlayer_batch, CopiesKnown,
        TypeMlTable, TypeIpfs, TypeMl
  <2>6. OpsInHand'
    BY <1>10 DEF QueueCommit, update_ipfs_operations, update_mintlayer_batch, TypeAgg,
        TypeIpfsTable, OpsInHand, RowsUnspent, TypeIpfs, Fresh, NoOp
  <2>7. RowsUnspent'
    BY <1>10 DEF QueueCommit, update_ipfs_operations, update_mintlayer_batch, RowsUnspent,
        OpsInHand, TypeIpfs, TypeIpfsTable, TypeMlTable, TypeMl, Fresh, NoBatch,
        PendingMintlayerBatch, MlRow, IpfsRow
  <2>8. BatchWithinLimit'
    BY <1>10 DEF QueueCommit, update_ipfs_operations, update_mintlayer_batch,
        BatchWithinLimit, CopiesWithinLimit
  <2>9. CopiesWithinLimit'
    BY <1>10 DEF QueueCommit, update_ipfs_operations, update_mintlayer_batch,
        CopiesWithinLimit, TypeMl, NoBatch, PendingMintlayerBatch
  <2> QED
    BY <1>10, <2>1, <2>2, <2>3, <2>4, <2>5, <2>6, <2>7, <2>8, <2>9
    DEF QueueCommit, TypeAgg, TypeNet, TypeMl, TypeBreaker
<1>11. CASE IpfsDbError
  <2>1. TypeIpfs'
    BY <1>11 DEF IpfsDbError, TypeAgg, TypeIpfs, TypeIpfsTable, OpsInHand, RowsUnspent,
        Fresh, IpfsRow, NoOp, NoBatch, PendingMintlayerBatch, Status
  <2>2. CopiesKnown'
    BY <1>11 DEF IpfsDbError, CopiesKnown, TypeMlTable, TypeIpfs, TypeMl
  <2>3. OpsInHand'
    BY <1>11 DEF IpfsDbError, TypeAgg, TypeIpfsTable, OpsInHand, RowsUnspent, TypeIpfs,
        Fresh, NoOp
  <2>4. RowsUnspent'
    BY <1>11 DEF IpfsDbError, RowsUnspent, OpsInHand, TypeIpfs, TypeIpfsTable,
        TypeMlTable, TypeMl, Fresh, NoBatch, PendingMintlayerBatch, MlRow, IpfsRow
  <2>5. CopiesWithinLimit'
    BY <1>11 DEF IpfsDbError, CopiesWithinLimit, TypeMl, NoBatch, PendingMintlayerBatch
  <2> QED
    BY <1>11, <2>1, <2>2, <2>3, <2>4, <2>5
    DEF IpfsDbError, TypeAgg, TypeIpfsTable, TypeMlTable, TypeAged, TypeNet, TypeMl,
        TypeBreaker, BatchWithinLimit
<1>12. CASE MlFetch
  <2>1. /\ mlQueue' = get_pending_mintlayer_batches /\ mlPc' = "loop"
        /\ UNCHANGED <<mlTable, nextBatch, mlBatch, ipfsBatch, ipfsPc, ipfsAttempts, ipfsTable>>
    BY <1>12 DEF MlFetch
  <2>2. TypeMl'
    BY <2>1, PendingCopies DEF TypeMl
  <2>3. CopiesKnown' /\ CopiesWithinLimit' /\ RowsUnspent'
    BY <2>1, PendingCopies DEF CopiesKnown, CopiesWithinLimit, RowsUnspent, Fresh
  <2> QED
    BY <1>12, <2>2, <2>3
    DEF MlFetch, TypeAgg, TypeIpfsTable, TypeMlTable, TypeAged, TypeNet, TypeIpfs, TypeBreaker, OpsInHand, BatchWithinLimit, Fresh
<1>13. CASE MlSleep
  <2>1. TypeMl'
    BY <1>13 DEF MlSleep, TypeMl, NoBatch, PendingMintlayerBatch, Status
  <2>2. CopiesKnown'
    BY <1>13 DEF MlSleep, CopiesKnown, TypeMlTable, TypeIpfs, TypeMl
  <2> QED
    BY <1>13, <2>1, <2>2
    DEF MlSleep, TypeAgg, TypeIpfsTable, TypeMlTable, TypeAged, TypeNet, TypeIpfs,
        TypeBreaker, OpsInHand, RowsUnspent, BatchWithinLimit, CopiesWithinLimit, Fresh
<1>14. CASE MlTake
  <2>1. TypeMl'
    BY <1>14 DEF MlTake, TypeMl, NoBatch, PendingMintlayerBatch, Status
  <2>2. CopiesKnown'
    BY <1>14 DEF MlTake, CopiesKnown, TypeMlTable, TypeIpfs, TypeMl
  <2>3. RowsUnspent'
    BY <1>14 DEF MlTake, RowsUnspent, OpsInHand, TypeIpfs, TypeIpfsTable, TypeMlTable,
        TypeMl, Fresh, NoBatch, PendingMintlayerBatch, MlRow, IpfsRow
  <2>4. CopiesWithinLimit'
    BY <1>14 DEF MlTake, CopiesWithinLimit, TypeMl, NoBatch, PendingMintlayerBatch
  <2> QED
    BY <1>14, <2>1, <2>2, <2>3, <2>4
    DEF MlTake, TypeAgg, TypeIpfsTable, TypeMlTable, TypeAged, TypeNet, TypeIpfs,
        TypeBreaker, OpsInHand, BatchWithinLimit, Fresh
<1>15. CASE MlSubmitOk
  <2>1. TypeNet'
    BY <1>15 DEF MlSubmitOk, TypeAgg, TypeNet, TypeIpfs, TypeMl, OpsInHand, TypeIpfsTable,
        Fresh, Ops, PendingMintlayerBatch
  <2>2. TypeMl'
    BY <1>15 DEF MlSubmitOk, TypeMl, NoBatch, PendingMintlayerBatch, Status
  <2>3. TypeBreaker'
    BY <1>15 DEF MlSubmitOk, TypeBreaker, Workers
  <2>4. CopiesKnown'
    BY <1>15 DEF MlSubmitOk, CopiesKnown, TypeMlTable, TypeIpfs, TypeMl
  <2>5. BatchWithinLimit'
    BY <1>15 DEF MlSubmitOk, BatchWithinLimit, CopiesWithinLimit
  <2> QED
    BY <1>15, <2>1, <2>2, <2>3, <2>4, <2>5
    DEF MlSubmitOk, TypeAgg, TypeIpfsTable, TypeMlTable, TypeAged, TypeIpfs, OpsInHand,
        RowsUnspent, CopiesWithinLimit, Fresh
<1>16. CASE MlSubmitFails
  <2>1. TypeNet'
    BY <1>16 DEF MlSubmitFails, TypeAgg, TypeNet, TypeIpfs, TypeMl, OpsInHand,
        TypeIpfsTable, Fresh, Ops, PendingMintlayerBatch
  <2>2. TypeMl'
    <3>1. CASE mlBatch' = [mlBatch EXCEPT !.attempts = @ + 1] /\ UNCHANGED mlPc
      <4>1. mlBatch \in PendingMintlayerBatch
        BY DEF TypeMl
      <4>2. mlBatch' \in PendingMintlayerBatch
        BY <3>1, <4>1 DEF PendingMintlayerBatch
      <4>3. mlQueue' = mlQueue
        BY <1>16 DEF MlSubmitFails
      <4> QED
        BY <3>1, <4>2, <4>3 DEF TypeMl
    <3>2. CASE mlBatch' = NoBatch /\ mlPc' = "loop"
      <4>1. NoBatch \in PendingMintlayerBatch
        BY EmptySeq DEF NoBatch, PendingMintlayerBatch, Status
      <4> QED BY <1>16, <3>2, <4>1 DEF MlSubmitFails, TypeMl
    <3> QED BY <1>16, <3>1, <3>2 DEF MlSubmitFails
  <2>3. TypeBreaker'
    <3>1. "mintlayer" \in Workers
      BY DEF Workers
    <3>2. CASE record_failure("mintlayer")
      BY <1>16, <3>1, <3>2, BreakerTyped DEF MlSubmitFails
    <3>3. CASE UNCHANGED <<failures, elapsed>>
      BY <1>16, <3>1, <3>3 DEF MlSubmitFails, TypeBreaker
    <3> QED BY <1>16, <3>2, <3>3 DEF MlSubmitFails
  <2>4. CopiesKnown'
    <3>1. CASE mlBatch' = [mlBatch EXCEPT !.attempts = @ + 1] /\ UNCHANGED mlPc
      <4>1. mlBatch'.id = mlBatch.id
        BY <3>1 DEF TypeMl, PendingMintlayerBatch
      <4> QED BY <1>16, <3>1, <4>1 DEF MlSubmitFails, CopiesKnown
    <3>2. CASE mlBatch' = NoBatch /\ mlPc' = "loop"
      BY <1>16, <3>2 DEF MlSubmitFails, CopiesKnown
    <3> QED BY <1>16, <3>1, <3>2 DEF MlSubmitFails
  <2>5. RowsUnspent'
    BY SMTT(30), <1>16 DEF MlSubmitFails, RowsUnspent, OpsInHand, TypeIpfs, TypeIpfsTable,
        TypeMlTable, TypeMl, Fresh, NoBatch, PendingMintlayerBatch, MlRow, IpfsRow
  <2>6. BatchWithinLimit'
    BY <1>16 DEF MlSubmitFails, BatchWithinLimit, CopiesWithinLimit
  <2>7. CopiesWithinLimit'
    BY <1>16 DEF MlSubmitFails, CopiesWithinLimit, TypeMl, NoBatch, PendingMintlayerBatch
  <2> QED
    BY <1>16, <2>1, <2>2, <2>3, <2>4, <2>5, <2>6, <2>7
    DEF MlSubmitFails, TypeAgg, TypeIpfsTable, TypeMlTable, TypeAged, TypeIpfs, OpsInHand,
        Fresh
<1>17. CASE MlCommit
  <2>1. TypeMlTable'
    BY <1>17 DEF MlCommit, update_mintlayer_batch, TypeMlTable, TypeIpfs, TypeMl,
        CopiesKnown, MlRow, PendingMintlayerBatch, Status
  <2>2. TypeMl'
    BY <1>17 DEF MlCommit, update_mintlayer_batch, TypeMl, NoBatch, PendingMintlayerBatch,
        Status
  <2>3. CopiesKnown'
    BY <1>17 DEF MlCommit, update_mintlayer_batch, CopiesKnown, TypeMlTable, TypeIpfs,
        TypeMl
  <2>4. RowsUnspent'
    BY SMTT(30), <1>17 DEF MlCommit, update_mintlayer_batch, RowsUnspent, OpsInHand, TypeIpfs,
        TypeIpfsTable, TypeMlTable, TypeMl, Fresh, NoBatch, PendingMintlayerBatch, MlRow,
        IpfsRow
  <2>5. BatchWithinLimit'
    BY <1>17 DEF MlCommit, update_mintlayer_batch, BatchWithinLimit, CopiesWithinLimit
  <2>6. CopiesWithinLimit'
    BY <1>17 DEF MlCommit, update_mintlayer_batch, CopiesWithinLimit, TypeMl, NoBatch,
        PendingMintlayerBatch
  <2> QED
    BY <1>17, <2>1, <2>2, <2>3, <2>4, <2>5, <2>6
    DEF MlCommit, TypeAgg, TypeIpfsTable, TypeAged, TypeNet, TypeIpfs, TypeBreaker,
        OpsInHand, Fresh
<1>18. CASE MlDbError
  <2>1. TypeMl'
    BY <1>18 DEF MlDbError, TypeMl, NoBatch, PendingMintlayerBatch, Status
  <2>2. CopiesKnown'
    BY <1>18 DEF MlDbError, CopiesKnown, TypeMlTable, TypeIpfs, TypeMl
  <2>3. RowsUnspent'
    BY <1>18 DEF MlDbError, RowsUnspent, OpsInHand, TypeIpfs, TypeIpfsTable, TypeMlTable,
        TypeMl, Fresh, NoBatch, PendingMintlayerBatch, MlRow, IpfsRow
  <2>4. CopiesWithinLimit'
    BY <1>18 DEF MlDbError, CopiesWithinLimit, TypeMl, NoBatch, PendingMintlayerBatch
  <2> QED
    BY <1>18, <2>1, <2>2, <2>3, <2>4
    DEF MlDbError, TypeAgg, TypeIpfsTable, TypeMlTable, TypeAged, TypeNet, TypeIpfs,
        TypeBreaker, OpsInHand, BatchWithinLimit, Fresh
<1>19. ASSUME NEW w \in Workers, CoolDown(w) PROVE IndInv'
  <2>1. TypeBreaker'
    BY <1>19 DEF CoolDown, TypeBreaker, Workers
  <2> QED
    BY <1>19, <2>1
    DEF CoolDown, TypeAgg, TypeIpfsTable, TypeMlTable, TypeAged, TypeNet, TypeIpfs,
        TypeMl, CopiesKnown, OpsInHand, RowsUnspent, BatchWithinLimit, CopiesWithinLimit,
        Fresh
<1>20. CASE cleanup_old_operations
  <2>1. TypeIpfsTable'
    BY <1>20 DEF cleanup_old_operations, Removable, TypeAgg, TypeIpfsTable, TypeIpfs,
        IpfsRow, Status, Ops, NoOp
  <2>2. TypeMlTable'
    BY <1>20 DEF cleanup_old_operations, Removable, TypeMlTable, TypeIpfs, TypeMl,
        CopiesKnown, MlRow, PendingMintlayerBatch, Status
  <2>3. OpsInHand'
    BY <1>20 DEF cleanup_old_operations, Removable, TypeAgg, TypeIpfsTable, OpsInHand,
        RowsUnspent, TypeIpfs, Fresh, NoOp
  <2>4. RowsUnspent'
    BY <1>20 DEF cleanup_old_operations, Removable, RowsUnspent, OpsInHand, TypeIpfs,
        TypeIpfsTable, TypeMlTable, TypeMl, Fresh, NoBatch, PendingMintlayerBatch, MlRow,
        IpfsRow
  <2>5. BatchWithinLimit'
    BY <1>20 DEF cleanup_old_operations, Removable, BatchWithinLimit, CopiesWithinLimit
  <2> QED
    BY <1>20, <2>1, <2>2, <2>3, <2>4, <2>5
    DEF cleanup_old_operations, TypeAgg, TypeAged, TypeNet, TypeIpfs, TypeMl, TypeBreaker,
        CopiesKnown, CopiesWithinLimit
<1>21. CASE Age
  <2>1. TypeAged'
    BY <1>21 DEF Age, TypeAgg, TypeAged, TypeMlTable
  <2> QED
    BY <1>21, <2>1
    DEF Age, TypeAgg, TypeIpfsTable, TypeMlTable, TypeNet, TypeIpfs, TypeMl, TypeBreaker,
        CopiesKnown, OpsInHand, RowsUnspent, BatchWithinLimit, CopiesWithinLimit, Fresh
<1>22. CASE Crash
  <2>1. TypeAgg'
    BY <1>22 DEF Crash, TypeAgg, NoOp
  <2>2. TypeIpfs'
    BY <1>22 DEF Crash, TypeAgg, TypeIpfs, TypeIpfsTable, OpsInHand, RowsUnspent, Fresh,
        IpfsRow, NoOp, NoBatch, PendingMintlayerBatch, Status
  <2>3. TypeMl'
    BY <1>22 DEF Crash, TypeMl, NoBatch, PendingMintlayerBatch, Status
  <2>4. TypeBreaker'
    BY <1>22 DEF Crash, TypeBreaker, Workers
  <2>5. CopiesKnown'
    BY <1>22 DEF Crash, CopiesKnown, TypeMlTable, TypeIpfs, TypeMl
  <2>6. OpsInHand'
    BY <1>22 DEF Crash, TypeAgg, TypeIpfsTable, OpsInHand, RowsUnspent, TypeIpfs, Fresh,
        NoOp
  <2>7. RowsUnspent'
    BY <1>22 DEF Crash, RowsUnspent, OpsInHand, TypeIpfs, TypeIpfsTable, TypeMlTable,
        TypeMl, Fresh, NoBatch, PendingMintlayerBatch, MlRow, IpfsRow
  <2>8. CopiesWithinLimit'
    BY <1>22 DEF Crash, CopiesWithinLimit, TypeMl, NoBatch, PendingMintlayerBatch
  <2> QED
    BY <1>22, <2>1, <2>2, <2>3, <2>4, <2>5, <2>6, <2>7, <2>8
    DEF Crash, TypeIpfsTable, TypeMlTable, TypeAged, TypeNet, BatchWithinLimit
<1>23. CASE UNCHANGED vars
  BY <1>23 DEF vars, TypeAgg, TypeIpfsTable, TypeMlTable, TypeAged, TypeNet, TypeIpfs,
      TypeMl, TypeBreaker, CopiesKnown, OpsInHand, RowsUnspent, BatchWithinLimit,
      CopiesWithinLimit, Fresh
<1> QED
  BY <1>1, <1>2, <1>3, <1>4, <1>5, <1>6, <1>7, <1>8, <1>9, <1>10, <1>11, <1>12, <1>13,
      <1>14, <1>15, <1>16, <1>17, <1>18, <1>19, <1>20, <1>21, <1>22, <1>23 DEF Next,
      IpfsNext, MlNext

\* The inductive invariant holds in every reachable state.
LEMMA Inductive == Spec => []IndInv
  BY InitInd, StepInd, PTL DEF Spec

\* Type correctness of the worker, its tables and the copies its tasks hold.
THEOREM TypeCorrect == Spec => []TypeOK
<1>1. IndInv => TypeOK
  BY DEF IndInv
<1> QED BY <1>1, Inductive, PTL

\* No batch row and no deposit ever exceeds batch_size hashes, although
\* queue_mintlayer_batch and process_mintlayer_batch write back stale copies.
THEOREM BatchSizeRespected == Spec => []BatchWithinLimit
<1>1. IndInv => BatchWithinLimit
  BY DEF IndInv
<1> QED BY <1>1, Inductive, PTL

\* No fetched row has used up its attempts: the backoff loops always make a call.
THEOREM RetriesNeverExhausted == Spec => []NoRowExhausted
<1>1. IndInv => NoRowExhausted
  BY ParamsAssumption
  DEF IndInv, TypeOK, TypeIpfsTable, RowsUnspent, NoRowExhausted, Selected, Fresh
<1> QED BY <1>1, Inductive, PTL

-----------------------------------------------------------------------------
(* The circuit breaker.                                                    *)

\* A worker is between two calls of one pass, and the attempts of that pass.
InPass(w) == IF w = "ipfs" THEN ipfsPc = "upload" ELSE mlPc = "submit"
Spent(w) == IF ~InPass(w) THEN 0 ELSE IF w = "ipfs" THEN ipfsAttempts ELSE mlBatch.attempts
\* Failures recorded since the last cool-down.
Counted(w) == IF elapsed[w] THEN 0 ELSE failures[w]

\* Each recorded failure stands for MaxAttempts calls, and a pass begins only while
\* the breaker is closed.
BurstInv ==
    \A w \in Workers : /\ InPass(w) => Counted(w) < FailureThreshold
                       /\ burst[w] <= Counted(w) * MaxAttempts + Spent(w)

\* The numbers involved.
BurstTypes ==
    \A w \in Workers :
        /\ burst[w] \in Nat /\ Counted(w) \in 0 .. FailureThreshold /\ failures[w] \in 0 .. FailureThreshold
        /\ elapsed[w] \in BOOLEAN /\ Spent(w) \in Nat /\ Spent(w) < MaxAttempts

\* The constants, as numbers.
LEMMA BreakerConstants ==
    MaxAttempts \in Nat /\ FailureThreshold \in Nat /\ 1 <= MaxAttempts /\ 1 <= FailureThreshold
  BY ParamsAssumption

\* A reachable state has them.
LEMMA BurstTyped == IndInv => BurstTypes
<1> SUFFICES ASSUME IndInv, NEW w \in Workers
             PROVE  /\ burst[w] \in Nat /\ Counted(w) \in 0 .. FailureThreshold
                    /\ failures[w] \in 0 .. FailureThreshold
                    /\ elapsed[w] \in BOOLEAN /\ Spent(w) \in Nat /\ Spent(w) < MaxAttempts
  BY DEF BurstTypes
<1>1. burst[w] \in Nat /\ failures[w] \in 0 .. FailureThreshold /\ elapsed[w] \in BOOLEAN
  BY DEF IndInv, TypeOK, TypeBreaker
<1>2. ipfsAttempts \in Nat /\ ipfsAttempts < MaxAttempts /\ mlBatch.attempts \in Nat /\ mlBatch.attempts < MaxAttempts
  <2>1. mlBatch \in PendingMintlayerBatch /\ ipfsAttempts \in 0 .. MaxAttempts
    BY DEF IndInv, TypeOK, TypeMl, TypeIpfs
  <2> QED BY <2>1, BreakerConstants DEF IndInv, RowsUnspent, PendingMintlayerBatch
<1> QED BY <1>1, <1>2, BreakerConstants DEF Counted, Spent

\* The product is monotone.
LEMMA ProductGrows ==
    ASSUME NEW m \in Nat, NEW f \in Nat, NEW g \in Nat, f <= g
    PROVE  f * m \in Nat /\ f * m <= g * m
  OBVIOUS

\* A worker whose breaker, attempts and burst stay, or whose burst ends.
LEMMA BurstKept ==
    ASSUME BurstTypes, BurstTypes', NEW w \in Workers,
           InPass(w) => Counted(w) < FailureThreshold,
           burst[w] <= Counted(w) * MaxAttempts + Spent(w),
           \/ /\ burst'[w] = burst[w] /\ failures'[w] = failures[w] /\ elapsed'[w] = elapsed[w]
              /\ \/ InPass(w)' = InPass(w) /\ Spent(w)' = Spent(w)
                 \/ Spent(w) = 0 /\ (InPass(w)' => Counted(w) < FailureThreshold)
           \/ burst'[w] = 0 /\ (InPass(w)' => Counted(w)' < FailureThreshold)
    PROVE  (InPass(w) => Counted(w) < FailureThreshold)' /\ (burst[w] <= Counted(w) * MaxAttempts + Spent(w))'
<1>1. /\ Counted(w) \in Nat /\ Counted(w)' \in Nat /\ Spent(w) \in Nat /\ Spent(w)' \in Nat /\ MaxAttempts \in Nat
      /\ burst[w] \in Nat
  BY BreakerConstants DEF BurstTypes
<1>2. Counted(w) * MaxAttempts \in Nat /\ Counted(w)' * MaxAttempts \in Nat
  BY <1>1
<1>3. CASE burst'[w] = 0 /\ (InPass(w)' => Counted(w)' < FailureThreshold)
  BY <1>1, <1>2, <1>3
<1>4. CASE /\ burst'[w] = burst[w] /\ failures'[w] = failures[w] /\ elapsed'[w] = elapsed[w]
           /\ \/ InPass(w)' = InPass(w) /\ Spent(w)' = Spent(w)
              \/ Spent(w) = 0 /\ (InPass(w)' => Counted(w) < FailureThreshold)
  <2>1. Counted(w)' = Counted(w)
    BY <1>4 DEF Counted
  <2>2. (InPass(w)' => Counted(w) < FailureThreshold) /\ Spent(w) <= Spent(w)'
    BY <1>1, <1>4
  <2> QED BY <1>1, <1>2, <1>4, <2>1, <2>2
<1> QED BY <1>3, <1>4

\* A failed call: one more attempt, or the pass ends and its failure is recorded.
LEMMA BurstFails ==
    ASSUME BurstTypes, BurstTypes', NEW w \in Workers, InPass(w),
           Counted(w) < FailureThreshold,
           burst[w] <= Counted(w) * MaxAttempts + Spent(w),
           burst'[w] = burst[w] + 1,
           \/ /\ failures'[w] = failures[w] /\ elapsed'[w] = elapsed[w]
              /\ InPass(w)' /\ Spent(w)' = Spent(w) + 1
           \/ /\ failures'[w] = IF failures[w] < FailureThreshold THEN failures[w] + 1 ELSE failures[w]
              /\ elapsed'[w] = FALSE /\ ~InPass(w)'
    PROVE  (InPass(w) => Counted(w) < FailureThreshold)' /\ (burst[w] <= Counted(w) * MaxAttempts + Spent(w))'
<1>1. /\ Counted(w) \in Nat /\ Counted(w)' \in Nat /\ Spent(w) \in Nat /\ Spent(w)' \in Nat /\ MaxAttempts \in Nat
      /\ burst[w] \in Nat /\ Spent(w) < MaxAttempts /\ failures[w] \in Nat /\ FailureThreshold \in Nat
      /\ failures[w] <= FailureThreshold /\ 1 <= FailureThreshold
  BY BreakerConstants DEF BurstTypes
<1>2. CASE failures'[w] = failures[w] /\ elapsed'[w] = elapsed[w] /\ InPass(w)' /\ Spent(w)' = Spent(w) + 1
  <2>1. Counted(w)' = Counted(w)
    BY <1>2 DEF Counted
  <2>2. Counted(w) * MaxAttempts \in Nat
    BY <1>1
  <2> QED BY <1>1, <1>2, <2>1, <2>2
<1>3. CASE /\ failures'[w] = IF failures[w] < FailureThreshold THEN failures[w] + 1 ELSE failures[w]
           /\ elapsed'[w] = FALSE /\ ~InPass(w)'
  <2>1. Counted(w)' = failures'[w] /\ Counted(w) + 1 <= failures'[w] /\ Spent(w)' = 0
    BY <1>1, <1>3 DEF Counted, Spent
  <2>2. (Counted(w) + 1) * MaxAttempts = Counted(w) * MaxAttempts + MaxAttempts
    BY <1>1
  <2>3. Counted(w) * MaxAttempts \in Nat /\ (Counted(w) + 1) * MaxAttempts \in Nat
        /\ (Counted(w) + 1) * MaxAttempts <= Counted(w)' * MaxAttempts
    BY <1>1, <2>1, ProductGrows
  <2>4. Counted(w)' * MaxAttempts \in Nat
    BY <1>1
  <2>5. burst[w] + 1 <= Counted(w)' * MaxAttempts
    BY <1>1, <2>2, <2>3, <2>4
  <2> QED BY <1>1, <1>3, <2>1, <2>4, <2>5
<1> QED BY <1>2, <1>3

\* Every step keeps the burst within what the breaker has counted.
LEMMA StepBurst == ASSUME IndInv, IndInv', BurstTypes', BurstInv, Next PROVE BurstInv'
<1>1. BurstTypes /\ Workers = {"ipfs", "mintlayer"}
  BY BurstTyped DEF Workers
<1> SUFFICES ASSUME NEW w \in Workers
             PROVE  /\ (InPass(w) => Counted(w) < FailureThreshold)'
                    /\ (burst[w] <= Counted(w) * MaxAttempts + Spent(w))'
  BY DEF BurstInv
<1>2. /\ InPass(w) => Counted(w) < FailureThreshold
      /\ burst[w] <= Counted(w) * MaxAttempts + Spent(w)
  BY DEF BurstInv
<1> USE DEF aggVars, dbVars, ageVars, netVars, ipfsVars, mlVars, breakerVars
<1>3. ASSUME UNCHANGED breakerVars,
             w = "ipfs" => (ipfsPc' = ipfsPc /\ ipfsAttempts' = ipfsAttempts) \/ (ipfsPc # "upload" /\ ipfsPc' # "upload"),
             w = "mintlayer" => (mlPc' = mlPc /\ mlBatch' = mlBatch) \/ (mlPc # "submit" /\ mlPc' # "submit")
      PROVE  /\ (InPass(w) => Counted(w) < FailureThreshold)'
             /\ (burst[w] <= Counted(w) * MaxAttempts + Spent(w))'
  <2>1. InPass(w)' = InPass(w) /\ Spent(w)' = Spent(w)
    BY <1>1, <1>3 DEF InPass, Spent
  <2> QED BY <1>1, <1>2, <1>3, <2>1, BurstKept
<1>4. CASE SaveEthTx \/ save_mintlayer_tx \/ SaveMintlayerTxFails \/ cleanup_old_operations \/ Age
  BY <1>3, <1>4 DEF SaveEthTx, save_mintlayer_tx, SaveMintlayerTxFails, cleanup_old_operations, Age
<1>5. CASE IpfsFetch \/ IpfsSleep \/ QueueRead \/ QueueCommit \/ IpfsDbError
  BY <1>3, <1>5 DEF IpfsFetch, IpfsSleep, QueueRead, QueueCommit, IpfsDbError
<1>6. CASE MlFetch \/ MlSleep \/ MlCommit \/ MlDbError
  BY <1>3, <1>6 DEF MlFetch, MlSleep, MlCommit, MlDbError
<1>7. CASE IpfsTake
  <2>1. CASE w = "mintlayer"
    BY <1>3, <1>7, <2>1 DEF IpfsTake
  <2>2. CASE w = "ipfs"
    <3>1. UNCHANGED breakerVars /\ Spent(w) = 0 /\ (InPass(w)' => ~is_open("ipfs"))
      BY <1>7, <2>2 DEF IpfsTake, Spent, InPass
    <3>2. InPass(w)' => Counted(w) < FailureThreshold
      BY <1>1, <2>2, <3>1, BreakerConstants DEF is_open, Counted, BurstTypes
    <3> QED BY <1>1, <1>2, <3>1, <3>2, BurstKept
  <2> QED BY <1>1, <2>1, <2>2
<1>8. CASE MlTake
  <2>1. CASE w = "ipfs"
    BY <1>3, <1>8, <2>1 DEF MlTake
  <2>2. CASE w = "mintlayer"
    <3>1. UNCHANGED breakerVars /\ Spent(w) = 0 /\ (InPass(w)' => ~is_open("mintlayer"))
      BY <1>8, <2>2 DEF MlTake, Spent, InPass
    <3>2. InPass(w)' => Counted(w) < FailureThreshold
      BY <1>1, <2>2, <3>1, BreakerConstants DEF is_open, Counted, BurstTypes
    <3> QED BY <1>1, <1>2, <3>1, <3>2, BurstKept
  <2> QED BY <1>1, <2>1, <2>2
<1>9. ASSUME NEW v \in Workers, burst' = [burst EXCEPT ![v] = 0], UNCHANGED <<failures, elapsed>>, v = w, ~InPass(w)'
      PROVE  /\ (InPass(w) => Counted(w) < FailureThreshold)'
             /\ (burst[w] <= Counted(w) * MaxAttempts + Spent(w))'
  <2>1. burst'[w] = 0
    BY <1>9 DEF IndInv, TypeOK, TypeBreaker
  <2> QED BY <1>1, <1>2, <1>9, <2>1, BurstKept
<1>10. ASSUME NEW v \in Workers, v # w, burst'[w] = burst[w], failures'[w] = failures[w], elapsed'[w] = elapsed[w],
              InPass(w)' = InPass(w) /\ Spent(w)' = Spent(w)
       PROVE  /\ (InPass(w) => Counted(w) < FailureThreshold)'
              /\ (burst[w] <= Counted(w) * MaxAttempts + Spent(w))'
  BY <1>1, <1>2, <1>10, BurstKept
<1>11. failures \in [Workers -> 0 .. FailureThreshold] /\ elapsed \in [Workers -> BOOLEAN] /\ burst \in [Workers -> Nat]
  BY DEF IndInv, TypeOK, TypeBreaker
<1>12. CASE IpfsUploadOk
  <2>1. CASE w = "ipfs"
    BY <1>1, <1>9, <1>12, <2>1 DEF IpfsUploadOk, InPass
  <2>2. CASE w = "mintlayer"
    <3>1. burst'[w] = burst[w] /\ UNCHANGED <<failures, elapsed, mlPc, mlBatch>>
      BY <1>12, <1>11, <2>2 DEF IpfsUploadOk
    <3> QED BY <1>1, <1>10, <2>2, <3>1 DEF InPass, Spent
  <2> QED BY <1>1, <2>1, <2>2
<1>13. CASE MlSubmitOk
  <2>1. CASE w = "mintlayer"
    BY <1>1, <1>9, <1>13, <2>1 DEF MlSubmitOk, InPass
  <2>2. CASE w = "ipfs"
    <3>1. burst'[w] = burst[w] /\ UNCHANGED <<failures, elapsed, ipfsPc, ipfsAttempts>>
      BY <1>13, <1>11, <2>2 DEF MlSubmitOk
    <3> QED BY <1>1, <1>10, <2>2, <3>1 DEF InPass, Spent
  <2> QED BY <1>1, <2>1, <2>2
<1>14. CASE IpfsUploadFails
  <2>1. CASE w = "ipfs"
    <3>1. InPass(w) /\ Spent(w) = ipfsAttempts /\ burst'[w] = burst[w] + 1
      BY <1>11, <1>14, <2>1 DEF IpfsUploadFails, InPass, Spent
    <3>2. \/ /\ failures'[w] = failures[w] /\ elapsed'[w] = elapsed[w]
             /\ InPass(w)' /\ Spent(w)' = Spent(w) + 1
          \/ /\ failures'[w] = IF failures[w] < FailureThreshold THEN failures[w] + 1 ELSE failures[w]
             /\ elapsed'[w] = FALSE /\ ~InPass(w)'
      BY <1>11, <1>14, <2>1, <3>1 DEF IpfsUploadFails, InPass, Spent, record_failure
    <3> QED BY <1>1, <1>2, <3>1, <3>2, BurstFails
  <2>2. CASE w = "mintlayer"
    <3>1. burst'[w] = burst[w] /\ failures'[w] = failures[w] /\ elapsed'[w] = elapsed[w] /\ UNCHANGED <<mlPc, mlBatch>>
      BY <1>14, <1>11, <2>2 DEF IpfsUploadFails, record_failure
    <3> QED BY <1>1, <1>10, <2>2, <3>1 DEF InPass, Spent
  <2> QED BY <1>1, <2>1, <2>2
<1>15. CASE MlSubmitFails
  <2>1. CASE w = "mintlayer"
    <3>1. InPass(w) /\ Spent(w) = mlBatch.attempts /\ burst'[w] = burst[w] + 1
      BY <1>11, <1>15, <2>1 DEF MlSubmitFails, InPass, Spent
    <3>2. mlBatch \in PendingMintlayerBatch
      BY DEF IndInv, TypeOK, TypeMl
    <3>3. CASE /\ mlBatch' = [mlBatch EXCEPT !.attempts = @ + 1] /\ UNCHANGED <<mlPc, failures, elapsed>>
      <4>1. mlBatch'.attempts = mlBatch.attempts + 1
        BY <3>2, <3>3 DEF PendingMintlayerBatch
      <4>2. InPass(w)' /\ Spent(w)' = Spent(w) + 1
        BY <2>1, <3>1, <3>3, <4>1 DEF InPass, Spent
      <4> QED BY <1>1, <1>2, <3>1, <3>3, <4>2, BurstFails
    <3>4. CASE record_failure("mintlayer") /\ mlPc' = "loop"
      <4>1. /\ failures'[w] = IF failures[w] < FailureThreshold THEN failures[w] + 1 ELSE failures[w]
            /\ elapsed'[w] = FALSE /\ ~InPass(w)'
        BY <1>11, <2>1, <3>4 DEF record_failure, InPass
      <4> QED BY <1>1, <1>2, <3>1, <4>1, BurstFails
    <3> QED BY <1>15, <3>3, <3>4 DEF MlSubmitFails
  <2>2. CASE w = "ipfs"
    <3>1. burst'[w] = burst[w] /\ failures'[w] = failures[w] /\ elapsed'[w] = elapsed[w] /\ UNCHANGED <<ipfsPc, ipfsAttempts>>
      BY <1>15, <1>11, <2>2 DEF MlSubmitFails, record_failure
    <3> QED BY <1>1, <1>10, <2>2, <3>1 DEF InPass, Spent
  <2> QED BY <1>1, <2>1, <2>2
<1>16. ASSUME NEW v \in Workers, CoolDown(v)
       PROVE  /\ (InPass(w) => Counted(w) < FailureThreshold)'
              /\ (burst[w] <= Counted(w) * MaxAttempts + Spent(w))'
  <2>1. CASE v = w
    <3>1. burst'[w] = 0 /\ elapsed'[w] = TRUE
      BY <1>11, <1>16, <2>1 DEF CoolDown
    <3>2. Counted(w)' < FailureThreshold
      BY <3>1, BreakerConstants DEF Counted
    <3> QED BY <1>1, <1>2, <3>1, <3>2, BurstKept
  <2>2. CASE v # w
    <3>1. /\ burst'[w] = burst[w] /\ failures'[w] = failures[w] /\ elapsed'[w] = elapsed[w]
          /\ UNCHANGED <<ipfsPc, ipfsAttempts, mlPc, mlBatch>>
      BY <1>11, <1>16, <2>2 DEF CoolDown
    <3> QED BY <1>1, <1>10, <2>2, <3>1 DEF InPass, Spent
  <2> QED BY <2>1, <2>2
<1>17. CASE Crash
  <2>1. burst'[w] = 0 /\ ~InPass(w)'
    BY <1>1, <1>17 DEF Crash, InPass
  <2> QED BY <1>1, <1>2, <2>1, BurstKept
<1> QED BY <1>4, <1>5, <1>6, <1>7, <1>8, <1>12, <1>13, <1>14, <1>15, <1>16, <1>17 DEF Next, IpfsNext, MlNext

\* The circuit breaker does its job whatever the retries, crashes and cool-downs: a
\* service that is down gets at most failure_threshold times MaxAttempts calls between
\* a success or a cool-down and the next.
THEOREM BreakerHolds == Spec => []BreakerBoundsBurst
<1>1. Init => BurstInv
  BY BreakerConstants DEF Init, BurstInv, InPass, Spent, Counted, Workers
<1>2. IndInv /\ BurstInv /\ BurstTypes' /\ IndInv' /\ [Next]_vars => BurstInv'
  <2>1. ASSUME UNCHANGED vars, BurstInv PROVE BurstInv'
    BY <2>1 DEF vars, BurstInv, InPass, Spent, Counted
  <2> QED BY <2>1, StepBurst
<1>3. IndInv /\ BurstInv => BreakerBoundsBurst
  <2> SUFFICES ASSUME IndInv, BurstInv, NEW w \in Workers PROVE burst[w] <= FailureThreshold * MaxAttempts
    BY DEF BreakerBoundsBurst
  <2> DEFINE c == Counted(w)
             n == Spent(w)
             b == burst[w]
  <2>1. /\ b \in Nat /\ c \in 0 .. FailureThreshold /\ n \in Nat /\ n < MaxAttempts
        /\ b <= c * MaxAttempts + n /\ (InPass(w) => c < FailureThreshold)
    BY BurstTyped DEF BurstTypes, BurstInv
  <2>2. n = 0 \/ InPass(w)
    BY DEF Spent
  <2> HIDE DEF c, n, b
  <2>3. CASE n = 0
    <3>1. c * MaxAttempts \in Nat /\ c * MaxAttempts <= FailureThreshold * MaxAttempts /\ FailureThreshold * MaxAttempts \in Nat
      BY <2>1, BreakerConstants, ProductGrows
    <3>2. b <= FailureThreshold * MaxAttempts
      BY <2>1, <2>3, <3>1
    <3> QED BY <3>2 DEF b
  <2>4. CASE c < FailureThreshold
    <3>1. c + 1 \in Nat /\ c + 1 <= FailureThreshold /\ c \in Nat
      BY <2>1, <2>4, BreakerConstants
    <3>2. (c + 1) * MaxAttempts = c * MaxAttempts + MaxAttempts
      BY <3>1, BreakerConstants
    <3>3. c * MaxAttempts \in Nat /\ (c + 1) * MaxAttempts <= FailureThreshold * MaxAttempts
          /\ FailureThreshold * MaxAttempts \in Nat /\ (c + 1) * MaxAttempts \in Nat
      BY <3>1, BreakerConstants, ProductGrows
    <3>4. b <= FailureThreshold * MaxAttempts
      BY <2>1, <3>2, <3>3, BreakerConstants
    <3> QED BY <3>4 DEF b
  <2> QED BY <2>1, <2>2, <2>3, <2>4
<1> QED BY <1>1, <1>2, <1>3, Inductive, BurstTyped, PTL DEF Spec

-----------------------------------------------------------------------------
(***************************************************************************)
(* Where the IPFS hashes are: a hash is queued or deposited only when its  *)
(* operation is completed, and listed in one place of one batch.  Both are *)
(* inductive only when they speak of every copy of a batch, in the table   *)
(* or in a worker's hands.                                                 *)
(***************************************************************************)

\* The operations that were uploaded, completed and perhaps cleaned up.
Settled(op) == op \in ipfsStore /\ (Completed(op) \/ Removed(op))
SettledOps == {op \in Ops : Settled(op)}
AllIn(hashes, ops) == \A n \in DOMAIN hashes : hashes[n] \in ops

\* Every list of hashes there is, with the id of its batch.
List(id, hashes) == [id |-> id, hashes |-> hashes]
Lists ==
    {List(i, mlTable[i].hashes) : i \in DOMAIN mlTable}
    \cup {List(b.id, b.hashes) : b \in mlQueue}
    \cup {List(mlBatch.id, mlBatch.hashes), List(ipfsBatch.id, ipfsBatch.hashes)}

\* The operation in the upload task's hands is the only listed one that may be
\* unsettled, and only in the list that is about to be committed with it.
RowsSettled == \A i \in DOMAIN mlTable : AllIn(mlTable[i].hashes, SettledOps)
CopiesSettled == /\ \A b \in mlQueue : AllIn(b.hashes, SettledOps)
                 /\ AllIn(mlBatch.hashes, SettledOps)
DepositsSettled == \A d \in deposits : AllIn(d, SettledOps)
QueuedSettled == IF ipfsPc = "queued"
                 THEN AllIn(ipfsBatch.hashes, SettledOps \cup {ipfsOp})
                 ELSE ipfsBatch = NoBatch
ListsSettled == RowsSettled /\ CopiesSettled /\ DepositsSettled /\ QueuedSettled

\* What is on IPFS was recorded before, and the operation in hand is there.
Stored ==
    /\ ipfsStore \subseteq 1 .. lastOp
    /\ aggOp # NoOp => aggOp \notin ipfsStore
    /\ ipfsPc \in {"uploaded", "queued"} => ipfsOp \in ipfsStore

\* An operation is listed at one position of the lists of one batch.
UniqueIn(L) ==
    \A x, y \in L : \A m \in DOMAIN x.hashes, n \in DOMAIN y.hashes :
        x.hashes[m] = y.hashes[n] => x.id = y.id /\ m = n
Unique == UniqueIn(Lists)
NotListed(op, L) == \A x \in L : \A m \in DOMAIN x.hashes : x.hashes[m] # op

HashInv == ListsSettled /\ Stored /\ Unique

-----------------------------------------------------------------------------
\* The initial state satisfies the invariant.
LEMMA InitHash == Init => HashInv
<1> SUFFICES ASSUME Init PROVE HashInv
  OBVIOUS
<1>1. ListsSettled
  BY DEF Init, ListsSettled, RowsSettled, CopiesSettled, DepositsSettled, QueuedSettled,
      AllIn, NoBatch
<1>2. Stored
  BY DEF Init, Stored, NoOp
<1>3. Lists = {List(0, <<>>)}
  BY DEF Init, Lists, NoBatch
<1>4. Unique
  BY <1>3 DEF Unique, UniqueIn, List
<1> QED BY <1>1, <1>2, <1>4 DEF HashInv

\* A settled operation stays settled: completed rows are only removed by
\* cleanup_old_operations, and only the operation in hand is written.
LEMMA StaysSettled ==
    ASSUME IndInv, Stored, Next, NEW op, Settled(op)
    PROVE  Settled(op)'
<1> USE ParamsAssumption DEF IndInv, TypeOK, Settled, Completed, Removed, aggVars, dbVars, ageVars,
      netVars, ipfsVars, mlVars, breakerVars
<1>0. op \in 1 .. lastOp /\ lastOp \in Nat
  BY DEF Stored, TypeAgg
<1>1. CASE save_mintlayer_tx
  BY <1>0, <1>1 DEF save_mintlayer_tx, Stored
<1>2. CASE QueueCommit
  BY <1>0, <1>2 DEF QueueCommit, update_ipfs_operations
<1>3. CASE cleanup_old_operations
  <2> DEFINE keep == {i \in DOMAIN ipfsTable : i > agedOps \/ ~Removable(ipfsTable[i])}
  <2>1. ipfsTable' = [i \in keep |-> ipfsTable[i]] /\ UNCHANGED <<ipfsStore, agedOps>>
    BY <1>3 DEF cleanup_old_operations
  <2>2. agedOps \in Nat
    BY <1>0 DEF TypeAged
  <2>3. CASE op \in keep
    BY <2>1, <2>3
  <2>4. CASE op \notin keep
    BY <1>0, <2>1, <2>2, <2>4
  <2> QED BY <2>3, <2>4
<1>4. CASE Age
  BY <1>0, <1>4 DEF Age, TypeAged
<1>5. CASE SaveEthTx \/ SaveMintlayerTxFails \/ MlNext \/ \E w \in Workers : CoolDown(w)
  BY <1>5 DEF SaveEthTx, SaveMintlayerTxFails, MlNext, MlFetch, MlSleep, MlTake, MlSubmitOk,
      MlSubmitFails, MlCommit, MlDbError, CoolDown
<1>6. CASE IpfsFetch \/ IpfsSleep \/ IpfsTake \/ IpfsUploadOk \/ IpfsUploadFails \/ QueueRead
            \/ IpfsDbError \/ Crash
  BY <1>6 DEF IpfsFetch, IpfsSleep, IpfsTake, IpfsUploadOk, IpfsUploadFails, QueueRead,
      IpfsDbError, Crash
<1> QED
  BY <1>1, <1>2, <1>3, <1>4, <1>5, <1>6 DEF Next, IpfsNext

\* What is on IPFS was recorded: the next operation is not there yet.
LEMMA StepStored == ASSUME IndInv, Stored, Next PROVE Stored'
<1> USE ParamsAssumption DEF IndInv, TypeOK, Stored, aggVars, dbVars, ageVars, netVars, ipfsVars,
      mlVars, breakerVars, NoOp
<1>0. lastOp \in Nat /\ aggOp \in 0 .. lastOp /\ ipfsOp \in 0 .. lastOp
  BY DEF TypeAgg, TypeIpfs
<1>1. CASE SaveEthTx
  BY <1>0, <1>1 DEF SaveEthTx
<1>2. CASE IpfsUploadOk \/ IpfsUploadFails
  <2>1. ipfsOp \in DOMAIN ipfsTable /\ ipfsOp # aggOp /\ ipfsOp \in 1 .. lastOp
    BY <1>0, <1>2 DEF IpfsUploadOk, IpfsUploadFails, OpsInHand, Fresh, TypeIpfsTable
  <2> QED
    BY <1>0, <1>2, <2>1 DEF IpfsUploadOk, IpfsUploadFails
<1>3. CASE save_mintlayer_tx \/ SaveMintlayerTxFails \/ cleanup_old_operations \/ Age \/ Crash
            \/ \E w \in Workers : CoolDown(w)
  BY <1>3 DEF save_mintlayer_tx, SaveMintlayerTxFails, cleanup_old_operations, Age, Crash, CoolDown
<1>4. CASE MlNext
  BY <1>4 DEF MlNext, MlFetch, MlSleep, MlTake, MlSubmitOk, MlSubmitFails, MlCommit, MlDbError
<1>5. CASE IpfsFetch \/ IpfsSleep \/ IpfsTake \/ QueueRead \/ QueueCommit \/ IpfsDbError
  BY <1>5 DEF IpfsFetch, IpfsSleep, IpfsTake, QueueRead, QueueCommit, IpfsDbError
<1> QED
  BY <1>1, <1>2, <1>3, <1>4, <1>5 DEF Next, IpfsNext

\* Settled operations stay settled, all at once.
LEMMA SettledGrows == ASSUME IndInv, Stored, Next PROVE SettledOps \subseteq SettledOps'
<1>1. \A op : Settled(op) => Settled(op)'
  BY StaysSettled
<1> QED BY <1>1 DEF SettledOps, Ops

\* The operation in the upload task's hands is not settled before the commit.
LEMMA HandUnsettled ==
    ASSUME IndInv, ipfsPc \in {"upload", "uploaded", "queued"}
    PROVE  ipfsOp \notin SettledOps
  BY DEF IndInv, OpsInHand, Fresh, SettledOps, Settled, Completed, Removed

\* The transaction of queue_mintlayer_batch settles it.
LEMMA CommitSettles == ASSUME IndInv, Stored, QueueCommit PROVE ipfsOp \in SettledOps'
<1>1. ipfsOp \in DOMAIN ipfsTable /\ ipfsOp \in ipfsStore /\ ipfsPc = "queued"
  BY DEF IndInv, OpsInHand, Fresh, QueueCommit, Stored
<1>2. ipfsOp \in Ops
  BY <1>1 DEF IndInv, TypeOK, TypeNet
<1>3. ipfsOp \in DOMAIN ipfsTable' /\ ipfsTable'[ipfsOp].status = "completed"
  BY <1>1 DEF QueueCommit, update_ipfs_operations
<1> QED
  BY <1>1, <1>2, <1>3 DEF QueueCommit, SettledOps, Settled, Completed, netVars

\* Writing a batch back changes its own row only.
LEMMA RowsAfterUpdate ==
    ASSUME NEW id, NEW hashes, NEW attempts, NEW status,
           update_mintlayer_batch([id |-> id, hashes |-> hashes, attempts |-> attempts,
                                   status |-> status])
    PROVE  \A i \in DOMAIN mlTable' :
              \/ i = id /\ mlTable'[i].hashes = hashes
              \/ i \in DOMAIN mlTable /\ mlTable'[i] = mlTable[i]
  BY DEF update_mintlayer_batch

\* A batch is the record of its fields.
LEMMA BatchFields ==
    ASSUME NEW b \in PendingMintlayerBatch
    PROVE  b = [id |-> b.id, hashes |-> b.hashes, attempts |-> b.attempts, status |-> b.status]
  BY DEF PendingMintlayerBatch

\* The rows after process_mintlayer_batch has written its copy back.
LEMMA RowsAfterMlCommit ==
    ASSUME IndInv, MlCommit
    PROVE  \A i \in DOMAIN mlTable' :
              \/ i = mlBatch.id /\ mlTable'[i].hashes = mlBatch.hashes
              \/ i \in DOMAIN mlTable /\ mlTable'[i] = mlTable[i]
<1>1. mlBatch \in PendingMintlayerBatch
  BY DEF IndInv, TypeOK, TypeMl
<1>2. [mlBatch EXCEPT !.status = "completed"]
        = [id |-> mlBatch.id, hashes |-> mlBatch.hashes, attempts |-> mlBatch.attempts,
           status |-> "completed"]
  BY <1>1 DEF PendingMintlayerBatch
<1>3. update_mintlayer_batch([id |-> mlBatch.id, hashes |-> mlBatch.hashes,
                              attempts |-> mlBatch.attempts, status |-> "completed"])
  BY <1>2, Zenon DEF MlCommit
<1> QED BY <1>3, RowsAfterUpdate

\* The rows after queue_mintlayer_batch has written the batch it extended.
LEMMA RowsAfterQueueCommit ==
    ASSUME IndInv, QueueCommit
    PROVE  \A i \in DOMAIN mlTable' :
              \/ i = ipfsBatch.id /\ mlTable'[i].hashes = ipfsBatch.hashes
              \/ i \in DOMAIN mlTable /\ mlTable'[i] = mlTable[i]
<1>1. ipfsBatch \in PendingMintlayerBatch
  BY DEF IndInv, TypeOK, TypeIpfs
<1>2. update_mintlayer_batch([id |-> ipfsBatch.id, hashes |-> ipfsBatch.hashes,
                              attempts |-> ipfsBatch.attempts, status |-> ipfsBatch.status])
  BY <1>1, BatchFields, Zenon DEF QueueCommit
<1> QED BY <1>2, RowsAfterUpdate

\* What queue_mintlayer_batch reads and extends: a row's list, or an empty one
\* under a fresh id.
LEMMA ReadExtends ==
    ASSUME IndInv, QueueRead
    PROVE  \E id \in Nat, h \in Seq(Ops) :
              /\ ipfsBatch'.id = id /\ ipfsBatch'.hashes = Append(h, ipfsOp)
              /\ \/ id \in DOMAIN mlTable /\ h = mlTable[id].hashes
                 \/ id = nextBatch /\ h = <<>>
<1>0. nextBatch \in Nat
  BY DEF IndInv, TypeOK, TypeMlTable
<1>1. CASE ipfsBatch' = Push(NewBatch(nextBatch), ipfsOp)
  <2>1. ipfsBatch'.id = nextBatch /\ ipfsBatch'.hashes = Append(<<>>, ipfsOp)
    BY <1>1 DEF Push, NewBatch, NoBatch
  <2> QED BY <1>0, <2>1, EmptySeq
<1>2. CASE \E b \in get_pending_mintlayer_batches : ipfsBatch' = Push(b, ipfsOp)
  <2>1. PICK b \in get_pending_mintlayer_batches : ipfsBatch' = Push(b, ipfsOp)
    BY <1>2
  <2>2. b.id \in DOMAIN mlTable /\ b.hashes = mlTable[b.id].hashes
    BY <2>1, PendingCopies
  <2>3. b.id \in Nat /\ b.hashes \in Seq(Ops)
    BY <2>1, PendingCopies DEF PendingMintlayerBatch
  <2>4. ipfsBatch'.id = b.id /\ ipfsBatch'.hashes = Append(b.hashes, ipfsOp)
    BY <2>1 DEF Push
  <2> QED BY <2>2, <2>3, <2>4
<1> QED BY <1>1, <1>2 DEF QueueRead

\* Every step keeps the lists settled.
LEMMA StepSettled == ASSUME IndInv, HashInv, Next PROVE ListsSettled'
<1>0. SettledOps \subseteq SettledOps'
  BY SettledGrows DEF HashInv
<1> USE DEF HashInv, ListsSettled, RowsSettled, CopiesSettled, DepositsSettled, QueuedSettled,
      AllIn, aggVars, dbVars, ageVars, netVars, ipfsVars, mlVars, breakerVars
<1>1. CASE SaveEthTx \/ save_mintlayer_tx \/ SaveMintlayerTxFails \/ Age
            \/ \E w \in Workers : CoolDown(w)
  BY <1>0, <1>1 DEF SaveEthTx, save_mintlayer_tx, SaveMintlayerTxFails, Age, CoolDown
<1>2. CASE IpfsFetch \/ IpfsSleep \/ IpfsTake \/ IpfsUploadOk \/ IpfsUploadFails \/ IpfsDbError
  BY <1>0, <1>2 DEF IpfsFetch, IpfsSleep, IpfsTake, IpfsUploadOk, IpfsUploadFails, IpfsDbError
<1>3. CASE MlSleep \/ MlTake \/ MlDbError \/ MlSubmitOk
  BY <1>0, <1>3 DEF MlSleep, MlTake, MlDbError, MlSubmitOk, NoBatch
<1>4. CASE MlSubmitFails
  <2>1. mlBatch'.hashes = mlBatch.hashes \/ mlBatch' = NoBatch
    BY <1>4 DEF MlSubmitFails, IndInv, TypeOK, TypeMl, PendingMintlayerBatch
  <2> QED BY <1>0, <1>4, <2>1 DEF MlSubmitFails, NoBatch
<1>5. CASE MlFetch
  <2>1. \A b \in mlQueue' : \E i \in DOMAIN mlTable : b.hashes = mlTable[i].hashes
    BY <1>5, PendingCopies DEF MlFetch
  <2> QED BY <1>0, <1>5, <2>1 DEF MlFetch
<1>6. CASE MlCommit
  <2>1. \A i \in DOMAIN mlTable' : \/ mlTable'[i].hashes = mlBatch.hashes
                                   \/ i \in DOMAIN mlTable /\ mlTable'[i] = mlTable[i]
    BY <1>6, RowsAfterMlCommit
  <2>2. RowsSettled'
    BY <1>0, <2>1
  <2> QED BY <1>0, <1>6, <2>2 DEF MlCommit, NoBatch
<1>7. CASE QueueRead
  <2>1. PICK h \in Seq(Ops) : ipfsBatch'.hashes = Append(h, ipfsOp) /\ AllIn(h, SettledOps)
    BY <1>7, ReadExtends
  <2>2. AllIn(ipfsBatch'.hashes, SettledOps \cup {ipfsOp})
    BY <2>1
  <2> QED BY <1>0, <1>7, <2>2 DEF QueueRead
<1>8. CASE QueueCommit
  <2>1. \A i \in DOMAIN mlTable' : \/ mlTable'[i].hashes = ipfsBatch.hashes
                                   \/ i \in DOMAIN mlTable /\ mlTable'[i] = mlTable[i]
    BY <1>8, RowsAfterQueueCommit
  <2>2. AllIn(ipfsBatch.hashes, SettledOps')
    BY <1>0, <1>8, CommitSettles DEF QueueCommit
  <2>3. RowsSettled'
    BY <1>0, <2>1, <2>2
  <2> QED BY <1>0, <1>8, <2>3 DEF QueueCommit
<1>9. CASE cleanup_old_operations
  BY <1>0, <1>9 DEF cleanup_old_operations
<1>10. CASE Crash
  BY <1>0, <1>10 DEF Crash, NoBatch
<1> QED
  BY <1>1, <1>2, <1>3, <1>4, <1>5, <1>6, <1>7, <1>8, <1>9, <1>10 DEF Next, IpfsNext, MlNext

-----------------------------------------------------------------------------
\* Lists that were there before, and the empty one, stay unique.
LEMMA UniqueKept ==
    ASSUME Unique, Lists' \subseteq Lists \cup {List(0, <<>>)}
    PROVE  Unique'
<1> SUFFICES ASSUME NEW x \in Lists', NEW y \in Lists',
                    NEW m \in DOMAIN x.hashes, NEW n \in DOMAIN y.hashes,
                    x.hashes[m] = y.hashes[n]
             PROVE  x.id = y.id /\ m = n
  BY DEF Unique, UniqueIn
<1>1. \A z \in {List(0, <<>>)} : DOMAIN z.hashes = {}
  BY DEF List
<1>2. x \in Lists /\ y \in Lists
  BY <1>1
<1> QED BY <1>2 DEF Unique, UniqueIn

\* The lists before and after a step that only moves copies around.
LEMMA ListsMoved ==
    ASSUME \A i \in DOMAIN mlTable' : List(i, mlTable'[i].hashes) \in Lists,
           \A b \in mlQueue' : List(b.id, b.hashes) \in Lists,
           mlBatch' = NoBatch \/ List(mlBatch'.id, mlBatch'.hashes) \in Lists,
           ipfsBatch' = NoBatch \/ List(ipfsBatch'.id, ipfsBatch'.hashes) \in Lists
    PROVE  Lists' \subseteq Lists \cup {List(0, <<>>)}
<1>1. \A b : b = NoBatch => List(b.id, b.hashes) = List(0, <<>>)
  BY DEF NoBatch
<1>2. List(mlBatch'.id, mlBatch'.hashes) \in Lists \cup {List(0, <<>>)}
  BY <1>1
<1>3. List(ipfsBatch'.id, ipfsBatch'.hashes) \in Lists \cup {List(0, <<>>)}
  BY <1>1
<1> QED BY <1>2, <1>3 DEF Lists

\* The members of Lists, one by one.
LEMMA ListsHolds ==
    /\ \A i \in DOMAIN mlTable : List(i, mlTable[i].hashes) \in Lists
    /\ \A b \in mlQueue : List(b.id, b.hashes) \in Lists
    /\ List(mlBatch.id, mlBatch.hashes) \in Lists
    /\ List(ipfsBatch.id, ipfsBatch.hashes) \in Lists
  BY DEF Lists

\* The hash that queue_mintlayer_batch appends is in no list yet.
LEMMA AppendUnique ==
    ASSUME NEW L, NEW id, NEW h \in Seq(Ops), NEW op \in Ops,
           UniqueIn(L), List(id, h) \in L \/ h = <<>>, NotListed(op, L)
    PROVE  UniqueIn(L \cup {List(id, Append(h, op))})
<1> USE DEF UniqueIn, NotListed
<1> SUFFICES ASSUME NEW x \in L \cup {List(id, Append(h, op))},
                    NEW y \in L \cup {List(id, Append(h, op))},
                    NEW m \in DOMAIN x.hashes, NEW n \in DOMAIN y.hashes,
                    x.hashes[m] = y.hashes[n]
             PROVE  x.id = y.id /\ m = n
  OBVIOUS
<1> DEFINE z == List(id, Append(h, op))
<1>0. z.id = id /\ z.hashes = Append(h, op)
  BY DEF List
<1>1. \A k \in DOMAIN z.hashes :
        \/ k = Len(h) + 1 /\ z.hashes[k] = op
        \/ k \in DOMAIN h /\ z.hashes[k] = h[k] /\ h[k] # op /\ List(id, h) \in L
  <2> SUFFICES ASSUME NEW k \in DOMAIN z.hashes
               PROVE  \/ k = Len(h) + 1 /\ z.hashes[k] = op
                      \/ k \in DOMAIN h /\ z.hashes[k] = h[k] /\ h[k] # op /\ List(id, h) \in L
    OBVIOUS
  <2>1. k \in 1 .. Len(h) + 1
    BY <1>0
  <2>2. CASE k = Len(h) + 1
    BY <1>0, <2>2
  <2>3. CASE k \in 1 .. Len(h)
    <3>1. k \in DOMAIN h /\ z.hashes[k] = h[k]
      BY <1>0, <2>3
    <3>2. List(id, h) \in L
      BY <2>3
    <3>3. h[k] # op
      BY <3>1, <3>2 DEF List
    <3> QED BY <3>1, <3>2, <3>3
  <2> QED BY <2>1, <2>2, <2>3
<1>2. List(id, h).id = id /\ List(id, h).hashes = h
  BY DEF List
<1> HIDE DEF z
<1>3. x \in L \/ x = z
  BY DEF z
<1>4. y \in L \/ y = z
  BY DEF z
<1>5. CASE x \in L /\ y \in L
  BY <1>5
<1>6. CASE x \in L /\ y = z
  BY <1>0, <1>1, <1>2, <1>6
<1>7. CASE x = z /\ y \in L
  BY <1>0, <1>1, <1>2, <1>7
<1>8. CASE x = z /\ y = z
  <2>1. CASE m = Len(h) + 1
    BY <1>1, <1>8, <2>1
  <2>2. CASE n = Len(h) + 1
    BY <1>1, <1>8, <2>2
  <2>3. CASE m # Len(h) + 1 /\ n # Len(h) + 1
    BY <1>1, <1>2, <1>8, <2>3
  <2> QED BY <2>1, <2>2, <2>3
<1> QED BY <1>3, <1>4, <1>5, <1>6, <1>7, <1>8

\* queue_mintlayer_batch adds one list, with the operation in hand at its end.
LEMMA ReadUnique == ASSUME IndInv, HashInv, QueueRead PROVE Unique'
<1>1. PICK id \in Nat, h \in Seq(Ops) :
        /\ ipfsBatch'.id = id /\ ipfsBatch'.hashes = Append(h, ipfsOp)
        /\ \/ id \in DOMAIN mlTable /\ h = mlTable[id].hashes
           \/ id = nextBatch /\ h = <<>>
  BY ReadExtends
<1>2. List(id, h) \in Lists \/ h = <<>>
  BY <1>1, ListsHolds
<1>3. Lists' \subseteq Lists \cup {List(id, Append(h, ipfsOp))}
  BY <1>1 DEF QueueRead, Lists, dbVars, mlVars
<1>4. ipfsOp \in Ops /\ ipfsOp \notin SettledOps
  <2>1. ipfsPc = "uploaded"
    BY DEF QueueRead
  <2>2. ipfsOp \in Ops
    BY <2>1 DEF HashInv, Stored, IndInv, TypeOK, TypeNet
  <2> QED BY <2>1, <2>2, HandUnsettled
<1>5. NotListed(ipfsOp, Lists)
  <2>1. \A x \in Lists : AllIn(x.hashes, SettledOps)
    <3>1. ipfsBatch = NoBatch
      BY DEF QueueRead, HashInv, ListsSettled, QueuedSettled
    <3>2. AllIn(ipfsBatch.hashes, SettledOps)
      BY <3>1 DEF NoBatch, AllIn
    <3> QED
      BY <3>2 DEF HashInv, ListsSettled, RowsSettled, CopiesSettled, Lists, List
  <2> QED BY <1>4, <2>1 DEF AllIn, NotListed
<1>6. UniqueIn(Lists)
  BY DEF HashInv, Unique
<1> DEFINE Grown == Lists \cup {List(id, Append(h, ipfsOp))}
<1>7. UniqueIn(Grown)
  BY <1>2, <1>4, <1>5, <1>6, AppendUnique
<1> HIDE DEF Grown
<1>8. Lists' \subseteq Grown
  BY <1>3 DEF Grown
<1> QED BY <1>7, <1>8 DEF Unique, UniqueIn

\* Every other step moves lists that are there already, or drops them.
LEMMA StepUnique == ASSUME IndInv, HashInv, Next PROVE Unique'
<1> DEFINE Sub == Lists' \subseteq Lists \cup {List(0, <<>>)}
<1> USE DEF aggVars, dbVars, ageVars, netVars, ipfsVars, mlVars, breakerVars
<1>1. ASSUME \/ SaveEthTx \/ save_mintlayer_tx \/ SaveMintlayerTxFails \/ Age
             \/ \E w \in Workers : CoolDown(w)
      PROVE  Sub
  BY <1>1, ListsHolds, ListsMoved
  DEF SaveEthTx, save_mintlayer_tx, SaveMintlayerTxFails, Age, CoolDown
<1>2. ASSUME \/ IpfsFetch \/ IpfsSleep \/ IpfsTake \/ IpfsUploadOk \/ IpfsUploadFails
             \/ IpfsDbError
      PROVE  Sub
  BY <1>2, ListsHolds, ListsMoved
  DEF IpfsFetch, IpfsSleep, IpfsTake, IpfsUploadOk, IpfsUploadFails, IpfsDbError
<1>3. ASSUME MlSleep \/ MlTake \/ MlDbError \/ MlSubmitOk
      PROVE  Sub
  BY <1>3, ListsHolds, ListsMoved DEF MlSleep, MlTake, MlDbError, MlSubmitOk
<1>4. ASSUME MlSubmitFails PROVE Sub
  <2>1. \/ mlBatch'.hashes = mlBatch.hashes /\ mlBatch'.id = mlBatch.id
        \/ mlBatch' = NoBatch
    BY <1>4 DEF MlSubmitFails, IndInv, TypeOK, TypeMl, PendingMintlayerBatch
  <2> QED BY <1>4, <2>1, ListsHolds, ListsMoved DEF MlSubmitFails
<1>5. ASSUME MlFetch PROVE Sub
  <2>1. \A b \in mlQueue' : b.id \in DOMAIN mlTable /\ b.hashes = mlTable[b.id].hashes
    BY <1>5, PendingCopies DEF MlFetch
  <2> QED BY <1>5, <2>1, ListsHolds, ListsMoved DEF MlFetch
<1>6. ASSUME MlCommit PROVE Sub
  <2>1. \A i \in DOMAIN mlTable' : List(i, mlTable'[i].hashes) \in Lists
    BY <1>6, RowsAfterMlCommit, ListsHolds
  <2> QED BY <1>6, <2>1, ListsHolds, ListsMoved DEF MlCommit
<1>7. ASSUME QueueCommit PROVE Sub
  <2>1. \A i \in DOMAIN mlTable' : List(i, mlTable'[i].hashes) \in Lists
    BY <1>7, RowsAfterQueueCommit, ListsHolds
  <2> QED BY <1>7, <2>1, ListsHolds, ListsMoved DEF QueueCommit
<1>8. ASSUME cleanup_old_operations PROVE Sub
  <2>1. \A i \in DOMAIN mlTable' : i \in DOMAIN mlTable /\ mlTable'[i] = mlTable[i]
    BY <1>8 DEF cleanup_old_operations
  <2> QED BY <1>8, <2>1, ListsHolds, ListsMoved DEF cleanup_old_operations
<1>9. ASSUME Crash PROVE Sub
  BY <1>9, ListsHolds, ListsMoved DEF Crash
<1>10. CASE QueueRead
  BY <1>10, ReadUnique
<1>11. CASE Sub
  BY <1>11, UniqueKept DEF HashInv
<1> QED
  BY <1>1, <1>2, <1>3, <1>4, <1>5, <1>6, <1>7, <1>8, <1>9, <1>10, <1>11
  DEF Next, IpfsNext, MlNext

-----------------------------------------------------------------------------
\* The invariant is preserved along with the one of the type proof.
LEMMA StepHash == IndInv /\ HashInv /\ [Next]_vars => HashInv'
<1>1. ASSUME IndInv, HashInv, Next PROVE HashInv'
  BY <1>1, StepSettled, StepStored, StepUnique DEF HashInv
<1>2. ASSUME HashInv, UNCHANGED vars PROVE HashInv'
  BY <1>2
  DEF vars, HashInv, ListsSettled, RowsSettled, CopiesSettled, DepositsSettled, QueuedSettled,
      AllIn, SettledOps, Settled, Completed, Removed, Stored, Unique, UniqueIn, Lists
<1> QED BY <1>1, <1>2

\* It holds of every behaviour.
LEMMA HashInductive == Spec => []HashInv
  BY Inductive, InitHash, StepHash, PTL DEF Spec

\* A hash is in a batch row or on Mintlayer only if its data is on IPFS and its
\* operation was marked completed by the transaction of queue_mintlayer_batch.
THEOREM QueuedAfterCompletion == Spec => []QueuedOnlyCompleted
<1>1. HashInv => QueuedOnlyCompleted
  BY DEF HashInv, ListsSettled, RowsSettled, DepositsSettled, AllIn, SettledOps, Settled,
      QueuedOnlyCompleted, Elems
<1> QED BY <1>1, HashInductive, PTL

\* No hash is listed twice in pending_mintlayer_batches, although the upload
\* task and the deposit task write back whole copies they read earlier.
THEOREM OneBatchPerHash == Spec => []HashInOneBatch
<1>1. HashInv => HashInOneBatch
  <2> SUFFICES ASSUME HashInv, NEW i \in DOMAIN mlTable, NEW j \in DOMAIN mlTable,
                      NEW m \in DOMAIN mlTable[i].hashes, NEW n \in DOMAIN mlTable[j].hashes,
                      mlTable[i].hashes[m] = mlTable[j].hashes[n]
               PROVE  i = j /\ m = n
    BY DEF HashInOneBatch
  <2>1. List(i, mlTable[i].hashes) \in Lists /\ List(j, mlTable[j].hashes) \in Lists
    BY ListsHolds
  <2> QED BY <2>1 DEF HashInv, Unique, UniqueIn, List
<1> QED BY <1>1, HashInductive, PTL
=============================================================================
