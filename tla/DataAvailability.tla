-------------------------- MODULE DataAvailability --------------------------
(***************************************************************************)
(* The data-availability worker of the Ethereum sender                     *)
(* (core/node/eth_sender/src/data_availability/worker.rs).  Every          *)
(* aggregated operation (commit, prove, execute) that the aggregator turns *)
(* into an L1 transaction is also recorded in pending_ipfs_operations; one *)
(* task uploads it to 4EVERLAND/IPFS and queues the returned hash in a row *)
(* of pending_mintlayer_batches; a second task deposits the hashes of that *)
(* row on Mintlayer; a third one deletes old rows.  The three tasks run    *)
(* concurrently in one process and share only the database.                *)
(*                                                                         *)
(* An operation is identified with the IPFS hash of its data: the hash is  *)
(* a content address, so uploading the same bytes twice gives one hash.    *)
(***************************************************************************)
EXTENDS Integers, Sequences, FiniteSets

CONSTANTS
    NumOps,            \* bound: aggregated operations produced in a behaviour
    BatchSize,         \* WorkerConfig::batch_size
    MaxAttempts,       \* ipfs_max_attempts = mintlayer_max_attempts
    MaxRetryAttempts,  \* MAX_RETRY_ATTEMPTS of the DAL
    RowLimit,          \* MAX_BATCH_SIZE, the LIMIT of both pending queries
    FailureThreshold,  \* CircuitBreaker::failure_threshold
    MaxCrashes         \* bound: process crashes in a behaviour

ASSUME ParamsAssumption ==
    /\ NumOps \in Nat /\ MaxCrashes \in Nat
    /\ BatchSize \in Nat \ {0}
    /\ MaxAttempts \in Nat \ {0}
    /\ RowLimit \in Nat \ {0}
    /\ FailureThreshold \in Nat \ {0}
    \* The worker gives up in memory long before the DAL's own limit.
    /\ MaxRetryAttempts \in Nat /\ MaxAttempts < MaxRetryAttempts

Ops == 1 .. NumOps
NoOp == 0
Workers == {"ipfs", "mintlayer"}
Status == {"pending", "in_progress", "completed", "failed"}

VARIABLES
    lastOp,        \* operations 1..lastOp have an eth_txs row (save_eth_tx committed)
    aggOp,         \* operation between save_eth_tx and save_mintlayer_tx, or NoOp
    ipfsTable,     \* pending_ipfs_operations: id -> row, ids in created_at order
    mlTable,       \* pending_mintlayer_batches: id -> row, ids in created_at order
    nextBatch,     \* next fresh batch id (Uuid::new_v4), used up when a row is inserted
    agedOps,       \* ids up to this one are older than cleanup_days_threshold
    agedBatches,   \* the same for batch ids
    ipfsStore,     \* external: operations whose data IPFS holds
    deposits,      \* external: the hash lists deposited on Mintlayer
    ipfsPc,        \* control state of run_ipfs_worker
    ipfsQueue,     \* ids of the fetched operations not processed yet
    ipfsOp,        \* id of the operation being processed, or NoOp
    ipfsAttempts,  \* op.attempts, the in-memory copy
    ipfsBatch,     \* the batch queue_mintlayer_batch read and extended
    mlPc,          \* control state of run_mintlayer_worker
    mlQueue,       \* fetched batches (copies of rows) not processed yet
    mlBatch,       \* the copy being processed
    failures,      \* CircuitBreaker::failures of each breaker
    elapsed,       \* last_failure is set and at least reset_timeout old
    burst,         \* failed external calls since a success or a cool-down
    crashes        \* crashes so far

dbVars == <<ipfsTable, mlTable, nextBatch>>
aggVars == <<lastOp, aggOp>>
ageVars == <<agedOps, agedBatches>>
netVars == <<ipfsStore, deposits>>
ipfsVars == <<ipfsPc, ipfsQueue, ipfsOp, ipfsAttempts, ipfsBatch>>
mlVars == <<mlPc, mlQueue, mlBatch>>
breakerVars == <<failures, elapsed, burst>>
vars == <<lastOp, aggOp, ipfsTable, mlTable, nextBatch, agedOps, agedBatches,
          ipfsStore, deposits, ipfsPc, ipfsQueue, ipfsOp, ipfsAttempts, ipfsBatch,
          mlPc, mlQueue, mlBatch, failures, elapsed, burst, crashes>>

(***************************************************************************)
(* Rows and their in-memory copies.                                        *)
(***************************************************************************)
IpfsRow == [status : Status, attempts : Nat, hash : Ops \cup {NoOp}]
MlRow == [hashes : Seq(Ops), attempts : Nat, status : Status]
PendingMintlayerBatch == [id : Nat, hashes : Seq(Ops), attempts : Nat, status : Status]

NoBatch == [id |-> 0, hashes |-> <<>>, attempts |-> 0, status |-> "pending"]
\* Mutant: Uuid::nil() for Uuid::new_v4().
NewBatchNilId(id) == NoBatch
NewBatch(id) == [NoBatch EXCEPT !.id = id]
CopyOf(id) == [id |-> id, hashes |-> mlTable[id].hashes,
               attempts |-> mlTable[id].attempts, status |-> mlTable[id].status]

\* WHERE clause shared by the two pending queries.
Selected(row) == \/ row.status = "pending"
                 \/ row.status = "failed" /\ row.attempts < MaxRetryAttempts

\* ORDER BY created_at LIMIT RowLimit.
Oldest(ids) == {i \in ids : Cardinality({j \in ids : j < i}) < RowLimit}

get_pending_ipfs_operations == Oldest({i \in DOMAIN ipfsTable : Selected(ipfsTable[i])})
get_pending_mintlayer_batches ==
    {CopyOf(i) : i \in Oldest({j \in DOMAIN mlTable : Selected(mlTable[j])})}

(***************************************************************************)
(* CircuitBreaker.                                                         *)
(***************************************************************************)
\* Mutant: the reset timeout is forgotten.
IsOpenForever(w) == failures[w] >= FailureThreshold
is_open(w) == ~elapsed[w] /\ failures[w] >= FailureThreshold

\* Mutant: last_failure is not refreshed.
RecordFailureNoTimestamp(w) ==
    /\ failures' = [failures EXCEPT ![w] = IF @ < FailureThreshold THEN @ + 1 ELSE @]
    /\ UNCHANGED elapsed
\* failures only matters up to the threshold: the count saturates there.
record_failure(w) ==
    /\ failures' = [failures EXCEPT ![w] = IF @ < FailureThreshold THEN @ + 1 ELSE @]
    /\ elapsed' = [elapsed EXCEPT ![w] = FALSE]

\* reset_timeout has passed since the last recorded failure.
CoolDown(w) ==
    /\ failures[w] > 0 /\ ~elapsed[w]
    /\ elapsed' = [elapsed EXCEPT ![w] = TRUE]
    /\ burst' = [burst EXCEPT ![w] = 0]
    /\ UNCHANGED <<aggVars, dbVars, ageVars, netVars, ipfsVars, mlVars, failures, crashes>>

-----------------------------------------------------------------------------
Init ==
    /\ lastOp = 0 /\ aggOp = NoOp
    /\ ipfsTable = [i \in {} |-> NoOp] /\ mlTable = [i \in {} |-> NoOp]
    /\ nextBatch = 1
    /\ agedOps = 0 /\ agedBatches = 0
    /\ ipfsStore = {} /\ deposits = {}
    /\ ipfsPc = "sleep" /\ ipfsQueue = {} /\ ipfsOp = NoOp
    /\ ipfsAttempts = 0 /\ ipfsBatch = NoBatch
    /\ mlPc = "sleep" /\ mlQueue = {} /\ mlBatch = NoBatch
    /\ failures = [w \in Workers |-> 0] /\ elapsed = [w \in Workers |-> FALSE]
    /\ burst = [w \in Workers |-> 0]
    /\ crashes = 0

(***************************************************************************)
(* The aggregator: save_eth_tx commits the L1 transaction, then            *)
(* save_mintlayer_tx inserts the pending operation on another connection.  *)
(***************************************************************************)
SaveEthTx ==
    /\ aggOp = NoOp
    /\ lastOp < NumOps
    /\ lastOp' = lastOp + 1
    /\ aggOp' = lastOp + 1
    /\ UNCHANGED <<dbVars, ageVars, netVars, ipfsVars, mlVars, breakerVars, crashes>>

save_mintlayer_tx ==
    /\ aggOp # NoOp
    /\ ipfsTable' = [i \in DOMAIN ipfsTable \cup {aggOp} |->
                        IF i = aggOp
                        THEN [status |-> "pending", attempts |-> 0, hash |-> NoOp]
                        ELSE ipfsTable[i]]
    /\ aggOp' = NoOp
    /\ UNCHANGED <<lastOp, mlTable, nextBatch, ageVars, netVars, ipfsVars, mlVars,
                   breakerVars, crashes>>

\* No connection, or the INSERT fails: the error is logged and the record dropped.
SaveMintlayerTxFails ==
    /\ aggOp # NoOp
    /\ aggOp' = NoOp
    /\ UNCHANGED <<lastOp, dbVars, ageVars, netVars, ipfsVars, mlVars, breakerVars, crashes>>

(***************************************************************************)
(* run_ipfs_worker: fetch the pending operations, process each in turn.    *)
(***************************************************************************)
IpfsFetch ==
    /\ ipfsPc = "sleep"
    /\ ipfsQueue' = get_pending_ipfs_operations
    /\ ipfsPc' = "loop"
    /\ UNCHANGED <<aggVars, dbVars, ageVars, netVars, ipfsOp, ipfsAttempts, ipfsBatch,
                   mlVars, breakerVars, crashes>>

IpfsSleep ==
    /\ ipfsPc = "loop" /\ ipfsQueue = {}
    /\ ipfsPc' = "sleep"
    /\ UNCHANGED <<aggVars, dbVars, ageVars, netVars, ipfsQueue, ipfsOp, ipfsAttempts,
                   ipfsBatch, mlVars, breakerVars, crashes>>

\* The head of process_ipfs_operation: an open breaker skips the operation.
IpfsTake ==
    /\ ipfsPc = "loop"
    /\ \E op \in ipfsQueue :
        /\ \A other \in ipfsQueue : op <= other
        /\ ipfsQueue' = ipfsQueue \ {op}
        /\ \/ /\ is_open("ipfs")
              /\ UNCHANGED <<ipfsPc, ipfsOp, ipfsAttempts>>
           \/ /\ ~is_open("ipfs")
              /\ ipfsPc' = "upload"
              /\ ipfsOp' = op
              /\ ipfsAttempts' = ipfsTable[op].attempts
    /\ UNCHANGED <<aggVars, dbVars, ageVars, netVars, ipfsBatch, mlVars, breakerVars, crashes>>

\* One successful call of setup_and_upload_to_ipfs in the backoff loop.
IpfsUploadOk ==
    /\ ipfsPc = "upload"
    /\ ipfsAttempts < MaxAttempts
    /\ ipfsStore' = ipfsStore \cup {ipfsOp}
    /\ ipfsPc' = "uploaded"
    /\ burst' = [burst EXCEPT !["ipfs"] = 0]
    /\ UNCHANGED <<aggVars, dbVars, ageVars, deposits, ipfsQueue, ipfsOp, ipfsAttempts,
                   ipfsBatch, mlVars, failures, elapsed, crashes>>

\* Mutant: the exhausted attempts are saved with the pending row.
UploadFailsPersisted ==
    /\ ipfsPc = "upload"
    /\ ipfsAttempts < MaxAttempts
    /\ ipfsTable' = [ipfsTable EXCEPT ![ipfsOp].attempts = ipfsAttempts + 1]
    /\ ipfsPc' = "loop" /\ ipfsOp' = NoOp /\ ipfsAttempts' = 0
    /\ UNCHANGED <<aggVars, mlTable, nextBatch, ageVars, netVars, ipfsQueue, ipfsBatch,
                   mlVars, breakerVars, crashes>>

\* A failed call: put_object_stream may have stored the data even so (a status
\* other than 200, or a failing head_object).  The last attempt trips the breaker.
IpfsUploadFails ==
    /\ ipfsPc = "upload"
    /\ ipfsAttempts < MaxAttempts
    /\ ipfsStore' \in {ipfsStore, ipfsStore \cup {ipfsOp}}
    /\ burst' = [burst EXCEPT !["ipfs"] = @ + 1]
    /\ \/ /\ ipfsAttempts + 1 < MaxAttempts
          /\ ipfsAttempts' = ipfsAttempts + 1
          /\ UNCHANGED <<ipfsPc, ipfsOp, failures, elapsed>>
       \/ /\ ipfsAttempts + 1 >= MaxAttempts
          /\ record_failure("ipfs")
          /\ ipfsPc' = "loop" /\ ipfsOp' = NoOp /\ ipfsAttempts' = 0
    /\ UNCHANGED <<aggVars, dbVars, ageVars, deposits, ipfsQueue, ipfsBatch, mlVars, crashes>>

\* Mutant: a batch with batch_size hashes still has room.
HasRoomForOneMore(b) == b.status = "pending" /\ Len(b.hashes) <= BatchSize
HasRoom(b) == b.status = "pending" /\ Len(b.hashes) < BatchSize

Push(b, hash) == [id |-> b.id, hashes |-> Append(b.hashes, hash),
                  attempts |-> b.attempts, status |-> "pending"]

\* queue_mintlayer_batch, first half: on a connection outside the transaction,
\* read the pending batches and extend the first one with room, or a new one.
QueueRead ==
    /\ ipfsPc = "uploaded"
    /\ LET open == {b \in get_pending_mintlayer_batches : HasRoom(b)} IN
        \/ open = {} /\ ipfsBatch' = Push(NewBatch(nextBatch), ipfsOp)
        \/ \E b \in open : /\ \A c \in open : b.id <= c.id
                          /\ ipfsBatch' = Push(b, ipfsOp)
    /\ ipfsPc' = "queued"
    /\ UNCHANGED <<aggVars, dbVars, ageVars, netVars, ipfsQueue, ipfsOp,
                   ipfsAttempts, mlVars, breakerVars, crashes>>

\* INSERT ... ON CONFLICT (id) DO UPDATE SET ipfs_hashes, status.
update_mintlayer_batch(b) ==
    mlTable' = [i \in DOMAIN mlTable \cup {b.id} |->
        IF i # b.id THEN mlTable[i]
        ELSE [hashes |-> b.hashes, status |-> b.status,
              attempts |-> IF i \in DOMAIN mlTable THEN mlTable[i].attempts
                           ELSE b.attempts]]

\* Mutant: the status column is left out of the UPDATE.
UpdateIpfsHashOnly(op, attempts) ==
    ipfsTable' = [i \in DOMAIN ipfsTable |->
        IF i = op THEN [ipfsTable[i] EXCEPT !.attempts = attempts, !.hash = op]
        ELSE ipfsTable[i]]

\* UPDATE ... WHERE id = op: nothing happens if the row is gone.
update_ipfs_operations(op, attempts) ==
    ipfsTable' = [i \in DOMAIN ipfsTable |->
        IF i = op THEN [status |-> "completed", attempts |-> attempts, hash |-> op]
        ELSE ipfsTable[i]]

\* queue_mintlayer_batch, second half: the transaction that marks the operation
\* completed and writes the extended batch commits.
QueueCommit ==
    /\ ipfsPc = "queued"
    /\ update_ipfs_operations(ipfsOp, ipfsAttempts)
    /\ update_mintlayer_batch(ipfsBatch)
    /\ nextBatch' = IF ipfsBatch.id = nextBatch THEN nextBatch + 1 ELSE nextBatch
    /\ ipfsPc' = "loop" /\ ipfsOp' = NoOp /\ ipfsAttempts' = 0 /\ ipfsBatch' = NoBatch
    /\ UNCHANGED <<aggVars, ageVars, netVars, ipfsQueue, mlVars, breakerVars, crashes>>

\* A database error after the upload: the transaction is rolled back, the
\* operation stays pending and the breaker is not told.
IpfsDbError ==
    /\ ipfsPc \in {"uploaded", "queued"}
    /\ ipfsPc' = "loop" /\ ipfsOp' = NoOp /\ ipfsAttempts' = 0 /\ ipfsBatch' = NoBatch
    /\ UNCHANGED <<aggVars, dbVars, ageVars, netVars, ipfsQueue, mlVars, breakerVars, crashes>>

(***************************************************************************)
(* run_mintlayer_worker: fetch the pending batches, deposit each in turn.  *)
(***************************************************************************)
MlFetch ==
    /\ mlPc = "sleep"
    /\ mlQueue' = get_pending_mintlayer_batches
    /\ mlPc' = "loop"
    /\ UNCHANGED <<aggVars, dbVars, ageVars, netVars, ipfsVars, mlBatch, breakerVars, crashes>>

MlSleep ==
    /\ mlPc = "loop" /\ mlQueue = {}
    /\ mlPc' = "sleep"
    /\ UNCHANGED <<aggVars, dbVars, ageVars, netVars, ipfsVars, mlQueue, mlBatch,
                   breakerVars, crashes>>

\* The head of process_mintlayer_batch.
MlTake ==
    /\ mlPc = "loop"
    /\ \E b \in mlQueue :
        /\ \A other \in mlQueue : b.id <= other.id
        /\ mlQueue' = mlQueue \ {b}
        /\ \/ is_open("mintlayer") /\ UNCHANGED <<mlPc, mlBatch>>
           \/ ~is_open("mintlayer") /\ mlPc' = "submit" /\ mlBatch' = b
    /\ UNCHANGED <<aggVars, dbVars, ageVars, netVars, ipfsVars, breakerVars, crashes>>

\* A call of address_deposit_data answered with a result.
MlSubmitOk ==
    /\ mlPc = "submit"
    /\ mlBatch.attempts < MaxAttempts
    /\ deposits' = deposits \cup {mlBatch.hashes}
    /\ mlPc' = "submitted"
    /\ burst' = [burst EXCEPT !["mintlayer"] = 0]
    /\ UNCHANGED <<aggVars, dbVars, ageVars, ipfsStore, ipfsVars, mlQueue, mlBatch,
                   failures, elapsed, crashes>>

\* A failed call; the deposit may have been made and only its answer lost.
MlSubmitFails ==
    /\ mlPc = "submit"
    /\ mlBatch.attempts < MaxAttempts
    /\ deposits' \in {deposits, deposits \cup {mlBatch.hashes}}
    /\ burst' = [burst EXCEPT !["mintlayer"] = @ + 1]
    /\ \/ /\ mlBatch.attempts + 1 < MaxAttempts
          /\ mlBatch' = [mlBatch EXCEPT !.attempts = @ + 1]
          /\ UNCHANGED <<mlPc, failures, elapsed>>
       \/ /\ mlBatch.attempts + 1 >= MaxAttempts
          /\ record_failure("mintlayer")
          /\ mlPc' = "loop" /\ mlBatch' = NoBatch
    /\ UNCHANGED <<aggVars, dbVars, ageVars, ipfsStore, ipfsVars, mlQueue, crashes>>

\* The copy, marked completed, is written back whole.
MlCommit ==
    /\ mlPc = "submitted"
    /\ update_mintlayer_batch([mlBatch EXCEPT !.status = "completed"])
    /\ mlPc' = "loop" /\ mlBatch' = NoBatch
    /\ UNCHANGED <<aggVars, ipfsTable, nextBatch, ageVars, netVars, ipfsVars, mlQueue,
                   breakerVars, crashes>>

MlDbError ==
    /\ mlPc = "submitted"
    /\ mlPc' = "loop" /\ mlBatch' = NoBatch
    /\ UNCHANGED <<aggVars, dbVars, ageVars, netVars, ipfsVars, mlQueue, breakerVars, crashes>>

(***************************************************************************)
(* run_cleanup_routine, the passing of days, and a crash of the process.   *)
(***************************************************************************)
Removable(row) == row.status = "completed" \/ row.attempts >= MaxRetryAttempts

cleanup_old_operations ==
    LET keepOps == {i \in DOMAIN ipfsTable : i > agedOps \/ ~Removable(ipfsTable[i])}
        keepBatches == {i \in DOMAIN mlTable : i > agedBatches \/ ~Removable(mlTable[i])}
    IN  /\ keepOps # DOMAIN ipfsTable \/ keepBatches # DOMAIN mlTable
        /\ ipfsTable' = [i \in keepOps |-> ipfsTable[i]]
        /\ mlTable' = [i \in keepBatches |-> mlTable[i]]
        /\ UNCHANGED <<aggVars, nextBatch, ageVars, netVars, ipfsVars, mlVars, breakerVars, crashes>>

Age ==
    /\ agedOps' = lastOp /\ agedBatches' = nextBatch - 1
    /\ ageVars' # ageVars
    /\ UNCHANGED <<aggVars, dbVars, netVars, ipfsVars, mlVars, breakerVars, crashes>>

\* The process dies and restarts: the database and the networks survive.
Crash ==
    /\ crashes < MaxCrashes
    /\ crashes' = crashes + 1
    /\ aggOp' = NoOp
    /\ ipfsPc' = "sleep" /\ ipfsQueue' = {} /\ ipfsOp' = NoOp
    /\ ipfsAttempts' = 0 /\ ipfsBatch' = NoBatch
    /\ mlPc' = "sleep" /\ mlQueue' = {} /\ mlBatch' = NoBatch
    /\ failures' = [w \in Workers |-> 0] /\ elapsed' = [w \in Workers |-> FALSE]
    /\ burst' = [w \in Workers |-> 0]
    /\ UNCHANGED <<lastOp, dbVars, ageVars, netVars>>

-----------------------------------------------------------------------------
IpfsNext == \/ IpfsFetch \/ IpfsSleep \/ IpfsTake \/ IpfsUploadOk \/ IpfsUploadFails
            \/ QueueRead \/ QueueCommit \/ IpfsDbError
MlNext == \/ MlFetch \/ MlSleep \/ MlTake \/ MlSubmitOk \/ MlSubmitFails
          \/ MlCommit \/ MlDbError
Next ==
    \/ SaveEthTx \/ save_mintlayer_tx \/ SaveMintlayerTxFails
    \/ IpfsNext
    \/ MlNext
    \/ \E w \in Workers : CoolDown(w)
    \/ cleanup_old_operations \/ Age
    \/ Crash

Spec == Init /\ [][Next]_vars

\* The tokio tasks keep being scheduled, reset_timeout passes, and the services
\* and the database answer infinitely often if they are asked infinitely often.
Fairness ==
    /\ WF_vars(IpfsNext) /\ WF_vars(MlNext)
    /\ \A w \in Workers : WF_vars(CoolDown(w))
    /\ SF_vars(IpfsUploadOk) /\ SF_vars(QueueRead) /\ SF_vars(QueueCommit)
    /\ SF_vars(MlSubmitOk) /\ SF_vars(MlCommit)

FairSpec == Spec /\ Fairness

-----------------------------------------------------------------------------
TypeAgg == lastOp \in 0 .. NumOps /\ aggOp \in 0 .. lastOp /\ crashes \in 0 .. MaxCrashes
TypeIpfsTable == /\ DOMAIN ipfsTable \subseteq 1 .. lastOp
                 /\ \A i \in DOMAIN ipfsTable : ipfsTable[i] \in IpfsRow
TypeMlTable == /\ nextBatch \in Nat \ {0}
               /\ DOMAIN mlTable \subseteq 1 .. nextBatch - 1
               /\ \A i \in DOMAIN mlTable : mlTable[i] \in MlRow
TypeAged == agedOps \in 0 .. lastOp /\ agedBatches \in 0 .. nextBatch - 1
TypeNet == ipfsStore \subseteq Ops /\ deposits \subseteq Seq(Ops)
TypeIpfs == /\ ipfsPc \in {"sleep", "loop", "upload", "uploaded", "queued"}
            /\ ipfsQueue \subseteq 1 .. lastOp /\ ipfsOp \in 0 .. lastOp
            /\ ipfsAttempts \in 0 .. MaxAttempts
            /\ ipfsBatch \in PendingMintlayerBatch
TypeMl == /\ mlPc \in {"sleep", "loop", "submit", "submitted"}
          /\ mlQueue \subseteq PendingMintlayerBatch /\ mlBatch \in PendingMintlayerBatch
TypeBreaker == /\ failures \in [Workers -> 0 .. FailureThreshold]
               /\ elapsed \in [Workers -> BOOLEAN] /\ burst \in [Workers -> Nat]

\* Every variable keeps its type: the tables map the ids handed out so far to
\* rows, and the two workers hold well-formed copies of them.
TypeOK == /\ TypeAgg /\ TypeIpfsTable /\ TypeMlTable /\ TypeAged
          /\ TypeNet /\ TypeIpfs /\ TypeMl /\ TypeBreaker

Elems(s) == {s[i] : i \in DOMAIN s}
Completed(op) == op \in DOMAIN ipfsTable /\ ipfsTable[op].status = "completed"
\* Deleted by cleanup_old_operations, or never recorded (then never queued).
Removed(op) == op <= agedOps /\ op \notin DOMAIN ipfsTable

\* No deposit and no queued batch holds more than batch_size hashes, although
\* both workers write back whole copies read earlier (queue_mintlayer_batch,
\* process_mintlayer_batch).
BatchWithinLimit ==
    /\ \A i \in DOMAIN mlTable : Len(mlTable[i].hashes) <= BatchSize
    /\ \A d \in deposits : Len(d) <= BatchSize

\* The hash of an operation is listed at most once in all the rows of
\* pending_mintlayer_batches, whatever crashes, retries and stale copies do
\* between the upload and the transaction of queue_mintlayer_batch.
HashInOneBatch ==
    \A i, j \in DOMAIN mlTable :
        \A m \in DOMAIN mlTable[i].hashes, n \in DOMAIN mlTable[j].hashes :
            mlTable[i].hashes[m] = mlTable[j].hashes[n] => i = j /\ m = n

\* A hash reaches a batch row or Mintlayer only after its operation is
\* completed: process_ipfs_operation marks it in the transaction that queues it.
QueuedOnlyCompleted ==
    LET queued == UNION ({Elems(mlTable[i].hashes) : i \in DOMAIN mlTable}
                         \cup {Elems(d) : d \in deposits})
    IN  \A op \in queued : op \in ipfsStore /\ (Completed(op) \/ Removed(op))

\* The attempts of one pass are never persisted in a row that is fetched again,
\* so no operation or batch is stuck at MaxRetriesExceededError in
\* upload_to_ipfs_with_backoff or submit_to_mintlayer_with_backoff.
NoRowExhausted ==
    /\ \A i \in DOMAIN ipfsTable : Selected(ipfsTable[i]) => ipfsTable[i].attempts < MaxAttempts
    /\ \A i \in DOMAIN mlTable : Selected(mlTable[i]) => mlTable[i].attempts < MaxAttempts

\* The circuit breaker bounds the calls made to a service that is down: between
\* a success or a cool-down and the next one, at most failure_threshold
\* operations of MaxAttempts calls each.
BreakerBoundsBurst ==
    \A w \in Workers : burst[w] <= FailureThreshold * MaxAttempts

\* An operation recorded by save_mintlayer_tx is eventually uploaded and marked
\* completed (and possibly cleaned up), whatever the failures in between.
RecordedOpCompletes ==
    \A op \in Ops :
        (op \in DOMAIN ipfsTable /\ ipfsTable[op].status = "pending")
            ~> (Completed(op) \/ op \notin DOMAIN ipfsTable)

\* A pending batch row eventually leaves the pending state: process_mintlayer_batch
\* keeps retrying it, and appends can reopen it only finitely often.
BatchCompletes ==
    \A b \in 1 .. NumOps :
        (b \in DOMAIN mlTable /\ mlTable[b].status = "pending")
            ~> (b \notin DOMAIN mlTable \/ mlTable[b].status = "completed")

-----------------------------------------------------------------------------
\* README.md: the hash values of the uploads are collected, then saved to
\* Mintlayer.  The hash of a completed operation is waiting in a pending row or
\* has been deposited.
NoHashLost ==
    \A op \in Ops : Completed(op) =>
        \/ \E i \in DOMAIN mlTable : /\ mlTable[i].status = "pending"
                                     /\ op \in Elems(mlTable[i].hashes)
        \/ \E d \in deposits : op \in Elems(d)
=============================================================================
