# Verification of zk-thunder

zk-thunder is a fork of the zkSync Era node that settles on Ethereum and keeps
a copy of every settlement operation on IPFS (through 4EVERLAND) and, as a list
of IPFS hashes, on Mintlayer. This directory holds TLA+ models of the node's
protocols, from the L1 events and transactions that come in to the proven and
settled batch, and of the external nodes that follow it; the configurations
that check them with TLC; and theorems about them checked by TLAPS. Paths below
are relative to the repository root.

## 1. Inventory

### 1.1 The settlement path

| Component | State it keeps | Operations | Hard part |
|---|---|---|---|
| Commitment generator, `core/node/commitment_generator` | artifacts of up to `parallelism` batches in memory; `l1_batches.commitment` | compute a range in parallel, save it batch by batch | restart in the middle of a range |
| Aggregator, `core/node/eth_sender/src/{aggregator,publish_criterion,eth_tx_aggregator}.rs` | `l1_batches.eth_{commit,prove,execute}_tx_id`, `eth_txs`, the base nonces read at startup | choose Execute, else Prove, else Commit; apply the publish criteria; save the transaction | two operator accounts whose transactions L1 orders freely; the timelock's delay |
| Transaction manager, `core/node/eth_sender/src/eth_tx_manager.rs` | `eth_txs`, `eth_txs_history`, last seen L1 block | send, check, confirm, fail, resend | lost answers, refusals, reorganisations, crashes, cleared transactions |
| Fee oracle and gas adjuster, `eth_fees_oracle.rs`, `core/node/fee_model` | sliding window of base fees | fees for a send or a resend | fees that only grow; bounds that panic |
| Data-availability worker, `core/node/eth_sender/src/data_availability` | `pending_ipfs_operations`, `pending_mintlayer_batches`, two circuit breakers | upload, queue the hash, deposit, clean up | three tasks writing the same rows from copies; services that fail after having acted |
| L1 contracts, `contracts/l1-contracts` (`Executor.sol`, `ValidatorTimelock.sol`) | three totals, commit timestamps | commit, prove, execute | strict order; one batch per commit and per proof |

The aggregator and the manager share the two `eth_*` tables and nothing else.
The aggregator hands each operation to the data-availability worker by a row
inserted after its own transaction has committed. The worker's three tasks
share only the database; the manager and L1 communicate through an RPC node
whose answers may be lost or stale.

What makes each part correct:

* *aggregator*: no transaction it creates reverts, because a revert makes the
  manager panic, except a commit that reaches L1 too late; every batch passes the
  three stages in order; every sealed batch is eventually executed;
* *manager*: every attempt L1 may mine is known; what is confirmed is final and
  stays confirmed; nonces are not reused;
* *worker*: every operation's data reaches IPFS and its hash reaches Mintlayer
  once; a service that is down is not called without bound, and is called again
  when it is back.

### 1.2 Transactions in, proofs out, and the nodes that follow

| Component | State it keeps | Operations | Hard part |
|---|---|---|---|
| Eth watch, `core/node/eth_watch` | the last processed L1 block, in memory; priority operations and protocol versions in Postgres | poll finalized blocks, save operations, save upgrades | a stop or an error between the two processors; where to start again |
| Mempool and its fetcher, `core/lib/mempool`, `core/node/state_keeper/src/mempool_actor.rs` | accounts, queue, stashed accounts, size; `transactions.in_mempool` | insert, next, roll back, reject, purge, synchronise | four tasks that change rows and memory for the same account |
| State keeper and sealer, `core/node/state_keeper` | the open batch; `transactions`, `miniblocks`, `l1_batches` | execute, exclude, reject, seal; re-execute after a restart | blocks are executed ahead of what is persisted, and persisted in parts |
| Prover pipeline, `prover/*`, `core/node/{proof_data_handler,house_keeper}` | job tables of five rounds, prover instances, `proof_generation_details` | hand out, prove, aggregate, requeue, compress, submit | crashes and timeouts: a job is worked on twice, or its result comes late |
| External node: `core/node/{node_sync,reorg_detector,block_reverter,metadata_calculator}`, `core/lib/state` | Postgres, the Merkle tree and the state keeper cache | fetch and re-execute blocks, compute and fetch root hashes, detect a reorganisation, roll back | three stores changed one after another; a main node that moves while it is asked |

The mempool is shared, behind a lock, by the fetcher and the state keeper; all
else goes through Postgres. The provers share their database with the gateway,
and the house keeper moves jobs between its states. External nodes only ask the
main node, and L1 for the root hashes of committed batches, one call at a time.

What makes each part correct:

* *eth watch*: no priority operation is missed or taken twice, wherever the
  watcher stopped; every operation, and every upgrade, is saved in the end;
* *mempool and state keeper*: the store's bookkeeping is exact; priority
  operations run once, in order; the table tells what was executed; what was
  persisted of an open batch can be executed again;
* *prover pipeline*: an aggregation finds all its proofs; finished work is not
  undone; every batch is proven in the end;
* *external node*: its stores never mix two forks; a rollback deletes nothing
  that the main node still has; it catches up in the end.

### 1.3 The rest of the repository

`PROJECT.json` lists every component with its status. Left aside for good are
the virtual machines, the inside of the Merkle tree, circuits and proofs, the
API server and the price feeds: they are computation or I/O rather than
protocols. `PROJECT.json` also lists the hazards of the modelled code with the
properties that cover each, or the reason why none does.

## 2. Modules

| Module | Models | Uses |
|---|---|---|
| `DataAvailability` | the worker, its tables and breakers, and the aggregator's insert | |
| `DataAvailabilityProofs` | theorems about it | `DataAvailability`, TLAPS |
| `EthTxManager` | the manager's loop, its tables, the clear-failed command, an unreliable L1 | |
| `EthTxManagerProofs` | theorems about it | `EthTxManager`, `NatSetLemmas` |
| `BatchPipeline` | batch columns, commitment generator, aggregator, contracts | `BatchFinality` |
| `BatchFinality` | what L1 promises about finalized batches | |
| `BatchPipelineProofs` | theorems about it, the refinement included | `BatchPipeline`, `NatSetLemmas` |
| `EthWatch` | the watcher's loop, its two processors and the client's splitting of ranges | |
| `EthWatchProofs` | theorems about it | `EthWatch`, `NatSetLemmas` |
| `TxFlow`, `MCTxFlow` | transactions table, mempool, fetcher, state keeper, sealer; its instance | |
| `TxFlowProofs` | theorems about it | `TxFlow`, `NatSetLemmas` |
| `ProofPipeline`, `MCProofPipeline` | job tables, witness generators, GPU prover, compressor, gateway, house keeper; its instance | |
| `ProofPipelineProofs` | theorems about it | `ProofPipeline`, `NatSetLemmas` |
| `ExternalNode` | syncing, root hashes, reorg detector and reverter of an external node | |
| `ExternalNodeProofs` | theorems about it | `ExternalNode`, `NatSetLemmas` |
| `NatSetLemmas` | facts about sets of numbers that the proofs share | TLAPS |

Definitions have the names of the Rust and Solidity functions they stand for
wherever one function is one definition. Definitions whose comment begins with
"Mutant" are deliberately wrong variants; each is the plausible error that one
property is shown to catch, and nothing else uses them.

### 2.1 DataAvailability

An operation is identified with the IPFS hash of its data, since the hash is a
content address. A row of `ipfsTable` or `mlTable` is a row of the table of the
same purpose, keyed by its position in `created_at` order. Each task has a
control state (`ipfsPc`, `mlPc`); a step ends wherever the code awaits a network
call or commits a transaction, so that the other tasks can run there. The ipfs
task reads the pending batches (`QueueRead`) and writes one (`QueueCommit`) in
two steps, because the read is made on a connection outside the transaction.

A failed upload may have stored the data, and a failed deposit may have been
made; both outcomes are explored. Database errors after a call roll the
transaction back. `Crash` loses memory and keeps the tables. The failure count
of a breaker saturates at its threshold, above which the code does not
distinguish values; `elapsed` says that `reset_timeout` has passed since the
last failure. Attempts live in the in-memory copies: the code saves them only
with a completed row, so that the `failed` status and the DAL's own limit are
never reached, which `NoRowExhausted` states.

### 2.2 EthTxManager

A sending attempt is `<<id, level>>`: resends only raise fees, so levels stand
for transaction hashes. `pc` follows `run`; a step ends at every L1 request.
`loop_iteration` always takes two turns. Without a blob account the second turn
serves the main account again, for new transactions only, because
`operator_address` yields the same `NULL` and `get_operator_nonce` has no
gateway; the model does the same.

L1 is external. It accepts an attempt unless the nonce is used or an attempt
with at least the same fees waits; it loses, evicts, mines (successfully or
not, several transactions of an account in one block), reorganises above the
finalized block, and finalizes. A transient error
stands for an unknown outcome, any other error for a refusal, which is how
`send_raw_transaction` treats them. A reorganised transaction is not put back
into the mempool. An error of `get_l1_block_numbers` ends `run`; that is a
`Restart`. The operator clears failed transactions while the server is down.
With `wait_confirmations` configured, "finalized" is a fixed distance from the
head: the model then assumes that no reorganisation is deeper.

### 2.3 BatchPipeline

Batches are numbers; `txs` are the aggregated operations in `eth_txs` order;
`chain` is the sequence of mined calls with the contract totals after each one.
The manager is represented by what `EthTxManager` shows of it: each account's
transactions are mined in nonce order and confirmed, in order, when final. The
accounts' transactions interleave freely. The gas and data-size criteria and
the deadline are open choices: any cut they could make is explored. Reading the
candidates and saving the transaction are one step because the aggregator is
the only writer of the columns it reads and other components only add
candidates.

There are two clocks. `now` is the server's; a mined call sees a
`block.timestamp` of its own, chosen in `MineTx` from `BlockTimes`: never below
that of the block before, and at most `BlockLag` behind the server. `stamps` are
the timestamps of the batches, and `verifyBatchTimestamp` is the contract's
window for them: not older than `COMMIT_TIMESTAMP_NOT_OLDER`, not further ahead
than `COMMIT_TIMESTAMP_APPROXIMATION_DELTA`. Nothing on the server's side keeps
a commit from being mined after that window, because the aggregator waited, the
transaction did, or a reorganisation put it back. The call then reverts, and so
do the calls that build on it. `fail_tx` panics when it sees the revert; the
model goes on, which only adds behaviours.

Three facts about a deployment are assumptions of the module
(`DeploymentAssumption`). `max_aggregated_blocks_to_commit` and the proof size
are 1, as in `etc/env`, since the contracts refuse more (`e4`, `t4`). The age
before execution is at least the timelock's delay *and* the lag of
`block.timestamp` (and there is no delay where no age is configured): this is the
comment at `core/lib/config/src/configs/eth_sender.rs:111-113`, and with an age
that only equals the delay TLC finds an execution that reverts, in 14 steps. The
lag is within the window's tolerance for the future. Batches are of one protocol
version, in rollup mode. Nothing in the repository sets `skip_proof`, so
`OnlySampledProofs` behaves as `OnlyRealProofs`.

`BatchFinality` is the abstract specification: committed, verified and executed
counts that only grow, in order, one batch at a time for the first two stages.
`FinalityRefined` states that the finalized prefix of `chain` implements it.

### 2.4 EthWatch

Only finalized blocks are modelled, since nothing else is read. `l1` has the
logs of each topic in order, with their blocks: `loop_iteration` gives each
processor the logs of its own topic, so the order of logs of different topics
within an answer tells nothing, and a range of blocks is a part of each list
(`FilterLogs`). The ids of operations, and the versions of upgrades, are
consecutive. `SkipBelow` is the `skip_while` of both processors; `ToInsert` is
what their insertions, which do nothing for a row that exists, still have to do. `pc`
follows `loop_iteration`: the poll with its logs, the operations inserted one by
one, the calls for verification keys, the upgrades saved one by one. A poll may
see an older head. An error of the client resets the last processed block only
(`StartOver`); a database error or a failed assertion ends the process, which
starts again (`Restart`) from what Postgres holds. `get_events` is the recursion
of the client, with its guard against endless recursion: a range of two blocks
is never split, so `L1Block` assumes that two adjacent blocks do not exceed what
the provider returns. Logs that cannot be parsed, and providers that answer with
too few logs and no error, are not modelled: both would hold up or deceive the
watcher for good.

### 2.5 TxFlow

A transaction is its kind, initiator, nonce (or priority id), fee and arrival
time; the time stands for the hash. The mempool's methods are one step each,
because of the lock. The fetcher takes a step for each query (`FetchInfo`,
`sync_mempool`, `get_transaction_nonces`, `FetchInsert`), the state keeper one
for each call to its I/O, and the sealer one for each part of a block
(`mark_txs_as_executed_in_l2_block`, `insert_storage_logs`, then the header).
`exec` holds the transactions executed so far and `ends` where blocks end;
`sealed` counts the persisted headers. A crash forgets what is above `sealed`.
The VM is external: it accepts a transaction only if the nonce is the account's
next, and may fail it at any time. Seal criteria and the batch's fee filter are
open choices.

The queue holds pointers, and a pointer names an account rather than a
transaction: `next_transaction` takes the oldest pointer that can pay, then
whatever transaction has its account's nonce. `NextTx` does the same, and
`CanTakeNext` says when the two `expect`s of the code are met; if they are not,
the process panics and starts again (`MempoolPanics`).

Two variables are history. `deleted` holds the keys of the rows that
`sync_mempool` has deleted with a purged account; only `PendingReexecutable` and
`PriorityInOrder` read it. `overtaken` holds the accounts that were loaded again
with a nonce beyond their transaction in execution; only `MempoolConsistent`
reads it. Priority operations and L2 transactions may come from one address, and
do in the runs (`OpFrom` gives the first operation to an account that also sends
L2 transactions), so that the DELETE can take a priority operation along.

`StoredNonce` counts the storage logs of a block as soon as they are written,
while the code reads them at the greatest persisted block number: the model has
a few states more than the code, and none less.

### 2.6 ProofPipeline

A row of any job table is named by its unique key. Two worker processes stand
for every job processor; a worker can serve any table, holds one job and may be
as slow as it likes: `RequeueEarly` is the timeout of a job that is still worked
on. `Widths` gives, depth by depth, how many proofs of each circuit type are left
to aggregate; `ProofAssumption` takes the circuit types to be finitely many, with
at least one basic circuit each, and `MaxDepth` to be deep enough for one proof
to remain. `update_database` of the basic generator is not a transaction and takes one
step per statement. The GPU prover is a row, a queue of witness vectors and a
process that loses the queue when it crashes. Answers of the gateway's two HTTP
calls may be lost. Crashes, failures, lost answers, early timeouts and early
archiving together are bounded by `MaxFaults`.

`archive_old_jobs` moves any successful prover row out of the table once it is
old enough, whatever the state of its batch. `ArchiveSent` is the usual case,
rows of a batch that has been sent; `ArchiveEarly` takes any successful row, at
the cost of a fault, since it needs a batch that is not finished within the
archiving interval. A job then finds fewer proofs than it was queued for
(`ProofsMissing`) and its generator panics.

Two things are coarser than the code. `save_proof` takes a vector from the GPU
prover's queue and saves its proof in one step; a vector that was taken and not
yet saved is lost in a crash just as one in the queue is. `InsertBasicProofs`
inserts the prover jobs of a batch at once, where the code has one statement per
job: nothing is queued on them before the leaf rows exist.

### 2.7 ExternalNode

A block is a fresh id and whether it ends its batch. A block hash covers the
blocks before it, so that the hash of block `n` is the chain up to `n`, and a
root hash is the chain up to the end of the batch: two forks differ in every
hash after they part, as hashes do. Batch 0 is the genesis, or the last batch
executed on L1, below which neither node reverts. The Merkle tree exists on disk
and in memory; it is saved after a range of batches. The reorg detector takes a
step for each batch or block it compares; the local reads and the two questions
it begins a check with (`CheckStart`), and the two questions about one batch
(`ContentsMatch`), are one step each. The operator may restore Postgres from an
older backup, with the state keeper cache of the same age or older and the tree
as it is: the source handles that case (`ensure_consistency`).

The tree data fetcher asks L1 first and the main node second, as
`CombinedDataProvider` does. `commits` holds the root hash of the last
`BlockCommit` event of each batch number; an event outlasts the revert of its
batch, until `MainCommit` commits the next batch of that number. `FetchFromL1`
answers with that root hash. The L1 provider answers only if it sees a single
event of the number, and may be given up: where its range of L1 blocks begins,
and whether it answers, is left open; the range is taken to reach the last event. That answer is
saved without a look at the local batch. `FetchBatchDetails` is the main node's
provider, with its two calls and the comparison of the last block's hash.

`roll_back` also refuses to run if the state keeper cache has no directory
(`block_reverter/src/lib.rs:232-235`). That is not modelled: the state keeper
creates the directory before there is anything to roll back.

## 3. Runs

| Run | Result | What it shows |
|---|---|---|
| `da_safety` | holds, 1.3 M states | batch sizes, uniqueness and order of hashes, no exhausted row, bounded bursts |
| `da_liveness` | holds, 16 k | recorded operations complete, batches are deposited |
| `da_hash_lost` | violated | a hash appended during a deposit is overwritten |
| `eth_manager` | holds, 1.9 M | the manager's safety with two accounts |
| `pipeline_blobs` | holds, 77 k | nested stages, finality, refinement, and every sealed batch is executed if the commits are in time; real proofs, two accounts |
| `pipeline_calldata` | holds, 1.2 M | only late commits revert, with one account, dummy proofs, the timelock and two clocks |
| `eth_watch` | holds, 67 k | no operation is left behind, ranges are split exactly, operations arrive |
| `eth_watch_upgrade_missed` | violated | an upgrade is never saved |
| `tx_flow` | holds, 1.7 M | exact mempool, priority order, rows and chain agree, pending blocks can be re-executed |
| `tx_rejected_included` | violated | an included transaction is marked rejected |
| `proof_pipeline` | holds, 190 k | inputs of aggregations, whole proof tree, nothing undone, the batch is proven unless stuck |
| `en_follows_main` | holds, 1.0 M | one chain in three stores, root hashes, no shared batch with its own root hash deleted, catching up |

The violated runs are disagreements between code and documentation; each has a
finding in `PROJECT.json` that quotes the sentence.

* *Lost hash.* The Mintlayer task fetches a row with one hash and deposits it.
  Meanwhile the ipfs task appends a second hash to the same row, still pending.
  The first task then writes its copy back as completed: the second hash is
  gone from the table, its operation is completed, and Mintlayer never gets it.
  In the other order (the append is written last) the row becomes pending again
  and is deposited a second time with both hashes.
* *Missed upgrade.* One poll yields an upgrade and, in a later block, a priority
  operation. The first processor saves the operation; then the call for the
  upgrade's verification key fails, or the process stops. The watcher starts
  again one block before the operation and never sees the upgrade's block again.
* *Rejected although included.* An account is stashed while a transaction of it
  is executed but not sealed. It is loaded again with the nonce in storage and
  the transaction is executed a second time; it is rejected for its nonce, and
  the row of the transaction in the block is marked rejected.

Some properties name exceptions because the code has them.
`OnlyLateCommitsRevert`: the first call to revert, if there is one, is a commit
beyond the contract's window. `SealedIsExecuted` is checked where no commit is
late.
`ConfirmedInOrder`: the transaction that `clear_failed_transactions` deletes may
wait in L1's mempool behind a nonce gap. The server reads its base nonce only at
startup, so a later transaction is given the nonce of the one that waits, which
is mined first; the later one can never be. (One account, five transactions with
three in flight, three L1 blocks and no crash other than the panic are needed to
see it, which is more than `eth_manager` has.) `NonceNotTaken` says where this
stops: the nonce the server starts from is free.
`MempoolConsistent`: a full mempool may purge an account while a transaction of
it is executed for the second time, and load the account again with the nonce in
storage, which is beyond that transaction. Rejecting the transaction sets the
nonce back and leaves a pointer to a later one, and the next call for it meets
`expect("missing transaction in mempool")`. (It takes five transactions: three
nonces of one account, the last with a fee that is too low, and two of another,
at `Capacity` and `SyncBatch` 1; the trace has 48 states.)
`ConfirmedErasedByOtherOnly`: ids are shared by both accounts, so clearing "all
rows from the first failed one" deletes confirmed rows of the account that did
not fail. `PendingReexecutable`: a full mempool purges accounts with
transactions in flight, and `sync_mempool` deletes their rows.
`PriorityInOrder`: among these rows may be that of a priority operation which the
purged address sent on L1. If it was executed and not sealed, its block is
persisted without it; after a restart `next_priority_id`, "the next ID after the
ID of the last sealed priority operation", is the operation's own id, the
watcher stores it again, and it is executed a second time (18 steps to the wrong
id).
`ProvenOrStuck`: a job may use up its attempts; a rerun of the basic generator
may insert a node row after its leaf job has finished, which then waits for an
unknown number of proofs (`Stranded`); and the archiver may take a proof that a
job still needs (`Robbed`), for example of a tip job that is queued and that the
assertion of `recursion_tip.rs:158` then fails.
`AnswersTellChain` is about root hashes from the main node; one from L1 may be of
another fork. `StoresOfOneChain`: a tree from before a restoration of Postgres is
compared with it by root hashes, and is only known to be of its chain if these are.
`NothingSharedRolledBack`: batches without a root hash, or with one of a fork,
are rolled back with the diverged ones even if both nodes have them. The latter
comes from L1: the main node commits a batch and reverts it, the external node
syncs the new batch of that number and finds the old event; the root hash it
saves is not the main node's, and it rolls back a batch that both have
(22 steps). `CatchesUp`: a root hash of a fork stays unseen while the detector
compares a later one, or while the main node lacks the local batch's last block
(`UnseenForkRoot`). Besides, after a restoration of Postgres the saved tree and
the root hashes may be of two forks; if the main node then reverts again,
`roll_back_tree_blocking` fails on every launch, before the metadata calculator
that would repair the tree is started.

The data-availability model also shows two smaller departures from the
repository's `README.md`, which no run is spent on: batches below the threshold
are deposited, since a batch is pending from its first hash on, and an operation
whose record cannot be inserted is never uploaded.

### Bounds

*Data availability.* Three operations with a batch size of two and a row limit
of one give a full batch, a second one and contention for the first; two
attempts separate the first from the last; one crash can fall between any two
steps. *Manager.* Three transactions of two accounts with two in flight leave
one waiting or unsent; two levels give a resend; two L1 blocks, which may hold
several transactions each, give a final, an un-final and a reorganised block;
one crash and any number of panics. *Pipeline.* With two accounts, three batches
with at most two per execution give ranges that are cut; the clock stands still.
With one account, two batches, a clock of four, a delay of one, an age of two, a
lag of one and a window of two: a commit ages on L1 and in the database
separately, executions are mined at the first moment the delay allows, and
either commit can be too late. *Eth watch.* Four
blocks with five logs exceed the limit of four, so that ranges are split; three
operations spread over up to three blocks; crashes and errors are unbounded.
*TxFlow.* Three transactions, of which two may be priority operations (one of
them from an account that also sends L2 transactions), two nonces of one account
and a replacement; a mempool of capacity one is full with
the first, so that every insertion stashes or purges; `tx_rejected_included` has
room for all. *Provers.* Five basic circuits at arity two need two levels of
node aggregation; two workers can hold the same job; one fault of any kind, two
attempts. *External node.* Two blocks at a time, each perhaps the end of a
batch, three blocks in all over two reverts: a second fork may arise while the
first one is being rolled back, with events of both forks on L1; one crash or
restoration at any step. (The safety properties were also checked once with four
blocks and two reverts, 5.1 M states, and all properties with four blocks and
one revert, 1.2 M.)

### Fairness

`da_liveness` assumes that the tokio tasks keep running, that `reset_timeout`
passes, and that a call or transaction tried again and again eventually
succeeds. There is no timeout on the calls, so this includes that every call
ends.

`pipeline_blobs` assumes that the components' loops keep running, that L1 mines
the next transaction of each account, and that a block which can be finalized
again and again is finalized once (strong fairness of `Finalize`):
reorganisations then stop undoing a transaction, which is Ethereum's promise.
The commitment generator may restart but not always before saving. Weak
fairness of the aggregator's step covers the deadline criterion too: an
operation that only the deadline can release is released in the end, because a
configured deadline passes. Nothing forces the state keeper to seal or the clock
to go on.

`eth_watch` and `eth_watch_upgrade_missed` assume that started steps go on, and
that among any number of failures, stops and stale answers there is again and
again a poll answered with the head of L1, and a step that succeeds within such
an iteration (strong fairness). `proof_pipeline` assumes that every process's
loop goes on and that a stuck job's timeout passes; faults are finitely many.
`en_follows_main` assumes that fetcher, state keeper, detector and reverter keep
running and that the main node computes its root hashes and commits its batches
to L1; neither the metadata calculator nor the tree data fetcher of the external
node has to make progress, and the main node need not seal anything.

## 4. Proofs

`DataAvailabilityProofs` proves, for all values of the constants that satisfy
`ParamsAssumption`:

* `TypeCorrect`: `Spec => []TypeOK`;
* `BatchSizeRespected`: `Spec => []BatchWithinLimit`;
* `RetriesNeverExhausted`: `Spec => []NoRowExhausted`;
* `BreakerHolds`: `Spec => []BreakerBoundsBurst`.

The first three follow from one inductive invariant, `IndInv`. `BatchWithinLimit` is not
inductive, because both tasks write back copies of rows: the invariant says the
same of every copy, in the queue of the Mintlayer task and in the hands of
either task (`CopiesWithinLimit`), and that the ids of these copies were drawn
before (`CopiesKnown`), so that no later insert takes one over.
`NoRowExhausted` needs that a row is pending without saved attempts or is
completed, and that no copy in hand has used up its attempts (`RowsUnspent`);
this in turn needs that the operations a task holds are pending rows, each held
once (`OpsInHand`), since a completed row keeps the attempts of its last pass.
The step lemma has one step per action and under it one per conjunct that the
action can disturb; the theorems combine it with the initial condition by PTL.

`BreakerBoundsBurst` needs an invariant of its own, `BurstInv`: a pass begins
only while the breaker is closed, and each failure recorded since the last
cool-down stands for at most `MaxAttempts` calls, so that the calls so far are
bounded by the recorded failures times `MaxAttempts` plus what the present pass
has spent. A breaker records a failure only after all attempts of a pass, which
is where the factor comes from.

Building on `IndInv`, the module also proves:

* `QueuedAfterCompletion`: `Spec => []QueuedOnlyCompleted`;
* `OneBatchPerHash`: `Spec => []HashInOneBatch`.

Their invariant `HashInv` has three parts. `Stored`: what IPFS holds was recorded
before, and the operation between upload and commit is there. `ListsSettled`:
every hash in a row, a copy or a deposit belongs to a settled operation (on
IPFS, and completed or cleaned up), except that the batch about to be committed
ends with the operation in hand. `Unique`: over the rows and all the copies, an
operation stands at one position of the lists of one batch id; stale copies of
one batch may agree with it, as they do. The argument: a settled operation stays
settled (`StaysSettled`); the operation in hand is not settled, so
`queue_mintlayer_batch` appends a hash that no list holds (`ReadUnique`); its
transaction settles it (`CommitSettles`); every other step only moves lists that
are there already (`ListsMoved`).

The other proofs share `NatSetLemmas`: least and greatest elements of sets of
naturals, counting the members of a set up to a number, sets of numbers that are
an initial segment, and induction in the form "a set that holds 0 and is closed
under the successor is `Nat`", which the provers can instantiate, unlike the
library's theorems about predicates.

`BatchPipelineProofs` proves, from `PipelineAssumption` and
`DeploymentAssumption`, `PipelineTypes`, `OnlyLateCommitsFail`,
`StagesAreNested`, `ConfirmedBatchesAreFinal` and `PipelineImplementsFinality`
(the refinement of `BatchFinality`). That no call but a late commit is the first
to revert is far from inductive: the aggregator decides from the columns and the
server's clock, and the contracts from their totals and the clock of L1, some
time later. The invariant ties the two together. A column and the
transactions of its type tell the same (`Columns`, `Ranges`); each stage of a
batch rests on the stage before, confirmed where another account sends it, and
on the age of a commit (`Stages`); L1 has every transaction once and after the
earlier ones of its sender (`ChainOrder`); and at any length of the chain the
totals are exactly the batches whose transactions are among it
(`TotalsTellMined`), which is what a reorganisation keeps. No batch is ahead of
the server's clock, and batches follow each other in time (`Stamped`). As long as
nothing has reverted, a waiting transaction is then the next one of its stage
(`CommitIsNext`, `ProofIsNext`, `ExecutionIsNext`), past the delay although
`block.timestamp` lags (`TimelockIsOver`, from the second part of
`DeploymentAssumption`) and, if it is a commit, of a timestamp that is neither
before its predecessor's nor too far ahead (`TimestampIsRight`, from the third):
the contracts take it unless it is a commit that is too old
(`WaitingIsAccepted`). Every mined call is a step of `BatchFinality`
(`ChainAdvances`) and the finalized prefix only grows.

`EthTxManagerProofs` proves, from `ManagerAssumption`, `ManagerTypes`,
`AttemptsAreRecorded`, `ConfirmationsAreOrdered`, `ConfirmationsAreFinal` and the
action properties `StartingNonceIsFree` and `ConfirmationsStay`. The invariant
has three groups. What L1 holds of a transaction in the database is at its
account and nonce, blocks come in order, nonces grow with ids (`DbInv`). What is
confirmed or failed was mined in a final block, and what an account has confirmed
has only confirmed or lost ones before it (`FinalInv`). In the loop, the attempt
about to be sent is recorded and not on L1, the nonce to start from is used by no
deleted transaction, and what the loop over the in-flight transactions has passed
without confirming stands in the way of all that follows (`LoopInv`,
`Monitored`): this is why the early return matters. The proof attempt showed that
two earlier statements were too strong; the exceptions above are what is left.

`ProofPipelineProofs` proves, from `ProofAssumption`, `ProofTypes`,
`InputsAreProven`, `TreeIsWhole` and the action property `FinishedWorkStays`. A
proof that was found stays found, successful or archived (`Done`); a row was
inserted by a job that finished in the same step (`Produced`); and a job is let
loose only when all its inputs are done (`TreeInv`). Witness and compressor rows
are never archived, so that `TreeIsWhole` follows from the scheduler's row down
the tree, by induction on the depth (`WholeTree`), whatever the archiver took on
the way. The house keeper's count of proofs is enough because it counts as many
as the tree has (`AllCounted`); an archived proof only makes the count too low.
What a worker holds may be of a row that others have moved on (`InHand`), so that
late and repeated results are covered; a batch is called generated only after its
compressed proof was there (`Submitted`). `InputsAreProven` says that the proofs
of a job which is let loose were all produced, and not that they are still in the
table: the archiver may have taken one, which is the `Robbed` case above.

`TxFlowProofs` proves, from `TxFlowAssumption`, `FlowTypes`,
`MempoolIsConsistent`, `OperationsAreOrdered`, `RowsAreTrue` and
`PendingIsReexecutable`. The conjuncts of its invariant:

* `ExecInv`: every executed transaction came at its account's, or its queue's,
  turn, so that no key is executed twice (`DistinctKeys`), although transactions
  are tried twice;
* `RowsInv`, `UnmarkedInv`: what the table marks is in its block; what a marked
  block executed has its row, or the row was deleted; what is executed and not
  marked yet can still be marked;
* `StoreInv`: an account holds one transaction per nonce and none that is older
  than its own, every next transaction has a pointer, `size` counts;
* `FreshInv`: before the first fetch the memory is empty, so that
  `remove_stuck_txs` deletes nothing the state keeper has in hand;
* `CurInv`: the account of the transaction in execution is at most at its
  successor, unless it was overtaken; `rollback` removes just that pointer;
* `OrderInv`: operations are executed in the order of their ids, and one comes
  again, or a later one is already done, only if a row was deleted. The operation
  whose turn it is follows one that is done, and no operation from it on is done
  that still has its row. After a restart the next id is one more than the
  greatest among the rows of persisted blocks, so what is done beyond it has lost
  its row.

`EthWatchProofs` proves, from `BoundsAreNaturals`, `TypeCorrect`, `HalvingIsExact`
and `NoOpLeftBehind`. The first needs what an iteration knows while L1 grows under
it: the logs at work are still those of the blocks from the last processed one to
`to_block` (`WorkOK`, with `L1BlockStep`). The operations in Postgres are then the
first ones of L1 (`StoredOK`), because the new ones follow the next expected id,
or there are none: this is what the second assertion of the processor buys
(`NextIdOK`). `next_expected_priority_id` equals the number of stored operations
whenever the first processor is not at work, which is why `run` need not
initialize it again after an error; the same holds of
`last_seen_protocol_version` (`SeenOK`). A poll goes through `get_events`:
`RecursionEnds` shows, by induction on the length of the range, that its
recursion has a solution, and `GetEventsIsExact`, by the same induction, that
the answer is the logs of the range or the error.

`NoOpLeftBehind` has a hypothesis, `[]FirstOpInReach`: while no operation is
stored, the first operation of L1 is less than `PRIORITY_EXPIRATION` blocks below
the head. Without it the statement is false: a watcher that has been down for
longer scans from beyond that operation ("to be safe, scan the last 50k blocks",
`eth_watch/src/lib.rs`). The run `eth_watch` satisfies it, as its
`PRIORITY_EXPIRATION` covers all its blocks. The invariant is `ReachOK`: the
operations of the blocks up to the last processed one are stored, and once the
first processor is done those up to `to_block`. Starting over keeps it because
the block before the last operation's holds earlier operations only
(`StartBlock`).

`ExternalNodeProofs` proves, from the assumptions of `ExternalNode`, `TypeCorrect`,
`StoresHoldOneChain` and the action properties `AnswersAreOfTheChain` and
`RollBackSparesShared`. It rests on lemmas about chains and their batches (where a
batch ends, what two chains share, what a prefix keeps). The invariant:

* `CacheInv`: the cache is whole batches and a prefix of Postgres; when Postgres
  is about to be rolled back it is already at or below the batch to keep;
* `TreeInv`: both copies of the tree are whole batches. If Postgres was never
  restored they are prefixes of it, whatever the root hashes are, because a tree
  is only ever cut; otherwise they are when the tree was checked at its start and
  the root hashes tell the chain (`RootsTellChain`), which one from L1 may not. In
  a rollback the tree is cut before the other stores;
* `FetchInv`: an answer of the main node not yet saved is the root hash of the
  batch in Postgres, provided the main node still has that batch;
* `KnownIds`: the main node never seals the same block again, so that what has
  diverged stays diverged, however the main node moves on between two requests;
* `DetectorInv`: the right end of the search is a batch that has diverged as far
  as its own root hash is known, or the one after the last root hash. In a running
  process the detector only decides that there is a reorg, and the search is made
  at the next start;
* `RollBackInv`: the first batch rolled back has diverged, if its root hash is its
  own.

`RollBackSparesShared` follows from the last one, as a chain that shares a batch
shares those before. `TreeInv` needs that a restarted tree is cut to batches of
Postgres: `ensure_no_l1_batch_divergence` looks for the last one by `BinarySearch`, a
recursive function of the number of halvings; `BisectionUnfold` shows that it
exists and `BinarySearchFacts` that the batch it finds matches.

## 5. What is only model-checked, and what is not modelled

Liveness stays with TLC: the prover handles neither fairness nor `ENABLED`. This
concerns `RecordedOpCompletes`, `BatchCompletes`, `SealedIsExecuted`,
`ProvenOrStuck`, `OpsArrive` and `CatchesUp`. All safety properties and action
properties of the passing runs are proved: two of the definitions they use are
recursive, `get_events` and `BinarySearch`, and are written as recursive functions
for that purpose. `NoOpBehindCursor` is proved under the hypothesis stated above.

The theorems hold for every value of the constants, the bounds on crashes,
transactions and blocks included; these bounds are in the guards, and no proof
uses how large they are.

Not modelled: fee arithmetic and the gas adjuster, L1 protocol upgrades in the
aggregator, `revertBatches` on L1, snapshot files, validium mode and the DA
dispatcher, the connection pool, calldata, the contents of commitments, proofs
and logs, the CPU prover, TEE proofs, pruning and snapshot recovery, and the
remaining components of `PROJECT.json`. What an operator does after an L1
transaction has failed is covered by `EthTxManager` only; `BatchPipeline` goes on
as if nothing had panicked. The main node's guard against rolling back
executed batches reads confirmations that lag L1; `ExternalNode` takes it to be
exact.

## 6. Plan

1. Modelled: `DataAvailability`, `EthTxManager`, `BatchPipeline` with
   `BatchFinality`, `EthWatch`, `TxFlow`, `ProofPipeline`, `ExternalNode`.
2. Proved: the safety and action properties of all of them.
3. Models that would follow with more room: pruning and snapshot recovery, the
   DA dispatcher, the fee oracle.
