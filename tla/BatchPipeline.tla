---------------------------- MODULE BatchPipeline ----------------------------
(***************************************************************************)
(* The life of an L1 batch after it is sealed: the Merkle tree hash, the   *)
(* commitment generator, the aggregator that turns batches into Commit,    *)
(* PublishProofOnchain and Execute transactions                            *)
(* (core/node/eth_sender/src/aggregator.rs), and the contracts that accept *)
(* or revert them (ValidatorTimelock.sol, Executor.sol).                   *)
(*                                                                         *)
(* EthTxManager is represented by what it guarantees (see that module):    *)
(* each operator's transactions are mined in nonce order and confirmed, in *)
(* order, once final.  L1 reorganises what is not final.                   *)
(*                                                                         *)
(* There are two clocks, both in whole seconds: the server's, now, and     *)
(* block.timestamp, which lags behind it.  Batches and blocks may share a  *)
(* second: where the code has < between two of them there is <= here.      *)
(***************************************************************************)
EXTENDS Integers, Sequences, FiniteSets

CONSTANTS
    MaxBatches,      \* bound: L1 batches sealed
    MaxCommit,       \* max_aggregated_blocks_to_commit
    MaxProve,        \* the largest of aggregated_proof_sizes
    MaxExecute,      \* max_aggregated_blocks_to_execute
    MaxAllowedLag,   \* timestamp_criteria_max_allowed_lag
    Parallelism,     \* of the commitment generator
    RealProofs,      \* proof_sending_mode: OnlyRealProofs, or SkipEveryProof
    Operate4844,     \* a second operator account sends the commit transactions
    WithMinAge,      \* l1_batch_min_age_before_execute_seconds is set
    MinAge,          \* and its value
    ExecutionDelay,  \* ValidatorTimelock.executionDelay
    COMMIT_TIMESTAMP_NOT_OLDER,            \* the oldest batch that may be committed
    COMMIT_TIMESTAMP_APPROXIMATION_DELTA,  \* how far a batch may be ahead of L1
    BlockLag,        \* the most that block.timestamp lags behind the server's clock
    MaxTime          \* bound: clock

ASSUME PipelineAssumption ==
    /\ {MaxBatches, MaxCommit, MaxProve, MaxExecute, Parallelism} \subseteq Nat \ {0}
    /\ {MaxAllowedLag, MinAge, ExecutionDelay, COMMIT_TIMESTAMP_NOT_OLDER,
        COMMIT_TIMESTAMP_APPROXIMATION_DELTA, BlockLag, MaxTime} \subseteq Nat
    /\ {RealProofs, Operate4844, WithMinAge} \subseteq BOOLEAN
\* The deployed configuration (etc/env): the contracts take one batch per commit
\* and per proof; the age the aggregator waits for is higher than the timelock by
\* the lag of block.timestamp (core/lib/config/src/configs/eth_sender.rs), and no
\* timelock is set when it waits for none; the lag is within what commits allow.
ASSUME DeploymentAssumption ==
    /\ MaxCommit = 1 /\ MaxProve = 1
    /\ IF WithMinAge THEN ExecutionDelay + BlockLag <= MinAge ELSE ExecutionDelay = 0
    /\ BlockLag <= COMMIT_TIMESTAMP_APPROXIMATION_DELTA

Batches == 1 .. MaxBatches
\* Every batch is in one transaction of each type.
TxIds == 1 .. 3 * MaxBatches
NoTx == 0
None == MaxBatches + 1
AggregatedActionType == {"Commit", "PublishProofOnchain", "Execute"}

VARIABLES
    sealed,       \* last sealed L1 batch
    stamps,       \* its timestamp, and that of its last L2 block: batch -> [batch, last]
    hashed,       \* last batch with its tree hash
    commitments,  \* batches with commitment IS NOT NULL
    generating,   \* commitment generator: artifacts computed, still to be saved
    proofs,       \* object store: batches with a wrapped proof
    commitTx, proveTx, executeTx,  \* l1_batches.eth_*_tx_id
    txs,          \* eth_txs: sequence of [type, prev, first, last]
    confirmed,    \* eth_txs with a confirmed attempt: id -> confirmed_at, or NotYet
    chain,        \* L1: mined [tx, ok, at, committed, verified, executed], with the state after it
    final,        \* L1: length of the finalized prefix of chain
    now           \* the server's clock

vars == <<sealed, stamps, hashed, commitments, generating, proofs, commitTx, proveTx, executeTx,
          txs, confirmed, chain, final, now>>
batchVars == <<sealed, stamps, hashed, commitments, generating, proofs>>
dbVars == <<commitTx, proveTx, executeTx, txs, confirmed>>

NotYet == -1
Lo(S) == CHOOSE x \in S : \A y \in S : x <= y
Hi(S) == CHOOSE x \in S : \A y \in S : y <= x
LastOr0(S) == IF S = {} THEN 0 ELSE Hi(S)
\* ORDER BY number LIMIT n
Limit(S, n) == {b \in S : Cardinality({c \in S : c < b}) < n}
IsConfirmed(id) == id # NoTx /\ confirmed[id] # NotYet

(***************************************************************************)
(* The contracts.                                                          *)
(***************************************************************************)
GenesisState == [tx |-> NoTx, ok |-> TRUE, at |-> 0, committed |-> 0, verified |-> 0, executed |-> 0]
StateAt(n) == IF n = 0 THEN GenesisState ELSE chain[n]
L1State == StateAt(Len(chain))

\* ValidatorTimelock: committedBatchTimestamp of a batch.
CommittedAt(b) ==
    LET ks == {k \in DOMAIN chain : chain[k].ok /\ txs[chain[k].tx].type = "Commit"
                                    /\ b \in txs[chain[k].tx].first .. txs[chain[k].tx].last}
    IN  IF ks = {} THEN 0 ELSE chain[Hi(ks)].at

GenesisStamp == [batch |-> 0, last |-> 0]
StampOf(b) == IF b = 0 THEN GenesisStamp ELSE stamps[b]

\* Executor._verifyBatchTimestamp of a batch in a block of the given time.
verifyBatchTimestamp(b, prev, time) ==
    /\ StampOf(prev).batch <= StampOf(b).batch
    /\ time - COMMIT_TIMESTAMP_NOT_OLDER <= StampOf(b).batch
    /\ StampOf(b).last <= time + COMMIT_TIMESTAMP_APPROXIMATION_DELTA

commitBatches(t, time) ==
    /\ t.type = "Commit" /\ t.first = t.last
    /\ t.prev = L1State.committed /\ t.first = t.prev + 1
    /\ verifyBatchTimestamp(t.first, t.prev, time)
proveBatches(t) ==
    /\ t.type = "PublishProofOnchain" /\ t.first = t.last
    /\ t.prev = L1State.verified /\ t.first = t.prev + 1
    /\ t.last <= L1State.committed
executeBatches(t, time) ==
    /\ t.type = "Execute"
    /\ t.first = L1State.executed + 1 /\ t.last <= L1State.verified
    /\ \A b \in t.first .. t.last : time >= CommittedAt(b) + ExecutionDelay
Accepted(t, time) == commitBatches(t, time) \/ proveBatches(t) \/ executeBatches(t, time)

\* Mutant: totalBatchesExecuted counts one batch too many.
TotalsOffByOne(t) ==
    [committed |-> IF t.type = "Commit" THEN t.last ELSE L1State.committed,
     verified |-> IF t.type = "PublishProofOnchain" THEN t.last ELSE L1State.verified,
     executed |-> IF t.type = "Execute" THEN t.last + 1 ELSE L1State.executed]
\* totalBatchesCommitted, totalBatchesVerified and totalBatchesExecuted after a call.
Totals(t) ==
    [committed |-> IF t.type = "Commit" THEN t.last ELSE L1State.committed,
     verified |-> IF t.type = "PublishProofOnchain" THEN t.last ELSE L1State.verified,
     executed |-> IF t.type = "Execute" THEN t.last ELSE L1State.executed]

-----------------------------------------------------------------------------
Init ==
    /\ sealed = 0 /\ stamps = [b \in Batches |-> GenesisStamp]
    /\ hashed = 0 /\ commitments = {} /\ generating = {} /\ proofs = {}
    /\ commitTx = [b \in Batches |-> NoTx]
    /\ proveTx = [b \in Batches |-> NoTx]
    /\ executeTx = [b \in Batches |-> NoTx]
    /\ txs = <<>> /\ confirmed = [i \in TxIds |-> NotYet]
    /\ chain = <<>> /\ final = 0 /\ now = 0

(***************************************************************************)
(* Components that fill in l1_batches.                                     *)
(***************************************************************************)
\* What the state keeper may have got as the time of an L2 block that it opened
\* after one with this time.
sleep_past(timestamp) == timestamp .. now

\* The state keeper seals the next batch, with the times of its first and last block.
Seal ==
    /\ sealed < MaxBatches /\ sealed' = sealed + 1
    /\ \E first \in sleep_past(StampOf(sealed).last) : \E last \in sleep_past(first) :
        stamps' = [stamps EXCEPT ![sealed'] = [batch |-> first, last |-> last]]
    /\ UNCHANGED <<hashed, commitments, generating, proofs, dbVars, chain, final, now>>

\* The metadata calculator processes batches in order.
SaveTreeHash ==
    /\ hashed < sealed /\ hashed' = hashed + 1
    /\ UNCHANGED <<sealed, stamps, commitments, generating, proofs, dbVars, chain, final, now>>

\* Mutant: the range is not cut at the last batch that is ready.
RangeBeyondReady ==
    LET ready == {b \in 1 .. hashed : b \notin commitments}
    IN  IF ready = {} THEN {} ELSE Lo(ready) .. Lo(ready) + Parallelism - 1

\* CommitmentGenerator::next_batch_range, and the computation in parallel.
next_batch_range ==
    LET ready == {b \in 1 .. hashed : b \notin commitments}
    IN  IF ready = {} THEN {} ELSE {b \in ready : b <= Lo(ready) + Parallelism - 1}
GenerateCommitments ==
    /\ generating = {} /\ generating' = next_batch_range /\ generating' # {}
    /\ UNCHANGED <<sealed, stamps, hashed, commitments, proofs, dbVars, chain, final, now>>

\* Mutant: artifacts are saved as soon as they are ready, in any order.
SaveAnyCommitment(b) ==
    /\ b \in generating
    /\ commitments' = commitments \cup {b} /\ generating' = generating \ {b}
    /\ UNCHANGED <<sealed, stamps, hashed, proofs, dbVars, chain, final, now>>

\* CommitmentGenerator::step saves in order, one transaction per batch.
save_l1_batch_commitment_artifacts(b) ==
    /\ b \in generating /\ b = Lo(generating)
    /\ commitments' = commitments \cup {b} /\ generating' = generating \ {b}
    /\ UNCHANGED <<sealed, stamps, hashed, proofs, dbVars, chain, final, now>>

\* A restart or a database error loses the artifacts that are not saved.
GeneratorRestarts ==
    /\ generating # {} /\ generating' = {}
    /\ UNCHANGED <<sealed, stamps, hashed, commitments, proofs, dbVars, chain, final, now>>

\* The provers finish in any order.
ProofReady(b) ==
    /\ RealProofs /\ b \in 1 .. hashed /\ b \notin proofs
    /\ proofs' = proofs \cup {b}
    /\ UNCHANGED <<sealed, stamps, hashed, commitments, generating, dbVars, chain, final, now>>

(***************************************************************************)
(* Publish criteria.  Each yields the possible values of                   *)
(* last_l1_batch_to_publish for the candidates C; None is above every      *)
(* batch number.  Gas and data sizes are left open (a single batch fits,   *)
(* or the criterion panics), and so is whether the deadline has passed.    *)
(***************************************************************************)
NumberCriterion(C, limit) ==
    IF Hi(C) - Lo(C) + 1 >= limit THEN {Lo(C) + limit - 1} ELSE {None}
GasCriterion(C) == {None} \cup {b - 1 : b \in C \ {Lo(C)}}
DataSizeCriterion(C) == {None} \cup {b - 1 : b \in C \ {Lo(C)}}
\* Mutant: a sender that is not lagging is taken for one that is.
TimestampNeverApplies(C, lag) == {None} \cup IF sealed - Hi(C) < lag THEN {} ELSE {Hi(C)}
TimestampDeadlineCriterion(C, lag) ==
    {None} \cup IF sealed - Hi(C) >= lag THEN {} ELSE {Hi(C)}
NoLag == MaxBatches + 1

\* extract_ready_subrange: the possible ranges; {} stands for "nothing yet".
extract_ready_subrange(C, criteria) ==
    IF C = {} THEN {{}}
    ELSE {IF Lo(ends) = None THEN {} ELSE {b \in C : b <= Lo(ends)} :
            ends \in {{x, y, z} : x \in criteria[1], y \in criteria[2], z \in criteria[3]}}

(***************************************************************************)
(* Candidates for each operation.                                          *)
(***************************************************************************)
\* Mutant: the age is not looked at.
OldWhenConfirmed(b) == IsConfirmed(commitTx[b])
\* raw_ready_for_execute_l1_batches: up to the last batch whose commit was
\* confirmed more than MinAge ago; both times are finer than a second.
OldEnough(b) == IsConfirmed(commitTx[b]) /\ confirmed[commitTx[b]] <= now - MinAge

get_ready_for_execute_l1_batches ==
    LET ready == {b \in Batches : proveTx[b] # NoTx /\ executeTx[b] = NoTx}
        old == {b \in ready : OldEnough(b)}
    IN  Limit(IF ~WithMinAge THEN ready
              ELSE IF old = {} THEN {} ELSE Lo(ready) .. Hi(old), MaxExecute)

get_execute_operations ==
    LET C == get_ready_for_execute_l1_batches
    IN  extract_ready_subrange(C, IF C = {} THEN <<>> ELSE
            <<NumberCriterion(C, MaxExecute), GasCriterion(C),
              TimestampDeadlineCriterion(C, MaxAllowedLag)>>)

get_last_l1_batch_with_prove_tx == LastOr0({b \in Batches : proveTx[b] # NoTx})

\* Mutant: the commit transaction need not be confirmed in 4844 mode.
RealProofWithoutWaiting ==
    LET b == get_last_l1_batch_with_prove_tx + 1
    IN  IF b \in Batches /\ commitTx[b] # NoTx /\ b \in proofs THEN {{b}} ELSE {{}}

load_real_proof_operation ==
    LET b == get_last_l1_batch_with_prove_tx + 1
    IN  IF /\ b \in Batches /\ commitTx[b] # NoTx /\ b \in proofs
           /\ Operate4844 => IsConfirmed(commitTx[b])
        THEN {{b}} ELSE {{}}

load_dummy_proof_operations ==
    LET C == Limit({b \in Batches : commitTx[b] # NoTx /\ proveTx[b] = NoTx}, MaxProve)
    IN  {b \in C : Operate4844 => \A c \in C : c <= b => IsConfirmed(commitTx[c])}

prepare_dummy_proof_operation(C) ==
    extract_ready_subrange(C, IF C = {} THEN <<>> ELSE
        <<NumberCriterion(C, MaxProve), GasCriterion(C), TimestampDeadlineCriterion(C, NoLag)>>)

\* OnlySampledProofs is OnlyRealProofs here: nothing sets l1_batches.skip_proof.
get_proof_operation ==
    IF RealProofs THEN load_real_proof_operation
    ELSE prepare_dummy_proof_operation(load_dummy_proof_operations)

get_last_committed_to_eth_l1_batch ==
    LastOr0({b \in Batches : commitTx[b] # NoTx /\ b \in commitments})
get_ready_for_commit_l1_batches ==
    Limit({b \in Batches : commitTx[b] = NoTx /\ b \in commitments}, MaxCommit)
get_commit_operation ==
    LET C == get_ready_for_commit_l1_batches
    IN  extract_ready_subrange(C, IF C = {} THEN <<>> ELSE
            <<NumberCriterion(C, MaxCommit), GasCriterion(C) \cup DataSizeCriterion(C),
              TimestampDeadlineCriterion(C, MaxAllowedLag)>>)

(***************************************************************************)
(* EthTxAggregator::loop_iteration.  The loop is the only writer of the    *)
(* eth_*_tx_id columns and what the others write only adds candidates, so  *)
(* reading and saving are one step.  Execute comes before a proof, and a   *)
(* proof before Commit.                                                    *)
(***************************************************************************)
\* save_eth_tx and set_eth_tx_id, which only fills columns that are NULL.
save_eth_tx(type, prev, B) ==
    /\ txs' = Append(txs, [type |-> type, prev |-> prev, first |-> Lo(B), last |-> Hi(B)])
    /\ UNCHANGED <<batchVars, confirmed, chain, final, now>>
set_eth_tx_id(column, B) ==
    [b \in Batches |-> IF b \in B /\ column[b] = NoTx THEN Len(txs) + 1 ELSE column[b]]

NothingToExecute == {} \in get_execute_operations
NothingToProve == {} \in get_proof_operation

AggregateExecute ==
    \E B \in get_execute_operations :
        /\ B # {}
        /\ save_eth_tx("Execute", 0, B)
        /\ executeTx' = set_eth_tx_id(executeTx, B)
        /\ UNCHANGED <<commitTx, proveTx>>

AggregateProof ==
    /\ NothingToExecute
    /\ \E B \in get_proof_operation :
        /\ B # {}
        /\ save_eth_tx("PublishProofOnchain", Lo(B) - 1, B)
        /\ proveTx' = set_eth_tx_id(proveTx, B)
        /\ UNCHANGED <<commitTx, executeTx>>

AggregateCommit ==
    /\ NothingToExecute /\ NothingToProve
    /\ \E B \in get_commit_operation :
        /\ B # {}
        /\ save_eth_tx("Commit", get_last_committed_to_eth_l1_batch, B)
        /\ commitTx' = set_eth_tx_id(commitTx, B)
        /\ UNCHANGED <<proveTx, executeTx>>

Aggregate == AggregateExecute \/ AggregateProof \/ AggregateCommit

(***************************************************************************)
(* L1 and the transaction manager.                                         *)
(***************************************************************************)
Sender(id) == IF Operate4844 /\ txs[id].type = "Commit" THEN "Blob" ELSE "NonBlob"
Mined == {chain[k].tx : k \in DOMAIN chain}
Earlier(id) == {i \in 1 .. id - 1 : Sender(i) = Sender(id)}

\* block.timestamp of the next block: behind the server's clock, never behind the
\* block before.
BlockTimes == {time \in L1State.at .. now : now <= time + BlockLag}

MineTx(id) ==
    /\ id \in DOMAIN txs \ Mined /\ Earlier(id) \subseteq Mined
    /\ \E time \in BlockTimes :
        LET ok == Accepted(txs[id], time)
            s == IF ok THEN Totals(txs[id]) ELSE L1State
        IN  chain' = Append(chain, [tx |-> id, ok |-> ok, at |-> time, committed |-> s.committed,
                                    verified |-> s.verified, executed |-> s.executed])
    /\ UNCHANGED <<batchVars, dbVars, final, now>>

Finalize ==
    /\ final < Len(chain) /\ final' = final + 1
    /\ UNCHANGED <<batchVars, dbVars, chain, now>>

Reorg ==
    /\ \E n \in final .. Len(chain) - 1 : chain' = SubSeq(chain, 1, n)
    /\ UNCHANGED <<batchVars, dbVars, final, now>>

\* Mutant: a mined transaction is confirmed before its block is final.
ConfirmMined(id) ==
    /\ id \in DOMAIN txs /\ ~IsConfirmed(id)
    /\ \E k \in DOMAIN chain : chain[k].tx = id /\ chain[k].ok
    /\ confirmed' = [confirmed EXCEPT ![id] = now]
    /\ UNCHANGED <<batchVars, commitTx, proveTx, executeTx, txs, chain, final, now>>

confirm_tx(id) ==
    /\ id \in DOMAIN txs /\ ~IsConfirmed(id)
    /\ \A i \in Earlier(id) : IsConfirmed(i)
    /\ \E k \in 1 .. final : chain[k].tx = id /\ chain[k].ok
    /\ confirmed' = [confirmed EXCEPT ![id] = now]
    /\ UNCHANGED <<batchVars, commitTx, proveTx, executeTx, txs, chain, final, now>>

Tick ==
    /\ now < MaxTime /\ now' = now + 1
    /\ UNCHANGED <<batchVars, dbVars, chain, final>>

\* The bounds are reached: every batch is executed, or the clock has run out.
AllDone ==
    /\ \/ StateAt(final).executed = MaxBatches
       \/ WithMinAge /\ now = MaxTime
    /\ UNCHANGED vars

-----------------------------------------------------------------------------
Next ==
    \/ Seal \/ SaveTreeHash \/ GenerateCommitments \/ GeneratorRestarts
    \/ \E b \in Batches : save_l1_batch_commitment_artifacts(b) \/ ProofReady(b)
    \/ Aggregate
    \/ \E id \in TxIds : MineTx(id) \/ confirm_tx(id)
    \/ Finalize \/ Reorg \/ Tick \/ AllDone

Spec == Init /\ [][Next]_vars

\* The components keep running, the provers and L1 make progress, and a block that
\* keeps being mined again is final at last (Ethereum's finality); the generator's
\* restarts do not stop it from saving.
Fairness ==
    /\ WF_vars(SaveTreeHash) /\ WF_vars(GenerateCommitments) /\ WF_vars(Aggregate)
    /\ SF_vars(\E b \in Batches : save_l1_batch_commitment_artifacts(b))
    /\ WF_vars(\E b \in Batches : ProofReady(b))
    /\ \A o \in {"NonBlob", "Blob"} : WF_vars(\E id \in DOMAIN txs : Sender(id) = o /\ MineTx(id))
    /\ WF_vars(\E id \in TxIds : confirm_tx(id))
    /\ SF_vars(Finalize)
FairSpec == Spec /\ Fairness

-----------------------------------------------------------------------------
\* Every variable keeps its type; batch columns refer to transactions that exist.
TypeOK ==
    /\ sealed \in 0 .. MaxBatches /\ hashed \in 0 .. sealed
    /\ stamps \in [Batches -> [batch : 0 .. MaxTime, last : 0 .. MaxTime]]
    /\ commitments \subseteq 1 .. hashed /\ generating \subseteq 1 .. hashed
    /\ proofs \subseteq 1 .. hashed
    /\ {commitTx, proveTx, executeTx} \subseteq [Batches -> 0 .. Len(txs)]
    /\ txs \in Seq([type : AggregatedActionType, prev : 0 .. MaxBatches,
                     first : Batches, last : Batches])
    /\ confirmed \in [TxIds -> {NotYet} \cup 0 .. MaxTime]
    /\ chain \in Seq([tx : DOMAIN txs, ok : BOOLEAN, at : 0 .. MaxTime, committed : 0 .. MaxBatches,
                       verified : 0 .. MaxBatches, executed : 0 .. MaxBatches])
    /\ final \in 0 .. Len(chain) /\ now \in 0 .. MaxTime

\* The k-th transaction on L1 commits a batch older than the contract allows.
TooOld(k) ==
    LET t == txs[chain[k].tx]
    IN  t.type = "Commit" /\ chain[k].at > StampOf(t.first).batch + COMMIT_TIMESTAMP_NOT_OLDER

\* The panic "We can't operate after tx fail" of fail_tx is reached in one way only:
\* a batch waited for its commit until it was too old.  Whatever order the
\* operators' transactions are mined in, however block.timestamp lags within its
\* bound and whatever L1 reorganises, no other call is the first to revert.
OnlyLateCommitsRevert ==
    \A k \in DOMAIN chain :
        chain[k].ok \/ TooOld(k) \/ \E j \in 1 .. k - 1 : ~chain[j].ok

\* The batches of each stage are a prefix of the batches of the stage before,
\* with a later transaction: no batch is skipped, overtaken or taken twice.  The
\* queries alone do not say so; the first relies on commitments saved in order.
StagesNested ==
    \A b \in Batches :
        /\ b > 1 => /\ commitTx[b] # NoTx => commitTx[b - 1] \in 1 .. commitTx[b]
                    /\ proveTx[b] # NoTx => proveTx[b - 1] \in 1 .. proveTx[b]
                    /\ executeTx[b] # NoTx => executeTx[b - 1] \in 1 .. executeTx[b]
        /\ proveTx[b] # NoTx => commitTx[b] \in 1 .. proveTx[b] - 1
        /\ executeTx[b] # NoTx => proveTx[b] \in 1 .. executeTx[b] - 1

\* What the database calls confirmed is final on L1.
ConfirmedIsFinal ==
    \A b \in Batches :
        /\ IsConfirmed(commitTx[b]) => b <= StateAt(final).committed
        /\ IsConfirmed(proveTx[b]) => b <= StateAt(final).verified
        /\ IsConfirmed(executeTx[b]) => b <= StateAt(final).executed

\* The final part of L1 behaves like the life cycle the contracts promise.
Finality == INSTANCE BatchFinality
    WITH committed <- StateAt(final).committed, verified <- StateAt(final).verified,
         executed <- StateAt(final).executed
FinalityRefined == Finality!Spec

\* Every sealed batch is executed in the end, through all three stages.
SealedIsExecuted == \A b \in Batches : sealed >= b ~> StateAt(final).executed >= b
=============================================================================
