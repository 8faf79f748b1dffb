---------------------------- MODULE ProofPipeline ----------------------------
(***************************************************************************)
(* How a batch is proven: the core's proof_generation_details, the prover  *)
(* gateway, the job tables of the prover database, the witness generators, *)
(* the GPU prover with its witness vector queue, the compressor and the    *)
(* house keeper that moves and requeues jobs.                              *)
(*                                                                         *)
(* A row is known by <<table, round, batch, circuit, depth, sequence>>,    *)
(* the unique key the tables have.  Circuit types stand for both the base  *)
(* layer circuit and the recursive one it maps to.  Every worker process   *)
(* may crash, fail a job, or be so slow that its job is handed out again   *)
(* while it still works on it.                                             *)
(***************************************************************************)
EXTENDS Integers, Sequences, FiniteSets

CONSTANTS
    Batches,      \* numbers of the batches to prove
    Circuits,     \* circuit types of a batch, a set of positive numbers
    Basics,       \* circuit type -> number of basic circuits
    Arity,        \* proofs one recursive circuit aggregates
    MaxDepth,     \* bound: depth of the node aggregation
    Workers,      \* job processors, each serving any of the tables
    QueueSize,    \* capacity of the prover's witness vector queue
    MaxAttempts,  \* max_attempts of the job tables
    MaxFaults     \* bound: crashes, failures, lost answers and early timeouts

CeilArity(n) == (n + Arity - 1) \div Arity
\* Proofs of circuit type c that the node aggregation at depth d consumes.
Widths[d \in 0 .. MaxDepth] ==
    [c \in Circuits |-> CeilArity(IF d = 0 THEN Basics[c] ELSE Widths[d - 1][c])]
Width(c, d) == Widths[d][c]

ASSUME ProofAssumption ==
    /\ Batches \subseteq Nat \ {0}
    /\ Circuits \subseteq Nat \ {0} /\ IsFiniteSet(Circuits)
    /\ Basics \in [Circuits -> Nat \ {0}] /\ Arity \in Nat \ {0, 1}
    /\ MaxDepth \in Nat \ {0} /\ QueueSize \in Nat \ {0}
    /\ MaxAttempts \in Nat \ {0} /\ MaxFaults \in Nat
    /\ \A c \in Circuits : Width(c, MaxDepth) = 1

VARIABLES
    pgd,      \* core, proof_generation_details: batch -> [st, vm, paths, meta]
    fetched,  \* batch whose proof generation data the gateway is about to save, or 0
    rows,     \* prover database: row -> [st, att, dep]; dep = 0 stands for NULL
    archived, \* prover_jobs_fri_archive
    hold,     \* worker -> [job, pos]: the row it works on and how far it got
    gpu,      \* gpu_prover_queue_fri and the instance: [st, queue]
    sent,     \* batch whose submitted proof is not acknowledged yet, or 0
    faults    \* faults so far

vars == <<pgd, fetched, rows, archived, hold, gpu, sent, faults>>

WitJob(b) == <<"wg", 0, b, 0, 0, 0>>
LeafJob(b, c) == <<"wg", 1, b, c, 0, 0>>
NodeJob(b, c, d) == <<"wg", 2, b, c, d, 0>>
TipJob(b) == <<"wg", 3, b, 0, 0, 0>>
SchedJob(b) == <<"wg", 4, b, 0, 0, 0>>
ProverJob(r, b, c, d, s) == <<"prover", r, b, c, d, s>>
CompJob(b) == <<"compressor", 5, b, 0, 0, 0>>
NoJob == <<"none", 0, 0, 0, 0, 0>>
Idle == [job |-> NoJob, pos |-> 0]
\* insert_prover_instance: a prover that starts announces itself as available.
StartedProver == [st |-> "available", queue |-> <<>>]

Rows(r) == {j \in DOMAIN rows : j[1] = "wg" /\ j[2] = r}
ProverRows == {j \in DOMAIN rows : j[1] = "prover"}
Successful(j) == j \in DOMAIN rows /\ rows[j].st = "successful"
HeldByNobody(j) ==
    /\ \A w \in Workers : hold[w].job # j
    /\ \A i \in DOMAIN gpu.queue : gpu.queue[i] # j

\* The prover jobs each round of circuit type c is made of.
BasicProofs(b, c) == {ProverJob(0, b, c, 0, s) : s \in 1 .. Basics[c]}
LeafProofs(b, c) == {ProverJob(1, b, c, 0, s) : s \in 1 .. Width(c, 0)}
NodeProofs(b, c, d) == {ProverJob(2, b, c, d, s) : s \in 1 .. Width(c, d)}
\* is_node_final_proof: the only node proof of its depth.
IsFinalNode(j) == j[1] = "prover" /\ j[2] = 2 /\ Width(j[4], j[5]) = 1

\* The depth of the only node proof that is left of circuit type c.
FinalDepth(c) == CHOOSE d \in 1 .. MaxDepth : Width(c, d) = 1 /\ \A e \in 1 .. d - 1 : Width(c, e) > 1
\* The proofs a witness or compressor job reads.
InputProofs(j) ==
    LET b == j[3]  c == j[4]  d == j[5]
    IN  CASE j[2] = 1 -> BasicProofs(b, c)
          [] j[2] = 2 /\ d = 0 -> LeafProofs(b, c)
          [] j[2] = 2 /\ d > 0 -> NodeProofs(b, c, d)
          [] j[2] = 3 -> {ProverJob(2, b, cc, FinalDepth(cc), 1) : cc \in Circuits}
          [] j[2] = 4 -> {ProverJob(3, b, 0, 0, 1)}
          [] j[2] = 5 -> {ProverJob(4, b, 0, 0, 1)}
          [] OTHER -> {}

(***************************************************************************)
(* Row operations shared by the tables.                                    *)
(***************************************************************************)
NewRow(st, dep) == [st |-> st, att |-> 0, dep |-> dep]
\* INSERT ... ON CONFLICT: a row that exists keeps its status and attempts.
Insert(table, js, st, dep) ==
    [j \in DOMAIN table \cup js |-> IF j \in DOMAIN table THEN table[j] ELSE NewRow(st, dep)]
SetStatus(table, js, st) ==
    [j \in DOMAIN table |-> IF j \in js THEN [table[j] EXCEPT !.st = st] ELSE table[j]]
SetAttempt(table, j) ==
    [table EXCEPT ![j].st = "in_progress", ![j].att = @ + 1]
\* The rows to hand out first: oldest batch, then lowest depth.
OldestQueued(S) ==
    LET queued == {j \in S : rows[j].st = "queued"}
    IN  {j \in queued : \A k \in queued :
            \/ j[3] < k[3]
            \/ j[3] = k[3] /\ j[5] <= k[5]}

(***************************************************************************)
(* FriProverDal and FriWitnessGeneratorDal: queries.                       *)
(***************************************************************************)
get_next_basic_circuit_witness_job == OldestQueued(Rows(0))
\* id order: the leaf jobs of a batch are inserted in circuit order.
get_next_leaf_aggregation_job ==
    LET first == OldestQueued(Rows(1)) IN {j \in first : \A k \in first : j[4] <= k[4]}
get_next_node_aggregation_job == OldestQueued(Rows(2))
get_next_recursion_tip_witness_job == OldestQueued(Rows(3))
get_next_scheduler_witness_job == OldestQueued(Rows(4))
\* Highest round, then oldest batch, then lowest id: ids grow with the sequence
\* number, and in round 0 with the circuit type.
get_next_job ==
    LET queued == {j \in ProverRows : rows[j].st = "queued"}
        SameRun(j, k) == j[4] = k[4] /\ j[5] = k[5]
    IN  {j \in queued : \A k \in queued :
            \/ j[2] > k[2]
            \/ j[2] = k[2] /\ j[3] < k[3]
            \/ /\ j[2] = k[2] /\ j[3] = k[3]
               /\ j[2] = 0 => j[4] <= k[4]
               /\ SameRun(j, k) => j[6] <= k[6]}
get_next_proof_compression_job ==
    OldestQueued({j \in DOMAIN rows : j[1] = "compressor"})

get_final_node_proof_job_ids_for(b) ==
    {j \in ProverRows : j[3] = b /\ IsFinalNode(j) /\ Successful(j)}
get_recursion_tip_proof_job_id(b) ==
    {j \in ProverRows : j[3] = b /\ j[2] = 3 /\ Successful(j)}
get_scheduler_proof_job_id(b) ==
    {j \in ProverRows : j[3] = b /\ j[2] = 4 /\ Successful(j)}
\* prover_job_ids_for: a leaf or node job finds all the proofs it aggregates.
AllProofsFound(j) == j[1] = "wg" => \A p \in InputProofs(j) : Successful(p)
\* Batches with a proof to submit, and the one submitted first.
get_least_proven_block_not_sent_to_server ==
    LET proven == {b \in Batches : Successful(CompJob(b))}
    IN  {b \in proven : \A o \in proven : b <= o}

-----------------------------------------------------------------------------
Init ==
    /\ pgd = [b \in Batches |-> [st |-> "none", vm |-> FALSE, paths |-> FALSE, meta |-> FALSE]]
    /\ fetched = 0 /\ sent = 0 /\ faults = 0
    /\ rows = [j \in {} |-> NewRow("queued", 0)] /\ archived = {}
    /\ hold = [w \in Workers |-> Idle]
    /\ gpu = StartedProver

Fault == faults < MaxFaults /\ faults' = faults + 1

(***************************************************************************)
(* The core's side and the prover gateway.                                 *)
(***************************************************************************)
\* The metadata calculator inserts the row and saves the Merkle paths.
insert_proof_generation_details(b) ==
    /\ pgd[b].st = "none"
    /\ pgd' = [pgd EXCEPT ![b].st = "unpicked", ![b].paths = TRUE]
    /\ UNCHANGED <<fetched, rows, archived, hold, gpu, sent, faults>>

\* The VM runner and the commitment generator finish in either order.
save_vm_runner_artifacts_metadata(b) ==
    /\ pgd[b].st = "unpicked" /\ ~pgd[b].vm
    /\ pgd' = [pgd EXCEPT ![b].vm = TRUE]
    /\ UNCHANGED <<fetched, rows, archived, hold, gpu, sent, faults>>

save_l1_batch_commitment_artifacts(b) ==
    /\ pgd[b].st = "unpicked" /\ ~pgd[b].meta
    /\ pgd' = [pgd EXCEPT ![b].meta = TRUE]
    /\ UNCHANGED <<fetched, rows, archived, hold, gpu, sent, faults>>

Provable(b) == pgd[b].st = "unpicked" /\ pgd[b].vm /\ pgd[b].paths /\ pgd[b].meta

\* get_proof_generation_data: the oldest provable batch, or one that was taken
\* longer than proof_generation_timeout ago.  A timeout while the prover works
\* on the batch counts as a fault; one after a lost answer does not.
get_next_block_to_be_proven(b) ==
    /\ fetched = 0
    /\ \/ Provable(b) /\ faults' = faults
       \/ pgd[b].st = "picked_by_prover" /\ WitJob(b) \notin DOMAIN rows /\ faults' = faults
       \/ pgd[b].st = "picked_by_prover" /\ WitJob(b) \in DOMAIN rows /\ Fault
    /\ \A o \in Batches : o < b => ~Provable(o)
    /\ pgd' = [pgd EXCEPT ![b].st = "picked_by_prover"]
    /\ fetched' = b
    /\ UNCHANGED <<rows, archived, hold, gpu, sent>>

\* PeriodicApi of the fetcher: save_proof_gen_data, or the answer is lost.
save_witness_inputs ==
    /\ fetched # 0 /\ fetched' = 0
    /\ rows' = Insert(rows, {WitJob(fetched)}, "queued", 0)
    /\ UNCHANGED <<pgd, archived, hold, gpu, sent, faults>>

LoseFetched ==
    /\ fetched # 0 /\ fetched' = 0 /\ Fault
    /\ UNCHANGED <<pgd, rows, archived, hold, gpu, sent>>

\* The submitter sends the proof; submit_proof on the core's side marks the
\* batch generated, whatever its status is.
submit_proof(b) ==
    /\ sent = 0 /\ b \in get_least_proven_block_not_sent_to_server
    /\ sent' = b
    /\ pgd' = [pgd EXCEPT ![b].st = "generated"]
    /\ UNCHANGED <<fetched, rows, archived, hold, gpu, faults>>

mark_proof_sent_to_server ==
    /\ sent # 0 /\ sent' = 0
    /\ rows' = SetStatus(rows, {CompJob(sent)}, "sent_to_server")
    /\ UNCHANGED <<pgd, fetched, archived, hold, gpu, faults>>

LoseSubmitAnswer ==
    /\ sent # 0 /\ sent' = 0 /\ Fault
    /\ UNCHANGED <<pgd, fetched, rows, archived, hold, gpu>>

(***************************************************************************)
(* House keeper: waiting jobs whose proofs are all there become queued.    *)
(***************************************************************************)
Waiting(r) == {j \in Rows(r) : rows[j].st = "waiting_for_proofs"}
CountSuccessful(S) == Cardinality({j \in S : Successful(j)})
\* Mutant: one proof is enough.
ReadyLeavesAny ==
    {j \in Waiting(1) : CountSuccessful(BasicProofs(j[3], j[4])) >= 1}
ReadyLeaves ==
    {j \in Waiting(1) : CountSuccessful(BasicProofs(j[3], j[4])) = Basics[j[4]]}
ReadyDepthZero ==
    {j \in Waiting(2) : j[5] = 0 /\ rows[j].dep # 0
                        /\ CountSuccessful(LeafProofs(j[3], j[4])) = rows[j].dep}
ReadyDepthNonZero ==
    {j \in Waiting(2) : j[5] # 0
                        /\ CountSuccessful(NodeProofs(j[3], j[4], j[5])) = rows[j].dep}
ReadyTips ==
    {j \in Waiting(3) :
        Cardinality(get_final_node_proof_job_ids_for(j[3])) = Cardinality(Circuits)}
ReadySchedulers == {j \in Waiting(4) : get_recursion_tip_proof_job_id(j[3]) # {}}

MoveToQueued(ready) ==
    /\ ready # {}
    /\ rows' = SetStatus(rows, ready, "queued")
    /\ UNCHANGED <<pgd, fetched, archived, hold, gpu, sent, faults>>

move_leaf_aggregation_jobs_from_waiting_to_queued == MoveToQueued(ReadyLeaves)
move_depth_zero_node_aggregation_jobs == MoveToQueued(ReadyDepthZero)
move_depth_non_zero_node_aggregation_jobs == MoveToQueued(ReadyDepthNonZero)
move_recursion_tip_jobs_from_waiting_to_queued == MoveToQueued(ReadyTips)
move_scheduler_jobs_from_waiting_to_queued == MoveToQueued(ReadySchedulers)

\* The retry managers requeue what failed, and what has been in progress for
\* longer than the timeout: early when somebody still works on it.
Requeue(j) ==
    /\ rows' = SetStatus(rows, {j}, "queued")
    /\ UNCHANGED <<pgd, fetched, archived, hold, gpu, sent>>
Retriable(j) == rows[j].att < MaxAttempts
\* Mutant: a job the GPU prover lost is never requeued.
RequeueNotGpu(j) ==
    /\ Retriable(j)
    /\ \/ rows[j].st = "failed"
       \/ rows[j].st = "in_progress" /\ HeldByNobody(j)
    /\ Requeue(j) /\ faults' = faults
requeue_stuck_jobs(j) ==
    /\ Retriable(j)
    /\ \/ rows[j].st = "failed"
       \/ rows[j].st \in {"in_progress", "in_gpu_proof"} /\ HeldByNobody(j)
    /\ Requeue(j) /\ faults' = faults
RequeueEarly(j) ==
    /\ Retriable(j)
    /\ rows[j].st \in {"in_progress", "in_gpu_proof"} /\ ~HeldByNobody(j)
    /\ Requeue(j) /\ Fault

\* FriProverJobsArchiver: the successful prover rows that were updated longer than
\* the archiving interval ago, whatever has become of their batch.
archive_old_jobs(old) ==
    /\ old # {} /\ \A j \in old : j \in ProverRows /\ Successful(j)
    /\ rows' = [j \in DOMAIN rows \ old |-> rows[j]]
    /\ archived' = archived \cup old
    /\ UNCHANGED <<pgd, fetched, hold, gpu, sent>>
\* The rows of a batch that was sent grow old in time; a row that grows old
\* sooner, because a job of its batch is left undone that long, is a fault.
ArchiveSent(b) ==
    /\ CompJob(b) \in DOMAIN rows /\ rows[CompJob(b)].st = "sent_to_server"
    /\ archive_old_jobs({j \in ProverRows : j[3] = b /\ Successful(j)})
    /\ faults' = faults
ArchiveEarly(j) == archive_old_jobs({j}) /\ Fault

(***************************************************************************)
(* Job processors: JobProcessor::run over one of the tables.               *)
(***************************************************************************)
Take(w, j) ==
    /\ hold[w] = Idle
    /\ rows' = SetAttempt(rows, j)
    /\ UNCHANGED <<pgd, fetched, archived, gpu, sent, faults>>
\* A leaf or node job reads its proofs when it is taken: at pos 1 some are missing.
GetNextJob(w) ==
    \E j \in UNION {get_next_basic_circuit_witness_job, get_next_leaf_aggregation_job,
                    get_next_node_aggregation_job, get_next_job} :
        /\ Take(w, j)
        /\ hold' = [hold EXCEPT ![w] = [job |-> j, pos |-> IF AllProofsFound(j) THEN 0 ELSE 1]]

\* The recursion tip generator asserts that all final node proofs are there and
\* the scheduler's one that the tip proof is: otherwise the process dies.  The
\* compressor goes on without the job.  All of them leave the row in progress.
GetNextTip(w) ==
    \E j \in get_next_recursion_tip_witness_job :
        /\ Take(w, j)
        /\ hold' = [hold EXCEPT ![w] =
              IF Cardinality(get_final_node_proof_job_ids_for(j[3])) = Cardinality(Circuits)
              THEN [job |-> j, pos |-> 0] ELSE Idle]
GetNextScheduler(w) ==
    \E j \in get_next_scheduler_witness_job :
        /\ Take(w, j)
        /\ hold' = [hold EXCEPT ![w] =
              IF get_recursion_tip_proof_job_id(j[3]) # {} THEN [job |-> j, pos |-> 0] ELSE Idle]
GetNextCompression(w) ==
    \E j \in get_next_proof_compression_job :
        /\ Take(w, j)
        /\ hold' = [hold EXCEPT ![w] =
              IF get_scheduler_proof_job_id(j[3]) # {} THEN [job |-> j, pos |-> 0] ELSE Idle]

\* save_failure: what is successful stays so (and a sent proof stays sent).
Protected == {"successful", "sent_to_server"}
MarkFailed(table, j) ==
    SetStatus(table, {k \in {j} : k \in DOMAIN table /\ table[k].st \notin Protected}, "failed")
save_failure(w) ==
    /\ hold[w] # Idle /\ hold[w].pos = 0 /\ Fault
    /\ rows' = MarkFailed(rows, hold[w].job)
    /\ hold' = [hold EXCEPT ![w] = Idle]
    /\ UNCHANGED <<pgd, fetched, archived, gpu, sent>>

\* create_leaf_witnesses and create_node_witnesses panic on too few proofs.
ProofsMissing(w) ==
    /\ hold[w].job[1] = "wg" /\ hold[w].job[2] \in {1, 2} /\ hold[w].pos = 1
    /\ rows' = MarkFailed(rows, hold[w].job)
    /\ hold' = [hold EXCEPT ![w] = Idle]
    /\ UNCHANGED <<pgd, fetched, archived, gpu, sent, faults>>

\* A crash, or a stop signal: the job stays as it is.
Crash(w) ==
    /\ hold[w] # Idle /\ Fault
    /\ hold' = [hold EXCEPT ![w] = Idle]
    /\ UNCHANGED <<pgd, fetched, rows, archived, gpu, sent>>

\* What one job saves in one transaction: update_database and the like.
Finish(w, newRows) ==
    /\ rows' = newRows
    /\ hold' = [hold EXCEPT ![w] = Idle]
    /\ UNCHANGED <<pgd, fetched, archived, gpu, sent, faults>>
Holds(w, tab, r) == hold[w].job[1] = tab /\ hold[w].job[2] = r

\* update_database of the basic circuits generator runs outside a transaction:
\* the prover jobs, then a leaf row and a node row per circuit type, the tip row
\* and the scheduler row, one statement after the other.
CircuitOrder == CHOOSE q \in [1 .. Cardinality(Circuits) -> Circuits] :
                    \A i, k \in DOMAIN q : i < k => q[i] < q[k]
create_aggregation_jobs(b) ==
    [i \in 1 .. 2 * Len(CircuitOrder) + 2 |->
        CASE i > 2 * Len(CircuitOrder) + 1 -> SchedJob(b)
          [] i = 2 * Len(CircuitOrder) + 1 -> TipJob(b)
          [] i % 2 = 1 /\ i < 2 * Len(CircuitOrder) -> LeafJob(b, CircuitOrder[(i + 1) \div 2])
          [] OTHER -> NodeJob(b, CircuitOrder[i \div 2], 0)]
InsertBasicProofs(w) ==
    /\ Holds(w, "wg", 0) /\ hold[w].pos = 0
    /\ rows' = Insert(rows, UNION {BasicProofs(hold[w].job[3], c) : c \in Circuits}, "queued", 0)
    /\ hold' = [hold EXCEPT ![w].pos = 1]
    /\ UNCHANGED <<pgd, fetched, archived, gpu, sent, faults>>
InsertAggregationRow(w) ==
    LET script == create_aggregation_jobs(hold[w].job[3])
    IN  /\ Holds(w, "wg", 0) /\ hold[w].pos \in DOMAIN script
        /\ rows' = Insert(rows, {script[hold[w].pos]}, "waiting_for_proofs", 0)
        /\ hold' = [hold EXCEPT ![w].pos = @ + 1]
        /\ UNCHANGED <<pgd, fetched, archived, gpu, sent, faults>>
mark_witness_job_as_successful(w) ==
    /\ Holds(w, "wg", 0)
    /\ hold[w].pos = Len(create_aggregation_jobs(hold[w].job[3])) + 1
    /\ Finish(w, SetStatus(rows, {hold[w].job}, "successful"))

\* The leaf generator inserts its prover jobs and tells the node row of depth 0,
\* if there is one, how many proofs to wait for.
SaveLeaf(w) ==
    LET j == hold[w].job
        node == NodeJob(j[3], j[4], 0)
        inserted == Insert(rows, LeafProofs(j[3], j[4]), "queued", 0)
        update_node_aggregation_jobs_url ==
            IF node \in DOMAIN rows THEN [inserted EXCEPT ![node].dep = Width(j[4], 0)] ELSE inserted
    IN  /\ Holds(w, "wg", 1) /\ hold[w].pos = 0
        /\ Finish(w, SetStatus(update_node_aggregation_jobs_url, {j}, "successful"))

\* One more depth while more than one aggregation is left, else the final proof.
SaveNodeContinue(w) ==
    LET j == hold[w].job  b == j[3]  c == j[4]  d == j[5] + 1
        inserted == Insert(rows, NodeProofs(b, c, d), "queued", 0)
    IN  /\ Holds(w, "wg", 2) /\ hold[w].pos = 0 /\ CeilArity(Width(c, j[5])) > 1
        /\ Finish(w, SetStatus(Insert(inserted, {NodeJob(b, c, d)}, "waiting_for_proofs", Width(c, d)),
                               {j}, "successful"))
SaveNodeFinal(w) ==
    LET j == hold[w].job  b == j[3]  c == j[4]  d == j[5] + 1
    IN  /\ Holds(w, "wg", 2) /\ hold[w].pos = 0 /\ CeilArity(Width(c, j[5])) = 1
        /\ Finish(w, SetStatus(Insert(rows, {ProverJob(2, b, c, d, 1)}, "queued", 0), {j}, "successful"))
SaveTip(w) ==
    /\ Holds(w, "wg", 3)
    /\ Finish(w, SetStatus(Insert(rows, {ProverJob(3, hold[w].job[3], 0, 0, 1)}, "queued", 0),
                           {hold[w].job}, "successful"))
SaveScheduler(w) ==
    /\ Holds(w, "wg", 4)
    /\ Finish(w, SetStatus(Insert(rows, {ProverJob(4, hold[w].job[3], 0, 0, 1)}, "queued", 0),
                           {hold[w].job}, "successful"))
\* A compressor that finishes late makes a proof that was sent look unsent.
mark_proof_compression_job_successful(w) ==
    /\ Holds(w, "compressor", 5)
    /\ Finish(w, SetStatus(rows, {hold[w].job}, "successful"))

(***************************************************************************)
(* Witness vector generators and the GPU prover.                           *)
(***************************************************************************)
HoldsVector(w, pos) == hold[w].job[1] = "prover" /\ hold[w].pos = pos
\* A reservation whose owner is gone is up for grabs after a while; one whose
\* owner is slow is too, early.
lock_available_prover(w) ==
    /\ HoldsVector(w, 0)
    /\ \/ gpu.st = "available" /\ faults' = faults
       \/ gpu.st = "reserved" /\ (\A v \in Workers : ~HoldsVector(v, 1)) /\ faults' = faults
       \/ gpu.st = "reserved" /\ (\E v \in Workers : HoldsVector(v, 1)) /\ Fault
    /\ gpu' = [gpu EXCEPT !.st = "reserved"]
    /\ hold' = [hold EXCEPT ![w].pos = 1]
    /\ UNCHANGED <<pgd, fetched, rows, archived, sent>>

\* Mutant: the queue takes whatever arrives.
QueueUnbounded(w) ==
    LET queue == Append(gpu.queue, hold[w].job)
    IN  /\ HoldsVector(w, 1)
        /\ gpu' = [gpu EXCEPT !.queue = queue,
                              !.st = IF Len(queue) = QueueSize THEN "full" ELSE "available"]
        /\ hold' = [hold EXCEPT ![w].pos = 2]
        /\ UNCHANGED <<pgd, fetched, rows, archived, sent, faults>>
\* handle_incoming_file: the witness vector enters the queue.
handle_incoming_file(w) ==
    LET queue == Append(gpu.queue, hold[w].job)
    IN  /\ HoldsVector(w, 1) /\ Len(gpu.queue) < QueueSize
        /\ gpu' = [gpu EXCEPT !.queue = queue,
                              !.st = IF Len(queue) = QueueSize THEN "full" ELSE "available"]
        /\ hold' = [hold EXCEPT ![w].pos = 2]
        /\ UNCHANGED <<pgd, fetched, rows, archived, sent, faults>>
\* A vector that does not fit ends the listener, and with it the prover; the
\* sender has sent all of it and does not notice.
QueueOverflow(w) ==
    /\ HoldsVector(w, 1) /\ Len(gpu.queue) = QueueSize
    /\ gpu' = StartedProver
    /\ hold' = [hold EXCEPT ![w].pos = 2]
    /\ UNCHANGED <<pgd, fetched, rows, archived, sent, faults>>
\* Mutant: a proof that is there already is overwritten.
UpdateAnyStatus(w) ==
    /\ HoldsVector(w, 2)
    /\ Finish(w, SetStatus(rows, {hold[w].job} \cap DOMAIN rows, "in_gpu_proof"))
\* handle_send_result of a vector that was sent, and of one that was not.
update_status(w) ==
    /\ HoldsVector(w, 2)
    /\ Finish(w, SetStatus(rows, {j \in {hold[w].job} : j \in DOMAIN rows /\ ~Successful(j)},
                           "in_gpu_proof"))
SendFails(w) ==
    /\ HoldsVector(w, 1) /\ Fault
    /\ gpu' = [gpu EXCEPT !.st = "dead"]
    /\ rows' = MarkFailed(rows, hold[w].job)
    /\ hold' = [hold EXCEPT ![w].pos = 0]
    /\ UNCHANGED <<pgd, fetched, archived, sent>>
\* No free prover within prover_instance_wait_timeout: the job is just dropped.
GiveUp(w) ==
    /\ HoldsVector(w, 0) /\ gpu.st \in {"full", "dead", "reserved"} /\ Fault
    /\ hold' = [hold EXCEPT ![w] = Idle]
    /\ UNCHANGED <<pgd, fetched, rows, archived, gpu, sent>>

\* GpuProver::get_next_job takes the head of the queue and makes room.
ProverTakes(g) == [g EXCEPT !.queue = Tail(@),
                            !.st = IF Len(g.queue) = QueueSize /\ @ = "full" THEN "available" ELSE @]
\* Mutant: the recursion tip's proof is taken for the scheduler's.
SaveTipAsScheduler ==
    LET j == Head(gpu.queue)
        proven == SetStatus(rows, {j}, "successful")
    IN  /\ gpu.queue # <<>>
        /\ rows' = IF j[2] >= 3 /\ j \in DOMAIN rows
                   THEN Insert(proven, {CompJob(j[3])}, "queued", 0) ELSE proven
        /\ gpu' = IF j \in DOMAIN rows THEN ProverTakes(gpu) ELSE StartedProver
        /\ UNCHANGED <<pgd, fetched, archived, hold, sent, faults>>
\* save_proof: the scheduler's proof also starts the compression job.  When the
\* row is not there any more the prover dies.
save_proof ==
    LET j == Head(gpu.queue)
        proven == SetStatus(rows, {j}, "successful")
    IN  /\ gpu.queue # <<>>
        /\ rows' = IF j[2] = 4 /\ j \in DOMAIN rows
                   THEN Insert(proven, {CompJob(j[3])}, "queued", 0) ELSE proven
        /\ gpu' = IF j \in DOMAIN rows THEN ProverTakes(gpu) ELSE StartedProver
        /\ UNCHANGED <<pgd, fetched, archived, hold, sent, faults>>
save_proof_error ==
    /\ gpu.queue # <<>> /\ Fault
    /\ rows' = MarkFailed(rows, Head(gpu.queue))
    /\ gpu' = ProverTakes(gpu)
    /\ UNCHANGED <<pgd, fetched, archived, hold, sent>>
GpuCrash ==
    /\ gpu.queue # <<>> /\ Fault
    /\ gpu' = StartedProver
    /\ UNCHANGED <<pgd, fetched, rows, archived, hold, sent>>
\* A prover that could not be reached is started again.
ReviveProver ==
    /\ gpu.st = "dead"
    /\ gpu' = StartedProver
    /\ UNCHANGED <<pgd, fetched, rows, archived, hold, sent, faults>>

-----------------------------------------------------------------------------
Core(b) ==
    \/ insert_proof_generation_details(b) \/ save_vm_runner_artifacts_metadata(b)
    \/ save_l1_batch_commitment_artifacts(b)
Gateway ==
    \/ \E b \in Batches : get_next_block_to_be_proven(b)
    \/ save_witness_inputs \/ LoseFetched
Submitter ==
    \/ \E b \in Batches : submit_proof(b)
    \/ mark_proof_sent_to_server \/ LoseSubmitAnswer
HouseKeeper ==
    \/ move_leaf_aggregation_jobs_from_waiting_to_queued
    \/ move_depth_zero_node_aggregation_jobs \/ move_depth_non_zero_node_aggregation_jobs
    \/ move_recursion_tip_jobs_from_waiting_to_queued
    \/ move_scheduler_jobs_from_waiting_to_queued
Work(w) ==
    \/ GetNextJob(w) \/ GetNextTip(w) \/ GetNextScheduler(w) \/ GetNextCompression(w)
    \/ ProofsMissing(w)
    \/ InsertBasicProofs(w) \/ InsertAggregationRow(w) \/ mark_witness_job_as_successful(w)
    \/ SaveLeaf(w) \/ SaveNodeContinue(w) \/ SaveNodeFinal(w) \/ SaveTip(w) \/ SaveScheduler(w)
    \/ mark_proof_compression_job_successful(w)
    \/ lock_available_prover(w) \/ handle_incoming_file(w) \/ QueueOverflow(w) \/ update_status(w)
WorkerFault(w) == save_failure(w) \/ Crash(w) \/ SendFails(w) \/ GiveUp(w)

Next ==
    \/ \E b \in Batches : Core(b) \/ ArchiveSent(b)
    \/ \E j \in ProverRows : ArchiveEarly(j)
    \/ Gateway \/ Submitter \/ HouseKeeper
    \/ \E j \in DOMAIN rows : requeue_stuck_jobs(j) \/ RequeueEarly(j)
    \/ \E w \in Workers : Work(w) \/ WorkerFault(w)
    \/ save_proof \/ save_proof_error \/ GpuCrash \/ ReviveProver

Spec == Init /\ [][Next]_vars

\* Every process that polls goes on polling; faults are not fair.
FairSpec ==
    /\ Spec
    /\ \A b \in Batches : WF_vars(Core(b))
    /\ WF_vars(Gateway) /\ WF_vars(Submitter) /\ WF_vars(HouseKeeper)
    /\ WF_vars(\E j \in DOMAIN rows : requeue_stuck_jobs(j))
    /\ \A w \in Workers : WF_vars(Work(w))
    /\ WF_vars(save_proof) /\ WF_vars(ReviveProver)

(***************************************************************************)
(* Properties.                                                             *)
(***************************************************************************)
Statuses == {"waiting_for_proofs", "queued", "in_progress", "in_gpu_proof", "failed",
             "successful", "sent_to_server"}
\* Depths at which circuit type c has a node job.
NodeDepth(c, d) == d = 0 \/ Width(c, d) > 1
Job == {"none", "wg", "prover", "compressor"} \X (0 .. 5) \X (Batches \cup {0}) \X Nat \X Nat \X Nat
\* The rows a proof tree is made of.
Known(j) ==
    /\ j \in Job /\ j[3] \in Batches
    /\ \/ j[1] = "wg" /\ j[2] \in {0, 3, 4} /\ j[4] = 0 /\ j[5] = 0 /\ j[6] = 0
       \/ j[1] = "wg" /\ j[2] = 1 /\ j[4] \in Circuits /\ j[5] = 0 /\ j[6] = 0
       \/ /\ j[1] = "wg" /\ j[2] = 2 /\ j[4] \in Circuits /\ j[5] \in 0 .. MaxDepth /\ j[6] = 0
          /\ NodeDepth(j[4], j[5])
       \/ /\ j[1] = "prover" /\ j[2] = 0 /\ j[4] \in Circuits /\ j[5] = 0 /\ j[6] \in 1 .. Basics[j[4]]
       \/ /\ j[1] = "prover" /\ j[2] = 1 /\ j[4] \in Circuits /\ j[5] = 0 /\ j[6] \in 1 .. Width(j[4], 0)
       \/ /\ j[1] = "prover" /\ j[2] = 2 /\ j[4] \in Circuits /\ j[5] \in 1 .. MaxDepth
          /\ j[6] \in 1 .. Width(j[4], j[5]) /\ NodeDepth(j[4], j[5] - 1)
       \/ j[1] = "prover" /\ j[2] \in {3, 4} /\ j[4] = 0 /\ j[5] = 0 /\ j[6] = 1
       \/ j[1] = "compressor" /\ j[2] = 5 /\ j[4] = 0 /\ j[5] = 0 /\ j[6] = 0
\* Every row, archived ones included, is one of a batch's proof tree: no job is at a
\* depth above the final one and no proof beyond the width of its depth.  A row was
\* tried at most MaxAttempts times, and the prover's queue keeps to its capacity.
TypeOK ==
    /\ \A b \in Batches : pgd[b].st \in {"none", "unpicked", "picked_by_prover", "generated"}
    /\ fetched \in Batches \cup {0} /\ sent \in Batches \cup {0}
    /\ \A j \in DOMAIN rows \cup archived : Known(j)
    /\ \A j \in DOMAIN rows : /\ rows[j].st \in Statuses /\ rows[j].att \in 0 .. MaxAttempts
                              /\ rows[j].dep \in Nat
    /\ \A w \in Workers : hold[w].pos \in Nat
    /\ gpu.st \in {"available", "reserved", "full", "dead"} /\ Len(gpu.queue) <= QueueSize
    /\ faults \in 0 .. MaxFaults

\* Found, even if the row has been archived since.
Done(p) == Successful(p) \/ p \in archived
\* A witness or compressor job is let loose only when every proof it aggregates has
\* been produced, however late or repeated the results of other jobs are: what such
\* a job does not find when it is picked, the archiver took.
InputsProven ==
    \A j \in DOMAIN rows :
        (j[1] # "prover" /\ rows[j].st # "waiting_for_proofs") => \A p \in InputProofs(j) : Done(p)

\* A compressed proof, and a batch the core calls generated, rest on the whole
\* tree: every aggregation job is done and every proof was produced.
WholeTreeProven ==
    \A b \in Batches :
        (CompJob(b) \in DOMAIN rows \/ pgd[b].st = "generated")
            => /\ Successful(SchedJob(b)) /\ Successful(TipJob(b))
               /\ \A c \in Circuits : Successful(LeafJob(b, c)) /\ Successful(NodeJob(b, c, 0))
               /\ \A j \in UNION {InputProofs(k) : k \in {i \in DOMAIN rows : i[3] = b}} :
                        Done(j)

\* No late failure, retry or duplicate undoes finished work: a successful row
\* stays successful until it is archived or sent, and generated is final.
FinishedStaysFinished ==
    [][/\ \A j \in DOMAIN rows : rows[j].st = "successful" =>
            \/ j \in archived' \ DOMAIN rows'
            \/ rows'[j].st \in {"successful", "sent_to_server"}
       /\ \A b \in Batches : pgd[b].st = "generated" => pgd'[b].st = "generated"]_vars

\* The ways a batch can get stuck: a job that used up its attempts; a node row
\* inserted (by a rerun of the basic job) after its leaf job had finished, which
\* waits for an unknown number of proofs; or a job that waits for a proof which was
\* archived before the others were there.
Exhausted(b) ==
    \E j \in DOMAIN rows : /\ j[3] = b /\ rows[j].att = MaxAttempts /\ HeldByNobody(j)
                           /\ rows[j].st \in {"failed", "in_progress", "in_gpu_proof"}
Stranded(b) ==
    \E c \in Circuits : /\ Successful(LeafJob(b, c)) /\ NodeJob(b, c, 0) \in DOMAIN rows
                        /\ rows[NodeJob(b, c, 0)].dep = 0
Robbed(b) ==
    \E j \in DOMAIN rows : /\ j[3] = b /\ rows[j].st = "waiting_for_proofs"
                           /\ \E p \in InputProofs(j) : p \in archived /\ p \notin DOMAIN rows
\* Every batch is proven in the end, unless it is stuck in one of these ways.
ProvenOrStuck ==
    \A b \in Batches : <>[](pgd[b].st = "generated" \/ Exhausted(b) \/ Stranded(b) \/ Robbed(b))
=============================================================================
