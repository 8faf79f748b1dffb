------------------------- MODULE BatchPipelineProofs -------------------------
(***************************************************************************)
(* Proofs about BatchPipeline for every number of batches, every limit of  *)
(* the criteria, both proof modes, one or two operator accounts and any    *)
(* clock: no contract call reverts before a commit does that is too late,  *)
(* the stages are nested, what is called confirmed is final, and the final *)
(* part of L1 implements BatchFinality.                                    *)
(***************************************************************************)
EXTENDS BatchPipeline, NatSetLemmas

\* Commitments are saved in batch order, also those still in hand.
SavedInOrder ==
    /\ \A b \in commitments : 1 .. b \subseteq commitments
    /\ \A b \in generating : 1 .. b \subseteq commitments \cup generating

\* A column of l1_batches and the transactions of its type tell the same, and the
\* column is filled from the first batch on, with ids that do not decrease.
Column(column, type, table) ==
    /\ \A b \in Batches : column[b] # NoTx =>
        /\ table[column[b]].type = type
        /\ b \in table[column[b]].first .. table[column[b]].last
    /\ \A id \in DOMAIN table : table[id].type = type =>
        \A b \in table[id].first .. table[id].last : column[b] = id
    /\ \A b, c \in Batches : b < c /\ column[c] # NoTx =>
        column[b] # NoTx /\ column[b] <= column[c]

Columns ==
    /\ Column(commitTx, "Commit", txs)
    /\ Column(proveTx, "PublishProofOnchain", txs)
    /\ Column(executeTx, "Execute", txs)

\* Commits and proofs have one batch each and name the batch before it.
Ranges ==
    \A id \in DOMAIN txs :
        /\ txs[id].first <= txs[id].last
        /\ txs[id].type # "Execute" =>
            txs[id].first = txs[id].last /\ txs[id].prev = txs[id].first - 1

\* What each stage of a batch rests on: its commitment, then a confirmed commit if
\* another account sends it, then the age of the commit of a batch not before it.
Stages ==
    \A b \in Batches :
        /\ commitTx[b] # NoTx => b \in commitments
        /\ proveTx[b] # NoTx => /\ commitTx[b] # NoTx /\ commitTx[b] < proveTx[b]
                                /\ Operate4844 => IsConfirmed(commitTx[b])
        /\ executeTx[b] # NoTx => /\ proveTx[b] # NoTx /\ proveTx[b] < executeTx[b]
                                  /\ WithMinAge => \E c \in Batches : c >= b /\ OldEnough(c)

\* No batch is ahead of the clock, and they follow each other in time.
Stamped ==
    /\ \A b \in Batches : stamps[b].batch <= stamps[b].last /\ stamps[b].last <= now
    /\ \A b, c \in Batches : b < c /\ c <= sealed => stamps[b].last <= stamps[c].batch

\* The transactions among the first k on L1, and those that did not revert.
MinedBy(k) == {chain[j].tx : j \in 1 .. k}
OkBy(k) == {chain[j].tx : j \in {i \in 1 .. k : chain[i].ok}}

\* L1 has each transaction once, after all earlier ones of its sender, and time
\* does not go back.
ChainOrder ==
    /\ \A j, k \in DOMAIN chain : chain[j].tx = chain[k].tx => j = k
    /\ \A k \in DOMAIN chain : Earlier(chain[k].tx) \subseteq MinedBy(k - 1)
    /\ \A k \in DOMAIN chain : chain[k].at <= now
    /\ \A j, k \in DOMAIN chain : j <= k => chain[j].at <= chain[k].at

\* A step of the life cycle that BatchFinality allows.
Advance(s, u) ==
    \/ /\ u.committed = s.committed + 1 /\ u.committed <= MaxBatches
       /\ u.verified = s.verified /\ u.executed = s.executed
    \/ /\ u.verified = s.verified + 1 /\ u.verified <= s.committed
       /\ u.committed = s.committed /\ u.executed = s.executed
    \/ /\ u.executed \in s.executed + 1 .. s.verified
       /\ u.committed = s.committed /\ u.verified = s.verified

\* A call that reverts changes nothing.
Same(s, u) == u.committed = s.committed /\ u.verified = s.verified /\ u.executed = s.executed

ChainAdvances ==
    \A k \in DOMAIN chain : /\ chain[k].ok => Advance(StateAt(k - 1), chain[k])
                            /\ ~chain[k].ok => Same(StateAt(k - 1), chain[k])

\* The contracts' totals are the batches whose transactions were accepted, whichever
\* length L1 is cut back to.
TotalsTellMined ==
    \A k \in 0 .. Len(chain) : \A b \in Batches :
        /\ b <= StateAt(k).committed <=> commitTx[b] \in OkBy(k)
        /\ b <= StateAt(k).verified <=> proveTx[b] \in OkBy(k)
        /\ b <= StateAt(k).executed <=> executeTx[b] \in OkBy(k)

\* A confirmed transaction was accepted before, in a block that is final.
ConfirmedMined ==
    \A id \in TxIds : confirmed[id] # NotYet =>
        /\ confirmed[id] <= now
        /\ \E k \in 1 .. final : chain[k].tx = id /\ chain[k].ok /\ chain[k].at <= confirmed[id]

IInv == /\ TypeOK /\ Stamped /\ SavedInOrder /\ Columns /\ Ranges /\ Stages
        /\ ChainOrder /\ ChainAdvances /\ TotalsTellMined /\ ConfirmedMined
        /\ OnlyLateCommitsRevert

-----------------------------------------------------------------------------
(* Least and greatest batches, and the cut that LIMIT and the criteria make. *)

\* The first batch of a range is its least number.
LEMMA LoIsLeast ==
    ASSUME NEW S \in SUBSET Nat, S # {}
    PROVE  Lo(S) \in S /\ \A y \in S : Lo(S) <= y
  BY NatMin DEF Lo

\* The last one is its greatest.
LEMMA HiIsGreatest ==
    ASSUME NEW n \in Nat, NEW S \in SUBSET (0 .. n), S # {}
    PROVE  Hi(S) \in S /\ \A y \in S : y <= Hi(S)
  BY NatMax DEF Hi

\* Of one batch both are that batch.
LEMMA SingleBatch ==
    ASSUME NEW b \in Nat
    PROVE  Lo({b}) = b /\ Hi({b}) = b
  BY DEF Lo, Hi

\* LIMIT keeps the lowest batches.
LEMMA LimitIsInitial ==
    ASSUME NEW n \in Nat, NEW S \in SUBSET Batches, NEW b \in Limit(S, n), NEW c \in S, c < b
    PROVE  c \in Limit(S, n)
<1> DEFINE Below(x) == {y \in S : y < x}
<1>1. IsFiniteSet(Batches)
  BY PipelineAssumption, FS_Interval DEF Batches
<1>2. IsFiniteSet(S)
  BY <1>1, FS_Subset
<1>3. IsFiniteSet(Below(b)) /\ Below(c) \in SUBSET Below(b)
  <2>1. Below(b) \in SUBSET S
    OBVIOUS
  <2>2. b \in Int /\ c \in Int /\ S \in SUBSET Int
    BY DEF Batches, Limit
  <2>3. Below(c) \in SUBSET Below(b)
    <3>1. \A y \in S : y < c => y < b
      BY <2>2
    <3> QED BY <3>1
  <2> QED BY <1>2, <2>1, <2>3, FS_Subset
<1>4. Cardinality(Below(c)) <= Cardinality(Below(b)) /\ IsFiniteSet(Below(c))
  <2> HIDE DEF Below
  <2> QED BY <1>3, FS_Subset
<1>5. Cardinality(Below(c)) \in Nat /\ Cardinality(Below(b)) \in Nat
  <2> HIDE DEF Below
  <2> QED BY <1>3, <1>4, FS_CardinalityType
<1>6. Cardinality(Below(b)) < n
  BY DEF Limit
<1>7. Cardinality(Below(c)) < n
  <2> HIDE DEF Below
  <2> QED BY <1>4, <1>5, <1>6
<1> QED BY <1>7 DEF Limit

\* LIMIT 1 keeps the lowest one.
LEMMA LimitOne ==
    ASSUME NEW S \in SUBSET Batches, NEW b \in Limit(S, 1)
    PROVE  b \in S /\ \A c \in S : b <= c
<1> DEFINE below == {c \in S : c < b}
<1>1. IsFiniteSet(Batches)
  BY PipelineAssumption, FS_Interval DEF Batches
<1>2. IsFiniteSet(S)
  BY <1>1, FS_Subset
<1>3. IsFiniteSet(below)
  <2>1. below \in SUBSET S
    OBVIOUS
  <2> QED BY <1>2, <2>1, FS_Subset
<1>4. b \in S /\ Cardinality(below) < 1
  BY DEF Limit
<1>5. below = {}
  <2> HIDE DEF below
  <2>1. Cardinality(below) \in Nat
    BY <1>3, FS_CardinalityType
  <2> QED BY <1>3, <1>4, <2>1, FS_EmptySet
<1> QED BY <1>4, <1>5 DEF Batches

\* What the criteria may answer are natural numbers.
Answers(criteria) == \A i \in 1 .. 3 : criteria[i] \subseteq Nat

\* A ready subrange is the candidates up to some batch.
LEMMA SubrangeIsInitial ==
    ASSUME NEW C \in SUBSET Batches, NEW criteria, Answers(criteria),
           NEW B \in extract_ready_subrange(C, criteria), NEW b \in B
    PROVE  b \in C /\ \A c \in C : c < b => c \in B
<1>1. C # {}
  BY DEF extract_ready_subrange
<1>2. PICK ends \in {{x, y, z} : x \in criteria[1], y \in criteria[2], z \in criteria[3]} :
          B = IF Lo(ends) = None THEN {} ELSE {c \in C : c <= Lo(ends)}
  BY <1>1 DEF extract_ready_subrange
<1>3. ends \in SUBSET Nat /\ ends # {}
  BY DEF Answers
<1>4. Lo(ends) \in Nat
  BY <1>3, LoIsLeast
<1>5. B = {c \in C : c <= Lo(ends)}
  BY <1>2
<1> QED BY <1>4, <1>5 DEF Batches

\* The criteria of a set of candidates.
LEMMA CriteriaAnswers ==
    ASSUME NEW C \in SUBSET Batches, C # {}, NEW limit \in Nat \ {0}, NEW lag \in Nat
    PROVE  /\ NumberCriterion(C, limit) \subseteq Nat
           /\ GasCriterion(C) \subseteq Nat /\ DataSizeCriterion(C) \subseteq Nat
           /\ TimestampDeadlineCriterion(C, lag) \subseteq Nat
<1>1. MaxBatches \in Nat /\ None \in Nat
  BY PipelineAssumption DEF None
<1>2. C \in SUBSET (0 .. MaxBatches) /\ C \in SUBSET Nat /\ \A c \in C : c >= 1
  BY <1>1 DEF Batches
<1>3. Lo(C) \in Nat /\ Lo(C) >= 1
  BY <1>2, LoIsLeast
<1>4. Hi(C) \in Nat
  BY <1>1, <1>2, HiIsGreatest
<1>5. NumberCriterion(C, limit) \subseteq Nat
  BY <1>1, <1>3, <1>4 DEF NumberCriterion
<1>6. GasCriterion(C) \subseteq Nat /\ DataSizeCriterion(C) \subseteq Nat
  BY <1>1, <1>2 DEF GasCriterion, DataSizeCriterion
<1>7. TimestampDeadlineCriterion(C, lag) \subseteq Nat
  BY <1>1, <1>4 DEF TimestampDeadlineCriterion
<1> QED BY <1>5, <1>6, <1>7

-----------------------------------------------------------------------------
(* What the aggregator takes: the next batches of a stage, none left out.  *)

Candidates == TypeOK /\ SavedInOrder /\ Columns /\ Stages

EthTx == [type : AggregatedActionType, prev : 0 .. MaxBatches, first : Batches, last : Batches]

\* The columns are functions from the batches to transaction ids.
LEMMA ColumnTypes ==
    ASSUME TypeOK
    PROVE  /\ commitTx \in [Batches -> 0 .. Len(txs)] /\ proveTx \in [Batches -> 0 .. Len(txs)]
           /\ executeTx \in [Batches -> 0 .. Len(txs)]
           /\ Len(txs) \in Nat /\ DOMAIN txs = 1 .. Len(txs)
           /\ txs \in Seq(EthTx) /\ \A id \in DOMAIN txs : txs[id] \in EthTx
           /\ Batches \in SUBSET (0 .. MaxBatches) /\ MaxBatches \in Nat
<1>1. txs \in Seq(EthTx)
  BY DEF TypeOK, EthTx
<1>2. \A id \in DOMAIN txs : txs[id] \in EthTx
  BY <1>1
<1> QED BY SMTT(30), <1>1, <1>2, PipelineAssumption DEF TypeOK, Batches

MinedTx == [tx : DOMAIN txs, ok : BOOLEAN, at : 0 .. MaxTime, committed : 0 .. MaxBatches,
            verified : 0 .. MaxBatches, executed : 0 .. MaxBatches]

\* What is on L1, and the contracts' state after it.
LEMMA ChainTypes ==
    ASSUME TypeOK
    PROVE  /\ Len(chain) \in Nat /\ DOMAIN chain = 1 .. Len(chain)
           /\ chain \in Seq(MinedTx) /\ \A k \in DOMAIN chain : chain[k] \in MinedTx
           /\ \A k \in DOMAIN chain : chain[k].tx \in DOMAIN txs /\ chain[k].at \in 0 .. MaxTime
           /\ \A k \in 0 .. Len(chain) : /\ StateAt(k).committed \in 0 .. MaxBatches
                                         /\ StateAt(k).verified \in 0 .. MaxBatches
                                         /\ StateAt(k).executed \in 0 .. MaxBatches
           /\ final \in 0 .. Len(chain) /\ now \in 0 .. MaxTime
           /\ MaxTime \in Nat
<1>1. chain \in Seq(MinedTx)
  BY DEF TypeOK, MinedTx
<1>2. Len(chain) \in Nat /\ DOMAIN chain = 1 .. Len(chain) /\ \A k \in DOMAIN chain : chain[k] \in MinedTx
  BY <1>1
<1>3. \A k \in DOMAIN chain : chain[k].tx \in DOMAIN txs /\ chain[k].at \in 0 .. MaxTime
  BY <1>2 DEF MinedTx
<1>4. ASSUME NEW k \in 0 .. Len(chain)
      PROVE  /\ StateAt(k).committed \in 0 .. MaxBatches
             /\ StateAt(k).verified \in 0 .. MaxBatches
             /\ StateAt(k).executed \in 0 .. MaxBatches
  <2>1. CASE k = 0
    BY <2>1, PipelineAssumption DEF StateAt, GenesisState
  <2>2. CASE k # 0
    <3>1. chain[k] \in MinedTx
      BY <1>2, <2>2
    <3>2. StateAt(k) = chain[k]
      BY <2>2 DEF StateAt
    <3> QED BY <3>1, <3>2 DEF MinedTx
  <2> QED BY <2>1, <2>2
<1> QED BY <1>1, <1>2, <1>3, <1>4, PipelineAssumption DEF TypeOK

\* Commit takes the first batch with a commitment and no transaction.
LEMMA CommitTakesNext ==
    ASSUME Candidates, NEW B \in get_commit_operation, B # {}
    PROVE  \E b \in Batches :
              /\ B = {b} /\ commitTx[b] = NoTx /\ b \in commitments
              /\ get_last_committed_to_eth_l1_batch = b - 1
              /\ \A c \in Batches : c < b => commitTx[c] # NoTx
<1> DEFINE S == {b \in Batches : commitTx[b] = NoTx /\ b \in commitments}
           C == get_ready_for_commit_l1_batches
<1>1. C = Limit(S, 1) /\ S \in SUBSET Batches
  BY DeploymentAssumption DEF get_ready_for_commit_l1_batches
<1>2. \A b \in C : b \in S /\ \A c \in S : b <= c
  <2> HIDE DEF S, C
  <2> QED BY <1>1, LimitOne
<1>3. C \in SUBSET Batches
  BY <1>2
<1>4. C # {}
  BY DEF get_commit_operation, extract_ready_subrange
<1>5. PICK b \in B : TRUE
  OBVIOUS
<1>6. B \subseteq C
  <2> DEFINE criteria == <<NumberCriterion(C, MaxCommit), GasCriterion(C) \cup DataSizeCriterion(C),
                           TimestampDeadlineCriterion(C, MaxAllowedLag)>>
  <2>1. Answers(criteria)
    <3>1. MaxCommit \in Nat \ {0} /\ MaxAllowedLag \in Nat
      BY PipelineAssumption
    <3> HIDE DEF C
    <3> QED BY <1>3, <1>4, <3>1, CriteriaAnswers DEF Answers
  <2>2. B \in extract_ready_subrange(C, criteria)
    BY <1>4 DEF get_commit_operation
  <2> HIDE DEF C, criteria
  <2> QED BY <1>3, <2>1, <2>2, SubrangeIsInitial
<1>7. b \in S /\ B = {b}
  <2>1. \A c \in C : c = b
    BY <1>2, <1>5, <1>6 DEF Batches
  <2> QED BY <1>2, <1>5, <1>6, <2>1
<1>8. \A c \in Batches : c < b => commitTx[c] # NoTx /\ c \in commitments
  <2> SUFFICES ASSUME NEW c \in Batches, c < b PROVE commitTx[c] # NoTx /\ c \in commitments
    OBVIOUS
  <2>1. c \in commitments
    BY <1>7 DEF Candidates, SavedInOrder, Batches
  <2>2. ~(b <= c)
    BY <1>7 DEF Batches
  <2>3. c \notin S
    BY <1>2, <1>5, <1>6, <2>2
  <2> QED BY <2>1, <2>3
<1>9. get_last_committed_to_eth_l1_batch = b - 1
  <2> DEFINE T == {c \in Batches : commitTx[c] # NoTx /\ c \in commitments}
  <2>1. T = 1 .. b - 1
    <3>1. \A c \in T : c < b
      <4> SUFFICES ASSUME NEW c \in T, ~(c < b) PROVE FALSE
        OBVIOUS
      <4>1. c # b
        BY <1>7
      <4>2. b < c
        BY <1>7, <4>1 DEF Batches
      <4> QED BY <1>7, <4>2 DEF Candidates, Columns, Column
    <3>2. \A c \in 1 .. b - 1 : c \in Batches /\ c < b
      BY <1>7, PipelineAssumption DEF Batches
    <3>3. T \subseteq 1 .. b - 1
      BY <1>7, <3>1 DEF Batches
    <3> QED BY <1>8, <3>2, <3>3
  <2>2. b \in Nat \ {0}
    BY <1>7 DEF Batches
  <2>3. CASE b = 1
    <3>1. T = {}
      BY <2>1, <2>3
    <3> QED BY <2>3, <3>1 DEF get_last_committed_to_eth_l1_batch, LastOr0
  <2>4. CASE b # 1
    <3>1. T # {} /\ T \in SUBSET (0 .. b) /\ b - 1 \in T
      BY <2>1, <2>2, <2>4
    <3>2. Hi(T) \in T /\ \A y \in T : y <= Hi(T)
      <4> HIDE DEF T
      <4> QED BY <2>2, <3>1, HiIsGreatest
    <3>3. Hi(T) = b - 1
      <4>1. Hi(T) \in 1 .. b - 1
        BY <2>1, <3>2
      <4>2. b - 1 <= Hi(T)
        BY <3>1, <3>2
      <4> HIDE DEF T
      <4> QED BY <2>2, <4>1, <4>2
    <3> QED BY <3>1, <3>3 DEF get_last_committed_to_eth_l1_batch, LastOr0
  <2> QED BY <2>3, <2>4
<1> QED BY <1>7, <1>8, <1>9

\* So does the proof operation of either mode, and it waits for the other account.
LEMMA ProofTakesNext ==
    ASSUME Candidates, NEW B \in get_proof_operation, B # {}
    PROVE  \E b \in Batches :
              /\ B = {b} /\ proveTx[b] = NoTx /\ commitTx[b] # NoTx
              /\ Operate4844 => IsConfirmed(commitTx[b])
              /\ \A c \in Batches : c < b => proveTx[c] # NoTx
<1>1. CASE RealProofs
  <2> DEFINE T == {c \in Batches : proveTx[c] # NoTx}
             b == get_last_l1_batch_with_prove_tx + 1
  <2>1. /\ B = {b} /\ b \in Batches /\ commitTx[b] # NoTx
        /\ Operate4844 => IsConfirmed(commitTx[b])
    BY <1>1 DEF get_proof_operation, load_real_proof_operation
  <2>2. get_last_l1_batch_with_prove_tx = IF T = {} THEN 0 ELSE Hi(T)
    BY DEF get_last_l1_batch_with_prove_tx, LastOr0
  <2>3. T # {} => Hi(T) \in T /\ \A y \in T : y <= Hi(T)
    <3>1. T \in SUBSET (0 .. MaxBatches) /\ MaxBatches \in Nat
      BY ColumnTypes DEF Candidates
    <3> HIDE DEF T
    <3> QED BY <3>1, HiIsGreatest
  <2>4. \A c \in T : c < b
    <3> HIDE DEF T
    <3>1. T \in SUBSET Int
      BY DEF T, Batches
    <3> QED BY <2>2, <2>3, <3>1
  <2>5. b \notin T
    <3> HIDE DEF T
    <3> QED BY <2>1, <2>4 DEF Batches
  <2>6. \A c \in Batches : c < b => c \in T
    <3> SUFFICES ASSUME NEW c \in Batches, c < b PROVE proveTx[c] # NoTx
      OBVIOUS
    <3>1. T # {}
      BY <2>2 DEF Batches
    <3>2. Hi(T) \in Batches /\ proveTx[Hi(T)] # NoTx /\ b = Hi(T) + 1
      BY <2>2, <2>3, <3>1
    <3>3. c < Hi(T) \/ c = Hi(T)
      <4> HIDE DEF T
      <4> QED BY <3>2 DEF Batches
    <3> QED BY <3>2, <3>3 DEF Candidates, Columns, Column
  <2> QED BY <2>1, <2>5, <2>6
<1>2. CASE ~RealProofs
  <2> DEFINE S == {b \in Batches : commitTx[b] # NoTx /\ proveTx[b] = NoTx}
             C == load_dummy_proof_operations
  <2>1. S \in SUBSET Batches /\ MaxProve = 1
    BY DeploymentAssumption
  <2>2. \A b \in C : b \in Limit(S, 1) /\ (Operate4844 => IsConfirmed(commitTx[b]))
    <3>1. \A b \in C : b \in Limit(S, 1)
      BY <2>1 DEF load_dummy_proof_operations
    <3>2. \A b \in C : b \in Int
      <4>1. \A b \in Limit(S, 1) : b \in Batches
        BY DEF Limit
      <4>2. Batches \in SUBSET Int
        BY PipelineAssumption DEF Batches
      <4> HIDE DEF C, S
      <4> QED BY <3>1, <4>1, <4>2
    <3>3. \A b \in C : Operate4844 => IsConfirmed(commitTx[b])
      <4> SUFFICES ASSUME NEW b \in C, Operate4844 PROVE IsConfirmed(commitTx[b])
        OBVIOUS
      <4>1. b <= b
        BY <3>2
      <4> QED BY <2>1, <3>1, <4>1 DEF load_dummy_proof_operations
    <3> QED BY <3>1, <3>3
  <2>3. \A b \in C : b \in S /\ \A c \in S : b <= c
    <3> HIDE DEF S, C
    <3> QED BY <2>1, <2>2, LimitOne
  <2>4. C \in SUBSET Batches
    BY <2>3
  <2>5. C # {}
    BY <1>2 DEF get_proof_operation, prepare_dummy_proof_operation, extract_ready_subrange
  <2>6. B \subseteq C
    <3> DEFINE criteria == <<NumberCriterion(C, MaxProve), GasCriterion(C),
                             TimestampDeadlineCriterion(C, NoLag)>>
    <3>1. Answers(criteria)
      <4>1. MaxProve \in Nat \ {0} /\ NoLag \in Nat
        BY PipelineAssumption DEF NoLag
      <4> HIDE DEF C
      <4> QED BY <2>4, <2>5, <4>1, CriteriaAnswers DEF Answers
    <3>2. B \in extract_ready_subrange(C, criteria)
      BY <1>2, <2>5 DEF get_proof_operation, prepare_dummy_proof_operation
    <3> HIDE DEF C, criteria
    <3> QED BY <2>4, <3>1, <3>2, SubrangeIsInitial
  <2>7. PICK b \in B : TRUE
    OBVIOUS
  <2>8. b \in S /\ B = {b}
    <3>1. \A c \in C : c = b
      BY <2>3, <2>6, <2>7 DEF Batches
    <3> QED BY <2>3, <2>6, <2>7, <3>1
  <2>9. \A c \in Batches : c < b => proveTx[c] # NoTx
    <3> SUFFICES ASSUME NEW c \in Batches, c < b PROVE proveTx[c] # NoTx
      OBVIOUS
    <3>1. commitTx[c] # NoTx
      BY <2>8 DEF Candidates, Columns, Column
    <3>2. ~(b <= c)
      BY <2>8 DEF Batches
    <3>3. c \notin S
      BY <2>3, <2>6, <3>2
    <3> QED BY <3>1, <3>3
  <2> QED BY <2>2, <2>6, <2>8, <2>9
<1> QED BY <1>1, <1>2

\* Execute takes a run of proven batches that begins where the last one ended.
LEMMA ExecuteTakesRun ==
    ASSUME Candidates, NEW B \in get_execute_operations, B # {}
    PROVE  /\ Lo(B) \in Batches /\ Hi(B) \in Batches /\ Lo(B) <= Hi(B)
           /\ B = Lo(B) .. Hi(B)
           /\ \A b \in B : /\ proveTx[b] # NoTx /\ executeTx[b] = NoTx
                           /\ WithMinAge => \E c \in Batches : c >= b /\ OldEnough(c)
           /\ \A c \in Batches : c < Lo(B) => executeTx[c] # NoTx
<1> DEFINE ready == {b \in Batches : proveTx[b] # NoTx /\ executeTx[b] = NoTx}
           old == {b \in ready : OldEnough(b)}
           X == IF ~WithMinAge THEN ready ELSE IF old = {} THEN {} ELSE Lo(ready) .. Hi(old)
           C == get_ready_for_execute_l1_batches
<1>1. /\ MaxBatches \in Nat /\ ready \in SUBSET Nat /\ ready \in SUBSET (0 .. MaxBatches)
      /\ old \in SUBSET (0 .. MaxBatches) /\ Batches \in SUBSET Int /\ ready \in SUBSET Batches
  BY ColumnTypes DEF Candidates
<1>2. C = Limit(X, MaxExecute)
  BY DEF get_ready_for_execute_l1_batches
<1>3. ready # {} => Lo(ready) \in ready /\ \A c \in ready : Lo(ready) <= c
  <2> HIDE DEF ready
  <2> QED BY <1>1, LoIsLeast
<1>4. old # {} => Hi(old) \in old /\ \A c \in old : c <= Hi(old)
  <2> HIDE DEF old
  <2> QED BY <1>1, HiIsGreatest
<1>5. \A x, y \in ready, b \in Batches : x <= b /\ b <= y => b \in ready
  <2> SUFFICES ASSUME NEW x \in ready, NEW y \in ready, NEW b \in Batches, x <= b, b <= y
               PROVE  proveTx[b] # NoTx /\ executeTx[b] = NoTx
    OBVIOUS
  <2>1. (x < b \/ x = b) /\ (b < y \/ b = y)
    BY <1>1 DEF Batches
  <2> QED BY <2>1 DEF Candidates, Columns, Column
<1>6. /\ X \subseteq ready
      /\ \A x \in X, c \in ready : c < x => c \in X
      /\ WithMinAge => \A x \in X : \E c \in Batches : c >= x /\ OldEnough(c)
  <2>1. CASE ~WithMinAge
    BY <2>1
  <2>2. CASE WithMinAge /\ old = {}
    BY <2>2
  <2>3. CASE WithMinAge /\ old # {}
    <3>1. X = Lo(ready) .. Hi(old)
      BY <2>3
    <3>2. Hi(old) \in ready /\ Lo(ready) \in ready /\ OldEnough(Hi(old)) /\ Hi(old) \in Batches
      BY <1>3, <1>4, <2>3
    <3>3. \A c \in ready : Lo(ready) <= c
      BY <1>3, <3>2
    <3> HIDE DEF X, ready, old
    <3>4. Lo(ready) \in Int /\ Hi(old) \in Int /\ ready \in SUBSET Int
          /\ Lo(ready) \in Batches
      BY <1>1, <3>2
    <3>5. \A x \in X : x \in Batches /\ Lo(ready) <= x /\ x <= Hi(old)
      BY <1>1, <3>1, <3>2, <3>4 DEF Batches
    <3>6. X \subseteq ready
      BY <1>5, <3>2, <3>5
    <3>7. \A x \in X, c \in ready : c < x => c \in X
      BY <3>1, <3>3, <3>4, <3>5 DEF Batches
    <3>8. \A x \in X : \E c \in Batches : c >= x /\ OldEnough(c)
      BY <3>2, <3>4, <3>5
    <3> QED BY <3>6, <3>7, <3>8
  <2> QED BY <2>1, <2>2, <2>3
<1>7. X \in SUBSET Batches
  BY <1>6
<1>8. /\ C \subseteq X
      /\ \A x \in C, c \in X : c < x => c \in C
  <2>1. MaxExecute \in Nat
    BY PipelineAssumption
  <2> HIDE DEF X, C
  <2> QED BY <1>2, <1>7, <2>1, LimitIsInitial DEF Limit
<1>9. C # {} /\ C \in SUBSET Batches
  <2>1. C # {}
    BY DEF get_execute_operations, extract_ready_subrange
  <2> HIDE DEF X, C
  <2> QED BY <1>7, <1>8, <2>1
<1>10. \A b \in B : b \in C /\ \A c \in C : c < b => c \in B
  <2> DEFINE criteria == <<NumberCriterion(C, MaxExecute), GasCriterion(C),
                           TimestampDeadlineCriterion(C, MaxAllowedLag)>>
  <2>1. Answers(criteria)
    <3>1. MaxExecute \in Nat \ {0} /\ MaxAllowedLag \in Nat
      BY PipelineAssumption
    <3> HIDE DEF C
    <3> QED BY <1>9, <3>1, CriteriaAnswers DEF Answers
  <2>2. B \in extract_ready_subrange(C, criteria)
    BY <1>9 DEF get_execute_operations
  <2> HIDE DEF C, criteria
  <2> QED BY <1>9, <2>1, <2>2, SubrangeIsInitial
<1>11. /\ B \subseteq ready /\ B \in SUBSET Batches
       /\ \A b \in B, c \in ready : c < b => c \in B
       /\ WithMinAge => \A b \in B : \E c \in Batches : c >= b /\ OldEnough(c)
  <2> HIDE DEF X, C
  <2> QED BY <1>1, <1>6, <1>8, <1>10
<1>12. /\ Lo(B) \in B /\ \A y \in B : Lo(B) <= y
       /\ Hi(B) \in B /\ \A y \in B : y <= Hi(B)
  <2>1. B \in SUBSET Nat /\ B \in SUBSET (0 .. MaxBatches)
    BY <1>1, <1>11
  <2> QED BY <1>1, <2>1, LoIsLeast, HiIsGreatest
<1>13. B = Lo(B) .. Hi(B)
  <2>1. B \subseteq Lo(B) .. Hi(B)
    BY <1>1, <1>11, <1>12
  <2>2. \A b \in Lo(B) .. Hi(B) : b \in B
    <3> SUFFICES ASSUME NEW b \in Lo(B) .. Hi(B) PROVE b \in B
      OBVIOUS
    <3>0. Lo(B) \in Batches /\ Hi(B) \in Batches
      BY <1>11, <1>12
    <3>1. b \in Batches /\ Lo(B) <= b /\ b <= Hi(B) /\ b \in Int /\ Hi(B) \in Int
      BY <1>1, <3>0 DEF Batches
    <3>2. b \in ready
      <4> HIDE DEF ready
      <4> QED BY <1>5, <1>11, <1>12, <3>1
    <3>3. b < Hi(B) \/ b = Hi(B)
      BY <3>1
    <3> HIDE DEF ready
    <3> QED BY <1>11, <1>12, <3>2, <3>3
  <2> QED BY <2>1, <2>2
<1>14. \A c \in Batches : c < Lo(B) => executeTx[c] # NoTx
  <2> SUFFICES ASSUME NEW c \in Batches, c < Lo(B), executeTx[c] = NoTx PROVE FALSE
    OBVIOUS
  <2>1. proveTx[c] # NoTx
    BY <1>11, <1>12 DEF Candidates, Columns, Column
  <2>2. c \in ready
    BY <2>1
  <2> HIDE DEF ready
  <2>3. c \in B
    BY <1>11, <1>12, <2>2
  <2>4. Lo(B) <= c
    BY <1>12, <2>3
  <2>5. Lo(B) \in Int /\ c \in Int
    BY <1>1, <1>11, <1>12 DEF Batches
  <2> QED BY <2>4, <2>5
<1>15. Lo(B) \in Batches /\ Hi(B) \in Batches /\ Lo(B) <= Hi(B)
  BY <1>11, <1>12
<1> QED BY <1>11, <1>13, <1>14, <1>15

-----------------------------------------------------------------------------
(* A new transaction in the tables.                                        *)

\* The column of its type gets its batches.
LEMMA ColumnGrows ==
    ASSUME NEW table \in Seq(EthTx), NEW t \in EthTx, NEW column \in [Batches -> 0 .. Len(table)],
           Column(column, t.type, table), t.first <= t.last,
           \A b \in t.first .. t.last : column[b] = NoTx,
           \A c \in Batches : c < t.first => column[c] # NoTx,
           NEW new, new = [b \in Batches |-> IF b \in t.first .. t.last THEN Len(table) + 1
                                             ELSE column[b]]
    PROVE  Column(new, t.type, Append(table, t)) /\ new \in [Batches -> 0 .. Len(table) + 1]
<1> DEFINE id == Len(table) + 1
           longer == Append(table, t)
<1>1. /\ Len(table) \in Nat /\ DOMAIN table = 1 .. Len(table) /\ DOMAIN longer = 1 .. id
      /\ longer[id] = t /\ \A i \in DOMAIN table : longer[i] = table[i] /\ i # id
  OBVIOUS
<1>2. t.first \in Batches /\ t.last \in Batches /\ MaxBatches \in Nat
  BY PipelineAssumption DEF EthTx
<1>3. t.first .. t.last \subseteq Batches
  BY <1>2 DEF Batches
<1>4. \A b \in Batches : column[b] \in 0 .. Len(table)
                         /\ (column[b] # NoTx => column[b] \in DOMAIN table)
  BY <1>1 DEF NoTx
<1> HIDE DEF longer
<1>5. \A b \in Batches : new[b] # NoTx =>
        longer[new[b]].type = t.type /\ b \in longer[new[b]].first .. longer[new[b]].last
  BY <1>1, <1>4 DEF Column
<1>6. ASSUME NEW i \in DOMAIN longer, longer[i].type = t.type,
             NEW b \in longer[i].first .. longer[i].last
      PROVE  new[b] = i
  <2>1. CASE i = id
    BY <1>1, <1>3, <1>6, <2>1
  <2>2. CASE i # id
    <3>1. i \in DOMAIN table /\ longer[i] = table[i]
      BY <1>1, <1>6, <2>2
    <3>2. column[b] = i
      BY <1>6, <3>1 DEF Column
    <3>3. b \in Batches
      <4>0. table[i] \in EthTx
        BY <3>1
      <4>1. table[i].first \in Batches /\ table[i].last \in Batches
        BY <4>0 DEF EthTx
      <4> QED BY <1>2, <1>6, <3>1, <4>1 DEF Batches
    <3>4. i # NoTx
      BY <1>1, <3>1 DEF NoTx
    <3> QED BY <3>2, <3>3, <3>4
  <2> QED BY <2>1, <2>2
<1>7. ASSUME NEW b \in Batches, NEW c \in Batches, b < c, new[c] # NoTx
      PROVE  new[b] # NoTx /\ new[b] <= new[c]
  <2>1. id # NoTx /\ id \in Nat /\ \A x \in Batches : column[x] <= id
    BY <1>1, <1>4 DEF NoTx
  <2>2. CASE c \in t.first .. t.last
    <3>1. new[c] = id
      BY <2>2
    <3>2. b \in t.first .. t.last \/ b < t.first
      BY <1>2, <1>7, <2>2 DEF Batches
    <3> QED BY <1>7, <2>1, <3>1, <3>2
  <2>3. CASE c \notin t.first .. t.last
    <3>1. new[c] = column[c] /\ column[c] # NoTx
      BY <1>7, <2>3
    <3>2. column[b] # NoTx /\ column[b] <= column[c]
      BY <1>7, <3>1 DEF Column
    <3> QED BY <1>7, <3>1, <3>2
  <2> QED BY <2>2, <2>3
<1>8. new \in [Batches -> 0 .. Len(table) + 1]
  BY <1>1, <1>4
<1> QED BY <1>5, <1>6, <1>7, <1>8 DEF Column, longer

\* The other two columns stay right.
LEMMA ColumnKept ==
    ASSUME NEW table \in Seq(EthTx), NEW t \in EthTx, NEW column \in [Batches -> 0 .. Len(table)],
           NEW type, Column(column, type, table), t.type # type
    PROVE  Column(column, type, Append(table, t)) /\ column \in [Batches -> 0 .. Len(table) + 1]
<1> DEFINE longer == Append(table, t)
<1>1. /\ Len(table) \in Nat /\ DOMAIN table = 1 .. Len(table) /\ DOMAIN longer = 1 .. Len(table) + 1
      /\ longer[Len(table) + 1] = t /\ \A i \in DOMAIN table : longer[i] = table[i]
  OBVIOUS
<1>2. \A b \in Batches : column[b] \in 0 .. Len(table)
                         /\ (column[b] # NoTx => column[b] \in DOMAIN table)
  BY <1>1 DEF NoTx
<1> HIDE DEF longer
<1>3. \A i \in DOMAIN longer : longer[i].type = type => i \in DOMAIN table
  BY <1>1
<1>4. Column(column, type, longer)
  BY <1>1, <1>2, <1>3 DEF Column
<1> QED BY <1>1, <1>2, <1>4 DEF longer

\* Every batch is in one transaction of each type, so there are at most three
\* transactions per batch: all ids have an entry in confirmed.
LEMMA TxIdsSuffice ==
    ASSUME TypeOK, Columns, Ranges
    PROVE  DOMAIN txs \subseteq TxIds
<1> DEFINE T == AggregatedActionType \X Batches
           n == Len(txs)
           f == [id \in 1 .. n |-> <<txs[id].type, txs[id].first>>]
<1>1. /\ n \in Nat /\ DOMAIN txs = 1 .. n /\ MaxBatches \in Nat
      /\ \A id \in 1 .. n : txs[id] \in EthTx
  BY ColumnTypes
<1>2. IsFiniteSet(Batches) /\ Cardinality(Batches) = MaxBatches
  <2>1. MaxBatches \in Int /\ 1 \in Int /\ ~(1 > MaxBatches) /\ MaxBatches - 1 + 1 = MaxBatches
    BY PipelineAssumption
  <2> HIDE DEF T, n, f
  <2> QED BY <2>1, FS_Interval DEF Batches
<1>3. IsFiniteSet(AggregatedActionType) /\ Cardinality(AggregatedActionType) = 3
  <2>1. IsFiniteSet({"Commit"}) /\ Cardinality({"Commit"}) = 1
    BY FS_Singleton
  <2>2. AggregatedActionType = ({"Commit"} \cup {"PublishProofOnchain"}) \cup {"Execute"}
    BY DEF AggregatedActionType
  <2>3. /\ IsFiniteSet({"Commit"} \cup {"PublishProofOnchain"})
        /\ Cardinality({"Commit"} \cup {"PublishProofOnchain"}) = 2
    BY <2>1, FS_AddElement
  <2>4. "Execute" \notin {"Commit"} \cup {"PublishProofOnchain"}
    OBVIOUS
  <2> HIDE DEF T, n, f
  <2> QED BY <2>2, <2>3, <2>4, FS_AddElement
<1>4. IsFiniteSet(T) /\ Cardinality(T) = 3 * MaxBatches
  BY <1>2, <1>3, FS_Product
<1>5. IsFiniteSet(1 .. n) /\ Cardinality(1 .. n) = n
  <2>1. n \in Nat
    BY <1>1
  <2>2. ASSUME NEW k \in Nat PROVE IsFiniteSet(1 .. k) /\ Cardinality(1 .. k) = k
    BY FS_Interval
  <2> HIDE DEF T, n, f
  <2> QED BY <2>1, <2>2
<1>6. f \in [1 .. n -> T]
  BY <1>1 DEF EthTx
<1>7. \A x, y \in 1 .. n : f[x] = f[y] => x = y
  <2> SUFFICES ASSUME NEW x \in 1 .. n, NEW y \in 1 .. n, f[x] = f[y] PROVE x = y
    OBVIOUS
  <2>1. txs[x].type = txs[y].type /\ txs[x].first = txs[y].first /\ txs[x] \in EthTx
    BY <1>1
  <2>2. \A i \in {x, y} : txs[i].first \in txs[i].first .. txs[i].last /\ i \in DOMAIN txs
    <3> SUFFICES ASSUME NEW i \in 1 .. n
                 PROVE  txs[i].first \in txs[i].first .. txs[i].last /\ i \in DOMAIN txs
      OBVIOUS
    <3> HIDE DEF f, n, T
    <3>1. txs[i] \in EthTx /\ i \in DOMAIN txs
      BY <1>1
    <3>2. txs[i].first \in Int /\ txs[i].last \in Int
      BY <1>1, <3>1 DEF EthTx, Batches
    <3>3. txs[i].first <= txs[i].last
      BY <3>1 DEF Ranges
    <3> QED BY <3>1, <3>2, <3>3
  <2>3. txs[x].type \in {"Commit", "PublishProofOnchain", "Execute"}
    BY <2>1 DEF EthTx, AggregatedActionType
  <2> HIDE DEF f, n, T
  <2> QED BY <2>1, <2>2, <2>3 DEF Columns, Column
<1>8. n <= 3 * MaxBatches
  <2> HIDE DEF f, n, T
  <2>1. ~(3 * MaxBatches < n)
    <3> SUFFICES ASSUME 3 * MaxBatches < n PROVE FALSE
      OBVIOUS
    <3>1. Cardinality(T) < Cardinality(1 .. n)
      BY <1>4, <1>5
    <3>2. \E x, y \in 1 .. n : x # y /\ f[x] = f[y]
      BY <1>4, <1>5, <1>6, <3>1, FS_PigeonHole
    <3> QED BY <1>7, <3>2
  <2> QED BY <1>1, <2>1
<1> QED BY <1>1, <1>8 DEF TxIds

-----------------------------------------------------------------------------
(* The inductive invariant.                                                *)

\* Before the first batch is sealed.
LEMMA InitInv == Init => IInv
<1> SUFFICES ASSUME Init PROVE IInv
  OBVIOUS
<1>1. /\ MaxBatches \in Nat /\ MaxTime \in Nat /\ Len(txs) = 0 /\ DOMAIN txs = {}
      /\ Len(chain) = 0 /\ DOMAIN chain = {}
  BY PipelineAssumption DEF Init
<1>2. TypeOK
  BY <1>1 DEF Init, TypeOK, NoTx, NotYet, Batches, TxIds, GenesisStamp
<1>6. Stamped /\ OnlyLateCommitsRevert
  BY <1>1 DEF Init, Stamped, GenesisStamp, OnlyLateCommitsRevert, Batches
<1>3. SavedInOrder /\ Columns /\ Ranges /\ Stages
  BY <1>1 DEF Init, SavedInOrder, Columns, Column, Ranges, Stages, NoTx
<1>4. ChainOrder /\ ChainAdvances /\ ConfirmedMined
  BY <1>1 DEF Init, ChainOrder, ChainAdvances, ConfirmedMined, NotYet
<1>5. TotalsTellMined
  <2>1. 0 .. Len(chain) = {0}
    BY <1>1
  <2>2. OkBy(0) = {} /\ StateAt(0) = GenesisState
    BY DEF OkBy, StateAt
  <2>3. \A b \in Batches : ~(b <= 0)
    BY <1>1 DEF Batches
  <2> QED BY <2>1, <2>2, <2>3 DEF TotalsTellMined, GenesisState
<1> QED BY <1>2, <1>3, <1>4, <1>5, <1>6 DEF IInv

\* Timestamps stay while the clock goes on.
LEMMA StampsKept ==
    ASSUME IInv, UNCHANGED <<sealed, stamps>>, now <= now', now' \in Nat
    PROVE  Stamped'
<1>1. /\ now \in 0 .. MaxTime /\ MaxTime \in Nat
      /\ stamps \in [Batches -> [batch : 0 .. MaxTime, last : 0 .. MaxTime]]
  BY ChainTypes DEF IInv, TypeOK
<1>2. \A b \in Batches : stamps[b].last \in Nat
  BY <1>1
<1> QED BY <1>1, <1>2 DEF IInv, Stamped

\* A commit on L1 is of a sealed batch.
LEMMA CommittedIsSealed ==
    ASSUME IInv, NEW id \in DOMAIN txs, txs[id].type = "Commit"
    PROVE  txs[id].first \in Batches /\ txs[id].first <= sealed
<1>1. txs[id] \in EthTx /\ txs[id].first = txs[id].last /\ MaxBatches \in Nat /\ id # NoTx
  BY ColumnTypes DEF IInv, Ranges, NoTx
<1>2. txs[id].first \in Batches /\ txs[id].first \in txs[id].first .. txs[id].last
  BY <1>1 DEF EthTx, Batches
<1>3. commitTx[txs[id].first] = id
  BY <1>2 DEF IInv, Columns, Column
<1>4. txs[id].first \in commitments
  BY <1>1, <1>2, <1>3 DEF IInv, Stages
<1>5. sealed \in 0 .. MaxBatches /\ hashed \in 0 .. sealed /\ commitments \subseteq 1 .. hashed
  BY DEF IInv, TypeOK
<1>6. txs[id].first \in 1 .. hashed
  BY <1>4, <1>5
<1>7. txs[id].first <= sealed
  <2> DEFINE b == txs[id].first
  <2> HIDE DEF b
  <2>1. b \in 1 .. hashed
    BY <1>6 DEF b
  <2>2. b <= sealed
    BY <1>1, <1>5, <2>1
  <2> QED BY <2>2 DEF b
<1> QED BY <1>2, <1>7

\* What reverted, and why, is not changed by anything but L1.
LEMMA RevertsKept ==
    ASSUME IInv, UNCHANGED chain, \A id \in DOMAIN txs : txs'[id] = txs[id],
           \A b \in Batches : b <= sealed => stamps'[b] = stamps[b]
    PROVE  OnlyLateCommitsRevert'
<1>1. \A k \in DOMAIN chain : chain[k].tx \in DOMAIN txs
  BY ChainTypes DEF IInv
<1>2. \A k \in DOMAIN chain : TooOld(k) => TooOld(k)'
  <2> SUFFICES ASSUME NEW k \in DOMAIN chain, TooOld(k) PROVE TooOld(k)'
    OBVIOUS
  <2> DEFINE t == txs[chain[k].tx]
  <2>1. t.type = "Commit" /\ chain[k].at > StampOf(t.first).batch + COMMIT_TIMESTAMP_NOT_OLDER
    BY DEF TooOld
  <2>2. t.first \in Batches /\ t.first <= sealed
    BY <1>1, <2>1, CommittedIsSealed
  <2>3. StampOf(t.first)' = StampOf(t.first) /\ t' = t
    <3>1. t' = t
      BY <1>1
    <3> HIDE DEF t
    <3>2. t.first # 0
      BY <2>2 DEF Batches
    <3> QED BY <2>2, <3>1, <3>2 DEF StampOf
  <2>4. chain'[k] = chain[k]
    OBVIOUS
  <2> QED BY <2>1, <2>3, <2>4 DEF TooOld
<1>3. OnlyLateCommitsRevert
  BY DEF IInv
<1> QED BY <1>2, <1>3 DEF OnlyLateCommitsRevert

\* A new batch comes after the last one.
LEMMA SealStamps ==
    ASSUME IInv, Seal
    PROVE  /\ Stamped' /\ stamps' \in [Batches -> [batch : 0 .. MaxTime, last : 0 .. MaxTime]]
           /\ \A b \in Batches : b <= sealed => stamps'[b] = stamps[b]
<1>1. /\ now \in 0 .. MaxTime /\ MaxTime \in Nat /\ MaxBatches \in Nat
      /\ stamps \in [Batches -> [batch : 0 .. MaxTime, last : 0 .. MaxTime]]
      /\ sealed \in 0 .. MaxBatches /\ sealed < MaxBatches /\ sealed' = sealed + 1 /\ now' = now
  BY ChainTypes, PipelineAssumption DEF IInv, TypeOK, Seal
<1>2. PICK first \in StampOf(sealed).last .. now : \E last \in first .. now :
        stamps' = [stamps EXCEPT ![sealed'] = [batch |-> first, last |-> last]]
  BY DEF Seal, sleep_past
<1>3. PICK last \in first .. now :
        stamps' = [stamps EXCEPT ![sealed'] = [batch |-> first, last |-> last]]
  BY <1>2
<1>4. StampOf(sealed).last \in 0 .. now
  BY <1>1 DEF StampOf, GenesisStamp, IInv, Stamped, Batches
<1>5. first \in 0 .. MaxTime /\ last \in 0 .. MaxTime /\ first <= last /\ last <= now
  BY <1>1, <1>2, <1>3, <1>4
<1>6. sealed + 1 \in Batches
  BY <1>1 DEF Batches
<1>7. /\ stamps'[sealed + 1] = [batch |-> first, last |-> last]
      /\ \A b \in Batches : b # sealed + 1 => stamps'[b] = stamps[b]
      /\ stamps' \in [Batches -> [batch : 0 .. MaxTime, last : 0 .. MaxTime]]
  BY <1>1, <1>3, <1>5, <1>6
<1>8. \A b \in Batches : stamps'[b].batch <= stamps'[b].last /\ stamps'[b].last <= now
  BY <1>1, <1>5, <1>7 DEF IInv, Stamped
<1>9. ASSUME NEW b \in Batches, NEW c \in Batches, b < c, c <= sealed + 1
      PROVE  stamps'[b].last <= stamps'[c].batch
  <2>1. b \in Nat /\ c \in Nat /\ b # sealed + 1 /\ b <= sealed /\ b # 0
    BY <1>1, <1>9 DEF Batches
  <2>2. CASE c <= sealed
    <3>1. c # sealed + 1
      BY <1>1, <2>1, <2>2
    <3> QED BY <1>7, <1>9, <2>1, <2>2, <3>1 DEF IInv, Stamped
  <2>3. CASE c = sealed + 1
    <3>1. StampOf(sealed) = stamps[sealed] /\ sealed \in Batches
      BY <1>1, <2>1 DEF StampOf, Batches
    <3>2. stamps[b].last <= stamps[sealed].last
      <4>1. CASE b = sealed
        BY <1>1, <3>1, <4>1
      <4>2. CASE b # sealed
        <5>1. b < sealed
          BY <1>1, <2>1, <4>2
        <5>2. stamps[b].last <= stamps[sealed].batch /\ stamps[sealed].batch <= stamps[sealed].last
          BY <1>1, <3>1, <5>1 DEF IInv, Stamped
        <5> QED BY <1>1, <3>1, <5>2
      <4> QED BY <4>1, <4>2
    <3>3. stamps[sealed].last <= first
      BY <1>1, <1>2, <1>4, <3>1
    <3>4. stamps[b].last \in Nat /\ stamps[sealed].last \in Nat /\ stamps'[c].batch = first
      BY <1>1, <1>7, <2>3, <3>1
    <3> QED BY <1>5, <1>7, <2>1, <3>2, <3>3, <3>4
  <2> QED BY <1>1, <1>9, <2>1, <2>2, <2>3
<1>10. Stamped'
  BY <1>1, <1>8, <1>9 DEF Stamped
<1>11. \A b \in Batches : b <= sealed => b # sealed + 1
  BY <1>1 DEF Batches
<1> QED BY <1>7, <1>10, <1>11

\* The components that fill in l1_batches touch nothing else.
LEMMA BatchFrame ==
    ASSUME IInv, UNCHANGED <<dbVars, chain, final, now>>, commitments \subseteq commitments'
    PROVE  Columns' /\ Ranges' /\ Stages' /\ ChainOrder' /\ ChainAdvances' /\ TotalsTellMined'
           /\ ConfirmedMined'
<1>1. Columns' /\ Ranges'
  BY DEF IInv, dbVars, Columns, Column, Ranges
<1>2. Stages'
  BY DEF IInv, dbVars, Stages, OldEnough, IsConfirmed
<1>3. ChainOrder' /\ ChainAdvances' /\ ConfirmedMined'
  BY DEF IInv, dbVars, ChainOrder, Earlier, Sender, MinedBy, ChainAdvances, Advance, Same, StateAt,
         ConfirmedMined
<1>4. TotalsTellMined'
  <2>1. UNCHANGED <<commitTx, proveTx, executeTx, chain>>
    BY DEF dbVars
  <2>2. \A k \in 0 .. Len(chain) : StateAt(k)' = StateAt(k) /\ OkBy(k)' = OkBy(k)
    BY <2>1 DEF StateAt, OkBy
  <2> QED BY <2>1, <2>2 DEF IInv, TotalsTellMined
<1> QED BY <1>1, <1>2, <1>3, <1>4

BatchStep ==
    \/ Seal \/ SaveTreeHash \/ GenerateCommitments \/ GeneratorRestarts
    \/ \E b \in Batches : save_l1_batch_commitment_artifacts(b) \/ ProofReady(b)

\* Batches are sealed, committed to and proven on the core's side.
LEMMA BatchStepInv == IInv /\ BatchStep => IInv'
<1> SUFFICES ASSUME IInv, BatchStep PROVE IInv'
  OBVIOUS
<1>0. MaxBatches \in Nat /\ Parallelism \in Nat \ {0}
      /\ sealed \in 0 .. MaxBatches /\ hashed \in 0 .. sealed
      /\ commitments \subseteq 1 .. hashed /\ generating \subseteq 1 .. hashed
  BY PipelineAssumption DEF IInv, TypeOK
<1>1. UNCHANGED <<dbVars, chain, final, now>> /\ commitments \subseteq commitments'
  BY DEF BatchStep, Seal, SaveTreeHash, GenerateCommitments, GeneratorRestarts,
         save_l1_batch_commitment_artifacts, ProofReady
<1>2. TypeOK'
  <2>1. UNCHANGED <<commitTx, proveTx, executeTx, txs, confirmed, chain, final, now>>
    BY <1>1 DEF dbVars
  <2>2. /\ sealed' \in 0 .. MaxBatches /\ hashed' \in 0 .. sealed'
        /\ commitments' \subseteq 1 .. hashed' /\ generating' \subseteq 1 .. hashed'
        /\ proofs' \subseteq 1 .. hashed'
        /\ stamps' \in [Batches -> [batch : 0 .. MaxTime, last : 0 .. MaxTime]]
    <3>1. CASE Seal
      <4>1. UNCHANGED <<hashed, commitments, generating, proofs>> /\ sealed' = sealed + 1
            /\ sealed < MaxBatches
        BY <3>1 DEF Seal
      <4>2. proofs \subseteq 1 .. hashed
        BY DEF IInv, TypeOK
      <4>3. sealed' \in 0 .. MaxBatches /\ hashed' \in 0 .. sealed'
        BY <1>0, <4>1
      <4> QED BY <1>0, <3>1, <4>1, <4>2, <4>3, SealStamps
    <3>2. CASE SaveTreeHash
      BY <1>0, <3>2 DEF SaveTreeHash, IInv, TypeOK
    <3>3. CASE GenerateCommitments
      <4>1. next_batch_range \subseteq 1 .. hashed
        BY DEF next_batch_range
      <4> QED BY <1>0, <3>3, <4>1 DEF GenerateCommitments, IInv, TypeOK
    <3>4. CASE GeneratorRestarts
      BY <1>0, <3>4 DEF GeneratorRestarts, IInv, TypeOK
    <3>5. CASE \E b \in Batches : save_l1_batch_commitment_artifacts(b) \/ ProofReady(b)
      BY <1>0, <3>5 DEF save_l1_batch_commitment_artifacts, ProofReady, IInv, TypeOK
    <3> QED BY <3>1, <3>2, <3>3, <3>4, <3>5 DEF BatchStep
  <2> QED BY <2>1, <2>2 DEF IInv, TypeOK
<1>3. SavedInOrder'
  <2>1. CASE Seal \/ SaveTreeHash \/ GeneratorRestarts
    BY <2>1 DEF Seal, SaveTreeHash, GeneratorRestarts, IInv, SavedInOrder
  <2>2. CASE GenerateCommitments
    <3> DEFINE ready == {b \in 1 .. hashed : b \notin commitments}
    <3>1. /\ ready # {} /\ commitments' = commitments
          /\ generating' = {b \in ready : b <= Lo(ready) + Parallelism - 1}
      BY <2>2 DEF GenerateCommitments, next_batch_range
    <3>2. Lo(ready) \in Int
      <4>1. ready \in SUBSET Nat
        BY <1>0
      <4>2. ready \in SUBSET Int
        BY <1>0
      <4> HIDE DEF ready
      <4> QED BY <3>1, <4>1, <4>2, LoIsLeast
    <3>3. ASSUME NEW b \in generating', NEW c \in 1 .. b
          PROVE  c \in commitments \cup generating'
      <4>1. b \in ready /\ b <= Lo(ready) + Parallelism - 1
        BY <3>1, <3>3
      <4>2. b \in 1 .. hashed /\ c \in 1 .. hashed /\ c <= b
        BY <1>0, <3>3, <4>1
      <4>3. c <= Lo(ready) + Parallelism - 1
        <5> HIDE DEF ready
        <5> QED BY <1>0, <3>2, <4>1, <4>2
      <4> QED BY <3>1, <4>2, <4>3
    <3> QED BY <3>1, <3>3 DEF IInv, SavedInOrder
  <2>3. ASSUME NEW b \in Batches, save_l1_batch_commitment_artifacts(b) \/ ProofReady(b)
        PROVE  SavedInOrder'
    <3>1. CASE ProofReady(b)
      BY <3>1 DEF ProofReady, IInv, SavedInOrder
    <3>2. CASE save_l1_batch_commitment_artifacts(b)
      <4>1. /\ b \in generating /\ b = Lo(generating) /\ commitments' = commitments \cup {b}
            /\ generating' = generating \ {b}
        BY <3>2 DEF save_l1_batch_commitment_artifacts
      <4>2. \A y \in generating : b <= y
        <5>1. generating \in SUBSET Nat
          BY <1>0
        <5> QED BY <4>1, <5>1, LoIsLeast
      <4>3. 1 .. b \subseteq commitments \cup {b}
        <5>1. \A c \in 1 .. b : c # b => ~(b <= c)
          BY <1>0 DEF Batches
        <5>2. 1 .. b \subseteq commitments \cup generating
          BY <4>1 DEF IInv, SavedInOrder
        <5> QED BY <4>2, <5>1, <5>2
      <4>4. \A c \in commitments' : 1 .. c \subseteq commitments'
        BY <4>1, <4>3 DEF IInv, SavedInOrder
      <4>5. \A c \in generating' : 1 .. c \subseteq commitments' \cup generating'
        BY <4>1 DEF IInv, SavedInOrder
      <4> QED BY <4>4, <4>5 DEF SavedInOrder
    <3> QED BY <2>3, <3>1, <3>2
  <2> QED BY <2>1, <2>2, <2>3 DEF BatchStep
<1>4. Stamped' /\ OnlyLateCommitsRevert'
  <2>1. UNCHANGED <<txs, chain, now>>
    BY <1>1 DEF dbVars
  <2>2. CASE Seal
    BY <2>1, <2>2, SealStamps, RevertsKept
  <2>3. CASE ~Seal
    <3>1. UNCHANGED <<sealed, stamps>>
      BY <2>3 DEF BatchStep, SaveTreeHash, GenerateCommitments, GeneratorRestarts,
         save_l1_batch_commitment_artifacts, ProofReady
    <3>2. now <= now' /\ now' \in Nat
      BY <2>1, ChainTypes DEF IInv
    <3> QED BY <2>1, <3>1, <3>2, StampsKept, RevertsKept
  <2> QED BY <2>2, <2>3
<1> QED BY <1>1, <1>2, <1>3, <1>4, BatchFrame DEF IInv

\* What a new transaction leaves alone.  Its id is not on L1 yet.
LEMMA NewTxFrame ==
    ASSUME IInv, NEW t \in EthTx, txs' = Append(txs, t),
           UNCHANGED <<batchVars, confirmed, chain, final, now>>
    PROVE  /\ txs' \in Seq(EthTx) /\ Len(txs') = Len(txs) + 1
           /\ DOMAIN txs' = 1 .. Len(txs) + 1 /\ txs'[Len(txs) + 1] = t
           /\ \A id \in DOMAIN txs : id # Len(txs) + 1 /\ txs'[id] = txs[id]
           /\ SavedInOrder' /\ ChainOrder' /\ ChainAdvances' /\ ConfirmedMined'
           /\ Stamped' /\ OnlyLateCommitsRevert'
           /\ \A k \in 0 .. Len(chain) : /\ StateAt(k)' = StateAt(k) /\ OkBy(k)' = OkBy(k)
                                         /\ NoTx \notin OkBy(k) /\ Len(txs) + 1 \notin OkBy(k)
<1>1. /\ txs \in Seq(EthTx) /\ Len(txs) \in Nat /\ DOMAIN txs = 1 .. Len(txs)
  BY ColumnTypes DEF IInv
<1>2. /\ txs' \in Seq(EthTx) /\ Len(txs') = Len(txs) + 1
      /\ DOMAIN txs' = 1 .. Len(txs) + 1 /\ txs'[Len(txs) + 1] = t
      /\ \A id \in DOMAIN txs : id # Len(txs) + 1 /\ txs'[id] = txs[id]
  BY <1>1
<1>3. SavedInOrder' /\ ConfirmedMined'
  BY DEF IInv, batchVars, SavedInOrder, ConfirmedMined
<1>4. \A k \in 0 .. Len(chain) : StateAt(k)' = StateAt(k) /\ OkBy(k)' = OkBy(k)
  BY DEF StateAt, OkBy
<1>5. ChainAdvances'
  BY DEF IInv, ChainAdvances, Advance, Same, StateAt
<1>6. /\ Len(chain) \in Nat /\ DOMAIN chain = 1 .. Len(chain)
      /\ \A k \in DOMAIN chain : chain[k].tx \in DOMAIN txs
  BY ChainTypes DEF IInv
<1>7. ChainOrder'
  <2>1. ASSUME NEW id \in DOMAIN txs PROVE Earlier(id)' = Earlier(id)
    <3>1. \A i \in 1 .. id : Sender(i)' = Sender(i)
      BY <1>1, <1>2 DEF Sender
    <3>2. id \in 1 .. id /\ 1 .. id - 1 \subseteq 1 .. id
      BY <1>1
    <3> QED BY <3>1, <3>2 DEF Earlier
  <2>2. \A k \in DOMAIN chain : MinedBy(k - 1)' = MinedBy(k - 1)
    BY DEF MinedBy
  <2>3. UNCHANGED <<chain, now>>
    OBVIOUS
  <2>4. \A k \in DOMAIN chain' : Earlier(chain[k].tx)' \subseteq MinedBy(k - 1)'
    BY <1>6, <2>1, <2>2, <2>3 DEF IInv, ChainOrder
  <2> QED BY <2>3, <2>4 DEF IInv, ChainOrder
<1>8. \A k \in 0 .. Len(chain) : NoTx \notin OkBy(k) /\ Len(txs) + 1 \notin OkBy(k)
  BY <1>1, <1>2, <1>6 DEF OkBy, NoTx
<1>9. Stamped' /\ OnlyLateCommitsRevert'
  <2>1. UNCHANGED <<sealed, stamps, chain, now>>
    BY DEF batchVars
  <2>2. now <= now' /\ now' \in Nat
    BY <2>1, ChainTypes DEF IInv
  <2> QED BY <1>2, <2>1, <2>2, StampsKept, RevertsKept
<1> QED BY <1>2, <1>3, <1>4, <1>5, <1>7, <1>8, <1>9

\* The type invariant after a new transaction.
LEMMA NewTxTypes ==
    ASSUME IInv, NEW t \in EthTx, txs' = Append(txs, t),
           UNCHANGED <<batchVars, confirmed, chain, final, now>>,
           {commitTx', proveTx', executeTx'} \subseteq [Batches -> 0 .. Len(txs) + 1]
    PROVE  TypeOK'
<1>1. UNCHANGED <<sealed, stamps, hashed, commitments, generating, proofs, confirmed, chain, final, now>>
  BY DEF batchVars
<1>2. txs' \in Seq(EthTx) /\ Len(txs') = Len(txs) + 1 /\ DOMAIN txs \subseteq DOMAIN txs'
  <2>1. Len(txs) \in Nat /\ DOMAIN txs = 1 .. Len(txs)
    BY ColumnTypes DEF IInv
  <2> QED BY <2>1, NewTxFrame
<1>3. chain \in Seq(MinedTx')
  <2>1. MinedTx \subseteq MinedTx'
    BY <1>2 DEF MinedTx
  <2>2. chain \in Seq(MinedTx)
    BY ChainTypes DEF IInv
  <2> QED BY <2>1, <2>2
<1> QED BY <1>1, <1>2, <1>3 DEF IInv, TypeOK, EthTx, MinedTx

\* A new commit.
LEMMA AggregateCommitInv == IInv /\ AggregateCommit => IInv'
<1> SUFFICES ASSUME IInv, AggregateCommit PROVE IInv'
  OBVIOUS
<1>1. PICK B \in get_commit_operation :
        /\ B # {} /\ save_eth_tx("Commit", get_last_committed_to_eth_l1_batch, B)
        /\ commitTx' = set_eth_tx_id(commitTx, B) /\ UNCHANGED <<proveTx, executeTx>>
  BY DEF AggregateCommit
<1>2. Candidates
  BY DEF IInv, Candidates
<1>3. PICK b \in Batches :
        /\ B = {b} /\ commitTx[b] = NoTx /\ b \in commitments
        /\ get_last_committed_to_eth_l1_batch = b - 1
        /\ \A c \in Batches : c < b => commitTx[c] # NoTx
  BY <1>1, <1>2, CommitTakesNext
<1> DEFINE t == [type |-> "Commit", prev |-> b - 1, first |-> b, last |-> b]
<1>4. MaxBatches \in Nat /\ b \in Nat /\ b - 1 \in 0 .. MaxBatches /\ b .. b = {b} /\ b <= b
  BY ColumnTypes DEF IInv, Batches
<1>5. t \in EthTx /\ t.type = "Commit" /\ t.first = b /\ t.last = b /\ t.prev = b - 1
  BY <1>3, <1>4 DEF EthTx, AggregatedActionType
<1>6. txs' = Append(txs, t) /\ UNCHANGED <<batchVars, confirmed, chain, final, now>>
  BY <1>1, <1>3, <1>4, SingleBatch DEF save_eth_tx
<1> HIDE DEF t
<1>7. commitTx' = [c \in Batches |-> IF c \in t.first .. t.last THEN Len(txs) + 1 ELSE commitTx[c]]
  BY <1>1, <1>3, <1>4, <1>5 DEF set_eth_tx_id
<1>8. /\ commitTx \in [Batches -> 0 .. Len(txs)] /\ proveTx \in [Batches -> 0 .. Len(txs)]
      /\ executeTx \in [Batches -> 0 .. Len(txs)] /\ txs \in Seq(EthTx)
      /\ Len(txs) \in Nat /\ DOMAIN txs = 1 .. Len(txs)
  BY ColumnTypes DEF IInv
<1>9. Column(commitTx', "Commit", txs') /\ commitTx' \in [Batches -> 0 .. Len(txs) + 1]
  <2>1. Column(commitTx, t.type, txs)
    BY <1>5 DEF IInv, Columns
  <2>2. t.first <= t.last /\ \A c \in t.first .. t.last : commitTx[c] = NoTx
    BY <1>3, <1>4, <1>5
  <2>3. \A c \in Batches : c < t.first => commitTx[c] # NoTx
    BY <1>3, <1>5
  <2>4. Column(commitTx', t.type, Append(txs, t)) /\ commitTx' \in [Batches -> 0 .. Len(txs) + 1]
    BY <1>5, <1>7, <1>8, <2>1, <2>2, <2>3, ColumnGrows
  <2> QED BY <1>5, <1>6, <2>4
<1>10. /\ Column(proveTx, "PublishProofOnchain", txs') /\ proveTx \in [Batches -> 0 .. Len(txs) + 1]
       /\ Column(executeTx, "Execute", txs') /\ executeTx \in [Batches -> 0 .. Len(txs) + 1]
  BY <1>5, <1>6, <1>8, ColumnKept DEF IInv, Columns
<1>11. Columns'
  BY <1>1, <1>9, <1>10 DEF Columns
<1>12. TypeOK'
  BY <1>1, <1>5, <1>6, <1>9, <1>10, NewTxTypes
<1>13. /\ DOMAIN txs' = 1 .. Len(txs) + 1 /\ txs'[Len(txs) + 1] = t
       /\ \A id \in DOMAIN txs : id # Len(txs) + 1 /\ txs'[id] = txs[id]
       /\ SavedInOrder' /\ ChainOrder' /\ ChainAdvances' /\ ConfirmedMined'
       /\ Stamped' /\ OnlyLateCommitsRevert'
       /\ \A k \in 0 .. Len(chain) : /\ StateAt(k)' = StateAt(k) /\ OkBy(k)' = OkBy(k)
                                     /\ NoTx \notin OkBy(k) /\ Len(txs) + 1 \notin OkBy(k)
  BY <1>5, <1>6, NewTxFrame
<1>14. Ranges'
  <2>1. \A id \in DOMAIN txs' : id = Len(txs) + 1 \/ id \in DOMAIN txs
    BY <1>8, <1>13
  <2> QED BY <1>4, <1>5, <1>13, <2>1 DEF IInv, Ranges
<1>15. \A c \in Batches : /\ commitTx[c] # NoTx => commitTx'[c] = commitTx[c]
                          /\ commitTx'[c] = commitTx[c]
                                \/ (c = b /\ commitTx[c] = NoTx /\ commitTx'[c] = Len(txs) + 1)
  BY <1>3, <1>4, <1>5, <1>7
<1>16. Stages'
  <2>1. UNCHANGED <<confirmed, now, commitments, proveTx, executeTx>>
    BY <1>1, <1>6 DEF batchVars
  <2>2. \A c \in Batches : OldEnough(c) => OldEnough(c)'
    BY <1>15, <2>1 DEF OldEnough, IsConfirmed
  <2>3. \A c \in Batches : commitTx[c] # NoTx /\ IsConfirmed(commitTx[c]) => IsConfirmed(commitTx[c])'
    BY <1>15, <2>1 DEF IsConfirmed
  <2> QED BY <1>3, <1>15, <2>1, <2>2, <2>3 DEF IInv, Stages
<1>17. TotalsTellMined'
  <2>1. UNCHANGED <<chain, proveTx, executeTx>>
    BY <1>1, <1>6
  <2> QED BY <1>13, <1>15, <2>1 DEF IInv, TotalsTellMined
<1> QED BY <1>11, <1>12, <1>13, <1>14, <1>16, <1>17 DEF IInv

\* A new proof.
LEMMA AggregateProofInv == IInv /\ AggregateProof => IInv'
<1> SUFFICES ASSUME IInv, AggregateProof PROVE IInv'
  OBVIOUS
<1>1. PICK B \in get_proof_operation :
        /\ B # {} /\ save_eth_tx("PublishProofOnchain", Lo(B) - 1, B)
        /\ proveTx' = set_eth_tx_id(proveTx, B) /\ UNCHANGED <<commitTx, executeTx>>
  BY DEF AggregateProof
<1>2. Candidates
  BY DEF IInv, Candidates
<1>3. PICK b \in Batches :
        /\ B = {b} /\ proveTx[b] = NoTx /\ commitTx[b] # NoTx
        /\ Operate4844 => IsConfirmed(commitTx[b])
        /\ \A c \in Batches : c < b => proveTx[c] # NoTx
  BY <1>1, <1>2, ProofTakesNext
<1> DEFINE t == [type |-> "PublishProofOnchain", prev |-> b - 1, first |-> b, last |-> b]
<1>4. MaxBatches \in Nat /\ b \in Nat /\ b - 1 \in 0 .. MaxBatches /\ b .. b = {b} /\ b <= b
  BY ColumnTypes DEF IInv, Batches
<1>5. t \in EthTx /\ t.type = "PublishProofOnchain" /\ t.first = b /\ t.last = b /\ t.prev = b - 1
  BY <1>3, <1>4 DEF EthTx, AggregatedActionType
<1>6. txs' = Append(txs, t) /\ UNCHANGED <<batchVars, confirmed, chain, final, now>>
  BY <1>1, <1>3, <1>4, SingleBatch DEF save_eth_tx
<1> HIDE DEF t
<1>7. proveTx' = [c \in Batches |-> IF c \in t.first .. t.last THEN Len(txs) + 1 ELSE proveTx[c]]
  BY <1>1, <1>3, <1>4, <1>5 DEF set_eth_tx_id
<1>8. /\ commitTx \in [Batches -> 0 .. Len(txs)] /\ proveTx \in [Batches -> 0 .. Len(txs)]
      /\ executeTx \in [Batches -> 0 .. Len(txs)] /\ txs \in Seq(EthTx)
      /\ Len(txs) \in Nat /\ DOMAIN txs = 1 .. Len(txs)
  BY ColumnTypes DEF IInv
<1>9. Column(proveTx', "PublishProofOnchain", txs') /\ proveTx' \in [Batches -> 0 .. Len(txs) + 1]
  <2>1. Column(proveTx, t.type, txs)
    BY <1>5 DEF IInv, Columns
  <2>2. t.first <= t.last /\ \A c \in t.first .. t.last : proveTx[c] = NoTx
    BY <1>3, <1>4, <1>5
  <2>3. \A c \in Batches : c < t.first => proveTx[c] # NoTx
    BY <1>3, <1>5
  <2>4. Column(proveTx', t.type, Append(txs, t)) /\ proveTx' \in [Batches -> 0 .. Len(txs) + 1]
    BY <1>5, <1>7, <1>8, <2>1, <2>2, <2>3, ColumnGrows
  <2> QED BY <1>5, <1>6, <2>4
<1>10. /\ Column(commitTx, "Commit", txs') /\ commitTx \in [Batches -> 0 .. Len(txs) + 1]
       /\ Column(executeTx, "Execute", txs') /\ executeTx \in [Batches -> 0 .. Len(txs) + 1]
  BY <1>5, <1>6, <1>8, ColumnKept DEF IInv, Columns
<1>11. Columns'
  BY <1>1, <1>9, <1>10 DEF Columns
<1>12. TypeOK'
  BY <1>1, <1>5, <1>6, <1>9, <1>10, NewTxTypes
<1>13. /\ DOMAIN txs' = 1 .. Len(txs) + 1 /\ txs'[Len(txs) + 1] = t
       /\ \A id \in DOMAIN txs : id # Len(txs) + 1 /\ txs'[id] = txs[id]
       /\ SavedInOrder' /\ ChainOrder' /\ ChainAdvances' /\ ConfirmedMined'
       /\ Stamped' /\ OnlyLateCommitsRevert'
       /\ \A k \in 0 .. Len(chain) : /\ StateAt(k)' = StateAt(k) /\ OkBy(k)' = OkBy(k)
                                     /\ NoTx \notin OkBy(k) /\ Len(txs) + 1 \notin OkBy(k)
  BY <1>5, <1>6, NewTxFrame
<1>14. Ranges'
  <2>1. \A id \in DOMAIN txs' : id = Len(txs) + 1 \/ id \in DOMAIN txs
    BY <1>8, <1>13
  <2> QED BY <1>4, <1>5, <1>13, <2>1 DEF IInv, Ranges
<1>15. \A c \in Batches : /\ proveTx[c] # NoTx => proveTx'[c] = proveTx[c]
                          /\ proveTx'[c] = proveTx[c]
                                \/ (c = b /\ proveTx[c] = NoTx /\ proveTx'[c] = Len(txs) + 1)
  BY <1>3, <1>4, <1>5, <1>7
<1>16. Stages'
  <2>1. UNCHANGED <<confirmed, now, commitments, commitTx, executeTx>>
    BY <1>1, <1>6 DEF batchVars
  <2>2. \A c \in Batches : OldEnough(c)' = OldEnough(c) /\ IsConfirmed(commitTx[c])' = IsConfirmed(commitTx[c])
    BY <2>1 DEF OldEnough, IsConfirmed
  <2>3. \A c \in Batches : commitTx[c] < Len(txs) + 1
    BY <1>8
  <2> QED BY <1>3, <1>15, <2>1, <2>2, <2>3 DEF IInv, Stages
<1>17. TotalsTellMined'
  <2>1. UNCHANGED <<chain, commitTx, executeTx>>
    BY <1>1, <1>6
  <2> QED BY <1>13, <1>15, <2>1 DEF IInv, TotalsTellMined
<1> QED BY <1>11, <1>12, <1>13, <1>14, <1>16, <1>17 DEF IInv

\* A new execution.
LEMMA AggregateExecuteInv == IInv /\ AggregateExecute => IInv'
<1> SUFFICES ASSUME IInv, AggregateExecute PROVE IInv'
  OBVIOUS
<1>1. PICK B \in get_execute_operations :
        /\ B # {} /\ save_eth_tx("Execute", 0, B)
        /\ executeTx' = set_eth_tx_id(executeTx, B) /\ UNCHANGED <<commitTx, proveTx>>
  BY DEF AggregateExecute
<1>2. Candidates
  BY DEF IInv, Candidates
<1>3. /\ Lo(B) \in Batches /\ Hi(B) \in Batches /\ Lo(B) <= Hi(B)
      /\ B = Lo(B) .. Hi(B)
      /\ \A b \in B : /\ proveTx[b] # NoTx /\ executeTx[b] = NoTx
                      /\ WithMinAge => \E c \in Batches : c >= b /\ OldEnough(c)
      /\ \A c \in Batches : c < Lo(B) => executeTx[c] # NoTx
  BY <1>1, <1>2, ExecuteTakesRun
<1> DEFINE t == [type |-> "Execute", prev |-> 0, first |-> Lo(B), last |-> Hi(B)]
<1>4. 0 \in 0 .. MaxBatches
  BY ColumnTypes DEF IInv
<1>5. t \in EthTx /\ t.type = "Execute" /\ t.first = Lo(B) /\ t.last = Hi(B)
  BY <1>3, <1>4 DEF EthTx, AggregatedActionType
<1>6. txs' = Append(txs, t) /\ UNCHANGED <<batchVars, confirmed, chain, final, now>>
  BY <1>1 DEF save_eth_tx
<1> HIDE DEF t
<1>7. executeTx' = [c \in Batches |-> IF c \in t.first .. t.last THEN Len(txs) + 1 ELSE executeTx[c]]
  BY <1>1, <1>3, <1>5 DEF set_eth_tx_id
<1>8. /\ commitTx \in [Batches -> 0 .. Len(txs)] /\ proveTx \in [Batches -> 0 .. Len(txs)]
      /\ executeTx \in [Batches -> 0 .. Len(txs)] /\ txs \in Seq(EthTx)
      /\ Len(txs) \in Nat /\ DOMAIN txs = 1 .. Len(txs)
  BY ColumnTypes DEF IInv
<1>9. Column(executeTx', "Execute", txs') /\ executeTx' \in [Batches -> 0 .. Len(txs) + 1]
  <2>1. Column(executeTx, t.type, txs)
    BY <1>5 DEF IInv, Columns
  <2>2. t.first <= t.last /\ \A c \in t.first .. t.last : executeTx[c] = NoTx
    BY <1>3, <1>5
  <2>3. \A c \in Batches : c < t.first => executeTx[c] # NoTx
    BY <1>3, <1>5
  <2>4. Column(executeTx', t.type, Append(txs, t)) /\ executeTx' \in [Batches -> 0 .. Len(txs) + 1]
    BY ZenonT(30), <1>5, <1>7, <1>8, <2>1, <2>2, <2>3, ColumnGrows
  <2> QED BY <1>5, <1>6, <2>4
<1>10. /\ Column(commitTx, "Commit", txs') /\ commitTx \in [Batches -> 0 .. Len(txs) + 1]
       /\ Column(proveTx, "PublishProofOnchain", txs') /\ proveTx \in [Batches -> 0 .. Len(txs) + 1]
  BY <1>5, <1>6, <1>8, ColumnKept DEF IInv, Columns
<1>11. Columns'
  BY <1>1, <1>9, <1>10 DEF Columns
<1>12. TypeOK'
  BY <1>1, <1>5, <1>6, <1>9, <1>10, NewTxTypes
<1>13. /\ DOMAIN txs' = 1 .. Len(txs) + 1 /\ txs'[Len(txs) + 1] = t
       /\ \A id \in DOMAIN txs : id # Len(txs) + 1 /\ txs'[id] = txs[id]
       /\ SavedInOrder' /\ ChainOrder' /\ ChainAdvances' /\ ConfirmedMined'
       /\ Stamped' /\ OnlyLateCommitsRevert'
       /\ \A k \in 0 .. Len(chain) : /\ StateAt(k)' = StateAt(k) /\ OkBy(k)' = OkBy(k)
                                     /\ NoTx \notin OkBy(k) /\ Len(txs) + 1 \notin OkBy(k)
  BY <1>5, <1>6, NewTxFrame
<1>14. Ranges'
  <2>1. \A id \in DOMAIN txs' : id = Len(txs) + 1 \/ id \in DOMAIN txs
    BY <1>8, <1>13
  <2> QED BY <1>3, <1>5, <1>13, <2>1 DEF IInv, Ranges
<1>15. \A c \in Batches : \/ executeTx'[c] = executeTx[c]
                          \/ c \in B /\ executeTx[c] = NoTx /\ executeTx'[c] = Len(txs) + 1
  BY <1>3, <1>5, <1>7
<1>16. Stages'
  <2>1. UNCHANGED <<confirmed, now, commitments, commitTx, proveTx>>
    BY <1>1, <1>6 DEF batchVars
  <2>2. \A c \in Batches : OldEnough(c)' = OldEnough(c) /\ IsConfirmed(commitTx[c])' = IsConfirmed(commitTx[c])
    BY <2>1 DEF OldEnough, IsConfirmed
  <2>3. \A c \in Batches : proveTx[c] < Len(txs) + 1
    BY <1>8
  <2> QED BY <1>3, <1>15, <2>1, <2>2, <2>3 DEF IInv, Stages
<1>17. TotalsTellMined'
  <2>1. UNCHANGED <<chain, commitTx, proveTx>>
    BY <1>1, <1>6
  <2> QED BY <1>13, <1>15, <2>1 DEF IInv, TotalsTellMined
<1> QED BY <1>11, <1>12, <1>13, <1>14, <1>16, <1>17 DEF IInv

-----------------------------------------------------------------------------
(* L1 accepts every transaction whose turn it is, if nothing has reverted  *)
(* before and it is not a commit that is too late.                         *)

\* The transaction mined next: earlier ones of the same account are on L1.
Waiting(id) == IInv /\ id \in DOMAIN txs \ Mined /\ Earlier(id) \subseteq Mined
NothingReverted == \A k \in DOMAIN chain : chain[k].ok

\* What is on L1 when a transaction is mined.
LEMMA WaitingTx ==
    ASSUME NEW id, Waiting(id)
    PROVE  /\ id \in 1 .. Len(txs) /\ Len(txs) \in Nat /\ txs[id] \in EthTx
           /\ id \notin MinedBy(Len(chain)) /\ Mined = MinedBy(Len(chain))
           /\ \A i \in 1 .. Len(txs) : i < id /\ Sender(i) = Sender(id) => i \in MinedBy(Len(chain))
           /\ NoTx \notin MinedBy(Len(chain)) /\ MinedBy(Len(chain)) \subseteq 1 .. Len(txs)
           /\ L1State = StateAt(Len(chain)) /\ Len(chain) \in 0 .. Len(chain)
           /\ L1State.committed \in 0 .. MaxBatches /\ L1State.verified \in 0 .. MaxBatches
           /\ L1State.executed \in 0 .. MaxBatches
<1>1. /\ Len(txs) \in Nat /\ DOMAIN txs = 1 .. Len(txs) /\ \A i \in DOMAIN txs : txs[i] \in EthTx
  BY ColumnTypes DEF IInv, Waiting
<1>2. /\ Len(chain) \in Nat /\ DOMAIN chain = 1 .. Len(chain)
      /\ \A k \in DOMAIN chain : chain[k].tx \in DOMAIN txs
      /\ \A k \in 0 .. Len(chain) : /\ StateAt(k).committed \in 0 .. MaxBatches
                                    /\ StateAt(k).verified \in 0 .. MaxBatches
                                    /\ StateAt(k).executed \in 0 .. MaxBatches
  BY ChainTypes DEF IInv, Waiting
<1>3. Mined = MinedBy(Len(chain)) /\ Mined \subseteq 1 .. Len(txs)
  BY <1>1, <1>2 DEF Mined, MinedBy
<1>4. \A i \in 1 .. Len(txs) : i < id /\ Sender(i) = Sender(id) => i \in Mined
  BY <1>1 DEF Waiting, Earlier
<1>5. L1State = StateAt(Len(chain)) /\ Len(chain) \in 0 .. Len(chain)
  BY <1>2 DEF L1State
<1>6. NoTx \notin Mined
  BY <1>1, <1>3 DEF NoTx
<1> QED BY <1>1, <1>2, <1>3, <1>4, <1>5, <1>6 DEF Waiting

\* What is on L1 was accepted.
LEMMA MinedIsOk ==
    ASSUME TypeOK, NothingReverted
    PROVE  OkBy(Len(chain)) = MinedBy(Len(chain))
<1>1. DOMAIN chain = 1 .. Len(chain)
  BY ChainTypes
<1> QED BY <1>1 DEF OkBy, MinedBy, NothingReverted

\* The batches of a total are those below the first that is not in it.
LEMMA TotalIsNext ==
    ASSUME NEW total \in 0 .. MaxBatches, NEW b \in Batches, ~(b <= total),
           b > 1 => b - 1 <= total
    PROVE  total = b - 1
  BY PipelineAssumption DEF Batches

\* A commit finds its batch to be the next.
LEMMA CommitIsNext ==
    ASSUME NEW id, Waiting(id), NothingReverted, txs[id].type = "Commit"
    PROVE  /\ txs[id].first = txs[id].last /\ txs[id].prev = txs[id].first - 1
           /\ L1State.committed = txs[id].first - 1
<1> DEFINE b == txs[id].first
           M == MinedBy(Len(chain))
<1>1. /\ id \in 1 .. Len(txs) /\ Len(txs) \in Nat /\ txs[id] \in EthTx /\ id \notin M
      /\ \A i \in 1 .. Len(txs) : i < id /\ Sender(i) = Sender(id) => i \in M
      /\ L1State = StateAt(Len(chain)) /\ Len(chain) \in 0 .. Len(chain)
      /\ L1State.committed \in 0 .. MaxBatches
  BY WaitingTx
<1>2. /\ commitTx \in [Batches -> 0 .. Len(txs)] /\ DOMAIN txs = 1 .. Len(txs) /\ MaxBatches \in Nat
      /\ TypeOK /\ Columns /\ Ranges /\ TotalsTellMined
  BY ColumnTypes DEF Waiting, IInv
<1>3. b \in Batches /\ b = txs[id].last /\ txs[id].prev = b - 1
  BY <1>1, <1>2 DEF EthTx, Ranges
<1>4. \A c \in Batches : c <= L1State.committed <=> commitTx[c] \in M
  BY <1>1, <1>2, MinedIsOk DEF TotalsTellMined
<1>5. commitTx[b] = id
  <2>1. b \in txs[id].first .. txs[id].last /\ id \in DOMAIN txs
    BY <1>1, <1>2, <1>3 DEF Batches
  <2>2. Column(commitTx, "Commit", txs)
    BY <1>2 DEF Columns
  <2> QED BY <2>1, <2>2 DEF Column
<1>6. ~(b <= L1State.committed)
  BY <1>1, <1>3, <1>4, <1>5
<1>7. ASSUME b > 1 PROVE b - 1 <= L1State.committed
  <2> DEFINE i == commitTx[b - 1]
  <2>1. b - 1 \in Batches /\ b - 1 < b
    BY <1>2, <1>3, <1>7 DEF Batches
  <2>2. i # NoTx /\ i <= id
    BY <1>1, <1>2, <1>3, <1>5, <2>1 DEF Columns, Column, NoTx
  <2>3. i \in 1 .. Len(txs)
    BY <1>2, <2>1, <2>2 DEF NoTx
  <2>4. i # id /\ txs[i].type = "Commit"
    <3>1. txs[i].type = "Commit" /\ b - 1 \in txs[i].first .. txs[i].last
      BY <1>2, <2>1, <2>2 DEF Columns, Column
    <3>2. b - 1 \notin b .. b
      BY <1>3 DEF Batches
    <3> QED BY <1>3, <3>1, <3>2
  <2>5. i < id
    BY <1>1, <2>2, <2>3, <2>4
  <2>6. Sender(i) = Sender(id)
    BY <2>4 DEF Sender
  <2> QED BY <1>1, <1>4, <2>1, <2>3, <2>5, <2>6
<1>8. L1State.committed = b - 1
  <2> HIDE DEF b
  <2> QED BY <1>1, <1>3, <1>6, <1>7, TotalIsNext
<1> QED BY <1>3, <1>8

\* A proof finds its batch to be the next, and committed.
LEMMA ProofIsNext ==
    ASSUME NEW id, Waiting(id), NothingReverted, txs[id].type = "PublishProofOnchain"
    PROVE  /\ txs[id].first = txs[id].last /\ txs[id].prev = txs[id].first - 1
           /\ L1State.verified = txs[id].first - 1 /\ txs[id].last <= L1State.committed
<1> DEFINE b == txs[id].first
           M == MinedBy(Len(chain))
<1>1. /\ id \in 1 .. Len(txs) /\ Len(txs) \in Nat /\ txs[id] \in EthTx /\ id \notin M
      /\ \A i \in 1 .. Len(txs) : i < id /\ Sender(i) = Sender(id) => i \in M
      /\ L1State = StateAt(Len(chain)) /\ Len(chain) \in 0 .. Len(chain)
      /\ L1State.verified \in 0 .. MaxBatches /\ L1State.committed \in 0 .. MaxBatches
  BY WaitingTx
<1>2. /\ proveTx \in [Batches -> 0 .. Len(txs)] /\ DOMAIN txs = 1 .. Len(txs) /\ MaxBatches \in Nat
      /\ commitTx \in [Batches -> 0 .. Len(txs)]
      /\ TypeOK /\ Columns /\ Ranges /\ TotalsTellMined /\ Stages /\ ConfirmedMined
  BY ColumnTypes DEF Waiting, IInv
<1>3. b \in Batches /\ b = txs[id].last /\ txs[id].prev = b - 1
  BY <1>1, <1>2 DEF EthTx, Ranges
<1>4. \A c \in Batches : /\ c <= L1State.verified <=> proveTx[c] \in M
                         /\ c <= L1State.committed <=> commitTx[c] \in M
  BY <1>1, <1>2, MinedIsOk DEF TotalsTellMined
<1>5. proveTx[b] = id
  <2>1. b \in txs[id].first .. txs[id].last /\ id \in DOMAIN txs
    BY <1>1, <1>2, <1>3 DEF Batches
  <2>2. Column(proveTx, "PublishProofOnchain", txs)
    BY <1>2 DEF Columns
  <2> QED BY <2>1, <2>2 DEF Column
<1>6. ~(b <= L1State.verified)
  BY <1>1, <1>3, <1>4, <1>5
<1>7. ASSUME b > 1 PROVE b - 1 <= L1State.verified
  <2> DEFINE i == proveTx[b - 1]
  <2>1. b - 1 \in Batches /\ b - 1 < b
    BY SMTT(30), <1>2, <1>3, <1>7 DEF Batches
  <2>2. i # NoTx /\ i <= id
    BY <1>1, <1>2, <1>3, <1>5, <2>1 DEF Columns, Column, NoTx
  <2>3. i \in 1 .. Len(txs)
    BY <1>2, <2>1, <2>2 DEF NoTx
  <2>4. i # id /\ txs[i].type = "PublishProofOnchain"
    <3>1. txs[i].type = "PublishProofOnchain" /\ b - 1 \in txs[i].first .. txs[i].last
      BY <1>2, <2>1, <2>2 DEF Columns, Column
    <3>2. b - 1 \notin b .. b
      BY <1>3 DEF Batches
    <3> QED BY <1>3, <3>1, <3>2
  <2>5. i < id
    BY <1>1, <2>2, <2>3, <2>4
  <2>6. Sender(i) = Sender(id)
    BY <2>4 DEF Sender
  <2> QED BY <1>1, <1>4, <2>1, <2>3, <2>5, <2>6
<1>8. L1State.verified = b - 1
  <2> HIDE DEF b
  <2> QED BY <1>1, <1>3, <1>6, <1>7, TotalIsNext
<1>9. b <= L1State.committed
  <2> DEFINE i == commitTx[b]
  <2>1. i # NoTx /\ i < id /\ (Operate4844 => IsConfirmed(i))
    BY <1>1, <1>2, <1>3, <1>5 DEF Stages, NoTx
  <2>2. i \in 1 .. Len(txs) /\ txs[i].type = "Commit"
    BY <1>2, <1>3, <2>1 DEF Columns, Column, NoTx
  <2>3. CASE ~Operate4844
    <3>1. Sender(i) = Sender(id)
      BY <2>3 DEF Sender
    <3> QED BY <1>1, <1>3, <1>4, <2>1, <2>2, <3>1
  <2>4. CASE Operate4844
    <3>1. i \in TxIds
      BY <1>2, <2>2, TxIdsSuffice
    <3>2. confirmed[i] # NotYet
      BY <2>1, <2>4 DEF IsConfirmed
    <3>3. PICK k \in 1 .. final : chain[k].tx = i
      BY <1>2, <3>1, <3>2 DEF ConfirmedMined
    <3>4. k \in 1 .. Len(chain)
      BY <1>2, <3>3, ChainTypes
    <3> QED BY <1>3, <1>4, <3>3, <3>4 DEF MinedBy
  <2> QED BY <2>3, <2>4
<1> QED BY <1>3, <1>8, <1>9

\* An execution finds its first batch to be the next, and all of them verified.
LEMMA ExecutionIsNext ==
    ASSUME NEW id, Waiting(id), NothingReverted, txs[id].type = "Execute"
    PROVE  /\ txs[id].first \in Batches /\ txs[id].last \in Batches /\ txs[id].first <= txs[id].last
           /\ L1State.executed = txs[id].first - 1 /\ txs[id].last <= L1State.verified
           /\ \A b \in txs[id].first .. txs[id].last : b \in Batches /\ executeTx[b] = id
<1> DEFINE b == txs[id].first
           e == txs[id].last
           M == MinedBy(Len(chain))
<1>1. /\ id \in 1 .. Len(txs) /\ Len(txs) \in Nat /\ txs[id] \in EthTx /\ id \notin M
      /\ \A i \in 1 .. Len(txs) : i < id /\ Sender(i) = Sender(id) => i \in M
      /\ L1State = StateAt(Len(chain)) /\ Len(chain) \in 0 .. Len(chain)
      /\ L1State.verified \in 0 .. MaxBatches /\ L1State.executed \in 0 .. MaxBatches
  BY WaitingTx
<1>2. /\ proveTx \in [Batches -> 0 .. Len(txs)] /\ DOMAIN txs = 1 .. Len(txs) /\ MaxBatches \in Nat
      /\ executeTx \in [Batches -> 0 .. Len(txs)]
      /\ TypeOK /\ Ranges /\ TotalsTellMined /\ Stages
      /\ Column(proveTx, "PublishProofOnchain", txs) /\ Column(executeTx, "Execute", txs)
  BY ColumnTypes DEF Waiting, IInv, Columns
<1>3. b \in Batches /\ e \in Batches /\ b <= e
  BY <1>1, <1>2 DEF EthTx, Ranges
<1>4. \A c \in Batches : /\ c <= L1State.executed <=> executeTx[c] \in M
                         /\ c <= L1State.verified <=> proveTx[c] \in M
  BY <1>1, <1>2, MinedIsOk DEF TotalsTellMined
<1>5. \A c \in b .. e : c \in Batches /\ executeTx[c] = id
  <2>1. \A c \in b .. e : executeTx[c] = id
    BY <1>1, <1>2 DEF Column
  <2>2. \A c \in b .. e : c \in Batches
    <3> HIDE DEF b, e
    <3> QED BY <1>2, <1>3 DEF Batches
  <2> QED BY <2>1, <2>2
<1>6. ~(b <= L1State.executed)
  BY <1>1, <1>3, <1>4, <1>5 DEF Batches
<1>7. ASSUME b > 1 PROVE b - 1 <= L1State.executed
  <2> DEFINE i == executeTx[b - 1]
  <2>1. b - 1 \in Batches /\ b - 1 < b /\ executeTx[b] = id
    <3>1. b \in b .. e /\ b - 1 \in Batches /\ b - 1 < b
      <4> HIDE DEF b, e
      <4> QED BY <1>2, <1>3, <1>7 DEF Batches
    <3> QED BY <1>5, <3>1
  <2>2. i # NoTx /\ i <= id
    BY <1>1, <1>2, <1>3, <2>1 DEF Column, NoTx
  <2>3. i \in 1 .. Len(txs)
    BY <1>2, <2>1, <2>2 DEF NoTx
  <2>4. i # id /\ txs[i].type = "Execute"
    <3>1. txs[i].type = "Execute" /\ b - 1 \in txs[i].first .. txs[i].last
      BY <1>2, <2>1, <2>2 DEF Column
    <3>2. b - 1 \notin b .. e
      BY <1>3 DEF Batches
    <3> QED BY <3>1, <3>2
  <2>5. i < id
    BY <1>1, <2>2, <2>3, <2>4
  <2>6. Sender(i) = Sender(id)
    BY <2>4 DEF Sender
  <2> QED BY <1>1, <1>4, <2>1, <2>3, <2>5, <2>6
<1>8. L1State.executed = b - 1
  <2> HIDE DEF b
  <2> QED BY <1>1, <1>3, <1>6, <1>7, TotalIsNext
<1>9. e <= L1State.verified
  <2> DEFINE i == proveTx[e]
  <2>0. executeTx[e] = id
    BY <1>3, <1>5 DEF Batches
  <2>1. i # NoTx /\ i < id
    BY <1>1, <1>2, <1>3, <2>0 DEF Stages, NoTx
  <2>2. i \in 1 .. Len(txs) /\ txs[i].type = "PublishProofOnchain"
    BY <1>2, <1>3, <2>1 DEF Column, NoTx
  <2>3. Sender(i) = Sender(id)
    BY <2>2 DEF Sender
  <2> QED BY <1>1, <1>3, <1>4, <2>1, <2>2, <2>3
<1> QED BY <1>3, <1>5, <1>8, <1>9

\* Along L1 the totals of committed batches do not decrease, so what was mined
\* when a batch was confirmed includes every commit before it.
LEMMA CommittedBefore ==
    ASSUME IInv, NEW b \in Batches, NEW c \in Batches, b <= c,
           NEW j \in DOMAIN chain, NEW k \in DOMAIN chain,
           chain[j].tx = commitTx[b], chain[k].tx = commitTx[c], chain[k].ok
    PROVE  j <= k
<1>1. /\ Len(chain) \in Nat /\ DOMAIN chain = 1 .. Len(chain)
      /\ StateAt(k).committed \in 0 .. MaxBatches /\ MaxBatches \in Nat
  <2>1. TypeOK
    BY DEF IInv
  <2>2. Len(chain) \in Nat /\ DOMAIN chain = 1 .. Len(chain)
    BY <2>1, ChainTypes
  <2>3. k \in 0 .. Len(chain)
    BY <2>2
  <2>4. StateAt(k).committed \in 0 .. MaxBatches
    BY <2>1, <2>3, ChainTypes
  <2> QED BY <2>2, <2>4, PipelineAssumption
<1>2. k \in 0 .. Len(chain) /\ commitTx[c] \in OkBy(k)
  BY <1>1 DEF OkBy
<1>3. c <= StateAt(k).committed
  BY <1>2 DEF IInv, TotalsTellMined
<1>4. b <= StateAt(k).committed
  BY <1>1, <1>3 DEF Batches
<1>5. commitTx[b] \in OkBy(k)
  BY <1>2, <1>4 DEF IInv, TotalsTellMined
<1>6. PICK i \in 1 .. k : chain[i].tx = commitTx[b]
  BY <1>5 DEF OkBy
<1>7. i = j
  BY <1>1, <1>6 DEF IInv, ChainOrder
<1> QED BY <1>1, <1>6, <1>7

\* The timelock has run out for every batch of an execution: a batch not before it
\* was confirmed long enough ago, and its own commit is on L1 no later than that.
LEMMA TimelockIsOver ==
    ASSUME NEW id, Waiting(id), NothingReverted, txs[id].type = "Execute", NEW time \in BlockTimes,
           NEW b \in txs[id].first .. txs[id].last
    PROVE  time >= CommittedAt(b) + ExecutionDelay
<1> DEFINE ks == {k \in DOMAIN chain : /\ chain[k].ok /\ txs[chain[k].tx].type = "Commit"
                                      /\ b \in txs[chain[k].tx].first .. txs[chain[k].tx].last}
<1>1. /\ Len(chain) \in Nat /\ DOMAIN chain = 1 .. Len(chain)
      /\ \A k \in DOMAIN chain : chain[k].tx \in DOMAIN txs /\ chain[k].at \in 0 .. MaxTime
      /\ final \in 0 .. Len(chain) /\ now \in 0 .. MaxTime /\ MaxTime \in Nat
  BY ChainTypes DEF Waiting, IInv
<1>2. /\ ExecutionDelay \in Nat /\ MinAge \in Nat /\ WithMinAge \in BOOLEAN /\ BlockLag \in Nat
      /\ (WithMinAge => ExecutionDelay + BlockLag <= MinAge) /\ (~WithMinAge => ExecutionDelay = 0)
  BY PipelineAssumption, DeploymentAssumption
<1>3. CommittedAt(b) = IF ks = {} THEN 0 ELSE chain[Hi(ks)].at
  BY DEF CommittedAt
<1>4. b \in Batches /\ executeTx[b] = id /\ id # NoTx
  BY ExecutionIsNext, WaitingTx DEF NoTx
<1>7. L1State.at \in 0 .. MaxTime /\ time \in Nat /\ L1State.at <= time /\ now <= time + BlockLag
  <2>1. L1State.at \in 0 .. MaxTime
    BY <1>1 DEF L1State, StateAt, GenesisState
  <2> QED BY <1>1, <2>1 DEF BlockTimes
<1>5. CASE ~WithMinAge
  <2>1. CommittedAt(b) \in 0 .. time
    <3>1. CASE ks = {}
      <4>1. CommittedAt(b) = 0
        BY <1>3, <3>1
      <4> QED BY <1>7, <4>1
    <3>2. CASE ks # {}
      <4>1. Hi(ks) \in ks
        <5>1. ks \in SUBSET (0 .. Len(chain))
          BY <1>1
        <5> HIDE DEF ks
        <5> QED BY <1>1, <3>2, <5>1, HiIsGreatest
      <4>2. Hi(ks) \in DOMAIN chain
        BY <4>1
      <4> HIDE DEF ks
      <4>3. Len(chain) \in DOMAIN chain /\ Hi(ks) <= Len(chain) /\ L1State = chain[Len(chain)]
        BY <1>1, <4>2 DEF L1State, StateAt
      <4>4. chain[Hi(ks)].at \in 0 .. MaxTime /\ chain[Hi(ks)].at <= L1State.at
        BY <1>1, <4>2, <4>3 DEF Waiting, IInv, ChainOrder
      <4> QED BY <1>1, <1>3, <1>7, <3>2, <4>4
    <3> QED BY <3>1, <3>2
  <2> QED BY <1>2, <1>5, <1>7, <2>1
<1>6. CASE WithMinAge
  <2>1. PICK c \in Batches : c >= b /\ OldEnough(c)
    BY <1>4, <1>6 DEF Waiting, IInv, Stages
  <2>2. commitTx[c] # NoTx /\ confirmed[commitTx[c]] # NotYet /\ confirmed[commitTx[c]] <= now - MinAge
    BY <2>1 DEF OldEnough, IsConfirmed
  <2>3. commitTx[c] \in TxIds
    <3>1. commitTx[c] \in DOMAIN txs
      BY <2>2, ColumnTypes DEF Waiting, IInv, NoTx
    <3> QED BY <3>1, TxIdsSuffice DEF Waiting, IInv
  <2>4. PICK k \in 1 .. final :
          chain[k].tx = commitTx[c] /\ chain[k].ok /\ chain[k].at <= confirmed[commitTx[c]]
    BY <2>2, <2>3 DEF Waiting, IInv, ConfirmedMined
  <2>5. k \in DOMAIN chain /\ confirmed[commitTx[c]] \in Int
    <3>1. k \in DOMAIN chain
      BY <1>1, <2>4
    <3>2. confirmed \in [TxIds -> {NotYet} \cup 0 .. MaxTime]
      BY DEF Waiting, IInv, TypeOK
    <3>3. confirmed[commitTx[c]] \in {NotYet} \cup 0 .. MaxTime
      BY <2>3, <3>2
    <3> QED BY <1>1, <2>2, <3>1, <3>3
  <2>6. ASSUME NEW j \in ks PROVE chain[j].at <= chain[k].at
    <3>1. j \in DOMAIN chain /\ chain[j].tx \in DOMAIN txs
      BY <1>1
    <3>2. commitTx[b] = chain[j].tx
      <4>1. Column(commitTx, "Commit", txs)
        BY DEF Waiting, IInv, Columns
      <4> QED BY <3>1, <4>1 DEF Column
    <3>3. j <= k
      <4>1. b <= c
        BY <1>4, <2>1 DEF Batches
      <4> QED BY <1>4, <2>1, <2>4, <2>5, <3>1, <3>2, <4>1, CommittedBefore DEF Waiting
    <3> QED BY <2>5, <3>1, <3>3 DEF Waiting, IInv, ChainOrder
  <2>7. CASE ks = {}
    <3>1. CommittedAt(b) = 0 /\ chain[k].at \in 0 .. MaxTime
      BY <1>1, <1>3, <2>5, <2>7
    <3> QED BY <1>1, <1>2, <1>6, <1>7, <2>2, <2>4, <2>5, <3>1
  <2>8. CASE ks # {}
    <3>1. Hi(ks) \in ks
      <4>1. ks \in SUBSET (0 .. Len(chain))
        BY <1>1
      <4> HIDE DEF ks
      <4> QED BY <1>1, <2>8, <4>1, HiIsGreatest
    <3>2. CommittedAt(b) = chain[Hi(ks)].at /\ chain[Hi(ks)].at <= chain[k].at
      <4> HIDE DEF ks
      <4> QED BY <1>3, <2>6, <2>8, <3>1
    <3>3. chain[Hi(ks)].at \in 0 .. MaxTime /\ chain[k].at \in 0 .. MaxTime
      BY <1>1, <2>5, <3>1
    <3> HIDE DEF ks
    <3> QED BY SMTT(30), <1>1, <1>2, <1>6, <1>7, <2>2, <2>4, <2>5, <3>2, <3>3
  <2> QED BY <2>7, <2>8
<1> QED BY <1>2, <1>5, <1>6

\* A commit that is not too late has the time the contract wants.
LEMMA TimestampIsRight ==
    ASSUME NEW id, Waiting(id), NothingReverted, txs[id].type = "Commit", NEW time \in BlockTimes,
           ~(time > StampOf(txs[id].first).batch + COMMIT_TIMESTAMP_NOT_OLDER)
    PROVE  verifyBatchTimestamp(txs[id].first, txs[id].prev, time)
<1> DEFINE b == txs[id].first
           p == txs[id].prev
<1>1. /\ now \in 0 .. MaxTime /\ MaxTime \in Nat /\ MaxBatches \in Nat /\ sealed \in 0 .. MaxBatches
      /\ stamps \in [Batches -> [batch : 0 .. MaxTime, last : 0 .. MaxTime]]
      /\ \A k \in DOMAIN chain : chain[k].at \in 0 .. MaxTime
      /\ Len(chain) \in Nat /\ DOMAIN chain = 1 .. Len(chain)
  BY ChainTypes, PipelineAssumption DEF Waiting, IInv, TypeOK
<1>2. /\ COMMIT_TIMESTAMP_NOT_OLDER \in Nat /\ COMMIT_TIMESTAMP_APPROXIMATION_DELTA \in Nat
      /\ BlockLag \in Nat /\ BlockLag <= COMMIT_TIMESTAMP_APPROXIMATION_DELTA
  BY PipelineAssumption, DeploymentAssumption
<1>3. time \in Nat /\ now <= time + BlockLag
  <2>1. L1State.at \in Nat
    BY <1>1 DEF L1State, StateAt, GenesisState
  <2> QED BY <1>1, <2>1 DEF BlockTimes
<1>4. b \in Batches /\ b <= sealed /\ p = b - 1
  BY CommittedIsSealed, CommitIsNext DEF Waiting
<1> HIDE DEF b, p
<1>5. b \in Nat /\ b # 0 /\ StampOf(b) = stamps[b] /\ stamps[b].batch \in Nat /\ stamps[b].last \in Nat
  BY <1>1, <1>4 DEF Batches, StampOf
<1>6. stamps[b].last <= now
  BY <1>4 DEF Waiting, IInv, Stamped
<1>7. StampOf(p).batch <= StampOf(b).batch
  <2>1. CASE p = 0
    BY <1>5, <2>1 DEF StampOf, GenesisStamp
  <2>2. CASE p # 0
    <3>1. p \in Batches /\ p < b /\ StampOf(p) = stamps[p]
      BY <1>1, <1>4, <1>5, <2>2 DEF Batches, StampOf
    <3>2. stamps[p].last <= stamps[b].batch /\ stamps[p].batch <= stamps[p].last
      BY <1>4, <3>1 DEF Waiting, IInv, Stamped
    <3>3. stamps[p].batch \in Nat /\ stamps[p].last \in Nat
      BY <1>1, <3>1
    <3> QED BY <1>5, <3>1, <3>2, <3>3
  <2> QED BY <2>1, <2>2
<1>8. time - COMMIT_TIMESTAMP_NOT_OLDER <= StampOf(b).batch
  BY <1>2, <1>3, <1>5 DEF b
<1>9. StampOf(b).last <= time + COMMIT_TIMESTAMP_APPROXIMATION_DELTA
  BY <1>1, <1>2, <1>3, <1>5, <1>6
<1> QED BY <1>7, <1>8, <1>9 DEF verifyBatchTimestamp, b, p

\* So a transaction is accepted when its turn comes.
LEMMA WaitingIsAccepted ==
    ASSUME NEW id, Waiting(id), NothingReverted, NEW time \in BlockTimes,
           ~(/\ txs[id].type = "Commit"
             /\ time > StampOf(txs[id].first).batch + COMMIT_TIMESTAMP_NOT_OLDER)
    PROVE  Accepted(txs[id], time)
<1>1. txs[id] \in EthTx
  BY WaitingTx
<1>2. txs[id].first \in Batches /\ txs[id].last \in Batches /\ txs[id].type \in AggregatedActionType
  BY <1>1 DEF EthTx
<1>3. CASE txs[id].type = "Commit"
  BY <1>2, <1>3, CommitIsNext, TimestampIsRight DEF Accepted, commitBatches, Batches
<1>4. CASE txs[id].type = "PublishProofOnchain"
  BY <1>2, <1>4, ProofIsNext DEF Accepted, proveBatches, Batches
<1>5. CASE txs[id].type = "Execute"
  BY <1>2, <1>5, ExecutionIsNext, TimelockIsOver DEF Accepted, executeBatches, Batches
<1> QED BY <1>2, <1>3, <1>4, <1>5 DEF AggregatedActionType

-----------------------------------------------------------------------------
(* Steps of L1 and of the transaction manager.                             *)

\* What is left alone when only L1, or what is confirmed, changes.
LEMMA DatabaseFrame ==
    ASSUME IInv, UNCHANGED <<batchVars, commitTx, proveTx, executeTx, txs>>
    PROVE  SavedInOrder' /\ Columns' /\ Ranges' /\ \A id : Earlier(id)' = Earlier(id)
  BY DEF IInv, batchVars, SavedInOrder, Columns, Column, Ranges, Earlier, Sender

\* The contracts' state after a transaction is a step of the life cycle.
LEMMA MinedAdvances ==
    ASSUME NEW id, Waiting(id), NEW time, Accepted(txs[id], time), NEW r,
           r.committed = Totals(txs[id]).committed, r.verified = Totals(txs[id]).verified,
           r.executed = Totals(txs[id]).executed
    PROVE  /\ Advance(L1State, r)
           /\ r.committed \in 0 .. MaxBatches /\ r.verified \in 0 .. MaxBatches
           /\ r.executed \in 0 .. MaxBatches
           /\ \A b \in Batches :
                /\ b <= r.committed <=> b <= L1State.committed \/ commitTx[b] = id
                /\ b <= r.verified <=> b <= L1State.verified \/ proveTx[b] = id
                /\ b <= r.executed <=> b <= L1State.executed \/ executeTx[b] = id
<1> DEFINE t == txs[id]
<1>1. /\ t \in EthTx /\ id \in 1 .. Len(txs) /\ Len(txs) \in Nat
      /\ L1State.committed \in 0 .. MaxBatches /\ L1State.verified \in 0 .. MaxBatches
      /\ L1State.executed \in 0 .. MaxBatches
  BY WaitingTx
<1>2. t.first \in Batches /\ t.last \in Batches /\ t.type \in AggregatedActionType
      /\ MaxBatches \in Nat /\ id # NoTx
  BY SMTT(30), <1>1, PipelineAssumption DEF EthTx, NoTx
<1>3. /\ Column(commitTx, "Commit", txs) /\ Column(proveTx, "PublishProofOnchain", txs)
      /\ Column(executeTx, "Execute", txs) /\ DOMAIN txs = 1 .. Len(txs)
  BY ColumnTypes DEF Waiting, IInv, Columns
<1>4. \A b \in Batches :
        /\ commitTx[b] = id <=> t.type = "Commit" /\ b \in t.first .. t.last
        /\ proveTx[b] = id <=> t.type = "PublishProofOnchain" /\ b \in t.first .. t.last
        /\ executeTx[b] = id <=> t.type = "Execute" /\ b \in t.first .. t.last
  BY <1>1, <1>2, <1>3 DEF Column
<1>5. CASE t.type = "Commit"
  <2>1. r.committed = t.last /\ r.verified = L1State.verified /\ r.executed = L1State.executed
    BY <1>5 DEF Totals
  <2>2. t.first = t.last /\ t.first = L1State.committed + 1
    BY <1>5 DEF Accepted, commitBatches, proveBatches, executeBatches
  <2> HIDE DEF t
  <2> QED BY <1>1, <1>2, <1>4, <1>5, <2>1, <2>2 DEF Advance, Batches
<1>6. CASE t.type = "PublishProofOnchain"
  <2>1. r.committed = L1State.committed /\ r.verified = t.last /\ r.executed = L1State.executed
    BY <1>6 DEF Totals
  <2>2. t.first = t.last /\ t.first = L1State.verified + 1 /\ t.last <= L1State.committed
    BY <1>6 DEF Accepted, commitBatches, proveBatches, executeBatches
  <2> HIDE DEF t
  <2> QED BY <1>1, <1>2, <1>4, <1>6, <2>1, <2>2 DEF Advance, Batches
<1>7. CASE t.type = "Execute"
  <2>1. r.committed = L1State.committed /\ r.verified = L1State.verified /\ r.executed = t.last
    BY <1>7 DEF Totals
  <2>2. t.first = L1State.executed + 1 /\ t.last <= L1State.verified
    BY <1>7 DEF Accepted, commitBatches, proveBatches, executeBatches
  <2>3. t.first <= t.last
    BY <1>1, <1>3 DEF Waiting, IInv, Ranges
  <2> HIDE DEF t
  <2> QED BY <1>1, <1>2, <1>4, <1>7, <2>1, <2>2, <2>3 DEF Advance, Batches
<1> QED BY <1>2, <1>5, <1>6, <1>7 DEF AggregatedActionType

\* A block with a transaction.
LEMMA MineTxInv == ASSUME NEW id, IInv, MineTx(id) PROVE IInv'
<1>0. PICK n \in Nat : n = Len(chain)
  BY ChainTypes DEF IInv
<1>1. Waiting(id)
  BY DEF MineTx, Waiting
<1>20. PICK time \in BlockTimes :
        LET ok == Accepted(txs[id], time)
            s == IF ok THEN Totals(txs[id]) ELSE L1State
        IN  chain' = Append(chain, [tx |-> id, ok |-> ok, at |-> time, committed |-> s.committed,
                                    verified |-> s.verified, executed |-> s.executed])
  BY DEF MineTx
<1>21. \E ok \in BOOLEAN :
        /\ ok <=> Accepted(txs[id], time)
        /\ LET s == IF ok THEN Totals(txs[id]) ELSE L1State
           IN  chain' = Append(chain, [tx |-> id, ok |-> ok, at |-> time, committed |-> s.committed,
                                       verified |-> s.verified, executed |-> s.executed])
  <2>1. CASE Accepted(txs[id], time)
    <3> WITNESS TRUE \in BOOLEAN
    <3> QED BY <1>20, <2>1
  <2>2. CASE ~Accepted(txs[id], time)
    <3>1. Accepted(txs[id], time) = FALSE
      BY <2>2 DEF Accepted, commitBatches, proveBatches, executeBatches
    <3> WITNESS FALSE \in BOOLEAN
    <3> QED BY <1>20, <2>2, <3>1
  <2> QED BY <2>1, <2>2
<1>22. PICK ok \in BOOLEAN :
        /\ ok <=> Accepted(txs[id], time)
        /\ LET s == IF ok THEN Totals(txs[id]) ELSE L1State
           IN  chain' = Append(chain, [tx |-> id, ok |-> ok, at |-> time, committed |-> s.committed,
                                       verified |-> s.verified, executed |-> s.executed])
  BY <1>21
<1> DEFINE s == IF ok THEN Totals(txs[id]) ELSE L1State
           r == [tx |-> id, ok |-> ok, at |-> time, committed |-> s.committed,
                 verified |-> s.verified, executed |-> s.executed]
<1>2. chain' = Append(chain, r) /\ UNCHANGED <<batchVars, dbVars, final, now>>
  BY <1>22 DEF MineTx
<1>4. r.tx = id /\ r.ok = ok /\ r.at = time /\ r.committed = s.committed /\ r.verified = s.verified
      /\ r.executed = s.executed
  OBVIOUS
<1>3. /\ r.ok => Advance(L1State, r)
      /\ ~r.ok => Same(L1State, r)
      /\ r.committed \in 0 .. MaxBatches /\ r.verified \in 0 .. MaxBatches
      /\ r.executed \in 0 .. MaxBatches
      /\ \A b \in Batches :
           /\ b <= r.committed <=> b <= L1State.committed \/ (r.ok /\ commitTx[b] = id)
           /\ b <= r.verified <=> b <= L1State.verified \/ (r.ok /\ proveTx[b] = id)
           /\ b <= r.executed <=> b <= L1State.executed \/ (r.ok /\ executeTx[b] = id)
  <2> HIDE DEF r
  <2>1. CASE ok
    <3>1. /\ r.committed = Totals(txs[id]).committed /\ r.verified = Totals(txs[id]).verified
          /\ r.executed = Totals(txs[id]).executed
      BY <1>4, <2>1
    <3>2. Accepted(txs[id], time) /\ r.ok
      BY <1>4, <1>22, <2>1
    <3> HIDE DEF s
    <3> QED BY <1>1, <3>1, <3>2, MinedAdvances
  <2>2. CASE ~ok
    <3>1. /\ r.committed = L1State.committed /\ r.verified = L1State.verified
          /\ r.executed = L1State.executed /\ ~r.ok
      BY <1>4, <2>2
    <3> HIDE DEF s
    <3> QED BY <1>1, <3>1, WaitingTx DEF Same
  <2> QED BY <2>1, <2>2
<1>5. /\ id \in DOMAIN txs /\ Earlier(id) \subseteq MinedBy(n) /\ id \notin MinedBy(n)
      /\ L1State = StateAt(n)
  BY <1>0, <1>1, WaitingTx DEF Waiting
<1>6. /\ n \in Nat /\ DOMAIN chain = 1 .. n /\ chain \in Seq(MinedTx)
      /\ \A k \in DOMAIN chain : chain[k].tx \in DOMAIN txs /\ chain[k].at \in 0 .. MaxTime
      /\ final \in 0 .. n /\ now \in 0 .. MaxTime /\ MaxTime \in Nat
  BY <1>0, ChainTypes DEF IInv
<1>23. /\ L1State.at \in 0 .. MaxTime /\ time \in 0 .. MaxTime /\ L1State.at <= time /\ time <= now
       /\ \A k \in 1 .. n : chain[k].at <= L1State.at
  <2>1. L1State.at \in 0 .. MaxTime
    BY <1>0, <1>5, <1>6 DEF StateAt, GenesisState
  <2>2. \A k \in 1 .. n : n \in DOMAIN chain /\ k <= n /\ L1State = chain[n]
    BY <1>5, <1>6 DEF StateAt
  <2>3. \A k \in 1 .. n : chain[k].at <= L1State.at
    BY <1>6, <2>2 DEF IInv, ChainOrder
  <2> QED BY <1>6, <2>1, <2>3 DEF BlockTimes
<1>7. r \in MinedTx
  BY <1>3, <1>5, <1>6, <1>23 DEF MinedTx
<1> HIDE DEF r, s
<1>8. /\ chain' \in Seq(MinedTx) /\ Len(chain') = n + 1 /\ DOMAIN chain' = 1 .. n + 1
      /\ chain'[n + 1] = r /\ \A k \in 1 .. n : chain'[k] = chain[k]
  BY <1>0, <1>2, <1>6, <1>7
<1>9. UNCHANGED <<commitTx, proveTx, executeTx, txs, confirmed>>
  BY <1>2 DEF dbVars
<1>10. SavedInOrder' /\ Columns' /\ Ranges' /\ \A i : Earlier(i)' = Earlier(i)
  BY <1>2, <1>9, DatabaseFrame
<1>11. TypeOK'
  <2>1. final \in 0 .. Len(chain') /\ MinedTx' = MinedTx
    BY <1>6, <1>8, <1>9 DEF MinedTx
  <2> QED BY <1>2, <1>8, <1>9, <2>1 DEF IInv, TypeOK, MinedTx, batchVars
<1>12. \A k \in 0 .. n : /\ StateAt(k)' = StateAt(k) /\ MinedBy(k)' = MinedBy(k)
                       /\ OkBy(k)' = OkBy(k)
  <2>1. \A k \in 0 .. n : 1 .. k \subseteq 1 .. n
    BY <1>6
  <2>2. \A k \in 0 .. n : OkBy(k)' = OkBy(k)
    <3> SUFFICES ASSUME NEW k \in 0 .. n PROVE OkBy(k)' = OkBy(k)
      OBVIOUS
    <3>1. {i \in 1 .. k : chain'[i].ok} = {i \in 1 .. k : chain[i].ok}
      BY <1>8, <2>1
    <3> QED BY <1>8, <2>1, <3>1 DEF OkBy
  <2> QED BY <1>6, <1>8, <2>1, <2>2 DEF StateAt, MinedBy
<1>13. StateAt(n + 1)' = r /\ \A i : i \in OkBy(n + 1)' <=> i \in OkBy(n) \/ (r.ok /\ i = id)
  <2>1. n + 1 # 0
    BY <1>6
  <2>2. \A i : i \in OkBy(n + 1)' <=> i \in OkBy(n) \/ (r.ok /\ i = id)
    <3>1. 1 .. n + 1 = (1 .. n) \cup {n + 1}
      BY <1>6
    <3> QED BY <1>4, <1>8, <3>1 DEF OkBy
  <2> QED BY <1>8, <2>1, <2>2 DEF StateAt
<1>14. Stages'
  BY <1>2, <1>9 DEF IInv, Stages, OldEnough, IsConfirmed, batchVars
<1>15. ChainOrder'
  <2>1. \A k \in 1 .. n : chain[k].tx # id
    BY <1>5 DEF MinedBy
  <2>2. \A j, k \in 1 .. n + 1 : chain'[j].tx = chain'[k].tx => j = k
    <3>1. chain'[n + 1].tx = id /\ \A k \in 1 .. n : chain'[k].tx = chain[k].tx /\ chain'[k].tx # id
      BY <1>4, <1>8, <2>1
    <3>2. \A j, k \in 1 .. n : chain'[j].tx = chain'[k].tx => j = k
      BY <1>6, <3>1 DEF IInv, ChainOrder
    <3>3. \A k \in 1 .. n + 1 : k \in 1 .. n \/ k = n + 1
      BY <1>6
    <3> QED BY <3>1, <3>2, <3>3
  <2>3. \A k \in 1 .. n + 1 : Earlier(chain[k].tx)' \subseteq MinedBy(k - 1)'
    <3> SUFFICES ASSUME NEW k \in 1 .. n + 1 PROVE Earlier(chain[k].tx)' \subseteq MinedBy(k - 1)'
      OBVIOUS
    <3>1. Earlier(chain[k].tx)' = Earlier(chain'[k].tx)
      BY <1>9 DEF Earlier, Sender
    <3>2. k - 1 \in 0 .. n /\ MinedBy(k - 1)' = MinedBy(k - 1)
      BY <1>6, <1>12
    <3>3. CASE k \in 1 .. n
      BY SMTT(30), <1>6, <1>8, <3>1, <3>2, <3>3 DEF IInv, ChainOrder
    <3>4. CASE k = n + 1
      <4>1. k - 1 = n
        BY <1>6, <3>4
      <4> QED BY <1>4, <1>5, <1>8, <3>1, <3>2, <3>4, <4>1
    <3> QED BY <1>6, <3>3, <3>4
  <2>4. \A k \in 1 .. n + 1 : chain'[k].at <= now
    BY <1>4, <1>6, <1>8, <1>23 DEF IInv, ChainOrder
  <2>5. \A j, k \in 1 .. n + 1 : j <= k => chain'[j].at <= chain'[k].at
    <3> SUFFICES ASSUME NEW j \in 1 .. n + 1, NEW k \in 1 .. n + 1, j <= k
                 PROVE  chain'[j].at <= chain'[k].at
      OBVIOUS
    <3>1. CASE k \in 1 .. n
      <4>1. j \in 1 .. n
        BY <3>1
      <4> QED BY <1>6, <1>8, <3>1, <4>1 DEF IInv, ChainOrder
    <3>2. CASE k = n + 1
      <4>1. CASE j = n + 1
        BY <1>4, <1>8, <1>23, <3>2, <4>1
      <4>2. CASE j # n + 1
        <5>1. j \in 1 .. n
          BY <1>6, <4>2
        <5> QED BY <1>4, <1>6, <1>8, <1>23, <3>2, <5>1
      <4> QED BY <4>1, <4>2
    <3> QED BY <3>1, <3>2
  <2> QED BY <1>2, <1>8, <2>2, <2>3, <2>4, <2>5 DEF ChainOrder
<1>16. ChainAdvances'
  <2>1. \A k \in 1 .. n + 1 : /\ chain'[k].ok => Advance(StateAt(k - 1)', chain'[k])
                              /\ ~chain'[k].ok => Same(StateAt(k - 1)', chain'[k])
    <3> SUFFICES ASSUME NEW k \in 1 .. n + 1
                 PROVE  /\ chain'[k].ok => Advance(StateAt(k - 1)', chain'[k])
                        /\ ~chain'[k].ok => Same(StateAt(k - 1)', chain'[k])
      OBVIOUS
    <3>1. k - 1 \in 0 .. n /\ StateAt(k - 1)' = StateAt(k - 1)
      BY <1>6, <1>12
    <3>2. CASE k \in 1 .. n
      BY <1>6, <1>8, <3>1, <3>2 DEF IInv, ChainAdvances
    <3>3. CASE k = n + 1
      <4>1. k - 1 = n
        BY <1>6, <3>3
      <4> QED BY <1>3, <1>4, <1>5, <1>8, <3>1, <3>3, <4>1
    <3> QED BY <1>6, <3>2, <3>3
  <2> QED BY <1>8, <2>1 DEF ChainAdvances, Advance, Same
<1>17. TotalsTellMined'
  <2>1. \A k \in 0 .. n + 1 : \A b \in Batches :
          /\ b <= StateAt(k)'.committed <=> commitTx[b] \in OkBy(k)'
          /\ b <= StateAt(k)'.verified <=> proveTx[b] \in OkBy(k)'
          /\ b <= StateAt(k)'.executed <=> executeTx[b] \in OkBy(k)'
    <3> SUFFICES ASSUME NEW k \in 0 .. n + 1, NEW b \in Batches
                 PROVE  /\ b <= StateAt(k)'.committed <=> commitTx[b] \in OkBy(k)'
                        /\ b <= StateAt(k)'.verified <=> proveTx[b] \in OkBy(k)'
                        /\ b <= StateAt(k)'.executed <=> executeTx[b] \in OkBy(k)'
      OBVIOUS
    <3>1. CASE k \in 0 .. n
      BY <1>0, <1>12, <3>1 DEF IInv, TotalsTellMined
    <3>2. CASE k = n + 1
      <4>1. n \in 0 .. n
        BY <1>6
      <4>2. /\ b <= L1State.committed <=> commitTx[b] \in OkBy(n)
            /\ b <= L1State.verified <=> proveTx[b] \in OkBy(n)
            /\ b <= L1State.executed <=> executeTx[b] \in OkBy(n)
        BY <1>0, <1>5, <4>1 DEF IInv, TotalsTellMined
      <4> QED BY <1>3, <1>13, <3>2, <4>2
    <3> QED BY <1>6, <3>1, <3>2
  <2> QED BY <1>8, <1>9, <2>1 DEF TotalsTellMined
<1>18. ConfirmedMined'
  <2>1. \A k \in 1 .. final : chain'[k] = chain[k]
    BY <1>6, <1>8
  <2> QED BY <1>2, <1>9, <2>1 DEF IInv, ConfirmedMined
<1>19. Stamped'
  <2>1. UNCHANGED <<sealed, stamps>> /\ now <= now' /\ now' \in Nat
    BY <1>2, <1>6 DEF batchVars
  <2> QED BY <2>1, StampsKept
<1>24. OnlyLateCommitsRevert'
  <2>1. UNCHANGED <<stamps, txs>>
    BY <1>2, <1>9 DEF batchVars
  <2> SUFFICES ASSUME NEW k \in 1 .. n + 1
               PROVE  chain'[k].ok \/ TooOld(k)' \/ \E j \in 1 .. k - 1 : ~chain'[j].ok
    BY <1>8 DEF OnlyLateCommitsRevert
  <2>2. CASE k \in 1 .. n
    <3>1. chain'[k] = chain[k] /\ (TooOld(k) => TooOld(k)')
      BY <1>8, <2>1, <2>2 DEF TooOld, StampOf
    <3>2. \A j \in 1 .. k - 1 : chain'[j] = chain[j]
      BY <1>6, <1>8, <2>2
    <3>3. chain[k].ok \/ TooOld(k) \/ \E j \in 1 .. k - 1 : ~chain[j].ok
      BY <1>6, <2>2 DEF IInv, OnlyLateCommitsRevert
    <3> QED BY <3>1, <3>2, <3>3
  <2>3. CASE k = n + 1
    <3>0. k - 1 = n
      BY <1>6, <2>3
    <3>1. CASE NothingReverted
      <4>1. CASE /\ txs[id].type = "Commit"
                 /\ time > StampOf(txs[id].first).batch + COMMIT_TIMESTAMP_NOT_OLDER
        <5>1. TooOld(k)'
          BY <1>4, <1>8, <2>1, <2>3, <4>1 DEF TooOld, StampOf
        <5> QED BY <5>1
      <4>2. CASE ~(/\ txs[id].type = "Commit"
                   /\ time > StampOf(txs[id].first).batch + COMMIT_TIMESTAMP_NOT_OLDER)
        <5>1. Accepted(txs[id], time)
          BY <1>1, <3>1, <4>2, WaitingIsAccepted
        <5> QED BY <1>4, <1>8, <1>22, <2>3, <5>1
      <4> QED BY <4>1, <4>2
    <3>2. CASE ~NothingReverted
      BY <1>6, <1>8, <3>0, <3>2 DEF NothingReverted
    <3> QED BY <3>1, <3>2
  <2> QED BY <1>6, <2>2, <2>3
<1> QED BY <1>10, <1>11, <1>14, <1>15, <1>16, <1>17, <1>18, <1>19, <1>24 DEF IInv

\* A block becomes final.
LEMMA FinalizeInv == IInv /\ Finalize => IInv'
<1> SUFFICES ASSUME IInv, Finalize PROVE IInv'
  OBVIOUS
<1>1. UNCHANGED <<dbVars, chain, now>> /\ UNCHANGED batchVars
  BY DEF Finalize
<1>2. UNCHANGED <<sealed, stamps, hashed, commitments, generating, proofs, commitTx, proveTx, executeTx, txs, confirmed>>
  BY <1>1 DEF dbVars, batchVars
<1>3. Len(chain) \in Nat /\ final \in 0 .. Len(chain) /\ final' \in 0 .. Len(chain) /\ final < final'
  BY ChainTypes DEF IInv, Finalize
<1>4. TypeOK'
  BY <1>1, <1>2, <1>3 DEF IInv, TypeOK
<1>5. SavedInOrder' /\ Columns' /\ Ranges'
  BY <1>1, <1>2, DatabaseFrame
<1>6. Stages'
  BY <1>1, <1>2 DEF IInv, Stages, OldEnough, IsConfirmed
<1>7. ChainOrder' /\ ChainAdvances'
  BY <1>1, <1>2 DEF IInv, ChainOrder, Earlier, Sender, MinedBy, ChainAdvances, Advance, Same, StateAt
<1>8. TotalsTellMined'
  <2>1. \A k \in 0 .. Len(chain) : StateAt(k)' = StateAt(k) /\ OkBy(k)' = OkBy(k)
    BY <1>1 DEF StateAt, OkBy
  <2> QED BY <1>1, <1>2, <2>1 DEF IInv, TotalsTellMined
<1>9. ConfirmedMined'
  <2>1. 1 .. final \subseteq 1 .. final'
    BY <1>3
  <2> QED BY <1>1, <1>2, <2>1 DEF IInv, ConfirmedMined
<1>10. Stamped' /\ OnlyLateCommitsRevert'
  <2>1. now <= now' /\ now' \in Nat
    BY <1>1, ChainTypes DEF IInv
  <2> QED BY <1>1, <1>2, <2>1, StampsKept, RevertsKept
<1> QED BY <1>4, <1>5, <1>6, <1>7, <1>8, <1>9, <1>10 DEF IInv

\* L1 loses blocks that are not final.
LEMMA ReorgInv == IInv /\ Reorg => IInv'
<1> SUFFICES ASSUME IInv, Reorg PROVE IInv'
  OBVIOUS
<1>1. UNCHANGED <<dbVars, final, now>> /\ UNCHANGED batchVars
  BY DEF Reorg
<1>2. UNCHANGED <<sealed, stamps, hashed, commitments, generating, proofs, commitTx, proveTx, executeTx, txs, confirmed>>
  BY <1>1 DEF dbVars, batchVars
<1>3. PICK n \in final .. Len(chain) - 1 : chain' = SubSeq(chain, 1, n)
  BY DEF Reorg
<1>4. /\ Len(chain) \in Nat /\ DOMAIN chain = 1 .. Len(chain) /\ chain \in Seq(MinedTx)
      /\ final \in 0 .. Len(chain) /\ n \in 0 .. Len(chain) /\ final <= n
  BY <1>3, ChainTypes DEF IInv
<1>5. /\ chain' \in Seq(MinedTx) /\ Len(chain') = n /\ DOMAIN chain' = 1 .. n
      /\ \A k \in 1 .. n : chain'[k] = chain[k]
  BY <1>3, <1>4
<1>6. 1 .. n \subseteq 1 .. Len(chain) /\ 0 .. n \subseteq 0 .. Len(chain)
  BY <1>4
<1>7. TypeOK'
  <2>1. final \in 0 .. Len(chain') /\ MinedTx' = MinedTx
    BY <1>2, <1>4, <1>5 DEF MinedTx
  <2> QED BY <1>1, <1>2, <1>5, <2>1 DEF IInv, TypeOK, MinedTx
<1>8. SavedInOrder' /\ Columns' /\ Ranges' /\ \A i : Earlier(i)' = Earlier(i)
  BY <1>1, <1>2, DatabaseFrame
<1>9. Stages'
  BY <1>1, <1>2 DEF IInv, Stages, OldEnough, IsConfirmed
<1>10. \A k \in 0 .. n : /\ StateAt(k)' = StateAt(k) /\ MinedBy(k)' = MinedBy(k)
                       /\ OkBy(k)' = OkBy(k)
  <2>1. \A k \in 0 .. n : 1 .. k \subseteq 1 .. n
    BY <1>4
  <2>2. \A k \in 0 .. n : OkBy(k)' = OkBy(k)
    <3> SUFFICES ASSUME NEW k \in 0 .. n PROVE OkBy(k)' = OkBy(k)
      OBVIOUS
    <3>1. {i \in 1 .. k : chain'[i].ok} = {i \in 1 .. k : chain[i].ok}
      BY <1>5, <2>1
    <3> QED BY <1>5, <2>1, <3>1 DEF OkBy
  <2> QED BY <1>4, <1>5, <2>1, <2>2 DEF StateAt, MinedBy
<1>11. \A k \in 1 .. n : k - 1 \in 0 .. n
  BY <1>4
<1>12. ChainOrder'
  <2>1. \A k \in 1 .. n : Earlier(chain[k].tx)' \subseteq MinedBy(k - 1)'
    <3> SUFFICES ASSUME NEW k \in 1 .. n PROVE Earlier(chain[k].tx)' \subseteq MinedBy(k - 1)'
      OBVIOUS
    <3>1. Earlier(chain[k].tx)' = Earlier(chain'[k].tx)
      BY <1>2 DEF Earlier, Sender
    <3>2. k \in DOMAIN chain /\ chain'[k] = chain[k]
      BY <1>4, <1>5, <1>6
    <3>3. Earlier(chain[k].tx) \subseteq MinedBy(k - 1)
      BY <3>2 DEF IInv, ChainOrder
    <3>4. MinedBy(k - 1)' = MinedBy(k - 1)
      BY <1>10, <1>11
    <3> QED BY <3>1, <3>2, <3>3, <3>4
  <2> QED BY <1>1, <1>4, <1>5, <1>6, <2>1 DEF IInv, ChainOrder
<1>13. ChainAdvances'
  <2>1. \A k \in 1 .. n : /\ chain'[k].ok => Advance(StateAt(k - 1)', chain'[k])
                          /\ ~chain'[k].ok => Same(StateAt(k - 1)', chain'[k])
    BY <1>4, <1>5, <1>6, <1>10, <1>11 DEF IInv, ChainAdvances
  <2> QED BY <1>5, <2>1 DEF ChainAdvances, Advance, Same
<1>14. TotalsTellMined'
  BY <1>2, <1>5, <1>6, <1>10 DEF IInv, TotalsTellMined
<1>15. ConfirmedMined'
  <2>1. \A k \in 1 .. final : chain'[k] = chain[k]
    BY <1>4, <1>5
  <2> QED BY <1>1, <1>2, <2>1 DEF IInv, ConfirmedMined
<1>16. Stamped'
  <2>1. now <= now' /\ now' \in Nat
    BY <1>1, ChainTypes DEF IInv
  <2> QED BY <1>2, <2>1, StampsKept
<1>17. OnlyLateCommitsRevert'
  <2> SUFFICES ASSUME NEW k \in 1 .. n
               PROVE  chain'[k].ok \/ TooOld(k)' \/ \E j \in 1 .. k - 1 : ~chain'[j].ok
    BY <1>5 DEF OnlyLateCommitsRevert
  <2>1. chain'[k] = chain[k] /\ (TooOld(k) => TooOld(k)')
    BY <1>2, <1>5 DEF TooOld, StampOf
  <2>2. \A j \in 1 .. k - 1 : chain'[j] = chain[j]
    BY <1>4, <1>5
  <2>3. chain[k].ok \/ TooOld(k) \/ \E j \in 1 .. k - 1 : ~chain[j].ok
    BY <1>4, <1>6 DEF IInv, OnlyLateCommitsRevert
  <2> QED BY <2>1, <2>2, <2>3
<1> QED BY <1>7, <1>8, <1>9, <1>12, <1>13, <1>14, <1>15, <1>16, <1>17 DEF IInv

\* What L1 keeps when neither it nor the transactions change.
LEMMA ChainFrame ==
    ASSUME IInv, UNCHANGED <<commitTx, proveTx, executeTx, txs, chain>>, now <= now', now' \in Nat
    PROVE  ChainOrder' /\ ChainAdvances' /\ TotalsTellMined'
<1>1. /\ DOMAIN chain = 1 .. Len(chain) /\ now \in 0 .. MaxTime /\ MaxTime \in Nat
      /\ \A k \in DOMAIN chain : chain[k].at \in 0 .. MaxTime
  BY ChainTypes DEF IInv
<1>2. \A i : Earlier(i)' = Earlier(i)
  BY DEF Earlier, Sender
<1>3. \A k : StateAt(k)' = StateAt(k) /\ MinedBy(k)' = MinedBy(k) /\ OkBy(k)' = OkBy(k)
  BY DEF StateAt, MinedBy, OkBy
<1>4. \A k \in DOMAIN chain : chain[k].at <= now'
  BY <1>1 DEF IInv, ChainOrder
<1>5. \A k \in DOMAIN chain : Earlier(chain[k].tx)' \subseteq MinedBy(k - 1)'
  BY <1>2, <1>3 DEF IInv, ChainOrder
<1>6. ChainOrder'
  BY <1>4, <1>5 DEF IInv, ChainOrder
<1>7. ChainAdvances'
  BY <1>3 DEF IInv, ChainAdvances, Advance, Same
<1>8. TotalsTellMined'
  BY <1>3 DEF IInv, TotalsTellMined
<1> QED BY <1>6, <1>7, <1>8

\* The transaction manager confirms a transaction.
LEMMA ConfirmTxInv == ASSUME NEW id \in TxIds, IInv, confirm_tx(id) PROVE IInv'
<1>1. UNCHANGED <<commitTx, proveTx, executeTx, txs, chain, final, now>> /\ UNCHANGED batchVars
  BY DEF confirm_tx
<1>2. UNCHANGED <<sealed, stamps, hashed, commitments, generating, proofs>>
  BY <1>1 DEF batchVars
<1>3. /\ Len(chain) \in Nat /\ DOMAIN chain = 1 .. Len(chain) /\ now \in 0 .. MaxTime /\ MaxTime \in Nat
      /\ final \in 0 .. Len(chain)
  BY ChainTypes DEF IInv
<1>4. confirmed \in [TxIds -> {NotYet} \cup 0 .. MaxTime]
  BY DEF IInv, TypeOK
<1>5. confirmed' = [confirmed EXCEPT ![id] = now] /\ ~IsConfirmed(id)
  BY DEF confirm_tx
<1>6. /\ confirmed'[id] = now /\ \A i \in TxIds : i # id => confirmed'[i] = confirmed[i]
      /\ confirmed' \in [TxIds -> {NotYet} \cup 0 .. MaxTime]
  BY <1>3, <1>4, <1>5
<1>7. id # NoTx /\ now # NotYet /\ confirmed[id] = NotYet
  BY <1>3, <1>5 DEF TxIds, NoTx, NotYet, IsConfirmed
<1>8. TypeOK'
  BY <1>1, <1>2, <1>6 DEF IInv, TypeOK
<1>9. SavedInOrder' /\ Columns' /\ Ranges'
  BY <1>1, DatabaseFrame
<1>10. Stages'
  <2>1. \A b \in Batches : commitTx[b] = NoTx \/ commitTx[b] \in TxIds
    <3>1. \A b \in Batches : commitTx[b] = NoTx \/ commitTx[b] \in DOMAIN txs
      BY ColumnTypes DEF IInv, NoTx
    <3> QED BY <3>1, TxIdsSuffice DEF IInv
  <2>2. \A b \in Batches : IsConfirmed(commitTx[b]) => commitTx[b] # id /\ IsConfirmed(commitTx[b])'
    BY <1>1, <1>6, <1>7, <2>1 DEF IsConfirmed
  <2>3. \A b \in Batches : OldEnough(b) => OldEnough(b)'
    BY <1>1, <1>6, <2>1, <2>2 DEF OldEnough, IsConfirmed
  <2> QED BY <1>1, <1>2, <2>2, <2>3 DEF IInv, Stages
<1>11. ChainOrder' /\ ChainAdvances' /\ TotalsTellMined'
  <2>1. now <= now' /\ now' \in Nat
    BY <1>1, <1>3
  <2> QED BY <1>1, <2>1, ChainFrame
<1>12. ConfirmedMined'
  <2>1. PICK k \in 1 .. final : chain[k].tx = id /\ chain[k].ok
    BY DEF confirm_tx
  <2>2. k \in DOMAIN chain /\ chain[k].at <= now
    <3>1. k \in DOMAIN chain
      BY <1>3, <2>1
    <3> QED BY <3>1 DEF IInv, ChainOrder
  <2>3. /\ confirmed'[id] <= now
        /\ \E j \in 1 .. final : chain[j].tx = id /\ chain[j].ok /\ chain[j].at <= confirmed'[id]
    BY <1>3, <1>6, <2>1, <2>2
  <2>4. ASSUME NEW i \in TxIds, i # id, confirmed'[i] # NotYet
        PROVE  /\ confirmed'[i] <= now
               /\ \E j \in 1 .. final : chain[j].tx = i /\ chain[j].ok /\ chain[j].at <= confirmed'[i]
    BY <1>6, <2>4 DEF IInv, ConfirmedMined
  <2> QED BY <1>1, <2>3, <2>4 DEF ConfirmedMined
<1>13. Stamped' /\ OnlyLateCommitsRevert'
  <2>1. now <= now' /\ now' \in Nat
    BY <1>1, <1>3
  <2> QED BY <1>1, <1>2, <2>1, StampsKept, RevertsKept
<1> QED BY <1>8, <1>9, <1>10, <1>11, <1>12, <1>13 DEF IInv

\* Time passes.
LEMMA TickInv == IInv /\ Tick => IInv'
<1> SUFFICES ASSUME IInv, Tick PROVE IInv'
  OBVIOUS
<1>1. UNCHANGED <<commitTx, proveTx, executeTx, txs, confirmed, chain, final>> /\ UNCHANGED batchVars
  BY DEF Tick, dbVars
<1>2. UNCHANGED <<sealed, stamps, hashed, commitments, generating, proofs>>
  BY <1>1 DEF batchVars
<1>3. now \in 0 .. MaxTime /\ MaxTime \in Nat /\ now' = now + 1 /\ now' \in 0 .. MaxTime
  BY ChainTypes DEF IInv, Tick
<1>4. TypeOK'
  BY <1>1, <1>2, <1>3 DEF IInv, TypeOK
<1>5. SavedInOrder' /\ Columns' /\ Ranges'
  BY <1>1, DatabaseFrame
<1>6. \A i \in TxIds : confirmed[i] \in Int
  <2>1. confirmed \in [TxIds -> {NotYet} \cup 0 .. MaxTime]
    BY DEF IInv, TypeOK
  <2> QED BY <1>3, <2>1 DEF NotYet
<1>7. Stages'
  <2>1. \A b \in Batches : commitTx[b] = NoTx \/ commitTx[b] \in TxIds
    <3>1. \A b \in Batches : commitTx[b] = NoTx \/ commitTx[b] \in DOMAIN txs
      BY ColumnTypes DEF IInv, NoTx
    <3> QED BY <3>1, TxIdsSuffice DEF IInv
  <2>2. \A b \in Batches : IsConfirmed(commitTx[b])' = IsConfirmed(commitTx[b])
    BY <1>1 DEF IsConfirmed
  <2>3. MinAge \in Nat
    BY PipelineAssumption
  <2>4. \A b \in Batches : OldEnough(b) => OldEnough(b)'
    <3> SUFFICES ASSUME NEW b \in Batches, OldEnough(b) PROVE OldEnough(b)'
      OBVIOUS
    <3>1. commitTx[b] \in TxIds /\ confirmed[commitTx[b]] <= now - MinAge
      BY <2>1 DEF OldEnough, IsConfirmed
    <3>2. confirmed[commitTx[b]] \in Int
      BY <1>6, <3>1
    <3>3. confirmed[commitTx[b]] <= now' - MinAge
      BY <1>3, <2>3, <3>1, <3>2
    <3> QED BY <1>1, <2>2, <3>3 DEF OldEnough
  <2> QED BY <1>1, <1>2, <2>2, <2>4 DEF IInv, Stages
<1>8. ChainOrder' /\ ChainAdvances' /\ TotalsTellMined'
  <2>1. now <= now' /\ now' \in Nat
    BY <1>3
  <2> QED BY <1>1, <2>1, ChainFrame
<1>9. ConfirmedMined'
  <2>1. \A i \in TxIds : confirmed[i] <= now => confirmed[i] <= now'
    BY <1>3, <1>6
  <2> QED BY <1>1, <2>1 DEF IInv, ConfirmedMined
<1>10. Stamped' /\ OnlyLateCommitsRevert'
  <2>1. now <= now' /\ now' \in Nat
    BY <1>3
  <2> QED BY <1>1, <1>2, <2>1, StampsKept, RevertsKept
<1> QED BY <1>4, <1>5, <1>7, <1>8, <1>9, <1>10 DEF IInv

\* Nothing happens.
LEMMA StutterInv == IInv /\ UNCHANGED vars => IInv'
<1> SUFFICES ASSUME IInv, UNCHANGED vars PROVE IInv'
  OBVIOUS
<1>1. UNCHANGED <<dbVars, chain, final, now>> /\ UNCHANGED batchVars
  BY DEF vars, dbVars, batchVars
<1>2. UNCHANGED <<sealed, stamps, hashed, commitments, generating, proofs, commitTx, proveTx, executeTx, txs,
                  confirmed, chain, final, now>>
  BY DEF vars
<1>3. TypeOK' /\ SavedInOrder'
  BY <1>2 DEF IInv, TypeOK, SavedInOrder
<1>4. Stamped' /\ OnlyLateCommitsRevert'
  <2>1. now <= now' /\ now' \in Nat
    BY <1>2, ChainTypes DEF IInv
  <2> QED BY <1>2, <2>1, StampsKept, RevertsKept
<1> QED BY <1>1, <1>2, <1>3, <1>4, BatchFrame DEF IInv

-----------------------------------------------------------------------------
\* The invariant holds of every reachable state.
THEOREM PipelineInvariant == Spec => []IInv
<1>1. Init => IInv
  BY InitInv
<1>2. IInv /\ [Next]_vars => IInv'
  <2> SUFFICES ASSUME IInv, [Next]_vars PROVE IInv'
    OBVIOUS
  <2>1. CASE BatchStep
    BY <2>1, BatchStepInv
  <2>2. CASE Aggregate
    BY <2>2, AggregateExecuteInv, AggregateProofInv, AggregateCommitInv DEF Aggregate
  <2>3. ASSUME NEW id \in TxIds, MineTx(id) PROVE IInv'
    BY <2>3, MineTxInv
  <2>4. ASSUME NEW id \in TxIds, confirm_tx(id) PROVE IInv'
    BY <2>4, ConfirmTxInv
  <2>5. CASE Finalize
    BY <2>5, FinalizeInv
  <2>6. CASE Reorg
    BY <2>6, ReorgInv
  <2>7. CASE Tick
    BY <2>7, TickInv
  <2>8. CASE AllDone \/ UNCHANGED vars
    BY <2>8, StutterInv DEF AllDone
  <2> QED BY <2>1, <2>2, <2>3, <2>4, <2>5, <2>6, <2>7, <2>8 DEF Next, BatchStep
<1> QED BY <1>1, <1>2, PTL DEF Spec

\* The variables of the pipeline keep their types: an eth_*_tx_id column only names
\* transactions that were saved.
THEOREM PipelineTypes == Spec => []TypeOK
<1>1. IInv => TypeOK
  BY DEF IInv
<1> QED BY <1>1, PipelineInvariant, PTL

\* Whatever order the operators' transactions are mined in, however block.timestamp
\* lags within its bound and whatever L1 reorganises, the first call of
\* commitBatches, proveBatches or executeBatches to revert, if any does, is the commit
\* of a batch older than COMMIT_TIMESTAMP_NOT_OLDER: fail_tx panics for no other one.
THEOREM OnlyLateCommitsFail == Spec => []OnlyLateCommitsRevert
<1>1. IInv => OnlyLateCommitsRevert
  BY DEF IInv
<1> QED BY <1>1, PipelineInvariant, PTL

\* No batch is skipped, overtaken or taken twice by the aggregator's queries: each
\* stage is a prefix of the one before, in transactions that come later.
THEOREM StagesAreNested == Spec => []StagesNested
<1>1. IInv => StagesNested
  <2> SUFFICES ASSUME IInv, NEW b \in Batches
               PROVE  /\ b > 1 => /\ commitTx[b] # NoTx => commitTx[b - 1] \in 1 .. commitTx[b]
                                  /\ proveTx[b] # NoTx => proveTx[b - 1] \in 1 .. proveTx[b]
                                  /\ executeTx[b] # NoTx => executeTx[b - 1] \in 1 .. executeTx[b]
                      /\ proveTx[b] # NoTx => commitTx[b] \in 1 .. proveTx[b] - 1
                      /\ executeTx[b] # NoTx => proveTx[b] \in 1 .. executeTx[b] - 1
    BY DEF StagesNested
  <2>1. /\ \A c \in Batches : commitTx[c] \in Nat /\ proveTx[c] \in Nat /\ executeTx[c] \in Nat
        /\ MaxBatches \in Nat
    BY ColumnTypes DEF IInv
  <2>2. b > 1 => b - 1 \in Batches /\ b - 1 < b
    BY <2>1 DEF Batches
  <2>3. b > 1 => /\ commitTx[b] # NoTx => commitTx[b - 1] # NoTx /\ commitTx[b - 1] <= commitTx[b]
                 /\ proveTx[b] # NoTx => proveTx[b - 1] # NoTx /\ proveTx[b - 1] <= proveTx[b]
                 /\ executeTx[b] # NoTx => executeTx[b - 1] # NoTx /\ executeTx[b - 1] <= executeTx[b]
    BY <2>2 DEF IInv, Columns, Column
  <2>4. /\ proveTx[b] # NoTx => commitTx[b] # NoTx /\ commitTx[b] < proveTx[b]
        /\ executeTx[b] # NoTx => proveTx[b] # NoTx /\ proveTx[b] < executeTx[b]
    BY DEF IInv, Stages
  <2> QED BY <2>1, <2>2, <2>3, <2>4 DEF NoTx
<1> QED BY <1>1, PipelineInvariant, PTL

\* A batch whose transaction confirm_tx has marked confirmed is in the contracts'
\* totals in the finalized part of L1, so no reorganisation takes it back.
THEOREM ConfirmedBatchesAreFinal == Spec => []ConfirmedIsFinal
<1>1. IInv => ConfirmedIsFinal
  <2> SUFFICES ASSUME IInv PROVE ConfirmedIsFinal
    OBVIOUS
  <2>1. final \in 0 .. Len(chain)
    BY ChainTypes DEF IInv
  <2>2. ASSUME NEW id \in 0 .. Len(txs), IsConfirmed(id) PROVE id \in OkBy(final)
    <3>1. id \in TxIds /\ confirmed[id] # NotYet
      <4>1. id \in DOMAIN txs
        BY <2>2, ColumnTypes DEF IInv, IsConfirmed, NoTx
      <4> QED BY <2>2, <4>1, TxIdsSuffice DEF IInv, IsConfirmed
    <3> QED BY <3>1 DEF IInv, ConfirmedMined, OkBy
  <2>3. \A b \in Batches : /\ commitTx[b] \in 0 .. Len(txs) /\ proveTx[b] \in 0 .. Len(txs)
                           /\ executeTx[b] \in 0 .. Len(txs)
    BY ColumnTypes DEF IInv
  <2> QED BY <2>1, <2>2, <2>3 DEF IInv, TotalsTellMined, ConfirmedIsFinal
<1> QED BY <1>1, PipelineInvariant, PTL

\* The finalized part of L1 implements the life cycle the rollup promises: batches
\* are committed, proven and executed in order and nothing is undone.  A block that
\* becomes final is one step of it, or none if its call reverted; everything else
\* is none.
THEOREM PipelineImplementsFinality == Spec => FinalityRefined
<1> DEFINE s == StateAt(final)
<1>1. Init => Finality!Init
  BY DEF Init, Finality!Init, StateAt, GenesisState
<1>2. IInv /\ [Next]_vars => [Finality!Next]_<<s.committed, s.verified, s.executed>>
  <2> SUFFICES ASSUME IInv, [Next]_vars
               PROVE  [Finality!Next]_<<s.committed, s.verified, s.executed>>
    OBVIOUS
  <2>1. final \in 0 .. Len(chain) /\ Len(chain) \in Nat /\ DOMAIN chain = 1 .. Len(chain)
        /\ chain \in Seq(MinedTx)
    BY ChainTypes DEF IInv
  <2>2. CASE UNCHANGED <<chain, final>>
    <3>1. s' = s
      BY <2>2 DEF StateAt
    <3> QED BY <3>1
  <2>3. CASE \E id \in TxIds : MineTx(id)
    <3>1. PICK r : chain' = Append(chain, r) /\ final' = final
      BY <2>3 DEF MineTx
    <3>2. s' = s
      BY <2>1, <3>1 DEF StateAt
    <3> QED BY <3>2
  <2>4. CASE Reorg
    <3>1. PICK n \in final .. Len(chain) - 1 : chain' = SubSeq(chain, 1, n) /\ final' = final
      BY <2>4 DEF Reorg
    <3>2. s' = s
      BY <2>1, <3>1 DEF StateAt
    <3> QED BY <3>2
  <2>5. CASE Finalize
    <3>1. final' = final + 1 /\ chain' = chain /\ final + 1 \in DOMAIN chain /\ final + 1 # 0
      BY <2>1, <2>5 DEF Finalize
    <3>2. s' = chain[final + 1]
      BY <3>1 DEF StateAt
    <3>3. Advance(s, chain[final + 1]) \/ Same(s, chain[final + 1])
      <4>1. (final + 1) - 1 = final
        BY <2>1
      <4> QED BY <3>1, <4>1 DEF IInv, ChainAdvances
    <3>4. CASE Advance(s, s')
      <4> HIDE DEF s
      <4> QED BY <3>4 DEF Advance, Finality!Next, Finality!Commit, Finality!Prove, Finality!Execute, s
    <3>5. CASE Same(s, s')
      BY <3>5 DEF Same
    <3> QED BY <3>2, <3>3, <3>4, <3>5
  <2>6. CASE BatchStep \/ Aggregate \/ Tick \/ AllDone \/ UNCHANGED vars \/ \E id \in TxIds : confirm_tx(id)
    <3>1. UNCHANGED <<chain, final>>
      BY <2>6 DEF BatchStep, Aggregate, Tick, AllDone, vars, confirm_tx, Seal, SaveTreeHash,
           GenerateCommitments, GeneratorRestarts, save_l1_batch_commitment_artifacts, ProofReady,
           AggregateExecute, AggregateProof, AggregateCommit, save_eth_tx
    <3> QED BY <2>2, <3>1
  <2> QED BY <2>3, <2>4, <2>5, <2>6 DEF Next, BatchStep
<1>3. Spec => [][Finality!Next]_<<s.committed, s.verified, s.executed>>
  BY <1>2, PipelineInvariant, PTL DEF Spec
<1> QED BY <1>1, <1>3, PTL DEF Spec, FinalityRefined, Finality!Spec
=============================================================================
