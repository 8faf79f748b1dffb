------------------------- MODULE ProofPipelineProofs -------------------------
(***************************************************************************)
(* Proofs about ProofPipeline for any batches, circuit types, arity, depth *)
(* of aggregation, workers, queue size and attempts, and any number of     *)
(* crashes, lost answers and early timeouts.                               *)
(*                                                                         *)
(* The argument: a proof that was found stays found or is archived, a job  *)
(* is queued only after its inputs were found, and every row was inserted  *)
(* by a job that finished in the same step; witness and compressor rows    *)
(* are never archived, so the rows above tell of the ones below.           *)
(***************************************************************************)
EXTENDS ProofPipeline, NatSetLemmas

\* The job that inserted j has finished.
Produced(j) ==
    /\ j[1] = "prover" /\ j[2] = 1 => Successful(LeafJob(j[3], j[4]))
    /\ j[1] = "prover" /\ j[2] = 2 => Successful(NodeJob(j[3], j[4], j[5] - 1))
    /\ j[1] = "prover" /\ j[2] = 3 => Successful(TipJob(j[3]))
    /\ j[1] = "prover" /\ j[2] = 4 => Successful(SchedJob(j[3]))
    /\ j[1] = "wg" /\ j[2] = 2 /\ j[5] # 0 => Successful(NodeJob(j[3], j[4], j[5] - 1))
    /\ j[1] = "compressor" => Successful(SchedJob(j[3])) /\ Done(ProverJob(4, j[3], 0, 0, 1))

Started(j) == j \in DOMAIN rows /\ rows[j].st # "waiting_for_proofs"

\* How many proofs a node job waits for, once it is known.
Awaits(j, dep) ==
    j[1] = "wg" /\ j[2] = 2 => \/ dep = Width(j[4], j[5])
                               \/ j[5] = 0 /\ dep = 0

TreeInv ==
    /\ \A j \in DOMAIN rows : Known(j) /\ Produced(j) /\ Awaits(j, rows[j].dep)
    /\ \A j \in archived : Known(j) /\ j[1] = "prover" /\ Produced(j)
    /\ \A j \in DOMAIN rows : j[1] = "wg" /\ Started(j) => \A p \in InputProofs(j) : Done(p)

\* Only aggregation jobs wait; one that waits was not tried, one that is queued may be.
Attempts ==
    \A j \in DOMAIN rows :
        /\ rows[j].st = "waiting_for_proofs" => j[1] = "wg" /\ rows[j].att = 0
        /\ rows[j].st = "queued" => rows[j].att < MaxAttempts

\* What the workers and the prover hold are known jobs that were handed out.
InHand ==
    /\ \A w \in Workers : hold[w].job # NoJob =>
        Known(hold[w].job) /\ (hold[w].job[1] # "prover" => Started(hold[w].job))
    /\ \A i \in DOMAIN gpu.queue : gpu.queue[i][1] = "prover"

\* The core calls a batch generated only when its compressed proof was there.
Submitted ==
    /\ \A b \in Batches : pgd[b].st = "generated" => CompJob(b) \in DOMAIN rows
    /\ sent # 0 => CompJob(sent) \in DOMAIN rows

Row == [st : Statuses, att : 0 .. MaxAttempts, dep : Nat]
Details == [st : {"none", "unpicked", "picked_by_prover", "generated"},
            vm : BOOLEAN, paths : BOOLEAN, meta : BOOLEAN]
RowTypes == \A j \in DOMAIN rows : rows[j] \in Row
CoreTypes == pgd \in [Batches -> Details] /\ fetched \in Batches \cup {0} /\ sent \in Batches \cup {0}
WorkTypes ==
    /\ hold \in [Workers -> [job : Job, pos : Nat]]
    /\ gpu \in [st : {"available", "reserved", "full", "dead"}, queue : Seq(Job)]
    /\ Len(gpu.queue) <= QueueSize
FaultTypes == faults \in 0 .. MaxFaults
Types == RowTypes /\ CoreTypes /\ WorkTypes /\ FaultTypes

IInv == Types /\ TreeInv /\ Attempts /\ InHand /\ Submitted

-----------------------------------------------------------------------------
(* The width of the tree.                                                  *)

\* The constants.
LEMMA ConstantTypes ==
    /\ \A b \in Batches : b \in Nat /\ b # 0
    /\ \A c \in Circuits : c \in Nat /\ c # 0 /\ Basics[c] \in Nat /\ Basics[c] >= 1
    /\ MaxDepth \in Nat /\ MaxDepth >= 1 /\ MaxAttempts \in Nat /\ MaxAttempts >= 1 /\ MaxFaults \in Nat
    /\ QueueSize \in Nat /\ QueueSize >= 1
  BY ProofAssumption

\* Rounding up leaves at least one, and one stays one.
LEMMA CeilArityTypes ==
    ASSUME NEW n \in Nat, n >= 1
    PROVE  CeilArity(n) \in Nat /\ CeilArity(n) >= 1 /\ (n = 1 => CeilArity(n) = 1)
<1>1. Arity \in Nat /\ Arity >= 2
  BY ProofAssumption
<1>2. CeilArity(n) \in Nat /\ CeilArity(n) >= 1
  BY <1>1 DEF CeilArity
<1>3. CeilArity(1) = 1
  BY <1>1 DEF CeilArity
<1> QED BY <1>2, <1>3

\* The recursive definition defines something: built up depth by depth.
LEMMA WidthsUnfold ==
    Widths = [d \in 0 .. MaxDepth |->
                [c \in Circuits |-> CeilArity(IF d = 0 THEN Basics[c] ELSE Widths[d - 1][c])]]
<1> DEFINE Sol(n, f) == f = [d \in 0 .. n |->
                [c \in Circuits |-> CeilArity(IF d = 0 THEN Basics[c] ELSE f[d - 1][c])]]
           S == {n \in Nat : \E f : Sol(n, f)}
<1>1. 0 \in S
  <2> DEFINE f == [d \in 0 .. 0 |-> [c \in Circuits |-> CeilArity(Basics[c])]]
  <2>1. f = [d \in 0 .. 0 |-> [c \in Circuits |-> CeilArity(IF d = 0 THEN Basics[c] ELSE f[d - 1][c])]]
    OBVIOUS
  <2>2. Sol(0, f)
    BY <2>1
  <2> HIDE DEF f, Sol
  <2> QED BY <2>2
<1>2. ASSUME NEW n \in S PROVE n + 1 \in S
  <2>1. PICK f : Sol(n, f)
    OBVIOUS
  <2> DEFINE g == [d \in 0 .. n + 1 |-> IF d <= n THEN f[d] ELSE [c \in Circuits |-> CeilArity(f[n][c])]]
             h == [d \in 0 .. n + 1 |->
                     [c \in Circuits |-> CeilArity(IF d = 0 THEN Basics[c] ELSE g[d - 1][c])]]
  <2>2. n \in Nat
    OBVIOUS
  <2>3. \A d \in 0 .. n : g[d] = f[d]
    BY <2>2
  <2>4. ASSUME NEW d \in 0 .. n + 1 PROVE g[d] = h[d]
    <3>1. CASE d = 0
      <4>1. f[d] = [c \in Circuits |-> CeilArity(Basics[c])]
        BY <2>1, <2>2, <3>1
      <4> QED BY <2>2, <3>1, <4>1
    <3>2. CASE d # 0 /\ d <= n
      <4>1. d \in 0 .. n /\ d - 1 \in 0 .. n
        BY <2>2, <3>2
      <4>2. f[d] = [c \in Circuits |-> CeilArity(f[d - 1][c])]
        BY <2>1, <3>2, <4>1
      <4>3. g[d - 1] = f[d - 1] /\ g[d] = f[d]
        BY <2>3, <4>1
      <4> HIDE DEF g
      <4> QED BY <3>2, <4>2, <4>3
    <3>3. CASE d = n + 1
      <4>1. g[d] = [c \in Circuits |-> CeilArity(f[n][c])] /\ d # 0 /\ d - 1 = n
        BY <2>2, <3>3
      <4>2. g[d - 1] = f[n]
        BY <2>2, <2>3, <4>1
      <4> HIDE DEF g
      <4> QED BY <4>1, <4>2
    <3> QED BY <2>2, <3>1, <3>2, <3>3
  <2>5. g = h
    <3>1. g = [d \in 0 .. n + 1 |-> g[d]] /\ h = [d \in 0 .. n + 1 |-> h[d]]
      OBVIOUS
    <3> HIDE DEF g, h
    <3> QED BY <2>4, <3>1
  <2>6. Sol(n + 1, g)
    <3> HIDE DEF g
    <3> QED BY <2>5
  <2> HIDE DEF g, Sol
  <2> QED BY <2>2, <2>6
<1>3. S = Nat
  <2>1. S \in SUBSET Nat
    OBVIOUS
  <2> HIDE DEF S
  <2> QED BY <1>1, <1>2, <2>1, NatSetInduction
<1>4. \E f : Sol(MaxDepth, f)
  BY <1>3, ConstantTypes
<1> QED BY <1>4 DEF Widths

\* Widths are positive and end at one.
LEMMA WidthTypes ==
    ASSUME NEW c \in Circuits
    PROVE  /\ \A d \in 0 .. MaxDepth : Width(c, d) \in Nat /\ Width(c, d) >= 1
           /\ \A d \in 0 .. MaxDepth - 1 : Width(c, d + 1) = CeilArity(Width(c, d))
           /\ Width(c, MaxDepth) = 1
<1>1. Width(c, 0) = CeilArity(Basics[c])
  BY WidthsUnfold, ConstantTypes DEF Width
<1>2. ASSUME NEW d \in 0 .. MaxDepth - 1 PROVE Width(c, d + 1) = CeilArity(Width(c, d))
  <2>1. d + 1 \in 0 .. MaxDepth /\ d + 1 # 0 /\ (d + 1) - 1 = d
    BY ConstantTypes
  <2>2. Widths[d + 1] = [x \in Circuits |-> CeilArity(Widths[d][x])]
    BY <2>1, WidthsUnfold
  <2> QED BY <2>2 DEF Width
<1> DEFINE S == {d \in Nat : d <= MaxDepth => Width(c, d) \in Nat /\ Width(c, d) >= 1}
<1>3. 0 \in S
  BY <1>1, CeilArityTypes, ConstantTypes
<1>4. ASSUME NEW d \in S PROVE d + 1 \in S
  <2> SUFFICES ASSUME d + 1 <= MaxDepth PROVE Width(c, d + 1) \in Nat /\ Width(c, d + 1) >= 1
    OBVIOUS
  <2>1. d \in 0 .. MaxDepth - 1 /\ d <= MaxDepth
    BY ConstantTypes
  <2> QED BY <1>2, <2>1, CeilArityTypes
<1>5. S = Nat
  <2>1. S \in SUBSET Nat
    OBVIOUS
  <2> HIDE DEF S
  <2> QED BY <1>3, <1>4, <2>1, NatSetInduction
<1>6. \A d \in 0 .. MaxDepth : d \in S /\ d <= MaxDepth
  BY <1>5, ConstantTypes
<1> QED BY <1>2, <1>6, ProofAssumption

\* A width of one stays one: node jobs are at the depths below the final one.
LEMMA WidthShrinks ==
    ASSUME NEW c \in Circuits, NEW d \in 0 .. MaxDepth, NEW e \in 0 .. MaxDepth, d <= e, Width(c, e) > 1
    PROVE  Width(c, d) > 1
<1> SUFFICES ASSUME ~(Width(c, d) > 1) PROVE FALSE
  OBVIOUS
<1>1. Width(c, d) = 1
  BY WidthTypes
<1> DEFINE S == {n \in Nat : d + n <= MaxDepth => Width(c, d + n) = 1}
<1>2. 0 \in S
  BY <1>1
<1>3. ASSUME NEW n \in S PROVE n + 1 \in S
  <2> SUFFICES ASSUME d + (n + 1) <= MaxDepth PROVE Width(c, d + (n + 1)) = 1
    OBVIOUS
  <2>1. d + n \in 0 .. MaxDepth - 1 /\ d + n <= MaxDepth /\ d + (n + 1) = (d + n) + 1
    BY ConstantTypes
  <2>2. Width(c, d + n) = 1
    BY <2>1
  <2> QED BY <2>1, <2>2, WidthTypes, CeilArityTypes
<1>4. S = Nat
  <2>1. S \in SUBSET Nat
    OBVIOUS
  <2> HIDE DEF S
  <2> QED BY <1>2, <1>3, <2>1, NatSetInduction
<1>5. e - d \in S /\ d + (e - d) = e /\ e <= MaxDepth
  <2>1. e - d \in Nat /\ d + (e - d) = e /\ e <= MaxDepth
    BY ConstantTypes
  <2> QED BY <1>4, <2>1
<1>6. Width(c, e) = 1
  BY <1>5
<1> QED BY <1>6

\* The final depth is the one depth with a single proof that a node job leads to.
LEMMA FinalDepthUnique ==
    ASSUME NEW c \in Circuits
    PROVE  /\ FinalDepth(c) \in 1 .. MaxDepth /\ Width(c, FinalDepth(c)) = 1
           /\ NodeDepth(c, FinalDepth(c) - 1)
           /\ \A d \in 1 .. MaxDepth : Width(c, d) = 1 /\ NodeDepth(c, d - 1) => d = FinalDepth(c)
           /\ \A d \in 0 .. MaxDepth : NodeDepth(c, d) => d <= FinalDepth(c) - 1
<1> DEFINE P(d) == Width(c, d) = 1 /\ \A e \in 1 .. d - 1 : Width(c, e) > 1
           T == {d \in 1 .. MaxDepth : Width(c, d) = 1}
           m == FinalDepth(c)
<1>1. \A d \in 0 .. MaxDepth : Width(c, d) \in Nat /\ Width(c, d) >= 1
  BY WidthTypes
<1>2. PICK x \in T : \A y \in T : x <= y
  <2>1. T \in SUBSET Nat /\ MaxDepth \in T
    BY ConstantTypes, WidthTypes
  <2> HIDE DEF T
  <2> QED BY <2>1, NatMin
<1>3. x \in 1 .. MaxDepth /\ P(x)
  <2>1. \A e \in 1 .. x - 1 : e \in 1 .. MaxDepth /\ e \in 0 .. MaxDepth /\ ~(x <= e)
    BY ConstantTypes
  <2> QED BY <1>1, <1>2, <2>1
<1>4. m \in 1 .. MaxDepth /\ P(m)
  BY <1>3 DEF FinalDepth
<1> HIDE DEF m
<1>5. NodeDepth(c, m - 1)
  <2>1. m - 1 = 0 \/ m - 1 \in 1 .. m - 1
    BY <1>4, ConstantTypes
  <2> QED BY <1>4, <2>1 DEF NodeDepth
<1>6. ASSUME NEW d \in 1 .. MaxDepth, NodeDepth(c, d - 1) PROVE d <= m
  <2> SUFFICES ASSUME m < d PROVE FALSE
    BY <1>4, ConstantTypes
  <2>1. d - 1 # 0 /\ m \in 0 .. MaxDepth /\ d - 1 \in 0 .. MaxDepth /\ m <= d - 1
    BY <1>4, ConstantTypes
  <2>2. Width(c, d - 1) > 1
    BY <1>6, <2>1 DEF NodeDepth
  <2>3. Width(c, m) > 1
    BY <2>1, <2>2, WidthShrinks
  <2> QED BY <1>4, <2>3
<1>7. ASSUME NEW d \in 1 .. MaxDepth, Width(c, d) = 1, NodeDepth(c, d - 1) PROVE d = m
  <2>1. d <= m
    BY <1>6, <1>7
  <2>2. ~(d < m)
    <3>1. d < m => d \in 1 .. m - 1
      BY <1>4, ConstantTypes
    <3> QED BY <1>4, <1>7, <3>1
  <2> QED BY <1>4, <2>1, <2>2
<1>8. ASSUME NEW d \in 0 .. MaxDepth, NodeDepth(c, d) PROVE d <= m - 1
  <2>1. CASE d = 0
    BY <1>4, <2>1, ConstantTypes
  <2>2. CASE d # 0
    <3>1. Width(c, d) > 1 /\ d # MaxDepth
      BY <1>8, <2>2, WidthTypes DEF NodeDepth
    <3>2. d + 1 \in 1 .. MaxDepth /\ (d + 1) - 1 = d
      BY <3>1, ConstantTypes
    <3>3. d + 1 <= m
      BY <1>6, <1>8, <3>2
    <3> QED BY <1>4, <3>3
  <2> QED BY <2>1, <2>2
<1> QED BY <1>4, <1>5, <1>7, <1>8 DEF m

-----------------------------------------------------------------------------
(* Rows of the tree.                                                       *)

\* A row is its six columns.
LEMMA JobColumns ==
    ASSUME NEW j \in Job
    PROVE  j = <<j[1], j[2], j[3], j[4], j[5], j[6]>>
  BY DEF Job

\* The columns of a row that is built.
LEMMA BuiltJob ==
    ASSUME NEW t \in {"wg", "prover", "compressor"}, NEW r \in 0 .. 5, NEW b \in Batches,
           NEW c \in Nat, NEW d \in Nat, NEW s \in Nat
    PROVE  LET j == <<t, r, b, c, d, s>>
           IN  /\ j \in Job /\ j[1] = t /\ j[2] = r /\ j[3] = b /\ j[4] = c /\ j[5] = d /\ j[6] = s
               /\ j # NoJob
  BY DEF Job, NoJob

\* Jobs of a batch.
LEMMA BatchJobs ==
    ASSUME NEW b \in Batches
    PROVE  /\ Known(WitJob(b)) /\ WitJob(b)[1] = "wg" /\ WitJob(b)[2] = 0
           /\ Known(TipJob(b)) /\ TipJob(b)[1] = "wg" /\ TipJob(b)[2] = 3
           /\ Known(SchedJob(b)) /\ SchedJob(b)[1] = "wg" /\ SchedJob(b)[2] = 4
           /\ Known(CompJob(b)) /\ CompJob(b)[1] = "compressor" /\ CompJob(b)[2] = 5
           /\ WitJob(b)[3] = b /\ TipJob(b)[3] = b /\ SchedJob(b)[3] = b /\ CompJob(b)[3] = b
           /\ WitJob(b)[5] = 0 /\ TipJob(b)[5] = 0 /\ SchedJob(b)[5] = 0 /\ CompJob(b)[5] = 0
           /\ \A r \in {3, 4} : /\ Known(ProverJob(r, b, 0, 0, 1)) /\ ProverJob(r, b, 0, 0, 1)[1] = "prover"
                                /\ ProverJob(r, b, 0, 0, 1)[2] = r /\ ProverJob(r, b, 0, 0, 1)[3] = b
<1>1. ASSUME NEW t \in {"wg", "prover", "compressor"}, NEW r \in 0 .. 5, NEW s \in Nat
      PROVE  LET j == <<t, r, b, 0, 0, s>>
             IN  /\ j \in Job /\ j[1] = t /\ j[2] = r /\ j[3] = b /\ j[4] = 0 /\ j[5] = 0 /\ j[6] = s
  BY DEF Job
<1> QED BY <1>1 DEF Known, WitJob, TipJob, SchedJob, CompJob, ProverJob

\* Jobs of a circuit type.
LEMMA CircuitJobs ==
    ASSUME NEW b \in Batches, NEW c \in Circuits
    PROVE  /\ Known(LeafJob(b, c)) /\ LeafJob(b, c)[1] = "wg" /\ LeafJob(b, c)[2] = 1
           /\ LeafJob(b, c)[3] = b /\ LeafJob(b, c)[4] = c /\ LeafJob(b, c)[5] = 0
           /\ \A d \in 0 .. MaxDepth :
                /\ NodeDepth(c, d) => Known(NodeJob(b, c, d))
                /\ NodeJob(b, c, d)[1] = "wg" /\ NodeJob(b, c, d)[2] = 2
                /\ NodeJob(b, c, d)[3] = b /\ NodeJob(b, c, d)[4] = c /\ NodeJob(b, c, d)[5] = d
<1>1. c \in Nat /\ MaxDepth \in Nat
  BY ConstantTypes
<1>2. ASSUME NEW r \in {1, 2}, NEW d \in 0 .. MaxDepth
      PROVE  LET j == <<"wg", r, b, c, d, 0>>
             IN  /\ j \in Job /\ j[1] = "wg" /\ j[2] = r /\ j[3] = b /\ j[4] = c /\ j[5] = d /\ j[6] = 0
  BY <1>1 DEF Job
<1>3. 0 \in 0 .. MaxDepth
  BY <1>1
<1> QED BY <1>2, <1>3 DEF Known, LeafJob, NodeJob

\* Prover jobs of a circuit type.
LEMMA CircuitProofs ==
    ASSUME NEW b \in Batches, NEW c \in Circuits
    PROVE  /\ \A p \in BasicProofs(b, c) : Known(p) /\ p[1] = "prover" /\ p[2] = 0 /\ p[3] = b
           /\ \A p \in LeafProofs(b, c) : /\ Known(p) /\ p[1] = "prover" /\ p[2] = 1
                                          /\ p[3] = b /\ p[4] = c
           /\ \A d \in 1 .. MaxDepth : \A p \in NodeProofs(b, c, d) :
                /\ NodeDepth(c, d - 1) => Known(p)
                /\ p[1] = "prover" /\ p[2] = 2 /\ p[3] = b /\ p[4] = c /\ p[5] = d
<1>1. /\ c \in Nat /\ MaxDepth \in Nat /\ Basics[c] \in Nat
      /\ \A d \in 0 .. MaxDepth : Width(c, d) \in Nat
  BY ConstantTypes, WidthTypes
<1>2. ASSUME NEW r \in {0, 1, 2}, NEW d \in Nat, NEW s \in Nat
      PROVE  LET j == ProverJob(r, b, c, d, s)
             IN  /\ j \in Job /\ j[1] = "prover" /\ j[2] = r /\ j[3] = b /\ j[4] = c /\ j[5] = d /\ j[6] = s
  BY <1>1 DEF Job, ProverJob
<1>3. ASSUME NEW p \in BasicProofs(b, c) PROVE Known(p) /\ p[1] = "prover" /\ p[2] = 0 /\ p[3] = b
  <2>1. PICK s \in 1 .. Basics[c] : p = ProverJob(0, b, c, 0, s)
    BY DEF BasicProofs
  <2>2. s \in Nat
    BY <1>1
  <2>3. /\ p \in Job /\ p[1] = "prover" /\ p[2] = 0 /\ p[3] = b /\ p[4] = c /\ p[5] = 0
        /\ p[6] = s
    BY <1>2, <2>1, <2>2
  <2> QED BY <2>1, <2>3 DEF Known
<1>4. ASSUME NEW p \in LeafProofs(b, c) PROVE Known(p) /\ p[1] = "prover" /\ p[2] = 1 /\ p[3] = b /\ p[4] = c
  <2>1. PICK s \in 1 .. Width(c, 0) : p = ProverJob(1, b, c, 0, s)
    BY DEF LeafProofs
  <2>2. Width(c, 0) \in Nat
    BY <1>1
  <2> QED BY <1>2, <2>1, <2>2 DEF Known
<1>5. ASSUME NEW d \in 1 .. MaxDepth, NEW p \in NodeProofs(b, c, d)
      PROVE  /\ NodeDepth(c, d - 1) => Known(p)
             /\ p[1] = "prover" /\ p[2] = 2 /\ p[3] = b /\ p[4] = c /\ p[5] = d
  <2>1. PICK s \in 1 .. Width(c, d) : p = ProverJob(2, b, c, d, s)
    BY DEF NodeProofs
  <2>2. Width(c, d) \in Nat /\ d \in Nat /\ s \in Nat
    BY <1>1
  <2>3. /\ p \in Job /\ p[1] = "prover" /\ p[2] = 2 /\ p[3] = b /\ p[4] = c /\ p[5] = d
        /\ p[6] = s
    BY <1>2, <2>1, <2>2
  <2> QED BY <2>1, <2>3 DEF Known
<1> QED BY <1>3, <1>4, <1>5

\* The inputs of a job, round by round.
LEMMA InputProofsOf ==
    ASSUME NEW j
    PROVE  /\ j[2] = 1 => InputProofs(j) = BasicProofs(j[3], j[4])
           /\ j[2] = 2 /\ j[5] = 0 => InputProofs(j) = LeafProofs(j[3], j[4])
           /\ j[2] = 2 /\ j[5] \in Nat /\ j[5] # 0 => InputProofs(j) = NodeProofs(j[3], j[4], j[5])
           /\ j[2] = 3 => InputProofs(j) = {ProverJob(2, j[3], c, FinalDepth(c), 1) : c \in Circuits}
           /\ j[2] = 4 => InputProofs(j) = {ProverJob(3, j[3], 0, 0, 1)}
           /\ j[2] = 5 => InputProofs(j) = {ProverJob(4, j[3], 0, 0, 1)}
           /\ j[2] = 0 => InputProofs(j) = {}
  BY DEF InputProofs

\* The one node proof that is left of a circuit type.
LEMMA FinalProof ==
    ASSUME NEW b \in Batches, NEW c \in Circuits
    PROVE  LET p == ProverJob(2, b, c, FinalDepth(c), 1)
           IN  /\ p \in NodeProofs(b, c, FinalDepth(c)) /\ Known(p)
               /\ p[1] = "prover" /\ p[2] = 2 /\ p[3] = b /\ p[4] = c /\ p[5] = FinalDepth(c)
<1>1. FinalDepth(c) \in 1 .. MaxDepth /\ Width(c, FinalDepth(c)) = 1 /\ NodeDepth(c, FinalDepth(c) - 1)
  BY FinalDepthUnique
<1>2. ProverJob(2, b, c, FinalDepth(c), 1) \in NodeProofs(b, c, FinalDepth(c))
  BY <1>1 DEF NodeProofs
<1> QED BY <1>1, <1>2, CircuitProofs

\* The inputs of a row are prover jobs of its batch.
LEMMA InputsOfBatch ==
    ASSUME NEW j, Known(j), NEW p \in InputProofs(j)
    PROVE  p[3] = j[3] /\ p[1] = "prover"
<1>1. j[3] \in Batches /\ j[2] \in 0 .. 5
  BY DEF Known, Job
<1>2. CASE j[2] = 0
  BY <1>2, InputProofsOf
<1>3. CASE j[2] = 3
  <2>1. PICK c \in Circuits : p = ProverJob(2, j[3], c, FinalDepth(c), 1)
    BY <1>3, InputProofsOf
  <2> QED BY <1>1, <2>1, FinalProof
<1>4. CASE j[2] = 4
  <2>1. p = ProverJob(3, j[3], 0, 0, 1)
    BY <1>4, InputProofsOf
  <2> QED BY <1>1, <2>1, BatchJobs
<1>7. CASE j[2] = 5
  <2>1. p = ProverJob(4, j[3], 0, 0, 1)
    BY <1>7, InputProofsOf
  <2> QED BY <1>1, <2>1, BatchJobs
<1>5. CASE j[2] = 1
  <2>1. j[4] \in Circuits
    BY <1>5 DEF Known
  <2> QED BY <1>1, <1>5, <2>1, InputProofsOf, CircuitProofs
<1>6. CASE j[2] = 2
  <2>1. j[4] \in Circuits /\ j[5] \in 0 .. MaxDepth /\ MaxDepth \in Nat
    BY <1>6, ConstantTypes DEF Known
  <2>2. CASE j[5] = 0
    BY <1>1, <1>6, <2>1, <2>2, InputProofsOf, CircuitProofs
  <2>3. CASE j[5] # 0
    <3>1. j[5] \in 1 .. MaxDepth /\ j[5] \in Nat
      BY <2>1, <2>3
    <3> QED BY <1>1, <1>6, <2>1, <2>3, <3>1, InputProofsOf, CircuitProofs
  <2> QED BY <2>2, <2>3
<1> QED BY <1>1, <1>2, <1>3, <1>4, <1>5, <1>6, <1>7

\* A compressed proof rests on the whole tree: from the scheduler's job down to the
\* leaf jobs, each row tells that the one it was made from has finished.
LEMMA WholeTree ==
    ASSUME TreeInv, NEW b \in Batches, CompJob(b) \in DOMAIN rows
    PROVE  /\ Successful(SchedJob(b)) /\ Successful(TipJob(b))
           /\ \A c \in Circuits : /\ Successful(LeafJob(b, c)) /\ Successful(NodeJob(b, c, 0))
                                  /\ \A d \in 0 .. FinalDepth(c) - 1 : Successful(NodeJob(b, c, d))
           /\ \A j \in DOMAIN rows : j[1] = "wg" /\ j[2] # 0 /\ j[3] = b => Successful(j)
<1>1. Successful(SchedJob(b))
  BY BatchJobs DEF TreeInv, Produced
<1>2. \A j : Successful(j) => j \in DOMAIN rows /\ Started(j)
  BY DEF Successful, Started
<1>3. \A p : Done(p) => Produced(p)
  BY DEF Done, TreeInv, Successful
<1>4. Successful(TipJob(b))
  <2>1. Done(ProverJob(3, b, 0, 0, 1))
    BY <1>1, <1>2, BatchJobs, InputProofsOf DEF TreeInv
  <2> QED BY <1>3, <2>1, BatchJobs DEF Produced
<1>5. ASSUME NEW c \in Circuits
      PROVE  /\ Successful(LeafJob(b, c)) /\ Successful(NodeJob(b, c, 0))
             /\ \A d \in 0 .. FinalDepth(c) - 1 : Successful(NodeJob(b, c, d))
  <2> DEFINE m == FinalDepth(c) - 1
             S == {k \in Nat : k <= m => Successful(NodeJob(b, c, m - k))}
  <2>1. m \in 0 .. MaxDepth /\ FinalDepth(c) \in 1 .. MaxDepth /\ m \in Nat /\ m <= MaxDepth
    BY FinalDepthUnique, ConstantTypes
  <2>2. Successful(NodeJob(b, c, m))
    <3>1. Done(ProverJob(2, b, c, FinalDepth(c), 1))
      BY <1>2, <1>4, BatchJobs, InputProofsOf DEF TreeInv
    <3> QED BY <1>3, <3>1, FinalProof DEF Produced
  <2> HIDE DEF m
  <2>3. 0 \in S
    BY <2>1, <2>2
  <2>4. ASSUME NEW k \in S PROVE k + 1 \in S
    <3> SUFFICES ASSUME k + 1 <= m PROVE Successful(NodeJob(b, c, m - (k + 1)))
      OBVIOUS
    <3>1. m - k \in 0 .. MaxDepth /\ m - k # 0 /\ (m - k) - 1 = m - (k + 1) /\ k <= m
      BY <2>1, ConstantTypes
    <3>2. Successful(NodeJob(b, c, m - k))
      BY <3>1
    <3>3. Produced(NodeJob(b, c, m - k))
      BY <1>2, <3>2 DEF TreeInv
    <3> QED BY <3>1, <3>3, CircuitJobs DEF Produced
  <2>5. S = Nat
    <3>1. S \in SUBSET Nat
      OBVIOUS
    <3> HIDE DEF S
    <3> QED BY <2>3, <2>4, <3>1, NatSetInduction
  <2>6. ASSUME NEW d \in 0 .. m PROVE Successful(NodeJob(b, c, d))
    <3>1. m - d \in Nat /\ m - d <= m /\ m - (m - d) = d
      BY <2>1
    <3>2. m - d \in S
      BY <2>5, <3>1
    <3> QED BY <3>1, <3>2
  <2>7. Successful(NodeJob(b, c, 0))
    BY <2>1, <2>6
  <2>8. Successful(LeafJob(b, c))
    <3>1. ProverJob(1, b, c, 0, 1) \in LeafProofs(b, c)
      BY WidthTypes, ConstantTypes DEF LeafProofs
    <3>2. 0 \in 0 .. MaxDepth
      BY ConstantTypes
    <3>3. Done(ProverJob(1, b, c, 0, 1))
      BY <1>2, <2>7, <3>1, <3>2, CircuitJobs, InputProofsOf DEF TreeInv
    <3> QED BY <1>3, <3>1, <3>3, CircuitProofs DEF Produced
  <2> QED BY <2>6, <2>7, <2>8 DEF m
<1>6. ASSUME NEW j \in DOMAIN rows, j[1] = "wg", j[2] # 0, j[3] = b PROVE Successful(j)
  <2>1. Known(j) /\ j = <<j[1], j[2], j[3], j[4], j[5], j[6]>>
    BY JobColumns DEF TreeInv, Known
  <2>2. CASE j[2] = 3
    <3>1. j = TipJob(b)
      BY <1>6, <2>1, <2>2 DEF TipJob, Known
    <3> QED BY <1>4, <3>1
  <2>3. CASE j[2] = 4
    <3>1. j = SchedJob(b)
      BY <1>6, <2>1, <2>3 DEF SchedJob, Known
    <3> QED BY <1>1, <3>1
  <2>4. CASE j[2] = 1
    <3>1. j = LeafJob(b, j[4]) /\ j[4] \in Circuits
      BY <1>6, <2>1, <2>4 DEF LeafJob, Known
    <3> QED BY <1>5, <3>1
  <2>5. CASE j[2] = 2
    <3>1. /\ j = NodeJob(b, j[4], j[5]) /\ j[4] \in Circuits /\ j[5] \in 0 .. MaxDepth
          /\ NodeDepth(j[4], j[5])
      BY <1>6, <2>1, <2>5 DEF NodeJob, Known
    <3>2. j[5] <= FinalDepth(j[4]) - 1 /\ FinalDepth(j[4]) \in 1 .. MaxDepth
      BY <3>1, FinalDepthUnique
    <3>3. j[5] \in 0 .. FinalDepth(j[4]) - 1
      BY <3>1, <3>2, ConstantTypes
    <3> QED BY <1>5, <3>1, <3>3
  <2> QED BY <1>6, <2>1, <2>2, <2>3, <2>4, <2>5 DEF Known
<1> QED BY <1>1, <1>4, <1>5, <1>6

-----------------------------------------------------------------------------
(* Steps on the rows.                                                      *)

\* The columns of a row.
LEMMA RowColumns ==
    ASSUME NEW r \in Row
    PROVE  r.st \in Statuses /\ r.att \in Nat /\ r.att <= MaxAttempts /\ r.dep \in Nat
  BY ConstantTypes DEF Row

\* UPDATE ... SET status.
LEMMA SetStatusRows ==
    ASSUME NEW table, \A j \in DOMAIN table : table[j] \in Row, NEW js, NEW st \in Statuses
    PROVE  LET t == SetStatus(table, js, st)
           IN  /\ DOMAIN t = DOMAIN table
               /\ \A j \in DOMAIN table :
                    /\ t[j] \in Row /\ t[j].att = table[j].att /\ t[j].dep = table[j].dep
                    /\ j \in js => t[j].st = st
                    /\ j \notin js => t[j] = table[j]
<1> DEFINE t == SetStatus(table, js, st)
<1>1. DOMAIN t = DOMAIN table
  BY DEF SetStatus
<1>2. ASSUME NEW j \in DOMAIN table
      PROVE  /\ t[j] \in Row /\ t[j].att = table[j].att /\ t[j].dep = table[j].dep
             /\ j \in js => t[j].st = st
             /\ j \notin js => t[j] = table[j]
  <2>1. table[j] \in Row
    OBVIOUS
  <2>2. CASE j \in js
    <3>1. t[j] = [table[j] EXCEPT !.st = st]
      BY <2>2 DEF SetStatus
    <3> QED BY <2>1, <2>2, <3>1 DEF Row
  <2>3. CASE j \notin js
    <3>1. t[j] = table[j]
      BY <2>3 DEF SetStatus
    <3> QED BY <2>1, <2>3, <3>1
  <2> QED BY <2>2, <2>3
<1> QED BY <1>1, <1>2

\* INSERT ... ON CONFLICT.
LEMMA InsertRowsInto ==
    ASSUME NEW table, \A j \in DOMAIN table : table[j] \in Row, NEW js, NEW st \in Statuses, NEW dep \in Nat
    PROVE  LET t == Insert(table, js, st, dep)
           IN  /\ DOMAIN t = DOMAIN table \cup js
               /\ \A j \in DOMAIN table : t[j] = table[j]
               /\ \A j \in js \ DOMAIN table : t[j].st = st /\ t[j].att = 0 /\ t[j].dep = dep
               /\ \A j \in DOMAIN t : t[j] \in Row
<1> DEFINE t == Insert(table, js, st, dep)
<1>1. DOMAIN t = DOMAIN table \cup js
  BY DEF Insert
<1>2. \A j \in DOMAIN table : t[j] = table[j]
  BY DEF Insert
<1>3. \A j \in js \ DOMAIN table : t[j] = NewRow(st, dep)
  BY DEF Insert
<1>4. /\ NewRow(st, dep).st = st /\ NewRow(st, dep).att = 0 /\ NewRow(st, dep).dep = dep
      /\ NewRow(st, dep) \in Row
  BY ConstantTypes DEF NewRow, Row
<1> QED BY <1>1, <1>2, <1>3, <1>4

\* What keeps the tree: nothing found is lost, new rows come from finished jobs, and
\* a job starts only when its inputs are there.
LEMMA TreeStep ==
    ASSUME TreeInv, archived' = archived, DOMAIN rows \subseteq DOMAIN rows',
           \A j \in DOMAIN rows : j[1] # "compressor" /\ rows[j].st = "successful" => rows'[j].st = "successful",
           \A j \in DOMAIN rows' : j \notin DOMAIN rows =>
                /\ Known(j) /\ Produced(j)'
                /\ j[1] = "wg" => rows'[j].st = "waiting_for_proofs" \/ j[2] = 0,
           \A j \in DOMAIN rows : j[1] = "wg" /\ rows'[j].st # "waiting_for_proofs" =>
                Started(j) \/ \A p \in InputProofs(j) : Done(p),
           \A j \in DOMAIN rows' : Awaits(j, rows'[j].dep)
    PROVE  TreeInv'
<1>1. \A j : Successful(j) /\ j[1] # "compressor" => Successful(j)'
  BY DEF Successful
<1>2. /\ \A b, c : LeafJob(b, c)[1] # "compressor"
      /\ \A b, c, d : NodeJob(b, c, d)[1] # "compressor"
      /\ \A b : TipJob(b)[1] # "compressor" /\ SchedJob(b)[1] # "compressor"
  BY DEF LeafJob, NodeJob, TipJob, SchedJob
<1>4. \A p : p[1] = "prover" /\ Done(p) => Done(p)'
  BY <1>1 DEF Done
<1>3. \A j : Produced(j) => Produced(j)'
  <2>1. \A b : ProverJob(4, b, 0, 0, 1)[1] = "prover"
    BY DEF ProverJob
  <2>2. \A b : Done(ProverJob(4, b, 0, 0, 1)) => Done(ProverJob(4, b, 0, 0, 1))'
    BY <1>4, <2>1 DEF ProverJob
  <2> QED BY <1>1, <1>2, <2>2 DEF Produced, LeafJob, NodeJob, TipJob, SchedJob, ProverJob
<1>5. \A j \in DOMAIN rows' : Known(j) /\ Produced(j)' /\ Awaits(j, rows'[j].dep)
  BY <1>3 DEF TreeInv
<1>6. \A j \in archived' : Known(j) /\ j[1] = "prover" /\ Produced(j)'
  BY <1>3 DEF TreeInv
<1>7. ASSUME NEW j \in DOMAIN rows', j[1] = "wg", Started(j)', NEW p \in InputProofs(j)
      PROVE  Done(p)'
  <2>1. rows'[j].st # "waiting_for_proofs" /\ Known(j)
    BY <1>5, <1>7 DEF Started
  <2>2. p[1] = "prover"
    BY <2>1, InputsOfBatch
  <2>3. CASE j \in DOMAIN rows
    <3>1. Done(p)
      BY <1>7, <2>1, <2>3 DEF TreeInv
    <3> QED BY <1>4, <2>2, <3>1
  <2>4. CASE j \notin DOMAIN rows
    BY <1>7, <2>1, <2>4, InputProofsOf
  <2> QED BY <2>3, <2>4
<1> QED BY <1>5, <1>6, <1>7 DEF TreeInv

-----------------------------------------------------------------------------
(* The invariant.                                                          *)

\* What a step has to show about the tables.
RowsKept ==
    /\ RowTypes' /\ TreeInv' /\ Attempts' /\ DOMAIN rows \subseteq DOMAIN rows'
    /\ \A j : Started(j) => Started(j)'

\* A step that changes statuses only: waiting jobs are left or released, successes stay.
LEMMA StatusStep ==
    ASSUME Types, TreeInv, Attempts, archived' = archived,
           NEW js, NEW st \in Statuses \ {"waiting_for_proofs"}, rows' = SetStatus(rows, js, st),
           \A j \in js \cap DOMAIN rows :
                /\ rows[j].st = "successful" /\ j[1] # "compressor" => st = "successful"
                /\ st = "queued" => rows[j].att < MaxAttempts
                /\ j[1] = "wg" => Started(j) \/ \A p \in InputProofs(j) : Done(p)
    PROVE  RowsKept
<1>1. \A j \in DOMAIN rows : rows[j] \in Row
  BY DEF Types, RowTypes
<1>2. /\ DOMAIN rows' = DOMAIN rows
      /\ \A j \in DOMAIN rows :
            /\ rows'[j] \in Row /\ rows'[j].att = rows[j].att /\ rows'[j].dep = rows[j].dep
            /\ j \in js => rows'[j].st = st
            /\ j \notin js => rows'[j] = rows[j]
  <2>1. st \in Statuses
    OBVIOUS
  <2> QED BY <1>1, <2>1, SetStatusRows
<1>3. RowTypes'
  BY <1>2 DEF RowTypes
<1>4. \A j : Started(j) => Started(j)'
  BY <1>2 DEF Started
<1>5. Attempts'
  <2>1. ASSUME NEW j \in DOMAIN rows'
        PROVE  /\ rows'[j].st = "waiting_for_proofs" => j[1] = "wg" /\ rows'[j].att = 0
               /\ rows'[j].st = "queued" => rows'[j].att < MaxAttempts
    <3>1. j \in DOMAIN rows
      BY <1>2
    <3>2. CASE j \in js
      BY <1>2, <3>1, <3>2
    <3>3. CASE j \notin js
      BY <1>2, <3>1, <3>3 DEF Attempts
    <3> QED BY <3>2, <3>3
  <2> QED BY <2>1 DEF Attempts
<1>6. \A j \in DOMAIN rows' : Awaits(j, rows'[j].dep)
  BY <1>2 DEF TreeInv
<1>7. \A j \in DOMAIN rows : j[1] # "compressor" /\ rows[j].st = "successful" => rows'[j].st = "successful"
  BY <1>2
<1>8. \A j \in DOMAIN rows : j[1] = "wg" /\ rows'[j].st # "waiting_for_proofs" =>
                Started(j) \/ \A p \in InputProofs(j) : Done(p)
  BY <1>2 DEF Started
<1>9. TreeInv'
  BY <1>2, <1>6, <1>7, <1>8, TreeStep
<1> QED BY <1>2, <1>3, <1>4, <1>5, <1>9 DEF RowsKept

\* Nothing is there yet.
LEMMA InitInv == Init => IInv
<1> SUFFICES ASSUME Init PROVE IInv
  OBVIOUS
<1>1. DOMAIN rows = {} /\ archived = {}
  BY DEF Init
<1>2. NoJob \in Job /\ Idle \in [job : Job, pos : Nat] /\ Idle.job = NoJob
  BY DEF NoJob, Idle, Job
<1>3. /\ StartedProver \in [st : {"available", "reserved", "full", "dead"}, queue : Seq(Job)]
      /\ Len(StartedProver.queue) = 0 /\ DOMAIN StartedProver.queue = {}
  BY DEF StartedProver
<1>4. Types
  <2>1. RowTypes
    BY <1>1 DEF RowTypes
  <2>2. CoreTypes
    BY DEF Init, CoreTypes, Details
  <2>3. hold \in [Workers -> [job : Job, pos : Nat]]
    BY <1>2 DEF Init
  <2>4. gpu = StartedProver /\ faults = 0
    BY DEF Init
  <2> QED BY <1>3, <2>1, <2>2, <2>3, <2>4, ConstantTypes DEF Types, WorkTypes, FaultTypes
<1>5. TreeInv /\ Attempts
  BY <1>1 DEF TreeInv, Attempts
<1>6. InHand
  <2>1. \A w \in Workers : hold[w].job = NoJob
    BY <1>2 DEF Init
  <2> QED BY <1>3, <2>1 DEF InHand, Init
<1>7. Submitted
  <2>1. \A b \in Batches : pgd[b].st = "none"
    BY DEF Init
  <2> QED BY <2>1 DEF Submitted, Init
<1> QED BY <1>4, <1>5, <1>6, <1>7 DEF IInv

\* The tables are left alone.
LEMMA RowsSame ==
    ASSUME Types, TreeInv, Attempts, rows' = rows, archived' = archived
    PROVE  RowsKept
  BY DEF Types, RowsKept, RowTypes, TreeInv, Attempts, Started, Done, Produced, Successful

\* Faults are counted up to their bound.
LEMMA FaultTyped ==
    ASSUME FaultTypes, Fault \/ faults' = faults
    PROVE  FaultTypes'
  BY ConstantTypes DEF FaultTypes, Fault

\* A worker changes what it holds.
LEMMA HoldUpdate ==
    ASSUME hold \in [Workers -> [job : Job, pos : Nat]], NEW w \in Workers,
           NEW h, h.job \in Job, h.pos \in Nat, h = [job |-> h.job, pos |-> h.pos],
           hold' = [hold EXCEPT ![w] = h]
    PROVE  /\ hold' \in [Workers -> [job : Job, pos : Nat]] /\ hold'[w].job = h.job
           /\ \A v \in Workers : v # w => hold'[v] = hold[v]
  OBVIOUS

\* What it can hold: nothing, a job just taken, or the job it has a step further.
LEMMA Holdings ==
    /\ Idle.job = NoJob /\ Idle.pos = 0 /\ Idle = [job |-> Idle.job, pos |-> Idle.pos] /\ NoJob \in Job
    /\ \A j \in Job : LET h == [job |-> j, pos |-> 0]
                      IN  h.job = j /\ h.pos = 0 /\ h = [job |-> h.job, pos |-> h.pos]
    /\ \A h \in [job : Job, pos : Nat], n \in Nat :
        LET k == [h EXCEPT !.pos = n]
        IN  k.job = h.job /\ k.pos = n /\ k = [job |-> k.job, pos |-> k.pos] /\ h.job \in Job /\ h.pos \in Nat
  BY DEF Idle, NoJob, Job

\* The rest of the invariant follows from what the step does to the tables.
LEMMA StepInv ==
    ASSUME IInv, RowsKept, CoreTypes', WorkTypes', FaultTypes',
           \A w \in Workers :
                \/ hold'[w].job \in {NoJob, hold[w].job}
                \/ /\ Known(hold'[w].job) /\ hold'[w].job \in DOMAIN rows'
                   /\ rows'[hold'[w].job].st # "waiting_for_proofs",
           \A i \in DOMAIN gpu'.queue : gpu'.queue[i][1] = "prover",
           \A b \in Batches : pgd'[b].st = "generated" => pgd[b].st = "generated" \/ CompJob(b) \in DOMAIN rows,
           sent' # 0 => sent' = sent \/ CompJob(sent') \in DOMAIN rows
    PROVE  IInv'
<1>1. Types' /\ TreeInv' /\ Attempts'
  BY DEF RowsKept, Types
<1>2. InHand'
  <2>1. ASSUME NEW w \in Workers, hold'[w].job # NoJob
        PROVE  /\ Known(hold'[w].job)
               /\ hold'[w].job[1] # "prover" =>
                    hold'[w].job \in DOMAIN rows' /\ rows'[hold'[w].job].st # "waiting_for_proofs"
    <3>1. CASE hold'[w].job = hold[w].job
      <4>1. Known(hold[w].job) /\ (hold[w].job[1] # "prover" => Started(hold[w].job))
        BY <2>1, <3>1 DEF IInv, InHand
      <4>2. \A j : Started(j) => j \in DOMAIN rows' /\ rows'[j].st # "waiting_for_proofs"
        BY DEF RowsKept, Started
      <4> QED BY <3>1, <4>1, <4>2
    <3>2. CASE hold'[w].job # hold[w].job
      BY <2>1, <3>2
    <3> QED BY <3>1, <3>2
  <2> QED BY <2>1 DEF InHand, Started
<1>3. Submitted'
  BY DEF IInv, Submitted, RowsKept
<1> QED BY <1>1, <1>2, <1>3 DEF IInv

\* A step of the house keeper or the gateway leaves what is in hand alone.
LEMMA TableStepInv ==
    ASSUME IInv, RowsKept, FaultTypes', hold' = hold, gpu' = gpu, CoreTypes',
           \A b \in Batches : pgd'[b].st = "generated" => pgd[b].st = "generated" \/ CompJob(b) \in DOMAIN rows,
           sent' # 0 => sent' = sent \/ CompJob(sent') \in DOMAIN rows
    PROVE  IInv'
<1>1. WorkTypes'
  BY DEF IInv, Types, WorkTypes
<1>2. \A i \in DOMAIN gpu'.queue : gpu'.queue[i][1] = "prover"
  BY DEF IInv, InHand
<1> QED BY <1>1, <1>2, StepInv

\* A worker drops its job or goes a step further with it.
LEMMA WorkerStepInv ==
    ASSUME IInv, RowsKept, FaultTypes', hold' \in [Workers -> [job : Job, pos : Nat]],
           \A v \in Workers : hold'[v].job \in {NoJob, hold[v].job},
           pgd' = pgd, fetched' = fetched, sent' = sent, gpu' = gpu
    PROVE  IInv'
<1>1. /\ gpu \in [st : {"available", "reserved", "full", "dead"}, queue : Seq(Job)]
      /\ Len(gpu.queue) <= QueueSize
  BY DEF IInv, Types, WorkTypes
<1>2. WorkTypes' /\ CoreTypes'
  BY <1>1 DEF IInv, Types, WorkTypes, CoreTypes
<1>3. \A i \in DOMAIN gpu'.queue : gpu'.queue[i][1] = "prover"
  BY DEF IInv, InHand
<1> QED BY <1>2, <1>3, StepInv

\* What the workers hold then.
LEMMA HeldAfter ==
    ASSUME WorkTypes, NEW w \in Workers, NEW n \in Nat,
           hold' = [hold EXCEPT ![w] = Idle] \/ hold' = [hold EXCEPT ![w].pos = n]
    PROVE  /\ hold' \in [Workers -> [job : Job, pos : Nat]]
           /\ \A v \in Workers : hold'[v].job \in {NoJob, hold[v].job}
<1>1. hold \in [Workers -> [job : Job, pos : Nat]] /\ hold[w] \in [job : Job, pos : Nat]
  BY DEF WorkTypes
<1>2. Idle \in [job : Job, pos : Nat] /\ Idle.job = NoJob
  BY DEF Idle, NoJob, Job
<1>3. CASE hold' = [hold EXCEPT ![w] = Idle]
  BY <1>1, <1>2, <1>3
<1>4. CASE hold' = [hold EXCEPT ![w].pos = n]
  <2> DEFINE h == [hold[w] EXCEPT !.pos = n]
  <2>1. h \in [job : Job, pos : Nat] /\ h.job = hold[w].job
    BY <1>1
  <2>2. hold' = [hold EXCEPT ![w] = h]
    BY <1>1, <1>4
  <2> HIDE DEF h
  <2> QED BY <1>1, <2>1, <2>2
<1> QED BY <1>3, <1>4

\* It drops its job.
LEMMA DropStepInv ==
    ASSUME IInv, RowsKept, FaultTypes', NEW w \in Workers, hold' = [hold EXCEPT ![w] = Idle],
           pgd' = pgd, fetched' = fetched, sent' = sent, gpu' = gpu
    PROVE  IInv'
<1>1. /\ hold' \in [Workers -> [job : Job, pos : Nat]]
      /\ \A v \in Workers : hold'[v].job \in {NoJob, hold[v].job}
  <2>1. WorkTypes /\ 0 \in Nat
    BY DEF IInv, Types
  <2> QED BY <2>1, HeldAfter
<1> QED BY <1>1, WorkerStepInv

\* It goes a step further.
LEMMA AdvanceStepInv ==
    ASSUME IInv, RowsKept, FaultTypes', NEW w \in Workers, NEW n \in Nat,
           hold' = [hold EXCEPT ![w].pos = n],
           pgd' = pgd, fetched' = fetched, sent' = sent, gpu' = gpu
    PROVE  IInv'
<1>1. /\ hold' \in [Workers -> [job : Job, pos : Nat]]
      /\ \A v \in Workers : hold'[v].job \in {NoJob, hold[v].job}
  <2>1. WorkTypes
    BY DEF IInv, Types
  <2> QED BY <2>1, HeldAfter
<1> QED BY <1>1, WorkerStepInv

\* The core.
LEMMA CoreInv ==
    ASSUME IInv, NEW b \in Batches, Core(b)
    PROVE  IInv'
<1>1. rows' = rows /\ archived' = archived /\ hold' = hold /\ gpu' = gpu /\ faults' = faults /\ sent' = sent
      /\ fetched' = fetched
  BY DEF Core, insert_proof_generation_details, save_vm_runner_artifacts_metadata,
         save_l1_batch_commitment_artifacts
<1>2. RowsKept /\ FaultTypes'
  BY <1>1, RowsSame, FaultTyped DEF IInv, Types
<1>3. pgd \in [Batches -> Details] /\ pgd[b] \in Details
  BY DEF IInv, Types, CoreTypes
<1>4. \E r \in Details : /\ pgd' = [pgd EXCEPT ![b] = r]
                         /\ r.st = "generated" => pgd[b].st = "generated"
  <2>1. CASE insert_proof_generation_details(b)
    <3>1. pgd' = [pgd EXCEPT ![b] = [pgd[b] EXCEPT !.st = "unpicked", !.paths = TRUE]]
      BY <1>3, <2>1 DEF insert_proof_generation_details
    <3>2. /\ [pgd[b] EXCEPT !.st = "unpicked", !.paths = TRUE] \in Details
          /\ [pgd[b] EXCEPT !.st = "unpicked", !.paths = TRUE].st = "unpicked"
      BY <1>3 DEF Details
    <3> QED BY <3>1, <3>2
  <2>2. CASE save_vm_runner_artifacts_metadata(b)
    <3>1. pgd' = [pgd EXCEPT ![b] = [pgd[b] EXCEPT !.vm = TRUE]]
      BY <1>3, <2>2 DEF save_vm_runner_artifacts_metadata
    <3>2. /\ [pgd[b] EXCEPT !.vm = TRUE] \in Details
          /\ [pgd[b] EXCEPT !.vm = TRUE].st = pgd[b].st
      BY <1>3 DEF Details
    <3> QED BY <3>1, <3>2
  <2>3. CASE save_l1_batch_commitment_artifacts(b)
    <3>1. pgd' = [pgd EXCEPT ![b] = [pgd[b] EXCEPT !.meta = TRUE]]
      BY <1>3, <2>3 DEF save_l1_batch_commitment_artifacts
    <3>2. /\ [pgd[b] EXCEPT !.meta = TRUE] \in Details
          /\ [pgd[b] EXCEPT !.meta = TRUE].st = pgd[b].st
      BY <1>3 DEF Details
    <3> QED BY <3>1, <3>2
  <2> QED BY <2>1, <2>2, <2>3 DEF Core
<1>5. CoreTypes'
  BY <1>1, <1>3, <1>4 DEF IInv, Types, CoreTypes
<1>6. \A a \in Batches : pgd'[a].st = "generated" => pgd[a].st = "generated"
  BY <1>3, <1>4
<1> QED BY <1>1, <1>2, <1>5, <1>6, TableStepInv

\* A step that inserts rows: first circuits' jobs, or jobs that wait.
LEMMA InsertStep ==
    ASSUME Types, TreeInv, Attempts, archived' = archived,
           NEW js, NEW st \in {"queued", "waiting_for_proofs"}, NEW dep \in Nat,
           rows' = Insert(rows, js, st, dep),
           \A j \in js : /\ Known(j) /\ Produced(j)' /\ Awaits(j, dep)
                         /\ j[1] = "wg" => st = "waiting_for_proofs" \/ j[2] = 0
                         /\ st = "waiting_for_proofs" => j[1] = "wg"
    PROVE  RowsKept
<1>1. /\ DOMAIN rows' = DOMAIN rows \cup js
      /\ \A j \in DOMAIN rows : rows'[j] = rows[j]
      /\ \A j \in js \ DOMAIN rows : rows'[j].st = st /\ rows'[j].att = 0 /\ rows'[j].dep = dep
      /\ \A j \in DOMAIN rows' : rows'[j] \in Row
  <2>1. \A j \in DOMAIN rows : rows[j] \in Row
    BY DEF Types, RowTypes
  <2>2. st \in Statuses
    BY DEF Statuses
  <2> DEFINE t == Insert(rows, js, st, dep)
  <2>3. /\ DOMAIN t = DOMAIN rows \cup js
        /\ \A j \in DOMAIN rows : t[j] = rows[j]
        /\ \A j \in js \ DOMAIN rows : t[j].st = st /\ t[j].att = 0 /\ t[j].dep = dep
        /\ \A j \in DOMAIN t : t[j] \in Row
    BY <2>1, <2>2, InsertRowsInto
  <2>4. rows' = t
    OBVIOUS
  <2> HIDE DEF t
  <2> QED BY <2>3, <2>4
<1>2. \A j : Started(j) => Started(j)'
  BY <1>1 DEF Started
<1>3. Attempts'
  <2>1. ASSUME NEW j \in DOMAIN rows'
        PROVE  /\ rows'[j].st = "waiting_for_proofs" => j[1] = "wg" /\ rows'[j].att = 0
               /\ rows'[j].st = "queued" => rows'[j].att < MaxAttempts
    <3>1. CASE j \in DOMAIN rows
      BY <1>1, <3>1 DEF Attempts
    <3>2. CASE j \notin DOMAIN rows
      BY <1>1, <3>2, ConstantTypes
    <3> QED BY <3>1, <3>2
  <2> QED BY <2>1 DEF Attempts
<1>4. \A j \in DOMAIN rows' : Awaits(j, rows'[j].dep)
  BY <1>1 DEF TreeInv
<1>5. \A j \in DOMAIN rows : j[1] = "wg" /\ rows'[j].st # "waiting_for_proofs" =>
                Started(j) \/ \A p \in InputProofs(j) : Done(p)
  BY <1>1 DEF Started
<1>6. \A j \in DOMAIN rows' : j \notin DOMAIN rows =>
                /\ Known(j) /\ Produced(j)'
                /\ j[1] = "wg" => rows'[j].st = "waiting_for_proofs" \/ j[2] = 0
  BY <1>1
<1>7. DOMAIN rows \subseteq DOMAIN rows'
  BY <1>1
<1>8. \A j \in DOMAIN rows : rows[j].st = "successful" => rows'[j].st = "successful"
  BY <1>1
<1>9. TreeInv'
  BY <1>4, <1>5, <1>6, <1>7, <1>8, TreeStep
<1> QED BY <1>1, <1>2, <1>3, <1>9 DEF RowsKept, RowTypes

\* The gateway's fetcher.
LEMMA GatewayInv ==
    ASSUME IInv, Gateway
    PROVE  IInv'
<1>1. Types /\ TreeInv /\ Attempts /\ FaultTypes /\ CoreTypes
  BY DEF IInv, Types
<1>2. CASE \E b \in Batches : get_next_block_to_be_proven(b)
  <2>1. PICK b \in Batches : get_next_block_to_be_proven(b)
    BY <1>2
  <2>2. /\ rows' = rows /\ archived' = archived /\ hold' = hold /\ gpu' = gpu /\ sent' = sent
        /\ Fault \/ faults' = faults
    BY <2>1 DEF get_next_block_to_be_proven
  <2>3. RowsKept /\ FaultTypes'
    BY <1>1, <2>2, RowsSame, FaultTyped
  <2>4. pgd \in [Batches -> Details] /\ pgd[b] \in Details
    BY <1>1 DEF CoreTypes
  <2>5. pgd' = [pgd EXCEPT ![b] = [pgd[b] EXCEPT !.st = "picked_by_prover"]] /\ fetched' = b
    BY <2>1, <2>4 DEF get_next_block_to_be_proven
  <2>6. /\ [pgd[b] EXCEPT !.st = "picked_by_prover"] \in Details
        /\ [pgd[b] EXCEPT !.st = "picked_by_prover"].st = "picked_by_prover"
    BY <2>4 DEF Details
  <2>7. CoreTypes' /\ \A a \in Batches : pgd'[a].st = "generated" => pgd[a].st = "generated"
    BY <1>1, <2>2, <2>4, <2>5, <2>6 DEF CoreTypes
  <2> QED BY <2>2, <2>3, <2>7, TableStepInv
<1>3. CASE save_witness_inputs
  <2>1. PICK b \in Batches : b = fetched
    BY <1>1, <1>3 DEF CoreTypes, save_witness_inputs
  <2> DEFINE j == WitJob(b)
  <2>2. /\ rows' = Insert(rows, {j}, "queued", 0) /\ archived' = archived /\ hold' = hold /\ gpu' = gpu
        /\ pgd' = pgd /\ sent' = sent /\ faults' = faults /\ fetched' = 0
    BY <1>3, <2>1 DEF save_witness_inputs
  <2>3. Known(j) /\ j[1] = "wg" /\ j[2] = 0
    BY BatchJobs
  <2>4. \A i \in {j} : Known(i) /\ Produced(i)' /\ Awaits(i, 0) /\ i[1] = "wg" /\ i[2] = 0
    BY <2>3 DEF Produced, Awaits
  <2> HIDE DEF j
  <2>5. RowsKept
    BY <1>1, <2>2, <2>4, InsertStep
  <2>6. CoreTypes' /\ FaultTypes'
    BY <1>1, <2>2, FaultTyped DEF CoreTypes
  <2> QED BY <2>2, <2>5, <2>6, TableStepInv
<1>4. CASE LoseFetched
  <2>1. /\ rows' = rows /\ archived' = archived /\ hold' = hold /\ gpu' = gpu /\ sent' = sent /\ pgd' = pgd
        /\ fetched' = 0 /\ Fault
    BY <1>4 DEF LoseFetched
  <2>2. RowsKept /\ FaultTypes'
    BY <1>1, <2>1, RowsSame, FaultTyped
  <2>3. CoreTypes'
    BY <1>1, <2>1 DEF CoreTypes
  <2> QED BY <2>1, <2>2, <2>3, TableStepInv
<1> QED BY <1>2, <1>3, <1>4 DEF Gateway

\* The gateway's submitter.
LEMMA SubmitterInv ==
    ASSUME IInv, Submitter
    PROVE  IInv'
<1>1. Types /\ TreeInv /\ Attempts /\ FaultTypes /\ CoreTypes
  BY DEF IInv, Types
<1>2. CASE \E b \in Batches : submit_proof(b)
  <2>1. PICK b \in Batches : submit_proof(b)
    BY <1>2
  <2>2. /\ rows' = rows /\ archived' = archived /\ hold' = hold /\ gpu' = gpu /\ fetched' = fetched
        /\ faults' = faults /\ sent' = b /\ b \in get_least_proven_block_not_sent_to_server
    BY <2>1 DEF submit_proof
  <2>3. RowsKept /\ FaultTypes'
    BY <1>1, <2>2, RowsSame, FaultTyped
  <2>4. pgd \in [Batches -> Details] /\ pgd[b] \in Details
    BY <1>1 DEF CoreTypes
  <2>5. pgd' = [pgd EXCEPT ![b] = [pgd[b] EXCEPT !.st = "generated"]]
    BY <2>1, <2>4 DEF submit_proof
  <2>6. [pgd[b] EXCEPT !.st = "generated"] \in Details
    BY <2>4 DEF Details
  <2>7. CompJob(b) \in DOMAIN rows
    BY <2>2 DEF get_least_proven_block_not_sent_to_server, Successful
  <2>8. CoreTypes' /\ \A a \in Batches : pgd'[a].st = "generated" => pgd[a].st = "generated" \/ CompJob(a) \in DOMAIN rows
    BY <1>1, <2>2, <2>4, <2>5, <2>6, <2>7 DEF CoreTypes
  <2>9. CompJob(sent') \in DOMAIN rows
    BY <2>2, <2>7
  <2> QED BY <2>2, <2>3, <2>8, <2>9, TableStepInv
<1>3. CASE mark_proof_sent_to_server
  <2> DEFINE js == {CompJob(sent)}
  <2>1. /\ rows' = SetStatus(rows, js, "sent_to_server") /\ archived' = archived /\ hold' = hold
        /\ gpu' = gpu /\ pgd' = pgd /\ sent' = 0 /\ faults' = faults /\ fetched' = fetched /\ sent # 0
    BY <1>3 DEF mark_proof_sent_to_server
  <2>2. \A j \in js : j[1] = "compressor"
    BY <1>1, <2>1, BatchJobs DEF CoreTypes
  <2> HIDE DEF js
  <2>3. "sent_to_server" \in Statuses \ {"waiting_for_proofs"}
    BY DEF Statuses
  <2>4. RowsKept
    BY <1>1, <2>1, <2>2, <2>3, StatusStep
  <2>5. CoreTypes' /\ FaultTypes'
    BY <1>1, <2>1, FaultTyped DEF CoreTypes
  <2> QED BY <2>1, <2>4, <2>5, TableStepInv
<1>4. CASE LoseSubmitAnswer
  <2>1. /\ rows' = rows /\ archived' = archived /\ hold' = hold /\ gpu' = gpu /\ pgd' = pgd
        /\ fetched' = fetched /\ sent' = 0 /\ Fault
    BY <1>4 DEF LoseSubmitAnswer
  <2>2. RowsKept /\ FaultTypes'
    BY <1>1, <2>1, RowsSame, FaultTyped
  <2>3. CoreTypes'
    BY <1>1, <2>1 DEF CoreTypes
  <2> QED BY <2>1, <2>2, <2>3, TableStepInv
<1> QED BY <1>2, <1>3, <1>4 DEF Submitter

-----------------------------------------------------------------------------
(* The house keeper: counting the proofs that are there.                   *)

\* A round is complete when as many of its proofs succeeded as it has.
LEMMA AllCounted ==
    ASSUME NEW r, NEW b, NEW c, NEW d, NEW n \in Nat,
           CountSuccessful({ProverJob(r, b, c, d, s) : s \in 1 .. n}) = n
    PROVE  \A p \in {ProverJob(r, b, c, d, s) : s \in 1 .. n} : Successful(p)
<1> DEFINE S == {ProverJob(r, b, c, d, s) : s \in 1 .. n}
           f == [s \in 1 .. n |-> ProverJob(r, b, c, d, s)]
           T == {j \in S : Successful(j)}
<1>1. \A s, t : ProverJob(r, b, c, d, s) = ProverJob(r, b, c, d, t) => s = t
  BY DEF ProverJob
<1>2. f \in Bijection(1 .. n, S)
  BY <1>1 DEF Bijection, Injection, Surjection, IsInjective
<1>3. IsFiniteSet(1 .. n) /\ Cardinality(1 .. n) = n
  BY FS_Interval
<1> HIDE DEF f
<1>4. ExistsBijection(1 .. n, S)
  BY <1>2 DEF ExistsBijection
<1> HIDE DEF S
<1>5. IsFiniteSet(S) /\ Cardinality(S) = n
  BY <1>3, <1>4, FS_Bijection
<1>6. Cardinality(T) = n /\ T \in SUBSET S
  BY DEF CountSuccessful, S
<1> HIDE DEF T
<1>7. T = S
  BY <1>5, <1>6, FS_Subset
<1> QED BY <1>7 DEF T, S

\* The final node proofs of a batch are one per circuit type, so as many as there
\* are circuit types are all of them.
LEMMA AllFinalNodes ==
    ASSUME TreeInv, NEW b \in Batches,
           Cardinality(get_final_node_proof_job_ids_for(b)) = Cardinality(Circuits)
    PROVE  \A c \in Circuits : Successful(ProverJob(2, b, c, FinalDepth(c), 1))
<1> DEFINE F == get_final_node_proof_job_ids_for(b)
           f == [j \in F |-> j[4]]
<1>1. ASSUME NEW j \in F
      PROVE  Successful(j) /\ j[4] \in Circuits /\ j = ProverJob(2, b, j[4], FinalDepth(j[4]), 1)
  <2>1. /\ Known(j) /\ j[1] = "prover" /\ j[2] = 2 /\ j[3] = b /\ Successful(j) /\ Width(j[4], j[5]) = 1
    BY DEF get_final_node_proof_job_ids_for, IsFinalNode, ProverRows, TreeInv
  <2>2. j = <<j[1], j[2], j[3], j[4], j[5], j[6]>>
    BY <2>1, JobColumns DEF Known
  <2>3. /\ j[4] \in Circuits /\ j[5] \in 1 .. MaxDepth /\ NodeDepth(j[4], j[5] - 1)
        /\ j[6] \in 1 .. Width(j[4], j[5])
    BY <2>1 DEF Known
  <2>4. j[6] = 1
    BY <2>1, <2>3
  <2>5. j[5] = FinalDepth(j[4])
    BY <2>1, <2>3, FinalDepthUnique
  <2> QED BY <2>1, <2>2, <2>3, <2>4, <2>5 DEF ProverJob
<1> HIDE DEF F
<1>2. f \in [F -> Circuits]
  BY <1>1
<1>3. \A j, k \in F : f[j] = f[k] => j = k
  BY <1>1
<1>4. f \in Injection(F, Circuits)
  <2> HIDE DEF f
  <2> QED BY <1>2, <1>3 DEF Injection, IsInjective
<1>5. f \in Surjection(F, Circuits)
  <2>1. Cardinality(F) = Cardinality(Circuits) /\ IsFiniteSet(Circuits)
    BY ProofAssumption DEF F
  <2> HIDE DEF f
  <2> QED BY <1>4, <2>1, FS_Injection
<1>6. \A c \in Circuits : \E j \in F : f[j] = c
  <2> HIDE DEF f
  <2> QED BY <1>5 DEF Surjection
<1> QED BY <1>1, <1>6

\* The jobs that are released are waiting ones, and their inputs have all been found.
LEMMA ReadyJobs ==
    ASSUME TreeInv,
           NEW j \in ReadyLeaves \cup ReadyDepthZero \cup ReadyDepthNonZero \cup ReadyTips \cup ReadySchedulers
    PROVE  /\ j \in DOMAIN rows /\ rows[j].st = "waiting_for_proofs"
           /\ \A p \in InputProofs(j) : Done(p)
<1>1. j \in DOMAIN rows /\ rows[j].st = "waiting_for_proofs" /\ j[1] = "wg" /\ j[2] \in {1, 2, 3, 4}
  BY DEF ReadyLeaves, ReadyDepthZero, ReadyDepthNonZero, ReadyTips, ReadySchedulers, Waiting, Rows
<1>2. Known(j) /\ j[3] \in Batches /\ Awaits(j, rows[j].dep)
  BY <1>1 DEF TreeInv, Known
<1>3. CASE j[2] = 1
  <2>1. CountSuccessful(BasicProofs(j[3], j[4])) = Basics[j[4]]
    BY <1>3 DEF ReadyLeaves, ReadyDepthZero, ReadyDepthNonZero, ReadyTips, ReadySchedulers, Waiting, Rows
  <2>2. Basics[j[4]] \in Nat
    BY <1>1, <1>2, <1>3, ConstantTypes DEF Known
  <2>3. \A p \in BasicProofs(j[3], j[4]) : Successful(p)
    BY <2>1, <2>2, AllCounted DEF BasicProofs
  <2> QED BY <1>1, <1>3, <2>3, InputProofsOf DEF Done
<1>4. CASE j[2] = 2
  <2>1. j[4] \in Circuits /\ j[5] \in 0 .. MaxDepth
    BY <1>1, <1>2, <1>4 DEF Known
  <2>2. Width(j[4], j[5]) \in Nat /\ MaxDepth \in Nat /\ j[5] \in Nat
    BY <2>1, WidthTypes, ConstantTypes
  <2>3. CASE j[5] = 0
    <3>1. CountSuccessful(LeafProofs(j[3], j[4])) = rows[j].dep /\ rows[j].dep # 0
      BY <1>4, <2>3 DEF ReadyLeaves, ReadyDepthZero, ReadyDepthNonZero, ReadyTips, ReadySchedulers, Waiting, Rows
    <3>2. rows[j].dep = Width(j[4], 0)
      BY <1>1, <1>2, <1>4, <2>3, <3>1 DEF Awaits
    <3>3. \A p \in LeafProofs(j[3], j[4]) : Successful(p)
      BY <2>2, <2>3, <3>1, <3>2, AllCounted DEF LeafProofs
    <3> QED BY <1>1, <1>4, <2>3, <3>3, InputProofsOf DEF Done
  <2>4. CASE j[5] # 0
    <3>1. CountSuccessful(NodeProofs(j[3], j[4], j[5])) = rows[j].dep
      BY <1>4, <2>4 DEF ReadyLeaves, ReadyDepthZero, ReadyDepthNonZero, ReadyTips, ReadySchedulers, Waiting, Rows
    <3>2. rows[j].dep = Width(j[4], j[5])
      BY <1>1, <1>2, <1>4, <2>4 DEF Awaits
    <3>3. \A p \in NodeProofs(j[3], j[4], j[5]) : Successful(p)
      BY <2>2, <3>1, <3>2, AllCounted DEF NodeProofs
    <3> QED BY <1>1, <1>4, <2>2, <2>4, <3>3, InputProofsOf DEF Done
  <2> QED BY <2>3, <2>4
<1>5. CASE j[2] = 3
  <2>1. Cardinality(get_final_node_proof_job_ids_for(j[3])) = Cardinality(Circuits)
    BY <1>5 DEF ReadyLeaves, ReadyDepthZero, ReadyDepthNonZero, ReadyTips, ReadySchedulers, Waiting, Rows
  <2>2. \A c \in Circuits : Successful(ProverJob(2, j[3], c, FinalDepth(c), 1))
    BY <1>2, <2>1, AllFinalNodes
  <2> QED BY <1>1, <1>5, <2>2, InputProofsOf DEF Done
<1>6. CASE j[2] = 4
  <2>1. PICK k \in ProverRows : k[3] = j[3] /\ k[2] = 3 /\ Successful(k)
    BY <1>6 DEF ReadyLeaves, ReadyDepthZero, ReadyDepthNonZero, ReadyTips, ReadySchedulers, Waiting, Rows,
                get_recursion_tip_proof_job_id
  <2>2. Known(k) /\ k[1] = "prover"
    BY DEF ProverRows, TreeInv
  <2>3. k = <<k[1], k[2], k[3], k[4], k[5], k[6]>>
    BY <2>2, JobColumns DEF Known
  <2>4. k = ProverJob(3, j[3], 0, 0, 1)
    BY <2>1, <2>2, <2>3 DEF Known, ProverJob
  <2> QED BY <1>1, <1>6, <2>1, <2>4, InputProofsOf DEF Done
<1> QED BY <1>1, <1>3, <1>4, <1>5, <1>6

\* The house keeper's queries.
LEMMA HouseKeeperInv ==
    ASSUME IInv, HouseKeeper
    PROVE  IInv'
<1>1. Types /\ TreeInv /\ Attempts /\ FaultTypes /\ CoreTypes
  BY DEF IInv, Types
<1> DEFINE All == ReadyLeaves \cup ReadyDepthZero \cup ReadyDepthNonZero \cup ReadyTips \cup ReadySchedulers
<1>2. \A j \in All : /\ j \in DOMAIN rows /\ rows[j].st = "waiting_for_proofs"
                     /\ \A p \in InputProofs(j) : Done(p)
  BY <1>1, ReadyJobs
<1>3. \E ready \in SUBSET All : MoveToQueued(ready)
  BY DEF HouseKeeper, move_leaf_aggregation_jobs_from_waiting_to_queued, move_depth_zero_node_aggregation_jobs,
         move_depth_non_zero_node_aggregation_jobs, move_recursion_tip_jobs_from_waiting_to_queued,
         move_scheduler_jobs_from_waiting_to_queued
<1> HIDE DEF All
<1>4. PICK ready \in SUBSET All : MoveToQueued(ready)
  BY <1>3
<1>5. /\ rows' = SetStatus(rows, ready, "queued") /\ archived' = archived /\ hold' = hold /\ gpu' = gpu
      /\ pgd' = pgd /\ sent' = sent /\ fetched' = fetched /\ faults' = faults
  BY <1>4 DEF MoveToQueued
<1>6. "queued" \in Statuses \ {"waiting_for_proofs"}
  BY DEF Statuses
<1>7. \A j \in ready \cap DOMAIN rows :
        /\ rows[j].st # "successful" /\ rows[j].att < MaxAttempts
        /\ \A p \in InputProofs(j) : Done(p)
  BY <1>1, <1>2, ConstantTypes DEF Attempts
<1>8. RowsKept
  BY <1>1, <1>5, <1>6, <1>7, StatusStep
<1>9. CoreTypes' /\ FaultTypes'
  BY <1>1, <1>5, FaultTyped DEF CoreTypes
<1> QED BY <1>5, <1>8, <1>9, TableStepInv

\* The retry managers.
LEMMA RequeueInv ==
    ASSUME IInv, NEW j \in DOMAIN rows, requeue_stuck_jobs(j) \/ RequeueEarly(j)
    PROVE  IInv'
<1>1. Types /\ TreeInv /\ Attempts /\ FaultTypes /\ CoreTypes
  BY DEF IInv, Types
<1>2. /\ rows' = SetStatus(rows, {j}, "queued") /\ archived' = archived /\ hold' = hold /\ gpu' = gpu
      /\ pgd' = pgd /\ sent' = sent /\ fetched' = fetched /\ (Fault \/ faults' = faults)
  BY DEF requeue_stuck_jobs, RequeueEarly, Requeue
<1>3. rows[j].att < MaxAttempts /\ rows[j].st \in {"failed", "in_progress", "in_gpu_proof"}
  BY DEF requeue_stuck_jobs, RequeueEarly, Retriable
<1>4. "queued" \in Statuses \ {"waiting_for_proofs"}
  BY DEF Statuses
<1>5. \A i \in {j} : rows[i].st # "successful" /\ rows[i].att < MaxAttempts /\ Started(i)
  BY <1>3 DEF Started
<1>6. RowsKept
  BY <1>1, <1>2, <1>4, <1>5, StatusStep
<1>7. CoreTypes' /\ FaultTypes'
  BY <1>1, <1>2, FaultTyped DEF CoreTypes
<1> QED BY <1>2, <1>6, <1>7, TableStepInv

\* The archiver moves proofs, never jobs.
LEMMA ArchiveInv ==
    ASSUME IInv, NEW old, archive_old_jobs(old), Fault \/ faults' = faults
    PROVE  IInv'
<1>1. Types /\ TreeInv /\ Attempts /\ FaultTypes /\ CoreTypes /\ WorkTypes /\ RowTypes
  BY DEF IInv, Types
<1>2. /\ \A j \in old : j \in ProverRows /\ Successful(j)
      /\ rows' = [j \in DOMAIN rows \ old |-> rows[j]]
      /\ archived' = archived \cup old
      /\ UNCHANGED <<pgd, fetched, hold, gpu, sent>>
  BY DEF archive_old_jobs
<1>3. \A j \in old : j \in DOMAIN rows /\ j[1] = "prover"
  BY <1>2 DEF ProverRows
<1>4. DOMAIN rows' = DOMAIN rows \ old /\ \A j \in DOMAIN rows' : rows'[j] = rows[j]
  BY <1>2
<1>5. \A j : Successful(j) /\ j[1] # "prover" => Successful(j)'
  BY <1>3, <1>4 DEF Successful
<1>7. \A p : Done(p) => Done(p)'
  <2>1. \A p : Successful(p) => Successful(p)' \/ p \in old
    BY <1>4 DEF Successful
  <2> QED BY <1>2, <2>1 DEF Done
<1>6. \A j : Produced(j) => Produced(j)'
  <2>1. /\ \A a, c : LeafJob(a, c)[1] # "prover"
        /\ \A a, c, d : NodeJob(a, c, d)[1] # "prover"
        /\ \A a : TipJob(a)[1] # "prover" /\ SchedJob(a)[1] # "prover"
    BY DEF LeafJob, NodeJob, TipJob, SchedJob
  <2>2. \A a : Done(ProverJob(4, a, 0, 0, 1)) => Done(ProverJob(4, a, 0, 0, 1))'
    BY <1>7 DEF ProverJob
  <2> QED BY <1>5, <2>1, <2>2 DEF Produced, LeafJob, NodeJob, TipJob, SchedJob, ProverJob
<1>8. \A a \in Batches : CompJob(a) \in DOMAIN rows => CompJob(a) \in DOMAIN rows'
  BY <1>3, <1>4, BatchJobs
<1>9. \A j : Started(j) /\ j[1] # "prover" => Started(j)'
  BY <1>3, <1>4 DEF Started
<1>10. TreeInv'
  <2>1. \A j \in DOMAIN rows' : Known(j) /\ Produced(j)' /\ Awaits(j, rows'[j].dep)
    BY <1>1, <1>4, <1>6 DEF TreeInv
  <2>2. ASSUME NEW j \in archived'
        PROVE  Known(j) /\ j[1] = "prover" /\ Produced(j)'
    <3>1. Known(j) /\ j[1] = "prover" /\ Produced(j)
      BY <1>1, <1>2, <1>3 DEF TreeInv
    <3> QED BY <1>6, <3>1
  <2>3. ASSUME NEW j \in DOMAIN rows', j[1] = "wg", Started(j)', NEW p \in InputProofs(j) PROVE Done(p)'
    <3>1. j \in DOMAIN rows /\ Started(j)
      BY <1>4, <2>3 DEF Started
    <3> QED BY <1>1, <1>7, <2>3, <3>1 DEF TreeInv
  <2> QED BY <2>1, <2>2, <2>3 DEF TreeInv
<1>11. Types'
  <2>1. FaultTypes'
    BY <1>1, FaultTyped
  <2> QED BY <1>1, <1>2, <1>4, <2>1 DEF Types, RowTypes, CoreTypes, WorkTypes
<1>12. Attempts'
  BY <1>1, <1>4 DEF Attempts
<1>13. InHand'
  <2>1. hold' = hold /\ gpu' = gpu /\ InHand
    BY <1>2 DEF IInv
  <2>2. \A w \in Workers : hold[w].job # NoJob =>
            Known(hold[w].job) /\ (hold[w].job[1] # "prover" => Started(hold[w].job))
    BY <2>1 DEF InHand
  <2>3. \A j : Started(j) /\ j[1] # "prover" => j \in DOMAIN rows' /\ rows'[j].st # "waiting_for_proofs"
    BY <1>9 DEF Started
  <2>4. \A w \in Workers : hold'[w].job # NoJob =>
            /\ Known(hold'[w].job)
            /\ hold'[w].job[1] # "prover" =>
                hold'[w].job \in DOMAIN rows' /\ rows'[hold'[w].job].st # "waiting_for_proofs"
    BY <2>1, <2>2, <2>3
  <2>5. \A i \in DOMAIN gpu'.queue : gpu'.queue[i][1] = "prover"
    BY <2>1 DEF InHand
  <2> QED BY <2>4, <2>5 DEF InHand, Started
<1>14. Submitted'
  <2>1. pgd' = pgd /\ sent' = sent /\ Submitted /\ (sent # 0 => sent \in Batches)
    BY <1>1, <1>2 DEF IInv, CoreTypes
  <2> QED BY <1>8, <2>1 DEF Submitted
<1> QED BY <1>10, <1>11, <1>12, <1>13, <1>14 DEF IInv

-----------------------------------------------------------------------------
(* The workers.                                                            *)

\* A queued job is handed out: one more attempt.
LEMMA TakeStep ==
    ASSUME Types, TreeInv, Attempts, archived' = archived, NEW j \in DOMAIN rows, rows[j].st = "queued",
           rows' = SetAttempt(rows, j)
    PROVE  RowsKept /\ rows'[j].st # "waiting_for_proofs"
<1>1. \A k \in DOMAIN rows : rows[k] \in Row
  BY DEF Types, RowTypes
<1>2. /\ rows[j] \in Row /\ rows[j].att \in Nat /\ rows[j].att + 1 <= MaxAttempts
  <2>1. rows[j] \in Row
    BY <1>1
  <2>2. rows[j].att \in Nat /\ rows[j].att < MaxAttempts
    BY <2>1, RowColumns DEF Attempts
  <2> QED BY <2>1, <2>2, ConstantTypes
<1> DEFINE r == [rows[j] EXCEPT !.st = "in_progress", !.att = @ + 1]
<1>3. r \in Row /\ r.st = "in_progress" /\ r.dep = rows[j].dep
  <2>1. rows[j].att + 1 \in 0 .. MaxAttempts /\ "in_progress" \in Statuses
    BY <1>2, ConstantTypes DEF Statuses
  <2> QED BY <1>2, <2>1 DEF Row
<1>4. DOMAIN rows' = DOMAIN rows /\ \A k \in DOMAIN rows : k # j => rows'[k] = rows[k]
  BY DEF SetAttempt
<1>5. rows'[j] = r
  BY DEF SetAttempt
<1> HIDE DEF r
<1>6. RowTypes'
  BY <1>1, <1>3, <1>4, <1>5 DEF RowTypes
<1>7. \A k : Started(k) => Started(k)'
  BY <1>3, <1>4, <1>5 DEF Started
<1>8. Attempts'
  BY <1>3, <1>4, <1>5 DEF Attempts
<1>9. \A k \in DOMAIN rows' : Awaits(k, rows'[k].dep)
  BY <1>3, <1>4, <1>5 DEF TreeInv
<1>10. \A k \in DOMAIN rows : rows[k].st = "successful" => rows'[k].st = "successful"
  BY <1>4
<1>11. \A k \in DOMAIN rows : rows'[k].st # "waiting_for_proofs" => Started(k)
  BY <1>4 DEF Started
<1>12. TreeInv'
  BY <1>4, <1>9, <1>10, <1>11, TreeStep
<1> QED BY <1>3, <1>4, <1>5, <1>6, <1>7, <1>8, <1>12 DEF RowsKept

\* The queries hand out queued rows.
LEMMA Queued ==
    \A j \in get_next_basic_circuit_witness_job \cup get_next_leaf_aggregation_job
             \cup get_next_node_aggregation_job \cup get_next_recursion_tip_witness_job
             \cup get_next_scheduler_witness_job \cup get_next_job \cup get_next_proof_compression_job :
        j \in DOMAIN rows /\ rows[j].st = "queued"
<1>1. \A S, j : j \in OldestQueued(S) => j \in S /\ rows[j].st = "queued"
  BY DEF OldestQueued
<1>2. \A r, j : j \in Rows(r) => j \in DOMAIN rows
  BY DEF Rows
<1>3. \A j \in get_next_job : j \in DOMAIN rows /\ rows[j].st = "queued"
  BY DEF get_next_job, ProverRows
<1> QED BY <1>1, <1>2, <1>3 DEF get_next_basic_circuit_witness_job, get_next_leaf_aggregation_job,
        get_next_node_aggregation_job, get_next_recursion_tip_witness_job, get_next_scheduler_witness_job,
        get_next_proof_compression_job

\* A worker takes a job, or dies with it.
LEMMA TakeInv ==
    ASSUME IInv, NEW w \in Workers,
           GetNextJob(w) \/ GetNextTip(w) \/ GetNextScheduler(w) \/ GetNextCompression(w)
    PROVE  IInv'
<1>1. Types /\ TreeInv /\ Attempts /\ FaultTypes /\ CoreTypes /\ WorkTypes
  BY DEF IInv, Types
<1>2. PICK j \in DOMAIN rows :
        /\ rows[j].st = "queued" /\ Take(w, j)
        /\ \E h \in {Idle, [job |-> j, pos |-> 0], [job |-> j, pos |-> 1]} : hold' = [hold EXCEPT ![w] = h]
  <2>1. CASE GetNextJob(w)
    <3>1. PICK j \in UNION {get_next_basic_circuit_witness_job, get_next_leaf_aggregation_job,
                    get_next_node_aggregation_job, get_next_job} :
            /\ Take(w, j)
            /\ hold' = [hold EXCEPT ![w] = [job |-> j, pos |-> IF AllProofsFound(j) THEN 0 ELSE 1]]
      BY <2>1 DEF GetNextJob
    <3>2. j \in DOMAIN rows /\ rows[j].st = "queued"
      BY Queued
    <3> QED BY <3>1, <3>2
  <2>2. CASE GetNextTip(w)
    <3>1. PICK j \in get_next_recursion_tip_witness_job :
            Take(w, j) /\ \E h \in {Idle, [job |-> j, pos |-> 0]} : hold' = [hold EXCEPT ![w] = h]
      BY <2>2 DEF GetNextTip
    <3>2. j \in DOMAIN rows /\ rows[j].st = "queued"
      BY Queued
    <3> QED BY <3>1, <3>2
  <2>3. CASE GetNextScheduler(w)
    <3>1. PICK j \in get_next_scheduler_witness_job :
            Take(w, j) /\ \E h \in {Idle, [job |-> j, pos |-> 0]} : hold' = [hold EXCEPT ![w] = h]
      BY <2>3 DEF GetNextScheduler
    <3>2. j \in DOMAIN rows /\ rows[j].st = "queued"
      BY Queued
    <3> QED BY <3>1, <3>2
  <2>4. CASE GetNextCompression(w)
    <3>1. PICK j \in get_next_proof_compression_job :
            Take(w, j) /\ \E h \in {Idle, [job |-> j, pos |-> 0]} : hold' = [hold EXCEPT ![w] = h]
      BY <2>4 DEF GetNextCompression
    <3>2. j \in DOMAIN rows /\ rows[j].st = "queued"
      BY Queued
    <3> QED BY <3>1, <3>2
  <2> QED BY <2>1, <2>2, <2>3, <2>4
<1>3. /\ rows' = SetAttempt(rows, j) /\ archived' = archived /\ pgd' = pgd /\ fetched' = fetched
      /\ gpu' = gpu /\ sent' = sent /\ faults' = faults
  BY <1>2 DEF Take
<1>4. RowsKept /\ rows'[j].st # "waiting_for_proofs"
  BY <1>1, <1>2, <1>3, TakeStep
<1>5. Known(j) /\ j \in Job /\ j \in DOMAIN rows'
  BY <1>1, <1>4 DEF TreeInv, Known, RowsKept
<1>6. PICK h \in {Idle, [job |-> j, pos |-> 0], [job |-> j, pos |-> 1]} : hold' = [hold EXCEPT ![w] = h]
  BY <1>2
<1>7. h.job \in {NoJob, j} /\ h.pos \in {0, 1} /\ h = [job |-> h.job, pos |-> h.pos] /\ NoJob \in Job
  BY <1>5, Holdings
<1>8. /\ hold' \in [Workers -> [job : Job, pos : Nat]] /\ hold'[w].job = h.job
      /\ \A v \in Workers : v # w => hold'[v] = hold[v]
  <2>1. hold \in [Workers -> [job : Job, pos : Nat]] /\ h.job \in Job /\ h.pos \in Nat
    BY <1>1, <1>5, <1>7 DEF WorkTypes
  <2> QED BY <1>6, <1>7, <2>1, HoldUpdate
<1>9. WorkTypes' /\ CoreTypes' /\ FaultTypes'
  BY <1>1, <1>3, <1>8 DEF WorkTypes, CoreTypes, FaultTypes
<1>10. \A v \in Workers :
                \/ hold'[v].job \in {NoJob, hold[v].job}
                \/ /\ Known(hold'[v].job) /\ hold'[v].job \in DOMAIN rows'
                   /\ rows'[hold'[v].job].st # "waiting_for_proofs"
  BY <1>4, <1>5, <1>7, <1>8
<1>11. \A i \in DOMAIN gpu'.queue : gpu'.queue[i][1] = "prover"
  BY <1>3 DEF IInv, InHand
<1> QED BY <1>3, <1>4, <1>9, <1>10, <1>11, StepInv

\* The circuit types can be listed in order.
LEMMA OrderOfCircuits ==
    /\ Cardinality(Circuits) \in Nat
    /\ CircuitOrder \in [1 .. Cardinality(Circuits) -> Circuits]
    /\ Len(CircuitOrder) = Cardinality(Circuits)
<1>1. Cardinality(Circuits) \in Nat /\ Circuits \in SUBSET Nat /\ IsFiniteSet(Circuits)
  BY ProofAssumption, FS_CardinalityType
<1>2. CircuitOrder \in [1 .. Cardinality(Circuits) -> Circuits]
  BY <1>1, IncreasingList DEF CircuitOrder
<1>3. Len(CircuitOrder) = Cardinality(Circuits)
  <2> DEFINE q == CircuitOrder
             n == Cardinality(Circuits)
  <2> HIDE DEF q, n
  <2>1. n \in Nat /\ q \in [1 .. n -> Circuits]
    BY <1>1, <1>2 DEF q, n
  <2>2. q \in Seq(Circuits) /\ DOMAIN q = 1 .. n
    BY <2>1
  <2>3. Len(q) = n
    BY <2>1, <2>2
  <2> QED BY <2>3 DEF q, n
<1> QED BY <1>1, <1>2, <1>3

\* What the basic circuits generator inserts after the prover jobs.
LEMMA AggregationJobs ==
    ASSUME NEW b \in Batches, NEW i \in DOMAIN create_aggregation_jobs(b)
    PROVE  LET j == create_aggregation_jobs(b)[i]
           IN  Known(j) /\ j[1] = "wg" /\ j[2] # 0 /\ j[5] = 0
<1> DEFINE n == Len(CircuitOrder)
           j == create_aggregation_jobs(b)[i]
<1>1. n \in Nat /\ CircuitOrder \in [1 .. n -> Circuits]
  BY OrderOfCircuits
<1>2. i \in 1 .. 2 * n + 2
  BY DEF create_aggregation_jobs
<1>3. j = CASE i > 2 * n + 1 -> SchedJob(b)
          [] i = 2 * n + 1 -> TipJob(b)
          [] i % 2 = 1 /\ i < 2 * n -> LeafJob(b, CircuitOrder[(i + 1) \div 2])
          [] OTHER -> NodeJob(b, CircuitOrder[i \div 2], 0)
  BY <1>2 DEF create_aggregation_jobs
<1> HIDE DEF n, j
<1>4. CASE i > 2 * n + 1
  <2>1. j = SchedJob(b)
    BY <1>1, <1>2, <1>3, <1>4
  <2> QED BY <2>1, BatchJobs DEF j
<1>5. CASE i = 2 * n + 1
  <2>1. j = TipJob(b)
    BY <1>1, <1>2, <1>3, <1>5
  <2> QED BY <2>1, BatchJobs DEF j
<1>6. CASE i <= 2 * n /\ i % 2 = 1 /\ i < 2 * n
  <2>1. (i + 1) \div 2 \in 1 .. n
    BY <1>1, <1>2, <1>6
  <2>2. j = LeafJob(b, CircuitOrder[(i + 1) \div 2])
    BY <1>1, <1>2, <1>3, <1>6
  <2>3. CircuitOrder[(i + 1) \div 2] \in Circuits
    BY <1>1, <2>1
  <2> QED BY <2>2, <2>3, CircuitJobs DEF j
<1>7. CASE i <= 2 * n /\ ~(i % 2 = 1 /\ i < 2 * n)
  <2>1. i \div 2 \in 1 .. n
    BY <1>1, <1>2, <1>7
  <2>2. j = NodeJob(b, CircuitOrder[i \div 2], 0)
    BY <1>1, <1>2, <1>3, <1>7
  <2>3. CircuitOrder[i \div 2] \in Circuits /\ 0 \in 0 .. MaxDepth
    BY <1>1, <2>1, ConstantTypes
  <2>4. NodeDepth(CircuitOrder[i \div 2], 0)
    BY DEF NodeDepth
  <2> QED BY <2>2, <2>3, <2>4, CircuitJobs DEF j
<1> QED BY <1>1, <1>2, <1>4, <1>5, <1>6, <1>7 DEF j

\* What a worker's row is.
LEMMA HeldRow ==
    ASSUME IInv, NEW w \in Workers, hold[w].job[1] # "none"
    PROVE  /\ Known(hold[w].job) /\ hold[w].job \in Job /\ hold[w].job[3] \in Batches
           /\ hold[w].job[1] # "prover" => Started(hold[w].job) /\ hold[w].job \in DOMAIN rows
           /\ hold[w] \in [job : Job, pos : Nat] /\ hold[w].pos \in Nat /\ hold[w].job # NoJob
<1>1. hold[w].job # NoJob
  BY DEF NoJob
<1>2. Known(hold[w].job) /\ (hold[w].job[1] # "prover" => Started(hold[w].job))
  BY <1>1 DEF IInv, InHand
<1>3. hold[w] \in [job : Job, pos : Nat]
  BY DEF IInv, Types, WorkTypes
<1> QED BY <1>1, <1>2, <1>3 DEF Known, Started

\* The basic circuits generator, statement by statement.
LEMMA BasicGeneratorInv ==
    ASSUME IInv, NEW w \in Workers,
           InsertBasicProofs(w) \/ InsertAggregationRow(w) \/ mark_witness_job_as_successful(w)
    PROVE  IInv'
<1>1. Types /\ TreeInv /\ Attempts /\ FaultTypes
  BY DEF IInv, Types
<1>2. PICK j : j = hold[w].job
  OBVIOUS
<1>3. j[1] = "wg" /\ j[2] = 0
  BY <1>2 DEF InsertBasicProofs, InsertAggregationRow, mark_witness_job_as_successful, Holds
<1>4. /\ Known(j) /\ j[3] \in Batches /\ Started(j)
      /\ hold[w] \in [job : Job, pos : Nat] /\ hold[w].pos \in Nat
  BY <1>2, <1>3, HeldRow
<1>5. pgd' = pgd /\ fetched' = fetched /\ archived' = archived /\ gpu' = gpu /\ sent' = sent /\ faults' = faults
  BY DEF InsertBasicProofs, InsertAggregationRow, mark_witness_job_as_successful, Finish
<1>6. FaultTypes'
  BY <1>1, <1>5, FaultTyped
<1>7. hold \in [Workers -> [job : Job, pos : Nat]]
  BY <1>1 DEF Types, WorkTypes
<1>8. CASE InsertBasicProofs(w)
  <2> DEFINE js == UNION {BasicProofs(j[3], c) : c \in Circuits}
  <2>1. rows' = Insert(rows, js, "queued", 0) /\ hold' = [hold EXCEPT ![w].pos = 1]
    BY <1>2, <1>8 DEF InsertBasicProofs
  <2>2. \A p \in js : Known(p) /\ p[1] = "prover" /\ p[2] = 0
    BY <1>4, CircuitProofs
  <2> HIDE DEF js
  <2>3. \A p \in js : Produced(p)' /\ Awaits(p, 0)
    BY <2>2 DEF Produced, Awaits
  <2>4. RowsKept
    BY <1>1, <1>5, <2>1, <2>2, <2>3, InsertStep
  <2> QED BY <1>5, <1>6, <2>1, <2>4, AdvanceStepInv
<1>9. CASE InsertAggregationRow(w)
  <2>1. PICK n \in Nat : n = hold[w].pos
    BY <1>4
  <2> DEFINE i == create_aggregation_jobs(j[3])[n]
             js == {i}
  <2>2. /\ rows' = Insert(rows, js, "waiting_for_proofs", 0) /\ hold' = [hold EXCEPT ![w].pos = n + 1]
        /\ n \in DOMAIN create_aggregation_jobs(j[3])
    BY <1>2, <1>9, <2>1 DEF InsertAggregationRow
  <2>3. Known(i) /\ i[1] = "wg" /\ i[2] # 0 /\ i[5] = 0
    BY <1>4, <2>2, AggregationJobs
  <2> HIDE DEF i
  <2>4. \A k \in js : Known(k) /\ Produced(k)' /\ Awaits(k, 0) /\ k[1] = "wg"
    BY <2>3 DEF Produced, Awaits
  <2> HIDE DEF js
  <2>5. RowsKept
    BY <1>1, <1>5, <2>2, <2>4, InsertStep
  <2>6. n + 1 \in Nat
    OBVIOUS
  <2> QED BY <1>5, <1>6, <2>2, <2>5, <2>6, AdvanceStepInv
<1>10. CASE mark_witness_job_as_successful(w)
  <2>1. rows' = SetStatus(rows, {j}, "successful") /\ hold' = [hold EXCEPT ![w] = Idle]
    BY <1>2, <1>10 DEF mark_witness_job_as_successful, Finish
  <2>2. "successful" \in Statuses \ {"waiting_for_proofs"}
    BY DEF Statuses
  <2>3. RowsKept
    BY <1>1, <1>4, <1>5, <2>1, <2>2, StatusStep
  <2> QED BY <1>5, <1>6, <2>1, <2>3, DropStepInv
<1> QED BY <1>8, <1>9, <1>10

\* A job finishes: it becomes successful, and the rows made from it are inserted.
LEMMA FinishStep ==
    ASSUME Types, TreeInv, Attempts, archived' = archived, NEW j, j[1] = "wg" => Started(j),
           DOMAIN rows \subseteq DOMAIN rows', \A k \in DOMAIN rows' : rows'[k] \in Row,
           \A k \in DOMAIN rows : /\ rows'[k].att = rows[k].att
                                  /\ rows'[k].st = rows[k].st \/ (k = j /\ rows'[k].st = "successful"),
           \A k \in DOMAIN rows' : Awaits(k, rows'[k].dep),
           \A k \in DOMAIN rows' : k \notin DOMAIN rows =>
                /\ Known(k) /\ Produced(k)' /\ rows'[k].att = 0
                /\ \/ k[1] # "wg" /\ rows'[k].st = "queued"
                   \/ k[1] = "wg" /\ rows'[k].st = "waiting_for_proofs"
    PROVE  RowsKept
<1>1. RowTypes'
  BY DEF RowTypes
<1>2. \A k : Started(k) => Started(k)'
  BY DEF Started
<1>3. Attempts'
  <2>1. ASSUME NEW k \in DOMAIN rows'
        PROVE  /\ rows'[k].st = "waiting_for_proofs" => k[1] = "wg" /\ rows'[k].att = 0
               /\ rows'[k].st = "queued" => rows'[k].att < MaxAttempts
    <3>1. CASE k \in DOMAIN rows
      BY <3>1 DEF Attempts
    <3>2. CASE k \notin DOMAIN rows
      BY <3>2, ConstantTypes
    <3> QED BY <3>1, <3>2
  <2> QED BY <2>1 DEF Attempts
<1>4. \A k \in DOMAIN rows : rows[k].st = "successful" => rows'[k].st = "successful"
  OBVIOUS
<1>5. \A k \in DOMAIN rows : k[1] = "wg" /\ rows'[k].st # "waiting_for_proofs" => Started(k)
  BY DEF Started
<1>6. TreeInv'
  BY <1>4, <1>5, TreeStep
<1> QED BY <1>1, <1>2, <1>3, <1>6 DEF RowsKept

\* The common case: prover jobs are inserted.
LEMMA SaveStep ==
    ASSUME Types, TreeInv, Attempts, archived' = archived, NEW j \in DOMAIN rows, Started(j),
           NEW js, \A p \in js : Known(p) /\ p[1] = "prover" /\ Awaits(p, 0),
           rows' = SetStatus(Insert(rows, js, "queued", 0), {j}, "successful"),
           \A p \in js : Successful(j)' => Produced(p)'
    PROVE  RowsKept
<1> DEFINE t == Insert(rows, js, "queued", 0)
<1>1. "queued" \in Statuses /\ "successful" \in Statuses /\ \A k \in DOMAIN rows : rows[k] \in Row
  BY DEF Statuses, Types, RowTypes
<1>2. /\ DOMAIN t = DOMAIN rows \cup js
      /\ \A k \in DOMAIN rows : t[k] = rows[k]
      /\ \A k \in js \ DOMAIN rows : t[k].st = "queued" /\ t[k].att = 0 /\ t[k].dep = 0
      /\ \A k \in DOMAIN t : t[k] \in Row
  BY <1>1, InsertRowsInto
<1> HIDE DEF t
<1> DEFINE u == SetStatus(t, {j}, "successful")
<1>3. /\ DOMAIN u = DOMAIN t
      /\ \A k \in DOMAIN t :
            /\ u[k] \in Row /\ u[k].att = t[k].att /\ u[k].dep = t[k].dep
            /\ k \in {j} => u[k].st = "successful"
            /\ k \notin {j} => u[k] = t[k]
  BY <1>1, <1>2, SetStatusRows
<1>4. rows' = u
  BY DEF t
<1> HIDE DEF u
<1>5. DOMAIN rows \subseteq DOMAIN rows' /\ \A k \in DOMAIN rows' : rows'[k] \in Row
  BY <1>2, <1>3, <1>4
<1>6. Successful(j)'
  BY <1>2, <1>3, <1>4 DEF Successful
<1>7. \A k \in DOMAIN rows : /\ rows'[k].att = rows[k].att
                             /\ rows'[k].st = rows[k].st \/ (k = j /\ rows'[k].st = "successful")
  BY <1>2, <1>3, <1>4
<1>8. \A k \in DOMAIN rows' : k \notin DOMAIN rows =>
                k \in js /\ rows'[k].att = 0 /\ rows'[k].st = "queued" /\ rows'[k].dep = 0
  BY <1>2, <1>3, <1>4
<1>9. \A k \in DOMAIN rows : rows'[k].dep = rows[k].dep
  BY <1>2, <1>3, <1>4
<1>10. \A k \in DOMAIN rows' : Awaits(k, rows'[k].dep)
  BY <1>8, <1>9 DEF TreeInv
<1>11. \A k \in DOMAIN rows' : k \notin DOMAIN rows =>
                /\ Known(k) /\ Produced(k)' /\ rows'[k].att = 0
                /\ k[1] # "wg" /\ rows'[k].st = "queued"
  BY <1>6, <1>8
<1> QED BY SMTT(30), <1>5, <1>7, <1>10, <1>11, FinishStep

\* The recursion tip and the scheduler.
LEMMA SaveTopInv ==
    ASSUME IInv, NEW w \in Workers, SaveTip(w) \/ SaveScheduler(w)
    PROVE  IInv'
<1>1. Types /\ TreeInv /\ Attempts /\ FaultTypes
  BY DEF IInv, Types
<1>2. PICK j : j = hold[w].job
  OBVIOUS
<1>3. PICK r \in {3, 4} :
        /\ j[1] = "wg" /\ j[2] = r
        /\ rows' = SetStatus(Insert(rows, {ProverJob(r, j[3], 0, 0, 1)}, "queued", 0), {j}, "successful")
  BY <1>2 DEF SaveTip, SaveScheduler, Finish, Holds
<1>4. /\ pgd' = pgd /\ fetched' = fetched /\ archived' = archived /\ gpu' = gpu /\ sent' = sent
      /\ faults' = faults /\ hold' = [hold EXCEPT ![w] = Idle]
  BY DEF SaveTip, SaveScheduler, Finish
<1>5. Known(j) /\ j[3] \in Batches /\ Started(j) /\ j \in DOMAIN rows
  BY <1>2, <1>3, HeldRow
<1> DEFINE p == ProverJob(r, j[3], 0, 0, 1)
           js == {p}
<1>6. Known(p) /\ p[1] = "prover" /\ p[2] = r /\ p[3] = j[3]
  BY <1>5, BatchJobs
<1>7. j = IF r = 3 THEN TipJob(j[3]) ELSE SchedJob(j[3])
  <2>1. j = <<j[1], j[2], j[3], j[4], j[5], j[6]>>
    BY <1>5, JobColumns DEF Known
  <2> QED BY <1>3, <1>5, <2>1 DEF Known, TipJob, SchedJob
<1> HIDE DEF p
<1>8. \A q \in js : Known(q) /\ q[1] = "prover" /\ Awaits(q, 0)
  BY <1>6 DEF Awaits
<1>9. \A q \in js : Successful(j)' => Produced(q)'
  <2>1. \A q : q[1] = "prover" /\ q[2] = r /\ q[3] = j[3] /\ Successful(j)' => Produced(q)'
    BY <1>7 DEF Produced
  <2> QED BY <1>6, <2>1
<1>10. rows' = SetStatus(Insert(rows, js, "queued", 0), {j}, "successful")
  BY <1>3 DEF p
<1> HIDE DEF js
<1>11. RowsKept
  BY <1>1, <1>4, <1>5, <1>8, <1>9, <1>10, SaveStep
<1>12. FaultTypes'
  BY <1>1, <1>4, FaultTyped
<1> QED BY <1>4, <1>11, <1>12, DropStepInv

\* A node job is one level above the proofs it makes.
LEMMA NodeRow ==
    ASSUME NEW j, Known(j), j[1] = "wg", j[2] = 2
    PROVE  /\ j = NodeJob(j[3], j[4], j[5]) /\ j[3] \in Batches /\ j[4] \in Circuits
           /\ j[5] \in 0 .. MaxDepth /\ j[5] + 1 \in 1 .. MaxDepth /\ (j[5] + 1) - 1 = j[5]
           /\ j[5] + 1 \in 0 .. MaxDepth /\ j[5] + 1 # 0
           /\ NodeDepth(j[4], j[5]) /\ Width(j[4], j[5] + 1) = CeilArity(Width(j[4], j[5]))
           /\ Width(j[4], j[5] + 1) \in Nat /\ Width(j[4], j[5] + 1) >= 1
<1>1. j = <<j[1], j[2], j[3], j[4], j[5], j[6]>>
  BY JobColumns DEF Known
<1>2. /\ j[3] \in Batches /\ j[4] \in Circuits /\ j[5] \in 0 .. MaxDepth /\ j[6] = 0
      /\ NodeDepth(j[4], j[5])
  BY DEF Known
<1>3. j = NodeJob(j[3], j[4], j[5])
  BY <1>1, <1>2 DEF NodeJob
<1>4. j[5] <= FinalDepth(j[4]) - 1 /\ FinalDepth(j[4]) \in 1 .. MaxDepth
  BY <1>2, FinalDepthUnique
<1>5. /\ j[5] + 1 \in 1 .. MaxDepth /\ (j[5] + 1) - 1 = j[5] /\ j[5] \in 0 .. MaxDepth - 1
      /\ j[5] + 1 \in 0 .. MaxDepth /\ j[5] + 1 # 0
  BY <1>2, <1>4, ConstantTypes
<1>6. /\ Width(j[4], j[5] + 1) = CeilArity(Width(j[4], j[5]))
      /\ Width(j[4], j[5] + 1) \in Nat /\ Width(j[4], j[5] + 1) >= 1
  BY <1>2, <1>5, WidthTypes
<1> QED BY <1>2, <1>3, <1>5, <1>6

\* The last node job of a circuit type.
LEMMA SaveNodeFinalInv ==
    ASSUME IInv, NEW w \in Workers, SaveNodeFinal(w)
    PROVE  IInv'
<1>1. Types /\ TreeInv /\ Attempts /\ FaultTypes
  BY DEF IInv, Types
<1>2. PICK j : j = hold[w].job
  OBVIOUS
<1> DEFINE p == ProverJob(2, j[3], j[4], j[5] + 1, 1)
           js == {p}
<1>3. /\ j[1] = "wg" /\ j[2] = 2
      /\ rows' = SetStatus(Insert(rows, js, "queued", 0), {j}, "successful")
  BY <1>2 DEF SaveNodeFinal, Finish, Holds
<1>4. /\ pgd' = pgd /\ fetched' = fetched /\ archived' = archived /\ gpu' = gpu /\ sent' = sent
      /\ faults' = faults /\ hold' = [hold EXCEPT ![w] = Idle]
  BY DEF SaveNodeFinal, Finish
<1>5. Known(j) /\ Started(j) /\ j \in DOMAIN rows
  BY <1>2, <1>3, HeldRow
<1>6. /\ j = NodeJob(j[3], j[4], j[5]) /\ j[3] \in Batches /\ j[4] \in Circuits
      /\ j[5] + 1 \in 1 .. MaxDepth /\ (j[5] + 1) - 1 = j[5] /\ NodeDepth(j[4], j[5])
      /\ Width(j[4], j[5] + 1) \in Nat /\ Width(j[4], j[5] + 1) >= 1
  BY <1>3, <1>5, NodeRow
<1>7. p \in NodeProofs(j[3], j[4], j[5] + 1)
  BY <1>6 DEF NodeProofs
<1>8. /\ Known(p) /\ p[1] = "prover" /\ p[2] = 2 /\ p[3] = j[3] /\ p[4] = j[4] /\ p[5] = j[5] + 1
  BY <1>6, <1>7, CircuitProofs
<1> HIDE DEF p
<1>9. \A q \in js : Known(q) /\ q[1] = "prover" /\ Awaits(q, 0)
  BY <1>8 DEF Awaits
<1>10. \A q \in js : Successful(j)' => Produced(q)'
  <2>1. \A q : q[1] = "prover" /\ q[2] = 2 /\ q[3] = j[3] /\ q[4] = j[4] /\ q[5] - 1 = j[5]
                    /\ Successful(j)' => Produced(q)'
    BY <1>6 DEF Produced
  <2> QED BY <1>6, <1>8, <2>1
<1> HIDE DEF js
<1>11. RowsKept
  BY <1>1, <1>3, <1>4, <1>5, <1>9, <1>10, SaveStep
<1>12. FaultTypes'
  BY <1>1, <1>4, FaultTyped
<1> QED BY <1>4, <1>11, <1>12, DropStepInv

\* A node job with more than one aggregation left also adds the next one.
LEMMA SaveNodeContinueInv ==
    ASSUME IInv, NEW w \in Workers, SaveNodeContinue(w)
    PROVE  IInv'
<1>1. Types /\ TreeInv /\ Attempts /\ FaultTypes
  BY DEF IInv, Types
<1>2. PICK j : j = hold[w].job
  OBVIOUS
<1> DEFINE b == j[3]
           c == j[4]
           d == j[5] + 1
           js == NodeProofs(b, c, d)
           node == NodeJob(b, c, d)
           t == Insert(rows, js, "queued", 0)
           u == Insert(t, {node}, "waiting_for_proofs", Width(c, d))
           v == SetStatus(u, {j}, "successful")
<1>3. /\ j[1] = "wg" /\ j[2] = 2 /\ CeilArity(Width(c, j[5])) > 1 /\ rows' = v
  BY <1>2 DEF SaveNodeContinue, Finish, Holds
<1>4. /\ pgd' = pgd /\ fetched' = fetched /\ archived' = archived /\ gpu' = gpu /\ sent' = sent
      /\ faults' = faults /\ hold' = [hold EXCEPT ![w] = Idle]
  BY DEF SaveNodeContinue, Finish
<1>5. Known(j) /\ Started(j) /\ j \in DOMAIN rows
  BY <1>2, <1>3, HeldRow
<1>6. /\ j = NodeJob(b, c, j[5]) /\ b \in Batches /\ c \in Circuits
      /\ d \in 1 .. MaxDepth /\ d - 1 = j[5] /\ NodeDepth(c, j[5]) /\ d \in 0 .. MaxDepth /\ d # 0
      /\ Width(c, d) \in Nat /\ Width(c, d) = CeilArity(Width(c, j[5]))
  BY <1>3, <1>5, NodeRow
<1> HIDE DEF b, c, d
<1>7. \A p \in js : Known(p) /\ p[1] = "prover" /\ p[2] = 2 /\ p[3] = b /\ p[4] = c /\ p[5] = d
  BY <1>6, CircuitProofs
<1>8. /\ Known(node) /\ node[1] = "wg" /\ node[2] = 2 /\ node[3] = b /\ node[4] = c /\ node[5] = d
  <2>1. NodeDepth(c, d)
    BY <1>3, <1>6 DEF NodeDepth
  <2> QED BY <1>6, <2>1, CircuitJobs
<1> HIDE DEF js, node
<1>9. /\ "queued" \in Statuses /\ "successful" \in Statuses /\ "waiting_for_proofs" \in Statuses
      /\ \A k \in DOMAIN rows : rows[k] \in Row
  BY <1>1 DEF Statuses, Types, RowTypes
<1>10. /\ DOMAIN t = DOMAIN rows \cup js
       /\ \A k \in DOMAIN rows : t[k] = rows[k]
       /\ \A k \in js \ DOMAIN rows : t[k].st = "queued" /\ t[k].att = 0 /\ t[k].dep = 0
       /\ \A k \in DOMAIN t : t[k] \in Row
  BY <1>9, InsertRowsInto
<1> HIDE DEF t
<1>11. /\ DOMAIN u = DOMAIN t \cup {node}
       /\ \A k \in DOMAIN t : u[k] = t[k]
       /\ \A k \in {node} \ DOMAIN t : /\ u[k].st = "waiting_for_proofs" /\ u[k].att = 0
                                       /\ u[k].dep = Width(c, d)
       /\ \A k \in DOMAIN u : u[k] \in Row
  BY <1>6, <1>9, <1>10, InsertRowsInto
<1> HIDE DEF u
<1>12. /\ DOMAIN v = DOMAIN u
       /\ \A k \in DOMAIN u :
            /\ v[k] \in Row /\ v[k].att = u[k].att /\ v[k].dep = u[k].dep
            /\ k \in {j} => v[k].st = "successful"
            /\ k \notin {j} => v[k] = u[k]
  BY <1>9, <1>11, SetStatusRows
<1> HIDE DEF v
<1>13. DOMAIN rows \subseteq DOMAIN rows' /\ \A k \in DOMAIN rows' : rows'[k] \in Row
  BY <1>3, <1>10, <1>11, <1>12
<1>14. Successful(j)'
  BY <1>3, <1>5, <1>10, <1>11, <1>12 DEF Successful
<1>15. \A k \in DOMAIN rows : /\ rows'[k].att = rows[k].att /\ rows'[k].dep = rows[k].dep
                              /\ rows'[k].st = rows[k].st \/ (k = j /\ rows'[k].st = "successful")
  BY <1>3, <1>10, <1>11, <1>12
<1>16. \A k \in DOMAIN rows' : k \notin DOMAIN rows =>
        /\ rows'[k].att = 0
        /\ \/ k \in js /\ rows'[k].st = "queued"
           \/ k = node /\ rows'[k].st = "waiting_for_proofs" /\ rows'[k].dep = Width(c, d)
  BY <1>3, <1>5, <1>10, <1>11, <1>12
<1>17. /\ \A k \in js : Produced(k)' /\ \A n : Awaits(k, n)
       /\ Awaits(node, Width(c, d))
       /\ \A k : k = node => Produced(k)'
  <2>1. Awaits(node, Width(c, d)) /\ \A k \in js : \A n : Awaits(k, n)
    BY <1>7, <1>8 DEF Awaits
  <2>2. \A k : k[3] = b /\ k[4] = c /\ k[5] = d /\ k[2] = 2 /\ k[1] \in {"prover", "wg"} => Produced(k)'
    BY <1>6, <1>14 DEF Produced
  <2> QED BY <1>7, <1>8, <2>1, <2>2
<1>18. \A k \in DOMAIN rows' : Awaits(k, rows'[k].dep)
  BY <1>1, <1>15, <1>16, <1>17 DEF TreeInv
<1>19. \A k \in DOMAIN rows' : k \notin DOMAIN rows =>
                /\ Known(k) /\ Produced(k)' /\ rows'[k].att = 0
                /\ \/ k[1] # "wg" /\ rows'[k].st = "queued"
                   \/ k[1] = "wg" /\ rows'[k].st = "waiting_for_proofs"
  BY <1>7, <1>8, <1>16, <1>17
<1>20. RowsKept
  BY <1>1, <1>4, <1>5, <1>13, <1>15, <1>18, <1>19, FinishStep
<1>21. FaultTypes'
  BY <1>1, <1>4, FaultTyped
<1> QED BY <1>4, <1>20, <1>21, DropStepInv

\* A leaf job tells the node row of depth 0 how many proofs to wait for.
LEMMA SaveLeafInv ==
    ASSUME IInv, NEW w \in Workers, SaveLeaf(w)
    PROVE  IInv'
<1>1. Types /\ TreeInv /\ Attempts /\ FaultTypes
  BY DEF IInv, Types
<1>2. PICK j : j = hold[w].job
  OBVIOUS
<1> DEFINE b == j[3]
           c == j[4]
           js == LeafProofs(b, c)
           node == NodeJob(b, c, 0)
           t == Insert(rows, js, "queued", 0)
           u == IF node \in DOMAIN rows THEN [t EXCEPT ![node].dep = Width(c, 0)] ELSE t
           v == SetStatus(u, {j}, "successful")
<1>3. /\ j[1] = "wg" /\ j[2] = 1 /\ rows' = v
  BY <1>2 DEF SaveLeaf, Finish, Holds
<1>4. /\ pgd' = pgd /\ fetched' = fetched /\ archived' = archived /\ gpu' = gpu /\ sent' = sent
      /\ faults' = faults /\ hold' = [hold EXCEPT ![w] = Idle]
  BY DEF SaveLeaf, Finish
<1>5. Known(j) /\ Started(j) /\ j \in DOMAIN rows
  BY <1>2, <1>3, HeldRow
<1>6. j = LeafJob(b, c) /\ b \in Batches /\ c \in Circuits /\ 0 \in 0 .. MaxDepth /\ Width(c, 0) \in Nat
  <2>1. j = <<j[1], j[2], j[3], j[4], j[5], j[6]>>
    BY <1>5, JobColumns DEF Known
  <2>2. b \in Batches /\ c \in Circuits /\ j[5] = 0 /\ j[6] = 0
    BY <1>3, <1>5 DEF Known
  <2>3. 0 \in 0 .. MaxDepth
    BY ConstantTypes
  <2> QED BY <1>3, <2>1, <2>2, <2>3, WidthTypes DEF LeafJob
<1> HIDE DEF b, c
<1>7. \A p \in js : Known(p) /\ p[1] = "prover" /\ p[2] = 1 /\ p[3] = b /\ p[4] = c
  BY <1>6, CircuitProofs
<1>8. node[1] = "wg" /\ node[2] = 2 /\ node[3] = b /\ node[4] = c /\ node[5] = 0
  BY <1>6, CircuitJobs
<1> HIDE DEF js, node
<1>9. /\ "queued" \in Statuses /\ "successful" \in Statuses
      /\ \A k \in DOMAIN rows : rows[k] \in Row
  BY <1>1 DEF Statuses, Types, RowTypes
<1>10. /\ DOMAIN t = DOMAIN rows \cup js
       /\ \A k \in DOMAIN rows : t[k] = rows[k]
       /\ \A k \in js \ DOMAIN rows : t[k].st = "queued" /\ t[k].att = 0 /\ t[k].dep = 0
       /\ \A k \in DOMAIN t : t[k] \in Row
  BY <1>9, InsertRowsInto
<1> HIDE DEF t
<1>11. /\ DOMAIN u = DOMAIN t
       /\ \A k \in DOMAIN t : /\ u[k] \in Row /\ u[k].st = t[k].st /\ u[k].att = t[k].att
                              /\ u[k].dep = t[k].dep \/ (k = node /\ u[k].dep = Width(c, 0))
  <2>1. CASE node \in DOMAIN rows
    <3>1. u = [t EXCEPT ![node].dep = Width(c, 0)] /\ node \in DOMAIN t
      BY <1>10, <2>1
    <3> DEFINE r == [t[node] EXCEPT !.dep = Width(c, 0)]
    <3>2. DOMAIN u = DOMAIN t /\ u[node] = r /\ \A k \in DOMAIN t : k # node => u[k] = t[k]
      BY <3>1
    <3>3. t[node] \in Row
      BY <1>10, <3>1
    <3>4. r \in Row /\ r.st = t[node].st /\ r.att = t[node].att /\ r.dep = Width(c, 0)
      BY <1>6, <3>3 DEF Row
    <3> HIDE DEF r, u
    <3> QED BY <1>10, <3>2, <3>4
  <2>2. CASE node \notin DOMAIN rows
    <3>1. u = t
      BY <2>2
    <3> HIDE DEF u
    <3> QED BY <1>10, <3>1
  <2> QED BY <2>1, <2>2
<1> HIDE DEF u
<1>12. /\ DOMAIN v = DOMAIN u
       /\ \A k \in DOMAIN u :
            /\ v[k] \in Row /\ v[k].att = u[k].att /\ v[k].dep = u[k].dep
            /\ k \in {j} => v[k].st = "successful"
            /\ k \notin {j} => v[k] = u[k]
  BY <1>9, <1>11, SetStatusRows
<1> HIDE DEF v
<1>13. DOMAIN rows \subseteq DOMAIN rows' /\ \A k \in DOMAIN rows' : rows'[k] \in Row
  BY <1>3, <1>10, <1>11, <1>12
<1>14. Successful(j)'
  BY <1>3, <1>5, <1>10, <1>11, <1>12 DEF Successful
<1>15. \A k \in DOMAIN rows : /\ rows'[k].att = rows[k].att
                              /\ rows'[k].dep = rows[k].dep \/ (k = node /\ rows'[k].dep = Width(c, 0))
                              /\ rows'[k].st = rows[k].st \/ (k = j /\ rows'[k].st = "successful")
  BY <1>3, <1>10, <1>11, <1>12
<1>16. \A k \in DOMAIN rows' : k \notin DOMAIN rows =>
        k \in js /\ rows'[k].att = 0 /\ rows'[k].st = "queued"
  BY <1>3, <1>5, <1>10, <1>11, <1>12
<1>17. /\ \A k \in js : Produced(k)' /\ \A n : Awaits(k, n)
       /\ Awaits(node, Width(c, 0))
  <2>1. Awaits(node, Width(c, 0)) /\ \A k \in js : \A n : Awaits(k, n)
    BY <1>7, <1>8 DEF Awaits
  <2>2. \A k : k[3] = b /\ k[4] = c /\ k[2] = 1 /\ k[1] = "prover" => Produced(k)'
    BY <1>6, <1>14 DEF Produced
  <2> QED BY <1>7, <2>1, <2>2
<1>18. \A k \in DOMAIN rows' : Awaits(k, rows'[k].dep)
  BY <1>1, <1>15, <1>16, <1>17 DEF TreeInv
<1>19. \A k \in DOMAIN rows' : k \notin DOMAIN rows =>
                /\ Known(k) /\ Produced(k)' /\ rows'[k].att = 0
                /\ k[1] # "wg" /\ rows'[k].st = "queued"
  BY <1>7, <1>16, <1>17
<1>20. RowsKept
  BY <1>1, <1>4, <1>5, <1>13, <1>15, <1>18, <1>19, FinishStep
<1>21. FaultTypes'
  BY <1>1, <1>4, FaultTyped
<1> QED BY <1>4, <1>20, <1>21, DropStepInv

\* The compressor, and what happens when a job fails or its worker dies.
LEMMA DropInv ==
    ASSUME IInv, NEW w \in Workers,
           \/ mark_proof_compression_job_successful(w) \/ update_status(w)
           \/ save_failure(w) \/ ProofsMissing(w) \/ Crash(w) \/ GiveUp(w)
    PROVE  IInv'
<1>1. Types /\ TreeInv /\ Attempts /\ FaultTypes
  BY DEF IInv, Types
<1>2. PICK j : j = hold[w].job
  OBVIOUS
<1>3. /\ pgd' = pgd /\ fetched' = fetched /\ archived' = archived /\ gpu' = gpu /\ sent' = sent
      /\ Fault \/ faults' = faults
      /\ hold' = [hold EXCEPT ![w] = Idle]
  BY DEF mark_proof_compression_job_successful, update_status, save_failure, ProofsMissing, Crash, GiveUp, Finish
<1>4. FaultTypes'
  BY <1>1, <1>3, FaultTyped
<1>5. /\ "successful" \in Statuses \ {"waiting_for_proofs"} /\ "failed" \in Statuses \ {"waiting_for_proofs"}
      /\ "in_gpu_proof" \in Statuses \ {"waiting_for_proofs"}
  BY DEF Statuses
<1>6. CASE mark_proof_compression_job_successful(w)
  <2>1. rows' = SetStatus(rows, {j}, "successful") /\ j[1] = "compressor"
    BY <1>2, <1>6 DEF mark_proof_compression_job_successful, Finish, Holds
  <2>2. RowsKept
    BY <1>1, <1>3, <1>5, <2>1, StatusStep
  <2> QED BY <1>3, <1>4, <2>2, DropStepInv
<1>7. CASE update_status(w)
  <2> DEFINE js == {k \in {j} : k \in DOMAIN rows /\ ~Successful(k)}
  <2>1. rows' = SetStatus(rows, js, "in_gpu_proof") /\ j[1] = "prover"
    BY <1>2, <1>7 DEF update_status, HoldsVector, Finish
  <2>2. \A k \in js : rows[k].st # "successful" /\ k[1] = "prover"
    BY <2>1 DEF Successful
  <2> HIDE DEF js
  <2>3. RowsKept
    BY <1>1, <1>3, <1>5, <2>1, <2>2, StatusStep
  <2> QED BY <1>3, <1>4, <2>3, DropStepInv
<1>8. CASE save_failure(w) \/ ProofsMissing(w)
  <2> DEFINE js == {k \in {j} : k \in DOMAIN rows /\ rows[k].st \notin Protected}
  <2>1. rows' = SetStatus(rows, js, "failed")
    BY <1>2, <1>8 DEF save_failure, ProofsMissing, MarkFailed
  <2>2. \A k \in js : rows[k].st # "successful" /\ k = j /\ k \in DOMAIN rows
    BY DEF Protected
  <2> HIDE DEF js
  <2>3. j[1] = "wg" => Started(j)
    BY <1>2, HeldRow
  <2>4. RowsKept
    BY <1>1, <1>3, <1>5, <2>1, <2>2, <2>3, StatusStep
  <2> QED BY <1>3, <1>4, <2>4, DropStepInv
<1>9. CASE Crash(w) \/ GiveUp(w)
  <2>1. rows' = rows
    BY <1>9 DEF Crash, GiveUp
  <2>2. RowsKept
    BY <1>1, <1>3, <2>1, RowsSame
  <2> QED BY <1>3, <1>4, <2>2, DropStepInv
<1> QED BY <1>6, <1>7, <1>8, <1>9

-----------------------------------------------------------------------------
(* The GPU prover.                                                         *)

GpuStates == {"available", "reserved", "full", "dead"}
\* A prover whose queue is within its capacity and holds prover jobs only.
SoundGpu(g) ==
    /\ g \in [st : GpuStates, queue : Seq(Job)] /\ Len(g.queue) <= QueueSize
    /\ \A i \in DOMAIN g.queue : g.queue[i][1] = "prover"

\* The steps of the prover.
LEMMA GpuSteps ==
    ASSUME NEW g, SoundGpu(g)
    PROVE  /\ SoundGpu(StartedProver)
           /\ \A s \in GpuStates : SoundGpu([g EXCEPT !.st = s])
           /\ \A j \in Job, s \in GpuStates : j[1] = "prover" /\ Len(g.queue) < QueueSize =>
                SoundGpu([g EXCEPT !.queue = Append(g.queue, j), !.st = s])
           /\ g.queue # <<>> => /\ SoundGpu(ProverTakes(g)) /\ Head(g.queue) \in Job
                                /\ Head(g.queue)[1] = "prover"
<1>1. /\ g.st \in GpuStates /\ g.queue \in Seq(Job) /\ Len(g.queue) \in Nat /\ Len(g.queue) <= QueueSize
      /\ g = [st |-> g.st, queue |-> g.queue] /\ QueueSize \in Nat
      /\ \A i \in 1 .. Len(g.queue) : g.queue[i][1] = "prover"
  BY ConstantTypes DEF SoundGpu
<1>2. ASSUME NEW s \in GpuStates, NEW q \in Seq(Job), Len(q) <= QueueSize,
             \A i \in 1 .. Len(q) : q[i][1] = "prover"
      PROVE  SoundGpu([st |-> s, queue |-> q])
  <2>1. [st |-> s, queue |-> q].queue = q /\ DOMAIN q = 1 .. Len(q)
    OBVIOUS
  <2>2. [st |-> s, queue |-> q] \in [st : GpuStates, queue : Seq(Job)]
    OBVIOUS
  <2> QED BY <1>2, <2>1, <2>2 DEF SoundGpu
<1>3. SoundGpu(StartedProver)
  <2>1. <<>> \in Seq(Job) /\ Len(<<>>) = 0 /\ "available" \in GpuStates
    BY DEF GpuStates
  <2>2. Len(<<>>) <= QueueSize /\ \A i \in 1 .. Len(<<>>) : <<>>[i][1] = "prover"
    BY <1>1, <2>1
  <2> QED BY <1>2, <2>1, <2>2 DEF StartedProver
<1>4. ASSUME NEW s \in GpuStates PROVE SoundGpu([g EXCEPT !.st = s])
  <2>1. [g EXCEPT !.st = s] = [st |-> s, queue |-> g.queue]
    BY <1>1
  <2> QED BY <1>1, <1>2, <2>1
<1>5. ASSUME NEW s, NEW q PROVE [g EXCEPT !.queue = q, !.st = s] = [st |-> s, queue |-> q]
  <2> DEFINE h == [g EXCEPT !.queue = q]
  <2>1. h = [st |-> g.st, queue |-> q]
    BY <1>1
  <2>2. [g EXCEPT !.queue = q, !.st = s] = [h EXCEPT !.st = s]
    OBVIOUS
  <2> HIDE DEF h
  <2>3. [h EXCEPT !.st = s] = [st |-> s, queue |-> q]
    BY <2>1
  <2> QED BY <2>2, <2>3
<1>6. ASSUME NEW j \in Job, NEW s \in GpuStates, j[1] = "prover", Len(g.queue) < QueueSize
      PROVE  SoundGpu([g EXCEPT !.queue = Append(g.queue, j), !.st = s])
  <2> DEFINE q == Append(g.queue, j)
  <2>1. q \in Seq(Job) /\ Len(q) = Len(g.queue) + 1
    BY <1>1
  <2>2. \A i \in 1 .. Len(q) : q[i] = IF i = Len(g.queue) + 1 THEN j ELSE g.queue[i]
    BY <1>1, <2>1
  <2> HIDE DEF q
  <2>3. [g EXCEPT !.queue = q, !.st = s] = [st |-> s, queue |-> q]
    BY <1>5
  <2>4. Len(q) <= QueueSize
    BY <1>1, <1>6, <2>1
  <2>5. \A i \in 1 .. Len(q) : q[i][1] = "prover"
    <3>1. \A i \in 1 .. Len(q) : i # Len(g.queue) + 1 => i \in 1 .. Len(g.queue)
      BY <1>1, <2>1
    <3> QED BY <1>1, <1>6, <2>2, <3>1
  <2>6. SoundGpu([st |-> s, queue |-> q])
    BY <1>2, <2>1, <2>4, <2>5
  <2> QED BY <2>3, <2>6 DEF q
<1>7. ASSUME g.queue # <<>>
      PROVE  SoundGpu(ProverTakes(g)) /\ Head(g.queue) \in Job /\ Head(g.queue)[1] = "prover"
  <2> DEFINE q == Tail(g.queue)
             s == IF Len(g.queue) = QueueSize /\ g.st = "full" THEN "available" ELSE g.st
  <2>1. q \in Seq(Job) /\ Len(q) = Len(g.queue) - 1 /\ Head(g.queue) = g.queue[1] /\ Len(g.queue) >= 1
    BY <1>1, <1>7
  <2>2. \A i \in 1 .. Len(q) : q[i] = g.queue[i + 1]
    BY <1>1, <1>7, <2>1
  <2>3. s \in GpuStates
    BY <1>1 DEF GpuStates
  <2>4. ProverTakes(g) = [g EXCEPT !.queue = q, !.st = s]
    BY DEF ProverTakes
  <2> HIDE DEF q, s
  <2>5. ProverTakes(g) = [st |-> s, queue |-> q]
    BY <1>5, <2>4
  <2>6. Len(q) <= QueueSize
    BY <1>1, <2>1
  <2>7. \A i \in 1 .. Len(q) : q[i][1] = "prover"
    <3>1. \A i \in 1 .. Len(q) : i + 1 \in 1 .. Len(g.queue)
      BY <1>1, <2>1
    <3> QED BY <1>1, <2>2, <3>1
  <2>8. SoundGpu(ProverTakes(g))
    BY <1>2, <2>1, <2>3, <2>5, <2>6, <2>7
  <2>9. 1 \in 1 .. Len(g.queue)
    BY <1>1, <2>1
  <2>10. Head(g.queue) \in Job
    BY <1>1, <2>1, <2>9
  <2> QED BY <1>1, <2>1, <2>8, <2>9, <2>10
<1> QED BY <1>3, <1>4, <1>6, <1>7

\* A step of the prover, or of a worker that talks to it.
LEMMA GpuStepInv ==
    ASSUME IInv, RowsKept, FaultTypes', SoundGpu(gpu'), hold' \in [Workers -> [job : Job, pos : Nat]],
           \A v \in Workers : hold'[v].job \in {NoJob, hold[v].job},
           pgd' = pgd, fetched' = fetched, sent' = sent
    PROVE  IInv'
<1>1. WorkTypes' /\ CoreTypes'
  BY DEF IInv, Types, WorkTypes, CoreTypes, SoundGpu, GpuStates
<1>2. \A i \in DOMAIN gpu'.queue : gpu'.queue[i][1] = "prover"
  BY DEF SoundGpu
<1> QED BY <1>1, <1>2, StepInv

\* A worker reserves the prover, sends it a vector or fails to.
LEMMA SendInv ==
    ASSUME IInv, NEW w \in Workers,
           lock_available_prover(w) \/ handle_incoming_file(w) \/ QueueOverflow(w) \/ SendFails(w)
    PROVE  IInv'
<1>1. Types /\ TreeInv /\ Attempts /\ FaultTypes /\ WorkTypes /\ SoundGpu(gpu)
  BY DEF IInv, Types, SoundGpu, GpuStates, WorkTypes, InHand
<1>2. PICK j : j = hold[w].job
  OBVIOUS
<1>3. /\ pgd' = pgd /\ fetched' = fetched /\ archived' = archived /\ sent' = sent
      /\ Fault \/ faults' = faults
      /\ \E n \in Nat : hold' = [hold EXCEPT ![w].pos = n]
      /\ j[1] = "prover"
  BY <1>2 DEF lock_available_prover, handle_incoming_file, QueueOverflow, SendFails, HoldsVector
<1>4. FaultTypes'
  BY <1>1, <1>3, FaultTyped
<1>5. /\ hold' \in [Workers -> [job : Job, pos : Nat]]
      /\ \A v \in Workers : hold'[v].job \in {NoJob, hold[v].job}
  BY <1>1, <1>3, HeldAfter
<1>6. SoundGpu(gpu')
  <2>1. CASE lock_available_prover(w)
    <3>1. gpu' = [gpu EXCEPT !.st = "reserved"] /\ "reserved" \in GpuStates
      BY <2>1 DEF lock_available_prover, GpuStates
    <3> QED BY <1>1, <3>1, GpuSteps
  <2>2. CASE handle_incoming_file(w)
    <3> DEFINE s == IF Len(Append(gpu.queue, j)) = QueueSize THEN "full" ELSE "available"
    <3>1. s \in GpuStates /\ Len(gpu.queue) < QueueSize
      BY <2>2 DEF handle_incoming_file, GpuStates
    <3>2. gpu' = [gpu EXCEPT !.queue = Append(gpu.queue, j), !.st = s]
      BY <1>2, <2>2 DEF handle_incoming_file
    <3>3. j \in Job
      BY <1>1, <1>2 DEF WorkTypes
    <3> HIDE DEF s
    <3> QED BY <1>1, <1>3, <3>1, <3>2, <3>3, GpuSteps
  <2>3. CASE QueueOverflow(w)
    <3>1. gpu' = StartedProver
      BY <2>3 DEF QueueOverflow
    <3> QED BY <1>1, <3>1, GpuSteps
  <2>4. CASE SendFails(w)
    <3>1. gpu' = [gpu EXCEPT !.st = "dead"] /\ "dead" \in GpuStates
      BY <2>4 DEF SendFails, GpuStates
    <3> QED BY <1>1, <3>1, GpuSteps
  <2> QED BY <2>1, <2>2, <2>3, <2>4
<1>7. RowsKept
  <2>1. CASE rows' = rows
    BY <1>1, <1>3, <2>1, RowsSame
  <2>2. CASE SendFails(w)
    <3> DEFINE js == {k \in {j} : k \in DOMAIN rows /\ rows[k].st \notin Protected}
    <3>1. rows' = SetStatus(rows, js, "failed")
      BY <1>2, <2>2 DEF SendFails, MarkFailed
    <3>2. \A k \in js : rows[k].st # "successful" /\ k[1] = "prover"
      BY <1>3 DEF Protected
    <3>3. "failed" \in Statuses \ {"waiting_for_proofs"}
      BY DEF Statuses
    <3> HIDE DEF js
    <3> QED BY <1>1, <1>3, <3>1, <3>2, <3>3, StatusStep
  <2> QED BY <2>1, <2>2 DEF lock_available_prover, handle_incoming_file, QueueOverflow
<1> QED BY <1>3, <1>4, <1>5, <1>6, <1>7, GpuStepInv

\* The prover saves a proof: the scheduler's one also starts the compression.
LEMMA SaveProofInv ==
    ASSUME IInv, save_proof
    PROVE  IInv'
<1>1. Types /\ TreeInv /\ Attempts /\ FaultTypes /\ WorkTypes /\ SoundGpu(gpu)
  BY DEF IInv, Types, SoundGpu, GpuStates, WorkTypes, InHand
<1>2. PICK j : j = Head(gpu.queue)
  OBVIOUS
<1> DEFINE t == SetStatus(rows, {j}, "successful")
           comp == CompJob(j[3])
           u == Insert(t, {comp}, "queued", 0)
<1>3. /\ gpu.queue # <<>> /\ rows' = IF j[2] = 4 /\ j \in DOMAIN rows THEN u ELSE t
      /\ gpu' \in {ProverTakes(gpu), StartedProver}
      /\ pgd' = pgd /\ fetched' = fetched /\ archived' = archived /\ sent' = sent /\ faults' = faults
      /\ hold' = hold
  BY <1>2 DEF save_proof
<1>4. SoundGpu(gpu') /\ j[1] = "prover"
  BY <1>1, <1>2, <1>3, GpuSteps
<1>5. "queued" \in Statuses /\ "successful" \in Statuses /\ \A k \in DOMAIN rows : rows[k] \in Row
  BY <1>1 DEF Statuses, Types, RowTypes
<1>6. RowsKept
  <2>1. CASE ~(j[2] = 4 /\ j \in DOMAIN rows)
    <3>1. rows' = SetStatus(rows, {j}, "successful")
      BY <1>3, <2>1
    <3>2. "successful" \in Statuses \ {"waiting_for_proofs"}
      BY <1>5
    <3> DEFINE js == {j}
    <3>3. \A k \in js : k[1] = "prover"
      BY <1>4
    <3>4. rows' = SetStatus(rows, js, "successful") /\ archived' = archived
      BY <1>3, <3>1
    <3> HIDE DEF js, t, u, comp
    <3> QED BY <1>1, <3>2, <3>3, <3>4, StatusStep
  <2>2. CASE j[2] = 4 /\ j \in DOMAIN rows
    <3>1. Known(j) /\ Produced(j) /\ j[3] \in Batches
      BY <1>1, <2>2 DEF TreeInv, Known
    <3>2. Known(comp) /\ comp[1] = "compressor" /\ comp[3] = j[3]
      BY <3>1, BatchJobs
    <3>3. Successful(SchedJob(j[3]))
      BY <1>4, <2>2, <3>1 DEF Produced
    <3> HIDE DEF comp
    <3>4. /\ DOMAIN t = DOMAIN rows
          /\ \A k \in DOMAIN rows :
                /\ t[k] \in Row /\ t[k].att = rows[k].att /\ t[k].dep = rows[k].dep
                /\ k \in {j} => t[k].st = "successful"
                /\ k \notin {j} => t[k] = rows[k]
      BY <1>5, SetStatusRows
    <3> HIDE DEF t
    <3>5. /\ DOMAIN u = DOMAIN t \cup {comp}
          /\ \A k \in DOMAIN t : u[k] = t[k]
          /\ \A k \in {comp} \ DOMAIN t : u[k].st = "queued" /\ u[k].att = 0 /\ u[k].dep = 0
          /\ \A k \in DOMAIN u : u[k] \in Row
      BY <1>5, <3>4, InsertRowsInto
    <3>6. rows' = u
      BY <1>3, <2>2
    <3> HIDE DEF u
    <3>7. DOMAIN rows \subseteq DOMAIN rows' /\ \A k \in DOMAIN rows' : rows'[k] \in Row
      BY <3>4, <3>5, <3>6
    <3>8. \A k \in DOMAIN rows : /\ rows'[k].att = rows[k].att /\ rows'[k].dep = rows[k].dep
                                 /\ rows'[k].st = rows[k].st \/ (k = j /\ rows'[k].st = "successful")
      BY <3>4, <3>5, <3>6
    <3>9. \A k \in DOMAIN rows' : k \notin DOMAIN rows =>
            k = comp /\ rows'[k].att = 0 /\ rows'[k].st = "queued"
      BY <3>4, <3>5, <3>6
    <3>10. \A k : Successful(k) => Successful(k)'
      BY <3>7, <3>8 DEF Successful
    <3>15. j = ProverJob(4, j[3], 0, 0, 1)
      <4>1. j = <<j[1], j[2], j[3], j[4], j[5], j[6]>>
        BY <3>1, JobColumns DEF Known
      <4>2. j[4] = 0 /\ j[5] = 0 /\ j[6] = 1
        BY <1>4, <2>2, <3>1 DEF Known
      <4> QED BY <1>4, <2>2, <4>1, <4>2 DEF ProverJob
    <3>16. Done(j)'
      BY <2>2, <3>4, <3>5, <3>6 DEF Done, Successful
    <3>17. Done(ProverJob(4, j[3], 0, 0, 1))'
      BY <3>15, <3>16
    <3>11. \A k : k = comp => Produced(k)'
      BY <3>2, <3>3, <3>10, <3>17 DEF Produced
    <3>12. \A n : Awaits(comp, n)
      BY <3>2 DEF Awaits
    <3>13. \A k \in DOMAIN rows' : Awaits(k, rows'[k].dep)
      BY <1>1, <3>8, <3>9, <3>12 DEF TreeInv
    <3>14. \A k \in DOMAIN rows' : k \notin DOMAIN rows =>
                /\ Known(k) /\ Produced(k)' /\ rows'[k].att = 0
                /\ k[1] # "wg" /\ rows'[k].st = "queued"
      BY <3>2, <3>9, <3>11
    <3> QED BY <1>1, <1>3, <1>4, <3>7, <3>8, <3>13, <3>14, FinishStep
  <2> QED BY <2>1, <2>2
<1>7. /\ hold' \in [Workers -> [job : Job, pos : Nat]]
      /\ \A v \in Workers : hold'[v].job \in {NoJob, hold[v].job}
  BY <1>1, <1>3 DEF WorkTypes
<1>8. FaultTypes'
  BY <1>1, <1>3, FaultTyped
<1> QED BY <1>3, <1>4, <1>6, <1>7, <1>8, GpuStepInv

\* The prover fails a job, crashes, or is started again.
LEMMA GpuFaultInv ==
    ASSUME IInv, save_proof_error \/ GpuCrash \/ ReviveProver
    PROVE  IInv'
<1>1. Types /\ TreeInv /\ Attempts /\ FaultTypes /\ WorkTypes /\ SoundGpu(gpu)
  BY DEF IInv, Types, SoundGpu, GpuStates, WorkTypes, InHand
<1>2. PICK j : j = Head(gpu.queue)
  OBVIOUS
<1> DEFINE js == {k \in {j} : k \in DOMAIN rows /\ rows[k].st \notin Protected}
<1>3. /\ pgd' = pgd /\ fetched' = fetched /\ archived' = archived /\ sent' = sent /\ hold' = hold
      /\ Fault \/ faults' = faults
      /\ \/ gpu' = StartedProver /\ rows' = rows
         \/ /\ gpu.queue # <<>> /\ gpu' = ProverTakes(gpu)
            /\ rows' = SetStatus(rows, js, "failed")
  BY <1>2 DEF save_proof_error, GpuCrash, ReviveProver, MarkFailed
<1>4. SoundGpu(gpu') /\ (gpu.queue # <<>> => j[1] = "prover")
  BY <1>1, <1>2, <1>3, GpuSteps
<1>5. RowsKept
  <2>1. CASE rows' = rows
    BY <1>1, <1>3, <2>1, RowsSame
  <2>2. CASE gpu.queue # <<>> /\ rows' = SetStatus(rows, js, "failed")
    <3>1. \A k \in js : rows[k].st # "successful" /\ k[1] = "prover"
      BY <1>4, <2>2 DEF Protected
    <3>2. "failed" \in Statuses \ {"waiting_for_proofs"}
      BY DEF Statuses
    <3> HIDE DEF js
    <3> QED BY <1>1, <1>3, <2>2, <3>1, <3>2, StatusStep
  <2> QED BY <1>3, <2>1, <2>2
<1>6. /\ hold' \in [Workers -> [job : Job, pos : Nat]]
      /\ \A v \in Workers : hold'[v].job \in {NoJob, hold[v].job}
  BY <1>1, <1>3 DEF WorkTypes
<1>7. FaultTypes'
  BY <1>1, <1>3, FaultTyped
<1> QED BY <1>3, <1>4, <1>5, <1>6, <1>7, GpuStepInv

-----------------------------------------------------------------------------
(* Theorems.                                                               *)

\* Every step keeps the invariant.
LEMMA NextInv == IInv /\ [Next]_vars => IInv'
<1> SUFFICES ASSUME IInv, [Next]_vars PROVE IInv'
  OBVIOUS
<1>1. CASE UNCHANGED vars
  <2>1. /\ rows' = rows /\ archived' = archived /\ hold' = hold /\ gpu' = gpu /\ pgd' = pgd
        /\ fetched' = fetched /\ sent' = sent /\ faults' = faults
    BY <1>1 DEF vars
  <2>2. RowsKept /\ FaultTypes' /\ CoreTypes'
    BY <2>1, RowsSame DEF IInv, Types, FaultTypes, CoreTypes
  <2> QED BY <2>1, <2>2, TableStepInv
<1>2. CASE Next
  <2>1. CASE (\E b \in Batches : Core(b) \/ ArchiveSent(b)) \/ \E j \in ProverRows : ArchiveEarly(j)
    BY <2>1, CoreInv, ArchiveInv DEF ArchiveSent, ArchiveEarly
  <2>2. CASE Gateway \/ Submitter \/ HouseKeeper
    BY <2>2, GatewayInv, SubmitterInv, HouseKeeperInv
  <2>3. CASE \E j \in DOMAIN rows : requeue_stuck_jobs(j) \/ RequeueEarly(j)
    BY <2>3, RequeueInv
  <2>4. CASE \E w \in Workers : Work(w) \/ WorkerFault(w)
    <3>1. PICK w \in Workers : Work(w) \/ WorkerFault(w)
      BY <2>4
    <3>2. CASE GetNextJob(w) \/ GetNextTip(w) \/ GetNextScheduler(w) \/ GetNextCompression(w)
      BY <3>2, TakeInv
    <3>3. CASE InsertBasicProofs(w) \/ InsertAggregationRow(w) \/ mark_witness_job_as_successful(w)
      BY <3>3, BasicGeneratorInv
    <3>4. CASE SaveLeaf(w) \/ SaveNodeContinue(w) \/ SaveNodeFinal(w) \/ SaveTip(w) \/ SaveScheduler(w)
      BY <3>4, SaveLeafInv, SaveNodeContinueInv, SaveNodeFinalInv, SaveTopInv
    <3>5. CASE \/ mark_proof_compression_job_successful(w) \/ update_status(w)
               \/ save_failure(w) \/ ProofsMissing(w) \/ Crash(w) \/ GiveUp(w)
      BY <3>5, DropInv
    <3>6. CASE lock_available_prover(w) \/ handle_incoming_file(w) \/ QueueOverflow(w) \/ SendFails(w)
      BY <3>6, SendInv
    <3> QED BY <3>1, <3>2, <3>3, <3>4, <3>5, <3>6 DEF Work, WorkerFault
  <2>5. CASE save_proof \/ save_proof_error \/ GpuCrash \/ ReviveProver
    BY <2>5, SaveProofInv, GpuFaultInv
  <2> QED BY <1>2, <2>1, <2>2, <2>3, <2>4, <2>5 DEF Next
<1> QED BY <1>1, <1>2

\* The inductive invariant: the rows of a batch always form a proof tree in which
\* every job that was released has its inputs, whatever crashes, is late or repeated.
THEOREM TreeInvariant == Spec => []IInv
  BY InitInv, NextInv, PTL DEF Spec

\* Every row, archived or not, is one of a batch's proof tree (no job is at a depth
\* above the final one, no proof beyond the width of its depth), and attempts, the
\* prover's queue and the faults stay within their bounds: no job is tried more than max_attempts times, and the witness vector
\* queue never exceeds its capacity, however requeues and late results interleave.
THEOREM ProofTypes == Spec => []TypeOK
<1>1. IInv => TypeOK
  <2> SUFFICES ASSUME IInv PROVE TypeOK
    OBVIOUS
  <2>1. \A b \in Batches : pgd[b].st \in {"none", "unpicked", "picked_by_prover", "generated"}
    BY DEF IInv, Types, CoreTypes, Details
  <2>2. fetched \in Batches \cup {0} /\ sent \in Batches \cup {0} /\ faults \in 0 .. MaxFaults
    BY DEF IInv, Types, CoreTypes, FaultTypes
  <2>3. \A j \in DOMAIN rows : rows[j].st \in Statuses /\ rows[j].att \in 0 .. MaxAttempts /\ rows[j].dep \in Nat
    BY DEF IInv, Types, RowTypes, Row
  <2>4. \A w \in Workers : hold[w].pos \in Nat
    BY DEF IInv, Types, WorkTypes
  <2>5. gpu.st \in {"available", "reserved", "full", "dead"} /\ Len(gpu.queue) <= QueueSize
    BY DEF IInv, Types, WorkTypes
  <2>6. \A j \in DOMAIN rows \cup archived : Known(j)
    BY DEF IInv, TreeInv
  <2> QED BY <2>1, <2>2, <2>3, <2>4, <2>5, <2>6 DEF TypeOK
<1> QED BY <1>1, TreeInvariant, PTL

\* A witness or compressor job is released only when every proof it aggregates has
\* been produced: what it does not find when it is picked was archived.  The leaf,
\* node, tip and scheduler generators never see a job released too early.
THEOREM InputsAreProven == Spec => []InputsProven
<1>1. IInv => InputsProven
  <2> SUFFICES ASSUME IInv, NEW j \in DOMAIN rows, j[1] # "prover",
                      rows[j].st # "waiting_for_proofs", NEW p \in InputProofs(j)
               PROVE  Done(p)
    BY DEF InputsProven
  <2>1. TreeInv /\ Known(j) /\ Produced(j) /\ Started(j)
    BY DEF IInv, TreeInv, Started
  <2>2. CASE j[1] = "wg"
    BY <2>1, <2>2 DEF TreeInv
  <2>3. CASE j[1] = "compressor"
    <3>1. p = ProverJob(4, j[3], 0, 0, 1)
      BY <2>1, <2>3, InputProofsOf DEF Known
    <3> QED BY <2>1, <2>3, <3>1 DEF Produced
  <2> QED BY <2>1, <2>2, <2>3 DEF Known
<1> QED BY <1>1, TreeInvariant, PTL

\* A compressed proof, and a batch that submit_proof marked generated on the core's
\* side, rest on the whole tree: every aggregation job of the batch is done and every
\* proof any of its rows reads was produced.
THEOREM TreeIsWhole == Spec => []WholeTreeProven
<1>1. IInv => WholeTreeProven
  <2> SUFFICES ASSUME IInv, NEW b \in Batches, CompJob(b) \in DOMAIN rows \/ pgd[b].st = "generated"
               PROVE  /\ Successful(SchedJob(b)) /\ Successful(TipJob(b))
                      /\ \A c \in Circuits : Successful(LeafJob(b, c)) /\ Successful(NodeJob(b, c, 0))
                      /\ \A j \in UNION {InputProofs(k) : k \in {i \in DOMAIN rows : i[3] = b}} :
                            Done(j)
    BY DEF WholeTreeProven
  <2>1. TreeInv /\ CompJob(b) \in DOMAIN rows
    BY DEF IInv, Submitted
  <2>2. /\ Successful(SchedJob(b)) /\ Successful(TipJob(b))
        /\ \A c \in Circuits : /\ Successful(LeafJob(b, c)) /\ Successful(NodeJob(b, c, 0))
                               /\ \A d \in 0 .. FinalDepth(c) - 1 : Successful(NodeJob(b, c, d))
    BY <2>1, WholeTree
  <2>3. \A k : Successful(k) /\ k[1] = "wg" => \A p \in InputProofs(k) : Done(p)
    BY <2>1 DEF TreeInv, Successful, Started
  <2>4. ASSUME NEW k \in DOMAIN rows, k[3] = b, NEW p \in InputProofs(k) PROVE Done(p)
    <3>1. Known(k) /\ k[2] \in 0 .. 5
      BY <2>1 DEF TreeInv, Known, Job
    <3>2. CASE k[2] = 0
      BY <3>2, InputProofsOf
    <3>7. CASE k[2] = 5
      <4>1. p = ProverJob(4, b, 0, 0, 1) /\ Produced(CompJob(b))
        BY <2>1, <2>4, <3>7, InputProofsOf DEF TreeInv
      <4> QED BY <4>1, BatchJobs DEF Produced
    <3>3. CASE k[2] = 1
      <4>1. k[4] \in Circuits
        BY <3>1, <3>3 DEF Known
      <4>2. InputProofs(k) = InputProofs(LeafJob(b, k[4])) /\ LeafJob(b, k[4])[1] = "wg"
        BY <2>4, <3>3, <4>1, CircuitJobs, InputProofsOf
      <4> QED BY <2>2, <2>3, <2>4, <4>1, <4>2
    <3>4. CASE k[2] = 3
      <4>1. InputProofs(k) = InputProofs(TipJob(b)) /\ TipJob(b)[1] = "wg"
        <5>1. TipJob(b)[1] = "wg" /\ TipJob(b)[2] = 3 /\ TipJob(b)[3] = b
          BY BatchJobs
        <5>2. InputProofs(k) = {ProverJob(2, b, c, FinalDepth(c), 1) : c \in Circuits}
          BY <2>4, <3>4, InputProofsOf
        <5>3. InputProofs(TipJob(b)) = {ProverJob(2, b, c, FinalDepth(c), 1) : c \in Circuits}
          BY <5>1, InputProofsOf
        <5> QED BY <5>1, <5>2, <5>3
      <4> QED BY <2>2, <2>3, <2>4, <4>1
    <3>5. CASE k[2] = 4
      <4>1. InputProofs(k) = InputProofs(SchedJob(b)) /\ SchedJob(b)[1] = "wg"
        <5>1. SchedJob(b)[1] = "wg" /\ SchedJob(b)[2] = 4 /\ SchedJob(b)[3] = b
          BY BatchJobs
        <5>2. InputProofs(k) = {ProverJob(3, b, 0, 0, 1)}
          BY <2>4, <3>5, InputProofsOf
        <5>3. InputProofs(SchedJob(b)) = {ProverJob(3, b, 0, 0, 1)}
          BY <5>1, InputProofsOf
        <5> QED BY <5>1, <5>2, <5>3
      <4> QED BY <2>2, <2>3, <2>4, <4>1
    <3>6. CASE k[2] = 2
      <4> DEFINE c == k[4]
                 d == k[5]
      <4>1. c \in Circuits /\ d \in 0 .. MaxDepth
        BY <3>1, <3>6, ConstantTypes DEF Known
      <4>2. FinalDepth(c) \in 1 .. MaxDepth /\ Width(c, FinalDepth(c)) = 1 /\ MaxDepth \in Nat
        BY <4>1, FinalDepthUnique, ConstantTypes
      <4>3. d <= FinalDepth(c) /\ (k[1] = "wg" => d <= FinalDepth(c) - 1)
        <5>1. CASE k[1] = "wg"
          <6>1. NodeDepth(c, d)
            BY <3>1, <3>6, <5>1 DEF Known
          <6>2. d <= FinalDepth(c) - 1
            BY <4>1, <6>1, FinalDepthUnique
          <6> QED BY <4>1, <4>2, <6>2
        <5>2. CASE k[1] # "wg"
          <6>1. d \in 1 .. MaxDepth /\ NodeDepth(c, d - 1)
            BY <3>1, <3>6, <5>2 DEF Known
          <6>2. d - 1 \in 0 .. MaxDepth
            BY <4>2, <6>1
          <6>3. d - 1 <= FinalDepth(c) - 1
            BY <4>1, <6>1, <6>2, FinalDepthUnique
          <6> QED BY <4>1, <4>2, <5>2, <6>3
        <5> QED BY <5>1, <5>2
      <4>4. CASE d <= FinalDepth(c) - 1
        <5>1. d \in 0 .. FinalDepth(c) - 1 /\ d \in Nat
          BY <4>1, <4>2, <4>4
        <5>2. /\ NodeJob(b, c, d)[1] = "wg" /\ NodeJob(b, c, d)[2] = 2 /\ NodeJob(b, c, d)[3] = b
              /\ NodeJob(b, c, d)[4] = c /\ NodeJob(b, c, d)[5] = d
          BY <4>1, CircuitJobs
        <5>3. InputProofs(k) = InputProofs(NodeJob(b, c, d))
          BY <2>4, <3>6, <5>1, <5>2, InputProofsOf
        <5> QED BY <2>2, <2>3, <2>4, <4>1, <5>1, <5>2, <5>3
      <4>5. CASE d = FinalDepth(c)
        <5>1. InputProofs(k) = NodeProofs(b, c, d)
          BY <2>4, <3>6, <4>2, <4>5, InputProofsOf
        <5>2. p = ProverJob(2, b, c, FinalDepth(c), 1)
          <6>1. PICK s \in 1 .. Width(c, d) : p = ProverJob(2, b, c, d, s)
            BY <2>4, <5>1 DEF NodeProofs
          <6>2. s = 1
            BY <4>2, <4>5
          <6> QED BY <4>5, <6>1, <6>2
        <5>3. p \in InputProofs(TipJob(b)) /\ TipJob(b)[1] = "wg"
          BY <4>1, <5>2, BatchJobs, InputProofsOf
        <5> QED BY <2>2, <2>3, <5>3
      <4> QED BY <4>1, <4>2, <4>3, <4>4, <4>5
    <3> QED BY <3>1, <3>2, <3>3, <3>4, <3>5, <3>6, <3>7
  <2> QED BY <2>2, <2>4
<1> QED BY <1>1, TreeInvariant, PTL

\* One row under the row operations.
LEMMA RowAfter ==
    ASSUME NEW t, NEW j \in DOMAIN t, t[j] \in Row
    PROVE  /\ \A js, st : /\ j \in DOMAIN SetStatus(t, js, st)
                          /\ SetStatus(t, js, st)[j].st = IF j \in js THEN st ELSE t[j].st
           /\ \A js, st, dep : j \in DOMAIN Insert(t, js, st, dep) /\ Insert(t, js, st, dep)[j] = t[j]
           /\ \A k, n : /\ j \in DOMAIN [t EXCEPT ![k].dep = n]
                        /\ [t EXCEPT ![k].dep = n][j].st = t[j].st
                        /\ n \in Nat => [t EXCEPT ![k].dep = n][j] \in Row
<1>1. ASSUME NEW js, NEW st
      PROVE  j \in DOMAIN SetStatus(t, js, st) /\ SetStatus(t, js, st)[j].st = IF j \in js THEN st ELSE t[j].st
  <2>1. SetStatus(t, js, st)[j] = IF j \in js THEN [t[j] EXCEPT !.st = st] ELSE t[j]
    BY DEF SetStatus
  <2>2. [t[j] EXCEPT !.st = st].st = st
    BY DEF Row
  <2> QED BY <2>1, <2>2 DEF SetStatus
<1>2. ASSUME NEW js, NEW st, NEW dep
      PROVE  j \in DOMAIN Insert(t, js, st, dep) /\ Insert(t, js, st, dep)[j] = t[j]
  BY DEF Insert
<1>3. ASSUME NEW k, NEW n
      PROVE  /\ j \in DOMAIN [t EXCEPT ![k].dep = n]
             /\ [t EXCEPT ![k].dep = n][j].st = t[j].st
             /\ n \in Nat => [t EXCEPT ![k].dep = n][j] \in Row
  <2>1. [t[j] EXCEPT !.dep = n].st = t[j].st /\ (n \in Nat => [t[j] EXCEPT !.dep = n] \in Row)
    BY DEF Row
  <2>2. [t EXCEPT ![k].dep = n][j] = IF j = k THEN [t[j] EXCEPT !.dep = n] ELSE t[j]
    OBVIOUS
  <2> QED BY <2>1, <2>2
<1> QED BY <1>1, <1>2, <1>3

\* A job that ends, whatever it inserts, leaves the successful rows alone.
LEMMA FinishKeeps ==
    ASSUME IInv, NEW w \in Workers, NEW k \in DOMAIN rows, rows[k].st = "successful",
           \/ SaveLeaf(w) \/ SaveNodeContinue(w) \/ SaveNodeFinal(w) \/ SaveTip(w) \/ SaveScheduler(w)
           \/ mark_witness_job_as_successful(w) \/ mark_proof_compression_job_successful(w)
    PROVE  rows'[k].st = "successful"
<1>1. rows[k] \in Row
  BY DEF IInv, Types, RowTypes
<1>2. ASSUME NEW t, k \in DOMAIN t, t[k] \in Row, t[k].st = "successful", NEW js
      PROVE  SetStatus(t, js, "successful")[k].st = "successful"
  BY <1>2, RowAfter
<1>3. ASSUME NEW js, NEW st, NEW dep
      PROVE  k \in DOMAIN Insert(rows, js, st, dep) /\ Insert(rows, js, st, dep)[k] = rows[k]
  BY <1>1, RowAfter
<1>4. CASE SaveLeaf(w)
  <2> DEFINE j == hold[w].job
             node == NodeJob(j[3], j[4], 0)
             t == Insert(rows, LeafProofs(j[3], j[4]), "queued", 0)
             u == IF node \in DOMAIN rows THEN [t EXCEPT ![node].dep = Width(j[4], 0)] ELSE t
  <2>1. rows' = SetStatus(u, {j}, "successful") /\ j[1] = "wg" /\ j[2] = 1
    BY <1>4 DEF SaveLeaf, Finish, Holds
  <2>2. Known(j) /\ 0 \in 0 .. MaxDepth
    BY <2>1, HeldRow, ConstantTypes
  <2>3. Width(j[4], 0) \in Nat
    <3>1. j[4] \in Circuits
      BY <2>1, <2>2 DEF Known
    <3> QED BY <2>2, <3>1, WidthTypes
  <2>4. k \in DOMAIN t /\ t[k] = rows[k]
    BY <1>3
  <2> HIDE DEF t, j, node
  <2>5. k \in DOMAIN u /\ u[k] \in Row /\ u[k].st = "successful"
    <3>1. CASE node \in DOMAIN rows
      BY <1>1, <2>3, <2>4, <3>1, RowAfter
    <3>2. CASE node \notin DOMAIN rows
      BY <1>1, <2>4, <3>2
    <3> QED BY <3>1, <3>2
  <2> HIDE DEF u
  <2> QED BY <1>2, <2>1, <2>5
<1>5. CASE SaveNodeContinue(w)
  <2> DEFINE j == hold[w].job
             b == j[3]
             c == j[4]
             d == j[5] + 1
             t == Insert(rows, NodeProofs(b, c, d), "queued", 0)
             u == Insert(t, {NodeJob(b, c, d)}, "waiting_for_proofs", Width(c, d))
  <2>1. rows' = SetStatus(u, {j}, "successful")
    BY <1>5 DEF SaveNodeContinue, Finish
  <2>2. k \in DOMAIN t /\ t[k] = rows[k]
    BY <1>3
  <2> HIDE DEF t, j, b, c, d
  <2>3. k \in DOMAIN u /\ u[k] = t[k]
    BY <1>1, <2>2, RowAfter
  <2> HIDE DEF u
  <2> QED BY <1>1, <1>2, <2>1, <2>2, <2>3
<1>6. CASE SaveNodeFinal(w) \/ SaveTip(w) \/ SaveScheduler(w)
  <2>1. PICK js, j : rows' = SetStatus(Insert(rows, js, "queued", 0), {j}, "successful")
    BY <1>6 DEF SaveNodeFinal, SaveTip, SaveScheduler, Finish
  <2> DEFINE t == Insert(rows, js, "queued", 0)
  <2>2. k \in DOMAIN t /\ t[k] = rows[k]
    BY <1>3
  <2>3. rows' = SetStatus(t, {j}, "successful")
    BY <2>1
  <2> HIDE DEF t
  <2> QED BY <1>1, <1>2, <2>2, <2>3
<1>7. CASE mark_witness_job_as_successful(w) \/ mark_proof_compression_job_successful(w)
  <2>1. rows' = SetStatus(rows, {hold[w].job}, "successful")
    BY <1>7 DEF mark_witness_job_as_successful, mark_proof_compression_job_successful, Finish
  <2> QED BY <1>1, <1>2, <2>1
<1> QED BY <1>4, <1>5, <1>6, <1>7

\* So does every other step, but for the archiver, and the sender's mark.
LEMMA RowsStayFinished ==
    ASSUME IInv, Next, NEW k \in DOMAIN rows, rows[k].st = "successful"
    PROVE  k \in archived' \ DOMAIN rows' \/ rows'[k].st \in {"successful", "sent_to_server"}
<1>1. rows[k] \in Row
  BY DEF IInv, Types, RowTypes
<1>2. ASSUME NEW js, NEW st, rows' = SetStatus(rows, js, st),
             k \notin js \/ st \in {"successful", "sent_to_server"}
      PROVE  rows'[k].st \in {"successful", "sent_to_server"}
  BY <1>1, <1>2, RowAfter
<1>3. ASSUME NEW js, NEW st, NEW dep, rows' = Insert(rows, js, st, dep)
      PROVE  rows'[k].st = "successful"
  BY <1>1, <1>3, RowAfter
<1>4. CASE (\E b \in Batches : Core(b) \/ ArchiveSent(b)) \/ \E j \in ProverRows : ArchiveEarly(j)
  <2>1. CASE \E b \in Batches : Core(b)
    BY <2>1 DEF Core, insert_proof_generation_details, save_vm_runner_artifacts_metadata,
                save_l1_batch_commitment_artifacts
  <2>2. CASE \E old : archive_old_jobs(old)
    <3>1. PICK old : rows' = [j \in DOMAIN rows \ old |-> rows[j]] /\ archived' = archived \cup old
      BY <2>2 DEF archive_old_jobs
    <3> QED BY <3>1
  <2> QED BY <1>4, <2>1, <2>2 DEF ArchiveSent, ArchiveEarly
<1>5. CASE Gateway
  <2>1. rows' = rows \/ rows' = Insert(rows, {WitJob(fetched)}, "queued", 0)
    BY <1>5 DEF Gateway, get_next_block_to_be_proven, save_witness_inputs, LoseFetched
  <2> QED BY <1>3, <2>1
<1>6. CASE Submitter
  <2>1. rows' = rows \/ rows' = SetStatus(rows, {CompJob(sent)}, "sent_to_server")
    BY <1>6 DEF Submitter, submit_proof, mark_proof_sent_to_server, LoseSubmitAnswer
  <2> QED BY <1>2, <2>1
<1>7. CASE HouseKeeper
  <2>1. PICK ready : rows' = SetStatus(rows, ready, "queued")
            /\ \A j \in ready : rows[j].st = "waiting_for_proofs"
    BY <1>7 DEF HouseKeeper, move_leaf_aggregation_jobs_from_waiting_to_queued,
         move_depth_zero_node_aggregation_jobs, move_depth_non_zero_node_aggregation_jobs,
         move_recursion_tip_jobs_from_waiting_to_queued, move_scheduler_jobs_from_waiting_to_queued,
         MoveToQueued, ReadyLeaves, ReadyDepthZero, ReadyDepthNonZero, ReadyTips, ReadySchedulers, Waiting
  <2> QED BY <1>2, <2>1
<1>8. CASE \E j \in DOMAIN rows : requeue_stuck_jobs(j) \/ RequeueEarly(j)
  <2>1. PICK j \in DOMAIN rows : rows[j].st # "successful" /\ rows' = SetStatus(rows, {j}, "queued")
    BY <1>8 DEF requeue_stuck_jobs, RequeueEarly, Requeue
  <2> QED BY <1>2, <2>1
<1>9. CASE \E w \in Workers : Work(w) \/ WorkerFault(w)
  <2>1. PICK w \in Workers : Work(w) \/ WorkerFault(w)
    BY <1>9
  <2>2. CASE \/ SaveLeaf(w) \/ SaveNodeContinue(w) \/ SaveNodeFinal(w) \/ SaveTip(w) \/ SaveScheduler(w)
             \/ mark_witness_job_as_successful(w) \/ mark_proof_compression_job_successful(w)
    BY <2>2, FinishKeeps
  <2>3. CASE GetNextJob(w) \/ GetNextTip(w) \/ GetNextScheduler(w) \/ GetNextCompression(w)
    <3>1. PICK j \in DOMAIN rows : rows[j].st = "queued" /\ rows' = SetAttempt(rows, j)
      <4>1. \E j \in get_next_basic_circuit_witness_job \cup get_next_leaf_aggregation_job
             \cup get_next_node_aggregation_job \cup get_next_recursion_tip_witness_job
             \cup get_next_scheduler_witness_job \cup get_next_job \cup get_next_proof_compression_job :
                rows' = SetAttempt(rows, j)
        BY <2>3 DEF GetNextJob, GetNextTip, GetNextScheduler, GetNextCompression, Take
      <4> QED BY <4>1, Queued
    <3>2. rows'[k] = rows[k]
      BY <3>1 DEF SetAttempt
    <3> QED BY <3>2
  <2>4. CASE InsertBasicProofs(w) \/ InsertAggregationRow(w)
    <3>1. \E js, st : rows' = Insert(rows, js, st, 0)
      BY <2>4 DEF InsertBasicProofs, InsertAggregationRow
    <3> QED BY <1>3, <3>1
  <2>5. CASE update_status(w)
    <3> DEFINE js == {j \in {hold[w].job} : j \in DOMAIN rows /\ ~Successful(j)}
    <3>1. rows' = SetStatus(rows, js, "in_gpu_proof") /\ k \notin js
      BY <2>5 DEF update_status, Finish, Successful
    <3> HIDE DEF js
    <3> QED BY <1>2, <3>1
  <2>6. CASE save_failure(w) \/ ProofsMissing(w) \/ SendFails(w)
    <3> DEFINE js == {j \in {hold[w].job} : j \in DOMAIN rows /\ rows[j].st \notin Protected}
    <3>1. rows' = SetStatus(rows, js, "failed") /\ k \notin js
      BY <2>6 DEF save_failure, ProofsMissing, SendFails, MarkFailed, Protected
    <3> HIDE DEF js
    <3> QED BY <1>2, <3>1
  <2>7. CASE \/ lock_available_prover(w) \/ handle_incoming_file(w) \/ QueueOverflow(w)
             \/ Crash(w) \/ GiveUp(w)
    BY <2>7 DEF lock_available_prover, handle_incoming_file, QueueOverflow, Crash, GiveUp
  <2> QED BY <2>1, <2>2, <2>3, <2>4, <2>5, <2>6, <2>7 DEF Work, WorkerFault
<1>10. CASE save_proof
  <2> DEFINE j == Head(gpu.queue)
             t == SetStatus(rows, {j}, "successful")
  <2>1. rows' = t \/ rows' = Insert(t, {CompJob(j[3])}, "queued", 0)
    BY <1>10 DEF save_proof
  <2>2. k \in DOMAIN t /\ t[k].st = "successful"
    BY <1>1, RowAfter
  <2> HIDE DEF t
  <2>3. rows'[k] = t[k]
    BY <2>1, <2>2 DEF Insert
  <2> QED BY <2>2, <2>3
<1>11. CASE save_proof_error
  <2> DEFINE js == {j \in {Head(gpu.queue)} : j \in DOMAIN rows /\ rows[j].st \notin Protected}
  <2>1. rows' = SetStatus(rows, js, "failed") /\ k \notin js
    BY <1>11 DEF save_proof_error, MarkFailed, Protected
  <2> HIDE DEF js
  <2> QED BY <1>2, <2>1
<1>12. CASE GpuCrash \/ ReviveProver
  BY <1>12 DEF GpuCrash, ReviveProver
<1> QED BY <1>4, <1>5, <1>6, <1>7, <1>8, <1>9, <1>10, <1>11, <1>12 DEF Next

\* No late failure, retry, early timeout or duplicate undoes finished work: a
\* successful row stays so until it is archived or sent, and proof_generation_details
\* never takes back that a batch is generated.
THEOREM FinishedWorkStays == Spec => FinishedStaysFinished
<1>1. ASSUME IInv, [Next]_vars, NEW k \in DOMAIN rows, rows[k].st = "successful"
      PROVE  k \in archived' \ DOMAIN rows' \/ rows'[k].st \in {"successful", "sent_to_server"}
  <2>1. CASE Next
    BY <1>1, <2>1, RowsStayFinished
  <2>2. CASE UNCHANGED vars
    BY <1>1, <2>2 DEF vars
  <2> QED BY <1>1, <2>1, <2>2
<1>2. ASSUME IInv, [Next]_vars, NEW b \in Batches, pgd[b].st = "generated"
      PROVE  pgd'[b].st = "generated"
  <2>1. pgd \in [Batches -> Details]
    BY <1>2 DEF IInv, Types, CoreTypes
  <2>2. ASSUME NEW a \in Batches, NEW r, pgd' = [pgd EXCEPT ![a] = r], a = b => r.st = "generated"
        PROVE  pgd'[b].st = "generated"
    BY <1>2, <2>1, <2>2
  <2>3. CASE pgd' = pgd
    BY <1>2, <2>3
  <2>4. CASE \E a \in Batches : Core(a)
    <3>1. PICK a \in Batches : Core(a)
      BY <2>4
    <3>2. CASE pgd[a].st = "generated"
      BY <3>1, <3>2 DEF Core, insert_proof_generation_details, save_vm_runner_artifacts_metadata,
                        save_l1_batch_commitment_artifacts
    <3>3. CASE pgd[a].st # "generated"
      <4>1. a # b
        BY <1>2, <3>3
      <4>2. \E r : pgd' = [pgd EXCEPT ![a] = r]
        BY <3>1, <2>1 DEF Core, insert_proof_generation_details, save_vm_runner_artifacts_metadata,
                          save_l1_batch_commitment_artifacts
      <4> QED BY <2>2, <4>1, <4>2
    <3> QED BY <3>2, <3>3
  <2>5. CASE \E a \in Batches : get_next_block_to_be_proven(a)
    <3>1. PICK a \in Batches : get_next_block_to_be_proven(a)
      BY <2>5
    <3>2. a # b
      BY <1>2, <3>1 DEF get_next_block_to_be_proven, Provable
    <3>3. pgd' = [pgd EXCEPT ![a] = [pgd[a] EXCEPT !.st = "picked_by_prover"]]
      BY <2>1, <3>1 DEF get_next_block_to_be_proven
    <3> QED BY <2>2, <3>2, <3>3
  <2>6. CASE \E a \in Batches : submit_proof(a)
    <3>1. PICK a \in Batches : submit_proof(a)
      BY <2>6
    <3> DEFINE r == [pgd[a] EXCEPT !.st = "generated"]
    <3>2. pgd' = [pgd EXCEPT ![a] = r]
      BY <2>1, <3>1 DEF submit_proof
    <3>3. r.st = "generated"
      BY <2>1 DEF Details
    <3> HIDE DEF r
    <3> QED BY <2>2, <3>2, <3>3
  <2>7. CASE Next
    <3>1. CASE (\E a \in Batches : ArchiveSent(a)) \/ \E j \in ProverRows : ArchiveEarly(j)
      BY <2>3, <3>1 DEF ArchiveSent, ArchiveEarly, archive_old_jobs
    <3>2. CASE Gateway \/ Submitter
      BY <2>3, <2>5, <2>6, <3>2 DEF Gateway, Submitter, save_witness_inputs, LoseFetched,
            mark_proof_sent_to_server, LoseSubmitAnswer
    <3>3. CASE HouseKeeper
      BY <2>3, <3>3 DEF HouseKeeper, move_leaf_aggregation_jobs_from_waiting_to_queued,
         move_depth_zero_node_aggregation_jobs, move_depth_non_zero_node_aggregation_jobs,
         move_recursion_tip_jobs_from_waiting_to_queued, move_scheduler_jobs_from_waiting_to_queued,
         MoveToQueued
    <3>4. CASE \E j \in DOMAIN rows : requeue_stuck_jobs(j) \/ RequeueEarly(j)
      BY <2>3, <3>4 DEF requeue_stuck_jobs, RequeueEarly, Requeue
    <3>5. CASE \E w \in Workers : Work(w) \/ WorkerFault(w)
      <4>1. PICK w \in Workers : Work(w) \/ WorkerFault(w)
        BY <3>5
      <4>2. CASE WorkerFault(w)
        BY <2>3, <4>2 DEF WorkerFault, save_failure, Crash, SendFails, GiveUp
      <4>3. CASE \/ GetNextJob(w) \/ GetNextTip(w) \/ GetNextScheduler(w) \/ GetNextCompression(w)
                 \/ ProofsMissing(w)
                 \/ InsertBasicProofs(w) \/ InsertAggregationRow(w)
                 \/ lock_available_prover(w) \/ handle_incoming_file(w) \/ QueueOverflow(w)
        BY <2>3, <4>3 DEF GetNextJob, GetNextTip, GetNextScheduler, GetNextCompression, ProofsMissing, Take, InsertBasicProofs,
              InsertAggregationRow, lock_available_prover, handle_incoming_file, QueueOverflow
      <4>4. CASE \/ mark_witness_job_as_successful(w) \/ SaveLeaf(w) \/ SaveNodeContinue(w)
                 \/ SaveNodeFinal(w) \/ SaveTip(w) \/ SaveScheduler(w)
                 \/ mark_proof_compression_job_successful(w) \/ update_status(w)
        BY <2>3, <4>4 DEF mark_witness_job_as_successful, SaveLeaf, SaveNodeContinue, SaveNodeFinal,
              SaveTip, SaveScheduler, mark_proof_compression_job_successful, update_status, Finish
      <4> QED BY <4>1, <4>2, <4>3, <4>4 DEF Work
    <3>6. CASE save_proof \/ save_proof_error \/ GpuCrash \/ ReviveProver
      BY <2>3, <3>6 DEF save_proof, save_proof_error, GpuCrash, ReviveProver
    <3> QED BY <2>4, <2>7, <3>1, <3>2, <3>3, <3>4, <3>5, <3>6 DEF Next
  <2>8. CASE UNCHANGED vars
    BY <2>3, <2>8 DEF vars
  <2> QED BY <1>2, <2>7, <2>8
<1>3. IInv /\ [Next]_vars =>
        [/\ \A j \in DOMAIN rows : rows[j].st = "successful" =>
                \/ j \in archived' \ DOMAIN rows'
                \/ rows'[j].st \in {"successful", "sent_to_server"}
         /\ \A b \in Batches : pgd[b].st = "generated" => pgd'[b].st = "generated"]_vars
  BY <1>1, <1>2
<1> QED BY <1>3, TreeInvariant, PTL DEF Spec, FinishedStaysFinished
=============================================================================
