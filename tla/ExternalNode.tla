---------------------------- MODULE ExternalNode ----------------------------
(***************************************************************************)
(* An external node that follows the main node through reorganisations of  *)
(* the main chain.  The main node's operator may roll back batches that    *)
(* are not executed on L1 and seal others in their place; the external     *)
(* node fetches L2 blocks by number, re-executes them, keeps its state in  *)
(* three stores (Postgres, the Merkle tree and the state keeper cache, the *)
(* last two in RocksDB), detects that its chain is no longer the main      *)
(* node's, and rolls the three stores back one after another.              *)
(*                                                                         *)
(* A block is its content (a fresh id) and whether it is the last of its   *)
(* batch.  Its hash covers the hash of the block before it, so the hash of *)
(* block n of a chain is the chain's first n blocks; likewise the root     *)
(* hash of batch b is everything up to the end of batch b.  Batch 0 is the *)
(* genesis, the same on both nodes.                                        *)
(***************************************************************************)
EXTENDS Integers, Sequences, FiniteSets, SequencesExt, FiniteSetsExt

CONSTANTS
    MaxLen,       \* blocks the main chain may have at one time
    MaxIds,       \* blocks the main node seals in all
    MaxReverts,   \* rollbacks of the main node
    MaxFaults,    \* crashes of the external node and restorations of its Postgres
    QueueCap,     \* fetched blocks waiting for the state keeper
    MaxPerIter    \* max_l1_batches_per_iter of the metadata calculator

ASSUME BoundsAreNaturals ==
    /\ {MaxLen, MaxIds, MaxReverts, MaxFaults} \subseteq Nat
    /\ {QueueCap, MaxPerIter} \subseteq Nat \ {0}

VARIABLES
    chain,       \* the main node's L2 blocks
    mainRoots,   \* how many of its batches have a root hash
    commits,     \* L1: the root hash in the last BlockCommit event of each number
    pg,          \* the external node's L2 blocks, in its Postgres
    roots,       \* l1_batches.hash of its batches, in its Postgres
    treeDisk,    \* what the saved Merkle tree holds
    treeMem,     \* what the tree of the running process holds
    cache,       \* what the state keeper cache holds
    queue,       \* blocks fetched and not yet executed
    pc,          \* where the process is
    treeReady,   \* ensure_consistency has been run by this process
    keep,        \* last_l1_batch_to_keep of the rollback under way
    det,         \* the reorg detector's check under way
    fetched,     \* the root hash the tree data fetcher got, and whether from L1
    used         \* ids used, and faults so far

main == <<chain, mainRoots, commits>>
stores == <<pg, roots, treeDisk, cache>>
process == <<treeMem, queue, pc, treeReady, keep, det, fetched>>
vars == <<chain, mainRoots, commits, pg, roots, treeDisk, treeMem, cache,
          queue, pc, treeReady, keep, det, fetched, used>>

-----------------------------------------------------------------------------
(* Chains, batches and hashes.                                             *)

Ends(c) == {i \in 1..Len(c) : c[i].last}

\* Sealed batches of a chain.
Sealed(c) == Cardinality(Ends(c))

\* get_l2_block_range_of_l1_batch: the last block of batch b.
EndOf(c, b) ==
    IF b = 0 THEN 0
    ELSE CHOOSE i \in Ends(c) : Cardinality({j \in Ends(c) : j <= i}) = b

\* Everything up to the end of batch b; as a value, the batch's root hash.
UpTo(c, b) == SubSeq(c, 1, EndOf(c, b))

\* The batch that block i belongs to.
BatchOf(c, i) ==
    IF i = 0 THEN 0 ELSE 1 + Cardinality({j \in Ends(c) : j < i})

\* pending_batch_exists.
PendingBatch(c) == c # <<>> /\ ~Last(c).last

\* The greatest number for which the predicate holds, by bisection between a
\* number known to satisfy it and one known not to: the loop, and the range it is
\* left with after n passes.
Halve(ok, p) ==
    LET middle == (p[1] + p[2]) \div 2
    IN  IF p[1] + 1 >= p[2] THEN p
        ELSE IF ok[middle] THEN <<middle, p[2]>> ELSE <<p[1], middle>>

Bisection(ok, left, right) ==
    LET range[n \in 0..(right - left)] ==
            IF n = 0 THEN <<left, right>> ELSE Halve(ok, range[n - 1])
    IN  range

BinarySearch(ok, left, right) == Bisection(ok, left, right)[right - left][1]

-----------------------------------------------------------------------------
(* The main node.                                                          *)

\* Its state keeper seals a block, perhaps the last of its batch.
MainSeal ==
    /\ Len(chain) < MaxLen
    /\ used.ids < MaxIds
    /\ \E last \in BOOLEAN : chain' = Append(chain, [id |-> used.ids + 1, last |-> last])
    /\ used' = [used EXCEPT !.ids = @ + 1]
    /\ UNCHANGED <<mainRoots, commits, stores, process>>

\* Its metadata calculator computes the next root hash.
MainRoot ==
    /\ mainRoots < Sealed(chain)
    /\ mainRoots' = mainRoots + 1
    /\ UNCHANGED <<chain, commits, stores, process, used>>

\* Its eth sender commits the next batch on L1.
Committed(b) == b <= Len(commits) /\ commits[b] = UpTo(chain, b)

MainCommit ==
    /\ \E b \in 1..mainRoots :
        /\ ~Committed(b) /\ \A n \in 1..(b - 1) : Committed(n)
        /\ commits' = IF b <= Len(commits) THEN [commits EXCEPT ![b] = UpTo(chain, b)]
                      ELSE Append(commits, UpTo(chain, b))
    /\ UNCHANGED <<chain, mainRoots, stores, process, used>>

\* roll_back run by the operator of the main node, seen from outside: what is
\* left of the chain.  Rolling back executed batches is not allowed; committed
\* ones are reverted on L1 too, where the events of their commits stay.
MainRollBack ==
    /\ used.reverts < MaxReverts
    /\ \E last_l1_batch_to_keep \in 0..mainRoots :
        /\ EndOf(chain, last_l1_batch_to_keep) < Len(chain)
        /\ chain' = UpTo(chain, last_l1_batch_to_keep)
        /\ mainRoots' = last_l1_batch_to_keep
    /\ used' = [used EXCEPT !.reverts = @ + 1]
    /\ UNCHANGED <<commits, stores, process>>

-----------------------------------------------------------------------------
(* The process of the external node.                                       *)

IdleDetector == [at |-> "idle", batch |-> 0, block |-> 0, root |-> TRUE, left |-> 0, right |-> 0]

\* The process exits for whatever reason and is started again; what it held in
\* memory is gone.  It begins with one check of the reorg detector.
Restart ==
    /\ pc' = "detect"
    /\ det' = IdleDetector
    /\ queue' = <<>>
    /\ fetched' = <<>>
    /\ treeReady' = FALSE
    /\ treeMem' = treeDisk
    /\ keep' = 0

Crash ==
    /\ used.faults < MaxFaults
    /\ used' = [used EXCEPT !.faults = @ + 1]
    /\ Restart
    /\ UNCHANGED <<main, stores>>

\* The operator restores Postgres from a backup, which the state keeper cache
\* must not be ahead of; the Merkle tree stays as it is.
RestorePostgres ==
    /\ used.faults < MaxFaults
    /\ \E n \in 0..(Len(pg) - 1) :
        LET backup == SubSeq(pg, 1, n)
        IN  /\ Sealed(cache) <= Sealed(backup)
            /\ pg' = backup
            /\ roots' = SubSeq(roots, 1, Min({Len(roots), Sealed(backup)}))
    /\ used' = [used EXCEPT !.faults = @ + 1, !.restored = TRUE]
    /\ UNCHANGED <<treeDisk, cache>>
    /\ Restart
    /\ UNCHANGED main

-----------------------------------------------------------------------------
(* Syncing: the block fetcher, the state keeper and its cache.             *)

\* fetch_blocks and IoCursorExt::advance: the next block by number, whichever
\* fork it is on.  The cursor's batch is the last fetched block's; a block that
\* is neither of that batch nor of the next one is a panic.
FetchBlock ==
    /\ pc = "run"
    /\ Len(queue) < QueueCap
    /\ LET next_l2_block == Len(pg) + Len(queue) + 1
           l1_batch == IF queue = <<>> THEN BatchOf(pg, Len(pg)) ELSE Last(queue).batch
       IN  /\ next_l2_block <= Len(chain)
           /\ LET number == BatchOf(chain, next_l2_block)
              IN  IF number \in {l1_batch, l1_batch + 1}
                  THEN /\ queue' = Append(queue,
                              [block |-> chain[next_l2_block], batch |-> number,
                               open_batch |-> number # l1_batch])
                       /\ UNCHANGED <<treeMem, pc, treeReady, keep, det, fetched>>
                  ELSE Restart
    /\ UNCHANGED <<main, stores, used>>

\* The state keeper takes the actions of one block from ExternalIO, executes
\* them and seals the block, with its batch if it is the last of it.  An action
\* that does not fit what the state keeper waits for is an error.
ApplyBlock ==
    /\ pc = "run"
    /\ queue # <<>>
    /\ IF Head(queue).open_batch = ~PendingBatch(pg)
       THEN /\ pg' = Append(pg, Head(queue).block)
            /\ queue' = Tail(queue)
            /\ UNCHANGED <<treeMem, pc, treeReady, keep, det, fetched>>
       ELSE Restart /\ UNCHANGED pg
    /\ UNCHANGED <<main, roots, treeDisk, cache, used>>

\* update_from_postgres: one batch at a time.
UpdateCache ==
    /\ pc = "run"
    /\ Sealed(cache) < Sealed(pg)
    /\ LET next == Sealed(cache) + 1
       IN  cache' = cache \o SubSeq(pg, EndOf(pg, next - 1) + 1, EndOf(pg, next))
    /\ UNCHANGED <<main, pg, roots, treeDisk, process, used>>

-----------------------------------------------------------------------------
(* Root hashes: the metadata calculator and the tree data fetcher.         *)

\* save_l1_batch_tree_data: an existing hash is compared, not overwritten.
SaveTreeData(number, hash) ==
    roots' = IF number = Len(roots) + 1 THEN Append(roots, hash) ELSE roots

SameTreeData(number, hash) ==
    number <= Len(roots) => roots[number] = hash

\* l1_batch_matches: genesis and whatever is missing in Postgres count as equal.
BatchMatches(tree, number) ==
    number \in 1..Len(roots) => roots[number] = UpTo(tree, number)

\* ensure_no_l1_batch_divergence: the tree up to the last batch it shares with
\* Postgres.
WithoutDivergence(tree) ==
    IF BatchMatches(tree, Sealed(tree)) THEN tree
    ELSE UpTo(tree, BinarySearch([n \in 0..Sealed(tree) |-> BatchMatches(tree, n)],
                                 0, Sealed(tree)))

\* ensure_consistency: a tree ahead of the tree data in Postgres is truncated.
ConsistentTree(tree) ==
    WithoutDivergence(IF Sealed(tree) > Len(roots) THEN UpTo(tree, Len(roots)) ELSE tree)

InitTree ==
    /\ pc = "run"
    /\ ~treeReady
    /\ treeReady' = TRUE
    /\ treeDisk' = ConsistentTree(treeDisk)
    /\ treeMem' = treeDisk'
    /\ UNCHANGED <<main, pg, roots, cache, queue, pc, keep, det, fetched, used>>

\* process_multiple_batches, one batch: the tree in memory, then Postgres.
\* A root hash other than the one in Postgres is an error.
ProcessBatch ==
    /\ pc = "run"
    /\ treeReady
    /\ Sealed(treeMem) < Sealed(pg)
    /\ Sealed(treeMem) - Sealed(treeDisk) < MaxPerIter
    /\ LET number == Sealed(treeMem) + 1
           tree == treeMem \o SubSeq(pg, EndOf(pg, number - 1) + 1, EndOf(pg, number))
       IN  IF SameTreeData(number, tree)
           THEN /\ SaveTreeData(number, tree)
                /\ treeMem' = tree
                /\ UNCHANGED <<treeDisk, queue, pc, treeReady, keep, det, fetched>>
           ELSE Restart /\ UNCHANGED <<roots, treeDisk>>
    /\ UNCHANGED <<main, pg, cache, used>>

\* The same function, at the end of its range of batches: the tree is saved to
\* RocksDB.  The range may end after any number of batches, since it stops at
\* what was sealed when it began.
SaveTree ==
    /\ pc = "run"
    /\ treeMem # treeDisk
    /\ treeDisk' = treeMem
    /\ UNCHANGED <<main, pg, roots, cache, process, used>>

\* TreeDataFetcher::step: the first batch without tree data.
BatchToFetch == Len(roots) + 1

\* CombinedDataProvider asks L1DataProvider first: the root hash of the number's
\* only BlockCommit event in its range of L1 blocks.  When there are several, or
\* the call fails, the main node is asked.  The range is taken to reach the last
\* event; where it begins, and whether the provider was given up, is left open.
FetchFromL1 ==
    /\ pc = "run"
    /\ fetched = <<>>
    /\ BatchToFetch <= Sealed(pg)
    /\ BatchToFetch <= Len(commits)
    /\ fetched' = <<[number |-> BatchToFetch, hash |-> commits[BatchToFetch], l1 |-> TRUE]>>
    /\ UNCHANGED <<main, stores, treeMem, queue, pc, treeReady, keep, det, used>>

\* The main node's first call, get_l1_batch_details.  The batch missing there is
\* a fatal error; a root hash that is not computed yet is waited for.
FetchBatchDetails ==
    /\ pc = "run"
    /\ fetched = <<>>
    /\ BatchToFetch <= Sealed(pg)
    /\ IF BatchToFetch > Sealed(chain) THEN Restart
       ELSE /\ BatchToFetch <= mainRoots
            /\ fetched' = <<[number |-> BatchToFetch, hash |-> UpTo(chain, BatchToFetch), l1 |-> FALSE]>>
            /\ UNCHANGED <<treeMem, queue, pc, treeReady, keep, det>>
    /\ UNCHANGED <<main, stores, used>>

\* Mutant: the main node having the block is enough.
LastBlockExists(number) == EndOf(pg, number) <= Len(chain)

\* The second call, get_block_details: the hash of the batch's last block on the
\* main node against the local one.
LastBlockMatches(number) ==
    LET last_l2_block == EndOf(pg, number)
    IN  /\ last_l2_block <= Len(chain)
        /\ SubSeq(chain, 1, last_l2_block) = SubSeq(pg, 1, last_l2_block)

\* If they differ the answer is dropped; otherwise it is saved.  An answer from
\* L1 is saved as it is.
SaveFetched ==
    /\ pc = "run"
    /\ fetched # <<>>
    /\ LET f == Head(fetched)
       IN  IF f.l1 \/ LastBlockMatches(f.number)
           THEN IF SameTreeData(f.number, f.hash)
                THEN /\ SaveTreeData(f.number, f.hash)
                     /\ fetched' = <<>>
                     /\ UNCHANGED <<treeMem, queue, pc, treeReady, keep, det>>
                ELSE Restart /\ UNCHANGED roots
           ELSE /\ fetched' = <<>>
                /\ UNCHANGED <<roots, treeMem, queue, pc, treeReady, keep, det>>
    /\ UNCHANGED <<main, pg, treeDisk, cache, used>>

-----------------------------------------------------------------------------
(* The reorg detector.  The main node may change between two of its calls: *)
(* between the first comparison of root hashes, that of blocks and each    *)
(* probe of the search.                                                    *)

Checking == pc \in {"detect", "run"}

DetectorStep(next) ==
    /\ det' = next
    /\ UNCHANGED <<main, stores, treeMem, queue, pc, treeReady, keep, fetched, used>>

\* check_consistency: the last local batch with tree data and the last local
\* block, against the last batch and the last block of the main node.
CheckStart ==
    /\ Checking
    /\ det.at = "idle"
    /\ DetectorStep([IdleDetector EXCEPT !.at = "root",
                        !.batch = Min({Len(roots), Sealed(chain)}),
                        !.block = Min({Len(pg), Len(chain)})])

\* root_hashes_match: no answer without the batch or its root hash.
MissingRoot(number) == number > mainRoots

RootsMatch(number) ==
    number > 0 => roots[number] = UpTo(chain, number)

\* l2_block_hashes_match.
MissingBlock(number) == number > Len(chain)

\* Mutant: hashes that do not cover the blocks before.
OwnContentsMatch(number) == number > 0 => pg[number] = chain[number]

BlocksMatch(number) == SubSeq(pg, 1, number) = SubSeq(chain, 1, number)

\* Missing data is a transient error: the check begins again.
CheckRoot ==
    /\ Checking
    /\ det.at = "root"
    /\ DetectorStep(IF MissingRoot(det.batch) THEN IdleDetector
                    ELSE [det EXCEPT !.at = "block", !.root = RootsMatch(det.batch)])

\* Mutant: the last batch compared counts as diverged even if its hash matches.
LastComparedDiverged == Max({1, det.batch})

\* The first diverged batch is at most the one after the last batch compared.
FirstDiverged == det.batch + (IF det.root THEN 1 ELSE 0)

\* Both hashes match: no reorganisation, and a process that has just started
\* goes on to its tasks.
CheckBlock ==
    /\ Checking
    /\ det.at = "block"
    /\ IF ~MissingBlock(det.block) /\ det.root /\ BlocksMatch(det.block)
       THEN /\ det' = IdleDetector
            /\ pc' = "run"
            /\ UNCHANGED <<main, stores, treeMem, queue, treeReady, keep, fetched, used>>
       ELSE DetectorStep(IF MissingBlock(det.block) THEN IdleDetector
                         ELSE [IdleDetector EXCEPT !.at = "search",
                                                   !.right = FirstDiverged])

\* root_hashes_and_contents_match, with missing data taken for a match.
ContentsMatch(number) ==
    \/ MissingRoot(number)
    \/ /\ RootsMatch(number)
       /\ MissingBlock(EndOf(pg, number)) \/ BlocksMatch(EndOf(pg, number))

\* detect_reorg: one probe of the bisection.
SearchStep ==
    /\ Checking
    /\ det.at = "search"
    /\ det.left + 1 < det.right
    /\ LET middle == (det.left + det.right) \div 2
       IN  DetectorStep(IF ContentsMatch(middle) THEN [det EXCEPT !.left = middle]
                        ELSE [det EXCEPT !.right = middle])

\* ReorgDetected(last_correct_l1_batch): a starting process rolls back, a
\* running one exits.
ReorgDetected ==
    /\ Checking
    /\ det.at = "search"
    /\ det.left + 1 >= det.right
    /\ IF pc = "detect"
       THEN /\ pc' = "roll_back_tree"
            /\ keep' = det.left
            /\ det' = IdleDetector
            /\ UNCHANGED <<treeMem, queue, treeReady, fetched, treeDisk>>
       ELSE Restart /\ UNCHANGED treeDisk
    /\ UNCHANGED <<main, pg, roots, cache, used>>

-----------------------------------------------------------------------------
(* BlockReverter::roll_back: the tree, the cache, then Postgres.           *)

\* roll_back_tree_blocking: a tree that is behind is left alone; the root hash
\* of the truncated tree must be the one in Postgres.
RolledBackTree ==
    IF Sealed(treeDisk) + 1 <= keep THEN treeDisk ELSE UpTo(treeDisk, keep)

RollBackTree ==
    /\ pc = "roll_back_tree"
    /\ IF Sealed(treeDisk) >= keep /\ keep > 0 /\ roots[keep] # RolledBackTree
       THEN Restart /\ UNCHANGED treeDisk
       ELSE /\ treeDisk' = RolledBackTree
            /\ treeMem' = treeDisk'
            /\ pc' = "roll_back_cache"
            /\ UNCHANGED <<queue, treeReady, keep, det, fetched>>
    /\ UNCHANGED <<main, pg, roots, cache, used>>

\* Mutant: the number in the cache is taken for its last batch, not the next one.
RollBackCacheFarAhead ==
    /\ pc = "roll_back_cache"
    /\ cache' = IF Sealed(cache) > keep + 1 THEN UpTo(cache, keep) ELSE cache
    /\ pc' = "roll_back_postgres"
    /\ UNCHANGED <<main, pg, roots, treeDisk, treeMem, queue, treeReady, keep, det, fetched, used>>

\* roll_back_state_keeper_cache: only a cache that is ahead.
RollBackCache ==
    /\ pc = "roll_back_cache"
    /\ cache' = IF Sealed(cache) > keep THEN UpTo(cache, keep) ELSE cache
    /\ pc' = "roll_back_postgres"
    /\ UNCHANGED <<main, pg, roots, treeDisk, treeMem, queue, treeReady, keep, det, fetched, used>>

\* Mutant: the blocks are deleted and the batches' tree data is not.
RollBackKeepsTreeData ==
    /\ pc = "roll_back_postgres"
    /\ pg' = UpTo(pg, keep)
    /\ pc' = "run"
    /\ keep' = 0
    /\ UNCHANGED <<main, roots, treeDisk, cache, treeMem, queue, treeReady, det, fetched, used>>

\* roll_back_postgres, one transaction; then the node starts its tasks.
RollBackPostgres ==
    /\ pc = "roll_back_postgres"
    /\ pg' = UpTo(pg, keep)
    /\ roots' = SubSeq(roots, 1, keep)
    /\ pc' = "run"
    /\ keep' = 0
    /\ UNCHANGED <<main, treeDisk, cache, treeMem, queue, treeReady, det, fetched, used>>

-----------------------------------------------------------------------------
Init ==
    /\ chain = <<>> /\ mainRoots = 0 /\ commits = <<>>
    /\ pg = <<>> /\ roots = <<>> /\ treeDisk = <<>> /\ treeMem = <<>> /\ cache = <<>>
    /\ queue = <<>> /\ fetched = <<>> /\ pc = "detect" /\ treeReady = FALSE /\ keep = 0
    /\ det = IdleDetector
    /\ used = [ids |-> 0, reverts |-> 0, faults |-> 0, restored |-> FALSE]

MainNode == MainSeal \/ MainRoot \/ MainCommit \/ MainRollBack

Sync == FetchBlock \/ ApplyBlock \/ UpdateCache

Tree == InitTree \/ ProcessBatch \/ SaveTree

TreeDataFetcher == FetchFromL1 \/ FetchBatchDetails \/ SaveFetched

Detector == CheckStart \/ CheckRoot \/ CheckBlock \/ SearchStep \/ ReorgDetected

Reverter == RollBackTree \/ RollBackCache \/ RollBackPostgres

Next ==
    \/ MainNode \/ Crash \/ RestorePostgres
    \/ Sync \/ Tree \/ TreeDataFetcher \/ Detector \/ Reverter

Spec == Init /\ [][Next]_vars

\* The fetcher with the state keeper, the detector and the reverter keep running,
\* and the main node computes its root hashes and commits its batches.  Nothing has to be sealed,
\* reverted or restored, and the trees need not make progress.
FairSpec ==
    /\ Spec
    /\ WF_vars(MainRoot) /\ WF_vars(MainCommit)
    /\ WF_vars(FetchBlock \/ ApplyBlock)
    /\ WF_vars(Detector)
    /\ WF_vars(Reverter)

-----------------------------------------------------------------------------
Block == [id : 1..MaxIds, last : BOOLEAN]

\* Types and bounds; every root hash in Postgres belongs to a sealed batch.
TypeOK ==
    /\ \A c \in {chain, pg, treeDisk, treeMem, cache} : \A i \in 1..Len(c) : c[i] \in Block
    /\ \A c \in {chain, pg, cache} : Len(c) <= MaxLen
    /\ mainRoots \in 0..Sealed(chain)
    /\ Len(roots) <= Sealed(pg)
    /\ Len(queue) <= QueueCap
    /\ Len(fetched) <= 1
    /\ pc \in {"detect", "run", "roll_back_tree", "roll_back_cache", "roll_back_postgres"}
    /\ treeReady \in BOOLEAN
    /\ keep \in 0..MaxLen

\* Every root hash in Postgres is that of the batches in Postgres.  This need not
\* be so: an answer from L1 may be of a fork.
RootsTellChain ==
    \A b \in 1..Len(roots) : roots[b] = UpTo(pg, b)

\* The three stores hold one chain.  The state keeper cache never holds a batch
\* that Postgres does not have: nothing compares its contents, so a leftover of an
\* abandoned fork would be executed upon.  The same goes for the Merkle tree, in
\* memory and on disk, once ensure_consistency has looked at it, whatever root
\* hashes came from L1; if Postgres was restored from a backup under the tree, it
\* goes for root hashes that are true.  A crash may come between any two steps of
\* a rollback or of the metadata calculator.
StoresOfOneChain ==
    /\ IsPrefix(cache, pg)
    /\ treeReady /\ (used.restored => RootsTellChain) =>
        IsPrefix(treeMem, pg) /\ IsPrefix(treeDisk, pg)

\* A root hash that the main node tells is saved only for the batch it is of,
\* though hash and last block come from two calls, and the main node may move to
\* another fork, and back to the same numbers, between them.
AnswersTellChain ==
    [][SaveFetched /\ ~fetched[1].l1 /\ roots' # roots =>
            roots' = Append(roots, UpTo(pg, Len(roots) + 1))]_vars

\* A rollback never deletes a batch that the main node still has and whose own root
\* hash is in Postgres, even if the main node reverts again while the detector
\* searches.  (Batches whose root hash is not computed yet, or is of a fork, are
\* deleted even if they are shared.)
NothingSharedRolledBack ==
    [][RollBackPostgres /\ keep < Len(roots) /\ roots[keep + 1] = UpTo(pg, keep + 1) =>
            ~IsPrefix(UpTo(pg, keep + 1), chain)]_vars

\* A root hash from L1, of another batch than the local one, that the detector does
\* not see through: a later root hash is the one compared, or it is the main node's
\* and the main node does not have the local batch's last block yet, which counts
\* as a match.
UnseenForkRoot ==
    \E b \in 1..Len(roots) :
        /\ roots[b] # UpTo(pg, b)
        /\ b < Len(roots) \/ MissingBlock(EndOf(pg, b))

\* Whatever the main node reverts and wherever the external node crashes, the
\* external node ends up with every block of the main node, for good, or it is left
\* with an unseen root hash of a fork until the main node has gone on.  This is
\* claimed for a node whose Postgres was never restored from a backup: after that,
\* the saved tree and the tree data in Postgres may be of two forks, and the
\* rollback of the tree then fails on every launch.
CatchesUp == <>[](used.restored \/ UnseenForkRoot \/ IsPrefix(chain, pg))
=============================================================================
