------------------------- MODULE ExternalNodeProofs -------------------------
(***************************************************************************)
(* Proofs about an external node that follows a main node: its three       *)
(* stores hold one chain, a root hash told by the main node is saved only  *)
(* for the batch it is of, and a rollback deletes no batch that the main   *)
(* node still has and whose own root hash is known, for every length of    *)
(* the chain and every number of reorganisations, crashes and restored     *)
(* backups, whatever root hashes come from L1.                             *)
(***************************************************************************)
EXTENDS ExternalNode, NatSetLemmas

-----------------------------------------------------------------------------
(* The inductive invariant.                                                *)

QueuedBlock == [block : Block, batch : Nat, open_batch : BOOLEAN]
Answer == [number : Nat \ {0}, hash : Seq(Block), l1 : BOOLEAN]
Check == [at : {"idle", "root", "block", "search"}, batch : Nat, block : Nat,
          root : BOOLEAN, left : Nat, right : Nat]

\* The main node, and the ids it has used.
MainTypes ==
    /\ chain \in Seq(Block) /\ Len(chain) <= MaxLen
    /\ mainRoots \in 0 .. Sealed(chain)
    /\ commits \in Seq(Seq(Block))
    /\ used \in [ids : 0 .. MaxIds, reverts : Nat, faults : Nat, restored : BOOLEAN]

\* The stores.
StoreTypes ==
    /\ pg \in Seq(Block) /\ cache \in Seq(Block)
    /\ treeDisk \in Seq(Block) /\ treeMem \in Seq(Block)
    /\ roots \in Seq(Seq(Block)) /\ Len(roots) <= Sealed(pg)

\* The process.  Before its tasks run it holds nothing.
ProcessTypes ==
    /\ pc \in {"detect", "run", "roll_back_tree", "roll_back_cache", "roll_back_postgres"}
    /\ queue \in Seq(QueuedBlock) /\ Len(queue) <= QueueCap
    /\ Len(pg) + Len(queue) <= MaxLen
    /\ fetched \in Seq(Answer) /\ Len(fetched) <= 1
    /\ treeReady \in BOOLEAN /\ keep \in Nat /\ det \in Check
    /\ pc # "run" => ~treeReady /\ queue = <<>> /\ fetched = <<>>

\* Blocks of the main node, and those that came from it, have ids it has used.
KnownIds ==
    /\ \A i \in 1 .. Len(chain) : chain[i].id <= used.ids
    /\ \A i \in 1 .. Len(pg) : pg[i].id <= used.ids
    /\ \A i \in 1 .. Len(queue) : queue[i].block.id <= used.ids

\* A chain that ends with a batch.
Whole(c) == c = UpTo(c, Sealed(c))

CacheInv ==
    /\ Whole(cache) /\ IsPrefix(cache, pg)
    /\ pc = "roll_back_postgres" => Sealed(cache) <= keep

\* Under a Postgres that was never restored, a saved tree stays one of its chain
\* even if root hashes are of a fork: it is only ever cut.
TreeInv ==
    /\ Whole(treeDisk) /\ Whole(treeMem)
    /\ ~treeReady => treeMem = treeDisk
    /\ ~used.restored \/ (treeReady /\ RootsTellChain) =>
        IsPrefix(treeMem, pg) /\ IsPrefix(treeDisk, pg)
    /\ pc \in {"roll_back_cache", "roll_back_postgres"} => Sealed(treeDisk) <= keep

\* The main node has batch b of the external node.
Shared(b) == IsPrefix(UpTo(pg, b), chain)

\* An answer of the main node is about the batch in Postgres, if the main node has
\* that batch.
FetchInv ==
    fetched # <<>> =>
        /\ fetched[1].number <= Sealed(pg)
        /\ ~fetched[1].l1 /\ Shared(fetched[1].number) =>
            fetched[1].hash = UpTo(pg, fetched[1].number)

\* Batch b has diverged, as far as its own root hash is known.
Diverged(b) == b <= Len(roots) /\ roots[b] = UpTo(pg, b) => ~Shared(b)

\* The check under way.  What a starting process takes for diverged stays so, for
\* the main node never seals the same block again.
DetectorInv ==
    /\ det.at # "idle" => Checking
    /\ det.at \in {"root", "block"} =>
        det.batch <= Len(roots) /\ (pc = "detect" => Diverged(det.batch + 1))
    /\ det.at = "block" /\ ~det.root => det.batch # 0 /\ Diverged(det.batch)
    /\ det.at = "search" =>
        /\ det.left < det.right /\ det.right <= Len(roots) + 1
        /\ pc = "detect" => Diverged(det.right)

\* The rollback under way.
RollBackInv ==
    IF Checking THEN keep = 0 ELSE keep <= Len(roots) /\ Diverged(keep + 1)

IInv ==
    /\ MainTypes /\ StoreTypes /\ ProcessTypes /\ KnownIds
    /\ CacheInv /\ TreeInv /\ FetchInv /\ DetectorInv /\ RollBackInv

-----------------------------------------------------------------------------
(* Chains and their batches.                                               *)

\* Batches that end among the first n blocks.
Count(c, n) == Cardinality({j \in Ends(c) : j <= n})

\* Two chains have the same first n blocks.
Agree(c, d, n) == n <= Len(c) /\ n <= Len(d) /\ \A i \in 1 .. n : c[i] = d[i]

\* Counting the batches of a chain.
LEMMA Counts ==
    ASSUME NEW c \in Seq(Block)
    PROVE  /\ \A n \in 0 .. Len(c) : Count(c, n) \in Nat
           /\ \A n, m \in 0 .. Len(c) : n <= m => Count(c, n) <= Count(c, m)
           /\ \A n, m \in 0 .. Len(c) : n < m /\ m \in Ends(c) => Count(c, n) < Count(c, m)
           /\ Count(c, 0) = 0 /\ Len(c) \in Nat /\ Ends(c) \subseteq 1 .. Len(c)
           /\ Sealed(c) = Count(c, Len(c)) /\ Sealed(c) \in 0 .. Len(c)
           /\ \A b \in 1 .. Sealed(c) : \E i \in Ends(c) : Count(c, i) = b
<1>1. PICK L \in Nat : L = Len(c)
  OBVIOUS
<1>2. PICK E : E = Ends(c)
  OBVIOUS
<1>3. E \in SUBSET (1 .. L)
  BY <1>1, <1>2 DEF Ends
<1>4. \A n : Count(c, n) = Cardinality({j \in E : j <= n})
  BY <1>2 DEF Count
<1>5. Sealed(c) = Cardinality(E)
  BY <1>2 DEF Sealed
<1>6. /\ \A n \in 0 .. L : Count(c, n) \in Nat
      /\ \A n, m \in 0 .. L : n <= m => Count(c, n) <= Count(c, m)
      /\ \A n, m \in 0 .. L : n < m /\ m \in E => Count(c, n) < Count(c, m)
      /\ Count(c, 0) = 0
      /\ Count(c, L) = Cardinality(E) /\ Cardinality(E) \in 0 .. L
      /\ \A b \in 1 .. Cardinality(E) : \E i \in E : Count(c, i) = b
  <2> HIDE <1>2
  <2> DEFINE C(n) == Cardinality({j \in E : j <= n})
  <2>1. /\ \A n \in 0 .. L : C(n) \in Nat
        /\ \A n, m \in 0 .. L : n <= m => C(n) <= C(m)
        /\ \A n, m \in 0 .. L : n < m /\ m \in E => C(n) < C(m)
        /\ C(0) = 0
        /\ C(L) = Cardinality(E) /\ Cardinality(E) \in 0 .. L
        /\ \A b \in 1 .. Cardinality(E) : \E i \in E : C(i) = b
    BY <1>3, RankFacts
  <2>2. \A n : Count(c, n) = C(n)
    BY <1>4
  <2> HIDE DEF C
  <2> QED BY <1>3, <2>1, <2>2
<1> QED BY <1>1, <1>2, <1>3, <1>5, <1>6

\* The end of a batch, and that there is one.
LEMMA EndFacts ==
    ASSUME NEW c \in Seq(Block), NEW b \in 0 .. Sealed(c)
    PROVE  /\ EndOf(c, b) \in 0 .. Len(c) /\ Count(c, EndOf(c, b)) = b
           /\ b # 0 => EndOf(c, b) \in Ends(c)
           /\ b = 0 => EndOf(c, b) = 0
<1>1. Len(c) \in Nat /\ Sealed(c) \in Nat /\ Ends(c) \subseteq 1 .. Len(c)
  BY Counts
<1>2. CASE b = 0
  <2>1. Count(c, 0) = 0
    BY Counts
  <2> QED BY <1>1, <1>2, <2>1 DEF EndOf
<1>3. CASE b # 0
  <2>1. b \in 1 .. Sealed(c)
    BY <1>1, <1>3
  <2>2. \E i \in Ends(c) : Cardinality({j \in Ends(c) : j <= i}) = b
    BY <2>1, Counts DEF Count
  <2>3. EndOf(c, b) \in Ends(c) /\ Cardinality({j \in Ends(c) : j <= EndOf(c, b)}) = b
    BY <1>3, <2>2 DEF EndOf
  <2> QED BY <1>1, <1>3, <2>3 DEF Count
<1> QED BY <1>2, <1>3

\* It is the only one.
LEMMA EndUnique ==
    ASSUME NEW c \in Seq(Block), NEW i \in Ends(c)
    PROVE  Count(c, i) \in 1 .. Sealed(c) /\ EndOf(c, Count(c, i)) = i
<1>1. Len(c) \in Nat /\ i \in 1 .. Len(c) /\ i \in 0 .. Len(c) /\ 0 \in 0 .. Len(c) /\ Len(c) \in 0 .. Len(c)
  BY DEF Ends
<1>2. Count(c, i) \in Nat /\ Count(c, i) > 0 /\ Count(c, i) <= Sealed(c)
  <2>1. Count(c, 0) < Count(c, i) /\ Count(c, i) <= Count(c, Len(c)) /\ Count(c, i) \in Nat
    BY <1>1, Counts
  <2>2. Count(c, 0) = 0 /\ Count(c, Len(c)) = Sealed(c)
    BY Counts
  <2> QED BY <2>1, <2>2
<1>3. Count(c, i) \in 1 .. Sealed(c) /\ Count(c, i) \in 0 .. Sealed(c)
  BY <1>1, <1>2, Counts
<1> DEFINE e == EndOf(c, Count(c, i))
<1>4. e \in 0 .. Len(c) /\ Count(c, e) = Count(c, i) /\ e \in Ends(c)
  BY <1>2, <1>3, EndFacts
<1> HIDE DEF e
<1>5. ~(e < i) /\ ~(i < e)
  BY <1>1, <1>2, <1>4, Counts
<1>6. e = i
  BY <1>1, <1>4, <1>5
<1> QED BY <1>3, <1>6 DEF e

\* What a chain is up to the end of a batch.
LEMMA UpToFacts ==
    ASSUME NEW c \in Seq(Block), NEW b \in 0 .. Sealed(c)
    PROVE  /\ UpTo(c, b) \in Seq(Block) /\ Len(UpTo(c, b)) = EndOf(c, b)
           /\ \A i \in 1 .. EndOf(c, b) : UpTo(c, b)[i] = c[i]
           /\ EndOf(c, b) \in 0 .. Len(c)
<1>1. EndOf(c, b) \in 0 .. Len(c) /\ Len(c) \in Nat
  BY EndFacts
<1>2. \A i \in 1 .. EndOf(c, b) : c[i] \in Block
  BY <1>1
<1> QED BY <1>1, <1>2 DEF UpTo

\* Being a prefix, and having the same first blocks, block by block.
LEMMA PrefixAgree ==
    ASSUME NEW c \in Seq(Block), NEW d \in Seq(Block)
    PROVE  IsPrefix(c, d) <=> Agree(c, d, Len(c))
<1>1. Len(c) \in Nat /\ Len(d) \in Nat
  OBVIOUS
<1> SUFFICES ASSUME Len(c) <= Len(d)
             PROVE  SubSeq(c, 1, Len(c)) = SubSeq(d, 1, Len(c)) <=> \A i \in 1 .. Len(c) : c[i] = d[i]
  BY <1>1 DEF IsPrefix, Agree
<1>2. SubSeq(c, 1, Len(c)) = [i \in 1 .. Len(c) |-> c[i]]
  BY <1>1
<1>3. SubSeq(d, 1, Len(c)) = [i \in 1 .. Len(c) |-> d[i]]
  BY <1>1
<1> QED BY <1>2, <1>3

\* The same of the first n blocks of two chains: equal hashes of block n.
LEMMA SubSeqAgree ==
    ASSUME NEW c \in Seq(Block), NEW d \in Seq(Block), NEW n \in Nat, n <= Len(c), n <= Len(d)
    PROVE  SubSeq(c, 1, n) = SubSeq(d, 1, n) <=> Agree(c, d, n)
<1>1. SubSeq(c, 1, n) = [i \in 1 .. n |-> c[i]]
  OBVIOUS
<1>2. SubSeq(d, 1, n) = [i \in 1 .. n |-> d[i]]
  OBVIOUS
<1> QED BY <1>1, <1>2 DEF Agree

\* Chains with the same first blocks have the same batches there.
LEMMA SameEnd ==
    ASSUME NEW c \in Seq(Block), NEW d \in Seq(Block), NEW n \in Nat, Agree(c, d, n)
    PROVE  /\ Count(c, n) = Count(d, n)
           /\ \A b \in 0 .. Count(c, n) :
                /\ b \in 0 .. Sealed(c) /\ b \in 0 .. Sealed(d)
                /\ EndOf(c, b) <= n /\ EndOf(c, b) = EndOf(d, b) /\ UpTo(c, b) = UpTo(d, b)
<1>1. Len(c) \in Nat /\ Len(d) \in Nat /\ n \in 0 .. Len(c) /\ n \in 0 .. Len(d)
      /\ \A i \in 1 .. n : c[i] = d[i]
  BY DEF Agree
<1>2. \A i \in 1 .. n : i \in Ends(c) <=> i \in Ends(d)
  BY <1>1 DEF Ends
<1>3. \A k \in 0 .. n : Count(c, k) = Count(d, k)
  <2> TAKE k \in 0 .. n
  <2>0. \A i : i \in Ends(c) \/ i \in Ends(d) => i \in Nat /\ i >= 1
    BY DEF Ends
  <2>1. \A i : i \in Ends(c) /\ i <= k <=> i \in Ends(d) /\ i <= k
    BY <1>2, <2>0
  <2>2. {i \in Ends(c) : i <= k} = {i \in Ends(d) : i <= k}
    BY <2>1, Zenon
  <2> QED BY <2>2 DEF Count
<1>4. ASSUME NEW b \in 0 .. Count(c, n)
      PROVE  /\ b \in 0 .. Sealed(c) /\ b \in 0 .. Sealed(d)
             /\ EndOf(c, b) <= n /\ EndOf(c, b) = EndOf(d, b) /\ UpTo(c, b) = UpTo(d, b)
  <2>1. Count(c, n) \in Nat /\ Count(c, n) <= Count(c, Len(c)) /\ Count(d, n) <= Count(d, Len(d))
    BY <1>1, Counts
  <2>2. Sealed(c) = Count(c, Len(c)) /\ Sealed(c) \in Nat /\ Sealed(d) = Count(d, Len(d)) /\ Sealed(d) \in Nat
    BY Counts
  <2>3. Count(c, n) = Count(d, n)
    BY <1>1, <1>3
  <2>4. b \in 0 .. Sealed(c) /\ b \in 0 .. Sealed(d) /\ b <= Count(c, n)
    BY <2>1, <2>2, <2>3
  <2>5. EndOf(c, b) \in 0 .. Len(c) /\ Count(c, EndOf(c, b)) = b /\ (b # 0 => EndOf(c, b) \in Ends(c))
        /\ (b = 0 => EndOf(c, b) = 0)
    BY <2>4, EndFacts
  <2>6. PICK e \in 0 .. Len(c) : e = EndOf(c, b)
    BY <2>5
  <2>7. e <= n
    <3>1. CASE b = 0
      BY <1>1, <2>5, <2>6, <3>1
    <3>2. CASE b # 0
      <4>1. e \in Ends(c) /\ Count(c, e) = b
        BY <2>5, <2>6, <3>2
      <4>2. ASSUME n < e PROVE FALSE
        <5>1. Count(c, n) < Count(c, e) /\ Count(c, e) \in Nat
          BY <1>1, <4>1, <4>2, Counts
        <5> QED BY <2>1, <2>4, <4>1, <5>1
      <4> QED BY <1>1, <4>2
    <3> QED BY <3>1, <3>2
  <2>8. EndOf(d, b) = e
    <3>1. CASE b = 0
      BY <2>5, <2>6, <3>1 DEF EndOf
    <3>2. CASE b # 0
      <4>1. e \in Ends(c) /\ Count(c, e) = b /\ e \in 1 .. n
        BY <1>1, <2>5, <2>6, <2>7, <3>2 DEF Ends
      <4>2. e \in Ends(d) /\ Count(d, e) = b
        BY <1>1, <1>2, <1>3, <4>1
      <4> QED BY <4>2, EndUnique
    <3> QED BY <3>1, <3>2
  <2>9. SubSeq(c, 1, e) = SubSeq(d, 1, e)
    <3>1. Agree(c, d, e) /\ e \in Nat /\ e <= Len(c) /\ e <= Len(d)
      BY <1>1, <2>7 DEF Agree
    <3> QED BY <3>1, SubSeqAgree
  <2> QED BY <2>4, <2>6, <2>7, <2>8, <2>9 DEF UpTo
<1> QED BY <1>1, <1>3, <1>4

\* The batches of a prefix are those of the chain.
LEMMA PrefixFacts ==
    ASSUME NEW c \in Seq(Block), NEW d \in Seq(Block), IsPrefix(c, d)
    PROVE  /\ Len(c) <= Len(d) /\ Sealed(c) <= Sealed(d) /\ Sealed(c) \in Nat /\ Sealed(d) \in Nat
           /\ \A b \in 0 .. Sealed(c) : EndOf(c, b) = EndOf(d, b) /\ UpTo(c, b) = UpTo(d, b)
<1>1. Agree(c, d, Len(c)) /\ Len(c) \in Nat
  BY PrefixAgree
<1>2. Sealed(c) = Count(c, Len(c)) /\ Sealed(c) \in Nat /\ Sealed(d) \in Nat
  BY Counts
<1>3. \A b \in 0 .. Sealed(c) : b \in 0 .. Sealed(d) /\ EndOf(c, b) = EndOf(d, b) /\ UpTo(c, b) = UpTo(d, b)
  BY <1>1, <1>2, SameEnd
<1> QED BY <1>1, <1>2, <1>3 DEF IsPrefix

\* A prefix of a prefix is a prefix.
LEMMA PrefixTransitive ==
    ASSUME NEW c \in Seq(Block), NEW d \in Seq(Block), NEW e \in Seq(Block), IsPrefix(c, d), IsPrefix(d, e)
    PROVE  IsPrefix(c, e)
<1>1. Agree(c, d, Len(c)) /\ Agree(d, e, Len(d)) /\ Len(c) \in Nat /\ Len(d) \in Nat /\ Len(e) \in Nat
  BY PrefixAgree
<1>2. Agree(c, e, Len(c))
  BY <1>1 DEF Agree
<1> QED BY <1>2, PrefixAgree

\* The first blocks of a chain are a prefix of it.
LEMMA SubSeqPrefix ==
    ASSUME NEW c \in Seq(Block), NEW n \in 0 .. Len(c)
    PROVE  /\ SubSeq(c, 1, n) \in Seq(Block) /\ Len(SubSeq(c, 1, n)) = n
           /\ IsPrefix(SubSeq(c, 1, n), c)
<1>1. Len(c) \in Nat /\ n \in Nat /\ n <= Len(c)
  OBVIOUS
<1>2. \A i \in 1 .. n : c[i] \in Block
  BY <1>1
<1>3. PICK s : s = SubSeq(c, 1, n)
  OBVIOUS
<1>4. s \in Seq(Block) /\ Len(s) = n /\ \A i \in 1 .. n : s[i] = c[i]
  BY <1>1, <1>2, <1>3
<1>5. Agree(s, c, n)
  BY <1>1, <1>4 DEF Agree
<1>6. IsPrefix(s, c)
  BY <1>4, <1>5, PrefixAgree
<1> QED BY <1>3, <1>4, <1>6

\* A chain up to the end of a batch has those batches, and nothing after them.
LEMMA UpToChain ==
    ASSUME NEW c \in Seq(Block), NEW b \in 0 .. Sealed(c)
    PROVE  /\ UpTo(c, b) \in Seq(Block) /\ IsPrefix(UpTo(c, b), c)
           /\ Len(UpTo(c, b)) = EndOf(c, b) /\ EndOf(c, b) \in 0 .. Len(c)
           /\ Sealed(UpTo(c, b)) = b /\ Whole(UpTo(c, b))
           /\ \A a \in 0 .. b : UpTo(UpTo(c, b), a) = UpTo(c, a)
<1>1. PICK e : e = EndOf(c, b)
  OBVIOUS
<1>2. e \in 0 .. Len(c) /\ Count(c, e) = b /\ e \in Nat
  BY <1>1, EndFacts
<1>3. PICK t : t = UpTo(c, b)
  OBVIOUS
<1>4. t \in Seq(Block) /\ Len(t) = e /\ IsPrefix(t, c)
  <2>1. t = SubSeq(c, 1, e)
    BY <1>1, <1>3 DEF UpTo
  <2> QED BY <1>2, <2>1, SubSeqPrefix
<1>5. Sealed(t) = b
  <2>1. Agree(t, c, e)
    BY <1>4, PrefixAgree
  <2>2. Count(t, e) = Count(c, e)
    BY <1>2, <1>4, <2>1, SameEnd
  <2> QED BY <1>2, <1>4, <2>2, Counts
<1>6. \A a \in 0 .. b : UpTo(t, a) = UpTo(c, a)
  BY <1>4, <1>5, PrefixFacts
<1>7. Whole(t)
  <2>1. b \in 0 .. b
    BY Counts
  <2> QED BY <1>3, <1>5, <1>6, <2>1 DEF Whole
<1> QED BY <1>1, <1>2, <1>3, <1>4, <1>5, <1>6, <1>7

\* A prefix that ends with a batch is the chain up to that batch.
LEMMA WholePrefix ==
    ASSUME NEW c \in Seq(Block), NEW d \in Seq(Block), Whole(c), IsPrefix(c, d)
    PROVE  /\ c = UpTo(d, Sealed(c)) /\ Sealed(c) \in 0 .. Sealed(d)
<1>1. Sealed(c) \in Nat /\ Sealed(d) \in Nat /\ Sealed(c) <= Sealed(d) /\ Sealed(c) \in 0 .. Sealed(c)
  BY PrefixFacts
<1>2. UpTo(c, Sealed(c)) = UpTo(d, Sealed(c))
  BY <1>1, PrefixFacts
<1> QED BY <1>1, <1>2 DEF Whole

\* Later batches end later.
LEMMA UpToNested ==
    ASSUME NEW c \in Seq(Block), NEW b \in 0 .. Sealed(c), NEW a \in 0 .. b
    PROVE  /\ a \in 0 .. Sealed(c) /\ IsPrefix(UpTo(c, a), UpTo(c, b)) /\ EndOf(c, a) <= EndOf(c, b)
           /\ a < b => EndOf(c, a) < EndOf(c, b)
<1>1. Sealed(c) \in Nat /\ a \in 0 .. Sealed(c) /\ a \in 0 .. b
  BY Counts
<1>2. PICK t : t = UpTo(c, b)
  OBVIOUS
<1>3. t \in Seq(Block) /\ Len(t) = EndOf(c, b) /\ Sealed(t) = b /\ UpTo(t, a) = UpTo(c, a)
  BY <1>1, <1>2, UpToChain
<1>4. IsPrefix(UpTo(t, a), t) /\ Len(UpTo(t, a)) <= Len(t)
  BY <1>3, UpToChain DEF IsPrefix
<1>5. Len(UpTo(c, a)) = EndOf(c, a)
  BY <1>1, UpToChain
<1>6. a < b => EndOf(c, a) # EndOf(c, b)
  BY <1>1, EndFacts
<1>7. EndOf(c, a) \in Nat /\ EndOf(c, b) \in Nat
  BY <1>1, EndFacts
<1>8. EndOf(c, a) <= EndOf(c, b)
  BY <1>3, <1>4, <1>5
<1> QED BY <1>1, <1>2, <1>3, <1>4, <1>6, <1>7, <1>8

\* One more batch.
LEMMA NextBatch ==
    ASSUME NEW c \in Seq(Block), NEW b \in 1 .. Sealed(c)
    PROVE  UpTo(c, b - 1) \o SubSeq(c, EndOf(c, b - 1) + 1, EndOf(c, b)) = UpTo(c, b)
<1>1. Sealed(c) \in Nat /\ b \in 0 .. Sealed(c) /\ b - 1 \in 0 .. b
  BY Counts
<1>2. PICK e, f : e = EndOf(c, b - 1) /\ f = EndOf(c, b)
  OBVIOUS
<1>3. e \in Nat /\ f \in Nat /\ e <= f /\ f <= Len(c) /\ Len(c) \in Nat
  <2>1. f \in 0 .. Len(c) /\ e <= f /\ b - 1 \in 0 .. Sealed(c)
    BY <1>1, <1>2, UpToNested, EndFacts
  <2>2. e \in 0 .. Len(c)
    BY <1>2, <2>1, EndFacts
  <2> QED BY <2>1, <2>2
<1>4. SubSeq(c, 1, e) \o SubSeq(c, e + 1, f) = SubSeq(c, 1, f)
  <2>1. \A i \in 1 .. Len(c) : c[i] \in Block
    OBVIOUS
  <2>2. PICK s, t, u : s = SubSeq(c, 1, e) /\ t = SubSeq(c, e + 1, f) /\ u = SubSeq(c, 1, f)
    OBVIOUS
  <2>3. s \in Seq(Block) /\ Len(s) = e /\ \A i \in 1 .. e : s[i] = c[i]
    BY <1>3, <2>1, <2>2
  <2>4. t \in Seq(Block) /\ Len(t) = f - e /\ \A i \in 1 .. (f - e) : t[i] = c[e + i]
    BY <1>3, <2>1, <2>2
  <2>5. u \in Seq(Block) /\ Len(u) = f /\ \A i \in 1 .. f : u[i] = c[i]
    BY <1>3, <2>1, <2>2
  <2>6. s \o t \in Seq(Block) /\ Len(s \o t) = f
    BY <1>3, <2>3, <2>4
  <2>7. ASSUME NEW i \in 1 .. f PROVE (s \o t)[i] = c[i]
    <3>1. CASE i <= e
      BY <1>3, <2>3, <2>4, <3>1
    <3>2. CASE ~(i <= e)
      <4>1. i - e \in 1 .. (f - e) /\ e + (i - e) = i
        BY <1>3, <3>2
      <4> QED BY <1>3, <2>3, <2>4, <3>2, <4>1
    <3> QED BY <3>1, <3>2
  <2>8. s \o t = u
    <3>1. PICK v : v = s \o t
      OBVIOUS
    <3>2. v \in Seq(Block) /\ Len(v) = f /\ \A i \in 1 .. f : v[i] = c[i]
      BY <2>6, <2>7, <3>1
    <3>3. v = [i \in 1 .. f |-> c[i]]
      BY <3>2
    <3>4. u = [i \in 1 .. f |-> c[i]]
      BY <2>5
    <3> QED BY <3>1, <3>3, <3>4
  <2> QED BY <2>2, <2>8
<1> QED BY <1>2, <1>4 DEF UpTo

\* A new block leaves what there was.
LEMMA AppendPrefix ==
    ASSUME NEW c \in Seq(Block), NEW x \in Block
    PROVE  /\ Append(c, x) \in Seq(Block) /\ Len(Append(c, x)) = Len(c) + 1 /\ IsPrefix(c, Append(c, x))
           /\ Append(c, x)[Len(c) + 1] = x
<1>1. PICK d : d = Append(c, x)
  OBVIOUS
<1>2. d \in Seq(Block) /\ Len(d) = Len(c) + 1 /\ Len(c) \in Nat /\ d[Len(c) + 1] = x
      /\ \A i \in 1 .. Len(c) : d[i] = c[i]
  BY <1>1
<1>3. IsPrefix(c, d)
  BY <1>2, PrefixAgree DEF Agree
<1> QED BY <1>1, <1>2, <1>3

\* The loop of the bisection defines a range for every number of passes.
LEMMA BisectionUnfold ==
    ASSUME NEW ok, NEW left \in Nat, NEW right \in Nat, left <= right
    PROVE  Bisection(ok, left, right) = [n \in 0 .. (right - left) |->
                IF n = 0 THEN <<left, right>> ELSE Halve(ok, Bisection(ok, left, right)[n - 1])]
<1> DEFINE Sol(m, f) == f = [n \in 0 .. m |-> IF n = 0 THEN <<left, right>> ELSE Halve(ok, f[n - 1])]
           S == {m \in Nat : \E f : Sol(m, f)}
<1>1. 0 \in S
  <2> DEFINE f == [n \in 0 .. 0 |-> <<left, right>>]
  <2>1. Sol(0, f)
    OBVIOUS
  <2> HIDE DEF f, Sol
  <2> QED BY <2>1
<1>2. ASSUME NEW m \in S PROVE m + 1 \in S
  <2>1. PICK f : Sol(m, f)
    OBVIOUS
  <2> DEFINE g == [n \in 0 .. m + 1 |-> IF n <= m THEN f[n] ELSE Halve(ok, f[m])]
             h == [n \in 0 .. m + 1 |-> IF n = 0 THEN <<left, right>> ELSE Halve(ok, g[n - 1])]
  <2>2. m \in Nat
    OBVIOUS
  <2>3. \A n \in 0 .. m : g[n] = f[n]
    BY <2>2
  <2>4. ASSUME NEW n \in 0 .. m + 1 PROVE g[n] = h[n]
    <3>1. CASE n = 0
      <4>1. f[n] = <<left, right>>
        BY <2>1, <2>2, <3>1
      <4> QED BY <2>2, <3>1, <4>1
    <3>2. CASE n # 0 /\ n <= m
      <4>1. n \in 0 .. m /\ n - 1 \in 0 .. m
        BY <2>2, <3>2
      <4>2. f[n] = Halve(ok, f[n - 1])
        BY <2>1, <3>2, <4>1
      <4>3. g[n - 1] = f[n - 1] /\ g[n] = f[n]
        BY <2>3, <4>1
      <4> HIDE DEF g
      <4> QED BY <3>2, <4>2, <4>3
    <3>3. CASE n = m + 1
      <4>1. g[n] = Halve(ok, f[m]) /\ n # 0 /\ n - 1 = m
        BY <2>2, <3>3
      <4>2. g[n - 1] = f[m]
        BY <2>2, <2>3, <4>1
      <4> HIDE DEF g
      <4> QED BY <4>1, <4>2
    <3> QED BY <2>2, <3>1, <3>2, <3>3
  <2>5. Sol(m + 1, g)
    <3>1. g = h
      <4>1. g = [n \in 0 .. m + 1 |-> g[n]] /\ h = [n \in 0 .. m + 1 |-> h[n]]
        OBVIOUS
      <4> HIDE DEF g, h
      <4> QED BY <2>4, <4>1
    <3> HIDE DEF g
    <3> QED BY <3>1
  <2> HIDE DEF Sol, g
  <2> QED BY <2>2, <2>5
<1>3. S = Nat
  <2>1. S \in SUBSET Nat
    OBVIOUS
  <2> HIDE DEF S
  <2> QED BY <1>1, <1>2, <2>1, NatSetInduction
<1>4. right - left \in S
  <2>1. right - left \in Nat
    OBVIOUS
  <2> HIDE DEF S
  <2> QED BY <1>3, <2>1
<1>5. \E f : Sol(right - left, f)
  <2> HIDE DEF Sol
  <2> QED BY <1>4
<1> QED BY <1>5 DEF Bisection

\* The bisection returns a number that satisfies the predicate.
LEMMA BinarySearchFacts ==
    ASSUME NEW right \in Nat, NEW ok \in [0 .. right -> BOOLEAN], ok[0]
    PROVE  BinarySearch(ok, 0, right) \in 0 .. right /\ ok[BinarySearch(ok, 0, right)]
<1> DEFINE f == Bisection(ok, 0, right)
           Good(p) == p \in (0 .. right) \X (0 .. right) /\ ok[p[1]]
           S == {n \in Nat : n <= right => Good(f[n])}
<1>1. f = [n \in 0 .. right |-> IF n = 0 THEN <<0, right>> ELSE Halve(ok, f[n - 1])]
  <2>1. right - 0 = right /\ 0 <= right
    OBVIOUS
  <2> QED BY <2>1, BisectionUnfold
<1> HIDE DEF f
<1>2. 0 \in S
  <2>1. f[0] = <<0, right>> /\ 0 \in 0 .. right /\ right \in 0 .. right
    BY <1>1
  <2>2. <<0, right>>[1] = 0
    OBVIOUS
  <2>3. Good(f[0])
    BY <2>1, <2>2
  <2> HIDE DEF Good
  <2> QED BY <2>3
<1>3. ASSUME NEW n \in S PROVE n + 1 \in S
  <2> SUFFICES ASSUME n + 1 <= right PROVE Good(f[n + 1])
    OBVIOUS
  <2>1. n <= right /\ n + 1 \in 0 .. right /\ n + 1 # 0 /\ (n + 1) - 1 = n
    OBVIOUS
  <2>2. f[n + 1] = Halve(ok, f[n])
    BY <1>1, <2>1
  <2>3. Good(f[n])
    BY <2>1
  <2>4. PICK x \in 0 .. right, y \in 0 .. right : f[n] = <<x, y>> /\ ok[x]
    BY <2>3
  <2>5. (x + y) \div 2 \in 0 .. right
    BY <2>4
  <2>6. f[n + 1] \in {<<x, y>>, <<x, (x + y) \div 2>>} \/ (ok[(x + y) \div 2] /\ f[n + 1] = <<(x + y) \div 2, y>>)
    BY <2>2, <2>4 DEF Halve
  <2>7. CASE f[n + 1] = <<x, y>>
    BY <2>4, <2>7
  <2>8. CASE f[n + 1] = <<x, (x + y) \div 2>>
    BY <2>4, <2>5, <2>8
  <2>9. CASE ok[(x + y) \div 2] /\ f[n + 1] = <<(x + y) \div 2, y>>
    BY <2>5, <2>9
  <2> QED BY <2>6, <2>7, <2>8, <2>9
<1>4. S = Nat
  <2>1. S \in SUBSET Nat
    OBVIOUS
  <2> HIDE DEF S
  <2> QED BY <1>2, <1>3, <2>1, NatSetInduction
<1>5. Good(f[right])
  <2>1. right \in S
    BY <1>4
  <2> HIDE DEF Good
  <2> QED BY <2>1
<1>6. BinarySearch(ok, 0, right) = f[right][1]
  <2>1. right - 0 = right
    OBVIOUS
  <2> QED BY <2>1 DEF BinarySearch, f
<1>7. PICK x \in 0 .. right, y \in 0 .. right : f[right] = <<x, y>> /\ ok[x]
  BY <1>5
<1> QED BY <1>6, <1>7

-----------------------------------------------------------------------------
(* What two chains share.                                                  *)

\* The three ways in which the program asks whether a chain c has batch b of a
\* chain p: as a prefix, by the hash of the batch's last block, by its root hash.
LEMMA SharedFacts ==
    ASSUME NEW p \in Seq(Block), NEW c \in Seq(Block), NEW b \in 0 .. Sealed(p)
    PROVE  /\ IsPrefix(UpTo(p, b), c) <=>
                EndOf(p, b) <= Len(c) /\ SubSeq(c, 1, EndOf(p, b)) = SubSeq(p, 1, EndOf(p, b))
           /\ IsPrefix(UpTo(p, b), c) <=> b <= Sealed(c) /\ UpTo(c, b) = UpTo(p, b)
<1>1. PICK t : t = UpTo(p, b)
  OBVIOUS
<1>2. t \in Seq(Block) /\ IsPrefix(t, p) /\ Len(t) = EndOf(p, b) /\ EndOf(p, b) \in Nat /\ EndOf(p, b) <= Len(p)
      /\ Sealed(t) = b /\ Whole(t)
  BY <1>1, UpToChain
<1>3. ASSUME IsPrefix(t, c)
      PROVE  /\ EndOf(p, b) <= Len(c) /\ SubSeq(c, 1, EndOf(p, b)) = SubSeq(p, 1, EndOf(p, b))
             /\ b <= Sealed(c) /\ UpTo(c, b) = t
  <2>1. EndOf(p, b) <= Len(c) /\ Agree(t, c, Len(t)) /\ Agree(t, p, Len(t))
    BY <1>2, <1>3, PrefixAgree DEF Agree
  <2>2. Agree(c, p, EndOf(p, b))
    BY <1>2, <2>1 DEF Agree
  <2>3. SubSeq(c, 1, EndOf(p, b)) = SubSeq(p, 1, EndOf(p, b))
    BY <1>2, <2>1, <2>2, SubSeqAgree
  <2>4. t = UpTo(c, b) /\ b <= Sealed(c)
    BY <1>2, <1>3, WholePrefix
  <2> QED BY <2>1, <2>3, <2>4
<1>4. ASSUME EndOf(p, b) <= Len(c), SubSeq(c, 1, EndOf(p, b)) = SubSeq(p, 1, EndOf(p, b))
      PROVE  IsPrefix(t, c)
  <2>1. t = SubSeq(c, 1, EndOf(p, b)) /\ EndOf(p, b) \in 0 .. Len(c)
    BY <1>1, <1>2, <1>4 DEF UpTo
  <2> QED BY <2>1, SubSeqPrefix
<1>5. ASSUME b <= Sealed(c), UpTo(c, b) = t PROVE IsPrefix(t, c)
  <2>1. b \in 0 .. Sealed(c)
    BY <1>5, Counts
  <2> QED BY <1>5, <2>1, UpToChain
<1> QED BY <1>1, <1>3, <1>4, <1>5

\* A chain that grows by a new block does not get a batch of p that it had not.
LEMMA StaysDiverged ==
    ASSUME NEW p \in Seq(Block), NEW c \in Seq(Block), NEW b \in 0 .. Sealed(p),
           NEW x \in Block, \A i \in 1 .. Len(p) : p[i] # x,
           IsPrefix(UpTo(p, b), Append(c, x))
    PROVE  IsPrefix(UpTo(p, b), c)
<1>1. PICK t : t = UpTo(p, b)
  OBVIOUS
<1>2. t \in Seq(Block) /\ IsPrefix(t, p) /\ Len(t) \in Nat /\ Len(c) \in Nat
  BY <1>1, UpToChain
<1>3. PICK d : d = Append(c, x)
  OBVIOUS
<1>4. d \in Seq(Block) /\ Len(d) = Len(c) + 1 /\ IsPrefix(c, d) /\ d[Len(c) + 1] = x
  BY <1>3, AppendPrefix
<1>5. Agree(t, p, Len(t)) /\ Agree(t, d, Len(t)) /\ Agree(c, d, Len(c))
  BY <1>1, <1>2, <1>3, <1>4, PrefixAgree
<1>6. Len(t) <= Len(c)
  <2> SUFFICES ASSUME ~(Len(t) <= Len(c)) PROVE FALSE
    OBVIOUS
  <2>1. Len(t) = Len(c) + 1 /\ Len(t) \in 1 .. Len(t)
    BY <1>2, <1>4, <1>5 DEF Agree
  <2>2. t[Len(t)] = x /\ t[Len(t)] = p[Len(t)] /\ Len(t) \in 1 .. Len(p)
    BY <1>2, <1>4, <1>5, <2>1 DEF Agree
  <2> QED BY <2>2
<1>7. Agree(t, c, Len(t))
  BY <1>2, <1>5, <1>6 DEF Agree
<1> QED BY <1>1, <1>2, <1>7, PrefixAgree

\* Genesis is on every chain.
LEMMA GenesisShared ==
    ASSUME NEW c \in Seq(Block), NEW d \in Seq(Block)
    PROVE  UpTo(c, 0) = UpTo(d, 0) /\ 0 \in 0 .. Sealed(c)
<1>1. EndOf(c, 0) = 0 /\ EndOf(d, 0) = 0
  BY DEF EndOf
<1>2. Agree(c, d, 0) /\ 0 <= Len(c) /\ 0 <= Len(d)
  BY DEF Agree
<1>3. SubSeq(c, 1, 0) = SubSeq(d, 1, 0)
  BY <1>2, SubSeqAgree
<1>4. 0 \in 0 .. Sealed(c)
  BY Counts
<1> QED BY <1>1, <1>3, <1>4 DEF UpTo

\* A chain that grows, or shrinks, keeps the batches that it still has.
LEMMA OtherEnd ==
    ASSUME NEW p \in Seq(Block), NEW q \in Seq(Block), IsPrefix(p, q) \/ IsPrefix(q, p),
           NEW b \in 0 .. Sealed(p), b <= Sealed(q)
    PROVE  UpTo(p, b) = UpTo(q, b) /\ b \in 0 .. Sealed(q)
<1>1. Sealed(p) \in Nat /\ Sealed(q) \in Nat
  BY Counts
<1>2. b \in 0 .. Sealed(q)
  BY <1>1
<1> QED BY <1>2, PrefixFacts

\* A whole prefix of a chain is one of another with as many batches.
LEMMA WholeKept ==
    ASSUME NEW p \in Seq(Block), NEW q \in Seq(Block), IsPrefix(p, q) \/ IsPrefix(q, p),
           NEW c \in Seq(Block), Whole(c), IsPrefix(c, p), Sealed(c) <= Sealed(q)
    PROVE  IsPrefix(c, q)
<1>1. c = UpTo(p, Sealed(c)) /\ Sealed(c) \in 0 .. Sealed(p)
  BY WholePrefix
<1>2. c = UpTo(q, Sealed(c)) /\ Sealed(c) \in 0 .. Sealed(q)
  BY <1>1, OtherEnd
<1> QED BY <1>2, UpToChain

\* A chain of whole batches, whichever they are, extended by a batch of another.
LEMMA WholeExtended ==
    ASSUME NEW c \in Seq(Block), NEW d \in Seq(Block), NEW b \in 1 .. Sealed(d)
    PROVE  /\ c \o SubSeq(d, EndOf(d, b - 1) + 1, EndOf(d, b)) \in Seq(Block)
           /\ Whole(c \o SubSeq(d, EndOf(d, b - 1) + 1, EndOf(d, b)))
<1>1. Sealed(d) \in Nat /\ b \in 0 .. Sealed(d) /\ b - 1 \in 0 .. b /\ b - 1 \in 0 .. Sealed(d)
      /\ b - 1 < b /\ b # 0
  BY Counts
<1>2. PICK e, f : e = EndOf(d, b - 1) /\ f = EndOf(d, b)
  OBVIOUS
<1>3. e \in Nat /\ f \in Ends(d) /\ f \in 1 .. Len(d) /\ e < f /\ Len(d) \in Nat /\ Len(c) \in Nat
  <2>1. e \in 0 .. Len(d)
    BY <1>1, <1>2, EndFacts
  <2>2. f \in Ends(d)
    BY <1>1, <1>2, EndFacts
  <2>3. e < f
    BY <1>1, <1>2, UpToNested
  <2> QED BY <2>1, <2>2, <2>3 DEF Ends
<1>4. PICK s : s = SubSeq(d, e + 1, f)
  OBVIOUS
<1>5. s \in Seq(Block) /\ Len(s) = f - e /\ s[f - e] = d[f]
  <2>1. \A i \in 1 .. Len(d) : d[i] \in Block
    OBVIOUS
  <2>2. s \in Seq(Block) /\ Len(s) = f - e /\ \A i \in 1 .. (f - e) : s[i] = d[e + i]
    BY <1>3, <1>4, <2>1
  <2>3. f - e \in 1 .. (f - e) /\ e + (f - e) = f
    BY <1>3
  <2> QED BY <2>2, <2>3
<1>6. PICK t : t = c \o s
  OBVIOUS
<1>7. t \in Seq(Block) /\ Len(t) = Len(c) + (f - e) /\ Len(t) \in 1 .. Len(t) /\ t[Len(t)] = d[f]
  <2>1. t \in Seq(Block) /\ Len(t) = Len(c) + (f - e)
    <3>1. \A S : \A p, q \in Seq(S) : p \o q \in Seq(S) /\ Len(p \o q) = Len(p) + Len(q)
      OBVIOUS
    <3>2. s \in Seq(Block) /\ Len(s) = f - e
      BY <1>5
    <3> QED BY <1>6, <3>1, <3>2
  <2>2. Len(t) \in 1 .. Len(t) /\ Len(t) > Len(c) /\ Len(t) - Len(c) = f - e
    BY <1>3, <2>1
  <2>3. t[Len(t)] = s[f - e]
    BY <1>3, <1>5, <1>6, <2>1, <2>2
  <2> QED BY <1>5, <2>1, <2>2, <2>3
<1>8. Len(t) \in Ends(t)
  BY <1>3, <1>7 DEF Ends
<1>9. Sealed(t) = Count(t, Len(t)) /\ EndOf(t, Count(t, Len(t))) = Len(t)
  BY <1>7, <1>8, Counts, EndUnique
<1>10. SubSeq(t, 1, Len(t)) = t
  BY <1>7
<1>11. Whole(t)
  BY <1>9, <1>10 DEF Whole, UpTo
<1> QED BY <1>2, <1>4, <1>6, <1>7, <1>11

\* A sequence with one entry replaced.
LEMMA EntryReplaced ==
    ASSUME NEW S, NEW q \in Seq(S), NEW b \in 1 .. Len(q), NEW h \in S
    PROVE  [q EXCEPT ![b] = h] \in Seq(S)
<1>1. PICK n \in Nat : n = Len(q)
  OBVIOUS
<1>2. q \in [1 .. n -> S]
  BY <1>1
<1>3. [q EXCEPT ![b] = h] \in [1 .. n -> S]
  BY <1>2
<1>4. \A f : f \in [1 .. n -> S] => f \in Seq(S)
  OBVIOUS
<1> QED BY <1>3, <1>4

\* A chain is a prefix of itself.
LEMMA PrefixReflexive == \A c \in Seq(Block) : IsPrefix(c, c)
BY DEF IsPrefix

\* The ends of a queue.
LEMMA QueueEnds ==
    ASSUME NEW S, NEW q \in Seq(S)
    PROVE  /\ \A x \in S : /\ Append(q, x) \in Seq(S) /\ Len(Append(q, x)) = Len(q) + 1
                           /\ Append(q, x)[Len(q) + 1] = x
                           /\ \A i \in 1 .. Len(q) : Append(q, x)[i] = q[i]
           /\ q # <<>> => /\ Len(q) >= 1 /\ Head(q) = q[1] /\ q[1] \in S
                          /\ Tail(q) \in Seq(S) /\ Len(Tail(q)) = Len(q) - 1
                          /\ \A i \in 1 .. Len(q) - 1 : Tail(q)[i] = q[i + 1]
<1>1. Len(q) \in Nat /\ (Len(q) = 0 => q = <<>>)
  OBVIOUS
<1>2. ASSUME NEW x \in S
      PROVE  /\ Append(q, x) \in Seq(S) /\ Len(Append(q, x)) = Len(q) + 1
             /\ Append(q, x)[Len(q) + 1] = x
             /\ \A i \in 1 .. Len(q) : Append(q, x)[i] = q[i]
  BY <1>1
<1>3. ASSUME q # <<>>
      PROVE  /\ Len(q) >= 1 /\ Head(q) = q[1] /\ q[1] \in S
             /\ Tail(q) \in Seq(S) /\ Len(Tail(q)) = Len(q) - 1
             /\ \A i \in 1 .. Len(q) - 1 : Tail(q)[i] = q[i + 1]
  BY <1>1, <1>3
<1> QED BY <1>2, <1>3

-----------------------------------------------------------------------------
(* Steps.                                                                  *)

\* The numbers in what the stores and the process hold.
LEMMA Numbers ==
    ASSUME IInv
    PROVE  /\ used.ids \in Nat /\ \A i \in 1 .. Len(pg) : pg[i].id \in Nat
           /\ \A i \in 1 .. Len(queue) : queue[i].block \in Block /\ queue[i].block.id \in Nat
           /\ fetched # <<>> => fetched[1] \in Answer /\ fetched[1].number \in Nat \ {0} /\ Len(fetched) = 1
<1>1. used.ids \in Nat /\ \A x \in Block : x.id \in Nat
  BY BoundsAreNaturals DEF IInv, MainTypes, Block
<1>2. pg \in Seq(Block) /\ queue \in Seq(QueuedBlock) /\ fetched \in Seq(Answer) /\ Len(fetched) <= 1
  BY DEF IInv, StoreTypes, ProcessTypes
<1>3. \A i \in 1 .. Len(pg) : pg[i] \in Block
  BY <1>2
<1>4. \A i \in 1 .. Len(queue) : queue[i] \in QueuedBlock
  BY <1>2
<1>5. fetched # <<>> => 1 \in 1 .. Len(fetched) /\ Len(fetched) = 1
  <2>1. Len(fetched) \in Nat /\ Len(fetched) <= 1
    BY <1>2
  <2>2. Len(fetched) = 0 => fetched = <<>>
    BY <1>2
  <2>3. PICK n \in Nat : n = Len(fetched) /\ n <= 1
    BY <2>1
  <2>4. n # 0 => n = 1 /\ 1 \in 1 .. n
    BY <2>3
  <2> QED BY <2>2, <2>3, <2>4, Zenon
<1>6. fetched # <<>> => fetched[1] \in Answer
  BY <1>2, <1>5
<1>7. \A x \in QueuedBlock : x.block \in Block
  BY DEF QueuedBlock
<1>8. \A x \in Answer : x.number \in Nat \ {0}
  BY DEF Answer
<1> HIDE DEF QueuedBlock, Answer, Block
<1> QED BY <1>1, <1>3, <1>4, <1>5, <1>6, <1>7, <1>8

\* A process that starts again holds nothing, so only the stores count.
LEMMA RestartStep ==
    ASSUME IInv, Restart, UNCHANGED <<treeDisk, cache>>, MainTypes',
           \A i \in 1 .. Len(chain') : chain'[i].id <= used'.ids,
           pg' \in Seq(Block), Len(pg') <= MaxLen, \A i \in 1 .. Len(pg') : pg'[i].id <= used'.ids,
           roots' \in Seq(Seq(Block)), Len(roots') <= Sealed(pg'), IsPrefix(cache, pg'),
           ~used'.restored => IsPrefix(treeDisk, pg')
    PROVE  IInv'
<1> USE DEF IInv, Restart
<1>1. StoreTypes'
  BY DEF StoreTypes
<1>2. ProcessTypes'
  <2>1. IdleDetector \in Check
    BY DEF IdleDetector, Check
  <2>2. Len(<<>>) = 0 /\ <<>> \in Seq(QueuedBlock) /\ <<>> \in Seq(Answer) /\ Len(pg') \in Nat
        /\ QueueCap \in Nat
    BY BoundsAreNaturals
  <2>3. /\ pc' = "detect" /\ queue' = <<>> /\ fetched' = <<>> /\ treeReady' = FALSE
        /\ keep' = 0 /\ det' = IdleDetector
    OBVIOUS
  <2> HIDE DEF IInv, Restart
  <2>4. Len(queue') = 0 /\ Len(fetched') = 0 /\ Len(pg') + 0 <= MaxLen
    BY <2>2, <2>3
  <2>5. Len(pg') + Len(queue') <= MaxLen /\ Len(queue') <= QueueCap /\ Len(fetched') <= 1
    BY <2>2, <2>4
  <2> QED BY <2>1, <2>2, <2>3, <2>5, Zenon DEF ProcessTypes
<1>3. KnownIds'
  BY DEF KnownIds
<1>4. CacheInv'
  BY DEF CacheInv
<1>5. TreeInv'
  BY DEF TreeInv
<1>6. FetchInv'
  BY DEF FetchInv
<1>7. DetectorInv'
  BY DEF DetectorInv, IdleDetector
<1>8. RollBackInv'
  BY DEF RollBackInv, Checking
<1> QED BY <1>1, <1>2, <1>3, <1>4, <1>5, <1>6, <1>7, <1>8

\* A process that exits and starts again leaves the stores as they are.
LEMMA ExitStep ==
    ASSUME IInv, Restart, UNCHANGED <<main, stores>>,
           used' \in [ids : {used.ids}, reverts : Nat, faults : Nat, restored : {used.restored}]
    PROVE  IInv'
<1> USE DEF IInv, main, stores
<1>1. used'.ids = used.ids /\ used'.restored = used.restored /\ MainTypes'
  BY DEF MainTypes
<1>2. ~used'.restored => IsPrefix(treeDisk, pg')
  BY <1>1 DEF TreeInv
<1>3. Len(pg) <= MaxLen /\ (\A i \in 1 .. Len(pg) : pg[i].id <= used.ids)
      /\ \A i \in 1 .. Len(chain) : chain[i].id <= used.ids
  <2>1. Len(pg) \in Nat /\ Len(queue) \in Nat /\ Len(pg) + Len(queue) <= MaxLen /\ MaxLen \in Nat
    <3>1. pg \in Seq(Block) /\ queue \in Seq(QueuedBlock) /\ Len(pg) + Len(queue) <= MaxLen
      BY DEF StoreTypes, ProcessTypes
    <3>2. Len(pg) \in Nat /\ Len(queue) \in Nat
      BY <3>1
    <3> QED BY <3>1, <3>2, BoundsAreNaturals
  <2> QED BY <2>1 DEF KnownIds
<1>4. pg \in Seq(Block) /\ roots \in Seq(Seq(Block)) /\ Len(roots) <= Sealed(pg) /\ IsPrefix(cache, pg)
  BY DEF StoreTypes, CacheInv
<1> HIDE DEF IInv
<1> QED BY <1>1, <1>2, <1>3, <1>4, RestartStep

\* Whatever the main node does, it does not get a batch back that it had lost.
LEMMA MainStep ==
    ASSUME IInv, UNCHANGED <<stores, process>>, MainTypes', used'.ids >= used.ids,
           used'.restored = used.restored,
           \A i \in 1 .. Len(chain') : chain'[i].id <= used'.ids,
           \A b \in 0 .. Sealed(pg) : IsPrefix(UpTo(pg, b), chain') => IsPrefix(UpTo(pg, b), chain)
    PROVE  IInv'
<1> USE DEF IInv, stores, process
<1>1. StoreTypes' /\ ProcessTypes'
  BY DEF StoreTypes, ProcessTypes
<1>2. KnownIds'
  <2>1. used'.ids \in Nat
    BY BoundsAreNaturals DEF MainTypes
  <2>2. used.ids \in Nat /\ \A i \in 1 .. Len(pg) : pg[i].id \in Nat
    BY Numbers
  <2>3. \A i \in 1 .. Len(queue) : queue[i].block.id \in Nat
    BY Numbers
  <2> QED BY <2>1, <2>2, <2>3 DEF KnownIds
<1>3. CacheInv' /\ TreeInv'
  BY DEF CacheInv, TreeInv, RootsTellChain
<1>4. Len(roots) \in Nat /\ Sealed(pg) \in Nat /\ Len(roots) <= Sealed(pg)
  BY Counts DEF StoreTypes
<1>5. \A b \in Nat : Diverged(b) => Diverged(b)'
  BY <1>4 DEF Diverged, Shared
<1>6. FetchInv'
  <2>1. fetched # <<>> => fetched[1].number \in Nat
    BY Numbers
  <2> QED BY <1>4, <2>1 DEF FetchInv, Shared
<1>7. DetectorInv'
  <2>1. det.batch \in Nat /\ det.right \in Nat /\ det.batch + 1 \in Nat
    BY DEF ProcessTypes, Check
  <2> QED BY <1>5, <2>1 DEF DetectorInv, Checking
<1>8. RollBackInv'
  <2>1. keep + 1 \in Nat
    BY DEF ProcessTypes
  <2> QED BY <1>5, <2>1 DEF RollBackInv, Checking
<1> QED BY <1>1, <1>2, <1>3, <1>6, <1>7, <1>8

\* Sealing uses a fresh id, and a rollback leaves a prefix: nothing lost comes back.
LEMMA MainNodeStep == IInv /\ MainNode => IInv'
<1> SUFFICES ASSUME IInv, MainNode PROVE IInv'
  OBVIOUS
<1>1. chain \in Seq(Block) /\ Len(chain) \in Nat /\ pg \in Seq(Block) /\ Len(chain) <= MaxLen
      /\ Sealed(chain) \in Nat /\ mainRoots \in 0 .. Sealed(chain) /\ used.ids \in 0 .. MaxIds
      /\ MaxIds \in Nat /\ MaxLen \in Nat
  BY BoundsAreNaturals, Counts DEF IInv, MainTypes, StoreTypes
<1>2. used \in [ids : 0 .. MaxIds, reverts : Nat, faults : Nat, restored : BOOLEAN]
  BY DEF IInv, MainTypes
<1>6. \A i \in 1 .. Len(chain) : chain[i].id <= used.ids /\ chain[i].id \in Nat
  <2>1. \A x \in Block : x.id \in Nat
    BY DEF Block
  <2>2. \A i \in 1 .. Len(chain) : chain[i] \in Block
    BY <1>1
  <2> QED BY <2>1, <2>2 DEF IInv, KnownIds
<1>3. CASE MainSeal
  <2>1. PICK last \in BOOLEAN : chain' = Append(chain, [id |-> used.ids + 1, last |-> last])
    BY <1>3 DEF MainSeal
  <2> DEFINE x == [id |-> used.ids + 1, last |-> last]
  <2>2. x \in Block
    BY <1>1, <1>3 DEF MainSeal, Block
  <2>3. \A i \in 1 .. Len(pg) : pg[i] # x
    BY <1>1 DEF IInv, KnownIds
  <2>4. chain' = Append(chain, x)
    BY <2>1
  <2> HIDE DEF x
  <2>5. chain' \in Seq(Block) /\ Len(chain') = Len(chain) + 1 /\ IsPrefix(chain, chain')
    BY <1>1, <2>2, <2>4, AppendPrefix
  <2>6. Sealed(chain) <= Sealed(chain') /\ Sealed(chain') \in Nat
    BY <1>1, <2>5, PrefixFacts
  <2>7. MainTypes' /\ used'.ids >= used.ids /\ used'.restored = used.restored
    <3>1. used' = [used EXCEPT !.ids = used.ids + 1] /\ mainRoots' = mainRoots /\ Len(chain) < MaxLen
          /\ used.ids < MaxIds /\ commits' = commits
      BY <1>3 DEF MainSeal
    <3>2. PICK u, d : u = used /\ d = used.ids + 1
      OBVIOUS
    <3>3. d \in 0 .. MaxIds /\ d >= used.ids
      BY <1>1, <3>1, <3>2
    <3>4. u \in [ids : 0 .. MaxIds, reverts : Nat, faults : Nat, restored : BOOLEAN]
      BY <1>2, <3>2
    <3>5. [u EXCEPT !.ids = d] \in [ids : 0 .. MaxIds, reverts : Nat, faults : Nat, restored : BOOLEAN]
      BY <3>3, <3>4
    <3>6. [u EXCEPT !.ids = d].ids = d /\ [u EXCEPT !.ids = d].restored = u.restored
      BY <3>4
    <3>7. used' = [u EXCEPT !.ids = d]
      BY <3>1, <3>2
    <3>8. used' \in [ids : 0 .. MaxIds, reverts : Nat, faults : Nat, restored : BOOLEAN] /\ used'.ids >= used.ids
          /\ used'.restored = used.restored
      BY <3>2, <3>3, <3>5, <3>6, <3>7
    <3>9. commits' \in Seq(Seq(Block))
      BY <3>1 DEF IInv, MainTypes
    <3> QED BY <1>1, <2>5, <2>6, <3>1, <3>8, <3>9 DEF MainTypes
  <2>8. \A b \in 0 .. Sealed(pg) : IsPrefix(UpTo(pg, b), chain') => IsPrefix(UpTo(pg, b), chain)
    BY <1>1, <2>2, <2>3, <2>4, StaysDiverged
  <2>9. UNCHANGED <<stores, process>>
    BY <1>3 DEF MainSeal
  <2>10. ASSUME NEW i \in 1 .. Len(chain') PROVE chain'[i].id <= used'.ids
    <3>1. used'.ids = used.ids + 1
      BY <1>2, <1>3 DEF MainSeal
    <3>2. CASE i = Len(chain) + 1
      BY <1>1, <2>2, <2>4, <3>1, <3>2, AppendPrefix DEF x
    <3>3. CASE i # Len(chain) + 1
      <4>1. i \in 1 .. Len(chain)
        BY <1>1, <2>5, <3>3
      <4>2. chain'[i] = chain[i]
        BY <1>1, <2>5, <4>1, PrefixAgree DEF Agree
      <4> QED BY <1>1, <1>6, <3>1, <4>1, <4>2
    <3> QED BY <3>2, <3>3
  <2> QED BY <2>7, <2>8, <2>9, <2>10, MainStep
<1>4. CASE MainRoot
  <2>1. MainTypes' /\ used'.ids >= used.ids /\ chain' = chain
    BY <1>1, <1>2, <1>4 DEF IInv, MainTypes, MainRoot
  <2>2. UNCHANGED <<stores, process>> /\ used' = used
    BY <1>4 DEF MainRoot
  <2> QED BY <1>6, <2>1, <2>2, MainStep
<1>7. CASE MainCommit
  <2>1. PICK b \in 1 .. mainRoots :
            commits' = IF b <= Len(commits) THEN [commits EXCEPT ![b] = UpTo(chain, b)]
                       ELSE Append(commits, UpTo(chain, b))
    BY <1>7 DEF MainCommit
  <2>2. commits \in Seq(Seq(Block)) /\ Len(commits) \in Nat /\ b \in 0 .. Sealed(chain) /\ b \in Nat /\ b >= 1
    BY <1>1 DEF IInv, MainTypes
  <2>3. PICK h : h = UpTo(chain, b)
    OBVIOUS
  <2>4. h \in Seq(Block)
    BY <1>1, <2>2, <2>3, UpToChain
  <2>5. commits' \in Seq(Seq(Block))
    <3>1. CASE b <= Len(commits)
      <4>1. commits' = [commits EXCEPT ![b] = h]
        BY <2>1, <2>3, <3>1
      <4>2. b \in 1 .. Len(commits)
        BY <2>2, <3>1
      <4> QED BY <2>2, <2>4, <4>1, <4>2, EntryReplaced
    <3>2. CASE ~(b <= Len(commits))
      <4>1. commits' = Append(commits, h)
        BY <2>1, <2>3, <3>2
      <4> QED BY <2>2, <2>4, <4>1, QueueEnds
    <3> QED BY <3>1, <3>2
  <2>6. UNCHANGED <<chain, mainRoots, stores, process, used>>
    BY <1>7 DEF MainCommit
  <2>7. MainTypes' /\ used'.ids >= used.ids
    BY <1>1, <2>5, <2>6 DEF IInv, MainTypes
  <2> QED BY <1>6, <2>6, <2>7, MainStep
<1>5. CASE MainRollBack
  <2>1. PICK k \in 0 .. mainRoots : chain' = UpTo(chain, k) /\ mainRoots' = k
    BY <1>5 DEF MainRollBack
  <2>2. k \in 0 .. Sealed(chain)
    BY <1>1, <2>1
  <2>3. chain' \in Seq(Block) /\ IsPrefix(chain', chain) /\ Sealed(chain') = k /\ Len(chain') \in Nat
    BY <1>1, <2>1, <2>2, UpToChain
  <2>4. Len(chain') <= MaxLen
    BY <1>1, <2>3, PrefixFacts
  <2>5. MainTypes' /\ used'.ids >= used.ids /\ used'.restored = used.restored
    <3>1. used' = [used EXCEPT !.reverts = used.reverts + 1] /\ commits' = commits
      BY <1>5 DEF MainRollBack
    <3>2. PICK u, d : u = used /\ d = used.reverts + 1
      OBVIOUS
    <3>3. u \in [ids : 0 .. MaxIds, reverts : Nat, faults : Nat, restored : BOOLEAN]
      BY <1>2, <3>2
    <3>4. d \in Nat
      BY <3>2, <3>3
    <3>5. [u EXCEPT !.reverts = d] \in [ids : 0 .. MaxIds, reverts : Nat, faults : Nat, restored : BOOLEAN]
      BY <3>3, <3>4
    <3>6. [u EXCEPT !.reverts = d].ids = u.ids /\ [u EXCEPT !.reverts = d].restored = u.restored
      BY <3>3
    <3>7. used' = [u EXCEPT !.reverts = d]
      BY <3>1, <3>2
    <3>8. used' \in [ids : 0 .. MaxIds, reverts : Nat, faults : Nat, restored : BOOLEAN] /\ used'.ids >= used.ids
          /\ used'.restored = used.restored
      BY <1>1, <3>2, <3>5, <3>6, <3>7
    <3>9. commits' \in Seq(Seq(Block))
      BY <3>1 DEF IInv, MainTypes
    <3> QED BY <1>1, <2>1, <2>3, <2>4, <3>8, <3>9 DEF MainTypes
  <2>6. ASSUME NEW b \in 0 .. Sealed(pg), IsPrefix(UpTo(pg, b), chain') PROVE IsPrefix(UpTo(pg, b), chain)
    <3>1. UpTo(pg, b) \in Seq(Block)
      BY <1>1, UpToChain
    <3> QED BY <1>1, <2>3, <2>6, <3>1, PrefixTransitive
  <2>7. UNCHANGED <<stores, process>>
    BY <1>5 DEF MainRollBack
  <2>8. ASSUME NEW i \in 1 .. Len(chain') PROVE chain'[i].id <= used'.ids
    <3>1. used'.ids = used.ids
      BY <1>2, <1>5 DEF MainRollBack
    <3>2. i \in 1 .. Len(chain) /\ chain'[i] = chain[i]
      BY <1>1, <2>3, PrefixAgree DEF Agree
    <3> QED BY <1>6, <3>1, <3>2
  <2> QED BY <2>5, <2>6, <2>7, <2>8, MainStep
<1> QED BY <1>3, <1>4, <1>5, <1>7 DEF MainNode

\* Every part of the invariant but the ones about the detector and the reverter,
\* when these are all that moves.
LEMMA DetectorFrame ==
    ASSUME IInv, UNCHANGED <<main, stores, treeMem, queue, treeReady, fetched, used>>,
           det' \in Check, keep' \in Nat,
           pc' \in {"detect", "run", "roll_back_tree"}, pc = "run" => pc' = "run"
    PROVE  MainTypes' /\ StoreTypes' /\ ProcessTypes' /\ KnownIds'
           /\ CacheInv' /\ TreeInv' /\ FetchInv'
<1> USE DEF IInv, main, stores
<1>1. MainTypes' /\ StoreTypes'
  BY DEF MainTypes, StoreTypes
<1>2. ProcessTypes'
  BY DEF ProcessTypes
<1>3. KnownIds' /\ CacheInv'
  BY DEF KnownIds, CacheInv
<1>4. TreeInv'
  BY DEF TreeInv, RootsTellChain
<1>5. FetchInv'
  BY DEF FetchInv, Shared
<1> QED BY <1>1, <1>2, <1>3, <1>4, <1>5

\* A step of the detector that goes on with its check.
LEMMA DetectorStepKeeps ==
    ASSUME IInv, Checking, NEW next \in Check, DetectorStep(next),
           next.at \in {"root", "block"} =>
                next.batch <= Len(roots) /\ (pc = "detect" => Diverged(next.batch + 1)),
           next.at = "block" /\ ~next.root => next.batch # 0 /\ Diverged(next.batch),
           next.at = "search" =>
                /\ next.left < next.right /\ next.right <= Len(roots) + 1
                /\ pc = "detect" => Diverged(next.right)
    PROVE  IInv'
<1>1. det' = next /\ UNCHANGED <<main, stores, treeMem, queue, pc, treeReady, keep, fetched, used>>
  BY DEF DetectorStep
<1>2. pc' \in {"detect", "run"} /\ pc' = pc /\ keep' = keep /\ keep \in Nat /\ det' \in Check
  BY <1>1 DEF Checking, IInv, ProcessTypes
<1>3. MainTypes' /\ StoreTypes' /\ ProcessTypes' /\ KnownIds'
      /\ CacheInv' /\ TreeInv' /\ FetchInv'
  BY <1>1, <1>2, DetectorFrame
<1>4. \A b : Diverged(b) => Diverged(b)'
  BY <1>1 DEF Diverged, Shared, main, stores
<1>5. DetectorInv'
  BY <1>1, <1>2, <1>4 DEF DetectorInv, Checking, stores
<1>6. RollBackInv'
  BY <1>2, <1>4 DEF RollBackInv, Checking, IInv
<1> QED BY <1>3, <1>5, <1>6 DEF IInv

\* The sizes and the types that the detector's steps work with.
LEMMA DetectorFacts ==
    ASSUME IInv
    PROVE  /\ pg \in Seq(Block) /\ chain \in Seq(Block) /\ det \in Check /\ IdleDetector \in Check
           /\ Len(roots) \in Nat /\ Sealed(pg) \in Nat /\ Len(roots) <= Sealed(pg)
           /\ Len(pg) \in Nat /\ Len(chain) \in Nat
           /\ Sealed(chain) \in Nat /\ mainRoots \in 0 .. Sealed(chain)
           /\ det.batch \in Nat /\ det.block \in Nat /\ det.left \in Nat /\ det.right \in Nat
           /\ det.root \in BOOLEAN
           /\ \A b \in 1 .. Len(roots) : b \in 0 .. Sealed(pg)
<1>1. pg \in Seq(Block) /\ chain \in Seq(Block) /\ det \in Check /\ Len(roots) <= Sealed(pg)
      /\ roots \in Seq(Seq(Block)) /\ mainRoots \in 0 .. Sealed(chain)
  BY DEF IInv, MainTypes, StoreTypes, ProcessTypes
<1>2. Len(roots) \in Nat /\ Sealed(pg) \in Nat /\ Sealed(chain) \in Nat
  BY <1>1, Counts
<1>3. Len(pg) \in Nat /\ Len(chain) \in Nat
  BY <1>1
<1>4. IdleDetector \in Check
  BY DEF IdleDetector, Check
<1>5. det.batch \in Nat /\ det.block \in Nat /\ det.left \in Nat /\ det.right \in Nat /\ det.root \in BOOLEAN
  BY <1>1 DEF Check
<1>6. \A b \in 1 .. Len(roots) : b \in 0 .. Sealed(pg)
  BY <1>1, <1>2
<1> QED BY <1>1, <1>2, <1>3, <1>4, <1>5, <1>6

\* A batch that the main node has is among its batches, with the same hashes.
LEMMA SharedByMain ==
    ASSUME IInv, NEW b \in 0 .. Sealed(pg), Shared(b)
    PROVE  /\ b <= Sealed(chain) /\ UpTo(chain, b) = UpTo(pg, b)
           /\ EndOf(pg, b) <= Len(chain) /\ SubSeq(chain, 1, EndOf(pg, b)) = SubSeq(pg, 1, EndOf(pg, b))
<1>1. pg \in Seq(Block) /\ chain \in Seq(Block)
  BY DetectorFacts
<1> QED BY <1>1, SharedFacts DEF Shared

\* A root hash that differs tells a batch that the main node does not have, if it is
\* the batch's own.
LEMMA OtherRoot ==
    ASSUME IInv, NEW b \in Nat, b <= Len(roots), ~RootsMatch(b)
    PROVE  b # 0 /\ (roots[b] = UpTo(pg, b) => ~Shared(b))
<1>1. b # 0 /\ roots[b] # UpTo(chain, b)
  BY DEF RootsMatch
<1>2. b \in 1 .. Len(roots)
  BY <1>1, DetectorFacts
<1>3. b \in 0 .. Sealed(pg)
  BY <1>2, DetectorFacts
<1> QED BY <1>1, <1>3, SharedByMain

\* The smaller of two numbers.
LEMMA MinOfTwo ==
    ASSUME NEW a \in Nat, NEW b \in Nat
    PROVE  Min({a, b}) \in Nat /\ Min({a, b}) \in {a, b} /\ Min({a, b}) <= a /\ Min({a, b}) <= b
<1>1. \E x \in {a, b} : \A y \in {a, b} : x <= y
  <2>1. CASE a <= b
    BY <2>1
  <2>2. CASE b <= a
    BY <2>2
  <2> QED BY <2>1, <2>2
<1>2. Min({a, b}) \in {a, b} /\ \A y \in {a, b} : Min({a, b}) <= y
  BY <1>1 DEF Min
<1> QED BY <1>2

\* The batch after the last one compared is diverged: the main node does not have it.
LEMMA CheckStartStep == IInv /\ CheckStart => IInv'
<1> SUFFICES ASSUME IInv, CheckStart PROVE IInv'
  OBVIOUS
<1> DEFINE m == Min({Len(roots), Sealed(chain)})
           k == Min({Len(pg), Len(chain)})
           next == [IdleDetector EXCEPT !.at = "root", !.batch = m, !.block = k]
<1>1. m \in {Len(roots), Sealed(chain)} /\ m <= Len(roots) /\ m <= Sealed(chain) /\ k \in Nat
  <2>1. PICK a \in Nat, b \in Nat, c \in Nat, d \in Nat :
            a = Len(roots) /\ b = Sealed(chain) /\ c = Len(pg) /\ d = Len(chain)
    BY DetectorFacts
  <2>2. m = Min({a, b}) /\ k = Min({c, d})
    BY <2>1
  <2> HIDE DEF m, k
  <2>3. Min({a, b}) \in {a, b} /\ Min({a, b}) <= a /\ Min({a, b}) <= b
    BY MinOfTwo
  <2>4. Min({c, d}) \in Nat
    BY MinOfTwo
  <2> QED BY <2>1, <2>2, <2>3, <2>4
<1>2. DetectorStep(next) /\ Checking
  BY DEF CheckStart
<1> HIDE DEF m, k
<1>3. next.at = "root" /\ next.batch = m /\ next \in Check
  BY <1>1, DetectorFacts DEF IdleDetector, Check
<1>4. Diverged(m + 1)
  <2> SUFFICES ASSUME m + 1 <= Len(roots), Shared(m + 1) PROVE FALSE
    BY DEF Diverged
  <2>1. m + 1 \in 0 .. Sealed(pg) /\ m = Sealed(chain)
    BY <1>1, DetectorFacts
  <2>2. m + 1 <= Sealed(chain)
    BY <2>1, SharedByMain
  <2> QED BY <2>1, <2>2, DetectorFacts
<1> HIDE DEF next
<1> QED BY <1>1, <1>2, <1>3, <1>4, DetectorStepKeeps

\* A root hash that does not match tells a diverged batch.
LEMMA CheckRootStep == IInv /\ CheckRoot => IInv'
<1> SUFFICES ASSUME IInv, CheckRoot PROVE IInv'
  OBVIOUS
<1>1. Checking /\ det.at = "root"
  BY DEF CheckRoot
<1>2. CASE MissingRoot(det.batch)
  <2>1. DetectorStep(IdleDetector) /\ IdleDetector \in Check /\ IdleDetector.at = "idle"
    BY <1>2, DetectorFacts DEF CheckRoot, IdleDetector
  <2> QED BY <1>1, <2>1, DetectorStepKeeps
<1>3. CASE ~MissingRoot(det.batch)
  <2> DEFINE next == [det EXCEPT !.at = "block", !.root = RootsMatch(det.batch)]
  <2>1. DetectorStep(next)
    BY <1>3 DEF CheckRoot
  <2>2. RootsMatch(det.batch) \in BOOLEAN
    BY DEF RootsMatch
  <2>3. next.at = "block" /\ next.batch = det.batch /\ next.root = RootsMatch(det.batch) /\ next \in Check
    BY <2>2, DetectorFacts DEF Check
  <2>4. det.batch <= Len(roots) /\ (pc = "detect" => Diverged(det.batch + 1))
    BY <1>1 DEF IInv, DetectorInv
  <2>5. ~RootsMatch(det.batch) => det.batch # 0 /\ Diverged(det.batch)
    BY <2>4, OtherRoot, DetectorFacts DEF Diverged
  <2> HIDE DEF next
  <2> QED BY <1>1, <2>1, <2>3, <2>4, <2>5, DetectorStepKeeps
<1> QED BY <1>2, <1>3

\* The search begins below a diverged batch, at the latest the one after the root hashes.
LEMMA CheckBlockStep == IInv /\ CheckBlock => IInv'
<1> SUFFICES ASSUME IInv, CheckBlock PROVE IInv'
  OBVIOUS
<1>1. Checking /\ det.at = "block"
  BY DEF CheckBlock
<1>2. CASE ~MissingBlock(det.block) /\ det.root /\ BlocksMatch(det.block)
  <2>1. det' = IdleDetector /\ pc' = "run"
        /\ UNCHANGED <<main, stores, treeMem, queue, treeReady, keep, fetched, used>>
    BY <1>2 DEF CheckBlock
  <2>2. keep' = 0 /\ det' \in Check
    BY <1>1, <2>1, DetectorFacts DEF IInv, RollBackInv
  <2>3. MainTypes' /\ StoreTypes' /\ ProcessTypes' /\ KnownIds'
        /\ CacheInv' /\ TreeInv' /\ FetchInv'
    BY <2>1, <2>2, DetectorFrame
  <2>4. DetectorInv'
    BY <2>1 DEF DetectorInv, IdleDetector
  <2>5. RollBackInv'
    BY <2>1, <2>2 DEF RollBackInv, Checking
  <2> QED BY <2>3, <2>4, <2>5 DEF IInv
<1>3. CASE MissingBlock(det.block)
  <2>1. DetectorStep(IdleDetector) /\ IdleDetector \in Check /\ IdleDetector.at = "idle"
    BY <1>3, DetectorFacts DEF CheckBlock, IdleDetector
  <2> QED BY <1>1, <2>1, DetectorStepKeeps
<1>4. CASE ~MissingBlock(det.block) /\ ~(det.root /\ BlocksMatch(det.block))
  <2> DEFINE next == [IdleDetector EXCEPT !.at = "search", !.right = FirstDiverged]
  <2>1. DetectorStep(next)
    BY <1>4 DEF CheckBlock
  <2>2. FirstDiverged \in Nat /\ FirstDiverged = det.batch + (IF det.root THEN 1 ELSE 0)
    BY DetectorFacts DEF FirstDiverged
  <2>3. next.at = "search" /\ next.left = 0 /\ next.right = FirstDiverged /\ next \in Check
    BY <2>2 DEF IdleDetector, Check
  <2>4. /\ det.batch <= Len(roots) /\ (pc = "detect" => Diverged(det.batch + 1))
        /\ ~det.root => det.batch # 0 /\ Diverged(det.batch)
    BY <1>1 DEF IInv, DetectorInv
  <2> HIDE DEF next
  <2>5. 0 < FirstDiverged /\ FirstDiverged <= Len(roots) + 1 /\ (pc = "detect" => Diverged(FirstDiverged))
    <3>1. CASE det.root
      <4>1. FirstDiverged = det.batch + 1
        BY <2>2, <3>1
      <4> QED BY <2>4, <4>1, DetectorFacts
    <3>2. CASE ~det.root
      <4>1. FirstDiverged = det.batch
        BY <2>2, <3>2, DetectorFacts
      <4> QED BY <2>4, <3>2, <4>1, DetectorFacts
    <3> QED BY <3>1, <3>2
  <2> QED BY <1>1, <2>1, <2>3, <2>5, DetectorStepKeeps
<1> QED BY <1>2, <1>3, <1>4

\* A probe that fails tells a diverged batch, one that passes or lacks data only moves left.
LEMMA SearchStepStep == IInv /\ SearchStep => IInv'
<1> SUFFICES ASSUME IInv, SearchStep PROVE IInv'
  OBVIOUS
<1> DEFINE middle == (det.left + det.right) \div 2
<1>1. Checking /\ det.at = "search" /\ det.left + 1 < det.right
      /\ DetectorStep(IF ContentsMatch(middle) THEN [det EXCEPT !.left = middle]
                      ELSE [det EXCEPT !.right = middle])
  BY DEF SearchStep
<1>2. det.right <= Len(roots) + 1 /\ (pc = "detect" => Diverged(det.right))
  BY <1>1 DEF IInv, DetectorInv
<1>3. middle \in Nat /\ det.left < middle /\ middle < det.right
  <2>1. PICK a \in Nat, b \in Nat : a = det.left /\ b = det.right
    BY DetectorFacts
  <2>2. a + 1 < b
    BY <1>1, <2>1
  <2>3. (a + b) \div 2 \in Nat /\ a < (a + b) \div 2 /\ (a + b) \div 2 < b
    BY <2>2
  <2> QED BY <2>1, <2>3
<1> HIDE DEF middle
<1>4. CASE ContentsMatch(middle)
  <2> DEFINE next == [det EXCEPT !.left = middle]
  <2>1. DetectorStep(next)
    BY <1>1, <1>4
  <2>2. next.at = "search" /\ next.left = middle /\ next.right = det.right /\ next \in Check
    BY <1>1, <1>3, DetectorFacts DEF Check
  <2> HIDE DEF next
  <2> QED BY <1>1, <1>2, <1>3, <2>1, <2>2, DetectorStepKeeps
<1>5. CASE ~ContentsMatch(middle)
  <2> DEFINE next == [det EXCEPT !.right = middle]
  <2>1. DetectorStep(next)
    BY <1>1, <1>5
  <2>2. next.at = "search" /\ next.left = det.left /\ next.right = middle /\ next \in Check
    BY <1>1, <1>3, DetectorFacts DEF Check
  <2>3. middle <= Len(roots) /\ middle \in 0 .. Sealed(pg)
    BY <1>2, <1>3, DetectorFacts
  <2>4. roots[middle] = UpTo(pg, middle) => ~Shared(middle)
    <3> SUFFICES ASSUME roots[middle] = UpTo(pg, middle), Shared(middle) PROVE FALSE
      OBVIOUS
    <3>1. RootsMatch(middle)
      BY <1>3, <2>3, OtherRoot
    <3>2. BlocksMatch(EndOf(pg, middle))
      BY <2>3, SharedByMain DEF BlocksMatch
    <3> QED BY <1>5, <3>1, <3>2 DEF ContentsMatch
  <2> HIDE DEF next
  <2>5. Diverged(middle)
    BY <1>3, <2>3, <2>4, DetectorFacts DEF Diverged
  <2>6. middle <= Len(roots) + 1
    BY <1>3, <2>3, DetectorFacts
  <2> QED BY <1>1, <1>3, <2>1, <2>2, <2>5, <2>6, DetectorStepKeeps
<1> QED BY <1>4, <1>5

\* What is rolled back begins with the diverged batch that the search ended with.
LEMMA ReorgDetectedStep == IInv /\ ReorgDetected => IInv'
<1> SUFFICES ASSUME IInv, ReorgDetected PROVE IInv'
  OBVIOUS
<1>1. Checking /\ det.at = "search" /\ det.left + 1 >= det.right
  BY DEF ReorgDetected
<1>2. det.left < det.right /\ det.right <= Len(roots) + 1 /\ (pc = "detect" => Diverged(det.right))
  BY <1>1 DEF IInv, DetectorInv
<1>3. det.right = det.left + 1 /\ det.left <= Len(roots)
  BY <1>1, <1>2, DetectorFacts
<1>4. CASE pc = "detect"
  <2>1. pc' = "roll_back_tree" /\ keep' = det.left /\ det' = IdleDetector
        /\ UNCHANGED <<main, stores, treeMem, queue, treeReady, fetched, used>>
    BY <1>4 DEF ReorgDetected, stores
  <2>2. keep' \in Nat /\ det' \in Check
    BY <2>1, DetectorFacts
  <2>3. MainTypes' /\ StoreTypes' /\ ProcessTypes' /\ KnownIds'
        /\ CacheInv' /\ TreeInv' /\ FetchInv'
    BY <1>4, <2>1, <2>2, DetectorFrame
  <2>4. DetectorInv'
    BY <2>1 DEF DetectorInv, IdleDetector
  <2>5. RollBackInv'
    <3>1. Diverged(keep' + 1) /\ keep' <= Len(roots)
      BY <1>2, <1>3, <1>4, <2>1
    <3> QED BY <2>1, <3>1 DEF RollBackInv, Checking, Diverged, Shared, main, stores
  <2> QED BY <2>3, <2>4, <2>5 DEF IInv
<1>5. CASE pc # "detect"
  <2>1. Restart /\ UNCHANGED <<main, stores>> /\ used' = used
    BY <1>5 DEF ReorgDetected, stores
  <2>2. used' \in [ids : {used.ids}, reverts : Nat, faults : Nat, restored : {used.restored}]
    BY <2>1 DEF IInv, MainTypes
  <2> QED BY <2>1, <2>2, ExitStep
<1> QED BY <1>4, <1>5

\* The steps of the detector.
LEMMA DetectorKeeps == IInv /\ Detector => IInv'
BY CheckStartStep, CheckRootStep, CheckBlockStep, SearchStepStep, ReorgDetectedStep DEF Detector

\* What a crash and a restored backup leave.
LEMMA CrashStep == IInv /\ Crash => IInv'
<1> SUFFICES ASSUME IInv, Crash PROVE IInv'
  OBVIOUS
<1>1. Restart /\ UNCHANGED <<main, stores>> /\ used' = [used EXCEPT !.faults = used.faults + 1]
  BY DEF Crash
<1>2. used' \in [ids : {used.ids}, reverts : Nat, faults : Nat, restored : {used.restored}]
  <2>1. PICK u \in [ids : 0 .. MaxIds, reverts : Nat, faults : Nat, restored : BOOLEAN] : u = used
    BY DEF IInv, MainTypes
  <2>2. PICK f \in Nat : f = u.faults + 1
    BY <2>1
  <2>3. [u EXCEPT !.faults = f] \in [ids : {u.ids}, reverts : Nat, faults : Nat, restored : {u.restored}]
    OBVIOUS
  <2> QED BY <1>1, <2>1, <2>2, <2>3
<1> QED BY <1>1, <1>2, ExitStep

\* A backup is a prefix of Postgres, and the cache a prefix of the backup.
LEMMA RestorePostgresStep == IInv /\ RestorePostgres => IInv'
<1> SUFFICES ASSUME IInv, RestorePostgres PROVE IInv'
  OBVIOUS
<1>1. Restart /\ UNCHANGED <<main, treeDisk, cache>>
      /\ used' = [used EXCEPT !.faults = used.faults + 1, !.restored = TRUE]
  BY DEF RestorePostgres
<1>2. pg \in Seq(Block) /\ cache \in Seq(Block) /\ roots \in Seq(Seq(Block)) /\ Len(pg) \in Nat
      /\ Len(roots) \in Nat /\ Len(pg) <= MaxLen
  <2>1. pg \in Seq(Block) /\ cache \in Seq(Block) /\ roots \in Seq(Seq(Block)) /\ Len(pg) + Len(queue) <= MaxLen
        /\ queue \in Seq(QueuedBlock)
    BY DEF IInv, StoreTypes, ProcessTypes
  <2>2. Len(pg) \in Nat /\ Len(roots) \in Nat /\ Len(queue) \in Nat /\ MaxLen \in Nat
    BY <2>1, BoundsAreNaturals
  <2> QED BY <2>1, <2>2
<1>3. PICK n \in 0 .. (Len(pg) - 1) :
        /\ Sealed(cache) <= Sealed(SubSeq(pg, 1, n))
        /\ pg' = SubSeq(pg, 1, n)
        /\ roots' = SubSeq(roots, 1, Min({Len(roots), Sealed(SubSeq(pg, 1, n))}))
  BY DEF RestorePostgres
<1>4. n \in 0 .. Len(pg)
  BY <1>2
<1>5. pg' \in Seq(Block) /\ IsPrefix(pg', pg) /\ Len(pg') = n /\ Sealed(cache) <= Sealed(pg') /\ Sealed(pg') \in Nat
      /\ Len(pg') <= MaxLen
  <2>1. pg' \in Seq(Block) /\ IsPrefix(pg', pg) /\ Len(pg') = n
    BY <1>2, <1>3, <1>4, SubSeqPrefix
  <2>2. Len(pg') <= MaxLen
    BY <1>2, <1>4, <2>1, BoundsAreNaturals
  <2>3. Sealed(cache) <= Sealed(pg')
    BY <1>3
  <2>4. Sealed(pg') \in Nat
    BY <2>1, Counts
  <2> QED BY <2>1, <2>2, <2>3, <2>4
<1>6. PICK m : m = Min({Len(roots), Sealed(pg')})
  OBVIOUS
<1>7. m \in Nat /\ m <= Len(roots) /\ m <= Sealed(pg') /\ roots' = SubSeq(roots, 1, m)
  <2>1. PICK a \in Nat, z \in Nat : a = Len(roots) /\ z = Sealed(pg')
    BY <1>2, <1>5
  <2>2. Min({a, z}) \in Nat /\ Min({a, z}) <= a /\ Min({a, z}) <= z
    BY MinOfTwo
  <2>3. roots' = SubSeq(roots, 1, m)
    BY <1>3, <1>6
  <2> QED BY <1>6, <2>1, <2>2, <2>3
<1>8. \A b \in 1 .. Len(roots) : roots[b] \in Seq(Block)
  BY <1>2
<1>9. roots' \in Seq(Seq(Block)) /\ Len(roots') = m /\ \A b \in 1 .. m : roots'[b] = roots[b]
  BY <1>2, <1>7, <1>8
<1>11. IsPrefix(cache, pg')
  BY <1>2, <1>5, WholeKept DEF IInv, CacheInv
<1>12. used' \in [ids : 0 .. MaxIds, reverts : Nat, faults : Nat, restored : BOOLEAN] /\ used'.ids = used.ids
       /\ used'.restored
  <2>1. PICK u \in [ids : 0 .. MaxIds, reverts : Nat, faults : Nat, restored : BOOLEAN] : u = used
    BY DEF IInv, MainTypes
  <2>2. PICK f \in Nat : f = u.faults + 1
    BY <2>1
  <2>6. PICK z \in BOOLEAN : z = TRUE
    BY Zenon
  <2>3. used' = [u EXCEPT !.faults = f, !.restored = z]
    BY <1>1, <2>1, <2>2, <2>6, Zenon
  <2>4. [u EXCEPT !.faults = f, !.restored = z] \in
            [ids : 0 .. MaxIds, reverts : Nat, faults : Nat, restored : BOOLEAN]
    OBVIOUS
  <2>5. [u EXCEPT !.faults = f, !.restored = z].ids = u.ids
        /\ [u EXCEPT !.faults = f, !.restored = z].restored = z
    OBVIOUS
  <2> QED BY <2>1, <2>3, <2>4, <2>5, <2>6
<1>13. MainTypes'
  BY <1>1, <1>12 DEF IInv, MainTypes, main
<1>14. \A i \in 1 .. Len(chain') : chain'[i].id <= used'.ids
  BY <1>1, <1>12 DEF IInv, KnownIds, main
<1>15. ASSUME NEW i \in 1 .. Len(pg') PROVE pg'[i].id <= used'.ids
  <2>1. Agree(pg', pg, n)
    BY <1>2, <1>5, PrefixAgree
  <2>2. i \in 1 .. n /\ i \in 1 .. Len(pg)
    BY <1>2, <1>4, <1>5
  <2>3. pg'[i] = pg[i]
    BY <2>1, <2>2 DEF Agree
  <2> QED BY <1>12, <2>2, <2>3 DEF IInv, KnownIds
<1> QED BY <1>1, <1>5, <1>7, <1>9, <1>11, <1>12, <1>13, <1>14, <1>15, RestartStep

\* The parts of the invariant that a step of a running process leaves alone, when
\* Postgres only grows.
LEMMA RunFrame ==
    ASSUME IInv, pc = "run", UNCHANGED <<main, pc, keep, det, used>>,
           pg' \in Seq(Block), IsPrefix(pg, pg'), Len(roots') \in Nat, Len(roots) <= Len(roots'),
           \A b \in 1 .. Len(roots) : roots'[b] = roots[b]
    PROVE  /\ MainTypes' /\ DetectorInv' /\ RollBackInv'
           /\ UNCHANGED <<treeMem, treeDisk, treeReady>> => TreeInv'
           /\ fetched' \in {fetched, <<>>} => FetchInv'
           /\ cache' = cache => CacheInv'
           /\ RootsTellChain' => RootsTellChain
<1>1. pg \in Seq(Block) /\ Sealed(pg) \in Nat /\ Sealed(pg') \in Nat /\ Sealed(pg) <= Sealed(pg')
      /\ chain' = chain /\ Len(roots) \in Nat /\ Len(roots) <= Sealed(pg)
  BY PrefixFacts, DetectorFacts DEF main
<1>2. \A b \in 0 .. Sealed(pg) : UpTo(pg', b) = UpTo(pg, b)
  BY <1>1, PrefixFacts
<1>3. MainTypes'
  BY DEF IInv, MainTypes, main
<1>4. \A b \in 1 .. Len(roots) : Diverged(b) => Diverged(b)'
  BY <1>1, <1>2 DEF Diverged, Shared
<1>5. DetectorInv'
  <2>1. DetectorInv /\ det.batch \in Nat /\ det.right \in Nat
    BY DetectorFacts DEF IInv
  <2> QED BY <1>1, <1>4, <2>1 DEF DetectorInv, Checking
<1>6. RollBackInv'
  BY DEF IInv, RollBackInv, Checking
<1>10. RootsTellChain' => RootsTellChain
  <2> SUFFICES ASSUME RootsTellChain', NEW b \in 1 .. Len(roots) PROVE roots[b] = UpTo(pg, b)
    BY DEF RootsTellChain
  <2>1. b \in 1 .. Len(roots') /\ b \in 0 .. Sealed(pg)
    BY <1>1
  <2> QED BY <1>2, <2>1 DEF RootsTellChain
<1>7. ASSUME UNCHANGED <<treeMem, treeDisk, treeReady>> PROVE TreeInv'
  <2>1. treeMem \in Seq(Block) /\ treeDisk \in Seq(Block) /\ TreeInv
    BY DEF IInv, StoreTypes
  <2>2. ~used.restored \/ (treeReady /\ RootsTellChain) => IsPrefix(treeMem, pg') /\ IsPrefix(treeDisk, pg')
    BY <1>1, <2>1, PrefixTransitive DEF TreeInv
  <2> QED BY <1>7, <1>10, <2>1, <2>2 DEF TreeInv
<1>8. ASSUME fetched' \in {fetched, <<>>} PROVE FetchInv'
  <2>1. CASE fetched' = <<>>
    BY <2>1 DEF FetchInv
  <2>2. CASE fetched' = fetched
    <3>1. fetched # <<>> => fetched[1].number \in Nat
      BY Numbers
    <3>2. fetched # <<>> => fetched[1].number <= Sealed(pg) /\
             (~fetched[1].l1 /\ Shared(fetched[1].number) =>
                fetched[1].hash = UpTo(pg, fetched[1].number))
      BY DEF IInv, FetchInv
    <3>3. fetched # <<>> => UpTo(pg', fetched[1].number) = UpTo(pg, fetched[1].number)
      BY <1>1, <1>2, <3>1, <3>2
    <3>4. fetched # <<>> => fetched[1].number <= Sealed(pg')
      BY <1>1, <3>1, <3>2
    <3> QED BY <1>1, <2>2, <3>2, <3>3, <3>4 DEF FetchInv, Shared
  <2> QED BY <1>8, <2>1, <2>2
<1>9. ASSUME cache' = cache PROVE CacheInv'
  <2>1. cache \in Seq(Block) /\ CacheInv
    BY DEF IInv, StoreTypes
  <2>2. IsPrefix(cache, pg')
    BY <1>1, <2>1, PrefixTransitive DEF CacheInv
  <2> QED BY <1>9, <2>1, <2>2 DEF CacheInv
<1> QED BY <1>3, <1>5, <1>6, <1>7, <1>8, <1>9, <1>10

\* Batches have numbers.
LEMMA BatchNumber ==
    ASSUME NEW c \in Seq(Block), NEW i \in Nat
    PROVE  BatchOf(c, i) \in Nat
<1>1. Len(c) \in Nat
  OBVIOUS
<1>2. {j \in Ends(c) : j < i} \subseteq 1 .. Len(c)
  BY DEF Ends
<1>3. IsFiniteSet(1 .. Len(c))
  BY <1>1, FS_Interval
<1>4. IsFiniteSet({j \in Ends(c) : j < i})
  BY <1>2, <1>3, FS_Subset
<1>5. Cardinality({j \in Ends(c) : j < i}) \in Nat
  BY <1>4, FS_CardinalityType
<1> QED BY <1>5 DEF BatchOf

\* The types of the queue and of the chains it is fed from.
LEMMA QueueFacts ==
    ASSUME IInv
    PROVE  /\ queue \in Seq(QueuedBlock) /\ Len(queue) \in Nat /\ Len(queue) <= QueueCap
           /\ Len(pg) + Len(queue) <= MaxLen /\ MaxLen \in Nat /\ QueueCap \in Nat /\ Len(chain) <= MaxLen
BY BoundsAreNaturals DEF IInv, ProcessTypes, MainTypes

\* A fetched block is one of the main node, and there is room for it.
LEMMA FetchBlockStep == IInv /\ FetchBlock => IInv'
<1> SUFFICES ASSUME IInv, FetchBlock PROVE IInv'
  OBVIOUS
<1> DEFINE n == Len(pg) + Len(queue) + 1
           l1_batch == IF queue = <<>> THEN BatchOf(pg, Len(pg)) ELSE Last(queue).batch
           number == BatchOf(chain, n)
           x == [block |-> chain[n], batch |-> number, open_batch |-> number # l1_batch]
<1>1. pc = "run" /\ Len(queue) < QueueCap /\ n <= Len(chain) /\ UNCHANGED <<main, stores, used>>
  BY DEF FetchBlock
<1>2. \/ queue' = Append(queue, x) /\ UNCHANGED <<treeMem, pc, treeReady, keep, det, fetched>>
      \/ Restart
  BY DEF FetchBlock
<1>3. CASE Restart
  <2>1. used' \in [ids : {used.ids}, reverts : Nat, faults : Nat, restored : {used.restored}]
    BY <1>1 DEF IInv, MainTypes
  <2> QED BY <1>1, <1>3, <2>1, ExitStep
<1>4. CASE queue' = Append(queue, x) /\ UNCHANGED <<treeMem, pc, treeReady, keep, det, fetched>>
  <2>1. n \in 1 .. Len(chain) /\ n \in Nat /\ chain \in Seq(Block)
    BY <1>1, DetectorFacts, QueueFacts
  <2>2. number \in Nat /\ chain[n] \in Block /\ (number # l1_batch) \in BOOLEAN
    BY <2>1, BatchNumber
  <2>3. x \in QueuedBlock /\ x.block = chain[n]
    <3> HIDE DEF number, l1_batch, n
    <3> QED BY <2>2 DEF QueuedBlock
  <2> HIDE DEF x, number, l1_batch
  <2>4. queue' \in Seq(QueuedBlock) /\ Len(queue') = Len(queue) + 1 /\ queue'[Len(queue) + 1] = x
        /\ \A i \in 1 .. Len(queue) : queue'[i] = queue[i]
    BY <1>4, <2>3, QueueFacts, QueueEnds
  <2>5. Len(queue') <= QueueCap /\ Len(pg) + Len(queue') <= MaxLen
    <3>1. PICK q \in Nat, p \in Nat : q = Len(queue) /\ p = Len(pg)
      BY DetectorFacts, QueueFacts
    <3>2. q < QueueCap /\ p + q < MaxLen /\ QueueCap \in Nat /\ MaxLen \in Nat
      BY <1>1, <3>1, QueueFacts, DetectorFacts
    <3>3. q + 1 <= QueueCap /\ p + (q + 1) <= MaxLen
      BY <3>2
    <3> QED BY <1>1, <2>4, <3>1, <3>3 DEF stores
  <2>6. StoreTypes'
    BY <1>1, <1>4 DEF IInv, StoreTypes, stores
  <2>7. ProcessTypes'
    BY <1>1, <1>4, <2>4, <2>5 DEF IInv, ProcessTypes, stores
  <2>8. KnownIds'
    <3>1. ASSUME NEW i \in 1 .. Len(queue') PROVE queue'[i].block.id <= used.ids
      <4>1. CASE i = Len(queue) + 1
        BY <2>1, <2>3, <2>4, <4>1 DEF IInv, KnownIds
      <4>2. CASE i # Len(queue) + 1
        <5>1. i \in 1 .. Len(queue)
          BY <2>4, <4>2, QueueFacts
        <5> QED BY <2>4, <5>1 DEF IInv, KnownIds
      <4> QED BY <4>1, <4>2
    <3> QED BY <1>1, <3>1 DEF IInv, KnownIds, main, stores
  <2>9. pg' = pg /\ roots' = roots /\ cache' = cache /\ treeDisk' = treeDisk
    BY <1>1 DEF stores
  <2>10. IsPrefix(pg, pg') /\ pg' \in Seq(Block) /\ Len(roots') \in Nat /\ Len(roots) <= Len(roots')
    BY <2>9, DetectorFacts, PrefixReflexive
  <2>11. /\ MainTypes' /\ DetectorInv' /\ RollBackInv' /\ TreeInv' /\ FetchInv' /\ CacheInv'
    BY <1>1, <1>4, <2>9, <2>10, RunFrame
  <2> QED BY <2>6, <2>7, <2>8, <2>11 DEF IInv
<1> QED BY <1>2, <1>3, <1>4

\* Postgres grows by the first block of the queue.
LEMMA ApplyBlockStep == IInv /\ ApplyBlock => IInv'
<1> SUFFICES ASSUME IInv, ApplyBlock PROVE IInv'
  OBVIOUS
<1>1. pc = "run" /\ queue # <<>> /\ UNCHANGED <<main, roots, treeDisk, cache, used>>
  BY DEF ApplyBlock
<1>2. \/ /\ pg' = Append(pg, Head(queue).block) /\ queue' = Tail(queue)
         /\ UNCHANGED <<treeMem, pc, treeReady, keep, det, fetched>>
      \/ Restart /\ UNCHANGED pg
  BY DEF ApplyBlock
<1>3. CASE Restart /\ UNCHANGED pg
  <2>1. used' \in [ids : {used.ids}, reverts : Nat, faults : Nat, restored : {used.restored}]
    BY <1>1 DEF IInv, MainTypes
  <2>2. UNCHANGED <<main, stores>>
    BY <1>1, <1>3 DEF stores
  <2> QED BY <1>3, <2>1, <2>2, ExitStep
<1>4. CASE /\ pg' = Append(pg, Head(queue).block) /\ queue' = Tail(queue)
           /\ UNCHANGED <<treeMem, pc, treeReady, keep, det, fetched>>
  <2>1. /\ Len(queue) >= 1 /\ Head(queue) = queue[1]
        /\ Tail(queue) \in Seq(QueuedBlock) /\ Len(Tail(queue)) = Len(queue) - 1
        /\ \A i \in 1 .. Len(queue) - 1 : Tail(queue)[i] = queue[i + 1]
    BY <1>1, QueueFacts, QueueEnds
  <2>2. 1 \in 1 .. Len(queue) /\ \A i \in 1 .. Len(queue) - 1 : i + 1 \in 1 .. Len(queue)
    BY <2>1, QueueFacts
  <2>3. PICK x : x = queue[1].block
    OBVIOUS
  <2>4. x \in Block /\ x.id <= used.ids /\ pg' = Append(pg, x)
    BY <1>4, <2>1, <2>2, <2>3, Numbers DEF IInv, KnownIds
  <2>5. pg' \in Seq(Block) /\ Len(pg') = Len(pg) + 1 /\ IsPrefix(pg, pg') /\ pg'[Len(pg) + 1] = x
    BY <2>4, DetectorFacts, AppendPrefix
  <2>6. Sealed(pg) <= Sealed(pg') /\ Sealed(pg') \in Nat
    BY <2>5, DetectorFacts, PrefixFacts
  <2>7. Len(queue') = Len(queue) - 1 /\ queue' \in Seq(QueuedBlock)
    BY <1>4, <2>1
  <2>8. Len(queue') <= QueueCap /\ Len(pg') + Len(queue') <= MaxLen /\ Len(roots) <= Sealed(pg')
    <3>1. PICK q \in Nat, p \in Nat, r \in Nat, z \in Nat :
            q = Len(queue) /\ p = Len(pg) /\ r = Len(roots) /\ z = Sealed(pg)
      BY DetectorFacts, QueueFacts
    <3>2. q <= QueueCap /\ p + q <= MaxLen /\ QueueCap \in Nat /\ MaxLen \in Nat /\ r <= z
      BY <3>1, DetectorFacts, QueueFacts
    <3>3. q - 1 <= QueueCap /\ (p + 1) + (q - 1) <= MaxLen
      BY <3>2
    <3>4. Len(queue') = q - 1 /\ Len(pg') = p + 1
      BY <2>5, <2>7, <3>1
    <3>5. PICK y \in Nat : y = Sealed(pg') /\ z <= y
      BY <2>6, <3>1
    <3>6. r <= y
      BY <3>2, <3>5
    <3>7. Len(queue') <= QueueCap /\ Len(pg') + Len(queue') <= MaxLen
      BY <3>3, <3>4
    <3> QED BY <3>1, <3>5, <3>6, <3>7
  <2>9. StoreTypes'
    BY <1>1, <1>4, <2>5, <2>8 DEF IInv, StoreTypes
  <2>10. ProcessTypes'
    BY <1>1, <1>4, <2>7, <2>8 DEF IInv, ProcessTypes
  <2>11. KnownIds'
    <3>1. ASSUME NEW i \in 1 .. Len(pg') PROVE pg'[i].id <= used.ids
      <4>1. CASE i = Len(pg) + 1
        BY <2>4, <2>5, <4>1
      <4>2. CASE i # Len(pg) + 1
        <5>1. i \in 1 .. Len(pg)
          BY <2>5, <4>2, DetectorFacts
        <5>2. pg'[i] = pg[i]
          BY <2>5, <5>1, DetectorFacts, PrefixAgree DEF Agree
        <5> QED BY <5>1, <5>2 DEF IInv, KnownIds
      <4> QED BY <4>1, <4>2
    <3>2. ASSUME NEW i \in 1 .. Len(queue') PROVE queue'[i].block.id <= used.ids
      <4>1. queue'[i] = queue[i + 1] /\ i + 1 \in 1 .. Len(queue)
        BY <1>4, <2>1, <2>2, <2>7
      <4> QED BY <4>1 DEF IInv, KnownIds
    <3> QED BY <1>1, <3>1, <3>2 DEF IInv, KnownIds, main
  <2>12. Len(roots') \in Nat /\ Len(roots) <= Len(roots')
    BY <1>1, DetectorFacts
  <2>13. /\ MainTypes' /\ DetectorInv' /\ RollBackInv' /\ TreeInv' /\ FetchInv' /\ CacheInv'
    BY <1>1, <1>4, <2>5, <2>12, RunFrame
  <2> QED BY <2>9, <2>10, <2>11, <2>13 DEF IInv
<1> QED BY <1>2, <1>3, <1>4

\* The cache grows by the next batch of Postgres.
LEMMA UpdateCacheStep == IInv /\ UpdateCache => IInv'
<1> SUFFICES ASSUME IInv, UpdateCache PROVE IInv'
  OBVIOUS
<1>1. pc = "run" /\ Sealed(cache) < Sealed(pg) /\ UNCHANGED <<main, pg, roots, treeDisk, process, used>>
  BY DEF UpdateCache
<1>2. pg \in Seq(Block) /\ cache \in Seq(Block) /\ Whole(cache) /\ IsPrefix(cache, pg)
  BY DEF IInv, StoreTypes, CacheInv
<1>3. PICK k \in Nat : k = Sealed(cache) + 1 /\ k \in 1 .. Sealed(pg) /\ k - 1 = Sealed(cache) /\ k \in 0 .. Sealed(pg)
  <2>1. Sealed(cache) \in Nat /\ Sealed(pg) \in Nat
    BY <1>2, Counts
  <2> QED BY <1>1, <2>1
<1>4. cache' = UpTo(pg, k)
  <2>1. cache' = cache \o SubSeq(pg, EndOf(pg, k - 1) + 1, EndOf(pg, k))
    BY <1>3 DEF UpdateCache
  <2>2. cache = UpTo(pg, k - 1)
    BY <1>2, <1>3, WholePrefix
  <2> QED BY <1>2, <1>3, <2>1, <2>2, NextBatch
<1>5. cache' \in Seq(Block) /\ Whole(cache') /\ IsPrefix(cache', pg)
  BY <1>2, <1>3, <1>4, UpToChain
<1>6. StoreTypes' /\ ProcessTypes'
  BY <1>1, <1>5 DEF IInv, StoreTypes, ProcessTypes, process
<1>7. KnownIds'
  BY <1>1 DEF IInv, KnownIds, main, process
<1>8. CacheInv'
  BY <1>1, <1>5 DEF CacheInv, process
<1>9. IsPrefix(pg, pg') /\ pg' \in Seq(Block) /\ Len(roots') \in Nat /\ Len(roots) <= Len(roots')
  BY <1>1, DetectorFacts, PrefixReflexive
<1>10. MainTypes' /\ DetectorInv' /\ RollBackInv' /\ TreeInv' /\ FetchInv'
  BY <1>1, <1>9, RunFrame DEF process
<1> QED BY <1>6, <1>7, <1>8, <1>10 DEF IInv

\* The steps of the synchronisation.
LEMMA SyncKeeps == IInv /\ Sync => IInv'
BY FetchBlockStep, ApplyBlockStep, UpdateCacheStep DEF Sync

\* ensure_consistency only cuts the tree.  It leaves batches that Postgres has, if the
\* root hashes in Postgres are those of its batches: the bisection ends at one that is
\* equal.
LEMMA ConsistentTreeFacts ==
    ASSUME IInv, NEW t \in Seq(Block), Whole(t)
    PROVE  /\ ConsistentTree(t) \in Seq(Block) /\ Whole(ConsistentTree(t))
           /\ IsPrefix(ConsistentTree(t), t)
           /\ RootsTellChain => IsPrefix(ConsistentTree(t), pg)
<1>1. pg \in Seq(Block) /\ Len(roots) \in Nat /\ Len(roots) <= Sealed(pg) /\ Sealed(pg) \in Nat
      /\ Sealed(t) \in Nat /\ Len(t) \in Nat
  BY DetectorFacts, Counts
<1>2. PICK u : u = IF Sealed(t) > Len(roots) THEN UpTo(t, Len(roots)) ELSE t
  OBVIOUS
<1>3. u \in Seq(Block) /\ Whole(u) /\ Sealed(u) \in Nat /\ Sealed(u) <= Len(roots) /\ IsPrefix(u, t)
  <2>1. CASE Sealed(t) > Len(roots)
    <3>1. Len(roots) \in 0 .. Sealed(t) /\ u = UpTo(t, Len(roots))
      BY <1>1, <1>2, <2>1
    <3>2. u \in Seq(Block) /\ Whole(u) /\ Sealed(u) = Len(roots) /\ IsPrefix(u, t)
      BY <3>1, UpToChain
    <3> QED BY <1>1, <3>2
  <2>2. CASE ~(Sealed(t) > Len(roots))
    BY <1>1, <1>2, <2>2, PrefixReflexive
  <2> QED BY <2>1, <2>2
<1>4. RootsTellChain => \A m \in 0 .. Sealed(u) : BatchMatches(u, m) => UpTo(u, m) = UpTo(pg, m)
  <2> SUFFICES ASSUME RootsTellChain, NEW m \in 0 .. Sealed(u), BatchMatches(u, m) PROVE UpTo(u, m) = UpTo(pg, m)
    OBVIOUS
  <2>1. CASE m = 0
    BY <1>1, <1>3, <2>1, GenesisShared
  <2>2. CASE m # 0
    <3>1. m \in 1 .. Len(roots)
      BY <1>1, <1>3, <2>2
    <3>2. roots[m] = UpTo(u, m)
      BY <3>1 DEF BatchMatches
    <3> QED BY <3>1, <3>2 DEF RootsTellChain
  <2> QED BY <2>1, <2>2
<1>5. \E m \in 0 .. Sealed(u) : BatchMatches(u, m) /\ WithoutDivergence(u) = UpTo(u, m)
  <2>1. CASE BatchMatches(u, Sealed(u))
    <3>1. WithoutDivergence(u) = UpTo(u, Sealed(u))
      BY <1>3, <2>1 DEF WithoutDivergence, Whole
    <3> QED BY <1>3, <2>1, <3>1
  <2>2. CASE ~BatchMatches(u, Sealed(u))
    <3> DEFINE ok == [n \in 0 .. Sealed(u) |-> BatchMatches(u, n)]
               m == BinarySearch(ok, 0, Sealed(u))
    <3>1. \A n \in 0 .. Sealed(u) : BatchMatches(u, n) \in BOOLEAN
      BY DEF BatchMatches
    <3>2. ok \in [0 .. Sealed(u) -> BOOLEAN]
      BY <3>1
    <3>3. 0 \in 0 .. Sealed(u) /\ BatchMatches(u, 0)
      BY <1>1, <1>3 DEF BatchMatches
    <3>4. ok[0]
      BY <3>3
    <3>5. \A n \in 0 .. Sealed(u) : ok[n] => BatchMatches(u, n)
      OBVIOUS
    <3>6. WithoutDivergence(u) = UpTo(u, m)
      BY <2>2 DEF WithoutDivergence
    <3> HIDE DEF ok
    <3>7. m \in 0 .. Sealed(u) /\ ok[m]
      BY <1>3, <3>2, <3>4, BinarySearchFacts
    <3> QED BY <3>5, <3>6, <3>7
  <2> QED BY <2>1, <2>2
<1>6. PICK m \in 0 .. Sealed(u) : BatchMatches(u, m) /\ WithoutDivergence(u) = UpTo(u, m)
  BY <1>5
<1>7. ConsistentTree(t) = UpTo(u, m)
  BY <1>2, <1>6 DEF ConsistentTree
<1>8. RootsTellChain => UpTo(u, m) = UpTo(pg, m) /\ m \in 0 .. Sealed(pg)
  BY <1>1, <1>3, <1>4, <1>6
<1>9. UpTo(u, m) \in Seq(Block) /\ Whole(UpTo(u, m)) /\ IsPrefix(UpTo(u, m), u)
  BY <1>3, UpToChain
<1>10. RootsTellChain => IsPrefix(UpTo(u, m), pg)
  BY <1>1, <1>8, UpToChain
<1>11. IsPrefix(UpTo(u, m), t)
  BY <1>3, <1>9, PrefixTransitive
<1> QED BY <1>7, <1>9, <1>10, <1>11

\* The tree that the process starts with holds batches of Postgres only.
LEMMA InitTreeStep == IInv /\ InitTree => IInv'
<1> SUFFICES ASSUME IInv, InitTree PROVE IInv'
  OBVIOUS
<1>1. pc = "run" /\ treeReady' = TRUE /\ treeDisk' = ConsistentTree(treeDisk) /\ treeMem' = treeDisk'
      /\ UNCHANGED <<main, pg, roots, cache, queue, pc, keep, det, fetched, used>>
  BY DEF InitTree
<1>2. treeDisk \in Seq(Block) /\ Whole(treeDisk) /\ (~used.restored => IsPrefix(treeDisk, pg)) /\ pg \in Seq(Block)
  BY DEF IInv, StoreTypes, TreeInv
<1>3. treeDisk' \in Seq(Block) /\ Whole(treeDisk') /\ IsPrefix(treeDisk', treeDisk)
      /\ (RootsTellChain => IsPrefix(treeDisk', pg))
  BY <1>1, <1>2, ConsistentTreeFacts
<1>4. ~used.restored => IsPrefix(treeDisk', pg)
  BY <1>2, <1>3, PrefixTransitive
<1>5. StoreTypes'
  BY <1>1, <1>3 DEF IInv, StoreTypes
<1>6. ProcessTypes'
  BY <1>1 DEF IInv, ProcessTypes
<1>7. KnownIds'
  BY <1>1 DEF IInv, KnownIds, main
<1>8. TreeInv'
  BY <1>1, <1>3, <1>4 DEF TreeInv, RootsTellChain
<1>9. IsPrefix(pg, pg') /\ pg' \in Seq(Block) /\ Len(roots') \in Nat /\ Len(roots) <= Len(roots')
  BY <1>1, DetectorFacts, PrefixReflexive
<1>10. MainTypes' /\ DetectorInv' /\ RollBackInv' /\ CacheInv' /\ FetchInv'
  BY <1>1, <1>9, RunFrame
<1> QED BY <1>5, <1>6, <1>7, <1>8, <1>10 DEF IInv

\* Saving a root hash leaves the ones there were.
LEMMA SaveTreeDataFacts ==
    ASSUME IInv, NEW number \in Nat \ {0}, number <= Sealed(pg), NEW hash \in Seq(Block),
           SaveTreeData(number, hash)
    PROVE  /\ roots' \in Seq(Seq(Block)) /\ Len(roots') \in Nat /\ Len(roots) <= Len(roots')
           /\ Len(roots') <= Sealed(pg) /\ \A b \in 1 .. Len(roots) : roots'[b] = roots[b]
<1>1. roots \in Seq(Seq(Block)) /\ Len(roots) \in Nat /\ Len(roots) <= Sealed(pg)
  BY DetectorFacts DEF IInv, StoreTypes
<1>2. CASE number = Len(roots) + 1
  <2>1. roots' = Append(roots, hash)
    BY <1>2 DEF SaveTreeData
  <2>2. roots' \in Seq(Seq(Block)) /\ Len(roots') = Len(roots) + 1
        /\ \A i \in 1 .. Len(roots) : roots'[i] = roots[i]
    BY <1>1, <2>1, QueueEnds
  <2> QED BY <1>1, <1>2, <2>2
<1>3. CASE number # Len(roots) + 1
  <2>1. roots' = roots
    BY <1>3 DEF SaveTreeData
  <2> QED BY <1>1, <2>1
<1> QED BY <1>2, <1>3

\* The tree in memory grows by the next batch of Postgres, and its root hash is saved.
LEMMA ProcessBatchStep == IInv /\ ProcessBatch => IInv'
<1> SUFFICES ASSUME IInv, ProcessBatch PROVE IInv'
  OBVIOUS
<1> DEFINE number == Sealed(treeMem) + 1
           tree == treeMem \o SubSeq(pg, EndOf(pg, number - 1) + 1, EndOf(pg, number))
<1>1. pc = "run" /\ treeReady /\ Sealed(treeMem) < Sealed(pg) /\ UNCHANGED <<main, pg, cache, used>>
  BY DEF ProcessBatch
<1>2. \/ /\ SaveTreeData(number, tree) /\ treeMem' = tree
         /\ UNCHANGED <<treeDisk, queue, pc, treeReady, keep, det, fetched>>
      \/ Restart /\ UNCHANGED <<roots, treeDisk>>
  BY DEF ProcessBatch
<1>3. CASE Restart /\ UNCHANGED <<roots, treeDisk>>
  <2>1. used' \in [ids : {used.ids}, reverts : Nat, faults : Nat, restored : {used.restored}]
    BY <1>1 DEF IInv, MainTypes
  <2>2. UNCHANGED <<main, stores>>
    BY <1>1, <1>3 DEF stores
  <2> QED BY <1>3, <2>1, <2>2, ExitStep
<1>4. CASE /\ SaveTreeData(number, tree) /\ treeMem' = tree
           /\ UNCHANGED <<treeDisk, queue, pc, treeReady, keep, det, fetched>>
  <2>1. pg \in Seq(Block) /\ treeMem \in Seq(Block) /\ Whole(treeMem) /\ TreeInv
    BY DEF IInv, StoreTypes, TreeInv
  <2>2. Sealed(treeMem) \in Nat /\ Sealed(pg) \in Nat
    BY <2>1, Counts
  <2>3. number \in 1 .. Sealed(pg) /\ number - 1 = Sealed(treeMem) /\ number \in 0 .. Sealed(pg)
        /\ number \in Nat \ {0} /\ number <= Sealed(pg)
    BY <1>1, <2>2
  <2> HIDE DEF number
  <2>4. tree \in Seq(Block) /\ Whole(tree)
    BY <2>1, <2>3, WholeExtended
  <2>5. IsPrefix(treeMem, pg) => IsPrefix(tree, pg)
    <3> SUFFICES ASSUME IsPrefix(treeMem, pg) PROVE IsPrefix(tree, pg)
      OBVIOUS
    <3>1. treeMem = UpTo(pg, number - 1)
      BY <2>1, <2>3, WholePrefix
    <3>2. tree = UpTo(pg, number)
      BY <2>1, <2>3, <3>1, NextBatch
    <3> HIDE DEF tree
    <3> QED BY <2>1, <2>3, <3>2, UpToChain
  <2> HIDE DEF tree
  <2>8. /\ roots' \in Seq(Seq(Block)) /\ Len(roots') \in Nat /\ Len(roots) <= Len(roots')
        /\ Len(roots') <= Sealed(pg) /\ \A b \in 1 .. Len(roots) : roots'[b] = roots[b]
    BY <1>4, <2>3, <2>4, SaveTreeDataFacts
  <2>9. StoreTypes'
    BY <1>1, <1>4, <2>4, <2>8 DEF IInv, StoreTypes
  <2>10. ProcessTypes'
    BY <1>1, <1>4 DEF IInv, ProcessTypes
  <2>11. KnownIds'
    BY <1>1, <1>4 DEF IInv, KnownIds, main
  <2>12. IsPrefix(pg, pg') /\ pg' \in Seq(Block)
    BY <1>1, <2>1, PrefixReflexive
  <2>13. MainTypes' /\ DetectorInv' /\ RollBackInv' /\ CacheInv' /\ FetchInv'
         /\ (RootsTellChain' => RootsTellChain)
    BY <1>1, <1>4, <2>8, <2>12, RunFrame
  <2>14. TreeInv'
    BY <1>1, <1>4, <2>1, <2>4, <2>5, <2>13 DEF TreeInv
  <2> QED BY <2>9, <2>10, <2>11, <2>13, <2>14 DEF IInv
<1> QED BY <1>2, <1>3, <1>4

\* The saved tree becomes the tree in memory.
LEMMA SaveTreeStep == IInv /\ SaveTree => IInv'
<1> SUFFICES ASSUME IInv, SaveTree PROVE IInv'
  OBVIOUS
<1>1. pc = "run" /\ treeDisk' = treeMem /\ UNCHANGED <<main, pg, roots, cache, process, used>>
  BY DEF SaveTree
<1>2. StoreTypes' /\ ProcessTypes'
  BY <1>1 DEF IInv, StoreTypes, ProcessTypes, process
<1>3. KnownIds'
  BY <1>1 DEF IInv, KnownIds, main, process
<1>4. TreeInv'
  BY <1>1 DEF IInv, TreeInv, RootsTellChain, process
<1>5. IsPrefix(pg, pg') /\ pg' \in Seq(Block) /\ Len(roots') \in Nat /\ Len(roots) <= Len(roots')
  BY <1>1, DetectorFacts, PrefixReflexive
<1>6. MainTypes' /\ DetectorInv' /\ RollBackInv' /\ CacheInv' /\ FetchInv'
  BY <1>1, <1>5, RunFrame DEF process
<1> QED BY <1>2, <1>3, <1>4, <1>6 DEF IInv

\* The steps of the metadata calculator.
LEMMA TreeKeeps == IInv /\ Tree => IInv'
BY InitTreeStep, ProcessBatchStep, SaveTreeStep DEF Tree

\* An answer from L1 may be of any fork.
LEMMA FetchFromL1Step == IInv /\ FetchFromL1 => IInv'
<1> SUFFICES ASSUME IInv, FetchFromL1 PROVE IInv'
  OBVIOUS
<1> DEFINE x == [number |-> BatchToFetch, hash |-> commits[BatchToFetch], l1 |-> TRUE]
<1>1. pc = "run" /\ BatchToFetch <= Sealed(pg) /\ BatchToFetch <= Len(commits) /\ fetched' = <<x>>
      /\ UNCHANGED <<main, stores, treeMem, queue, pc, treeReady, keep, det, used>>
  BY DEF FetchFromL1
<1>2. BatchToFetch \in Nat \ {0} /\ commits[BatchToFetch] \in Seq(Block)
  <2>1. commits \in Seq(Seq(Block)) /\ BatchToFetch \in Nat \ {0}
    BY DetectorFacts DEF IInv, MainTypes, BatchToFetch
  <2>2. BatchToFetch \in 1 .. Len(commits)
    BY <1>1, <2>1
  <2> QED BY <2>1, <2>2
<1>3. x \in Answer /\ x.number = BatchToFetch /\ x.l1
  BY <1>2 DEF Answer
<1> HIDE DEF x
<1>4. fetched' \in Seq(Answer) /\ Len(fetched') = 1 /\ fetched'[1] = x
  BY <1>1, <1>3
<1>5. pg' = pg /\ roots' = roots /\ cache' = cache /\ treeDisk' = treeDisk /\ chain' = chain
  BY <1>1 DEF stores, main
<1>6. FetchInv'
  BY <1>1, <1>3, <1>4, <1>5 DEF FetchInv
<1>7. StoreTypes'
  BY <1>1, <1>5 DEF IInv, StoreTypes
<1>8. ProcessTypes'
  BY <1>1, <1>4, <1>5 DEF IInv, ProcessTypes
<1>9. KnownIds'
  BY <1>1 DEF IInv, KnownIds, main, stores
<1>10. IsPrefix(pg, pg') /\ pg' \in Seq(Block) /\ Len(roots') \in Nat /\ Len(roots) <= Len(roots')
  BY <1>5, DetectorFacts, PrefixReflexive
<1>11. MainTypes' /\ DetectorInv' /\ RollBackInv' /\ TreeInv' /\ CacheInv'
  BY <1>1, <1>5, <1>10, RunFrame
<1> QED BY <1>6, <1>7, <1>8, <1>9, <1>11 DEF IInv

\* An answer of the main node about a batch that it shares is about that batch.
LEMMA FetchBatchDetailsStep == IInv /\ FetchBatchDetails => IInv'
<1> SUFFICES ASSUME IInv, FetchBatchDetails PROVE IInv'
  OBVIOUS
<1> DEFINE x == [number |-> BatchToFetch, hash |-> UpTo(chain, BatchToFetch), l1 |-> FALSE]
<1>1. pc = "run" /\ BatchToFetch <= Sealed(pg) /\ UNCHANGED <<main, stores, used>>
  BY DEF FetchBatchDetails
<1>2. \/ /\ BatchToFetch <= mainRoots /\ fetched' = <<x>>
         /\ UNCHANGED <<treeMem, queue, pc, treeReady, keep, det>>
      \/ Restart
  BY DEF FetchBatchDetails
<1>3. CASE Restart
  <2>1. used' \in [ids : {used.ids}, reverts : Nat, faults : Nat, restored : {used.restored}]
    BY <1>1 DEF IInv, MainTypes
  <2> QED BY <1>1, <1>3, <2>1, ExitStep
<1>4. CASE /\ BatchToFetch <= mainRoots /\ fetched' = <<x>>
           /\ UNCHANGED <<treeMem, queue, pc, treeReady, keep, det>>
  <2>1. BatchToFetch \in Nat \ {0} /\ BatchToFetch \in 0 .. Sealed(pg) /\ BatchToFetch \in 0 .. Sealed(chain)
    BY <1>1, <1>4, DetectorFacts DEF BatchToFetch
  <2>2. UpTo(chain, BatchToFetch) \in Seq(Block)
    BY <2>1, DetectorFacts, UpToChain
  <2>3. x \in Answer /\ x.number = BatchToFetch /\ x.hash = UpTo(chain, BatchToFetch)
    BY <2>1, <2>2 DEF Answer
  <2> HIDE DEF x
  <2>4. fetched' \in Seq(Answer) /\ Len(fetched') = 1 /\ fetched'[1] = x
    BY <1>4, <2>3
  <2>5. pg' = pg /\ roots' = roots /\ cache' = cache /\ treeDisk' = treeDisk /\ chain' = chain
    BY <1>1 DEF stores, main
  <2>6. FetchInv'
    <3>1. BatchToFetch <= Sealed(pg)
      BY <1>1
    <3>2. Shared(BatchToFetch) => UpTo(chain, BatchToFetch) = UpTo(pg, BatchToFetch)
      BY <2>1, SharedByMain
    <3>3. fetched'[1].number = BatchToFetch /\ fetched'[1].hash = UpTo(chain, BatchToFetch)
      BY <2>3, <2>4
    <3> HIDE DEF BatchToFetch
    <3> QED BY <2>5, <3>1, <3>2, <3>3 DEF FetchInv, Shared
  <2>7. StoreTypes'
    BY <1>4, <2>5 DEF IInv, StoreTypes
  <2>8. ProcessTypes'
    BY <1>1, <1>4, <2>4, <2>5 DEF IInv, ProcessTypes
  <2>9. KnownIds'
    BY <1>1, <1>4 DEF IInv, KnownIds, main, stores
  <2>10. IsPrefix(pg, pg') /\ pg' \in Seq(Block) /\ Len(roots') \in Nat /\ Len(roots) <= Len(roots')
    BY <2>5, DetectorFacts, PrefixReflexive
  <2>11. MainTypes' /\ DetectorInv' /\ RollBackInv' /\ TreeInv' /\ CacheInv'
    BY <1>1, <1>4, <2>5, <2>10, RunFrame
  <2> QED BY <2>6, <2>7, <2>8, <2>9, <2>11 DEF IInv
<1> QED BY <1>2, <1>3, <1>4

\* The answer is about a batch of Postgres, and one of the main node that is saved is
\* that batch's root hash: the main node has its last block.
LEMMA AnswerFacts ==
    ASSUME IInv, fetched # <<>>
    PROVE  /\ Head(fetched) = fetched[1] /\ fetched[1].number \in Nat \ {0}
           /\ fetched[1].number <= Sealed(pg) /\ fetched[1].hash \in Seq(Block)
           /\ ~fetched[1].l1 /\ LastBlockMatches(fetched[1].number) =>
                fetched[1].hash = UpTo(pg, fetched[1].number)
<1>1. fetched \in Seq(Answer)
  BY DEF IInv, ProcessTypes
<1>2. Head(fetched) = fetched[1]
  BY <1>1, QueueEnds
<1>3. PICK f : f = fetched[1]
  OBVIOUS
<1>4. f \in Answer /\ f.number \in Nat \ {0} /\ f.number <= Sealed(pg)
  BY <1>3, Numbers DEF IInv, FetchInv
<1>5. f.hash \in Seq(Block)
  BY <1>4 DEF Answer
<1>6. f.number \in 0 .. Sealed(pg)
  BY <1>4, DetectorFacts
<1>7. LastBlockMatches(f.number) => Shared(f.number)
  BY <1>6, DetectorFacts, SharedFacts DEF LastBlockMatches, Shared
<1>8. ~f.l1 /\ LastBlockMatches(f.number) => f.hash = UpTo(pg, f.number)
  BY <1>3, <1>7 DEF IInv, FetchInv
<1> QED BY <1>2, <1>3, <1>4, <1>5, <1>8

\* Whatever is saved, the root hashes there were stay.
LEMMA SaveFetchedStep == IInv /\ SaveFetched => IInv'
<1> SUFFICES ASSUME IInv, SaveFetched PROVE IInv'
  OBVIOUS
<1> DEFINE f == Head(fetched)
<1>1. pc = "run" /\ fetched # <<>> /\ UNCHANGED <<main, pg, treeDisk, cache, used>>
  BY DEF SaveFetched
<1>2. \/ /\ SaveTreeData(f.number, f.hash) /\ fetched' = <<>>
         /\ UNCHANGED <<treeMem, queue, pc, treeReady, keep, det>>
      \/ Restart /\ UNCHANGED roots
      \/ fetched' = <<>> /\ UNCHANGED <<roots, treeMem, queue, pc, treeReady, keep, det>>
  BY DEF SaveFetched
<1>3. CASE Restart /\ UNCHANGED roots
  <2>1. used' \in [ids : {used.ids}, reverts : Nat, faults : Nat, restored : {used.restored}]
    BY <1>1 DEF IInv, MainTypes
  <2>2. UNCHANGED <<main, stores>>
    BY <1>1, <1>3 DEF stores
  <2> QED BY <1>3, <2>1, <2>2, ExitStep
<1>4. ASSUME fetched' = <<>>, UNCHANGED <<treeMem, queue, pc, treeReady, keep, det>>,
             roots' \in Seq(Seq(Block)), Len(roots') \in Nat, Len(roots) <= Len(roots'),
             Len(roots') <= Sealed(pg), \A b \in 1 .. Len(roots) : roots'[b] = roots[b]
      PROVE  IInv'
  <2>1. StoreTypes'
    BY <1>1, <1>4 DEF IInv, StoreTypes
  <2>2. ProcessTypes'
    <3>1. Len(<<>>) = 0 /\ <<>> \in Seq(Answer)
      OBVIOUS
    <3>2. fetched' \in Seq(Answer) /\ Len(fetched') <= 1
      BY <1>4, <3>1
    <3> QED BY <1>1, <1>4, <3>2 DEF IInv, ProcessTypes
  <2>3. KnownIds'
    BY <1>1, <1>4 DEF IInv, KnownIds, main
  <2>4. IsPrefix(pg, pg') /\ pg' \in Seq(Block)
    BY <1>1, DetectorFacts, PrefixReflexive
  <2>5. MainTypes' /\ DetectorInv' /\ RollBackInv' /\ TreeInv' /\ CacheInv' /\ FetchInv'
    BY <1>1, <1>4, <2>4, RunFrame
  <2> QED BY <1>4, <2>1, <2>2, <2>3, <2>5 DEF IInv
<1>5. CASE fetched' = <<>> /\ UNCHANGED <<roots, treeMem, queue, pc, treeReady, keep, det>>
  <2>1. roots' \in Seq(Seq(Block)) /\ Len(roots') <= Sealed(pg) /\ roots' = roots
    BY <1>1, <1>5 DEF IInv, StoreTypes
  <2>2. Len(roots') \in Nat /\ Len(roots) <= Len(roots')
    BY <2>1, DetectorFacts
  <2> QED BY <1>4, <1>5, <2>1, <2>2
<1>6. CASE /\ SaveTreeData(f.number, f.hash) /\ fetched' = <<>>
           /\ UNCHANGED <<treeMem, queue, pc, treeReady, keep, det>>
  <2>1. f.number \in Nat \ {0} /\ f.number <= Sealed(pg) /\ f.hash \in Seq(Block)
    BY <1>1, AnswerFacts
  <2> HIDE DEF f
  <2>2. /\ roots' \in Seq(Seq(Block)) /\ Len(roots') \in Nat /\ Len(roots) <= Len(roots')
        /\ Len(roots') <= Sealed(pg) /\ \A b \in 1 .. Len(roots) : roots'[b] = roots[b]
    BY <1>6, <2>1, SaveTreeDataFacts
  <2> QED BY <1>4, <1>6, <2>2
<1> QED BY <1>2, <1>3, <1>5, <1>6

\* The steps of the tree data fetcher.
LEMMA TreeDataFetcherKeeps == IInv /\ TreeDataFetcher => IInv'
BY FetchFromL1Step, FetchBatchDetailsStep, SaveFetchedStep DEF TreeDataFetcher

\* While the reverter works, the detector rests.
LEMMA ReverterFacts ==
    ASSUME IInv, pc \in {"roll_back_tree", "roll_back_cache", "roll_back_postgres"}
    PROVE  /\ ~Checking /\ det.at = "idle" /\ keep \in Nat /\ keep <= Len(roots) /\ Diverged(keep + 1)
           /\ keep <= Sealed(pg) /\ ~treeReady /\ queue = <<>> /\ fetched = <<>>
<1>1. ~Checking /\ det.at \in {"idle", "root", "block", "search"}
  BY DetectorFacts DEF Checking, Check
<1>2. det.at = "idle" /\ keep <= Len(roots) /\ Diverged(keep + 1)
  BY <1>1 DEF IInv, DetectorInv, RollBackInv
<1>3. keep \in Nat /\ ~treeReady /\ queue = <<>> /\ fetched = <<>>
  BY DEF IInv, ProcessTypes
<1>4. keep <= Sealed(pg)
  BY <1>2, <1>3, DetectorFacts
<1> QED BY <1>1, <1>2, <1>3, <1>4

\* A step of the reverter before the last: Postgres stays as it is.
LEMMA ReverterFrame ==
    ASSUME IInv, pc \in {"roll_back_tree", "roll_back_cache"},
           pc' \in {"roll_back_cache", "roll_back_postgres"},
           UNCHANGED <<main, pg, roots, queue, treeReady, keep, det, fetched, used>>
    PROVE  MainTypes' /\ ProcessTypes' /\ KnownIds'
           /\ FetchInv' /\ DetectorInv' /\ RollBackInv'
<1>1. /\ ~Checking /\ det.at = "idle" /\ keep \in Nat /\ keep <= Len(roots) /\ Diverged(keep + 1)
      /\ keep <= Sealed(pg) /\ ~treeReady /\ queue = <<>> /\ fetched = <<>>
  BY ReverterFacts
<1>2. MainTypes'
  BY DEF IInv, MainTypes, main
<1>3. ProcessTypes'
  BY <1>1 DEF IInv, ProcessTypes
<1>4. KnownIds'
  BY DEF IInv, KnownIds, main
<1>5. FetchInv' /\ DetectorInv'
  BY <1>1 DEF FetchInv, DetectorInv
<1>6. RollBackInv'
  BY <1>1 DEF RollBackInv, Checking, Diverged, Shared, main
<1> QED BY <1>2, <1>3, <1>4, <1>5, <1>6

\* The tree is cut to whole batches, whichever fork it is of.
LEMMA RollBackTreeStep == IInv /\ RollBackTree => IInv'
<1> SUFFICES ASSUME IInv, RollBackTree PROVE IInv'
  OBVIOUS
<1>1. pc = "roll_back_tree" /\ UNCHANGED <<main, pg, roots, cache, used>>
  BY DEF RollBackTree
<1>2. \/ Restart /\ UNCHANGED treeDisk
      \/ /\ treeDisk' = RolledBackTree /\ treeMem' = treeDisk' /\ pc' = "roll_back_cache"
         /\ UNCHANGED <<queue, treeReady, keep, det, fetched>>
  BY DEF RollBackTree
<1>3. CASE Restart /\ UNCHANGED treeDisk
  <2>1. used' \in [ids : {used.ids}, reverts : Nat, faults : Nat, restored : {used.restored}]
    BY <1>1 DEF IInv, MainTypes
  <2>2. UNCHANGED <<main, stores>>
    BY <1>1, <1>3 DEF stores
  <2> QED BY <1>3, <2>1, <2>2, ExitStep
<1>4. CASE /\ treeDisk' = RolledBackTree /\ treeMem' = treeDisk' /\ pc' = "roll_back_cache"
           /\ UNCHANGED <<queue, treeReady, keep, det, fetched>>
  <2>1. treeDisk \in Seq(Block) /\ Whole(treeDisk) /\ pg \in Seq(Block) /\ TreeInv
        /\ Sealed(treeDisk) \in Nat /\ keep \in Nat /\ ~treeReady
    BY <1>1, ReverterFacts, Counts DEF IInv, StoreTypes, TreeInv
  <2>2. RolledBackTree \in Seq(Block) /\ Whole(RolledBackTree) /\ IsPrefix(RolledBackTree, treeDisk)
        /\ Sealed(RolledBackTree) <= keep
    <3>1. CASE Sealed(treeDisk) + 1 <= keep
      BY <2>1, <3>1, PrefixReflexive DEF RolledBackTree
    <3>2. CASE ~(Sealed(treeDisk) + 1 <= keep)
      <4>1. keep \in 0 .. Sealed(treeDisk) /\ RolledBackTree = UpTo(treeDisk, keep)
        BY <2>1, <3>2 DEF RolledBackTree
      <4> QED BY <2>1, <4>1, UpToChain
    <3> QED BY <3>1, <3>2
  <2>3. StoreTypes'
    BY <1>1, <1>4, <2>2 DEF IInv, StoreTypes
  <2>4. TreeInv'
    <3>1. ~used.restored => IsPrefix(RolledBackTree, pg)
      BY <2>1, <2>2, PrefixTransitive DEF TreeInv
    <3> HIDE DEF RolledBackTree
    <3> QED BY <1>1, <1>4, <2>1, <2>2, <3>1 DEF TreeInv
  <2>5. CacheInv'
    BY <1>1, <1>4 DEF IInv, CacheInv
  <2>6. MainTypes' /\ ProcessTypes' /\ KnownIds' /\ FetchInv' /\ DetectorInv' /\ RollBackInv'
    BY <1>1, <1>4, ReverterFrame
  <2> QED BY <2>3, <2>4, <2>5, <2>6 DEF IInv
<1> QED BY <1>2, <1>3, <1>4

\* The cache is cut to the batches to keep.
LEMMA RollBackCacheStep == IInv /\ RollBackCache => IInv'
<1> SUFFICES ASSUME IInv, RollBackCache PROVE IInv'
  OBVIOUS
<1>1. pc = "roll_back_cache" /\ pc' = "roll_back_postgres"
      /\ cache' = (IF Sealed(cache) > keep THEN UpTo(cache, keep) ELSE cache)
      /\ UNCHANGED <<main, pg, roots, treeDisk, treeMem, queue, treeReady, keep, det, fetched, used>>
  BY DEF RollBackCache
<1>2. cache \in Seq(Block) /\ Whole(cache) /\ IsPrefix(cache, pg) /\ pg \in Seq(Block)
      /\ Sealed(cache) \in Nat /\ keep \in Nat
  BY <1>1, ReverterFacts, Counts DEF IInv, StoreTypes, CacheInv
<1>3. cache' \in Seq(Block) /\ Whole(cache') /\ IsPrefix(cache', pg) /\ Sealed(cache') <= keep
  <2>1. CASE Sealed(cache) > keep
    <3>1. keep \in 0 .. Sealed(cache) /\ cache' = UpTo(cache, keep)
      BY <1>1, <1>2, <2>1
    <3>2. cache' \in Seq(Block) /\ Whole(cache') /\ IsPrefix(cache', cache) /\ Sealed(cache') = keep
      BY <1>2, <3>1, UpToChain
    <3> QED BY <1>2, <3>2, PrefixTransitive
  <2>2. CASE ~(Sealed(cache) > keep)
    BY <1>1, <1>2, <2>2
  <2> QED BY <2>1, <2>2
<1>4. StoreTypes'
  BY <1>1, <1>3 DEF IInv, StoreTypes
<1>5. TreeInv'
  BY <1>1 DEF IInv, TreeInv, RootsTellChain
<1>6. CacheInv'
  BY <1>1, <1>3 DEF CacheInv
<1>7. MainTypes' /\ ProcessTypes' /\ KnownIds' /\ FetchInv' /\ DetectorInv' /\ RollBackInv'
  BY <1>1, ReverterFrame
<1> QED BY <1>4, <1>5, <1>6, <1>7 DEF IInv

\* Postgres is cut to the batches to keep, which hold the cache.
LEMMA RollBackPostgresStep == IInv /\ RollBackPostgres => IInv'
<1> SUFFICES ASSUME IInv, RollBackPostgres PROVE IInv'
  OBVIOUS
<1>1. pc = "roll_back_postgres" /\ pg' = UpTo(pg, keep) /\ roots' = SubSeq(roots, 1, keep) /\ pc' = "run"
      /\ keep' = 0
      /\ UNCHANGED <<main, treeDisk, cache, treeMem, queue, treeReady, det, fetched, used>>
  BY DEF RollBackPostgres
<1>2. /\ det.at = "idle" /\ keep \in Nat /\ keep <= Len(roots)
      /\ keep <= Sealed(pg) /\ ~treeReady /\ queue = <<>> /\ fetched = <<>>
  BY <1>1, ReverterFacts
<1>3. pg \in Seq(Block) /\ keep \in 0 .. Sealed(pg) /\ Len(roots) \in Nat /\ roots \in Seq(Seq(Block))
  BY <1>2, DetectorFacts DEF IInv, StoreTypes
<1>4. pg' \in Seq(Block) /\ IsPrefix(pg', pg) /\ Sealed(pg') = keep
      /\ \A b \in 0 .. keep : UpTo(pg', b) = UpTo(pg, b)
  BY <1>1, <1>3, UpToChain
<1>5. roots' \in Seq(Seq(Block)) /\ Len(roots') = keep /\ \A b \in 1 .. keep : roots'[b] = roots[b]
  <2>1. \A b \in 1 .. Len(roots) : roots[b] \in Seq(Block)
    BY <1>3
  <2> QED BY <1>1, <1>2, <1>3, <2>1
<1>6. StoreTypes'
  BY <1>1, <1>2, <1>4, <1>5 DEF IInv, StoreTypes
<1>7. ProcessTypes'
  <2>1. Len(pg') <= Len(pg) /\ Len(pg') \in Nat
    BY <1>3, <1>4, PrefixFacts
  <2>2. Len(pg') + Len(queue') <= MaxLen
    BY <1>1, <2>1, DetectorFacts, QueueFacts
  <2> QED BY <1>1, <1>2, <2>2 DEF IInv, ProcessTypes
<1>8. KnownIds'
  <2>1. ASSUME NEW i \in 1 .. Len(pg') PROVE pg'[i].id <= used.ids
    <3>1. Agree(pg', pg, Len(pg')) /\ Len(pg') \in Nat /\ Len(pg) \in Nat
      BY <1>3, <1>4, PrefixAgree
    <3>2. i \in 1 .. Len(pg) /\ pg'[i] = pg[i]
      BY <3>1 DEF Agree
    <3> QED BY <3>2 DEF IInv, KnownIds
  <2> QED BY <1>1, <2>1 DEF IInv, KnownIds, main
<1>10. CacheInv'
  <2>1. cache \in Seq(Block) /\ Whole(cache) /\ IsPrefix(cache, pg) /\ Sealed(cache) <= Sealed(pg')
    BY <1>1, <1>4 DEF IInv, StoreTypes, CacheInv
  <2>2. IsPrefix(cache, pg')
    BY <1>3, <1>4, <2>1, WholeKept
  <2> QED BY <1>1, <2>1, <2>2 DEF CacheInv
<1>11. TreeInv'
  <2>1. treeDisk \in Seq(Block) /\ Whole(treeDisk) /\ treeMem = treeDisk /\ Sealed(treeDisk) <= Sealed(pg')
        /\ (~used.restored => IsPrefix(treeDisk, pg))
    BY <1>1, <1>2, <1>4 DEF IInv, StoreTypes, TreeInv
  <2>2. ~used.restored => IsPrefix(treeDisk, pg')
    BY <1>3, <1>4, <2>1, WholeKept
  <2> QED BY <1>1, <1>2, <2>1, <2>2 DEF TreeInv
<1>12. MainTypes' /\ FetchInv' /\ DetectorInv' /\ RollBackInv'
  BY <1>1, <1>2 DEF IInv, MainTypes, FetchInv, DetectorInv, RollBackInv, Checking, main
<1> QED BY <1>6, <1>7, <1>8, <1>10, <1>11, <1>12 DEF IInv

\* The steps of the reverter.
LEMMA ReverterKeeps == IInv /\ Reverter => IInv'
BY RollBackTreeStep, RollBackCacheStep, RollBackPostgresStep DEF Reverter

-----------------------------------------------------------------------------
(* Theorems.                                                               *)

\* Both nodes begin with the genesis alone.
LEMMA InitInv == Init => IInv
<1> SUFFICES ASSUME Init PROVE IInv
  OBVIOUS
<1> USE DEF Init
<1>1. <<>> \in Seq(Block) /\ Len(<<>>) = 0 /\ <<>> \in Seq(Seq(Block))
      /\ <<>> \in Seq(QueuedBlock) /\ <<>> \in Seq(Answer)
  OBVIOUS
<1>2. PICK e \in Seq(Block) : e = <<>> /\ Len(e) = 0
  BY <1>1
<1>3. Sealed(e) = 0
  BY <1>2, Counts
<1>4. Whole(e)
  <2>1. UpTo(e, 0) \in Seq(Block) /\ Len(UpTo(e, 0)) \in 0 .. Len(e)
    BY <1>3, UpToChain
  <2>2. UpTo(e, 0) = <<>>
    BY <1>2, <2>1
  <2> QED BY <1>2, <1>3, <2>2 DEF Whole
<1>5. IsPrefix(e, e)
  BY PrefixReflexive
<1>6. MaxLen \in Nat /\ QueueCap \in Nat /\ MaxIds \in Nat
  BY BoundsAreNaturals
<1>7. MainTypes
  <2>1. used \in [ids : 0 .. MaxIds, reverts : Nat, faults : Nat, restored : BOOLEAN]
    BY <1>6
  <2> QED BY <1>1, <1>2, <1>3, <1>6, <2>1 DEF MainTypes
<1>8. StoreTypes
  BY <1>1, <1>2, <1>3, <1>6 DEF StoreTypes
<1>9. ProcessTypes
  <2>1. IdleDetector \in Check
    BY DEF IdleDetector, Check
  <2>2. Len(pg) = 0 /\ Len(queue) = 0 /\ Len(fetched) = 0
    BY <1>1
  <2>3. Len(pg) + Len(queue) <= MaxLen /\ Len(queue) <= QueueCap /\ Len(fetched) <= 1
    BY <1>6, <2>2
  <2> QED BY <1>1, <2>1, <2>3, Zenon DEF ProcessTypes
<1>10. KnownIds
  BY <1>1 DEF KnownIds
<1>11. CacheInv /\ TreeInv
  BY <1>2, <1>4, <1>5 DEF CacheInv, TreeInv
<1>12. FetchInv /\ DetectorInv /\ RollBackInv
  BY DEF FetchInv, DetectorInv, RollBackInv, Checking, IdleDetector
<1> QED BY <1>7, <1>8, <1>9, <1>10, <1>11, <1>12 DEF IInv

\* Every step keeps the invariant.
LEMMA StepInv == IInv /\ [Next]_vars => IInv'
<1> SUFFICES ASSUME IInv, [Next]_vars PROVE IInv'
  OBVIOUS
<1>1. CASE Next
  BY <1>1, MainNodeStep, CrashStep, RestorePostgresStep, SyncKeeps, TreeKeeps,
     TreeDataFetcherKeeps, DetectorKeeps, ReverterKeeps DEF Next
<1>2. CASE UNCHANGED vars
  <2>1. UNCHANGED <<stores, process>> /\ chain' = chain /\ mainRoots' = mainRoots /\ commits' = commits
        /\ used' = used
    BY <1>2 DEF vars, stores, process
  <2>2. MainTypes' /\ (\A i \in 1 .. Len(chain') : chain'[i].id <= used'.ids) /\ used'.ids >= used.ids
    BY <2>1, Numbers DEF IInv, MainTypes, KnownIds
  <2> QED BY <2>1, <2>2, MainStep
<1> QED BY <1>1, <1>2

\* The inductive invariant holds in every reachable state.
THEOREM InvariantHolds == Spec => []IInv
BY InitInv, StepInv, PTL DEF Spec

\* Types and bounds: Postgres and the cache do not outgrow the main chain's bound, and
\* every root hash in Postgres belongs to a sealed batch.
THEOREM TypeCorrect == Spec => []TypeOK
<1>1. IInv => TypeOK
  <2> SUFFICES ASSUME IInv PROVE TypeOK
    OBVIOUS
  <2>1. chain \in Seq(Block) /\ pg \in Seq(Block) /\ treeDisk \in Seq(Block) /\ treeMem \in Seq(Block)
        /\ cache \in Seq(Block)
    BY DEF IInv, MainTypes, StoreTypes
  <2>2. Len(chain) <= MaxLen
    BY DEF IInv, MainTypes
  <2>3. Len(pg) <= MaxLen
    BY DetectorFacts, QueueFacts
  <2>4. Len(cache) <= MaxLen
    <3>1. Len(cache) <= Len(pg) /\ Len(cache) \in Nat
      BY <2>1, PrefixFacts DEF IInv, CacheInv
    <3> QED BY <2>3, <3>1, DetectorFacts, QueueFacts
  <2>5. \A c \in Seq(Block) : \A i \in 1 .. Len(c) : c[i] \in Block
    OBVIOUS
  <2>6. /\ \A c \in {chain, pg, treeDisk, treeMem, cache} : \A i \in 1 .. Len(c) : c[i] \in Block
        /\ \A c \in {chain, pg, cache} : Len(c) <= MaxLen
    BY <2>1, <2>2, <2>3, <2>4, <2>5
  <2>7. keep \in 0 .. MaxLen
    <3>1. CASE Checking
      BY <3>1, QueueFacts DEF IInv, RollBackInv
    <3>2. CASE ~Checking
      <4>1. keep <= Len(roots) /\ keep \in Nat
        BY <3>2 DEF IInv, RollBackInv, ProcessTypes
      <4>2. Sealed(pg) <= Len(pg)
        BY <2>1, Counts
      <4> QED BY <2>3, <4>1, <4>2, DetectorFacts, QueueFacts
    <3> QED BY <3>1, <3>2
  <2>8. mainRoots \in 0 .. Sealed(chain) /\ Len(roots) <= Sealed(pg)
    BY DetectorFacts
  <2>9. /\ Len(queue) <= QueueCap /\ Len(fetched) <= 1 /\ treeReady \in BOOLEAN
        /\ pc \in {"detect", "run", "roll_back_tree", "roll_back_cache", "roll_back_postgres"}
    BY DEF IInv, ProcessTypes
  <2> QED BY <2>6, <2>7, <2>8, <2>9 DEF TypeOK
<1> QED BY <1>1, InvariantHolds, PTL

\* The cache, and the tree once it has been checked, never hold a batch that Postgres
\* does not have, wherever the process stopped in a rollback and whatever root hashes
\* came from L1; for a tree under a restored Postgres, as long as the root hashes there
\* are those of its batches.
THEOREM StoresHoldOneChain == Spec => []StoresOfOneChain
<1>1. IInv => StoresOfOneChain
  BY DEF IInv, CacheInv, TreeInv, MainTypes, StoresOfOneChain
<1> QED BY <1>1, InvariantHolds, PTL

\* A root hash that the main node tells is saved only for the batch in Postgres that it
\* is of, whatever the main node did between the two calls of the tree data fetcher.
THEOREM AnswersAreOfTheChain == Spec => AnswersTellChain
<1>1. ASSUME IInv, SaveFetched, ~fetched[1].l1, roots' # roots
      PROVE  roots' = Append(roots, UpTo(pg, Len(roots) + 1))
  <2>1. fetched # <<>> /\ Head(fetched) = fetched[1]
    BY <1>1, AnswerFacts DEF SaveFetched
  <2>2. LastBlockMatches(fetched[1].number) /\ SaveTreeData(fetched[1].number, fetched[1].hash)
    BY <1>1, <2>1 DEF SaveFetched
  <2>3. fetched[1].hash = UpTo(pg, fetched[1].number)
    BY <1>1, <2>1, <2>2, AnswerFacts
  <2> QED BY <1>1, <2>2, <2>3 DEF SaveTreeData
<1>2. IInv /\ [Next]_vars =>
        [SaveFetched /\ ~fetched[1].l1 /\ roots' # roots =>
            roots' = Append(roots, UpTo(pg, Len(roots) + 1))]_vars
  BY <1>1
<1> QED BY <1>2, InvariantHolds, PTL DEF AnswersTellChain, Spec

\* A rollback deletes no batch that the main node still has and whose own root hash is
\* in Postgres: what the detector took for diverged has stayed so until Postgres is
\* rolled back.
THEOREM RollBackSparesShared == Spec => NothingSharedRolledBack
<1>1. IInv => (RollBackPostgres /\ keep < Len(roots) /\ roots[keep + 1] = UpTo(pg, keep + 1) =>
                ~IsPrefix(UpTo(pg, keep + 1), chain))
  <2> SUFFICES ASSUME IInv, RollBackPostgres, keep < Len(roots), roots[keep + 1] = UpTo(pg, keep + 1)
               PROVE  ~IsPrefix(UpTo(pg, keep + 1), chain)
    OBVIOUS
  <2>1. Diverged(keep + 1) /\ keep \in Nat
    BY ReverterFacts DEF RollBackPostgres
  <2>2. keep + 1 <= Len(roots)
    BY <2>1, DetectorFacts
  <2> QED BY <2>1, <2>2 DEF Diverged, Shared
<1>2. IInv /\ [Next]_vars =>
        [RollBackPostgres /\ keep < Len(roots) /\ roots[keep + 1] = UpTo(pg, keep + 1) =>
            ~IsPrefix(UpTo(pg, keep + 1), chain)]_vars
  BY <1>1
<1> QED BY <1>2, InvariantHolds, PTL DEF NothingSharedRolledBack, Spec
=============================================================================
