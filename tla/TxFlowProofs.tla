---------------------------- MODULE TxFlowProofs ----------------------------
(***************************************************************************)
(* Proofs about the way of a transaction into a batch: the inductive       *)
(* invariant of TxFlow and the theorems that follow from it.               *)
(***************************************************************************)
EXTENDS TxFlow, FiniteSetTheorems, NatSetLemmas, TLAPS

-----------------------------------------------------------------------------
(* The inductive invariant.                                                *)

\* Transactions of the two kinds.  A priority operation is known by its id.
L1Tx == {t \in Tx : /\ t.pri /\ t.n + 1 \in DOMAIN OpFrom /\ t.acc = OpFrom[t.n + 1]
                    /\ t.fee = 0 /\ t.at = 0}
L2Tx == {t \in Tx : ~t.pri /\ t.acc \in Accounts}
AnyTx == L1Tx \cup L2Tx

Row == [tx : AnyTx, mp : BOOLEAN, blk : Nat, bat : BOOLEAN, err : BOOLEAN]

\* L2 blocks whose transactions are marked in the table.
Marked == IF "txs" \in parts THEN sealed + 1 ELSE sealed

\* The executed chain: blocks end in order, the sealer's counters fit them, and
\* every L2 transaction came when it was its turn in its account.
ExecInv ==
    /\ exec \in Seq(AnyTx) /\ ends \in Seq(Nat)
    /\ \A b, c \in 1 .. Len(ends) : b <= c => ends[b] <= ends[c] /\ ends[c] <= Len(exec)
    /\ sealed \in Nat /\ batched \in Nat /\ batched <= sealed /\ sealed <= Len(ends)
    /\ Len(ends) - sealed <= QueueCap + 1
    /\ parts \subseteq {"txs", "logs"} /\ (parts # {} => sealed < Len(ends))
    /\ \A i \in DOMAIN exec : ~exec[i].pri => exec[i].n = NonceAt(exec[i].acc, i - 1)

\* The table: rows under their keys, and operations stored in the order of ids.
RowTypes ==
    /\ clock \in Nat /\ ops \in 0 .. Len(OpFrom) /\ clock + ops <= MaxTxs
    /\ IsFiniteSet(DOMAIN rows)
    /\ \A k \in DOMAIN rows : /\ rows[k] \in Row /\ Key(rows[k].tx) = k
                              /\ rows[k].tx.pri => rows[k].tx.n < ops

\* A row, or the deletion that explains why there is none.
Traced(t) == Key(t) \in DOMAIN rows \/ Key(t) \in deleted

\* What is marked is in its block, and every transaction of a marked block has
\* its row, unless that was deleted: always if it is a priority operation, and
\* until the block is in a batch otherwise.
RowsInv ==
    /\ \A k \in DOMAIN rows : rows[k].blk # 0 =>
        rows[k].blk <= Marked /\ rows[k].tx \in BlockTxs(rows[k].blk)
    /\ \A b \in 1 .. Marked : \A t \in BlockTxs(b) :
        /\ t.pri /\ Key(t) \notin deleted => Key(t) \in DOMAIN rows /\ rows[Key(t)].blk = b
        /\ b > batched => HasRow(t, b) \/ Key(t) \in deleted

\* What is executed and not marked yet can be marked.
UnmarkedInv ==
    keeper.pc # "start" => \A i \in EndOf(Marked) + 1 .. Len(exec) : Traced(exec[i])

\* The mempool's records.
AccountRecord == [nonce : Nat, txs : SUBSET L2Tx]
Store == [l1 : SUBSET L1Tx, acc : UNION {[S -> AccountRecord] : S \in SUBSET Accounts},
          queue : SUBSET L2Tx, nextId : Nat, stashed : SUBSET Accounts, size : Nat]

HeldTxs(s) == UNION {s.acc[a].txs : a \in DOMAIN s.acc}

\* Accounts hold their own transactions, one for each nonce and none that is older
\* than the account's nonce.
AccountsInv(s) ==
    /\ IsFiniteSet(DOMAIN s.acc)
    /\ \A a \in DOMAIN s.acc :
        /\ IsFiniteSet(s.acc[a].txs)
        /\ \A t \in s.acc[a].txs : t.acc = a /\ t.n >= s.acc[a].nonce
        /\ \A t, u \in s.acc[a].txs : t.n = u.n => t = u

\* Pointers and size.
QueueInv(s, except) ==
    /\ \A a \in DOMAIN s.acc : \A t \in s.acc[a].txs : t.n = s.acc[a].nonce => t \in s.queue
    /\ \A p \in s.queue : p.acc \notin except =>
        p.acc \in DOMAIN s.acc /\ p \in s.acc[p.acc].txs /\ p.n = s.acc[p.acc].nonce
    /\ s.size = Cardinality(HeldTxs(s))

StoreInv ==
    /\ store \in Store /\ AccountsInv(store) /\ QueueInv(store, overtaken)
    /\ \A t \in store.l1 \cup HeldTxs(store) : Traced(t)

\* The fetcher's copies.
FetchRecord ==
    [pc : {"start", "info", "sync", "nonces", "insert"}, stashed : SUBSET Accounts,
     purged : SUBSET Accounts, txs : SUBSET AnyTx, nonces : [Accounts -> Nat]]

FetchInv ==
    /\ fetch \in FetchRecord
    /\ IsFiniteSet(fetch.txs)
    /\ fetch.pc \in {"start", "info", "sync"} => fetch.txs = {}
    /\ \A t \in fetch.txs : Key(t) \in DOMAIN rows
    /\ \A t, u \in fetch.txs : Key(t) = Key(u) => t = u

\* Before the first fetch the mempool is empty and nothing is executed.
FreshInv ==
    fetch.pc = "start" =>
        /\ store.l1 = {} /\ store.queue = {} /\ DOMAIN store.acc = {}
        /\ keeper.pc # "executing"
        /\ keeper.pc # "start" => parts = {} /\ sealed = Len(ends) /\ Len(exec) = EndOf(sealed)

KeeperTypes ==
    /\ keeper.pc \in {"start", "nobatch", "ready", "executing", "sealing", "stopped"}
    /\ keeper.filter \in Nat
    /\ keeper = [pc |-> keeper.pc, filter |-> keeper.filter, cur |-> keeper.cur]
    /\ crashes \in 0 .. MaxCrashes /\ overtaken \subseteq Accounts

\* The transaction in execution: unless the account was loaded beyond it, its
\* successor is the account's next transaction at most.
CurInv ==
    keeper.pc = "executing" =>
        /\ keeper.cur \in AnyTx /\ Traced(keeper.cur)
        /\ (/\ ~keeper.cur.pri /\ keeper.cur.acc \in DOMAIN store.acc
            /\ keeper.cur.acc \notin overtaken)
                => store.acc[keeper.cur.acc].nonce <= keeper.cur.n + 1

\* The ids of the priority operations among the first k transactions.
OpIds(k) == {exec[i].n : i \in {i \in 1 .. k : exec[i].pri}}

\* It is the turn of operation n: the one before it is done, and what is done of
\* the later ones, or of itself, has lost its row.
IsTurn(n, done) ==
    /\ n \in Nat /\ (n > 0 => n - 1 \in done)
    /\ \A v \in done : v >= n => <<"l1", v>> \in deleted

\* An operation is in execution, and the operation whose turn it is.
OpRuns == keeper.pc = "executing" /\ keeper.cur.pri
TurnId == IF OpRuns THEN keeper.cur.n ELSE store.nextId
OrderInv ==
    /\ PriorityInOrder
    /\ OpRuns => store.nextId = keeper.cur.n + 1
    /\ IsTurn(TurnId, OpIds(IF keeper.pc = "start" THEN EndOf(sealed) ELSE Len(exec)))

IInv ==
    /\ ExecInv /\ RowTypes /\ RowsInv /\ UnmarkedInv /\ StoreInv
    /\ FetchInv /\ FreshInv /\ KeeperTypes /\ CurInv /\ OrderInv

-----------------------------------------------------------------------------
(* Constants, keys and counting.                                           *)

\* What TxFlowAssumption says of the constants.
LEMMA Constants ==
    /\ Fees \subseteq Nat /\ Offers \subseteq Accounts \X Nat \X Fees
    /\ Capacity \in Nat /\ SyncBatch \in Nat /\ QueueCap \in Nat
    /\ MaxTxs \in Nat /\ MaxCrashes \in Nat /\ "l1" \notin Accounts
    /\ Len(OpFrom) \in Nat /\ DOMAIN OpFrom = 1 .. Len(OpFrom)
  BY TxFlowAssumption

\* The fields of a transaction.
LEMMA TxFields ==
    ASSUME NEW t \in AnyTx
    PROVE  /\ t \in Tx /\ t.pri \in BOOLEAN /\ t.n \in Nat /\ t.fee \in Nat /\ t.at \in Nat
           /\ t.pri => t \in L1Tx
           /\ ~t.pri => t \in L2Tx /\ t.acc \in Accounts
<1>1. t \in Tx
  BY DEF AnyTx, L1Tx, L2Tx
<1>2. t.pri \in BOOLEAN /\ t.n \in Nat /\ t.fee \in Nat /\ t.at \in Nat
  BY <1>1 DEF Tx
<1>3. t.pri => t \in L1Tx
  BY DEF AnyTx, L1Tx, L2Tx
<1>4. ~t.pri => t \in L2Tx /\ t.acc \in Accounts
  BY DEF AnyTx, L1Tx, L2Tx
<1> QED BY <1>1, <1>2, <1>3, <1>4

\* Transactions with one key are of one kind, account and nonce; a priority
\* operation is determined by its key.
LEMMA SameKey ==
    ASSUME NEW t \in AnyTx, NEW u \in AnyTx, Key(t) = Key(u)
    PROVE  t.pri = u.pri /\ t.n = u.n /\ t.acc = u.acc /\ (t.pri => t = u)
<1>1. t.pri = u.pri /\ t.n = u.n /\ (~t.pri => t.acc = u.acc)
  BY TxFields, Constants DEF Key
<1>2. ASSUME t.pri PROVE t = u
  <2>1. t \in L1Tx /\ u \in L1Tx
    BY <1>1, <1>2, TxFields
  <2>2. /\ t.acc = u.acc /\ t.fee = u.fee /\ t.at = u.at /\ t \in Tx /\ u \in Tx
    BY <1>1, <2>1 DEF L1Tx
  <2> QED BY <1>1, <2>2 DEF Tx
<1> QED BY <1>1, <1>2

\* Counting an account's transactions executed.
LEMMA ExecCounts ==
    ASSUME NEW k \in Nat, NEW a
    PROVE  /\ NonceAt(a, k) \in Nat
           /\ NonceAt(a, k + 1) = NonceAt(a, k)
                + (IF ~exec[k + 1].pri /\ exec[k + 1].acc = a THEN 1 ELSE 0)
           /\ \A j \in 0 .. k : NonceAt(a, j) <= NonceAt(a, k)
<1> DEFINE Q == {i \in Nat : ~exec[i].pri /\ exec[i].acc = a}
<1>1. \A n \in Nat : NonceAt(a, n) = Cardinality({i \in 1 .. n : i \in Q})
  <2> TAKE n \in Nat
  <2>1. {i \in 1 .. n : ~exec[i].pri /\ exec[i].acc = a} = {i \in 1 .. n : i \in Q}
    OBVIOUS
  <2> QED BY <2>1 DEF NonceAt
<1>2. k + 1 \in Nat /\ (k + 1 \in Q <=> ~exec[k + 1].pri /\ exec[k + 1].acc = a)
  OBVIOUS
<1> HIDE DEF Q
<1>3. /\ Cardinality({i \in 1 .. k : i \in Q}) \in Nat
      /\ Cardinality({i \in 1 .. (k + 1) : i \in Q}) = Cardinality({i \in 1 .. k : i \in Q}) + (IF k + 1 \in Q THEN 1 ELSE 0)
      /\ \A j \in 0 .. k : Cardinality({i \in 1 .. j : i \in Q}) <= Cardinality({i \in 1 .. k : i \in Q})
  BY CountUpTo
<1>4. \A j \in 0 .. k : j \in Nat
  OBVIOUS
<1> QED BY <1>1, <1>2, <1>3, <1>4

\* The counts depend on what is counted only.
LEMMA SameCounts ==
    ASSUME NEW m \in Nat, \A i \in 1 .. m : exec'[i] = exec[i]
    PROVE  \A k \in 0 .. m : OpIds(k)' = OpIds(k) /\ \A a : NonceAt(a, k)' = NonceAt(a, k)
<1> SUFFICES ASSUME NEW k \in 0 .. m, NEW a
             PROVE  OpIds(k)' = OpIds(k) /\ NonceAt(a, k)' = NonceAt(a, k)
  OBVIOUS
<1>1. {i \in 1 .. k : exec'[i].pri} = {i \in 1 .. k : exec[i].pri}
  OBVIOUS
<1>2. {i \in 1 .. k : ~exec'[i].pri /\ exec'[i].acc = a} = {i \in 1 .. k : ~exec[i].pri /\ exec[i].acc = a}
  OBVIOUS
<1>3. \A i \in {i \in 1 .. k : exec[i].pri} : exec'[i].n = exec[i].n
  OBVIOUS
<1> QED BY <1>1, <1>2, <1>3 DEF OpIds, NonceAt

\* One more is counted.
LEMMA NextIds ==
    ASSUME NEW m \in Nat, \A i \in 1 .. m : exec'[i] = exec[i]
    PROVE  OpIds(m + 1)' = OpIds(m) \cup (IF exec'[m + 1].pri THEN {exec'[m + 1].n} ELSE {})
<1>1. {i \in 1 .. (m + 1) : exec'[i].pri} =
        {i \in 1 .. m : exec[i].pri} \cup (IF exec'[m + 1].pri THEN {m + 1} ELSE {})
  OBVIOUS
<1>2. \A i \in {i \in 1 .. m : exec[i].pri} : exec'[i].n = exec[i].n
  OBVIOUS
<1> QED BY <1>1, <1>2 DEF OpIds

\* Types of the chain.
LEMMA ChainTypes ==
    ASSUME ExecInv
    PROVE  /\ Len(exec) \in Nat /\ DOMAIN exec = 1 .. Len(exec)
           /\ Len(ends) \in Nat /\ DOMAIN ends = 1 .. Len(ends)
           /\ sealed \in Nat /\ batched \in Nat /\ batched <= sealed /\ sealed <= Len(ends)
           /\ Marked \in Nat /\ sealed <= Marked /\ Marked <= sealed + 1 /\ Marked <= Len(ends)
           /\ \A i \in 1 .. Len(exec) : exec[i] \in AnyTx
           /\ \A b \in 0 .. Len(ends) : EndOf(b) \in Nat /\ EndOf(b) <= Len(exec)
           /\ \A b, c \in 0 .. Len(ends) : b <= c => EndOf(b) <= EndOf(c)
<1>1. /\ Len(exec) \in Nat /\ DOMAIN exec = 1 .. Len(exec)
      /\ Len(ends) \in Nat /\ DOMAIN ends = 1 .. Len(ends)
      /\ sealed \in Nat /\ batched \in Nat /\ batched <= sealed /\ sealed <= Len(ends)
      /\ \A i \in 1 .. Len(exec) : exec[i] \in AnyTx
      /\ \A b \in 1 .. Len(ends) : ends[b] \in Nat
  BY DEF ExecInv
<1>2. parts # {} => sealed < Len(ends)
  BY DEF ExecInv
<1>3. Marked \in Nat /\ sealed <= Marked /\ Marked <= sealed + 1 /\ Marked <= Len(ends)
  BY <1>1, <1>2 DEF Marked
<1>4. \A b \in 0 .. Len(ends) : EndOf(b) \in Nat /\ EndOf(b) <= Len(exec)
  BY <1>1 DEF ExecInv, EndOf
<1>5. \A b, c \in 0 .. Len(ends) : b <= c => EndOf(b) <= EndOf(c)
  <2> SUFFICES ASSUME NEW b \in 0 .. Len(ends), NEW c \in 0 .. Len(ends), b <= c
               PROVE  EndOf(b) <= EndOf(c)
    OBVIOUS
  <2>1. CASE b = 0
    BY <1>4, <2>1 DEF EndOf
  <2>2. CASE b # 0
    <3>1. b \in 1 .. Len(ends) /\ c \in 1 .. Len(ends) /\ c # 0
      BY <1>1, <2>2
    <3> QED BY <2>2, <3>1 DEF ExecInv, EndOf
  <2> QED BY <2>1, <2>2
<1> QED BY <1>1, <1>3, <1>4, <1>5

\* The positions of a block, and which block a position is in.
LEMMA BlockPositions ==
    ASSUME ExecInv, NEW b \in 1 .. Len(ends)
    PROVE  /\ b - 1 \in 0 .. Len(ends)
           /\ EndOf(b - 1) \in Nat /\ EndOf(b) \in Nat /\ EndOf(b) <= Len(exec)
           /\ \A i \in EndOf(b - 1) + 1 .. EndOf(b) : i \in 1 .. Len(exec) /\ exec[i] \in AnyTx
           /\ \A c \in 1 .. Len(ends) : \A i \in EndOf(b - 1) + 1 .. EndOf(b) :
                i \in EndOf(c - 1) + 1 .. EndOf(c) => c = b
<1>1. b - 1 \in 0 .. Len(ends) /\ b \in 0 .. Len(ends) /\ Len(exec) \in Nat /\ Len(ends) \in Nat
  BY ChainTypes
<1>2. EndOf(b - 1) \in Nat /\ EndOf(b) \in Nat /\ EndOf(b) <= Len(exec)
  BY <1>1, ChainTypes
<1>3. \A i \in EndOf(b - 1) + 1 .. EndOf(b) : i \in 1 .. Len(exec) /\ exec[i] \in AnyTx
  BY SMTT(30), <1>1, <1>2, ChainTypes
<1>4. ASSUME NEW c \in 1 .. Len(ends), NEW i \in EndOf(b - 1) + 1 .. EndOf(b),
             i \in EndOf(c - 1) + 1 .. EndOf(c)
      PROVE  c = b
  <2>1. c - 1 \in 0 .. Len(ends) /\ c \in 0 .. Len(ends)
    BY <1>1
  <2>2. EndOf(c - 1) \in Nat /\ EndOf(c) \in Nat
    BY <2>1, ChainTypes
  <2>3. c <= b - 1 => EndOf(c) <= EndOf(b - 1)
    BY <1>1, <2>1, ChainTypes
  <2>4. b <= c - 1 => EndOf(b) <= EndOf(c - 1)
    BY <1>1, <2>1, ChainTypes
  <2>5. ~(c <= b - 1) /\ ~(b <= c - 1)
    BY <1>2, <1>4, <2>2, <2>3, <2>4
  <2> QED BY <1>1, <2>5
<1> QED BY <1>1, <1>2, <1>3, <1>4

\* No nonce of an account is executed twice.
LEMMA DistinctNonces ==
    ASSUME ExecInv, NEW i \in 1 .. Len(exec), NEW j \in 1 .. Len(exec),
           Key(exec[i]) = Key(exec[j]), ~exec[i].pri
    PROVE  i = j
<1>1. ASSUME NEW x \in 1 .. Len(exec), NEW y \in 1 .. Len(exec), x < y,
             Key(exec[x]) = Key(exec[y]), ~exec[x].pri
      PROVE  FALSE
  <2>1. PICK t : t = exec[x]
    OBVIOUS
  <2>2. PICK u : u = exec[y]
    OBVIOUS
  <2>3. t \in AnyTx /\ u \in AnyTx /\ x - 1 \in Nat /\ y - 1 \in Nat /\ x - 1 + 1 = x
        /\ x \in 0 .. y - 1 /\ DOMAIN exec = 1 .. Len(exec)
    BY <1>1, <2>1, <2>2, ChainTypes
  <2>4. t.pri = u.pri /\ t.n = u.n /\ t.acc = u.acc
    BY <1>1, <2>1, <2>2, <2>3, SameKey, TxFields
  <2>5. ~t.pri /\ ~u.pri
    BY <1>1, <2>1, <2>4
  <2>6. t.n = NonceAt(t.acc, x - 1) /\ u.n = NonceAt(u.acc, y - 1)
    BY <2>1, <2>2, <2>3, <2>5 DEF ExecInv
  <2>7. NonceAt(t.acc, x - 1) \in Nat /\ NonceAt(t.acc, x) = NonceAt(t.acc, x - 1) + 1
    BY <2>1, <2>3, <2>5, ExecCounts
  <2>8. NonceAt(t.acc, x) <= NonceAt(t.acc, y - 1) /\ NonceAt(t.acc, y - 1) \in Nat
    BY <2>3, ExecCounts
  <2>9. NonceAt(t.acc, x - 1) = NonceAt(t.acc, y - 1)
    BY <2>4, <2>6
  <2> QED BY <2>7, <2>8, <2>9
<1>2. ~exec[j].pri
  <2>1. PICK t \in AnyTx : t = exec[i]
    BY ChainTypes
  <2>2. PICK u \in AnyTx : u = exec[j]
    BY ChainTypes
  <2> QED BY <2>1, <2>2, SameKey
<1>3. i < j \/ j < i \/ i = j
  BY ChainTypes
<1> QED BY <1>1, <1>2, <1>3

\* No key is executed twice, unless its row was deleted.
LEMMA DistinctKeys ==
    ASSUME ExecInv, PriorityInOrder, NEW i \in 1 .. Len(exec), NEW j \in 1 .. Len(exec),
           Key(exec[i]) = Key(exec[j]), Key(exec[i]) \notin deleted
    PROVE  i = j
<1>1. PICK t \in AnyTx : t = exec[i]
  BY ChainTypes
<1>2. PICK u \in AnyTx : u = exec[j]
  BY ChainTypes
<1>3. t.pri = u.pri
  BY <1>1, <1>2, SameKey
<1>4. CASE ~t.pri
  BY <1>1, <1>4, DistinctNonces
<1>5. CASE t.pri
  <2>1. i < j => i \in 1 .. j - 1 /\ j \in DOMAIN exec
    BY ChainTypes
  <2>2. j < i => j \in 1 .. i - 1 /\ i \in DOMAIN exec
    BY ChainTypes
  <2>3. ~(i < j) /\ ~(j < i)
    BY <1>1, <1>2, <1>3, <1>5, <2>1, <2>2 DEF PriorityInOrder
  <2> QED BY <2>3, ChainTypes
<1> QED BY <1>4, <1>5

-----------------------------------------------------------------------------
(* The mempool's methods.                                                  *)

\* The fields of a store.
LEMMA StoreFields ==
    ASSUME NEW s \in Store
    PROVE  /\ s.l1 \subseteq L1Tx /\ s.queue \subseteq L2Tx /\ s.nextId \in Nat
           /\ s.stashed \subseteq Accounts /\ s.size \in Nat
           /\ DOMAIN s.acc \subseteq Accounts /\ s.acc \in [DOMAIN s.acc -> AccountRecord]
           /\ \A a \in DOMAIN s.acc : s.acc[a] \in AccountRecord /\ s.acc[a].nonce \in Nat
                                      /\ s.acc[a].txs \subseteq L2Tx
<1>1. /\ s.l1 \subseteq L1Tx /\ s.queue \subseteq L2Tx /\ s.nextId \in Nat
      /\ s.stashed \subseteq Accounts /\ s.size \in Nat
      /\ s.acc \in UNION {[S -> AccountRecord] : S \in SUBSET Accounts}
  BY DEF Store
<1>2. PICK S \in SUBSET Accounts : s.acc \in [S -> AccountRecord]
  BY <1>1
<1>3. DOMAIN s.acc = S /\ \A a \in S : s.acc[a] \in AccountRecord
  BY <1>2
<1>4. \A r \in AccountRecord : r.nonce \in Nat /\ r.txs \subseteq L2Tx
  BY DEF AccountRecord
<1> QED BY <1>1, <1>2, <1>3, <1>4

\* A store from its fields.
LEMMA StoreFrom ==
    ASSUME NEW l1 \in SUBSET L1Tx, NEW S \in SUBSET Accounts, NEW acc \in [S -> AccountRecord],
           NEW queue \in SUBSET L2Tx, NEW nextId \in Nat, NEW stashed \in SUBSET Accounts,
           NEW size \in Nat
    PROVE  [l1 |-> l1, acc |-> acc, queue |-> queue, nextId |-> nextId, stashed |-> stashed,
            size |-> size] \in Store
<1>1. acc \in UNION {[T -> AccountRecord] : T \in SUBSET Accounts}
  OBVIOUS
<1> QED BY <1>1 DEF Store

\* Finitely many transactions have finitely many initiators.
LEMMA AccountsOfFinite ==
    ASSUME NEW S, IsFiniteSet(S)
    PROVE  IsFiniteSet({t.acc : t \in S})
<1> DEFINE T == {t.acc : t \in S}
           f == [t \in S |-> t.acc]
<1>1. f \in Surjection(S, T)
  BY DEF Surjection
<1> QED BY <1>1, FS_Surjection

\* A set from which each of some elements is replaced by another one.
LEMMA ReplacedCount ==
    ASSUME NEW held, IsFiniteSet(held), NEW new, IsFiniteSet(new), NEW gone \in SUBSET held,
           NEW fresh \in SUBSET new, (held \ gone) \cap new = {},
           NEW f \in Bijection(new \ fresh, gone)
    PROVE  /\ IsFiniteSet((held \ gone) \cup new)
           /\ Cardinality((held \ gone) \cup new) = Cardinality(held) + Cardinality(fresh)
<1>1. IsFiniteSet(new \ fresh) /\ Cardinality(new \ fresh) = Cardinality(new) - Cardinality(new \cap fresh)
  BY FS_Difference
<1>2. new \cap fresh = fresh /\ held \cap gone = gone
  OBVIOUS
<1>3. Cardinality(gone) = Cardinality(new \ fresh)
  BY <1>1, FS_Bijection DEF ExistsBijection
<1>4. IsFiniteSet(held \ gone) /\ Cardinality(held \ gone) = Cardinality(held) - Cardinality(gone)
  BY <1>2, FS_Difference
<1>5. /\ IsFiniteSet((held \ gone) \cup new)
      /\ Cardinality((held \ gone) \cup new) = Cardinality(held \ gone) + Cardinality(new) - Cardinality({})
  BY <1>4, FS_Union
<1>6. IsFiniteSet(gone) /\ IsFiniteSet(fresh)
  BY FS_Subset
<1>7. /\ Cardinality(held) \in Nat /\ Cardinality(new) \in Nat /\ Cardinality(gone) \in Nat
      /\ Cardinality(fresh) \in Nat /\ Cardinality({}) = 0
  BY <1>6, FS_CardinalityType, FS_EmptySet
<1>8. Cardinality(gone) = Cardinality(new) - Cardinality(fresh)
  BY <1>1, <1>2, <1>3
<1>9. Cardinality((held \ gone) \cup new) = Cardinality(held) - Cardinality(gone) + Cardinality(new)
  <2>1. Cardinality(held \ gone) \in Nat
    BY <1>4, FS_CardinalityType
  <2> QED BY <1>4, <1>5, <1>7, <2>1
<1> QED BY <1>5, <1>7, <1>8, <1>9

\* The transactions held are finitely many.
LEMMA HeldFinite ==
    ASSUME NEW s, AccountsInv(s), NEW S \in SUBSET DOMAIN s.acc
    PROVE  IsFiniteSet(UNION {s.acc[a].txs : a \in S}) /\ IsFiniteSet(HeldTxs(s))
<1>1. ASSUME NEW T \in SUBSET DOMAIN s.acc PROVE IsFiniteSet(UNION {s.acc[a].txs : a \in T})
  <2> DEFINE sets == {s.acc[a].txs : a \in T}
             f == [a \in T |-> s.acc[a].txs]
  <2>1. IsFiniteSet(T)
    BY FS_Subset DEF AccountsInv
  <2>2. f \in Surjection(T, sets)
    BY DEF Surjection
  <2>3. IsFiniteSet(sets)
    BY <2>1, <2>2, FS_Surjection
  <2>4. \A U \in sets : IsFiniteSet(U)
    BY DEF AccountsInv
  <2> HIDE DEF sets
  <2>5. IsFiniteSet(UNION sets)
    BY <2>3, <2>4, FS_UNION
  <2> QED BY <2>5 DEF sets
<1> QED BY <1>1 DEF HeldTxs

\* What insert works with: an account's record before, what it accepts of it, and
\* what that replaces.
LEMMA InsertParts ==
    ASSUME NEW s \in Store, AccountsInv(s), NEW nonces \in [Accounts -> Nat],
           NEW txs \in SUBSET AnyTx, IsFiniteSet(txs),
           \A t, u \in txs : Key(t) = Key(u) => t = u
    PROVE  /\ \A a \in Accounts :
                LET old == AccountTransactions(s, nonces, a)
                IN  /\ old.nonce \in Nat /\ old.txs \subseteq L2Tx /\ IsFiniteSet(old.txs)
                    /\ \A t \in old.txs : /\ a \in DOMAIN s.acc /\ t \in s.acc[a].txs
                                          /\ t.acc = a /\ t.n >= old.nonce
                    /\ \A t, u \in old.txs : t.n = u.n => t = u
           /\ Accepted(s, nonces, txs) \subseteq txs \cap L2Tx /\ IsFiniteSet(Accepted(s, nonces, txs))
           /\ \A t \in Accepted(s, nonces, txs) :
                t.acc \in Accounts /\ t.n >= AccountTransactions(s, nonces, t.acc).nonce
           /\ \A t, u \in Accepted(s, nonces, txs) : t.acc = u.acc /\ t.n = u.n => t = u
<1>1. ASSUME NEW a \in Accounts
      PROVE  LET old == AccountTransactions(s, nonces, a)
             IN  /\ old.nonce \in Nat /\ old.txs \subseteq L2Tx /\ IsFiniteSet(old.txs)
                 /\ \A t \in old.txs : /\ a \in DOMAIN s.acc /\ t \in s.acc[a].txs
                                       /\ t.acc = a /\ t.n >= old.nonce
                 /\ \A t, u \in old.txs : t.n = u.n => t = u
  <2>1. CASE a \in DOMAIN s.acc
    <3>1. AccountTransactions(s, nonces, a) = s.acc[a]
      BY <2>1 DEF AccountTransactions
    <3> QED BY <2>1, <3>1, StoreFields DEF AccountsInv
  <2>2. CASE a \notin DOMAIN s.acc
    <3>1. AccountTransactions(s, nonces, a) = [nonce |-> nonces[a], txs |-> {}]
      BY <2>2 DEF AccountTransactions
    <3> QED BY <3>1, FS_EmptySet
  <2> QED BY <2>1, <2>2
<1>2. Accepted(s, nonces, txs) \subseteq txs \cap L2Tx
  BY TxFields DEF Accepted
<1>3. IsFiniteSet(Accepted(s, nonces, txs))
  BY <1>2, FS_Subset
<1>4. \A t \in Accepted(s, nonces, txs) :
        t.acc \in Accounts /\ t.n >= AccountTransactions(s, nonces, t.acc).nonce
  BY <1>2 DEF Accepted, L2Tx
<1>5. \A t, u \in Accepted(s, nonces, txs) : t.acc = u.acc /\ t.n = u.n => t = u
  BY <1>2 DEF Key, L2Tx
<1> QED BY <1>1, <1>2, <1>3, <1>4, <1>5

\* insert keeps the mempool's bookkeeping: the accounts it brings get the nonces it
\* is given, the others keep theirs.
LEMMA InsertKeeps ==
    ASSUME NEW s \in Store, AccountsInv(s), NEW x, QueueInv(s, x), NEW nonces \in [Accounts -> Nat],
           NEW txs \in SUBSET AnyTx, IsFiniteSet(txs),
           \A t, u \in txs : Key(t) = Key(u) => t = u
    PROVE  LET r == insert(s, txs, nonces)
           IN  /\ r \in Store /\ AccountsInv(r) /\ QueueInv(r, x)
               /\ r.l1 \subseteq s.l1 \cup txs /\ HeldTxs(r) \subseteq HeldTxs(s) \cup txs
               /\ r.nextId = s.nextId
               /\ \A a \in DOMAIN r.acc :
                    IF a \in DOMAIN s.acc THEN r.acc[a].nonce = s.acc[a].nonce
                    ELSE r.acc[a].nonce = nonces[a] /\ a \in {t.acc : t \in {u \in txs : ~u.pri}}
<1> DEFINE new == Accepted(s, nonces, txs)
           gone == UNION {Replaced(s, nonces, t) : t \in new}
           old(a) == AccountTransactions(s, nonces, a)
           D == DOMAIN s.acc \cup {t.acc : t \in {u \in txs : ~u.pri}}
           r == insert(s, txs, nonces)
           fresh == {t \in new : Replaced(s, nonces, t) = {}}
<1>1. /\ \A a \in Accounts :
           /\ old(a).nonce \in Nat /\ old(a).txs \subseteq L2Tx /\ IsFiniteSet(old(a).txs)
           /\ \A t \in old(a).txs : a \in DOMAIN s.acc /\ t \in s.acc[a].txs
                                    /\ t.acc = a /\ t.n >= old(a).nonce
           /\ \A t, u \in old(a).txs : t.n = u.n => t = u
      /\ new \subseteq txs \cap L2Tx /\ IsFiniteSet(new)
      /\ \A t \in new : t.acc \in Accounts /\ t.n >= old(t.acc).nonce
      /\ \A t, u \in new : t.acc = u.acc /\ t.n = u.n => t = u
  BY InsertParts
<1>2. /\ r.l1 = s.l1 \cup {t \in txs : t.pri}
      /\ r.acc = [a \in D |-> [nonce |-> old(a).nonce,
                               txs |-> (old(a).txs \ gone) \cup {t \in new : t.acc = a}]]
      /\ r.queue = (s.queue \ {o \in gone : o.n = old(o.acc).nonce}) \cup {t \in new : t.n = old(t.acc).nonce}
      /\ r.nextId = s.nextId /\ r.stashed = s.stashed
      /\ r.size = s.size + Cardinality(fresh)
      /\ r = [l1 |-> r.l1, acc |-> r.acc, queue |-> r.queue, nextId |-> r.nextId,
              stashed |-> r.stashed, size |-> r.size]
  BY DEF insert
<1>3. \A o : o \in gone <=> \E t \in new : o \in old(t.acc).txs /\ o.n = t.n
  BY DEF Replaced
<1>4. \A t : t \in fresh <=> t \in new /\ \A o \in old(t.acc).txs : o.n # t.n
  BY DEF Replaced
<1>5. \A a \in DOMAIN s.acc : a \in Accounts /\ old(a) = s.acc[a]
  BY StoreFields DEF AccountTransactions
<1>6. D \subseteq Accounts /\ IsFiniteSet(D)
  <2>1. D \subseteq Accounts
    BY <1>5, TxFields
  <2> DEFINE l2 == {u \in txs : ~u.pri}
  <2>2. IsFiniteSet(l2)
    BY FS_Subset
  <2>3. IsFiniteSet({t.acc : t \in l2})
    <3> HIDE DEF l2
    <3> QED BY <2>2, AccountsOfFinite
  <2>4. IsFiniteSet(D)
    BY <2>3, FS_Union DEF AccountsInv
  <2> QED BY <2>1, <2>4
<1>7. \A t \in new : t.acc \in D
  BY <1>1 DEF L2Tx
<1>8. DOMAIN s.acc \subseteq D /\ \A a \in D : a \notin DOMAIN s.acc => a \in {t.acc : t \in {u \in txs : ~u.pri}} /\ old(a).nonce = nonces[a]
  BY DEF AccountTransactions
<1> HIDE DEF new, gone, old, D, r, fresh
<1>9. /\ DOMAIN r.acc = D
      /\ \A a \in D : /\ r.acc[a].nonce = old(a).nonce
                      /\ r.acc[a].txs = (old(a).txs \ gone) \cup {t \in new : t.acc = a}
  BY <1>2
<1>10. r.acc \in [D -> AccountRecord]
  <2>1. \A a \in D : /\ old(a).nonce \in Nat
                     /\ (old(a).txs \ gone) \cup {t \in new : t.acc = a} \in SUBSET L2Tx
    BY <1>1, <1>6
  <2> QED BY <1>2, <2>1 DEF AccountRecord
<1>11. IsFiniteSet(fresh) /\ Cardinality(fresh) \in Nat
  <2>1. fresh \subseteq new
    BY <1>4
  <2> QED BY <1>1, <2>1, FS_Subset, FS_CardinalityType
<1>12. r \in Store
  <2>1. r.l1 \in SUBSET L1Tx
    BY <1>2, StoreFields, TxFields
  <2>2. r.queue \in SUBSET L2Tx
    BY <1>1, <1>2, StoreFields
  <2>3. r.nextId \in Nat /\ r.stashed \in SUBSET Accounts /\ r.size \in Nat
    BY <1>2, <1>11, StoreFields
  <2>4. [l1 |-> r.l1, acc |-> r.acc, queue |-> r.queue, nextId |-> r.nextId,
         stashed |-> r.stashed, size |-> r.size] \in Store
    BY <1>6, <1>10, <2>1, <2>2, <2>3, StoreFrom
  <2> QED BY <1>2, <2>4
<1>13. AccountsInv(r)
  <2> SUFFICES ASSUME NEW a \in D
               PROVE  /\ IsFiniteSet(r.acc[a].txs)
                      /\ \A t \in r.acc[a].txs : t.acc = a /\ t.n >= r.acc[a].nonce
                      /\ \A t, u \in r.acc[a].txs : t.n = u.n => t = u
    BY <1>6, <1>9 DEF AccountsInv
  <2>1. a \in Accounts
    BY <1>6
  <2>2. IsFiniteSet(old(a).txs \ gone) /\ IsFiniteSet({t \in new : t.acc = a})
    BY <1>1, <2>1, FS_Subset
  <2>3. IsFiniteSet(r.acc[a].txs)
    <3>1. IsFiniteSet((old(a).txs \ gone) \cup {t \in new : t.acc = a})
      BY <2>2, FS_Union
    <3> QED BY <1>9, <3>1
  <2>4. \A t \in r.acc[a].txs : t.acc = a /\ t.n >= r.acc[a].nonce
    BY <1>1, <1>9, <2>1
  <2>5. ASSUME NEW t \in r.acc[a].txs, NEW u \in r.acc[a].txs, t.n = u.n PROVE t = u
    <3>1. t \in new /\ u \in old(a).txs \ gone => t.acc # a
      BY <1>3, <2>5
    <3>2. u \in new /\ t \in old(a).txs \ gone => u.acc # a
      BY <1>3, <2>5
    <3> QED BY <1>1, <1>9, <2>1, <2>4, <2>5, <3>1, <3>2
  <2> QED BY <2>3, <2>4, <2>5
<1>14. \A a \in DOMAIN r.acc : \A t \in r.acc[a].txs : t.n = r.acc[a].nonce => t \in r.queue
  <2> SUFFICES ASSUME NEW a \in D, NEW t \in r.acc[a].txs, t.n = r.acc[a].nonce PROVE t \in r.queue
    BY <1>9
  <2>1. a \in Accounts /\ t.n = old(a).nonce
    BY <1>6, <1>9
  <2>2. CASE t \in new /\ t.acc = a
    BY <1>2, <2>1, <2>2
  <2>3. CASE t \in old(a).txs \ gone
    <3>1. a \in DOMAIN s.acc /\ t \in s.acc[a].txs /\ t.n = s.acc[a].nonce
      BY <1>1, <1>5, <2>1, <2>3
    <3>2. t \in s.queue
      BY <3>1 DEF QueueInv
    <3> QED BY <1>2, <2>3, <3>2
  <2> QED BY <1>9, <2>2, <2>3
<1>15. \A p \in r.queue : p.acc \notin x =>
         p.acc \in DOMAIN r.acc /\ p \in r.acc[p.acc].txs /\ p.n = r.acc[p.acc].nonce
  <2> SUFFICES ASSUME NEW p \in r.queue, p.acc \notin x
               PROVE  p.acc \in D /\ p \in r.acc[p.acc].txs /\ p.n = r.acc[p.acc].nonce
    BY <1>9
  <2>1. CASE p \in new /\ p.n = old(p.acc).nonce
    BY <1>7, <1>9, <2>1
  <2>2. CASE p \in s.queue /\ ~(p \in gone /\ p.n = old(p.acc).nonce)
    <3>1. p.acc \in DOMAIN s.acc /\ p \in s.acc[p.acc].txs /\ p.n = s.acc[p.acc].nonce
      BY <2>2 DEF QueueInv
    <3>2. p.acc \in D /\ p \in old(p.acc).txs /\ p.n = old(p.acc).nonce
      BY <1>5, <1>8, <3>1
    <3> QED BY <1>9, <2>2, <3>2
  <2> QED BY <1>2, <2>1, <2>2
<1>16. HeldTxs(r) = (HeldTxs(s) \ gone) \cup new
  <2>1. \A t : t \in HeldTxs(r) <=> \E a \in D : t \in r.acc[a].txs
    BY <1>9 DEF HeldTxs
  <2>2. \A t : t \in HeldTxs(s) <=> \E a \in DOMAIN s.acc : t \in s.acc[a].txs
    BY DEF HeldTxs
  <2>3. ASSUME NEW t \in HeldTxs(r) PROVE t \in (HeldTxs(s) \ gone) \cup new
    BY <1>1, <1>6, <1>9, <2>1, <2>2, <2>3
  <2>4. ASSUME NEW t \in HeldTxs(s) \ gone PROVE t \in HeldTxs(r)
    BY <1>5, <1>8, <1>9, <2>1, <2>2, <2>4
  <2>5. ASSUME NEW t \in new PROVE t \in HeldTxs(r)
    BY <1>7, <1>9, <2>1, <2>5
  <2> QED BY <2>3, <2>4, <2>5
<1>17. (HeldTxs(s) \ gone) \cap new = {} /\ gone \subseteq HeldTxs(s) /\ fresh \subseteq new
  <2>1. \A t : t \in HeldTxs(s) <=> \E a \in DOMAIN s.acc : t \in s.acc[a].txs
    BY DEF HeldTxs
  <2>2. ASSUME NEW t \in HeldTxs(s), t \in new PROVE t \in gone
    <3>1. PICK a \in DOMAIN s.acc : t \in s.acc[a].txs
      BY <2>1
    <3>2. a = t.acc /\ t \in old(t.acc).txs
      BY <1>1, <1>5, <3>1
    <3> QED BY <1>3, <2>2, <3>2
  <2>3. gone \subseteq HeldTxs(s)
    BY <1>1, <1>3, <2>1
  <2> QED BY <1>4, <2>2, <2>3
<1>18. \E f : f \in Bijection(new \ fresh, gone)
  <2> DEFINE f == [t \in new \ fresh |-> CHOOSE o \in old(t.acc).txs : o.n = t.n]
  <2>1. \A t \in new \ fresh : f[t] \in old(t.acc).txs /\ f[t].n = t.n /\ f[t].acc = t.acc
    BY <1>1, <1>4
  <2>2. f \in [new \ fresh -> gone]
    BY <1>3, <2>1
  <2>3. ASSUME NEW t \in new \ fresh, NEW u \in new \ fresh, f[t] = f[u] PROVE t = u
    <3>1. t.n = u.n /\ t.acc = u.acc
      BY <2>1, <2>3
    <3> QED BY <1>1, <3>1
  <2>4. ASSUME NEW o \in gone PROVE \E t \in new \ fresh : f[t] = o
    <3>1. PICK t \in new : o \in old(t.acc).txs /\ o.n = t.n
      BY <1>3
    <3>2. t \in new \ fresh
      BY <1>4, <3>1
    <3>3. f[t] = o
      BY <1>1, <2>1, <3>1, <3>2
    <3> QED BY <3>2, <3>3
  <2> HIDE DEF f
  <2>5. f \in Bijection(new \ fresh, gone)
    BY <2>2, <2>3, <2>4 DEF Bijection, Injection, Surjection, IsInjective
  <2> QED BY <2>5
<1>19. r.size = Cardinality(HeldTxs(r))
  <2>1. IsFiniteSet(HeldTxs(s))
    BY HeldFinite
  <2>2. PICK f : f \in Bijection(new \ fresh, gone)
    BY <1>18
  <2>3. Cardinality((HeldTxs(s) \ gone) \cup new) = Cardinality(HeldTxs(s)) + Cardinality(fresh)
    BY <1>1, <1>17, <2>1, <2>2, ReplacedCount
  <2> QED BY <1>2, <1>16, <2>3 DEF QueueInv
<1>20. QueueInv(r, x)
  BY <1>14, <1>15, <1>19 DEF QueueInv
<1>21. r.l1 \subseteq s.l1 \cup txs /\ HeldTxs(r) \subseteq HeldTxs(s) \cup txs
  BY <1>1, <1>2, <1>16
<1>22. \A a \in DOMAIN r.acc :
         IF a \in DOMAIN s.acc THEN r.acc[a].nonce = s.acc[a].nonce
         ELSE r.acc[a].nonce = nonces[a] /\ a \in {t.acc : t \in {u \in txs : ~u.pri}}
  BY <1>5, <1>8, <1>9
<1> QED BY <1>2, <1>12, <1>13, <1>20, <1>21, <1>22 DEF r

\* The pointer chosen is in the queue and meets the filter.
LEMMA PointerMatches ==
    ASSUME NEW s \in Store, NEW filter, Matching(s, filter) # {}
    PROVE  Pointer(s, filter) \in Matching(s, filter)
<1> DEFINE M == Matching(s, filter)
           ats == {p.at : p \in M}
<1>1. \A p \in M : p.at \in Nat
  <2>1. M \subseteq AnyTx
    BY StoreFields DEF Matching, AnyTx
  <2> QED BY <2>1, TxFields
<1>2. ats \in SUBSET Nat /\ ats # {}
  BY <1>1
<1> HIDE DEF ats
<1>3. PICK m \in ats : \A y \in ats : m <= y
  BY <1>2, NatMin
<1>4. \E p \in M : \A q \in M : p.at <= q.at
  BY <1>3 DEF ats
<1> QED BY <1>4 DEF Pointer

\* next_transaction, for a priority operation.
LEMMA NextOperation ==
    ASSUME NEW s \in Store, NEW filter, \E t \in s.l1 : t.n = s.nextId
    PROVE  LET r == next_transaction(s, filter)
               tx == NextTx(s, filter)
           IN  /\ tx \in s.l1 /\ tx.pri /\ tx.n = s.nextId
               /\ r.l1 = s.l1 \ {tx} /\ r.nextId = s.nextId + 1
               /\ r.acc = s.acc /\ r.queue = s.queue /\ r.stashed = s.stashed /\ r.size = s.size
               /\ r \in Store
<1> DEFINE tx == NextTx(s, filter)
<1>1. tx \in s.l1 /\ tx.n = s.nextId
  BY DEF NextTx
<1>2. tx.pri
  BY <1>1, StoreFields DEF L1Tx
<1>3. next_transaction(s, filter) = [s EXCEPT !.l1 = @ \ {tx}, !.nextId = @ + 1]
  BY <1>2 DEF next_transaction
<1> HIDE DEF tx
<1>4. s.l1 \ {tx} \in SUBSET L1Tx /\ s.nextId + 1 \in Nat
  BY StoreFields
<1> DEFINE r == [s EXCEPT !.l1 = @ \ {tx}, !.nextId = @ + 1]
<1>5. /\ r.l1 = s.l1 \ {tx} /\ r.nextId = s.nextId + 1
      /\ r.acc = s.acc /\ r.queue = s.queue /\ r.stashed = s.stashed /\ r.size = s.size
  BY DEF Store
<1>6. r \in Store
  BY <1>4 DEF Store
<1> QED BY <1>1, <1>2, <1>3, <1>5, <1>6 DEF tx

\* next_transaction, for an L2 transaction: the bookkeeping stays exact, whether or
\* not accounts are stashed on the way.
LEMMA NextL2Keeps ==
    ASSUME NEW s \in Store, AccountsInv(s), NEW x, QueueInv(s, x), NEW filter,
           has_next(s, filter), CanTakeNext(s, filter), ~\E t \in s.l1 : t.n = s.nextId
    PROVE  LET r == next_transaction(s, filter)
               tx == NextTx(s, filter)
           IN  /\ tx \in HeldTxs(s) /\ tx \in L2Tx
               /\ r \in Store /\ AccountsInv(r) /\ QueueInv(r, x)
               /\ r.l1 = s.l1 /\ r.nextId = s.nextId /\ HeldTxs(r) \subseteq HeldTxs(s)
               /\ tx.acc \in DOMAIN r.acc /\ r.acc[tx.acc].nonce = tx.n + 1
<1> DEFINE tx == NextTx(s, filter)
           p == Pointer(s, filter)
           a == p.acc
           older == {q \in s.queue : q.at < p.at}
           out == {q.acc : q \in older}
           left == s.acc[tx.acc].txs \ {tx}
           r == next_transaction(s, filter)
           gone == UNION {s.acc[c].txs : c \in out}
<1>1. p \in s.queue
  BY PointerMatches DEF has_next, Matching
<1>2. /\ a \in DOMAIN s.acc /\ \E t \in s.acc[a].txs : t.n = s.acc[a].nonce
      /\ \A q \in older : q.acc \in DOMAIN s.acc /\ q.acc # a
  BY DEF CanTakeNext
<1>3. tx \in s.acc[a].txs /\ tx.n = s.acc[a].nonce
  <2>1. tx = CHOOSE t \in s.acc[a].txs : t.n = s.acc[a].nonce
    BY DEF NextTx
  <2> QED BY <1>2, <2>1
<1>4. tx.acc = a /\ tx \in L2Tx /\ ~tx.pri /\ tx.n \in Nat /\ tx \in HeldTxs(s)
  BY <1>2, <1>3, StoreFields DEF AccountsInv, L2Tx, HeldTxs
<1>5. /\ r.l1 = s.l1
      /\ r.acc = [c \in DOMAIN s.acc \ out |->
                    IF c = tx.acc THEN [nonce |-> tx.n + 1, txs |-> left] ELSE s.acc[c]]
      /\ r.queue = (s.queue \ (older \cup {p})) \cup {t \in left : t.n = tx.n + 1}
      /\ r.nextId = s.nextId /\ r.stashed = s.stashed \cup out
      /\ r.size = s.size - Cardinality(gone) - 1
      /\ r = [l1 |-> r.l1, acc |-> r.acc, queue |-> r.queue, nextId |-> r.nextId,
              stashed |-> r.stashed, size |-> r.size]
  BY <1>4 DEF next_transaction
<1>6. out \subseteq DOMAIN s.acc /\ a \notin out /\ out \subseteq Accounts
  BY <1>2, StoreFields
<1>7. \A c : c \in out <=> \E q \in older : q.acc = c
  OBVIOUS
<1>8. left = s.acc[a].txs \ {tx}
  BY <1>4
<1>9. \A t : t \in gone <=> \E c \in out : t \in s.acc[c].txs
  OBVIOUS
<1>10. older \subseteq s.queue
  OBVIOUS
<1>11. IsFiniteSet(gone)
  <2> HIDE DEF out
  <2> QED BY <1>6, HeldFinite
<1> HIDE DEF tx, p, older, out, left, r, gone
<1>12. /\ DOMAIN r.acc = DOMAIN s.acc \ out /\ a \in DOMAIN r.acc
       /\ r.acc[a].nonce = tx.n + 1 /\ r.acc[a].txs = s.acc[a].txs \ {tx}
       /\ \A c \in DOMAIN r.acc : c # a => r.acc[c] = s.acc[c]
  BY <1>2, <1>4, <1>5, <1>6, <1>8
<1>13. \A c \in DOMAIN s.acc : /\ s.acc[c].txs \subseteq L2Tx /\ s.acc[c].nonce \in Nat
                               /\ IsFiniteSet(s.acc[c].txs)
                               /\ \A t \in s.acc[c].txs : t.acc = c /\ t.n \in Nat /\ t.n >= s.acc[c].nonce
                               /\ \A t, u \in s.acc[c].txs : t.n = u.n => t = u
  <2>1. \A t \in L2Tx : t.n \in Nat
    BY TxFields DEF AnyTx
  <2> QED BY <2>1, StoreFields DEF AccountsInv
<1>14. \A t \in s.acc[a].txs \ {tx} : t.n >= tx.n + 1
  BY <1>2, <1>3, <1>4, <1>13
<1>15. AccountsInv(r)
  <2>1. IsFiniteSet(DOMAIN r.acc)
    <3>1. IsFiniteSet(DOMAIN s.acc)
      BY DEF AccountsInv
    <3>2. IsFiniteSet(DOMAIN s.acc \ out)
      BY <3>1, FS_Difference
    <3> QED BY <1>12, <3>2
  <2>2. IsFiniteSet(s.acc[a].txs \ {tx})
    BY <1>2, <1>13, FS_RemoveElement
  <2> SUFFICES ASSUME NEW c \in DOMAIN r.acc
               PROVE  /\ IsFiniteSet(r.acc[c].txs)
                      /\ \A t \in r.acc[c].txs : t.acc = c /\ t.n >= r.acc[c].nonce
                      /\ \A t, u \in r.acc[c].txs : t.n = u.n => t = u
    BY <2>1 DEF AccountsInv
  <2>3. CASE c = a
    <3>1. IsFiniteSet(r.acc[c].txs)
      BY <1>12, <2>2, <2>3
    <3>2. \A t \in r.acc[c].txs : t \in s.acc[a].txs \ {tx}
      BY <1>12, <2>3
    <3>3. \A t \in r.acc[c].txs : t.acc = c /\ t.n >= r.acc[c].nonce
      BY <1>2, <1>12, <1>13, <1>14, <2>3, <3>2
    <3>4. \A t, u \in r.acc[c].txs : t.n = u.n => t = u
      BY <1>2, <1>13, <3>2
    <3> QED BY <3>1, <3>3, <3>4
  <2>4. CASE c # a
    BY <1>12, <1>13, <2>4
  <2> QED BY <2>3, <2>4
<1>16. \A c \in DOMAIN r.acc : \A t \in r.acc[c].txs : t.n = r.acc[c].nonce => t \in r.queue
  <2> SUFFICES ASSUME NEW c \in DOMAIN r.acc, NEW t \in r.acc[c].txs, t.n = r.acc[c].nonce
               PROVE  t \in r.queue
    OBVIOUS
  <2>1. CASE c = a
    BY <1>5, <1>8, <1>12, <2>1
  <2>2. CASE c # a
    <3>1. c \in DOMAIN s.acc /\ c \notin out /\ t \in s.acc[c].txs /\ t.n = s.acc[c].nonce /\ t.acc = c
      BY <1>12, <1>13, <2>2
    <3>2. t \in s.queue
      BY <3>1 DEF QueueInv
    <3>3. t \notin older /\ t # p
      BY <1>7, <2>2, <3>1
    <3> QED BY <1>5, <3>2, <3>3
  <2> QED BY <2>1, <2>2
<1>17. \A y \in r.queue : y.acc \notin x =>
         y.acc \in DOMAIN r.acc /\ y \in r.acc[y.acc].txs /\ y.n = r.acc[y.acc].nonce
  <2> SUFFICES ASSUME NEW y \in r.queue, y.acc \notin x
               PROVE  y.acc \in DOMAIN r.acc /\ y \in r.acc[y.acc].txs /\ y.n = r.acc[y.acc].nonce
    OBVIOUS
  <2>1. CASE y \in left /\ y.n = tx.n + 1
    BY <1>2, <1>8, <1>12, <1>13, <2>1
  <2>2. CASE y \in s.queue \ (older \cup {p})
    <3>1. \A q \in s.queue : q.acc = y.acc => q.acc \in DOMAIN s.acc /\ q \in s.acc[q.acc].txs
                                              /\ q.n = s.acc[q.acc].nonce
      BY DEF QueueInv
    <3>2. \A q \in s.queue : q.acc = y.acc => q = y
      BY <1>13, <2>2, <3>1
    <3>3. y.acc \notin out /\ y.acc # a
      BY <1>1, <1>7, <1>10, <2>2, <3>2
    <3> QED BY <1>12, <2>2, <3>1, <3>3
  <2> QED BY <1>5, <2>1, <2>2
<1>18. HeldTxs(r) = HeldTxs(s) \ (gone \cup {tx})
  <2>1. \A t : t \in HeldTxs(r) <=> \E c \in DOMAIN r.acc : t \in r.acc[c].txs
    BY DEF HeldTxs
  <2>2. \A t : t \in HeldTxs(s) <=> \E c \in DOMAIN s.acc : t \in s.acc[c].txs
    BY DEF HeldTxs
  <2>3. ASSUME NEW t \in HeldTxs(r) PROVE t \in HeldTxs(s) \ (gone \cup {tx})
    <3>1. PICK c \in DOMAIN r.acc : t \in r.acc[c].txs
      BY <2>1
    <3>2. c \in DOMAIN s.acc /\ c \notin out /\ t \in s.acc[c].txs /\ t.acc = c
      BY <1>12, <1>13, <3>1
    <3>3. t # tx
      BY <1>4, <1>12, <3>1, <3>2
    <3>4. t \notin gone
      BY <1>6, <1>9, <1>13, <3>2
    <3> QED BY <2>2, <3>2, <3>3, <3>4
  <2>4. ASSUME NEW t \in HeldTxs(s) \ (gone \cup {tx}) PROVE t \in HeldTxs(r)
    <3>1. PICK c \in DOMAIN s.acc : t \in s.acc[c].txs
      BY <2>2
    <3>2. c \in DOMAIN r.acc /\ t \in r.acc[c].txs
      BY <1>9, <1>12, <2>4, <3>1
    <3> QED BY <2>1, <3>2
  <2> QED BY <2>3, <2>4
<1>19. r.size = Cardinality(HeldTxs(r)) /\ r.size \in Nat
  <2>1. IsFiniteSet(HeldTxs(s))
    BY HeldFinite
  <2>2. gone \cup {tx} \subseteq HeldTxs(s)
    BY <1>4, <1>6, <1>9 DEF HeldTxs
  <2>3. tx \notin gone
    BY <1>4, <1>6, <1>9, <1>13
  <2>4. Cardinality(gone \cup {tx}) = Cardinality(gone) + 1
    BY <1>11, <2>3, FS_AddElement
  <2>5. HeldTxs(s) \cap (gone \cup {tx}) = gone \cup {tx}
    BY <2>2
  <2>6. /\ IsFiniteSet(HeldTxs(r))
        /\ Cardinality(HeldTxs(r)) = Cardinality(HeldTxs(s)) - Cardinality(gone \cup {tx})
    <3>1. PICK A, B : A = HeldTxs(s) /\ B = gone \cup {tx}
      OBVIOUS
    <3>2. IsFiniteSet(A \ B) /\ Cardinality(A \ B) = Cardinality(A) - Cardinality(A \cap B)
      BY <2>1, <3>1, FS_Difference
    <3> QED BY <1>18, <2>5, <3>1, <3>2
  <2>7. /\ Cardinality(HeldTxs(s)) \in Nat /\ Cardinality(gone) \in Nat
        /\ Cardinality(HeldTxs(r)) \in Nat /\ s.size = Cardinality(HeldTxs(s))
    BY <1>11, <2>1, <2>6, FS_CardinalityType DEF QueueInv
  <2> QED BY <1>5, <2>4, <2>6, <2>7
<1>20. r \in Store
  <2>1. r.acc \in [DOMAIN s.acc \ out -> AccountRecord]
    <3>1. [nonce |-> tx.n + 1, txs |-> left] \in AccountRecord
      BY <1>2, <1>4, <1>8, <1>13 DEF AccountRecord
    <3> QED BY <1>5, <3>1, StoreFields
  <2>2. DOMAIN s.acc \ out \in SUBSET Accounts /\ r.l1 \in SUBSET L1Tx /\ r.nextId \in Nat
        /\ r.stashed \in SUBSET Accounts
    BY <1>5, <1>6, StoreFields
  <2>3. r.queue \in SUBSET L2Tx
    BY <1>2, <1>5, <1>8, <1>13, StoreFields
  <2>4. [l1 |-> r.l1, acc |-> r.acc, queue |-> r.queue, nextId |-> r.nextId,
         stashed |-> r.stashed, size |-> r.size] \in Store
    BY <1>19, <2>1, <2>2, <2>3, StoreFrom
  <2> QED BY <1>5, <2>4
<1>21. QueueInv(r, x)
  BY <1>16, <1>17, <1>19 DEF QueueInv
<1>22. HeldTxs(r) \subseteq HeldTxs(s)
  BY <1>18
<1> QED BY <1>4, <1>5, <1>12, <1>15, <1>20, <1>21, <1>22 DEF r, tx

\* rollback of an L2 transaction keeps the bookkeeping, unless the account's nonce
\* is beyond the transaction's successor.
LEMMA RollbackL2Keeps ==
    ASSUME NEW s \in Store, AccountsInv(s), NEW x, QueueInv(s, x), NEW tx \in L2Tx,
           tx.acc \in DOMAIN s.acc, tx.acc \notin x => s.acc[tx.acc].nonce <= tx.n + 1
    PROVE  LET r == rollback(s, tx)
           IN  /\ r \in Store /\ AccountsInv(r) /\ QueueInv(r, x)
               /\ r.l1 = s.l1 /\ r.nextId = s.nextId /\ HeldTxs(r) = HeldTxs(s)
               /\ DOMAIN r.acc = DOMAIN s.acc /\ r.queue \subseteq s.queue
<1> DEFINE a == tx.acc
           low == IF tx.n < s.acc[a].nonce THEN tx.n ELSE s.acc[a].nonce
           next == {t \in s.acc[a].txs : t.n = tx.n + 1}
           r == rollback(s, tx)
<1>1. tx \in AnyTx /\ ~tx.pri /\ tx.n \in Nat
  BY TxFields DEF AnyTx, L2Tx
<1>2. r = [s EXCEPT !.acc[a].nonce = low, !.queue = @ \ next]
  BY <1>1 DEF rollback
<1>3. /\ s.acc \in [DOMAIN s.acc -> AccountRecord] /\ low \in Nat /\ low <= tx.n /\ low <= s.acc[a].nonce
      /\ low = tx.n \/ low = s.acc[a].nonce
  BY <1>1, StoreFields
<1> HIDE DEF low, next, r
<1>4. /\ r.l1 = s.l1 /\ r.queue = s.queue \ next /\ r.nextId = s.nextId /\ r.stashed = s.stashed
      /\ r.size = s.size /\ r.acc = [s.acc EXCEPT ![a].nonce = low]
      /\ r = [l1 |-> r.l1, acc |-> r.acc, queue |-> r.queue, nextId |-> r.nextId,
              stashed |-> r.stashed, size |-> r.size]
  BY <1>2 DEF Store
<1>5. /\ DOMAIN r.acc = DOMAIN s.acc
      /\ \A c \in DOMAIN s.acc : r.acc[c].txs = s.acc[c].txs
      /\ r.acc[a].nonce = low /\ \A c \in DOMAIN s.acc : c # a => r.acc[c] = s.acc[c]
      /\ r.acc \in [DOMAIN s.acc -> AccountRecord]
  BY <1>3, <1>4 DEF AccountRecord
<1>6. \A c \in DOMAIN s.acc : /\ s.acc[c].nonce \in Nat
                              /\ \A t \in s.acc[c].txs : t.acc = c /\ t.n \in Nat /\ t.n >= s.acc[c].nonce
  <2>1. \A t \in L2Tx : t.n \in Nat
    BY TxFields DEF AnyTx
  <2> QED BY <2>1, StoreFields DEF AccountsInv
<1>7. r \in Store
  <2>1. /\ r.l1 \in SUBSET L1Tx /\ r.queue \in SUBSET L2Tx /\ r.nextId \in Nat
        /\ r.stashed \in SUBSET Accounts /\ r.size \in Nat /\ DOMAIN s.acc \in SUBSET Accounts
    BY <1>4, StoreFields
  <2>2. [l1 |-> r.l1, acc |-> r.acc, queue |-> r.queue, nextId |-> r.nextId,
         stashed |-> r.stashed, size |-> r.size] \in Store
    BY <1>5, <2>1, StoreFrom
  <2> QED BY <1>4, <2>2
<1>8. HeldTxs(r) = HeldTxs(s)
  BY <1>5 DEF HeldTxs
<1>9. AccountsInv(r)
  <2>1. \A c \in DOMAIN s.acc : r.acc[c].nonce <= s.acc[c].nonce /\ r.acc[c].nonce \in Nat
    BY <1>3, <1>5, <1>6
  <2>2. \A c \in DOMAIN s.acc : \A t \in s.acc[c].txs : t.n >= r.acc[c].nonce
    BY <1>6, <2>1
  <2> QED BY <1>5, <2>2 DEF AccountsInv
<1>10. \A c \in DOMAIN r.acc : \A t \in r.acc[c].txs : t.n = r.acc[c].nonce => t \in r.queue
  <2> SUFFICES ASSUME NEW c \in DOMAIN s.acc, NEW t \in s.acc[c].txs, t.n = r.acc[c].nonce
               PROVE  t \in r.queue
    BY <1>5
  <2>1. t.n = s.acc[c].nonce
    BY <1>3, <1>5, <1>6
  <2>2. t \in s.queue
    BY <2>1 DEF QueueInv
  <2>3. t \notin next
    BY <1>1, <1>3, <1>5, <1>6 DEF next
  <2> QED BY <1>4, <2>2, <2>3
<1>11. \A p \in r.queue : p.acc \notin x =>
         p.acc \in DOMAIN r.acc /\ p \in r.acc[p.acc].txs /\ p.n = r.acc[p.acc].nonce
  <2> SUFFICES ASSUME NEW p \in s.queue \ next, p.acc \notin x
               PROVE  p.acc \in DOMAIN s.acc /\ p \in s.acc[p.acc].txs /\ p.n = r.acc[p.acc].nonce
    BY <1>4, <1>5
  <2>1. p.acc \in DOMAIN s.acc /\ p \in s.acc[p.acc].txs /\ p.n = s.acc[p.acc].nonce
    BY DEF QueueInv
  <2>2. CASE p.acc # a
    BY <1>5, <2>1, <2>2
  <2>3. CASE p.acc = a
    <3>1. s.acc[a].nonce <= tx.n + 1 /\ p.n # tx.n + 1
      BY <2>1, <2>3 DEF next
    <3>2. s.acc[a].nonce <= tx.n
      BY <1>1, <1>6, <2>1, <2>3, <3>1
    <3>3. low = s.acc[a].nonce
      BY <1>1, <1>6, <3>2 DEF low
    <3> QED BY <1>5, <2>1, <2>3, <3>3
  <2> QED BY <2>2, <2>3
<1>12. QueueInv(r, x)
  BY <1>4, <1>8, <1>10, <1>11 DEF QueueInv
<1> QED BY <1>4, <1>5, <1>7, <1>8, <1>9, <1>12 DEF r

\* A store that differs in the priority operations only.
LEMMA OperationsOnly ==
    ASSUME NEW s, NEW r, r.acc = s.acc, r.queue = s.queue, r.size = s.size, NEW x,
           AccountsInv(s), QueueInv(s, x)
    PROVE  AccountsInv(r) /\ QueueInv(r, x) /\ HeldTxs(r) = HeldTxs(s)
  BY DEF AccountsInv, QueueInv, HeldTxs

\* rollback of a priority operation.
LEMMA RollbackOperation ==
    ASSUME NEW s \in Store, NEW tx \in L1Tx
    PROVE  LET r == rollback(s, tx)
           IN  /\ r \in Store /\ r.l1 = s.l1 /\ r.acc = s.acc /\ r.queue = s.queue /\ r.size = s.size
               /\ r.nextId = IF tx.n < s.nextId THEN tx.n ELSE s.nextId
<1>1. tx.pri /\ tx.n \in Nat
  BY TxFields DEF AnyTx, L1Tx
<1> DEFINE m == IF tx.n < s.nextId THEN tx.n ELSE s.nextId
<1>2. rollback(s, tx) = [s EXCEPT !.nextId = m]
  BY <1>1 DEF rollback
<1>3. m \in Nat
  BY <1>1, StoreFields
<1> HIDE DEF m
<1>4. [s EXCEPT !.nextId = m] \in Store
  BY <1>3 DEF Store
<1>5. LET r == [s EXCEPT !.nextId = m]
      IN  r.l1 = s.l1 /\ r.acc = s.acc /\ r.queue = s.queue /\ r.size = s.size /\ r.nextId = m
  BY DEF Store
<1> QED BY <1>2, <1>4, <1>5 DEF m

\* get_mempool_info: purged accounts have no pointer.
LEMMA InfoKeeps ==
    ASSUME NEW s \in Store, AccountsInv(s), NEW x, QueueInv(s, x)
    PROVE  LET r == get_mempool_info(s)
           IN  /\ r \in Store /\ AccountsInv(r) /\ QueueInv(r, x)
               /\ r.l1 = s.l1 /\ r.nextId = s.nextId /\ HeldTxs(r) \subseteq HeldTxs(s)
               /\ DOMAIN r.acc \subseteq DOMAIN s.acc
               /\ \A a \in DOMAIN r.acc : r.acc[a] = s.acc[a]
               /\ r.queue = s.queue /\ gc(s) \subseteq Accounts
<1> DEFINE g == gc(s)
           r == get_mempool_info(s)
           gone == UNION {s.acc[c].txs : c \in g}
<1>1. g \subseteq DOMAIN s.acc /\ \A p \in s.queue : p.acc \notin g
  BY DEF gc
<1>2. /\ r.l1 = s.l1 /\ r.acc = Without(s.acc, g) /\ r.queue = s.queue /\ r.nextId = s.nextId
      /\ r.stashed = {} /\ r.size = s.size - Cardinality(gone)
      /\ r = [l1 |-> r.l1, acc |-> r.acc, queue |-> r.queue, nextId |-> r.nextId,
              stashed |-> r.stashed, size |-> r.size]
  <2> DEFINE acc == Without(s.acc, g)
             size == s.size - Cardinality(gone)
  <2>1. r = [s EXCEPT !.stashed = {}, !.acc = acc, !.size = size]
    BY DEF get_mempool_info
  <2> HIDE DEF acc, size, r
  <2>2. /\ r.l1 = s.l1 /\ r.acc = acc /\ r.queue = s.queue /\ r.nextId = s.nextId
        /\ r.stashed = {} /\ r.size = size
        /\ r = [l1 |-> r.l1, acc |-> r.acc, queue |-> r.queue, nextId |-> r.nextId,
                stashed |-> r.stashed, size |-> r.size]
    BY <2>1 DEF Store
  <2> QED BY <2>2 DEF acc, size
<1>3. \A t : t \in gone <=> \E c \in g : t \in s.acc[c].txs
  OBVIOUS
<1> HIDE DEF g, r
<1>4. IsFiniteSet(gone)
  BY <1>1, HeldFinite
<1> HIDE DEF gone
<1>5. /\ DOMAIN r.acc = DOMAIN s.acc \ g /\ \A c \in DOMAIN r.acc : r.acc[c] = s.acc[c]
      /\ r.acc \in [DOMAIN s.acc \ g -> AccountRecord]
  BY <1>2, StoreFields DEF Without
<1>6. HeldTxs(r) = HeldTxs(s) \ gone
  <2>1. \A t : t \in HeldTxs(r) <=> \E c \in DOMAIN r.acc : t \in r.acc[c].txs
    BY DEF HeldTxs
  <2>2. \A t : t \in HeldTxs(s) <=> \E c \in DOMAIN s.acc : t \in s.acc[c].txs
    BY DEF HeldTxs
  <2>3. \A c, d \in DOMAIN s.acc : \A t : t \in s.acc[c].txs /\ t \in s.acc[d].txs => c = d
    BY DEF AccountsInv
  <2> QED BY <1>1, <1>3, <1>5, <2>1, <2>2, <2>3
<1>7. r.size = Cardinality(HeldTxs(r)) /\ r.size \in Nat
  <2>1. IsFiniteSet(HeldTxs(s))
    BY HeldFinite
  <2>2. HeldTxs(s) \cap gone = gone
    BY <1>1, <1>3 DEF HeldTxs
  <2>3. IsFiniteSet(HeldTxs(r)) /\ Cardinality(HeldTxs(r)) = Cardinality(HeldTxs(s)) - Cardinality(gone)
    BY <1>6, <2>1, <2>2, FS_Difference
  <2>4. Cardinality(HeldTxs(r)) \in Nat
    BY <2>3, FS_CardinalityType
  <2> QED BY <1>2, <2>3, <2>4 DEF QueueInv
<1>8. r \in Store
  <2>1. /\ r.l1 \in SUBSET L1Tx /\ r.queue \in SUBSET L2Tx /\ r.nextId \in Nat
        /\ r.stashed \in SUBSET Accounts /\ DOMAIN s.acc \ g \in SUBSET Accounts
    BY <1>2, StoreFields
  <2>2. [l1 |-> r.l1, acc |-> r.acc, queue |-> r.queue, nextId |-> r.nextId,
         stashed |-> r.stashed, size |-> r.size] \in Store
    BY <1>5, <1>7, <2>1, StoreFrom
  <2> QED BY <1>2, <2>2
<1>9. AccountsInv(r)
  <2>1. IsFiniteSet(DOMAIN s.acc)
    BY DEF AccountsInv
  <2>2. IsFiniteSet(DOMAIN s.acc \ g)
    BY <2>1, FS_Difference
  <2> QED BY <1>5, <2>2 DEF AccountsInv
<1>10. QueueInv(r, x)
  <2>1. \A c \in DOMAIN r.acc : \A t \in r.acc[c].txs : t.n = r.acc[c].nonce => t \in r.queue
    BY <1>2, <1>5 DEF QueueInv
  <2>2. \A p \in r.queue : p.acc \notin x =>
         p.acc \in DOMAIN r.acc /\ p \in r.acc[p.acc].txs /\ p.n = r.acc[p.acc].nonce
    BY <1>1, <1>2, <1>5 DEF QueueInv
  <2> QED BY <1>7, <2>1, <2>2 DEF QueueInv
<1>11. HeldTxs(r) \subseteq HeldTxs(s) /\ g \subseteq Accounts
  BY <1>1, <1>6, StoreFields
<1> QED BY <1>2, <1>5, <1>8, <1>9, <1>10, <1>11 DEF r, g

\* An empty mempool.
LEMMA NewStoreKeeps ==
    ASSUME NEW id \in Nat, NEW x
    PROVE  LET r == NewStore(id)
           IN  /\ r \in Store /\ AccountsInv(r) /\ QueueInv(r, x) /\ r.nextId = id
               /\ r.l1 = {} /\ r.queue = {} /\ DOMAIN r.acc = {} /\ HeldTxs(r) = {}
<1> DEFINE r == NewStore(id)
           none == [a \in {} |-> [nonce |-> 0, txs |-> {}]]
<1>1. /\ r = [l1 |-> {}, acc |-> none, queue |-> {}, nextId |-> id, stashed |-> {}, size |-> 0]
      /\ none \in [{} -> AccountRecord] /\ DOMAIN none = {}
  BY DEF NewStore
<1> HIDE DEF none
<1>2. r.nextId = id /\ r.l1 = {} /\ r.queue = {} /\ DOMAIN r.acc = {} /\ r.size = 0
  BY <1>1
<1>3. r \in Store
  <2>1. {} \in SUBSET L1Tx /\ {} \in SUBSET L2Tx /\ {} \in SUBSET Accounts /\ 0 \in Nat
    OBVIOUS
  <2>2. [l1 |-> {}, acc |-> none, queue |-> {}, nextId |-> id, stashed |-> {}, size |-> 0] \in Store
    BY <1>1, <2>1, StoreFrom
  <2> QED BY <1>1, <2>2
<1> HIDE DEF r
<1>4. HeldTxs(r) = {}
  BY <1>2 DEF HeldTxs
<1>5. AccountsInv(r) /\ QueueInv(r, x)
  BY <1>2, <1>4, FS_EmptySet DEF AccountsInv, QueueInv
<1> QED BY <1>2, <1>3, <1>4, <1>5 DEF r

-----------------------------------------------------------------------------
(* The chain under the steps.                                              *)

\* A step that keeps the first m blocks keeps what they end with, hold and count.
LEMMA ChainKept ==
    ASSUME ExecInv, NEW m \in 0 .. Len(ends),
           \A b \in 1 .. m : ends'[b] = ends[b],
           \A i \in 1 .. EndOf(m) : exec'[i] = exec[i]
    PROVE  /\ \A b \in 0 .. m : EndOf(b)' = EndOf(b)
           /\ \A b \in 1 .. m : BlockTxs(b)' = BlockTxs(b)
           /\ \A k \in 0 .. EndOf(m) : OpIds(k)' = OpIds(k)
<1>1. \A b \in 0 .. m : EndOf(b)' = EndOf(b)
  BY DEF EndOf
<1>2. EndOf(m) \in Nat /\ Len(ends) \in Nat
  BY ChainTypes
<1>3. ASSUME NEW b \in 1 .. m PROVE BlockTxs(b)' = BlockTxs(b)
  <2>1. b - 1 \in 0 .. m /\ b \in 0 .. m /\ b \in 1 .. Len(ends) /\ b \in 0 .. Len(ends)
    BY <1>2
  <2>2. EndOf(b) <= EndOf(m) /\ EndOf(b) \in Nat /\ EndOf(b - 1) \in Nat
    BY <1>2, <2>1, ChainTypes
  <2>3. \A i \in EndOf(b - 1) + 1 .. EndOf(b) : exec'[i] = exec[i]
    BY <1>2, <2>2
  <2>4. EndOf(b - 1)' = EndOf(b - 1) /\ EndOf(b)' = EndOf(b)
    BY <1>1, <2>1
  <2>5. BlockTxs(b)' = {exec'[i] : i \in EndOf(b - 1) + 1 .. EndOf(b)}
    BY <2>4 DEF BlockTxs
  <2> QED BY <2>3, <2>5 DEF BlockTxs
<1>4. \A k \in 0 .. EndOf(m) : OpIds(k)' = OpIds(k)
  BY <1>2, SameCounts
<1> QED BY <1>1, <1>3, <1>4

\* A step that leaves the chain alone.
LEMMA ChainSame ==
    ASSUME ExecInv, UNCHANGED chain
    PROVE  /\ ExecInv' /\ Marked' = Marked
           /\ \A b : EndOf(b)' = EndOf(b) /\ BlockTxs(b)' = BlockTxs(b)
           /\ \A k : OpIds(k)' = OpIds(k)
<1>1. exec' = exec /\ ends' = ends /\ sealed' = sealed /\ parts' = parts /\ batched' = batched
  BY DEF chain
<1>2. \A b : EndOf(b)' = EndOf(b)
  BY <1>1 DEF EndOf
<1>3. \A b : BlockTxs(b)' = BlockTxs(b)
  BY <1>1, <1>2 DEF BlockTxs
<1>4. \A k : OpIds(k)' = OpIds(k) /\ \A a : NonceAt(a, k)' = NonceAt(a, k)
  BY <1>1 DEF OpIds, NonceAt
<1>5. ExecInv'
  BY <1>1, <1>4 DEF ExecInv
<1> QED BY <1>1, <1>2, <1>3, <1>4, <1>5 DEF Marked

\* A crash, or its recovery, cuts the chain after m blocks.
LEMMA ChainCut ==
    ASSUME ExecInv, NEW m \in 0 .. Len(ends), sealed <= m,
           exec' = SubSeq(exec, 1, EndOf(m)), ends' = SubSeq(ends, 1, m),
           sealed' = sealed, batched' = batched,
           parts' \subseteq {"txs", "logs"}, parts' # {} => sealed < m
    PROVE  /\ ExecInv' /\ Len(ends') = m /\ Len(exec') = EndOf(m)
           /\ \A b \in 1 .. m : ends'[b] = ends[b]
           /\ \A i \in 1 .. EndOf(m) : exec'[i] = exec[i]
<1>1. /\ Len(exec) \in Nat /\ DOMAIN exec = 1 .. Len(exec) /\ exec \in Seq(AnyTx)
      /\ Len(ends) \in Nat /\ DOMAIN ends = 1 .. Len(ends) /\ ends \in Seq(Nat)
      /\ sealed \in Nat /\ batched \in Nat /\ batched <= sealed /\ sealed <= Len(ends)
      /\ EndOf(m) \in Nat /\ EndOf(m) <= Len(exec) /\ m \in Nat /\ m <= Len(ends)
  BY ChainTypes DEF ExecInv
<1>2. /\ exec' \in Seq(AnyTx) /\ Len(exec') = EndOf(m) /\ DOMAIN exec' = 1 .. EndOf(m)
      /\ \A i \in 1 .. EndOf(m) : exec'[i] = exec[i]
  BY <1>1
<1>3. /\ ends' \in Seq(Nat) /\ Len(ends') = m /\ DOMAIN ends' = 1 .. m
      /\ \A b \in 1 .. m : ends'[b] = ends[b]
  BY <1>1
<1>4. ASSUME NEW b \in 1 .. m, NEW c \in 1 .. m, b <= c
      PROVE  ends'[b] <= ends'[c] /\ ends'[c] <= Len(exec')
  <2>1. b \in 1 .. Len(ends) /\ c \in 1 .. Len(ends) /\ b # 0 /\ c # 0 /\ c <= m /\ c \in 0 .. Len(ends)
    BY <1>1
  <2>2. ends[b] <= ends[c]
    BY <1>4, <2>1 DEF ExecInv
  <2>3. EndOf(c) <= EndOf(m)
    BY <2>1, ChainTypes
  <2> QED BY <1>2, <1>3, <2>1, <2>2, <2>3 DEF EndOf
<1>5. ASSUME NEW i \in 1 .. EndOf(m)
      PROVE  (~exec[i].pri => exec[i].n = NonceAt(exec[i].acc, i - 1))'
  <2>1. i \in DOMAIN exec /\ i - 1 \in 0 .. EndOf(m) /\ exec'[i] = exec[i]
    BY <1>1, <1>2
  <2>2. ~exec[i].pri => exec[i].n = NonceAt(exec[i].acc, i - 1)
    BY <2>1 DEF ExecInv
  <2>3. PICK a : a = exec[i].acc
    OBVIOUS
  <2>4. NonceAt(a, i - 1)' = NonceAt(a, i - 1)
    BY <1>1, <1>2, <2>1, SameCounts
  <2>5. NonceAt(exec[i].acc, i - 1)' = NonceAt(a, i - 1)'
    BY <2>1, <2>3 DEF NonceAt
  <2> QED BY <2>1, <2>2, <2>3, <2>4, <2>5
<1>6. Len(ends) - sealed <= QueueCap + 1 /\ QueueCap \in Nat
  BY Constants DEF ExecInv
<1>7. /\ sealed' \in Nat /\ batched' \in Nat /\ batched' <= sealed' /\ sealed' <= Len(ends')
      /\ Len(ends') - sealed' <= QueueCap + 1 /\ (parts' # {} => sealed' < Len(ends'))
  BY <1>1, <1>3, <1>6
<1>8. ExecInv'
  BY <1>2, <1>3, <1>4, <1>5, <1>7 DEF ExecInv
<1> QED BY <1>2, <1>3, <1>8

\* A transaction whose turn it is, is executed.
LEMMA ChainGrows ==
    ASSUME ExecInv, NEW t \in AnyTx,
           ~t.pri => t.n = NonceAt(t.acc, Len(exec)),
           exec' = Append(exec, t), UNCHANGED <<ends, sealed, parts, batched>>
    PROVE  /\ ExecInv' /\ Len(exec') = Len(exec) + 1 /\ exec'[Len(exec) + 1] = t
           /\ \A i \in 1 .. Len(exec) : exec'[i] = exec[i]
<1>1. /\ Len(exec) \in Nat /\ DOMAIN exec = 1 .. Len(exec) /\ exec \in Seq(AnyTx)
      /\ Len(ends) \in Nat /\ \A b \in 1 .. Len(ends) : ends[b] \in Nat
  BY SMTT(30), ChainTypes DEF ExecInv
<1>2. /\ exec' \in Seq(AnyTx) /\ Len(exec') = Len(exec) + 1 /\ DOMAIN exec' = 1 .. Len(exec) + 1
      /\ exec'[Len(exec) + 1] = t /\ \A i \in 1 .. Len(exec) : exec'[i] = exec[i]
  BY <1>1
<1>3. \A k \in 0 .. Len(exec) : \A a : NonceAt(a, k)' = NonceAt(a, k)
  BY <1>1, <1>2, SameCounts
<1>4. ASSUME NEW i \in DOMAIN exec'
      PROVE  (~exec[i].pri => exec[i].n = NonceAt(exec[i].acc, i - 1))'
  <2>1. PICK u : u = exec'[i]
    OBVIOUS
  <2>2. i - 1 \in 0 .. Len(exec)
    BY <1>1, <1>2
  <2>3. ~u.pri => u.n = NonceAt(u.acc, i - 1)
    <3>1. CASE i = Len(exec) + 1
      <4>1. i - 1 = Len(exec) /\ u = t
        BY <1>1, <1>2, <2>1, <3>1
      <4> QED BY <4>1
    <3>2. CASE i # Len(exec) + 1
      <4>1. i \in DOMAIN exec /\ u = exec[i]
        BY <1>1, <1>2, <2>1, <3>2
      <4> QED BY <4>1 DEF ExecInv
    <3> QED BY <3>1, <3>2
  <2>4. NonceAt(u.acc, i - 1)' = NonceAt(u.acc, i - 1)
    BY <1>3, <2>2
  <2>5. NonceAt(exec[i].acc, i - 1)' = NonceAt(u.acc, i - 1)'
    BY <2>1 DEF NonceAt
  <2> QED BY <2>1, <2>3, <2>4, <2>5
<1>5. \A b, c \in 1 .. Len(ends) : b <= c => ends[b] <= ends[c] /\ ends[c] <= Len(exec')
  BY <1>1, <1>2 DEF ExecInv
<1>6. ExecInv'
  BY <1>2, <1>4, <1>5 DEF ExecInv
<1> QED BY <1>2, <1>6

\* The open block is closed.
LEMMA BlockCloses ==
    ASSUME ExecInv, ends' = Append(ends, Len(exec)), Len(ends) - sealed <= QueueCap,
           UNCHANGED <<exec, sealed, parts, batched>>
    PROVE  ExecInv' /\ Len(ends') = Len(ends) + 1 /\ \A b \in 1 .. Len(ends) : ends'[b] = ends[b]
<1>1. /\ Len(exec) \in Nat /\ Len(ends) \in Nat /\ ends \in Seq(Nat)
      /\ sealed \in Nat /\ sealed <= Len(ends) /\ QueueCap \in Nat
  BY ChainTypes, Constants DEF ExecInv
<1>2. /\ ends' \in Seq(Nat) /\ Len(ends') = Len(ends) + 1 /\ ends'[Len(ends) + 1] = Len(exec)
      /\ \A b \in 1 .. Len(ends) : ends'[b] = ends[b]
  BY <1>1
<1>3. ASSUME NEW b \in 1 .. Len(ends'), NEW c \in 1 .. Len(ends'), b <= c
      PROVE  ends'[b] <= ends'[c] /\ ends'[c] <= Len(exec)
  <2>1. \A d \in 1 .. Len(ends) : ends[d] <= Len(exec)
    BY <1>1 DEF ExecInv
  <2>2. CASE c = Len(ends) + 1
    <3>1. b \in 1 .. Len(ends) \/ b = Len(ends) + 1
      BY <1>1, <1>2
    <3> QED BY <1>1, <1>2, <2>1, <2>2, <3>1
  <2>3. CASE c # Len(ends) + 1
    <3>1. b \in 1 .. Len(ends) /\ c \in 1 .. Len(ends)
      BY <1>1, <1>2, <1>3, <2>3
    <3> QED BY <1>2, <1>3, <3>1 DEF ExecInv
  <2> QED BY <2>2, <2>3
<1>4. /\ Len(ends') - sealed <= QueueCap + 1 /\ sealed <= Len(ends') /\ (parts # {} => sealed < Len(ends'))
  BY <1>1, <1>2 DEF ExecInv
<1>5. \A k : OpIds(k)' = OpIds(k) /\ \A a : NonceAt(a, k)' = NonceAt(a, k)
  BY DEF OpIds, NonceAt
<1>6. ExecInv'
  BY <1>2, <1>3, <1>4, <1>5 DEF ExecInv
<1> QED BY <1>2, <1>6

\* The sealer's steps: a part of the next block, or its header.
LEMMA SealerKeeps ==
    ASSUME ExecInv, UNCHANGED <<exec, ends>>, sealed' \in Nat, sealed <= sealed',
           batched' \in Nat, batched' <= sealed', sealed' <= Len(ends),
           parts' \subseteq {"txs", "logs"}, parts' # {} => sealed' < Len(ends)
    PROVE  /\ ExecInv'
           /\ \A b : EndOf(b)' = EndOf(b) /\ BlockTxs(b)' = BlockTxs(b)
           /\ \A k : OpIds(k)' = OpIds(k)
<1>1. \A b : EndOf(b)' = EndOf(b)
  BY DEF EndOf
<1>2. \A b : BlockTxs(b)' = BlockTxs(b)
  BY <1>1 DEF BlockTxs
<1>3. \A k : OpIds(k)' = OpIds(k) /\ \A a : NonceAt(a, k)' = NonceAt(a, k)
  BY DEF OpIds, NonceAt
<1>4. Len(ends) - sealed' <= QueueCap + 1
  BY ChainTypes, Constants DEF ExecInv
<1>5. ExecInv'
  BY <1>3, <1>4 DEF ExecInv
<1> QED BY <1>1, <1>2, <1>3, <1>5

-----------------------------------------------------------------------------
(* The order of operations under the steps.                                *)

\* What was executed in order stays so when the chain is cut.
LEMMA OrderCut ==
    ASSUME ExecInv, ExecInv', PriorityInOrder, Len(exec') <= Len(exec),
           \A i \in 1 .. Len(exec') : exec'[i] = exec[i], deleted \subseteq deleted'
    PROVE  PriorityInOrder'
<1>1. /\ Len(exec) \in Nat /\ DOMAIN exec = 1 .. Len(exec)
      /\ Len(exec') \in Nat /\ DOMAIN exec' = 1 .. Len(exec')
  BY DEF ExecInv
<1>2. ASSUME NEW i \in 1 .. Len(exec')
      PROVE  i \in DOMAIN exec /\ exec'[i] = exec[i] /\ \A j \in 1 .. i - 1 : exec'[j] = exec[j]
  BY <1>1
<1>3. \A t : Key(t)' = Key(t)
  BY DEF Key
<1> SUFFICES ASSUME NEW i \in 1 .. Len(exec'), exec'[i].pri
             PROVE  /\ exec'[i].n > 0 => \E j \in 1 .. i - 1 : exec'[j].pri /\ exec'[j].n = exec'[i].n - 1
                    /\ \A j \in 1 .. i - 1 : Key(exec'[j]) = Key(exec'[i]) => Key(exec'[i]) \in deleted'
  BY <1>1, <1>3 DEF PriorityInOrder, Key
<1>4. /\ exec[i].n > 0 => \E j \in 1 .. i - 1 : exec[j].pri /\ exec[j].n = exec[i].n - 1
      /\ \A j \in 1 .. i - 1 : Key(exec[j]) = Key(exec[i]) => Key(exec[i]) \in deleted
  BY <1>2 DEF PriorityInOrder
<1> QED BY <1>2, <1>4

\* It is still the same operation's turn.
LEMMA TurnSame ==
    ASSUME ExecInv, ExecInv', OrderInv, exec' = exec, deleted \subseteq deleted', TurnId' = TurnId,
           OpRuns' => store'.nextId = keeper'.cur.n + 1,
           keeper'.pc = "start" <=> keeper.pc = "start",
           keeper.pc = "start" => EndOf(sealed)' = EndOf(sealed)
    PROVE  OrderInv'
<1>1. PriorityInOrder'
  BY ChainTypes, OrderCut DEF OrderInv
<1>2. PICK k : k = IF keeper.pc = "start" THEN EndOf(sealed) ELSE Len(exec)
  OBVIOUS
<1>3. (IF keeper.pc = "start" THEN EndOf(sealed) ELSE Len(exec))' = k
  BY <1>2
<1>4. IsTurn(TurnId, OpIds(k))
  BY <1>2 DEF OrderInv
<1>5. OpIds(k)' = OpIds(k)
  BY DEF OpIds
<1>6. IsTurn(TurnId, OpIds(k))'
  BY <1>4, <1>5 DEF IsTurn
<1>7. OpIds(IF keeper.pc = "start" THEN EndOf(sealed) ELSE Len(exec))' = OpIds(k)'
  BY <1>3 DEF OpIds
<1>8. IsTurn(TurnId, OpIds(IF keeper.pc = "start" THEN EndOf(sealed) ELSE Len(exec)))'
  BY <1>6, <1>7 DEF IsTurn
<1> QED BY <1>1, <1>8 DEF OrderInv

\* A step that leaves the operations alone.
LEMMA OrderSame ==
    ASSUME ExecInv, ExecInv', OrderInv, exec' = exec, deleted \subseteq deleted',
           store'.nextId = store.nextId,
           \/ keeper' = keeper
           \/ keeper.pc \notin {"start", "executing"} /\ keeper'.pc \notin {"start", "executing"},
           keeper.pc = "start" => EndOf(sealed)' = EndOf(sealed)
    PROVE  OrderInv'
<1>1. TurnId' = TurnId /\ (keeper'.pc = "start" <=> keeper.pc = "start")
  BY DEF TurnId, OpRuns
<1>2. OpRuns' => store'.nextId = keeper'.cur.n + 1
  BY DEF OrderInv, OpRuns
<1> QED BY <1>1, <1>2, TurnSame

\* The operation whose turn it is, is executed.
LEMMA OrderGrows ==
    ASSUME ExecInv, ExecInv', PriorityInOrder, NEW t \in AnyTx, t.pri,
           IsTurn(t.n, OpIds(Len(exec))), deleted' = deleted,
           Len(exec') = Len(exec) + 1, exec'[Len(exec) + 1] = t,
           \A i \in 1 .. Len(exec) : exec'[i] = exec[i]
    PROVE  PriorityInOrder' /\ IsTurn(t.n + 1, OpIds(Len(exec)))'
<1>1. PICK n \in Nat : n = Len(exec)
  BY ChainTypes
<1>2. /\ DOMAIN exec = 1 .. n /\ DOMAIN exec' = 1 .. n + 1 /\ exec'[n + 1] = t
      /\ \A i \in 1 .. n : exec'[i] = exec[i] /\ exec[i] \in AnyTx
  BY <1>1, ChainTypes DEF ExecInv
<1>3. t.n \in Nat /\ Key(t) = <<"l1", t.n>>
  BY TxFields DEF Key
<1>4. /\ t.n > 0 => t.n - 1 \in OpIds(n)
      /\ \A v \in OpIds(n) : v >= t.n => <<"l1", v>> \in deleted
  BY <1>1 DEF IsTurn
<1>5. ASSUME NEW i \in 1 .. n + 1, exec'[i].pri
      PROVE  /\ exec'[i].n > 0 => \E j \in 1 .. i - 1 : exec'[j].pri /\ exec'[j].n = exec'[i].n - 1
             /\ \A j \in 1 .. i - 1 : Key(exec'[j]) = Key(exec'[i]) => Key(exec'[i]) \in deleted
  <2>1. CASE i = n + 1
    <3>1. exec'[i] = t /\ \A j \in 1 .. i - 1 : j \in 1 .. n /\ exec'[j] = exec[j]
      BY <1>2, <2>1
    <3>2. ASSUME t.n > 0 PROVE \E j \in 1 .. i - 1 : exec'[j].pri /\ exec'[j].n = t.n - 1
      <4>1. PICK j \in 1 .. n : exec[j].pri /\ exec[j].n = t.n - 1
        BY <1>4, <3>2 DEF OpIds
      <4>2. j \in 1 .. i - 1 /\ exec'[j] = exec[j]
        BY <1>2, <2>1
      <4> QED BY <4>1, <4>2
    <3>3. ASSUME NEW j \in 1 .. i - 1, Key(exec'[j]) = Key(t) PROVE Key(t) \in deleted
      <4>1. j \in 1 .. n /\ exec'[j] = exec[j] /\ exec[j] \in AnyTx
        BY <1>2, <3>1
      <4>2. exec[j].pri /\ exec[j].n = t.n
        BY <3>3, <4>1, SameKey
      <4>3. t.n \in OpIds(n)
        BY <4>1, <4>2 DEF OpIds
      <4> QED BY <1>3, <1>4, <4>3
    <3> QED BY <3>1, <3>2, <3>3
  <2>2. CASE i # n + 1
    <3>1. i \in DOMAIN exec /\ exec'[i] = exec[i] /\ \A j \in 1 .. i - 1 : exec'[j] = exec[j]
      BY <1>2, <2>2
    <3>2. /\ exec[i].n > 0 => \E j \in 1 .. i - 1 : exec[j].pri /\ exec[j].n = exec[i].n - 1
          /\ \A j \in 1 .. i - 1 : Key(exec[j]) = Key(exec[i]) => Key(exec[i]) \in deleted
      BY <1>5, <3>1 DEF PriorityInOrder
    <3> QED BY <3>1, <3>2
  <2> QED BY <2>1, <2>2
<1>6. PriorityInOrder'
  BY <1>2, <1>5 DEF PriorityInOrder, Key
<1>7. OpIds(Len(exec))' = OpIds(n) \cup {t.n}
  <2>1. OpIds(n + 1)' = OpIds(n) \cup {t.n}
    BY <1>2, NextIds
  <2>2. OpIds(Len(exec))' = OpIds(n + 1)'
    BY <1>1 DEF OpIds
  <2> QED BY <2>1, <2>2
<1>8. \A v \in OpIds(n) : v \in Nat
  BY <1>2, TxFields DEF OpIds
<1>9. \A v \in OpIds(n) \cup {t.n} : v >= t.n + 1 => <<"l1", v>> \in deleted
  BY <1>3, <1>4, <1>8
<1>10. t.n + 1 \in Nat /\ t.n + 1 - 1 = t.n
  BY <1>3
<1>11. IsTurn(t.n + 1, OpIds(Len(exec)))'
  BY <1>7, <1>9, <1>10 DEF IsTurn
<1> QED BY <1>6, <1>11

\* An L2 transaction is executed.
LEMMA L2Grows ==
    ASSUME ExecInv, ExecInv', PriorityInOrder, deleted' = deleted,
           Len(exec') = Len(exec) + 1, ~exec'[Len(exec) + 1].pri,
           \A i \in 1 .. Len(exec) : exec'[i] = exec[i]
    PROVE  PriorityInOrder'
<1>1. /\ Len(exec) \in Nat /\ DOMAIN exec = 1 .. Len(exec) /\ DOMAIN exec' = 1 .. Len(exec) + 1
  BY ChainTypes DEF ExecInv
<1> SUFFICES ASSUME NEW i \in DOMAIN exec', exec'[i].pri
             PROVE  /\ exec'[i].n > 0 => \E j \in 1 .. i - 1 : exec'[j].pri /\ exec'[j].n = exec'[i].n - 1
                    /\ \A j \in 1 .. i - 1 : Key(exec'[j]) = Key(exec'[i]) => Key(exec'[i]) \in deleted
  BY DEF PriorityInOrder, Key
<1>2. i \in DOMAIN exec /\ exec'[i] = exec[i] /\ \A j \in 1 .. i - 1 : exec'[j] = exec[j]
  BY <1>1
<1>3. /\ exec[i].n > 0 => \E j \in 1 .. i - 1 : exec[j].pri /\ exec[j].n = exec[i].n - 1
      /\ \A j \in 1 .. i - 1 : Key(exec[j]) = Key(exec[i]) => Key(exec[i]) \in deleted
  BY <1>2 DEF PriorityInOrder
<1> QED BY <1>2, <1>3

-----------------------------------------------------------------------------
(* The table under the steps.                                              *)

\* A transaction stays traced when the deletion of every row that goes is recorded.
LEMMA TracedKept ==
    ASSUME deleted \subseteq deleted', \A k \in DOMAIN rows : k \in DOMAIN rows' \/ k \in deleted'
    PROVE  \A t : Traced(t) => Traced(t)'
  BY DEF Traced, Key

\* The rows of marked blocks are kept, up to recorded deletions, and no other row
\* is marked.
LEMMA RowsKept ==
    ASSUME ExecInv, RowTypes, RowsInv, Marked' = Marked, batched' \in {batched, Marked},
           \A b \in 1 .. Marked : BlockTxs(b)' = BlockTxs(b),
           deleted \subseteq deleted',
           \A k \in DOMAIN rows' : rows'[k].blk # 0 =>
                k \in DOMAIN rows /\ rows'[k].tx = rows[k].tx /\ rows'[k].blk = rows[k].blk,
           \A k \in DOMAIN rows : rows[k].blk # 0 =>
                \/ /\ k \in DOMAIN rows' /\ rows'[k].tx = rows[k].tx /\ rows'[k].blk = rows[k].blk
                   /\ rows'[k].bat = rows[k].bat \/ batched' = Marked
                \/ k \in deleted'
    PROVE  RowsInv'
<1>0. Marked \in Nat /\ batched \in Nat
  BY ChainTypes
<1>1. ASSUME NEW k \in DOMAIN rows', rows'[k].blk # 0
      PROVE  rows'[k].blk <= Marked' /\ (rows[k].tx \in BlockTxs(rows[k].blk))'
  <2>1. k \in DOMAIN rows /\ rows'[k].tx = rows[k].tx /\ rows'[k].blk = rows[k].blk
    BY <1>1
  <2>2. rows[k].blk <= Marked /\ rows[k].tx \in BlockTxs(rows[k].blk) /\ rows[k].blk \in Nat
    BY <1>1, <2>1 DEF RowsInv, RowTypes, Row
  <2>3. PICK b : b = rows[k].blk
    OBVIOUS
  <2>4. b \in 1 .. Marked
    BY <1>0, <1>1, <2>1, <2>2, <2>3
  <2>5. BlockTxs(rows[k].blk)' = BlockTxs(b)'
    BY <2>1, <2>3 DEF BlockTxs, EndOf
  <2> QED BY <2>1, <2>2, <2>3, <2>4, <2>5
<1>2. ASSUME NEW b \in 1 .. Marked, NEW t \in BlockTxs(b)
      PROVE  /\ t.pri /\ Key(t) \notin deleted' => Key(t) \in DOMAIN rows' /\ rows'[Key(t)].blk = b
             /\ b > batched' => HasRow(t, b)' \/ Key(t) \in deleted'
  <2>1. /\ t.pri /\ Key(t) \notin deleted => Key(t) \in DOMAIN rows /\ rows[Key(t)].blk = b
        /\ b > batched => HasRow(t, b) \/ Key(t) \in deleted
    BY DEF RowsInv
  <2>2. ASSUME t.pri, Key(t) \notin deleted' PROVE Key(t) \in DOMAIN rows' /\ rows'[Key(t)].blk = b
    <3>1. Key(t) \in DOMAIN rows /\ rows[Key(t)].blk = b /\ b # 0
      BY <1>0, <2>1, <2>2
    <3> QED BY <2>2, <3>1
  <2>3. ASSUME b > batched' PROVE HasRow(t, b)' \/ Key(t) \in deleted'
    <3>1. batched' = batched /\ b > batched /\ batched' # Marked
      BY <1>0, <2>3
    <3>2. CASE HasRow(t, b)
      <4>1. Key(t) \in DOMAIN rows /\ rows[Key(t)].tx = t /\ rows[Key(t)].blk = b /\ ~rows[Key(t)].bat /\ b # 0
        BY <1>0, <3>2 DEF HasRow
      <4>2. CASE /\ Key(t) \in DOMAIN rows' /\ rows'[Key(t)].tx = t /\ rows'[Key(t)].blk = b
                 /\ rows'[Key(t)].bat = rows[Key(t)].bat
        BY <4>1, <4>2 DEF HasRow, Key
      <4>3. CASE Key(t) \in deleted'
        BY <4>3
      <4> QED BY <3>1, <4>1, <4>2, <4>3
    <3>3. CASE ~HasRow(t, b)
      BY <2>1, <3>1, <3>3
    <3> QED BY <3>2, <3>3
  <2> QED BY <2>2, <2>3
<1>3. \A b \in 1 .. Marked' : b \in 1 .. Marked /\ BlockTxs(b)' = BlockTxs(b)
  OBVIOUS
<1>4. \A t : Key(t)' = Key(t)
  BY DEF Key
<1> QED BY <1>1, <1>2, <1>3, <1>4 DEF RowsInv

-----------------------------------------------------------------------------
(* The steps: what they leave alone.                                       *)

\* A step that leaves the table alone.
LEMMA TableSame ==
    ASSUME RowTypes, UNCHANGED <<rows, clock, ops, deleted>>
    PROVE  /\ RowTypes' /\ \A t : Traced(t) => Traced(t)'
           /\ ExecInv /\ RowsInv /\ Marked' = Marked /\ batched' = batched
                /\ (\A b \in 1 .. Marked : BlockTxs(b)' = BlockTxs(b)) => RowsInv'
<1>1. RowTypes' /\ \A t : Traced(t) => Traced(t)'
  BY DEF RowTypes, Traced
<1>2. ASSUME ExecInv, RowsInv, Marked' = Marked, batched' = batched,
             \A b \in 1 .. Marked : BlockTxs(b)' = BlockTxs(b)
      PROVE  RowsInv'
  BY <1>2, RowsKept
<1> QED BY <1>1, <1>2

\* Executed transactions stay traced.
LEMMA UnmarkedKept ==
    ASSUME ExecInv, UnmarkedInv, exec' = exec,
           \A t \in AnyTx : Traced(t) => Traced(t)',
           EndOf(Marked)' \in Nat, EndOf(Marked) <= EndOf(Marked)',
           keeper'.pc # "start" => keeper.pc # "start"
    PROVE  UnmarkedInv'
<1> SUFFICES ASSUME keeper'.pc # "start", NEW i \in EndOf(Marked)' + 1 .. Len(exec')
             PROVE  Traced(exec[i])'
  BY DEF UnmarkedInv
<1>1. Marked \in 0 .. Len(ends) /\ Len(exec) \in Nat
  BY ChainTypes
<1>2. EndOf(Marked) \in Nat
  BY <1>1, ChainTypes
<1>3. i \in EndOf(Marked) + 1 .. Len(exec) /\ i \in 1 .. Len(exec)
  BY <1>1, <1>2
<1>4. Traced(exec[i]) /\ exec[i] \in AnyTx
  BY <1>3, ChainTypes DEF UnmarkedInv
<1>5. PICK t \in AnyTx : t = exec[i]
  BY <1>4
<1>6. Traced(t)'
  BY <1>4, <1>5
<1> QED BY <1>5, <1>6 DEF Traced

\* A step that leaves the mempool alone.
LEMMA StoreSame ==
    ASSUME StoreInv, UNCHANGED <<store, overtaken>>, \A t \in AnyTx : Traced(t) => Traced(t)'
    PROVE  StoreInv'
<1>1. ASSUME NEW t \in store.l1 \cup HeldTxs(store) PROVE Traced(t)'
  <2>1. t \in AnyTx /\ Traced(t)
    BY StoreFields DEF StoreInv, HeldTxs, AnyTx
  <2> QED BY <2>1
<1>2. HeldTxs(store') = HeldTxs(store)
  BY DEF HeldTxs
<1>3. store' \in Store /\ AccountsInv(store') /\ QueueInv(store', overtaken')
  BY DEF StoreInv
<1>4. AccountsInv(store)' /\ QueueInv(store, overtaken)' /\ HeldTxs(store)' = HeldTxs(store)
  BY <1>3, <1>2
<1> QED BY <1>1, <1>3, <1>4 DEF StoreInv

\* A step that leaves the mempool and the state keeper alone.
LEMMA MempoolSame ==
    ASSUME IInv, UNCHANGED <<store, keeper, crashes, overtaken>>,
           \A t \in AnyTx : Traced(t) => Traced(t)'
    PROVE  StoreInv' /\ KeeperTypes' /\ CurInv'
<1>1. StoreInv'
  BY StoreSame DEF IInv
<1>2. KeeperTypes'
  BY DEF IInv, KeeperTypes
<1>3. CurInv'
  <2> SUFFICES ASSUME keeper.pc = "executing"
               PROVE  CurInv'
    BY DEF CurInv
  <2>1. keeper.cur \in AnyTx /\ Traced(keeper.cur)
    BY DEF IInv, CurInv
  <2>2. PICK t \in AnyTx : t = keeper.cur
    BY <2>1
  <2>3. Traced(t)'
    BY <2>1, <2>2
  <2>4. Traced(keeper.cur)'
    BY <2>2, <2>3 DEF Traced
  <2> QED BY <2>1, <2>4 DEF IInv, CurInv
<1> QED BY <1>1, <1>2, <1>3

\* A step of the table's writers or the fetcher that leaves mempool, state keeper
\* and chain alone.
LEMMA OthersSame ==
    ASSUME IInv, UNCHANGED <<store, keeper, chain, crashes, overtaken>>, deleted \subseteq deleted',
           \A t \in AnyTx : Traced(t) => Traced(t)'
    PROVE  /\ ExecInv' /\ UnmarkedInv' /\ StoreInv' /\ KeeperTypes' /\ CurInv' /\ OrderInv'
           /\ Marked' = Marked /\ batched' = batched
           /\ \A b \in 1 .. Marked : BlockTxs(b)' = BlockTxs(b)
<1>1. /\ ExecInv' /\ Marked' = Marked
      /\ \A b : EndOf(b)' = EndOf(b) /\ BlockTxs(b)' = BlockTxs(b)
      /\ \A k : OpIds(k)' = OpIds(k)
  BY ChainSame DEF IInv
<1>2. exec' = exec /\ ends' = ends /\ sealed' = sealed /\ batched' = batched
  BY DEF chain
<1>3. EndOf(Marked)' = EndOf(Marked) /\ EndOf(Marked) \in Nat
  <2>1. Marked \in 0 .. Len(ends)
    BY ChainTypes DEF IInv
  <2>2. EndOf(Marked) \in Nat
    BY <2>1, ChainTypes DEF IInv
  <2> QED BY <1>1, <1>2, <2>2 DEF EndOf
<1>4. UnmarkedInv'
  BY <1>2, <1>3, UnmarkedKept DEF IInv
<1>5. StoreInv' /\ KeeperTypes' /\ CurInv'
  BY MempoolSame
<1>6. OrderInv'
  <2>1. EndOf(sealed)' = EndOf(sealed)
    BY <1>2 DEF EndOf
  <2> QED BY <1>1, <1>2, <2>1, OrderSame DEF IInv
<1> QED BY <1>1, <1>2, <1>4, <1>5, <1>6

\* The fetcher's copies are kept as long as no row goes.
LEMMA FetchSame ==
    ASSUME FetchInv, fetch' = fetch, DOMAIN rows \subseteq DOMAIN rows'
    PROVE  FetchInv'
  BY DEF FetchInv

-----------------------------------------------------------------------------
(* Steps of the table's writers and the fetcher.                           *)

\* A row from its fields.
LEMMA RowFields ==
    /\ \A r \in Row : /\ r.tx \in AnyTx /\ r.blk \in Nat /\ r.mp \in BOOLEAN /\ r.bat \in BOOLEAN
                      /\ r.err \in BOOLEAN
    /\ \A tx \in AnyTx, mp \in BOOLEAN, blk \in Nat, bat \in BOOLEAN, err \in BOOLEAN :
        [tx |-> tx, mp |-> mp, blk |-> blk, bat |-> bat, err |-> err] \in Row
  BY DEF Row

\* A stored or replaced transaction.
LEMMA PutRow ==
    ASSUME RowTypes, NEW tx \in AnyTx, tx.pri => tx.n < ops', ops \in Nat, ops' \in Nat, ops <= ops',
           clock' \in Nat, ops' \in 0 .. Len(OpFrom), clock' + ops' <= MaxTxs,
           Key(tx) \in DOMAIN rows => rows[Key(tx)].blk = 0,
           rows' = Put(rows, Key(tx), NewRow(tx))
    PROVE  /\ RowTypes' /\ DOMAIN rows \subseteq DOMAIN rows'
           /\ \A k \in DOMAIN rows' : rows'[k].blk # 0 => k \in DOMAIN rows /\ rows'[k] = rows[k]
           /\ \A k \in DOMAIN rows : rows[k].blk # 0 => k \in DOMAIN rows' /\ rows'[k] = rows[k]
<1>1. /\ DOMAIN rows' = DOMAIN rows \cup {Key(tx)} /\ rows'[Key(tx)] = NewRow(tx)
      /\ \A k \in DOMAIN rows : k # Key(tx) => rows'[k] = rows[k]
  BY DEF Put
<1>2. NewRow(tx) \in Row /\ NewRow(tx).tx = tx /\ NewRow(tx).blk = 0
  BY RowFields DEF NewRow
<1>3. IsFiniteSet(DOMAIN rows')
  BY <1>1, FS_AddElement DEF RowTypes
<1>4. ASSUME NEW k \in DOMAIN rows'
      PROVE  rows'[k] \in Row /\ Key(rows'[k].tx) = k /\ (rows'[k].tx.pri => rows'[k].tx.n < ops')
  <2>1. CASE k = Key(tx)
    BY <1>1, <1>2, <2>1
  <2>2. CASE k # Key(tx)
    <3>1. k \in DOMAIN rows /\ rows'[k] = rows[k]
      BY <1>1, <2>2
    <3>2. rows[k] \in Row /\ Key(rows[k].tx) = k /\ (rows[k].tx.pri => rows[k].tx.n < ops)
      BY <3>1 DEF RowTypes
    <3>3. rows[k].tx.n \in Nat
      BY <3>2, RowFields, TxFields
    <3> QED BY <3>1, <3>2, <3>3
  <2> QED BY <2>1, <2>2
<1>5. RowTypes'
  <2>1. \A k \in DOMAIN rows' : Key(rows[k].tx)' = Key(rows'[k].tx)
    BY DEF Key
  <2> QED BY <1>3, <1>4, <2>1 DEF RowTypes
<1> QED BY <1>1, <1>2, <1>5

\* What both writers leave behind.
LEMMA WriterKeeps ==
    ASSUME IInv, RowTypes', DOMAIN rows \subseteq DOMAIN rows',
           \A k \in DOMAIN rows' : rows'[k].blk # 0 => k \in DOMAIN rows /\ rows'[k] = rows[k],
           \A k \in DOMAIN rows : rows[k].blk # 0 => k \in DOMAIN rows' /\ rows'[k] = rows[k],
           UNCHANGED <<store, fetch, keeper, chain, crashes, history>>
    PROVE  IInv'
<1>1. deleted' = deleted /\ overtaken' = overtaken /\ fetch' = fetch
  BY DEF history
<1>2. \A t \in AnyTx : Traced(t) => Traced(t)'
  BY <1>1 DEF Traced
<1>3. /\ ExecInv' /\ UnmarkedInv' /\ StoreInv' /\ KeeperTypes' /\ CurInv' /\ OrderInv'
      /\ Marked' = Marked /\ batched' = batched
      /\ \A b \in 1 .. Marked : BlockTxs(b)' = BlockTxs(b)
  BY <1>1, <1>2, OthersSame
<1>4. RowsInv'
  BY <1>1, <1>3, RowsKept DEF IInv
<1>5. FetchInv'
  BY <1>1, FetchSame DEF IInv
<1>6. FreshInv'
  BY <1>1 DEF IInv, FreshInv, chain, EndOf
<1> QED BY <1>3, <1>4, <1>5, <1>6 DEF IInv

\* The API server stores a transaction.
LEMMA InsertL2Step ==
    ASSUME IInv, NEW o \in Offers, insert_transaction_l2(o[1], o[2], o[3])
    PROVE  IInv'
<1>1. o[1] \in Accounts /\ o[2] \in Nat /\ o[3] \in Nat
  BY Constants
<1>2. clock \in Nat /\ ops \in Nat /\ ops \in 0 .. Len(OpFrom) /\ Len(OpFrom) \in Nat /\ MaxTxs \in Nat
  BY Constants DEF IInv, RowTypes
<1> DEFINE tx == [pri |-> FALSE, acc |-> o[1], n |-> o[2], fee |-> o[3], at |-> clock + 1]
<1>3. tx \in AnyTx /\ ~tx.pri
  BY <1>1, <1>2 DEF AnyTx, L2Tx, Tx
<1>4. /\ clock + ops < MaxTxs /\ clock' = clock + 1 /\ ops' = ops
      /\ Key(tx) \in DOMAIN rows => rows[Key(tx)].blk = 0
      /\ rows' = Put(rows, Key(tx), NewRow(tx))
      /\ UNCHANGED <<store, fetch, keeper, chain, crashes, history>>
  BY DEF insert_transaction_l2
<1> HIDE DEF tx
<1>5. ops' \in Nat /\ ops <= ops' /\ clock' \in Nat /\ clock' + ops' <= MaxTxs /\ ops' \in 0 .. Len(OpFrom)
  BY <1>2, <1>4
<1>6. /\ RowTypes' /\ DOMAIN rows \subseteq DOMAIN rows'
      /\ \A k \in DOMAIN rows' : rows'[k].blk # 0 => k \in DOMAIN rows /\ rows'[k] = rows[k]
      /\ \A k \in DOMAIN rows : rows[k].blk # 0 => k \in DOMAIN rows' /\ rows'[k] = rows[k]
  BY <1>2, <1>3, <1>4, <1>5, PutRow DEF IInv
<1> QED BY <1>4, <1>6, WriterKeeps

\* The Ethereum watcher stores a priority operation.
LEMMA InsertL1Step ==
    ASSUME IInv, insert_transaction_l1
    PROVE  IInv'
<1>1. clock \in Nat /\ ops \in Nat /\ ops \in 0 .. Len(OpFrom) /\ Len(OpFrom) \in Nat /\ MaxTxs \in Nat
  BY Constants DEF IInv, RowTypes
<1> DEFINE tx == [pri |-> TRUE, acc |-> OpFrom[ops + 1], n |-> ops, fee |-> 0, at |-> 0]
<1>2. /\ ops < Len(OpFrom) /\ clock + ops < MaxTxs /\ clock' = clock /\ ops' = ops + 1
      /\ rows' = Put(rows, Key(tx), NewRow(tx))
      /\ UNCHANGED <<store, fetch, keeper, chain, crashes, history>>
  BY DEF insert_transaction_l1
<1>3. tx \in AnyTx /\ tx.n = ops
  <2>1. ops + 1 \in DOMAIN OpFrom
    BY <1>1, <1>2, Constants
  <2> QED BY <1>1, <2>1 DEF AnyTx, L1Tx, Tx
<1>4. Key(tx) \notin DOMAIN rows
  <2>1. Key(tx) = <<"l1", ops>>
    BY DEF Key
  <2> SUFFICES ASSUME Key(tx) \in DOMAIN rows PROVE FALSE
    OBVIOUS
  <2>2. PICK u : u = rows[Key(tx)].tx
    OBVIOUS
  <2>3. u \in AnyTx /\ Key(u) = Key(tx) /\ (u.pri => u.n < ops)
    BY <2>2, RowFields DEF IInv, RowTypes
  <2> HIDE DEF tx
  <2>4. u.pri = tx.pri /\ u.n = ops
    BY <1>3, <2>3, SameKey
  <2> QED BY <1>1, <2>3, <2>4 DEF tx
<1> HIDE DEF tx
<1>5. /\ ops' \in Nat /\ ops <= ops' /\ clock' \in Nat /\ clock' + ops' <= MaxTxs
      /\ ops' \in 0 .. Len(OpFrom) /\ tx.n < ops'
  BY <1>1, <1>3, <1>2
<1>6. /\ RowTypes' /\ DOMAIN rows \subseteq DOMAIN rows'
      /\ \A k \in DOMAIN rows' : rows'[k].blk # 0 => k \in DOMAIN rows /\ rows'[k] = rows[k]
      /\ \A k \in DOMAIN rows : rows[k].blk # 0 => k \in DOMAIN rows' /\ rows'[k] = rows[k]
  BY <1>1, <1>2, <1>3, <1>4, <1>5, PutRow DEF IInv
<1> QED BY <1>2, <1>6, WriterKeeps

\* The fields of the fetcher's record, and its first value.
LEMMA FetchFields ==
    /\ \A f \in FetchRecord :
        /\ f.stashed \subseteq Accounts /\ f.purged \subseteq Accounts /\ f.txs \subseteq AnyTx
        /\ f.nonces \in [Accounts -> Nat] /\ f.pc \in {"start", "info", "sync", "nonces", "insert"}
    /\ StartFetch \in FetchRecord /\ StartFetch.pc = "start" /\ StartFetch.txs = {}
    /\ [StartFetch EXCEPT !.pc = "info"] \in FetchRecord
    /\ [StartFetch EXCEPT !.pc = "info"].pc = "info" /\ [StartFetch EXCEPT !.pc = "info"].txs = {}
<1>1. [a \in Accounts |-> 0] \in [Accounts -> Nat]
  OBVIOUS
<1> QED BY <1>1 DEF FetchRecord, StartFetch

\* remove_stuck_txs: no transaction is executed or held yet that could need its row.
LEMMA FetcherStartStep ==
    ASSUME IInv, FetcherStart
    PROVE  IInv'
<1>1. PICK t \in 0 .. clock :
        rows' = [k \in DOMAIN rows \ {k \in DOMAIN rows : /\ ~rows[k].tx.pri /\ rows[k].tx.at <= t
                                                         /\ rows[k].blk = 0 /\ ~rows[k].err}
                    |-> [rows[k] EXCEPT !.mp = FALSE]]
  BY DEF FetcherStart
<1>2. /\ fetch.pc = "start" /\ fetch' = [fetch EXCEPT !.pc = "info"]
      /\ clock' = clock /\ ops' = ops /\ store' = store /\ keeper' = keeper /\ UNCHANGED chain
      /\ crashes' = crashes /\ deleted' = deleted /\ overtaken' = overtaken
  BY DEF FetcherStart, history
<1>3. /\ store.l1 = {} /\ store.queue = {} /\ DOMAIN store.acc = {} /\ keeper.pc # "executing"
      /\ keeper.pc # "start" => parts = {} /\ sealed = Len(ends) /\ Len(exec) = EndOf(sealed)
  BY <1>2 DEF IInv, FreshInv
<1>4. /\ DOMAIN rows' \subseteq DOMAIN rows
      /\ \A k \in DOMAIN rows : rows[k].blk # 0 => k \in DOMAIN rows'
      /\ \A k \in DOMAIN rows' : rows'[k] = [rows[k] EXCEPT !.mp = FALSE]
  BY <1>1
<1>5. ASSUME NEW k \in DOMAIN rows'
      PROVE  /\ rows'[k] \in Row /\ rows'[k].tx = rows[k].tx /\ rows'[k].blk = rows[k].blk
             /\ rows'[k].bat = rows[k].bat
  <2>1. rows[k] \in Row /\ rows'[k] = [rows[k] EXCEPT !.mp = FALSE]
    BY <1>4 DEF IInv, RowTypes
  <2> QED BY <2>1 DEF Row
<1>6. RowTypes'
  <2>1. IsFiniteSet(DOMAIN rows')
    BY <1>4, FS_Subset DEF IInv, RowTypes
  <2>2. \A k \in DOMAIN rows' : Key(rows[k].tx)' = Key(rows[k].tx)
    BY <1>5 DEF Key
  <2> QED BY <1>2, <1>4, <1>5, <2>1, <2>2 DEF IInv, RowTypes
<1>7. /\ ExecInv' /\ Marked' = Marked
      /\ \A b : EndOf(b)' = EndOf(b) /\ BlockTxs(b)' = BlockTxs(b)
  BY <1>2, ChainSame DEF IInv
<1>8. exec' = exec /\ ends' = ends /\ sealed' = sealed /\ parts' = parts /\ batched' = batched
  BY <1>2 DEF chain
<1>9. RowsInv'
  BY <1>2, <1>4, <1>5, <1>7, <1>8, RowsKept DEF IInv
<1>10. UnmarkedInv'
  <2> SUFFICES ASSUME keeper.pc # "start" PROVE EndOf(Marked)' + 1 .. Len(exec') = {}
    BY <1>2 DEF UnmarkedInv
  <2>1. Marked = sealed
    BY <1>3 DEF Marked
  <2>2. EndOf(Marked)' = EndOf(sealed)
    BY <1>7, <1>8, <2>1 DEF EndOf
  <2> QED BY <1>3, <1>8, <2>2, ChainTypes DEF IInv
<1>11. StoreInv'
  <2>1. HeldTxs(store) = {} /\ HeldTxs(store)' = {}
    BY <1>2, <1>3 DEF HeldTxs
  <2>2. AccountsInv(store)' /\ QueueInv(store, overtaken)'
    BY <1>2 DEF IInv, StoreInv, AccountsInv, QueueInv, HeldTxs
  <2> QED BY <1>2, <1>3, <2>1, <2>2 DEF IInv, StoreInv
<1>12. fetch' \in FetchRecord /\ fetch'.pc = "info" /\ fetch'.txs = {}
  BY <1>2 DEF IInv, FetchInv, FetchRecord
<1>13. FetchInv' /\ FreshInv'
  BY <1>12, FS_EmptySet DEF FetchInv, FetchRecord, FreshInv
<1>14. KeeperTypes' /\ CurInv'
  BY <1>2, <1>3 DEF IInv, KeeperTypes, CurInv
<1>15. OrderInv'
  <2>1. EndOf(sealed)' = EndOf(sealed)
    BY <1>8 DEF EndOf
  <2> QED BY <1>2, <1>7, <1>8, <2>1, OrderSame DEF IInv
<1> QED BY <1>6, <1>7, <1>9, <1>10, <1>11, <1>13, <1>14, <1>15 DEF IInv

\* The new mempool is as StoreInv asks.
LEMMA StoreChanged ==
    ASSUME store' \in Store, AccountsInv(store'), QueueInv(store', overtaken'),
           \A t \in store'.l1 \cup HeldTxs(store') : Traced(t)'
    PROVE  StoreInv'
<1>1. AccountsInv(store)' /\ QueueInv(store, overtaken)' /\ HeldTxs(store)' = HeldTxs(store')
  OBVIOUS
<1> QED BY <1>1 DEF StoreInv

\* What is in the mempool is traced.
LEMMA HeldTraced ==
    ASSUME StoreInv
    PROVE  /\ \A t \in store.l1 : t \in AnyTx /\ t.pri /\ Traced(t)
           /\ \A t \in HeldTxs(store) : t \in AnyTx /\ ~t.pri /\ Traced(t)
  BY StoreFields DEF StoreInv, HeldTxs, AnyTx, L1Tx, L2Tx

\* A step that leaves the table and the chain alone.
LEMMA RecordsSame ==
    ASSUME IInv, UNCHANGED <<rows, clock, ops, deleted, chain>>,
           keeper'.pc # "start" => keeper.pc # "start"
    PROVE  /\ ExecInv' /\ RowTypes' /\ RowsInv' /\ UnmarkedInv'
           /\ \A t : Traced(t) => Traced(t)'
           /\ exec' = exec /\ ends' = ends /\ sealed' = sealed /\ parts' = parts
           /\ EndOf(sealed)' = EndOf(sealed)
<1>1. RowTypes' /\ \A t : Traced(t) => Traced(t)'
  BY TableSame DEF IInv
<1>2. /\ ExecInv' /\ Marked' = Marked
      /\ \A b : EndOf(b)' = EndOf(b) /\ BlockTxs(b)' = BlockTxs(b)
  BY ChainSame DEF IInv
<1>3. exec' = exec /\ ends' = ends /\ sealed' = sealed /\ parts' = parts /\ batched' = batched
  BY DEF chain
<1>4. RowsInv'
  BY <1>2, <1>3, TableSame DEF IInv
<1>5. UnmarkedInv'
  <2>1. Marked \in 0 .. Len(ends)
    BY ChainTypes DEF IInv
  <2>2. EndOf(Marked) \in Nat /\ EndOf(Marked)' = EndOf(Marked)
    BY <1>2, <1>3, <2>1, ChainTypes DEF IInv, EndOf
  <2> QED BY <1>1, <1>3, <2>2, UnmarkedKept DEF IInv
<1>6. EndOf(sealed)' = EndOf(sealed)
  BY <1>3 DEF EndOf
<1> QED BY <1>1, <1>2, <1>3, <1>4, <1>5, <1>6

\* get_mempool_info: the fetcher learns of stashed and purged accounts.
LEMMA FetchInfoStep ==
    ASSUME IInv, FetchInfo
    PROVE  IInv'
<1>1. /\ fetch.pc = "info" /\ store' = get_mempool_info(store)
      /\ fetch' = [fetch EXCEPT !.pc = "sync", !.stashed = store.stashed, !.purged = gc(store)]
      /\ rows' = rows /\ clock' = clock /\ ops' = ops /\ keeper' = keeper /\ UNCHANGED chain
      /\ crashes' = crashes /\ deleted' = deleted /\ overtaken' = overtaken
  BY DEF FetchInfo, history
<1>2. /\ store \in Store /\ AccountsInv(store) /\ QueueInv(store, overtaken)
      /\ fetch \in FetchRecord /\ fetch.txs = {}
  BY <1>1 DEF IInv, StoreInv, FetchInv
<1>3. /\ store' \in Store /\ AccountsInv(store') /\ QueueInv(store', overtaken)
      /\ store'.l1 = store.l1 /\ store'.nextId = store.nextId /\ HeldTxs(store') \subseteq HeldTxs(store)
      /\ DOMAIN store'.acc \subseteq DOMAIN store.acc
      /\ \A a \in DOMAIN store'.acc : store'.acc[a] = store.acc[a]
      /\ gc(store) \subseteq Accounts
  BY <1>1, <1>2, InfoKeeps
<1>4. /\ ExecInv' /\ RowTypes' /\ RowsInv' /\ UnmarkedInv'
      /\ \A t : Traced(t) => Traced(t)'
      /\ exec' = exec /\ EndOf(sealed)' = EndOf(sealed)
  BY <1>1, RecordsSame
<1>5. StoreInv'
  BY <1>1, <1>3, <1>4, HeldTraced, StoreChanged DEF IInv
<1>6. fetch' \in FetchRecord /\ fetch'.pc = "sync" /\ fetch'.txs = {}
  <2>1. store.stashed \subseteq Accounts
    BY <1>2, StoreFields
  <2> QED BY <1>1, <1>2, <1>3, <2>1 DEF FetchRecord
<1>7. FetchInv' /\ FreshInv'
  BY <1>6, FS_EmptySet DEF FetchInv, FreshInv
<1>8. KeeperTypes'
  BY <1>1 DEF IInv, KeeperTypes
<1>9. CurInv'
  <2>1. Traced(keeper.cur) => Traced(keeper.cur)'
    BY <1>1 DEF Traced
  <2> QED BY <1>1, <1>3, <2>1 DEF IInv, CurInv
<1>10. OrderInv'
  BY <1>1, <1>3, <1>4, OrderSame DEF IInv
<1> QED BY <1>4, <1>5, <1>7, <1>8, <1>9, <1>10 DEF IInv

\* The transactions of finitely many rows.
LEMMA RowTxsFinite ==
    ASSUME NEW S, IsFiniteSet(S), NEW f
    PROVE  IsFiniteSet({f[k].tx : k \in S})
<1> DEFINE T == {f[k].tx : k \in S}
           g == [k \in S |-> f[k].tx]
<1>1. g \in Surjection(S, T)
  BY DEF Surjection
<1> QED BY <1>1, FS_Surjection

\* sync_mempool: released, deleted and taken rows.
LEMMA SyncStep ==
    ASSUME IInv, NEW filter \in Fees, sync_mempool(filter)
    PROVE  IInv'
<1> DEFINE released(k) == rows[k].mp /\ rows[k].tx.acc \in fetch.stashed
           gone == {k \in DOMAIN rows : /\ rows[k].mp /\ ~released(k)
                                        /\ rows[k].tx.acc \in fetch.purged}
           kept == [k \in DOMAIN rows \ gone |-> [rows[k] EXCEPT !.mp = @ /\ ~released(k)]]
           fit == {k \in DOMAIN kept : /\ kept[k].blk = 0 /\ ~kept[k].mp /\ ~kept[k].err
                                       /\ kept[k].tx.pri \/ kept[k].tx.fee >= filter}
           Before(t, u) == \/ t.pri /\ (~u.pri \/ t.n < u.n)
                           \/ ~t.pri /\ ~u.pri /\ t.at < u.at
           taken == {k \in fit : Cardinality({j \in fit : Before(kept[j].tx, kept[k].tx)}) < SyncBatch}
<1>1. /\ fetch.pc = "sync"
      /\ rows' = [k \in DOMAIN kept |-> [kept[k] EXCEPT !.mp = @ \/ k \in taken]]
      /\ fetch' = [fetch EXCEPT !.pc = "nonces", !.txs = {kept[k].tx : k \in taken},
                                !.stashed = {}, !.purged = {}]
      /\ deleted' = deleted \cup gone
      /\ clock' = clock /\ ops' = ops /\ store' = store /\ keeper' = keeper /\ UNCHANGED chain
      /\ crashes' = crashes /\ overtaken' = overtaken
  BY DEF sync_mempool
<1>2. taken \subseteq DOMAIN kept
  OBVIOUS
<1> HIDE DEF taken, fit
<1>3. /\ DOMAIN kept = DOMAIN rows \ gone
      /\ \A k \in DOMAIN kept : kept[k] = [rows[k] EXCEPT !.mp = @ /\ ~released(k)]
  OBVIOUS
<1> HIDE DEF kept
<1>4. fetch \in FetchRecord
  BY DEF IInv, FetchInv
<1> HIDE DEF gone, released
<1>5. ASSUME NEW k \in DOMAIN kept
      PROVE  /\ k \in DOMAIN rows /\ rows'[k] \in Row /\ rows'[k].tx = rows[k].tx
             /\ rows'[k].blk = rows[k].blk /\ rows'[k].bat = rows[k].bat
             /\ kept[k].tx = rows[k].tx
  <2>1. k \in DOMAIN rows /\ rows[k] \in Row
    BY <1>3 DEF IInv, RowTypes
  <2>2. PICK x \in BOOLEAN : x = (rows[k].mp /\ ~released(k))
    OBVIOUS
  <2>3. kept[k] = [rows[k] EXCEPT !.mp = x]
    BY <1>3, <2>2
  <2>4. kept[k] \in Row /\ kept[k].tx = rows[k].tx /\ kept[k].blk = rows[k].blk /\ kept[k].bat = rows[k].bat
    BY <2>1, <2>3 DEF Row
  <2>5. PICK y \in BOOLEAN : y = (kept[k].mp \/ k \in taken)
    OBVIOUS
  <2>6. rows'[k] = [kept[k] EXCEPT !.mp = y]
    BY <1>1, <2>5
  <2>7. rows'[k] \in Row /\ rows'[k].tx = kept[k].tx /\ rows'[k].blk = kept[k].blk /\ rows'[k].bat = kept[k].bat
    BY <2>4, <2>6 DEF Row
  <2> QED BY <2>1, <2>4, <2>7
<1>6. DOMAIN rows' = DOMAIN kept /\ deleted \subseteq deleted'
  BY <1>1
<1>7. RowTypes'
  <2>1. IsFiniteSet(DOMAIN rows')
    BY <1>3, <1>6, FS_Subset DEF IInv, RowTypes
  <2>2. \A k \in DOMAIN rows' : Key(rows[k].tx)' = Key(rows[k].tx)
    BY <1>5, <1>6 DEF Key
  <2> QED BY <1>1, <1>5, <1>6, <2>1, <2>2 DEF IInv, RowTypes
<1>8. \A k \in DOMAIN rows : k \in DOMAIN rows' \/ k \in deleted'
  BY <1>1, <1>3, <1>6
<1>9. \A t \in AnyTx : Traced(t) => Traced(t)'
  BY <1>6, <1>8, TracedKept
<1>10. /\ ExecInv' /\ UnmarkedInv' /\ StoreInv' /\ KeeperTypes' /\ CurInv' /\ OrderInv'
       /\ Marked' = Marked /\ batched' = batched
       /\ \A b \in 1 .. Marked : BlockTxs(b)' = BlockTxs(b)
  BY <1>1, <1>6, <1>9, OthersSame
<1>11. RowsInv'
  BY <1>5, <1>6, <1>8, <1>10, RowsKept DEF IInv
<1>12. /\ fetch'.txs = {kept[k].tx : k \in taken} /\ fetch'.pc = "nonces" /\ fetch' \in FetchRecord
  <2> DEFINE txs == {kept[k].tx : k \in taken}
  <2>1. txs \subseteq AnyTx
    BY <1>2, <1>5, RowFields DEF IInv, RowTypes
  <2>2. fetch' = [fetch EXCEPT !.pc = "nonces", !.txs = txs, !.stashed = {}, !.purged = {}]
    BY <1>1
  <2> HIDE DEF txs
  <2>3. fetch'.txs = txs /\ fetch'.pc = "nonces" /\ fetch' \in FetchRecord
    BY <1>4, <2>1, <2>2 DEF FetchRecord
  <2> QED BY <2>3 DEF txs
<1>13. IsFiniteSet(fetch'.txs)
  <2>1. IsFiniteSet(taken)
    BY <1>2, <1>3, FS_Subset DEF IInv, RowTypes
  <2> QED BY <1>12, <2>1, RowTxsFinite
<1>14. \A t \in fetch'.txs : Key(t) \in DOMAIN rows' /\ rows'[Key(t)].tx = t
  <2>1. \A k \in taken : k \in DOMAIN rows' /\ rows'[k].tx = kept[k].tx /\ Key(kept[k].tx) = k
    BY <1>2, <1>5, <1>6 DEF IInv, RowTypes
  <2> QED BY <1>12, <2>1
<1>15. FetchInv'
  <2>1. \A t : Key(t)' = Key(t)
    BY DEF Key
  <2> QED BY <1>12, <1>13, <1>14, <2>1 DEF FetchInv
<1>16. FreshInv'
  BY <1>12 DEF FreshInv
<1> QED BY <1>7, <1>10, <1>11, <1>15, <1>16 DEF IInv

\* get_transaction_nonces: nonces of accounts that may be written right now.
LEMMA NoncesStep ==
    ASSUME IInv, get_transaction_nonces
    PROVE  IInv'
<1> DEFINE nonces == [a \in Accounts |-> IF \E t \in fetch.txs : t.acc = a THEN StoredNonce(a) ELSE 0]
<1>1. /\ fetch.pc = "nonces" /\ fetch' = [fetch EXCEPT !.pc = "insert", !.nonces = nonces]
      /\ rows' = rows /\ clock' = clock /\ ops' = ops /\ store' = store /\ keeper' = keeper
      /\ UNCHANGED chain /\ crashes' = crashes /\ deleted' = deleted /\ overtaken' = overtaken
  BY DEF get_transaction_nonces, history
<1>2. nonces \in [Accounts -> Nat]
  <2>1. \A a : StoredNonce(a) \in Nat
    <3> DEFINE b == IF "logs" \in parts THEN sealed + 1 ELSE sealed
    <3>1. b \in 0 .. Len(ends)
      BY ChainTypes DEF IInv, ExecInv
    <3> HIDE DEF b
    <3>2. EndOf(b) \in Nat
      BY <3>1, ChainTypes DEF IInv
    <3>3. \A a : NonceAt(a, EndOf(b)) \in Nat
      BY <3>2, ExecCounts
    <3> QED BY <3>3 DEF StoredNonce, b
  <2> QED BY <2>1
<1> HIDE DEF nonces
<1>3. \A t \in AnyTx : Traced(t) => Traced(t)'
  BY <1>1 DEF Traced
<1>4. ExecInv' /\ UnmarkedInv' /\ StoreInv' /\ KeeperTypes' /\ CurInv' /\ OrderInv'
  BY <1>1, <1>3, OthersSame
<1>5. RowTypes' /\ RowsInv'
  BY <1>1, RecordsSame
<1>6. fetch' \in FetchRecord /\ fetch'.pc = "insert" /\ fetch'.txs = fetch.txs
  BY <1>1, <1>2 DEF IInv, FetchInv, FetchRecord
<1>7. FetchInv' /\ FreshInv'
  BY <1>1, <1>6 DEF IInv, FetchInv, FreshInv, Key
<1> QED BY <1>4, <1>5, <1>7 DEF IInv

\* The insertion of the fetched transactions.
LEMMA FetchInsertStep ==
    ASSUME IInv, FetchInsert
    PROVE  IInv'
<1>1. /\ fetch.pc = "insert" /\ store' = insert(store, fetch.txs, fetch.nonces)
      /\ fetch' = [StartFetch EXCEPT !.pc = "info"]
      /\ overtaken' = overtaken \cup {a \in Overtaking : fetch.nonces[a] > keeper.cur.n + 1}
      /\ rows' = rows /\ clock' = clock /\ ops' = ops /\ keeper' = keeper /\ UNCHANGED chain
      /\ crashes' = crashes /\ deleted' = deleted
  BY DEF FetchInsert
<1>2. /\ store \in Store /\ AccountsInv(store) /\ QueueInv(store, overtaken)
      /\ fetch.txs \in SUBSET AnyTx /\ fetch.nonces \in [Accounts -> Nat] /\ IsFiniteSet(fetch.txs)
      /\ \A t, u \in fetch.txs : Key(t) = Key(u) => t = u
      /\ \A t \in fetch.txs : Traced(t)
  BY FetchFields DEF IInv, StoreInv, FetchInv, Traced
<1>3. /\ store' \in Store /\ AccountsInv(store') /\ QueueInv(store', overtaken)
      /\ store'.l1 \subseteq store.l1 \cup fetch.txs
      /\ HeldTxs(store') \subseteq HeldTxs(store) \cup fetch.txs
      /\ store'.nextId = store.nextId
      /\ \A a \in DOMAIN store'.acc :
            IF a \in DOMAIN store.acc THEN store'.acc[a].nonce = store.acc[a].nonce
            ELSE /\ store'.acc[a].nonce = fetch.nonces[a]
                 /\ a \in {t.acc : t \in {u \in fetch.txs : ~u.pri}}
  BY <1>1, <1>2, InsertKeeps
<1>4. QueueInv(store', overtaken')
  BY <1>1, <1>3 DEF QueueInv
<1>5. /\ ExecInv' /\ RowTypes' /\ RowsInv' /\ UnmarkedInv'
      /\ \A t : Traced(t) => Traced(t)'
      /\ exec' = exec /\ EndOf(sealed)' = EndOf(sealed)
  BY <1>1, RecordsSame
<1>6. StoreInv'
  BY <1>2, <1>3, <1>4, <1>5, HeldTraced, StoreChanged DEF IInv
<1>7. FetchInv' /\ FreshInv'
  <2>1. fetch' \in FetchRecord /\ fetch'.pc = "info" /\ fetch'.txs = {}
    BY <1>1, FetchFields
  <2> QED BY <2>1, FS_EmptySet DEF FetchInv, FreshInv
<1>8. KeeperTypes'
  <2>1. \A a \in Overtaking : a \in DOMAIN store.acc \/ (~keeper.cur.pri /\ keeper.cur.acc = a /\ keeper.pc = "executing")
    BY DEF Overtaking
  <2>2. keeper.pc = "executing" /\ ~keeper.cur.pri => keeper.cur.acc \in Accounts
    BY TxFields DEF IInv, CurInv
  <2>3. DOMAIN store.acc \subseteq Accounts
    BY <1>2, StoreFields
  <2> QED BY <1>1, <2>1, <2>2, <2>3 DEF IInv, KeeperTypes
<1>9. CurInv'
  <2> SUFFICES ASSUME keeper.pc = "executing" PROVE CurInv'
    BY <1>1 DEF CurInv
  <2>1. keeper.cur \in AnyTx /\ Traced(keeper.cur)
    BY DEF IInv, CurInv
  <2>2. Traced(keeper.cur)'
    BY <1>1, <2>1 DEF Traced
  <2>3. ASSUME ~keeper.cur.pri, keeper.cur.acc \in DOMAIN store'.acc, keeper.cur.acc \notin overtaken'
        PROVE  store'.acc[keeper.cur.acc].nonce <= keeper.cur.n + 1
    <3>1. keeper.cur.acc \notin overtaken
      BY <1>1, <2>3
    <3>2. CASE keeper.cur.acc \in DOMAIN store.acc
      BY <1>3, <2>3, <3>1, <3>2 DEF IInv, CurInv
    <3>3. CASE keeper.cur.acc \notin DOMAIN store.acc
      <4>1. keeper.cur.acc \in Overtaking /\ store'.acc[keeper.cur.acc].nonce = fetch.nonces[keeper.cur.acc]
        BY <1>3, <2>3, <3>3 DEF Overtaking
      <4>2. ~(fetch.nonces[keeper.cur.acc] > keeper.cur.n + 1)
        BY <1>1, <2>3, <4>1
      <4>3. fetch.nonces[keeper.cur.acc] \in Nat /\ keeper.cur.n \in Nat
        BY <1>2, <2>1, <2>3, TxFields
      <4> QED BY <4>1, <4>2, <4>3
    <3> QED BY <3>2, <3>3
  <2> QED BY <1>1, <2>1, <2>2, <2>3 DEF CurInv
<1>10. OrderInv'
  BY <1>1, <1>3, <1>5, OrderSame DEF IInv
<1> QED BY <1>5, <1>6, <1>7, <1>8, <1>9, <1>10 DEF IInv

-----------------------------------------------------------------------------
(* Steps of the state keeper.                                              *)

\* With the mempool empty there is no next transaction.
LEMMA FetchedFirst ==
    ASSUME IInv, NEW f, has_next(store, f)
    PROVE  fetch.pc # "start"
  BY DEF IInv, FreshInv, has_next, Matching

\* The new batch waits for a transaction.
LEMMA BatchParamsStep ==
    ASSUME IInv, NEW f \in Fees, wait_for_new_batch_params(f)
    PROVE  IInv'
<1>1. /\ keeper.pc = "nobatch" /\ has_next(store, f)
      /\ keeper' = [keeper EXCEPT !.pc = "ready", !.filter = f]
      /\ rows' = rows /\ clock' = clock /\ ops' = ops /\ store' = store /\ fetch' = fetch
      /\ UNCHANGED chain /\ crashes' = crashes /\ deleted' = deleted /\ overtaken' = overtaken
  BY DEF wait_for_new_batch_params, history
<1>2. keeper'.pc = "ready" /\ keeper'.filter = f /\ keeper' = [pc |-> "ready", filter |-> f, cur |-> keeper.cur]
  BY <1>1 DEF IInv, KeeperTypes
<1>3. /\ ExecInv' /\ RowTypes' /\ RowsInv' /\ UnmarkedInv'
      /\ \A t : Traced(t) => Traced(t)'
      /\ exec' = exec /\ EndOf(sealed)' = EndOf(sealed)
  BY <1>1, RecordsSame
<1>4. StoreInv'
  BY <1>1, <1>3, StoreSame DEF IInv
<1>5. FetchInv' /\ FreshInv'
  BY <1>1, FetchSame, FetchedFirst DEF IInv, FreshInv
<1>6. KeeperTypes' /\ CurInv'
  BY <1>1, <1>2, Constants DEF IInv, KeeperTypes, CurInv
<1>7. OrderInv'
  BY <1>1, <1>2, <1>3, OrderSame DEF IInv
<1> QED BY <1>3, <1>4, <1>5, <1>6, <1>7 DEF IInv

\* The state keeper takes the mempool's next transaction.
LEMMA NextTxStep ==
    ASSUME IInv, wait_for_next_tx
    PROVE  IInv'
<1> DEFINE tx == NextTx(store, keeper.filter)
<1>1. /\ keeper.pc = "ready" /\ has_next(store, keeper.filter) /\ CanTakeNext(store, keeper.filter)
      /\ store' = next_transaction(store, keeper.filter)
      /\ keeper' = [keeper EXCEPT !.pc = "executing", !.cur = tx]
      /\ rows' = rows /\ clock' = clock /\ ops' = ops /\ fetch' = fetch
      /\ UNCHANGED chain /\ crashes' = crashes /\ deleted' = deleted /\ overtaken' = overtaken
  BY DEF wait_for_next_tx, history
<1>2. store \in Store /\ AccountsInv(store) /\ QueueInv(store, overtaken)
  BY DEF IInv, StoreInv
<1> HIDE DEF tx
<1>3. /\ keeper'.pc = "executing" /\ keeper'.cur = tx
      /\ keeper' = [pc |-> "executing", filter |-> keeper.filter, cur |-> tx]
  BY <1>1 DEF IInv, KeeperTypes
<1>4. /\ ExecInv' /\ RowTypes' /\ RowsInv' /\ UnmarkedInv'
      /\ \A t : Traced(t) => Traced(t)'
      /\ exec' = exec /\ EndOf(sealed)' = EndOf(sealed)
  BY <1>1, RecordsSame
<1>5. /\ store' \in Store /\ AccountsInv(store') /\ QueueInv(store', overtaken)
      /\ store'.l1 \subseteq store.l1 /\ HeldTxs(store') \subseteq HeldTxs(store)
      /\ tx \in AnyTx /\ Traced(tx)
      /\ tx.pri => tx.n = store.nextId /\ store'.nextId = store.nextId + 1
      /\ ~tx.pri => store'.nextId = store.nextId /\ store'.acc[tx.acc].nonce = tx.n + 1
  <2>1. CASE \E t \in store.l1 : t.n = store.nextId
    <3>1. /\ tx \in store.l1 /\ tx.pri /\ tx.n = store.nextId
          /\ store'.l1 = store.l1 \ {tx} /\ store'.nextId = store.nextId + 1
          /\ store'.acc = store.acc /\ store'.queue = store.queue /\ store'.size = store.size
          /\ store' \in Store
      BY <1>1, <1>2, <2>1, NextOperation DEF tx
    <3>2. AccountsInv(store') /\ QueueInv(store', overtaken) /\ HeldTxs(store') = HeldTxs(store)
      BY <1>2, <3>1, OperationsOnly
    <3>3. tx \in AnyTx /\ Traced(tx)
      BY <3>1, HeldTraced DEF IInv
    <3> QED BY <3>1, <3>2, <3>3
  <2>2. CASE ~\E t \in store.l1 : t.n = store.nextId
    <3>1. /\ tx \in HeldTxs(store) /\ tx \in L2Tx
          /\ store' \in Store /\ AccountsInv(store') /\ QueueInv(store', overtaken)
          /\ store'.l1 = store.l1 /\ store'.nextId = store.nextId /\ HeldTxs(store') \subseteq HeldTxs(store)
          /\ tx.acc \in DOMAIN store'.acc /\ store'.acc[tx.acc].nonce = tx.n + 1
      BY <1>1, <1>2, <2>2, NextL2Keeps DEF tx
    <3>2. tx \in AnyTx /\ ~tx.pri /\ Traced(tx)
      BY <3>1, HeldTraced DEF IInv
    <3> QED BY <3>1, <3>2
  <2> QED BY <2>1, <2>2
<1>6. StoreInv'
  BY <1>1, <1>4, <1>5, HeldTraced, StoreChanged DEF IInv
<1>7. FetchInv' /\ FreshInv'
  BY <1>1, FetchSame, FetchedFirst DEF IInv, FreshInv
<1>8. KeeperTypes'
  BY <1>1, <1>3 DEF IInv, KeeperTypes
<1>9. CurInv'
  <2>1. Traced(keeper.cur)'
    <3>1. Traced(tx)
      BY <1>5
    <3> QED BY <1>1, <1>3, <3>1 DEF Traced, Key
  <2>2. tx.n \in Nat
    BY <1>5, TxFields
  <2> QED BY <1>3, <1>5, <2>1, <2>2 DEF CurInv
<1>10. OrderInv'
  <2>1. TurnId = store.nextId
    BY <1>1 DEF TurnId, OpRuns
  <2>2. TurnId' = store.nextId /\ (OpRuns' => store'.nextId = keeper'.cur.n + 1)
    BY <1>3, <1>5 DEF TurnId, OpRuns
  <2> QED BY <1>1, <1>3, <1>4, <2>1, <2>2, TurnSame DEF IInv
<1> QED BY <1>4, <1>6, <1>7, <1>8, <1>9, <1>10 DEF IInv

\* Unconditional sealing of a batch.
LEMMA SealBatchStep ==
    ASSUME IInv, should_seal_l1_batch_unconditionally
    PROVE  IInv'
<1>1. /\ keeper.pc = "ready" /\ keeper' = [keeper EXCEPT !.pc = "sealing"]
      /\ rows' = rows /\ clock' = clock /\ ops' = ops /\ store' = store /\ fetch' = fetch
      /\ UNCHANGED chain /\ crashes' = crashes /\ deleted' = deleted /\ overtaken' = overtaken
  BY DEF should_seal_l1_batch_unconditionally, history
<1>2. keeper'.pc = "sealing" /\ keeper' = [pc |-> "sealing", filter |-> keeper.filter, cur |-> keeper.cur]
  BY <1>1 DEF IInv, KeeperTypes
<1>3. /\ ExecInv' /\ RowTypes' /\ RowsInv' /\ UnmarkedInv'
      /\ \A t : Traced(t) => Traced(t)'
      /\ exec' = exec /\ ends' = ends /\ sealed' = sealed /\ parts' = parts
      /\ EndOf(sealed)' = EndOf(sealed)
  BY <1>1, RecordsSame
<1>4. StoreInv'
  BY <1>1, <1>3, StoreSame DEF IInv
<1>5. FetchInv' /\ FreshInv'
  BY <1>1, <1>2, <1>3, FetchSame DEF IInv, FreshInv
<1>6. KeeperTypes' /\ CurInv'
  BY <1>1, <1>2 DEF IInv, KeeperTypes, CurInv
<1>7. OrderInv'
  BY <1>1, <1>2, <1>3, OrderSame DEF IInv
<1> QED BY <1>3, <1>4, <1>5, <1>6, <1>7 DEF IInv

\* The transaction in execution.
LEMMA Executing ==
    ASSUME IInv, keeper.pc = "executing"
    PROVE  /\ keeper.cur \in AnyTx /\ Traced(keeper.cur) /\ fetch.pc # "start"
           /\ Len(exec) \in Nat /\ IsTurn(TurnId, OpIds(Len(exec)))
           /\ keeper.cur.pri => TurnId = keeper.cur.n /\ store.nextId = keeper.cur.n + 1
           /\ ~keeper.cur.pri => TurnId = store.nextId
<1>1. Len(exec) \in Nat
  BY ChainTypes DEF IInv
<1>2. keeper.cur \in AnyTx /\ Traced(keeper.cur) /\ fetch.pc # "start"
  BY DEF IInv, CurInv, FreshInv
<1>3. /\ keeper.cur.pri => TurnId = keeper.cur.n /\ store.nextId = keeper.cur.n + 1
      /\ ~keeper.cur.pri => TurnId = store.nextId
  BY DEF IInv, OrderInv, TurnId, OpRuns
<1>4. IsTurn(TurnId, OpIds(Len(exec)))
  BY DEF IInv, OrderInv
<1> QED BY <1>1, <1>2, <1>3, <1>4

\* The VM executes it.
LEMMA IncludeStep ==
    ASSUME IInv, Include
    PROVE  IInv'
<1>1. PICK pc \in {"ready", "sealing"} : keeper' = [keeper EXCEPT !.pc = pc, !.cur = NoTx]
  BY DEF Include
<1>2. /\ keeper.pc = "executing" /\ NonceFits(keeper.cur) /\ exec' = Append(exec, keeper.cur)
      /\ rows' = rows /\ clock' = clock /\ ops' = ops /\ store' = store /\ fetch' = fetch
      /\ ends' = ends /\ sealed' = sealed /\ parts' = parts /\ batched' = batched
      /\ crashes' = crashes /\ deleted' = deleted /\ overtaken' = overtaken
  BY DEF Include, history
<1>3. /\ keeper'.pc = pc /\ pc # "start" /\ pc # "executing"
      /\ keeper' = [pc |-> pc, filter |-> keeper.filter, cur |-> NoTx]
  BY <1>1 DEF IInv, KeeperTypes
<1>4. PICK t : t = keeper.cur
  OBVIOUS
<1>5. /\ t \in AnyTx /\ Traced(t) /\ Len(exec) \in Nat /\ fetch.pc # "start"
      /\ IsTurn(TurnId, OpIds(Len(exec)))
      /\ t.pri => TurnId = t.n /\ store.nextId = t.n + 1
      /\ ~t.pri => TurnId = store.nextId
  BY <1>2, <1>4, Executing
<1>6. ~t.pri => t.n = NonceAt(t.acc, Len(exec))
  BY <1>2, <1>4 DEF NonceFits, VmNonce
<1>7. /\ ExecInv' /\ Len(exec') = Len(exec) + 1 /\ exec'[Len(exec) + 1] = t
      /\ \A i \in 1 .. Len(exec) : exec'[i] = exec[i]
  BY <1>2, <1>4, <1>5, <1>6, ChainGrows DEF IInv
<1>8. /\ Marked' = Marked /\ Marked \in 0 .. Len(ends) /\ Len(ends) \in 0 .. Len(ends)
      /\ EndOf(Len(ends)) \in Nat /\ EndOf(Len(ends)) <= Len(exec)
      /\ EndOf(Marked) \in Nat
  <2>1. Marked \in 0 .. Len(ends) /\ Len(ends) \in 0 .. Len(ends)
    BY ChainTypes DEF IInv
  <2> QED BY <1>2, <2>1, ChainTypes DEF IInv, Marked
<1>9. /\ \A b \in 0 .. Len(ends) : EndOf(b)' = EndOf(b)
      /\ \A b \in 1 .. Len(ends) : BlockTxs(b)' = BlockTxs(b)
  <2>1. \A i \in 1 .. EndOf(Len(ends)) : i \in 1 .. Len(exec)
    BY <1>5, <1>8
  <2>2. \A i \in 1 .. EndOf(Len(ends)) : exec'[i] = exec[i]
    BY <1>7, <2>1
  <2>3. ExecInv /\ \A b \in 1 .. Len(ends) : ends'[b] = ends[b]
    BY <1>2 DEF IInv
  <2> QED BY <1>8, <2>2, <2>3, ChainKept
<1>10. RowTypes' /\ (\A u : Traced(u) => Traced(u)') /\ RowsInv'
  BY <1>2, <1>8, <1>9, TableSame DEF IInv
<1>11. UnmarkedInv'
  <2>1. EndOf(Marked)' = EndOf(Marked)
    BY <1>2, <1>8 DEF EndOf
  <2> SUFFICES ASSUME NEW i \in EndOf(Marked) + 1 .. Len(exec) + 1 PROVE Traced(exec[i])'
    BY <1>7, <2>1 DEF UnmarkedInv
  <2>2. PICK u : u = exec'[i]
    OBVIOUS
  <2>3. Traced(u)
    <3>1. CASE i = Len(exec) + 1
      BY <1>5, <1>7, <2>2, <3>1
    <3>2. CASE i # Len(exec) + 1
      <4>1. i \in EndOf(Marked) + 1 .. Len(exec) /\ i \in 1 .. Len(exec)
        BY <1>5, <1>8, <3>2
      <4> QED BY <1>2, <1>7, <2>2, <4>1 DEF IInv, UnmarkedInv
    <3> QED BY <3>1, <3>2
  <2>4. Traced(u)'
    BY <1>10, <2>3
  <2> QED BY <2>2, <2>4 DEF Traced
<1>12. StoreInv'
  BY <1>2, <1>10, StoreSame DEF IInv
<1>13. FetchInv' /\ FreshInv'
  BY <1>2, <1>5, FetchSame DEF IInv, FreshInv
<1>14. KeeperTypes' /\ CurInv'
  BY <1>2, <1>3 DEF IInv, KeeperTypes, CurInv
<1>15. PriorityInOrder' /\ IsTurn(store.nextId, OpIds(Len(exec)))'
  <2>1. PriorityInOrder /\ ExecInv
    BY DEF IInv, OrderInv
  <2>2. CASE t.pri
    <3>1. IsTurn(t.n, OpIds(Len(exec)))
      BY <1>5, <2>2
    <3>2. PriorityInOrder' /\ IsTurn(t.n + 1, OpIds(Len(exec)))'
      BY <1>2, <1>5, <1>7, <2>1, <2>2, <3>1, OrderGrows
    <3>3. store'.nextId = t.n + 1
      BY <1>2, <1>5, <2>2
    <3> QED BY <3>2, <3>3 DEF IsTurn
  <2>3. CASE ~t.pri
    <3>1. PICK n \in Nat : n = Len(exec)
      BY <1>5
    <3>2. OpIds(n + 1)' = OpIds(n)
      BY <1>7, <2>3, <3>1, NextIds
    <3>3. OpIds(Len(exec))' = OpIds(n + 1)'
      BY <1>7, <3>1 DEF OpIds
    <3>4. IsTurn(store.nextId, OpIds(n))
      BY <1>5, <2>3, <3>1
    <3>5. IsTurn(store.nextId, OpIds(Len(exec)))'
      BY <1>2, <3>2, <3>3, <3>4 DEF IsTurn
    <3>6. PriorityInOrder'
      BY <1>2, <1>7, <2>1, <2>3, <3>1, L2Grows
    <3> QED BY <3>5, <3>6
  <2> QED BY <2>2, <2>3
<1>16. OrderInv'
  <2>1. ~OpRuns' /\ TurnId' = store'.nextId /\ keeper'.pc # "start"
    BY <1>3 DEF OpRuns, TurnId
  <2>2. IsTurn(TurnId, OpIds(IF keeper.pc = "start" THEN EndOf(sealed) ELSE Len(exec)))'
    BY <1>15, <2>1
  <2> QED BY <1>15, <2>1, <2>2 DEF OrderInv
<1> QED BY <1>7, <1>10, <1>11, <1>12, <1>13, <1>14, <1>16 DEF IInv

\* It does not fit into the batch any more and goes back into the mempool.
LEMMA ExcludeStep ==
    ASSUME IInv, Exclude
    PROVE  IInv'
<1>1. /\ keeper.pc = "executing" /\ CanRollback(store, keeper.cur)
      /\ store' = insert(rollback(store, keeper.cur), {keeper.cur}, [a \in Accounts |-> 0])
      /\ keeper' = [keeper EXCEPT !.pc = "sealing", !.cur = NoTx]
      /\ rows' = rows /\ clock' = clock /\ ops' = ops /\ fetch' = fetch
      /\ UNCHANGED chain /\ crashes' = crashes /\ deleted' = deleted /\ overtaken' = overtaken
  BY DEF Exclude, history
<1>2. keeper'.pc = "sealing" /\ keeper' = [pc |-> "sealing", filter |-> keeper.filter, cur |-> NoTx]
  BY <1>1 DEF IInv, KeeperTypes
<1>3. PICK tx : tx = keeper.cur
  OBVIOUS
<1>4. /\ tx \in AnyTx /\ Traced(tx) /\ tx.n \in Nat /\ fetch.pc # "start"
      /\ tx.pri => TurnId = tx.n /\ store.nextId = tx.n + 1
      /\ ~tx.pri => TurnId = store.nextId
  BY <1>1, <1>3, Executing, TxFields
<1>5. store \in Store /\ AccountsInv(store) /\ QueueInv(store, overtaken)
  BY DEF IInv, StoreInv
<1>6. PICK s : s = rollback(store, tx)
  OBVIOUS
<1>7. /\ s \in Store /\ AccountsInv(s) /\ QueueInv(s, overtaken)
      /\ s.l1 = store.l1 /\ HeldTxs(s) = HeldTxs(store) /\ s.nextId = TurnId
  <2>1. CASE tx.pri
    <3>1. /\ s \in Store /\ s.l1 = store.l1 /\ s.acc = store.acc /\ s.queue = store.queue
          /\ s.size = store.size
          /\ s.nextId = IF tx.n < store.nextId THEN tx.n ELSE store.nextId
      BY <1>4, <1>5, <1>6, <2>1, TxFields, RollbackOperation
    <3>2. AccountsInv(s) /\ QueueInv(s, overtaken) /\ HeldTxs(s) = HeldTxs(store)
      BY <1>5, <3>1, OperationsOnly
    <3> QED BY <1>4, <2>1, <3>1, <3>2
  <2>2. CASE ~tx.pri
    <3>1. tx.acc \in DOMAIN store.acc /\ (tx.acc \notin overtaken => store.acc[tx.acc].nonce <= tx.n + 1)
      BY <1>1, <1>3, <2>2 DEF CanRollback, IInv, CurInv
    <3>2. tx \in L2Tx
      BY <1>4, <2>2, TxFields
    <3> QED BY <1>4, <1>5, <1>6, <2>2, <3>1, <3>2, RollbackL2Keeps
  <2> QED BY <2>1, <2>2
<1>8. /\ store' \in Store /\ AccountsInv(store') /\ QueueInv(store', overtaken)
      /\ store'.l1 \subseteq s.l1 \cup {tx} /\ HeldTxs(store') \subseteq HeldTxs(s) \cup {tx}
      /\ store'.nextId = s.nextId
  <2>1. [a \in Accounts |-> 0] \in [Accounts -> Nat] /\ {tx} \in SUBSET AnyTx /\ IsFiniteSet({tx})
        /\ \A t, u \in {tx} : Key(t) = Key(u) => t = u
    BY <1>4, FS_Singleton
  <2>2. store' = insert(s, {tx}, [a \in Accounts |-> 0])
    BY <1>1, <1>3, <1>6
  <2> QED BY <1>7, <2>1, <2>2, InsertKeeps
<1>9. /\ ExecInv' /\ RowTypes' /\ RowsInv' /\ UnmarkedInv'
      /\ \A t : Traced(t) => Traced(t)'
      /\ exec' = exec /\ EndOf(sealed)' = EndOf(sealed)
  BY <1>1, RecordsSame
<1>10. StoreInv'
  BY <1>1, <1>4, <1>7, <1>8, <1>9, HeldTraced, StoreChanged DEF IInv
<1>11. FetchInv' /\ FreshInv'
  BY <1>1, <1>4, FetchSame DEF IInv, FreshInv
<1>12. KeeperTypes' /\ CurInv'
  BY <1>1, <1>2 DEF IInv, KeeperTypes, CurInv
<1>13. OrderInv'
  <2>1. TurnId' = store'.nextId /\ ~OpRuns'
    BY <1>2 DEF TurnId, OpRuns
  <2>2. TurnId' = TurnId
    BY <1>7, <1>8, <2>1
  <2> QED BY <1>1, <1>2, <1>9, <2>1, <2>2, TurnSame DEF IInv
<1> QED BY <1>9, <1>10, <1>11, <1>12, <1>13 DEF IInv

\* It is rejected.
LEMMA RejectStep ==
    ASSUME IInv, reject
    PROVE  IInv'
<1>1. PICK tx : tx = keeper.cur
  OBVIOUS
<1>2. /\ keeper.pc = "executing" /\ ~tx.pri /\ CanRollback(store, tx) /\ store' = rollback(store, tx)
      /\ rows' = [k \in DOMAIN rows |->
                        IF rows[k].tx = tx THEN [rows[k] EXCEPT !.err = TRUE] ELSE rows[k]]
      /\ keeper' = [keeper EXCEPT !.pc = "ready", !.cur = NoTx]
      /\ clock' = clock /\ ops' = ops /\ fetch' = fetch /\ UNCHANGED chain /\ crashes' = crashes
      /\ deleted' = deleted /\ overtaken' = overtaken
  BY <1>1 DEF reject, history
<1>3. keeper'.pc = "ready" /\ keeper' = [pc |-> "ready", filter |-> keeper.filter, cur |-> NoTx]
  BY <1>2 DEF IInv, KeeperTypes
<1>4. tx \in AnyTx /\ fetch.pc # "start" /\ TurnId = store.nextId
  BY <1>1, <1>2, Executing
<1>5. store \in Store /\ AccountsInv(store) /\ QueueInv(store, overtaken)
  BY DEF IInv, StoreInv
<1>6. /\ store' \in Store /\ AccountsInv(store') /\ QueueInv(store', overtaken)
      /\ store'.l1 = store.l1 /\ HeldTxs(store') = HeldTxs(store) /\ store'.nextId = store.nextId
  <2>1. tx.acc \in DOMAIN store.acc /\ (tx.acc \notin overtaken => store.acc[tx.acc].nonce <= tx.n + 1)
    BY <1>1, <1>2 DEF CanRollback, IInv, CurInv
  <2>2. tx \in L2Tx
    BY <1>2, <1>4, TxFields
  <2> QED BY <1>2, <1>5, <2>1, <2>2, RollbackL2Keeps
<1>7. DOMAIN rows' = DOMAIN rows
  BY <1>2
<1>8. ASSUME NEW k \in DOMAIN rows
      PROVE  /\ rows'[k] \in Row /\ rows'[k].tx = rows[k].tx /\ rows'[k].blk = rows[k].blk
             /\ rows'[k].bat = rows[k].bat
  <2>1. rows[k] \in Row
    BY DEF IInv, RowTypes
  <2>2. rows'[k] = [rows[k] EXCEPT !.err = TRUE] \/ rows'[k] = rows[k]
    BY <1>2
  <2> QED BY <2>1, <2>2 DEF Row
<1>9. RowTypes'
  <2>1. \A k \in DOMAIN rows' : Key(rows[k].tx)' = Key(rows[k].tx)
    BY <1>7, <1>8 DEF Key
  <2> QED BY <1>2, <1>7, <1>8, <2>1 DEF IInv, RowTypes
<1>10. \A t \in AnyTx : Traced(t) => Traced(t)'
  BY <1>2, <1>7 DEF Traced
<1>11. /\ ExecInv' /\ Marked' = Marked
       /\ \A b : EndOf(b)' = EndOf(b) /\ BlockTxs(b)' = BlockTxs(b)
  BY <1>2, ChainSame DEF IInv
<1>12. exec' = exec /\ ends' = ends /\ sealed' = sealed /\ parts' = parts /\ batched' = batched
  BY <1>2 DEF chain
<1>13. RowsInv'
  BY <1>2, <1>7, <1>8, <1>11, <1>12, RowsKept DEF IInv
<1>14. UnmarkedInv'
  <2>1. Marked \in 0 .. Len(ends)
    BY ChainTypes DEF IInv
  <2>2. EndOf(Marked) \in Nat /\ EndOf(Marked)' = EndOf(Marked)
    BY <1>11, <1>12, <2>1, ChainTypes DEF IInv, EndOf
  <2> QED BY <1>2, <1>10, <1>12, <2>2, UnmarkedKept DEF IInv
<1>15. StoreInv'
  BY <1>2, <1>6, <1>10, HeldTraced, StoreChanged DEF IInv
<1>16. FetchInv' /\ FreshInv'
  BY <1>2, <1>4, <1>7, FetchSame DEF IInv, FreshInv
<1>17. KeeperTypes' /\ CurInv'
  BY <1>2, <1>3 DEF IInv, KeeperTypes, CurInv
<1>18. OrderInv'
  <2>1. TurnId' = store'.nextId /\ ~OpRuns'
    BY <1>3 DEF TurnId, OpRuns
  <2>2. TurnId' = TurnId
    BY <1>4, <1>6, <2>1
  <2> QED BY <1>2, <1>3, <1>11, <1>12, <2>1, <2>2, TurnSame DEF IInv
<1> QED BY <1>9, <1>11, <1>13, <1>14, <1>15, <1>16, <1>17, <1>18 DEF IInv

\* An L2 block is closed and sent to the sealer.
LEMMA SealBlockStep ==
    ASSUME IInv, seal_l2_block
    PROVE  IInv'
<1>1. /\ keeper.pc \in {"ready", "sealing"} /\ OpenBlock # <<>> /\ Len(ends) - sealed <= QueueCap
      /\ ends' = Append(ends, Len(exec)) /\ exec' = exec /\ sealed' = sealed /\ parts' = parts
      /\ batched' = batched /\ rows' = rows /\ clock' = clock /\ ops' = ops /\ store' = store
      /\ fetch' = fetch /\ keeper' = keeper /\ crashes' = crashes /\ deleted' = deleted
      /\ overtaken' = overtaken
  BY DEF seal_l2_block, history
<1>2. ExecInv' /\ Len(ends') = Len(ends) + 1 /\ \A b \in 1 .. Len(ends) : ends'[b] = ends[b]
  BY <1>1, BlockCloses DEF IInv
<1>3. fetch.pc # "start"
  <2> SUFFICES ASSUME fetch.pc = "start" PROVE OpenBlock = <<>>
    BY <1>1
  <2>1. sealed = Len(ends) /\ Len(exec) = EndOf(sealed) /\ Len(exec) \in Nat
    BY <1>1, ChainTypes DEF IInv, FreshInv
  <2> QED BY <2>1 DEF OpenBlock
<1>4. Marked' = Marked /\ Marked \in 0 .. Len(ends) /\ Len(ends) \in 0 .. Len(ends)
  BY <1>1, ChainTypes DEF IInv, Marked
<1>5. /\ \A b \in 0 .. Len(ends) : EndOf(b)' = EndOf(b)
      /\ \A b \in 1 .. Len(ends) : BlockTxs(b)' = BlockTxs(b)
  BY <1>1, <1>2, <1>4, ChainKept DEF IInv
<1>6. RowTypes' /\ (\A t : Traced(t) => Traced(t)') /\ RowsInv'
  BY <1>1, <1>4, <1>5, TableSame DEF IInv
<1>7. UnmarkedInv'
  <2>1. PICK m \in 0 .. Len(ends) : m = Marked
    BY <1>4
  <2>2. EndOf(m)' = EndOf(m) /\ EndOf(m) \in Nat
    BY <1>5, ChainTypes DEF IInv
  <2>3. EndOf(Marked)' = EndOf(m)' /\ EndOf(Marked) = EndOf(m)
    BY <1>4, <2>1 DEF EndOf
  <2> QED BY <1>1, <1>6, <2>2, <2>3, UnmarkedKept DEF IInv
<1>8. StoreInv' /\ KeeperTypes' /\ CurInv'
  BY <1>1, <1>6, MempoolSame
<1>9. FetchInv' /\ FreshInv'
  BY <1>1, <1>3, FetchSame DEF IInv, FreshInv
<1>10. OrderInv'
  BY <1>1, <1>2, OrderSame DEF IInv
<1> QED BY <1>2, <1>6, <1>7, <1>8, <1>9, <1>10 DEF IInv

\* A batch is persisted after all its blocks.
LEMMA HandleBatchStep ==
    ASSUME IInv, handle_l1_batch
    PROVE  IInv'
<1> DEFINE txs == UNION {BlockTxs(b) : b \in batched + 1 .. Len(ends)}
<1>1. /\ keeper.pc = "sealing" /\ sealed = Len(ends) /\ batched' = sealed
      /\ rows' = [k \in DOMAIN rows |->
                        IF rows[k].tx \in txs THEN [rows[k] EXCEPT !.bat = TRUE] ELSE rows[k]]
      /\ keeper' = [keeper EXCEPT !.pc = "nobatch"]
      /\ clock' = clock /\ ops' = ops /\ store' = store /\ fetch' = fetch /\ exec' = exec
      /\ ends' = ends /\ sealed' = sealed /\ parts' = parts /\ crashes' = crashes
      /\ deleted' = deleted /\ overtaken' = overtaken
  BY DEF handle_l1_batch, history
<1> HIDE DEF txs
<1>2. keeper'.pc = "nobatch" /\ keeper' = [pc |-> "nobatch", filter |-> keeper.filter, cur |-> keeper.cur]
  BY <1>1 DEF IInv, KeeperTypes
<1>3. /\ sealed \in Nat /\ parts = {} /\ Marked = sealed /\ Marked' = Marked
  BY <1>1, ChainTypes DEF IInv, ExecInv, Marked
<1>4. /\ ExecInv' /\ \A b : EndOf(b)' = EndOf(b) /\ BlockTxs(b)' = BlockTxs(b)
  BY <1>1, <1>3, SealerKeeps DEF IInv
<1>5. DOMAIN rows' = DOMAIN rows
  BY <1>1
<1>6. ASSUME NEW k \in DOMAIN rows
      PROVE  rows'[k] \in Row /\ rows'[k].tx = rows[k].tx /\ rows'[k].blk = rows[k].blk
  <2>1. rows[k] \in Row
    BY DEF IInv, RowTypes
  <2>2. rows'[k] = [rows[k] EXCEPT !.bat = TRUE] \/ rows'[k] = rows[k]
    BY <1>1
  <2> QED BY <2>1, <2>2 DEF Row
<1>7. RowTypes'
  <2>1. \A k \in DOMAIN rows' : Key(rows[k].tx)' = Key(rows[k].tx)
    BY <1>5, <1>6 DEF Key
  <2> QED BY <1>1, <1>5, <1>6, <2>1 DEF IInv, RowTypes
<1>8. \A t \in AnyTx : Traced(t) => Traced(t)'
  BY <1>1, <1>5 DEF Traced
<1>9. RowsInv'
  BY <1>1, <1>3, <1>4, <1>5, <1>6, RowsKept DEF IInv
<1>10. UnmarkedInv'
  <2>1. Marked \in 0 .. Len(ends)
    BY ChainTypes DEF IInv
  <2>2. EndOf(Marked) \in Nat /\ EndOf(Marked)' = EndOf(Marked)
    BY <1>1, <1>3, <2>1, ChainTypes DEF IInv, EndOf
  <2> QED BY <1>1, <1>8, <2>2, UnmarkedKept DEF IInv
<1>11. StoreInv'
  BY <1>1, <1>8, StoreSame DEF IInv
<1>12. FetchInv' /\ FreshInv'
  BY <1>1, <1>2, <1>5, FetchSame DEF IInv, FreshInv, EndOf
<1>13. KeeperTypes' /\ CurInv'
  BY <1>1, <1>2 DEF IInv, KeeperTypes, CurInv
<1>14. OrderInv'
  BY <1>1, <1>2, <1>4, OrderSame DEF IInv
<1> QED BY <1>4, <1>7, <1>9, <1>10, <1>11, <1>12, <1>13, <1>14 DEF IInv

-----------------------------------------------------------------------------
(* Steps of the sealer.                                                    *)

\* The sealer has a block.
LEMMA SealerHasBlock ==
    ASSUME IInv, Sealing
    PROVE  /\ sealed + 1 \in 1 .. Len(ends) /\ sealed \in Nat /\ Len(ends) \in Nat
           /\ keeper.pc # "start" /\ fetch.pc # "start"
  BY ChainTypes DEF IInv, FreshInv, Sealing

\* A sealer's step leaves everything in memory alone.
LEMMA MemorySame ==
    ASSUME IInv, ExecInv', UNCHANGED <<store, fetch, keeper, crashes, deleted, overtaken, exec>>,
           keeper.pc # "start", fetch.pc # "start", DOMAIN rows \subseteq DOMAIN rows',
           \A t \in AnyTx : Traced(t) => Traced(t)'
    PROVE  StoreInv' /\ FetchInv' /\ FreshInv' /\ KeeperTypes' /\ CurInv' /\ OrderInv'
<1>1. StoreInv' /\ KeeperTypes' /\ CurInv'
  BY MempoolSame
<1>2. FetchInv' /\ FreshInv'
  BY FetchSame DEF IInv, FreshInv
<1>3. OrderInv'
  BY OrderSame DEF IInv
<1> QED BY <1>1, <1>2, <1>3

\* The storage logs of a block are persisted.
LEMMA StorageLogsStep ==
    ASSUME IInv, insert_storage_logs
    PROVE  IInv'
<1>1. /\ Sealing /\ parts' = parts \cup {"logs"}
      /\ rows' = rows /\ clock' = clock /\ ops' = ops /\ store' = store
      /\ fetch' = fetch /\ keeper' = keeper /\ crashes' = crashes /\ deleted' = deleted
      /\ overtaken' = overtaken /\ exec' = exec /\ ends' = ends /\ sealed' = sealed /\ batched' = batched
  BY DEF insert_storage_logs, history
<1>2. /\ sealed + 1 \in 1 .. Len(ends) /\ sealed \in Nat /\ Len(ends) \in Nat
      /\ keeper.pc # "start" /\ fetch.pc # "start"
  BY <1>1, SealerHasBlock
<1>3. /\ ExecInv' /\ \A b : EndOf(b)' = EndOf(b) /\ BlockTxs(b)' = BlockTxs(b)
  <2>1. parts' \subseteq {"txs", "logs"} /\ sealed' < Len(ends) /\ batched' \in Nat /\ batched' <= sealed'
    BY <1>1, <1>2, ChainTypes DEF IInv, ExecInv
  <2> QED BY <1>1, <1>2, <2>1, SealerKeeps DEF IInv
<1>4. Marked' = Marked
  BY <1>1 DEF Marked
<1>5. RowTypes' /\ (\A t : Traced(t) => Traced(t)') /\ RowsInv'
  BY <1>1, <1>3, <1>4, TableSame DEF IInv
<1>6. UnmarkedInv'
  <2>1. Marked \in 0 .. Len(ends)
    BY ChainTypes DEF IInv
  <2>2. EndOf(Marked) \in Nat /\ EndOf(Marked)' = EndOf(Marked)
    BY <1>1, <1>4, <2>1, ChainTypes DEF IInv, EndOf
  <2> QED BY <1>1, <1>5, <2>2, UnmarkedKept DEF IInv
<1>7. StoreInv' /\ FetchInv' /\ FreshInv' /\ KeeperTypes' /\ CurInv' /\ OrderInv'
  BY <1>1, <1>2, <1>3, <1>5, MemorySame
<1> QED BY <1>3, <1>5, <1>6, <1>7 DEF IInv

\* The header of a block is persisted.
LEMMA InsertBlockStep ==
    ASSUME IInv, insert_l2_block
    PROVE  IInv'
<1>1. /\ Sealing /\ parts = {"txs", "logs"} /\ parts' = {} /\ sealed' = sealed + 1
      /\ rows' = rows /\ clock' = clock /\ ops' = ops /\ store' = store
      /\ fetch' = fetch /\ keeper' = keeper /\ crashes' = crashes /\ deleted' = deleted
      /\ overtaken' = overtaken /\ exec' = exec /\ ends' = ends /\ batched' = batched
  BY DEF insert_l2_block, history
<1>2. /\ sealed + 1 \in 1 .. Len(ends) /\ sealed \in Nat /\ Len(ends) \in Nat
      /\ keeper.pc # "start" /\ fetch.pc # "start"
  BY <1>1, SealerHasBlock
<1>3. /\ ExecInv' /\ \A b : EndOf(b)' = EndOf(b) /\ BlockTxs(b)' = BlockTxs(b)
  <2>1. sealed' \in Nat /\ sealed <= sealed' /\ sealed' <= Len(ends) /\ batched' \in Nat /\ batched' <= sealed'
    BY <1>1, <1>2, ChainTypes DEF IInv
  <2> QED BY <1>1, <2>1, SealerKeeps DEF IInv
<1>4. Marked' = Marked
  BY <1>1 DEF Marked
<1>5. RowTypes' /\ (\A t : Traced(t) => Traced(t)') /\ RowsInv'
  BY <1>1, <1>3, <1>4, TableSame DEF IInv
<1>6. UnmarkedInv'
  <2>1. Marked \in 0 .. Len(ends)
    BY ChainTypes DEF IInv
  <2>2. EndOf(Marked) \in Nat /\ EndOf(Marked)' = EndOf(Marked)
    BY <1>1, <1>4, <2>1, ChainTypes DEF IInv, EndOf
  <2> QED BY <1>1, <1>5, <2>2, UnmarkedKept DEF IInv
<1>7. StoreInv' /\ FetchInv' /\ FreshInv' /\ KeeperTypes' /\ CurInv' /\ OrderInv'
  BY <1>1, <1>2, <1>3, <1>5, MemorySame
<1> QED BY <1>3, <1>5, <1>6, <1>7 DEF IInv

\* A key is executed by one transaction in a block, and in one block unless its
\* row was deleted.
LEMMA BlockKeys ==
    ASSUME ExecInv, PriorityInOrder, NEW b \in 1 .. Len(ends), NEW c \in 1 .. Len(ends),
           NEW t \in BlockTxs(b), NEW u \in BlockTxs(c), Key(t) = Key(u)
    PROVE  (b = c => t = u) /\ (b = c \/ Key(t) \in deleted)
<1>1. PICK i \in EndOf(b - 1) + 1 .. EndOf(b) : t = exec[i]
  BY DEF BlockTxs
<1>2. PICK j \in EndOf(c - 1) + 1 .. EndOf(c) : u = exec[j]
  BY DEF BlockTxs
<1>3. i \in 1 .. Len(exec) /\ j \in 1 .. Len(exec) /\ t \in AnyTx /\ u \in AnyTx
  BY <1>1, <1>2, BlockPositions
<1>4. CASE t.pri
  <2>1. t = u
    BY <1>3, <1>4, SameKey
  <2>2. ASSUME Key(t) \notin deleted PROVE b = c
    <3>1. i = j
      BY <1>1, <1>2, <1>3, <2>2, DistinctKeys
    <3> QED BY <3>1, BlockPositions
  <2> QED BY <2>1, <2>2
<1>5. CASE ~t.pri
  <2>1. i = j
    BY <1>1, <1>2, <1>3, <1>5, DistinctNonces
  <2> QED BY <1>1, <1>2, <2>1, BlockPositions
<1> QED BY <1>4, <1>5

\* The transactions of a block are marked: every row with the key of one of them
\* becomes its row, and rows of earlier blocks have other keys.
LEMMA MarkStep ==
    ASSUME IInv, mark_txs_as_executed_in_l2_block
    PROVE  IInv'
<1>1. PICK b : b = sealed + 1
  OBVIOUS
<1> DEFINE mine(k) == {t \in BlockTxs(b) : Key(t) = k}
<1>2. /\ Sealing /\ "txs" \notin parts /\ parts' = parts \cup {"txs"}
      /\ rows' = [k \in DOMAIN rows |->
                        IF mine(k) = {} THEN rows[k]
                        ELSE [tx |-> CHOOSE t \in mine(k) : TRUE, mp |-> FALSE,
                              blk |-> b, bat |-> FALSE, err |-> FALSE]]
      /\ clock' = clock /\ ops' = ops /\ store' = store
      /\ fetch' = fetch /\ keeper' = keeper /\ crashes' = crashes /\ deleted' = deleted
      /\ overtaken' = overtaken /\ exec' = exec /\ ends' = ends /\ sealed' = sealed /\ batched' = batched
  BY <1>1 DEF mark_txs_as_executed_in_l2_block, history
<1>3. /\ b \in 1 .. Len(ends) /\ b \in Nat /\ b # 0 /\ sealed \in Nat /\ Len(ends) \in Nat /\ b > sealed
      /\ keeper.pc # "start" /\ fetch.pc # "start"
  BY <1>1, <1>2, SealerHasBlock
<1>4. Marked = sealed /\ Marked' = b
  BY <1>1, <1>2 DEF Marked
<1>5. /\ ExecInv' /\ \A c : EndOf(c)' = EndOf(c) /\ BlockTxs(c)' = BlockTxs(c)
  <2>1. parts' \subseteq {"txs", "logs"} /\ sealed' < Len(ends) /\ batched' \in Nat /\ batched' <= sealed'
    BY <1>1, <1>2, <1>3, ChainTypes DEF IInv, ExecInv
  <2> QED BY <1>2, <1>3, <2>1, SealerKeeps DEF IInv
<1>6. \A t \in BlockTxs(b) : t \in AnyTx /\ Traced(t)
  <2> SUFFICES ASSUME NEW i \in EndOf(b - 1) + 1 .. EndOf(b)
               PROVE  exec[i] \in AnyTx /\ Traced(exec[i])
    BY DEF BlockTxs
  <2>1. i \in 1 .. Len(exec) /\ exec[i] \in AnyTx /\ b - 1 = Marked
    BY <1>1, <1>3, <1>4, BlockPositions DEF IInv
  <2>2. EndOf(Marked) \in Nat /\ EndOf(b) \in Nat /\ EndOf(b) <= Len(exec) /\ Len(exec) \in Nat
    BY <1>3, <2>1, BlockPositions, ChainTypes DEF IInv
  <2>3. i \in EndOf(Marked) + 1 .. Len(exec)
    BY <2>1, <2>2
  <2> QED BY <1>3, <2>1, <2>3 DEF IInv, UnmarkedInv
<1>7. DOMAIN rows' = DOMAIN rows
  BY <1>2
<1>8. ASSUME NEW k \in DOMAIN rows, NEW t \in BlockTxs(b), Key(t) = k
      PROVE  rows'[k] = [tx |-> t, mp |-> FALSE, blk |-> b, bat |-> FALSE, err |-> FALSE]
  <2>1. t \in mine(k)
    BY <1>8
  <2>2. \A u \in mine(k) : u = t
    BY <1>3, <1>8, BlockKeys DEF IInv, OrderInv
  <2>3. (CHOOSE u \in mine(k) : TRUE) = t /\ mine(k) # {}
    BY <2>1, <2>2
  <2> QED BY <1>2, <2>3
<1>9. ASSUME NEW k \in DOMAIN rows, \A t \in BlockTxs(b) : Key(t) # k
      PROVE  rows'[k] = rows[k]
  <2>1. mine(k) = {}
    BY <1>9
  <2> QED BY <1>2, <2>1
<1> HIDE DEF mine
<1>10. ASSUME NEW k \in DOMAIN rows, NEW t \in BlockTxs(b), Key(t) = k
       PROVE  rows'[k] \in Row /\ rows'[k].tx = t /\ rows'[k].blk = b /\ ~rows'[k].bat
  <2>1. rows'[k] = [tx |-> t, mp |-> FALSE, blk |-> b, bat |-> FALSE, err |-> FALSE]
    BY <1>8, <1>10
  <2>2. t \in AnyTx /\ b \in Nat
    BY <1>3, <1>6
  <2> QED BY <2>1, <2>2 DEF Row
<1>11. RowTypes'
  <2>1. ASSUME NEW k \in DOMAIN rows
        PROVE  rows'[k] \in Row /\ Key(rows'[k].tx) = k /\ (rows'[k].tx.pri => rows'[k].tx.n < ops)
    <3>1. /\ rows[k] \in Row /\ Key(rows[k].tx) = k /\ (rows[k].tx.pri => rows[k].tx.n < ops)
          /\ rows[k].tx \in AnyTx
      BY RowFields DEF IInv, RowTypes
    <3>2. CASE \A t \in BlockTxs(b) : Key(t) # k
      BY <1>9, <3>1, <3>2
    <3>3. ASSUME NEW t \in BlockTxs(b), Key(t) = k
          PROVE  rows'[k] \in Row /\ Key(rows'[k].tx) = k /\ (rows'[k].tx.pri => rows'[k].tx.n < ops)
      <4>1. rows'[k] \in Row /\ rows'[k].tx = t
        BY <1>10, <3>3
      <4>2. t.pri = rows[k].tx.pri /\ t.n = rows[k].tx.n
        BY <1>6, <3>1, <3>3, SameKey
      <4> QED BY <3>1, <3>3, <4>1, <4>2
    <3> QED BY <3>2, <3>3
  <2>2. \A k \in DOMAIN rows : Key(rows[k].tx)' = Key(rows'[k].tx)
    BY DEF Key
  <2> QED BY <1>2, <1>7, <2>1, <2>2 DEF IInv, RowTypes
<1>12. \A t \in AnyTx : Traced(t) => Traced(t)'
  BY <1>2, <1>7 DEF Traced
<1>13. ASSUME NEW k \in DOMAIN rows', rows'[k].blk # 0
       PROVE  rows'[k].blk <= Marked' /\ (rows[k].tx \in BlockTxs(rows[k].blk))'
  <2>0. PICK c : c = rows'[k].blk
    OBVIOUS
  <2>1. BlockTxs(rows[k].blk)' = BlockTxs(c)
    <3>1. BlockTxs(rows[k].blk)' = BlockTxs(c)'
      BY <2>0 DEF BlockTxs, EndOf
    <3> QED BY <1>5, <3>1
  <2>2. CASE \A t \in BlockTxs(b) : Key(t) # k
    <3>1. rows'[k] = rows[k] /\ rows[k].blk \in Nat
      BY <1>7, <1>9, <2>2 DEF IInv, RowTypes, Row
    <3>2. rows[k].blk <= sealed /\ rows[k].tx \in BlockTxs(c)
      BY <1>4, <1>7, <1>13, <2>0, <3>1 DEF IInv, RowsInv
    <3> QED BY <1>3, <1>4, <2>1, <3>1, <3>2
  <2>3. ASSUME NEW t \in BlockTxs(b), Key(t) = k
        PROVE  rows'[k].blk <= Marked' /\ (rows[k].tx \in BlockTxs(rows[k].blk))'
    <3>1. rows'[k].tx = t /\ rows'[k].blk = b
      BY <1>7, <1>10, <2>3
    <3> QED BY <1>3, <1>4, <2>0, <2>1, <3>1
  <2> QED BY <2>2, <2>3
<1>14. ASSUME NEW c \in 1 .. b, NEW t \in BlockTxs(c)
       PROVE  /\ t.pri /\ Key(t) \notin deleted => Key(t) \in DOMAIN rows' /\ rows'[Key(t)].blk = c
              /\ c > batched => HasRow(t, c)' \/ Key(t) \in deleted
  <2>1. CASE c = b
    <3>1. Traced(t)
      BY <1>6, <2>1
    <3>2. ASSUME Key(t) \in DOMAIN rows PROVE rows'[Key(t)].blk = b /\ HasRow(t, c)'
      <4>1. rows'[Key(t)].tx = t /\ rows'[Key(t)].blk = b /\ ~rows'[Key(t)].bat
        BY <1>10, <2>1, <3>2
      <4> QED BY <1>7, <2>1, <3>2, <4>1 DEF HasRow, Key
    <3> QED BY <1>7, <2>1, <3>1, <3>2 DEF Traced
  <2>2. CASE c # b
    <3>1. c \in 1 .. sealed /\ c \in 1 .. Len(ends)
      BY <1>1, <1>3, <2>2
    <3> SUFFICES ASSUME Key(t) \notin deleted
                 PROVE  /\ t.pri => Key(t) \in DOMAIN rows' /\ rows'[Key(t)].blk = c
                        /\ c > batched => HasRow(t, c)'
      OBVIOUS
    <3>2. /\ t.pri => Key(t) \in DOMAIN rows /\ rows[Key(t)].blk = c
          /\ c > batched => HasRow(t, c)
      BY <1>4, <3>1 DEF IInv, RowsInv
    <3>3. \A u \in BlockTxs(b) : Key(u) # Key(t)
      BY <1>3, <2>2, <3>1, BlockKeys DEF IInv, OrderInv
    <3>4. Key(t) \in DOMAIN rows => rows'[Key(t)] = rows[Key(t)]
      BY <1>9, <3>3
    <3>5. HasRow(t, c) => HasRow(t, c)'
      BY <1>7, <3>4 DEF HasRow, Key
    <3> QED BY <1>7, <3>2, <3>4, <3>5
  <2> QED BY <2>1, <2>2
<1>15. RowsInv'
  <2>1. \A c \in 1 .. Marked' : c \in 1 .. b /\ BlockTxs(c)' = BlockTxs(c)
    BY <1>4, <1>5
  <2>2. \A t : Key(t)' = Key(t)
    BY DEF Key
  <2>3. \A k \in DOMAIN rows' : rows'[k].blk # 0 =>
            rows'[k].blk <= Marked' /\ (rows[k].tx \in BlockTxs(rows[k].blk))'
    BY <1>13
  <2>4. \A c \in 1 .. b : \A t \in BlockTxs(c) :
            /\ t.pri /\ Key(t) \notin deleted => Key(t) \in DOMAIN rows' /\ rows'[Key(t)].blk = c
            /\ c > batched => HasRow(t, c)' \/ Key(t) \in deleted
    BY <1>14
  <2>5. batched' = batched /\ deleted' = deleted
    BY <1>2
  <2> QED BY <2>1, <2>2, <2>3, <2>4, <2>5, SMTT(30) DEF RowsInv
<1>16. UnmarkedInv'
  <2>1. Marked \in 0 .. Len(ends) /\ b \in 0 .. Len(ends) /\ Marked <= b
    BY <1>1, <1>3, <1>4
  <2>2. EndOf(Marked) \in Nat /\ EndOf(b) \in Nat /\ EndOf(Marked) <= EndOf(b)
    BY <2>1, ChainTypes DEF IInv
  <2>3. EndOf(Marked)' = EndOf(b)
    BY <1>2, <1>4 DEF EndOf
  <2> QED BY <1>2, <1>12, <2>2, <2>3, UnmarkedKept DEF IInv
<1>17. StoreInv' /\ FetchInv' /\ FreshInv' /\ KeeperTypes' /\ CurInv' /\ OrderInv'
  BY <1>2, <1>3, <1>5, <1>7, <1>12, MemorySame
<1> QED BY <1>5, <1>11, <1>15, <1>16, <1>17 DEF IInv

-----------------------------------------------------------------------------
(* Crashes and the recovery from them.                                     *)

\* The id after the greatest one.
LEMMA NextIdFacts ==
    ASSUME NEW ids \in SUBSET Nat, NEW n \in Nat, \A v \in ids : v < n
    PROVE  /\ NextId(ids) \in Nat /\ NextId(ids) <= n
           /\ NextId(ids) > 0 => NextId(ids) - 1 \in ids
           /\ \A v \in ids : v < NextId(ids)
<1>1. CASE ids = {}
  BY <1>1 DEF NextId
<1>2. CASE ids # {}
  <2> DEFINE max == CHOOSE i \in ids : \A j \in ids : j <= i
  <2>1. \E i \in ids : \A j \in ids : j <= i
    <3>1. ids \in SUBSET (0 .. n)
      OBVIOUS
    <3> QED BY <1>2, <3>1, NatMax
  <2>2. max \in ids /\ \A j \in ids : j <= max
    BY <2>1
  <2>3. NextId(ids) = 1 + max
    BY <1>2 DEF NextId
  <2> HIDE DEF max
  <2>4. max \in Nat /\ max < n
    BY <2>2
  <2> QED BY <2>2, <2>3, <2>4
<1> QED BY <1>1, <1>2

\* Every executed transaction up to the end of a block is in a block.
LEMMA BlockOf ==
    ASSUME ExecInv, NEW m \in 0 .. Len(ends), NEW i \in 1 .. EndOf(m)
    PROVE  \E b \in 1 .. m : exec[i] \in BlockTxs(b)
<1>1. m \in Nat /\ Len(ends) \in Nat /\ EndOf(m) \in Nat
  BY ChainTypes
<1> DEFINE T == {n \in 0 .. m : i <= EndOf(n)}
<1>2. T \in SUBSET Nat /\ m \in T
  BY <1>1
<1>3. PICK b \in T : \A c \in T : b <= c
  BY <1>2, NatMin
<1>4. b # 0
  BY <1>1, <1>3 DEF EndOf
<1>5. b - 1 \in 0 .. m /\ b \in 1 .. m /\ b - 1 \notin T /\ b - 1 \in 0 .. Len(ends) /\ b \in 0 .. Len(ends)
  BY <1>1, <1>3, <1>4
<1>6. EndOf(b - 1) \in Nat /\ EndOf(b) \in Nat
  BY <1>5, ChainTypes
<1>7. i \in EndOf(b - 1) + 1 .. EndOf(b)
  BY <1>1, <1>3, <1>5, <1>6
<1> QED BY <1>5, <1>7 DEF BlockTxs

\* At a restart it is the turn of the id read from the table, and the watcher
\* begins after the ids of the table.
LEMMA NextPriorityId ==
    ASSUME ExecInv, RowTypes, RowsInv
    PROVE  /\ IsTurn(next_priority_id, OpIds(EndOf(sealed)))
           /\ next_expected_priority_id \in 0 .. ops
           /\ \A k \in DOMAIN rows : rows[k].tx.pri => rows[k].tx.n < next_expected_priority_id
<1> DEFINE E == EndOf(sealed)
           D == {k \in DOMAIN rows : rows[k].tx.pri /\ rows[k].blk \in 1 .. sealed}
           ids == {rows[k].tx.n : k \in D}
           all == {rows[k].tx.n : k \in {k \in DOMAIN rows : rows[k].tx.pri}}
<1>1. sealed \in 0 .. Len(ends) /\ sealed \in Nat /\ Len(ends) \in Nat /\ Marked \in Nat /\ sealed <= Marked
      /\ Marked <= Len(ends)
  BY ChainTypes
<1>2. E \in Nat /\ E <= Len(exec) /\ Len(exec) \in Nat /\ ops \in Nat
  BY <1>1, ChainTypes, Constants DEF RowTypes
<1>3. \A k \in DOMAIN rows : rows[k].tx \in AnyTx /\ rows[k].tx.n \in Nat /\ Key(rows[k].tx) = k
                             /\ (rows[k].tx.pri => rows[k].tx.n < ops)
  BY RowFields, TxFields DEF RowTypes
<1>4. ids \in SUBSET Nat /\ all \in SUBSET Nat /\ (\A v \in ids : v < ops) /\ \A v \in all : v < ops
  BY <1>3
<1>5. ASSUME NEW v \in ids PROVE v \in OpIds(E)
  <2>1. PICK k \in DOMAIN rows : rows[k].tx.pri /\ rows[k].blk \in 1 .. sealed /\ v = rows[k].tx.n
    BY <1>5
  <2>2. PICK b \in 1 .. sealed : b = rows[k].blk
    BY <2>1
  <2>3. rows[k].tx \in BlockTxs(b) /\ b \in 1 .. Len(ends) /\ b \in 0 .. Len(ends) /\ b <= sealed
    BY <1>1, <2>2 DEF RowsInv
  <2>4. PICK i \in EndOf(b - 1) + 1 .. EndOf(b) : rows[k].tx = exec[i]
    BY <2>3 DEF BlockTxs
  <2>5. i \in 1 .. Len(exec) /\ EndOf(b) \in Nat /\ EndOf(b) <= E
    BY <1>1, <2>3, BlockPositions, ChainTypes
  <2>6. EndOf(b - 1) \in Nat
    BY <2>3, BlockPositions
  <2>7. i \in 1 .. E
    BY <1>2, <2>4, <2>5, <2>6
  <2> QED BY <2>1, <2>4, <2>7 DEF OpIds
<1>6. ASSUME NEW v \in OpIds(E), <<"l1", v>> \notin deleted PROVE v \in ids
  <2>1. PICK i \in 1 .. E : exec[i].pri /\ exec[i].n = v
    BY DEF OpIds
  <2>2. PICK b \in 1 .. sealed : exec[i] \in BlockTxs(b)
    BY <1>1, BlockOf
  <2>3. PICK t : t = exec[i]
    OBVIOUS
  <2>4. t \in AnyTx /\ t.pri /\ t.n = v /\ Key(t) = <<"l1", v>>
    <3>1. i \in 1 .. Len(exec)
      BY <1>2
    <3> QED BY <2>1, <2>3, <3>1, ChainTypes DEF Key
  <2>5. Key(t) \in DOMAIN rows /\ rows[Key(t)].blk = b
    BY <1>1, <1>6, <2>2, <2>3, <2>4 DEF RowsInv
  <2>6. PICK k \in DOMAIN rows : k = Key(t)
    BY <2>5
  <2>7. rows[k].tx.pri /\ rows[k].tx.n = v
    BY <1>3, <2>4, <2>6, SameKey
  <2> QED BY <2>2, <2>5, <2>6, <2>7
<1>7. next_priority_id = NextId(ids) /\ next_expected_priority_id = NextId(all)
  BY DEF next_priority_id, next_expected_priority_id
<1>8. \A v \in OpIds(E) : v \in Nat
  <2>1. \A i \in 1 .. E : exec[i] \in AnyTx
    BY <1>2, ChainTypes
  <2> QED BY <2>1, TxFields DEF OpIds
<1>9. \A k \in DOMAIN rows : rows[k].tx.pri => rows[k].tx.n \in all
  OBVIOUS
<1> HIDE DEF ids, all, E
<1>10. /\ NextId(ids) \in Nat /\ (NextId(ids) > 0 => NextId(ids) - 1 \in ids)
       /\ \A v \in ids : v < NextId(ids)
  BY <1>2, <1>4, NextIdFacts
<1>11. ASSUME NEW v \in OpIds(E), v >= NextId(ids) PROVE <<"l1", v>> \in deleted
  BY <1>6, <1>8, <1>10, <1>11
<1>12. IsTurn(next_priority_id, OpIds(E))
  BY <1>5, <1>7, <1>10, <1>11 DEF IsTurn
<1>13. NextId(all) \in Nat /\ NextId(all) <= ops /\ \A v \in all : v < NextId(all)
  BY <1>2, <1>4, NextIdFacts
<1> QED BY <1>2, <1>7, <1>9, <1>12, <1>13 DEF E

\* A restart: what was not persisted is lost, and the mempool starts over.
LEMMA RestartStep ==
    ASSUME IInv, Restart, crashes' \in 0 .. MaxCrashes
    PROVE  IInv'
<1>1. PICK m : m = IF parts = {} THEN sealed ELSE sealed + 1
  OBVIOUS
<1>2. /\ store' = NewStore(next_priority_id) /\ fetch' = StartFetch /\ keeper' = StartKeeper
      /\ exec' = SubSeq(exec, 1, EndOf(m)) /\ ends' = SubSeq(ends, 1, m) /\ overtaken' = {}
      /\ rows' = rows /\ clock' = clock /\ ops' = next_expected_priority_id /\ sealed' = sealed /\ parts' = parts
      /\ batched' = batched /\ deleted' = deleted
  BY <1>1 DEF Restart
<1>3. /\ m \in 0 .. Len(ends) /\ sealed <= m /\ Marked <= m /\ Marked \in Nat /\ sealed \in Nat
      /\ parts \subseteq {"txs", "logs"} /\ (parts # {} => sealed < m)
  <2>1. sealed \in Nat /\ Len(ends) \in Nat /\ sealed <= Len(ends) /\ Marked \in Nat
    BY ChainTypes DEF IInv
  <2>2. parts \subseteq {"txs", "logs"} /\ (parts # {} => sealed < Len(ends))
    BY DEF IInv, ExecInv
  <2>3. parts = {} => Marked = sealed
    BY DEF Marked
  <2>4. Marked <= sealed + 1
    BY ChainTypes DEF IInv
  <2>5. CASE parts = {}
    <3>1. m = sealed /\ Marked = sealed
      BY <1>1, <2>3, <2>5
    <3> QED BY <2>1, <2>2, <2>5, <3>1
  <2>6. CASE parts # {}
    <3>1. m = sealed + 1 /\ sealed < Len(ends)
      BY <1>1, <2>2, <2>6
    <3>2. m \in 0 .. Len(ends) /\ sealed <= m /\ Marked <= m /\ sealed < m
      BY <2>1, <2>4, <3>1
    <3> QED BY <2>1, <2>2, <3>2
  <2> QED BY <2>5, <2>6
<1>4. /\ ExecInv' /\ Len(ends') = m /\ Len(exec') = EndOf(m)
      /\ \A b \in 1 .. m : ends'[b] = ends[b]
      /\ \A i \in 1 .. EndOf(m) : exec'[i] = exec[i]
  BY <1>2, <1>3, ChainCut DEF IInv
<1>5. /\ \A b \in 0 .. m : EndOf(b)' = EndOf(b)
      /\ \A b \in 1 .. m : BlockTxs(b)' = BlockTxs(b)
      /\ \A k \in 0 .. EndOf(m) : OpIds(k)' = OpIds(k)
  BY <1>3, <1>4, ChainKept DEF IInv
<1>6. Marked' = Marked /\ \A b \in 1 .. Marked : BlockTxs(b)' = BlockTxs(b)
  BY <1>2, <1>3, <1>5 DEF Marked
<1>7. RowTypes' /\ RowsInv'
  <2>1. /\ next_expected_priority_id \in 0 .. ops
        /\ \A k \in DOMAIN rows : rows[k].tx.pri => rows[k].tx.n < next_expected_priority_id
    BY NextPriorityId DEF IInv
  <2>2. PICK n : n = next_expected_priority_id
    OBVIOUS
  <2>3. /\ n \in 0 .. Len(OpFrom) /\ clock + n <= MaxTxs /\ ops' = n
        /\ \A k \in DOMAIN rows : rows[k].tx.pri => rows[k].tx.n < n
    BY <1>2, <2>1, <2>2, Constants DEF IInv, RowTypes
  <2>4. \A t : Key(t)' = Key(t)
    BY DEF Key
  <2>5. RowTypes'
    BY <1>2, <2>3, <2>4 DEF IInv, RowTypes, Key
  <2> QED BY <1>2, <1>6, <2>5, RowsKept DEF IInv
<1>8. /\ keeper'.pc = "start" /\ keeper'.filter = 0
      /\ keeper' = [pc |-> keeper'.pc, filter |-> keeper'.filter, cur |-> keeper'.cur]
  BY <1>2 DEF StartKeeper
<1>9. UnmarkedInv' /\ KeeperTypes' /\ CurInv'
  BY <1>2, <1>8 DEF UnmarkedInv, KeeperTypes, CurInv
<1>10. IsTurn(next_priority_id, OpIds(EndOf(sealed))) /\ next_priority_id \in Nat
  BY NextPriorityId DEF IInv, IsTurn
<1>11. /\ store' \in Store /\ AccountsInv(store') /\ QueueInv(store', {})
       /\ store'.nextId = next_priority_id
       /\ store'.l1 = {} /\ store'.queue = {} /\ DOMAIN store'.acc = {} /\ HeldTxs(store') = {}
  BY <1>2, <1>10, NewStoreKeeps
<1>12. StoreInv'
  BY <1>2, <1>11, StoreChanged
<1>13. FetchInv' /\ FreshInv'
  BY <1>2, <1>8, <1>11, FetchFields, FS_EmptySet DEF FetchInv, FreshInv
<1>14. OrderInv'
  <2>1. PICK e : e = EndOf(sealed)
    OBVIOUS
  <2>2. sealed \in 0 .. m /\ sealed \in 0 .. Len(ends)
    BY <1>3, ChainTypes DEF IInv
  <2>3. EndOf(sealed)' = e
    BY <1>2, <1>5, <2>1, <2>2 DEF EndOf
  <2>4. e \in 0 .. EndOf(m)
    BY <1>3, <2>1, <2>2, ChainTypes DEF IInv
  <2>5. OpIds(e)' = OpIds(e)
    BY <1>5, <2>4
  <2>6. OpIds(EndOf(sealed))' = OpIds(e)'
    BY <2>3 DEF OpIds
  <2>7. IsTurn(store.nextId, OpIds(EndOf(sealed)))'
    BY <1>2, <1>10, <1>11, <2>1, <2>5, <2>6 DEF IsTurn
  <2>8. PriorityInOrder'
    <3>1. EndOf(m) <= Len(exec)
      BY <1>3, ChainTypes DEF IInv
    <3> QED BY <1>2, <1>4, <3>1, OrderCut DEF IInv, OrderInv
  <2>9. ~OpRuns' /\ TurnId' = store'.nextId
    BY <1>8 DEF OpRuns, TurnId
  <2>10. IsTurn(TurnId, OpIds(IF keeper.pc = "start" THEN EndOf(sealed) ELSE Len(exec)))'
    BY <1>8, <2>7, <2>9
  <2> QED BY <2>8, <2>9, <2>10 DEF OrderInv
<1> QED BY <1>4, <1>7, <1>9, <1>12, <1>13, <1>14 DEF IInv

\* clear_pending_l2_block and the pending batch.
LEMMA InitializeStep ==
    ASSUME IInv, initialize
    PROVE  IInv'
<1>1. PICK f \in IF sealed = batched THEN {0} ELSE Fees :
        keeper' = [keeper EXCEPT
            !.filter = f,
            !.pc = IF ~Reexecutable THEN "stopped"
                   ELSE IF sealed = batched THEN "nobatch" ELSE "ready"]
  BY DEF initialize
<1>2. /\ keeper.pc = "start" /\ parts' = {}
      /\ rows' = [k \in DOMAIN rows |->
                    IF rows[k].blk > sealed
                    THEN [rows[k] EXCEPT !.blk = 0, !.bat = FALSE, !.err = FALSE]
                    ELSE rows[k]]
      /\ exec' = SubSeq(exec, 1, EndOf(sealed)) /\ ends' = SubSeq(ends, 1, sealed)
      /\ clock' = clock /\ ops' = ops /\ store' = store /\ fetch' = fetch /\ sealed' = sealed
      /\ batched' = batched /\ crashes' = crashes /\ deleted' = deleted /\ overtaken' = overtaken
  BY DEF initialize, history
<1>3. PICK pc \in {"stopped", "nobatch", "ready"} : keeper' = [keeper EXCEPT !.filter = f, !.pc = pc]
  BY <1>1
<1>4. /\ keeper'.pc = pc /\ keeper'.filter = f /\ f \in Nat /\ pc # "start" /\ pc # "executing"
      /\ keeper' = [pc |-> keeper'.pc, filter |-> keeper'.filter, cur |-> keeper'.cur]
  <2>1. f \in Nat
    BY Constants
  <2> QED BY <1>3, <2>1 DEF IInv, KeeperTypes
<1>5. /\ sealed \in 0 .. Len(ends) /\ sealed \in Nat /\ Marked \in Nat /\ sealed <= Marked
      /\ Marked <= Len(ends) /\ EndOf(sealed) \in Nat
  BY ChainTypes DEF IInv
<1>6. /\ ExecInv' /\ Len(ends') = sealed /\ Len(exec') = EndOf(sealed)
      /\ \A b \in 1 .. sealed : ends'[b] = ends[b]
      /\ \A i \in 1 .. EndOf(sealed) : exec'[i] = exec[i]
  <2>1. PICK m \in 0 .. Len(ends) : m = sealed
    BY <1>5
  <2>2. parts' \subseteq {"txs", "logs"} /\ (parts' # {} => sealed < m) /\ sealed <= m
    <3>1. parts' = {}
      BY <1>2
    <3>2. sealed <= m
      BY <1>5, <2>1
    <3> QED BY <3>1, <3>2
  <2>3. /\ ExecInv' /\ Len(ends') = m /\ Len(exec') = EndOf(m)
        /\ \A b \in 1 .. m : ends'[b] = ends[b]
        /\ \A i \in 1 .. EndOf(m) : exec'[i] = exec[i]
    BY <1>2, <2>1, <2>2, ChainCut DEF IInv
  <2> QED BY <2>1, <2>3
<1>7. /\ \A b \in 0 .. sealed : EndOf(b)' = EndOf(b)
      /\ \A b \in 1 .. sealed : BlockTxs(b)' = BlockTxs(b)
      /\ \A k \in 0 .. EndOf(sealed) : OpIds(k)' = OpIds(k)
  BY <1>5, <1>6, ChainKept DEF IInv
<1>8. Marked' = sealed
  BY <1>2 DEF Marked
<1>9. DOMAIN rows' = DOMAIN rows
  BY <1>2
<1>10. ASSUME NEW k \in DOMAIN rows
       PROVE  /\ rows'[k] \in Row /\ rows'[k].tx = rows[k].tx /\ rows[k].blk \in Nat
              /\ rows[k].blk <= sealed => rows'[k] = rows[k]
              /\ rows[k].blk > sealed => rows'[k].blk = 0
  <2>1. rows[k] \in Row /\ rows[k].blk \in Nat
    BY RowFields DEF IInv, RowTypes
  <2>2. CASE rows[k].blk > sealed
    <3>1. rows'[k] = [rows[k] EXCEPT !.blk = 0, !.bat = FALSE, !.err = FALSE]
      BY <1>2, <2>2
    <3>2. rows'[k] = [tx |-> rows[k].tx, mp |-> rows[k].mp, blk |-> 0, bat |-> FALSE, err |-> FALSE]
      BY <2>1, <3>1 DEF Row
    <3>3. rows[k].tx \in AnyTx /\ rows[k].mp \in BOOLEAN
      BY <2>1, RowFields
    <3>4. rows'[k] \in Row
      BY <3>2, <3>3 DEF Row
    <3>5. rows'[k].tx = rows[k].tx /\ rows'[k].blk = 0
      BY <3>2
    <3> QED BY <1>5, <2>1, <2>2, <3>4, <3>5
  <2>3. CASE ~(rows[k].blk > sealed)
    BY <1>2, <2>1, <2>3
  <2> QED BY <2>2, <2>3
<1>11. RowTypes'
  <2>1. \A k \in DOMAIN rows' : Key(rows[k].tx)' = Key(rows[k].tx)
    BY <1>9, <1>10 DEF Key
  <2>2. \A k \in DOMAIN rows' : rows'[k] \in Row /\ rows'[k].tx = rows[k].tx
    BY <1>9, <1>10
  <2> QED BY <1>2, <1>9, <2>1, <2>2 DEF IInv, RowTypes
<1>12. \A t \in AnyTx : Traced(t) => Traced(t)'
  BY <1>2, <1>9 DEF Traced
<1>13. ASSUME NEW k \in DOMAIN rows', rows'[k].blk # 0
       PROVE  rows'[k].blk <= Marked' /\ (rows[k].tx \in BlockTxs(rows[k].blk))'
  <2>1. rows[k].blk \in Nat /\ rows[k].blk <= sealed /\ rows'[k] = rows[k] /\ k \in DOMAIN rows
    BY <1>5, <1>9, <1>10, <1>13
  <2>2. PICK b : b = rows[k].blk
    OBVIOUS
  <2>3. b \in 1 .. sealed
    BY <1>5, <1>13, <2>1, <2>2
  <2>4. rows[k].tx \in BlockTxs(b)
    BY <1>13, <2>1, <2>2 DEF IInv, RowsInv
  <2>5. BlockTxs(rows[k].blk)' = BlockTxs(b)'
    BY <2>1, <2>2 DEF BlockTxs, EndOf
  <2> QED BY <1>7, <1>8, <2>1, <2>2, <2>3, <2>4, <2>5
<1>14. ASSUME NEW b \in 1 .. sealed, NEW t \in BlockTxs(b)
       PROVE  /\ t.pri /\ Key(t) \notin deleted => Key(t) \in DOMAIN rows' /\ rows'[Key(t)].blk = b
              /\ b > batched => HasRow(t, b)' \/ Key(t) \in deleted
  <2>1. b \in 1 .. Marked /\ b <= sealed
    BY <1>5
  <2>2. /\ t.pri /\ Key(t) \notin deleted => Key(t) \in DOMAIN rows /\ rows[Key(t)].blk = b
        /\ b > batched => HasRow(t, b) \/ Key(t) \in deleted
    BY <2>1 DEF IInv, RowsInv
  <2>3. HasRow(t, b) => HasRow(t, b)'
    BY <1>9, <1>10, <2>1 DEF HasRow, Key
  <2> QED BY <1>9, <1>10, <2>1, <2>2, <2>3
<1>15. RowsInv'
  <2>1. \A t : Key(t)' = Key(t)
    BY DEF Key
  <2>2. \A c \in 1 .. Marked' : c \in 1 .. sealed /\ BlockTxs(c)' = BlockTxs(c)
    BY <1>7, <1>8
  <2>3. batched' = batched /\ deleted' = deleted
    BY <1>2
  <2>4. \A k \in DOMAIN rows' : rows'[k].blk # 0 =>
            rows'[k].blk <= Marked' /\ (rows[k].tx \in BlockTxs(rows[k].blk))'
    BY <1>13
  <2>5. \A b \in 1 .. sealed : \A t \in BlockTxs(b) :
            /\ t.pri /\ Key(t) \notin deleted => Key(t) \in DOMAIN rows' /\ rows'[Key(t)].blk = b
            /\ b > batched => HasRow(t, b)' \/ Key(t) \in deleted
    BY <1>14
  <2> QED BY <2>1, <2>2, <2>3, <2>4, <2>5, SMTT(30) DEF RowsInv
<1>16. EndOf(sealed)' = EndOf(sealed) /\ EndOf(Marked)' = EndOf(sealed)
  <2>1. PICK n \in 0 .. sealed : n = sealed
    BY <1>5
  <2>2. EndOf(n)' = EndOf(n)
    BY <1>7
  <2> QED BY <1>2, <1>8, <2>1, <2>2 DEF EndOf
<1>17. UnmarkedInv'
  BY <1>5, <1>6, <1>16 DEF UnmarkedInv
<1>18. StoreInv'
  BY <1>2, <1>12, StoreSame DEF IInv
<1>19. FetchInv' /\ FreshInv'
  <2>1. FetchInv'
    BY <1>2, <1>9, FetchSame DEF IInv
  <2>2. FreshInv'
    BY <1>2, <1>4, <1>6, <1>16 DEF IInv, FreshInv
  <2> QED BY <2>1, <2>2
<1>20. KeeperTypes' /\ CurInv'
  BY <1>2, <1>4 DEF IInv, KeeperTypes, CurInv
<1>21. OrderInv'
  <2>1. PICK e : e = EndOf(sealed)
    OBVIOUS
  <2>2. OpIds(e)' = OpIds(e)
    BY <1>5, <1>7, <2>1
  <2>3. OpIds(Len(exec))' = OpIds(e)'
    BY <1>6, <2>1 DEF OpIds
  <2>4. TurnId = store.nextId
    BY <1>2 DEF TurnId, OpRuns
  <2>5. IsTurn(store.nextId, OpIds(e))
    <3>1. IsTurn(TurnId, OpIds(EndOf(sealed)))
      BY <1>2 DEF IInv, OrderInv
    <3> QED BY <2>1, <2>4, <3>1
  <2>6. IsTurn(store.nextId, OpIds(Len(exec)))'
    BY <1>2, <2>2, <2>3, <2>5 DEF IsTurn
  <2>7. PriorityInOrder'
    <3>1. EndOf(sealed) <= Len(exec)
      BY <1>5, ChainTypes DEF IInv
    <3> QED BY <1>2, <1>6, <3>1, OrderCut DEF IInv, OrderInv
  <2>8. ~OpRuns' /\ TurnId' = store'.nextId /\ keeper'.pc # "start"
    BY <1>4 DEF OpRuns, TurnId
  <2>9. IsTurn(TurnId, OpIds(IF keeper.pc = "start" THEN EndOf(sealed) ELSE Len(exec)))'
    BY <2>6, <2>8
  <2> QED BY <2>7, <2>8, <2>9 DEF OrderInv
<1> QED BY <1>6, <1>11, <1>15, <1>17, <1>18, <1>19, <1>20, <1>21 DEF IInv

-----------------------------------------------------------------------------
(* The invariant, and what follows from it.                                *)

\* At the beginning there is nothing.
LEMMA InitIInv == Init => IInv
<1> SUFFICES ASSUME Init PROVE IInv
  OBVIOUS
<1>1. /\ rows = [k \in {} |-> 0] /\ clock = 0 /\ ops = 0
      /\ store = NewStore(0) /\ fetch = StartFetch /\ keeper = StartKeeper
      /\ exec = <<>> /\ ends = <<>> /\ sealed = 0 /\ parts = {} /\ batched = 0
      /\ crashes = 0 /\ overtaken = {}
  BY DEF Init
<1>2. DOMAIN rows = {} /\ Len(exec) = 0 /\ DOMAIN exec = {} /\ Len(ends) = 0 /\ EndOf(0) = 0 /\ Marked = 0
  BY <1>1 DEF EndOf, Marked
<1>3. ExecInv
  <2>1. QueueCap \in Nat
    BY Constants
  <2>2. exec \in Seq(AnyTx) /\ ends \in Seq(Nat)
    BY <1>1
  <2> QED BY <1>1, <1>2, <2>1, <2>2 DEF ExecInv
<1>4. RowTypes /\ RowsInv /\ UnmarkedInv
  <2>1. RowTypes
    BY <1>1, <1>2, Constants, FS_EmptySet DEF RowTypes
  <2>2. RowsInv
    BY <1>2 DEF RowsInv
  <2>3. UnmarkedInv
    BY <1>1 DEF UnmarkedInv, StartKeeper
  <2> QED BY <2>1, <2>2, <2>3
<1>5. /\ store \in Store /\ AccountsInv(store) /\ QueueInv(store, overtaken) /\ store.nextId = 0
      /\ store.l1 = {} /\ store.queue = {} /\ DOMAIN store.acc = {} /\ HeldTxs(store) = {}
  BY <1>1, NewStoreKeeps
<1>6. StoreInv
  BY <1>5 DEF StoreInv
<1>7. keeper.pc = "start" /\ keeper.filter = 0 /\ keeper = [pc |-> keeper.pc, filter |-> keeper.filter, cur |-> keeper.cur]
  BY <1>1 DEF StartKeeper
<1>8. FetchInv /\ FreshInv
  BY <1>1, <1>5, <1>7, FetchFields, FS_EmptySet DEF FetchInv, FreshInv
<1>9. KeeperTypes /\ CurInv
  BY <1>1, <1>7, Constants DEF KeeperTypes, CurInv
<1>10. OrderInv
  <2>1. {i \in 1 .. 0 : exec[i].pri} = {}
    OBVIOUS
  <2>2. OpIds(EndOf(sealed)) = {}
    BY <1>1, <1>2, <2>1 DEF OpIds
  <2>3. ~OpRuns /\ TurnId = 0
    BY <1>5, <1>7 DEF OpRuns, TurnId
  <2>4. PriorityInOrder
    BY <1>2 DEF PriorityInOrder
  <2> QED BY <1>7, <2>2, <2>3, <2>4 DEF OrderInv, IsTurn
<1> QED BY <1>3, <1>4, <1>6, <1>8, <1>9, <1>10 DEF IInv

\* A step that changes nothing.
LEMMA StutterStep ==
    ASSUME IInv, UNCHANGED vars
    PROVE  IInv'
<1>1. /\ rows' = rows /\ clock' = clock /\ ops' = ops /\ store' = store /\ fetch' = fetch
      /\ keeper' = keeper /\ UNCHANGED chain /\ crashes' = crashes /\ UNCHANGED history
  BY DEF vars, chain, history
<1>2. RowTypes' /\ DOMAIN rows \subseteq DOMAIN rows'
  BY <1>1 DEF IInv, RowTypes
<1> QED BY <1>1, <1>2, WriterKeeps

\* Every step keeps the invariant.
LEMMA NextIInv == IInv /\ [Next]_vars => IInv'
<1> SUFFICES ASSUME IInv, [Next]_vars PROVE IInv'
  OBVIOUS
<1>1. ASSUME NEW o \in Offers, insert_transaction_l2(o[1], o[2], o[3]) PROVE IInv'
  BY <1>1, InsertL2Step
<1>2. CASE insert_transaction_l1
  BY <1>2, InsertL1Step
<1>3. CASE Fetcher
  <2>1. CASE FetcherStart
    BY <2>1, FetcherStartStep
  <2>2. CASE FetchInfo
    BY <2>2, FetchInfoStep
  <2>3. ASSUME NEW f \in Fees, sync_mempool(f) PROVE IInv'
    BY <2>3, SyncStep
  <2>4. CASE get_transaction_nonces
    BY <2>4, NoncesStep
  <2>5. CASE FetchInsert
    BY <2>5, FetchInsertStep
  <2> QED BY <1>3, <2>1, <2>2, <2>3, <2>4, <2>5 DEF Fetcher
<1>4. CASE Keeper
  <2>1. CASE initialize
    BY <2>1, InitializeStep
  <2>2. ASSUME NEW f \in Fees, wait_for_new_batch_params(f) PROVE IInv'
    BY <2>2, BatchParamsStep
  <2>3. CASE wait_for_next_tx
    BY <2>3, NextTxStep
  <2>4. CASE Include
    BY <2>4, IncludeStep
  <2>5. CASE Exclude
    BY <2>5, ExcludeStep
  <2>6. CASE reject
    BY <2>6, RejectStep
  <2>7. CASE Panic
    <3>1. Restart /\ crashes' = crashes /\ crashes \in 0 .. MaxCrashes
      BY <2>7 DEF Panic, IInv, KeeperTypes
    <3> QED BY <3>1, RestartStep
  <2>8. CASE seal_l2_block
    BY <2>8, SealBlockStep
  <2>9. CASE should_seal_l1_batch_unconditionally
    BY <2>9, SealBatchStep
  <2>10. CASE handle_l1_batch
    BY <2>10, HandleBatchStep
  <2> QED BY <1>4, <2>1, <2>2, <2>3, <2>4, <2>5, <2>6, <2>7, <2>8, <2>9, <2>10 DEF Keeper
<1>5. CASE Sealer
  BY <1>5, MarkStep, StorageLogsStep, InsertBlockStep DEF Sealer
<1>6. CASE Crash
  <2>1. Restart /\ crashes' = crashes + 1 /\ crashes < MaxCrashes /\ crashes \in 0 .. MaxCrashes
    BY <1>6 DEF Crash, IInv, KeeperTypes
  <2>2. crashes' \in 0 .. MaxCrashes
    BY <2>1, Constants
  <2> QED BY <2>1, <2>2, RestartStep
<1>7. CASE UNCHANGED vars
  BY <1>7, StutterStep
<1> QED BY <1>1, <1>2, <1>3, <1>4, <1>5, <1>6, <1>7 DEF Next

\* The invariant holds in every state, whatever the API server, the fetcher, the
\* state keeper and the sealer do in between and wherever the process crashes.
THEOREM FlowInvariant == Spec => []IInv
<1>1. Init => IInv
  BY InitIInv
<1>2. IInv /\ [Next]_vars => IInv'
  BY NextIInv
<1> QED BY <1>1, <1>2, PTL DEF Spec

\* The types and bounds of the table, the mempool and the chain.
THEOREM FlowTypes == Spec => []TypeOK
<1>1. IInv => TypeOK
  <2> SUFFICES ASSUME IInv PROVE TypeOK
    OBVIOUS
  <2>1. \A k \in DOMAIN rows : rows[k].tx \in Tx /\ Key(rows[k].tx) = k /\ rows[k].blk \in Nat
    BY RowFields, TxFields DEF IInv, RowTypes
  <2>2. clock \in 0 .. MaxTxs /\ ops \in 0 .. Len(OpFrom)
    BY Constants DEF IInv, RowTypes
  <2>3. DOMAIN store.acc \subseteq Accounts /\ store.size \in Nat
    BY StoreFields DEF IInv, StoreInv
  <2>4. fetch.pc \in {"start", "info", "sync", "nonces", "insert"}
    BY FetchFields DEF IInv, FetchInv
  <2>5. /\ keeper.pc \in {"start", "nobatch", "ready", "executing", "sealing", "stopped"}
        /\ crashes \in 0 .. MaxCrashes
    BY DEF IInv, KeeperTypes
  <2>6. \A i \in DOMAIN exec : exec[i] \in Tx
    BY ChainTypes, TxFields DEF IInv
  <2>7. /\ batched <= sealed /\ sealed <= Len(ends) /\ Len(ends) - sealed <= QueueCap + 1
        /\ parts \subseteq {"txs", "logs"}
    BY DEF IInv, ExecInv
  <2> QED BY <2>1, <2>2, <2>3, <2>4, <2>5, <2>6, <2>7 DEF TypeOK
<1> QED BY <1>1, FlowInvariant, PTL

\* The mempool's bookkeeping is exact, whatever is inserted, stashed, purged,
\* rolled back or rejected around it.
THEOREM MempoolIsConsistent == Spec => []MempoolConsistent
<1>1. IInv => MempoolConsistent
  BY DEF IInv, StoreInv, QueueInv, HeldTxs, MempoolConsistent
<1> QED BY <1>1, FlowInvariant, PTL

\* Priority operations are executed in the order of their ids, without gaps and
\* once each, across roll backs, crashes in the middle of sealing and re-execution,
\* whoever sends them: only an operation whose row sync_mempool deleted is executed
\* again.
THEOREM OperationsAreOrdered == Spec => []PriorityInOrder
<1>1. IInv => PriorityInOrder
  BY DEF IInv, OrderInv
<1> QED BY <1>1, FlowInvariant, PTL

\* A row that names an L2 block is the transaction executed in that block.
THEOREM RowsAreTrue == Spec => []RowsTellChain
<1>1. IInv => RowsTellChain
  <2> SUFFICES ASSUME IInv, NEW k \in DOMAIN rows, rows[k].blk # 0
               PROVE  rows[k].blk <= Len(ends) /\ rows[k].tx \in BlockTxs(rows[k].blk)
    BY DEF RowsTellChain
  <2>1. rows[k].blk <= Marked /\ rows[k].tx \in BlockTxs(rows[k].blk)
    BY DEF IInv, RowsInv
  <2>2. rows[k].blk \in Nat /\ Marked \in Nat /\ Marked <= Len(ends) /\ Len(ends) \in Nat
    BY ChainTypes, RowFields DEF IInv, RowTypes
  <2> QED BY <2>1, <2>2
<1> QED BY <1>1, FlowInvariant, PTL

\* The pending batch can be executed again, unless rows of it were deleted.
THEOREM PendingIsReexecutable == Spec => []PendingReexecutable
<1>1. IInv => PendingReexecutable
  <2> SUFFICES ASSUME IInv, NEW b \in batched + 1 .. sealed, NEW t \in BlockTxs(b)
               PROVE  HasRow(t, b) \/ Key(t) \in deleted
    BY DEF PendingReexecutable
  <2>1. b \in 1 .. Marked /\ b > batched
    BY ChainTypes DEF IInv
  <2> QED BY <2>1 DEF IInv, RowsInv
<1> QED BY <1>1, FlowInvariant, PTL
=============================================================================
