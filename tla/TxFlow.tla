------------------------------- MODULE TxFlow -------------------------------
(***************************************************************************)
(* The way of a transaction into a batch: the transactions table, the      *)
(* in-memory mempool, the fetcher that fills it, the state keeper that     *)
(* executes transactions and the sealer task that persists its L2 blocks.  *)
(*                                                                         *)
(* The API, the fetcher, the state keeper and the sealer run concurrently; *)
(* the mempool is behind a lock, so each of its methods is one step.       *)
(*                                                                         *)
(* A transaction is [pri, acc, n, fee, at]: whether it is a priority       *)
(* operation, its initiator, its nonce or priority id, the highest fee it  *)
(* pays, and its arrival time, which also stands for its hash.             *)
(***************************************************************************)
EXTENDS Integers, Sequences, FiniteSets

CONSTANTS
    Accounts,     \* initiators of L2 transactions
    Offers,       \* the <<account, nonce, fee>> users submit, again and again
    OpFrom,       \* sequence: the initiator of each priority operation on L1, one of
                  \* Accounts or an address that sends no L2 transactions
    Fees,         \* fees offered, and fees a filter may ask for
    Capacity,     \* mempool capacity
    SyncBatch,    \* sync_batch_size of the fetcher
    QueueCap,     \* capacity of the L2 block sealing queue
    MaxTxs,       \* bound: transactions stored, of both kinds
    MaxCrashes    \* bound: crashes other than panics

\* No address is the mark of a priority operation's key.
ASSUME TxFlowAssumption ==
    /\ OpFrom \in Seq({OpFrom[i] : i \in DOMAIN OpFrom})
    /\ "l1" \notin Accounts
    /\ Fees \subseteq Nat /\ Offers \subseteq Accounts \X Nat \X Fees
    /\ Capacity \in Nat \ {0}
    /\ SyncBatch \in Nat \ {0} /\ QueueCap \in Nat \ {0}
    /\ MaxTxs \in Nat /\ MaxCrashes \in Nat

VARIABLES
    rows,    \* transactions table: key -> [tx, mp, blk, bat, err]; blk 0 is NULL
    clock,   \* L2 transactions submitted so far
    ops,     \* the Ethereum watcher's next_expected_priority_id
    store,   \* MempoolStore
    fetch,   \* the fetcher: [pc, stashed, purged, txs, nonces]
    keeper,  \* the state keeper: [pc, filter, cur]
    exec,    \* transactions of the executed L2 blocks, the open one included
    ends,    \* length of exec at the end of each closed L2 block
    sealed,  \* L2 blocks whose header is persisted
    parts,   \* persisted parts of the next L2 block: "txs", "logs"
    batched, \* L2 blocks covered by persisted L1 batches
    crashes,
    deleted, \* history: keys of the rows sync_mempool has deleted
    overtaken \* history: accounts loaded beyond the transaction in execution

vars == <<rows, clock, ops, store, fetch, keeper, exec, ends, sealed, parts, batched,
          crashes, deleted, overtaken>>
chain == <<exec, ends, sealed, parts, batched>>
history == <<deleted, overtaken>>

Tx == [pri : BOOLEAN, acc : Accounts \cup {OpFrom[i] : i \in DOMAIN OpFrom},
       n : Nat, fee : Nat, at : Nat]
NoTx == [pri |-> FALSE, acc |-> CHOOSE a \in Accounts : TRUE, n |-> 0, fee |-> 0, at |-> 0]
\* The table's unique key: the priority id, or the initiator and the nonce.
Key(tx) == IF tx.pri THEN <<"l1", tx.n>> ELSE <<tx.acc, tx.n>>
Put(f, k, v) == [x \in DOMAIN f \cup {k} |-> IF x = k THEN v ELSE f[x]]
Without(f, ks) == [x \in DOMAIN f \ ks |-> f[x]]

EndOf(b) == IF b = 0 THEN 0 ELSE ends[b]
OpenBlock == SubSeq(exec, EndOf(Len(ends)) + 1, Len(exec))
BlockTxs(b) == {exec[i] : i \in EndOf(b - 1) + 1 .. EndOf(b)}
\* Nonce of account a after the first k transactions of exec.
NonceAt(a, k) == Cardinality({i \in 1 .. k : ~exec[i].pri /\ exec[i].acc = a})
VmNonce(a) == NonceAt(a, Len(exec))
\* Nonces in storage_logs: a block's logs are visible before its header is.
StoredNonce(a) ==
    NonceAt(a, EndOf(IF "logs" \in parts THEN sealed + 1 ELSE sealed))
BatchIsEmpty == Len(exec) = EndOf(batched)

(***************************************************************************)
(* MempoolStore: [l1, acc, queue, nextId, stashed, size], where acc maps   *)
(* an account to [nonce, txs] and queue holds one pointer per account.     *)
(***************************************************************************)
NewStore(nextId) ==
    [l1 |-> {}, acc |-> [a \in {} |-> [nonce |-> 0, txs |-> {}]],
     queue |-> {}, nextId |-> nextId, stashed |-> {}, size |-> 0]

\* An account's nonce and transactions; a new account has the nonce in storage.
AccountTransactions(s, nonces, a) ==
    IF a \in DOMAIN s.acc THEN s.acc[a] ELSE [nonce |-> nonces[a], txs |-> {}]

\* Transactions older than the account's nonce are skipped.
Accepted(s, nonces, txs) ==
    {t \in txs : ~t.pri /\ t.n >= AccountTransactions(s, nonces, t.acc).nonce}

Replaced(s, nonces, t) == {o \in AccountTransactions(s, nonces, t.acc).txs : o.n = t.n}

insert(s, txs, nonces) ==
    LET new == Accepted(s, nonces, txs)
        gone == UNION {Replaced(s, nonces, t) : t \in new}
        IsNext(t) == t.n = AccountTransactions(s, nonces, t.acc).nonce
    IN  [l1 |-> s.l1 \cup {t \in txs : t.pri},
         acc |-> [a \in DOMAIN s.acc \cup {t.acc : t \in {u \in txs : ~u.pri}} |->
                    [nonce |-> AccountTransactions(s, nonces, a).nonce,
                     txs |-> (AccountTransactions(s, nonces, a).txs \ gone)
                                \cup {t \in new : t.acc = a}]],
         queue |-> (s.queue \ {o \in gone : IsNext(o)}) \cup {t \in new : IsNext(t)},
         nextId |-> s.nextId, stashed |-> s.stashed,
         size |-> s.size + Cardinality({t \in new : Replaced(s, nonces, t) = {}})]

Matching(s, filter) == {p \in s.queue : p.fee >= filter}
has_next(s, filter) == (\E t \in s.l1 : t.n = s.nextId) \/ Matching(s, filter) # {}

\* The oldest pointer that meets the filter.
Pointer(s, filter) ==
    CHOOSE p \in Matching(s, filter) : \A q \in Matching(s, filter) : p.at <= q.at

\* The transaction next_transaction returns, when has_next holds: the account's
\* next one, whatever transaction the pointer was made for.
NextTx(s, filter) ==
    IF \E t \in s.l1 : t.n = s.nextId
    THEN CHOOSE t \in s.l1 : t.n = s.nextId
    ELSE LET a == Pointer(s, filter).acc
         IN  CHOOSE t \in s.acc[a].txs : t.n = s.acc[a].nonce

\* Its panics: a pointer without an account ("dangling pointer in priority queue"),
\* or to an account without its next transaction ("missing transaction in mempool").
CanTakeNext(s, filter) ==
    LET p == Pointer(s, filter)
        older == {q \in s.queue : q.at < p.at}
    IN  (\A t \in s.l1 : t.n # s.nextId) =>
            /\ \A q \in older : /\ q.acc \in DOMAIN s.acc \ {p.acc}
                                /\ \A r \in older : r.acc = q.acc => r = q
            /\ p.acc \in DOMAIN s.acc
            /\ \E t \in s.acc[p.acc].txs : t.n = s.acc[p.acc].nonce

\* The store it leaves behind: accounts whose older pointer misses the filter
\* are stashed with all their transactions.
next_transaction(s, filter) ==
    LET tx == NextTx(s, filter)
        p == Pointer(s, filter)
        older == {q \in s.queue : q.at < p.at}
        out == {q.acc : q \in older}
        left == s.acc[tx.acc].txs \ {tx}
    IN  IF tx.pri
        THEN [s EXCEPT !.l1 = @ \ {tx}, !.nextId = @ + 1]
        ELSE [l1 |-> s.l1,
              acc |-> [a \in DOMAIN s.acc \ out |->
                        IF a = tx.acc THEN [nonce |-> tx.n + 1, txs |-> left] ELSE s.acc[a]],
              queue |-> (s.queue \ (older \cup {p})) \cup {t \in left : t.n = tx.n + 1},
              nextId |-> s.nextId, stashed |-> s.stashed \cup out,
              size |-> s.size - Cardinality(UNION {s.acc[a].txs : a \in out}) - 1]

\* One more than the greatest of a set of priority ids.
NextId(ids) == IF ids = {} THEN 0 ELSE 1 + CHOOSE i \in ids : \A j \in ids : j <= i

\* Mutant: operations of blocks without a header are counted.
NextPriorityIdOfMarked ==
    NextId({rows[k].tx.n : k \in {k \in DOMAIN rows : rows[k].tx.pri /\ rows[k].blk # 0}})

\* Mutant: the pointer of the transaction's successor stays in the queue.
RollbackKeepsSuccessor(s, tx) ==
    IF tx.pri
    THEN [s EXCEPT !.nextId = IF tx.n < @ THEN tx.n ELSE @]
    ELSE [s EXCEPT !.acc[tx.acc].nonce = IF tx.n < @ THEN tx.n ELSE @]

\* rollback panics when the account of tx is gone.
CanRollback(s, tx) == tx.pri \/ tx.acc \in DOMAIN s.acc
rollback(s, tx) ==
    IF tx.pri
    THEN [s EXCEPT !.nextId = IF tx.n < @ THEN tx.n ELSE @]
    ELSE [s EXCEPT
            !.acc[tx.acc].nonce = IF tx.n < @ THEN tx.n ELSE @,
            !.queue = @ \ {t \in s.acc[tx.acc].txs : t.n = tx.n + 1}]

\* gc: a full mempool drops the accounts without a pointer in the queue.
gc(s) ==
    IF s.size >= Capacity THEN DOMAIN s.acc \ {p.acc : p \in s.queue} ELSE {}
get_mempool_info(s) ==
    [s EXCEPT !.stashed = {},
              !.acc = Without(@, gc(s)),
              !.size = @ - Cardinality(UNION {s.acc[a].txs : a \in gc(s)})]

-----------------------------------------------------------------------------
\* MAX(priority_op_id) among the rows of persisted L2 blocks, plus one.
next_priority_id ==
    NextId({rows[k].tx.n : k \in {k \in DOMAIN rows :
                                    rows[k].tx.pri /\ rows[k].blk \in 1 .. sealed}})

\* MAX(priority_op_id) among all rows, plus one: where the watcher begins again.
next_expected_priority_id ==
    NextId({rows[k].tx.n : k \in {k \in DOMAIN rows : rows[k].tx.pri}})

StartFetch == [pc |-> "start", stashed |-> {}, purged |-> {}, txs |-> {},
               nonces |-> [a \in Accounts |-> 0]]
StartKeeper == [pc |-> "start", filter |-> 0, cur |-> NoTx]

Init ==
    /\ rows = [k \in {} |-> 0] /\ clock = 0 /\ ops = 0
    /\ store = NewStore(0) /\ fetch = StartFetch /\ keeper = StartKeeper
    /\ exec = <<>> /\ ends = <<>> /\ sealed = 0 /\ parts = {} /\ batched = 0
    /\ crashes = 0 /\ deleted = {} /\ overtaken = {}

(***************************************************************************)
(* Writers of the table: the API server and the Ethereum watcher.          *)
(***************************************************************************)
NewRow(tx) == [tx |-> tx, mp |-> FALSE, blk |-> 0, bat |-> FALSE, err |-> FALSE]

\* A transaction with the nonce of a stored one replaces it unless that one is
\* in an L2 block; validate_account_nonce compares with the persisted state.
insert_transaction_l2(a, n, fee) ==
    LET tx == [pri |-> FALSE, acc |-> a, n |-> n, fee |-> fee, at |-> clock + 1]
    IN  /\ clock + ops < MaxTxs
        /\ n >= NonceAt(a, EndOf(sealed))
        /\ Key(tx) \in DOMAIN rows => rows[Key(tx)].blk = 0
        /\ rows' = Put(rows, Key(tx), NewRow(tx))
        /\ clock' = clock + 1
        /\ UNCHANGED <<ops, store, fetch, keeper, chain, crashes, history>>

insert_transaction_l1 ==
    /\ ops < Len(OpFrom) /\ clock + ops < MaxTxs
    /\ LET tx == [pri |-> TRUE, acc |-> OpFrom[ops + 1], n |-> ops, fee |-> 0, at |-> 0]
       IN  rows' = Put(rows, Key(tx), NewRow(tx))
    /\ ops' = ops + 1
    /\ UNCHANGED <<clock, store, fetch, keeper, chain, crashes, history>>

(***************************************************************************)
(* MempoolFetcher.                                                         *)
(***************************************************************************)
\* remove_stuck_txs drops what arrived up to some time, then reset_mempool.
FetcherStart ==
    /\ fetch.pc = "start"
    /\ \E t \in 0 .. clock :
        LET stuck == {k \in DOMAIN rows : /\ ~rows[k].tx.pri /\ rows[k].tx.at <= t
                                          /\ rows[k].blk = 0 /\ ~rows[k].err}
        IN  rows' = [k \in DOMAIN rows \ stuck |-> [rows[k] EXCEPT !.mp = FALSE]]
    /\ fetch' = [fetch EXCEPT !.pc = "info"]
    /\ UNCHANGED <<clock, ops, store, keeper, chain, crashes, history>>

FetchInfo ==
    /\ fetch.pc = "info"
    /\ store' = get_mempool_info(store)
    /\ fetch' = [fetch EXCEPT !.pc = "sync", !.stashed = store.stashed, !.purged = gc(store)]
    /\ UNCHANGED <<rows, clock, ops, keeper, chain, crashes, history>>

\* Rows of stashed accounts are released, those of purged ones deleted, priority
\* operations of these accounts included, and the first SyncBatch transactions
\* that can pay the filter are marked: priority operations first.
sync_mempool(filter) ==
    LET released(k) == rows[k].mp /\ rows[k].tx.acc \in fetch.stashed
        gone == {k \in DOMAIN rows : /\ rows[k].mp /\ ~released(k)
                                    /\ rows[k].tx.acc \in fetch.purged}
        kept == [k \in DOMAIN rows \ gone |->
                    [rows[k] EXCEPT !.mp = @ /\ ~released(k)]]
        fit == {k \in DOMAIN kept : /\ kept[k].blk = 0 /\ ~kept[k].mp /\ ~kept[k].err
                                    /\ kept[k].tx.pri \/ kept[k].tx.fee >= filter}
        Before(t, u) == \/ t.pri /\ (~u.pri \/ t.n < u.n)
                        \/ ~t.pri /\ ~u.pri /\ t.at < u.at
        taken == {k \in fit : Cardinality({j \in fit : Before(kept[j].tx, kept[k].tx)}) < SyncBatch}
    IN  /\ fetch.pc = "sync"
        /\ rows' = [k \in DOMAIN kept |-> [kept[k] EXCEPT !.mp = @ \/ k \in taken]]
        /\ fetch' = [fetch EXCEPT !.pc = "nonces", !.txs = {kept[k].tx : k \in taken},
                                  !.stashed = {}, !.purged = {}]
        /\ deleted' = deleted \cup gone
        /\ UNCHANGED <<clock, ops, store, keeper, chain, crashes, overtaken>>

get_transaction_nonces ==
    /\ fetch.pc = "nonces"
    /\ fetch' = [fetch EXCEPT !.pc = "insert",
                    !.nonces = [a \in Accounts |->
                        IF \E t \in fetch.txs : t.acc = a THEN StoredNonce(a) ELSE 0]]
    /\ UNCHANGED <<rows, clock, ops, store, keeper, chain, crashes, history>>

\* The account of the transaction in execution, if the insertion brings it back
\* into the mempool after it was purged.
Overtaking ==
    {a \in {t.acc : t \in {u \in fetch.txs : ~u.pri}} :
        keeper.pc = "executing" /\ ~keeper.cur.pri /\ keeper.cur.acc = a /\ a \notin DOMAIN store.acc}

FetchInsert ==
    /\ fetch.pc = "insert"
    /\ store' = insert(store, fetch.txs, fetch.nonces)
    /\ fetch' = [StartFetch EXCEPT !.pc = "info"]
    /\ overtaken' = overtaken \cup {a \in Overtaking : fetch.nonces[a] > keeper.cur.n + 1}
    /\ UNCHANGED <<rows, clock, ops, keeper, chain, crashes, deleted>>

(***************************************************************************)
(* The state keeper with MempoolIO.                                        *)
(***************************************************************************)
\* Transaction t of L2 block b is found by get_l2_blocks_to_reexecute.
HasRow(t, b) ==
    /\ Key(t) \in DOMAIN rows
    /\ rows[Key(t)].tx = t /\ rows[Key(t)].blk = b /\ ~rows[Key(t)].bat
Reexecutable == \A b \in batched + 1 .. sealed : \A t \in BlockTxs(b) : HasRow(t, b)

\* Mutant: the rows of a block without a header stay marked.
InitializeKeepsMarks ==
    /\ keeper.pc = "start"
    /\ parts' = {}
    /\ exec' = SubSeq(exec, 1, EndOf(sealed)) /\ ends' = SubSeq(ends, 1, sealed)
    /\ \E f \in IF sealed = batched THEN {0} ELSE Fees :
        keeper' = [keeper EXCEPT
            !.filter = f,
            !.pc = IF ~Reexecutable THEN "stopped"
                   ELSE IF sealed = batched THEN "nobatch" ELSE "ready"]
    /\ UNCHANGED <<rows, clock, ops, store, fetch, sealed, batched, crashes, history>>

\* clear_pending_l2_block undoes the parts of a block without a header, then
\* the pending batch is executed again, under the filter it had.  With rows
\* missing that fails or ends in another state; the model stops there.
initialize ==
    /\ keeper.pc = "start"
    /\ rows' = [k \in DOMAIN rows |->
                    IF rows[k].blk > sealed
                    THEN [rows[k] EXCEPT !.blk = 0, !.bat = FALSE, !.err = FALSE]
                    ELSE rows[k]]
    /\ parts' = {}
    /\ exec' = SubSeq(exec, 1, EndOf(sealed)) /\ ends' = SubSeq(ends, 1, sealed)
    /\ \E f \in IF sealed = batched THEN {0} ELSE Fees :
        keeper' = [keeper EXCEPT
            !.filter = f,
            !.pc = IF ~Reexecutable THEN "stopped"
                   ELSE IF sealed = batched THEN "nobatch" ELSE "ready"]
    /\ UNCHANGED <<clock, ops, store, fetch, sealed, batched, crashes, history>>

wait_for_new_batch_params(f) ==
    /\ keeper.pc = "nobatch" /\ has_next(store, f)
    /\ keeper' = [keeper EXCEPT !.pc = "ready", !.filter = f]
    /\ UNCHANGED <<rows, clock, ops, store, fetch, chain, crashes, history>>

wait_for_next_tx ==
    /\ keeper.pc = "ready" /\ has_next(store, keeper.filter)
    /\ CanTakeNext(store, keeper.filter)
    /\ store' = next_transaction(store, keeper.filter)
    /\ keeper' = [keeper EXCEPT !.pc = "executing", !.cur = NextTx(store, keeper.filter)]
    /\ UNCHANGED <<rows, clock, ops, fetch, chain, crashes, history>>

\* The VM accepts a transaction only with the account's current nonce.
NonceFits(tx) == tx.pri \/ tx.n = VmNonce(tx.acc)

\* NoSeal and IncludeAndSeal.
Include ==
    /\ keeper.pc = "executing" /\ NonceFits(keeper.cur)
    /\ exec' = Append(exec, keeper.cur)
    /\ \E pc \in {"ready", "sealing"} : keeper' = [keeper EXCEPT !.pc = pc, !.cur = NoTx]
    /\ UNCHANGED <<rows, clock, ops, store, fetch, ends, sealed, parts, batched, crashes, history>>

\* ExcludeAndSeal: the first transaction of a batch cannot result in it.
Exclude ==
    /\ keeper.pc = "executing" /\ NonceFits(keeper.cur) /\ ~BatchIsEmpty
    /\ CanRollback(store, keeper.cur)
    /\ store' = insert(rollback(store, keeper.cur), {keeper.cur}, [a \in Accounts |-> 0])
    /\ keeper' = [keeper EXCEPT !.pc = "sealing", !.cur = NoTx]
    /\ UNCHANGED <<rows, clock, ops, fetch, chain, crashes, history>>

\* Unexecutable: by the VM, or by wait_for_next_tx for its gas limit.  The row
\* is found by its hash.
reject ==
    LET tx == keeper.cur
    IN  /\ keeper.pc = "executing" /\ ~tx.pri /\ CanRollback(store, tx)
        /\ store' = rollback(store, tx)
        /\ rows' = [k \in DOMAIN rows |->
                        IF rows[k].tx = tx THEN [rows[k] EXCEPT !.err = TRUE] ELSE rows[k]]
        /\ keeper' = [keeper EXCEPT !.pc = "ready", !.cur = NoTx]
        /\ UNCHANGED <<clock, ops, fetch, chain, crashes, history>>

\* Mutant: send does not wait for a free place in the queue.
SealQueueUnbounded ==
    /\ keeper.pc \in {"ready", "sealing"} /\ OpenBlock # <<>>
    /\ ends' = Append(ends, Len(exec))
    /\ UNCHANGED <<rows, clock, ops, store, fetch, keeper, exec, sealed, parts, batched, crashes, history>>

\* should_seal_l2_block, and the last block of a batch.  send waits for a
\* free place in the queue.
seal_l2_block ==
    /\ keeper.pc \in {"ready", "sealing"} /\ OpenBlock # <<>>
    /\ Len(ends) - sealed <= QueueCap
    /\ ends' = Append(ends, Len(exec))
    /\ UNCHANGED <<rows, clock, ops, store, fetch, keeper, exec, sealed, parts, batched, crashes, history>>

should_seal_l1_batch_unconditionally ==
    /\ keeper.pc = "ready" /\ ~BatchIsEmpty
    /\ keeper' = [keeper EXCEPT !.pc = "sealing"]
    /\ UNCHANGED <<rows, clock, ops, store, fetch, chain, crashes, history>>

\* wait_for_all_commands, then the batch, its fictive block and the batch
\* number of its transactions in one database transaction.
handle_l1_batch ==
    LET txs == UNION {BlockTxs(b) : b \in batched + 1 .. Len(ends)}
    IN  /\ keeper.pc = "sealing" /\ OpenBlock = <<>> /\ sealed = Len(ends)
        /\ batched' = sealed
        /\ rows' = [k \in DOMAIN rows |->
                        IF rows[k].tx \in txs THEN [rows[k] EXCEPT !.bat = TRUE] ELSE rows[k]]
        /\ keeper' = [keeper EXCEPT !.pc = "nobatch"]
        /\ UNCHANGED <<clock, ops, store, fetch, exec, ends, sealed, parts, crashes, history>>

(***************************************************************************)
(* L2BlockSealerTask: the subtasks of a block run in parallel, its header  *)
(* is inserted last.                                                       *)
(***************************************************************************)
\* The sealer has a command: blocks are sealed one by one.
Sealing == keeper.pc \notin {"start", "stopped"} /\ sealed < Len(ends)

\* Mutant: a row is found by the hash, and a replaced one is missed.
MarkByHash ==
    LET b == sealed + 1
    IN  /\ Sealing /\ "txs" \notin parts
        /\ rows' = [k \in DOMAIN rows |->
                        IF rows[k].tx \notin BlockTxs(b) THEN rows[k]
                        ELSE [rows[k] EXCEPT !.mp = FALSE, !.blk = b, !.err = FALSE]]
        /\ parts' = parts \cup {"txs"}
        /\ UNCHANGED <<clock, ops, store, fetch, keeper, exec, ends, sealed, batched, crashes, history>>

\* The executed transaction overwrites the row with its nonce, even one that
\* has replaced it; without a row nothing is written.
mark_txs_as_executed_in_l2_block ==
    LET b == sealed + 1
        mine(k) == {t \in BlockTxs(b) : Key(t) = k}
    IN  /\ Sealing /\ "txs" \notin parts
        /\ rows' = [k \in DOMAIN rows |->
                        IF mine(k) = {} THEN rows[k]
                        ELSE [tx |-> CHOOSE t \in mine(k) : TRUE, mp |-> FALSE,
                              blk |-> b, bat |-> FALSE, err |-> FALSE]]
        /\ parts' = parts \cup {"txs"}
        /\ UNCHANGED <<clock, ops, store, fetch, keeper, exec, ends, sealed, batched, crashes, history>>

insert_storage_logs ==
    /\ Sealing /\ "logs" \notin parts
    /\ parts' = parts \cup {"logs"}
    /\ UNCHANGED <<rows, clock, ops, store, fetch, keeper, exec, ends, sealed, batched, crashes, history>>

insert_l2_block ==
    /\ Sealing /\ parts = {"txs", "logs"}
    /\ parts' = {} /\ sealed' = sealed + 1
    /\ UNCHANGED <<rows, clock, ops, store, fetch, keeper, exec, ends, batched, crashes, history>>

(***************************************************************************)
(* Crashes: memory is lost, the transactions executed but not persisted    *)
(* included, and the Ethereum watcher begins after the last stored         *)
(* operation, which may be one that it has stored before.                  *)
(***************************************************************************)
Restart ==
    /\ store' = NewStore(next_priority_id)
    /\ fetch' = StartFetch /\ keeper' = StartKeeper
    /\ exec' = SubSeq(exec, 1, EndOf(IF parts = {} THEN sealed ELSE sealed + 1))
    /\ ends' = SubSeq(ends, 1, IF parts = {} THEN sealed ELSE sealed + 1)
    /\ ops' = next_expected_priority_id
    /\ overtaken' = {}
    /\ UNCHANGED <<rows, clock, sealed, parts, batched, deleted>>

Crash == crashes < MaxCrashes /\ crashes' = crashes + 1 /\ keeper.pc # "stopped" /\ Restart

\* rollback's expect("account is not available in mempool"), and the panics of
\* next_transaction.
MempoolPanics ==
    CASE keeper.pc = "executing" -> ~CanRollback(store, keeper.cur)
      [] keeper.pc = "ready" -> /\ has_next(store, keeper.filter)
                                /\ ~CanTakeNext(store, keeper.filter)
      [] OTHER -> FALSE

Panic ==
    /\ MempoolPanics
    /\ Restart /\ UNCHANGED crashes

-----------------------------------------------------------------------------
Fetcher == FetcherStart \/ FetchInfo \/ (\E f \in Fees : sync_mempool(f))
           \/ get_transaction_nonces \/ FetchInsert
Keeper ==
    \/ initialize \/ (\E f \in Fees : wait_for_new_batch_params(f)) \/ wait_for_next_tx
    \/ Include \/ Exclude \/ reject \/ Panic
    \/ seal_l2_block \/ should_seal_l1_batch_unconditionally \/ handle_l1_batch
Sealer == mark_txs_as_executed_in_l2_block \/ insert_storage_logs \/ insert_l2_block

Next ==
    \/ \E o \in Offers : insert_transaction_l2(o[1], o[2], o[3])
    \/ insert_transaction_l1
    \/ Fetcher \/ Keeper \/ Sealer \/ Crash

Spec == Init /\ [][Next]_vars

-----------------------------------------------------------------------------
\* Types and bounds; a row is stored under its transaction's key, batches cover
\* sealed blocks, and no more blocks wait for the sealer than its queue holds.
TypeOK ==
    /\ \A k \in DOMAIN rows : /\ rows[k].tx \in Tx /\ Key(rows[k].tx) = k
                              /\ rows[k].blk \in Nat
    /\ clock \in 0 .. MaxTxs /\ ops \in 0 .. Len(OpFrom)
    /\ DOMAIN store.acc \subseteq Accounts /\ store.size \in Nat
    /\ fetch.pc \in {"start", "info", "sync", "nonces", "insert"}
    /\ keeper.pc \in {"start", "nobatch", "ready", "executing", "sealing", "stopped"}
    /\ \A i \in DOMAIN exec : exec[i] \in Tx
    /\ batched <= sealed /\ sealed <= Len(ends) /\ Len(ends) - sealed <= QueueCap + 1
    /\ parts \subseteq {"txs", "logs"} /\ crashes \in 0 .. MaxCrashes

\* The mempool's bookkeeping is exact whatever is inserted, stashed, purged,
\* rolled back or rejected around it: every account's next transaction has its
\* pointer in the queue, size counts the transactions held, and every pointer is
\* of an account's next transaction (the "dangling pointer" and "missing
\* transaction" panics cannot happen).  The last does not hold for an account
\* that was purged while one of its transactions was executed a second time, and
\* loaded again with a nonce beyond it: rejecting the transaction then resets the
\* nonce and leaves the pointer.
MempoolConsistent ==
    /\ \A a \in DOMAIN store.acc : \A t \in store.acc[a].txs :
        t.n = store.acc[a].nonce => t \in store.queue
    /\ \A p \in store.queue : p.acc \notin overtaken =>
        /\ p.acc \in DOMAIN store.acc
        /\ p \in store.acc[p.acc].txs /\ p.n = store.acc[p.acc].nonce
    /\ store.size = Cardinality(UNION {store.acc[a].txs : a \in DOMAIN store.acc})

\* Priority operations are executed in the order of their ids, without gaps and
\* once each, across roll backs, crashes in the middle of sealing and
\* re-execution: an operation has its predecessor before it, and is executed a
\* second time only if sync_mempool deleted its row, with those of its account,
\* so that the watcher stored it again.
PriorityInOrder ==
    \A i \in DOMAIN exec : exec[i].pri =>
        /\ exec[i].n > 0 => \E j \in 1 .. i - 1 : exec[j].pri /\ exec[j].n = exec[i].n - 1
        /\ \A j \in 1 .. i - 1 : Key(exec[j]) = Key(exec[i]) => Key(exec[i]) \in deleted

\* A row that names an L2 block is the transaction executed in that block,
\* also when it was replaced, released, fetched again or rejected between its
\* execution and its sealing.
RowsTellChain ==
    \A k \in DOMAIN rows : rows[k].blk # 0 =>
        rows[k].blk <= Len(ends) /\ rows[k].tx \in BlockTxs(rows[k].blk)

\* Every transaction of the pending batch's persisted L2 blocks can be loaded
\* for re-execution after a restart, unless sync_mempool has deleted its row: a
\* full mempool purges accounts with transactions in flight.
PendingReexecutable ==
    \A b \in batched + 1 .. sealed : \A t \in BlockTxs(b) :
        HasRow(t, b) \/ Key(t) \in deleted

\* What the documentation says of a rejection in the state keeper: the transaction
\* cannot be included in the block.  A row marked rejected names no L2 block.
IncludedNotRejected == \A k \in DOMAIN rows : rows[k].err => rows[k].blk = 0
=============================================================================
