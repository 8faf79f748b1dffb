---------------------------- MODULE EthTxManager ----------------------------
(***************************************************************************)
(* The Ethereum transaction manager                                        *)
(* (core/node/eth_sender/src/eth_tx_manager.rs) over its tables eth_txs    *)
(* and eth_txs_history, against an L1 that delays, drops, rejects, mines,  *)
(* reverts and (above the finalized block) reorganises transactions.       *)
(*                                                                         *)
(* A sending attempt of transaction id is identified by its fee level: a   *)
(* resend always raises the fees, so <<id, level>> stands for the hash.    *)
(* The L1 side is external and is modelled from how the manager uses it.   *)
(***************************************************************************)
EXTENDS Integers, Sequences, FiniteSets

CONSTANTS
    BlobOperator,  \* a second operator account, for blob transactions, is configured
    MaxInFlight,   \* SenderConfig::max_txs_in_flight
    MaxTxs,        \* bound: eth_txs rows ever inserted
    MaxLevel,      \* bound: sending attempts of one transaction
    MaxBlock,      \* bound: L1 height
    MaxCrashes     \* bound: crashes of the server

ASSUME ManagerAssumption ==
    /\ BlobOperator \in BOOLEAN
    /\ MaxInFlight \in Nat /\ MaxTxs \in Nat /\ MaxLevel \in Nat \ {0}
    /\ MaxBlock \in Nat /\ MaxCrashes \in Nat

\* The operator types in the order loop_iteration serves them, and the accounts.
Operators == <<"NonBlob", "Blob">>
Ops == IF BlobOperator THEN {"NonBlob", "Blob"} ELSE {"NonBlob"}
Ids == 1 .. MaxTxs
Levels == 1 .. MaxLevel
NoId == 0

VARIABLES
    ethTxs,     \* eth_txs: id -> [op, nonce, conf, failed]; conf = 0 is unconfirmed
    history,    \* eth_txs_history: rows [id, lvl, at]; at is sent_at_block
    nextId,     \* next value of the id sequence
    baseNonce,  \* EthTxAggregator::base_nonce of each operator, read at startup
    chain,      \* external: op -> mined [id, lvl, block, ok], position = nonce + 1
    pool,       \* external: mempool entries [id, op, nonce, lvl]
    head,       \* external: latest L1 block
    fin,        \* external: finalized L1 block
    pc,         \* control state of the manager's loop
    opr,        \* position in Operators of the turn being taken
    view,       \* L1BlockNumbers of this iteration
    lastKnown,  \* last_known_l1_block
    nonces,     \* OperatorNonce read by the monitor
    queue,      \* ids still to be handled in the current for loop
    cur,        \* attempt inserted and about to be sent, [id, lvl]
    resend,     \* the attempt comes from the monitor, not from send_new_eth_txs
    crashes     \* crashes so far

dbVars == <<ethTxs, history, nextId>>
l1Vars == <<chain, pool, head, fin>>
loopVars == <<pc, opr, view, lastKnown, nonces, queue, cur, resend>>
vars == <<ethTxs, history, nextId, baseNonce, chain, pool, head, fin,
          pc, opr, view, lastKnown, nonces, queue, cur, resend, crashes>>

NoAttempt == [id |-> NoId, lvl |-> 0]
SetMax(S) == IF S = {} THEN 0 ELSE CHOOSE x \in S : \A y \in S : y <= x
\* operator_address: without a blob account the Blob turn serves the main one again.
op == IF BlobOperator THEN Operators[opr] ELSE "NonBlob"
\* get_operator_nonce has a gateway to ask, unless this is a Blob turn without one.
HasGateway == BlobOperator \/ Operators[opr] = "NonBlob"

(***************************************************************************)
(* Queries of EthSenderDal.                                                *)
(***************************************************************************)
LastSentId(o) == SetMax({h.id : h \in {r \in history : ethTxs[r.id].op = o}})

get_inflight_txs(o) ==
    {i \in DOMAIN ethTxs : /\ ethTxs[i].op = o /\ ethTxs[i].conf = 0
                           /\ i <= LastSentId(o)}

get_new_eth_txs(o, limit) ==
    LET new == {i \in DOMAIN ethTxs : ethTxs[i].op = o /\ i > LastSentId(o)}
    IN  {i \in new : Cardinality({j \in new : j < i}) < limit}

RowsOf(id) == {h \in history : h.id = id}
\* Levels grow with created_at: the oldest row has the lowest level.
get_block_number_on_first_sent_attempt(id) ==
    {h.at : h \in {r \in RowsOf(id) : \A s \in RowsOf(id) : r.lvl <= s.lvl}}
LastLevel(id) == SetMax({h.lvl : h \in RowsOf(id)})

\* EthSenderDal::get_next_nonce: one more than the nonce of the newest row.
DbNonce(o) ==
    LET mine == {i \in DOMAIN ethTxs : ethTxs[i].op = o}
    IN  IF mine = {} THEN 0 ELSE ethTxs[SetMax(mine)].nonce + 1

\* Mutant: the nonce read from L1 at startup is ignored.
NextNonceFromDb(o) == DbNonce(o)
get_next_nonce(o) == SetMax({DbNonce(o), baseNonce[o]})

(***************************************************************************)
(* L1 as the manager sees it.                                              *)
(***************************************************************************)
NonceAt(o, block) == Cardinality({k \in DOMAIN chain[o] : chain[o][k].block <= block})
\* The pending nonce: mined transactions and the gapless run in the mempool.
PendingNonce(o) ==
    LET mined == Len(chain[o])
        waiting == {h.nonce : h \in {p \in pool : p.op = o}}
    IN  SetMax({n \in mined .. mined + Cardinality(pool) : \A m \in mined .. n - 1 : m \in waiting})
Entry(a) == [id |-> a.id, op |-> ethTxs[a.id].op, nonce |-> ethTxs[a.id].nonce, lvl |-> a.lvl]
SameNonce(p, e) == p.op = e.op /\ p.nonce = e.nonce
\* The nonce is not used up and no attempt with at least these fees waits.
Acceptable(e) == /\ e.nonce >= Len(chain[e.op])
                 /\ \A p \in pool : SameNonce(p, e) => p.lvl < e.lvl
\* The receipts of an eth_tx: mined attempts that have a history row.
Receipts(id) == {c \in {chain[ethTxs[id].op][k] : k \in DOMAIN chain[ethTxs[id].op]} :
                    c.id = id /\ \E h \in RowsOf(id) : h.lvl = c.lvl}

-----------------------------------------------------------------------------
Init ==
    /\ ethTxs = [i \in {} |-> NoId] /\ history = {} /\ nextId = 1
    /\ baseNonce = [o \in Ops |-> 0]
    /\ chain = [o \in Ops |-> <<>>] /\ pool = {} /\ head = 0 /\ fin = 0
    /\ pc = "poll" /\ opr = 1 /\ view = [latest |-> 0, finalized |-> 0] /\ lastKnown = 0
    /\ nonces = [latest |-> 0, finalized |-> 0] /\ queue = {}
    /\ cur = NoAttempt /\ resend = FALSE
    /\ crashes = 0

\* EthTxAggregator::save_eth_tx, as far as these tables are concerned.
SaveEthTx(o) ==
    /\ nextId <= MaxTxs
    /\ pc # "panicked"
    /\ ethTxs' = [i \in DOMAIN ethTxs \cup {nextId} |->
                    IF i = nextId
                    THEN [op |-> o, nonce |-> get_next_nonce(o), conf |-> 0, failed |-> FALSE]
                    ELSE ethTxs[i]]
    /\ nextId' = nextId + 1
    /\ UNCHANGED <<history, baseNonce, l1Vars, loopVars, crashes>>

(***************************************************************************)
(* The loop.                                                               *)
(***************************************************************************)
\* get_l1_block_numbers reads the finalized block first: it may have moved on by
\* the time the latest block is read.  (An error here ends run: see Restart.)
Poll ==
    /\ pc = "poll" /\ lastKnown < head
    /\ \E f \in 0 .. fin : view' = [latest |-> head, finalized |-> f]
    /\ pc' = "new" /\ opr' = 1
    /\ UNCHANGED <<dbVars, baseNonce, l1Vars, lastKnown, nonces, queue, cur, resend, crashes>>

\* No new L1 block since the last iteration: the loop only sleeps.
PollIdle ==
    /\ pc = "poll" /\ lastKnown >= head
    /\ UNCHANGED vars

\* The end of an operator's turn, reached normally or through an error.
NextOperator ==
    /\ IF opr < Len(Operators)
       THEN pc' = "new" /\ opr' = opr + 1 /\ UNCHANGED lastKnown
       ELSE pc' = "poll" /\ opr' = 1 /\ lastKnown' = view.latest
    /\ queue' = {} /\ cur' = NoAttempt /\ resend' = FALSE
    /\ nonces' = [latest |-> 0, finalized |-> 0]
    /\ UNCHANGED view

\* max_txs_in_flight.saturating_sub(number_inflight_txs).
Slots(o) == SetMax({0, MaxInFlight - Cardinality(get_inflight_txs(o))})

send_new_eth_txs ==
    /\ pc = "new"
    /\ queue' = get_new_eth_txs(op, Slots(op))
    /\ pc' = "sendnew"
    /\ UNCHANGED <<dbVars, baseNonce, l1Vars, opr, view, lastKnown, nonces, cur, resend, crashes>>

\* send_eth_tx up to insert_tx_history.
insert_tx_history(id) ==
    /\ LastLevel(id) < MaxLevel
    /\ history' = history \cup {[id |-> id, lvl |-> LastLevel(id) + 1, at |-> view.latest]}
    /\ cur' = [id |-> id, lvl |-> LastLevel(id) + 1]
    /\ pc' = "raw"

SendNewTx ==
    /\ pc = "sendnew"
    /\ \E id \in queue :
        /\ \A j \in queue : id <= j
        /\ queue' = queue \ {id}
        /\ insert_tx_history(id)
    /\ UNCHANGED <<ethTxs, nextId, baseNonce, l1Vars, opr, view, lastKnown, nonces, resend, crashes>>

SendNewDone ==
    /\ pc = "sendnew" /\ queue = {}
    /\ pc' = "monitor"
    /\ UNCHANGED <<dbVars, baseNonce, l1Vars, opr, view, lastKnown, nonces, queue, cur, resend, crashes>>

\* Where send_eth_tx returns to.
AfterSend ==
    IF resend THEN NextOperator
    ELSE /\ pc' = "sendnew" /\ cur' = NoAttempt
         /\ UNCHANGED <<opr, view, lastKnown, nonces, queue, resend>>

\* send_raw_transaction: L1 takes the transaction; the answer is Ok or is lost
\* on the way back (a transient error), and the record is kept either way.
RawAccepted ==
    /\ pc = "raw"
    /\ Acceptable(Entry(cur))
    /\ pool' = {p \in pool : ~SameNonce(p, Entry(cur))} \cup {Entry(cur)}
    /\ AfterSend
    /\ UNCHANGED <<dbVars, baseNonce, chain, head, fin, crashes>>

\* Mutant: a transient error removes the record of an attempt L1 has received.
RawLostForgets ==
    /\ pc = "raw"
    /\ Acceptable(Entry(cur))
    /\ pool' = {p \in pool : ~SameNonce(p, Entry(cur))} \cup {Entry(cur)}
    /\ history' = {h \in history : ~(h.id = cur.id /\ h.lvl = cur.lvl)}
    /\ AfterSend
    /\ UNCHANGED <<ethTxs, nextId, baseNonce, chain, head, fin, crashes>>

\* A transient error before L1 has received the transaction.
RawLost ==
    /\ pc = "raw"
    /\ AfterSend
    /\ UNCHANGED <<dbVars, baseNonce, l1Vars, crashes>>

\* Any other error: L1 refused the attempt and its record is removed.
RawRejected ==
    /\ pc = "raw"
    /\ history' = {h \in history : ~(h.id = cur.id /\ h.lvl = cur.lvl)}
    /\ AfterSend
    /\ UNCHANGED <<ethTxs, nextId, baseNonce, l1Vars, crashes>>

(***************************************************************************)
(* monitor_inflight_transactions_single_operator.                          *)
(***************************************************************************)
Monitor ==
    /\ pc = "monitor" /\ HasGateway
    /\ nonces' = [latest |-> NonceAt(op, view.latest),
                  finalized |-> NonceAt(op, view.finalized)]
    /\ queue' = get_inflight_txs(op)
    /\ pc' = "check"
    /\ UNCHANGED <<dbVars, baseNonce, l1Vars, opr, view, lastKnown, cur, resend, crashes>>

\* No gateway, or L1 does not tell the nonces: the turn ends.
MonitorEnds ==
    /\ pc = "monitor"
    /\ NextOperator
    /\ UNCHANGED <<dbVars, baseNonce, l1Vars, crashes>>

\* The transaction the for loop looks at: the lowest id left.
Current(id) == pc = "check" /\ id \in queue /\ \A j \in queue : id <= j
Unmined(id) == nonces.latest <= ethTxs[id].nonce
JustSent(id) == view.latest \in get_block_number_on_first_sent_attempt(id)
Finalized(id) == nonces.finalized > ethTxs[id].nonce

\* continue: sent at this very block, or mined but not final, or no receipt
\* found, or a receipt above the finalized block.
Skip(id) ==
    /\ Current(id)
    /\ \/ Unmined(id) /\ JustSent(id)
       \/ ~Unmined(id) /\ ~Finalized(id)
       \/ ~Unmined(id) /\ Finalized(id)
          /\ \A c \in Receipts(id) : c.block > view.finalized
    /\ queue' = queue \ {id}
    /\ UNCHANGED <<dbVars, baseNonce, l1Vars, pc, opr, view, lastKnown, nonces, cur, resend, crashes>>

\* The first un-mined transaction is sent again with higher fees.
Resend(id) ==
    /\ Current(id) /\ Unmined(id) /\ ~JustSent(id)
    /\ insert_tx_history(id)
    /\ resend' = TRUE /\ queue' = {}
    /\ UNCHANGED <<ethTxs, nextId, baseNonce, l1Vars, opr, view, lastKnown, nonces, crashes>>

\* calculate_fees returns "base_fee_per_gas is too low": the turn ends.
ResendTooCheap(id) ==
    /\ Current(id) /\ Unmined(id) /\ ~JustSent(id)
    /\ NextOperator
    /\ UNCHANGED <<dbVars, baseNonce, l1Vars, crashes>>

\* Mutant: the finality of the receipt's block is not checked.
ConfirmUnfinalized(id) ==
    /\ Current(id) /\ ~Unmined(id)
    /\ \E c \in Receipts(id) : c.ok /\ ethTxs' = [ethTxs EXCEPT ![id].conf = c.lvl]
    /\ queue' = queue \ {id}
    /\ UNCHANGED <<history, nextId, baseNonce, l1Vars, pc, opr, view, lastKnown, nonces, cur,
                   resend, crashes>>

confirm_tx(id) ==
    /\ Current(id) /\ ~Unmined(id) /\ Finalized(id)
    /\ \E c \in Receipts(id) : /\ c.block <= view.finalized /\ c.ok
                               /\ ethTxs' = [ethTxs EXCEPT ![id].conf = c.lvl]
    /\ queue' = queue \ {id}
    /\ UNCHANGED <<history, nextId, baseNonce, l1Vars, pc, opr, view, lastKnown, nonces, cur,
                   resend, crashes>>

\* mark_failed_transaction, then panic: the server goes down.
fail_tx(id) ==
    /\ Current(id) /\ ~Unmined(id) /\ Finalized(id)
    /\ \E c \in Receipts(id) : c.block <= view.finalized /\ ~c.ok
    /\ ethTxs' = [ethTxs EXCEPT ![id].failed = TRUE]
    /\ pc' = "panicked" /\ opr' = 1 /\ queue' = {}
    /\ UNCHANGED <<history, nextId, baseNonce, l1Vars, view, lastKnown, nonces, cur, resend, crashes>>

\* Mutant: a failed status check moves on to the next transaction.
SkipUnavailable(id) ==
    /\ Current(id) /\ ~Unmined(id) /\ Finalized(id)
    /\ queue' = queue \ {id}
    /\ UNCHANGED <<dbVars, baseNonce, l1Vars, pc, opr, view, lastKnown, nonces, cur, resend, crashes>>

\* get_tx_status fails: the loop stops, so that later ones are not confirmed first.
StatusUnavailable(id) ==
    /\ Current(id) /\ ~Unmined(id) /\ Finalized(id)
    /\ NextOperator
    /\ UNCHANGED <<dbVars, baseNonce, l1Vars, crashes>>

CheckDone ==
    /\ pc = "check" /\ queue = {}
    /\ NextOperator
    /\ UNCHANGED <<dbVars, baseNonce, l1Vars, crashes>>

(***************************************************************************)
(* Restarts, and the operator's clear-failed-transactions command.         *)
(***************************************************************************)
Restart ==
    /\ \/ pc = "panicked" /\ crashes' = crashes
       \/ pc # "panicked" /\ crashes < MaxCrashes /\ crashes' = crashes + 1
    /\ baseNonce' = [o \in Ops |-> PendingNonce(o)]
    /\ pc' = "poll" /\ opr' = 1 /\ lastKnown' = 0
    /\ view' = [latest |-> 0, finalized |-> 0] /\ nonces' = [latest |-> 0, finalized |-> 0]
    /\ queue' = {} /\ cur' = NoAttempt /\ resend' = FALSE
    /\ UNCHANGED <<dbVars, l1Vars>>

\* Mutant: the history rows of the deleted transactions stay.
ClearFailedKeepsHistory ==
    /\ pc = "panicked"
    /\ \E f \in DOMAIN ethTxs :
        /\ ethTxs[f].failed /\ \A i \in DOMAIN ethTxs : ethTxs[i].failed => f <= i
        /\ ethTxs' = [i \in {j \in DOMAIN ethTxs : j < f} |-> ethTxs[i]]
    /\ UNCHANGED <<history, nextId, baseNonce, l1Vars, loopVars, crashes>>

\* Mutant: the row before the first failed one is deleted too.
ClearFailedOneMore ==
    /\ pc = "panicked"
    /\ LET failed == {i \in DOMAIN ethTxs : ethTxs[i].failed}
           keep == {i \in DOMAIN ethTxs : \A f \in failed : i + 1 < f}
       IN  /\ failed # {}
           /\ ethTxs' = [i \in keep |-> ethTxs[i]]
           /\ history' = {h \in history : h.id \in keep}
    /\ UNCHANGED <<nextId, baseNonce, l1Vars, loopVars, crashes>>

clear_failed_transactions ==
    /\ pc = "panicked"
    /\ LET failed == {i \in DOMAIN ethTxs : ethTxs[i].failed}
           keep == {i \in DOMAIN ethTxs : \A f \in failed : i < f}
       IN  /\ failed # {}
           /\ ethTxs' = [i \in keep |-> ethTxs[i]]
           /\ history' = {h \in history : h.id \in keep}
    /\ UNCHANGED <<nextId, baseNonce, l1Vars, loopVars, crashes>>

(***************************************************************************)
(* L1.                                                                     *)
(***************************************************************************)
\* A block with transactions that follow each operator's nonce, each successful or
\* reverted.
MineBlock ==
    /\ head < MaxBlock
    /\ head' = head + 1
    /\ \E mined \in SUBSET pool : \E ok \in SUBSET mined :
        LET Of(o) == {p \in mined : p.op = o}
            At(o, nonce) == CHOOSE p \in Of(o) : p.nonce = nonce
        IN  /\ \A o \in Ops : {p.nonce : p \in Of(o)} =
                    Len(chain[o]) .. Len(chain[o]) + Cardinality(Of(o)) - 1
            /\ chain' = [o \in Ops |-> chain[o] \o [k \in 1 .. Cardinality(Of(o)) |->
                    LET p == At(o, Len(chain[o]) + k - 1)
                    IN  [id |-> p.id, lvl |-> p.lvl, block |-> head + 1, ok |-> p \in ok]]]
            /\ pool' = pool \ mined
    /\ UNCHANGED <<dbVars, baseNonce, fin, loopVars, crashes>>

Finalize ==
    /\ fin < head
    /\ fin' = fin + 1
    /\ UNCHANGED <<dbVars, baseNonce, chain, pool, head, loopVars, crashes>>

\* The blocks above b are replaced by empty ones; their transactions are lost.
Reorg ==
    /\ \E b \in fin .. head - 1 :
        chain' = [o \in Ops |-> SubSeq(chain[o], 1, NonceAt(o, b))]
    /\ chain' # chain
    /\ UNCHANGED <<dbVars, baseNonce, pool, head, fin, loopVars, crashes>>

Evict ==
    /\ \E p \in pool : pool' = pool \ {p}
    /\ UNCHANGED <<dbVars, baseNonce, chain, head, fin, loopVars, crashes>>

-----------------------------------------------------------------------------
Check == \E id \in queue : \/ Skip(id) \/ Resend(id) \/ ResendTooCheap(id)
                           \/ confirm_tx(id) \/ fail_tx(id) \/ StatusUnavailable(id)
Manager == \/ Poll \/ PollIdle \/ send_new_eth_txs \/ SendNewTx \/ SendNewDone
           \/ RawAccepted \/ RawLost \/ RawRejected
           \/ Monitor \/ MonitorEnds \/ Check \/ CheckDone
L1 == MineBlock \/ Finalize \/ Reorg \/ Evict
Next == \/ \E o \in Ops : SaveEthTx(o)
        \/ Manager
        \/ Restart \/ clear_failed_transactions
        \/ L1

Spec == Init /\ [][Next]_vars

-----------------------------------------------------------------------------
\* Every variable keeps its type; a history row always belongs to an eth_txs row.
TypeOK ==
    /\ DOMAIN ethTxs \subseteq 1 .. nextId - 1 /\ nextId \in 1 .. MaxTxs + 1
    /\ \A i \in DOMAIN ethTxs :
        ethTxs[i] \in [op : Ops, nonce : Nat, conf : 0 .. MaxLevel, failed : BOOLEAN]
    /\ history \subseteq [id : DOMAIN ethTxs, lvl : Levels, at : 0 .. MaxBlock]
    /\ baseNonce \in [Ops -> Nat]
    /\ DOMAIN chain = Ops
    /\ \A o \in Ops : chain[o] \in Seq([id : Ids, lvl : Levels, block : 1 .. MaxBlock, ok : BOOLEAN])
    /\ pool \subseteq [id : Ids, op : Ops, nonce : Nat, lvl : Levels]
    /\ head \in 0 .. MaxBlock /\ fin \in 0 .. head
    /\ pc \in {"poll", "new", "sendnew", "raw", "monitor", "check", "panicked"}
    /\ opr \in DOMAIN Operators
    /\ view \in [latest : 0 .. head, finalized : 0 .. fin]
    /\ lastKnown \in 0 .. head
    /\ nonces \in [latest : Nat, finalized : Nat]
    /\ queue \subseteq DOMAIN ethTxs
    /\ cur \in [id : 0 .. MaxTxs, lvl : 0 .. MaxLevel]
    /\ resend \in BOOLEAN /\ crashes \in 0 .. MaxCrashes

Live(id) == id \in DOMAIN ethTxs

\* Every attempt L1 holds, waiting or mined, has its eth_txs_history row as long
\* as its transaction is in the database: rows are inserted before sending and
\* removed only when L1 refused the attempt (send_raw_transaction).
L1AttemptRecorded ==
    /\ \A p \in pool : Live(p.id) => \E h \in RowsOf(p.id) : h.lvl = p.lvl
    /\ \A o \in Ops : \A k \in DOMAIN chain[o] :
        Live(chain[o][k].id) => \E h \in RowsOf(chain[o][k].id) : h.lvl = chain[o][k].lvl

\* The nonce of i was used by a transaction that clear_failed_transactions deleted.
Taken(i) ==
    LET n == ethTxs[i].nonce + 1  mined == chain[ethTxs[i].op]
    IN  n \in DOMAIN mined /\ ~Live(mined[n].id)

\* Transactions of an operator are confirmed in id order, as the comment in
\* apply_inflight_txs_statuses_and_get_first_to_resend demands of its early return.
\* The one exception: a transaction that never can be, for its nonce was taken.
ConfirmedInOrder ==
    \A i, j \in DOMAIN ethTxs :
        i < j /\ ethTxs[i].op = ethTxs[j].op /\ ethTxs[j].conf # 0
            => ethTxs[i].conf # 0 \/ Taken(i)

\* A confirmed transaction was mined successfully, with the attempt recorded as
\* confirmed and at its own nonce, in a block that is final: no reorg undoes it.
ConfirmedIsFinal ==
    \A i \in DOMAIN ethTxs : ethTxs[i].conf # 0 =>
        LET n == ethTxs[i].nonce + 1  mined == chain[ethTxs[i].op] IN
        /\ n \in DOMAIN mined /\ mined[n].id = i /\ mined[n].lvl = ethTxs[i].conf
        /\ mined[n].ok /\ mined[n].block <= fin

\* L1 holds a transaction with this nonce, waiting or mined.
OnL1(o, nonce) == nonce < Len(chain[o]) \/ \E p \in pool : p.op = o /\ p.nonce = nonce

\* After rows were cleared get_next_nonce starts from the pending nonce read at
\* startup, which nobody uses on L1.  A nonce that L1 holds is given out only above
\* it, where a deleted transaction may still wait in the mempool behind a gap.
NonceNotTaken ==
    [][\A i \in DOMAIN ethTxs' \ DOMAIN ethTxs :
            OnL1(ethTxs'[i].op, ethTxs'[i].nonce)
                => ethTxs'[i].nonce > baseNonce[ethTxs'[i].op]]_vars

\* clear_failed_transactions deletes every row from the first failed one on.  A
\* confirmed transaction is lost to it only by the failure of the other operator
\* account: what follows a failed transaction of its own account cannot have been
\* confirmed before the panic.  No other step erases or changes a confirmation.
ConfirmedErasedByOtherOnly ==
    [][\A i \in DOMAIN ethTxs : ethTxs[i].conf # 0 =>
            \/ i \in DOMAIN ethTxs' /\ ethTxs'[i].conf = ethTxs[i].conf
            \/ \E f \in DOMAIN ethTxs :
                f < i /\ ethTxs[f].failed /\ ethTxs[f].op # ethTxs[i].op]_vars
=============================================================================
