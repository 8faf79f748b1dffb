------------------------- MODULE EthTxManagerProofs -------------------------
(***************************************************************************)
(* Proofs about EthTxManager for one or two operator accounts and any      *)
(* number of transactions, attempts, blocks and crashes: every attempt L1  *)
(* holds is recorded, confirmations come in order, are final and are       *)
(* erased only through the other account, and the nonce given out after a  *)
(* restart is free.                                                        *)
(***************************************************************************)
EXTENDS EthTxManager, NatSetLemmas

\* Nonces of an account grow with the ids of its transactions.
NoncesGrow ==
    \A i, j \in DOMAIN ethTxs :
        i < j /\ ethTxs[i].op = ethTxs[j].op => ethTxs[i].nonce < ethTxs[j].nonce

\* What L1 holds of a transaction that is in the database is at the account and the
\* nonce the database has for it.  Ids are never used again.
L1Identity ==
    /\ \A p \in pool : /\ p.id < nextId
                       /\ Live(p.id) => ethTxs[p.id].op = p.op /\ ethTxs[p.id].nonce = p.nonce
    /\ \A o \in Ops : \A k \in DOMAIN chain[o] :
        /\ chain[o][k].id < nextId
        /\ Live(chain[o][k].id) => /\ ethTxs[chain[o][k].id].op = o
                                   /\ ethTxs[chain[o][k].id].nonce = k - 1

\* Blocks come in order, none above the head.
Blocks ==
    \A o \in Ops : \A k \in DOMAIN chain[o] :
        /\ chain[o][k].block <= head
        /\ \A j \in DOMAIN chain[o] : j <= k => chain[o][j].block <= chain[o][k].block

\* The attempt about to be sent is not on L1 yet.
CurFresh ==
    pc = "raw" =>
        /\ Live(cur.id) /\ cur.lvl \in Levels
        /\ \E h \in RowsOf(cur.id) : h.lvl = cur.lvl
        /\ \A p \in pool : ~(p.id = cur.id /\ p.lvl = cur.lvl)
        /\ \A o \in Ops : \A k \in DOMAIN chain[o] :
            ~(chain[o][k].id = cur.id /\ chain[o][k].lvl = cur.lvl)

\* No deleted transaction uses the nonce an account starts from.
BaseFree ==
    pc # "panicked" => \A o \in Ops :
        /\ baseNonce[o] < Len(chain[o]) => Live(chain[o][baseNonce[o] + 1].id)
        /\ \A p \in pool : p.op = o /\ p.nonce = baseNonce[o] => Live(p.id)

\* Taken in a block that is final.
TakenForGood(i) == Taken(i) /\ chain[ethTxs[i].op][ethTxs[i].nonce + 1].block <= fin

InOrder ==
    \A i, j \in DOMAIN ethTxs :
        i < j /\ ethTxs[i].op = ethTxs[j].op /\ ethTxs[j].conf # 0
            => ethTxs[i].conf # 0 \/ TakenForGood(i)

\* A failed transaction was reverted in a final block, at its own nonce.
FailedIsFinal ==
    \A i \in DOMAIN ethTxs : ethTxs[i].failed =>
        LET n == ethTxs[i].nonce + 1  mined == chain[ethTxs[i].op] IN
        n \in DOMAIN mined /\ mined[n].id = i /\ ~mined[n].ok /\ mined[n].block <= fin

\* A transaction of the account that the for loop has passed and left unconfirmed.
Passed(i) ==
    /\ ethTxs[i].op = op /\ ethTxs[i].conf = 0 /\ i \notin queue
    /\ \E q \in queue : i < q

\* The nonces the monitor read cover finalized blocks only, and what the loop has
\* passed stands in the way of everything after it, or is lost.
Monitored ==
    pc = "check" =>
        /\ nonces.finalized <= Len(chain[op])
        /\ \A k \in 1 .. nonces.finalized : chain[op][k].block <= view.finalized
        /\ \A q \in queue : ethTxs[q].op = op
        /\ \A i \in DOMAIN ethTxs : Passed(i) => Unmined(i) \/ ~Finalized(i) \/ TakenForGood(i)

Down == pc = "panicked" => queue = {}

DbInv == NoncesGrow /\ L1Identity /\ L1AttemptRecorded /\ Blocks /\ IsFiniteSet(pool)
FinalInv == ConfirmedIsFinal /\ FailedIsFinal /\ InOrder
LoopInv == CurFresh /\ BaseFree /\ Monitored /\ Down
IInv == TypeOK /\ DbInv /\ FinalInv /\ LoopInv

-----------------------------------------------------------------------------
(* Types, part by part.                                                    *)

EthTx == [op : Ops, nonce : Nat, conf : 0 .. MaxLevel, failed : BOOLEAN]
PoolTx == [id : Ids, op : Ops, nonce : Nat, lvl : Levels]
MinedTx == [id : Ids, lvl : Levels, block : 1 .. MaxBlock, ok : BOOLEAN]

DbTypes ==
    /\ DOMAIN ethTxs \subseteq 1 .. nextId - 1 /\ nextId \in 1 .. MaxTxs + 1
    /\ \A i \in DOMAIN ethTxs : ethTxs[i] \in EthTx
    /\ history \subseteq [id : DOMAIN ethTxs, lvl : Levels, at : 0 .. MaxBlock]
    /\ baseNonce \in [Ops -> Nat]
L1Types ==
    /\ DOMAIN chain = Ops /\ \A o \in Ops : chain[o] \in Seq(MinedTx)
    /\ pool \subseteq PoolTx
    /\ head \in 0 .. MaxBlock /\ fin \in 0 .. head
LoopTypes ==
    /\ pc \in {"poll", "new", "sendnew", "raw", "monitor", "check", "panicked"}
    /\ opr \in DOMAIN Operators
    /\ view \in [latest : 0 .. head, finalized : 0 .. fin]
    /\ lastKnown \in 0 .. head
    /\ nonces \in [latest : Nat, finalized : Nat]
    /\ queue \subseteq DOMAIN ethTxs
    /\ cur \in [id : 0 .. MaxTxs, lvl : 0 .. MaxLevel]
    /\ resend \in BOOLEAN /\ crashes \in 0 .. MaxCrashes

\* The type invariant is these three.
LEMMA TypeParts == TypeOK <=> DbTypes /\ L1Types /\ LoopTypes
  BY DEF TypeOK, DbTypes, L1Types, LoopTypes, EthTx, PoolTx, MinedTx

\* The same after a step.
LEMMA TypePartsNext == DbTypes' /\ L1Types' /\ LoopTypes' => TypeOK'
  BY DEF TypeOK, DbTypes, L1Types, LoopTypes, EthTx, PoolTx, MinedTx

\* The constants.
LEMMA ConstantTypes ==
    /\ MaxTxs \in Nat /\ MaxLevel \in Nat /\ MaxBlock \in Nat /\ MaxCrashes \in Nat /\ 1 <= MaxLevel
    /\ "NonBlob" \in Ops /\ DOMAIN Operators = {1, 2}
  BY ManagerAssumption DEF Ops, Operators

\* Rows of the two tables.
LEMMA RowTypes ==
    ASSUME DbTypes
    PROVE  /\ nextId \in Nat
           /\ \A i \in DOMAIN ethTxs :
                /\ i \in Ids /\ i \in Nat /\ i < nextId
                /\ ethTxs[i].op \in Ops /\ ethTxs[i].nonce \in Nat
                /\ ethTxs[i].conf \in 0 .. MaxLevel /\ ethTxs[i].failed \in BOOLEAN
           /\ \A h \in history : /\ Live(h.id) /\ h.lvl \in Levels /\ h.lvl \in Nat
                                 /\ h = [id |-> h.id, lvl |-> h.lvl, at |-> h.at]
<1>1. nextId \in 1 .. MaxTxs + 1 /\ DOMAIN ethTxs \subseteq 1 .. nextId - 1 /\ MaxTxs \in Nat
  BY ConstantTypes DEF DbTypes
<1>2. nextId \in Nat /\ \A i \in DOMAIN ethTxs : i \in Ids /\ i \in Nat /\ i < nextId
  BY <1>1 DEF Ids
<1>3. ASSUME NEW i \in DOMAIN ethTxs
      PROVE  /\ ethTxs[i].op \in Ops /\ ethTxs[i].nonce \in Nat
             /\ ethTxs[i].conf \in 0 .. MaxLevel /\ ethTxs[i].failed \in BOOLEAN
  <2>1. ethTxs[i] \in EthTx
    BY DEF DbTypes
  <2> QED BY <2>1 DEF EthTx
<1>4. ASSUME NEW h \in history
      PROVE  /\ Live(h.id) /\ h.lvl \in Levels /\ h.lvl \in Nat
             /\ h = [id |-> h.id, lvl |-> h.lvl, at |-> h.at]
  <2>1. h \in [id : DOMAIN ethTxs, lvl : Levels, at : 0 .. MaxBlock]
    BY DEF DbTypes
  <2> QED BY <2>1 DEF Live, Levels
<1> QED BY <1>2, <1>3, <1>4

\* What L1 holds.
LEMMA ChainTypes ==
    ASSUME L1Types
    PROVE  /\ \A o \in Ops : /\ Len(chain[o]) \in Nat /\ DOMAIN chain[o] = 1 .. Len(chain[o])
                             /\ chain[o] \in Seq(MinedTx)
           /\ \A o \in Ops : \A k \in DOMAIN chain[o] :
                /\ chain[o][k].id \in Ids /\ chain[o][k].lvl \in Levels /\ chain[o][k].block \in Nat
                /\ chain[o][k].ok \in BOOLEAN
           /\ \A p \in pool : p.id \in Ids /\ p.op \in Ops /\ p.nonce \in Nat /\ p.lvl \in Levels
           /\ head \in Nat /\ fin \in Nat /\ fin <= head
<1>1. ASSUME NEW o \in Ops
      PROVE  /\ Len(chain[o]) \in Nat /\ DOMAIN chain[o] = 1 .. Len(chain[o])
             /\ chain[o] \in Seq(MinedTx)
             /\ \A k \in DOMAIN chain[o] :
                /\ chain[o][k].id \in Ids /\ chain[o][k].lvl \in Levels /\ chain[o][k].block \in Nat
                /\ chain[o][k].ok \in BOOLEAN
  <2>1. chain[o] \in Seq(MinedTx)
    BY DEF L1Types
  <2>2. \A k \in DOMAIN chain[o] : chain[o][k] \in MinedTx
    BY <2>1
  <2> QED BY <2>1, <2>2 DEF MinedTx
<1>2. ASSUME NEW p \in pool PROVE p.id \in Ids /\ p.op \in Ops /\ p.nonce \in Nat /\ p.lvl \in Levels
  <2>1. p \in PoolTx
    BY DEF L1Types
  <2> QED BY <2>1 DEF PoolTx
<1>3. head \in Nat /\ fin \in Nat /\ fin <= head
  BY ConstantTypes DEF L1Types
<1> QED BY <1>1, <1>2, <1>3

\* The account whose turn it is.
LEMMA OpIsAccount == LoopTypes => op \in Ops
  BY DEF LoopTypes, op, Ops, Operators

\* SetMax of a bounded set.
LEMMA SetMaxIsMax ==
    ASSUME NEW n \in Nat, NEW S \in SUBSET (0 .. n), S # {}
    PROVE  SetMax(S) \in S /\ \A y \in S : y <= SetMax(S)
  BY NatMax DEF SetMax

-----------------------------------------------------------------------------
(* The initial state, and what is kept when only some variables change.    *)

\* An empty database and an empty chain.
LEMMA InitInv == Init => IInv
<1> SUFFICES ASSUME Init PROVE IInv
  OBVIOUS
<1>1. /\ DOMAIN ethTxs = {} /\ pool = {} /\ history = {} /\ pc = "poll"
      /\ \A o \in Ops : chain[o] = <<>> /\ Len(chain[o]) = 0 /\ DOMAIN chain[o] = {} /\ baseNonce[o] = 0
  BY DEF Init
<1>2. DbTypes
  BY <1>1, ConstantTypes DEF Init, DbTypes
<1>3. L1Types
  BY <1>1, ConstantTypes DEF Init, L1Types
<1>4. LoopTypes
  <2>1. 0 \in 0 .. 0 /\ 0 \in 0 .. MaxTxs /\ 0 \in 0 .. MaxLevel /\ 0 \in 0 .. MaxCrashes
    BY ConstantTypes
  <2>2. view \in [latest : 0 .. head, finalized : 0 .. fin] /\ lastKnown \in 0 .. head
    BY <2>1 DEF Init
  <2>3. cur \in [id : 0 .. MaxTxs, lvl : 0 .. MaxLevel]
    BY <2>1 DEF Init, NoAttempt, NoId
  <2> QED BY <1>1, <2>1, <2>2, <2>3, ConstantTypes DEF Init, LoopTypes
<1>5. DbInv
  BY <1>1, FS_EmptySet DEF DbInv, NoncesGrow, L1Identity, L1AttemptRecorded, Blocks
<1>6. FinalInv
  BY <1>1 DEF FinalInv, ConfirmedIsFinal, FailedIsFinal, InOrder
<1>7. LoopInv
  BY <1>1 DEF LoopInv, CurFresh, BaseFree, Monitored, Down
<1> QED BY <1>2, <1>3, <1>4, <1>5, <1>6, <1>7, TypeParts DEF IInv

\* Steps of the loop that write neither to the database nor to L1.
LEMMA LoopStep ==
    ASSUME IInv, UNCHANGED <<dbVars, baseNonce, l1Vars>>, LoopTypes',
           pc' # "raw", pc' # "panicked", pc # "panicked", Monitored'
    PROVE  IInv'
<1>1. UNCHANGED <<ethTxs, history, nextId, baseNonce, chain, pool, head, fin>>
  BY DEF dbVars, l1Vars
<1>2. DbTypes' /\ L1Types'
  BY <1>1, TypeParts DEF IInv, DbTypes, L1Types
<1>3. \A i : Live(i)' = Live(i) /\ RowsOf(i)' = RowsOf(i) /\ TakenForGood(i)' = TakenForGood(i)
  BY <1>1 DEF Live, RowsOf, TakenForGood, Taken
<1>4. DbInv'
  BY <1>1, <1>3 DEF IInv, DbInv, NoncesGrow, L1Identity, L1AttemptRecorded, Blocks, Live, RowsOf
<1>5. FinalInv'
  <2>1. ConfirmedIsFinal' /\ FailedIsFinal'
    BY <1>1 DEF IInv, FinalInv, ConfirmedIsFinal, FailedIsFinal
  <2>2. InOrder'
    BY <1>1, <1>3 DEF IInv, FinalInv, InOrder
  <2> QED BY <2>1, <2>2 DEF FinalInv
<1>6. LoopInv'
  BY <1>1 DEF IInv, LoopInv, CurFresh, BaseFree, Down, Live
<1> QED BY <1>2, <1>4, <1>5, <1>6, TypePartsNext DEF IInv

-----------------------------------------------------------------------------
(* Steps of the loop that only read.                                       *)

\* The loop is not down, and it is not about to send.
LEMMA NextOperatorTypes ==
    ASSUME LoopTypes, L1Types, NextOperator, UNCHANGED <<ethTxs, head, fin, crashes>>
    PROVE  LoopTypes' /\ pc' \in {"new", "poll"} /\ queue' = {}
<1>1. pc' \in {"new", "poll"} /\ queue' = {} /\ resend' = FALSE
  BY DEF NextOperator
<1>2. view.latest \in 0 .. head
  BY DEF LoopTypes
<1>3. opr' \in DOMAIN Operators /\ lastKnown' \in 0 .. head
  BY <1>2 DEF NextOperator, LoopTypes, Operators
<1>4. view' \in [latest : 0 .. head, finalized : 0 .. fin] /\ nonces' \in [latest : Nat, finalized : Nat]
  BY DEF NextOperator, LoopTypes
<1>5. cur' \in [id : 0 .. MaxTxs, lvl : 0 .. MaxLevel]
  BY ConstantTypes DEF NextOperator, NoAttempt, NoId
<1> QED BY <1>1, <1>3, <1>4, <1>5 DEF LoopTypes

\* The end of a turn.
LEMMA TurnEnds ==
    ASSUME IInv, NextOperator, pc # "panicked", UNCHANGED <<dbVars, baseNonce, l1Vars, crashes>>
    PROVE  IInv'
<1>1. LoopTypes /\ L1Types /\ UNCHANGED <<ethTxs, head, fin, crashes>>
  BY TypeParts DEF IInv, dbVars, l1Vars
<1>2. LoopTypes' /\ pc' \in {"new", "poll"}
  BY <1>1, NextOperatorTypes
<1>3. Monitored'
  BY <1>2 DEF Monitored
<1> QED BY <1>2, <1>3, LoopStep

\* Where send_eth_tx returns to.
LEMMA AfterSendTypes ==
    ASSUME LoopTypes, L1Types, AfterSend, UNCHANGED <<ethTxs, head, fin, crashes>>
    PROVE  LoopTypes' /\ pc' \in {"new", "poll", "sendnew"}
<1>1. CASE resend
  BY <1>1, NextOperatorTypes DEF AfterSend
<1>2. CASE ~resend
  <2>1. cur' \in [id : 0 .. MaxTxs, lvl : 0 .. MaxLevel]
    BY <1>2, ConstantTypes DEF AfterSend, NoAttempt, NoId
  <2> QED BY <1>2, <2>1 DEF AfterSend, LoopTypes
<1> QED BY <1>1, <1>2

\* A nonce read at a block counts what was mined up to it.
LEMMA NonceAtIsPrefix ==
    ASSUME L1Types, Blocks, NEW o \in Ops, NEW b \in Nat
    PROVE  /\ NonceAt(o, b) \in 0 .. Len(chain[o])
           /\ \A k \in DOMAIN chain[o] : chain[o][k].block <= b <=> k <= NonceAt(o, b)
<1> DEFINE S == {k \in DOMAIN chain[o] : chain[o][k].block <= b}
<1>1. /\ Len(chain[o]) \in Nat /\ DOMAIN chain[o] = 1 .. Len(chain[o])
      /\ \A k \in DOMAIN chain[o] : chain[o][k].block \in Nat
  BY ChainTypes
<1>2. \A k \in S : 1 .. k \subseteq S
  BY <1>1 DEF Blocks
<1>3. S \in SUBSET (1 .. Len(chain[o]))
  BY <1>1
<1>4. Cardinality(S) \in 0 .. Len(chain[o]) /\ S = 1 .. Cardinality(S)
  <2> HIDE DEF S
  <2> QED BY <1>1, <1>2, <1>3, InitialSegment
<1>5. NonceAt(o, b) = Cardinality(S)
  BY DEF NonceAt
<1>6. \A k \in DOMAIN chain[o] : k \in S <=> k <= NonceAt(o, b)
  <2> HIDE DEF S
  <2> QED BY <1>1, <1>4, <1>5
<1> QED BY <1>4, <1>5, <1>6

\* The transactions in flight are all unconfirmed ones up to the last one sent.
LEMMA InflightIsInitial ==
    ASSUME NEW o, NEW q \in get_inflight_txs(o)
    PROVE  /\ q \in DOMAIN ethTxs /\ ethTxs[q].op = o
           /\ DbTypes => \A i \in DOMAIN ethTxs :
                i < q /\ ethTxs[i].op = o /\ ethTxs[i].conf = 0 => i \in get_inflight_txs(o)
<1>1. q \in DOMAIN ethTxs /\ ethTxs[q].op = o /\ q <= LastSentId(o)
  BY DEF get_inflight_txs
<1>2. ASSUME DbTypes PROVE LastSentId(o) \in Nat
  <2> DEFINE S == {h.id : h \in {r \in history : ethTxs[r.id].op = o}}
  <2>1. MaxTxs \in Nat /\ S \in SUBSET (0 .. MaxTxs)
    BY <1>2, RowTypes, ConstantTypes DEF Live, Ids
  <2>2. CASE S = {}
    BY <2>2 DEF LastSentId, SetMax
  <2>3. CASE S # {}
    <3>1. SetMax(S) \in S
      <4> HIDE DEF S
      <4> QED BY <2>1, <2>3, SetMaxIsMax
    <3> QED BY <2>1, <3>1 DEF LastSentId
  <2> QED BY <2>2, <2>3
<1>3. ASSUME DbTypes, NEW i \in DOMAIN ethTxs, i < q, ethTxs[i].op = o, ethTxs[i].conf = 0
      PROVE  i \in get_inflight_txs(o)
  <2>1. i \in Nat /\ q \in Nat /\ LastSentId(o) \in Nat
    BY <1>1, <1>2, <1>3, RowTypes
  <2>2. i <= LastSentId(o)
    BY <1>1, <1>3, <2>1
  <2> QED BY <1>3, <2>2 DEF get_inflight_txs
<1> QED BY <1>1, <1>3

\* The monitor reads nonces and the transactions in flight.
LEMMA MonitorInv == IInv /\ Monitor => IInv'
<1> SUFFICES ASSUME IInv, Monitor PROVE IInv'
  OBVIOUS
<1>1. /\ UNCHANGED <<dbVars, baseNonce, l1Vars>> /\ UNCHANGED <<opr, view, lastKnown, cur, resend, crashes>>
      /\ UNCHANGED <<ethTxs, chain, head, fin>>
      /\ pc = "monitor" /\ pc' = "check" /\ queue' = get_inflight_txs(op)
      /\ nonces' = [latest |-> NonceAt(op, view.latest), finalized |-> NonceAt(op, view.finalized)]
  BY DEF Monitor, dbVars, l1Vars
<1>2. DbTypes /\ L1Types /\ LoopTypes /\ op \in Ops /\ Blocks
  BY TypeParts, OpIsAccount DEF IInv, DbInv
<1>3. view.latest \in Nat /\ view.finalized \in Nat
  <2>1. view.latest \in 0 .. head /\ view.finalized \in 0 .. fin
    BY <1>2 DEF LoopTypes
  <2> QED BY <1>2, <2>1, ChainTypes
<1>4. /\ NonceAt(op, view.latest) \in Nat /\ NonceAt(op, view.finalized) \in 0 .. Len(chain[op])
      /\ \A k \in DOMAIN chain[op] : chain[op][k].block <= view.finalized <=> k <= NonceAt(op, view.finalized)
  BY <1>2, <1>3, NonceAtIsPrefix, ChainTypes
<1>5. Len(chain[op]) \in Nat /\ DOMAIN chain[op] = 1 .. Len(chain[op])
  BY <1>2, ChainTypes
<1>6. LoopTypes'
  <2>1. nonces' \in [latest : Nat, finalized : Nat]
    BY <1>1, <1>4, <1>5
  <2>2. queue' \subseteq DOMAIN ethTxs
    BY <1>1 DEF get_inflight_txs
  <2> QED BY <1>1, <1>2, <2>1, <2>2 DEF LoopTypes
<1>7. Monitored'
  <2>1. op' = op
    BY <1>1 DEF op
  <2>2. nonces'.finalized = NonceAt(op, view.finalized)
    BY <1>1
  <2>3. \A k \in 1 .. nonces'.finalized : chain[op][k].block <= view.finalized
    BY <1>4, <1>5, <2>2
  <2>4. \A q \in queue' : ethTxs[q].op = op
    BY <1>1, InflightIsInitial
  <2>5. \A i \in DOMAIN ethTxs : ~Passed(i)'
    BY <1>1, <1>2, <2>1, InflightIsInitial DEF Passed
  <2> QED BY <1>1, <1>4, <1>5, <2>1, <2>2, <2>3, <2>4, <2>5 DEF Monitored
<1> QED BY <1>1, <1>6, <1>7, LoopStep

\* Steps that read the queue of new transactions, or the block numbers.
LEMMA ReadInv == IInv /\ (Poll \/ send_new_eth_txs \/ SendNewDone) => IInv'
<1> SUFFICES ASSUME IInv, Poll \/ send_new_eth_txs \/ SendNewDone PROVE IInv'
  OBVIOUS
<1>1. LoopTypes /\ L1Types
  BY TypeParts DEF IInv
<1>2. CASE Poll
  <2>1. /\ UNCHANGED <<dbVars, baseNonce, l1Vars>> /\ UNCHANGED <<ethTxs, head, fin>>
        /\ UNCHANGED <<lastKnown, nonces, queue, cur, resend, crashes>>
        /\ pc = "poll" /\ pc' = "new" /\ opr' = 1
    BY <1>2 DEF Poll, dbVars, l1Vars
  <2>2. view' \in [latest : 0 .. head, finalized : 0 .. fin]
    <3>1. head \in 0 .. head
      BY <1>1, ChainTypes
    <3> QED BY <1>2, <3>1 DEF Poll
  <2>3. LoopTypes' /\ Monitored'
    BY <1>1, <2>1, <2>2, ConstantTypes DEF LoopTypes, Monitored
  <2> QED BY <2>1, <2>3, LoopStep
<1>3. CASE send_new_eth_txs
  <2>1. /\ UNCHANGED <<dbVars, baseNonce, l1Vars>> /\ UNCHANGED <<ethTxs, head, fin>>
        /\ UNCHANGED <<opr, view, lastKnown, nonces, cur, resend, crashes>>
        /\ pc = "new" /\ pc' = "sendnew" /\ queue' \subseteq DOMAIN ethTxs
    BY <1>3 DEF send_new_eth_txs, dbVars, l1Vars, get_new_eth_txs
  <2>2. LoopTypes' /\ Monitored'
    BY <1>1, <2>1 DEF LoopTypes, Monitored
  <2> QED BY <2>1, <2>2, LoopStep
<1>4. CASE SendNewDone
  <2>1. /\ UNCHANGED <<dbVars, baseNonce, l1Vars>> /\ UNCHANGED <<ethTxs, head, fin>>
        /\ UNCHANGED <<opr, view, lastKnown, nonces, queue, cur, resend, crashes>>
        /\ pc = "sendnew" /\ pc' = "monitor"
    BY <1>4 DEF SendNewDone, dbVars, l1Vars
  <2>2. LoopTypes' /\ Monitored'
    BY <1>1, <2>1 DEF LoopTypes, Monitored
  <2> QED BY <2>1, <2>2, LoopStep
<1> QED BY <1>2, <1>3, <1>4

\* The transaction at the nonce of i on L1 is i, or one that was deleted.
LEMMA UsedByItself ==
    ASSUME TypeOK, NoncesGrow, L1Identity, NEW i \in DOMAIN ethTxs,
           ethTxs[i].nonce + 1 \in DOMAIN chain[ethTxs[i].op],
           Live(chain[ethTxs[i].op][ethTxs[i].nonce + 1].id)
    PROVE  chain[ethTxs[i].op][ethTxs[i].nonce + 1].id = i
<1> DEFINE o == ethTxs[i].op
           n == ethTxs[i].nonce + 1
           j == chain[o][n].id
<1>1. o \in Ops /\ ethTxs[i].nonce \in Nat /\ i \in Nat
  BY TypeParts, RowTypes
<1>2. j \in DOMAIN ethTxs /\ ethTxs[j].op = o /\ ethTxs[j].nonce = n - 1
  BY <1>1 DEF L1Identity, Live
<1>3. j \in Nat /\ ethTxs[j].nonce = ethTxs[i].nonce
  BY <1>1, <1>2, TypeParts, RowTypes
<1>4. ~(j < i) /\ ~(i < j)
  BY <1>1, <1>2, <1>3 DEF NoncesGrow
<1> QED BY <1>1, <1>3, <1>4

\* What the loop passes stands in the way of the transactions after it.
LEMMA SkipInv == ASSUME NEW id, IInv, Skip(id) PROVE IInv'
<1>1. /\ UNCHANGED <<dbVars, baseNonce, l1Vars>> /\ UNCHANGED <<pc, opr, view, lastKnown, nonces, cur, resend, crashes>>
      /\ UNCHANGED <<ethTxs, chain, head, fin>>
      /\ pc = "check" /\ id \in queue /\ queue' = queue \ {id}
  BY DEF Skip, Current, dbVars, l1Vars
<1>2. DbTypes /\ L1Types /\ LoopTypes /\ op \in Ops
  BY TypeParts, OpIsAccount DEF IInv
<1>3. LoopTypes'
  BY <1>1, <1>2 DEF LoopTypes
<1>4. /\ nonces.finalized <= Len(chain[op]) /\ nonces.finalized \in Nat
      /\ \A k \in 1 .. nonces.finalized : chain[op][k].block <= view.finalized
      /\ \A q \in queue : ethTxs[q].op = op
      /\ \A i \in DOMAIN ethTxs : Passed(i) => Unmined(i) \/ ~Finalized(i) \/ TakenForGood(i)
  BY <1>1, <1>2 DEF IInv, LoopInv, Monitored, LoopTypes
<1>5. id \in DOMAIN ethTxs /\ ethTxs[id].op = op /\ ethTxs[id].nonce \in Nat
  BY <1>1, <1>2, <1>4, RowTypes DEF LoopTypes
<1>6. Unmined(id) \/ ~Finalized(id) \/ TakenForGood(id)
  <2> SUFFICES ASSUME ~Unmined(id), Finalized(id) PROVE TakenForGood(id)
    OBVIOUS
  <2> DEFINE n == ethTxs[id].nonce + 1
  <2>1. \A c \in Receipts(id) : c.block > view.finalized
    BY DEF Skip
  <2>2. n \in 1 .. nonces.finalized /\ n \in DOMAIN chain[op]
    BY <1>2, <1>4, <1>5, ChainTypes DEF Finalized
  <2>3. /\ chain[op][n].block <= view.finalized
        /\ view.finalized \in 0 .. fin /\ fin \in Nat /\ chain[op][n].block \in Nat
    BY <1>2, <1>4, <2>2, ChainTypes DEF LoopTypes
  <2>4. chain[op][n] \notin Receipts(id)
    BY <2>1, <2>3
  <2>5. chain[op][n].id # id
    <3> SUFFICES ASSUME chain[op][n].id = id PROVE FALSE
      OBVIOUS
    <3>1. \E h \in RowsOf(id) : h.lvl = chain[op][n].lvl
      BY <1>2, <1>5, <2>2 DEF IInv, DbInv, L1AttemptRecorded, Live
    <3> QED BY <1>5, <2>2, <2>4, <3>1 DEF Receipts
  <2>6. ~Live(chain[op][n].id)
    BY <1>5, <2>2, <2>5, UsedByItself DEF IInv, DbInv
  <2> QED BY <1>5, <2>2, <2>3, <2>6 DEF TakenForGood, Taken
<1>7. Monitored'
  <2>1. op' = op
    BY <1>1 DEF op
  <2>2. \A i \in DOMAIN ethTxs : Passed(i)' => Passed(i) \/ i = id
    BY <1>1, <2>1 DEF Passed
  <2>3. \A i : /\ Unmined(i)' = Unmined(i) /\ Finalized(i)' = Finalized(i)
               /\ TakenForGood(i)' = TakenForGood(i)
    BY <1>1 DEF Unmined, Finalized, TakenForGood, Taken, Live
  <2>4. \A i \in DOMAIN ethTxs : Passed(i)' => Unmined(i)' \/ ~Finalized(i)' \/ TakenForGood(i)'
    BY <1>4, <1>6, <2>2, <2>3
  <2> QED BY <1>1, <1>4, <2>1, <2>4 DEF Monitored
<1> QED BY <1>1, <1>3, <1>7, LoopStep

-----------------------------------------------------------------------------
(* Sending.                                                                *)

\* The level of a new attempt is above all recorded ones.
LEMMA LevelIsNew ==
    ASSUME DbTypes, NEW id, LastLevel(id) < MaxLevel
    PROVE  LastLevel(id) + 1 \in Levels /\ \A h \in RowsOf(id) : h.lvl # LastLevel(id) + 1
<1> DEFINE S == {h.lvl : h \in RowsOf(id)}
<1>1. MaxLevel \in Nat /\ S \in SUBSET (0 .. MaxLevel)
  BY RowTypes, ConstantTypes DEF RowsOf, Levels
<1>2. CASE S = {}
  <2>1. LastLevel(id) = 0 /\ RowsOf(id) = {}
    BY <1>2 DEF LastLevel, SetMax
  <2> QED BY <2>1, ConstantTypes DEF Levels
<1>3. CASE S # {}
  <2>1. SetMax(S) \in S /\ \A y \in S : y <= SetMax(S)
    <3> HIDE DEF S
    <3> QED BY <1>1, <1>3, SetMaxIsMax
  <2>2. LastLevel(id) \in 0 .. MaxLevel /\ \A h \in RowsOf(id) : h.lvl \in 0 .. MaxLevel /\ h.lvl <= LastLevel(id)
    BY <1>1, <2>1 DEF LastLevel
  <2> QED BY <1>1, <2>2 DEF Levels
<1> QED BY <1>2, <1>3

\* A row is inserted before the attempt is sent.
LEMMA InsertInv ==
    ASSUME IInv, NEW id \in DOMAIN ethTxs, insert_tx_history(id), pc # "panicked",
           UNCHANGED <<ethTxs, nextId, baseNonce, l1Vars, opr, view, lastKnown, nonces, crashes>>,
           queue' \subseteq queue, resend' \in BOOLEAN
    PROVE  IInv'
<1> DEFINE l == LastLevel(id) + 1
           row == [id |-> id, lvl |-> l, at |-> view.latest]
<1>1. /\ DbTypes /\ L1Types /\ LoopTypes /\ UNCHANGED <<chain, pool, head, fin>>
      /\ UNCHANGED <<ethTxs, nextId, baseNonce, opr, view, lastKnown, nonces, crashes>>
  BY TypeParts DEF IInv, l1Vars
<1>2. l \in Levels /\ \A h \in RowsOf(id) : h.lvl # l
  BY <1>1, LevelIsNew DEF insert_tx_history
<1>3. history' = history \cup {row} /\ cur' = [id |-> id, lvl |-> l] /\ pc' = "raw"
  BY DEF insert_tx_history
<1>4. DbTypes'
  <2>1. view.latest \in 0 .. MaxBlock
    BY <1>1, ConstantTypes DEF LoopTypes, L1Types
  <2>2. row \in [id : DOMAIN ethTxs, lvl : Levels, at : 0 .. MaxBlock]
    BY <1>2, <2>1
  <2> HIDE DEF row
  <2> QED BY <1>1, <1>3, <2>2 DEF DbTypes
<1>5. L1Types'
  BY <1>1 DEF L1Types
<1>6. LoopTypes'
  <2>1. id \in 0 .. MaxTxs /\ l \in 0 .. MaxLevel
    BY <1>1, <1>2, RowTypes, ConstantTypes DEF Ids, Levels
  <2>2. cur' \in [id : 0 .. MaxTxs, lvl : 0 .. MaxLevel]
    BY <1>3, <2>1
  <2> QED BY <1>1, <1>3, <2>2 DEF LoopTypes
<1>7. \A i : /\ RowsOf(i) \subseteq RowsOf(i)' /\ Live(i)' = Live(i)
             /\ TakenForGood(i)' = TakenForGood(i)
  BY <1>1, <1>3 DEF RowsOf, Live, Taken, TakenForGood
<1>8. DbInv'
  <2>1. NoncesGrow' /\ Blocks' /\ IsFiniteSet(pool)' /\ L1Identity'
    BY <1>1, <1>7 DEF IInv, DbInv, NoncesGrow, Blocks, L1Identity
  <2>2. L1AttemptRecorded'
    BY <1>1, <1>7 DEF IInv, DbInv, L1AttemptRecorded
  <2> QED BY <2>1, <2>2 DEF DbInv
<1>9. FinalInv'
  BY <1>1, <1>7 DEF IInv, FinalInv, ConfirmedIsFinal, FailedIsFinal, InOrder
<1>10. CurFresh'
  <2>1. row \in RowsOf(id)' /\ row.lvl = l
    BY <1>3 DEF RowsOf
  <2>2. \A p \in pool : ~(p.id = id /\ p.lvl = l)
    BY <1>2 DEF IInv, DbInv, L1AttemptRecorded, Live
  <2>3. \A o \in Ops : \A k \in DOMAIN chain[o] : ~(chain[o][k].id = id /\ chain[o][k].lvl = l)
    BY <1>2 DEF IInv, DbInv, L1AttemptRecorded, Live
  <2>4. cur'.id = id /\ cur'.lvl = l
    BY <1>3
  <2>5. Live(id)' /\ \E h \in RowsOf(id)' : h.lvl = l
    BY <1>7, <2>1 DEF Live
  <2>6. RowsOf(cur.id)' = RowsOf(id)' /\ Live(cur.id)' = Live(id)'
    BY <2>4 DEF RowsOf, Live
  <2> HIDE DEF l, row
  <2> QED BY <1>1, <1>2, <2>2, <2>3, <2>4, <2>5, <2>6 DEF CurFresh
<1>11. LoopInv'
  BY <1>1, <1>3, <1>7, <1>10 DEF IInv, LoopInv, BaseFree, Monitored, Down
<1> QED BY <1>4, <1>5, <1>6, <1>8, <1>9, <1>11, TypePartsNext DEF IInv

\* A new transaction is sent, or the first one that is not mined again.
LEMMA SendInv == ASSUME IInv, SendNewTx \/ \E id \in queue : Resend(id) PROVE IInv'
<1>1. queue \subseteq DOMAIN ethTxs /\ resend \in BOOLEAN
  BY TypeParts DEF IInv, LoopTypes
<1>2. CASE SendNewTx
  <2>1. PICK id \in queue : queue' = queue \ {id} /\ insert_tx_history(id)
    BY <1>2 DEF SendNewTx
  <2>2. /\ pc # "panicked" /\ resend' = resend
        /\ UNCHANGED <<ethTxs, nextId, baseNonce, l1Vars, opr, view, lastKnown, nonces, crashes>>
    BY <1>2 DEF SendNewTx
  <2> QED BY <1>1, <2>1, <2>2, InsertInv
<1>3. ASSUME NEW id \in queue, Resend(id) PROVE IInv'
  BY <1>1, <1>3, InsertInv DEF Resend, Current
<1> QED BY <1>2, <1>3

\* What send_raw_transaction leaves behind, as long as L1's attempts stay recorded.
LEMMA SentInv ==
    ASSUME IInv, pc = "raw", AfterSend,
           UNCHANGED <<ethTxs, nextId, baseNonce, chain, head, fin, crashes>>,
           history' \subseteq history, pool' \subseteq pool \cup {Entry(cur)}, L1AttemptRecorded'
    PROVE  IInv'
<1>1. DbTypes /\ L1Types /\ LoopTypes
  BY TypeParts DEF IInv
<1>2. cur.id \in DOMAIN ethTxs /\ cur.lvl \in Levels
  BY DEF IInv, LoopInv, CurFresh, Live
<1>3. /\ Entry(cur).id = cur.id /\ Entry(cur).op = ethTxs[cur.id].op
      /\ Entry(cur).nonce = ethTxs[cur.id].nonce /\ Entry(cur).lvl = cur.lvl
      /\ Entry(cur) \in PoolTx
  BY <1>1, <1>2, RowTypes DEF Entry, PoolTx
<1>4. LoopTypes' /\ pc' \in {"new", "poll", "sendnew"}
  BY <1>1, AfterSendTypes
<1>5. DbTypes' /\ L1Types'
  BY <1>1, <1>3 DEF DbTypes, L1Types
<1>6. \A i : Live(i)' = Live(i) /\ TakenForGood(i)' = TakenForGood(i)
  BY DEF Live, Taken, TakenForGood
<1>7. NoncesGrow' /\ Blocks'
  BY DEF IInv, DbInv, NoncesGrow, Blocks
<1>8. L1Identity'
  <2>1. \A p \in pool' : /\ p.id < nextId
                         /\ Live(p.id) => ethTxs[p.id].op = p.op /\ ethTxs[p.id].nonce = p.nonce
    <3> SUFFICES ASSUME NEW p \in pool'
                 PROVE  /\ p.id < nextId
                        /\ Live(p.id) => ethTxs[p.id].op = p.op /\ ethTxs[p.id].nonce = p.nonce
      OBVIOUS
    <3>1. CASE p \in pool
      BY <3>1 DEF IInv, DbInv, L1Identity
    <3>2. CASE p = Entry(cur)
      BY <1>1, <1>2, <1>3, <3>2, RowTypes
    <3> QED BY <3>1, <3>2
  <2> QED BY <1>6, <2>1 DEF IInv, DbInv, L1Identity
<1>9. IsFiniteSet(pool')
  <2>1. IsFiniteSet(pool \cup {Entry(cur)})
    BY FS_AddElement DEF IInv, DbInv
  <2> QED BY <2>1, FS_Subset
<1>10. FinalInv'
  BY <1>6 DEF IInv, FinalInv, ConfirmedIsFinal, FailedIsFinal, InOrder
<1>11. LoopInv'
  <2>1. \A p \in pool' : \A o \in Ops : p.op = o /\ p.nonce = baseNonce[o] => Live(p.id)
    BY <1>2, <1>3 DEF IInv, LoopInv, BaseFree, Live
  <2>2. BaseFree'
    BY <1>6, <2>1 DEF IInv, LoopInv, BaseFree
  <2> QED BY <1>4, <2>2 DEF LoopInv, CurFresh, Monitored, Down
<1> QED BY <1>4, <1>5, <1>7, <1>8, <1>9, <1>10, <1>11, TypePartsNext DEF IInv, DbInv

\* L1 takes the attempt, or it is lost, or refused.
LEMMA RawInv == IInv /\ (RawAccepted \/ RawLost \/ RawRejected) => IInv'
<1> SUFFICES ASSUME IInv, RawAccepted \/ RawLost \/ RawRejected PROVE IInv'
  OBVIOUS
<1>1. CASE RawAccepted
  <2>1. /\ pc = "raw" /\ AfterSend /\ UNCHANGED <<ethTxs, nextId, baseNonce, chain, head, fin, crashes, history>>
        /\ pool' \subseteq pool \cup {Entry(cur)}
    BY <1>1 DEF RawAccepted, dbVars
  <2>2. /\ \E h \in RowsOf(cur.id) : h.lvl = cur.lvl
        /\ Entry(cur).id = cur.id /\ Entry(cur).lvl = cur.lvl
    BY <2>1 DEF IInv, LoopInv, CurFresh, Entry
  <2>3. \A i : RowsOf(i)' = RowsOf(i) /\ Live(i)' = Live(i)
    BY <2>1 DEF RowsOf, Live
  <2>4. \A p \in pool' : Live(p.id) => \E h \in RowsOf(p.id) : h.lvl = p.lvl
    BY <2>1, <2>2 DEF IInv, DbInv, L1AttemptRecorded
  <2>5. L1AttemptRecorded'
    BY <2>1, <2>3, <2>4 DEF IInv, DbInv, L1AttemptRecorded
  <2> QED BY <2>1, <2>5, SentInv
<1>2. CASE RawLost
  <2>1. /\ pc = "raw" /\ AfterSend
        /\ UNCHANGED <<ethTxs, nextId, baseNonce, chain, head, fin, crashes, history, pool>>
    BY <1>2 DEF RawLost, dbVars, l1Vars
  <2>2. \A i : RowsOf(i)' = RowsOf(i) /\ Live(i)' = Live(i)
    BY <2>1 DEF RowsOf, Live
  <2>3. L1AttemptRecorded'
    BY <2>1, <2>2 DEF IInv, DbInv, L1AttemptRecorded
  <2> QED BY <2>1, <2>3, SentInv
<1>3. CASE RawRejected
  <2>1. /\ pc = "raw" /\ AfterSend
        /\ UNCHANGED <<ethTxs, nextId, baseNonce, chain, head, fin, crashes, pool>>
        /\ history' = {h \in history : ~(h.id = cur.id /\ h.lvl = cur.lvl)}
    BY <1>3 DEF RawRejected, l1Vars
  <2>2. \A i : Live(i)' = Live(i)
    BY <2>1 DEF Live
  <2>3. ASSUME NEW i, NEW l, ~(i = cur.id /\ l = cur.lvl), \E h \in RowsOf(i) : h.lvl = l
        PROVE  \E h \in RowsOf(i)' : h.lvl = l
    BY <2>1, <2>3 DEF RowsOf
  <2>4. \A p \in pool : Live(p.id) => \E h \in RowsOf(p.id)' : h.lvl = p.lvl
    BY <2>1, <2>3 DEF IInv, DbInv, L1AttemptRecorded, LoopInv, CurFresh
  <2>5. \A o \in Ops : \A k \in DOMAIN chain[o] :
            Live(chain[o][k].id) => \E h \in RowsOf(chain[o][k].id)' : h.lvl = chain[o][k].lvl
    BY <2>1, <2>3 DEF IInv, DbInv, L1AttemptRecorded, LoopInv, CurFresh
  <2>6. L1AttemptRecorded'
    BY <2>1, <2>2, <2>4, <2>5 DEF L1AttemptRecorded, RowsOf
  <2> QED BY <2>1, <2>6, SentInv
<1> QED BY <1>1, <1>2, <1>3

-----------------------------------------------------------------------------
(* Confirming and failing.                                                 *)

\* A receipt is of the transaction at the nonce.
LEMMA ReceiptAtNonce ==
    ASSUME IInv, NEW id \in DOMAIN ethTxs, NEW c \in Receipts(id)
    PROVE  LET n == ethTxs[id].nonce + 1  mined == chain[ethTxs[id].op] IN
           n \in DOMAIN mined /\ mined[n] = c /\ c.id = id /\ c.lvl \in Levels
<1>1. DbTypes /\ L1Types /\ ethTxs[id].op \in Ops /\ ethTxs[id].nonce \in Nat
  BY TypeParts, RowTypes DEF IInv
<1>2. PICK k \in DOMAIN chain[ethTxs[id].op] : chain[ethTxs[id].op][k] = c /\ c.id = id
  BY DEF Receipts
<1>3. ethTxs[id].nonce = k - 1 /\ k \in Nat
  BY <1>1, <1>2, ChainTypes DEF IInv, DbInv, L1Identity, Live
<1>4. k = ethTxs[id].nonce + 1
  BY <1>1, <1>3
<1> QED BY <1>1, <1>2, <1>4, ChainTypes

\* What is kept when a row is only marked.
LEMMA MarkFrame ==
    ASSUME IInv, UNCHANGED <<history, nextId, baseNonce, l1Vars>>, DOMAIN ethTxs' = DOMAIN ethTxs,
           \A i \in DOMAIN ethTxs : /\ ethTxs'[i] \in EthTx
                                    /\ ethTxs'[i].op = ethTxs[i].op /\ ethTxs'[i].nonce = ethTxs[i].nonce
    PROVE  /\ DbTypes' /\ L1Types' /\ DbInv'
           /\ \A i : Live(i)' = Live(i) /\ RowsOf(i)' = RowsOf(i)
           /\ \A i \in DOMAIN ethTxs : TakenForGood(i)' = TakenForGood(i)
<1>1. UNCHANGED <<chain, pool, head, fin>> /\ DbTypes /\ L1Types
  BY TypeParts DEF IInv, l1Vars
<1>2. DbTypes' /\ L1Types'
  BY <1>1 DEF DbTypes, L1Types
<1>3. \A i : Live(i)' = Live(i) /\ RowsOf(i)' = RowsOf(i)
  BY DEF Live, RowsOf
<1>4. \A i \in DOMAIN ethTxs : TakenForGood(i)' = TakenForGood(i)
  BY <1>1 DEF Taken, TakenForGood, Live
<1>5. NoncesGrow' /\ Blocks' /\ IsFiniteSet(pool)'
  BY <1>1 DEF IInv, DbInv, NoncesGrow, Blocks
<1>6. L1Identity'
  BY <1>1, <1>3 DEF IInv, DbInv, L1Identity, Live
<1>7. L1AttemptRecorded'
  BY <1>1, <1>3 DEF IInv, DbInv, L1AttemptRecorded
<1> QED BY <1>2, <1>3, <1>4, <1>5, <1>6, <1>7 DEF DbInv

\* A transaction is confirmed: those of its account before it are, or are lost.
LEMMA ConfirmInv == ASSUME NEW id, IInv, confirm_tx(id) PROVE IInv'
<1>1. /\ pc = "check" /\ id \in queue /\ (\A q \in queue : id <= q) /\ queue' = queue \ {id}
      /\ ~Unmined(id) /\ Finalized(id)
      /\ UNCHANGED <<history, nextId, baseNonce, l1Vars>>
      /\ UNCHANGED <<pc, opr, view, lastKnown, nonces, cur, resend, crashes>>
  BY DEF confirm_tx, Current
<1>2. PICK c \in Receipts(id) : /\ c.block <= view.finalized /\ c.ok
                                /\ ethTxs' = [ethTxs EXCEPT ![id].conf = c.lvl]
  BY DEF confirm_tx
<1>3. DbTypes /\ L1Types /\ LoopTypes /\ UNCHANGED <<chain, pool, head, fin>>
  BY <1>1, TypeParts DEF IInv, l1Vars
<1>4. id \in DOMAIN ethTxs /\ ethTxs[id].op = op /\ \A q \in queue : q \in DOMAIN ethTxs
  BY <1>1, <1>3 DEF IInv, LoopInv, Monitored, LoopTypes
<1>5. /\ ethTxs[id].nonce + 1 \in DOMAIN chain[ethTxs[id].op] /\ c.id = id /\ c.lvl \in Levels
      /\ chain[ethTxs[id].op][ethTxs[id].nonce + 1] = c
  BY <1>2, <1>4, ReceiptAtNonce
<1>6. /\ DOMAIN ethTxs' = DOMAIN ethTxs /\ \A i \in DOMAIN ethTxs : i # id => ethTxs'[i] = ethTxs[i]
      /\ ethTxs'[id] = [ethTxs[id] EXCEPT !.conf = c.lvl]
  BY <1>2, <1>4
<1>7. \A i \in DOMAIN ethTxs : ethTxs[i] \in EthTx
  BY <1>3 DEF DbTypes
<1>8. /\ ethTxs'[id] \in EthTx /\ ethTxs'[id].op = ethTxs[id].op /\ ethTxs'[id].nonce = ethTxs[id].nonce
      /\ ethTxs'[id].failed = ethTxs[id].failed /\ ethTxs'[id].conf = c.lvl /\ c.lvl # 0
  <2>1. c.lvl \in 0 .. MaxLevel /\ c.lvl # 0
    BY <1>5, ConstantTypes DEF Levels
  <2>2. ethTxs[id] \in EthTx
    BY <1>4, <1>7
  <2> QED BY <1>6, <2>1, <2>2 DEF EthTx
<1>9. \A i \in DOMAIN ethTxs : /\ ethTxs'[i] \in EthTx /\ ethTxs'[i].op = ethTxs[i].op
                               /\ ethTxs'[i].nonce = ethTxs[i].nonce /\ ethTxs'[i].failed = ethTxs[i].failed
                               /\ i # id => ethTxs'[i].conf = ethTxs[i].conf
  BY <1>6, <1>7, <1>8
<1>10. /\ DbTypes' /\ L1Types' /\ DbInv' /\ \A i : Live(i)' = Live(i) /\ RowsOf(i)' = RowsOf(i)
       /\ \A i \in DOMAIN ethTxs : TakenForGood(i)' = TakenForGood(i)
  BY <1>1, <1>6, <1>9, MarkFrame
<1>11. LoopTypes'
  BY <1>1, <1>3, <1>6 DEF LoopTypes
<1>12. c.block <= fin
  <2>1. view.finalized \in 0 .. fin /\ c.block \in Nat /\ fin \in Nat /\ ethTxs[id].op \in Ops
    BY <1>3, <1>4, <1>5, ChainTypes, RowTypes DEF LoopTypes
  <2> QED BY <1>2, <2>1
<1>13. ConfirmedIsFinal' /\ FailedIsFinal'
  <2>1. FailedIsFinal'
    BY <1>3, <1>6, <1>9 DEF IInv, FinalInv, FailedIsFinal
  <2>2. ConfirmedIsFinal'
    BY <1>2, <1>3, <1>4, <1>5, <1>6, <1>8, <1>9, <1>12 DEF IInv, FinalInv, ConfirmedIsFinal
  <2> QED BY <2>1, <2>2
<1>14. InOrder'
  <2>1. ASSUME NEW i \in DOMAIN ethTxs, i < id, ethTxs[i].op = op, ethTxs[i].conf = 0
        PROVE  TakenForGood(i)
    <3>1. i \in Nat /\ id \in Nat /\ ethTxs[i].nonce \in Nat /\ ethTxs[id].nonce \in Nat
      BY <1>3, <1>4, <2>1, RowTypes
    <3>2. i \notin queue
      BY <1>1, <2>1, <3>1
    <3>3. Passed(i)
      BY <1>1, <2>1, <3>2 DEF Passed
    <3>4. ethTxs[i].nonce < ethTxs[id].nonce
      BY <1>4, <2>1 DEF IInv, DbInv, NoncesGrow
    <3>5. nonces.latest \in Nat /\ nonces.finalized \in Nat
      BY <1>3 DEF LoopTypes
    <3>6. ~Unmined(i) /\ Finalized(i)
      BY <1>1, <3>1, <3>4, <3>5 DEF Unmined, Finalized
    <3> QED BY <1>1, <3>3, <3>6 DEF IInv, LoopInv, Monitored
  <2>2. ASSUME NEW i \in DOMAIN ethTxs, NEW j \in DOMAIN ethTxs, i < j,
               ethTxs'[i].op = ethTxs'[j].op, ethTxs'[j].conf # 0
        PROVE  ethTxs'[i].conf # 0 \/ TakenForGood(i)'
    <3>1. CASE j = id
      BY <1>4, <1>8, <1>9, <1>10, <2>1, <2>2, <3>1
    <3>2. CASE j # id
      <4>1. ethTxs[i].conf # 0 \/ TakenForGood(i)
        BY <1>9, <2>2, <3>2 DEF IInv, FinalInv, InOrder
      <4> QED BY <1>8, <1>9, <1>10, <4>1
    <3> QED BY <3>1, <3>2
  <2> QED BY <1>6, <2>2 DEF InOrder
<1>15. LoopInv'
  <2>1. op' = op
    BY <1>1 DEF op
  <2>2. \A i \in DOMAIN ethTxs : Passed(i)' => Passed(i)
    BY <1>1, <1>8, <1>9, <2>1 DEF Passed
  <2>3. \A i \in DOMAIN ethTxs : Unmined(i)' = Unmined(i) /\ Finalized(i)' = Finalized(i)
    BY <1>1, <1>9 DEF Unmined, Finalized
  <2>4. \A i \in DOMAIN ethTxs : Passed(i)' => Unmined(i)' \/ ~Finalized(i)' \/ TakenForGood(i)'
    BY <1>1, <1>10, <2>2, <2>3 DEF IInv, LoopInv, Monitored
  <2>5. Monitored'
    BY <1>1, <1>3, <1>4, <1>6, <1>9, <2>1, <2>4 DEF IInv, LoopInv, Monitored
  <2>6. BaseFree'
    BY <1>1, <1>3, <1>10 DEF IInv, LoopInv, BaseFree
  <2> QED BY <1>1, <2>5, <2>6 DEF LoopInv, CurFresh, Down
<1> QED BY <1>10, <1>11, <1>13, <1>14, <1>15, TypePartsNext DEF IInv, FinalInv

\* A reverted transaction stops the server.
LEMMA FailInv == ASSUME NEW id, IInv, fail_tx(id) PROVE IInv'
<1>1. /\ pc = "check" /\ id \in queue /\ queue' = {} /\ pc' = "panicked" /\ opr' = 1
      /\ ethTxs' = [ethTxs EXCEPT ![id].failed = TRUE]
      /\ UNCHANGED <<history, nextId, baseNonce, l1Vars>>
      /\ UNCHANGED <<view, lastKnown, nonces, cur, resend, crashes>>
  BY DEF fail_tx, Current
<1>2. PICK c \in Receipts(id) : c.block <= view.finalized /\ ~c.ok
  BY DEF fail_tx
<1>3. DbTypes /\ L1Types /\ LoopTypes /\ UNCHANGED <<chain, pool, head, fin>>
  BY <1>1, TypeParts DEF IInv, l1Vars
<1>4. id \in DOMAIN ethTxs
  BY <1>1, <1>3 DEF LoopTypes
<1>5. /\ ethTxs[id].nonce + 1 \in DOMAIN chain[ethTxs[id].op] /\ c.id = id
      /\ chain[ethTxs[id].op][ethTxs[id].nonce + 1] = c
  BY <1>2, <1>4, ReceiptAtNonce
<1>6. /\ DOMAIN ethTxs' = DOMAIN ethTxs /\ \A i \in DOMAIN ethTxs : i # id => ethTxs'[i] = ethTxs[i]
      /\ ethTxs'[id] = [ethTxs[id] EXCEPT !.failed = TRUE]
  BY <1>1, <1>4
<1>7. \A i \in DOMAIN ethTxs : ethTxs[i] \in EthTx
  BY <1>3 DEF DbTypes
<1>8. /\ ethTxs'[id] \in EthTx /\ ethTxs'[id].op = ethTxs[id].op /\ ethTxs'[id].nonce = ethTxs[id].nonce
      /\ ethTxs'[id].conf = ethTxs[id].conf
  <2>1. ethTxs[id] \in EthTx
    BY <1>4, <1>7
  <2> QED BY <1>6, <2>1 DEF EthTx
<1>9. \A i \in DOMAIN ethTxs : /\ ethTxs'[i] \in EthTx /\ ethTxs'[i].op = ethTxs[i].op
                               /\ ethTxs'[i].nonce = ethTxs[i].nonce /\ ethTxs'[i].conf = ethTxs[i].conf
                               /\ i # id => ethTxs'[i].failed = ethTxs[i].failed
  BY <1>6, <1>7, <1>8
<1>10. /\ DbTypes' /\ L1Types' /\ DbInv' /\ \A i : Live(i)' = Live(i) /\ RowsOf(i)' = RowsOf(i)
       /\ \A i \in DOMAIN ethTxs : TakenForGood(i)' = TakenForGood(i)
  BY <1>1, <1>6, <1>9, MarkFrame
<1>11. LoopTypes'
  BY <1>1, <1>3, <1>6, ConstantTypes DEF LoopTypes
<1>12. c.block <= fin
  <2>1. view.finalized \in 0 .. fin /\ c.block \in Nat /\ fin \in Nat /\ ethTxs[id].op \in Ops
    BY <1>3, <1>4, <1>5, ChainTypes, RowTypes DEF LoopTypes
  <2> QED BY <1>2, <2>1
<1>13. FailedIsFinal'
  BY <1>2, <1>3, <1>4, <1>5, <1>6, <1>8, <1>9, <1>12 DEF IInv, FinalInv, FailedIsFinal
<1>14. ConfirmedIsFinal'
  BY <1>3, <1>6, <1>9 DEF IInv, FinalInv, ConfirmedIsFinal
<1>15. InOrder'
  BY <1>6, <1>9, <1>10 DEF IInv, FinalInv, InOrder
<1>16. LoopInv'
  BY <1>1 DEF LoopInv, CurFresh, BaseFree, Monitored, Down
<1> QED BY <1>10, <1>11, <1>13, <1>14, <1>15, <1>16, TypePartsNext DEF IInv, FinalInv

-----------------------------------------------------------------------------
(* L1.                                                                     *)

\* What L1 may do: final blocks stay, and what is new was waiting in the mempool.
LEMMA L1Step ==
    ASSUME IInv, UNCHANGED <<dbVars, baseNonce, loopVars, crashes>>, L1Types', Blocks',
           pool' \subseteq pool, head <= head', fin <= fin',
           \A o \in Ops : \A k \in DOMAIN chain'[o] :
                \/ k \in DOMAIN chain[o] /\ chain'[o][k] = chain[o][k]
                \/ \E p \in pool : /\ p.op = o /\ p.nonce = k - 1
                                   /\ chain'[o][k].id = p.id /\ chain'[o][k].lvl = p.lvl,
           \A o \in Ops : \A k \in DOMAIN chain[o] : chain[o][k].block <= fin =>
                k \in DOMAIN chain'[o] /\ chain'[o][k] = chain[o][k]
    PROVE  IInv'
<1>1. /\ UNCHANGED <<ethTxs, history, nextId, baseNonce, pc, opr, view, lastKnown, nonces, queue, cur,
                    resend, crashes>>
      /\ DbTypes /\ L1Types /\ LoopTypes
  BY TypeParts DEF IInv, dbVars, loopVars
<1>2. DbTypes'
  BY <1>1 DEF DbTypes
<1>3. head \in Nat /\ fin \in Nat /\ head' \in Nat /\ fin' \in Nat
  <2>1. head' \in 0 .. MaxBlock /\ fin' \in 0 .. head'
    BY DEF L1Types
  <2> QED BY <1>1, <2>1, ChainTypes, ConstantTypes
<1>4. LoopTypes'
  <2>1. 0 .. head \subseteq 0 .. head' /\ 0 .. fin \subseteq 0 .. fin'
    BY <1>3
  <2>2. view \in [latest : 0 .. head', finalized : 0 .. fin']
    BY <1>1, <2>1 DEF LoopTypes
  <2> QED BY <1>1, <2>1, <2>2 DEF LoopTypes
<1>5. \A i : Live(i)' = Live(i) /\ RowsOf(i)' = RowsOf(i)
  BY <1>1 DEF Live, RowsOf
<1>6. \A i \in DOMAIN ethTxs : ethTxs[i].op \in Ops /\ ethTxs[i].nonce \in Nat
  BY <1>1, RowTypes
<1>7. \A o \in Ops : \A k \in DOMAIN chain[o] :
        chain[o][k].block <= fin => k \in DOMAIN chain'[o] /\ chain'[o][k] = chain[o][k] /\ chain[o][k].block <= fin'
  BY <1>1, <1>3, ChainTypes
<1>8. L1Identity'
  <2>1. \A o \in Ops : \A k \in DOMAIN chain'[o] :
            /\ chain'[o][k].id < nextId
            /\ Live(chain'[o][k].id) => /\ ethTxs[chain'[o][k].id].op = o
                                        /\ ethTxs[chain'[o][k].id].nonce = k - 1
    BY DEF IInv, DbInv, L1Identity
  <2> QED BY <1>1, <1>5, <2>1 DEF IInv, DbInv, L1Identity, Live
<1>9. L1AttemptRecorded'
  <2>1. \A o \in Ops : \A k \in DOMAIN chain'[o] :
            Live(chain'[o][k].id) => \E h \in RowsOf(chain'[o][k].id) : h.lvl = chain'[o][k].lvl
    BY DEF IInv, DbInv, L1AttemptRecorded
  <2> QED BY <1>1, <1>5, <2>1 DEF IInv, DbInv, L1AttemptRecorded, RowsOf, Live
<1>10. DbInv'
  <2>1. NoncesGrow'
    BY <1>1 DEF IInv, DbInv, NoncesGrow
  <2>2. IsFiniteSet(pool')
    BY FS_Subset DEF IInv, DbInv
  <2> QED BY <1>8, <1>9, <2>1, <2>2 DEF DbInv
<1>11. \A i \in DOMAIN ethTxs : TakenForGood(i) => TakenForGood(i)'
  BY <1>1, <1>5, <1>6, <1>7 DEF Taken, TakenForGood, Live
<1>12. FinalInv'
  <2>1. ConfirmedIsFinal' /\ FailedIsFinal'
    BY <1>1, <1>6, <1>7 DEF IInv, FinalInv, ConfirmedIsFinal, FailedIsFinal
  <2>2. InOrder'
    BY <1>1, <1>11 DEF IInv, FinalInv, InOrder
  <2> QED BY <2>1, <2>2 DEF FinalInv
<1>13. CurFresh'
  <2>1. ASSUME pc = "raw"
        PROVE  \A o \in Ops : \A k \in DOMAIN chain'[o] :
                    ~(chain'[o][k].id = cur.id /\ chain'[o][k].lvl = cur.lvl)
    BY <2>1 DEF IInv, LoopInv, CurFresh
  <2> QED BY <1>1, <1>5, <2>1 DEF IInv, LoopInv, CurFresh
<1>14. BaseFree'
  <2>1. ASSUME pc # "panicked", NEW o \in Ops, baseNonce[o] < Len(chain'[o])
        PROVE  Live(chain'[o][baseNonce[o] + 1].id)
    <3> DEFINE k == baseNonce[o] + 1
    <3>1. baseNonce[o] \in Nat
      BY <1>1 DEF DbTypes
    <3>2. k \in DOMAIN chain'[o] /\ k - 1 = baseNonce[o]
      <4>1. chain'[o] \in Seq(MinedTx')
        BY DEF L1Types
      <4> QED BY <2>1, <3>1, <4>1
    <3>3. CASE k \in DOMAIN chain[o] /\ chain'[o][k] = chain[o][k]
      <4>1. baseNonce[o] < Len(chain[o])
        BY <1>1, <3>1, <3>3, ChainTypes
      <4> QED BY <2>1, <3>3, <4>1 DEF IInv, LoopInv, BaseFree
    <3>4. CASE \E p \in pool : p.op = o /\ p.nonce = k - 1 /\ chain'[o][k].id = p.id
      BY <2>1, <3>2, <3>4 DEF IInv, LoopInv, BaseFree
    <3> QED BY <3>2, <3>3, <3>4
  <2>2. pc # "panicked" => \A o \in Ops : \A p \in pool' :
            p.op = o /\ p.nonce = baseNonce[o] => Live(p.id)
    BY DEF IInv, LoopInv, BaseFree
  <2> QED BY <1>1, <1>5, <2>1, <2>2 DEF BaseFree, Live
<1>15. Monitored'
  <2> SUFFICES ASSUME pc = "check" PROVE Monitored'
    BY <1>1 DEF Monitored
  <2>1. op' = op /\ op \in Ops
    BY <1>1, OpIsAccount DEF op
  <2>2. /\ nonces.finalized <= Len(chain[op]) /\ nonces.finalized \in Nat
        /\ \A k \in 1 .. nonces.finalized : chain[op][k].block <= view.finalized
    BY <1>1 DEF IInv, LoopInv, Monitored, LoopTypes
  <2>3. /\ Len(chain[op]) \in Nat /\ DOMAIN chain[op] = 1 .. Len(chain[op]) /\ view.finalized \in 0 .. fin
        /\ \A k \in DOMAIN chain[op] : chain[op][k].block \in Nat
    BY <1>1, <2>1, ChainTypes DEF LoopTypes
  <2>4. Len(chain'[op]) \in Nat /\ DOMAIN chain'[op] = 1 .. Len(chain'[op])
    <3>1. chain'[op] \in Seq(MinedTx')
      BY <2>1 DEF L1Types
    <3> QED BY <3>1
  <2>5. \A k \in 1 .. nonces.finalized : /\ k \in DOMAIN chain'[op] /\ chain'[op][k] = chain[op][k]
                                         /\ chain[op][k].block <= view.finalized
    <3>1. \A k \in 1 .. nonces.finalized : k \in DOMAIN chain[op] /\ chain[op][k].block <= fin
      BY <1>3, <2>2, <2>3
    <3> QED BY <1>7, <2>1, <2>2, <3>1
  <2>6. nonces.finalized <= Len(chain'[op])
    BY <2>2, <2>4, <2>5
  <2>7. \A i \in DOMAIN ethTxs : /\ Passed(i)' = Passed(i)
                                 /\ Unmined(i)' = Unmined(i) /\ Finalized(i)' = Finalized(i)
    BY <1>1, <2>1 DEF Passed, Unmined, Finalized
  <2>8. \A i \in DOMAIN ethTxs : Passed(i)' => Unmined(i)' \/ ~Finalized(i)' \/ TakenForGood(i)'
    BY <1>11, <2>7 DEF IInv, LoopInv, Monitored
  <2> QED BY <1>1, <2>1, <2>5, <2>6, <2>8 DEF IInv, LoopInv, Monitored
<1>16. Down'
  BY <1>1 DEF IInv, LoopInv, Down
<1> QED BY <1>2, <1>4, <1>10, <1>12, <1>13, <1>14, <1>15, <1>16, TypePartsNext DEF IInv, LoopInv

\* L1 finalizes a block, or its mempool drops an attempt.
LEMMA FinalizeEvictInv == IInv /\ (Finalize \/ Evict) => IInv'
<1> SUFFICES ASSUME IInv, Finalize \/ Evict PROVE IInv'
  OBVIOUS
<1>1. L1Types /\ head \in Nat /\ fin \in Nat
  BY TypeParts, ChainTypes DEF IInv
<1>2. /\ UNCHANGED <<dbVars, baseNonce, loopVars, crashes>> /\ UNCHANGED <<chain, head>>
      /\ pool' \subseteq pool /\ fin <= fin' /\ fin' \in 0 .. head
  BY <1>1 DEF Finalize, Evict, L1Types
<1>3. L1Types' /\ Blocks'
  BY <1>1, <1>2 DEF IInv, DbInv, L1Types, Blocks
<1>4. head <= head'
  BY <1>1, <1>2
<1> QED BY <1>2, <1>3, <1>4, L1Step

\* Only blocks that are not final are lost.
LEMMA ReorgInv == IInv /\ Reorg => IInv'
<1> SUFFICES ASSUME IInv, Reorg PROVE IInv'
  OBVIOUS
<1>1. L1Types /\ head \in Nat /\ fin \in Nat /\ Blocks
  BY TypeParts, ChainTypes DEF IInv, DbInv
<1>2. UNCHANGED <<dbVars, baseNonce, loopVars, crashes>> /\ UNCHANGED <<pool, head, fin>>
  BY DEF Reorg
<1>3. PICK b \in fin .. head - 1 : chain' = [o \in Ops |-> SubSeq(chain[o], 1, NonceAt(o, b))]
  BY DEF Reorg
<1>4. ASSUME NEW o \in Ops
      PROVE  /\ chain'[o] \in Seq(MinedTx) /\ DOMAIN chain'[o] = 1 .. NonceAt(o, b)
             /\ \A k \in DOMAIN chain'[o] : k \in DOMAIN chain[o] /\ chain'[o][k] = chain[o][k]
             /\ \A k \in DOMAIN chain[o] : chain[o][k].block <= fin =>
                    k \in DOMAIN chain'[o] /\ chain'[o][k] = chain[o][k]
  <2>1. b \in Nat /\ fin <= b
    BY <1>1, <1>3
  <2>2. /\ NonceAt(o, b) \in 0 .. Len(chain[o])
        /\ \A k \in DOMAIN chain[o] : chain[o][k].block <= b <=> k <= NonceAt(o, b)
    BY <1>1, <2>1, NonceAtIsPrefix
  <2>3. /\ Len(chain[o]) \in Nat /\ DOMAIN chain[o] = 1 .. Len(chain[o]) /\ chain[o] \in Seq(MinedTx)
        /\ \A k \in DOMAIN chain[o] : chain[o][k].block \in Nat
    BY <1>1, ChainTypes
  <2>4. chain'[o] = SubSeq(chain[o], 1, NonceAt(o, b))
    BY <1>3
  <2>5. /\ chain'[o] \in Seq(MinedTx) /\ DOMAIN chain'[o] = 1 .. NonceAt(o, b)
        /\ \A k \in 1 .. NonceAt(o, b) : chain'[o][k] = chain[o][k]
    BY <2>2, <2>3, <2>4
  <2> QED BY <1>1, <2>1, <2>2, <2>3, <2>5
<1>5. L1Types'
  <2>1. MinedTx' = MinedTx /\ DOMAIN chain' = Ops
    BY <1>3 DEF MinedTx
  <2> QED BY <1>1, <1>2, <1>4, <2>1 DEF L1Types
<1>6. Blocks'
  BY <1>2, <1>4 DEF IInv, DbInv, Blocks
<1>7. head <= head' /\ fin <= fin'
  BY <1>1, <1>2
<1> QED BY <1>2, <1>4, <1>5, <1>6, <1>7, L1Step

\* A block takes transactions from the mempool, each at its nonce.
LEMMA MineBlockInv == IInv /\ MineBlock => IInv'
<1> SUFFICES ASSUME IInv, MineBlock PROVE IInv'
  OBVIOUS
<1>1. L1Types /\ Blocks /\ head \in Nat /\ fin \in Nat /\ fin <= head /\ IsFiniteSet(pool)
  BY TypeParts, ChainTypes DEF IInv, DbInv
<1>2. UNCHANGED <<dbVars, baseNonce, loopVars, crashes>> /\ fin' = fin /\ head' = head + 1 /\ head < MaxBlock
  BY DEF MineBlock
<1> DEFINE Of(mined, o) == {p \in mined : p.op = o}
           At(mined, o, nonce) == CHOOSE p \in Of(mined, o) : p.nonce = nonce
           New(mined, ok, o) == [k \in 1 .. Cardinality(Of(mined, o)) |->
                LET p == At(mined, o, Len(chain[o]) + k - 1)
                IN  [id |-> p.id, lvl |-> p.lvl, block |-> head + 1, ok |-> p \in ok]]
<1>3. PICK mined \in SUBSET pool, ok \in SUBSET pool :
        /\ \A o \in Ops : {p.nonce : p \in Of(mined, o)} =
                Len(chain[o]) .. Len(chain[o]) + Cardinality(Of(mined, o)) - 1
        /\ chain' = [o \in Ops |-> chain[o] \o New(mined, ok, o)]
        /\ pool' = pool \ mined
  BY DEF MineBlock
<1>4. ASSUME NEW o \in Ops
      PROVE  /\ chain'[o] \in Seq(MinedTx)
             /\ \A k \in DOMAIN chain[o] : k \in DOMAIN chain'[o] /\ chain'[o][k] = chain[o][k]
             /\ \A k \in DOMAIN chain'[o] : k \notin DOMAIN chain[o] =>
                    /\ Len(chain[o]) < k /\ chain'[o][k].block = head + 1
                    /\ \E p \in pool : /\ p.op = o /\ p.nonce = k - 1
                                       /\ chain'[o][k].id = p.id /\ chain'[o][k].lvl = p.lvl
  <2> DEFINE S == Of(mined, o)
             n == Len(chain[o])
             c == Cardinality(S)
             new == New(mined, ok, o)
  <2>1. n \in Nat /\ DOMAIN chain[o] = 1 .. n /\ chain[o] \in Seq(MinedTx)
    BY <1>1, ChainTypes
  <2>2. c \in Nat
    <3>1. S \in SUBSET pool
      OBVIOUS
    <3> HIDE DEF S
    <3> QED BY <1>1, <3>1, FS_Subset, FS_CardinalityType
  <2>3. {p.nonce : p \in S} = n .. n + c - 1
    BY <1>3
  <2>4. ASSUME NEW k \in 1 .. c
        PROVE  /\ new[k] \in MinedTx /\ new[k].block = head + 1
               /\ \E p \in pool : /\ p.op = o /\ p.nonce = n + k - 1
                                  /\ new[k].id = p.id /\ new[k].lvl = p.lvl
    <3> DEFINE p == At(mined, o, n + k - 1)
    <3>1. n + k - 1 \in n .. n + c - 1
      BY <2>1, <2>2
    <3>2. \E q \in S : q.nonce = n + k - 1
      BY <2>3, <3>1
    <3>3. p \in S /\ p.nonce = n + k - 1
      BY <3>2
    <3>4. p \in pool /\ p.op = o
      BY <3>3
    <3>5. new[k] = [id |-> p.id, lvl |-> p.lvl, block |-> head + 1, ok |-> p \in ok]
      <4> HIDE DEF p
      <4> QED BY DEF p
    <3> HIDE DEF p, new
    <3>6. p.id \in Ids /\ p.lvl \in Levels /\ head + 1 \in 1 .. MaxBlock
      BY <1>1, <1>2, <3>4, ChainTypes, ConstantTypes
    <3> QED BY <3>3, <3>4, <3>5, <3>6 DEF MinedTx
  <2>5. new \in Seq(MinedTx) /\ Len(new) = c /\ DOMAIN new = 1 .. c
    <3>1. new = [k \in 1 .. c |-> new[k]]
      OBVIOUS
    <3> HIDE DEF new, c
    <3> QED BY <2>2, <2>4, <3>1
  <2>6. chain'[o] = chain[o] \o new
    BY <1>3
  <2> HIDE DEF new, c
  <2>7. /\ chain'[o] \in Seq(MinedTx) /\ DOMAIN chain'[o] = 1 .. n + c
        /\ \A k \in 1 .. n : chain'[o][k] = chain[o][k]
        /\ \A k \in 1 .. n + c : n < k => k - n \in 1 .. c /\ chain'[o][k] = new[k - n]
    BY <2>1, <2>2, <2>5, <2>6
  <2>8. \A k \in 1 .. n : k \in 1 .. n + c
    BY <2>1, <2>2
  <2>9. ASSUME NEW k \in DOMAIN chain'[o], k \notin DOMAIN chain[o]
        PROVE  /\ n < k /\ chain'[o][k].block = head + 1
               /\ \E p \in pool : /\ p.op = o /\ p.nonce = k - 1
                                  /\ chain'[o][k].id = p.id /\ chain'[o][k].lvl = p.lvl
    <3>1. k \in 1 .. n + c /\ n < k
      BY <2>1, <2>2, <2>7, <2>9
    <3>2. k - n \in 1 .. c /\ chain'[o][k] = new[k - n]
      BY <2>7, <3>1
    <3>3. n + (k - n) - 1 = k - 1
      <4> HIDE DEF n
      <4> QED BY <2>1, <2>2, <3>1
    <3> QED BY <2>4, <3>1, <3>2, <3>3
  <2> QED BY <2>1, <2>7, <2>8, <2>9
<1> HIDE DEF Of, At, New
<1>5. L1Types'
  <2>1. MinedTx' = MinedTx /\ PoolTx' = PoolTx /\ DOMAIN chain' = Ops /\ head + 1 \in 0 .. MaxBlock
        /\ fin \in 0 .. head + 1
    BY <1>1, <1>2, <1>3, ConstantTypes DEF MinedTx, PoolTx
  <2> QED BY <1>1, <1>2, <1>3, <1>4, <2>1 DEF L1Types
<1>6. Blocks'
  <2> SUFFICES ASSUME NEW o \in Ops, NEW k \in DOMAIN chain'[o]
               PROVE  /\ chain'[o][k].block <= head + 1
                      /\ \A j \in DOMAIN chain'[o] : j <= k => chain'[o][j].block <= chain'[o][k].block
    BY <1>2 DEF Blocks
  <2>1. /\ \A j \in DOMAIN chain[o] : chain[o][j].block \in Nat /\ chain[o][j].block <= head
        /\ DOMAIN chain[o] = 1 .. Len(chain[o]) /\ Len(chain[o]) \in Nat
    BY <1>1, ChainTypes DEF Blocks
  <2>2. /\ \A j \in DOMAIN chain'[o] : j \in Nat /\ j >= 1
    <3>1. chain'[o] \in Seq(MinedTx)
      BY <1>4
    <3> QED BY <3>1
  <2>3. \A j \in DOMAIN chain'[o] : chain'[o][j].block \in Nat /\ chain'[o][j].block <= head + 1
    <3> SUFFICES ASSUME NEW j \in DOMAIN chain'[o]
                 PROVE  chain'[o][j].block \in Nat /\ chain'[o][j].block <= head + 1
      OBVIOUS
    <3>1. CASE j \in DOMAIN chain[o]
      <4>1. chain'[o][j] = chain[o][j]
        BY <1>4, <3>1
      <4> QED BY <1>1, <2>1, <3>1, <4>1
    <3>2. CASE j \notin DOMAIN chain[o]
      <4>1. chain'[o][j].block = head + 1
        BY <1>4, <3>2
      <4> QED BY <1>1, <4>1
    <3> QED BY <3>1, <3>2
  <2>4. CASE k \in DOMAIN chain[o]
    <3>1. \A j \in DOMAIN chain'[o] : j <= k => j \in DOMAIN chain[o]
      BY <2>1, <2>2, <2>4
    <3>2. \A j \in DOMAIN chain[o] : j <= k => chain[o][j].block <= chain[o][k].block
      BY <1>1, <2>4 DEF Blocks
    <3> QED BY <1>4, <2>3, <2>4, <3>1, <3>2
  <2>5. CASE k \notin DOMAIN chain[o]
    BY <1>4, <2>3, <2>5
  <2> QED BY <2>4, <2>5
<1>7. head <= head' /\ fin <= fin' /\ pool' \subseteq pool
  BY <1>1, <1>2, <1>3
<1>8. \A o \in Ops : \A k \in DOMAIN chain'[o] :
        \/ k \in DOMAIN chain[o] /\ chain'[o][k] = chain[o][k]
        \/ \E p \in pool : /\ p.op = o /\ p.nonce = k - 1
                           /\ chain'[o][k].id = p.id /\ chain'[o][k].lvl = p.lvl
  BY <1>4
<1>9. \A o \in Ops : \A k \in DOMAIN chain[o] : chain[o][k].block <= fin =>
        k \in DOMAIN chain'[o] /\ chain'[o][k] = chain[o][k]
  BY <1>4
<1> QED BY <1>2, <1>5, <1>6, <1>7, <1>8, <1>9, L1Step

-----------------------------------------------------------------------------
(* Saving, restarting and clearing.                                        *)

\* The pending nonce is above what is mined, and nobody waits with it.
LEMMA PendingIsFree ==
    ASSUME L1Types, IsFiniteSet(pool), NEW o \in Ops
    PROVE  /\ PendingNonce(o) \in Nat /\ Len(chain[o]) <= PendingNonce(o)
           /\ \A p \in pool : p.op = o => p.nonce # PendingNonce(o)
<1> DEFINE n == Len(chain[o])
           c == Cardinality(pool)
           mine == {p \in pool : p.op = o}
           waiting == {h.nonce : h \in mine}
           T == {x \in n .. n + c : \A m \in n .. x - 1 : m \in waiting}
           m == PendingNonce(o)
<1>1. n \in Nat /\ c \in Nat
  BY ChainTypes, FS_CardinalityType
<1>2. m = SetMax(T)
  BY DEF PendingNonce
<1>3. n \in T
  <2>1. n \in n .. n + c /\ n .. n - 1 = {}
    <3> HIDE DEF n, c
    <3> QED BY <1>1
  <2> QED BY <2>1
<1>4. m \in T /\ \A y \in T : y <= m
  <2>1. T \in SUBSET (0 .. n + c) /\ n + c \in Nat
    BY <1>1
  <2> HIDE DEF T, m
  <2> QED BY <1>2, <1>3, <2>1, SetMaxIsMax
<1> HIDE DEF m
<1>5. m \in Nat /\ n <= m /\ m <= n + c
  BY <1>1, <1>4
<1>6. m \notin waiting
  <2> SUFFICES ASSUME m \in waiting PROVE FALSE
    OBVIOUS
  <2>1. \A x \in n .. m : x \in waiting
    <3>1. \A x \in n .. m - 1 : x \in waiting
      BY <1>4
    <3>2. \A x \in n .. m : x = m \/ x \in n .. m - 1
      BY <1>1, <1>5
    <3> QED BY <3>1, <3>2
  <2>2. CASE m < n + c
    <3>1. m + 1 \in n .. n + c /\ (m + 1) - 1 = m
      BY <1>1, <1>5, <2>2
    <3>2. m + 1 \in T
      BY <2>1, <3>1
    <3> QED BY <1>4, <1>5, <3>2
  <2>3. CASE m = n + c
    <3> HIDE DEF waiting, T
    <3>1. Cardinality(n .. m) = c + 1
      <4> HIDE DEF n, c
      <4> QED BY <1>1, <2>3, <1>5, FS_Interval
    <3>2. IsFiniteSet(waiting) /\ Cardinality(waiting) <= Cardinality(mine) /\ IsFiniteSet(mine)
          /\ Cardinality(mine) <= c
      <4>1. mine \in SUBSET pool
        OBVIOUS
      <4> DEFINE f == [h \in mine |-> h.nonce]
      <4>2. f \in Surjection(mine, waiting)
        BY DEF Surjection, waiting
      <4> HIDE DEF mine, f
      <4>3. IsFiniteSet(mine) /\ Cardinality(mine) <= c
        BY <4>1, FS_Subset
      <4> QED BY <4>2, <4>3, FS_Surjection
    <3>3. n .. m \in SUBSET waiting
      BY <2>1
    <3>4. Cardinality(n .. m) <= Cardinality(waiting)
      <4> HIDE DEF n, c
      <4> QED BY <3>2, <3>3, FS_Subset
    <3>5. Cardinality(waiting) \in Nat /\ Cardinality(mine) \in Nat
      <4> HIDE DEF mine
      <4> QED BY <3>2, FS_CardinalityType
    <3> HIDE DEF mine, c, n
    <3> QED BY <1>1, <3>1, <3>2, <3>4, <3>5
  <2> QED BY <1>1, <1>5, <2>2, <2>3
<1>7. \A p \in pool : p.op = o => p.nonce # m
  BY <1>6
<1> QED BY <1>5, <1>7 DEF m

\* A restart reads it.
LEMMA RestartInv == IInv /\ Restart => IInv'
<1> SUFFICES ASSUME IInv, Restart PROVE IInv'
  OBVIOUS
<1>1. /\ UNCHANGED <<ethTxs, history, nextId, chain, pool, head, fin>>
      /\ baseNonce' = [o \in Ops |-> PendingNonce(o)] /\ pc' = "poll" /\ queue' = {}
      /\ DbTypes /\ L1Types /\ LoopTypes
  BY TypeParts DEF IInv, Restart, dbVars, l1Vars
<1>2. \A o \in Ops : /\ PendingNonce(o) \in Nat /\ Len(chain[o]) <= PendingNonce(o)
                     /\ \A p \in pool : p.op = o => p.nonce # PendingNonce(o)
  BY <1>1, PendingIsFree DEF IInv, DbInv
<1>3. DbTypes' /\ L1Types'
  BY <1>1, <1>2 DEF DbTypes, L1Types
<1>4. LoopTypes'
  <2>1. 0 \in 0 .. head /\ 0 \in 0 .. fin /\ crashes' \in 0 .. MaxCrashes
    <3>1. head \in Nat /\ fin \in Nat /\ crashes \in 0 .. MaxCrashes /\ MaxCrashes \in Nat
      BY <1>1, ChainTypes, ConstantTypes DEF LoopTypes
    <3> QED BY <3>1 DEF Restart
  <2>2. view' \in [latest : 0 .. head, finalized : 0 .. fin] /\ nonces' \in [latest : Nat, finalized : Nat]
    BY <2>1 DEF Restart
  <2>3. cur' \in [id : 0 .. MaxTxs, lvl : 0 .. MaxLevel]
    BY ConstantTypes DEF Restart, NoAttempt, NoId
  <2>4. resend' = FALSE /\ opr' \in DOMAIN Operators /\ lastKnown' = 0
    BY ConstantTypes DEF Restart
  <2> QED BY <1>1, <2>1, <2>2, <2>3, <2>4 DEF LoopTypes
<1>5. \A i : Live(i)' = Live(i) /\ RowsOf(i)' = RowsOf(i) /\ TakenForGood(i)' = TakenForGood(i)
  BY <1>1 DEF Live, RowsOf, TakenForGood, Taken
<1>6. DbInv'
  BY <1>1, <1>5 DEF IInv, DbInv, NoncesGrow, L1Identity, L1AttemptRecorded, Blocks, Live, RowsOf
<1>7. FinalInv'
  <2>1. ConfirmedIsFinal' /\ FailedIsFinal'
    BY <1>1 DEF IInv, FinalInv, ConfirmedIsFinal, FailedIsFinal
  <2>2. InOrder'
    BY <1>1, <1>5 DEF IInv, FinalInv, InOrder
  <2> QED BY <2>1, <2>2 DEF FinalInv
<1>8. BaseFree'
  <2>1. \A o \in Ops : /\ ~(baseNonce'[o] < Len(chain[o]))
                       /\ \A p \in pool : p.op = o => p.nonce # baseNonce'[o]
    <3>1. \A o \in Ops : Len(chain[o]) \in Nat
      BY <1>1, ChainTypes
    <3> QED BY <1>1, <1>2, <3>1
  <2> QED BY <1>1, <2>1 DEF BaseFree
<1>9. LoopInv'
  BY <1>1, <1>8 DEF LoopInv, CurFresh, Monitored, Down
<1> QED BY <1>3, <1>4, <1>6, <1>7, <1>9, TypePartsNext DEF IInv

\* A new nonce is above those in the database and not below the base.
LEMMA NextNonceIsNew ==
    ASSUME DbTypes, NoncesGrow, NEW o \in Ops
    PROVE  /\ get_next_nonce(o) \in Nat /\ baseNonce[o] <= get_next_nonce(o)
           /\ \A i \in DOMAIN ethTxs : ethTxs[i].op = o => ethTxs[i].nonce < get_next_nonce(o)
<1> DEFINE mine == {i \in DOMAIN ethTxs : ethTxs[i].op = o}
<1>1. /\ \A i \in DOMAIN ethTxs : i \in 0 .. MaxTxs /\ ethTxs[i].nonce \in Nat
      /\ MaxTxs \in Nat /\ baseNonce[o] \in Nat
  BY RowTypes, ConstantTypes DEF DbTypes, Ids
<1>2. DbNonce(o) \in Nat /\ \A i \in mine : ethTxs[i].nonce < DbNonce(o)
  <2>1. CASE mine = {}
    BY <2>1 DEF DbNonce
  <2>2. CASE mine # {}
    <3>1. SetMax(mine) \in mine /\ \A y \in mine : y <= SetMax(mine)
      <4>1. mine \in SUBSET (0 .. MaxTxs)
        BY <1>1
      <4> HIDE DEF mine
      <4> QED BY <1>1, <2>2, <4>1, SetMaxIsMax
    <3>2. DbNonce(o) = ethTxs[SetMax(mine)].nonce + 1
      BY <2>2 DEF DbNonce
    <3>3. \A i \in mine : i = SetMax(mine) \/ ethTxs[i].nonce < ethTxs[SetMax(mine)].nonce
      <4> SUFFICES ASSUME NEW i \in mine, i # SetMax(mine)
                   PROVE  ethTxs[i].nonce < ethTxs[SetMax(mine)].nonce
        OBVIOUS
      <4>1. i \in 0 .. MaxTxs /\ SetMax(mine) \in 0 .. MaxTxs /\ i <= SetMax(mine)
        BY <1>1, <3>1
      <4>2. i < SetMax(mine)
        BY <1>1, <4>1
      <4>3. /\ i \in DOMAIN ethTxs /\ SetMax(mine) \in DOMAIN ethTxs
            /\ ethTxs[i].op = ethTxs[SetMax(mine)].op
        BY <3>1
      <4> QED BY <4>2, <4>3 DEF NoncesGrow
    <3> QED BY <1>1, <3>1, <3>2, <3>3
  <2> QED BY <2>1, <2>2
<1>3. get_next_nonce(o) \in {DbNonce(o), baseNonce[o]}
      /\ \A y \in {DbNonce(o), baseNonce[o]} : y <= get_next_nonce(o)
  <2>1. /\ DbNonce(o) + baseNonce[o] \in Nat
        /\ {DbNonce(o), baseNonce[o]} \in SUBSET (0 .. DbNonce(o) + baseNonce[o])
    BY <1>1, <1>2
  <2> QED BY <2>1, SetMaxIsMax DEF get_next_nonce
<1> QED BY <1>1, <1>2, <1>3

\* A row with a new id and a new nonce: L1 knows nothing of it.
LEMMA SaveEthTxInv == ASSUME NEW o \in Ops, IInv, SaveEthTx(o) PROVE IInv'
<1> DEFINE new == [op |-> o, nonce |-> get_next_nonce(o), conf |-> 0, failed |-> FALSE]
<1>1. /\ UNCHANGED <<history, baseNonce, chain, pool, head, fin, crashes>>
      /\ UNCHANGED <<pc, opr, view, lastKnown, nonces, queue, cur, resend>>
      /\ nextId' = nextId + 1 /\ nextId <= MaxTxs /\ pc # "panicked"
      /\ DbTypes /\ L1Types /\ LoopTypes
  BY TypeParts DEF IInv, SaveEthTx, l1Vars, loopVars
<1>2. /\ nextId \in Nat /\ nextId >= 1
      /\ \A i \in DOMAIN ethTxs : i \in Nat /\ i < nextId /\ i # nextId /\ i \in 1 .. nextId
  <2>1. nextId \in Nat /\ nextId >= 1 /\ \A i \in DOMAIN ethTxs : i \in 1 .. nextId - 1
    BY <1>1, ConstantTypes DEF DbTypes
  <2> QED BY <2>1
<1>3. /\ DOMAIN ethTxs' = DOMAIN ethTxs \cup {nextId}
      /\ ethTxs'[nextId] = new /\ \A i \in DOMAIN ethTxs : ethTxs'[i] = ethTxs[i]
  BY <1>2 DEF SaveEthTx
<1>4. /\ get_next_nonce(o) \in Nat
      /\ \A i \in DOMAIN ethTxs : ethTxs[i].op = o => ethTxs[i].nonce < get_next_nonce(o)
  BY <1>1, NextNonceIsNew DEF IInv, DbInv
<1>5. /\ ethTxs'[nextId] \in EthTx /\ ethTxs'[nextId].op = o /\ ethTxs'[nextId].conf = 0
      /\ ethTxs'[nextId].failed = FALSE /\ ethTxs'[nextId].nonce = get_next_nonce(o)
  BY <1>3, <1>4, ConstantTypes DEF EthTx
<1>6. DbTypes' /\ L1Types'
  <2>1. DOMAIN ethTxs' \subseteq 1 .. nextId' - 1 /\ nextId' \in 1 .. MaxTxs + 1
    BY <1>1, <1>2, <1>3, ConstantTypes
  <2>2. history' \subseteq [id : DOMAIN ethTxs', lvl : Levels, at : 0 .. MaxBlock]
    BY <1>1, <1>3 DEF DbTypes
  <2>3. \A i \in DOMAIN ethTxs' : ethTxs'[i] \in EthTx
    BY <1>1, <1>3, <1>5 DEF DbTypes
  <2>4. L1Types'
    BY <1>1 DEF L1Types
  <2> QED BY <1>1, <2>1, <2>2, <2>3, <2>4 DEF DbTypes
<1>7. LoopTypes'
  BY <1>1, <1>3 DEF LoopTypes
<1>8. \A i : RowsOf(i)' = RowsOf(i) /\ (Live(i) => Live(i)') /\ (i < nextId => Live(i)' = Live(i))
  BY <1>1, <1>2, <1>3 DEF Live, RowsOf
<1>9. /\ \A p \in pool : p.id < nextId /\ p.id < nextId' /\ p.id \in Nat
      /\ \A a \in Ops : \A k \in DOMAIN chain[a] :
            chain[a][k].id < nextId /\ chain[a][k].id < nextId' /\ chain[a][k].id \in Nat
  <2>1. /\ \A p \in pool : p.id < nextId /\ p.id \in Ids
        /\ \A a \in Ops : \A k \in DOMAIN chain[a] : chain[a][k].id < nextId /\ chain[a][k].id \in Ids
    BY <1>1, ChainTypes DEF IInv, DbInv, L1Identity
  <2>2. \A i \in Ids : i \in Nat /\ (i < nextId => i < nextId')
    BY <1>1, <1>2, ConstantTypes DEF Ids
  <2> QED BY <2>1, <2>2
<1>10. \A i \in DOMAIN ethTxs : TakenForGood(i) => TakenForGood(i)'
  <2>1. \A i \in DOMAIN ethTxs : ethTxs[i].op \in Ops
    BY <1>1, RowTypes
  <2> QED BY <1>1, <1>3, <1>8, <1>9, <2>1 DEF Taken, TakenForGood
<1>11. NoncesGrow'
  <2> SUFFICES ASSUME NEW i \in DOMAIN ethTxs', NEW j \in DOMAIN ethTxs', i < j,
                      ethTxs'[i].op = ethTxs'[j].op
               PROVE  ethTxs'[i].nonce < ethTxs'[j].nonce
    BY DEF NoncesGrow
  <2>1. i \in DOMAIN ethTxs
    BY <1>2, <1>3
  <2>2. CASE j = nextId
    BY <1>3, <1>4, <1>5, <2>1, <2>2
  <2>3. CASE j # nextId
    BY <1>3, <2>1, <2>3 DEF IInv, DbInv, NoncesGrow
  <2> QED BY <2>2, <2>3
<1>12. L1Identity'
  BY <1>1, <1>3, <1>8, <1>9 DEF IInv, DbInv, L1Identity, Live
<1>13. L1AttemptRecorded'
  BY <1>1, <1>8, <1>9 DEF IInv, DbInv, L1AttemptRecorded
<1>14. DbInv'
  BY <1>1, <1>11, <1>12, <1>13 DEF IInv, DbInv, Blocks
<1>15. FinalInv'
  <2>1. ConfirmedIsFinal' /\ FailedIsFinal'
    BY <1>1, <1>3, <1>5 DEF IInv, FinalInv, ConfirmedIsFinal, FailedIsFinal
  <2>2. ASSUME NEW i \in DOMAIN ethTxs', NEW j \in DOMAIN ethTxs', i < j,
               ethTxs'[i].op = ethTxs'[j].op, ethTxs'[j].conf # 0
        PROVE  ethTxs'[i].conf # 0 \/ TakenForGood(i)'
    <3>1. i \in DOMAIN ethTxs /\ j \in DOMAIN ethTxs
      BY <1>2, <1>3, <1>5, <2>2
    <3>2. ethTxs[i].conf # 0 \/ TakenForGood(i)
      BY <1>3, <2>2, <3>1 DEF IInv, FinalInv, InOrder
    <3> QED BY <1>3, <1>10, <3>1, <3>2
  <2> QED BY <2>1, <2>2 DEF FinalInv, InOrder
<1>16. CurFresh' /\ Down'
  <2>1. CurFresh'
    BY <1>1, <1>8 DEF IInv, LoopInv, CurFresh
  <2> QED BY <1>1, <2>1 DEF Down
<1>17. BaseFree'
  BY <1>1, <1>8 DEF IInv, LoopInv, BaseFree
<1>18. Monitored'
  <2> SUFFICES ASSUME pc = "check" PROVE Monitored'
    BY <1>1 DEF Monitored
  <2>1. op' = op /\ \A q \in queue : q \in DOMAIN ethTxs
    BY <1>1 DEF op, LoopTypes
  <2>2. \A i \in DOMAIN ethTxs : /\ Passed(i)' = Passed(i)
                                 /\ Unmined(i)' = Unmined(i) /\ Finalized(i)' = Finalized(i)
    BY <1>1, <1>3, <2>1 DEF Passed, Unmined, Finalized
  <2>3. \A i : i = nextId => ~Passed(i)'
    BY <1>1, <1>2, <2>1 DEF Passed
  <2>4. \A i \in DOMAIN ethTxs' : Passed(i)' => Unmined(i)' \/ ~Finalized(i)' \/ TakenForGood(i)'
    BY <1>3, <1>10, <2>2, <2>3 DEF IInv, LoopInv, Monitored
  <2>5. \A q \in queue : ethTxs'[q].op = op
    BY <1>3, <2>1 DEF IInv, LoopInv, Monitored
  <2> QED BY <1>1, <2>1, <2>4, <2>5 DEF IInv, LoopInv, Monitored
<1> QED BY <1>6, <1>7, <1>14, <1>15, <1>16, <1>17, <1>18, TypePartsNext DEF IInv, LoopInv

\* Rows from the first failed one on are deleted: what stays is as it was.
LEMMA ClearFailedInv == IInv /\ clear_failed_transactions => IInv'
<1> SUFFICES ASSUME IInv, clear_failed_transactions PROVE IInv'
  OBVIOUS
<1> DEFINE keep == {i \in DOMAIN ethTxs : \A f \in {j \in DOMAIN ethTxs : ethTxs[j].failed} : i < f}
<1>1. /\ UNCHANGED <<nextId, baseNonce, chain, pool, head, fin, crashes>>
      /\ UNCHANGED <<pc, opr, view, lastKnown, nonces, queue, cur, resend>>
      /\ pc = "panicked" /\ queue = {}
      /\ DbTypes /\ L1Types /\ LoopTypes
  BY TypeParts DEF IInv, LoopInv, Down, clear_failed_transactions, l1Vars, loopVars
<1>2. /\ ethTxs' = [i \in keep |-> ethTxs[i]]
      /\ history' = {h \in history : h.id \in keep}
  BY DEF clear_failed_transactions
<1>3. /\ DOMAIN ethTxs' = keep /\ \A i \in keep : i \in DOMAIN ethTxs /\ ethTxs'[i] = ethTxs[i]
  BY <1>2
<1> HIDE DEF keep
<1>4. DbTypes' /\ L1Types' /\ LoopTypes'
  <2>1. history' \subseteq [id : keep, lvl : Levels, at : 0 .. MaxBlock]
    BY <1>1, <1>2 DEF DbTypes
  <2>2. DbTypes'
    BY <1>1, <1>3, <2>1 DEF DbTypes
  <2> QED BY <1>1, <2>2 DEF L1Types, LoopTypes
<1>5. \A i : (Live(i)' => Live(i) /\ i \in keep) /\ (i \in keep => RowsOf(i)' = RowsOf(i))
  BY <1>2, <1>3 DEF Live, RowsOf
<1>6. \A i \in keep : TakenForGood(i) => TakenForGood(i)'
  BY <1>1, <1>3, <1>5 DEF Taken, TakenForGood
<1>7. DbInv'
  <2>1. NoncesGrow'
    BY <1>3 DEF IInv, DbInv, NoncesGrow
  <2>2. L1Identity'
    BY <1>1, <1>3, <1>5 DEF IInv, DbInv, L1Identity
  <2>3. L1AttemptRecorded'
    BY <1>1, <1>5 DEF IInv, DbInv, L1AttemptRecorded
  <2> QED BY <1>1, <2>1, <2>2, <2>3 DEF IInv, DbInv, Blocks
<1>8. FinalInv'
  <2>1. ConfirmedIsFinal' /\ FailedIsFinal'
    BY <1>1, <1>3 DEF IInv, FinalInv, ConfirmedIsFinal, FailedIsFinal
  <2>2. InOrder'
    BY <1>3, <1>6 DEF IInv, FinalInv, InOrder
  <2> QED BY <2>1, <2>2 DEF FinalInv
<1>9. LoopInv'
  BY <1>1 DEF LoopInv, CurFresh, BaseFree, Monitored, Down
<1> QED BY <1>4, <1>7, <1>8, <1>9, TypePartsNext DEF IInv

\* Nothing changes.
LEMMA StutterInv == IInv /\ UNCHANGED vars => IInv'
<1> SUFFICES ASSUME IInv, UNCHANGED vars PROVE IInv'
  OBVIOUS
<1>1. /\ UNCHANGED <<ethTxs, history, nextId, baseNonce, chain, pool, head, fin>>
      /\ UNCHANGED <<pc, opr, view, lastKnown, nonces, queue, cur, resend, crashes>>
      /\ DbTypes /\ L1Types /\ LoopTypes
  BY TypeParts DEF IInv, vars
<1>2. DbTypes' /\ L1Types' /\ LoopTypes'
  BY <1>1 DEF DbTypes, L1Types, LoopTypes
<1>3. \A i : Live(i)' = Live(i) /\ RowsOf(i)' = RowsOf(i) /\ TakenForGood(i)' = TakenForGood(i)
  BY <1>1 DEF Live, RowsOf, TakenForGood, Taken
<1>4. DbInv'
  BY <1>1, <1>3 DEF IInv, DbInv, NoncesGrow, L1Identity, L1AttemptRecorded, Blocks, Live, RowsOf
<1>5. FinalInv'
  <2>1. ConfirmedIsFinal' /\ FailedIsFinal'
    BY <1>1 DEF IInv, FinalInv, ConfirmedIsFinal, FailedIsFinal
  <2>2. InOrder'
    BY <1>1, <1>3 DEF IInv, FinalInv, InOrder
  <2> QED BY <2>1, <2>2 DEF FinalInv
<1>6. LoopInv'
  <2>1. op' = op
    BY <1>1 DEF op
  <2>2. \A i : Passed(i)' = Passed(i) /\ Unmined(i)' = Unmined(i) /\ Finalized(i)' = Finalized(i)
    BY <1>1, <2>1 DEF Passed, Unmined, Finalized
  <2>3. Monitored'
    BY <1>1, <1>3, <2>1, <2>2 DEF IInv, LoopInv, Monitored
  <2>4. CurFresh' /\ BaseFree' /\ Down'
    BY <1>1, <1>3 DEF IInv, LoopInv, CurFresh, BaseFree, Down, RowsOf
  <2> QED BY <2>3, <2>4 DEF LoopInv
<1> QED BY <1>2, <1>4, <1>5, <1>6, TypePartsNext DEF IInv

-----------------------------------------------------------------------------
(* The theorems.                                                           *)

\* The inductive invariant: what the two tables, the manager's loop and L1 say of
\* each other through every step of the aggregator, the manager, the operator's
\* command, restarts and L1.
THEOREM ManagerInvariant == Spec => []IInv
<1>1. ASSUME IInv, [Next]_vars PROVE IInv'
  <2>1. ASSUME NEW o \in Ops, SaveEthTx(o) PROVE IInv'
    BY <1>1, <2>1, SaveEthTxInv
  <2>2. CASE Poll \/ send_new_eth_txs \/ SendNewDone
    BY <1>1, <2>2, ReadInv
  <2>3. CASE PollIdle \/ UNCHANGED vars
    BY <1>1, <2>3, StutterInv DEF PollIdle
  <2>4. CASE SendNewTx \/ \E id \in queue : Resend(id)
    BY <1>1, <2>4, SendInv
  <2>5. CASE RawAccepted \/ RawLost \/ RawRejected
    BY <1>1, <2>5, RawInv
  <2>6. CASE Monitor
    BY <1>1, <2>6, MonitorInv
  <2>7. CASE MonitorEnds \/ CheckDone \/ \E id \in queue : ResendTooCheap(id) \/ StatusUnavailable(id)
    <3>1. NextOperator /\ pc # "panicked" /\ UNCHANGED <<dbVars, baseNonce, l1Vars, crashes>>
      BY <2>7 DEF MonitorEnds, CheckDone, ResendTooCheap, StatusUnavailable, Current
    <3> QED BY <1>1, <3>1, TurnEnds
  <2>8. ASSUME NEW id \in queue, Skip(id) \/ confirm_tx(id) \/ fail_tx(id) PROVE IInv'
    BY <1>1, <2>8, SkipInv, ConfirmInv, FailInv
  <2>9. CASE Restart \/ clear_failed_transactions
    BY <1>1, <2>9, RestartInv, ClearFailedInv
  <2>10. CASE L1
    BY <1>1, <2>10, MineBlockInv, FinalizeEvictInv, ReorgInv DEF L1
  <2> QED BY <1>1, <2>1, <2>2, <2>3, <2>4, <2>5, <2>6, <2>7, <2>8, <2>9, <2>10
          DEF Next, Manager, Check
<1> QED BY InitInv, <1>1, PTL DEF Spec

\* The rows, the attempts, L1 and the loop keep their types whatever the manager,
\* the aggregator and L1 do; a history row belongs to an eth_txs row.
THEOREM ManagerTypes == Spec => []TypeOK
<1>1. IInv => TypeOK
  BY DEF IInv
<1> QED BY <1>1, ManagerInvariant, PTL

\* send_eth_tx never loses track of what it sent: every attempt that waits or was
\* mined on L1 has its eth_txs_history row while its transaction is in the database.
THEOREM AttemptsAreRecorded == Spec => []L1AttemptRecorded
<1>1. IInv => L1AttemptRecorded
  BY DEF IInv, DbInv
<1> QED BY <1>1, ManagerInvariant, PTL

\* apply_inflight_txs_statuses_and_get_first_to_resend confirms the transactions of an
\* account in id order, but for one whose nonce a deleted transaction has used up.
THEOREM ConfirmationsAreOrdered == Spec => []ConfirmedInOrder
<1>1. IInv => ConfirmedInOrder
  BY DEF IInv, FinalInv, InOrder, TakenForGood, ConfirmedInOrder
<1> QED BY <1>1, ManagerInvariant, PTL

\* confirm_tx records only what a final block holds: no reorg takes back a confirmation.
THEOREM ConfirmationsAreFinal == Spec => []ConfirmedIsFinal
<1>1. IInv => ConfirmedIsFinal
  BY DEF IInv, FinalInv
<1> QED BY <1>1, ManagerInvariant, PTL

\* get_next_nonce: right after a restart the nonce of the next transaction is free on
\* L1; one that L1 holds is given out only above it.
THEOREM StartingNonceIsFree == Spec => NonceNotTaken
<1> DEFINE A == \A i \in DOMAIN ethTxs' \ DOMAIN ethTxs :
                    OnL1(ethTxs'[i].op, ethTxs'[i].nonce)
                        => ethTxs'[i].nonce > baseNonce[ethTxs'[i].op]
<1>1. ASSUME IInv, [Next]_vars PROVE [A]_vars
  <2>1. ASSUME NEW o \in Ops, SaveEthTx(o) PROVE A
    <3> DEFINE n == get_next_nonce(o)
    <3>1. DbTypes /\ L1Types /\ baseNonce[o] \in Nat /\ Len(chain[o]) \in Nat
          /\ DOMAIN chain[o] = 1 .. Len(chain[o])
      BY <1>1, TypeParts, ChainTypes DEF IInv, DbTypes
    <3>2. /\ n \in Nat /\ baseNonce[o] <= n
          /\ \A i \in DOMAIN ethTxs : ethTxs[i].op = o => ethTxs[i].nonce < n
      BY <1>1, <3>1, NextNonceIsNew DEF IInv, DbInv
    <3> HIDE DEF n
    <3>3. \A i \in DOMAIN ethTxs' \ DOMAIN ethTxs : ethTxs'[i].op = o /\ ethTxs'[i].nonce = n
      BY <2>1 DEF SaveEthTx, n
    <3>4. ASSUME n = baseNonce[o], n < Len(chain[o]) PROVE FALSE
      <4>1. Live(chain[o][n + 1].id) /\ n + 1 \in DOMAIN chain[o] /\ (n + 1) - 1 = n
        BY <1>1, <2>1, <3>1, <3>2, <3>4 DEF IInv, LoopInv, BaseFree, SaveEthTx
      <4>2. /\ chain[o][n + 1].id \in DOMAIN ethTxs /\ ethTxs[chain[o][n + 1].id].op = o
            /\ ethTxs[chain[o][n + 1].id].nonce = n
        BY <1>1, <4>1 DEF IInv, DbInv, L1Identity, Live
      <4> QED BY <3>2, <4>2
    <3>5. ASSUME n = baseNonce[o], NEW p \in pool, p.op = o, p.nonce = n PROVE FALSE
      <4>1. Live(p.id)
        BY <1>1, <2>1, <3>5 DEF IInv, LoopInv, BaseFree, SaveEthTx
      <4>2. p.id \in DOMAIN ethTxs /\ ethTxs[p.id].op = o /\ ethTxs[p.id].nonce = n
        BY <1>1, <3>5, <4>1 DEF IInv, DbInv, L1Identity, Live
      <4> QED BY <3>2, <4>2
    <3>6. OnL1(o, n) => n > baseNonce[o]
      BY <3>1, <3>2, <3>4, <3>5 DEF OnL1
    <3> QED BY <3>3, <3>6
  <2>2. ASSUME DOMAIN ethTxs' \subseteq DOMAIN ethTxs PROVE A
    BY <2>2
  <2>3. CASE clear_failed_transactions
    BY <2>2, <2>3 DEF clear_failed_transactions
  <2>4. CASE Restart \/ L1
    BY <2>2, <2>4 DEF Restart, L1, MineBlock, Finalize, Reorg, Evict, dbVars
  <2>5. CASE Manager
    <3>1. DOMAIN ethTxs' = DOMAIN ethTxs
      BY <2>5 DEF Manager, Poll, PollIdle, send_new_eth_txs, SendNewTx, SendNewDone, RawAccepted, RawLost,
         RawRejected, Monitor, MonitorEnds, CheckDone, Check, Skip, Resend, ResendTooCheap, confirm_tx,
         fail_tx, StatusUnavailable, dbVars, vars
    <3> QED BY <2>2, <3>1
  <2> QED BY <1>1, <2>1, <2>3, <2>4, <2>5 DEF Next
<1> QED BY <1>1, ManagerInvariant, PTL DEF Spec, NonceNotTaken

\* A confirmation stays as it is but for clear_failed_transactions, which erases it only
\* when a transaction of the other account failed before it.
THEOREM ConfirmationsStay == Spec => ConfirmedErasedByOtherOnly
<1> DEFINE A == \A i \in DOMAIN ethTxs : ethTxs[i].conf # 0 =>
            \/ i \in DOMAIN ethTxs' /\ ethTxs'[i].conf = ethTxs[i].conf
            \/ \E f \in DOMAIN ethTxs :
                f < i /\ ethTxs[f].failed /\ ethTxs[f].op # ethTxs[i].op
<1>1. ASSUME IInv, [Next]_vars PROVE [A]_vars
  <2>1. DbTypes /\ L1Types /\ LoopTypes
    BY <1>1, TypeParts DEF IInv
  <2>2. ASSUME NEW o \in Ops, SaveEthTx(o) PROVE A
    <3>1. \A i \in DOMAIN ethTxs : i # nextId
      BY <2>1, RowTypes
    <3> QED BY <2>2, <3>1 DEF SaveEthTx
  <2>3. CASE clear_failed_transactions
    <3> SUFFICES ASSUME NEW i \in DOMAIN ethTxs, ethTxs[i].conf # 0,
                        ~(i \in DOMAIN ethTxs' /\ ethTxs'[i].conf = ethTxs[i].conf)
                 PROVE  \E f \in DOMAIN ethTxs : f < i /\ ethTxs[f].failed /\ ethTxs[f].op # ethTxs[i].op
      OBVIOUS
    <3>1. PICK f \in DOMAIN ethTxs : ethTxs[f].failed /\ ~(i < f)
      BY <2>3 DEF clear_failed_transactions
    <3>2. f \in Nat /\ i \in Nat /\ ethTxs[f].op \in Ops /\ ethTxs[i].op \in Ops
      BY <2>1, RowTypes
    <3>3. ethTxs[f].conf = 0 /\ ~TakenForGood(f)
      BY <1>1, <3>1 DEF IInv, FinalInv, FailedIsFinal, ConfirmedIsFinal, TakenForGood, Taken, Live
    <3>4. f < i
      BY <3>1, <3>2, <3>3
    <3>5. ethTxs[f].op # ethTxs[i].op
      BY <1>1, <3>3, <3>4 DEF IInv, FinalInv, InOrder
    <3> QED BY <3>1, <3>4, <3>5
  <2>4. ASSUME NEW id \in queue, confirm_tx(id) PROVE A
    <3>1. id \in DOMAIN ethTxs
      BY <2>1 DEF LoopTypes
    <3>2. PICK c \in Receipts(id) : ethTxs' = [ethTxs EXCEPT ![id].conf = c.lvl]
      BY <2>4 DEF confirm_tx
    <3>3. ethTxs[id].conf # 0 => c.lvl = ethTxs[id].conf
      BY <1>1, <3>1, <3>2, ReceiptAtNonce DEF IInv, FinalInv, ConfirmedIsFinal
    <3>4. ethTxs[id] \in EthTx
      BY <2>1, <3>1 DEF DbTypes
    <3>5. DOMAIN ethTxs' = DOMAIN ethTxs /\ \A i \in DOMAIN ethTxs : i # id => ethTxs'[i] = ethTxs[i]
      BY <3>1, <3>2
    <3>6. ethTxs'[id].conf = c.lvl
      BY <3>1, <3>2, <3>4 DEF EthTx
    <3> QED BY <3>3, <3>5, <3>6
  <2>5. ASSUME NEW id \in queue, fail_tx(id) PROVE A
    <3>1. id \in DOMAIN ethTxs
      BY <2>1 DEF LoopTypes
    <3>2. ethTxs' = [ethTxs EXCEPT ![id].failed = TRUE]
      BY <2>5 DEF fail_tx
    <3>3. ethTxs[id] \in EthTx
      BY <2>1, <3>1 DEF DbTypes
    <3>4. ethTxs'[id].conf = ethTxs[id].conf
      BY <3>1, <3>2, <3>3 DEF EthTx
    <3> QED BY <3>1, <3>2, <3>4
  <2>6. ASSUME ethTxs' = ethTxs PROVE A
    BY <2>6
  <2>7. CASE Restart \/ L1
    BY <2>6, <2>7 DEF Restart, L1, MineBlock, Finalize, Reorg, Evict, dbVars
  <2>8. CASE Manager
    <3>1. ethTxs' = ethTxs \/ \E id \in queue : confirm_tx(id) \/ fail_tx(id)
      BY <2>8 DEF Manager, Poll, PollIdle, send_new_eth_txs, SendNewTx, SendNewDone, RawAccepted, RawLost,
         RawRejected, Monitor, MonitorEnds, CheckDone, Check, Skip, Resend, ResendTooCheap,
         StatusUnavailable, dbVars, vars
    <3> QED BY <2>4, <2>5, <2>6, <3>1
  <2> QED BY <1>1, <2>2, <2>3, <2>7, <2>8 DEF Next
<1> QED BY <1>1, ManagerInvariant, PTL DEF Spec, ConfirmedErasedByOtherOnly
=============================================================================
