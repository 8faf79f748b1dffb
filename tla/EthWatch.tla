------------------------------ MODULE EthWatch ------------------------------
(***************************************************************************)
(* The Ethereum watcher of the main node: it polls L1 for the events of    *)
(* finalized blocks and feeds them to two processors in succession.  The   *)
(* first saves priority operations (L1 transactions), the second protocol  *)
(* upgrades.  Its place in the chain is kept in memory only; a restart, or *)
(* an error of the L1 client, derives it again from the priority           *)
(* operations in Postgres.                                                 *)
(*                                                                         *)
(* Only finalized L1 blocks are modelled.  Priority operations have        *)
(* consecutive serial ids from 0, and upgrades consecutive versions from   *)
(* 1, version 0 being the genesis version.  Logs are kept by topic, since  *)
(* each processor is given the logs of its own topic only, in order.       *)
(***************************************************************************)
EXTENDS Integers, Sequences, FiniteSets, FiniteSetsExt, SequencesExt

CONSTANTS
    MaxBlocks,           \* finalized L1 blocks
    MaxOps,              \* priority operations
    MaxUpgrades,         \* protocol upgrades
    LogLimit,            \* logs that the L1 provider returns in one answer
    PRIORITY_EXPIRATION  \* blocks scanned when no operation is known

ASSUME BoundsAreNaturals ==
    /\ {MaxBlocks, MaxOps, MaxUpgrades, PRIORITY_EXPIRATION} \subseteq Nat
    /\ LogLimit \in Nat \ {0}

VARIABLES
    head,      \* the last finalized block of L1
    l1,        \* the logs of the finalized blocks, by topic
    ops,       \* transactions: the L1 block of each priority operation, by serial id
    versions,  \* protocol_patches
    cursor,    \* last_processed_ethereum_block
    nextId,    \* next_expected_priority_id
    seen,      \* last_seen_protocol_version
    pc,        \* where loop_iteration is
    events     \* the logs it works on, and its to_block

vars == <<head, l1, ops, versions, cursor, nextId, seen, pc, events>>

chainL1 == <<head, l1>>

-----------------------------------------------------------------------------
(* L1 and its provider.                                                    *)

Topics == {"op", "upgrade"}

Op(id, block) == [number |-> id, block |-> block]
Upgrade(version, block) == [number |-> version, block |-> block]

\* The i-th log of a topic.
NthLog(topic, i, block) ==
    IF topic = "op" THEN Op(i - 1, block) ELSE Upgrade(i, block)

\* How many logs of a topic the blocks up to b have.
LogsUpTo(topic, b) == Cardinality({i \in 1..Len(l1[topic]) : l1[topic][i].block <= b})

\* get_filter_logs: what a query for the blocks from..upTo is about.
FilterLogs(from, upTo) ==
    [t \in Topics |-> SubSeq(l1[t], LogsUpTo(t, from - 1) + 1, LogsUpTo(t, upTo))]

Size(logs) == Len(logs["op"]) + Len(logs["upgrade"])

\* A block with some operations and upgrades is finalized.  Two blocks in a row
\* never have more logs than the provider returns: get_events does not split a
\* range of two blocks.
L1Block ==
    /\ head < MaxBlocks
    /\ \E n \in [Topics -> 0..LogLimit] :
        /\ Len(l1["op"]) + n["op"] <= MaxOps
        /\ Len(l1["upgrade"]) + n["upgrade"] <= MaxUpgrades
        /\ n["op"] + n["upgrade"] + Size(FilterLogs(head, head)) <= LogLimit
        /\ l1' = [t \in Topics |->
                    l1[t] \o [i \in 1..n[t] |-> NthLog(t, Len(l1[t]) + i, head + 1)]]
    /\ head' = head + 1
    /\ UNCHANGED <<ops, versions, cursor, nextId, seen, pc, events>>

TooManyResults == [error |-> "too many results"]

Joined(first_half, second_half) ==
    IF TooManyResults \in {first_half, second_half} THEN TooManyResults
    ELSE [t \in Topics |-> first_half[t] \o second_half[t]]

\* Mutant: the second half begins with the block the first one ended with.
get_events_overlapping(from, upTo) ==
    LET halves[r \in (0..upTo) \X (0..upTo)] ==
            LET mid == (r[1] + r[2]) \div 2
            IN  IF Size(FilterLogs(r[1], r[2])) <= LogLimit THEN FilterLogs(r[1], r[2])
                ELSE IF r[1] >= mid \/ r[2] = mid + 1 THEN TooManyResults
                ELSE Joined(halves[<<r[1], mid>>], halves[<<mid, r[2]>>])
    IN  halves[<<from, upTo>>]

\* get_events: a range with too many logs is halved, as long as its middle is
\* after its first block.
get_events(from, upTo) ==
    LET halves[r \in (0..upTo) \X (0..upTo)] ==
            LET mid == (r[1] + r[2]) \div 2
            IN  IF Size(FilterLogs(r[1], r[2])) <= LogLimit THEN FilterLogs(r[1], r[2])
                ELSE IF r[1] >= mid THEN TooManyResults
                ELSE Joined(halves[<<r[1], mid>>], halves[<<mid + 1, r[2]>>])
    IN  halves[<<from, upTo>>]

-----------------------------------------------------------------------------
(* Starting, and starting over.                                            *)

Latest == Max(versions)

\* Mutant: the block of the last operation is taken for processed.
LastOpBlock(number) ==
    IF ops = <<>> THEN Max({0, number - PRIORITY_EXPIRATION}) ELSE Last(ops)

\* initialize_state: the block of the last operation, less one in case the server
\* stopped within it; without operations, a number of blocks before the finalized one it is told of.
LastProcessedBlock(number) ==
    IF ops = <<>> THEN Max({0, number - PRIORITY_EXPIRATION})
    ELSE Last(ops) - 1

NoEvents == [logs |-> [t \in Topics |-> <<>>], to |-> 0]

\* EthWatch::new; also after an internal error or a panic, which end the process.
Restart ==
    /\ \E number \in 0..head : cursor' = LastProcessedBlock(number)
    /\ nextId' = Len(ops)
    /\ seen' = Latest
    /\ pc' = "idle"
    /\ events' = NoEvents

Crash ==
    /\ Restart
    /\ UNCHANGED <<chainL1, ops, versions>>

\* run, after any other error: only the block is initialized again.
StartOver ==
    /\ \E number \in 0..head : cursor' = LastProcessedBlock(number)
    /\ pc' = "idle"
    /\ events' = NoEvents
    /\ UNCHANGED <<chainL1, ops, versions, nextId, seen>>

-----------------------------------------------------------------------------
(* loop_iteration.                                                         *)

\* skip_while: the logs from the first one whose number is not below n.
SkipBelow(logs, n) ==
    SubSeq(logs, Cardinality({i \in 1..Len(logs) : \A j \in 1..i : logs[j].number < n}) + 1,
           Len(logs))

NewOps(logs) == SkipBelow(logs["op"], nextId)

\* Mutant: an operation that is known already counts as a gap.
GapIfKnown(logs) ==
    logs["op"] # <<>> /\ logs["op"][1].number # nextId

\* The assertions of the first processor: no gap among the operations received,
\* nor between them and those known.
Gap(logs) ==
    LET received == logs["op"]
        new == NewOps(logs)
    IN  \/ received # <<>> /\ Last(received).number - received[1].number + 1 # Len(received)
        \/ new # <<>> /\ new[1].number # nextId

\* finalized_block_number, of a provider that may lag, then the logs from the
\* last processed block on, that block included.
PollTo(to_block) ==
    /\ pc = "idle"
    /\ to_block > cursor
    /\ LET logs == get_events(cursor, to_block)
       IN  CASE logs = TooManyResults -> StartOver
             [] logs # TooManyResults /\ Gap(logs) ->
                    Restart /\ UNCHANGED <<chainL1, ops, versions>>
             [] OTHER ->
                    /\ events' = [logs |-> logs, to |-> to_block]
                    /\ pc' = "ops"
                    /\ UNCHANGED <<chainL1, ops, versions, cursor, nextId, seen>>

Poll == \E to_block \in 0..head : PollTo(to_block)

\* A call of the client fails while polling.
PollFails == pc = "idle" /\ StartOver

\* The new operations that are not in Postgres yet; inserting one that is there
\* does nothing.
ToInsert == SkipBelow(NewOps(events.logs), Len(ops))

\* The first processor has inserted them all, and moves its next expected id.
AllInserted ==
    /\ ToInsert = <<>>
    /\ nextId' = IF NewOps(events.logs) = <<>> THEN nextId ELSE Last(NewOps(events.logs)).number + 1
    /\ pc' = "calls"
    /\ UNCHANGED ops

\* Mutant: the block polled up to is stored as the operation's block.
insert_with_to_block ==
    /\ pc = "ops"
    /\ \/ AllInserted
       \/ ToInsert # <<>> /\ ops' = Append(ops, events.to) /\ UNCHANGED <<nextId, pc>>
    /\ UNCHANGED <<chainL1, versions, cursor, seen, events>>

\* The first processor inserts the new operations one by one.
insert_transaction_l1 ==
    /\ pc = "ops"
    /\ \/ AllInserted
       \/ /\ ToInsert # <<>>
          /\ ops' = Append(ops, ToInsert[1].block)
          /\ UNCHANGED <<nextId, pc>>
    /\ UNCHANGED <<chainL1, versions, cursor, seen, events>>

\* The second processor first asks L1 for the verification key of every upgrade it
\* was given.
SchedulerVkHash ==
    /\ pc = "calls"
    /\ pc' = "upgrades"
    /\ UNCHANGED <<chainL1, ops, versions, cursor, nextId, seen, events>>

VkHashFails ==
    /\ pc = "calls"
    /\ events.logs["upgrade"] # <<>>
    /\ StartOver

\* Then it saves the upgrades it has not seen, each if it is newer than the latest
\* version in Postgres; the iteration ends with the block moved on.
save_protocol_version_with_tx ==
    /\ pc = "upgrades"
    /\ LET new == SkipBelow(events.logs["upgrade"], seen + 1)
           newer == SkipBelow(new, Latest + 1)
       IN  \/ /\ newer = <<>>
              /\ seen' = IF new = <<>> THEN seen ELSE Last(new).number
              /\ cursor' = events.to
              /\ events' = NoEvents
              /\ pc' = "idle"
              /\ UNCHANGED versions
           \/ /\ newer # <<>>
              /\ versions' = versions \cup {newer[1].number}
              /\ UNCHANGED <<seen, cursor, events, pc>>
    /\ UNCHANGED <<chainL1, ops, nextId>>

-----------------------------------------------------------------------------
Init ==
    /\ head = 0 /\ l1 = [t \in Topics |-> <<>>] /\ ops = <<>> /\ versions = {0}
    /\ cursor = 0 /\ nextId = 0 /\ seen = 0 /\ pc = "idle" /\ events = NoEvents

Next ==
    \/ L1Block \/ Crash \/ Poll \/ PollFails
    \/ insert_transaction_l1 \/ SchedulerVkHash \/ VkHashFails \/ save_protocol_version_with_tx

Spec == Init /\ [][Next]_vars

\* Calls may fail, answers may lag and the process may stop any number of times,
\* but polls that are answered with the head of L1, and steps that succeed within
\* such an iteration, happen again and again.
AtHead(A) == A /\ events.to = head

FairSpec ==
    /\ Spec
    /\ WF_vars(insert_transaction_l1)
    /\ WF_vars(SchedulerVkHash)
    /\ WF_vars(save_protocol_version_with_tx)
    /\ SF_vars(PollTo(head))
    /\ SF_vars(AtHead(insert_transaction_l1))
    /\ SF_vars(AtHead(SchedulerVkHash))
    /\ SF_vars(AtHead(save_protocol_version_with_tx))

-----------------------------------------------------------------------------
\* Types and bounds; the operations in Postgres are the first ones of L1.
TypeOK ==
    /\ head <= MaxBlocks
    /\ \A i \in 1..Len(ops) : i <= Len(l1["op"]) /\ l1["op"][i].block = ops[i]
    /\ versions \subseteq 0..MaxUpgrades /\ 0 \in versions
    /\ cursor \in 0..MaxBlocks /\ nextId \in 0..MaxOps /\ seen \in versions
    /\ pc \in {"idle", "ops", "calls", "upgrades"}

\* No priority operation is left behind: whenever the watcher is between two
\* iterations, every operation of the blocks it takes for processed is in Postgres,
\* wherever the process stopped before and whatever failed.
NoOpBehindCursor ==
    pc = "idle" => \A i \in 1..Len(l1["op"]) :
        l1["op"][i].block <= cursor => i <= Len(ops)

\* Halving a range that has too many logs yields exactly the logs of the range, in
\* order: no block twice and none left out at the middle.
SplitIsExact ==
    \A upTo \in 1..head : \A from \in 0..upTo :
        get_events(from, upTo) \in {FilterLogs(from, upTo), TooManyResults}

\* Every priority operation of a finalized block is saved at last.
OpsArrive ==
    \A id \in 0..(MaxOps - 1) : Len(l1["op"]) > id ~> Len(ops) > id

\* Every protocol upgrade of a finalized block is saved at last, or a later one is:
\* "persists protocol upgrades".  It is not so: after an error of the second
\* processor, or a restart between the two, the watcher goes back to the last
\* priority operation, which may be in a later block than the upgrade.
UpgradesArrive ==
    \A v \in 1..MaxUpgrades : Len(l1["upgrade"]) >= v ~> Latest >= v
=============================================================================
