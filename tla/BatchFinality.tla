---------------------------- MODULE BatchFinality ----------------------------
(***************************************************************************)
(* What the rollup promises about batches that are final on L1: they are   *)
(* committed, proven and executed in order, and nothing is ever undone     *)
(* (contracts/l1-contracts, IExecutor; without revertBatches).             *)
(***************************************************************************)
EXTENDS Naturals

CONSTANT MaxBatches

VARIABLES committed, verified, executed

Init == committed = 0 /\ verified = 0 /\ executed = 0

Commit ==
    /\ committed' = committed + 1 /\ committed' <= MaxBatches
    /\ UNCHANGED <<verified, executed>>

Prove ==
    /\ verified' = verified + 1 /\ verified' <= committed
    /\ UNCHANGED <<committed, executed>>

Execute ==
    /\ executed' \in executed + 1 .. verified
    /\ UNCHANGED <<committed, verified>>

Next == Commit \/ Prove \/ Execute
Spec == Init /\ [][Next]_<<committed, verified, executed>>
=============================================================================
