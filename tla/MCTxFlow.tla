------------------------------ MODULE MCTxFlow ------------------------------
(* The instance of TxFlow for model checking. *)
EXTENDS TxFlow
CONSTANTS alice, bob, carol

\* Two nonces of alice, the second with a fee that may be too low, and one of bob.
MCOffers == {<<alice, 0, 2>>, <<alice, 1, 1>>, <<bob, 0, 2>>}
\* One priority operation is alice's, the other carol's, which sends no L2 transactions.
MCOpFrom == <<alice, carol>>
=============================================================================
