--------------------------- MODULE MCProofPipeline ---------------------------
(* One circuit type with five basic circuits, which at arity 2 needs two    *)
(* depths of node aggregation.                                              *)
EXTENDS ProofPipeline, TLC

MCBasics == 1 :> 5
=============================================================================
