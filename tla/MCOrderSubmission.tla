-------------------------- MODULE MCOrderSubmission --------------------------
(***************************************************************************)
(* Instances of OrderSubmission for TLC.                                   *)
(***************************************************************************)
EXTENDS OrderSubmission, TLC

CONSTANTS open, reduce

MCRequests   == {open, reduce}
MCReduceOnly == {reduce}

Symmetry == Permutations(Ids)
=============================================================================
