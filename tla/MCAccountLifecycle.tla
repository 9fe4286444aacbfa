-------------------------- MODULE MCAccountLifecycle --------------------------
(***************************************************************************)
(* Instances of AccountLifecycle for TLC.                                  *)
(***************************************************************************)
EXTENDS AccountLifecycle, TLC

Symmetry == Permutations(Accounts) \cup Permutations(Credentials)
=============================================================================
