------------------------ MODULE MCRecoverableDocument ------------------------
(***************************************************************************)
(* All stores, four saves each: a commit, a save that fails half way, one  *)
(* that overwrites what it left, and a recovery.                           *)
(***************************************************************************)
EXTENDS RecoverableDocument

AllStores == {"config", "usage", "chart", "notification", "secure"}
=============================================================================
