----------------------------- MODULE MCEpochIds -----------------------------
(* Model-checking instances of EpochIds.                                   *)
EXTENDS EpochIds, MCContract
=============================================================================
