----------------------------- MODULE MCAssetIds -----------------------------
(* Constants of the model-checking instance of AssetIds.                   *)
EXTENDS AssetIds

CONSTANTS n1, n2, n3, t1
=============================================================================
