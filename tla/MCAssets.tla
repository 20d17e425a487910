------------------------------ MODULE MCAssets ------------------------------
(* Constants of the model-checking instance of Assets.                     *)
EXTENDS Assets

CONSTANTS n1, n2, n3, t1, t2
=============================================================================
