---------------------------- MODULE MCKeyshares -----------------------------
(* Model-checking instances of Keyshares.                                  *)
EXTENDS Keyshares, MCContract
=============================================================================
