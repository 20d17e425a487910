--------------------------- MODULE MCRequestQueue ---------------------------
(* Constants of the model-checking instance of RequestQueue.               *)
EXTENDS RequestQueue

CONSTANTS me, peer, r1

PeerFirst == [r \in RequestIds |-> <<peer, me>>]
=============================================================================
