----------------------------- MODULE MCRequests -----------------------------
(* Model-checking instance of Requests: a domain for signatures, one for   *)
(* foreign transactions that is added on the way, and a request of the     *)
(* wrong kind.                                                             *)
EXTENDS Requests, MCContract

CONSTANT btc

Request(kind, domain_id, chain) == [kind |-> kind, domain_id |-> domain_id, chain |-> chain]

TwoPurposes   == 0 :> "Sign" @@ 1 :> "ForeignTx"
SomeRequests  == {Request("Sign", 0, "none"), Request("ForeignTx", 1, btc),
                  Request("CKD", 1, "none")}
SomePolicies  == {{btc}}
=============================================================================
