------------------------------ MODULE Requests ------------------------------
(***************************************************************************)
(* What users call the contract for: signatures, confidential keys and     *)
(* signed foreign transactions.  A request is parked as a yielded promise  *)
(* until a node responds or the promise times out.                         *)
(*                                                                         *)
(* crates/contract/src/lib.rs (user API, respond*, return_*_on_success)    *)
(*                                                                         *)
(* The three kinds of requests are kept in maps of their own and are       *)
(* handled by the same steps; here the kind is part of the request.  A     *)
(* response is the public key it verifies under (a CKD response is not     *)
(* verified).  `yields` stands for the runtime's yielded promises, numbered *)
(* in the order they were created: a promise is resumed at most once, times *)
(* out otherwise, and then its callback runs.  Gas, deposits and payload   *)
(* formats are checked by sign before anything changes and are left out.   *)
(***************************************************************************)
EXTENDS Contract

CONSTANTS
    UserRequests,       \* requests users make: [kind, domain_id, chain]
    Purpose,            \* purpose of every domain id
    Policies,           \* foreign chain policies that may be voted for
    MaxYields           \* bound on the number of requests made

ASSUME RequestsAssumption ==
    /\ \A r \in UserRequests : r.kind \in {"Sign", "CKD", "ForeignTx"} /\ r.domain_id \in Nat
    /\ MaxYields \in Nat

VARIABLES
    pending,            \* request -> number of the yield that answers it
    yields,             \* promise_yield_create'd promises, in order
    foreign_chain_policy,       \* chains in the policy in force
    foreign_chain_policy_votes  \* account -> policy voted for

policyVars  == <<foreign_chain_policy, foreign_chain_policy_votes>>
requestVars == <<pending, yields, policyVars>>
allVars     == <<vars, requestVars>>

DomainIdSet == {domains[i] : i \in 1 .. Len(domains)}

\* Keyset::public_key, of the running or the previously running state.
public_key(domain_id) ==
    (CHOOSE k \in {keyset.domains[i] : i \in 1 .. Len(keyset.domains)} :
        k.domain_id = domain_id).key

HasKey(domain_id) ==
    \E i \in 1 .. Len(keyset.domains) : keyset.domains[i].domain_id = domain_id

\* A yield is "waiting", then "resumed" or "expired", and "answered" or
\* "failed" once the callback ran.  This one was neither responded to nor
\* seen to time out.
Unresolved(d) == yields[d].state \in {"waiting", "expired"}

RequestsInit ==
    /\ Init
    /\ pending = <<>>
    /\ yields = <<>>
    /\ foreign_chain_policy = {}
    /\ foreign_chain_policy_votes = <<>>

-----------------------------------------------------------------------------
\* sign, request_app_private_key and verify_foreign_transaction.  A request
\* that is already pending gets the new promise in place of the old one.
\* `key`, `response` and `overlaps` are not contract state: the domain's key
\* when the request was made, the answer, and whether another promise for the
\* same request was unresolved meanwhile.
sign(r) ==
    LET d     == Len(yields) + 1
        twins == {t \in DOMAIN yields : yields[t].request = r /\ Unresolved(t)}
    IN  /\ d <= MaxYields
        /\ phase \in {"Running", "Resharing"}
        /\ r.domain_id \in DomainIdSet
        /\ Purpose[r.domain_id] = r.kind
        /\ r.kind = "ForeignTx" => r.chain \in foreign_chain_policy
        /\ accept_requests
        /\ pending' = [q \in DOMAIN pending \cup {r} |-> IF q = r THEN d ELSE pending[q]]
        /\ yields' = Append([t \in DOMAIN yields |->
                                IF t \in twins THEN [yields[t] EXCEPT !.overlaps = TRUE]
                                               ELSE yields[t]],
                            [request |-> r, state |-> "waiting", overlaps |-> twins # {},
                             key |-> public_key(r.domain_id), response |-> {}])
        /\ UNCHANGED <<vars, policyVars>>

Without(r) == [q \in DOMAIN pending \ {r} |-> pending[q]]

\* The response verifies under the domain's key.
Verifies_AnyKey(r, response) == TRUE

Verifies(r, response) ==
    r.kind # "CKD" => HasKey(r.domain_id) /\ response = public_key(r.domain_id)

\* respond, respond_ckd and respond_verify_foreign_tx.  The promise of the
\* request may have timed out already; resuming it then has no effect.
respond(a, r, response) ==
    /\ AttestedActiveParticipant(a)
    /\ phase \in {"Running", "Resharing"}
    /\ accept_requests
    /\ Verifies(r, response)
    /\ r \in DOMAIN pending
    /\ pending' = Without(r)
    /\ yields' = IF yields[pending[r]].state = "waiting"
                 THEN [yields EXCEPT ![pending[r]].state = "resumed",
                                     ![pending[r]].response = {response}]
                 ELSE yields
    /\ UNCHANGED <<vars, policyVars>>

\* The runtime gives up on a promise.
YieldTimesOut(d) ==
    /\ yields[d].state = "waiting"
    /\ yields' = [yields EXCEPT ![d].state = "expired"]
    /\ UNCHANGED <<vars, pending, policyVars>>

CleanState_Never(d) == pending

CleanState_Always(d) == Without(yields[d].request)

\* After a time out the request goes, whatever promise it has by now.
CleanState(d) ==
    IF yields[d].state = "expired" THEN Without(yields[d].request) ELSE pending

\* return_signature_and_clean_state_on_success and its two twins.
return_and_clean_state_on_success(d) ==
    /\ \/ /\ yields[d].state = "resumed"
          /\ yields' = [yields EXCEPT ![d].state = "answered"]
       \/ /\ yields[d].state = "expired"
          /\ yields' = [yields EXCEPT ![d].state = "failed"]
    /\ pending' = CleanState(d)
    /\ UNCHANGED <<vars, policyVars>>

\* Every current participant has to vote for the same policy.  Votes of
\* accounts that are not participants stay, and do not count.
vote_foreign_chain_policy(a, policy) ==
    LET votes == WithVoteOf(foreign_chain_policy_votes, a, policy)
    IN  /\ phase = "Running"
        /\ a \in Members(parameters)
        /\ \/ /\ ~ Members(parameters) \subseteq VotersFor(votes, policy)
              /\ foreign_chain_policy_votes' = votes
              /\ UNCHANGED foreign_chain_policy
           \/ /\ Members(parameters) \subseteq VotersFor(votes, policy)
              /\ foreign_chain_policy_votes' = <<>>
              /\ foreign_chain_policy' = policy
        /\ UNCHANGED <<vars, pending, yields>>

RequestsNext ==
    \/ Next /\ UNCHANGED requestVars
    \/ \E r \in UserRequests : sign(r)
    \/ \E a \in Accounts, r \in UserRequests, k \in PublicKeys : respond(a, r, k)
    \/ \E d \in DOMAIN yields : YieldTimesOut(d)
    \/ \E d \in DOMAIN yields : return_and_clean_state_on_success(d)
    \/ \E a \in Accounts, p \in Policies : vote_foreign_chain_policy(a, p)

RequestsSpec == RequestsInit /\ [][RequestsNext]_allVars

-----------------------------------------------------------------------------
(* Properties.                                                             *)

\* The maps do not leak: an entry names a promise of that request that can
\* still be resolved, so it goes with the promise, by a response or by the
\* callback after a time out (lib.rs respond, return_*_on_success).
PendingEntriesLive ==
    \A r \in DOMAIN pending :
        /\ yields[pending[r]].request = r
        /\ Unresolved(pending[r])

\* "Re-submitting the same request before the original request timed out or
\* has been responded to may cause both requests to fail" (contract README):
\* only then.  A waiting promise that never shared its request with another
\* unresolved one has its entry, so the nodes' response will find it, whatever
\* callbacks of earlier promises for the same request run in between.
LoneRequestAnswerable ==
    \A d \in DOMAIN yields :
        yields[d].state = "waiting" /\ ~ yields[d].overlaps =>
            yields[d].request \in DOMAIN pending /\ pending[yields[d].request] = d

\* A user is answered under the public key that the domain had when the user
\* made the request, although keys are generated, cancelled and reshared
\* between request and response (respond verifies under the current key).
AnsweredUnderRequestedKey ==
    \A d \in DOMAIN yields :
        yields[d].state = "answered" /\ yields[d].request.kind # "CKD" =>
            yields[d].response = {yields[d].key}
=============================================================================
