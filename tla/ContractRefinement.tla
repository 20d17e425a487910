------------------------ MODULE ContractRefinement ------------------------
(***************************************************************************)
(* The contract implements the promise of module Committee: how the        *)
(* abstract state is read off the state of the contract.                   *)
(*                                                                         *)
(* crates/contract/src/state.rs, primitives/key_state.rs                   *)
(***************************************************************************)
EXTENDS Contract

\* The public keys without the attempts that made them.
PublicKeyList ==
    [i \in 1 .. Len(keyset.domains) |->
        [domain_id |-> keyset.domains[i].domain_id, key |-> keyset.domains[i].key]]

InitialKeyLists ==
    {[i \in 1 .. Len(InitialDomains) |-> [domain_id |-> InitialDomains[i], key |-> ks[i]]] :
        ks \in [1 .. Len(InitialDomains) -> PublicKeys]}

prospective_parameters == IF phase = "Resharing" THEN key_event.parameters ELSE parameters

Promise == INSTANCE Committee WITH
    FirstParameters <- InitialParameters,
    FirstKeys <- InitialKeyLists,
    keys <- PublicKeyList,
    epoch_id <- keyset.epoch_id,
    prospective <- prospective_parameters

\* However votes, attempts, cancellations, verify_tee and clean-up receipts
\* interleave, what they do to keys and committee is a sequence of the steps
\* that Committee allows: keys are only added, for domains without one; the
\* committee is only replaced by a coherent successor, in a later epoch, with
\* all the keys, and only by the one the resharing was begun for.
ImplementsCommittee == Promise!CommitteeSpec
=============================================================================
