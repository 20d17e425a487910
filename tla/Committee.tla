----------------------------- MODULE Committee -----------------------------
(***************************************************************************)
(* What the contract promises to everyone who relies on it, without saying *)
(* how its participants vote: a list of public keys that only grows, and a *)
(* committee that holds their shares.  A committee is replaced by a        *)
(* coherent successor only, in a new epoch and with all keys, and only one *)
(* thing happens at a time: keys are generated, or shares handed over.     *)
(*                                                                         *)
(* crates/contract/src/state.rs and state/*.rs; Contract implements it.    *)
(***************************************************************************)
EXTENDS Thresholds, Sequences

CONSTANTS PublicKeys, FirstParameters, FirstKeys

VARIABLES
    phase,          \* "Running", "Initializing" or "Resharing"
    keys,           \* the public keys, [domain_id, key], oldest first
    epoch_id,
    parameters,     \* the committee that holds the shares
    prospective     \* the one they are handed over to, else the same

committeeVars == <<phase, keys, epoch_id, parameters, prospective>>

CommitteeInit ==
    /\ phase = "Running"
    /\ keys \in FirstKeys
    /\ epoch_id = 0
    /\ parameters = FirstParameters
    /\ prospective = FirstParameters

begin_keygen ==
    /\ phase = "Running"
    /\ phase' = "Initializing"
    /\ UNCHANGED <<keys, epoch_id, parameters, prospective>>

\* A key for a domain that has none.
key_generated(new) ==
    /\ phase = "Initializing"
    /\ new \in [domain_id : Nat, key : PublicKeys]
    /\ \A i \in 1 .. Len(keys) : keys[i].domain_id # new.domain_id
    /\ keys' = Append(keys, new)
    /\ phase' \in {"Initializing", "Running"}
    /\ UNCHANGED <<epoch_id, parameters, prospective>>

keygen_cancelled ==
    /\ phase = "Initializing"
    /\ phase' = "Running"
    /\ UNCHANGED <<keys, epoch_id, parameters, prospective>>

\* A resharing begins, or another one takes its place.
begin_resharing(successor) ==
    /\ phase \in {"Running", "Resharing"}
    /\ keys # <<>>
    /\ validate_incoming_proposal(parameters, successor)
    /\ phase' = "Resharing"
    /\ prospective' = successor
    /\ UNCHANGED <<keys, epoch_id, parameters>>

resharing_cancelled ==
    /\ phase = "Resharing"
    /\ phase' = "Running"
    /\ prospective' = parameters
    /\ UNCHANGED <<keys, epoch_id, parameters>>

handed_over(epoch) ==
    /\ phase = "Resharing"
    /\ epoch > epoch_id
    /\ phase' = "Running"
    /\ epoch_id' = epoch
    /\ parameters' = prospective
    /\ UNCHANGED <<keys, prospective>>

\* Without a key there is nothing to hand over.
replaced(successor, epoch) ==
    /\ phase = "Running"
    /\ keys = <<>>
    /\ validate_incoming_proposal(parameters, successor)
    /\ epoch > epoch_id
    /\ epoch_id' = epoch
    /\ parameters' = successor
    /\ prospective' = successor
    /\ UNCHANGED <<phase, keys>>

\* Which key, successor or epoch is up to those who vote.
CommitteeNext ==
    \/ begin_keygen
    \/ keys' # <<>> /\ key_generated(keys'[Len(keys')])
    \/ keygen_cancelled
    \/ begin_resharing(prospective')
    \/ resharing_cancelled
    \/ handed_over(epoch_id')
    \/ replaced(parameters', epoch_id')

CommitteeSpec == CommitteeInit /\ [][CommitteeNext]_committeeVars
=============================================================================
