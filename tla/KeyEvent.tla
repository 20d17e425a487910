------------------------------ MODULE KeyEvent ------------------------------
(***************************************************************************)
(* The contract's record of the key event in progress: the generation or   *)
(* the resharing of the key of one domain, attempt by attempt.             *)
(*                                                                         *)
(* crates/contract/src/state/key_event.rs                                  *)
(*                                                                         *)
(* The operators are pure: `ke` is a KeyEvent, `height` the block height   *)
(* of the call.  An absent Option is an impossible value: NoInstance has   *)
(* attempt -1, an instance's public_key is {} before the first vote.       *)
(* The votes of an instance are held by account; the code holds them by    *)
(* participant id, which is the same within one set of parameters.         *)
(***************************************************************************)
EXTENDS Thresholds

CONSTANT PublicKeys        \* public keys that nodes can vote for

NoInstance == [attempt_id |-> -1, expires_on |-> 0, completed |-> {}, public_key |-> {}]

KeyEventInstances ==
    [attempt_id : Nat, expires_on : Nat,
     completed : SUBSET Accounts, public_key : SUBSET PublicKeys]
        \cup {NoInstance}

IsKeyEvent(ke) ==
    \E S \in SUBSET Accounts :
        ke \in [epoch_id : Nat, domain_id : Nat, parameters : ParametersOver(S),
                instance : KeyEventInstances, next_attempt_id : Nat]

KeyEventNew(epoch_id, domain_id, proposed_parameters) ==
    [epoch_id |-> epoch_id, domain_id |-> domain_id,
     parameters |-> proposed_parameters,
     instance |-> NoInstance, next_attempt_id |-> 0]

\* An attempt exists up to, and not including, the block it expires on.
active(instance, height) ==
    /\ instance # NoInstance
    /\ height < instance.expires_on

\* start() succeeds: no attempt is active, the id is the next one, the signer
\* is the leader.
CanStart(ke, key_event_id, signer, height) ==
    /\ ~ active(ke.instance, height)
    /\ key_event_id = [epoch_id |-> ke.epoch_id, domain_id |-> ke.domain_id,
                       attempt_id |-> ke.next_attempt_id]
    /\ signer = Leader(ke.parameters)

start(ke, height, timeout_blocks) ==
    [ke EXCEPT !.instance = [attempt_id |-> ke.next_attempt_id,
                             expires_on |-> height + 1 + timeout_blocks,
                             completed  |-> {},
                             public_key |-> {}],
               !.next_attempt_id = @ + 1]

verify_vote_AnyAttempt(ke, key_event_id, signer, height) ==
    /\ signer \in Members(ke.parameters)
    /\ active(ke.instance, height)
    /\ key_event_id.epoch_id = ke.epoch_id
    /\ key_event_id.domain_id = ke.domain_id

\* The signer may vote on the attempt that key_event_id names.
verify_vote(ke, key_event_id, signer, height) ==
    /\ signer \in Members(ke.parameters)
    /\ active(ke.instance, height)
    /\ key_event_id = [epoch_id |-> ke.epoch_id, domain_id |-> ke.domain_id,
                       attempt_id |-> ke.instance.attempt_id]

\* An earlier vote of the attempt named another key.  Checked before the
\* signer's own earlier vote is looked at.
Disagrees(ke, public_key) == ke.instance.public_key \ {public_key} # {}

\* A vote that agrees with the earlier ones is the signer's first.
CanComplete(ke, signer, public_key) ==
    /\ ~ Disagrees(ke, public_key)
    /\ signer \notin ke.instance.completed

WithVote(ke, signer, public_key) ==
    [ke EXCEPT !.instance.completed  = @ \cup {signer},
               !.instance.public_key = {public_key}]

WithoutInstance(ke) == [ke EXCEPT !.instance = NoInstance]

\* With this vote every participant of the key event has voted.
IsLastVote(ke, signer) ==
    Cardinality(ke.instance.completed \cup {signer})
        = Cardinality(Members(ke.parameters))
=============================================================================
