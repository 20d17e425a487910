------------------------------ MODULE EpochIds ------------------------------
(***************************************************************************)
(* What the ids of key events promise to the nodes.  A node names files    *)
(* after (epoch_id, domain_id, attempt_id) and starts the computation of   *)
(* an id at most once (node keyshare/temporary.rs), so the contract must   *)
(* never use an id for two attempts, nor an epoch for two sets of          *)
(* parameters (contract primitives/key_state.rs, state/running.rs).        *)
(*                                                                         *)
(* The contract does not remember past attempts: `attempts` does, next to  *)
(* the actions of Contract, which it leaves as they are.                   *)
(***************************************************************************)
EXTENDS Contract

VARIABLE attempts       \* every attempt ever started: its id and parameters

idVars == <<vars, attempts>>

InstanceId(ke) ==
    [epoch_id |-> ke.epoch_id, domain_id |-> ke.domain_id,
     attempt_id |-> ke.instance.attempt_id]

\* The step starts an attempt: a new instance without votes.
StartsAttempt ==
    /\ key_event'.instance # NoInstance
    /\ key_event'.instance # key_event.instance
    /\ key_event'.instance.completed = {}

IdInit == Init /\ attempts = {}

IdNext ==
    /\ Next
    /\ attempts' = attempts \cup
          (IF StartsAttempt
           THEN {[id |-> InstanceId(key_event'), parameters |-> key_event'.parameters]}
           ELSE {})

IdSpec == IdInit /\ [][IdNext]_idVars

\* "An EpochId uniquely identifies a ThresholdParameters" (key_state.rs): all
\* attempts of an epoch are for the same participants and threshold, also when
\* the resharing was cancelled or replaced by a re-proposal
\* (RunningContractState::prospective_epoch_id).
EpochIdentifiesParameters ==
    \A s, t \in attempts : s.id.epoch_id = t.id.epoch_id => s.parameters = t.parameters

\* A key event id is given out once: whatever is cancelled, aborted, re-proposed
\* or expires in between, no attempt starts under an id that an earlier
\* attempt had (KeyEvent::start, TemporaryKeyStorage::start_generating_keyshare).
KeyEventIdsStartOnce ==
    [][StartsAttempt => InstanceId(key_event') \notin {s.id : s \in attempts}]_idVars
=============================================================================
