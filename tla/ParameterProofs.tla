-------------------------- MODULE ParameterProofs ---------------------------
(***************************************************************************)
(* Proofs about the parameters in force and the ones being reshared to:    *)
(* they are valid, belong together, can always be shrunk to the            *)
(* participants with a valid attestation, and name only attested accounts. *)
(***************************************************************************)
EXTENDS ContractProofs, FiniteSetTheorems

\* The inductive invariant: the parameters in force are valid, and the ones
\* being reshared to were acceptable to them.
ParameterInv ==
    /\ validate(parameters)
    /\ phase = "Resharing" => validate_incoming_proposal(parameters, key_event.parameters)

\* Sets of accounts are finite, and a subset is not larger.
LEMMA SubsetCardinality ==
  ASSUME NEW S, S \subseteq Accounts, NEW T, T \subseteq S
  PROVE  /\ Cardinality(S) \in Nat /\ Cardinality(T) \in Nat
         /\ Cardinality(T) <= Cardinality(S)
  <1>1. IsFiniteSet(S)
    BY ConstantsAssumption, FS_Subset
  <1>2. IsFiniteSet(T) /\ Cardinality(T) <= Cardinality(S)
    BY <1>1, FS_Subset
  <1>3. QED
    BY <1>1, <1>2, FS_CardinalityType

\* The threshold rule survives the loss of shares down to the threshold: the
\* 60% bound falls with the number of shares (thresholds.rs validate_threshold).
LEMMA ThresholdShrinks ==
  ASSUME NEW n \in Nat, NEW m \in Nat, NEW k \in Nat,
         validate_threshold(n, k), m <= n, k <= m
  PROVE  validate_threshold(m, k)
  BY DEF validate_threshold, MIN_THRESHOLD_ABSOLUTE

\* Valid parameters, restricted to any `threshold` or more of their members, are
\* valid and acceptable as the next ones: what verify_tee expects.
LEMMA ShrunkParametersAcceptable ==
  ASSUME NEW p, IsThresholdParameters(p), validate(p),
         NEW kept, kept \subseteq Members(p), Cardinality(kept) >= p.threshold
  PROVE  /\ validate_threshold(Cardinality(kept), p.threshold)
         /\ validate_incoming_proposal(p, RestrictTo(p, kept))
  <1> DEFINE q == RestrictTo(p, kept)
  <1>1. /\ Members(p) \subseteq Accounts /\ p.threshold \in Nat /\ p.next_id \in Nat
        /\ p.participants \in [Members(p) -> Nat]
    BY ParametersType
  <1>2. /\ Members(q) = kept /\ q.threshold = p.threshold /\ q.next_id = p.next_id
        /\ \A a \in kept : q.participants[a] = p.participants[a]
    <2>1. Members(p) \cap kept = kept
      OBVIOUS
    <2>2. QED
      BY <2>1, RestrictToType
  <1> HIDE DEF q
  <1>3. validate_threshold(Cardinality(kept), p.threshold)
    BY <1>1, SubsetCardinality, ThresholdShrinks DEF validate
  <1>4. validate_participants(q)
    BY <1>1, <1>2 DEF validate, validate_participants
  <1>5. validate(q)
    BY <1>2, <1>3, <1>4 DEF validate
  <1>6. NewMembers(p, q) = {} /\ Members(q) \cap Members(p) = kept
    BY <1>2 DEF NewMembers
  <1>7. IdsContinue(p, q)
    BY <1>2, <1>6 DEF IdsContinue
  <1>8. EnoughStay(p, q)
    BY <1>6 DEF EnoughStay
  <1>9. QED
    BY <1>3, <1>5, <1>7, <1>8 DEF validate_incoming_proposal, q

\* In an acceptable proposal, an id of the current participants and the same id
\* in the proposal belong to one account (validate_incoming_proposal).
LEMMA CommitteeIds ==
  ASSUME NEW p, IsThresholdParameters(p), validate(p),
         NEW q, IsThresholdParameters(q), validate_incoming_proposal(p, q),
         NEW a \in Members(p), NEW b \in Members(q)
  PROVE  p.participants[a] = q.participants[b] <=> a = b
  <1>1. CASE b \in Members(p)
    BY <1>1 DEF validate_incoming_proposal, IdsContinue, validate, validate_participants
  <1>2. CASE b \notin Members(p)
    <2>1. q.participants[b] \notin Ids(p)
      BY <1>2 DEF validate_incoming_proposal, IdsContinue, NewMembers
    <2>2. QED
      BY <1>2, <2>1 DEF Ids
  <1>3. QED
    BY <1>1, <1>2

-----------------------------------------------------------------------------
\* init and init_running only accept valid parameters.
LEMMA InitParameterInv == Init => ParameterInv
  BY InitialAssumption DEF Init, ParameterInv

\* A step that keeps the phase, the parameters and the proposed parameters keeps
\* the invariant.
LEMMA SameParametersKeepInv ==
  ASSUME ParameterInv, UNCHANGED <<phase, parameters>>,
         phase = "Resharing" => key_event'.parameters = key_event.parameters
  PROVE  ParameterInv'
  BY DEF ParameterInv

\* RunningContractState::new with valid parameters establishes the invariant.
LEMMA BecomeRunningParameterInv ==
  ASSUME NEW ds, NEW ks, NEW p, NEW v, validate(p), BecomeRunning(ds, ks, p, v)
  PROVE  ParameterInv'
  BY DEF BecomeRunning, ParameterInv

\* Resharing to an acceptable proposal keeps the invariant.
LEMMA BecomeResharingParameterInv ==
  ASSUME ParameterInv, NEW e, NEW p, validate_incoming_proposal(parameters, p),
         BecomeResharing(e, p)
  PROVE  ParameterInv'
  BY DEF BecomeResharing, ParameterInv, KeyEventNew

\* transition_to_resharing_no_checks keeps the invariant, given that its caller
\* has checked the proposal.
LEMMA TransitionParameterInv ==
  ASSUME ParameterInv, NEW p, validate_incoming_proposal(parameters, p),
         transition_to_resharing_no_checks(p)
  PROVE  ParameterInv'
  <1>1. validate(p)
    BY DEF validate_incoming_proposal
  <1>2. QED
    BY <1>1, BecomeRunningParameterInv, BecomeResharingParameterInv
       DEF transition_to_resharing_no_checks

\* Every step keeps the invariant, one case per action.
LEMMA NextParameterInv == KeyInv /\ ParameterInv /\ [Next]_vars => ParameterInv'
  <1> SUFFICES ASSUME KeyInv, ParameterInv, [Next]_vars PROVE ParameterInv'
    OBVIOUS
  <1>0. /\ phase = "Initializing" => key_event.parameters = parameters
        /\ phase # "Running" => IsKeyEvent(key_event)
    BY KeyEventInProgress DEF KeyInv, KeysetMatchesDomains
  <1>1. ASSUME NEW a \in Accounts, NEW e \in 0 .. MaxEpoch, NEW p \in Proposals,
               vote_new_parameters(a, e, p)
        PROVE  ParameterInv'
    BY <1>1, TransitionParameterInv, BecomeResharingParameterInv, SameParametersKeepInv
       DEF vote_new_parameters, MayVoteForParameters
  <1>2. ASSUME NEW a \in Accounts, NEW ds \in DomainProposals, vote_add_domains(a, ds)
        PROVE  ParameterInv'
    BY <1>2 DEF vote_add_domains, ParameterInv
  <1>3. ASSUME NEW a \in Accounts, NEW id \in CallableIds,
               start_keygen_instance(a, id) \/ start_reshare_instance(a, id)
        PROVE  ParameterInv'
    <2>1. start(key_event, height, key_event_timeout_blocks).parameters = key_event.parameters
      BY <1>0, <1>3 DEF start, start_keygen_instance, start_reshare_instance, IsKeyEvent
    <2>2. QED
      BY <1>3, <2>1, SameParametersKeepInv DEF start_keygen_instance, start_reshare_instance
  <1>4. ASSUME NEW a \in Accounts, NEW id \in CallableIds, NEW pk \in PublicKeys,
               vote_pk(a, id, pk)
        PROVE  ParameterInv'
    <2>1. phase = "Initializing" /\ validate(key_event.parameters)
      BY <1>0, <1>4 DEF vote_pk, ParameterInv
    <2>2. CASE UNCHANGED <<phase, parameters>>
      BY <2>1, <2>2, SameParametersKeepInv
    <2>3. QED
      BY <1>4, <2>1, <2>2, BecomeRunningParameterInv DEF vote_pk
  <1>5. ASSUME NEW a \in Accounts, NEW id \in CallableIds, vote_reshared(a, id)
        PROVE  ParameterInv'
    <2>1. /\ phase = "Resharing" /\ validate(key_event.parameters)
          /\ WithVote(key_event, a, previous_key).parameters = key_event.parameters
      BY <1>0, <1>5
         DEF vote_reshared, ParameterInv, validate_incoming_proposal, WithVote, IsKeyEvent
    <2>2. CASE UNCHANGED <<phase, parameters>> /\ key_event'.parameters = key_event.parameters
      BY <2>2, SameParametersKeepInv
    <2>3. QED
      BY <1>5, <2>1, <2>2, BecomeRunningParameterInv DEF vote_reshared, KeyEventNew
  <1>6. ASSUME NEW a \in Accounts, NEW id \in CallableIds,
               vote_abort_key_event_instance(a, id)
        PROVE  ParameterInv'
    <2>1. WithoutInstance(key_event).parameters = key_event.parameters
      BY <1>0, <1>6 DEF WithoutInstance, vote_abort_key_event_instance, IsKeyEvent
    <2>2. QED
      BY <1>6, <2>1, SameParametersKeepInv DEF vote_abort_key_event_instance
  <1>7. ASSUME NEW a \in Accounts, vote_cancel_resharing(a)
        PROVE  ParameterInv'
    BY <1>7 DEF vote_cancel_resharing, ParameterInv
  <1>8. ASSUME NEW a \in Accounts, NEW id \in 0 .. next_domain_id, vote_cancel_keygen(a, id)
        PROVE  ParameterInv'
    <2>1. phase = "Initializing" /\ validate(key_event.parameters)
      BY <1>0, <1>8 DEF vote_cancel_keygen, ParameterInv
    <2>2. CASE UNCHANGED <<phase, parameters>>
      BY <2>1, <2>2, SameParametersKeepInv
    <2>3. QED
      BY <1>8, <2>1, <2>2, BecomeRunningParameterInv DEF vote_cancel_keygen
  <1>9. ASSUME NEW a \in Accounts, verify_tee(a)
        PROVE  ParameterInv'
    BY <1>9, TransitionParameterInv, SameParametersKeepInv DEF verify_tee, protocolVars
  <1>10. CASE UNCHANGED protocolVars
    BY <1>10, SameParametersKeepInv DEF protocolVars
  <1>11. QED
    BY <1>1, <1>2, <1>3, <1>4, <1>5, <1>6, <1>7, <1>8, <1>9, <1>10
       DEF Next, OperatorNext, NodeNext, vars, submit_participant_info,
           ReverificationChanges, clean_tee_status, NextBlock

\* The inductive invariant holds throughout.
LEMMA ParametersAlwaysSound == Spec => [](KeyInv /\ ParameterInv)
  <1>1. Init => KeyInv /\ TeeTypeOK /\ ParameterInv
    BY InitKeyInv, InitParameterInv
  <1>2. KeyInv /\ TeeTypeOK /\ ParameterInv /\ [Next]_vars
           => (KeyInv /\ TeeTypeOK /\ ParameterInv)'
    BY NextKeyInv, NextTeeType, NextParameterInv DEF KeyInv, TypeOK
  <1>3. QED
    BY <1>1, <1>2, PTL DEF Spec

\* The parameters are always valid, and verify_tee never reaches its `expect` nor
\* fails its own check, whatever attestations are valid (lib.rs verify_tee).
THEOREM VerifyTeeTheorem == Spec => [](ParametersValid /\ VerifyTeeResolves)
  <1>1. KeyInv /\ ParameterInv => ParametersValid /\ VerifyTeeResolves
    <2> SUFFICES ASSUME KeyInv, ParameterInv PROVE ParametersValid /\ VerifyTeeResolves
      OBVIOUS
    <2>1. ParametersValid
      BY DEF ParameterInv, ParametersValid, validate_incoming_proposal
    <2>2. VerifyTeeResolves
      BY ShrunkParametersAcceptable DEF VerifyTeeResolves, ParameterInv, KeyInv, ProtocolTypeOK
    <2>3. QED
      BY <2>1, <2>2
  <1>2. QED
    BY <1>1, ParametersAlwaysSound, PTL

\* The parameters in force and the ones being reshared to are always valid
\* (thresholds.rs validate).
THEOREM ParametersTheorem == Spec => []ParametersValid
  BY VerifyTeeTheorem, PTL

\* Throughout a resharing, also one that a re-proposal replaced, an id means one
\* account to old and new participants, and `threshold` of the old ones take
\* part (thresholds.rs validate_incoming_proposal).
THEOREM CommitteeTheorem == Spec => []ResharingCommitteeSound
  <1>1. KeyInv /\ ParameterInv => ResharingCommitteeSound
    <2> SUFFICES ASSUME KeyInv, ParameterInv, phase = "Resharing"
                 PROVE  ResharingCommitteeSound
      BY DEF ResharingCommitteeSound
    <2> DEFINE q == key_event.parameters
    <2>1. /\ IsThresholdParameters(parameters) /\ IsThresholdParameters(q)
          /\ validate(parameters) /\ validate_incoming_proposal(parameters, q)
      BY KeyEventInProgress, KeyEventType DEF KeyInv, ProtocolTypeOK, ParameterInv
    <2> HIDE DEF q
    <2>2. \A a \in Members(parameters), b \in Members(q) :
             parameters.participants[a] = q.participants[b] <=> a = b
      BY <2>1, CommitteeIds
    <2>3. Cardinality(Members(parameters) \cap Members(q)) >= parameters.threshold
      <3>1. Members(parameters) \cap Members(q) = Members(q) \cap Members(parameters)
        OBVIOUS
      <3>2. QED
        BY <2>1, <3>1 DEF validate_incoming_proposal, EnoughStay
    <2>4. QED
      BY <2>2, <2>3 DEF ResharingCommitteeSound, Members, q
  <1>2. QED
    BY <1>1, ParametersAlwaysSound, PTL

-----------------------------------------------------------------------------
\* Attestations stay where participants stay and no participant's is removed.
LEMMA SameParticipantsStayAttested ==
  ASSUME ActiveParticipantsAttested,
         active_participants' \cup Members(parameters)'
             \subseteq active_participants \cup Members(parameters),
         \A a \in active_participants \cup Members(parameters) :
             stored_attestations[a] # NoAttestation => stored_attestations'[a] # NoAttestation
  PROVE  ActiveParticipantsAttested'
  BY DEF ActiveParticipantsAttested

\* Participants that are attested when they are chosen are so as the new ones.
LEMMA ChosenParticipantsAttested ==
  ASSUME ActiveParticipantsAttested, NEW p, UNCHANGED stored_attestations,
         \A a \in Members(p) : stored_attestations[a] # NoAttestation,
         \/ \E ds, ks, v : BecomeRunning(ds, ks, p, v)
         \/ \E e : BecomeResharing(e, p)
         \/ transition_to_resharing_no_checks(p)
  PROVE  ActiveParticipantsAttested'
  <1>1. CASE \E ds, ks, v : BecomeRunning(ds, ks, p, v)
    BY <1>1 DEF BecomeRunning, ActiveParticipantsAttested, active_participants
  <1>2. CASE \E e : BecomeResharing(e, p)
    BY <1>2 DEF BecomeResharing, KeyEventNew, ActiveParticipantsAttested, active_participants
  <1>3. QED
    BY <1>1, <1>2 DEF transition_to_resharing_no_checks

\* Every step keeps participants attested, one case per action.
LEMMA NextAttested ==
  KeyInv /\ TeeTypeOK /\ ActiveParticipantsAttested /\ [Next]_vars => ActiveParticipantsAttested'
  <1> SUFFICES ASSUME KeyInv, TeeTypeOK, ActiveParticipantsAttested, [Next]_vars
               PROVE  ActiveParticipantsAttested'
    OBVIOUS
  <1>0. phase # "Running" =>
          /\ IsKeyEvent(key_event)
          /\ \A a \in Members(key_event.parameters) : stored_attestations[a] # NoAttestation
    BY KeyEventInProgress DEF ActiveParticipantsAttested, active_participants
  <1>s. ASSUME UNCHANGED <<phase, parameters, stored_attestations>>,
               phase # "Running" => key_event'.parameters = key_event.parameters
        PROVE  ActiveParticipantsAttested'
    BY <1>s DEF ActiveParticipantsAttested, active_participants
  <1>1. ASSUME NEW a \in Accounts, NEW e \in 0 .. MaxEpoch, NEW p \in Proposals,
               vote_new_parameters(a, e, p)
        PROVE  ActiveParticipantsAttested'
    <2>1. /\ \A b \in Members(p) : stored_attestations[b] # NoAttestation
          /\ UNCHANGED stored_attestations
      BY <1>1, AttestationStatus DEF vote_new_parameters, ValidAttestation, teeVars
    <2>2. QED
      BY <1>1, <1>s, <2>1, ChosenParticipantsAttested DEF vote_new_parameters
  <1>2. ASSUME NEW a \in Accounts, NEW ds \in DomainProposals, vote_add_domains(a, ds)
        PROVE  ActiveParticipantsAttested'
    BY <1>2 DEF vote_add_domains, KeyEventNew, teeVars, ActiveParticipantsAttested,
                active_participants
  <1>3. ASSUME NEW a \in Accounts, NEW id \in CallableIds,
               start_keygen_instance(a, id) \/ start_reshare_instance(a, id)
        PROVE  ActiveParticipantsAttested'
    <2>1. start(key_event, height, key_event_timeout_blocks).parameters = key_event.parameters
      BY <1>0, <1>3 DEF start, start_keygen_instance, start_reshare_instance, IsKeyEvent
    <2>2. QED
      BY <1>3, <1>s, <2>1 DEF start_keygen_instance, start_reshare_instance, teeVars
  <1>4. ASSUME NEW a \in Accounts, NEW id \in CallableIds, NEW pk \in PublicKeys,
               vote_pk(a, id, pk)
        PROVE  ActiveParticipantsAttested'
    <2>1. /\ phase = "Initializing" /\ UNCHANGED stored_attestations
          /\ WithVote(key_event, a, pk).parameters = key_event.parameters
          /\ WithoutInstance(key_event).parameters = key_event.parameters
      BY <1>0, <1>4 DEF vote_pk, teeVars, WithVote, WithoutInstance, IsKeyEvent
    <2>2. QED
      BY <1>0, <1>4, <1>s, <2>1, ChosenParticipantsAttested DEF vote_pk, KeyEventNew
  <1>5. ASSUME NEW a \in Accounts, NEW id \in CallableIds, vote_reshared(a, id)
        PROVE  ActiveParticipantsAttested'
    <2>1. /\ phase = "Resharing" /\ UNCHANGED stored_attestations
          /\ WithVote(key_event, a, previous_key).parameters = key_event.parameters
      BY <1>0, <1>5 DEF vote_reshared, WithVote, IsKeyEvent
    <2>2. \/ UNCHANGED <<phase, parameters>> /\ key_event'.parameters = key_event.parameters
          \/ \E ks : BecomeRunning(domains, ks, key_event.parameters, add_domains_votes)
      BY <1>5, <2>1 DEF vote_reshared, KeyEventNew
    <2>3. QED
      BY <1>0, <1>s, <2>1, <2>2, ChosenParticipantsAttested
  <1>6. ASSUME NEW a \in Accounts, NEW id \in CallableIds,
               vote_abort_key_event_instance(a, id)
        PROVE  ActiveParticipantsAttested'
    <2>1. WithoutInstance(key_event).parameters = key_event.parameters
      BY <1>0, <1>6 DEF WithoutInstance, vote_abort_key_event_instance, IsKeyEvent
    <2>2. QED
      BY <1>6, <1>s, <2>1 DEF vote_abort_key_event_instance, teeVars
  <1>7. ASSUME NEW a \in Accounts, vote_cancel_resharing(a)
        PROVE  ActiveParticipantsAttested'
    BY <1>7 DEF vote_cancel_resharing, teeVars, ActiveParticipantsAttested, active_participants
  <1>8. ASSUME NEW a \in Accounts, NEW id \in 0 .. next_domain_id, vote_cancel_keygen(a, id)
        PROVE  ActiveParticipantsAttested'
    BY <1>0, <1>8, <1>s, ChosenParticipantsAttested DEF vote_cancel_keygen, teeVars
  <1>9. ASSUME NEW a \in Accounts, verify_tee(a)
        PROVE  ActiveParticipantsAttested'
    <2> DEFINE p == RestrictTo(parameters, Members(parameters) \cap ValidAttestation)
    <2>1. \A b \in Members(p) : stored_attestations[b] # NoAttestation
      <3>1. Members(p) \subseteq ValidAttestation
        BY RestrictToType DEF KeyInv, ProtocolTypeOK
      <3>2. QED
        BY <3>1, AttestationStatus DEF ValidAttestation
    <2> HIDE DEF p
    <2>2. \/ UNCHANGED <<phase, parameters, stored_attestations, key_event>>
          \/ UNCHANGED stored_attestations /\ transition_to_resharing_no_checks(p)
      BY <1>9 DEF verify_tee, protocolVars, p
    <2>3. QED
      BY <1>s, <2>1, <2>2, ChosenParticipantsAttested
  <1>10. ASSUME NEW a \in Accounts,
                (\E k \in Accounts : submit_participant_info(a, k)) \/ ReverificationChanges(a)
         PROVE  ActiveParticipantsAttested'
    <2>1. \A b \in Accounts : stored_attestations[b] # NoAttestation => stored_attestations'[b] # NoAttestation
      BY <1>10, EntriesStay
    <2>2. Members(parameters) \cup active_participants \subseteq Accounts
      BY <1>0, ParametersType, KeyEventType
         DEF KeyInv, ProtocolTypeOK, active_participants
    <2>3. active_participants' = active_participants /\ Members(parameters)' = Members(parameters)
      BY <1>10 DEF submit_participant_info, ReverificationChanges, protocolVars,
                   active_participants
    <2>4. QED
      BY <2>1, <2>2, <2>3, SameParticipantsStayAttested
  <1>11. CASE clean_tee_status
    <2>1. active_participants' = active_participants /\ Members(parameters)' = Members(parameters)
      BY <1>11 DEF clean_tee_status, protocolVars, active_participants
    <2>2. Members(parameters) \cup active_participants \subseteq Accounts
      BY <1>0, ParametersType, KeyEventType
         DEF KeyInv, ProtocolTypeOK, active_participants
    <2>3. (Members(parameters) \cup active_participants) \cap NonParticipants = {}
      BY DEF NonParticipants, active_participants
    <2>4. \A b \in active_participants \cup Members(parameters) :
             stored_attestations'[b] = stored_attestations[b]
      BY <1>11, <2>2, <2>3 DEF clean_tee_status
    <2>5. QED
      BY <2>1, <2>4, SameParticipantsStayAttested
  <1>12. CASE UNCHANGED <<protocolVars, stored_attestations>>
    BY <1>12, <1>s DEF protocolVars
  <1>13. \A s \in Submissions : s[1] \in Accounts /\ s[2] \in Accounts
    BY ConstantsAssumption
  <1>14. QED
    BY <1>1, <1>2, <1>3, <1>4, <1>5, <1>6, <1>7, <1>8, <1>9, <1>10, <1>11, <1>12, <1>13
       DEF Next, OperatorNext, NodeNext, vars, NextBlock, teeVars

\* No participant, current or prospective, is ever without an attestation under
\* its TLS key, whoever submits what under it and whenever the clean-up after a
\* resharing runs (lib.rs clean_tee_status, tee_state.rs add_participant).
THEOREM AttestedTheorem == Spec => []ActiveParticipantsAttested
  <1>1. Init => KeyInv /\ TeeTypeOK /\ ActiveParticipantsAttested
    <2>1. Init => ActiveParticipantsAttested
      BY InitialAssumption, ParametersType
         DEF Init, ActiveParticipantsAttested, active_participants, NoAttestation
    <2>2. QED
      BY <2>1, InitKeyInv
  <1>2. KeyInv /\ TeeTypeOK /\ ActiveParticipantsAttested /\ [Next]_vars
           => (KeyInv /\ TeeTypeOK /\ ActiveParticipantsAttested)'
    BY NextKeyInv, NextTeeType, NextAttested DEF KeyInv, TypeOK
  <1>3. QED
    BY <1>1, <1>2, PTL DEF Spec

-----------------------------------------------------------------------------
(* Votes and those who cast them.                                          *)

\* The inductive invariant: whoever votes for parameters is named in them, and
\* votes for domains are held under ids in use.
VoterInv ==
    /\ \A v \in DOMAIN parameters_votes : v \in Members(parameters_votes[v])
    /\ DOMAIN add_domains_votes \subseteq Ids(parameters)

\* How a step may change the votes for parameters.
ParameterVotesStep ==
    \/ parameters_votes' = parameters_votes
    \/ parameters_votes' = NoVotes
    \/ \E a \in Accounts, p \in Proposals :
          a \in Members(p) /\ parameters_votes' = WithVoteOf(parameters_votes, a, p)

\* How a step may change the votes for domains, and the participants with them:
\* a vote of a participant, or a change that drops the votes of unknown ids.
DomainVotesStep ==
    \/ UNCHANGED <<parameters, add_domains_votes>>
    \/ /\ UNCHANGED parameters
       /\ \E a \in Members(parameters), ds \in DomainProposals :
             add_domains_votes' = WithVoteOf(add_domains_votes, parameters.participants[a], ds)
    \/ /\ DOMAIN add_domains_votes' \subseteq DOMAIN add_domains_votes \cap Ids(parameters')
       /\ \/ UNCHANGED parameters
          \/ IsThresholdParameters(parameters') /\ validate_incoming_proposal(parameters, parameters')

\* RunningContractState::new keeps votes of ids in use only.
LEMMA BecomeRunningVotes ==
  ASSUME NEW ds, NEW ks, NEW p, NEW v, BecomeRunning(ds, ks, p, v),
         DOMAIN v \subseteq DOMAIN add_domains_votes,
         p = parameters \/ (IsThresholdParameters(p) /\ validate_incoming_proposal(parameters, p))
  PROVE  ParameterVotesStep /\ DomainVotesStep
  <1>1. /\ parameters_votes' = NoVotes /\ parameters' = p
        /\ DOMAIN add_domains_votes' = DOMAIN v \cap Ids(p)
    BY DEF BecomeRunning, get_remaining_votes
  <1>2. QED
    BY <1>1 DEF ParameterVotesStep, DomainVotesStep

\* So does the start of a resharing.
LEMMA BecomeResharingVotes ==
  ASSUME NEW e, NEW p, BecomeResharing(e, p)
  PROVE  ParameterVotesStep /\ DomainVotesStep
  <1>1. /\ parameters_votes' = NoVotes /\ UNCHANGED parameters
        /\ DOMAIN add_domains_votes' = DOMAIN add_domains_votes \cap Ids(parameters)
    BY DEF BecomeResharing, get_remaining_votes
  <1>2. QED
    BY <1>1 DEF ParameterVotesStep, DomainVotesStep

\* And transition_to_resharing_no_checks, which does one or the other.
LEMMA TransitionVotes ==
  ASSUME NEW p, transition_to_resharing_no_checks(p),
         IsThresholdParameters(p), validate_incoming_proposal(parameters, p)
  PROVE  ParameterVotesStep /\ DomainVotesStep
  BY BecomeRunningVotes, BecomeResharingVotes DEF transition_to_resharing_no_checks

\* Every action changes the votes in one of these ways.
LEMMA NextVotesStep ==
  KeyInv /\ ParameterInv /\ [Next]_vars => ParameterVotesStep /\ DomainVotesStep
  <1> DEFINE Steps == ParameterVotesStep /\ DomainVotesStep
  <1> SUFFICES ASSUME KeyInv, ParameterInv, [Next]_vars PROVE Steps
    OBVIOUS
  <1>0. /\ phase = "Initializing" => key_event.parameters = parameters
        /\ phase = "Resharing" => /\ IsThresholdParameters(key_event.parameters)
                                  /\ validate_incoming_proposal(parameters, key_event.parameters)
    BY KeyEventInProgress, KeyEventType DEF KeyInv, KeysetMatchesDomains, ParameterInv
  <1>s. ASSUME UNCHANGED <<parameters, parameters_votes, add_domains_votes>> PROVE Steps
    BY <1>s DEF ParameterVotesStep, DomainVotesStep
  <1>n. DOMAIN NoVotes \subseteq DOMAIN add_domains_votes
    BY NoVotesType
  <1>1. ASSUME NEW a \in Accounts, NEW e \in 0 .. MaxEpoch, NEW p \in Proposals,
               vote_new_parameters(a, e, p)
        PROVE  Steps
    <2>1. /\ validate_incoming_proposal(parameters, p) /\ a \in Members(p)
          /\ IsThresholdParameters(p)
      BY <1>1, ConstantsAssumption DEF vote_new_parameters, MayVoteForParameters
    <2>2. CASE /\ parameters_votes' = WithVoteOf(parameters_votes, a, p)
               /\ UNCHANGED <<parameters, add_domains_votes>>
      BY <2>1, <2>2 DEF ParameterVotesStep, DomainVotesStep
    <2>3. CASE transition_to_resharing_no_checks(p)
      BY <2>1, <2>3, TransitionVotes
    <2>4. CASE BecomeResharing(e, p)
      BY <2>4, BecomeResharingVotes
    <2>5. QED
      BY <1>1, <2>2, <2>3, <2>4 DEF vote_new_parameters
  <1>2. ASSUME NEW a \in Accounts, NEW ds \in DomainProposals, vote_add_domains(a, ds)
        PROVE  Steps
    <2>1. a \in Members(parameters) /\ UNCHANGED parameters
      BY <1>2 DEF vote_add_domains
    <2>2. CASE /\ add_domains_votes' = WithVoteOf(add_domains_votes, parameters.participants[a], ds)
               /\ UNCHANGED parameters_votes
      BY <2>1, <2>2 DEF ParameterVotesStep, DomainVotesStep
    <2>3. CASE add_domains_votes' = NoVotes /\ parameters_votes' = NoVotes
      BY <2>1, <2>3, NoVotesType DEF ParameterVotesStep, DomainVotesStep
    <2>4. QED
      BY <1>2, <2>2, <2>3 DEF vote_add_domains
  <1>3. ASSUME NEW a \in Accounts, NEW id \in CallableIds,
               \/ start_keygen_instance(a, id) \/ start_reshare_instance(a, id)
               \/ vote_abort_key_event_instance(a, id)
        PROVE  Steps
    BY <1>3, <1>s DEF start_keygen_instance, start_reshare_instance, vote_abort_key_event_instance
  <1>4. ASSUME NEW a \in Accounts, NEW id \in CallableIds, NEW pk \in PublicKeys,
               vote_pk(a, id, pk)
        PROVE  Steps
    <2>1. key_event.parameters = parameters
      BY <1>0, <1>4 DEF vote_pk
    <2>2. \/ UNCHANGED <<parameters, parameters_votes, add_domains_votes>>
          \/ \E ks : BecomeRunning(domains, ks, parameters, NoVotes)
      BY <1>4, <2>1 DEF vote_pk
    <2>3. ASSUME NEW ks, BecomeRunning(domains, ks, parameters, NoVotes) PROVE Steps
      BY <1>n, <2>3, BecomeRunningVotes
    <2>4. QED
      BY <1>s, <2>2, <2>3
  <1>5. ASSUME NEW a \in Accounts, NEW id \in CallableIds, vote_reshared(a, id)
        PROVE  Steps
    <2>1. /\ IsThresholdParameters(key_event.parameters)
          /\ validate_incoming_proposal(parameters, key_event.parameters)
      BY <1>0, <1>5 DEF vote_reshared
    <2>2. \/ UNCHANGED <<parameters, parameters_votes, add_domains_votes>>
          \/ \E ks : BecomeRunning(domains, ks, key_event.parameters, add_domains_votes)
      BY <1>5 DEF vote_reshared
    <2>3. QED
      BY <1>s, <2>1, <2>2, BecomeRunningVotes
  <1>7. ASSUME NEW a \in Accounts, vote_cancel_resharing(a)
        PROVE  Steps
    BY <1>7, <1>s DEF vote_cancel_resharing
  <1>8. ASSUME NEW a \in Accounts, NEW id \in 0 .. next_domain_id, vote_cancel_keygen(a, id)
        PROVE  Steps
    <2>1. key_event.parameters = parameters
      BY <1>0, <1>8 DEF vote_cancel_keygen
    <2>2. \/ UNCHANGED <<parameters, parameters_votes, add_domains_votes>>
          \/ \E ds : BecomeRunning(ds, keyset, parameters, NoVotes)
      BY <1>8, <2>1 DEF vote_cancel_keygen
    <2>3. ASSUME NEW ds, BecomeRunning(ds, keyset, parameters, NoVotes) PROVE Steps
      BY <1>n, <2>3, BecomeRunningVotes
    <2>4. QED
      BY <1>s, <2>2, <2>3
  <1>9. ASSUME NEW a \in Accounts, verify_tee(a)
        PROVE  Steps
    <2> DEFINE p == RestrictTo(parameters, Members(parameters) \cap ValidAttestation)
    <2>1. IsThresholdParameters(p)
      BY RestrictToType DEF KeyInv, ProtocolTypeOK
    <2>2. \/ UNCHANGED <<parameters, parameters_votes, add_domains_votes>>
          \/ validate_incoming_proposal(parameters, p) /\ transition_to_resharing_no_checks(p)
      BY <1>9 DEF verify_tee, protocolVars
    <2> HIDE DEF p
    <2>3. QED
      BY <1>s, <2>1, <2>2, TransitionVotes
  <1>10. CASE UNCHANGED protocolVars
    BY <1>10, <1>s DEF protocolVars
  <1>11. QED
    BY <1>1, <1>2, <1>3, <1>4, <1>5, <1>7, <1>8, <1>9, <1>10
       DEF Next, OperatorNext, NodeNext, vars, submit_participant_info,
           ReverificationChanges, clean_tee_status, NextBlock

\* Such a step keeps the invariant: guards name the voter in the proposal and
\* in the parameters.
LEMMA NextVoterInv ==
  KeyInv /\ ParameterInv /\ VoterInv /\ [Next]_vars => VoterInv'
  <1> SUFFICES ASSUME KeyInv, ParameterInv, VoterInv, [Next]_vars PROVE VoterInv'
    OBVIOUS
  <1>0. ParameterVotesStep /\ DomainVotesStep
    BY NextVotesStep
  <1>1. \A v \in DOMAIN parameters_votes' : v \in Members(parameters_votes'[v])
    <2>1. CASE parameters_votes' = parameters_votes
      BY <2>1 DEF VoterInv
    <2>2. CASE parameters_votes' = NoVotes
      BY <2>2, NoVotesType
    <2>3. CASE \E a \in Accounts, p \in Proposals :
                  a \in Members(p) /\ parameters_votes' = WithVoteOf(parameters_votes, a, p)
      <3>1. PICK a \in Accounts, p \in Proposals :
               a \in Members(p) /\ parameters_votes' = WithVoteOf(parameters_votes, a, p)
        BY <2>3
      <3>2. \A v \in DOMAIN WithVoteOf(parameters_votes, a, p) :
               v \in Members(WithVoteOf(parameters_votes, a, p)[v])
        BY <3>1 DEF WithVoteOf, VoterInv
      <3>3. QED
        BY <3>1, <3>2
    <2>4. QED
      BY <1>0, <2>1, <2>2, <2>3 DEF ParameterVotesStep
  <1>2. DOMAIN add_domains_votes' \subseteq Ids(parameters')
    <2>1. ASSUME UNCHANGED parameters,
                 NEW a \in Members(parameters), NEW ds \in DomainProposals,
                 add_domains_votes' = WithVoteOf(add_domains_votes, parameters.participants[a], ds)
          PROVE  DOMAIN add_domains_votes' \subseteq Ids(parameters')
      <3>1. DOMAIN add_domains_votes' = DOMAIN add_domains_votes \cup {parameters.participants[a]}
        BY <2>1 DEF WithVoteOf
      <3>2. parameters.participants[a] \in Ids(parameters)
        BY DEF Ids
      <3>3. QED
        BY <2>1, <3>1, <3>2 DEF VoterInv
    <2>2. QED
      BY <1>0, <2>1 DEF DomainVotesStep, VoterInv
  <1>3. QED
    BY <1>1, <1>2 DEF VoterInv

\* The inductive invariant holds throughout.
LEMMA VotersAlwaysNamed == Spec => [](KeyInv /\ ParameterInv /\ VoterInv)
  <1>1. Init => VoterInv
    BY NoVotesType DEF Init, VoterInv
  <1>2. QED
    BY <1>1, NextVoterInv, ParametersAlwaysSound, PTL DEF Spec

\* A vote to add domains survives a step only together with its voter: ids of
\* those who leave are not counted for those who come, whichever way the
\* parameters change (AddDomainsVotes::get_remaining_votes).
THEOREM DomainVotesTheorem == Spec => DomainVotesFollowTheirVoter
  <1>1. KeyInv /\ ParameterInv /\ VoterInv /\ [Next]_vars => KeepsVoters
    <2> SUFFICES ASSUME KeyInv, ParameterInv, VoterInv, [Next]_vars,
                        NEW id \in DOMAIN add_domains_votes \cap DOMAIN add_domains_votes'
                 PROVE  \E a \in Members(parameters) \cap Members(parameters') :
                           parameters.participants[a] = id /\ parameters'.participants[a] = id
      BY DEF KeepsVoters
    <2>1. PICK a \in Members(parameters) : parameters.participants[a] = id
      BY DEF VoterInv, Ids
    <2>2. CASE UNCHANGED parameters
      BY <2>1, <2>2
    <2>3. CASE /\ DOMAIN add_domains_votes' \subseteq Ids(parameters')
               /\ IsThresholdParameters(parameters')
               /\ validate_incoming_proposal(parameters, parameters')
      <3>1. PICK b \in Members(parameters') : parameters'.participants[b] = id
        BY <2>3 DEF Ids
      <3>2. IsThresholdParameters(parameters) /\ validate(parameters)
        BY DEF KeyInv, ProtocolTypeOK, ParameterInv
      <3>3. a = b
        BY <2>1, <2>3, <3>1, <3>2, CommitteeIds
      <3>4. QED
        BY <2>1, <3>1, <3>3
    <2>4. QED
      BY <2>2, <2>3, NextVotesStep DEF DomainVotesStep
  <1>2. QED
    BY <1>1, VotersAlwaysNamed, PTL DEF Spec, DomainVotesFollowTheirVoter

\* A proposal is accepted when all it names have voted: the votes are as many
\* as its members and all come from them, so before the last vote at most its
\* author was missing (process_new_parameters_proposal).
LEMMA AcceptedByAll ==
  ASSUME KeyInv, VoterInv, NEW a \in Accounts, NEW p \in Proposals, a \in Members(p),
         Accepted(WithVoteOf(parameters_votes, a, p), p)
  PROVE  Cardinality(Members(p) \ VotersFor(parameters_votes, p)) <= 1
  <1> DEFINE votes == WithVoteOf(parameters_votes, a, p)
             voters == VotersFor(votes, p)
  <1>1. /\ DOMAIN votes = DOMAIN parameters_votes \cup {a}
        /\ \A v \in DOMAIN votes : votes[v] = IF v = a THEN p ELSE parameters_votes[v]
    BY DEF WithVoteOf
  <1>2. Cardinality(voters) = Cardinality(Members(p))
    BY DEF Accepted
  <1> HIDE DEF votes
  <1>3. voters \subseteq Members(p) /\ voters \subseteq VotersFor(parameters_votes, p) \cup {a}
    BY <1>1 DEF VotersFor, VoterInv
  <1>4. IsFiniteSet(Members(p))
    <2>1. Members(p) \subseteq Accounts
      BY ConstantsAssumption, ParametersType
    <2>2. QED
      BY <2>1, ConstantsAssumption, FS_Subset
  <1> HIDE DEF voters
  <1>5. voters = Members(p)
    BY <1>2, <1>3, <1>4, FS_Subset
  <1>6. Members(p) \ VotersFor(parameters_votes, p) \subseteq {a}
    BY <1>3, <1>5
  <1>7. IsFiniteSet({a}) /\ Cardinality({a}) = 1
    BY FS_Singleton
  <1>8. QED
    BY <1>6, <1>7, FS_Subset

\* Shares are handed over only to participants who all agreed to it, or to what
\* verify_tee leaves of the current ones (running.rs, resharing.rs, lib.rs).
THEOREM ConsentTheorem == Spec => ResharingConsented
  <1>1. KeyInv /\ ParameterInv /\ VoterInv /\ [Next]_vars => HasConsent
    <2> SUFFICES ASSUME KeyInv, ParameterInv, VoterInv, [Next]_vars,
                        phase' = "Resharing", key_event'.parameters # key_event.parameters
                 PROVE  HasConsent
      BY DEF HasConsent
    <2> DEFINE q == key_event'.parameters
    <2>0. phase # "Running" => IsKeyEvent(key_event)
      BY KeyEventInProgress
    <2>1. ASSUME NEW a \in Accounts, NEW e \in 0 .. MaxEpoch, NEW p \in Proposals,
                 vote_new_parameters(a, e, p)
          PROVE  HasConsent
      <3>1. /\ validate_incoming_proposal(parameters, p) /\ a \in Members(p)
            /\ Accepted(WithVoteOf(parameters_votes, a, p), p)
            /\ \E x : BecomeResharing(x, p)
        BY <2>1 DEF vote_new_parameters, MayVoteForParameters, transition_to_resharing_no_checks,
                    BecomeRunning
      <3>2. key_event'.parameters = p
        BY <3>1 DEF BecomeResharing, KeyEventNew
      <3>3. Cardinality(Members(p) \ VotersFor(parameters_votes, p)) <= 1
        BY <3>1, AcceptedByAll
      <3>4. Cardinality(Members(p) \cap Members(parameters)) >= parameters.threshold
        BY <3>1 DEF validate_incoming_proposal, EnoughStay
      <3>5. QED
        BY <3>2, <3>3, <3>4 DEF HasConsent
    <2>2. ASSUME NEW a \in Accounts, verify_tee(a) PROVE HasConsent
      <3> DEFINE kept == Members(parameters) \cap ValidAttestation
      <3>1. transition_to_resharing_no_checks(RestrictTo(parameters, kept))
        BY <2>2 DEF verify_tee, protocolVars
      <3>2. RestrictTo(parameters, kept) = RestrictTo(parameters, ValidAttestation)
        <4>1. Members(parameters) \cap kept = Members(parameters) \cap ValidAttestation
          OBVIOUS
        <4> HIDE DEF kept
        <4>2. QED
          BY <4>1 DEF RestrictTo
      <3> HIDE DEF kept
      <3>3. key_event'.parameters = RestrictTo(parameters, kept)
        BY <3>1 DEF transition_to_resharing_no_checks, BecomeRunning, BecomeResharing, KeyEventNew
      <3>4. QED
        BY <3>2, <3>3 DEF HasConsent
    <2>3. ASSUME NEW a \in Accounts, NEW id \in CallableIds,
                 start_keygen_instance(a, id) \/ start_reshare_instance(a, id)
          PROVE  FALSE
      <3>1. start(key_event, height, key_event_timeout_blocks).parameters = key_event.parameters
        BY <2>0, <2>3 DEF start, start_keygen_instance, start_reshare_instance, IsKeyEvent
      <3>2. QED
        BY <2>3, <3>1 DEF start_keygen_instance, start_reshare_instance
    <2>4. ASSUME NEW a \in Accounts, NEW id \in CallableIds, vote_reshared(a, id)
          PROVE  FALSE
      <3>1. WithVote(key_event, a, previous_key).parameters = key_event.parameters
        BY <2>0, <2>4 DEF vote_reshared, WithVote, IsKeyEvent
      <3>2. QED
        BY <2>4, <3>1 DEF vote_reshared, BecomeRunning, KeyEventNew
    <2>5. ASSUME NEW a \in Accounts, NEW id \in CallableIds,
                 vote_abort_key_event_instance(a, id)
          PROVE  FALSE
      <3>1. WithoutInstance(key_event).parameters = key_event.parameters
        BY <2>0, <2>5 DEF WithoutInstance, vote_abort_key_event_instance, IsKeyEvent
      <3>2. QED
        BY <2>5, <3>1 DEF vote_abort_key_event_instance
    <2>6. ASSUME NEW a \in Accounts, vote_cancel_resharing(a) PROVE FALSE
      BY <2>6 DEF vote_cancel_resharing
    <2>7. ASSUME NEW a \in Accounts, NEW ds \in DomainProposals, vote_add_domains(a, ds)
          PROVE  FALSE
      BY <2>7 DEF vote_add_domains
    <2>8. ASSUME NEW a \in Accounts, NEW id \in CallableIds, NEW pk \in PublicKeys,
                 vote_pk(a, id, pk)
          PROVE  FALSE
      BY <2>8 DEF vote_pk, BecomeRunning
    <2>9. ASSUME NEW a \in Accounts, NEW id \in 0 .. next_domain_id, vote_cancel_keygen(a, id)
          PROVE  FALSE
      BY <2>9 DEF vote_cancel_keygen, BecomeRunning
    <2>10. CASE UNCHANGED protocolVars
      BY <2>10 DEF protocolVars
    <2>11. QED
      BY <2>1, <2>2, <2>3, <2>4, <2>5, <2>6, <2>7, <2>8, <2>9, <2>10
         DEF Next, OperatorNext, NodeNext, vars, submit_participant_info,
             ReverificationChanges, clean_tee_status, NextBlock
  <1>2. QED
    BY <1>1, VotersAlwaysNamed, PTL DEF Spec, ResharingConsented
=============================================================================
