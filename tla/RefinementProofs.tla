-------------------------- MODULE RefinementProofs --------------------------
(***************************************************************************)
(* Proofs that the contract implements module Committee, and about the     *)
(* history of key event ids.                                               *)
(***************************************************************************)
EXTENDS ParameterProofs, ContractRefinement, EpochIds, SequenceTheorems

-----------------------------------------------------------------------------
(* The contract implements Committee.                                      *)

\* Committee's threshold rules are those of the contract.
LEMMA SameRules ==
  ASSUME NEW p, NEW q
  PROVE  Promise!validate_incoming_proposal(p, q) <=> validate_incoming_proposal(p, q)
  <1>1. \A x : Promise!Members(x) = Members(x) /\ Promise!Ids(x) = Ids(x)
    BY DEF Members, Promise!Members, Ids, Promise!Ids
  <1>0. \A S : Promise!Cardinality(S) = Cardinality(S)
    BY DEF Cardinality, Promise!Cardinality
  <1>2. Promise!validate(q) <=> validate(q)
    BY <1>0, <1>1 DEF validate, Promise!validate, validate_threshold, Promise!validate_threshold,
                validate_participants, Promise!validate_participants,
                MIN_THRESHOLD_ABSOLUTE, Promise!MIN_THRESHOLD_ABSOLUTE
  <1>3. Promise!IdsContinue(p, q) <=> IdsContinue(p, q)
    BY <1>1 DEF IdsContinue, Promise!IdsContinue, NewMembers, Promise!NewMembers
  <1>4. Promise!EnoughStay(p, q) <=> EnoughStay(p, q)
    BY <1>0, <1>1 DEF EnoughStay, Promise!EnoughStay
  <1>5. QED
    BY <1>2, <1>3, <1>4 DEF validate_incoming_proposal, Promise!validate_incoming_proposal

\* The list of public keys, as a sequence.
LEMMA KeyListType ==
  ASSUME KeyInv
  PROVE  /\ PublicKeyList \in Seq([domain_id : Nat, key : PublicKeys])
         /\ Len(PublicKeyList) = Len(keyset.domains)
         /\ phase # "Initializing" => (PublicKeyList = <<>> <=> domains = <<>>)
  <1>1. /\ keyset.domains \in Seq(KeysForDomain)
        /\ \A i \in 1 .. Len(keyset.domains) :
              keyset.domains[i].domain_id \in Nat /\ keyset.domains[i].key \in PublicKeys
    <2>1. keyset.domains \in Seq(KeysForDomain)
      BY DEF KeyInv, ProtocolTypeOK
    <2>2. \A i \in 1 .. Len(keyset.domains) : keyset.domains[i] \in KeysForDomain
      BY <2>1
    <2>3. \A x \in KeysForDomain : x.domain_id \in Nat /\ x.key \in PublicKeys
      BY DEF KeysForDomain
    <2>4. QED
      BY <2>1, <2>2, <2>3
  <1>2. PublicKeyList \in Seq([domain_id : Nat, key : PublicKeys])
        /\ Len(PublicKeyList) = Len(keyset.domains)
    BY <1>1 DEF PublicKeyList
  <1>3. phase # "Initializing" => Len(keyset.domains) = Len(domains) /\ domains \in Seq(Nat)
    BY DEF KeyInv, ProtocolTypeOK, KeysetMatchesDomains
  <1>4. QED
    BY <1>2, <1>3

\* A step that keeps phase, keys and both parameters is invisible.
LEMMA InvisibleStep ==
  ASSUME UNCHANGED <<phase, keyset, parameters>>,
         phase = "Resharing" => key_event'.parameters = key_event.parameters
  PROVE  UNCHANGED Promise!committeeVars
  BY DEF Promise!committeeVars, PublicKeyList, prospective_parameters

\* The start of a resharing, also of one that takes another's place.
LEMMA BeginsResharing ==
  ASSUME KeyInv, phase \in {"Running", "Resharing"}, domains # <<>>,
         NEW e, NEW p, validate_incoming_proposal(parameters, p), BecomeResharing(e, p)
  PROVE  Promise!begin_resharing(prospective_parameters')
  <1>1. /\ phase' = "Resharing" /\ prospective_parameters' = p
        /\ UNCHANGED <<keyset, parameters>>
    BY DEF BecomeResharing, KeyEventNew, prospective_parameters
  <1>2. PublicKeyList # <<>> /\ PublicKeyList' = PublicKeyList
    BY <1>1, KeyListType DEF PublicKeyList
  <1>3. QED
    BY <1>1, <1>2, SameRules DEF Promise!begin_resharing

\* transition_to_resharing_no_checks begins a resharing, or replaces a committee
\* that has no keys.
LEMMA TransitionMapped ==
  ASSUME KeyInv, phase = "Running", NEW p, validate_incoming_proposal(parameters, p),
         transition_to_resharing_no_checks(p)
  PROVE  Promise!CommitteeNext
  <1>1. CASE domains # <<>>
    BY <1>1, BeginsResharing DEF transition_to_resharing_no_checks, Promise!CommitteeNext
  <1>2. CASE domains = <<>>
    <2>1. BecomeRunning(domains, [epoch_id |-> keyset.epoch_id + 1, domains |-> <<>>], p,
                        add_domains_votes)
      BY <1>2 DEF transition_to_resharing_no_checks
    <2>2. /\ phase' = "Running" /\ parameters' = p /\ prospective_parameters' = p
          /\ keyset'.epoch_id = keyset.epoch_id + 1 /\ keyset'.domains = <<>>
      BY <2>1 DEF BecomeRunning, prospective_parameters
    <2>3. PublicKeyList = <<>> /\ PublicKeyList' = <<>>
      BY <1>2, <2>2, KeyListType DEF PublicKeyList
    <2>4. keyset'.epoch_id > keyset.epoch_id
      BY <2>2 DEF KeyInv, ProtocolTypeOK
    <2>5. Promise!replaced(parameters', keyset'.epoch_id)
      BY <2>2, <2>3, <2>4, SameRules DEF Promise!replaced
    <2>6. QED
      BY <2>5 DEF Promise!CommitteeNext
  <1>3. QED
    BY <1>1, <1>2

\* A vote for a public key is invisible, or adds the key of a domain that has
\* none: the ids of the registry ascend, and the keys are those of its first
\* domains.
LEMMA VotePkMapped ==
  ASSUME KeyInv, RegistryInv, NEW a \in Accounts,
         NEW id \in [epoch_id : Nat, domain_id : Nat, attempt_id : Nat],
         NEW pk \in PublicKeys, vote_pk(a, id, pk)
  PROVE  Promise!CommitteeNext \/ UNCHANGED Promise!committeeVars
  <1> DEFINE k   == KeyForDomain(id, pk)
             n   == Len(keyset.domains)
             new == [domain_id |-> k.domain_id, key |-> k.key]
  <1>1. /\ phase = "Initializing" /\ key_event.parameters = parameters
        /\ keyset.domains \in Seq(KeysForDomain)
        /\ n \in Nat /\ n < Len(domains)
        /\ \A i \in 1 .. n : keyset.domains[i].domain_id = domains[i]
        /\ key_event.domain_id = domains[n + 1]
        /\ keyset = [epoch_id |-> keyset.epoch_id, domains |-> keyset.domains]
    <2>1. phase = "Initializing"
      BY DEF vote_pk
    <2>2. /\ keyset.domains \in Seq(KeysForDomain)
          /\ keyset = [epoch_id |-> keyset.epoch_id, domains |-> keyset.domains]
      BY DEF KeyInv, ProtocolTypeOK
    <2>3. n \in Nat
      BY <2>2
    <2>4. /\ key_event.parameters = parameters /\ n < Len(domains)
          /\ \A i \in 1 .. n : keyset.domains[i].domain_id = domains[i]
          /\ key_event.domain_id = domains[n + 1]
      BY <2>1 DEF KeyInv, KeysetMatchesDomains
    <2>5. QED
      BY <2>1, <2>2, <2>3, <2>4
  <1>2. /\ domains \in Seq(Nat)
        /\ n + 1 \in 1 .. Len(domains)
        /\ domains[n + 1] \in Nat
        /\ \A i \in 1 .. n : domains[i] < domains[n + 1] /\ domains[i] \in Nat
    <2>1. domains \in Seq(Nat) /\ n \in Nat /\ n < Len(domains)
      BY <1>1 DEF KeyInv, ProtocolTypeOK
    <2> HIDE DEF n
    <2>2. /\ n + 1 \in 1 .. Len(domains) /\ domains[n + 1] \in Nat
          /\ \A i \in 1 .. n : i \in 1 .. Len(domains) /\ domains[i] \in Nat
          /\ \A i \in 1 .. n : i \in 1 .. ((n + 1) - 1)
      <3>1. Len(domains) \in Nat /\ \A i \in 1 .. Len(domains) : domains[i] \in Nat
        BY <2>1
      <3>2. n + 1 \in 1 .. Len(domains) /\ \A i \in 1 .. n : i \in 1 .. Len(domains)
        BY <2>1, <3>1
      <3>3. \A i \in 1 .. n : i \in 1 .. ((n + 1) - 1)
        BY <2>1
      <3>4. QED
        BY <3>1, <3>2, <3>3
    <2>3. \A i \in 1 .. n : domains[i] < domains[n + 1]
      BY <2>2 DEF RegistryInv
    <2>4. QED
      BY <2>1, <2>2, <2>3
  <1>3. id.domain_id = domains[n + 1] /\ id.attempt_id \in Nat
    BY <1>1 DEF vote_pk, verify_vote
  <1>4. k \in KeysForDomain /\ k.domain_id = domains[n + 1] /\ k.key = pk
    BY <1>2, <1>3 DEF KeyForDomain, KeysForDomain
  <1> HIDE DEF k
  <1>5. CASE UNCHANGED <<phase, keyset, parameters>>
    BY <1>1, <1>5, InvisibleStep
  <1>6. CASE /\ keyset' = [keyset EXCEPT !.domains = Append(keyset.domains, k)]
             /\ phase' \in {"Initializing", "Running"} /\ parameters' = parameters
    <2>1. /\ keyset'.domains = Append(keyset.domains, k)
          /\ keyset'.epoch_id = keyset.epoch_id
      BY <1>1, <1>6
    <2>2. /\ Len(keyset'.domains) = n + 1
          /\ \A i \in 1 .. n : keyset'.domains[i] = keyset.domains[i]
          /\ keyset'.domains[n + 1] = k
      BY <1>1, <1>4, <2>1
    <2>3. /\ PublicKeyList \in Seq([domain_id : Nat, key : PublicKeys])
          /\ Len(PublicKeyList) = n
      BY KeyListType
    <2>4. new \in [domain_id : Nat, key : PublicKeys]
      BY <1>2, <1>4
    <2> HIDE DEF n, new
    <2>5. PublicKeyList' = Append(PublicKeyList, new)
      <3> DEFINE R == [domain_id : Nat, key : PublicKeys]
                 longer == Append(PublicKeyList, new)
      <3>1. /\ longer \in Seq(R) /\ Len(longer) = n + 1
            /\ \A i \in 1 .. n : longer[i] = PublicKeyList[i]
            /\ longer[n + 1] = new
        BY <2>3, <2>4, AppendProperties
      <3>2. \A i \in 1 .. n : PublicKeyList[i] =
               [domain_id |-> keyset.domains[i].domain_id, key |-> keyset.domains[i].key]
        BY DEF PublicKeyList, n
      <3>3. PublicKeyList' = [i \in 1 .. (n + 1) |->
               [domain_id |-> keyset'.domains[i].domain_id, key |-> keyset'.domains[i].key]]
        BY <2>2 DEF PublicKeyList
      <3>0. PublicKeyList \in Seq(R) /\ Len(PublicKeyList) = n /\ n \in Nat /\ new \in R
        BY <1>1, <2>3, <2>4
      <3> HIDE DEF longer, R
      <3>4. ASSUME NEW i \in 1 .. (n + 1)
            PROVE  PublicKeyList'[i] = longer[i] /\ PublicKeyList'[i] \in R
        <4>1. CASE i = n + 1
          <5>1. PublicKeyList'[i] = [domain_id |-> k.domain_id, key |-> k.key]
            BY <2>2, <3>3, <4>1
          <5>2. QED
            BY <3>0, <3>1, <4>1, <5>1 DEF new
        <4>2. CASE i \in 1 .. n
          <5>1. PublicKeyList'[i] =
                   [domain_id |-> keyset'.domains[i].domain_id, key |-> keyset'.domains[i].key]
            BY <3>3
          <5>2. keyset'.domains[i] = keyset.domains[i]
            BY <2>2, <4>2
          <5>3. PublicKeyList'[i] = PublicKeyList[i]
            BY <3>2, <4>2, <5>1, <5>2
          <5>4. PublicKeyList[i] \in R
            BY <3>0, <4>2
          <5>5. QED
            BY <3>1, <4>2, <5>3, <5>4
        <4>3. QED
          BY <3>0, <4>1, <4>2
      <3>5. PublicKeyList' \in Seq(R) /\ Len(PublicKeyList') = n + 1
        <4>1. PublicKeyList' = [i \in 1 .. (n + 1) |-> PublicKeyList'[i]]
          BY <3>3
        <4>2. \A i \in 1 .. (n + 1) : PublicKeyList'[i] \in R
          BY <3>4
        <4>3. PublicKeyList' \in [1 .. (n + 1) -> R] /\ n + 1 \in Nat
          BY <3>0, <4>1, <4>2
        <4>4. QED
          BY <4>3
      <3>6. PublicKeyList' = longer
        BY <3>1, <3>4, <3>5, SeqEqual
      <3>7. QED
        BY <3>6 DEF longer
    <2>6. \A i \in 1 .. Len(PublicKeyList) : PublicKeyList[i].domain_id # new.domain_id
      <3>1. TAKE i \in 1 .. Len(PublicKeyList)
      <3>2. i \in 1 .. n /\ PublicKeyList[i].domain_id = domains[i]
        BY <1>1, <2>3 DEF PublicKeyList, n
      <3>3. new.domain_id = domains[n + 1]
        BY <1>4 DEF new
      <3>4. QED
        BY <1>2, <3>2, <3>3
    <2>7. PublicKeyList' # <<>> /\ PublicKeyList'[Len(PublicKeyList')] = new
      BY <2>3, <2>4, <2>5
    <2>8. prospective_parameters' = prospective_parameters
      BY <1>1, <1>6 DEF prospective_parameters
    <2>9. Promise!key_generated(new)
      BY <1>1, <1>6, <2>1, <2>4, <2>5, <2>6, <2>8 DEF Promise!key_generated
    <2>10. QED
      BY <2>7, <2>9 DEF Promise!CommitteeNext
  <1>7. QED
    BY <1>1, <1>5, <1>6 DEF vote_pk, BecomeRunning, k

\* A vote for a reshared key is invisible, or hands all keys over to the
\* committee the resharing was begun for, in a later epoch.
LEMMA VoteResharedMapped ==
  ASSUME KeyInv, KeyInv', NEW a \in Accounts,
         NEW id \in [epoch_id : Nat, domain_id : Nat, attempt_id : Nat], vote_reshared(a, id)
  PROVE  Promise!CommitteeNext \/ UNCHANGED Promise!committeeVars
  <1>1. phase = "Resharing" /\ IsKeyEvent(key_event)
    BY KeyEventInProgress DEF vote_reshared
  <1>2. WithVote(key_event, a, previous_key).parameters = key_event.parameters
    BY <1>1 DEF WithVote, IsKeyEvent
  <1>3. CASE UNCHANGED <<phase, keyset, parameters>> /\ key_event'.parameters = key_event.parameters
    BY <1>3, InvisibleStep
  <1>4. CASE /\ phase' = "Running" /\ parameters' = key_event.parameters
             /\ domains' = domains /\ keyset'.epoch_id = key_event.epoch_id
    <2>1. key_event.epoch_id > keyset.epoch_id
      BY <1>1 DEF KeyInv, KeysetMatchesDomains
    <2>2. Len(keyset'.domains) = Len(keyset.domains)
      BY <1>1, <1>4 DEF KeyInv, KeysetMatchesDomains
    <2>3. PublicKeyList' = PublicKeyList
      <3>1. KeepsPublicKeys
        BY VoteResharedKeepsKeys DEF KeepsKeys
      <3>2. QED
        BY <2>2, <3>1 DEF KeepsPublicKeys, PublicKeyList
    <2>4. /\ prospective_parameters = key_event.parameters
          /\ prospective_parameters' = key_event.parameters
      BY <1>1, <1>4 DEF prospective_parameters
    <2>5. Promise!handed_over(keyset'.epoch_id)
      BY <1>1, <1>4, <2>1, <2>3, <2>4 DEF Promise!handed_over
    <2>6. QED
      BY <2>5 DEF Promise!CommitteeNext
  <1>5. QED
    BY <1>2, <1>3, <1>4 DEF vote_reshared, BecomeRunning, ResharedKeyset, KeyEventNew

\* Every step of the contract is a step of Committee or invisible to it.
LEMMA NextMapped ==
  KeyInv /\ KeyInv' /\ RegistryInv /\ [Next]_vars
    => [Promise!CommitteeNext]_(Promise!committeeVars)
  <1> DEFINE Mapped == Promise!CommitteeNext \/ UNCHANGED Promise!committeeVars
  <1> SUFFICES ASSUME KeyInv, KeyInv', RegistryInv, [Next]_vars PROVE Mapped
    OBVIOUS
  <1>0. /\ phase = "Initializing" => key_event.parameters = parameters
        /\ phase # "Running" => IsKeyEvent(key_event) /\ domains # <<>>
    BY KeyEventInProgress DEF KeyInv, KeysetMatchesDomains
  <1>1. ASSUME NEW a \in Accounts, NEW e \in 0 .. MaxEpoch, NEW p \in Proposals,
               vote_new_parameters(a, e, p)
        PROVE  Mapped
    <2>1. /\ validate_incoming_proposal(parameters, p)
          /\ phase \in {"Running", "Resharing"}
          /\ \/ UNCHANGED <<phase, keyset, parameters, key_event>>
             \/ phase = "Running" /\ transition_to_resharing_no_checks(p)
             \/ phase = "Resharing" /\ BecomeResharing(e, p)
      BY <1>1 DEF vote_new_parameters, MayVoteForParameters
    <2>2. CASE UNCHANGED <<phase, keyset, parameters, key_event>>
      BY <2>2, InvisibleStep
    <2>3. CASE phase = "Running" /\ transition_to_resharing_no_checks(p)
      BY <2>1, <2>3, TransitionMapped
    <2>4. CASE phase = "Resharing" /\ BecomeResharing(e, p)
      BY <1>0, <2>1, <2>4, BeginsResharing DEF Promise!CommitteeNext
    <2>5. QED
      BY <2>1, <2>2, <2>3, <2>4
  <1>2. ASSUME NEW a \in Accounts, NEW ds \in DomainProposals, vote_add_domains(a, ds)
        PROVE  Mapped
    <2>1. /\ phase = "Running" /\ UNCHANGED <<keyset, parameters>>
          /\ phase' = "Initializing" \/ UNCHANGED phase
      BY <1>2 DEF vote_add_domains
    <2>2. CASE UNCHANGED phase
      BY <2>1, <2>2, InvisibleStep
    <2>3. CASE phase' = "Initializing"
      <3>1. PublicKeyList' = PublicKeyList /\ prospective_parameters' = prospective_parameters
        BY <2>1, <2>3 DEF PublicKeyList, prospective_parameters
      <3>2. QED
        BY <2>1, <2>3, <3>1 DEF Promise!CommitteeNext, Promise!begin_keygen
    <2>4. QED
      BY <2>1, <2>2, <2>3
  <1>3. ASSUME NEW a \in Accounts, NEW id \in CallableIds,
               start_keygen_instance(a, id) \/ start_reshare_instance(a, id)
        PROVE  Mapped
    <2>1. start(key_event, height, key_event_timeout_blocks).parameters = key_event.parameters
      BY <1>0, <1>3 DEF start, start_keygen_instance, start_reshare_instance, IsKeyEvent
    <2>2. QED
      BY <1>3, <2>1, InvisibleStep DEF start_keygen_instance, start_reshare_instance
  <1>4. ASSUME NEW a \in Accounts, NEW id \in CallableIds, NEW pk \in PublicKeys,
               vote_pk(a, id, pk)
        PROVE  Mapped
    BY <1>4, VotePkMapped, CallableIdType
  <1>5. ASSUME NEW a \in Accounts, NEW id \in CallableIds, vote_reshared(a, id)
        PROVE  Mapped
    BY <1>5, VoteResharedMapped, CallableIdType
  <1>6. ASSUME NEW a \in Accounts, NEW id \in CallableIds,
               vote_abort_key_event_instance(a, id)
        PROVE  Mapped
    <2>1. WithoutInstance(key_event).parameters = key_event.parameters
      BY <1>0, <1>6 DEF WithoutInstance, vote_abort_key_event_instance, IsKeyEvent
    <2>2. QED
      BY <1>6, <2>1, InvisibleStep DEF vote_abort_key_event_instance
  <1>7. ASSUME NEW a \in Accounts, vote_cancel_resharing(a)
        PROVE  Mapped
    <2>1. /\ phase = "Resharing" /\ UNCHANGED <<keyset, parameters>>
          /\ UNCHANGED <<phase, key_event>> \/ phase' = "Running"
      BY <1>7 DEF vote_cancel_resharing
    <2>2. CASE UNCHANGED <<phase, key_event>>
      BY <2>1, <2>2, InvisibleStep
    <2>3. CASE phase' = "Running"
      <3>1. PublicKeyList' = PublicKeyList /\ prospective_parameters' = parameters
        BY <2>1, <2>3 DEF PublicKeyList, prospective_parameters
      <3>2. QED
        BY <2>1, <2>3, <3>1 DEF Promise!CommitteeNext, Promise!resharing_cancelled
    <2>4. QED
      BY <2>1, <2>2, <2>3
  <1>8. ASSUME NEW a \in Accounts, NEW id \in 0 .. next_domain_id, vote_cancel_keygen(a, id)
        PROVE  Mapped
    <2>1. /\ phase = "Initializing" /\ UNCHANGED <<keyset, parameters>>
          /\ UNCHANGED phase \/ phase' = "Running"
      BY <1>0, <1>8 DEF vote_cancel_keygen, BecomeRunning
    <2>2. CASE UNCHANGED phase
      BY <2>1, <2>2, InvisibleStep
    <2>3. CASE phase' = "Running"
      <3>1. PublicKeyList' = PublicKeyList /\ prospective_parameters' = prospective_parameters
        BY <2>1, <2>3 DEF PublicKeyList, prospective_parameters
      <3>2. QED
        BY <2>1, <2>3, <3>1 DEF Promise!CommitteeNext, Promise!keygen_cancelled
    <2>4. QED
      BY <2>1, <2>2, <2>3
  <1>9. ASSUME NEW a \in Accounts, verify_tee(a)
        PROVE  Mapped
    <2>1. CASE UNCHANGED protocolVars
      BY <2>1, InvisibleStep DEF protocolVars
    <2>2. QED
      BY <1>9, <2>1, TransitionMapped DEF verify_tee
  <1>10. CASE UNCHANGED protocolVars
    BY <1>10, InvisibleStep DEF protocolVars
  <1>11. QED
    BY <1>1, <1>2, <1>3, <1>4, <1>5, <1>6, <1>7, <1>8, <1>9, <1>10
       DEF Next, OperatorNext, NodeNext, vars, submit_participant_info,
           ReverificationChanges, clean_tee_status, NextBlock

\* The contract starts as Committee does.
LEMMA InitMapped == Init => Promise!CommitteeInit
  <1> SUFFICES ASSUME Init PROVE Promise!CommitteeInit
    OBVIOUS
  <1>1. PICK ks \in [1 .. Len(InitialDomains) -> PublicKeys] :
           keyset = [epoch_id |-> 0,
                     domains |-> [i \in 1 .. Len(InitialDomains) |->
                        [domain_id |-> InitialDomains[i], key |-> ks[i], attempt |-> 0]]]
    BY DEF Init
  <1>2. Len(keyset.domains) = Len(InitialDomains)
    BY <1>1, InitialAssumption
  <1>3. PublicKeyList = [i \in 1 .. Len(InitialDomains) |->
                            [domain_id |-> InitialDomains[i], key |-> ks[i]]]
    BY <1>1, <1>2 DEF PublicKeyList
  <1>4. PublicKeyList \in InitialKeyLists
    BY <1>3 DEF InitialKeyLists
  <1>5. QED
    BY <1>1, <1>4 DEF Init, Promise!CommitteeInit, prospective_parameters

\* The contract keeps the promise of Committee, for any participants, domains,
\* votes and interleavings: keys are only added, and a committee is replaced
\* only by the coherent successor a resharing was begun for, in a later epoch
\* and with all the keys (state.rs, running.rs, initializing.rs, resharing.rs).
THEOREM RefinementTheorem == Spec => ImplementsCommittee
  <1>1. Init => Promise!CommitteeInit
    BY InitMapped
  <1>2. KeyInv /\ KeyInv' /\ RegistryInv /\ [Next]_vars
           => [Promise!CommitteeNext]_(Promise!committeeVars)
    BY NextMapped
  <1>3. QED
    BY <1>1, <1>2, AlwaysRegistryInv, PTL DEF Spec, ImplementsCommittee, Promise!CommitteeSpec

-----------------------------------------------------------------------------
(* The ids of key events.                                                  *)

\* No step forgets a cancelled epoch: the contract does when it goes from
\* Running to Initializing (running.rs vote_add_domains), and EpochIds shows
\* what then happens.  Other steps that drop it move on to later epochs.
RemembersCancelled == cancelled_epoch # NoEpoch => phase' # "Initializing"

\* Attempts of the key event in progress were for its parameters, and none was
\* for a later domain or has an id that is still to be given.
EventInv ==
    phase # "Running" =>
        \A s \in attempts : s.id.epoch_id = key_event.epoch_id =>
            /\ s.parameters = key_event.parameters
            /\ s.id.domain_id <= key_event.domain_id
            /\ s.id.domain_id = key_event.domain_id =>
                  s.id.attempt_id < key_event.next_attempt_id

\* The inductive invariant of the history: past attempts lie below the epoch
\* that the contract expects next; those in the epoch of the keys were for the
\* parameters in force and for domains that are registered or were.
HistoryInv ==
    /\ \A s \in attempts : /\ s.id \in [epoch_id : Nat, domain_id : Nat, attempt_id : Nat]
                           /\ s.id.epoch_id < prospective_epoch_id
    /\ \A s \in attempts : s.id.epoch_id = keyset.epoch_id =>
          s.parameters = parameters /\ s.id.domain_id < next_domain_id
    /\ EventInv
    /\ EpochIdentifiesParameters
    /\ cancelled_epoch # NoEpoch => phase = "Running" /\ domains # <<>>

\* Whatever the contract does between two attempts is one of the following.

\* The key event goes on: votes, aborts, and attempts in their order.
EventGoesOn ==
    /\ UNCHANGED <<phase, keyset, parameters, cancelled_epoch, domains, next_domain_id>>
    /\ \/ UNCHANGED key_event
       \/ /\ phase # "Running"
          /\ key_event'.epoch_id = key_event.epoch_id
          /\ key_event'.domain_id = key_event.domain_id
          /\ key_event'.parameters = key_event.parameters
          /\ \/ /\ key_event'.next_attempt_id = key_event.next_attempt_id
                /\ ~ StartsAttempt
             \/ /\ key_event'.next_attempt_id = key_event.next_attempt_id + 1
                /\ key_event'.instance.attempt_id = key_event.next_attempt_id

\* The next domain's turn, in the same epoch.
NextDomain ==
    /\ phase # "Running"
    /\ UNCHANGED <<phase, parameters, cancelled_epoch, next_domain_id, domains>>
    /\ keyset'.epoch_id = keyset.epoch_id
    /\ \E d \in Nat : /\ key_event.domain_id < d
                      /\ key_event' = KeyEventNew(key_event.epoch_id, d, key_event.parameters)

StartsResharing ==
    /\ phase \in {"Running", "Resharing"} /\ phase' = "Resharing"
    /\ UNCHANGED <<keyset, parameters, next_domain_id, domains>>
    /\ cancelled_epoch' = NoEpoch
    /\ \E d \in Nat : \E p : key_event' = KeyEventNew(prospective_epoch_id, d, p)

StartsInitializing ==
    /\ phase = "Running" /\ phase' = "Initializing"
    /\ UNCHANGED <<keyset, parameters>>
    /\ next_domain_id' > next_domain_id /\ next_domain_id' \in Nat
    /\ cancelled_epoch' = NoEpoch
    /\ key_event' = KeyEventNew(keyset.epoch_id, next_domain_id, parameters)

EndsResharing ==
    /\ phase = "Resharing" /\ phase' = "Running"
    /\ UNCHANGED next_domain_id
    /\ keyset'.epoch_id = key_event.epoch_id /\ parameters' = key_event.parameters
    /\ cancelled_epoch' = NoEpoch /\ key_event' = NoKeyEvent

CancelsResharing ==
    /\ phase = "Resharing" /\ phase' = "Running"
    /\ UNCHANGED <<keyset, parameters, next_domain_id, domains>>
    /\ cancelled_epoch' = key_event.epoch_id /\ key_event' = NoKeyEvent

EndsInitializing ==
    /\ phase = "Initializing" /\ phase' = "Running"
    /\ UNCHANGED <<parameters, next_domain_id>> /\ keyset'.epoch_id = keyset.epoch_id
    /\ cancelled_epoch' = NoEpoch /\ key_event' = NoKeyEvent

\* Parameters change at once when there is nothing to reshare.
SkipsResharing ==
    /\ phase = "Running" /\ phase' = "Running" /\ domains = <<>>
    /\ UNCHANGED next_domain_id
    /\ keyset'.epoch_id = keyset.epoch_id + 1
    /\ cancelled_epoch' = NoEpoch /\ key_event' = NoKeyEvent

IdStep ==
    \/ EventGoesOn \/ NextDomain
    \/ StartsResharing \/ EndsResharing \/ CancelsResharing \/ SkipsResharing
    \/ StartsInitializing \/ EndsInitializing

\* transition_to_resharing_no_checks is a step of this kind.
LEMMA TransitionIdStep ==
  ASSUME KeyInv, phase = "Running", NEW p, transition_to_resharing_no_checks(p)
  PROVE  IdStep
  <1>1. CASE domains # <<>>
    <2>1. domains[1] \in Nat
      BY <1>1 DEF KeyInv, ProtocolTypeOK
    <2>2. StartsResharing
      BY <1>1, <2>1 DEF transition_to_resharing_no_checks, BecomeResharing, StartsResharing,
                        prospective_epoch_id
    <2>3. QED
      BY <2>2 DEF IdStep
  <1>2. CASE domains = <<>>
    <2>1. SkipsResharing
      BY <1>2 DEF transition_to_resharing_no_checks, BecomeRunning, SkipsResharing
    <2>2. QED
      BY <2>1 DEF IdStep
  <1>3. QED
    BY <1>1, <1>2

\* The fields of the key event after an attempt began, got a vote or ended
\* (KeyEvent::start, vote_success, vote_abort).
LEMMA StartFields ==
  ASSUME NEW ke, IsKeyEvent(ke), NEW h, NEW t
  PROVE  /\ start(ke, h, t).epoch_id = ke.epoch_id /\ start(ke, h, t).domain_id = ke.domain_id
         /\ start(ke, h, t).parameters = ke.parameters
         /\ start(ke, h, t).next_attempt_id = ke.next_attempt_id + 1
         /\ start(ke, h, t).instance.attempt_id = ke.next_attempt_id
         /\ start(ke, h, t).instance.completed = {}
  BY DEF IsKeyEvent, start

LEMMA VoteFields ==
  ASSUME NEW ke, IsKeyEvent(ke), NEW a, NEW k, ke.instance # NoInstance
  PROVE  /\ WithVote(ke, a, k).epoch_id = ke.epoch_id /\ WithVote(ke, a, k).domain_id = ke.domain_id
         /\ WithVote(ke, a, k).parameters = ke.parameters
         /\ WithVote(ke, a, k).next_attempt_id = ke.next_attempt_id
         /\ a \in WithVote(ke, a, k).instance.completed
  BY DEF IsKeyEvent, WithVote, KeyEventInstances, NoInstance

LEMMA AbortFields ==
  ASSUME NEW ke, IsKeyEvent(ke)
  PROVE  /\ WithoutInstance(ke).epoch_id = ke.epoch_id /\ WithoutInstance(ke).domain_id = ke.domain_id
         /\ WithoutInstance(ke).parameters = ke.parameters
         /\ WithoutInstance(ke).next_attempt_id = ke.next_attempt_id
         /\ WithoutInstance(ke).instance = NoInstance
  BY DEF IsKeyEvent, WithoutInstance

\* vote_pk goes on, moves on to the next domain, or ends the generation.
LEMMA VotePkIdStep ==
  ASSUME KeyInv, RegistryInv, NEW a \in Accounts, NEW id, NEW pk, vote_pk(a, id, pk)
  PROVE  IdStep
  <1> DEFINE generated == Append(keyset.domains, KeyForDomain(id, pk))
             n == Len(keyset.domains)
  <1>1. /\ phase = "Initializing" /\ IsKeyEvent(key_event) /\ key_event.instance # NoInstance
        /\ n \in Nat /\ n < Len(domains) /\ Len(generated) = n + 1 /\ domains \in Seq(Nat)
        /\ key_event.domain_id = domains[n + 1] /\ key_event.epoch_id = keyset.epoch_id
        /\ key_event.parameters = parameters
        /\ keyset \in [epoch_id : Nat, domains : Seq(KeysForDomain)]
    BY KeyEventInProgress
       DEF vote_pk, verify_vote, active, KeyInv, ProtocolTypeOK, KeysetMatchesDomains
  <1>2. CASE /\ key_event' \in {WithoutInstance(key_event), WithVote(key_event, a, pk)}
             /\ UNCHANGED <<phase, keyset, parameters, cancelled_epoch, domains, next_domain_id>>
    <2>1. /\ key_event'.epoch_id = key_event.epoch_id /\ key_event'.domain_id = key_event.domain_id
          /\ key_event'.parameters = key_event.parameters
          /\ key_event'.next_attempt_id = key_event.next_attempt_id
          /\ key_event'.instance = NoInstance \/ a \in key_event'.instance.completed
      <3>1. CASE key_event' = WithoutInstance(key_event)
        BY <1>1, <3>1, AbortFields
      <3>2. CASE key_event' = WithVote(key_event, a, pk)
        BY <1>1, <3>2, VoteFields
      <3>3. QED
        BY <1>2, <3>1, <3>2
    <2>2. ~ StartsAttempt
      BY <2>1 DEF StartsAttempt
    <2>3. EventGoesOn
      BY <1>1, <1>2, <2>1, <2>2 DEF EventGoesOn
    <2>4. QED
      BY <2>3 DEF IdStep
  <1>3. CASE /\ Len(generated) < Len(domains)
             /\ keyset' = [keyset EXCEPT !.domains = generated]
             /\ key_event' = KeyEventNew(keyset.epoch_id, DomainAfter(generated),
                                         key_event.parameters)
             /\ UNCHANGED <<phase, parameters, cancelled_epoch, domains, next_domain_id>>
    <2>1. DomainAfter(generated) \in Nat /\ key_event.domain_id < DomainAfter(generated)
      <3> HIDE DEF generated
      <3>1. n + 1 \in 1 .. Len(domains) /\ n + 2 \in 1 .. Len(domains) /\ Len(generated) + 1 = n + 2
        BY <1>1, <1>3
      <3>2. domains[n + 1] < domains[n + 2] /\ domains[n + 2] \in Nat
        <4> HIDE DEF n
        <4>1. n + 1 \in 1 .. ((n + 2) - 1)
          BY <1>1
        <4>2. QED
          BY <1>1, <3>1, <4>1 DEF RegistryInv
      <3>3. QED
        BY <1>1, <3>1, <3>2 DEF DomainAfter
    <2> HIDE DEF generated
    <2>2. NextDomain
      BY <1>1, <1>3, <2>1 DEF NextDomain
    <2>3. QED
      BY <2>2 DEF IdStep
  <1>4. CASE BecomeRunning(domains, [keyset EXCEPT !.domains = generated],
                           key_event.parameters, NoVotes)
    <2> HIDE DEF generated
    <2>1. EndsInitializing
      BY <1>1, <1>4 DEF BecomeRunning, EndsInitializing
    <2>2. QED
      BY <2>1 DEF IdStep
  <1>5. QED
    BY <1>2, <1>3, <1>4 DEF vote_pk

\* vote_reshared goes on, moves on to the next domain, or ends the resharing.
LEMMA VoteResharedIdStep ==
  ASSUME KeyInv, RegistryInv, NEW a \in Accounts, NEW id, vote_reshared(a, id)
  PROVE  IdStep
  <1> DEFINE reshared == Append(reshared_keys, KeyForDomain(id, previous_key))
             m == Len(reshared_keys)
  <1>1. /\ phase = "Resharing" /\ IsKeyEvent(key_event) /\ key_event.instance # NoInstance
        /\ m \in Nat /\ m < Len(domains) /\ Len(reshared) = m + 1 /\ domains \in Seq(Nat)
        /\ key_event.domain_id = domains[m + 1]
    BY KeyEventInProgress
       DEF vote_reshared, verify_vote, active, KeyInv, ProtocolTypeOK, KeysetMatchesDomains
  <1>2. CASE /\ key_event' = WithVote(key_event, a, previous_key)
             /\ UNCHANGED <<phase, keyset, parameters, cancelled_epoch, domains, next_domain_id>>
    <2>1. ~ StartsAttempt
      BY <1>1, <1>2, VoteFields DEF StartsAttempt
    <2>2. QED
      BY <1>1, <1>2, <2>1, VoteFields DEF EventGoesOn, IdStep
  <1>3. CASE /\ Len(reshared) < Len(domains)
             /\ key_event' = KeyEventNew(key_event.epoch_id, DomainAfter(reshared),
                                         key_event.parameters)
             /\ UNCHANGED <<phase, keyset, parameters, cancelled_epoch, domains, next_domain_id>>
    <2>1. DomainAfter(reshared) \in Nat /\ key_event.domain_id < DomainAfter(reshared)
      BY <1>1, <1>3 DEF DomainAfter, RegistryInv
    <2> HIDE DEF reshared
    <2>2. NextDomain
      BY <1>1, <1>3, <2>1 DEF NextDomain
    <2>3. QED
      BY <2>2 DEF IdStep
  <1>4. CASE BecomeRunning(domains, ResharedKeyset(reshared), key_event.parameters,
                           add_domains_votes)
    <2> HIDE DEF reshared
    <2>1. EndsResharing
      BY <1>1, <1>4 DEF BecomeRunning, EndsResharing, ResharedKeyset
    <2>2. QED
      BY <2>1 DEF IdStep
  <1>5. QED
    BY <1>2, <1>3, <1>4 DEF vote_reshared

\* Every step is of one of these kinds.
LEMMA NextIdStep == KeyInv /\ RegistryInv /\ [Next]_vars => IdStep
  <1> SUFFICES ASSUME KeyInv, RegistryInv, [Next]_vars PROVE IdStep
    OBVIOUS
  <1>0. CASE UNCHANGED <<phase, keyset, parameters, cancelled_epoch, domains, next_domain_id, key_event>>
    BY <1>0 DEF IdStep, EventGoesOn
  <1>1. ASSUME NEW a \in Accounts, NEW e \in 0 .. MaxEpoch, NEW p \in Proposals,
               vote_new_parameters(a, e, p)
        PROVE  IdStep
    <2>1. CASE phase = "Running" /\ transition_to_resharing_no_checks(p)
      BY <2>1, TransitionIdStep
    <2>2. CASE phase = "Resharing" /\ BecomeResharing(e, p)
      <3>1. domains[1] \in Nat /\ e = prospective_epoch_id
        BY <1>1, <2>2, KeyEventInProgress DEF vote_new_parameters
      <3>2. StartsResharing
        BY <2>2, <3>1 DEF BecomeResharing, StartsResharing
      <3>3. QED
        BY <3>2 DEF IdStep
    <2>3. QED
      BY <1>0, <1>1, <2>1, <2>2 DEF vote_new_parameters
  <1>2. ASSUME NEW a \in Accounts, NEW ds \in DomainProposals, vote_add_domains(a, ds)
        PROVE  IdStep
    <2>1. CASE UNCHANGED <<phase, domains, next_domain_id, cancelled_epoch, key_event>>
      BY <1>0, <1>2, <2>1 DEF vote_add_domains
    <2>2. CASE /\ ContinuesRegistry(ds) /\ phase' = "Initializing"
               /\ next_domain_id' = next_domain_id + Len(ds) /\ cancelled_epoch' = NoEpoch
               /\ key_event' = KeyEventNew(keyset.epoch_id, ds[1], parameters)
      <3>1. ds \in Seq(Nat) /\ ds # <<>> /\ Len(ds) \in Nat /\ Len(ds) > 0 /\ next_domain_id \in Nat
        BY <1>2, ConstantsAssumption DEF vote_add_domains, KeyInv, ProtocolTypeOK
      <3>2. ds[1] = next_domain_id
        BY <2>2, <3>1 DEF ContinuesRegistry
      <3>3. StartsInitializing
        BY <1>2, <2>2, <3>1, <3>2 DEF vote_add_domains, StartsInitializing
      <3>4. QED
        BY <3>3 DEF IdStep
    <2>3. QED
      BY <1>2, <2>1, <2>2 DEF vote_add_domains
  <1>3. ASSUME NEW a \in Accounts, NEW id \in CallableIds,
               start_keygen_instance(a, id) \/ start_reshare_instance(a, id)
        PROVE  IdStep
    <2>1. /\ phase # "Running"
          /\ key_event' = start(key_event, height, key_event_timeout_blocks)
          /\ UNCHANGED <<phase, keyset, parameters, cancelled_epoch, domains, next_domain_id>>
      BY <1>3 DEF start_keygen_instance, start_reshare_instance
    <2>2. EventGoesOn
      BY <2>1, KeyEventInProgress, StartFields DEF EventGoesOn
    <2>3. QED
      BY <2>2 DEF IdStep
  <1>4. ASSUME NEW a \in Accounts, NEW id \in CallableIds, NEW pk \in PublicKeys,
               vote_pk(a, id, pk)
        PROVE  IdStep
    BY <1>4, VotePkIdStep
  <1>5. ASSUME NEW a \in Accounts, NEW id \in CallableIds, vote_reshared(a, id)
        PROVE  IdStep
    BY <1>5, VoteResharedIdStep
  <1>6. ASSUME NEW a \in Accounts, NEW id \in CallableIds,
               vote_abort_key_event_instance(a, id)
        PROVE  IdStep
    <2>1. /\ phase # "Running" /\ key_event' = WithoutInstance(key_event)
          /\ UNCHANGED <<phase, keyset, parameters, cancelled_epoch, domains, next_domain_id>>
      BY <1>6 DEF vote_abort_key_event_instance
    <2>2. EventGoesOn
      BY <2>1, KeyEventInProgress, AbortFields DEF EventGoesOn, StartsAttempt
    <2>3. QED
      BY <2>2 DEF IdStep
  <1>7. ASSUME NEW a \in Accounts, vote_cancel_resharing(a)
        PROVE  IdStep
    <2>1. CASE UNCHANGED <<phase, cancelled_epoch, key_event>>
      BY <1>0, <1>7, <2>1 DEF vote_cancel_resharing
    <2>2. CASE phase' = "Running"
      <3>1. CancelsResharing
        BY <1>7, <2>2 DEF vote_cancel_resharing, CancelsResharing
      <3>2. QED
        BY <3>1 DEF IdStep
    <2>3. QED
      BY <1>7, <2>1, <2>2 DEF vote_cancel_resharing
  <1>8. ASSUME NEW a \in Accounts, NEW id \in 0 .. next_domain_id, vote_cancel_keygen(a, id)
        PROVE  IdStep
    <2>1. CASE BecomeRunning(retain_domains(Len(keyset.domains)), keyset,
                             key_event.parameters, NoVotes)
      <3>1. phase = "Initializing" /\ key_event.parameters = parameters
        BY <1>8 DEF vote_cancel_keygen, KeyInv, KeysetMatchesDomains
      <3>2. EndsInitializing
        BY <2>1, <3>1 DEF BecomeRunning, EndsInitializing
      <3>3. QED
        BY <3>2 DEF IdStep
    <2>2. QED
      BY <1>0, <1>8, <2>1 DEF vote_cancel_keygen
  <1>9. ASSUME NEW a \in Accounts, verify_tee(a)
        PROVE  IdStep
    BY <1>0, <1>9, TransitionIdStep DEF verify_tee, protocolVars
  <1>10. CASE UNCHANGED protocolVars
    BY <1>0, <1>10 DEF protocolVars
  <1>11. QED
    BY <1>1, <1>2, <1>3, <1>4, <1>5, <1>6, <1>7, <1>8, <1>9, <1>10
       DEF Next, OperatorNext, NodeNext, vars, submit_participant_info,
           ReverificationChanges, clean_tee_status, NextBlock

\* What a step adds to the history: the attempt that it starts, if any.
LEMMA HistoryStep ==
  ASSUME IdNext \/ UNCHANGED idVars
  PROVE  /\ [Next]_vars
         /\ attempts \subseteq attempts'
         /\ \A s \in attempts' : \/ s \in attempts
                                 \/ /\ StartsAttempt
                                    /\ s = [id |-> InstanceId(key_event'),
                                            parameters |-> key_event'.parameters]
  BY DEF IdNext, idVars, vars

\* A step that starts no attempt leaves the history alone.
LEMMA NoStartStep ==
  ASSUME IdNext \/ UNCHANGED idVars, ~ StartsAttempt
  PROVE  attempts' = attempts
  BY DEF IdNext, idVars

\* Only KeyEvent::start makes an instance without votes.
LEMMA NewEventsHaveNoAttempt ==
  /\ \A e, d, p : key_event' = KeyEventNew(e, d, p) => ~ StartsAttempt
  /\ key_event' = NoKeyEvent => ~ StartsAttempt
  BY DEF StartsAttempt, KeyEventNew, NoKeyEvent

\* What KeyInv says of the epochs and of the key event in progress.
LEMMA EpochsInOrder ==
  ASSUME KeyInv, RegistryInv
  PROVE  /\ keyset.epoch_id \in Nat /\ next_domain_id \in Nat
         /\ prospective_epoch_id \in Nat /\ prospective_epoch_id > keyset.epoch_id
         /\ phase # "Running" =>
               /\ key_event.epoch_id \in Nat /\ key_event.domain_id \in Nat
               /\ key_event.next_attempt_id \in Nat
               /\ key_event.domain_id < next_domain_id
         /\ phase = "Initializing" =>
               key_event.epoch_id = keyset.epoch_id /\ key_event.parameters = parameters
         /\ phase = "Resharing" => key_event.epoch_id > keyset.epoch_id
  <1>1. /\ keyset.epoch_id \in Nat /\ next_domain_id \in Nat
        /\ phase = "Initializing" =>
               key_event.epoch_id = keyset.epoch_id /\ key_event.parameters = parameters
        /\ phase = "Resharing" => key_event.epoch_id > keyset.epoch_id
    BY DEF KeyInv, ProtocolTypeOK, KeysetMatchesDomains
  <1>2. ASSUME phase # "Running"
        PROVE  /\ key_event.epoch_id \in Nat /\ key_event.domain_id \in Nat
               /\ key_event.next_attempt_id \in Nat
               /\ key_event.domain_id < next_domain_id
    <2>1. key_event.epoch_id \in Nat /\ key_event.domain_id \in Nat /\ key_event.next_attempt_id \in Nat
      BY <1>2, KeyEventInProgress, KeyEventType
    <2>2. \E i \in 1 .. Len(domains) : key_event.domain_id = domains[i]
      <3>1. Len(keyset.domains) \in Nat /\ Len(reshared_keys) \in Nat /\ Len(domains) \in Nat
        BY DEF KeyInv, ProtocolTypeOK
      <3>2. CASE phase = "Initializing"
        <4>1. /\ Len(keyset.domains) + 1 \in 1 .. Len(domains)
              /\ key_event.domain_id = domains[Len(keyset.domains) + 1]
          BY <3>1, <3>2 DEF KeyInv, KeysetMatchesDomains
        <4>2. QED
          BY <4>1
      <3>3. CASE phase = "Resharing"
        <4>1. /\ Len(reshared_keys) + 1 \in 1 .. Len(domains)
              /\ key_event.domain_id = domains[Len(reshared_keys) + 1]
          BY <3>1, <3>3 DEF KeyInv, KeysetMatchesDomains
        <4>2. QED
          BY <4>1
      <3>4. QED
        BY <1>2, <3>2, <3>3 DEF KeyInv, ProtocolTypeOK
    <2>3. QED
      BY <2>1, <2>2 DEF RegistryInv
  <1>3. prospective_epoch_id \in Nat /\ prospective_epoch_id > keyset.epoch_id
    BY <1>1, <1>2, SMTT(30) DEF KeyInv, ProtocolTypeOK, CancelledAbove, prospective_epoch_id,
                      RunningProspectiveEpoch, NoEpoch
  <1>4. QED
    BY <1>1, <1>2, <1>3

\* While a key event goes on, attempts take their ids in order.
LEMMA EventGoesOnKeeps ==
  ASSUME KeyInv, RegistryInv, HistoryInv, EventGoesOn, IdNext \/ UNCHANGED idVars
  PROVE  /\ HistoryInv'
         /\ StartsAttempt => InstanceId(key_event') \notin {s.id : s \in attempts}
  <1>1. /\ keyset.epoch_id \in Nat /\ next_domain_id \in Nat
        /\ prospective_epoch_id \in Nat /\ prospective_epoch_id > keyset.epoch_id
        /\ phase # "Running" => /\ key_event.epoch_id \in Nat /\ key_event.domain_id \in Nat
                                /\ key_event.next_attempt_id \in Nat
                                /\ key_event.domain_id < next_domain_id
    BY EpochsInOrder
  <1>2. prospective_epoch_id' = prospective_epoch_id
    BY DEF EventGoesOn, prospective_epoch_id, RunningProspectiveEpoch
  <1>3. CASE ~ StartsAttempt
    <2>1. attempts' = attempts
      BY <1>3, NoStartStep
    <2>2. EventInv'
      <3> SUFFICES ASSUME phase # "Running", NEW s \in attempts, s.id.epoch_id = key_event'.epoch_id
                   PROVE  /\ s.parameters = key_event'.parameters
                          /\ s.id.domain_id <= key_event'.domain_id
                          /\ s.id.domain_id = key_event'.domain_id =>
                                s.id.attempt_id < key_event'.next_attempt_id
        BY <2>1 DEF EventInv, EventGoesOn
      <3>1. s.id.attempt_id \in Nat
        BY DEF HistoryInv
      <3>2. QED
        BY <1>1, <3>1 DEF HistoryInv, EventInv, EventGoesOn
    <2>3. QED
      BY <1>2, <1>3, <2>1, <2>2 DEF HistoryInv, EventGoesOn, EpochIdentifiesParameters
  <1>4. CASE StartsAttempt
    <2> DEFINE n == [id |-> InstanceId(key_event'), parameters |-> key_event'.parameters]
    <2>1. attempts' = attempts \cup {n}
      <3>1. CASE IdNext
        BY <1>4, <3>1 DEF IdNext
      <3>2. CASE UNCHANGED idVars
        <4>1. key_event' = key_event
          BY <3>2 DEF idVars, vars, protocolVars
        <4>2. QED
          BY <1>4, <4>1 DEF StartsAttempt
      <3>3. QED
        BY <3>1, <3>2
    <2>2. /\ phase # "Running"
          /\ key_event'.epoch_id = key_event.epoch_id
          /\ key_event'.domain_id = key_event.domain_id
          /\ key_event'.parameters = key_event.parameters
          /\ key_event'.next_attempt_id = key_event.next_attempt_id + 1
          /\ key_event'.instance.attempt_id = key_event.next_attempt_id
      BY <1>4 DEF EventGoesOn, StartsAttempt
    <2>3. /\ n.parameters = key_event.parameters /\ n.id = InstanceId(key_event')
          /\ n.id.epoch_id = key_event.epoch_id /\ n.id.domain_id = key_event.domain_id
          /\ n.id.attempt_id = key_event.next_attempt_id
          /\ n.id \in [epoch_id : Nat, domain_id : Nat, attempt_id : Nat]
      BY <1>1, <2>2 DEF InstanceId
    <2> HIDE DEF n
    <2>4. \A s \in attempts : s.id # n.id
      BY <1>1, <2>2, <2>3 DEF HistoryInv, EventInv
    <2>5. key_event.epoch_id < prospective_epoch_id
      <3>1. CASE phase = "Resharing"
        BY <1>1, <3>1 DEF prospective_epoch_id
      <3>2. CASE phase = "Initializing"
        BY <1>1, <3>2, EpochsInOrder
      <3>3. QED
        BY <2>2, <3>1, <3>2 DEF KeyInv, ProtocolTypeOK
    <2>6. EventInv'
      <3> SUFFICES ASSUME NEW s \in attempts \cup {n}, s.id.epoch_id = key_event.epoch_id
                   PROVE  /\ s.parameters = key_event.parameters
                          /\ s.id.domain_id <= key_event.domain_id
                          /\ s.id.domain_id = key_event.domain_id =>
                                s.id.attempt_id < key_event.next_attempt_id + 1
        BY <2>1, <2>2 DEF EventInv
      <3>1. CASE s \in attempts
        <4>1. s.id.attempt_id \in Nat
          BY <3>1 DEF HistoryInv
        <4>2. QED
          BY <1>1, <2>2, <3>1, <4>1 DEF HistoryInv, EventInv
      <3>2. CASE s = n
        BY <1>1, <2>2, <2>3, <3>2
      <3>3. QED
        BY <3>1, <3>2
    <2>7. EpochIdentifiesParameters'
      <3>1. \A s \in attempts : s.id.epoch_id = n.id.epoch_id => s.parameters = n.parameters
        BY <2>2, <2>3 DEF HistoryInv, EventInv
      <3>2. QED
        BY <2>1, <3>1 DEF HistoryInv, EpochIdentifiesParameters
    <2>8. n.id.epoch_id = keyset.epoch_id => n.parameters = parameters
      <3>1. phase \in {"Initializing", "Resharing"}
        BY <2>2 DEF KeyInv, ProtocolTypeOK
      <3>2. QED
        BY <1>1, <2>2, <2>3, <3>1, EpochsInOrder
    <2>9. HistoryInv'
      <3>1. \A s \in attempts \cup {n} :
              /\ s.id \in [epoch_id : Nat, domain_id : Nat, attempt_id : Nat]
              /\ s.id.epoch_id < prospective_epoch_id
              /\ s.id.epoch_id = keyset.epoch_id =>
                    s.parameters = parameters /\ s.id.domain_id < next_domain_id
        BY <1>1, <2>2, <2>3, <2>5, <2>8 DEF HistoryInv
      <3>2. QED
        BY <1>2, <2>1, <2>6, <2>7, <3>1 DEF HistoryInv, EventGoesOn
    <2>10. QED
      BY <2>3, <2>4, <2>9
  <1>5. QED
    BY <1>3, <1>4

\* Every other step starts no attempt, and moves on to an epoch or a domain that no attempt
\* had, as long as cancelled epochs are remembered.
LEMMA OtherStepsKeepHistory ==
  ASSUME KeyInv, RegistryInv, HistoryInv, IdNext \/ UNCHANGED idVars, RemembersCancelled,
         \/ NextDomain \/ StartsResharing \/ EndsResharing \/ CancelsResharing
         \/ SkipsResharing \/ StartsInitializing \/ EndsInitializing
  PROVE  HistoryInv' /\ ~ StartsAttempt
  <1>1. /\ keyset.epoch_id \in Nat /\ next_domain_id \in Nat
        /\ prospective_epoch_id \in Nat /\ prospective_epoch_id > keyset.epoch_id
        /\ phase # "Running" => /\ key_event.epoch_id \in Nat /\ key_event.domain_id \in Nat
                                /\ key_event.next_attempt_id \in Nat
                                /\ key_event.domain_id < next_domain_id
        /\ phase = "Initializing" =>
               key_event.epoch_id = keyset.epoch_id /\ key_event.parameters = parameters
        /\ phase = "Resharing" => key_event.epoch_id > keyset.epoch_id
    BY EpochsInOrder
  <1>2. ~ StartsAttempt
    BY NewEventsHaveNoAttempt
       DEF NextDomain, StartsResharing, EndsResharing, CancelsResharing, SkipsResharing,
           StartsInitializing, EndsInitializing
  <1>3. attempts' = attempts /\ EpochIdentifiesParameters'
    BY <1>2, NoStartStep DEF HistoryInv, EpochIdentifiesParameters
  <1>4. \A e, d, p : /\ KeyEventNew(e, d, p).epoch_id = e /\ KeyEventNew(e, d, p).domain_id = d
                     /\ KeyEventNew(e, d, p).parameters = p
    BY DEF KeyEventNew
  <1>5. \A s \in attempts : /\ s.id \in [epoch_id : Nat, domain_id : Nat, attempt_id : Nat]
                            /\ s.id.epoch_id \in Nat /\ s.id.domain_id \in Nat
                            /\ s.id.epoch_id < prospective_epoch_id
                            /\ s.id.epoch_id = keyset.epoch_id =>
                                  s.parameters = parameters /\ s.id.domain_id < next_domain_id
    BY DEF HistoryInv
  <1>6. cancelled_epoch # NoEpoch => phase = "Running" /\ domains # <<>>
    BY DEF HistoryInv
  <1>7. cancelled_epoch = NoEpoch /\ phase # "Resharing" => prospective_epoch_id = keyset.epoch_id + 1
    BY DEF prospective_epoch_id, RunningProspectiveEpoch
  <1>8. phase = "Resharing" => prospective_epoch_id = key_event.epoch_id + 1
    BY DEF prospective_epoch_id
  <1>9. SUFFICES /\ \A s \in attempts : s.id.epoch_id < prospective_epoch_id'
                 /\ \A s \in attempts : s.id.epoch_id = keyset'.epoch_id =>
                       s.parameters = parameters' /\ s.id.domain_id < next_domain_id'
                 /\ EventInv'
                 /\ cancelled_epoch' # NoEpoch => phase' = "Running" /\ domains' # <<>>
    BY <1>2, <1>3, <1>5 DEF HistoryInv
  <1>10. CASE NextDomain
    <2>1. PICK d \in Nat : /\ key_event.domain_id < d
                           /\ key_event' = KeyEventNew(key_event.epoch_id, d, key_event.parameters)
      BY <1>10 DEF NextDomain
    <2>2. /\ key_event'.epoch_id = key_event.epoch_id /\ key_event'.domain_id = d
          /\ key_event'.parameters = key_event.parameters
      BY <1>4, <2>1
    <2>3. phase # "Running" /\ prospective_epoch_id' = prospective_epoch_id
      BY <1>10, <2>2 DEF NextDomain, prospective_epoch_id, RunningProspectiveEpoch
    <2>4. EventInv'
      <3> SUFFICES ASSUME NEW s \in attempts, s.id.epoch_id = key_event.epoch_id
                   PROVE  s.parameters = key_event.parameters /\ s.id.domain_id < d
        BY <1>3, <1>5, <2>2 DEF EventInv
      <3>1. s.parameters = key_event.parameters /\ s.id.domain_id <= key_event.domain_id
        BY <2>3 DEF HistoryInv, EventInv
      <3>2. QED
        BY <1>1, <1>5, <2>1, <2>3, <3>1
    <2>5. QED
      BY <1>5, <1>6, <1>10, <2>3, <2>4 DEF NextDomain
  <1>11. CASE StartsResharing
    <2>1. PICK d \in Nat : \E p : key_event' = KeyEventNew(prospective_epoch_id, d, p)
      BY <1>11 DEF StartsResharing
    <2>2. key_event'.epoch_id = prospective_epoch_id
      BY <1>4, <2>1
    <2>3. prospective_epoch_id' = prospective_epoch_id + 1
      BY <1>11, <2>2 DEF StartsResharing, prospective_epoch_id
    <2>4. \A s \in attempts : s.id.epoch_id < prospective_epoch_id + 1 /\ s.id.epoch_id # prospective_epoch_id
      BY <1>1, <1>5
    <2>5. EventInv'
      BY <1>3, <2>2, <2>4 DEF EventInv
    <2>6. QED
      BY <1>5, <1>11, <2>3, <2>4, <2>5 DEF StartsResharing
  <1>12. CASE StartsInitializing
    <2>1. /\ cancelled_epoch = NoEpoch /\ phase = "Running" /\ phase' = "Initializing"
          /\ cancelled_epoch' = NoEpoch /\ UNCHANGED <<keyset, parameters>>
          /\ next_domain_id' > next_domain_id /\ next_domain_id' \in Nat
          /\ key_event' = KeyEventNew(keyset.epoch_id, next_domain_id, parameters)
      BY <1>12 DEF StartsInitializing, RemembersCancelled
    <2>2. prospective_epoch_id' = prospective_epoch_id
      BY <2>1 DEF prospective_epoch_id, RunningProspectiveEpoch
    <2>3. /\ key_event'.epoch_id = keyset.epoch_id /\ key_event'.domain_id = next_domain_id
          /\ key_event'.parameters = parameters
      BY <1>4, <2>1
    <2>4. EventInv'
      BY <1>1, <1>3, <1>5, <2>3 DEF EventInv
    <2>5. \A s \in attempts : s.id.domain_id < next_domain_id => s.id.domain_id < next_domain_id'
      BY <1>1, <1>5, <2>1
    <2>6. QED
      BY <1>5, <2>1, <2>2, <2>4, <2>5
  <1>13. ASSUME phase' = "Running" PROVE EventInv'
    BY <1>13 DEF EventInv
  <1>14. CASE EndsResharing
    <2>1. prospective_epoch_id' = prospective_epoch_id
      BY <1>8, <1>14 DEF EndsResharing, prospective_epoch_id, RunningProspectiveEpoch
    <2>2. \A s \in attempts : s.id.epoch_id = key_event.epoch_id =>
             s.parameters = key_event.parameters /\ s.id.domain_id < next_domain_id
      <3> SUFFICES ASSUME NEW s \in attempts, s.id.epoch_id = key_event.epoch_id
                   PROVE  s.parameters = key_event.parameters /\ s.id.domain_id < next_domain_id
        OBVIOUS
      <3>1. s.parameters = key_event.parameters /\ s.id.domain_id <= key_event.domain_id
        BY <1>14 DEF HistoryInv, EventInv, EndsResharing
      <3>2. QED
        BY <1>1, <1>5, <1>14, <3>1 DEF EndsResharing
    <2>3. QED
      BY <1>5, <1>13, <1>14, <2>1, <2>2 DEF EndsResharing
  <1>15. CASE CancelsResharing
    <2>1. key_event.epoch_id # NoEpoch /\ domains # <<>>
      BY <1>1, <1>15, KeyEventInProgress DEF CancelsResharing, NoEpoch
    <2>2. prospective_epoch_id' = prospective_epoch_id
      BY <1>8, <1>15, <2>1 DEF CancelsResharing, prospective_epoch_id, RunningProspectiveEpoch
    <2>3. QED
      BY <1>5, <1>13, <1>15, <2>1, <2>2 DEF CancelsResharing
  <1>16. CASE SkipsResharing
    <2>1. cancelled_epoch = NoEpoch /\ prospective_epoch_id = keyset.epoch_id + 1
      BY <1>6, <1>7, <1>16 DEF SkipsResharing
    <2>2. prospective_epoch_id' = keyset.epoch_id + 2
      BY <1>1, <1>16 DEF SkipsResharing, prospective_epoch_id, RunningProspectiveEpoch
    <2>3. \A s \in attempts : s.id.epoch_id < keyset.epoch_id + 2 /\ s.id.epoch_id # keyset.epoch_id + 1
      BY <1>1, <1>5, <2>1
    <2>4. QED
      BY <1>13, <1>16, <2>2, <2>3 DEF SkipsResharing
  <1>17. CASE EndsInitializing
    <2>1. prospective_epoch_id' = prospective_epoch_id
      BY <1>6, <1>17 DEF EndsInitializing, prospective_epoch_id, RunningProspectiveEpoch
    <2>2. QED
      BY <1>5, <1>13, <1>17, <2>1 DEF EndsInitializing
  <1>18. QED
    BY <1>10, <1>11, <1>12, <1>14, <1>15, <1>16, <1>17

\* Every step keeps the invariant and starts an attempt under a new id only.
LEMMA NextHistoryInv ==
  ASSUME KeyInv, RegistryInv, HistoryInv, [IdNext]_idVars, [RemembersCancelled]_idVars
  PROVE  /\ HistoryInv'
         /\ StartsAttempt => InstanceId(key_event') \notin {s.id : s \in attempts}
  <1>1. [Next]_vars
    BY HistoryStep
  <1>2. IdStep
    BY <1>1, NextIdStep
  <1>3. CASE UNCHANGED idVars
    <2>1. EventGoesOn
      BY <1>3 DEF idVars, vars, protocolVars, EventGoesOn
    <2>2. QED
      BY <1>3, <2>1, EventGoesOnKeeps
  <1>4. CASE RemembersCancelled
    BY <1>2, <1>4, EventGoesOnKeeps, OtherStepsKeepHistory DEF IdStep
  <1>5. QED
    BY <1>3, <1>4

\* No behaviour in which cancelled epochs are remembered leaves the invariant.
LEMMA AlwaysHistoryInv ==
  IdSpec /\ [][RemembersCancelled]_idVars => [](KeyInv /\ TeeTypeOK /\ RegistryInv /\ HistoryInv)
  <1> DEFINE Inv == KeyInv /\ TeeTypeOK /\ RegistryInv /\ HistoryInv
  <1>1. IdInit => Inv
    <2> SUFFICES ASSUME IdInit PROVE Inv
      OBVIOUS
    <2>1. KeyInv /\ TeeTypeOK
      BY InitKeyInv DEF IdInit
    <2>2. RegistryInv
      BY InitialAssumption DEF IdInit, Init, RegistryInv
    <2>3. HistoryInv
      BY DEF IdInit, Init, HistoryInv, EventInv, EpochIdentifiesParameters
    <2>4. QED
      BY <2>1, <2>2, <2>3
  <1>2. Inv /\ [IdNext]_idVars /\ [RemembersCancelled]_idVars => Inv'
    <2> SUFFICES ASSUME Inv, [IdNext]_idVars, [RemembersCancelled]_idVars PROVE Inv'
      OBVIOUS
    <2>1. [Next]_vars
      BY HistoryStep
    <2>2. KeyInv' /\ TeeTypeOK' /\ RegistryInv'
      BY <2>1, NextKeyInv, NextTeeType, NextRegistryStep, RegistryStepSafe
         DEF TypeOK, KeyInv, ProtocolTypeOK
    <2>3. QED
      BY <2>2, NextHistoryInv
  <1>3. QED
    BY <1>1, <1>2, PTL DEF IdSpec

\* "An EpochId uniquely identifies a ThresholdParameters" (key_state.rs) in
\* every behaviour in which no domain is added while a cancelled epoch is
\* remembered, for any participants, proposals and cancellations.  The
\* condition is needed: without it TLC finds an epoch that is used twice.
THEOREM EpochIdentityTheorem ==
  IdSpec /\ [][RemembersCancelled]_idVars => []EpochIdentifiesParameters
  BY AlwaysHistoryInv, PTL DEF HistoryInv

\* On the same condition no attempt starts under the id of an earlier one,
\* however many expire, abort, are cancelled or re-proposed (KeyEvent::start).
THEOREM KeyEventIdsTheorem ==
  IdSpec /\ [][RemembersCancelled]_idVars => KeyEventIdsStartOnce
  <1>1. /\ KeyInv /\ TeeTypeOK /\ RegistryInv /\ HistoryInv
        /\ [IdNext]_idVars /\ [RemembersCancelled]_idVars
        => [StartsAttempt => InstanceId(key_event') \notin {s.id : s \in attempts}]_idVars
    BY NextHistoryInv
  <1>2. QED
    BY <1>1, AlwaysHistoryInv, PTL DEF IdSpec, KeyEventIdsStartOnce
=============================================================================
