--------------------------- MODULE ContractProofs ---------------------------
(***************************************************************************)
(* Proofs about the protocol state machine of the contract, for every      *)
(* choice of its constants: the type invariant, the agreement of keys and  *)
(* domains, and what no step may do to keys, epoch, votes and domain ids.  *)
(*                                                                         *)
(* The inductive invariant is KeyInv (with TeeTypeOK).  KeysetMatchesDomains *)
(* is inductive but for one gap: a resharing must start in an epoch above  *)
(* the keys' epoch, also after an earlier one was cancelled.  CancelledAbove *)
(* closes it.                                                              *)
(***************************************************************************)
EXTENDS Contract, TLAPS

\* The parts of well-typed parameters, with their types.
LEMMA ParametersType ==
  ASSUME NEW p, IsThresholdParameters(p)
  PROVE  /\ Members(p) \subseteq Accounts
         /\ p.participants \in [Members(p) -> Nat]
         /\ p \in ParametersOver(Members(p))
         /\ p.next_id \in Nat
         /\ p.threshold \in Nat
  BY DEF IsThresholdParameters, ParametersOver, Members

\* Participants::init on the kept members gives parameters over exactly them,
\* with the same ids, next_id and threshold (lib.rs verify_tee).
LEMMA RestrictToType ==
  ASSUME NEW p, IsThresholdParameters(p), NEW kept
  PROVE  /\ IsThresholdParameters(RestrictTo(p, kept))
         /\ Members(RestrictTo(p, kept)) = Members(p) \cap kept
         /\ RestrictTo(p, kept).threshold = p.threshold
         /\ RestrictTo(p, kept).next_id = p.next_id
         /\ \A a \in Members(p) \cap kept :
               RestrictTo(p, kept).participants[a] = p.participants[a]
  BY ParametersType DEF IsThresholdParameters, ParametersOver, Members, RestrictTo

\* KeyEvent::new is a well-typed key event about the given epoch, domain and
\* parameters.
LEMMA KeyEventNewType ==
  ASSUME NEW e \in Nat, NEW d \in Nat, NEW p, IsThresholdParameters(p)
  PROVE  /\ IsKeyEvent(KeyEventNew(e, d, p))
         /\ KeyEventNew(e, d, p).epoch_id = e
         /\ KeyEventNew(e, d, p).domain_id = d
         /\ KeyEventNew(e, d, p).parameters = p
  BY DEF IsKeyEvent, KeyEventNew, IsThresholdParameters, KeyEventInstances

\* The parts of a well-typed key event, with their types.
LEMMA KeyEventType ==
  ASSUME NEW ke, IsKeyEvent(ke)
  PROVE  /\ ke.epoch_id \in Nat /\ ke.domain_id \in Nat /\ ke.next_attempt_id \in Nat
         /\ IsThresholdParameters(ke.parameters)
         /\ ke.instance \in KeyEventInstances
  BY DEF IsKeyEvent, IsThresholdParameters

\* KeyEvent::start keeps the type, the epoch, the domain and the parameters.
LEMMA StartType ==
  ASSUME NEW ke, IsKeyEvent(ke), NEW h \in Nat, NEW t \in Nat
  PROVE  /\ IsKeyEvent(start(ke, h, t))
         /\ start(ke, h, t).epoch_id = ke.epoch_id
         /\ start(ke, h, t).domain_id = ke.domain_id
         /\ start(ke, h, t).parameters = ke.parameters
  <1> DEFINE i == [attempt_id |-> ke.next_attempt_id, expires_on |-> h + 1 + t,
                   completed |-> {}, public_key |-> {}]
  <1>1. i \in KeyEventInstances
    BY KeyEventType DEF KeyEventInstances
  <1> HIDE DEF i
  <1>2. start(ke, h, t) = [ke EXCEPT !.instance = i, !.next_attempt_id = @ + 1]
    BY DEF start, i
  <1>3. PICK S \in SUBSET Accounts :
          ke \in [epoch_id : Nat, domain_id : Nat, parameters : ParametersOver(S),
                 instance : KeyEventInstances, next_attempt_id : Nat]
    BY DEF IsKeyEvent
  <1>4. start(ke, h, t) =
          [epoch_id |-> ke.epoch_id, domain_id |-> ke.domain_id,
           parameters |-> ke.parameters, instance |-> i,
           next_attempt_id |-> ke.next_attempt_id + 1]
    BY <1>2, <1>3
  <1>5. QED
    BY <1>1, <1>3, <1>4 DEF IsKeyEvent

\* A vote for the attempt in progress keeps the type, the epoch, the domain and
\* the parameters (KeyEventInstance::vote_success).
LEMMA WithVoteType ==
  ASSUME NEW ke, IsKeyEvent(ke), NEW a \in Accounts, NEW k \in PublicKeys,
         ke.instance # NoInstance
  PROVE  /\ IsKeyEvent(WithVote(ke, a, k))
         /\ WithVote(ke, a, k).epoch_id = ke.epoch_id
         /\ WithVote(ke, a, k).domain_id = ke.domain_id
         /\ WithVote(ke, a, k).parameters = ke.parameters
  BY DEF IsKeyEvent, WithVote, KeyEventInstances, NoInstance

\* Dropping the attempt keeps the type, the epoch, the domain and the
\* parameters (KeyEvent::vote_abort, and vote_success when keys differ).
LEMMA WithoutInstanceType ==
  ASSUME NEW ke, IsKeyEvent(ke)
  PROVE  /\ IsKeyEvent(WithoutInstance(ke))
         /\ WithoutInstance(ke).epoch_id = ke.epoch_id
         /\ WithoutInstance(ke).domain_id = ke.domain_id
         /\ WithoutInstance(ke).parameters = ke.parameters
  BY DEF IsKeyEvent, WithoutInstance, KeyEventInstances

-----------------------------------------------------------------------------

\* get_remaining_votes selects among the votes and changes none.
LEMMA RemainingVotesType ==
  ASSUME NEW v, NEW p, DOMAIN v \subseteq Nat, v \in [DOMAIN v -> DomainProposals]
  PROVE  /\ DOMAIN get_remaining_votes(v, p) = DOMAIN v \cap Ids(p)
         /\ get_remaining_votes(v, p) \in [DOMAIN get_remaining_votes(v, p) -> DomainProposals]
  BY DEF get_remaining_votes

\* The empty set of votes is a set of votes of either kind.
LEMMA NoVotesType ==
  /\ DOMAIN NoVotes = {}
  /\ \E S \in SUBSET Accounts : NoVotes \in [S -> Proposals]
  /\ NoVotes \in [DOMAIN NoVotes -> DomainProposals]
  <1>1. DOMAIN NoVotes = {} /\ NoVotes \in [{} -> Proposals] /\ NoVotes \in [{} -> DomainProposals]
    BY DEF NoVotes
  <1>2. QED
    BY <1>1

\* A cancelled epoch lies above the epoch of the keys.
CancelledAbove == cancelled_epoch = NoEpoch \/ cancelled_epoch > keyset.epoch_id

KeyInv == ProtocolTypeOK /\ KeysetMatchesDomains /\ CancelledAbove

\* RunningContractState::new establishes the invariant when it is given one key
\* per domain, in order.
LEMMA BecomeRunningKeyInv ==
  ASSUME ProtocolTypeOK,
         NEW ds \in Seq(Nat),
         NEW ks \in [epoch_id : Nat, domains : Seq(KeysForDomain)],
         NEW p, IsThresholdParameters(p),
         NEW v, DOMAIN v \subseteq Nat, v \in [DOMAIN v -> DomainProposals],
         Len(ks.domains) = Len(ds),
         \A i \in 1 .. Len(ds) : ks.domains[i].domain_id = ds[i],
         BecomeRunning(ds, ks, p, v)
  PROVE  KeyInv'
  <1>1. ProtocolTypeOK'
    <2>1. /\ DOMAIN add_domains_votes' \subseteq Nat
          /\ add_domains_votes' \in [DOMAIN add_domains_votes' -> DomainProposals]
      BY RemainingVotesType DEF BecomeRunning
    <2>2. \E S \in SUBSET Accounts : parameters_votes' \in [S -> Proposals]
      BY NoVotesType DEF BecomeRunning
    <2>3. QED
      BY <2>1, <2>2 DEF ProtocolTypeOK, BecomeRunning, NoEpoch
  <1>2. KeysetMatchesDomains'
    BY DEF KeysetMatchesDomains, BecomeRunning
  <1>3. CancelledAbove'
    BY DEF CancelledAbove, BecomeRunning
  <1>4. QED
    BY <1>1, <1>2, <1>3 DEF KeyInv

\* Starting to reshare the first domain, in an epoch above the keys' one, keeps
\* the invariant.
LEMMA BecomeResharingKeyInv ==
  ASSUME KeyInv, phase \in {"Running", "Resharing"}, domains # <<>>,
         NEW e \in Nat, e > keyset.epoch_id,
         NEW p, IsThresholdParameters(p),
         BecomeResharing(e, p)
  PROVE  KeyInv'
  <1>0. domains[1] \in Nat /\ Len(domains) >= 1
    BY DEF KeyInv, ProtocolTypeOK
  <1>1. ProtocolTypeOK'
    <2>1. /\ DOMAIN add_domains_votes' \subseteq Nat
          /\ add_domains_votes' \in [DOMAIN add_domains_votes' -> DomainProposals]
      BY RemainingVotesType DEF KeyInv, ProtocolTypeOK, BecomeResharing
    <2>2. \E S \in SUBSET Accounts : parameters_votes' \in [S -> Proposals]
      BY NoVotesType DEF BecomeResharing
    <2>3. IsKeyEvent(key_event')
      BY <1>0, KeyEventNewType DEF BecomeResharing
    <2>4. QED
      BY <2>1, <2>2, <2>3 DEF KeyInv, ProtocolTypeOK, BecomeResharing, NoEpoch
  <1>2. KeysetMatchesDomains'
    BY <1>0, KeyEventNewType DEF KeyInv, KeysetMatchesDomains, BecomeResharing, ProtocolTypeOK
  <1>3. CancelledAbove'
    BY DEF CancelledAbove, BecomeResharing
  <1>4. QED
    BY <1>1, <1>2, <1>3 DEF KeyInv

\* transition_to_resharing_no_checks keeps the invariant, with and without
\* domains to reshare.
LEMMA TransitionKeyInv ==
  ASSUME KeyInv, phase = "Running", NEW p, IsThresholdParameters(p),
         transition_to_resharing_no_checks(p)
  PROVE  KeyInv'
  <1>1. CASE domains # <<>>
    <2>1. RunningProspectiveEpoch \in Nat /\ RunningProspectiveEpoch > keyset.epoch_id
      BY DEF KeyInv, ProtocolTypeOK, CancelledAbove, RunningProspectiveEpoch, NoEpoch
    <2>2. QED
      BY <1>1, <2>1, BecomeResharingKeyInv DEF transition_to_resharing_no_checks
  <1>2. CASE domains = <<>>
    <2> DEFINE ks == [epoch_id |-> keyset.epoch_id + 1, domains |-> <<>>]
    <2>1. /\ ks \in [epoch_id : Nat, domains : Seq(KeysForDomain)]
          /\ Len(ks.domains) = Len(domains)
          /\ Len(domains) = 0
      BY <1>2 DEF KeyInv, ProtocolTypeOK
    <2>2. BecomeRunning(domains, ks, p, add_domains_votes)
      BY <1>2 DEF transition_to_resharing_no_checks
    <2>3. /\ ProtocolTypeOK /\ domains \in Seq(Nat)
          /\ DOMAIN add_domains_votes \subseteq Nat
          /\ add_domains_votes \in [DOMAIN add_domains_votes -> DomainProposals]
      BY DEF KeyInv, ProtocolTypeOK
    <2> HIDE DEF ks
    <2>4. \A i \in 1 .. Len(domains) : ks.domains[i].domain_id = domains[i]
      BY <2>1
    <2>5. QED
      BY <2>1, <2>2, <2>3, <2>4, BecomeRunningKeyInv
  <1>3. QED
    BY <1>1, <1>2

\* What KeyInv says of the key event in progress.
LEMMA KeyEventInProgress ==
  ASSUME KeyInv, phase # "Running"
  PROVE  /\ IsKeyEvent(key_event)
         /\ domains # <<>>
         /\ domains[1] \in Nat
  BY DEF KeyInv, ProtocolTypeOK, KeysetMatchesDomains, NoKeyEvent

\* A step that only replaces the key event by one about the same epoch, domain
\* and parameters keeps the invariant.
LEMMA KeyEventStepKeyInv ==
  ASSUME KeyInv, phase # "Running",
         IsKeyEvent(key_event'),
         key_event'.epoch_id = key_event.epoch_id,
         key_event'.domain_id = key_event.domain_id,
         key_event'.parameters = key_event.parameters,
         UNCHANGED <<phase, domains, next_domain_id, keyset, parameters, parameters_votes,
                     add_domains_votes, cancelled_epoch, reshared_keys, cancel_votes>>
  PROVE  KeyInv'
  BY DEF KeyInv, ProtocolTypeOK, KeysetMatchesDomains, CancelledAbove

\* vote_new_parameters keeps the invariant: a vote only, the start of a
\* resharing, or a re-proposal that replaces the resharing in progress.
LEMMA VoteNewParametersKeyInv ==
  ASSUME KeyInv, NEW a \in Accounts, NEW e \in Nat, NEW p \in Proposals,
         vote_new_parameters(a, e, p)
  PROVE  KeyInv'
  <1> DEFINE votes == WithVoteOf(parameters_votes, a, p)
             accepted == Accepted(votes, p)
  <1>1. IsThresholdParameters(p)
    BY ConstantsAssumption
  <1>2. CASE ~ accepted
    <2>1. \E S \in SUBSET Accounts : votes \in [S -> Proposals]
      <3>1. PICK S \in SUBSET Accounts : parameters_votes \in [S -> Proposals]
        BY DEF KeyInv, ProtocolTypeOK
      <3>2. votes \in [S \cup {a} -> Proposals]
        BY <3>1 DEF WithVoteOf
      <3>3. QED
        BY <3>2
    <2>2. /\ parameters_votes' = votes
          /\ UNCHANGED <<phase, domains, next_domain_id, keyset, parameters,
                         add_domains_votes, cancelled_epoch, key_event,
                         reshared_keys, cancel_votes>>
      BY <1>2 DEF vote_new_parameters
    <2> HIDE DEF votes
    <2>3. QED
      BY <2>1, <2>2 DEF KeyInv, ProtocolTypeOK, KeysetMatchesDomains, CancelledAbove
  <1>3. CASE accepted /\ phase = "Running"
    <2>1. transition_to_resharing_no_checks(p)
      BY <1>3 DEF vote_new_parameters
    <2>2. QED
      BY <1>1, <1>3, <2>1, TransitionKeyInv
  <1>4. CASE accepted /\ phase = "Resharing"
    <2>1. BecomeResharing(e, p) /\ e = key_event.epoch_id + 1
      BY <1>4 DEF vote_new_parameters, prospective_epoch_id
    <2>2. e > keyset.epoch_id /\ domains # <<>>
      BY <1>4, <2>1, KeyEventInProgress, KeyEventType
         DEF KeyInv, ProtocolTypeOK, KeysetMatchesDomains
    <2>3. QED
      BY <1>1, <1>4, <2>1, <2>2, BecomeResharingKeyInv
  <1>5. QED
    BY <1>2, <1>3, <1>4 DEF vote_new_parameters

\* Starting an attempt, of a key generation or a resharing, keeps the invariant.
LEMMA StartKeyInv ==
  ASSUME KeyInv, TeeTypeOK, NEW a \in Accounts, NEW id,
         start_reshare_instance(a, id) \/ start_keygen_instance(a, id)
  PROVE  KeyInv'
  <1>1. /\ phase # "Running"
        /\ key_event' = start(key_event, height, key_event_timeout_blocks)
        /\ UNCHANGED <<phase, domains, next_domain_id, keyset, parameters, parameters_votes,
                       add_domains_votes, cancelled_epoch, reshared_keys, cancel_votes>>
    BY DEF start_reshare_instance, start_keygen_instance
  <1>2. height \in Nat /\ key_event_timeout_blocks \in Nat
    BY ConstantsAssumption DEF TeeTypeOK
  <1>3. QED
    BY <1>1, <1>2, KeyEventInProgress, StartType, KeyEventStepKeyInv

\* vote_abort_key_event_instance keeps the invariant.
LEMMA AbortKeyInv ==
  ASSUME KeyInv, NEW a \in Accounts, NEW id, vote_abort_key_event_instance(a, id)
  PROVE  KeyInv'
  BY KeyEventInProgress, WithoutInstanceType, KeyEventStepKeyInv
     DEF vote_abort_key_event_instance

\* vote_cancel_resharing keeps the invariant: the keys were never touched, and
\* the epoch it remembers lies above theirs.
LEMMA CancelResharingKeyInv ==
  ASSUME KeyInv, NEW a \in Accounts, vote_cancel_resharing(a)
  PROVE  KeyInv'
  <1>0. /\ phase = "Resharing"
        /\ UNCHANGED <<domains, next_domain_id, keyset, parameters, parameters_votes,
                       add_domains_votes>>
    BY DEF vote_cancel_resharing
  <1>1. CASE /\ cancel_votes' = cancel_votes \cup {a}
             /\ UNCHANGED <<phase, cancelled_epoch, key_event, reshared_keys>>
    BY <1>0, <1>1 DEF KeyInv, ProtocolTypeOK, KeysetMatchesDomains, CancelledAbove
  <1>2. CASE /\ phase' = "Running"
             /\ cancelled_epoch' = key_event.epoch_id
             /\ key_event' = NoKeyEvent
             /\ reshared_keys' = <<>>
             /\ cancel_votes' = {}
    <2>1. key_event.epoch_id \in Nat /\ key_event.epoch_id > keyset.epoch_id
      BY <1>0, KeyEventInProgress, KeyEventType DEF KeyInv, KeysetMatchesDomains
    <2>2. QED
      BY <1>0, <1>2, <2>1 DEF KeyInv, ProtocolTypeOK, KeysetMatchesDomains, CancelledAbove
  <1>3. QED
    BY <1>1, <1>2 DEF vote_cancel_resharing

\* vote_add_domains keeps the invariant: the key event it creates is about the
\* first domain without a key.
LEMMA VoteAddDomainsKeyInv ==
  ASSUME KeyInv, NEW a \in Accounts, NEW new \in DomainProposals, vote_add_domains(a, new)
  PROVE  KeyInv'
  <1> DEFINE votes == WithVoteOf(add_domains_votes, parameters.participants[a], new)
             enough == Cardinality(VotersFor(votes, new)) = Cardinality(Members(parameters))
  <1>1. CASE ~ enough
    <2>1. parameters.participants[a] \in Nat
      BY ParametersType DEF KeyInv, ProtocolTypeOK, vote_add_domains
    <2>2. /\ DOMAIN votes \subseteq Nat
          /\ votes \in [DOMAIN votes -> DomainProposals]
      BY <2>1 DEF KeyInv, ProtocolTypeOK, WithVoteOf
    <2>3. /\ add_domains_votes' = votes
          /\ UNCHANGED <<phase, domains, next_domain_id, keyset, parameters, parameters_votes,
                         cancelled_epoch, key_event, reshared_keys, cancel_votes>>
      BY <1>1 DEF vote_add_domains
    <2> HIDE DEF votes
    <2>4. QED
      BY <2>2, <2>3 DEF KeyInv, ProtocolTypeOK, KeysetMatchesDomains, CancelledAbove
  <1>2. CASE enough
    <2>1. new \in Seq(Nat) /\ Len(new) >= 1 /\ new[1] \in Nat
      BY ConstantsAssumption DEF vote_add_domains
    <2>2. /\ phase = "Running" /\ phase' = "Initializing"
          /\ domains' = domains \o new
          /\ next_domain_id' = next_domain_id + Len(new)
          /\ key_event' = KeyEventNew(keyset.epoch_id, new[1], parameters)
          /\ parameters_votes' = NoVotes /\ add_domains_votes' = NoVotes
          /\ cancelled_epoch' = NoEpoch
          /\ UNCHANGED <<keyset, parameters, reshared_keys, cancel_votes>>
      BY <1>2 DEF vote_add_domains
    <2>3. /\ IsKeyEvent(key_event')
          /\ key_event'.epoch_id = keyset.epoch_id
          /\ key_event'.domain_id = new[1]
          /\ key_event'.parameters = parameters
      BY <2>1, <2>2, KeyEventNewType DEF KeyInv, ProtocolTypeOK
    <2>4. /\ domains' \in Seq(Nat)
          /\ Len(domains') = Len(domains) + Len(new)
          /\ \A i \in 1 .. Len(domains) : domains'[i] = domains[i]
          /\ domains'[Len(domains) + 1] = new[1]
      BY <2>1, <2>2 DEF KeyInv, ProtocolTypeOK
    <2>5. ProtocolTypeOK'
      BY <2>1, <2>2, <2>3, <2>4, NoVotesType DEF KeyInv, ProtocolTypeOK, NoEpoch
    <2>6. KeysetMatchesDomains'
      <3>1. /\ Len(keyset.domains) = Len(domains) /\ Len(domains) \in Nat
            /\ \A i \in 1 .. Len(keyset.domains) : keyset.domains[i].domain_id = domains[i]
        BY <2>2 DEF KeyInv, ProtocolTypeOK, KeysetMatchesDomains
      <3>2. /\ Len(keyset.domains) < Len(domains')
            /\ domains'[Len(keyset.domains) + 1] = new[1]
            /\ \A i \in 1 .. Len(keyset.domains) : keyset.domains[i].domain_id = domains'[i]
        <4>1. Len(new) \in Nat /\ Len(new) >= 1
          BY <2>1
        <4>2. Len(keyset.domains) < Len(domains')
          BY <2>4, <3>1, <4>1
        <4>3. domains'[Len(keyset.domains) + 1] = new[1]
          BY <2>4, <3>1
        <4>4. \A i \in 1 .. Len(keyset.domains) : keyset.domains[i].domain_id = domains'[i]
          <5>1. TAKE i \in 1 .. Len(keyset.domains)
          <5>2. i \in 1 .. Len(domains) /\ keyset.domains[i].domain_id = domains[i]
            BY <3>1
          <5>3. QED
            BY <2>4, <5>2
        <4>5. QED
          BY <4>2, <4>3, <4>4
      <3>3. phase' = "Initializing" /\ keyset' = keyset /\ parameters' = parameters
        BY <2>2
      <3>4. QED
        BY <2>3, <3>1, <3>2, <3>3 DEF KeysetMatchesDomains
    <2>7. QED
      BY <2>2, <2>5, <2>6 DEF KeyInv, CancelledAbove
  <1>3. QED
    BY <1>1, <1>2

\* Appending the key of the next domain extends a list of keys that follows the
\* registry.
LEMMA AppendKey ==
  ASSUME NEW keys \in Seq(KeysForDomain), NEW ds \in Seq(Nat),
         Len(keys) < Len(ds),
         \A i \in 1 .. Len(keys) : keys[i].domain_id = ds[i],
         NEW k \in KeysForDomain, k.domain_id = ds[Len(keys) + 1]
  PROVE  /\ Append(keys, k) \in Seq(KeysForDomain)
         /\ Len(Append(keys, k)) = Len(keys) + 1
         /\ \A i \in 1 .. Len(keys) : Append(keys, k)[i] = keys[i]
         /\ Append(keys, k)[Len(keys) + 1] = k
         /\ \A i \in 1 .. Len(keys) + 1 : Append(keys, k)[i].domain_id = ds[i]
  OBVIOUS

\* KeyForDomain::new takes the domain and the attempt from the id voted for.
LEMMA KeyForDomainType ==
  ASSUME NEW id \in [epoch_id : Nat, domain_id : Nat, attempt_id : Nat], NEW key \in PublicKeys
  PROVE  /\ KeyForDomain(id, key) \in KeysForDomain
         /\ KeyForDomain(id, key).domain_id = id.domain_id
         /\ KeyForDomain(id, key).key = key
  BY DEF KeyForDomain, KeysForDomain

\* vote_reshared keeps the invariant: a vote only, the next domain, or the end
\* of the resharing.
LEMMA VoteResharedKeyInv ==
  ASSUME KeyInv, NEW a \in Accounts, NEW id \in [epoch_id : Nat, domain_id : Nat, attempt_id : Nat],
         vote_reshared(a, id)
  PROVE  KeyInv'
  <1> DEFINE m == Len(reshared_keys)
             key == keyset.domains[m + 1].key
             reshared == Append(reshared_keys, KeyForDomain(id, key))
  <1>1. /\ phase = "Resharing"
        /\ IsKeyEvent(key_event)
        /\ m \in Nat /\ m < Len(domains)
        /\ keyset.domains[m + 1] \in KeysForDomain
    BY KeyEventInProgress DEF vote_reshared, KeyInv, ProtocolTypeOK, KeysetMatchesDomains
  <1>2. /\ id.domain_id = domains[m + 1]
        /\ key_event.instance # NoInstance
    BY <1>1 DEF vote_reshared, verify_vote, active, KeyInv, KeysetMatchesDomains
  <1>3. key \in PublicKeys
    BY <1>1 DEF KeysForDomain
  <1>4. CASE /\ key_event' = WithVote(key_event, a, key)
             /\ UNCHANGED <<phase, domains, next_domain_id, keyset, parameters,
                            parameters_votes, add_domains_votes, cancelled_epoch,
                            reshared_keys, cancel_votes>>
    <2> HIDE DEF key
    <2>1. QED
      BY <1>1, <1>2, <1>3, <1>4, WithVoteType, KeyEventStepKeyInv
  <1>5. /\ reshared \in Seq(KeysForDomain)
        /\ Len(reshared) = m + 1
        /\ \A i \in 1 .. m : reshared[i] = reshared_keys[i]
        /\ reshared[m + 1].key = key
        /\ \A i \in 1 .. Len(reshared) : reshared[i].domain_id = domains[i]
    <2>1. /\ reshared_keys \in Seq(KeysForDomain) /\ domains \in Seq(Nat)
          /\ \A i \in 1 .. m : reshared_keys[i].domain_id = domains[i]
      BY <1>1 DEF KeyInv, ProtocolTypeOK, KeysetMatchesDomains
    <2> DEFINE k == KeyForDomain(id, key)
    <2>2. k \in KeysForDomain /\ k.domain_id = domains[m + 1] /\ k.key = key
      <3> HIDE DEF key
      <3>1. QED
        BY <1>2, <1>3, KeyForDomainType
    <2> HIDE DEF k
    <2>3. reshared = Append(reshared_keys, k)
      BY DEF k
    <2> HIDE DEF key, reshared
    <2>4. QED
      BY <1>1, <2>1, <2>2, <2>3, AppendKey
  <1>6. CASE /\ Len(reshared) < Len(domains)
             /\ reshared_keys' = reshared
             /\ key_event' = KeyEventNew(key_event.epoch_id, domains[Len(reshared) + 1],
                                         key_event.parameters)
             /\ UNCHANGED <<phase, domains, next_domain_id, keyset, parameters,
                            parameters_votes, add_domains_votes, cancelled_epoch,
                            cancel_votes>>
    <2>1. /\ key_event.epoch_id \in Nat
          /\ domains[Len(reshared) + 1] \in Nat
          /\ IsThresholdParameters(key_event.parameters)
      BY <1>1, <1>5, <1>6, KeyEventType, SMTT(30) DEF KeyInv, ProtocolTypeOK
    <2>2. /\ IsKeyEvent(key_event')
          /\ key_event'.epoch_id = key_event.epoch_id
          /\ key_event'.domain_id = domains[Len(reshared) + 1]
      BY <1>6, <2>1, KeyEventNewType
    <2>3. \A i \in 1 .. Len(reshared) : reshared[i].key = keyset.domains[i].key
      BY <1>1, <1>5 DEF KeyInv, ProtocolTypeOK, KeysetMatchesDomains
    <2> HIDE DEF reshared, key
    <2>4. QED
      BY <1>1, <1>5, <1>6, <2>2, <2>3
         DEF KeyInv, ProtocolTypeOK, KeysetMatchesDomains, CancelledAbove
  <1>7. CASE /\ Len(reshared) >= Len(domains)
             /\ BecomeRunning(domains,
                              [epoch_id |-> key_event.epoch_id, domains |-> reshared],
                              key_event.parameters, add_domains_votes)
    <2> DEFINE ks == [epoch_id |-> key_event.epoch_id, domains |-> reshared]
    <2>1. /\ IsThresholdParameters(key_event.parameters)
          /\ key_event.epoch_id \in Nat
      BY <1>1, KeyEventType
    <2> HIDE DEF reshared
    <2>2. /\ ks \in [epoch_id : Nat, domains : Seq(KeysForDomain)]
          /\ ks.domains = reshared
          /\ Len(reshared) = Len(domains)
      BY <1>1, <1>5, <1>7, <2>1 DEF KeyInv, ProtocolTypeOK
    <2>3. \A i \in 1 .. Len(domains) : ks.domains[i].domain_id = domains[i]
      BY <1>5, <2>2
    <2>4. BecomeRunning(domains, ks, key_event.parameters, add_domains_votes)
      BY <1>7
    <2> HIDE DEF ks
    <2>5. QED
      BY <2>1, <2>2, <2>3, <2>4, BecomeRunningKeyInv DEF KeyInv, ProtocolTypeOK
  <1>8. QED
    BY <1>4, <1>6, <1>7 DEF vote_reshared, previous_key, DomainAfter, ResharedKeyset

\* vote_pk keeps the invariant: a vote only, the end of the attempt, the next
\* domain, or the end of the key generation.
LEMMA VotePkKeyInv ==
  ASSUME KeyInv, NEW a \in Accounts, NEW id \in [epoch_id : Nat, domain_id : Nat, attempt_id : Nat],
         NEW key \in PublicKeys, vote_pk(a, id, key)
  PROVE  KeyInv'
  <1> DEFINE n == Len(keyset.domains)
             generated == Append(keyset.domains, KeyForDomain(id, key))
             ks == [keyset EXCEPT !.domains = generated]
  <1>1. /\ phase = "Initializing"
        /\ IsKeyEvent(key_event)
        /\ n \in Nat /\ n < Len(domains)
        /\ keyset \in [epoch_id : Nat, domains : Seq(KeysForDomain)]
        /\ domains \in Seq(Nat)
        /\ key_event.parameters = parameters
        /\ key_event.epoch_id = keyset.epoch_id
        /\ IsThresholdParameters(parameters)
        /\ \A i \in 1 .. n : keyset.domains[i].domain_id = domains[i]
    BY KeyEventInProgress DEF vote_pk, KeyInv, ProtocolTypeOK, KeysetMatchesDomains
  <1>2. /\ id.domain_id = domains[n + 1]
        /\ key_event.instance # NoInstance
        /\ id.attempt_id \in Nat
    BY <1>1 DEF vote_pk, verify_vote, active, KeyInv, KeysetMatchesDomains
  <1>3. CASE /\ \/ key_event' = WithoutInstance(key_event)
                \/ key_event' = WithVote(key_event, a, key)
             /\ UNCHANGED <<phase, domains, next_domain_id, keyset, parameters,
                            parameters_votes, add_domains_votes, cancelled_epoch,
                            reshared_keys, cancel_votes>>
    BY <1>1, <1>2, <1>3, WithVoteType, WithoutInstanceType, KeyEventStepKeyInv
  <1>4. /\ generated \in Seq(KeysForDomain)
        /\ Len(generated) = n + 1
        /\ \A i \in 1 .. n : generated[i] = keyset.domains[i]
        /\ \A i \in 1 .. Len(generated) : generated[i].domain_id = domains[i]
    <2> DEFINE k == KeyForDomain(id, key)
    <2>1. k \in KeysForDomain /\ k.domain_id = domains[n + 1]
      BY <1>2, KeyForDomainType
    <2> HIDE DEF k
    <2>2. generated = Append(keyset.domains, k)
      BY DEF k
    <2>3. keyset.domains \in Seq(KeysForDomain)
      BY <1>1
    <2> HIDE DEF generated
    <2>4. QED
      BY <1>1, <2>1, <2>2, <2>3, AppendKey
  <1> HIDE DEF generated
  <1>5. /\ ks \in [epoch_id : Nat, domains : Seq(KeysForDomain)]
        /\ ks.domains = generated
        /\ ks.epoch_id = keyset.epoch_id
    BY <1>1, <1>4
  <1> HIDE DEF ks
  <1>6. CASE /\ Len(generated) < Len(domains)
             /\ keyset' = ks
             /\ key_event' = KeyEventNew(keyset.epoch_id, domains[Len(generated) + 1],
                                         key_event.parameters)
             /\ UNCHANGED <<phase, domains, next_domain_id, parameters,
                            parameters_votes, add_domains_votes, cancelled_epoch,
                            reshared_keys, cancel_votes>>
    <2>1. domains[Len(generated) + 1] \in Nat /\ keyset.epoch_id \in Nat
      BY <1>1, <1>4, <1>6
    <2>2. /\ IsKeyEvent(key_event')
          /\ key_event'.epoch_id = keyset.epoch_id
          /\ key_event'.domain_id = domains[Len(generated) + 1]
          /\ key_event'.parameters = parameters
      BY <1>1, <1>6, <2>1, KeyEventNewType, SMTT(30)
    <2>3. ProtocolTypeOK'
      BY <1>5, <1>6, <2>2 DEF KeyInv, ProtocolTypeOK
    <2>4. KeysetMatchesDomains'
      <3>1. /\ Len(keyset'.domains) = n + 1 /\ n + 1 < Len(domains')
            /\ \A i \in 1 .. n + 1 : keyset'.domains[i].domain_id = domains'[i]
        BY <1>1, <1>4, <1>5, <1>6
      <3>2. QED
        BY <1>1, <1>4, <1>5, <1>6, <2>2, <3>1, SMTT(30) DEF KeysetMatchesDomains
    <2>5. QED
      BY <1>5, <1>6, <2>3, <2>4 DEF KeyInv, CancelledAbove
  <1>7. CASE /\ Len(generated) >= Len(domains)
             /\ BecomeRunning(domains, ks, key_event.parameters, NoVotes)
    <2>1. /\ Len(ks.domains) = Len(domains)
          /\ \A i \in 1 .. Len(domains) : ks.domains[i].domain_id = domains[i]
      BY <1>1, <1>4, <1>5, <1>7
    <2>2. QED
      BY <1>1, <1>5, <1>7, <2>1, NoVotesType, BecomeRunningKeyInv DEF KeyInv
  <1>8. QED
    BY <1>3, <1>6, <1>7 DEF vote_pk, generated, ks, DomainAfter

\* vote_cancel_keygen keeps the invariant: it drops exactly the domains without
\* a key.
LEMMA CancelKeygenKeyInv ==
  ASSUME KeyInv, NEW a \in Accounts, NEW id, vote_cancel_keygen(a, id)
  PROVE  KeyInv'
  <1> DEFINE n == Len(keyset.domains)
             kept == SubSeq(domains, 1, n)
  <1>1. /\ phase = "Initializing"
        /\ key_event.parameters = parameters
        /\ IsThresholdParameters(parameters)
        /\ n \in Nat /\ n < Len(domains)
        /\ domains \in Seq(Nat)
        /\ \A i \in 1 .. n : keyset.domains[i].domain_id = domains[i]
        /\ keyset \in [epoch_id : Nat, domains : Seq(KeysForDomain)]
    BY DEF vote_cancel_keygen, KeyInv, ProtocolTypeOK, KeysetMatchesDomains
  <1>2. CASE /\ cancel_votes' = cancel_votes \cup {a}
             /\ UNCHANGED <<phase, domains, next_domain_id, keyset, parameters,
                            parameters_votes, add_domains_votes, cancelled_epoch,
                            key_event, reshared_keys>>
    BY <1>2 DEF KeyInv, ProtocolTypeOK, KeysetMatchesDomains, CancelledAbove
  <1>3. CASE BecomeRunning(kept, keyset, key_event.parameters, NoVotes)
    <2>1. /\ kept \in Seq(Nat) /\ Len(kept) = n
          /\ \A i \in 1 .. Len(kept) : keyset.domains[i].domain_id = kept[i]
      BY <1>1
    <2> HIDE DEF kept
    <2>2. QED
      BY <1>1, <1>3, <2>1, NoVotesType, BecomeRunningKeyInv DEF KeyInv
  <1>4. QED
    BY <1>2, <1>3 DEF vote_cancel_keygen, retain_domains

\* verify_tee keeps the invariant.
LEMMA VerifyTeeKeyInv ==
  ASSUME KeyInv, NEW a \in Accounts, verify_tee(a)
  PROVE  KeyInv'
  <1> DEFINE proposal == RestrictTo(parameters, Members(parameters) \cap ValidAttestation)
  <1>1. CASE UNCHANGED protocolVars
    BY <1>1 DEF protocolVars, KeyInv, ProtocolTypeOK, KeysetMatchesDomains, CancelledAbove
  <1>2. CASE transition_to_resharing_no_checks(proposal)
    <2>1. IsThresholdParameters(proposal)
      BY RestrictToType DEF KeyInv, ProtocolTypeOK
    <2> HIDE DEF proposal
    <2>2. QED
      BY <1>2, <2>1, TransitionKeyInv DEF verify_tee
  <1>3. QED
    BY <1>1, <1>2 DEF verify_tee

\* Ids that callers may name are well-typed.
LEMMA CallableIdType ==
  ASSUME KeyInv, NEW id \in CallableIds
  PROVE  id \in [epoch_id : Nat, domain_id : Nat, attempt_id : Nat]
  BY ConstantsAssumption, SMTT(30) DEF CallableIds, KeyInv, ProtocolTypeOK

\* The invariant holds after init and init_running.
LEMMA InitKeyInv == Init => KeyInv /\ TeeTypeOK
  <1> SUFFICES ASSUME Init PROVE KeyInv /\ TeeTypeOK
    OBVIOUS
  <1>1. PICK keys \in [1 .. Len(InitialDomains) -> PublicKeys] :
          keyset = [epoch_id |-> 0,
                    domains |-> [i \in 1 .. Len(InitialDomains) |->
                        [domain_id |-> InitialDomains[i], key |-> keys[i], attempt |-> 0]]]
    BY DEF Init
  <1>2. /\ keyset \in [epoch_id : Nat, domains : Seq(KeysForDomain)]
        /\ Len(keyset.domains) = Len(InitialDomains)
        /\ \A i \in 1 .. Len(InitialDomains) : keyset.domains[i].domain_id = InitialDomains[i]
    <2> DEFINE n    == Len(InitialDomains)
               ds   == [i \in 1 .. n |-> [domain_id |-> InitialDomains[i],
                                           key |-> keys[i], attempt |-> 0]]
    <2>1. n \in Nat /\ \A i \in 1 .. n : InitialDomains[i] \in Nat
      BY InitialAssumption
    <2>2. ds \in [1 .. n -> KeysForDomain]
      BY <2>1 DEF KeysForDomain
    <2>3. ds \in Seq(KeysForDomain) /\ Len(ds) = n
      <3>1. \A m \in Nat : \A f \in [1 .. m -> KeysForDomain] :
              f \in Seq(KeysForDomain) /\ Len(f) = m
        OBVIOUS
      <3> HIDE DEF ds, n
      <3>2. QED
        BY <2>1, <2>2, <3>1
    <2>4. QED
      BY <1>1, <2>3
  <1>3. ProtocolTypeOK
    BY <1>2, InitialAssumption, NoVotesType DEF Init, ProtocolTypeOK, NoEpoch
  <1>4. KeysetMatchesDomains
    BY <1>2 DEF Init, KeysetMatchesDomains
  <1>5. TeeTypeOK
    BY DEF Init, TeeTypeOK, NodeAttestations
  <1>6. QED
    BY <1>3, <1>4, <1>5 DEF KeyInv, CancelledAbove, Init

\* An entry that is there says so in its status, and its status may change.
LEMMA AttestationStatus ==
  /\ \A x \in NodeAttestations : x # NoAttestation /\ x.status # "none"
  /\ NoAttestation.status = "none"
  /\ \A x \in NodeAttestations, s \in {"mock", "quote", "lapsed"} :
        [x EXCEPT !.status = s] \in NodeAttestations
  BY DEF NodeAttestations, NoAttestation

\* No submission or reverification removes an entry.
LEMMA EntriesStay ==
  ASSUME TeeTypeOK, NEW a \in Accounts,
         (\E k \in Accounts : submit_participant_info(a, k)) \/ ReverificationChanges(a)
  PROVE  /\ stored_attestations' \in [Accounts -> NodeAttestations \cup {NoAttestation}]
         /\ \A b \in Accounts :
               stored_attestations[b] # NoAttestation => stored_attestations'[b] # NoAttestation
  <1>1. \E k \in Accounts, x \in NodeAttestations : stored_attestations' = [stored_attestations EXCEPT ![k] = x]
    <2>1. ASSUME NEW k \in Accounts, submit_participant_info(a, k)
          PROVE  \E x \in NodeAttestations : stored_attestations' = [stored_attestations EXCEPT ![k] = x]
      <3> DEFINE x == [account_id |-> a, status |-> IF a = k /\ a \in Quoted THEN "quote" ELSE "mock"]
      <3>1. x \in NodeAttestations
        BY DEF NodeAttestations
      <3>2. stored_attestations' = [stored_attestations EXCEPT ![k] = x]
        BY <2>1 DEF submit_participant_info
      <3>3. QED
        BY <3>1, <3>2
    <2>2. ASSUME ReverificationChanges(a)
          PROVE  \E x \in NodeAttestations : stored_attestations' = [stored_attestations EXCEPT ![a] = x]
      <3> DEFINE old == stored_attestations[a]
      <3>1. old \in NodeAttestations
        BY <2>2, AttestationStatus DEF ReverificationChanges, TeeTypeOK
      <3>2. \E s \in {"mock", "quote", "lapsed"} :
               stored_attestations' = [stored_attestations EXCEPT ![a] = [old EXCEPT !.status = s]]
        BY <2>2 DEF ReverificationChanges
      <3>3. QED
        BY <3>1, <3>2, AttestationStatus
    <2>3. QED
      BY <2>1, <2>2
  <1>2. PICK k \in Accounts, x \in NodeAttestations : stored_attestations' = [stored_attestations EXCEPT ![k] = x]
    BY <1>1
  <1>3. QED
    BY <1>2, AttestationStatus DEF TeeTypeOK

\* Every step keeps the types of the attestation state.
LEMMA NextTeeType == TypeOK /\ [Next]_vars => TeeTypeOK'
  <1> SUFFICES ASSUME TypeOK, [Next]_vars PROVE TeeTypeOK'
    OBVIOUS
  <1> USE DEF TypeOK, TeeTypeOK, teeVars
  <1>1. ASSUME NEW a \in Accounts, NEW id, NEW pk,
               \/ \E e, p : vote_new_parameters(a, e, p)
               \/ \E ds : vote_add_domains(a, ds)
               \/ start_keygen_instance(a, id) \/ vote_pk(a, id, pk)
               \/ start_reshare_instance(a, id)
               \/ vote_abort_key_event_instance(a, id)
               \/ vote_cancel_resharing(a) \/ vote_cancel_keygen(a, id)
        PROVE  TeeTypeOK'
    BY <1>1 DEF vote_new_parameters, vote_add_domains, start_keygen_instance, vote_pk,
         start_reshare_instance, vote_abort_key_event_instance, vote_cancel_resharing,
         vote_cancel_keygen
  <1>2. ASSUME NEW a \in Accounts, NEW id, vote_reshared(a, id) PROVE TeeTypeOK'
    BY <1>2 DEF vote_reshared
  <1>3. ASSUME NEW a \in Accounts, verify_tee(a)
        PROVE  TeeTypeOK'
    BY <1>3 DEF verify_tee
  <1>4. CASE clean_tee_status
    BY <1>4 DEF clean_tee_status
  <1>5. CASE NextBlock
    BY <1>5 DEF NextBlock
  <1>6. CASE UNCHANGED vars
    BY <1>6 DEF vars
  <1>7. ASSUME NEW a \in Accounts,
               (\E k \in Accounts : submit_participant_info(a, k)) \/ ReverificationChanges(a)
        PROVE  TeeTypeOK'
    <2>1. stored_attestations' \in [Accounts -> NodeAttestations \cup {NoAttestation}]
      BY <1>7, EntriesStay
    <2>2. QED
      BY <1>7, <2>1 DEF submit_participant_info, ReverificationChanges
  <1>8. \A s \in Submissions : s[1] \in Accounts /\ s[2] \in Accounts
    BY ConstantsAssumption
  <1>9. QED
    BY <1>1, <1>2, <1>3, <1>4, <1>5, <1>6, <1>7, <1>8 DEF Next, OperatorNext, NodeNext

\* Every step keeps the invariant, one case per action.
LEMMA NextKeyInv == KeyInv /\ TeeTypeOK /\ [Next]_vars => KeyInv'
  <1> SUFFICES ASSUME KeyInv, TeeTypeOK, [Next]_vars PROVE KeyInv'
    OBVIOUS
  <1>1. ASSUME NEW a \in Accounts, NEW e \in 0 .. MaxEpoch, NEW p \in Proposals,
               vote_new_parameters(a, e, p)
        PROVE  KeyInv'
    BY <1>1, ConstantsAssumption, VoteNewParametersKeyInv
  <1>2. ASSUME NEW a \in Accounts, NEW ds \in DomainProposals, vote_add_domains(a, ds)
        PROVE  KeyInv'
    BY <1>2, VoteAddDomainsKeyInv
  <1>3. ASSUME NEW a \in Accounts, NEW id \in CallableIds,
               start_keygen_instance(a, id) \/ start_reshare_instance(a, id)
        PROVE  KeyInv'
    BY <1>3, StartKeyInv
  <1>4. ASSUME NEW a \in Accounts, NEW id \in CallableIds, NEW pk \in PublicKeys,
               vote_pk(a, id, pk)
        PROVE  KeyInv'
    BY <1>4, CallableIdType, VotePkKeyInv
  <1>5. ASSUME NEW a \in Accounts, NEW id \in CallableIds, vote_reshared(a, id)
        PROVE  KeyInv'
    BY <1>5, CallableIdType, VoteResharedKeyInv
  <1>6. ASSUME NEW a \in Accounts, NEW id \in CallableIds,
               vote_abort_key_event_instance(a, id)
        PROVE  KeyInv'
    BY <1>6, AbortKeyInv
  <1>7. ASSUME NEW a \in Accounts, vote_cancel_resharing(a)
        PROVE  KeyInv'
    BY <1>7, CancelResharingKeyInv
  <1>8. ASSUME NEW a \in Accounts, NEW id \in 0 .. next_domain_id, vote_cancel_keygen(a, id)
        PROVE  KeyInv'
    BY <1>8, CancelKeygenKeyInv
  <1>9. ASSUME NEW a \in Accounts, verify_tee(a)
        PROVE  KeyInv'
    BY <1>9, VerifyTeeKeyInv
  <1>10. CASE UNCHANGED protocolVars
    BY <1>10 DEF protocolVars, KeyInv, ProtocolTypeOK, KeysetMatchesDomains, CancelledAbove
  <1>11. QED
    BY <1>1, <1>2, <1>3, <1>4, <1>5, <1>6, <1>7, <1>8, <1>9, <1>10
       DEF Next, OperatorNext, NodeNext, vars, submit_participant_info, ReverificationChanges, clean_tee_status,
           NextBlock

\* The inductive invariant holds throughout.
LEMMA AlwaysKeyInv == Spec => [](KeyInv /\ TeeTypeOK)
  <1>1. Init => KeyInv /\ TeeTypeOK
    BY InitKeyInv
  <1>2. KeyInv /\ TeeTypeOK /\ [Next]_vars => (KeyInv /\ TeeTypeOK)'
    BY NextKeyInv, NextTeeType DEF KeyInv, TypeOK
  <1>3. QED
    BY <1>1, <1>2, PTL DEF Spec

\* The contract's state is always well-typed and its keys follow the registry
\* of domains in all three phases, for any participants, domains and bounds; in
\* particular no vote_reshared indexes past the previous keys.
THEOREM KeysetTheorem == Spec => [](TypeOK /\ KeysetMatchesDomains)
  <1>1. KeyInv /\ TeeTypeOK => TypeOK /\ KeysetMatchesDomains
    BY DEF KeyInv, TypeOK
  <1>2. QED
    BY <1>1, AlwaysKeyInv, PTL

\* The contract's state is always well-typed (state.rs and what it is made of).
THEOREM TypeTheorem == Spec => []TypeOK
  BY KeysetTheorem, PTL

-----------------------------------------------------------------------------
\* What no step may do to the keys and the epoch.
KeepsKeys == KeepsPublicKeys /\ GrowsEpoch

\* A step that leaves keyset and parameters alone changes no key.
LEMMA SameKeysetKeepsKeys ==
  ASSUME KeyInv, UNCHANGED <<keyset, parameters>>
  PROVE  KeepsKeys
  BY DEF KeyInv, ProtocolTypeOK, KeepsKeys, KeepsPublicKeys, GrowsEpoch

\* transition_to_resharing_no_checks changes no key, and changes the parameters
\* at once only together with the epoch.
LEMMA TransitionKeepsKeys ==
  ASSUME KeyInv, phase = "Running", NEW p, transition_to_resharing_no_checks(p)
  PROVE  KeepsKeys
  <1>1. CASE domains # <<>>
    BY <1>1, SameKeysetKeepsKeys DEF transition_to_resharing_no_checks, BecomeResharing
  <1>2. CASE domains = <<>>
    <2>1. Len(keyset.domains) = 0 /\ keyset.epoch_id \in Nat
      BY <1>2 DEF KeyInv, ProtocolTypeOK, KeysetMatchesDomains
    <2>2. keyset'.epoch_id = keyset.epoch_id + 1
      BY <1>2 DEF transition_to_resharing_no_checks, BecomeRunning
    <2>3. QED
      BY <2>1, <2>2 DEF KeepsKeys, KeepsPublicKeys, GrowsEpoch
  <1>3. QED
    BY <1>1, <1>2

\* vote_reshared changes no public key: every vote is for the previous key of
\* the domain, and the resharing ends when every domain has been reshared.
LEMMA VoteResharedKeepsKeys ==
  ASSUME KeyInv, NEW a \in Accounts,
         NEW id \in [epoch_id : Nat, domain_id : Nat, attempt_id : Nat],
         vote_reshared(a, id)
  PROVE  KeepsKeys
  <1> DEFINE m == Len(reshared_keys)
             k == KeyForDomain(id, previous_key)
             reshared == Append(reshared_keys, k)
  <1>1. /\ phase = "Resharing"
        /\ m \in Nat /\ m < Len(domains) /\ Len(keyset.domains) = Len(domains)
        /\ reshared_keys \in Seq(KeysForDomain)
        /\ keyset.domains \in Seq(KeysForDomain)
        /\ \A i \in 1 .. m : /\ reshared_keys[i].domain_id = keyset.domains[i].domain_id
                             /\ reshared_keys[i].key = keyset.domains[i].key
        /\ keyset.domains[m + 1].domain_id = domains[m + 1]
        /\ key_event.domain_id = domains[m + 1]
        /\ key_event.epoch_id > keyset.epoch_id
        /\ key_event.epoch_id \in Nat /\ keyset.epoch_id \in Nat
    <2>1. phase = "Resharing"
      BY DEF vote_reshared
    <2>2. key_event.epoch_id \in Nat
      BY <2>1, KeyEventInProgress, KeyEventType
    <2>3. /\ reshared_keys \in Seq(KeysForDomain)
          /\ keyset.domains \in Seq(KeysForDomain)
          /\ keyset.epoch_id \in Nat
          /\ m \in Nat
      BY DEF KeyInv, ProtocolTypeOK
    <2>4. /\ m < Len(keyset.domains) /\ Len(keyset.domains) = Len(domains)
          /\ \A i \in 1 .. Len(keyset.domains) : keyset.domains[i].domain_id = domains[i]
          /\ \A i \in 1 .. m : reshared_keys[i].domain_id = domains[i]
          /\ \A i \in 1 .. m : reshared_keys[i].key = keyset.domains[i].key
          /\ key_event.domain_id = domains[m + 1]
          /\ key_event.epoch_id > keyset.epoch_id
      BY <2>1 DEF KeyInv, KeysetMatchesDomains
    <2>5. Len(keyset.domains) \in Nat
      BY <2>3
    <2>6. /\ \A i \in 1 .. m : i \in 1 .. Len(keyset.domains)
          /\ m + 1 \in 1 .. Len(keyset.domains)
      BY <2>3, <2>4, <2>5
    <2>7. QED
      BY <2>1, <2>2, <2>3, <2>4, <2>5, <2>6
  <1>2. id.domain_id = domains[m + 1]
    BY <1>1 DEF vote_reshared, verify_vote
  <1>3. k.domain_id = domains[m + 1] /\ k.key = keyset.domains[m + 1].key
    BY <1>2 DEF KeyForDomain, previous_key
  <1>4. CASE UNCHANGED <<keyset, parameters>>
    BY <1>4, SameKeysetKeepsKeys
  <1>5. CASE /\ Len(reshared) >= Len(domains)
             /\ keyset' = ResharedKeyset(reshared)
    <2> HIDE DEF k
    <2>1. /\ Len(reshared) = m + 1
          /\ \A i \in 1 .. m : reshared[i] = reshared_keys[i]
          /\ reshared[m + 1] = k
      BY <1>1
    <2> HIDE DEF reshared
    <2>2. m + 1 = Len(domains)
      BY <1>1, <1>5, <2>1
    <2>3. keyset'.domains = reshared /\ keyset'.epoch_id = key_event.epoch_id
      BY <1>5 DEF ResharedKeyset
    <2>4. KeepsPublicKeys
      BY <1>1, <1>3, <2>1, <2>2, <2>3, SMTT(30) DEF KeepsPublicKeys
    <2>5. GrowsEpoch
      BY <1>1, <2>3 DEF GrowsEpoch
    <2>6. QED
      BY <2>4, <2>5 DEF KeepsKeys
  <1>6. QED
    BY <1>4, <1>5 DEF vote_reshared, BecomeRunning

\* vote_pk only appends keys, under the same parameters and epoch.
LEMMA VotePkKeepsKeys ==
  ASSUME KeyInv, NEW a \in Accounts,
         NEW id \in [epoch_id : Nat, domain_id : Nat, attempt_id : Nat],
         NEW pk \in PublicKeys, vote_pk(a, id, pk)
  PROVE  KeepsKeys
  <1> DEFINE k == KeyForDomain(id, pk)
             generated == Append(keyset.domains, k)
  <1>1. /\ key_event.parameters = parameters
        /\ keyset.domains \in Seq(KeysForDomain)
        /\ keyset.epoch_id \in Nat
        /\ keyset = [epoch_id |-> keyset.epoch_id, domains |-> keyset.domains]
    BY DEF vote_pk, KeyInv, ProtocolTypeOK, KeysetMatchesDomains
  <1>2. CASE UNCHANGED <<keyset, parameters>>
    BY <1>2, SameKeysetKeepsKeys
  <1>3. CASE /\ keyset' = [keyset EXCEPT !.domains = generated]
             /\ parameters' = parameters
    <2> HIDE DEF k
    <2>1. /\ keyset'.domains = generated /\ keyset'.epoch_id = keyset.epoch_id
          /\ Len(generated) = Len(keyset.domains) + 1
          /\ \A i \in 1 .. Len(keyset.domains) : generated[i] = keyset.domains[i]
      BY <1>1, <1>3
    <2> HIDE DEF generated
    <2>2. QED
      BY <1>1, <1>3, <2>1 DEF KeepsKeys, KeepsPublicKeys, GrowsEpoch
  <1>4. QED
    BY <1>1, <1>2, <1>3 DEF vote_pk, BecomeRunning

\* Every step keeps the public keys and lets the epoch grow as it has to.
LEMMA NextKeepsKeys == KeyInv /\ [Next]_vars => [KeepsKeys]_vars
  <1> SUFFICES ASSUME KeyInv, [Next]_vars PROVE KeepsKeys
    OBVIOUS
  <1>1. ASSUME NEW a \in Accounts, NEW e \in 0 .. MaxEpoch, NEW p \in Proposals,
               vote_new_parameters(a, e, p)
        PROVE  KeepsKeys
    BY <1>1, TransitionKeepsKeys, SameKeysetKeepsKeys DEF vote_new_parameters, BecomeResharing
  <1>2. ASSUME NEW a \in Accounts, NEW ds \in DomainProposals, vote_add_domains(a, ds)
        PROVE  KeepsKeys
    BY <1>2, SameKeysetKeepsKeys DEF vote_add_domains
  <1>3. ASSUME NEW a \in Accounts, NEW id \in CallableIds,
               start_keygen_instance(a, id) \/ start_reshare_instance(a, id)
        PROVE  KeepsKeys
    BY <1>3, SameKeysetKeepsKeys DEF start_keygen_instance, start_reshare_instance
  <1>4. ASSUME NEW a \in Accounts, NEW id \in CallableIds, NEW pk \in PublicKeys,
               vote_pk(a, id, pk)
        PROVE  KeepsKeys
    BY <1>4, CallableIdType, VotePkKeepsKeys
  <1>5. ASSUME NEW a \in Accounts, NEW id \in CallableIds, vote_reshared(a, id)
        PROVE  KeepsKeys
    BY <1>5, CallableIdType, VoteResharedKeepsKeys
  <1>6. ASSUME NEW a \in Accounts, NEW id \in CallableIds,
               vote_abort_key_event_instance(a, id)
        PROVE  KeepsKeys
    BY <1>6, SameKeysetKeepsKeys DEF vote_abort_key_event_instance
  <1>7. ASSUME NEW a \in Accounts, vote_cancel_resharing(a)
        PROVE  KeepsKeys
    BY <1>7, SameKeysetKeepsKeys DEF vote_cancel_resharing
  <1>8. ASSUME NEW a \in Accounts, NEW id \in 0 .. next_domain_id, vote_cancel_keygen(a, id)
        PROVE  KeepsKeys
    <2>1. key_event.parameters = parameters
      BY <1>8 DEF vote_cancel_keygen, KeyInv, KeysetMatchesDomains
    <2>2. QED
      BY <1>8, <2>1, SameKeysetKeepsKeys DEF vote_cancel_keygen, BecomeRunning
  <1>9. ASSUME NEW a \in Accounts, verify_tee(a)
        PROVE  KeepsKeys
    BY <1>9, TransitionKeepsKeys, SameKeysetKeepsKeys DEF verify_tee, protocolVars
  <1>10. CASE UNCHANGED protocolVars
    BY <1>10, SameKeysetKeepsKeys DEF protocolVars
  <1>11. QED
    BY <1>1, <1>2, <1>3, <1>4, <1>5, <1>6, <1>7, <1>8, <1>9, <1>10
       DEF Next, OperatorNext, NodeNext, vars, submit_participant_info,
           ReverificationChanges, clean_tee_status, NextBlock

\* No step ever changes or drops the public key of a domain that has one
\* (resharing.rs, initializing.rs, running.rs).
THEOREM PublicKeysTheorem == Spec => PublicKeysPermanent
  <1>1. KeyInv /\ [Next]_vars => [KeepsPublicKeys]_vars
    BY NextKeepsKeys DEF KeepsKeys
  <1>2. QED
    BY <1>1, AlwaysKeyInv, PTL DEF Spec, PublicKeysPermanent

\* The epoch never falls, and it grows whenever the parameters change
\* (key_state.rs EpochId).
THEOREM EpochTheorem == Spec => EpochGrowsWithParameters
  <1>1. KeyInv /\ [Next]_vars => [GrowsEpoch]_vars
    BY NextKeepsKeys DEF KeepsKeys
  <1>2. QED
    BY <1>1, AlwaysKeyInv, PTL DEF Spec, EpochGrowsWithParameters

-----------------------------------------------------------------------------
\* A step that changes no epoch does not change the prospective one.
LEMMA SameEpochsExpireNothing ==
  ASSUME UNCHANGED <<phase, keyset, cancelled_epoch>>, key_event'.epoch_id = key_event.epoch_id
  PROVE  ExpiresVotes
  BY DEF ExpiresVotes, prospective_epoch_id, RunningProspectiveEpoch

\* RunningContractState::new starts without votes, and every transition that
\* uses it discards the old ones.
LEMMA TransitionsExpireVotes ==
  /\ \A ds, ks, p, v : BecomeRunning(ds, ks, p, v) => ExpiresVotes
  /\ \A e, p : BecomeResharing(e, p) => ExpiresVotes
  /\ \A p : transition_to_resharing_no_checks(p) => ExpiresVotes
  BY DEF BecomeRunning, BecomeResharing, transition_to_resharing_no_checks, ExpiresVotes

\* Every step that changes the prospective epoch discards the votes.
LEMMA NextExpiresVotes == KeyInv /\ [Next]_vars => [ExpiresVotes]_vars
  <1> SUFFICES ASSUME KeyInv, [Next]_vars PROVE ExpiresVotes
    OBVIOUS
  <1>1. ASSUME NEW a \in Accounts, NEW e \in 0 .. MaxEpoch, NEW p \in Proposals,
               vote_new_parameters(a, e, p)
        PROVE  ExpiresVotes
    BY <1>1, TransitionsExpireVotes, SameEpochsExpireNothing DEF vote_new_parameters
  <1>2. ASSUME NEW a \in Accounts, NEW ds \in DomainProposals, vote_add_domains(a, ds)
        PROVE  ExpiresVotes
    BY <1>2, SameEpochsExpireNothing DEF vote_add_domains, ExpiresVotes
  <1>3. ASSUME NEW a \in Accounts, NEW id \in CallableIds,
               start_keygen_instance(a, id) \/ start_reshare_instance(a, id)
        PROVE  ExpiresVotes
    <2>1. start(key_event, height, key_event_timeout_blocks).epoch_id = key_event.epoch_id
      BY <1>3, KeyEventInProgress DEF start, start_keygen_instance, start_reshare_instance, IsKeyEvent
    <2>2. QED
      BY <1>3, <2>1, SameEpochsExpireNothing DEF start_keygen_instance, start_reshare_instance
  <1>4. ASSUME NEW a \in Accounts, NEW id \in CallableIds, NEW pk \in PublicKeys,
               vote_pk(a, id, pk)
        PROVE  ExpiresVotes
    <2>1. phase = "Initializing" /\ keyset \in [epoch_id : Nat, domains : Seq(KeysForDomain)]
      BY <1>4 DEF vote_pk, KeyInv, ProtocolTypeOK
    <2>2. CASE UNCHANGED <<phase, cancelled_epoch>> /\ keyset'.epoch_id = keyset.epoch_id
      BY <2>1, <2>2 DEF ExpiresVotes, prospective_epoch_id, RunningProspectiveEpoch
    <2>3. QED
      BY <1>4, <2>1, <2>2, TransitionsExpireVotes DEF vote_pk
  <1>5. ASSUME NEW a \in Accounts, NEW id \in CallableIds, vote_reshared(a, id)
        PROVE  ExpiresVotes
    <2>1. WithVote(key_event, a, previous_key).epoch_id = key_event.epoch_id
      BY <1>5, KeyEventInProgress DEF vote_reshared, WithVote, IsKeyEvent
    <2>2. CASE /\ UNCHANGED <<phase, keyset, cancelled_epoch>>
               /\ key_event'.epoch_id = key_event.epoch_id
      BY <2>2, SameEpochsExpireNothing
    <2>3. QED
      BY <1>5, <2>1, <2>2, TransitionsExpireVotes DEF vote_reshared, KeyEventNew
  <1>6. ASSUME NEW a \in Accounts, NEW id \in CallableIds,
               vote_abort_key_event_instance(a, id)
        PROVE  ExpiresVotes
    <2>1. key_event'.epoch_id = key_event.epoch_id
      BY <1>6, KeyEventInProgress, WithoutInstanceType DEF vote_abort_key_event_instance
    <2>2. QED
      BY <1>6, <2>1, SameEpochsExpireNothing DEF vote_abort_key_event_instance
  <1>7. ASSUME NEW a \in Accounts, vote_cancel_resharing(a)
        PROVE  ExpiresVotes
    <2>1. key_event.epoch_id \in Nat
      BY <1>7, KeyEventInProgress, KeyEventType DEF vote_cancel_resharing
    <2>2. QED
      BY <1>7, <2>1 DEF vote_cancel_resharing, ExpiresVotes, prospective_epoch_id,
                        RunningProspectiveEpoch, NoEpoch
  <1>8. ASSUME NEW a \in Accounts, NEW id \in 0 .. next_domain_id, vote_cancel_keygen(a, id)
        PROVE  ExpiresVotes
    BY <1>8, TransitionsExpireVotes, SameEpochsExpireNothing DEF vote_cancel_keygen
  <1>9. ASSUME NEW a \in Accounts, verify_tee(a)
        PROVE  ExpiresVotes
    BY <1>9, TransitionsExpireVotes, SameEpochsExpireNothing DEF verify_tee, protocolVars
  <1>10. CASE UNCHANGED protocolVars
    BY <1>10, SameEpochsExpireNothing DEF protocolVars
  <1>11. QED
    BY <1>1, <1>2, <1>3, <1>4, <1>5, <1>6, <1>7, <1>8, <1>9, <1>10
       DEF Next, OperatorNext, NodeNext, vars, submit_participant_info,
           ReverificationChanges, clean_tee_status, NextBlock

\* A vote for new parameters never outlives the epoch it was cast for
\* (running.rs prospective_epoch_id, resharing.rs vote_cancel_resharing).
THEOREM VotesTheorem == Spec => VotesExpireWithEpoch
  BY AlwaysKeyInv, NextExpiresVotes, PTL DEF Spec, VotesExpireWithEpoch

-----------------------------------------------------------------------------
(* The registry of domains.                                                *)

\* The inductive invariant of the registry: ids ascend and lie below the next
\* id.  It is what makes the domain of a new key a domain without one.
RegistryInv ==
    \A i \in 1 .. Len(domains) :
        /\ domains[i] < next_domain_id
        /\ \A j \in 1 .. (i - 1) : domains[j] < domains[i]

\* How a step may change the registry: not at all, by appending ids that
\* continue it, or by dropping the last ones.
RegistryStep ==
    \/ UNCHANGED <<domains, next_domain_id>>
    \/ \E new \in Seq(Nat) :
          /\ \A i \in 1 .. Len(new) : new[i] = next_domain_id + i - 1
          /\ domains' = domains \o new
          /\ next_domain_id' = next_domain_id + Len(new)
    \/ \E n \in 0 .. Len(domains) :
          /\ domains' = SubSeq(domains, 1, n)
          /\ UNCHANGED next_domain_id

\* Every action changes the registry in one of these ways.
LEMMA NextRegistryStep == KeyInv /\ [Next]_vars => RegistryStep
  <1> SUFFICES ASSUME KeyInv, [Next]_vars PROVE RegistryStep
    OBVIOUS
  <1>0. CASE UNCHANGED <<domains, next_domain_id>>
    BY <1>0 DEF RegistryStep
  <1>1. ASSUME NEW a \in Accounts, NEW e \in 0 .. MaxEpoch, NEW p \in Proposals,
               vote_new_parameters(a, e, p)
        PROVE  UNCHANGED <<domains, next_domain_id>>
    BY <1>1 DEF vote_new_parameters, transition_to_resharing_no_checks, BecomeResharing,
                BecomeRunning
  <1>2. ASSUME NEW a \in Accounts, NEW ds \in DomainProposals, vote_add_domains(a, ds)
        PROVE  RegistryStep
    <2>1. ds \in Seq(Nat)
      BY ConstantsAssumption
    <2>2. \/ UNCHANGED <<domains, next_domain_id>>
          \/ /\ \A i \in 1 .. Len(ds) : ds[i] = next_domain_id + i - 1
             /\ domains' = domains \o ds
             /\ next_domain_id' = next_domain_id + Len(ds)
      BY <1>2 DEF vote_add_domains, ContinuesRegistry
    <2>3. QED
      BY <2>1, <2>2 DEF RegistryStep
  <1>3. ASSUME NEW a \in Accounts, NEW id \in CallableIds,
               start_keygen_instance(a, id) \/ start_reshare_instance(a, id)
        PROVE  UNCHANGED <<domains, next_domain_id>>
    BY <1>3 DEF start_keygen_instance, start_reshare_instance
  <1>4. ASSUME NEW a \in Accounts, NEW id \in CallableIds, NEW pk \in PublicKeys,
               vote_pk(a, id, pk)
        PROVE  UNCHANGED <<domains, next_domain_id>>
    BY <1>4 DEF vote_pk, BecomeRunning
  <1>5. ASSUME NEW a \in Accounts, NEW id \in CallableIds, vote_reshared(a, id)
        PROVE  UNCHANGED <<domains, next_domain_id>>
    BY <1>5 DEF vote_reshared, BecomeRunning
  <1>6. ASSUME NEW a \in Accounts, NEW id \in CallableIds,
               vote_abort_key_event_instance(a, id)
        PROVE  UNCHANGED <<domains, next_domain_id>>
    BY <1>6 DEF vote_abort_key_event_instance
  <1>7. ASSUME NEW a \in Accounts, vote_cancel_resharing(a)
        PROVE  UNCHANGED <<domains, next_domain_id>>
    BY <1>7 DEF vote_cancel_resharing
  <1>8. ASSUME NEW a \in Accounts, NEW id \in 0 .. next_domain_id, vote_cancel_keygen(a, id)
        PROVE  RegistryStep
    <2>1. Len(keyset.domains) \in 0 .. Len(domains)
      BY DEF KeyInv, ProtocolTypeOK, KeysetMatchesDomains
    <2>2. \/ UNCHANGED <<domains, next_domain_id>>
          \/ /\ domains' = SubSeq(domains, 1, Len(keyset.domains))
             /\ UNCHANGED next_domain_id
      BY <1>8 DEF vote_cancel_keygen, BecomeRunning, retain_domains
    <2>3. QED
      BY <2>1, <2>2 DEF RegistryStep
  <1>9. ASSUME NEW a \in Accounts, verify_tee(a)
        PROVE  UNCHANGED <<domains, next_domain_id>>
    BY <1>9 DEF verify_tee, protocolVars, transition_to_resharing_no_checks, BecomeResharing,
                BecomeRunning
  <1>10. CASE UNCHANGED protocolVars
    BY <1>0, <1>10 DEF protocolVars
  <1>11. QED
    BY <1>0, <1>1, <1>2, <1>3, <1>4, <1>5, <1>6, <1>7, <1>8, <1>9, <1>10
       DEF Next, OperatorNext, NodeNext, vars, submit_participant_info,
           ReverificationChanges, clean_tee_status, NextBlock

\* A step of the registry keeps its order, and an id that enters is new.
LEMMA RegistryStepSafe ==
  ASSUME domains \in Seq(Nat), next_domain_id \in Nat, RegistryInv, RegistryStep
  PROVE  RegistryInv' /\ AddsFreshDomains
  <1>1. CASE UNCHANGED <<domains, next_domain_id>>
    BY <1>1 DEF RegistryInv, AddsFreshDomains, DomainIds
  <1>2. ASSUME NEW new \in Seq(Nat),
               \A i \in 1 .. Len(new) : new[i] = next_domain_id + i - 1,
               domains' = domains \o new,
               next_domain_id' = next_domain_id + Len(new)
        PROVE  RegistryInv' /\ AddsFreshDomains
    <2> DEFINE n == Len(domains)
    <2>1. /\ n \in Nat /\ Len(new) \in Nat /\ Len(domains') = n + Len(new)
          /\ \A i \in 1 .. n : domains'[i] = domains[i] /\ domains[i] \in Nat
          /\ \A i \in (n + 1) .. Len(domains') :
                domains'[i] = new[i - n] /\ i - n \in 1 .. Len(new)
      BY <1>2
    <2>2. \A i \in (n + 1) .. Len(domains') :
             /\ domains'[i] = next_domain_id + (i - n) - 1
             /\ domains'[i] >= next_domain_id
             /\ domains'[i] < next_domain_id'
      <3> HIDE DEF n
      <3>1. TAKE i \in (n + 1) .. Len(domains')
      <3>2. domains'[i] = next_domain_id + (i - n) - 1 /\ i - n \in 1 .. Len(new)
        BY <1>2, <2>1
      <3>3. QED
        BY <1>2, <2>1, <3>2
    <2>3. \A i \in 1 .. n : domains'[i] < next_domain_id
      BY <2>1 DEF RegistryInv
    <2>4. \A i \in 1 .. Len(domains') : i \in 1 .. n \/ i \in (n + 1) .. Len(domains')
      BY <2>1
    <2>5. ASSUME NEW i \in 1 .. Len(domains'), NEW j \in 1 .. (i - 1)
          PROVE  domains'[j] < domains'[i]
      <3>1. CASE i \in 1 .. n
        <4>1. j \in 1 .. n /\ domains[j] < domains[i]
          BY <2>1, <3>1 DEF RegistryInv
        <4>2. QED
          BY <2>1, <3>1, <4>1
      <3>2. CASE i \in (n + 1) .. Len(domains') /\ j \in 1 .. n
        <4>1. domains'[j] < next_domain_id /\ domains'[j] \in Nat
          BY <2>1, <2>3, <3>2
        <4>2. domains'[i] >= next_domain_id /\ domains'[i] \in Int
          BY <1>2, <2>1, <2>2, <3>2, SMTT(30)
        <4> HIDE DEF n
        <4>3. QED
          BY <4>1, <4>2
      <3>3. CASE i \in (n + 1) .. Len(domains') /\ j \in (n + 1) .. Len(domains')
        <4> HIDE DEF n
        <4>1. /\ domains'[i] = next_domain_id + (i - n) - 1
              /\ domains'[j] = next_domain_id + (j - n) - 1
          BY <2>2, <3>3
        <4>2. QED
          BY <2>1, <4>1
      <3>4. QED
        BY <2>1, <2>4, <3>1, <3>2, <3>3
    <2>6. \A i \in 1 .. Len(domains') : domains'[i] < next_domain_id'
      BY <1>2, <2>1, <2>2, <2>3, <2>4
    <2>7. AddsFreshDomains
      <3>1. \A id \in DomainIds(domains') \ DomainIds(domains) : id >= next_domain_id
        BY <2>1, <2>2, <2>4 DEF DomainIds
      <3>2. \A id \in DomainIds(domains') : id < next_domain_id'
        BY <2>6 DEF DomainIds
      <3>3. next_domain_id' >= next_domain_id
        BY <1>2, <2>1
      <3>4. QED
        BY <3>1, <3>2, <3>3 DEF AddsFreshDomains
    <2>8. QED
      BY <2>5, <2>6, <2>7 DEF RegistryInv
  <1>3. ASSUME NEW n \in 0 .. Len(domains), domains' = SubSeq(domains, 1, n),
               UNCHANGED next_domain_id
        PROVE  RegistryInv' /\ AddsFreshDomains
    <2>1. /\ Len(domains') = n /\ Len(domains) \in Nat
          /\ \A i \in 1 .. n : domains'[i] = domains[i] /\ i \in 1 .. Len(domains)
      BY <1>3
    <2>2. RegistryInv'
      BY <1>3, <2>1 DEF RegistryInv
    <2>3. AddsFreshDomains
      BY <1>3, <2>1 DEF AddsFreshDomains, DomainIds, RegistryInv
    <2>4. QED
      BY <2>2, <2>3
  <1>4. QED
    BY <1>1, <1>2, <1>3 DEF RegistryStep

\* Init has ascending ids, as init_running checks, and every step keeps them.
LEMMA AlwaysRegistryInv == Spec => [](KeyInv /\ TeeTypeOK /\ RegistryInv)
  <1>1. Init => RegistryInv
    BY InitialAssumption DEF Init, RegistryInv
  <1>2. KeyInv /\ RegistryInv /\ [Next]_vars => RegistryInv'
    BY NextRegistryStep, RegistryStepSafe DEF KeyInv, ProtocolTypeOK
  <1>3. QED
    BY <1>1, <1>2, AlwaysKeyInv, PTL DEF Spec

\* Ids of domains are never given out twice, whatever is added, generated,
\* cancelled or reshared (domain.rs add_domains, retain_domains).
THEOREM DomainIdsTheorem == Spec => DomainIdsNeverReused
  <1>1. KeyInv /\ RegistryInv /\ [Next]_vars => [AddsFreshDomains]_vars
    BY NextRegistryStep, RegistryStepSafe DEF KeyInv, ProtocolTypeOK
  <1>2. QED
    BY <1>1, AlwaysRegistryInv, PTL DEF Spec, DomainIdsNeverReused
=============================================================================
