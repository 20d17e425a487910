------------------------------ MODULE Contract ------------------------------
(***************************************************************************)
(* The protocol state machine of the MPC signer contract: which keys the   *)
(* network holds, who holds them, and how participants vote the contract   *)
(* from Running to Initializing (keys for new domains) or Resharing (the   *)
(* same keys for new participants) and back.                               *)
(*                                                                         *)
(* crates/contract/src/{lib.rs, state.rs, state/*.rs, primitives/*.rs}     *)
(*                                                                         *)
(* An action is one contract call of one account, executed in one block.   *)
(* A call that returns an error or panics leaves no trace (NEAR reverts    *)
(* it), so its conditions are the guards of the action.                    *)
(*                                                                         *)
(* The fields of the three variants of ProtocolContractState are held in   *)
(* one set of variables.  In Resharing they are the fields of              *)
(* previous_running_state; in Initializing `keyset` is (epoch_id,          *)
(* generated_keys) and `parameters` the parameters of generating_key.      *)
(***************************************************************************)
EXTENDS KeyEvent, Sequences

CONSTANTS
    InitialParameters,      \* parameters given to init / init_running
    InitialDomains,         \* domain ids given to init_running; <<>> for init
    InitialNextDomainId,
    Proposals,              \* parameters that accounts may propose
    DomainProposals,        \* sequences of domain ids that may be proposed
    Quoted,                 \* accounts whose attestation is a quote that can lapse
    Submissions,            \* attestations that are submitted: <<by, for whose TLS key>>
    key_event_timeout_blocks,
    MaxEpoch, MaxAttempt, MaxHeight    \* bounds for model checking

ASSUME ConstantsAssumption ==
    /\ IsFiniteSet(Accounts)
    /\ PublicKeys # {}
    /\ \A p \in Proposals : IsThresholdParameters(p)
    /\ DomainProposals \subseteq Seq(Nat)
    /\ Quoted \subseteq Accounts
    /\ Submissions \subseteq Accounts \X Accounts
    /\ key_event_timeout_blocks \in Nat
    /\ MaxEpoch \in Nat /\ MaxAttempt \in Nat /\ MaxHeight \in Nat

\* What init and init_running check before the contract exists.
ASSUME InitialAssumption ==
    /\ IsThresholdParameters(InitialParameters)
    /\ validate(InitialParameters)
    /\ InitialDomains \in Seq(Nat)
    /\ InitialNextDomainId \in Nat
    /\ \A i \in 1 .. Len(InitialDomains) :
          /\ InitialDomains[i] < InitialNextDomainId
          /\ \A j \in 1 .. (i - 1) : InitialDomains[j] < InitialDomains[i]

VARIABLES
    phase,              \* variant of ProtocolContractState
    domains,            \* DomainRegistry.domains: ids in order
    next_domain_id,     \* DomainRegistry.next_domain_id
    keyset,             \* [epoch_id, domains]: a KeyForDomain per domain
    parameters,         \* ThresholdParameters in force
    parameters_votes,   \* account -> proposed parameters
    add_domains_votes,  \* participant id -> proposed domains
    cancelled_epoch,    \* previously_cancelled_resharing_epoch_id
    key_event,          \* generating_key or resharing_key
    reshared_keys,      \* KeyForDomain of the domains already reshared
    cancel_votes,       \* cancel_votes or cancellation_requests
    stored_attestations,\* per TLS key, named by the account it belongs to
    accept_requests,    \* whether requests are accepted (verify_tee)
    cleanups,           \* clean_tee_status receipts not yet executed
    height              \* block height

protocolVars == <<phase, domains, next_domain_id, keyset, parameters,
                  parameters_votes, add_domains_votes, cancelled_epoch,
                  key_event, reshared_keys, cancel_votes>>
teeVars == <<stored_attestations, accept_requests, cleanups>>
vars == <<protocolVars, teeVars, height>>

NoEpoch == -1
NoVotes == <<>>
NoKeyEvent ==
    [epoch_id |-> -1, domain_id |-> -1,
     parameters |-> [participants |-> <<>>, next_id |-> 0, threshold |-> 0],
     instance |-> NoInstance, next_attempt_id |-> 0]

KeysForDomain == [domain_id : Nat, key : PublicKeys, attempt : Nat]
KeyForDomain_AfterReset(key_event_id, key) ==
    [domain_id |-> key_event_id.domain_id, key |-> key,
     attempt |-> NoInstance.attempt_id]

KeyForDomain(key_event_id, key) ==
    [domain_id |-> key_event_id.domain_id, key |-> key,
     attempt |-> key_event_id.attempt_id]

ProtocolTypeOK ==
    /\ phase \in {"Running", "Initializing", "Resharing"}
    /\ domains \in Seq(Nat)
    /\ next_domain_id \in Nat
    /\ keyset \in [epoch_id : Nat, domains : Seq(KeysForDomain)]
    /\ IsThresholdParameters(parameters)
    /\ \E S \in SUBSET Accounts : parameters_votes \in [S -> Proposals]
    /\ DOMAIN add_domains_votes \subseteq Nat
    /\ add_domains_votes \in [DOMAIN add_domains_votes -> DomainProposals]
    /\ cancelled_epoch \in Nat \cup {NoEpoch}
    /\ IsKeyEvent(key_event) \/ key_event = NoKeyEvent
    /\ reshared_keys \in Seq(KeysForDomain)
    /\ cancel_votes \subseteq Accounts

\* NodeAttestation: who submitted it, and how it reverifies.
NoAttestation == [status |-> "none"]
NodeAttestations == [account_id : Accounts, status : {"mock", "quote", "lapsed"}]

TeeTypeOK ==
    /\ stored_attestations \in [Accounts -> NodeAttestations \cup {NoAttestation}]
    /\ accept_requests \in BOOLEAN
    /\ cleanups \in Nat
    /\ height \in Nat

TypeOK == ProtocolTypeOK /\ TeeTypeOK

Init ==
    /\ phase = "Running"
    /\ domains = InitialDomains
    /\ next_domain_id = InitialNextDomainId
    /\ \E keys \in [1 .. Len(InitialDomains) -> PublicKeys] :
          keyset = [epoch_id |-> 0,
                    domains |-> [i \in 1 .. Len(InitialDomains) |->
                        [domain_id |-> InitialDomains[i], key |-> keys[i], attempt |-> 0]]]
    /\ parameters = InitialParameters
    /\ parameters_votes = NoVotes
    /\ add_domains_votes = NoVotes
    /\ cancelled_epoch = NoEpoch
    /\ key_event = NoKeyEvent
    /\ reshared_keys = <<>>
    /\ cancel_votes = {}
    /\ stored_attestations =
          [a \in Accounts |-> IF a \in Members(InitialParameters)
                              THEN [account_id |-> a, status |-> "mock"] ELSE NoAttestation]
    /\ accept_requests = TRUE
    /\ cleanups = 0
    /\ height = 0

-----------------------------------------------------------------------------
(* Votes.  A vote replaces the earlier vote of the same voter.             *)

WithVoteOf(votes, voter, proposal) ==
    [v \in DOMAIN votes \cup {voter} |-> IF v = voter THEN proposal ELSE votes[v]]

VotersFor(votes, proposal) == {v \in DOMAIN votes : votes[v] = proposal}

get_remaining_votes_Unfiltered(votes, params) == votes

\* AddDomainsVotes::get_remaining_votes: votes of ids still in use.
get_remaining_votes(votes, params) ==
    [id \in DOMAIN votes \cap Ids(params) |-> votes[id]]

\* DomainRegistry::get_domain_by_index for the first domain not in `keys`.
DomainAfter_Same(keys) == domains[Len(keys)]

DomainAfter(keys) == domains[Len(keys) + 1]

\* DomainRegistry::retain_domains; next_domain_id is not touched.
retain_domains_Keeping(n) == domains

retain_domains(n) == SubSeq(domains, 1, n)

(* Transitions between the variants of the protocol state.                 *)

\* RunningContractState::new with the given parts.
BecomeRunning(new_domains, new_keyset, params, domain_votes) ==
    /\ phase' = "Running"
    /\ domains' = new_domains
    /\ keyset' = new_keyset
    /\ parameters' = params
    /\ parameters_votes' = NoVotes
    /\ add_domains_votes' = get_remaining_votes(domain_votes, params)
    /\ cancelled_epoch' = NoEpoch
    /\ key_event' = NoKeyEvent
    /\ reshared_keys' = <<>>
    /\ cancel_votes' = {}
    /\ UNCHANGED next_domain_id

\* A ResharingContractState for the first domain; the state it resumes from
\* is rebuilt with RunningContractState::new.
BecomeResharing(epoch_id, proposal) ==
    /\ phase' = "Resharing"
    /\ key_event' = KeyEventNew(epoch_id, domains[1], proposal)
    /\ reshared_keys' = <<>>
    /\ cancel_votes' = {}
    /\ parameters_votes' = NoVotes
    /\ add_domains_votes' = get_remaining_votes(add_domains_votes, parameters)
    /\ cancelled_epoch' = NoEpoch
    /\ UNCHANGED <<domains, next_domain_id, keyset, parameters>>

RunningProspectiveEpoch_Forgetful == keyset.epoch_id + 1

RunningProspectiveEpoch ==
    (IF cancelled_epoch # NoEpoch THEN cancelled_epoch ELSE keyset.epoch_id) + 1

\* The epoch a vote for new parameters has to name.
prospective_epoch_id ==
    IF phase = "Resharing" THEN key_event.epoch_id + 1 ELSE RunningProspectiveEpoch

\* With no key to reshare the parameters change at once, in the next epoch.
transition_to_resharing_no_checks(proposal) ==
    IF domains # <<>>
    THEN BecomeResharing(RunningProspectiveEpoch, proposal)
    ELSE BecomeRunning(domains, [epoch_id |-> keyset.epoch_id + 1, domains |-> <<>>],
                       proposal, add_domains_votes)

(* Attestations.  They are stored under TLS keys; in this module every     *)
(* account has one (see Governance for nodes that are replaced).  Only     *)
(* "mock" and "quote" pass reverification, which looks at the entry under  *)
(* the participant's key whoever submitted it.                             *)

ValidAttestation == {a \in Accounts : stored_attestations[a].status \in {"mock", "quote"}}

active_participants ==
    Members(IF phase = "Running" THEN parameters ELSE key_event.parameters)

\* is_caller_an_attested_participant: to vote on key events, an account must
\* itself have submitted the entry under its TLS key; a lapsed one will do.
\* The last check, of the key that signs the call against the one that signed
\* the submission (AttestationKeyMismatch), is about how `a` calls: both keys
\* are its own, and a call with the other one fails without a trace.
AttestedActiveParticipant(a) ==
    /\ a \in active_participants
    /\ stored_attestations[a] # NoAttestation
    /\ stored_attestations[a].account_id = a

-----------------------------------------------------------------------------
(* Changing the participants.                                              *)

\* process_new_parameters_proposal accepts the vote of `a`: newcomers have to
\* wait for `threshold` current participants to vote for the same proposal.
MayVoteForParameters(a, proposal) ==
    /\ validate_incoming_proposal(parameters, proposal)
    /\ a \in Members(proposal)
    /\ a \notin Members(parameters) =>
          Cardinality(VotersFor(parameters_votes, proposal) \cap Members(parameters))
              >= parameters.threshold

\* Everyone the proposal names has voted for it.
Accepted_AnyVotes(votes, proposal) ==
    Cardinality(DOMAIN votes) = Cardinality(Members(proposal))

Accepted(votes, proposal) ==
    Cardinality(VotersFor(votes, proposal)) = Cardinality(Members(proposal))

vote_new_parameters(a, epoch_id, proposal) ==
    LET votes    == WithVoteOf(parameters_votes, a, proposal)
        accepted == Accepted(votes, proposal)
    IN  /\ Members(proposal) \subseteq ValidAttestation
        /\ phase \in {"Running", "Resharing"}
        /\ epoch_id = prospective_epoch_id
        /\ MayVoteForParameters(a, proposal)
        /\ \/ /\ ~ accepted
              /\ parameters_votes' = votes
              /\ UNCHANGED <<phase, domains, next_domain_id, keyset, parameters,
                             add_domains_votes, cancelled_epoch, key_event,
                             reshared_keys, cancel_votes>>
           \/ accepted /\ phase = "Running" /\ transition_to_resharing_no_checks(proposal)
           \/ accepted /\ phase = "Resharing" /\ BecomeResharing(epoch_id, proposal)
        /\ UNCHANGED <<teeVars, height>>

start_reshare_instance(a, key_event_id) ==
    /\ AttestedActiveParticipant(a)
    /\ phase = "Resharing"
    /\ CanStart(key_event, key_event_id, a, height)
    /\ key_event' = start(key_event, height, key_event_timeout_blocks)
    /\ UNCHANGED <<phase, domains, next_domain_id, keyset, parameters, parameters_votes,
                   add_domains_votes, cancelled_epoch, reshared_keys, cancel_votes,
                   teeVars, height>>

\* The key of the domain being reshared.
previous_key_First == keyset.domains[1].key

previous_key == keyset.domains[Len(reshared_keys) + 1].key

\* The keyset that a resharing ends with.
ResharedKeyset_SameEpoch(reshared) ==
    [epoch_id |-> keyset.epoch_id, domains |-> reshared]

ResharedKeyset(reshared) ==
    [epoch_id |-> key_event.epoch_id, domains |-> reshared]

\* The key voted for is the one the domain had before.  The last vote for the
\* last domain ends the resharing and schedules the clean-up receipts.
vote_reshared(a, key_event_id) ==
    LET reshared == Append(reshared_keys, KeyForDomain(key_event_id, previous_key))
    IN  /\ AttestedActiveParticipant(a)
        /\ phase = "Resharing"
        /\ verify_vote(key_event, key_event_id, a, height)
        /\ CanComplete(key_event, a, previous_key)
        /\ \/ /\ ~ IsLastVote(key_event, a)
              /\ key_event' = WithVote(key_event, a, previous_key)
              /\ UNCHANGED <<phase, domains, next_domain_id, keyset, parameters,
                             parameters_votes, add_domains_votes, cancelled_epoch,
                             reshared_keys, cancel_votes, cleanups>>
           \/ /\ IsLastVote(key_event, a)
              /\ Len(reshared) < Len(domains)
              /\ reshared_keys' = reshared
              /\ key_event' = KeyEventNew(key_event.epoch_id, DomainAfter(reshared),
                                          key_event.parameters)
              /\ UNCHANGED <<phase, domains, next_domain_id, keyset, parameters,
                             parameters_votes, add_domains_votes, cancelled_epoch,
                             cancel_votes, cleanups>>
           \/ /\ IsLastVote(key_event, a)
              /\ Len(reshared) >= Len(domains)
              /\ BecomeRunning(domains, ResharedKeyset(reshared),
                               key_event.parameters, add_domains_votes)
              /\ cleanups' = cleanups + 1
        /\ UNCHANGED <<stored_attestations, accept_requests, height>>

\* Back to the previous running state, which keeps the votes it collected;
\* the epoch of the abandoned resharing is remembered.
vote_cancel_resharing(a) ==
    /\ phase = "Resharing"
    /\ a \in Members(parameters)
    /\ \/ /\ Cardinality(cancel_votes \cup {a}) < parameters.threshold
          /\ cancel_votes' = cancel_votes \cup {a}
          /\ UNCHANGED <<phase, cancelled_epoch, key_event, reshared_keys>>
       \/ /\ Cardinality(cancel_votes \cup {a}) >= parameters.threshold
          /\ phase' = "Running"
          /\ cancelled_epoch' = key_event.epoch_id
          /\ key_event' = NoKeyEvent
          /\ reshared_keys' = <<>>
          /\ cancel_votes' = {}
    /\ UNCHANGED <<domains, next_domain_id, keyset, parameters, parameters_votes,
                   add_domains_votes, teeVars, height>>

-----------------------------------------------------------------------------
(* Adding domains.                                                         *)

\* DomainRegistry::add_domains accepts the list.
ContinuesRegistry_ByLength(new) ==
    \A i \in 1 .. Len(new) : new[i] = Len(domains) + i - 1

ContinuesRegistry(new) == \A i \in 1 .. Len(new) : new[i] = next_domain_id + i - 1

\* Every participant has to vote for the same list.  The vote that would
\* complete the list fails when its ids do not continue the registry.
vote_add_domains(a, new) ==
    LET votes == WithVoteOf(add_domains_votes, parameters.participants[a], new)
    IN  /\ phase = "Running"
        /\ new # <<>>
        /\ a \in Members(parameters)
        /\ \/ /\ Cardinality(VotersFor(votes, new)) # Cardinality(Members(parameters))
              /\ add_domains_votes' = votes
              /\ UNCHANGED <<phase, domains, next_domain_id, parameters_votes,
                             cancelled_epoch, key_event>>
           \/ /\ Cardinality(VotersFor(votes, new)) = Cardinality(Members(parameters))
              /\ ContinuesRegistry(new)
              /\ phase' = "Initializing"
              /\ domains' = domains \o new
              /\ next_domain_id' = next_domain_id + Len(new)
              /\ key_event' = KeyEventNew(keyset.epoch_id, new[1], parameters)
              /\ parameters_votes' = NoVotes
              /\ add_domains_votes' = NoVotes
              /\ cancelled_epoch' = NoEpoch
        /\ UNCHANGED <<keyset, parameters, reshared_keys, cancel_votes, teeVars, height>>

start_keygen_instance(a, key_event_id) ==
    /\ AttestedActiveParticipant(a)
    /\ phase = "Initializing"
    /\ CanStart(key_event, key_event_id, a, height)
    /\ key_event' = start(key_event, height, key_event_timeout_blocks)
    /\ UNCHANGED <<phase, domains, next_domain_id, keyset, parameters, parameters_votes,
                   add_domains_votes, cancelled_epoch, reshared_keys, cancel_votes,
                   teeVars, height>>

\* A vote for another key than the earlier votes ends the attempt.
vote_pk(a, key_event_id, public_key) ==
    LET generated == Append(keyset.domains, KeyForDomain(key_event_id, public_key))
    IN  /\ AttestedActiveParticipant(a)
        /\ phase = "Initializing"
        /\ verify_vote(key_event, key_event_id, a, height)
        /\ \/ /\ Disagrees(key_event, public_key)
              /\ key_event' = WithoutInstance(key_event)
              /\ UNCHANGED <<phase, domains, next_domain_id, keyset, parameters,
                             parameters_votes, add_domains_votes, cancelled_epoch,
                             reshared_keys, cancel_votes>>
           \/ /\ CanComplete(key_event, a, public_key)
              /\ ~ IsLastVote(key_event, a)
              /\ key_event' = WithVote(key_event, a, public_key)
              /\ UNCHANGED <<phase, domains, next_domain_id, keyset, parameters,
                             parameters_votes, add_domains_votes, cancelled_epoch,
                             reshared_keys, cancel_votes>>
           \/ /\ CanComplete(key_event, a, public_key)
              /\ IsLastVote(key_event, a)
              /\ Len(generated) < Len(domains)
              /\ keyset' = [keyset EXCEPT !.domains = generated]
              /\ key_event' = KeyEventNew(keyset.epoch_id, DomainAfter(generated),
                                          key_event.parameters)
              /\ UNCHANGED <<phase, domains, next_domain_id, parameters,
                             parameters_votes, add_domains_votes, cancelled_epoch,
                             reshared_keys, cancel_votes>>
           \/ /\ CanComplete(key_event, a, public_key)
              /\ IsLastVote(key_event, a)
              /\ Len(generated) >= Len(domains)
              /\ BecomeRunning(domains, [keyset EXCEPT !.domains = generated],
                               key_event.parameters, NoVotes)
        /\ UNCHANGED <<teeVars, height>>

\* A repeated cancel vote changes nothing.  Domains without a key are dropped,
\* their ids stay used.
vote_cancel_keygen(a, id) ==
    /\ phase = "Initializing"
    /\ id = next_domain_id
    /\ a \in Members(key_event.parameters)
    /\ \/ /\ \/ a \in cancel_votes
             \/ Cardinality(cancel_votes \cup {a}) < key_event.parameters.threshold
          /\ cancel_votes' = cancel_votes \cup {a}
          /\ UNCHANGED <<phase, domains, next_domain_id, keyset, parameters,
                         parameters_votes, add_domains_votes, cancelled_epoch,
                         key_event, reshared_keys>>
       \/ /\ a \notin cancel_votes
          /\ Cardinality(cancel_votes \cup {a}) >= key_event.parameters.threshold
          /\ BecomeRunning(retain_domains(Len(keyset.domains)), keyset,
                           key_event.parameters, NoVotes)
    /\ UNCHANGED <<teeVars, height>>

\* One vote ends the attempt, unless the voter already reported success.
vote_abort_key_event_instance(a, key_event_id) ==
    /\ AttestedActiveParticipant(a)
    /\ phase \in {"Initializing", "Resharing"}
    /\ verify_vote(key_event, key_event_id, a, height)
    /\ a \notin key_event.instance.completed
    /\ key_event' = WithoutInstance(key_event)
    /\ UNCHANGED <<phase, domains, next_domain_id, keyset, parameters, parameters_votes,
                   add_domains_votes, cancelled_epoch, reshared_keys, cancel_votes,
                   teeVars, height>>

-----------------------------------------------------------------------------
(* Attestations.                                                           *)

\* TeeState::add_participant: `a` submits an attestation under the TLS key of
\* `k`, which replaces the entry under that key, also that of another account.
\* A quote vouches for the TLS key and for the key that signs the call, so only
\* `k` itself has one.
submit_participant_info(a, k) ==
    /\ stored_attestations' =
          [stored_attestations EXCEPT ![k] =
              [account_id |-> a, status |-> IF a = k /\ a \in Quoted THEN "quote" ELSE "mock"]]
    /\ UNCHANGED <<protocolVars, accept_requests, cleanups, height>>

\* Reverification of a stored quote starts or stops failing: certificates
\* expire, the image hash leaves or re-enters the allowed ones.
ReverificationChanges(a) ==
    /\ \/ /\ stored_attestations[a].status = "quote"
          /\ stored_attestations' = [stored_attestations EXCEPT ![a].status = "lapsed"]
       \/ /\ stored_attestations[a].status = "lapsed"
          /\ stored_attestations' = [stored_attestations EXCEPT ![a].status = "quote"]
    /\ UNCHANGED <<protocolVars, accept_requests, cleanups, height>>

\* Participants without a valid attestation are voted out: the contract starts
\* resharing to the others, or stops accepting requests when too few are left.
verify_tee(a) ==
    LET kept     == Members(parameters) \cap ValidAttestation
        proposal == RestrictTo(parameters, kept)
    IN  /\ phase = "Running"
        /\ a \in Members(parameters)
        /\ \/ /\ kept = Members(parameters)
              /\ accept_requests' = TRUE
              /\ UNCHANGED protocolVars
           \/ /\ kept # Members(parameters)
              /\ Cardinality(kept) < parameters.threshold
              /\ accept_requests' = FALSE
              /\ UNCHANGED protocolVars
           \/ /\ kept # Members(parameters)
              /\ Cardinality(kept) >= parameters.threshold
              /\ validate_threshold(Cardinality(kept), parameters.threshold)
              /\ validate_incoming_proposal(parameters, proposal)
              /\ RunningProspectiveEpoch <= MaxEpoch
              /\ accept_requests' = TRUE
              /\ transition_to_resharing_no_checks(proposal)
        /\ UNCHANGED <<stored_attestations, cleanups, height>>

\* TeeState::clean_non_participants drops the entries under the TLS keys of
\* these accounts.
NonParticipants_AnyPhase == Accounts \ Members(parameters)

NonParticipants == IF phase = "Running" THEN Accounts \ Members(parameters) ELSE {}

\* The receipt scheduled when a resharing ended.  It fails, and is lost, when
\* the contract is not Running by then.
clean_tee_status ==
    /\ cleanups > 0
    /\ cleanups' = cleanups - 1
    /\ stored_attestations' =
          [a \in Accounts |-> IF a \in NonParticipants THEN NoAttestation
                              ELSE stored_attestations[a]]
    /\ UNCHANGED <<protocolVars, accept_requests, height>>

NextBlock ==
    /\ height < MaxHeight
    /\ height' = height + 1
    /\ UNCHANGED <<protocolVars, teeVars>>

-----------------------------------------------------------------------------
\* Ids that callers may name, within the bounds.
CallableIds ==
    [epoch_id : 0 .. MaxEpoch, domain_id : {domains[i] : i \in 1 .. Len(domains)},
     attempt_id : 0 .. MaxAttempt]

\* Calls that the operators of the nodes make, and what happens by itself.
OperatorNext ==
    \/ \E a \in Accounts, e \in 0 .. MaxEpoch, p \in Proposals : vote_new_parameters(a, e, p)
    \/ \E a \in Accounts, ds \in DomainProposals : vote_add_domains(a, ds)
    \/ \E a \in Accounts : vote_cancel_resharing(a)
    \/ \E a \in Accounts, id \in 0 .. next_domain_id : vote_cancel_keygen(a, id)
    \/ \E s \in Submissions : submit_participant_info(s[1], s[2])
    \/ \E a \in Accounts : ReverificationChanges(a)
    \/ \E a \in Accounts : verify_tee(a)
    \/ clean_tee_status
    \/ NextBlock

\* Calls that the nodes make in a key event.
NodeNext ==
    \/ \E a \in Accounts, id \in CallableIds : start_keygen_instance(a, id)
    \/ \E a \in Accounts, id \in CallableIds, pk \in PublicKeys : vote_pk(a, id, pk)
    \/ \E a \in Accounts, id \in CallableIds : start_reshare_instance(a, id)
    \/ \E a \in Accounts, id \in CallableIds : vote_reshared(a, id)
    \/ \E a \in Accounts, id \in CallableIds : vote_abort_key_event_instance(a, id)

Next == OperatorNext \/ NodeNext

Spec == Init /\ [][Next]_vars

-----------------------------------------------------------------------------
(* Properties.                                                             *)

DomainIds(seq) == {seq[i] : i \in 1 .. Len(seq)}

\* The keys follow the registry.  Running: one key per domain, in order.
\* Initializing: keys for a proper prefix, and the key event is about the
\* first domain without a key.  Resharing: one key per domain, the reshared
\* ones a proper prefix with the same domains, and the key event is about the
\* next.  `keyset.domains[reshared_keys.len()]` in vote_reshared, which would
\* panic out of range, rests on this (state/resharing.rs, state/initializing.rs).
KeysetMatchesDomains ==
    LET keys == keyset.domains
        n    == Len(keys)
        m    == Len(reshared_keys)
    IN  /\ n <= Len(domains)
        /\ \A i \in 1 .. n : keys[i].domain_id = domains[i]
        /\ phase = "Running" => n = Len(domains) /\ key_event = NoKeyEvent
        /\ phase = "Initializing" =>
              /\ n < Len(domains)
              /\ key_event.domain_id = domains[n + 1]
              /\ key_event.epoch_id = keyset.epoch_id
              /\ key_event.parameters = parameters
        /\ phase = "Resharing" =>
              /\ n = Len(domains)
              /\ m < n
              /\ \A i \in 1 .. m : reshared_keys[i].domain_id = domains[i]
              /\ \A i \in 1 .. m : reshared_keys[i].key = keys[i].key
              /\ key_event.domain_id = domains[m + 1]
              /\ key_event.epoch_id > keyset.epoch_id

\* The parameters in force, and the ones being reshared to, always satisfy the
\* threshold rule and have coherent ids, also when verify_tee shrank the set
\* without a vote (lib.rs verify_tee, thresholds.rs validate).
ParametersValid ==
    /\ validate(parameters)
    /\ phase = "Resharing" => validate(key_event.parameters)

\* verify_tee never hits its `.expect("Require valid threshold parameters")`
\* ("this should never happen") nor fails its own check of the shrunk
\* parameters: once `threshold` attestations are valid, whichever they are,
\* the shrunk parameters are acceptable (lib.rs verify_tee).
VerifyTeeResolves ==
    \A kept \in SUBSET Members(parameters) :
        Cardinality(kept) >= parameters.threshold =>
            /\ validate_threshold(Cardinality(kept), parameters.threshold)
            /\ validate_incoming_proposal(parameters, RestrictTo(parameters, kept))

\* During a resharing an id means one account: old and proposed participants,
\* who run the resharing protocol together, never share an id between two
\* accounts and never give one account two ids (validate_incoming_proposal).
\* At least `threshold` old shareholders take part, so the secret can be
\* reshared at all.
ResharingCommitteeSound ==
    phase = "Resharing" =>
        LET old == parameters.participants
            new == key_event.parameters.participants
        IN  /\ \A a \in DOMAIN old, b \in DOMAIN new : old[a] = new[b] <=> a = b
            /\ Cardinality(DOMAIN old \cap DOMAIN new) >= parameters.threshold

\* Nobody who has to vote on key events is refused for want of an attestation:
\* there is one under the TLS key of every participant, in force or
\* prospective, whatever the clean-up receipt of an earlier resharing removes
\* and whenever it runs (lib.rs clean_tee_status, vote_reshared).  What can
\* still refuse a participant is an attestation that another account submitted
\* under its key (AttestationOwnerMismatch), until it submits its own again.
ActiveParticipantsAttested ==
    \A a \in active_participants \cup Members(parameters) :
        stored_attestations[a] # NoAttestation

\* Every key stays, under its domain and in its place.
KeepsPublicKeys ==
    \A i \in 1 .. Len(keyset.domains) :
        /\ i \in 1 .. Len(keyset'.domains)
        /\ keyset'.domains[i].domain_id = keyset.domains[i].domain_id
        /\ keyset'.domains[i].key = keyset.domains[i].key

\* A domain that has a key keeps it: no resharing, cancellation or key
\* generation changes a public key or drops its domain.
PublicKeysPermanent == [][KeepsPublicKeys]_vars

\* The epoch does not fall, and grows with a change of parameters.
GrowsEpoch ==
    /\ keyset'.epoch_id >= keyset.epoch_id
    /\ parameters' # parameters => keyset'.epoch_id > keyset.epoch_id

\* "Every time we change the ThresholdParameters (participants and threshold),
\* we increment EpochId" (key_state.rs), and the epoch never falls back.
EpochGrowsWithParameters == [][GrowsEpoch]_vars

\* A step that changes the expected epoch discards the votes.
ExpiresVotes == prospective_epoch_id' # prospective_epoch_id => parameters_votes' = NoVotes

\* Votes for new parameters are cast for one epoch.  They are discarded in the
\* step that makes the contract expect another epoch, and may survive only
\* steps that do not: cancelling a resharing keeps the votes for a re-proposal
\* (vote_cancel_resharing) and must then keep expecting their epoch.
VotesExpireWithEpoch == [][ExpiresVotes]_vars

\* Votes to add domains that survive a step do so with their voter.
KeepsVoters ==
    \A id \in DOMAIN add_domains_votes \cap DOMAIN add_domains_votes' :
        \E a \in Members(parameters) \cap Members(parameters') :
            parameters.participants[a] = id /\ parameters'.participants[a] = id

\* A vote to add domains is held by participant id.  While it survives, the id
\* stays with the account that cast it, although ids of former participants
\* can be given out again (AddDomainsVotes::get_remaining_votes).
DomainVotesFollowTheirVoter == [][KeepsVoters]_vars

\* Ids that enter the registry are new, and all its ids lie below the next one.
AddsFreshDomains ==
    /\ \A id \in DomainIds(domains') \ DomainIds(domains) : id >= next_domain_id
    /\ \A id \in DomainIds(domains') : id < next_domain_id'
    /\ next_domain_id' >= next_domain_id

\* "Deleted domain IDs are not reused again": an id that enters the registry
\* was never in it before (initializing.rs vote_cancel, domain.rs).
DomainIdsNeverReused == [][AddsFreshDomains]_vars

\* A step that names new participants to reshare to has their consent.
HasConsent ==
    (phase' = "Resharing" /\ key_event'.parameters # key_event.parameters) =>
        LET p      == key_event'.parameters
            voters == VotersFor(parameters_votes, p)
        IN  \/ p = RestrictTo(parameters, ValidAttestation)
            \/ /\ Cardinality(Members(p) \ voters) <= 1
               /\ Cardinality(Members(p) \cap Members(parameters)) >= parameters.threshold

\* New participants are only reshared to when all of them voted for exactly
\* this set, `threshold` of the current ones among them, or when verify_tee
\* removed participants without a valid attestation and nobody else.  (As the
\* contract's README has it, "all prospective participants must vote for it";
\* other comments speak of a threshold: see ThresholdOfVotesReshares.)
ResharingConsented == [][HasConsent]_vars

\* lib.rs, at vote_new_parameters: "If a threshold number of votes are reached
\* on the exact same proposal, this will transition the contract into the
\* Resharing state", and running.rs: "upon threshold agreement".  So a Running
\* contract with a key to reshare should not hold so many equal votes (after a
\* cancelled resharing it keeps those it had).  It does: running.rs counts to
\* the number of proposed participants.
ThresholdOfVotesReshares ==
    phase = "Running" /\ domains # <<>> /\ cancelled_epoch = NoEpoch =>
        \A p \in Proposals :
            Cardinality(VotersFor(parameters_votes, p)) < parameters.threshold
=============================================================================
