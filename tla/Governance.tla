----------------------------- MODULE Governance -----------------------------
(***************************************************************************)
(* What the participants decide besides keys and committee: updates of the *)
(* contract, the images that nodes may run, the foreign chains they look   *)
(* at, and which node acts for which participant.  The votes and records   *)
(* of these decisions outlive the committee that made them.                *)
(*                                                                         *)
(* crates/contract/src/{lib.rs, update.rs, node_migrations.rs,             *)
(* tee/proposal.rs, tee/tee_state.rs}                                      *)
(*                                                                         *)
(* The committee changes as Committee allows, which Contract implements.   *)
(* A participant's node, its ParticipantInfo, is part of the parameters    *)
(* and of every proposal; it is kept here.  Whether a destination node is  *)
(* attested is left open, and so is what an update does.                   *)
(***************************************************************************)
EXTENDS Committee, SequencesExt

CONSTANTS
    Proposals,          \* parameters that may be proposed
    NodesOf,            \* nodes of an operator
    Hashes,             \* code hashes
    Policies,           \* foreign chain policies
    InitialHash, InitialPolicy, InitialNode,
    tee_upgrade_deadline_duration,
    MaxEpoch, MaxUpdates, MaxTime, MaxCalls     \* bounds

ASSUME GovernanceAssumption ==
    /\ \A p \in Proposals \cup {FirstParameters} : IsThresholdParameters(p)
    /\ InitialHash \in Hashes /\ InitialPolicy \in Policies /\ InitialNode \in NodesOf
    /\ tee_upgrade_deadline_duration \in Nat
    /\ MaxEpoch \in Nat /\ MaxUpdates \in Nat /\ MaxTime \in Nat /\ MaxCalls \in Nat

VARIABLES
    node,               \* node[a]: the node of participant a
    prospective_node,   \* and in the parameters that are reshared to
    drafts,             \* proposals with votes: parameters and nodes
    entries,            \* ids of the proposed updates
    vote_by_participant,\* account -> update id
    update_id,          \* the next id
    code_votes,         \* participant id -> code hash
    allowed_tee_proposals, \* allowed images, [image_hash, added]
    now,
    promised,           \* history: promised[h] is when h may expire at the earliest
    policy_votes,       \* account -> policy
    foreign_chain_policy,
    backup_services,    \* accounts with a registered backup service
    ongoing_migrations, \* account -> destination node
    cleanups,           \* cleanup_orphaned_node_migrations receipts under way
    calls               \* calls so far

updateVars == <<entries, vote_by_participant, update_id>>
hashVars   == <<code_votes, allowed_tee_proposals, now, promised>>
policyVars == <<policy_votes, foreign_chain_policy>>
nodeVars   == <<node, prospective_node, drafts>>
recordVars == <<backup_services, ongoing_migrations, cleanups>>
governanceVars == <<updateVars, hashVars, policyVars, nodeVars, recordVars>>
allVars == <<committeeVars, governanceVars, calls>>

NoVotes == <<>>

WithVoteOf(votes, voter, choice) ==
    [v \in DOMAIN votes \cup {voter} |-> IF v = voter THEN choice ELSE votes[v]]

Without(votes, gone) == [v \in DOMAIN votes \ gone |-> votes[v]]

VotersFor(votes, choice) == {v \in DOMAIN votes : votes[v] = choice}

Participants == Members(parameters)

is_existing_or_prospective_participant(a) == a \in Participants \cup Members(prospective)

\* A call of an operator, of which there are finitely many in a model.
Call == calls < MaxCalls /\ calls' = calls + 1

GovernanceInit ==
    /\ CommitteeInit
    /\ node = [a \in Accounts |-> InitialNode]
    /\ prospective_node = node
    /\ drafts = {}
    /\ entries = {} /\ vote_by_participant = NoVotes /\ update_id = 0
    /\ code_votes = NoVotes
    /\ allowed_tee_proposals = <<[image_hash |-> InitialHash, added |-> 0]>>
    /\ now = 0
    /\ promised = [h \in Hashes |-> -1]
    /\ policy_votes = NoVotes /\ foreign_chain_policy = InitialPolicy
    /\ backup_services = {} /\ ongoing_migrations = NoVotes
    /\ cleanups = 0
    /\ calls = 0

-----------------------------------------------------------------------------
(* Updates of the contract.                                                *)

propose_update(a) ==
    /\ Call /\ update_id < MaxUpdates
    /\ a \in Participants
    /\ entries' = entries \cup {update_id}
    /\ update_id' = update_id + 1
    /\ UNCHANGED <<committeeVars, vote_by_participant, hashVars, policyVars, nodeVars, recordVars>>

\* Only the votes of current participants count.
valid_votes_Unfiltered(votes, id) == VotersFor(votes, id)

valid_votes(votes, id) == VotersFor(votes, id) \cap Participants

\* The vote that reaches the threshold executes the update; all the other
\* updates and votes are discarded.
vote_update(a, id) ==
    LET votes == WithVoteOf(vote_by_participant, a, id)
    IN  /\ Call
        /\ phase = "Running"
        /\ a \in Participants
        /\ id \in entries
        /\ \/ /\ Cardinality(valid_votes(votes, id)) < parameters.threshold
              /\ vote_by_participant' = votes
              /\ UNCHANGED entries
           \/ /\ Cardinality(valid_votes(votes, id)) >= parameters.threshold
              /\ vote_by_participant' = NoVotes
              /\ entries' = {}
        /\ UNCHANGED <<committeeVars, update_id, hashVars, policyVars, nodeVars, recordVars>>

remove_update_vote(a) ==
    /\ Call
    /\ phase = "Running"
    /\ a \in Participants
    /\ vote_by_participant' = Without(vote_by_participant, {a})
    /\ UNCHANGED <<committeeVars, entries, update_id, hashVars, policyVars, nodeVars, recordVars>>

\* Anyone may call it, and the contract does after a resharing.
remove_non_participant_update_votes ==
    /\ phase = "Running"
    /\ vote_by_participant' = Without(vote_by_participant, Accounts \ Participants)
    /\ UNCHANGED <<committeeVars, entries, update_id, hashVars, policyVars, nodeVars,
                   recordVars, calls>>

-----------------------------------------------------------------------------
(* Images that nodes may run.                                              *)

\* The index of the newest image whose grace period has passed: those before
\* it are no longer valid.
cutoff_index_Newest ==
    IF \E i \in DOMAIN allowed_tee_proposals :
          allowed_tee_proposals[i].added + tee_upgrade_deadline_duration < now
    THEN Len(allowed_tee_proposals) ELSE 1

cutoff_index ==
    LET passed == {i \in DOMAIN allowed_tee_proposals :
                      allowed_tee_proposals[i].added + tee_upgrade_deadline_duration < now}
    IN  IF passed = {} THEN 1 ELSE CHOOSE i \in passed : \A j \in passed : j <= i

valid_entries == SubSeq(allowed_tee_proposals, cutoff_index, Len(allowed_tee_proposals))

get_allowed_mpc_docker_image_hashes ==
    {valid_entries[i].image_hash : i \in DOMAIN valid_entries}

\* AllowedDockerImageHashes::insert: the image becomes the newest, as no entry
\* is from a later time.
inserted(hash) ==
    Append(RemoveFirstMatch(valid_entries, LAMBDA e : e.image_hash = hash),
           [image_hash |-> hash, added |-> now])

newest_hash == allowed_tee_proposals[Len(allowed_tee_proposals)].image_hash

\* Votes are counted whether or not their author is still a participant.
vote_code_hash(a, hash) ==
    LET votes == WithVoteOf(code_votes, parameters.participants[a], hash)
    IN  /\ Call
        /\ a \in Participants
        /\ \/ /\ Cardinality(VotersFor(votes, hash)) < parameters.threshold
              /\ code_votes' = votes
              /\ UNCHANGED <<allowed_tee_proposals, promised>>
           \/ /\ Cardinality(VotersFor(votes, hash)) >= parameters.threshold
              /\ code_votes' = NoVotes
              /\ allowed_tee_proposals' = inserted(hash)
              /\ promised' = IF hash = newest_hash THEN promised
                    ELSE [promised EXCEPT ![newest_hash] = now + tee_upgrade_deadline_duration]
        /\ UNCHANGED <<committeeVars, now, updateVars, policyVars, nodeVars, recordVars>>

\* verify_tee drops the images that are no longer valid.  Participants whose
\* attestation does not pass are voted out, with the nodes of the others as
\* they are; which ones is left open here (see module Contract).
verify_tee(a, kept) ==
    /\ phase = "Running"
    /\ a \in Participants
    /\ allowed_tee_proposals' = valid_entries
    /\ \/ /\ Participants \subseteq kept
          /\ UNCHANGED <<committeeVars, nodeVars>>
       \/ /\ ~ Participants \subseteq kept
          /\ Cardinality(Participants \cap kept) < parameters.threshold
          /\ UNCHANGED <<committeeVars, nodeVars>>
       \/ /\ ~ Participants \subseteq kept
          /\ Cardinality(Participants \cap kept) >= parameters.threshold
          /\ epoch_id < MaxEpoch
          /\ begin_resharing(RestrictTo(parameters, kept))
          /\ prospective_node' = node
          /\ drafts' = {}
          /\ UNCHANGED node
    /\ UNCHANGED <<code_votes, now, promised, updateVars, policyVars, recordVars, calls>>

Tick ==
    /\ now < MaxTime
    /\ now' = now + 1
    /\ UNCHANGED <<committeeVars, code_votes, allowed_tee_proposals, promised, updateVars,
                   policyVars, nodeVars, recordVars, calls>>

-----------------------------------------------------------------------------
(* The foreign chain policy.                                               *)

vote_foreign_chain_policy(a, policy) ==
    LET votes == WithVoteOf(policy_votes, a, policy)
    IN  /\ Call
        /\ phase = "Running"
        /\ a \in Participants
        /\ \/ /\ VotersFor(votes, policy) \cap Participants # Participants
              /\ policy_votes' = votes
              /\ UNCHANGED foreign_chain_policy
           \/ /\ VotersFor(votes, policy) \cap Participants = Participants
              /\ policy_votes' = NoVotes
              /\ foreign_chain_policy' = policy
        /\ UNCHANGED <<committeeVars, updateVars, hashVars, nodeVars, recordVars>>

-----------------------------------------------------------------------------
(* Backup services and migrations of nodes.                                *)

register_backup_service(a) ==
    /\ Call
    /\ is_existing_or_prospective_participant(a)
    /\ backup_services' = backup_services \cup {a}
    /\ UNCHANGED <<committeeVars, ongoing_migrations, cleanups, updateVars, hashVars,
                   policyVars, nodeVars>>

start_node_migration(a, destination) ==
    /\ Call
    /\ phase = "Running"
    /\ a \in Participants
    /\ ongoing_migrations' = WithVoteOf(ongoing_migrations, a, destination)
    /\ UNCHANGED <<committeeVars, backup_services, cleanups, updateVars, hashVars,
                   policyVars, nodeVars>>

\* Called by the destination node, with the keyset in force.
conclude_node_migration(a) ==
    /\ Call
    /\ phase = "Running"
    /\ a \in Participants
    /\ a \in DOMAIN ongoing_migrations
    /\ ongoing_migrations' = Without(ongoing_migrations, {a})
    /\ node' = [node EXCEPT ![a] = ongoing_migrations[a]]
    /\ prospective_node' = [prospective_node EXCEPT ![a] = ongoing_migrations[a]]
    /\ UNCHANGED <<committeeVars, drafts, backup_services, cleanups, updateVars, hashVars,
                   policyVars>>

\* The receipt looks at accounts with a backup service only.
cleanup_orphaned_node_migrations ==
    LET gone == {a \in backup_services : ~ is_existing_or_prospective_participant(a)}
    IN  /\ cleanups > 0
        /\ cleanups' = cleanups - 1
        /\ backup_services' = backup_services \ gone
        /\ ongoing_migrations' = Without(ongoing_migrations, gone)
        /\ UNCHANGED <<committeeVars, updateVars, hashVars, policyVars, nodeVars, calls>>

-----------------------------------------------------------------------------
(* The committee, and the nodes in its parameters.                         *)

\* validate_incoming_proposal also compares the nodes of those who stay.
SameNodes_Unchecked(proposal) == TRUE

SameNodes(proposal) ==
    \A a \in Members(proposal.parameters) \cap Participants : proposal.node[a] = node[a]

\* The first vote for a proposal; newcomers bring a node of theirs.  A vote also
\* drops the images that are no longer valid.
vote_new_parameters(p, d) ==
    LET proposal == [parameters |-> p, node |-> [a \in Accounts |->
                        IF a \in Members(p) \ Participants THEN d ELSE node[a]]]
    IN  /\ Call
        /\ phase \in {"Running", "Resharing"}
        /\ epoch_id < MaxEpoch
        /\ validate_incoming_proposal(parameters, p)
        /\ drafts' = drafts \cup {proposal}
        /\ allowed_tee_proposals' = valid_entries
        /\ UNCHANGED <<committeeVars, node, prospective_node, updateVars, code_votes, now,
                       promised, policyVars, recordVars>>

\* The last one.
proposal_accepted(proposal) ==
    /\ proposal \in drafts
    /\ SameNodes(proposal)
    /\ begin_resharing(proposal.parameters)
    /\ prospective_node' = proposal.node
    /\ drafts' = {}
    /\ allowed_tee_proposals' = valid_entries
    /\ UNCHANGED <<node, updateVars, code_votes, now, promised, policyVars, recordVars, calls>>

resharing_ends ==
    /\ handed_over(epoch_id + 1)
    /\ node' = prospective_node
    /\ drafts' = {}
    /\ cleanups' = cleanups + 1
    /\ UNCHANGED <<prospective_node, updateVars, hashVars, policyVars, backup_services,
                   ongoing_migrations, calls>>

resharing_fails ==
    /\ resharing_cancelled
    /\ prospective_node' = node
    /\ UNCHANGED <<node, drafts, updateVars, hashVars, policyVars, recordVars, calls>>

keygen_begins ==
    /\ begin_keygen
    /\ drafts' = {}
    /\ UNCHANGED <<node, prospective_node, updateVars, hashVars, policyVars, recordVars, calls>>

keygen_ends ==
    /\ keygen_cancelled
    /\ UNCHANGED <<governanceVars, calls>>

-----------------------------------------------------------------------------
GovernanceNext ==
    \/ \E a \in Accounts :
          \/ propose_update(a)
          \/ \E id \in entries : vote_update(a, id)
          \/ remove_update_vote(a)
          \/ \E h \in Hashes : vote_code_hash(a, h)
          \/ \E p \in Policies : vote_foreign_chain_policy(a, p)
          \/ register_backup_service(a)
          \/ \E d \in NodesOf : start_node_migration(a, d)
          \/ conclude_node_migration(a)
          \/ \E kept \in SUBSET Participants : verify_tee(a, kept)
    \/ remove_non_participant_update_votes
    \/ cleanup_orphaned_node_migrations
    \/ Tick
    \/ \E p \in Proposals, d \in NodesOf : vote_new_parameters(p, d)
    \/ \E p \in drafts : proposal_accepted(p)
    \/ resharing_ends
    \/ resharing_fails
    \/ keygen_begins
    \/ keygen_ends

GovernanceSpec == GovernanceInit /\ [][GovernanceNext]_allVars

-----------------------------------------------------------------------------
\* What a decision needs is there when it is made, whenever the receipts that
\* tidy up run: an update is executed only if `threshold` participants of the
\* present committee, the caller and those with a vote, are for it.
UpdatesApproved ==
    [][entries \ entries' # {} =>
         \E id \in entries, a \in Participants :
            Cardinality((VotersFor(vote_by_participant, id) \cup {a}) \cap Participants)
                >= parameters.threshold]_allVars

\* A node has `tee_upgrade_deadline_duration` to upgrade: the image that was the
\* newest when another was added is still allowed until so much time has
\* passed, whatever is added, added again or cleaned up meanwhile; and the
\* newest image is always allowed.
GracePeriodKept ==
    /\ \A h \in Hashes : now <= promised[h] => h \in get_allowed_mpc_docker_image_hashes
    /\ newest_hash \in get_allowed_mpc_docker_image_hashes

\* What belongs to a participant changes by its own calls only, while it stays
\* a participant: no resharing voted on before a migration undoes it, and no
\* late clean-up takes a backup service, a migration or a vote from it.  (That a
\* migration also outlives a change of phase is not what the documentation
\* says: see MigrationsCancelled.)
RecordsChangeByOwnCalls ==
    [][\A a \in (Participants \cup Members(prospective)) \cap
                (Participants' \cup Members(prospective')) :
         /\ a \in Participants /\ node'[a] # node[a] => conclude_node_migration(a)
         /\ a \in backup_services => a \in backup_services'
         /\ a \in DOMAIN ongoing_migrations \ DOMAIN ongoing_migrations'
               => conclude_node_migration(a)
         /\ a \in DOMAIN vote_by_participant \ DOMAIN vote_by_participant'
               => a \notin Participants \/ remove_update_vote(a) \/ entries' = {}]_allVars

\* docs/migration-service.md: "The `OngoingNodeMigration` records are
\* automatically cleared when the protocol transitions from `Running` state to
\* `Resharing` or `Initializing` state".  No transition touches them in
\* lib.rs, so that this does not hold: a migration that was under way can be
\* concluded once the contract is Running again.
MigrationsCancelled == phase # "Running" => ongoing_migrations = NoVotes
=============================================================================
