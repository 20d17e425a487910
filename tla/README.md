# TLA+ models and proofs for the NEAR MPC network

The NEAR MPC network signs on behalf of NEAR users with keys that no single
machine holds. A smart contract (`crates/contract`) says who takes part, which
keys exist and which requests are open; every participant runs a node
(`crates/node`) that follows the contract, keeps a share of every key and
computes with the other nodes. This directory models the contract, and of the
nodes what keys and answers depend on: keyshares, presignatures, the queue of
requests and the network between them. TLC model-checks the models, and TLAPS
proves the safety properties of the contract, of requests, channels and assets for
networks of any size.

## 1. The system

### Components, their state and operations

| component | state | operations | what makes it correct |
|---|---|---|---|
| participants and thresholds (`contract/src/primitives`) | participants with ids, `next_id`, threshold | checks of a proposal, restriction to some members | valid thresholds, an id means one account |
| key events (`contract/src/state/key_event.rs`) | epoch, domain, parameters, current attempt with its votes, next attempt id | `start`, `vote_success`, `vote_abort`, expiry | an attempt counts only with the votes of all, for one key |
| protocol state machine (`contract/src/state/*.rs`, `primitives/*.rs`) | Running, Initializing or Resharing; domains, keyset, parameters, votes, cancelled epoch | votes for parameters and domains, key event votes, cancellations | keys never change or vanish, ids of domains, epochs and attempts are unique |
| attestations (`contract/src/tee`) | attestations under TLS keys, with who submitted them | `submit_participant_info`, `verify_tee`, `clean_tee_status` | no participant is left without an attestation, lapsed ones can be removed |
| code hashes (`contract/src/tee/proposal.rs`) | allowed images with the time they were added, votes | `vote_code_hash`, expiry of old images | a node always has the promised time to upgrade |
| user requests (`contract/src/lib.rs`) | pending maps, yielded promises, foreign chain policy | `sign` and its twins, `respond*`, callbacks, policy votes | no leak, a lone request is answerable, under the key it was made for |
| updates, node migrations (`contract/src/update.rs`, `node_migrations.rs`) | proposals with votes; backup services and ongoing migrations | propose, vote, deploy; start and conclude a migration | decided by the present committee; a participant's records change by its own calls |
| key events and keyshares of a node (`node/src/key_events.rs`, `keyshare*`) | permanent keyset, temporary shares, `started` markers | lead, follow, commit, vote, promote, delete | the keyset in the contract can always be loaded, and its shares belong together |
| coordinator (`node/src/coordinator.rs`) | the job that runs, chosen by the contract state | start and stop jobs | nothing is lost when a job is dropped |
| request queue (`node/src/requests`) | open requests, attempts, recent blocks with forks | leader choice, retries, removal | blocks are classified as the chain says; a request stays while its first block may still be final and unanswered, and one that this node leads is attempted |
| triples and presignatures (`node/src/assets.rs`) | database, hot and cold queue, ids; alive participants | generate, take, discard, clean up at start | an asset is handed out once, an id that is known is not given again, a caller served if it can be |
| network (`node/src/network.rs`, `network/*`, `p2p.rs`) | connections with versions, channels, buffered messages | connect, open channels, deliver, drop | the mesh recovers; an asset counts only when all hold a share |
| threshold cryptography (`threshold-signatures`) | protocol runs | echo broadcast, DKG, resharing, signing | algebra is out of reach; echo broadcast is planned |

`PROJECT.json` lists all components, the ones without a model too, with reasons.

### How the components interact

Nodes never talk to the contract synchronously. A node reads the contract state
through its indexer, acts on what it read, and sends transactions that are
executed later, possibly after a restart of the node, possibly never. Operators
call the contract by hand (votes on parameters, domains, cancellations). Within
the contract, a call is atomic; what a call schedules (the clean-up after a
resharing, the callback of a yielded promise) runs in a later block. Nodes talk
to one another over task channels: the leader of a computation opens one, over
TLS connections of which each node keeps one to every other node.

### What is hard to test

* Every long-lived fact spans several contract states: a cancelled resharing must
  be remembered by the *next* Running state, votes are kept across some
  transitions and dropped in others, keys are found by their position in a list.
* Attempts at a key overlap: one expires while votes for it are on their way, the
  next starts, and only some nodes hold a share of either.
* A node crashes between the share on disk, the vote in the contract, the
  promotion to permanent storage and the deletion of temporary files.
* A promotion works with the keyset that was current when it began.
* A request repeated around its time-out has two promises and one map entry.
* Receipts of one resharing run during the next; votes outlive the committee that
  cast them.
* The optimistic chain has forks that come in any order, finality may be delayed
  beyond the window of blocks that are kept, and the heights of other nodes move
  that window.
* The set of alive participants changes while callers wait for a presignature that
  needs them; a presignature in use must not come back after a restart.
* The two ends of a connection notice at different times that it is gone, and one
  of them may have started over; messages come before the start of their task.

The list with source lines is under `hazards` in `PROJECT.json`.

## 2. Modules

| module | models | uses |
|---|---|---|
| `Thresholds` | participants, the threshold rule, the checks of a proposal (`participants.rs`, `thresholds.rs`) | |
| `KeyEvent` | pure operations on the key event in progress (`key_event.rs`) | `Thresholds` |
| `Contract` | the protocol state machine and the attestations: one action per contract call | `KeyEvent` |
| `EpochIds` | a history of all attempts ever started, beside `Contract` | `Contract` |
| `Requests` | user requests, yielded promises and the foreign chain policy, composed with `Contract` | `Contract` |
| `Keyshares` | nodes, their disks, channels and transactions, composed with `Contract` | `Contract` |
| `Committee` | what the contract promises: a growing list of keys, an epoch, a committee and perhaps a prospective one | `Thresholds` |
| `ContractRefinement` | the refinement mapping from `Contract` to `Committee` | `Contract`, `Committee` |
| `Governance` | updates, code hashes, foreign chain policy and node migrations, on top of a changing committee | `Committee` |
| `RecentBlocks` | the recent blocks of the chain, final, canonical or not (`recent_blocks_tracker.rs`) | |
| `RequestQueue` | the queue of requests of a node (`requests/queue.rs`) | `RecentBlocks` |
| `Assets` | the store of triples or presignatures of a node (`assets.rs`, `assets/cleanup.rs`, id generation) | |
| `AssetIds` | a history of all ids ever reserved, beside `Assets` | `Assets` |
| `Connections` | the TLS mesh (`p2p.rs`, `network/conn.rs`, `network/handshake.rs`) | |
| `TaskChannels` | channels and computations over the mesh (`network.rs`, `network/computation.rs`) | `Connections` |
| `MC...` | constants of the model-checking instances | |
| `ContractProofs` | proofs about keys, epochs, votes and domain ids | `Contract` |
| `ParameterProofs` | proofs about parameters, attestations and votes | `ContractProofs` |
| `RefinementProofs` | proofs that `Contract` implements `Committee`, and about key event ids | `ParameterProofs`, `ContractRefinement`, `EpochIds` |
| `RequestProofs` | proofs about user requests | `Requests`, `ContractProofs` |
| `GovernanceProofs` | proofs about images, updates and records of participants | `Governance` |
| `AssetProofs` | proofs about the store of assets | `Assets` |
| `ChannelProofs` | proofs about channels and computations | `TaskChannels` |
| `KeyshareProofs` | proofs about keyshares on the nodes' disks, and about contract and nodes together | `Keyshares`, `RefinementProofs` |

### `Contract`

The variants of `ProtocolContractState` share one set of variables; `phase` tells
which variant it is. In Resharing the variables hold the fields of
`previous_running_state`, in Initializing `keyset` is `(epoch_id,
generated_keys)`. Fields a variant does not have hold a fixed empty value
(`NoKeyEvent`, `NoVotes`, `NoEpoch`, `<<>>`).

An action is one contract call by one account. A call that fails leaves no trace
on NEAR, so its checks are the action's guards, and a call with several outcomes
is a disjunction. `BecomeRunning` is `RunningContractState::new`: it resets the
votes for parameters and the cancelled epoch, and filters the votes for domains,
in every transition that goes through that function. `vote_cancel_resharing`
does not go through it and keeps the votes, as the code does.

Data that no property tells apart is left out: URLs, signature schemes,
account balances. `stored_attestations` is a map from TLS keys; every account has one,
named like the account (nodes that are replaced are in `Governance`). An entry is
`mock` (never lapses), `quote` (valid) or `lapsed` (stored, fails reverification now), and
holds the account that submitted it. `submit_participant_info(a, k)` writes the entry under
the key of `k` whoever `a` is, as `add_participant` does; the constant `Submissions` says
which pairs occur. `is_caller_an_attested_participant` asks for an entry of the
caller's own under its key, so one of another account's keeps a participant from
voting on key events until it submits again. The third check there, that the call is
signed with the key that signed the submission, concerns only how an account calls: a
call with its other key fails and leaves no trace. When a quote lapses or recovers is
up to the environment (`ReverificationChanges`: certificates, allowed hashes).
`clean_tee_status` is the receipt that a finished resharing schedules; it may
run much later and is lost when the contract is not Running by then. `height`
only grows by `NextBlock`; time in the model is block height, as in the code.

### `Requests`

The three kinds of requests are handled alike and differ in the kind field.
`yields` stands for the NEAR runtime: a promise is resumed at most once or
expires, and then its callback runs in a step of its own, so that a new request
can come between time-out and callback. A response is represented by the key it
verifies under. The fields `key`, `response` and `overlaps` of a yield are
history: they say what the user saw, got, and whether the request was repeated.

### `Keyshares`

A node's disk is `permanent`, `temporary` and `started`. `job` is what its coordinator
runs: key generation for an epoch, the running network, or a resharing to an epoch.
A change of phase or epoch stops the job, and everything that is not on disk
(`tasks`, `leading`, `loading`) goes with it; so it does when the process crashes
(`switch_job` is both). Until a node switches its job it works on with what it read:
tasks and promotions keep a copy that may be stale. `votes_sent` never shrinks: a transaction
can be executed late, repeatedly or never. A channel reaches the participants
one by one, or not at all. The cryptography is external: a run ends at a node
only if every participant joined it, and yields the share of that run; a
generation yields some key, a resharing the previous one.

### `Committee` and its refinement

`Committee` says in five variables what a reader of the contract relies on: the list of
public keys only grows while the network generates, epochs only grow, and the
committee is replaced only by one that its resharing was begun for and that was
acceptable to it. `ContractRefinement` maps the keyset to its list of keys, and in
Resharing the parameters of the key event to the prospective committee; every
call of `Contract` is a step of `Committee` or leaves it alone.

### `Governance`

What the contract decides besides keys: updates of itself, the images that nodes
may run, the foreign chain policy, and records of single participants (backup
service, migration of its node). The committee changes underneath as `Committee`
allows, so these results hold of whatever leads to such a change in `Contract`.
Votes for new parameters carry the nodes of the participants: `drafts` are the
proposals that have votes, and `node` the TLS keys in force. `promised` is
history: when an image is superseded, how long it must still be allowed.
What the code does and a reader might not expect: votes for a code hash are
counted although their author left; votes for a policy are not, but count again
when it returns; the clean-up after a resharing looks only at accounts with a
backup service, so that the migration of a departed account without one stays
until the account returns; nothing clears migrations when the network leaves
Running (a finding, section 3).

### `RecentBlocks` and `RequestQueue`

A block is its position in the sequence that the indexer gives. The chain is external: forks,
skipped heights and blocks without a known parent are all possible, within
what consensus guarantees (blocks that headers call final lie on one chain). The
tree of the tracker is the set of blocks kept with two marks; what a walk along
parent links visits is a set of ancestors that ends at the first mark. Everything is
compared with definitions on the whole, unpruned chain. Every block is given once: that
the tracker refuses a block it has, changing nothing, is left out.

The queue's clocks are inputs: which requests are due for a check is chosen anew
in each check. A request is known by its id, the id of a receipt, which sibling
blocks may share; the queue keeps the first block that carried it, so a request
that was first seen on a dead fork leaves the queue although the final chain
carries it too. `OpenRequestsStay` is stated for the first block and does not exclude that. Signing attempts are
external: they end with a response or without.

### `Assets`

One store, of triples or of presignatures. The hot queue, the cold queue with its two barriers
and the database are explicit. A look at the cold queue first refreshes the set of
alive participants if the last refresh is a second old: `IfDue` is both cases. Each call
of `take_owned` is a process, and what happens between two of its looks is
interleaved. A generation reserves its ids first and adds its assets one by one.
A job ends in two ways: the coordinator reruns it at once, perhaps within the
same second (`rerun`), or the binary is restarted, which takes a second (`restart`, as the comment
at `UniqueId` assumes). Either may happen at any point, also between the two commits of the clean-up
at the next start, and the configuration may change with it. The clean-up knows a third format of the
entry with the epoch, of older versions, which keeps everything in the same epoch; it is
left out, the database begins without an entry. `issued`, `used` and
`made_with` are history. A store made anew knows the ids in the database only; the ids of the
running second that it cannot know (`Forgotten`) leave `issued` and `used`, and what
the properties say of ids is about the others. `AssetIds` adds a history that forgets nothing. The discard leaves an asset that it drops from the hot queue
in the database: it returns at the next start.

### `Connections` and `TaskChannels`

A connection is a queue from sender to receiver. When it breaks, a prefix of what
is in it may still be read (`old`), also after the next connection is up, and each
end finds out by itself. A node that crashes starts with connection id 0 and is
refused until the other end has dropped the old connection. A handshake and the registration
of the connection at both ends are one step, and peers that speak the older version of the
protocol (no connection ids, accepted while there is no connection) are left out. `TaskChannels` runs
leader-centric computations over this mesh: the channel keeps the versions of all
connections at its start, a message for a channel not yet started is buffered in a
small LRU cache, and the computation follows `perform_leader_centric_computation`
with followers that report success and a leader that waits for all. The
cryptographic protocol is external: data goes along `Talk`. A message from a channel
whose buffer was evicted is not replayed: a late start then creates a
channel without it, which ends by its time-out (the comment at `sender_for` says
that such a channel never starts).

### Naming

Definitions keep the names of the code where there is one. A definition whose
name ends in `_Something` (`Outdated_Any`, `Accepted_AnyVotes`) is a faulty
variant of the definition after it. No specification uses it; `PROJECT.json` names
for every checked property a variant under which TLC refutes it.

## 3. Runs

Run a configuration with `tlc -workers 2 -config <cfg> <module>`. Liveness is
claimed of the nodes only (*request_queue*, *assets*, *task_channels*); the
specifications of the contract and of keyshares assume no fairness, so no result
about them depends on how nodes or blocks are scheduled.

| run | configuration, module | distinct states | properties | what it shows |
|---|---|---|---|---|
| members | `MCMembers.cfg`, `MCContract` | 218 k | `TypeOK`, `KeysetMatchesDomains`, `ParametersValid`, `VerifyTeeResolves`, `ResharingCommitteeSound`, `ActiveParticipantsAttested`, `DomainIdsNeverReused`, `DomainVotesFollowTheirVoter`, `ImplementsCommittee` | Three participants, a fourth account and proposals good and bad; two domains are added, generated and cancelled half-way; one attestation lapses, recovers or is replaced by another account's, verify_tee shrinks the set, clean-up receipts run late: keys follow the registry, domain ids are never reused, parameters stay valid, ids mean one account, every participant has an attestation, votes stay with who cast them, and all of it is a behaviour of the abstract Committee. |
| reshare | `MCReshare.cfg`, `MCEpochIds` | 261 k | `KeysetMatchesDomains`, `EpochIdentifiesParameters`, `PublicKeysPermanent`, `EpochGrowsWithParameters`, `VotesExpireWithEpoch`, `ResharingConsented`, `KeyEventIdsStartOnce` | Two domains are reshared to a newcomer and back, or on to another newcomer who replaces a participant, with re-proposals during the resharing, cancellations, aborts and attempts that expire over three epochs, no domain being added: no public key changes, epochs grow with the parameters and name one set of them, no attempt starts under the id of an earlier one, votes die with their epoch, and nobody is reshared to without consent. |
| epoch_reuse | `MCEpochReuse.cfg`, `MCEpochIds` | stops at the violation | `EpochIdentifiesParameters` | With domains that can be added, a cancelled epoch is given out again for other parameters: adding domains forgets previously_cancelled_resharing_epoch_id. |
| threshold_votes | `MCThresholdVotes.cfg`, `MCContract` | stops at the violation | `ThresholdOfVotesReshares` | A threshold of equal votes for new parameters does not start the resharing, as two comments say it does: the contract waits for all whom the proposal names. |
| requests | `MCRequests.cfg`, `MCRequests` | 876 k | `PendingEntriesLive`, `LoneRequestAnswerable`, `AnsweredUnderRequestedKey` | Signature and foreign-transaction requests, repeated and timing out, while the second domain is generated, cancelled and reshared and verify_tee closes and reopens the contract: no entry leaks, a lone request stays answerable, answers verify under the key the user saw. |
| keyshares | `MCKeyshares.cfg`, `MCKeyshares` | 1.44 M | `KeysetMatchesDomains`, `KeysetLoadable`, `SharesOfOneRun` | Two nodes generate a key, in up to two attempts that may expire after any number of them committed and voted, and reshare it; they crash and restart anywhere, send transactions that arrive late, again or never, and promote keysets of the past: each can always load the keyset in the contract from its disk, with shares of one computation. |
| request_queue | `MCRequestQueue.cfg`, `MCRequestQueue` | 208 k | `ClassifiedByChain`, `FinalStreamContiguous`, `OpenRequestsStay`, `AttemptsAreUseful`, `LedRequestsServed` | One request, blocks in all trees of up to five blocks with skipped heights, a peer that comes, goes and runs ahead: the tracker agrees with the chain although it prunes, a request stays while the first block that carried it can still be final and unanswered, none is attempted in vain, and a request this node leads is answered or given up. |
| task_channels | `MCTaskChannels.cfg`, `MCTaskChannels` | 172 k | `SendersInvariant`, `OwnedHeldByAll`, `StartComesFirst`, `MeshRecovers`, `GenerationCompletes` | Three nodes compute over connections of which one breaks or one node of which crashes or times out at any moment, with messages that overtake the start and an LRU cache of one entry: senders match channels, an owned asset is held by all, the mesh reconnects, and undisturbed computations complete. |
| assets | `MCAssets.cfg`, `MCAssets` | 199 k | `BarriersHold`, `HandedOutOnce`, `AssetsOfThisConfig`, `IdsNotReused`, `CallersServed` | Two callers, a background loop and its generations share one store while a participant comes and goes, and the job is rerun at any point and within the same second, or the node restarts, also with a new epoch or another node of a participant: barriers hold, no asset is handed out twice or outlives its configuration, ids that a store can know of are not given out again, nobody waits beside a usable asset. |
| asset_ids | `MCAssetIds.cfg`, `MCAssetIds` | stops at the violation | `UniqueIds` | A job that is rerun within the second reserves an id again that the last store reserved and the database does not hold. |
| governance | `MCGovernance.cfg`, `MCGovernance` | 1.35 M | `GracePeriodKept`, `UpdatesApproved`, `RecordsChangeByOwnCalls` | Four calls of three operators among all votes, registrations and migrations, while the committee shrinks, changes and grows back and clean-up receipts run late: updates need a threshold of present participants, images keep their grace period, records change by their owner's calls only. |
| migrations_cancelled | `MCMigrations.cfg`, `MCGovernance` | stops at the violation | `MigrationsCancelled` | A migration that is under way when the contract leaves Running is kept, although the documentation says that it is cleared. |

The bounds are constants (`MaxEpoch`, `MaxAttempt`, `MaxHeight`, `MaxRuns`,
`MaxYields`, `MaxClock`, `MaxIds` and so on); they restrict which calls are made, never what a call does. Why they
are enough:

* *members*: three participants are the least for which 60% is rounded (1.8 to 2)
  and one can be lost; a fourth account can get the id of a former participant;
  six proposals include four that must be refused. Two domains in one list make the
  list of generated keys grow, with the key event in the middle; a cancellation then
  leaves one key and one dropped id. The fourth account submits attestations under its own
  TLS key and under that of the third. An attempt can expire but not be repeated here; epochs are.
* *reshare*: two domains and three epochs (0 to 2) give resharings that are cancelled
  half-way, replaced by a re-proposal, and repeated, with other parameters; an epoch that is
  wrongly given out again is a lower one, so higher ones add no case. Two keys, so
  that a swapped key is noticed; attempts that live for one block, two blocks and two attempts, so that
  they expire or are aborted with votes in them. Epochs up to 3, without expiry and with one newcomer (597 k states),
  give no violation.
* *epoch_reuse*: the same with one domain, and one that can be added.
* *requests*: two promises are enough for one request and its repetition, or for
  two requests; a third would add a second repetition.
* *keyshares*: one domain, its generation in two attempts, and one resharing, with two channels. There
  is one public key: the votes of two attempts then cannot be told apart by the key they are
  for, which is the harder case for the contract. Two nodes are leader and follower; a third
  would be a second follower.
* *governance*: three participants, two subsets of two of them and the three again,
  so that members leave and return; three images are the least for which one is
  neither the newest nor the oldest; a grace period of one and times up to 2 let one
  image expire while the next is within its period. With times up to 3 (1.9 million
  states) there is no violation either.
* *request_queue*: five blocks, a window of three and one skipped height: finality
  needs three blocks in a row, so it can be delayed beyond the window, and a fork can
  be given before and after it is decided. One request is enough, requests do not
  influence one another. Two blocks without a parent (857 k states, safety only) give no
  violation.
* *assets*: a buffer of two with a threshold of two in three participants gives assets
  that an offline participant makes unusable beside others that are not; two callers compete
  for the last one. One peer comes and goes (`UnsteadyPeers`) and may get another node. A job can be
  rerun any number of times, so that the clean-up is cut off between its commits with assets in
  the database. Batches of two ids with one caller (4.0 million states, safety only) give no violation.
* *threshold_votes*, *migrations_cancelled*, *asset_ids*: as small as the behaviour shown needs.
* *task_channels*: three nodes, so that followers talk to one another and a message of
  one can come before the leader's start; a cache of one entry, so that it overflows;
  one fault at any point. The leader has one computation at a time, while followers may have
  several channels (the code keeps several in flight). Two channels in a row (2.0 million states, safety only), and other
  patterns of talk (3.3 million), give no violation.

`KeySymmetry` permutes the public keys, which no action orders or names; the
runs that use it check safety properties, for which symmetry reduction is sound.

### Fairness

* `RequestQueue`: the loop of `monitor_block_updates` selects with a sleep and so
  checks the queue at least once a second; an attempt ends, since it has a time-out;
  clocks go on, so that a retry becomes due.
* `Assets`: the steps of a caller are weakly fair, its task runs when it can. Strong
  fairness is assumed where a step may be disabled and enabled again by others: a look
  at the hot queue finds what is in it, and a caller that waits for a second fetches
  the set of alive participants again. Generations and peers get no fairness.
* `Connections`, `TaskChannels`: every task, every receiver and every connection loop is a
  tokio task of its own and gets weak fairness. Faults are never forced, and
  finitely many.

### Properties worth knowing

* `KeysetMatchesDomains`: the three lists that the contract indexes by position
  stay aligned in every phase.
* `PublicKeysPermanent`, `EpochGrowsWithParameters`, `DomainIdsNeverReused`: what
  users and nodes rely on for ever.
* `VotesExpireWithEpoch`: votes survive a cancellation only when they were cast for
  the epoch that the contract goes on to expect.
* `ResharingConsented`: participants change only with the votes of all the new
  ones, or because `verify_tee` removed those with a lapsed attestation.
* `VerifyTeeResolves`: the `expect` in `verify_tee` cannot fail.
* `ResharingCommitteeSound`: old and new participants run one protocol under ids
  that mean the same to both.
* `ActiveParticipantsAttested`: no clean-up receipt, however late, takes the attestation of a
  participant. It does not say that the entry is the participant's own (see `Contract`).
* `DomainVotesFollowTheirVoter`: a vote held by id never passes to another account.
* `PendingEntriesLive`, `LoneRequestAnswerable`, `AnsweredUnderRequestedKey`: see
  the comments in `Requests`. A request that is repeated while the first is open
  may fail together with it; the contract's README says so, and the second
  property says that nothing else does.
* `KeysetLoadable`, `SharesOfOneRun`: no crash, late vote or stale promotion leaves
  a participant without its share, or participants with shares of different runs.
* `ImplementsCommittee`: a call of the contract never does what `Committee` has no step for.
* `UpdatesApproved`, `GracePeriodKept`, `RecordsChangeByOwnCalls`: decisions against
  a committee that changes between votes, and against receipts that come late.
* `ClassifiedByChain`: the class of a block is what the documentation of
  `CheckBlockResult` says, computed from the whole chain instead of a pruned tree.
* `OpenRequestsStay`, `AttemptsAreUseful`, `LedRequestsServed`: the queue drops no request whose first
  block can still become final without an answer, works on nothing that is answered or off the
  chain, and leaves nothing lying that it leads.
* `HandedOutOnce`: a presignature that is used twice reveals the key. `IdsNotReused`: an id that the store
  can know of, or of an earlier second, is not reserved again.
* `AssetsOfThisConfig`: also when jobs or the process end between the commits of the clean-up.
* `CallersServed`: a caller that began to wait when no asset was usable gets one
  that becomes usable, wherever it is by then.
* `OwnedHeldByAll`, `GenerationCompletes`: the leader counts an asset only when all have
  stored their share, and messages that overtake one another do not stall a computation.
* `MeshRecovers`: connection ids of two ends, one of which started over, do not block
  each other for ever.

### Findings

**A cancelled epoch is given out again** (*epoch_reuse*).
`RunningContractState::prospective_epoch_id` skips the epoch of a cancelled
resharing, so that an epoch never names two sets of parameters. The memory of the
cancelled epoch is a field of the Running state, `RunningContractState::new` clears
it, and Initializing does not carry it: after a cancelled resharing, adding a
domain (or starting to, and cancelling that) forgets it. The next resharing then
reuses the epoch, for other parameters if so voted, and starts the same key event
ids again. *reshare* shows that without added domains the ids are unique. Nodes notice:
the `started` marker of the repeated id (`node/src/keyshare/temporary.rs`) refuses it and
the attempt is aborted.

**How many votes start a resharing** (*threshold_votes*). The comments at
`vote_new_parameters` (`contract/src/lib.rs:932-934`) and at `RunningContractState`
(`state/running.rs:18-22`) speak of a threshold of equal votes. The code waits for the votes of
all whom the proposal names (`running.rs:155`), and the contract's README (line 142) and the comment
at `running.rs:131` say so. `ResharingConsented` states what the code does. The same holds of
`vote_add_domains` (`lib.rs:992-994`), which waits for all participants. Also out of date is
`lib.rs:936`: after a cancelled resharing the expected epoch is one above the cancelled one,
not one above the current one.

**Migrations outlive the Running state** (*migrations_cancelled*). `docs/migration-service.md`
(lines 251 and 391) says that ongoing migrations are cleared when the contract leaves Running. No
transition touches them. They rest, since starting and concluding one needs Running, and can be
concluded afterwards with the keyset then in force.

**Ids repeat when a job is rerun within a second** (*asset_ids*). Ids of assets are to be unique
"across time", assuming that a restart of the binary takes a second (`node/src/primitives.rs:12-20`). The
coordinator also reruns a job within the process, at once (`node/src/coordinator.rs:188-229`), and the new store
knows only the ids in the database: those reserved in the same second for what was under way,
used or discarded come again. `HandedOutOnce` is not affected.

## 4. Proofs

`tlapm` on each of the eight `...Proofs.tla` checks all proofs. The
theorems hold for every value of the constants: any finite set of accounts, any
number of participants, domains, proposals, requests, nodes, callers and faults, any
time-out, any bounds. They rest on named assumptions, which TLC evaluates in the runs
of the modules that state them:

* `ConstantsAssumption` (types and finiteness) and `InitialAssumption` (what `init` and
  `init_running` check), of `Contract`; `RequestsAssumption`, the types of requests.
* `GovernanceAssumption`: proposals are threshold parameters (the contract deserializes
  nothing else), and a first image and policy exist.
* `RunsAssumption`: the bound on channels is a number; nothing else is asked of it.
* `AssetsAssumption`: positive threshold and batch size, finitely many callers.
* `ConnectionsAssumption`, `ChannelsAssumption`: the leader is a node, the cache of early
  messages has at least one place.

| theorem | says |
|---|---|
| `TypeTheorem` | `TypeOK` always holds |
| `KeysetTheorem` | `TypeOK` and `KeysetMatchesDomains` always hold |
| `PublicKeysTheorem` | `PublicKeysPermanent` |
| `EpochTheorem` | `EpochGrowsWithParameters` |
| `VotesTheorem` | `VotesExpireWithEpoch` |
| `VerifyTeeTheorem` | `ParametersValid` and `VerifyTeeResolves` always hold |
| `CommitteeTheorem` | `ResharingCommitteeSound` always holds |
| `ParametersTheorem` | `ParametersValid` always holds |
| `AttestedTheorem` | `ActiveParticipantsAttested` always holds, whoever submits attestations under whose key |
| `DomainIdsTheorem` | `DomainIdsNeverReused` |
| `RefinementTheorem` | `ImplementsCommittee`: `Contract` implements `Committee` |
| `EpochIdentityTheorem` | `EpochIdentifiesParameters` always holds if no step forgets a cancelled epoch |
| `KeyEventIdsTheorem` | `KeyEventIdsStartOnce`, on the same condition |
| `DomainVotesTheorem` | `DomainVotesFollowTheirVoter` |
| `ConsentTheorem` | `ResharingConsented` |
| `PendingTheorem` | `PendingEntriesLive` always holds |
| `AnswerableTheorem` | `LoneRequestAnswerable` always holds |
| `AnswersTheorem` | `AnsweredUnderRequestedKey` always holds |
| `GracePeriodTheorem` | `GracePeriodKept` always holds |
| `UpdatesTheorem` | `UpdatesApproved` |
| `RecordsTheorem` | `RecordsChangeByOwnCalls` |
| `BarriersTheorem` | `BarriersHold` always holds |
| `HandedOutTheorem` | `HandedOutOnce` always holds |
| `ConfigTheorem` | `AssetsOfThisConfig` always holds |
| `FreshIdsTheorem` | `IdsNotReused`, but for the ids that a rerun within the second forgets |
| `SendersTheorem` | `SendersInvariant` always holds |
| `OwnedTheorem` | `OwnedHeldByAll` always holds |
| `StartTheorem` | `StartComesFirst` always holds |
| `LoadableTheorem` | `KeysetLoadable` always holds, of `NodesSpec` |
| `SharesTheorem` | `SharesOfOneRun` always holds, of `NodesSpec`, if no step forgets a cancelled epoch |
| `NodesCommitteeTheorem` | `NodesSpec` implements `Committee` |

**Keys.** The inductive invariant is `KeyInv == ProtocolTypeOK /\
KeysetMatchesDomains /\ CancelledAbove`, with `TeeTypeOK` for the rest of the
state. `KeysetMatchesDomains` is almost inductive by itself: it fails in the step to
Resharing, whose epoch must exceed the keyset's although it may be computed from a
remembered cancelled epoch. `CancelledAbove` says that this one exceeds it. There is a
lemma per action; the transitions shared by several (`BecomeRunning`,
`BecomeResharing`) have one of their own. The action properties follow from `KeyInv`
step by step: a resharing ends with a list of the same length as the old one and
with the same keys, which is what `KeysetMatchesDomains` says of the reshared prefix.

**Parameters.** `ParameterInv` says that the parameters in force are valid and that
the ones being reshared to were acceptable to them. Both ways into Resharing, a
vote and `verify_tee`, check this; that `verify_tee`'s check cannot fail is the
lemma `ShrunkParametersAcceptable`: the 60% bound falls with the number of shares, and
dropping members leaves ids and `next_id` coherent. A re-proposal during a
resharing is compared with the parameters in force, not with the ones it replaces,
so the invariant is kept.

**Attestations.** `NextAttested` shows, from `KeyInv`, that every way to become a
participant requires a valid attestation under its key, and that nothing but the clean-up removes one,
which spares the participants of the Running state it runs in. A submission replaces an entry and
never removes one, whoever sends it (`AttestationStatus`, `EntriesStay`).

**Domain ids.** `RegistryInv` says that the ids of the registered domains ascend and lie
below `next_domain_id`. New ids start at
`next_domain_id`, which never falls: also after a cancelled generation, which drops
domains but leaves it alone, they exceed every id that was ever registered.

**Refinement.** From `KeyInv` and `RegistryInv`, each call of `Contract` is mapped to one step of
`Committee`, or leaves its variables unchanged: a finished key appends to the list, a
finished resharing hands over, both ways into Resharing begin one (both
check that the new committee is acceptable), votes and attestations
change nothing. The map of the keyset to its list of keys is a function of the
sequence alone, which `KeysetMatchesDomains` aligns with the domains.

**Key event ids.** The two theorems have a condition, `[][RemembersCancelled]_idVars`: no step to
Initializing while a cancelled epoch is remembered. It is the negation of the
first finding in section 3, and all that is needed: `HistoryInv` says that past attempts lie below the epoch
expected next, that those in the epoch of the keys were for the parameters in force, and
that those of the key event in progress were for no later domain and no later
attempt. `IdStep` sorts the steps of the contract into eight kinds; each moves on to an epoch, a
domain or an attempt that is not in the history. That a domain which was cancelled and added
again has another id is `RegistryInv`.

**Votes.** `VoterInv` says that whoever has a vote for parameters is named in them, and
that votes for domains are held under ids in use. `NextVotesStep` sorts all steps by
what they do to the two maps of votes; a step to Resharing then finds in
`parameters_votes` exactly the members of the new committee, and a domain vote that survives a
change of participants belongs to an id that, by the rules for ids, kept its account.

**Requests.** `RequestInv` is the first two properties and three facts that make them inductive:
two open promises for one request were both marked as overlapping (`TwinsOverlap`),
the key a user saw is in force as long as the promise is open (`KeysSeenInForce`, from
`PublicKeysTheorem`'s step and `RegistryInv`, as the contract finds keys by position), and a promise was
resumed only with what verifies under that key (`ResponsesVerified`). Steps of
the contract itself leave the promises alone and keep keys; the time-out and the callback are the steps
that need `TwinsOverlap`.

**Governance.** `ImagesInv` says of the list of images that times ascend, hashes differ
and, for every promise still running, that the image's successor in the list is young
enough to keep it. The expiry keeps a suffix of the list; a new vote for an old
image moves it to the end. `NodesInv` says that the nodes in the parameters reshared to agree with those in force for
all who stay; it is what the end of a resharing needs, since votes for it were cast earlier.

**Assets.** `AssetInv` tells where each asset is: in the database, and in at most one of
the hot queue, the cold queue and the hands of one caller (`MemoryInv`, `HandsInv`); ids
of generations in flight are reserved, unused and disjoint (`FlightInv`); the ids
issued lie at or below the clock, and those of the running second at or below the last id that the
store knows (`IdsInv`). That the database matches its configuration (`ConfigInv`) is shown across the
two commits of the clean-up. `ColdOK` is the meaning of the barriers, kept by every
rotation of the queue.

**Channels.** `ChannelInv` holds of every queue, buffer and channel: each message that
reports success names a stored share, at whatever place it waits (`QueuesInv` and
`ChannelOK`); senders are the live channels and the buffered ones, disjointly
(`SenderOK`); and in each connection, also one that broke, no message of the leader
precedes the start of its channel unless it was started (`StartsInv`).
The prefixes that a broken connection may still deliver, and the replay of a buffer
when its start arrives, are where it takes its strength.

**Keyshares.** `KeysetLoadable` is not inductive: a key joins the keyset with the last vote
for it, which may have been sent long ago, by a node that has crashed since. `KeyshareInv`
therefore follows a share from its commit to its promotion. `TasksHeld` and `SentHeld`: a
committed task and a vote on its way have their share in temporary storage, unless their
epoch is past. `CountedHeld` and `ResharedHeld`: so have the votes counted in the current
attempt, for the same key, and the keys reshared so far. `KeysHeld` and `PermanentInv`: each
participant has each key of the keyset in temporary or permanent storage, permanent
storage is never of a later epoch, and in the epoch of the keyset it is a prefix of it.
`LoadingInv`: a promotion in progress, however stale, is of a prefix of the keyset or of an
earlier epoch, so what it stores and deletes harms neither. `OneShareEach` makes the share
that is loaded the one that was voted for. The contract's calls enter by two kinds of step:
the keyset grows by a key that all participants hold, or an epoch begins of which they
hold all keys (`KeysetStep`). Transactions name ids of the past, so the lemmas about calls are
stated for any id.

**Shares of one run.** `RunInv` adds that runs have different ids: a leader asks for the next
attempt, which no run is of (`PastIds`, `RunIds`), opens one channel for it and forgets it
(`LeadingIds`), and nobody else leads at that epoch (`LedIds`). Shares are of the run whose id they carry, or
of the initial keyset, whose domains are never generated again (`DomainsNew`). Ids that are
past stay past by the eight kinds of `IdStep`, on the condition `RemembersCancelled` of the
theorems on ids. Without the condition the `started` markers still keep one node from taking
part twice under one id, but not two committees without a common member; nothing is
claimed then beyond what the run *keyshares* explores.

**Contract and nodes.** `NodesCommitteeTheorem` is the refinement of `Committee` once more, for the
contract as the nodes drive it: with every id that they may still send, instead of the
ids that `Contract` alone lets a caller name.

Only model-checked:

* `ClassifiedByChain` and `FinalStreamContiguous` of `RecentBlocks`, `OpenRequestsStay` and
  `AttemptsAreUseful` of `RequestQueue`: what the walks along parent links compute is
  defined by recursive functions, and there is no induction over data with these provers;
* liveness under fairness (`CallersServed`, `MeshRecovers`, `GenerationCompletes`,
  `LedRequestsServed`) and `ENABLED`, which are out of the prover's reach.

## 5. Not modelled

* Cryptography, TLS, attestation formats, RPC clients of foreign chains: data
  checks and algebra without a protocol that TLC could explore.
* Gas, deposits and payload formats: checked before a call changes anything.
* In `Keyshares`: import of backups, legacy file formats and cloud secret storage;
  a node is online or crashed, and has a single view of the contract at a time.
* In `TaskChannels`: a start message that the leader fails to send (the computation
  then fails at once, as by a time-out); the choice of participants by height.
* The request storage on disk, transactions that carry responses, and the providers'
  signing rounds: in `RequestQueue` an attempt is one step that ends either way.
* The service that moves a node's keyshares to another machine, and onboarding: the contract's
  part is in `Governance`, the node's part is file and HTTP handling around it.
* Migration of old state layouts of the contract, a rewrite of every field once.
* Liveness of key events: nothing is claimed yet.
* Nothing else of the repository (bounded collections, RPC clients, command line tools, fake
  indexers and test harnesses, curves and polynomials) keeps state that several actors change.

## 6. Plan

1. Liveness of key events: with the nodes up and weakly fair, and attempts long
   enough, a key event completes or is cancelled.
2. Echo broadcast of the protocol runtime.
3. The node's migration service against `Governance`, and the request storage
   against the queue.
4. Proofs about `RecentBlocks` on a finite tree of blocks given as a relation, so that
   the walks need no recursion.
5. `SharesOfOneRun` without its condition, where committees of a repeated epoch overlap.
