------------------------------- MODULE Assets -------------------------------
(***************************************************************************)
(* The triples or presignatures that one node owns: how they are made      *)
(* ahead of time, kept in the database and in memory, sorted by whether    *)
(* all their participants are alive, taken for use, and thrown away.       *)
(*                                                                         *)
(* crates/node/src/assets.rs, assets/cleanup.rs, primitives.rs (UniqueId), *)
(* and the loops that use them (providers/ecdsa/triple.rs, presign.rs)     *)
(*                                                                         *)
(* Tasks of one process share the store: callers of take_owned, the        *)
(* background loop, which starts generations and discards assets, and the  *)
(* generations.  A step is what happens under one lock or between two      *)
(* awaits.  The shares themselves are left out: an asset is its id and the *)
(* participants that hold shares of it.  The rest of the network is        *)
(* external: `alive` changes as it likes.                                  *)
(***************************************************************************)
EXTENDS Integers, SequencesExt, FiniteSetsExt, TLC

CONSTANTS
    all_participants, my_participant_id,
    threshold,                  \* participants of an asset
    desired_to_buffer,          \* assets to keep available
    concurrency,                \* generations that compute; as many may queue up
    batch_size,                 \* assets made by a generation
    num_assets_to_process,      \* assets looked at by one discard
    Takers,                     \* callers of take_owned
    MaxClock, MaxIds,           \* bounds on time and on ids
    UnsteadyPeers,              \* participants that come and go
    MaxAliveChanges,            \* bound on the changes of `alive`
    MigratingNodes,             \* participants that may get another node
    MaxChanges                  \* bound on changes of the configuration

ASSUME AssetsAssumption ==
    /\ my_participant_id \in all_participants
    /\ threshold \in Nat \ {0} /\ desired_to_buffer \in Nat
    /\ concurrency \in Nat /\ batch_size \in Nat \ {0} /\ num_assets_to_process \in Nat
    /\ IsFiniteSet(Takers)
    /\ MaxClock \in Nat /\ MaxIds \in Nat /\ MaxChanges \in Nat

VARIABLES
    db,                 \* the owned assets in the database
    db_epoch_data,      \* the configuration in the database
    config,             \* the configuration: epoch, and key of each participant
    running,            \* "down", "cleaned" or "running"
    alive,              \* what alive_participant_ids_query returns
    alive_changes,      \* how often it changed
    clock,              \* wall time, in seconds; it moves only with a restart of
                        \* the binary, as ids of later seconds differ all the more
    last_id,
    hot,                \* the hot queue
    cold,               \* the cold queue: [queue, ready, available, last]
    in_flight,          \* generations under way: [id, participants]
    takers,             \* per caller of take_owned: [pc, asset]
    discarding,         \* the discard of the background loop: [left, removed, hot]
    issued, used        \* history: ids reserved, and ids of assets handed out,
                        \* but for those that a new store forgets (Forgotten)

memVars == <<alive, alive_changes, last_id, hot, cold, in_flight, takers, discarding>>
assetVars == <<db, db_epoch_data, config, running, clock, memVars, issued, used>>

NoId == <<>>
NoAsset == [id |-> NoId]
NoConfig == [epoch |-> -1]

-----------------------------------------------------------------------------
(* Ids: a timestamp in seconds, and a counter.                             *)

IdLess(a, b) == a[1] < b[1] \/ (a[1] = b[1] /\ a[2] < b[2])

pick_new_after_Now(id) == <<clock, 0>>

pick_new_after(id) == IF clock > id[1] THEN <<clock, 0>> ELSE <<id[1], id[2] + 1>>

add_to_counter(id, delta) == <<id[1], id[2] + delta>>

\* The ids of a range that starts after the last one.
FirstId == IF last_id = NoId THEN <<clock, 0>> ELSE pick_new_after(last_id)

IdRange(start) == {add_to_counter(start, i) : i \in 0 .. batch_size - 1}

-----------------------------------------------------------------------------
(* The cold queue.                                                         *)

EmptyCold == [queue |-> <<>>, ready |-> 0, available |-> 0, last |-> {}]

condition(value, asset) == asset.participants \subseteq value

\* update_condition_value
update_condition_value(q) ==
    IF alive = q.last THEN q
    ELSE [q EXCEPT !.last = alive, !.ready = 0, !.available = Len(q.queue)]

\* update_condition_value_if_due: once per second.
IfDue(q) == {q, update_condition_value(q)}

\* take, when something may be available: the element, or NoAsset if it went to
\* the end of the queue.
Taken(q) ==
    IF q.ready > 0 \/ condition(q.last, Head(q.queue)) THEN Head(q.queue) ELSE NoAsset

AfterTake(q) ==
    [q EXCEPT !.available = @ - 1,
              !.ready = IF @ > 0 THEN @ - 1 ELSE @,
              !.queue = IF Taken(q) = NoAsset THEN Append(Tail(@), Head(@)) ELSE Tail(@)]

\* discard, when the queue holds more than what is ready.
Discarded(q) ==
    IF q.available = Len(q.queue) /\ condition(q.last, Last(q.queue)) THEN NoAsset ELSE Last(q.queue)

AfterDiscard(q) ==
    IF Discarded(q) = NoAsset
    THEN [q EXCEPT !.ready = @ + 1, !.queue = <<Last(@)>> \o Front(@)]
    ELSE [q EXCEPT !.available = IF @ = Len(q.queue) THEN @ - 1 ELSE @, !.queue = Front(@)]

\* add_if_condition_satisfied and add_if_condition_not_satisfied
AddedReady(q, asset) ==
    [q EXCEPT !.queue = <<asset>> \o @, !.ready = @ + 1, !.available = @ + 1]

AddedOffline_Front(q, asset) == [q EXCEPT !.queue = <<asset>> \o @]

AddedOffline(q, asset) == [q EXCEPT !.queue = Append(@, asset)]

num_owned == Len(hot) + cold.available

-----------------------------------------------------------------------------
(* Start and stop.                                                         *)

Idle == [pc |-> "idle", asset |-> NoAsset]
NotDiscarding == [left |-> 0, removed |-> {}, hot |-> FALSE, on |-> FALSE]

AssetsInit ==
    /\ db = {} /\ db_epoch_data = NoConfig
    /\ config = [epoch |-> 0, keys |-> [p \in all_participants |-> 0]]
    /\ running = "down"
    /\ alive = all_participants /\ alive_changes = 0
    /\ clock = 0 /\ last_id = NoId
    /\ hot = <<>> /\ cold = EmptyCold
    /\ in_flight = {} /\ takers = [t \in Takers |-> Idle]
    /\ discarding = NotDiscarding
    /\ issued = {} /\ used = {}

\* cleanup_behavior: a new epoch deletes all, a new key the assets it is in.
\* (An entry in the format of older versions holds the epoch only; nothing is
\* deleted then while the epoch is the same.  The database begins without one.)
Kept_SameEpoch(a) == db_epoch_data # NoConfig => db_epoch_data.epoch = config.epoch

Kept(a) ==
    db_epoch_data # NoConfig =>
        /\ db_epoch_data.epoch = config.epoch
        /\ \A p \in a.participants : db_epoch_data.keys[p] = config.keys[p]

\* delete_stale_triples_and_presignatures commits twice, and the store is
\* made from the database after that (run_mpc).
delete_stale ==
    /\ running = "down"
    /\ db' = {a \in db : Kept(a)}
    /\ running' = "cleaned"
    /\ UNCHANGED <<db_epoch_data, config, clock, memVars, issued, used>>

\* The database yields the assets by their ids.
InKeyOrder(s) == \A i, j \in DOMAIN s : i < j => IdLess(s[i].id, s[j].id)

\* A store made anew knows the ids in the database.  Of the others it cannot
\* give out those of earlier seconds again, but those of this very second.
Forgotten == {i \in issued : i[1] = clock /\ \A a \in db : a.id # i}

new_store ==
    /\ running = "cleaned"
    /\ running' = "running"
    /\ db_epoch_data' = config
    /\ hot' \in {s \in SetToSeqs(db) : InKeyOrder(s)}
    /\ last_id' = IF db = {} THEN NoId ELSE Last(hot').id
    /\ issued' = issued \ Forgotten /\ used' = used \ Forgotten
    /\ UNCHANGED <<db, config, clock, alive, alive_changes, cold, in_flight, takers, discarding>>

\* What the contract says of the network: a resharing, or another node of a
\* participant.
NewConfigs ==
    {[config EXCEPT !.epoch = @ + 1]} \cup
    {[config EXCEPT !.keys[p] = @ + 1] : p \in MigratingNodes}

Changes(c) == c.epoch + SumSet({c.keys[p] : p \in all_participants})

\* The job ends: it is done, it fails, or the contract left the state that it
\* is for.  What is in memory is lost.
job_ends(c) ==
    /\ running # "down"
    /\ running' = "down" /\ config' = c
    /\ last_id' = NoId /\ hot' = <<>> /\ cold' = EmptyCold
    /\ in_flight' = {} /\ takers' = [t \in Takers |-> Idle]
    /\ discarding' = NotDiscarding
    /\ UNCHANGED <<db, db_epoch_data, alive, alive_changes, issued, used>>

\* The coordinator runs the next job at once, maybe within the same second.
rerun(c) == job_ends(c) /\ UNCHANGED clock

\* The process stops and is started again: "At least one second passes during
\* a restart of the binary" (UniqueId).
restart(c) ==
    /\ clock < MaxClock /\ clock' = clock + 1
    /\ job_ends(c)

-----------------------------------------------------------------------------
(* The background loop and its generations.                                *)

\* Another participant comes or goes.
peer_changes(p) ==
    /\ p # my_participant_id /\ p \in UnsteadyPeers
    /\ alive_changes < MaxAliveChanges /\ alive_changes' = alive_changes + 1
    /\ alive' = IF p \in alive THEN alive \ {p} ELSE alive \cup {p}
    /\ UNCHANGED <<db, db_epoch_data, config, running, clock, last_id, hot, cold, in_flight,
                   takers, discarding, issued, used>>

\* A generation starts: ids are reserved, participants chosen.  (A channel
\* that cannot be opened is a generation that fails.)
generate(chosen) ==
    /\ running = "running" /\ ~ discarding.on
    /\ num_owned + batch_size * Cardinality(in_flight) < desired_to_buffer
    /\ Cardinality(in_flight) < 2 * concurrency
    /\ chosen \subseteq alive /\ my_participant_id \in chosen /\ Cardinality(chosen) = threshold
    /\ last_id' = add_to_counter(FirstId, batch_size - 1)
    /\ Cardinality(issued) + batch_size <= MaxIds /\ last_id'[2] < MaxIds
    /\ in_flight' = in_flight \cup {[start |-> FirstId, participants |-> chosen, added |-> 0]}
    /\ issued' = issued \cup IdRange(FirstId)
    /\ UNCHANGED <<db, db_epoch_data, config, running, clock, alive, alive_changes, hot, cold, takers,
                   discarding, used>>

\* It ends well: its assets are added one by one.
add_owned(g) ==
    LET a == [id |-> add_to_counter(g.start, g.added), participants |-> g.participants,
              made_with |-> [epoch |-> config.epoch,
                             keys  |-> [p \in g.participants |-> config.keys[p]]]]
        rest == IF g.added + 1 = batch_size THEN {} ELSE {[g EXCEPT !.added = @ + 1]}
    IN  /\ db' = db \cup {a}
        /\ hot' = Append(hot, a)
        /\ in_flight' = (in_flight \ {g}) \cup rest
        /\ UNCHANGED <<db_epoch_data, config, running, clock, alive, alive_changes, last_id, cold, takers,
                       discarding, issued, used>>

generation_fails(g) ==
    /\ g.added = 0
    /\ in_flight' = in_flight \ {g}
    /\ UNCHANGED <<db, db_epoch_data, config, running, clock, alive, alive_changes, last_id, hot, cold, takers,
                   discarding, issued, used>>

\* maybe_discard_owned, when the store is full: first the cold queue ...
maybe_discard_owned ==
    /\ running = "running" /\ ~ discarding.on
    /\ num_owned = desired_to_buffer
    /\ cold' = update_condition_value(cold)
    /\ discarding' = [NotDiscarding EXCEPT !.on = TRUE, !.left = num_assets_to_process]
    /\ UNCHANGED <<db, db_epoch_data, config, running, clock, alive, alive_changes, last_id, hot, in_flight,
                   takers, issued, used>>

discard_cold(q) ==
    /\ discarding.on /\ ~ discarding.hot /\ discarding.left > 0
    /\ IF q.ready = Len(q.queue)
       THEN /\ cold' = q
            /\ discarding' = [discarding EXCEPT !.hot = TRUE]
       ELSE /\ cold' = AfterDiscard(q)
            /\ discarding' = [discarding EXCEPT !.left = @ - 1,
                  !.removed = IF Discarded(q) = NoAsset THEN @ ELSE @ \cup {Discarded(q).id}]
    /\ UNCHANGED <<db, db_epoch_data, config, running, clock, alive, alive_changes, last_id, hot, in_flight,
                   takers, issued, used>>

\* ... then the hot queue; what is not kept leaves memory only ...
discard_hot(q) ==
    /\ discarding.on /\ discarding.hot /\ discarding.left > 0 /\ hot # <<>>
    /\ hot' = Tail(hot)
    /\ cold' = IF condition(q.last, Head(hot)) THEN AddedReady(q, Head(hot)) ELSE q
    /\ discarding' = [discarding EXCEPT !.left = @ - 1]
    /\ UNCHANGED <<db, db_epoch_data, config, running, clock, alive, alive_changes, last_id, in_flight,
                   takers, issued, used>>

\* ... and last the database.
discard_ends ==
    /\ discarding.on
    /\ discarding.left = 0 \/ (discarding.hot /\ hot = <<>>)
    /\ db' = {a \in db : a.id \notin discarding.removed}
    /\ discarding' = NotDiscarding
    /\ UNCHANGED <<db_epoch_data, config, running, clock, alive, alive_changes, last_id, hot, cold, in_flight,
                   takers, issued, used>>

-----------------------------------------------------------------------------
(* take_owned.                                                             *)

storeUnchanged == UNCHANGED <<db_epoch_data, config, running, clock, alive, alive_changes, last_id, in_flight,
                              discarding, issued>>

Goes(t, pc, asset) == takers' = [takers EXCEPT ![t] = [pc |-> pc, asset |-> asset]]

take_owned(t) ==
    /\ running = "running" /\ takers[t].pc = "idle"
    /\ cold' = update_condition_value(cold)
    /\ Goes(t, "take", NoAsset)
    /\ storeUnchanged /\ UNCHANGED <<db, hot, used>>

take(t, q) ==
    /\ takers[t].pc = "take"
    /\ IF q.available = 0
       THEN cold' = q /\ Goes(t, "wait", NoAsset)
       ELSE /\ cold' = AfterTake(q)
            /\ IF Taken(q) = NoAsset THEN UNCHANGED takers ELSE Goes(t, "taken", Taken(q))
    /\ storeUnchanged /\ UNCHANGED <<db, hot, used>>

\* Waiting ends after a second, with an element of the hot queue, or because
\* the caller's time is over.
wait_ends_Never(t) ==
    /\ takers[t].pc = "wait" /\ hot # <<>>
    /\ Goes(t, "take", NoAsset)
    /\ storeUnchanged /\ UNCHANGED <<db, hot, cold, used>>

wait_ends(t) ==
    /\ takers[t].pc = "wait"
    /\ Goes(t, "take", NoAsset)
    /\ storeUnchanged /\ UNCHANGED <<db, hot, cold, used>>

receive_hot(t, q) ==
    /\ takers[t].pc = "wait" /\ hot # <<>>
    /\ hot' = Tail(hot)
    /\ IF condition(q.last, Head(hot))
       THEN cold' = q /\ Goes(t, "taken", Head(hot))
       ELSE cold' = AddedOffline(q, Head(hot)) /\ Goes(t, "take", NoAsset)
    /\ storeUnchanged /\ UNCHANGED <<db, used>>

cancel(t) ==
    /\ takers[t].pc = "wait"
    /\ Goes(t, "idle", NoAsset)
    /\ storeUnchanged /\ UNCHANGED <<db, hot, cold, used>>

\* The caller gets the asset once it is out of the database.
hand_out_Kept(t) ==
    /\ takers[t].pc = "taken"
    /\ used' = used \cup {takers[t].asset.id}
    /\ Goes(t, "idle", NoAsset)
    /\ storeUnchanged /\ UNCHANGED <<db, hot, cold>>

hand_out(t) ==
    /\ takers[t].pc = "taken"
    /\ db' = db \ {takers[t].asset}
    /\ used' = used \cup {takers[t].asset.id}
    /\ Goes(t, "idle", NoAsset)
    /\ storeUnchanged /\ UNCHANGED <<hot, cold>>

-----------------------------------------------------------------------------
AssetsNext ==
    \/ delete_stale \/ new_store
    \/ \E c \in {config} \cup NewConfigs :
          Changes(c) <= MaxChanges /\ (rerun(c) \/ restart(c))
    \/ \E p \in all_participants : peer_changes(p)
    \/ \E chosen \in SUBSET all_participants : generate(chosen)
    \/ \E g \in in_flight : add_owned(g) \/ generation_fails(g)
    \/ maybe_discard_owned \/ discard_ends
    \/ \E q \in IfDue(cold) : discard_cold(q) \/ discard_hot(q)
    \/ \E t \in Takers :
          \/ take_owned(t) \/ wait_ends(t) \/ cancel(t) \/ hand_out(t)
          \/ \E q \in IfDue(cold) : take(t, q) \/ receive_hot(t, q)

\* Tasks run when they can.  A look at the hot queue finds what is in it, and
\* after a second of waiting the condition is fetched again.
AssetsFairness ==
    \A t \in Takers :
        /\ WF_assetVars(\E q \in IfDue(cold) : take(t, q))
        /\ SF_assetVars(take(t, update_condition_value(cold)))
        /\ WF_assetVars(wait_ends(t))
        /\ SF_assetVars(\E q \in IfDue(cold) : receive_hot(t, q))
        /\ WF_assetVars(hand_out(t))

AssetsSpec == AssetsInit /\ [][AssetsNext]_assetVars /\ AssetsFairness

-----------------------------------------------------------------------------
(* Properties.                                                             *)

InMemory == {hot[i] : i \in DOMAIN hot} \cup {cold.queue[i] : i \in DOMAIN cold.queue}
Held     == {takers[t].asset : t \in {u \in Takers : takers[u].pc = "taken"}}

\* The three sections of the cold queue: what is before cold_ready satisfies
\* the condition, what is after cold_available does not, whatever callers and
\* the discard do to both ends, and however often the condition changes.
\* (The code's test verify_cold_queue_internal_consistency asserts this.)
BarriersHold ==
    /\ cold.ready <= cold.available /\ cold.available <= Len(cold.queue)
    /\ \A i \in 1 .. cold.ready : condition(cold.last, cold.queue[i])
    /\ \A i \in cold.available + 1 .. Len(cold.queue) : ~ condition(cold.last, cold.queue[i])

\* An asset is handed out at most once, also over restarts and reruns, and two
\* callers never hold the same one: a presignature used twice gives the key
\* away.  (An id leaves `used` only when nothing is stored under it, so that
\* what comes under it later is another asset.)
HandedOutOnce ==
    /\ Cardinality(Held) = Cardinality({t \in Takers : takers[t].pc = "taken"})
    /\ Len(hot) + Len(cold.queue) = Cardinality(InMemory)
    /\ (InMemory \cup Held) \subseteq {a \in db : a.id \notin used}
    /\ InMemory \cap Held = {}

\* A reserved id was never reserved before, although reservations are not kept
\* over restarts of the binary, nor over reruns of the job
\* (generate_and_reserve_id, "the assumption that the clock moves forward at
\* least a second across restarts").  The one exception is in `issued`: a job
\* that is rerun within the second may give out an id again of which the
\* database has nothing (see AssetIds).
FreshIds ==
    \A g \in in_flight' \ in_flight : g.added = 0 => IdRange(g.start) \cap issued = {}

IdsNotReused == [][FreshIds]_assetVars

\* When the store is up, all its assets were made in this epoch with nodes that
\* still take part: "If the epoch id changed, then all assets are deleted",
\* and those "involving any nodes that changed their TLS key", also when the
\* job or the process ends between the two, any number of times and with the
\* configuration changing meanwhile.
AssetsOfThisConfig ==
    running = "running" =>
        \A a \in db : /\ a.made_with.epoch = config.epoch
                       /\ \A p \in a.participants : a.made_with.keys[p] = config.keys[p]

\* A caller of take_owned does not wait on while there is an asset that it
\* could use, wherever the asset is and although the caller began to wait when
\* it could not be used.  (The set of alive participants changes at most
\* MaxAliveChanges times; while it changes all the time nothing is promised.)
Overlooked(t) ==
    /\ takers[t].pc \in {"take", "wait"}
    /\ \E a \in InMemory : a.participants \subseteq alive

CallersServed == \A t \in Takers : []<>~ Overlooked(t)
=============================================================================
