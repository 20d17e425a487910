----------------------------- MODULE Keyshares ------------------------------
(***************************************************************************)
(* The nodes of the network and the keyshares on their disks, next to the  *)
(* contract.  A node takes part in a key event (key_events.rs), commits    *)
(* its share to temporary storage before it votes, and promotes shares to  *)
(* permanent storage once the contract says which attempt counts           *)
(* (keyshare.rs).  Nodes crash and restart at any time.                    *)
(*                                                                         *)
(* crates/node/src/{key_events.rs, coordinator.rs, keyshare.rs,            *)
(*                  keyshare/permanent.rs, keyshare/temporary.rs}          *)
(*                                                                         *)
(* A run is one execution of the distributed computation, on one network   *)
(* channel.  The computation itself is external: it ends at a node only    *)
(* if every participant took part, and then yields the run's share.  A     *)
(* share is (key id, public key, run); its secret is left out.  A node     *)
(* reads the contract before it acts: what it read is kept in `tasks` and  *)
(* `loading` and may be stale when it is used.                             *)
(***************************************************************************)
EXTENDS Contract

CONSTANT MaxRuns        \* bound on the number of channels opened

ASSUME RunsAssumption == MaxRuns \in Nat

VARIABLES
    permanent,      \* node -> [epoch_id, keyshares], the permanent storage
    started,        \* node -> key ids with a "started" file
    temporary,      \* node -> shares with a "keyshare" file
    job,            \* node -> job that its coordinator runs
    loading,        \* node -> update_permanent_keyshares in progress
    leading,        \* node -> attempt that the leader asked to start, or none
    tasks,          \* node -> computations in progress
    runs,           \* channels opened by leaders, in order
    votes_sent      \* transactions that nodes sent; they may be late or lost

nodeVars == <<permanent, started, temporary, job, loading, leading, tasks, runs, votes_sent>>
systemVars == <<vars, nodeVars>>

NoPermanent == [epoch_id |-> -1, keyshares |-> <<>>]
NotLoading  == [step |-> "idle", epoch_id |-> -1, domains |-> <<>>]

NotLeading  == [epoch_id |-> -1, domain_id |-> -1, attempt_id |-> -1]

KeyId(epoch_id, k) ==
    [epoch_id |-> epoch_id, domain_id |-> k.domain_id, attempt_id |-> k.attempt]

\* Keyshare::check_consistency: the share is the one `k` of the epoch asks for.
check_consistency(share, epoch_id, k) == share.id = KeyId(epoch_id, k) /\ share.key = k.key

\* verify_existing_keyshares_are_prefix_of_keyset
IsPrefixOfKeyset(keyshares, epoch_id, keys) ==
    /\ Len(keyshares) <= Len(keys)
    /\ \A i \in 1 .. Len(keyshares) : check_consistency(keyshares[i], epoch_id, keys[i])

SharesFor(a, id) == {s \in temporary[a] : s.id = id}

\* Shares of the epoch in permanent storage.
PermanentShares(a, epoch_id) ==
    IF permanent[a].epoch_id = epoch_id THEN permanent[a].keyshares ELSE <<>>

\* _load_keyshares_from_permanent_or_temporary succeeds for this keyset.
CanLoad(a, epoch_id, keys) ==
    LET existing == PermanentShares(a, epoch_id)
    IN  /\ IsPrefixOfKeyset(existing, epoch_id, keys)
        /\ \A i \in (Len(existing) + 1) .. Len(keys) : SharesFor(a, KeyId(epoch_id, keys[i])) # {}

Loaded_AnyAttempt(a, epoch_id, keys) ==
    LET existing == PermanentShares(a, epoch_id)
    IN  [i \in 1 .. Len(keys) |->
            IF i <= Len(existing) THEN existing[i]
            ELSE CHOOSE s \in temporary[a] :
                    s.id.epoch_id = epoch_id /\ s.id.domain_id = keys[i].domain_id]

\* ... and returns these shares.
Loaded(a, epoch_id, keys) ==
    LET existing == PermanentShares(a, epoch_id)
    IN  [i \in 1 .. Len(keys) |->
            IF i <= Len(existing) THEN existing[i]
            ELSE CHOOSE s \in SharesFor(a, KeyId(epoch_id, keys[i])) : TRUE]

\* PermanentKeyshareData::new and PermanentKeyStorage::store accept the shares.
CanStore(a, epoch_id, shares) ==
    LET old == permanent[a]
    IN  /\ shares # <<>>
        /\ shares[1].id.epoch_id = epoch_id
        /\ \A i \in 1 .. (Len(shares) - 1) :
              /\ shares[i].id.epoch_id = shares[i + 1].id.epoch_id
              /\ shares[i].id.domain_id < shares[i + 1].id.domain_id
        /\ old # NoPermanent =>
              /\ old.epoch_id <= epoch_id
              /\ Len(old.keyshares) <= Len(shares)
              /\ old.epoch_id = epoch_id => Len(old.keyshares) < Len(shares)
              /\ \A i \in 1 .. Len(old.keyshares) :
                    /\ old.keyshares[i].id.domain_id = shares[i].id.domain_id
                    /\ old.epoch_id = epoch_id => old.keyshares[i].id = shares[i].id
                    /\ old.keyshares[i].key = shares[i].key

\* start_generating_key accepts the key id, given the keys generated before.
MayGenerate(a, id, generated) ==
    LET p == permanent[a]
        n == Len(PermanentShares(a, id.epoch_id))
    IN  /\ p.epoch_id <= id.epoch_id
        /\ IsPrefixOfKeyset(PermanentShares(a, id.epoch_id), id.epoch_id, generated)
        /\ \A i \in (n + 1) .. Len(generated) :
              \E s \in temporary[a] : check_consistency(s, id.epoch_id, generated[i])
        /\ id \notin started[a]

\* start_resharing_key accepts the key id, given the keys reshared before.
MayReshare(a, id, reshared) ==
    /\ permanent[a].epoch_id < id.epoch_id
    /\ \A i \in 1 .. Len(reshared) :
          \E s \in temporary[a] : check_consistency(s, id.epoch_id, reshared[i])
    /\ id \notin started[a]

\* The job for the contract's state: a change of phase or epoch stops the one
\* that runs, anything else is passed on to it (stop_running, stop_resharing,
\* stop_initializing).
CurrentJob ==
    [phase |-> phase,
     epoch_id |-> IF phase = "Running" THEN keyset.epoch_id ELSE key_event.epoch_id]

\* The node's job is the one for the contract's state, which it can see.
Follows(a) == job[a] = CurrentJob

-----------------------------------------------------------------------------
\* Nodes of the initial participants hold the initial keys.
NodesInit ==
    /\ Init
    /\ permanent = [a \in Accounts |->
          IF a \in Members(InitialParameters) /\ InitialDomains # <<>>
          THEN [epoch_id |-> 0,
                keyshares |-> [i \in 1 .. Len(InitialDomains) |->
                    [id  |-> KeyId(0, keyset.domains[i]),
                     key |-> keyset.domains[i].key, run |-> 0]]]
          ELSE NoPermanent]
    /\ started = [a \in Accounts |-> {}]
    /\ temporary = [a \in Accounts |-> {}]
    /\ job = [a \in Accounts |-> CurrentJob]
    /\ loading = [a \in Accounts |-> NotLoading]
    /\ leading = [a \in Accounts |-> NotLeading]
    /\ tasks = [a \in Accounts |-> {}]
    /\ runs = <<>>
    /\ votes_sent = {}

\* convert_key_event_to_instance: the attempt a node sees, and whether it is on.
Started == active(key_event.instance, height)

SeenId ==
    [epoch_id |-> key_event.epoch_id, domain_id |-> key_event.domain_id,
     attempt_id |-> IF Started THEN key_event.instance.attempt_id
                               ELSE key_event.next_attempt_id]

Tx(a, call, id, key) == [signer |-> a, call |-> call, id |-> id, key |-> key]

\* The node can reshare: a previous participant promoted its keys first
\* (run_key_resharing), and was refused otherwise.
ReadyFor(a) ==
    phase = "Resharing" /\ a \in Members(parameters) =>
        /\ permanent[a].epoch_id = keyset.epoch_id
        /\ Len(permanent[a].keyshares) = Len(keyset.domains)

\* keygen_leader, resharing_leader: no attempt is on, so ask for the next one.
lead(a) ==
    /\ Follows(a)
    /\ phase \in {"Initializing", "Resharing"}
    /\ a = Leader(key_event.parameters)
    /\ ReadyFor(a)
    /\ tasks[a] = {} /\ leading[a] = NotLeading
    /\ ~ Started
    /\ leading' = [leading EXCEPT ![a] = SeenId]
    /\ votes_sent' = votes_sent \cup {Tx(a, "start", SeenId, "none")}
    /\ UNCHANGED <<vars, job, permanent, started, temporary, loading, tasks, runs>>

\* The attempt is on: a channel to all participants.  Generation gives some
\* key, resharing the previous one.  The leader's own computation follows.
new_channel_for_task(a, key) ==
    /\ Len(runs) < MaxRuns
    /\ Follows(a)
    /\ phase \in {"Initializing", "Resharing"}
    /\ Started /\ leading[a] = SeenId
    /\ phase = "Resharing" => key = previous_key
    /\ runs' = Append(runs,
          [id |-> SeenId, resharing |-> phase = "Resharing", key |-> key,
           members |-> Members(key_event.parameters), received |-> {}, joined |-> {}])
    /\ leading' = [leading EXCEPT ![a] = NotLeading]
    /\ UNCHANGED <<vars, job, permanent, started, temporary, loading, tasks, votes_sent>>

\* Another attempt is on, or the start took too long: try again.
leader_retries(a) ==
    /\ leading[a] # NotLeading
    /\ leading' = [leading EXCEPT ![a] = NotLeading]
    /\ UNCHANGED <<vars, job, permanent, started, temporary, loading, tasks, runs, votes_sent>>

\* A participant gets the channel while the contract is at the key event, or
\* past it in the same epoch.  The start will be checked against what the
\* contract says is done by now.
receive_channel(a, r) ==
    /\ a \in runs[r].members \ runs[r].received
    /\ Follows(a)
    /\ phase = IF runs[r].resharing THEN "Resharing" ELSE "Initializing"
    /\ key_event.epoch_id = runs[r].id.epoch_id
    /\ ReadyFor(a)
    /\ runs' = [runs EXCEPT ![r].received = @ \cup {a}]
    /\ tasks' = [tasks EXCEPT ![a] = @ \cup
          {[run |-> r, step |-> "received", domain_id |-> key_event.domain_id,
            done |-> IF phase = "Resharing" THEN reshared_keys ELSE keyset.domains]}]
    /\ UNCHANGED <<vars, job, permanent, started, temporary, loading, leading, votes_sent>>

\* The contract was not at another domain, and the storage agrees.
MayStart(a, t) ==
    /\ runs[t.run].id.domain_id = t.domain_id
    /\ IF runs[t.run].resharing
       THEN MayReshare(a, runs[t.run].id, t.done)
       ELSE MayGenerate(a, runs[t.run].id, t.done)

Advance(a, t, step) == [tasks EXCEPT ![a] = (@ \ {t}) \cup {[t EXCEPT !.step = step]}]

\* start_generating_key / start_resharing_key: the "started" file is created.
\* A promotion holds the storage's lock until its clean-up is done.
start_key(a, t) ==
    /\ t.step = "received"
    /\ loading[a].step # "delete"
    /\ MayStart(a, t)
    /\ started' = [started EXCEPT ![a] = @ \cup {runs[t.run].id}]
    /\ runs' = [runs EXCEPT ![t.run].joined = @ \cup {a}]
    /\ tasks' = Advance(a, t, "computing")
    /\ UNCHANGED <<vars, job, permanent, temporary, loading, leading, votes_sent>>

\* The computation ended; the share is written and synced before the vote.
commit_keyshare(a, t) ==
    /\ t.step = "computing"
    /\ runs[t.run].joined = runs[t.run].members
    /\ SharesFor(a, runs[t.run].id) = {}
    /\ temporary' = [temporary EXCEPT ![a] =
          @ \cup {[id |-> runs[t.run].id, key |-> runs[t.run].key, run |-> t.run]}]
    /\ tasks' = Advance(a, t, "committed")
    /\ UNCHANGED <<vars, job, permanent, started, loading, leading, runs, votes_sent>>

\* vote_pk or vote_reshared goes out.
send_vote(a, t) ==
    /\ t.step = "committed"
    /\ votes_sent' = votes_sent \cup
          {Tx(a, IF runs[t.run].resharing THEN "vote_reshared" ELSE "vote_pk",
              runs[t.run].id, runs[t.run].key)}
    /\ tasks' = [tasks EXCEPT ![a] = @ \ {t}]
    /\ UNCHANGED <<vars, job, permanent, started, temporary, loading, leading, runs>>

\* The start was refused, or the computation failed: the attempt is aborted.
send_abort(a, t) ==
    /\ \/ t.step = "received" /\ ~ MayStart(a, t)
       \/ t.step = "computing"
    /\ votes_sent' = votes_sent \cup
          {Tx(a, "vote_abort", runs[t.run].id, "none")}
    /\ tasks' = [tasks EXCEPT ![a] = @ \ {t}]
    /\ UNCHANGED <<vars, job, permanent, started, temporary, loading, leading, runs>>

\* key_event_id_expiration: the contract moved past the attempt.
expire(a, t) ==
    /\ Follows(a)
    /\ phase \in {"Initializing", "Resharing"}
    /\ SeenId # runs[t.run].id
    /\ tasks' = [tasks EXCEPT ![a] = @ \ {t}]
    /\ UNCHANGED <<vars, job, permanent, started, temporary, loading, leading, runs, votes_sent>>

-----------------------------------------------------------------------------
\* run_mpc, run_key_resharing: the node of an active participant sees a
\* keyset and starts to promote it; a newcomer tries, too, and fails.
begin_load(a) ==
    /\ Follows(a)
    /\ phase \in {"Running", "Resharing"}
    /\ a \in active_participants
    /\ loading[a] = NotLoading
    /\ loading' = [loading EXCEPT ![a] =
          [step |-> "load", epoch_id |-> keyset.epoch_id, domains |-> keyset.domains]]
    /\ UNCHANGED <<vars, job, permanent, started, temporary, leading, tasks, runs, votes_sent>>

\* There is something to promote, no share is missing, the storage agrees.
Promotes(a) ==
    LET l == loading[a]
    IN  /\ CanLoad(a, l.epoch_id, l.domains)
        /\ Len(PermanentShares(a, l.epoch_id)) # Len(l.domains)
        /\ CanStore(a, l.epoch_id, Loaded(a, l.epoch_id, l.domains))

\* update_permanent_keyshares stores the keyset it was given ...
store_permanent(a) ==
    /\ loading[a].step = "load"
    /\ \/ /\ Promotes(a)
          /\ permanent' = [permanent EXCEPT ![a] =
                [epoch_id  |-> loading[a].epoch_id,
                 keyshares |-> Loaded(a, loading[a].epoch_id, loading[a].domains)]]
          /\ loading' = [loading EXCEPT ![a].step = "delete"]
       \/ /\ ~ Promotes(a)
          /\ loading' = [loading EXCEPT ![a] = NotLoading]
          /\ UNCHANGED permanent
    /\ UNCHANGED <<vars, job, started, temporary, leading, tasks, runs, votes_sent>>

\* ... and then deletes the temporary files of earlier epochs.  A crash halfway
\* would leave some of them; none is read again, since the epoch of a key that
\* a node loads or starts is not below the one in permanent storage.
Outdated(epoch_id, than) == epoch_id < than

delete_keyshares_prior_to_epoch_id(a) ==
    /\ loading[a].step = "delete"
    /\ temporary' = [temporary EXCEPT ![a] =
          {s \in @ : ~ Outdated(s.id.epoch_id, loading[a].epoch_id)}]
    /\ started' = [started EXCEPT ![a] =
          {id \in @ : ~ Outdated(id.epoch_id, loading[a].epoch_id)}]
    /\ loading' = [loading EXCEPT ![a] = NotLoading]
    /\ UNCHANGED <<vars, job, permanent, leading, tasks, runs, votes_sent>>

\* The node gets another job: it restarted after a crash, or the contract's
\* state is for another job and the coordinator waits for the old one to be
\* dropped.  Files stay.
switch_job(a) ==
    /\ ~ Follows(a) \/ tasks[a] # {} \/ loading[a] # NotLoading \/ leading[a] # NotLeading
    /\ job' = [job EXCEPT ![a] = CurrentJob]
    /\ tasks' = [tasks EXCEPT ![a] = {}]
    /\ leading' = [leading EXCEPT ![a] = NotLeading]
    /\ loading' = [loading EXCEPT ![a] = NotLoading]
    /\ UNCHANGED <<vars, permanent, started, temporary, runs, votes_sent>>

\* A transaction reaches the contract: possibly late, possibly again.
ContractCall(v) ==
    \/ v.call = "start" /\ (start_keygen_instance(v.signer, v.id)
                             \/ start_reshare_instance(v.signer, v.id))
    \/ v.call = "vote_pk" /\ vote_pk(v.signer, v.id, v.key)
    \/ v.call = "vote_reshared" /\ vote_reshared(v.signer, v.id)
    \/ v.call = "vote_abort" /\ vote_abort_key_event_instance(v.signer, v.id)

NodesNext ==
    \/ OperatorNext /\ UNCHANGED nodeVars
    \/ \E v \in votes_sent : ContractCall(v) /\ UNCHANGED nodeVars
    \/ \E a \in Accounts : lead(a) \/ leader_retries(a)
    \/ \E a \in Accounts, key \in PublicKeys : new_channel_for_task(a, key)
    \/ \E a \in Accounts, r \in 1 .. Len(runs) : receive_channel(a, r)
    \/ \E a \in Accounts : \E t \in tasks[a] :
          start_key(a, t) \/ commit_keyshare(a, t) \/ send_vote(a, t)
          \/ send_abort(a, t) \/ expire(a, t)
    \/ \E a \in Accounts : begin_load(a) \/ store_permanent(a)
    \/ \E a \in Accounts : delete_keyshares_prior_to_epoch_id(a) \/ switch_job(a)

NodesSpec == NodesInit /\ [][NodesNext]_systemVars

-----------------------------------------------------------------------------
(* Properties.                                                             *)

\* No participant is locked out: every node whose votes made the keyset what
\* it is can load all of it from its disk, whatever it missed of the
\* contract's states, wherever it crashed, and whatever stale keyset it was
\* promoting meanwhile (keyshare.rs: "node operators must not lose them").
KeysetLoadable ==
    \A a \in Members(parameters) : CanLoad(a, keyset.epoch_id, keyset.domains)

\* The shares that the participants hold of a key belong together: they are
\* of one run of the computation and of the public key in the contract,
\* although runs of several attempts end at some nodes and not at others, and
\* votes for earlier attempts arrive late.
SharesOfOneRun ==
    \A a, b \in Members(parameters) :
        /\ CanLoad(a, keyset.epoch_id, keyset.domains)
        /\ CanLoad(b, keyset.epoch_id, keyset.domains)
        => \A i \in 1 .. Len(keyset.domains) :
              LET s == Loaded(a, keyset.epoch_id, keyset.domains)[i]
                  t == Loaded(b, keyset.epoch_id, keyset.domains)[i]
              IN  s.run = t.run /\ s.key = keyset.domains[i].key
=============================================================================
