--------------------------- MODULE KeyshareProofs ---------------------------
(***************************************************************************)
(* Proofs about the keyshares on the disks of the nodes, for every choice  *)
(* of the constants: no participant is locked out of the keyset, wherever  *)
(* nodes crash, whatever they promote and whenever their votes arrive; the *)
(* shares of a key are of one run; and contract and nodes together keep    *)
(* the promise of Committee.                                               *)
(*                                                                         *)
(* KeysetLoadable is not inductive: a key joins the keyset with the last   *)
(* vote for it, so one has to know that a vote that counts was sent by a   *)
(* node that had committed the share (SentHeld, TasksHeld), that the votes *)
(* counted so far are such votes (CountedHeld, ResharedHeld), and that     *)
(* what is deleted is of an earlier epoch than the keyset's (LoadingInv).  *)
(*                                                                         *)
(* crates/node/src/{key_events.rs, keyshare.rs, keyshare/}                 *)
(***************************************************************************)
EXTENDS Keyshares, RefinementProofs

KeyEventIds == [epoch_id : Nat, domain_id : Nat, attempt_id : Nat]
Shares      == [id : KeyEventIds, key : PublicKeys, run : Nat]
Runs        == [id : KeyEventIds, resharing : BOOLEAN, key : PublicKeys,
                members : SUBSET Accounts, received : SUBSET Accounts,
                joined : SUBSET Accounts]
Tasks       == [run : Nat, step : {"received", "computing", "committed"},
                domain_id : Nat, done : Seq(KeysForDomain)]
Loads       == [step : {"idle", "load", "delete"}, epoch_id : Int,
                domains : Seq(KeysForDomain)]

NodeTypeOK ==
    /\ permanent \in [Accounts -> [epoch_id : Int, keyshares : Seq(Shares)]]
    /\ \A a \in Accounts : permanent[a].epoch_id = -1 => permanent[a] = NoPermanent
    /\ temporary \in [Accounts -> SUBSET Shares]
    /\ loading \in [Accounts -> Loads]
    /\ runs \in Seq(Runs)
    /\ tasks \in [Accounts -> SUBSET Tasks]
    /\ \A a \in Accounts : \A t \in tasks[a] : t.run \in 1 .. Len(runs)
    /\ \A v \in votes_sent :
          /\ v.signer \in Accounts
          /\ v.id \in KeyEventIds
          /\ v.call \in {"vote_pk", "vote_reshared"} => v.key \in PublicKeys

\* The shares have one of the attempt, under this public key.
HasShare(shares, id, key) == \E s \in shares : s.id = id /\ s.key = key

\* The node has committed its share.
Holds(a, id, key) == HasShare(temporary[a], id, key)

\* A node has one share per attempt in temporary storage.
OneShareEach == \A a \in Accounts : \A s, t \in temporary[a] : s.id = t.id => s = t

\* Permanent storage is never ahead of the contract, and what a participant
\* has there of the contract's epoch are the keys of the keyset.
PermanentInv ==
    /\ \A a \in Accounts : permanent[a].epoch_id <= keyset.epoch_id
    /\ \A a \in Members(parameters) :
          permanent[a].epoch_id = keyset.epoch_id =>
              IsPrefixOfKeyset(permanent[a].keyshares, keyset.epoch_id, keyset.domains)

\* Each participant has its share of each key, in one of the two storages.
KeysHeld ==
    \A a \in Members(parameters), i \in 1 .. Len(keyset.domains) :
        \/ Holds(a, KeyId(keyset.epoch_id, keyset.domains[i]), keyset.domains[i].key)
        \/ permanent[a].epoch_id = keyset.epoch_id /\ i <= Len(permanent[a].keyshares)

\* A keyset that a node promotes is, or was, the contract's: of an earlier
\* epoch, or a part of the keyset in force.
LoadingInv ==
    \A a \in Accounts : loading[a].step # "idle" =>
        /\ loading[a].epoch_id <= keyset.epoch_id
        /\ loading[a].epoch_id = keyset.epoch_id =>
              /\ Len(loading[a].domains) <= Len(keyset.domains)
              /\ \A i \in 1 .. Len(loading[a].domains) :
                    loading[a].domains[i] = keyset.domains[i]

\* The attempt in progress has an id below the next one.
AttemptBelow ==
    key_event.instance # NoInstance =>
        key_event.instance.attempt_id < key_event.next_attempt_id

\* Who has voted for the attempt in progress holds its share, under the key
\* that the contract will record.
CountedHeld ==
    phase # "Running" =>
        \A a \in key_event.instance.completed :
            /\ a \in Members(key_event.parameters)
            /\ \E k \in PublicKeys :
                  /\ Holds(a, InstanceId(key_event), k)
                  /\ phase = "Initializing" => key_event.instance.public_key = {k}
                  /\ phase = "Resharing" => k = previous_key

\* Each of the new participants holds its shares of the keys reshared so far.
ResharedHeld ==
    phase = "Resharing" =>
        \A a \in Members(key_event.parameters), i \in 1 .. Len(reshared_keys) :
            Holds(a, KeyId(key_event.epoch_id, reshared_keys[i]), reshared_keys[i].key)

\* The keys have this one for the domain of the attempt.
HasKey(keys, id, key) ==
    \E i \in 1 .. Len(keys) : keys[i].domain_id = id.domain_id /\ keys[i].key = key

\* A vote that can still count is about a share that its sender has committed,
\* and a vote for a reshared key is about the key that its domain has.
SentHeld ==
    \A v \in votes_sent :
        /\ (v.call \in {"vote_pk", "vote_reshared"} /\ v.id.epoch_id >= keyset.epoch_id) =>
              Holds(v.signer, v.id, v.key)
        /\ v.call = "vote_reshared" => HasKey(keyset.domains, v.id, v.key)

TasksHeld ==
    \A a \in Accounts : \A t \in tasks[a] :
        (t.step = "committed" /\ runs[t.run].id.epoch_id >= keyset.epoch_id) =>
            Holds(a, runs[t.run].id, runs[t.run].key)

RunsInForce ==
    \A r \in 1 .. Len(runs) :
        runs[r].resharing => HasKey(keyset.domains, runs[r].id, runs[r].key)

\* What has to hold of the disks for the keyset in force, what of the key event
\* in progress, and what of votes under way.
KeysetHeld == PermanentInv /\ KeysHeld /\ LoadingInv
EventHeld  == AttemptBelow /\ CountedHeld /\ ResharedHeld
VotesHeld  == SentHeld /\ TasksHeld /\ RunsInForce

ContractInv == KeyInv /\ TeeTypeOK /\ RegistryInv
KeyshareInv == NodeTypeOK /\ OneShareEach /\ KeysetHeld /\ EventHeld /\ VotesHeld

-----------------------------------------------------------------------------
\* What the contract's types say of the keyset (key_state.rs Keyset).
LEMMA KeysetType ==
  ASSUME KeyInv
  PROVE  /\ keyset.epoch_id \in Nat
         /\ keyset.domains \in Seq(KeysForDomain)
         /\ Len(keyset.domains) \in Nat
         /\ \A i \in 1 .. Len(keyset.domains) :
               /\ keyset.domains[i] \in KeysForDomain
               /\ keyset.domains[i].key \in PublicKeys
               /\ KeyId(keyset.epoch_id, keyset.domains[i]) \in KeyEventIds
               /\ KeyId(keyset.epoch_id, keyset.domains[i]).epoch_id = keyset.epoch_id
         /\ Members(parameters) \subseteq Accounts
  <1>1. /\ keyset.epoch_id \in Nat
        /\ keyset.domains \in Seq(KeysForDomain)
        /\ Len(keyset.domains) \in Nat
    BY DEF KeyInv, ProtocolTypeOK
  <1>2. \A i \in 1 .. Len(keyset.domains) : keyset.domains[i] \in KeysForDomain
    BY <1>1
  <1>3. Members(parameters) \subseteq Accounts
    BY ParametersType DEF KeyInv, ProtocolTypeOK
  <1>4. \A i \in 1 .. Len(keyset.domains) :
            /\ keyset.domains[i].key \in PublicKeys
            /\ KeyId(keyset.epoch_id, keyset.domains[i]) \in KeyEventIds
            /\ KeyId(keyset.epoch_id, keyset.domains[i]).epoch_id = keyset.epoch_id
    BY <1>1, <1>2 DEF KeysForDomain, KeyId, KeyEventIds
  <1>5. QED
    BY <1>1, <1>2, <1>3, <1>4

\* What the types of the nodes' state say of its parts.
LEMMA NodeFacts ==
  ASSUME NodeTypeOK
  PROVE  /\ Len(runs) \in Nat
         /\ \A r \in 1 .. Len(runs) :
               /\ runs[r] \in Runs
               /\ runs[r].id \in KeyEventIds /\ runs[r].id.epoch_id \in Nat
               /\ runs[r].key \in PublicKeys
         /\ \A a \in Accounts :
               /\ permanent[a].epoch_id \in Int /\ permanent[a].keyshares \in Seq(Shares)
               /\ Len(permanent[a].keyshares) \in Nat
               /\ loading[a].epoch_id \in Int /\ loading[a].domains \in Seq(KeysForDomain)
               /\ Len(loading[a].domains) \in Nat
         /\ \A v \in votes_sent : v.id.epoch_id \in Nat
  <1>1. Len(runs) \in Nat /\ \A r \in 1 .. Len(runs) : runs[r] \in Runs
    BY DEF NodeTypeOK
  <1>2. \A r \in Runs : r.id \in KeyEventIds /\ r.id.epoch_id \in Nat /\ r.key \in PublicKeys
    BY DEF Runs, KeyEventIds
  <1>3. \A a \in Accounts :
            /\ permanent[a].epoch_id \in Int /\ permanent[a].keyshares \in Seq(Shares)
            /\ Len(permanent[a].keyshares) \in Nat
    BY DEF NodeTypeOK
  <1>4. \A a \in Accounts :
            /\ loading[a].epoch_id \in Int /\ loading[a].domains \in Seq(KeysForDomain)
            /\ Len(loading[a].domains) \in Nat
    BY DEF NodeTypeOK, Loads
  <1>5. \A v \in votes_sent : v.id.epoch_id \in Nat
    BY DEF NodeTypeOK, KeyEventIds
  <1>6. QED
    BY <1>1, <1>2, <1>3, <1>4, <1>5

\* With a share of each key on disk, and nothing else in the way, a node loads
\* the keyset (keyshare.rs _load_keyshares_from_permanent_or_temporary).
LEMMA HeldIsLoadable ==
  ASSUME KeyInv, NodeTypeOK, PermanentInv, KeysHeld
  PROVE  KeysetLoadable
  <1> SUFFICES ASSUME NEW a \in Members(parameters)
               PROVE  CanLoad(a, keyset.epoch_id, keyset.domains)
    BY DEF KeysetLoadable
  <1> DEFINE existing == PermanentShares(a, keyset.epoch_id)
  <1>1. a \in Accounts /\ keyset.epoch_id \in Nat /\ Len(keyset.domains) \in Nat
    BY KeysetType
  <1>2. IsPrefixOfKeyset(existing, keyset.epoch_id, keyset.domains)
    <2>1. CASE permanent[a].epoch_id = keyset.epoch_id
      BY <2>1 DEF PermanentInv, PermanentShares
    <2>2. CASE permanent[a].epoch_id # keyset.epoch_id
      BY <1>1, <2>2 DEF PermanentShares, IsPrefixOfKeyset
    <2>3. QED
      BY <2>1, <2>2
  <1>3. ASSUME NEW i \in (Len(existing) + 1) .. Len(keyset.domains)
        PROVE  SharesFor(a, KeyId(keyset.epoch_id, keyset.domains[i])) # {}
    <2>1. Len(existing) \in Nat
      BY <1>1 DEF PermanentShares, NodeTypeOK
    <2>2. i \in 1 .. Len(keyset.domains)
      BY <1>1, <2>1
    <2>3. ~ (permanent[a].epoch_id = keyset.epoch_id /\ i <= Len(permanent[a].keyshares))
      BY <2>1 DEF PermanentShares
    <2>4. Holds(a, KeyId(keyset.epoch_id, keyset.domains[i]), keyset.domains[i].key)
      BY <2>2, <2>3 DEF KeysHeld
    <2>5. QED
      BY <2>4 DEF Holds, HasShare, SharesFor
  <1>4. QED
    BY <1>2, <1>3 DEF CanLoad

-----------------------------------------------------------------------------
(* Steps of the contract.                                                  *)

\* The keyset of the epoch grows, by keys that all participants hold.
KeysetGrows ==
    /\ keyset'.epoch_id = keyset.epoch_id
    /\ parameters' = parameters
    /\ Len(keyset.domains) <= Len(keyset'.domains)
    /\ \A i \in 1 .. Len(keyset.domains) : keyset'.domains[i] = keyset.domains[i]
    /\ \A a \in Members(parameters), i \in (Len(keyset.domains) + 1) .. Len(keyset'.domains) :
          Holds(a, KeyId(keyset.epoch_id, keyset'.domains[i]), keyset'.domains[i].key)

\* A later epoch begins, with keys that all its participants hold.
EpochBegins ==
    /\ keyset'.epoch_id > keyset.epoch_id
    /\ \A a \in Members(parameters'), i \in 1 .. Len(keyset'.domains) :
          Holds(a, KeyId(keyset'.epoch_id, keyset'.domains[i]), keyset'.domains[i].key)

KeysetStep == KeysetGrows \/ EpochBegins

\* A contract call that changes the keyset in one of these ways takes nothing
\* from anyone: what a node promotes was recorded earlier, and stays a part of
\* the keyset or becomes outdated (keyshare.rs update_permanent_keyshares).
LEMMA KeysetStepKeeps ==
  ASSUME KeyInv, KeyInv', NodeTypeOK, KeysetHeld, UNCHANGED nodeVars, KeysetStep
  PROVE  KeysetHeld'
  <1>1. /\ keyset.epoch_id \in Nat /\ keyset'.epoch_id \in Nat
        /\ Len(keyset.domains) \in Nat /\ Len(keyset'.domains) \in Nat
        /\ Members(parameters) \subseteq Accounts /\ Members(parameters') \subseteq Accounts
    <2>1. KeyInv => /\ keyset.epoch_id \in Nat /\ Len(keyset.domains) \in Nat
                    /\ Members(parameters) \subseteq Accounts
      BY KeysetType
    <2>2. (KeyInv => /\ keyset.epoch_id \in Nat /\ Len(keyset.domains) \in Nat
                     /\ Members(parameters) \subseteq Accounts)'
      BY KeysetType, PTL
    <2>3. QED
      BY <2>1, <2>2
  <1>2. /\ \A a \in Accounts : /\ permanent[a].epoch_id \in Int /\ loading[a].epoch_id \in Int
                               /\ Len(permanent[a].keyshares) \in Nat
                               /\ Len(loading[a].domains) \in Nat
        /\ permanent' = permanent /\ temporary' = temporary /\ loading' = loading
    BY NodeFacts DEF nodeVars
  <1>3. keyset'.epoch_id >= keyset.epoch_id
    BY <1>1 DEF KeysetStep, KeysetGrows, EpochBegins
  <1>4. \A a \in Accounts : permanent'[a].epoch_id <= keyset'.epoch_id
    BY <1>1, <1>2, <1>3 DEF KeysetHeld, PermanentInv
  <1>5. CASE KeysetGrows
    <2>1. ASSUME NEW a \in Members(parameters'), permanent'[a].epoch_id = keyset'.epoch_id
          PROVE  IsPrefixOfKeyset(permanent'[a].keyshares, keyset'.epoch_id, keyset'.domains)
      <3>1. /\ IsPrefixOfKeyset(permanent[a].keyshares, keyset.epoch_id, keyset.domains)
            /\ a \in Accounts
        BY <1>1, <1>2, <1>5, <2>1 DEF KeysetHeld, PermanentInv, KeysetGrows
      <3>2. /\ Len(permanent'[a].keyshares) <= Len(keyset'.domains)
            /\ \A i \in 1 .. Len(permanent'[a].keyshares) :
                  i \in 1 .. Len(keyset.domains) /\ keyset'.domains[i] = keyset.domains[i]
        BY <1>1, <1>2, <1>5, <3>1 DEF KeysetGrows, IsPrefixOfKeyset
      <3>3. keyset'.epoch_id = keyset.epoch_id /\ permanent'[a] = permanent[a]
        BY <1>2, <1>5 DEF KeysetGrows
      <3>4. QED
        BY <3>1, <3>2, <3>3 DEF IsPrefixOfKeyset
    <2>2. ASSUME NEW a \in Members(parameters'), NEW i \in 1 .. Len(keyset'.domains)
          PROVE  \/ Holds(a, KeyId(keyset'.epoch_id, keyset'.domains[i]), keyset'.domains[i].key)
                 \/ permanent[a].epoch_id = keyset'.epoch_id /\ i <= Len(permanent[a].keyshares)
      <3>1. a \in Members(parameters) /\ keyset'.epoch_id = keyset.epoch_id
        BY <1>5 DEF KeysetGrows
      <3>2. CASE i \in 1 .. Len(keyset.domains)
        BY <1>5, <3>1, <3>2 DEF KeysetGrows, KeysetHeld, KeysHeld
      <3>3. CASE i \in (Len(keyset.domains) + 1) .. Len(keyset'.domains)
        BY <1>5, <3>1, <3>3 DEF KeysetGrows
      <3>4. QED
        BY <1>1, <3>2, <3>3
    <2>3. LoadingInv'
      BY <1>1, <1>2, <1>5 DEF KeysetGrows, KeysetHeld, LoadingInv
    <2>4. PermanentInv'
      BY <1>4, <2>1 DEF PermanentInv
    <2>5. KeysHeld'
      BY <1>2, <2>2 DEF KeysHeld, Holds
    <2>6. QED
      BY <2>3, <2>4, <2>5 DEF KeysetHeld
  <1>6. CASE EpochBegins
    <2>1. keyset'.epoch_id > keyset.epoch_id
      BY <1>6 DEF EpochBegins
    <2>2. LoadingInv'
      BY <1>1, <1>2, <2>1 DEF KeysetHeld, LoadingInv
    <2>3. \A a \in Accounts : permanent'[a].epoch_id # keyset'.epoch_id
      BY <1>1, <1>2, <2>1 DEF KeysetHeld, PermanentInv
    <2>4. PermanentInv'
      BY <1>1, <1>4, <2>3 DEF PermanentInv
    <2>5. KeysHeld'
      BY <1>2, <1>6 DEF EpochBegins, KeysHeld, Holds
    <2>6. QED
      BY <2>2, <2>4, <2>5 DEF KeysetHeld
  <1>7. QED
    BY <1>5, <1>6 DEF KeysetStep

\* The epoch does not fall and keys stay, so what held of a vote under way
\* holds of it after a contract call.
LEMMA CallKeepsVotes ==
  ASSUME KeyInv, KeyInv', KeepsKeys, NodeTypeOK, VotesHeld, UNCHANGED nodeVars
  PROVE  VotesHeld'
  <1>1. /\ keyset.epoch_id \in Nat /\ keyset'.epoch_id \in Nat
        /\ keyset'.epoch_id >= keyset.epoch_id
    BY DEF KeyInv, ProtocolTypeOK, KeepsKeys, GrowsEpoch
  <1>2. /\ temporary' = temporary /\ votes_sent' = votes_sent
        /\ tasks' = tasks /\ runs' = runs
    BY DEF nodeVars
  <1>3. \A id, key : HasKey(keyset.domains, id, key) => HasKey(keyset'.domains, id, key)
    BY DEF KeepsKeys, KeepsPublicKeys, HasKey
  <1>4. SentHeld'
    <2> SUFFICES ASSUME NEW v \in votes_sent
                 PROVE  /\ (v.call \in {"vote_pk", "vote_reshared"}
                              /\ v.id.epoch_id >= keyset'.epoch_id) =>
                              Holds(v.signer, v.id, v.key)
                        /\ v.call = "vote_reshared" => HasKey(keyset'.domains, v.id, v.key)
      BY <1>2 DEF SentHeld, Holds
    <2>1. v.id.epoch_id \in Nat
      BY NodeFacts
    <2>2. /\ (v.call \in {"vote_pk", "vote_reshared"} /\ v.id.epoch_id >= keyset.epoch_id) =>
                Holds(v.signer, v.id, v.key)
          /\ v.call = "vote_reshared" => HasKey(keyset.domains, v.id, v.key)
      BY DEF VotesHeld, SentHeld
    <2>3. QED
      BY <1>1, <1>3, <2>1, <2>2
  <1>5. TasksHeld'
    <2> SUFFICES ASSUME NEW a \in Accounts, NEW t \in tasks[a], t.step = "committed",
                        runs[t.run].id.epoch_id >= keyset'.epoch_id
                 PROVE  Holds(a, runs[t.run].id, runs[t.run].key)
      BY <1>2 DEF TasksHeld, Holds
    <2>1. t.run \in 1 .. Len(runs)
      BY DEF NodeTypeOK
    <2>2. runs[t.run].id.epoch_id \in Nat
      BY <2>1, NodeFacts
    <2>3. runs[t.run].id.epoch_id >= keyset.epoch_id
      BY <1>1, <2>2
    <2>4. QED
      BY <2>3, Zenon DEF VotesHeld, TasksHeld
  <1>6. RunsInForce'
    BY <1>2, <1>3 DEF VotesHeld, RunsInForce
  <1>7. QED
    BY <1>4, <1>5, <1>6 DEF VotesHeld

\* The key event has no votes: it is new, or an attempt of it started or ended.
EventReset ==
    /\ key_event'.instance.completed = {}
    /\ AttemptBelow'
    /\ phase' = "Resharing" =>
          \/ reshared_keys' = <<>>
          \/ /\ UNCHANGED <<phase, reshared_keys>>
             /\ key_event'.epoch_id = key_event.epoch_id
             /\ key_event'.parameters = key_event.parameters

EventSame == UNCHANGED <<phase, keyset, key_event, reshared_keys>>

\* Without votes there is nothing to know of the attempt; keys reshared before
\* are still held (state/resharing.rs reshared_keys).
LEMMA ResetKeepsEvent ==
  ASSUME EventHeld, temporary' = temporary, EventReset \/ EventSame
  PROVE  EventHeld'
  <1>1. CASE EventSame
    BY <1>1 DEF EventSame, EventHeld, AttemptBelow, CountedHeld, ResharedHeld, Holds, InstanceId,
                previous_key
  <1>2. CASE EventReset
    <2>1. CountedHeld'
      BY <1>2 DEF EventReset, CountedHeld
    <2>2. ResharedHeld'
      <3>1. CASE phase' # "Resharing"
        BY <3>1 DEF ResharedHeld
      <3>2. CASE reshared_keys' = <<>>
        BY <3>2 DEF ResharedHeld
      <3>3. CASE /\ UNCHANGED <<phase, reshared_keys>>
                 /\ key_event'.epoch_id = key_event.epoch_id
                 /\ key_event'.parameters = key_event.parameters
        BY <3>3 DEF EventHeld, ResharedHeld, Holds
      <3>4. QED
        BY <1>2, <3>1, <3>2, <3>3 DEF EventReset
    <2>3. QED
      BY <1>2, <2>1, <2>2 DEF EventHeld, EventReset
  <1>3. QED
    BY <1>1, <1>2

\* A call that leaves keyset and parameters alone.
LEMMA SameKeysetStep ==
  ASSUME KeyInv, UNCHANGED <<keyset, parameters>>
  PROVE  KeysetStep
  <1>1. Len(keyset.domains) \in Nat
    BY KeysetType
  <1>2. QED
    BY <1>1 DEF KeysetStep, KeysetGrows

\* Resharing begins without votes; without keys the next epoch begins at once,
\* and there is nothing to hold (running.rs transition_to_resharing_no_checks).
LEMMA TransitionCall ==
  ASSUME KeyInv, phase = "Running", NEW p, transition_to_resharing_no_checks(p)
  PROVE  KeysetStep /\ EventReset
  <1>1. CASE domains # <<>>
    <2>1. BecomeResharing(RunningProspectiveEpoch, p)
      BY <1>1 DEF transition_to_resharing_no_checks
    <2>2. UNCHANGED <<keyset, parameters>> /\ EventReset
      BY <2>1 DEF BecomeResharing, EventReset, AttemptBelow, KeyEventNew, NoInstance
    <2>3. QED
      BY <2>2, SameKeysetStep
  <1>2. CASE domains = <<>>
    <2>1. /\ keyset' = [epoch_id |-> keyset.epoch_id + 1, domains |-> <<>>]
          /\ phase' = "Running" /\ key_event' = NoKeyEvent
      BY <1>2 DEF transition_to_resharing_no_checks, BecomeRunning
    <2>2. keyset'.epoch_id > keyset.epoch_id /\ keyset'.domains = <<>>
      BY <2>1, KeysetType
    <2>3. EpochBegins /\ EventReset
      BY <2>1, <2>2 DEF EpochBegins, EventReset, AttemptBelow, NoKeyEvent, NoInstance
    <2>4. QED
      BY <2>3 DEF KeysetStep
  <1>3. QED
    BY <1>1, <1>2

\* What operators call, and what happens by itself, changes no key in force
\* and leaves no vote on a key event that it changes.
LEMMA OperatorCall ==
  ASSUME KeyInv, OperatorNext
  PROVE  KeysetStep /\ (EventReset \/ EventSame)
  <1>1. ASSUME NEW a \in Accounts, NEW e \in 0 .. MaxEpoch, NEW p \in Proposals,
               vote_new_parameters(a, e, p)
        PROVE  KeysetStep /\ (EventReset \/ EventSame)
    <2>1. CASE UNCHANGED <<phase, keyset, parameters, key_event, reshared_keys>>
      BY <2>1, SameKeysetStep DEF EventSame
    <2>2. CASE phase = "Running" /\ transition_to_resharing_no_checks(p)
      BY <2>2, TransitionCall
    <2>3. CASE BecomeResharing(e, p)
      <3>1. UNCHANGED <<keyset, parameters>> /\ EventReset
        BY <2>3 DEF BecomeResharing, EventReset, AttemptBelow, KeyEventNew, NoInstance
      <3>2. QED
        BY <3>1, SameKeysetStep
    <2>4. QED
      BY <1>1, <2>1, <2>2, <2>3 DEF vote_new_parameters
  <1>2. ASSUME NEW a \in Accounts, NEW ds \in DomainProposals, vote_add_domains(a, ds)
        PROVE  KeysetStep /\ (EventReset \/ EventSame)
    <2>1. UNCHANGED <<keyset, parameters, reshared_keys>>
      BY <1>2 DEF vote_add_domains
    <2>2. CASE UNCHANGED <<phase, key_event>>
      BY <2>1, <2>2, SameKeysetStep DEF EventSame
    <2>3. CASE phase' = "Initializing" /\ key_event' = KeyEventNew(keyset.epoch_id, ds[1], parameters)
      <3>1. EventReset
        BY <2>3 DEF EventReset, AttemptBelow, KeyEventNew, NoInstance
      <3>2. QED
        BY <2>1, <3>1, SameKeysetStep
    <2>4. QED
      BY <1>2, <2>2, <2>3 DEF vote_add_domains
  <1>3. ASSUME NEW a \in Accounts, vote_cancel_resharing(a)
        PROVE  KeysetStep /\ (EventReset \/ EventSame)
    <2>1. UNCHANGED <<keyset, parameters>>
      BY <1>3 DEF vote_cancel_resharing
    <2>2. CASE UNCHANGED <<phase, key_event, reshared_keys>>
      BY <2>1, <2>2, SameKeysetStep DEF EventSame
    <2>3. CASE phase' = "Running" /\ key_event' = NoKeyEvent
      <3>1. EventReset
        BY <2>3 DEF EventReset, AttemptBelow, NoKeyEvent, NoInstance
      <3>2. QED
        BY <2>1, <3>1, SameKeysetStep
    <2>4. QED
      BY <1>3, <2>2, <2>3 DEF vote_cancel_resharing
  <1>4. ASSUME NEW a \in Accounts, NEW id \in 0 .. next_domain_id, vote_cancel_keygen(a, id)
        PROVE  KeysetStep /\ (EventReset \/ EventSame)
    <2>1. key_event.parameters = parameters
      BY <1>4 DEF vote_cancel_keygen, KeyInv, KeysetMatchesDomains
    <2>2. UNCHANGED <<keyset, parameters>>
      BY <1>4, <2>1 DEF vote_cancel_keygen, BecomeRunning
    <2>3. CASE UNCHANGED <<phase, key_event, reshared_keys>>
      BY <2>2, <2>3, SameKeysetStep DEF EventSame
    <2>4. CASE phase' = "Running" /\ key_event' = NoKeyEvent
      <3>1. EventReset
        BY <2>4 DEF EventReset, AttemptBelow, NoKeyEvent, NoInstance
      <3>2. QED
        BY <2>2, <3>1, SameKeysetStep
    <2>5. QED
      BY <1>4, <2>3, <2>4 DEF vote_cancel_keygen, BecomeRunning
  <1>5. ASSUME NEW a \in Accounts, verify_tee(a)
        PROVE  KeysetStep /\ (EventReset \/ EventSame)
    <2>1. CASE UNCHANGED protocolVars
      BY <2>1, SameKeysetStep DEF EventSame, protocolVars
    <2>2. CASE transition_to_resharing_no_checks(
                  RestrictTo(parameters, Members(parameters) \cap ValidAttestation))
      BY <1>5, <2>2, TransitionCall DEF verify_tee
    <2>3. QED
      BY <1>5, <2>1, <2>2 DEF verify_tee
  <1>6. CASE UNCHANGED protocolVars
    BY <1>6, SameKeysetStep DEF EventSame, protocolVars
  <1>7. QED
    BY <1>1, <1>2, <1>3, <1>4, <1>5, <1>6
       DEF OperatorNext, submit_participant_info, ReverificationChanges, clean_tee_status, NextBlock

\* An attempt that starts or is aborted has no votes (key_event.rs start,
\* vote_abort).
LEMMA StartOrAbortCall ==
  ASSUME KeyInv, NEW a, NEW id,
         \/ start_keygen_instance(a, id) \/ start_reshare_instance(a, id)
         \/ vote_abort_key_event_instance(a, id)
  PROVE  KeysetStep /\ EventReset
  <1>1. /\ UNCHANGED <<phase, keyset, parameters, reshared_keys>>
        /\ phase # "Running"
        /\ \/ key_event' = start(key_event, height, key_event_timeout_blocks)
           \/ key_event' = WithoutInstance(key_event)
    BY DEF start_keygen_instance, start_reshare_instance, vote_abort_key_event_instance
  <1>2. IsKeyEvent(key_event)
    BY <1>1, KeyEventInProgress
  <1>3. /\ key_event'.instance.completed = {}
        /\ key_event'.epoch_id = key_event.epoch_id
        /\ key_event'.parameters = key_event.parameters
    BY <1>1, <1>2, StartFields, AbortFields DEF NoInstance
  <1>4. AttemptBelow'
    <2>1. key_event.next_attempt_id \in Nat
      BY <1>2, KeyEventType
    <2>2. QED
      BY <1>1, <1>2, <2>1, StartFields, AbortFields DEF AttemptBelow
  <1>5. QED
    BY <1>1, <1>3, <1>4, SameKeysetStep DEF EventReset

\* What a counted vote changes of the record (key_event.rs vote_success).
LEMMA CountedFields ==
  ASSUME NEW ke, IsKeyEvent(ke), NEW a, NEW k, ke.instance # NoInstance
  PROVE  /\ WithVote(ke, a, k).instance.completed = ke.instance.completed \cup {a}
         /\ WithVote(ke, a, k).instance.public_key = {k}
         /\ InstanceId(WithVote(ke, a, k)) = InstanceId(ke)
         /\ WithVote(ke, a, k).epoch_id = ke.epoch_id
         /\ WithVote(ke, a, k).parameters = ke.parameters
  <1>1. ke.instance \in [attempt_id : Nat, expires_on : Nat,
                         completed : SUBSET Accounts, public_key : SUBSET PublicKeys]
    BY KeyEventType DEF KeyEventInstances
  <1>2. \E S \in SUBSET Accounts :
           ke \in [epoch_id : Nat, domain_id : Nat, parameters : ParametersOver(S),
                   instance : KeyEventInstances, next_attempt_id : Nat]
    BY DEF IsKeyEvent
  <1> DEFINE i == [ke.instance EXCEPT !.completed = @ \cup {a}, !.public_key = {k}]
  <1>3. /\ i.completed = ke.instance.completed \cup {a} /\ i.public_key = {k}
        /\ i.attempt_id = ke.instance.attempt_id
    BY <1>1
  <1>4. WithVote(ke, a, k) = [ke EXCEPT !.instance = i]
    BY <1>1, <1>2 DEF WithVote
  <1> HIDE DEF i
  <1>5. /\ WithVote(ke, a, k).instance = i
        /\ WithVote(ke, a, k).epoch_id = ke.epoch_id
        /\ WithVote(ke, a, k).domain_id = ke.domain_id
        /\ WithVote(ke, a, k).parameters = ke.parameters
    BY <1>2, <1>4
  <1>6. QED
    BY <1>3, <1>5 DEF InstanceId

\* A vote of a participant that holds its share, for the key that the other
\* voters hold a share of: with it they all hold one, and when it is the last
\* vote every participant does (key_event.rs vote_success).
LEMMA VotersHold ==
  ASSUME KeyInv, CountedHeld, phase # "Running",
         NEW a \in Members(key_event.parameters), NEW key \in PublicKeys,
         Holds(a, InstanceId(key_event), key),
         phase = "Initializing" => ~ Disagrees(key_event, key),
         phase = "Resharing" => key = previous_key
  PROVE  /\ \A b \in key_event.instance.completed \cup {a} :
               b \in Members(key_event.parameters) /\ Holds(b, InstanceId(key_event), key)
         /\ IsLastVote(key_event, a) =>
               \A b \in Members(key_event.parameters) : Holds(b, InstanceId(key_event), key)
  <1> DEFINE voters  == key_event.instance.completed \cup {a}
             members == Members(key_event.parameters)
  <1>1. ASSUME NEW b \in voters
        PROVE  b \in members /\ Holds(b, InstanceId(key_event), key)
    <2>1. CASE b = a
      BY <2>1
    <2>2. CASE b \in key_event.instance.completed
      <3>1. /\ b \in members
            /\ \E k \in PublicKeys : /\ Holds(b, InstanceId(key_event), k)
                                     /\ phase = "Initializing" => key_event.instance.public_key = {k}
                                     /\ phase = "Resharing" => k = previous_key
        BY <2>2 DEF CountedHeld
      <3>2. PICK k \in PublicKeys : /\ Holds(b, InstanceId(key_event), k)
                                    /\ phase = "Initializing" => key_event.instance.public_key = {k}
                                    /\ phase = "Resharing" => k = previous_key
        BY <3>1
      <3>3. phase = "Initializing" \/ phase = "Resharing"
        BY DEF KeyInv, ProtocolTypeOK
      <3>4. k = key
        BY <3>2, <3>3 DEF Disagrees
      <3>5. QED
        BY <3>1, <3>2, <3>4
    <2>3. QED
      BY <2>1, <2>2
  <1>2. IsFiniteSet(members)
    <2>1. members \subseteq Accounts
      BY KeyEventInProgress, KeyEventType, ParametersType
    <2>2. QED
      BY <2>1, FS_Subset, ConstantsAssumption
  <1>3. voters \subseteq members
    BY <1>1
  <1>4. ASSUME IsLastVote(key_event, a) PROVE voters = members
    <2>1. Cardinality(voters) = Cardinality(members)
      BY <1>4 DEF IsLastVote
    <2> HIDE DEF voters, members
    <2>2. QED
      BY <1>2, <1>3, <2>1, FS_Subset
  <1>5. QED
    BY <1>1, <1>4

\* Counting such a vote.
LEMMA CountedVote ==
  ASSUME KeyInv, EventHeld, phase # "Running", key_event.instance # NoInstance,
         NEW a \in Members(key_event.parameters), NEW key \in PublicKeys,
         \A b \in key_event.instance.completed \cup {a} :
            b \in Members(key_event.parameters) /\ Holds(b, InstanceId(key_event), key),
         phase = "Resharing" => key = previous_key,
         key_event' = WithVote(key_event, a, key),
         UNCHANGED <<phase, keyset, reshared_keys, temporary>>
  PROVE  EventHeld'
  <1>1. IsKeyEvent(key_event)
    BY KeyEventInProgress
  <1>2. /\ key_event'.instance.completed = key_event.instance.completed \cup {a}
        /\ key_event'.instance.public_key = {key}
        /\ InstanceId(key_event') = InstanceId(key_event)
        /\ key_event'.epoch_id = key_event.epoch_id
        /\ key_event'.parameters = key_event.parameters
    BY <1>1, CountedFields
  <1>3. CountedHeld'
    <2>1. previous_key' = previous_key
      BY DEF previous_key
    <2>2. ASSUME NEW b \in key_event'.instance.completed
          PROVE  /\ b \in Members(key_event'.parameters)
                 /\ HasShare(temporary'[b], InstanceId(key_event'), key)
      BY <1>2, <2>2 DEF Holds
    <2>3. QED
      BY <1>2, <2>1, <2>2 DEF CountedHeld, Holds
  <1>4. ResharedHeld'
    BY <1>2 DEF EventHeld, ResharedHeld, Holds
  <1>5. AttemptBelow'
    <2>1. key_event'.next_attempt_id = key_event.next_attempt_id
      BY <1>1, VoteFields
    <2>2. key_event'.instance.attempt_id = key_event.instance.attempt_id
      BY <1>2 DEF InstanceId
    <2>3. QED
      BY <2>1, <2>2 DEF EventHeld, AttemptBelow
  <1>6. QED
    BY <1>3, <1>4, <1>5 DEF EventHeld

\* The id of a key that an attempt made is the attempt's (keyshare.rs).
LEMMA KeyIdOfAttempt ==
  ASSUME NEW id \in KeyEventIds, NEW key
  PROVE  KeyId(id.epoch_id, KeyForDomain(id, key)) = id
  BY DEF KeyEventIds, KeyId, KeyForDomain

\* A vote for a generated key is of a node that holds its share, so the key
\* that the last vote adds to the keyset is held by all (initializing.rs vote_pk).
LEMMA VotePkCall ==
  ASSUME KeyInv, EventHeld, SentHeld, NodeTypeOK, temporary' = temporary,
         NEW v \in votes_sent, v.call = "vote_pk", vote_pk(v.signer, v.id, v.key)
  PROVE  KeysetStep /\ EventHeld'
  <1> DEFINE a == v.signer
             k == KeyForDomain(v.id, v.key)
             generated == Append(keyset.domains, k)
  <1>1. a \in Accounts /\ v.id \in KeyEventIds /\ v.key \in PublicKeys
    BY DEF NodeTypeOK
  <1>2. /\ phase = "Initializing"
        /\ a \in Members(key_event.parameters)
        /\ key_event.instance # NoInstance
        /\ v.id = InstanceId(key_event)
    BY DEF vote_pk, verify_vote, active, InstanceId
  <1>3. /\ key_event.parameters = parameters /\ key_event.epoch_id = keyset.epoch_id
        /\ v.id.epoch_id = keyset.epoch_id
    BY <1>2 DEF KeyInv, KeysetMatchesDomains, InstanceId
  <1>4. Holds(a, InstanceId(key_event), v.key)
    <2>1. keyset.epoch_id \in Nat
      BY KeysetType
    <2>2. v.id.epoch_id >= keyset.epoch_id
      BY <1>3, <2>1
    <2>3. QED
      BY <1>2, <2>2 DEF SentHeld
  <1>5. CASE key_event' = WithoutInstance(key_event)
             /\ UNCHANGED <<phase, keyset, parameters, reshared_keys>>
    <2>1. EventReset
      BY <1>2, <1>5, KeyEventInProgress, AbortFields DEF EventReset, AttemptBelow, NoInstance
    <2>2. QED
      BY <1>5, <2>1, ResetKeepsEvent, SameKeysetStep
  <1>6. ASSUME CanComplete(key_event, a, v.key)
        PROVE  /\ \A b \in key_event.instance.completed \cup {a} :
                     b \in Members(key_event.parameters) /\ Holds(b, InstanceId(key_event), v.key)
               /\ IsLastVote(key_event, a) =>
                     \A b \in Members(key_event.parameters) : Holds(b, InstanceId(key_event), v.key)
    <2>1. ~ Disagrees(key_event, v.key) /\ CountedHeld
      BY <1>6 DEF CanComplete, EventHeld
    <2>2. QED
      BY <1>1, <1>2, <1>4, <2>1, VotersHold
  <1>7. CASE /\ CanComplete(key_event, a, v.key)
             /\ key_event' = WithVote(key_event, a, v.key)
             /\ UNCHANGED <<phase, keyset, parameters, reshared_keys>>
    <2>1. EventHeld'
      BY <1>1, <1>2, <1>6, <1>7, CountedVote
    <2>2. QED
      BY <1>7, <2>1, SameKeysetStep
  <1>8. CASE /\ CanComplete(key_event, a, v.key) /\ IsLastVote(key_event, a)
             /\ keyset' = [keyset EXCEPT !.domains = generated]
             /\ parameters' = parameters
             /\ phase' # "Resharing"
             /\ key_event'.instance = NoInstance
    <2>1. \A b \in Members(parameters) : Holds(b, v.id, v.key)
      BY <1>2, <1>3, <1>6, <1>8
    <2>2. k.key = v.key /\ KeyId(keyset.epoch_id, k) = v.id
      BY <1>1, <1>3, KeyIdOfAttempt DEF KeyForDomain
    <2>3. /\ keyset.domains \in Seq(KeysForDomain) /\ Len(keyset.domains) \in Nat
          /\ keyset = [epoch_id |-> keyset.epoch_id, domains |-> keyset.domains]
      BY DEF KeyInv, ProtocolTypeOK
    <2> HIDE DEF k
    <2>4. /\ keyset'.epoch_id = keyset.epoch_id /\ keyset'.domains = generated
          /\ Len(generated) = Len(keyset.domains) + 1
          /\ \A i \in 1 .. Len(keyset.domains) : generated[i] = keyset.domains[i]
          /\ generated[Len(keyset.domains) + 1] = k
      BY <1>8, <2>3
    <2> HIDE DEF generated
    <2>5. KeysetGrows
      BY <1>8, <2>1, <2>2, <2>3, <2>4 DEF KeysetGrows
    <2>6. EventReset
      BY <1>8 DEF EventReset, AttemptBelow, NoInstance
    <2>7. QED
      BY <2>5, <2>6, ResetKeepsEvent DEF KeysetStep
  <1>9. QED
    <2>1. KeyEventNew(keyset.epoch_id, DomainAfter(generated), key_event.parameters).instance
              = NoInstance
      BY DEF KeyEventNew
    <2>2. NoKeyEvent.instance = NoInstance
      BY DEF NoKeyEvent
    <2>3. \/ /\ key_event' = WithoutInstance(key_event)
             /\ UNCHANGED <<phase, keyset, parameters, reshared_keys>>
          \/ /\ CanComplete(key_event, a, v.key)
             /\ key_event' = WithVote(key_event, a, v.key)
             /\ UNCHANGED <<phase, keyset, parameters, reshared_keys>>
          \/ /\ CanComplete(key_event, a, v.key) /\ IsLastVote(key_event, a)
             /\ keyset' = [keyset EXCEPT !.domains = generated]
             /\ parameters' = parameters
             /\ phase' # "Resharing"
             /\ key_event'.instance = NoInstance
      BY <1>2, <1>3, <2>1, <2>2 DEF vote_pk, BecomeRunning
    <2>4. QED
      BY <1>5, <1>7, <1>8, <2>3

\* A domain has one place in the registry, so a key in force for the domain of
\* the attempt is the key being reshared (resharing.rs previous_key).
LEMMA KeyInForceIsPrevious ==
  ASSUME KeyInv, RegistryInv, phase = "Resharing", NEW key,
         HasKey(keyset.domains, InstanceId(key_event), key)
  PROVE  key = previous_key
  <1> DEFINE m == Len(reshared_keys) + 1
  <1>1. PICK i \in 1 .. Len(keyset.domains) :
            keyset.domains[i].domain_id = key_event.domain_id /\ keyset.domains[i].key = key
    BY DEF HasKey, InstanceId
  <1>2. /\ Len(keyset.domains) \in Nat /\ Len(reshared_keys) \in Nat
        /\ domains \in Seq(Nat) /\ Len(domains) = Len(keyset.domains)
        /\ Len(reshared_keys) < Len(domains)
        /\ key_event.domain_id = domains[m] /\ keyset.domains[i].domain_id = domains[i]
    BY DEF KeyInv, ProtocolTypeOK, KeysetMatchesDomains
  <1>3. m \in 1 .. Len(domains) /\ i \in 1 .. Len(domains) /\ m \in Nat
    BY <1>2
  <1> HIDE DEF m
  <1>4. domains[i] = domains[m] /\ domains[i] \in Nat /\ domains[m] \in Nat
    BY <1>1, <1>2, <1>3
  <1>5. /\ i < m => domains[i] < domains[m]
        /\ m < i => domains[m] < domains[i]
    BY <1>2, <1>3 DEF RegistryInv
  <1>6. i = m
    BY <1>2, <1>3, <1>4, <1>5
  <1>7. QED
    BY <1>1, <1>6 DEF previous_key, m

\* A vote for a reshared key is of a node that holds its share, so the new
\* participants hold the keys of the keyset that the last vote makes
\* (resharing.rs vote_reshared).
LEMMA VoteResharedCall ==
  ASSUME KeyInv, RegistryInv, EventHeld, SentHeld, NodeTypeOK, temporary' = temporary,
         NEW v \in votes_sent, v.call = "vote_reshared", vote_reshared(v.signer, v.id)
  PROVE  KeysetStep /\ EventHeld'
  <1> DEFINE a == v.signer
             k == KeyForDomain(v.id, previous_key)
             reshared == Append(reshared_keys, k)
  <1>1. a \in Accounts /\ v.id \in KeyEventIds /\ v.key \in PublicKeys
    BY DEF NodeTypeOK
  <1>2. /\ phase = "Resharing"
        /\ a \in Members(key_event.parameters)
        /\ key_event.instance # NoInstance
        /\ v.id = InstanceId(key_event)
    BY DEF vote_reshared, verify_vote, active, InstanceId
  <1>3. /\ keyset.epoch_id \in Nat /\ key_event.epoch_id \in Nat
        /\ key_event.epoch_id > keyset.epoch_id
        /\ v.id.epoch_id = key_event.epoch_id
    BY <1>1, <1>2 DEF KeyInv, ProtocolTypeOK, KeysetMatchesDomains, InstanceId, KeyEventIds
  <1>4. v.key = previous_key
    BY <1>2, KeyInForceIsPrevious DEF SentHeld
  <1>5. Holds(a, InstanceId(key_event), previous_key)
    <2>1. v.id.epoch_id >= keyset.epoch_id
      BY <1>3
    <2>2. QED
      BY <1>2, <1>4, <2>1 DEF SentHeld
  <1>6. /\ \A b \in key_event.instance.completed \cup {a} :
              b \in Members(key_event.parameters) /\ Holds(b, InstanceId(key_event), previous_key)
        /\ IsLastVote(key_event, a) =>
              \A b \in Members(key_event.parameters) :
                  Holds(b, InstanceId(key_event), previous_key)
    <2>1. CountedHeld /\ previous_key \in PublicKeys
      BY <1>1, <1>4 DEF EventHeld
    <2>2. QED
      BY <1>2, <1>5, <2>1, VotersHold
  <1>7. CASE /\ key_event' = WithVote(key_event, a, previous_key)
             /\ UNCHANGED <<phase, keyset, parameters, reshared_keys>>
    <2>1. previous_key \in PublicKeys
      BY <1>1, <1>4
    <2>2. EventHeld'
      BY <1>2, <1>6, <1>7, <2>1, CountedVote
    <2>3. QED
      BY <1>7, <2>2, SameKeysetStep
  <1>8. reshared_keys \in Seq(KeysForDomain) /\ Len(reshared_keys) \in Nat
    BY DEF KeyInv, ProtocolTypeOK
  <1>9. ASSUME IsLastVote(key_event, a)
        PROVE  \A b \in Members(key_event.parameters), i \in 1 .. Len(reshared) :
                  Holds(b, KeyId(key_event.epoch_id, reshared[i]), reshared[i].key)
    <2>1. \A b \in Members(key_event.parameters) : Holds(b, v.id, previous_key)
      BY <1>2, <1>6, <1>9
    <2>2. k.key = previous_key /\ KeyId(key_event.epoch_id, k) = v.id
      BY <1>1, <1>3, KeyIdOfAttempt DEF KeyForDomain
    <2>3. \A b \in Members(key_event.parameters), i \in 1 .. Len(reshared_keys) :
             Holds(b, KeyId(key_event.epoch_id, reshared_keys[i]), reshared_keys[i].key)
      BY <1>2 DEF EventHeld, ResharedHeld
    <2> HIDE DEF k
    <2>4. /\ Len(reshared) = Len(reshared_keys) + 1
          /\ \A i \in 1 .. Len(reshared_keys) : reshared[i] = reshared_keys[i]
          /\ reshared[Len(reshared_keys) + 1] = k
      BY <1>8
    <2> HIDE DEF reshared
    <2>5. QED
      BY <1>8, <2>1, <2>2, <2>3, <2>4
  <1>10. CASE /\ IsLastVote(key_event, a)
              /\ reshared_keys' = reshared
              /\ key_event' = KeyEventNew(key_event.epoch_id, DomainAfter(reshared),
                                          key_event.parameters)
              /\ UNCHANGED <<phase, keyset, parameters>>
    <2>1. /\ key_event'.instance.completed = {}
          /\ key_event'.epoch_id = key_event.epoch_id
          /\ key_event'.parameters = key_event.parameters
          /\ key_event'.instance = NoInstance
      BY <1>10 DEF KeyEventNew, NoInstance
    <2>2. CountedHeld' /\ AttemptBelow'
      BY <2>1 DEF CountedHeld, AttemptBelow
    <2> HIDE DEF reshared
    <2>3. ResharedHeld'
      BY <1>9, <1>10, <2>1 DEF ResharedHeld, Holds
    <2>4. QED
      BY <1>10, <2>2, <2>3, SameKeysetStep DEF EventHeld
  <1>11. CASE /\ IsLastVote(key_event, a)
              /\ keyset' = ResharedKeyset(reshared)
              /\ parameters' = key_event.parameters
              /\ phase' = "Running" /\ key_event' = NoKeyEvent
    <2> HIDE DEF reshared
    <2>1. keyset'.epoch_id = key_event.epoch_id /\ keyset'.domains = reshared
      BY <1>11 DEF ResharedKeyset
    <2>2. EpochBegins
      BY <1>3, <1>9, <1>11, <2>1 DEF EpochBegins
    <2>3. EventHeld'
      BY <1>11 DEF EventHeld, AttemptBelow, CountedHeld, ResharedHeld, NoKeyEvent
    <2>4. QED
      BY <2>2, <2>3 DEF KeysetStep
  <1>12. QED
    BY <1>7, <1>10, <1>11 DEF vote_reshared, BecomeRunning

\* The contract's own invariants, under calls for whatever id nodes sent.
LEMMA CallKeepsContract ==
  ASSUME ContractInv, NodeTypeOK, OperatorNext \/ \E v \in votes_sent : ContractCall(v)
  PROVE  ContractInv' /\ KeepsKeys
  <1>1. CASE OperatorNext
    <2>1. [Next]_vars
      BY <1>1 DEF Next
    <2>2. KeyInv' /\ TeeTypeOK' /\ RegistryStep
      BY <2>1, NextKeyInv, NextTeeType, NextRegistryStep DEF ContractInv, KeyInv, TypeOK
    <2>3. RegistryInv'
      BY <2>2, RegistryStepSafe DEF ContractInv, KeyInv, ProtocolTypeOK
    <2>4. KeepsKeys \/ UNCHANGED vars
      BY <2>1, NextKeepsKeys DEF ContractInv
    <2>5. ASSUME UNCHANGED vars PROVE KeepsKeys
      BY <2>5, SameKeysetKeepsKeys DEF ContractInv, vars, protocolVars
    <2>6. QED
      BY <2>2, <2>3, <2>4, <2>5 DEF ContractInv
  <1>2. ASSUME NEW v \in votes_sent, ContractCall(v)
        PROVE  ContractInv' /\ KeepsKeys
    <2>1. /\ v.signer \in Accounts
          /\ v.id \in [epoch_id : Nat, domain_id : Nat, attempt_id : Nat]
      BY DEF NodeTypeOK, KeyEventIds
    <2>2. CASE start_keygen_instance(v.signer, v.id) \/ start_reshare_instance(v.signer, v.id)
      <3>1. KeyInv'
        BY <2>1, <2>2, StartKeyInv DEF ContractInv
      <3>2. UNCHANGED <<keyset, parameters, domains, next_domain_id, teeVars, height>>
        BY <2>2 DEF start_keygen_instance, start_reshare_instance
      <3>3. QED
        BY <3>1, <3>2, SameKeysetKeepsKeys DEF ContractInv, RegistryInv, TeeTypeOK, teeVars
    <2>3. CASE vote_abort_key_event_instance(v.signer, v.id)
      <3>1. KeyInv'
        BY <2>1, <2>3, AbortKeyInv DEF ContractInv
      <3>2. UNCHANGED <<keyset, parameters, domains, next_domain_id, teeVars, height>>
        BY <2>3 DEF vote_abort_key_event_instance
      <3>3. QED
        BY <3>1, <3>2, SameKeysetKeepsKeys DEF ContractInv, RegistryInv, TeeTypeOK, teeVars
    <2>4. CASE v.call = "vote_pk" /\ vote_pk(v.signer, v.id, v.key)
      <3>1. v.key \in PublicKeys
        BY <2>4 DEF NodeTypeOK
      <3>2. KeyInv' /\ KeepsKeys
        BY <2>1, <2>4, <3>1, VotePkKeyInv, VotePkKeepsKeys DEF ContractInv
      <3>3. UNCHANGED <<domains, next_domain_id, teeVars, height>>
        BY <2>4 DEF vote_pk, BecomeRunning
      <3>4. QED
        BY <3>2, <3>3 DEF ContractInv, RegistryInv, TeeTypeOK, teeVars
    <2>5. CASE vote_reshared(v.signer, v.id)
      <3>1. KeyInv' /\ KeepsKeys
        BY <2>1, <2>5, VoteResharedKeyInv, VoteResharedKeepsKeys DEF ContractInv
      <3>2. /\ UNCHANGED <<domains, next_domain_id, stored_attestations, accept_requests, height>>
            /\ cleanups' = cleanups \/ cleanups' = cleanups + 1
        BY <2>5 DEF vote_reshared, BecomeRunning
      <3>3. QED
        BY <3>1, <3>2 DEF ContractInv, RegistryInv, TeeTypeOK
    <2>6. QED
      BY <1>2, <2>2, <2>3, <2>4, <2>5 DEF ContractCall
  <1>3. QED
    BY <1>1, <1>2

\* A call of the contract keeps the invariant of the keyshares.
LEMMA CallKeepsKeyshares ==
  ASSUME ContractInv, KeyshareInv, UNCHANGED nodeVars,
         OperatorNext \/ \E v \in votes_sent : ContractCall(v)
  PROVE  ContractInv' /\ KeyshareInv'
  <1>1. ContractInv' /\ KeepsKeys
    BY CallKeepsContract DEF KeyshareInv
  <1>2. NodeTypeOK' /\ OneShareEach' /\ temporary' = temporary
    BY DEF KeyshareInv, NodeTypeOK, OneShareEach, nodeVars
  <1>3. KeyInv /\ RegistryInv /\ NodeTypeOK /\ EventHeld /\ SentHeld /\ VotesHeld /\ KeysetHeld
    BY DEF ContractInv, KeyshareInv, VotesHeld
  <1>4. KeyInv'
    BY <1>1 DEF ContractInv
  <1>5. KeysetStep /\ EventHeld'
    <2>1. CASE OperatorNext
      BY <1>2, <1>3, <2>1, OperatorCall, ResetKeepsEvent
    <2>2. ASSUME NEW v \in votes_sent, ContractCall(v)
          PROVE  KeysetStep /\ EventHeld'
      <3>1. CASE \/ start_keygen_instance(v.signer, v.id) \/ start_reshare_instance(v.signer, v.id)
                 \/ vote_abort_key_event_instance(v.signer, v.id)
        BY <1>2, <1>3, <3>1, StartOrAbortCall, ResetKeepsEvent
      <3>2. CASE v.call = "vote_pk" /\ vote_pk(v.signer, v.id, v.key)
        BY <1>2, <1>3, <3>2, VotePkCall
      <3>3. CASE v.call = "vote_reshared" /\ vote_reshared(v.signer, v.id)
        BY <1>2, <1>3, <3>3, VoteResharedCall
      <3>4. QED
        BY <2>2, <3>1, <3>2, <3>3 DEF ContractCall
    <2>3. QED
      BY <2>1, <2>2
  <1>6. KeysetHeld'
    BY <1>3, <1>4, <1>5, KeysetStepKeeps
  <1>7. VotesHeld'
    BY <1>1, <1>3, <1>4, CallKeepsVotes
  <1>8. QED
    BY <1>1, <1>2, <1>5, <1>6, <1>7 DEF KeyshareInv
-----------------------------------------------------------------------------
(* Steps of the nodes.                                                     *)

\* A node loses no share of the contract's epoch or of a later one.
SharesKept ==
    \A b \in Accounts : \A id, key :
        (id.epoch_id >= keyset.epoch_id /\ HasShare(temporary[b], id, key)) =>
            HasShare(temporary'[b], id, key)

\* What a node promotes it promoted before, or has just read.
LoadsKept ==
    \A b \in Accounts : loading'[b].step # "idle" =>
        \/ /\ loading[b].step # "idle"
           /\ loading'[b].epoch_id = loading[b].epoch_id
           /\ loading'[b].domains = loading[b].domains
        \/ /\ loading'[b].epoch_id = keyset.epoch_id
           /\ loading'[b].domains = keyset.domains

\* Channels stay what they are.
RunsKept ==
    /\ Len(runs) <= Len(runs') /\ Len(runs') \in Nat
    /\ \A r \in 1 .. Len(runs) :
          runs'[r].id = runs[r].id /\ runs'[r].key = runs[r].key
              /\ runs'[r].resharing = runs[r].resharing

\* Tasks that committed stay, or were dropped.
TasksKept ==
    \A b \in Accounts : \A t \in tasks'[b] : t.step = "committed" => t \in tasks[b]

\* The keys in question are of the contract's epoch or of a later one, so what
\* is known of the key event stays known.
LEMMA NodeStepEvent ==
  ASSUME KeyInv, EventHeld, UNCHANGED vars, SharesKept
  PROVE  EventHeld'
  <1>1. /\ phase' = phase /\ keyset' = keyset /\ key_event' = key_event
        /\ reshared_keys' = reshared_keys /\ previous_key' = previous_key
    BY DEF vars, protocolVars, previous_key
  <1>2. ASSUME phase # "Running"
        PROVE  /\ key_event.epoch_id >= keyset.epoch_id
               /\ Members(key_event.parameters) \subseteq Accounts
    <2>1. IsKeyEvent(key_event) /\ phase \in {"Initializing", "Resharing"}
      BY <1>2, KeyEventInProgress DEF KeyInv, ProtocolTypeOK
    <2>2. key_event.epoch_id \in Nat /\ keyset.epoch_id \in Nat
      BY <2>1, KeyEventType, KeysetType
    <2>3. key_event.epoch_id >= keyset.epoch_id
      BY <2>1, <2>2 DEF KeyInv, KeysetMatchesDomains
    <2>4. QED
      BY <2>1, <2>3, KeyEventType, ParametersType
  <1>3. CountedHeld'
    <2> SUFFICES ASSUME phase # "Running", NEW a \in key_event.instance.completed
                 PROVE  /\ a \in Members(key_event.parameters)
                        /\ \E k \in PublicKeys :
                              /\ HasShare(temporary'[a], InstanceId(key_event), k)
                              /\ phase = "Initializing" => key_event.instance.public_key = {k}
                              /\ phase = "Resharing" => k = previous_key
      BY <1>1 DEF CountedHeld, Holds
    <2>1. a \in Members(key_event.parameters)
      BY DEF EventHeld, CountedHeld
    <2>2. PICK k \in PublicKeys :
              /\ HasShare(temporary[a], InstanceId(key_event), k)
              /\ phase = "Initializing" => key_event.instance.public_key = {k}
              /\ phase = "Resharing" => k = previous_key
      BY DEF EventHeld, CountedHeld, Holds
    <2>3. InstanceId(key_event).epoch_id = key_event.epoch_id
      BY DEF InstanceId
    <2>4. HasShare(temporary'[a], InstanceId(key_event), k)
      BY <1>2, <2>1, <2>2, <2>3 DEF SharesKept
    <2>5. QED
      BY <2>1, <2>2, <2>4
  <1>4. ResharedHeld'
    <2> SUFFICES ASSUME phase = "Resharing", NEW a \in Members(key_event.parameters),
                        NEW i \in 1 .. Len(reshared_keys)
                 PROVE  HasShare(temporary'[a], KeyId(key_event.epoch_id, reshared_keys[i]),
                                 reshared_keys[i].key)
      BY <1>1 DEF ResharedHeld, Holds
    <2>1. HasShare(temporary[a], KeyId(key_event.epoch_id, reshared_keys[i]), reshared_keys[i].key)
      BY DEF EventHeld, ResharedHeld, Holds
    <2>2. KeyId(key_event.epoch_id, reshared_keys[i]).epoch_id = key_event.epoch_id
      BY DEF KeyId
    <2>3. QED
      BY <1>2, <2>1, <2>2 DEF SharesKept
  <1>5. AttemptBelow'
    BY <1>1 DEF EventHeld, AttemptBelow
  <1>6. QED
    BY <1>3, <1>4, <1>5 DEF EventHeld

\* The same for the keyset in force.
LEMMA NodeStepKeyset ==
  ASSUME KeyInv, KeysetHeld, UNCHANGED <<vars, permanent>>, SharesKept, LoadsKept
  PROVE  KeysetHeld'
  <1>1. keyset' = keyset /\ parameters' = parameters /\ permanent' = permanent
    BY DEF vars, protocolVars
  <1>2. /\ keyset.epoch_id \in Nat /\ Members(parameters) \subseteq Accounts
        /\ Len(keyset.domains) \in Nat
        /\ \A i \in 1 .. Len(keyset.domains) :
              KeyId(keyset.epoch_id, keyset.domains[i]).epoch_id = keyset.epoch_id
    BY KeysetType
  <1>3. PermanentInv'
    BY <1>1 DEF KeysetHeld, PermanentInv
  <1>4. KeysHeld'
    <2> SUFFICES ASSUME NEW a \in Members(parameters), NEW i \in 1 .. Len(keyset.domains),
                        ~ (permanent[a].epoch_id = keyset.epoch_id
                             /\ i <= Len(permanent[a].keyshares))
                 PROVE  HasShare(temporary'[a], KeyId(keyset.epoch_id, keyset.domains[i]),
                                 keyset.domains[i].key)
      BY <1>1 DEF KeysHeld, Holds
    <2>1. HasShare(temporary[a], KeyId(keyset.epoch_id, keyset.domains[i]), keyset.domains[i].key)
      BY DEF KeysetHeld, KeysHeld, Holds
    <2>2. KeyId(keyset.epoch_id, keyset.domains[i]).epoch_id >= keyset.epoch_id
      BY <1>2
    <2>3. QED
      BY <1>2, <2>1, <2>2 DEF SharesKept
  <1>5. LoadingInv'
    BY <1>1, <1>2 DEF KeysetHeld, LoadingInv, LoadsKept
  <1>6. QED
    BY <1>3, <1>4, <1>5 DEF KeysetHeld

\* Votes under way, when no vote is sent (storage of the voter untouched).
LEMMA NodeStepSent ==
  ASSUME NodeTypeOK, SentHeld, UNCHANGED <<vars, votes_sent>>, SharesKept
  PROVE  SentHeld'
  <1>1. keyset' = keyset /\ votes_sent' = votes_sent
    BY DEF vars, protocolVars
  <1> SUFFICES ASSUME NEW v \in votes_sent
               PROVE  /\ (v.call \in {"vote_pk", "vote_reshared"}
                            /\ v.id.epoch_id >= keyset.epoch_id) =>
                            HasShare(temporary'[v.signer], v.id, v.key)
                      /\ v.call = "vote_reshared" => HasKey(keyset.domains, v.id, v.key)
    BY <1>1 DEF SentHeld, Holds
  <1>2. v.signer \in Accounts
    BY DEF NodeTypeOK
  <1>3. QED
    BY <1>2 DEF SentHeld, Holds, SharesKept

\* A computation that committed its share still has it when it sends the vote.
LEMMA NodeStepTasks ==
  ASSUME NodeTypeOK, TasksHeld, UNCHANGED vars, SharesKept, RunsKept, TasksKept
  PROVE  TasksHeld'
  <1>1. keyset' = keyset
    BY DEF vars, protocolVars
  <1> SUFFICES ASSUME NEW a \in Accounts, NEW t \in tasks'[a], t.step = "committed",
                      runs'[t.run].id.epoch_id >= keyset.epoch_id
               PROVE  HasShare(temporary'[a], runs'[t.run].id, runs'[t.run].key)
    BY <1>1 DEF TasksHeld, Holds
  <1>2. t \in tasks[a] /\ t.run \in 1 .. Len(runs)
    BY DEF TasksKept, NodeTypeOK
  <1>3. runs'[t.run].id = runs[t.run].id /\ runs'[t.run].key = runs[t.run].key
    BY <1>2 DEF RunsKept
  <1>4. HasShare(temporary[a], runs[t.run].id, runs[t.run].key)
    BY <1>2, <1>3 DEF TasksHeld, Holds
  <1>5. QED
    BY <1>3, <1>4 DEF SharesKept

\* No channel is opened: those that reshare do so for keys in force.
LEMMA NodeStepRuns ==
  ASSUME RunsInForce, UNCHANGED vars, RunsKept, Len(runs') = Len(runs)
  PROVE  RunsInForce'
  BY DEF RunsInForce, RunsKept, vars, protocolVars

\* Steps that leave the files, the channels and the votes alone.
LEMMA QuietStep ==
  ASSUME KeyInv, KeyshareInv, NodeTypeOK',
         UNCHANGED <<vars, permanent, temporary, runs, votes_sent>>, LoadsKept, TasksKept
  PROVE  KeyshareInv'
  <1>1. SharesKept
    BY DEF SharesKept
  <1>2. NodeTypeOK /\ SentHeld /\ TasksHeld /\ RunsInForce /\ KeysetHeld /\ EventHeld /\ OneShareEach
    BY DEF KeyshareInv, VotesHeld
  <1>3. RunsKept
    BY <1>2, NodeFacts DEF RunsKept
  <1>4. EventHeld' /\ KeysetHeld'
    BY <1>1, <1>2, NodeStepEvent, NodeStepKeyset
  <1>5. SentHeld' /\ TasksHeld' /\ RunsInForce'
    BY <1>1, <1>2, <1>3, NodeStepSent, NodeStepTasks, NodeStepRuns
  <1>6. OneShareEach'
    BY <1>2 DEF OneShareEach
  <1>7. QED
    BY <1>4, <1>5, <1>6 DEF KeyshareInv, VotesHeld

\* What a node sees of a key event is an id (key_events.rs,
\* convert_key_event_to_instance).
LEMMA SeenIdType ==
  ASSUME KeyInv, phase # "Running"
  PROVE  /\ SeenId \in KeyEventIds
         /\ SeenId.epoch_id = key_event.epoch_id /\ SeenId.domain_id = key_event.domain_id
         /\ key_event.domain_id \in Nat
  <1>1. IsKeyEvent(key_event)
    BY KeyEventInProgress
  <1>2. /\ key_event.epoch_id \in Nat /\ key_event.domain_id \in Nat
        /\ key_event.next_attempt_id \in Nat
        /\ key_event.instance \in KeyEventInstances
    BY <1>1, KeyEventType
  <1>3. Started => key_event.instance.attempt_id \in Nat
    BY <1>2 DEF Started, active, KeyEventInstances
  <1>4. QED
    BY <1>2, <1>3 DEF SeenId, KeyEventIds

\* keygen_leader, resharing_leader; leader_retries.  A start is not a vote.
LEMMA LeadKeeps ==
  ASSUME KeyInv, KeyshareInv, NEW a \in Accounts, lead(a) \/ leader_retries(a)
  PROVE  KeyshareInv'
  <1>1. UNCHANGED <<vars, permanent, temporary, loading, tasks, runs>>
    BY DEF lead, leader_retries
  <1>2. LoadsKept /\ TasksKept /\ SharesKept
    BY <1>1 DEF LoadsKept, TasksKept, SharesKept
  <1>3. CASE leader_retries(a)
    <2>1. votes_sent' = votes_sent
      BY <1>3 DEF leader_retries
    <2>2. NodeTypeOK'
      BY <1>1, <2>1 DEF KeyshareInv, NodeTypeOK
    <2>3. QED
      BY <1>1, <1>2, <2>1, <2>2, QuietStep
  <1>4. CASE lead(a)
    <2> DEFINE n == Tx(a, "start", SeenId, "none")
    <2>1. votes_sent' = votes_sent \cup {n} /\ phase # "Running"
      BY <1>4 DEF lead
    <2>2. n.signer = a /\ n.call = "start" /\ n.id \in KeyEventIds
      BY <2>1, SeenIdType DEF Tx
    <2> HIDE DEF n
    <2>3. NodeTypeOK'
      BY <1>1, <2>1, <2>2 DEF KeyshareInv, NodeTypeOK
    <2>4. SentHeld'
      <3>1. keyset' = keyset
        BY <1>1 DEF vars, protocolVars
      <3>2. QED
        BY <1>1, <2>1, <2>2, <3>1 DEF KeyshareInv, VotesHeld, SentHeld, Holds
    <2>5. NodeTypeOK /\ TasksHeld /\ RunsInForce /\ KeysetHeld /\ EventHeld /\ OneShareEach
      BY DEF KeyshareInv, VotesHeld
    <2>6. RunsKept
      BY <1>1, <2>5, NodeFacts DEF RunsKept
    <2>7. EventHeld' /\ KeysetHeld' /\ TasksHeld' /\ RunsInForce'
      BY <1>1, <1>2, <2>5, <2>6, NodeStepEvent, NodeStepKeyset, NodeStepTasks, NodeStepRuns
    <2>8. OneShareEach'
      BY <1>1, <2>5 DEF OneShareEach
    <2>9. QED
      BY <2>3, <2>4, <2>7, <2>8 DEF KeyshareInv, VotesHeld
  <1>5. QED
    BY <1>3, <1>4

\* The domain that is reshared has the key that is reshared (resharing.rs
\* previous_key, key_events.rs resharing_computation).
LEMMA PreviousKeyInForce ==
  ASSUME KeyInv, phase = "Resharing"
  PROVE  HasKey(keyset.domains, SeenId, previous_key)
  <1> DEFINE m == Len(reshared_keys) + 1
  <1>1. /\ Len(keyset.domains) \in Nat /\ Len(reshared_keys) \in Nat
        /\ Len(reshared_keys) < Len(keyset.domains) /\ Len(domains) = Len(keyset.domains)
        /\ key_event.domain_id = domains[m]
        /\ \A i \in 1 .. Len(keyset.domains) : keyset.domains[i].domain_id = domains[i]
    BY DEF KeyInv, ProtocolTypeOK, KeysetMatchesDomains
  <1>2. m \in 1 .. Len(keyset.domains)
    BY <1>1
  <1>3. SeenId.domain_id = key_event.domain_id
    BY DEF SeenId
  <1>4. keyset.domains[m].key = previous_key
    BY DEF previous_key
  <1> HIDE DEF m
  <1>5. QED
    BY <1>1, <1>2, <1>3, <1>4 DEF HasKey

\* A channel is opened (key_events.rs new_channel_for_task).
LEMMA NewChannelKeeps ==
  ASSUME KeyInv, KeyshareInv, NEW a \in Accounts, NEW key \in PublicKeys,
         new_channel_for_task(a, key)
  PROVE  KeyshareInv'
  <1> DEFINE n == [id |-> SeenId, resharing |-> phase = "Resharing", key |-> key,
                   members |-> Members(key_event.parameters), received |-> {}, joined |-> {}]
  <1>1. /\ UNCHANGED <<vars, permanent, temporary, loading, tasks, votes_sent>>
        /\ runs' = Append(runs, n) /\ phase # "Running"
        /\ phase = "Resharing" => key = previous_key
    BY DEF new_channel_for_task
  <1>2. /\ n \in Runs /\ n.id = SeenId /\ n.key = key
        /\ n.resharing => phase = "Resharing"
    <2>1. Members(key_event.parameters) \subseteq Accounts /\ SeenId \in KeyEventIds
      BY <1>1, SeenIdType, KeyEventInProgress, KeyEventType, ParametersType
    <2>2. QED
      BY <2>1 DEF Runs
  <1>3. NodeTypeOK /\ SentHeld /\ TasksHeld /\ RunsInForce /\ KeysetHeld /\ EventHeld /\ OneShareEach
    BY DEF KeyshareInv, VotesHeld
  <1>4. runs \in Seq(Runs) /\ Len(runs) \in Nat
    BY <1>3 DEF NodeTypeOK
  <1> HIDE DEF n
  <1>5. /\ runs' \in Seq(Runs) /\ Len(runs') = Len(runs) + 1
        /\ \A r \in 1 .. Len(runs) : runs'[r] = runs[r]
        /\ runs'[Len(runs) + 1] = n
    BY <1>1, <1>2, <1>4
  <1>6. NodeTypeOK'
    BY <1>1, <1>3, <1>4, <1>5 DEF NodeTypeOK
  <1>7. RunsKept /\ TasksKept /\ LoadsKept /\ SharesKept
    BY <1>1, <1>4, <1>5 DEF RunsKept, TasksKept, LoadsKept, SharesKept
  <1>8. EventHeld' /\ KeysetHeld' /\ TasksHeld' /\ SentHeld'
    BY <1>1, <1>3, <1>7, NodeStepEvent, NodeStepKeyset, NodeStepTasks, NodeStepSent
  <1>9. RunsInForce'
    <2>1. keyset' = keyset
      BY <1>1 DEF vars, protocolVars
    <2>2. n.resharing => HasKey(keyset.domains, n.id, n.key)
      BY <1>1, <1>2, PreviousKeyInForce
    <2>3. QED
      BY <1>3, <1>4, <1>5, <2>1, <2>2 DEF RunsInForce
  <1>10. OneShareEach'
    BY <1>1, <1>3 DEF OneShareEach
  <1>11. QED
    BY <1>6, <1>8, <1>9, <1>10 DEF KeyshareInv, VotesHeld

\* A field of a channel's record changes that the invariant is not about.
LEMMA ChannelUpdate ==
  ASSUME NodeTypeOK, NEW r \in 1 .. Len(runs), NEW n \in Runs,
         n.id = runs[r].id, n.key = runs[r].key, n.resharing = runs[r].resharing,
         runs' = [runs EXCEPT ![r] = n]
  PROVE  RunsKept /\ Len(runs') = Len(runs) /\ runs' \in Seq(Runs)
  <1>1. runs \in Seq(Runs) /\ Len(runs) \in Nat
    BY DEF NodeTypeOK
  <1>2. /\ runs' \in Seq(Runs) /\ Len(runs') = Len(runs)
        /\ \A q \in 1 .. Len(runs) : runs'[q] = IF q = r THEN n ELSE runs[q]
    BY <1>1
  <1>3. QED
    BY <1>1, <1>2 DEF RunsKept

\* Steps that leave the files and the votes alone, and of a channel only change
\* who takes part.
LEMMA TaskStep ==
  ASSUME KeyInv, KeyshareInv, NodeTypeOK',
         UNCHANGED <<vars, permanent, temporary, loading, votes_sent>>,
         RunsKept, Len(runs') = Len(runs), TasksKept
  PROVE  KeyshareInv'
  <1>1. SharesKept /\ LoadsKept
    BY DEF SharesKept, LoadsKept
  <1>2. NodeTypeOK /\ SentHeld /\ TasksHeld /\ RunsInForce /\ KeysetHeld /\ EventHeld /\ OneShareEach
    BY DEF KeyshareInv, VotesHeld
  <1>3. EventHeld' /\ KeysetHeld' /\ SentHeld' /\ TasksHeld' /\ RunsInForce'
    BY <1>1, <1>2, NodeStepEvent, NodeStepKeyset, NodeStepSent, NodeStepTasks, NodeStepRuns
  <1>4. OneShareEach'
    BY <1>2 DEF OneShareEach
  <1>5. QED
    BY <1>3, <1>4 DEF KeyshareInv, VotesHeld

\* A participant gets the channel (key_events.rs keyshare_computation_follower).
LEMMA ReceiveKeeps ==
  ASSUME KeyInv, KeyshareInv, NEW a \in Accounts, NEW r \in 1 .. Len(runs), receive_channel(a, r)
  PROVE  KeyshareInv'
  <1> DEFINE n == [runs[r] EXCEPT !.received = @ \cup {a}]
             t == [run |-> r, step |-> "received", domain_id |-> key_event.domain_id,
                   done |-> IF phase = "Resharing" THEN reshared_keys ELSE keyset.domains]
  <1>1. /\ UNCHANGED <<vars, permanent, temporary, loading, votes_sent>>
        /\ runs' = [runs EXCEPT ![r] = n]
        /\ tasks' = [tasks EXCEPT ![a] = @ \cup {t}]
        /\ phase # "Running"
    BY DEF receive_channel
  <1>2. NodeTypeOK /\ runs[r] \in Runs /\ tasks \in [Accounts -> SUBSET Tasks]
    BY NodeFacts DEF KeyshareInv, NodeTypeOK
  <1>3. /\ n \in Runs /\ n.id = runs[r].id /\ n.key = runs[r].key
        /\ n.resharing = runs[r].resharing
    BY <1>2 DEF Runs
  <1>4. t \in Tasks /\ t.step = "received" /\ t.run = r
    <2>1. reshared_keys \in Seq(KeysForDomain) /\ keyset.domains \in Seq(KeysForDomain)
      BY DEF KeyInv, ProtocolTypeOK
    <2>2. key_event.domain_id \in Nat /\ r \in Nat
      BY <1>1, SeenIdType
    <2>3. QED
      BY <2>1, <2>2 DEF Tasks
  <1> HIDE DEF n, t
  <1>5. RunsKept /\ Len(runs') = Len(runs) /\ runs' \in Seq(Runs)
    BY <1>1, <1>2, <1>3, ChannelUpdate
  <1>6. /\ tasks' \in [Accounts -> SUBSET Tasks]
        /\ \A b \in Accounts : \A u \in tasks'[b] : u \in tasks[b] \/ u = t
    BY <1>1, <1>2, <1>4
  <1>7. TasksKept
    BY <1>4, <1>6 DEF TasksKept
  <1>8. NodeTypeOK'
    BY <1>1, <1>2, <1>4, <1>5, <1>6 DEF NodeTypeOK
  <1>9. QED
    BY <1>1, <1>5, <1>7, <1>8, TaskStep

\* A task that advances is the only one that changes.
LEMMA AdvanceTask ==
  ASSUME NodeTypeOK, NEW a \in Accounts, NEW t \in tasks[a],
         NEW step \in {"computing", "committed"}, tasks' = Advance(a, t, step)
  PROVE  /\ tasks' \in [Accounts -> SUBSET Tasks]
         /\ [t EXCEPT !.step = step].run = t.run
         /\ [t EXCEPT !.step = step].step = step
         /\ \A b \in Accounts : \A u \in tasks'[b] :
               u \in tasks[b] \/ (b = a /\ u = [t EXCEPT !.step = step])
         /\ \A b \in Accounts : \A u \in tasks'[b] :
               \E w \in tasks[b] : u.run = w.run
  <1> DEFINE n == [t EXCEPT !.step = step]
  <1>1. tasks \in [Accounts -> SUBSET Tasks] /\ t \in Tasks
    BY DEF NodeTypeOK
  <1>2. n \in Tasks /\ n.run = t.run /\ n.step = step
    BY <1>1 DEF Tasks
  <1>3. tasks' = [tasks EXCEPT ![a] = (@ \ {t}) \cup {n}]
    BY DEF Advance
  <1> HIDE DEF n
  <1>4. /\ tasks' \in [Accounts -> SUBSET Tasks]
        /\ \A b \in Accounts : \A u \in tasks'[b] : u \in tasks[b] \/ (b = a /\ u = n)
    BY <1>1, <1>2, <1>3
  <1>5. \A b \in Accounts : \A u \in tasks'[b] : \E w \in tasks[b] : u.run = w.run
    BY <1>2, <1>4
  <1>6. QED
    BY <1>2, <1>4, <1>5 DEF n

\* A task ends.
LEMMA DropTask ==
  ASSUME NodeTypeOK, NEW a \in Accounts, NEW t, tasks' = [tasks EXCEPT ![a] = @ \ {t}]
  PROVE  /\ tasks' \in [Accounts -> SUBSET Tasks]
         /\ \A b \in Accounts : tasks'[b] \subseteq tasks[b]
  <1>1. tasks \in [Accounts -> SUBSET Tasks]
    BY DEF NodeTypeOK
  <1>2. QED
    BY <1>1

\* start_generating_key, start_resharing_key: the node takes part.
LEMMA StartKeyKeeps ==
  ASSUME KeyInv, KeyshareInv, NEW a \in Accounts, NEW t \in tasks[a], start_key(a, t)
  PROVE  KeyshareInv'
  <1> DEFINE r == t.run
             n == [runs[r] EXCEPT !.joined = @ \cup {a}]
  <1>1. /\ UNCHANGED <<vars, permanent, temporary, loading, votes_sent>>
        /\ runs' = [runs EXCEPT ![r] = n]
        /\ tasks' = Advance(a, t, "computing")
    BY DEF start_key
  <1>2. NodeTypeOK /\ r \in 1 .. Len(runs)
    BY DEF KeyshareInv, NodeTypeOK
  <1>3. runs[r] \in Runs
    BY <1>2, NodeFacts
  <1>4. /\ n \in Runs /\ n.id = runs[r].id /\ n.key = runs[r].key
        /\ n.resharing = runs[r].resharing
    BY <1>3 DEF Runs
  <1> HIDE DEF n, r
  <1>5. RunsKept /\ Len(runs') = Len(runs) /\ runs' \in Seq(Runs)
    BY <1>1, <1>2, <1>4, ChannelUpdate
  <1>6. /\ tasks' \in [Accounts -> SUBSET Tasks]
        /\ [t EXCEPT !.step = "computing"].step = "computing"
        /\ \A b \in Accounts : \A u \in tasks'[b] :
              u \in tasks[b] \/ (b = a /\ u = [t EXCEPT !.step = "computing"])
        /\ \A b \in Accounts : \A u \in tasks'[b] : \E w \in tasks[b] : u.run = w.run
    BY <1>1, <1>2, AdvanceTask
  <1>7. TasksKept
    BY <1>6 DEF TasksKept
  <1>8. NodeTypeOK'
    <2>1. \A b \in Accounts : \A u \in tasks'[b] : u.run \in 1 .. Len(runs')
      BY <1>2, <1>5, <1>6 DEF NodeTypeOK
    <2>2. QED
      BY <1>1, <1>2, <1>5, <1>6, <2>1 DEF NodeTypeOK
  <1>9. QED
    BY <1>1, <1>5, <1>7, <1>8, TaskStep

\* The share is written before the vote is sent (temporary.rs commit_keyshare).
LEMMA CommitKeeps ==
  ASSUME KeyInv, KeyshareInv, NEW a \in Accounts, NEW t \in tasks[a], commit_keyshare(a, t)
  PROVE  KeyshareInv'
  <1> DEFINE r == t.run
             s == [id |-> runs[r].id, key |-> runs[r].key, run |-> r]
             n == [t EXCEPT !.step = "committed"]
  <1>1. /\ UNCHANGED <<vars, permanent, loading, runs, votes_sent>>
        /\ SharesFor(a, runs[r].id) = {}
        /\ temporary' = [temporary EXCEPT ![a] = @ \cup {s}]
        /\ tasks' = Advance(a, t, "committed")
    BY DEF commit_keyshare
  <1>2. NodeTypeOK /\ SentHeld /\ TasksHeld /\ RunsInForce /\ KeysetHeld /\ EventHeld /\ OneShareEach
    BY DEF KeyshareInv, VotesHeld
  <1>3. r \in 1 .. Len(runs) /\ temporary \in [Accounts -> SUBSET Shares]
    BY <1>2 DEF NodeTypeOK
  <1>4. runs[r].id \in KeyEventIds /\ runs[r].key \in PublicKeys /\ r \in Nat
    BY <1>2, <1>3, NodeFacts
  <1>5. s \in Shares /\ s.id = runs[r].id /\ s.key = runs[r].key
    BY <1>4 DEF Shares
  <1>6. /\ tasks' \in [Accounts -> SUBSET Tasks]
        /\ n.run = r
        /\ \A b \in Accounts : \A u \in tasks'[b] : u \in tasks[b] \/ (b = a /\ u = n)
        /\ \A b \in Accounts : \A u \in tasks'[b] : \E w \in tasks[b] : u.run = w.run
    BY <1>1, <1>2, AdvanceTask
  <1> HIDE DEF s, n, r
  <1>7. /\ temporary' \in [Accounts -> SUBSET Shares]
        /\ temporary'[a] = temporary[a] \cup {s}
        /\ \A b \in Accounts : temporary[b] \subseteq temporary'[b]
        /\ \A b \in Accounts : b # a => temporary'[b] = temporary[b]
    BY <1>1, <1>3, <1>5
  <1>8. NodeTypeOK'
    <2>1. ASSUME NEW b \in Accounts, NEW u \in tasks'[b] PROVE u.run \in 1 .. Len(runs)
      <3>1. PICK w \in tasks[b] : u.run = w.run
        BY <1>6
      <3>2. QED
        BY <1>2, <3>1 DEF NodeTypeOK
    <2>2. QED
      BY <1>1, <1>2, <1>6, <1>7, <2>1 DEF NodeTypeOK
  <1>9. OneShareEach'
    <2>1. \A u \in temporary[a] : u.id # s.id
      BY <1>1, <1>5 DEF SharesFor
    <2>2. QED
      BY <1>2, <1>7, <2>1 DEF OneShareEach
  <1>10. SharesKept /\ LoadsKept
    BY <1>1, <1>7 DEF SharesKept, HasShare, LoadsKept
  <1>11. EventHeld' /\ KeysetHeld' /\ SentHeld'
    BY <1>1, <1>2, <1>10, NodeStepEvent, NodeStepKeyset, NodeStepSent
  <1>12. RunsInForce'
    BY <1>1, <1>2 DEF RunsInForce, vars, protocolVars
  <1>13. TasksHeld'
    <2>1. keyset' = keyset
      BY <1>1 DEF vars, protocolVars
    <2> SUFFICES ASSUME NEW b \in Accounts, NEW u \in tasks'[b], u.step = "committed",
                        runs[u.run].id.epoch_id >= keyset.epoch_id
                 PROVE  HasShare(temporary'[b], runs[u.run].id, runs[u.run].key)
      BY <1>1, <2>1 DEF TasksHeld, Holds
    <2>2. CASE u \in tasks[b]
      BY <1>2, <1>10, <2>2 DEF TasksHeld, Holds, SharesKept
    <2>3. CASE b = a /\ u = n
      <3>1. u.run = r
        BY <1>6, <2>3
      <3>2. HasShare(temporary'[a], runs[r].id, runs[r].key)
        BY <1>5, <1>7 DEF HasShare
      <3>3. QED
        BY <2>3, <3>1, <3>2
    <2>4. QED
      BY <1>6, <2>2, <2>3
  <1>14. QED
    BY <1>8, <1>9, <1>11, <1>12, <1>13 DEF KeyshareInv, VotesHeld

\* A node sends a transaction and drops the task: what it votes for it holds.
LEMMA SendKeeps ==
  ASSUME KeyInv, KeyshareInv, NEW a \in Accounts, NEW t \in tasks[a],
         send_vote(a, t) \/ send_abort(a, t)
  PROVE  KeyshareInv'
  <1> DEFINE r == t.run
  <1>1. PICK n : /\ votes_sent' = votes_sent \cup {n}
                 /\ \/ /\ t.step = "committed"
                       /\ n = Tx(a, IF runs[r].resharing THEN "vote_reshared" ELSE "vote_pk",
                                 runs[r].id, runs[r].key)
                    \/ n = Tx(a, "vote_abort", runs[r].id, "none")
    BY DEF send_vote, send_abort
  <1>2. /\ UNCHANGED <<vars, permanent, temporary, loading, runs>>
        /\ tasks' = [tasks EXCEPT ![a] = @ \ {t}]
    BY DEF send_vote, send_abort
  <1>3. NodeTypeOK /\ SentHeld /\ TasksHeld /\ RunsInForce /\ KeysetHeld /\ EventHeld /\ OneShareEach
    BY DEF KeyshareInv, VotesHeld
  <1>4. r \in 1 .. Len(runs)
    BY <1>3 DEF NodeTypeOK
  <1>5. runs[r].id \in KeyEventIds /\ runs[r].key \in PublicKeys
    BY <1>3, <1>4, NodeFacts
  <1>6. /\ n.signer = a /\ n.id = runs[r].id
        /\ n.call \in {"vote_pk", "vote_reshared"} => t.step = "committed" /\ n.key = runs[r].key
        /\ n.call = "vote_reshared" => runs[r].resharing
    <2>1. CASE n = Tx(a, "vote_abort", runs[r].id, "none")
      BY <2>1 DEF Tx
    <2>2. CASE t.step = "committed" /\ runs[r].resharing
               /\ n = Tx(a, "vote_reshared", runs[r].id, runs[r].key)
      BY <2>2 DEF Tx
    <2>3. CASE t.step = "committed" /\ n = Tx(a, "vote_pk", runs[r].id, runs[r].key)
      BY <2>3 DEF Tx
    <2>4. QED
      BY <1>1, <2>1, <2>2, <2>3
  <1>7. /\ tasks' \in [Accounts -> SUBSET Tasks]
        /\ \A b \in Accounts : tasks'[b] \subseteq tasks[b]
    BY <1>2, <1>3, DropTask
  <1>8. NodeTypeOK'
    <2>1. \A v \in votes_sent' : /\ v.signer \in Accounts
                                 /\ v.id \in KeyEventIds
                                 /\ v.call \in {"vote_pk", "vote_reshared"} => v.key \in PublicKeys
      BY <1>1, <1>3, <1>5, <1>6 DEF NodeTypeOK
    <2>2. QED
      BY <1>2, <1>3, <1>7, <2>1 DEF NodeTypeOK
  <1>9. keyset' = keyset
    BY <1>2 DEF vars, protocolVars
  <1>10. SentHeld'
    <2>1. /\ (n.call \in {"vote_pk", "vote_reshared"} /\ n.id.epoch_id >= keyset.epoch_id) =>
                Holds(n.signer, n.id, n.key)
          /\ n.call = "vote_reshared" => HasKey(keyset.domains, n.id, n.key)
      BY <1>3, <1>4, <1>6 DEF TasksHeld, RunsInForce
    <2>2. \A v \in votes_sent' :
             /\ (v.call \in {"vote_pk", "vote_reshared"} /\ v.id.epoch_id >= keyset.epoch_id) =>
                   Holds(v.signer, v.id, v.key)
             /\ v.call = "vote_reshared" => HasKey(keyset.domains, v.id, v.key)
      BY <1>1, <1>3, <2>1 DEF SentHeld
    <2>3. QED
      BY <1>2, <1>9, <2>2 DEF SentHeld, Holds
  <1>11. RunsKept /\ TasksKept /\ LoadsKept /\ SharesKept
    BY <1>2, <1>3, <1>7, NodeFacts DEF RunsKept, TasksKept, LoadsKept, SharesKept
  <1>12. EventHeld' /\ KeysetHeld' /\ TasksHeld' /\ RunsInForce'
    BY <1>2, <1>3, <1>11, NodeStepEvent, NodeStepKeyset, NodeStepTasks, NodeStepRuns
  <1>13. OneShareEach'
    BY <1>2, <1>3 DEF OneShareEach
  <1>14. QED
    BY <1>8, <1>10, <1>12, <1>13 DEF KeyshareInv, VotesHeld

\* key_event_id_expiration: the task ends without a vote.
LEMMA ExpireKeeps ==
  ASSUME KeyInv, KeyshareInv, NEW a \in Accounts, NEW t \in tasks[a], expire(a, t)
  PROVE  KeyshareInv'
  <1>1. /\ UNCHANGED <<vars, permanent, temporary, loading, runs, votes_sent>>
        /\ tasks' = [tasks EXCEPT ![a] = @ \ {t}]
    BY DEF expire
  <1>2. NodeTypeOK
    BY DEF KeyshareInv
  <1>3. /\ tasks' \in [Accounts -> SUBSET Tasks]
        /\ \A b \in Accounts : tasks'[b] \subseteq tasks[b]
    BY <1>1, <1>2, DropTask
  <1>4. NodeTypeOK' /\ TasksKept /\ LoadsKept
    BY <1>1, <1>2, <1>3 DEF NodeTypeOK, TasksKept, LoadsKept
  <1>5. QED
    BY <1>1, <1>4, QuietStep

\* run_mpc, run_key_resharing: the node reads the keyset to promote it.
LEMMA BeginLoadKeeps ==
  ASSUME KeyInv, KeyshareInv, NEW a \in Accounts, begin_load(a)
  PROVE  KeyshareInv'
  <1> DEFINE l == [step |-> "load", epoch_id |-> keyset.epoch_id, domains |-> keyset.domains]
  <1>1. /\ UNCHANGED <<vars, permanent, temporary, tasks, runs, votes_sent>>
        /\ loading' = [loading EXCEPT ![a] = l]
    BY DEF begin_load
  <1>2. NodeTypeOK /\ loading \in [Accounts -> Loads]
    BY DEF KeyshareInv, NodeTypeOK
  <1>3. l \in Loads /\ l.epoch_id = keyset.epoch_id /\ l.domains = keyset.domains
    BY KeysetType DEF Loads
  <1> HIDE DEF l
  <1>4. /\ loading' \in [Accounts -> Loads]
        /\ \A b \in Accounts : loading'[b] = IF b = a THEN l ELSE loading[b]
    BY <1>1, <1>2, <1>3
  <1>5. NodeTypeOK' /\ TasksKept /\ LoadsKept
    BY <1>1, <1>2, <1>3, <1>4 DEF NodeTypeOK, TasksKept, LoadsKept
  <1>6. QED
    BY <1>1, <1>5, QuietStep

\* A crash, a restart or another job: files and votes stay (coordinator.rs).
LEMMA SwitchJobKeeps ==
  ASSUME KeyInv, KeyshareInv, NEW a \in Accounts, switch_job(a)
  PROVE  KeyshareInv'
  <1>1. /\ UNCHANGED <<vars, permanent, temporary, runs, votes_sent>>
        /\ loading' = [loading EXCEPT ![a] = NotLoading]
        /\ tasks' = [tasks EXCEPT ![a] = {}]
    BY DEF switch_job
  <1>2. /\ NodeTypeOK /\ loading \in [Accounts -> Loads]
        /\ tasks \in [Accounts -> SUBSET Tasks]
    BY DEF KeyshareInv, NodeTypeOK
  <1>3. NotLoading \in Loads /\ NotLoading.step = "idle"
    BY DEF Loads, NotLoading
  <1>4. /\ loading' \in [Accounts -> Loads]
        /\ \A b \in Accounts : loading'[b] = IF b = a THEN NotLoading ELSE loading[b]
        /\ tasks' \in [Accounts -> SUBSET Tasks]
        /\ \A b \in Accounts : tasks'[b] \subseteq tasks[b]
    BY <1>1, <1>2, <1>3
  <1>5. NodeTypeOK' /\ TasksKept /\ LoadsKept
    BY <1>1, <1>2, <1>3, <1>4 DEF NodeTypeOK, TasksKept, LoadsKept
  <1>6. QED
    BY <1>1, <1>5, QuietStep

\* Only files of epochs before the promoted one are deleted, and that one is
\* not ahead of the contract (temporary.rs delete_keyshares_prior_to_epoch_id).
LEMMA DeleteKeeps ==
  ASSUME KeyInv, KeyshareInv, NEW a \in Accounts, delete_keyshares_prior_to_epoch_id(a)
  PROVE  KeyshareInv'
  <1> DEFINE kept == {s \in temporary[a] : ~ Outdated(s.id.epoch_id, loading[a].epoch_id)}
  <1>1. /\ UNCHANGED <<vars, permanent, tasks, runs, votes_sent>>
        /\ loading[a].step = "delete"
        /\ temporary' = [temporary EXCEPT ![a] = kept]
        /\ loading' = [loading EXCEPT ![a] = NotLoading]
    BY DEF delete_keyshares_prior_to_epoch_id
  <1>2. NodeTypeOK /\ SentHeld /\ TasksHeld /\ RunsInForce /\ KeysetHeld /\ EventHeld /\ OneShareEach
    BY DEF KeyshareInv, VotesHeld
  <1>3. /\ temporary \in [Accounts -> SUBSET Shares] /\ loading \in [Accounts -> Loads]
        /\ loading[a].epoch_id \in Int /\ keyset.epoch_id \in Nat
    BY <1>2, NodeFacts, KeysetType DEF NodeTypeOK
  <1>4. NotLoading \in Loads /\ NotLoading.step = "idle"
    BY DEF Loads, NotLoading
  <1>5. loading[a].epoch_id <= keyset.epoch_id
    BY <1>1, <1>2 DEF KeysetHeld, LoadingInv
  <1>6. ASSUME NEW id, NEW key, id.epoch_id >= keyset.epoch_id, HasShare(temporary[a], id, key)
        PROVE  HasShare(kept, id, key)
    <2>1. PICK s \in temporary[a] : s.id = id /\ s.key = key
      BY <1>6 DEF HasShare
    <2>2. s.id.epoch_id \in Nat
      BY <1>3 DEF Shares, KeyEventIds
    <2>3. ~ Outdated(s.id.epoch_id, loading[a].epoch_id)
      BY <1>3, <1>5, <1>6, <2>1, <2>2 DEF Outdated
    <2>4. QED
      BY <2>1, <2>3 DEF HasShare
  <1>7. kept \subseteq temporary[a]
    OBVIOUS
  <1> HIDE DEF kept
  <1>8. /\ temporary' \in [Accounts -> SUBSET Shares]
        /\ temporary'[a] = kept
        /\ \A b \in Accounts : b # a => temporary'[b] = temporary[b]
        /\ loading' \in [Accounts -> Loads]
        /\ \A b \in Accounts : loading'[b] = IF b = a THEN NotLoading ELSE loading[b]
    BY <1>1, <1>3, <1>4, <1>7
  <1>9. SharesKept
    BY <1>6, <1>8 DEF SharesKept
  <1>10. NodeTypeOK'
    BY <1>1, <1>2, <1>8 DEF NodeTypeOK
  <1>11. LoadsKept /\ TasksKept /\ RunsKept
    BY <1>1, <1>2, <1>4, <1>8, NodeFacts DEF LoadsKept, TasksKept, RunsKept
  <1>12. OneShareEach'
    BY <1>2, <1>7, <1>8 DEF OneShareEach
  <1>13. EventHeld' /\ KeysetHeld' /\ SentHeld' /\ TasksHeld' /\ RunsInForce'
    BY <1>1, <1>2, <1>9, <1>11, NodeStepEvent, NodeStepKeyset, NodeStepSent, NodeStepTasks,
       NodeStepRuns
  <1>14. QED
    BY <1>10, <1>12, <1>13 DEF KeyshareInv, VotesHeld

\* What a node loads: one share per key, those in permanent storage first, all
\* of the attempts that the keyset names (keyshare.rs
\* _load_keyshares_from_permanent_or_temporary).
LEMMA LoadedShares ==
  ASSUME NodeTypeOK, NEW a \in Accounts, NEW e \in Int, NEW keys \in Seq(KeysForDomain),
         CanLoad(a, e, keys)
  PROVE  /\ Loaded(a, e, keys) \in Seq(Shares)
         /\ Len(Loaded(a, e, keys)) = Len(keys)
         /\ Len(PermanentShares(a, e)) \in Nat /\ Len(PermanentShares(a, e)) <= Len(keys)
         /\ \A i \in 1 .. Len(keys) :
               /\ Loaded(a, e, keys)[i].id = KeyId(e, keys[i])
               /\ i <= Len(PermanentShares(a, e)) =>
                     /\ Loaded(a, e, keys)[i] = PermanentShares(a, e)[i]
                     /\ check_consistency(Loaded(a, e, keys)[i], e, keys[i])
               /\ ~ (i <= Len(PermanentShares(a, e))) => Loaded(a, e, keys)[i] \in temporary[a]
  <1> DEFINE existing == PermanentShares(a, e)
             found(i) == CHOOSE s \in SharesFor(a, KeyId(e, keys[i])) : TRUE
             loaded == Loaded(a, e, keys)
  <1>1. existing \in Seq(Shares) /\ Len(existing) \in Nat
    BY NodeFacts DEF PermanentShares
  <1>2. Len(keys) \in Nat
    OBVIOUS
  <1>3. /\ Len(existing) <= Len(keys)
        /\ \A i \in 1 .. Len(existing) : check_consistency(existing[i], e, keys[i])
        /\ \A i \in (Len(existing) + 1) .. Len(keys) : SharesFor(a, KeyId(e, keys[i])) # {}
    BY DEF CanLoad, IsPrefixOfKeyset
  <1>4. loaded = [i \in 1 .. Len(keys) |-> IF i <= Len(existing) THEN existing[i] ELSE found(i)]
    BY DEF Loaded
  <1>5. \A i \in (Len(existing) + 1) .. Len(keys) :
           /\ found(i) \in temporary[a]
           /\ found(i).id = KeyId(e, keys[i])
    BY <1>3 DEF SharesFor
  <1>6. temporary[a] \subseteq Shares
    BY DEF NodeTypeOK
  <1> HIDE DEF existing, found, loaded
  <1>7. ASSUME NEW i \in 1 .. Len(keys)
        PROVE  /\ loaded[i] \in Shares /\ loaded[i].id = KeyId(e, keys[i])
               /\ i <= Len(existing) => /\ loaded[i] = existing[i]
                                        /\ check_consistency(loaded[i], e, keys[i])
               /\ ~ (i <= Len(existing)) => loaded[i] \in temporary[a]
    <2>1. CASE i <= Len(existing)
      <3>1. i \in 1 .. Len(existing) /\ loaded[i] = existing[i]
        BY <1>1, <1>2, <1>4, <2>1
      <3>2. QED
        BY <1>1, <1>3, <2>1, <3>1 DEF check_consistency
    <2>2. CASE ~ (i <= Len(existing))
      <3>1. i \in (Len(existing) + 1) .. Len(keys) /\ loaded[i] = found(i)
        BY <1>1, <1>2, <1>4, <2>2
      <3>2. QED
        BY <1>5, <1>6, <2>2, <3>1
    <2>3. QED
      BY <2>1, <2>2
  <1>8. loaded \in Seq(Shares) /\ Len(loaded) = Len(keys)
    BY <1>2, <1>4, <1>7
  <1>9. QED
    BY <1>1, <1>3, <1>7, <1>8 DEF existing, loaded

\* What a participant loads of the contract's epoch are the keys in force: in
\* temporary storage there is one share of the attempt, and it is of that key.
LEMMA LoadedInForce ==
  ASSUME KeyInv, NodeTypeOK, OneShareEach, PermanentInv, KeysHeld,
         NEW a \in Members(parameters), NEW keys \in Seq(KeysForDomain),
         Len(keys) <= Len(keyset.domains),
         \A i \in 1 .. Len(keys) : keys[i] = keyset.domains[i],
         CanLoad(a, keyset.epoch_id, keys)
  PROVE  \A i \in 1 .. Len(keys) :
            check_consistency(Loaded(a, keyset.epoch_id, keys)[i], keyset.epoch_id,
                              keyset.domains[i])
  <1> DEFINE e == keyset.epoch_id
             loaded == Loaded(a, e, keys)
             n == Len(PermanentShares(a, e))
  <1>1. a \in Accounts /\ e \in Nat /\ Len(keyset.domains) \in Nat /\ Len(keys) \in Nat
    BY KeysetType
  <1>2. /\ n \in Nat
        /\ \A i \in 1 .. Len(keys) :
              /\ loaded[i].id = KeyId(e, keys[i])
              /\ i <= n => check_consistency(loaded[i], e, keys[i])
              /\ ~ (i <= n) => loaded[i] \in temporary[a]
    <2>1. e \in Int
      BY <1>1
    <2>2. QED
      BY <1>1, <2>1, LoadedShares
  <1> SUFFICES ASSUME NEW i \in 1 .. Len(keys)
               PROVE  check_consistency(loaded[i], e, keyset.domains[i])
    OBVIOUS
  <1>3. keys[i] = keyset.domains[i] /\ i \in 1 .. Len(keyset.domains)
    BY <1>1
  <1>4. CASE i <= n
    BY <1>2, <1>3, <1>4
  <1>5. CASE ~ (i <= n)
    <2>1. ~ (permanent[a].epoch_id = e /\ i <= Len(permanent[a].keyshares))
      BY <1>5 DEF PermanentShares
    <2>2. Holds(a, KeyId(e, keyset.domains[i]), keyset.domains[i].key)
      BY <1>3, <2>1 DEF KeysHeld
    <2>3. PICK s \in temporary[a] :
              s.id = KeyId(e, keyset.domains[i]) /\ s.key = keyset.domains[i].key
      BY <2>2 DEF Holds, HasShare
    <2>4. loaded[i] \in temporary[a] /\ loaded[i].id = s.id
      BY <1>2, <1>3, <1>5, <2>3
    <2> HIDE DEF loaded, e
    <2>5. loaded[i] = s
      BY <1>1, <2>4 DEF OneShareEach
    <2>6. QED
      BY <2>3, <2>5 DEF check_consistency
  <1>6. QED
    BY <1>4, <1>5

\* update_permanent_keyshares: a stale keyset does not replace a newer one, and
\* the keyset of the contract's epoch is stored with the keys in force.
LEMMA StoreKeeps ==
  ASSUME KeyInv, KeyshareInv, NEW a \in Accounts, store_permanent(a)
  PROVE  KeyshareInv'
  <1> DEFINE l == loading[a]
             loaded == Loaded(a, l.epoch_id, l.domains)
             new == [epoch_id |-> l.epoch_id, keyshares |-> loaded]
  <1>1. UNCHANGED <<vars, temporary, tasks, runs, votes_sent>> /\ l.step = "load"
    BY DEF store_permanent
  <1>2. NodeTypeOK /\ SentHeld /\ TasksHeld /\ RunsInForce /\ KeysetHeld /\ EventHeld /\ OneShareEach
    BY DEF KeyshareInv, VotesHeld
  <1>3. /\ loading \in [Accounts -> Loads] /\ l \in Loads
        /\ l.epoch_id \in Int /\ l.domains \in Seq(KeysForDomain) /\ Len(l.domains) \in Nat
        /\ permanent \in [Accounts -> [epoch_id : Int, keyshares : Seq(Shares)]]
    BY <1>2, NodeFacts DEF NodeTypeOK
  <1>4. TasksKept /\ SharesKept /\ RunsKept
    BY <1>1, <1>2, NodeFacts DEF TasksKept, SharesKept, RunsKept
  <1>5. CASE loading' = [loading EXCEPT ![a] = NotLoading] /\ UNCHANGED permanent
    <2>1. NotLoading \in Loads /\ NotLoading.step = "idle"
      BY DEF Loads, NotLoading
    <2>2. /\ loading' \in [Accounts -> Loads]
          /\ \A b \in Accounts : loading'[b] = IF b = a THEN NotLoading ELSE loading[b]
      BY <1>3, <1>5, <2>1
    <2>3. NodeTypeOK' /\ LoadsKept
      BY <1>1, <1>2, <1>5, <2>1, <2>2 DEF NodeTypeOK, LoadsKept
    <2>4. QED
      BY <1>1, <1>4, <1>5, <2>3, QuietStep
  <1>6. CASE /\ Promotes(a)
             /\ permanent' = [permanent EXCEPT ![a] = new]
             /\ loading' = [loading EXCEPT ![a].step = "delete"]
    <2>1. /\ CanLoad(a, l.epoch_id, l.domains)
          /\ CanStore(a, l.epoch_id, loaded)
      BY <1>6 DEF Promotes
    <2>2. /\ loaded \in Seq(Shares) /\ Len(loaded) = Len(l.domains)
          /\ Len(PermanentShares(a, l.epoch_id)) \in Nat
          /\ Len(PermanentShares(a, l.epoch_id)) <= Len(l.domains)
      BY <1>2, <1>3, <2>1, LoadedShares
    <2>3. ASSUME NEW b \in Members(parameters), b = a, l.epoch_id = keyset.epoch_id
          PROVE  \A i \in 1 .. Len(l.domains) :
                    check_consistency(loaded[i], keyset.epoch_id, keyset.domains[i])
      <3>1. /\ Len(l.domains) <= Len(keyset.domains)
            /\ \A i \in 1 .. Len(l.domains) : l.domains[i] = keyset.domains[i]
            /\ PermanentInv /\ KeysHeld
        BY <1>1, <1>2, <2>3 DEF KeysetHeld, LoadingInv
      <3>2. QED
        BY <1>2, <1>3, <2>1, <2>3, <3>1, LoadedInForce
    <2>4. /\ l.epoch_id <= keyset.epoch_id
          /\ l.epoch_id = keyset.epoch_id => Len(l.domains) <= Len(keyset.domains)
      BY <1>1, <1>2 DEF KeysetHeld, LoadingInv
    <2>5. /\ new.epoch_id = l.epoch_id /\ new.keyshares = loaded
          /\ new \in [epoch_id : Int, keyshares : Seq(Shares)]
      BY <1>3, <2>2
    <2>6. permanent[a].epoch_id <= l.epoch_id /\ l.epoch_id # -1
      <3>1. l.epoch_id \in Nat
        <4>1. loaded # <<>> /\ loaded[1].id.epoch_id = l.epoch_id
          BY <2>1 DEF CanStore
        <4> HIDE DEF loaded
        <4>2. loaded[1] \in Shares
          BY <2>2, <4>1
        <4>3. QED
          BY <4>1, <4>2 DEF Shares, KeyEventIds
      <3>2. permanent[a] # NoPermanent => permanent[a].epoch_id <= l.epoch_id
        BY <2>1 DEF CanStore
      <3>3. QED
        BY <3>1, <3>2 DEF NoPermanent
    <2> DEFINE d == [l EXCEPT !.step = "delete"]
    <2>7. d \in Loads /\ d.epoch_id = l.epoch_id /\ d.domains = l.domains
      BY <1>3 DEF Loads
    <2>8. loading' = [loading EXCEPT ![a] = d]
      BY <1>3, <1>6
    <2> HIDE DEF d, new, loaded
    <2>9. /\ loading' \in [Accounts -> Loads]
          /\ \A b \in Accounts : loading'[b] = IF b = a THEN d ELSE loading[b]
          /\ permanent' \in [Accounts -> [epoch_id : Int, keyshares : Seq(Shares)]]
          /\ permanent'[a] = new
          /\ \A b \in Accounts : b # a => permanent'[b] = permanent[b]
      BY <1>3, <1>6, <2>5, <2>7, <2>8
    <2>10. NodeTypeOK'
      <3>1. \A b \in Accounts : permanent'[b].epoch_id = -1 => permanent'[b] = NoPermanent
        BY <1>2, <2>5, <2>6, <2>9 DEF NodeTypeOK
      <3>2. QED
        BY <1>1, <1>2, <2>9, <3>1 DEF NodeTypeOK
    <2>11. keyset' = keyset /\ parameters' = parameters
      BY <1>1 DEF vars, protocolVars
    <2>12. PermanentInv'
      <3>1. \A b \in Accounts : permanent'[b].epoch_id <= keyset.epoch_id
        BY <1>2, <2>4, <2>5, <2>9 DEF KeysetHeld, PermanentInv
      <3>2. ASSUME NEW b \in Members(parameters), permanent'[b].epoch_id = keyset.epoch_id
            PROVE  IsPrefixOfKeyset(permanent'[b].keyshares, keyset.epoch_id, keyset.domains)
        <4>1. b \in Accounts
          BY KeysetType
        <4>2. CASE b = a
          <5>1. l.epoch_id = keyset.epoch_id /\ permanent'[b].keyshares = loaded
            BY <2>5, <2>9, <3>2, <4>2
          <5>2. QED
            BY <2>2, <2>3, <2>4, <4>2, <5>1 DEF IsPrefixOfKeyset
        <4>3. CASE b # a
          BY <1>2, <2>9, <3>2, <4>1, <4>3 DEF KeysetHeld, PermanentInv
        <4>4. QED
          BY <4>2, <4>3
      <3>3. QED
        BY <2>11, <3>1, <3>2 DEF PermanentInv
    <2>13. KeysHeld'
      <3> SUFFICES ASSUME NEW b \in Members(parameters), NEW i \in 1 .. Len(keyset.domains)
                   PROVE  \/ Holds(b, KeyId(keyset.epoch_id, keyset.domains[i]),
                                   keyset.domains[i].key)
                          \/ /\ permanent'[b].epoch_id = keyset.epoch_id
                             /\ i <= Len(permanent'[b].keyshares)
        BY <1>1, <2>11 DEF KeysHeld, Holds
      <3>1. \/ Holds(b, KeyId(keyset.epoch_id, keyset.domains[i]), keyset.domains[i].key)
            \/ permanent[b].epoch_id = keyset.epoch_id /\ i <= Len(permanent[b].keyshares)
        BY <1>2 DEF KeysetHeld, KeysHeld
      <3>2. b \in Accounts /\ keyset.epoch_id \in Nat /\ permanent[b].epoch_id \in Int
        BY <1>2, KeysetType, NodeFacts
      <3>3. CASE b # a
        BY <2>9, <3>1, <3>2, <3>3
      <3>4. CASE b = a /\ permanent[b].epoch_id = keyset.epoch_id /\ i <= Len(permanent[b].keyshares)
        <4>1. l.epoch_id = keyset.epoch_id
          BY <1>3, <2>4, <2>6, <3>2, <3>4
        <4>2. Len(permanent[a].keyshares) <= Len(loaded) /\ Len(loaded) \in Nat
              /\ Len(permanent[a].keyshares) \in Nat
          BY <1>2, <1>3, <2>2, <3>4, <4>1, NodeFacts DEF PermanentShares
        <4>3. QED
          BY <2>5, <2>9, <3>4, <4>1, <4>2
      <3>5. QED
        BY <3>1, <3>3, <3>4
    <2>14. LoadingInv'
      <3>1. \A b \in Accounts : loading'[b].step # "idle" =>
               /\ loading[b].step # "idle"
               /\ loading'[b].epoch_id = loading[b].epoch_id
               /\ loading'[b].domains = loading[b].domains
        BY <1>1, <2>7, <2>9
      <3>2. QED
        BY <1>2, <2>11, <3>1 DEF KeysetHeld, LoadingInv
    <2>15. EventHeld' /\ SentHeld' /\ TasksHeld' /\ RunsInForce'
      BY <1>1, <1>2, <1>4, NodeStepEvent, NodeStepSent, NodeStepTasks, NodeStepRuns
    <2>16. OneShareEach'
      BY <1>1, <1>2 DEF OneShareEach
    <2>17. QED
      BY <2>10, <2>12, <2>13, <2>14, <2>15, <2>16 DEF KeyshareInv, KeysetHeld, VotesHeld
  <1>7. QED
    BY <1>5, <1>6 DEF store_permanent
-----------------------------------------------------------------------------
\* The nodes of the initial participants hold the initial keys.
LEMMA InitKeyshareInv == NodesInit => ContractInv /\ KeyshareInv
  <1> SUFFICES ASSUME NodesInit PROVE ContractInv /\ KeyshareInv
    OBVIOUS
  <1> DEFINE shares == [i \in 1 .. Len(InitialDomains) |->
                           [id |-> KeyId(0, keyset.domains[i]),
                            key |-> keyset.domains[i].key, run |-> 0]]
             first == [epoch_id |-> 0, keyshares |-> shares]
  <1>1. KeyInv /\ TeeTypeOK /\ RegistryInv
    BY InitKeyInv, InitialAssumption DEF NodesInit, Init, RegistryInv
  <1>2. /\ keyset.epoch_id = 0 /\ Len(keyset.domains) = Len(InitialDomains)
        /\ parameters = InitialParameters /\ phase = "Running" /\ key_event = NoKeyEvent
    BY InitialAssumption DEF NodesInit, Init
  <1>3. \A i \in 1 .. Len(InitialDomains) :
           /\ KeyId(0, keyset.domains[i]) \in KeyEventIds
           /\ keyset.domains[i].key \in PublicKeys
    BY <1>1, <1>2, KeysetType
  <1>4. Len(InitialDomains) \in Nat /\ (Len(InitialDomains) = 0 => InitialDomains = <<>>)
    BY InitialAssumption
  <1>5. /\ shares \in Seq(Shares) /\ Len(shares) = Len(InitialDomains)
        /\ \A i \in 1 .. Len(InitialDomains) : check_consistency(shares[i], 0, keyset.domains[i])
    <2>1. \A i \in 1 .. Len(InitialDomains) :
             /\ shares[i] \in Shares
             /\ shares[i].id = KeyId(0, keyset.domains[i])
             /\ shares[i].key = keyset.domains[i].key
      BY <1>3 DEF Shares
    <2>2. shares \in Seq(Shares) /\ Len(shares) = Len(InitialDomains)
      <3>1. \A m \in Nat : \A f \in [1 .. m -> Shares] : f \in Seq(Shares) /\ Len(f) = m
        OBVIOUS
      <3>2. shares \in [1 .. Len(InitialDomains) -> Shares]
        BY <2>1
      <3> HIDE DEF shares
      <3>3. QED
        BY <1>4, <3>1, <3>2
    <2>3. QED
      BY <2>1, <2>2 DEF check_consistency
  <1>6. /\ NoPermanent \in [epoch_id : Int, keyshares : Seq(Shares)]
        /\ NoPermanent.epoch_id = -1 /\ NotLoading \in Loads /\ NotLoading.step = "idle"
    BY DEF NoPermanent, NotLoading, Loads
  <1>7. /\ permanent = [a \in Accounts |->
              IF a \in Members(InitialParameters) /\ InitialDomains # <<>> THEN first
              ELSE NoPermanent]
        /\ temporary = [a \in Accounts |-> {}] /\ loading = [a \in Accounts |-> NotLoading]
        /\ tasks = [a \in Accounts |-> {}] /\ runs = <<>> /\ votes_sent = {}
    BY DEF NodesInit
  <1>8. /\ first.epoch_id = 0 /\ first.keyshares = shares
        /\ first \in [epoch_id : Int, keyshares : Seq(Shares)]
    BY <1>5
  <1> HIDE DEF first, shares
  <1>9. NodeTypeOK
    <2>1. permanent \in [Accounts -> [epoch_id : Int, keyshares : Seq(Shares)]]
      BY <1>6, <1>7, <1>8
    <2>2. \A a \in Accounts : permanent[a].epoch_id = -1 => permanent[a] = NoPermanent
      BY <1>7, <1>8
    <2>3. /\ temporary \in [Accounts -> SUBSET Shares] /\ loading \in [Accounts -> Loads]
          /\ tasks \in [Accounts -> SUBSET Tasks]
      BY <1>6, <1>7
    <2>4. runs \in Seq(Runs)
      BY <1>7
    <2>5. QED
      BY <1>7, <2>1, <2>2, <2>3, <2>4 DEF NodeTypeOK
  <1>10. OneShareEach /\ EventHeld /\ VotesHeld
    BY <1>2, <1>7 DEF OneShareEach, EventHeld, AttemptBelow, CountedHeld, ResharedHeld, VotesHeld,
                      SentHeld, TasksHeld, RunsInForce, NoKeyEvent
  <1>11. LoadingInv
    BY <1>6, <1>7 DEF LoadingInv
  <1>12. Members(parameters) \subseteq Accounts
    BY <1>1, KeysetType
  <1>13. PermanentInv
    <2>1. \A a \in Accounts : permanent[a].epoch_id <= keyset.epoch_id
      BY <1>2, <1>6, <1>7, <1>8
    <2>2. ASSUME NEW a \in Members(parameters), permanent[a].epoch_id = keyset.epoch_id
          PROVE  IsPrefixOfKeyset(permanent[a].keyshares, keyset.epoch_id, keyset.domains)
      <3>1. permanent[a].keyshares = shares
        BY <1>2, <1>6, <1>7, <1>8, <1>12, <2>2
      <3>2. QED
        BY <1>2, <1>4, <1>5, <3>1 DEF IsPrefixOfKeyset
    <2>3. QED
      BY <2>1, <2>2 DEF PermanentInv
  <1>14. KeysHeld
    <2> SUFFICES ASSUME NEW a \in Members(parameters), NEW i \in 1 .. Len(keyset.domains)
                 PROVE  permanent[a].epoch_id = keyset.epoch_id /\ i <= Len(permanent[a].keyshares)
      BY DEF KeysHeld
    <2>1. InitialDomains # <<>>
      BY <1>2, <1>4
    <2>2. permanent[a] = first
      BY <1>2, <1>7, <1>12, <2>1
    <2>3. QED
      BY <1>2, <1>4, <1>5, <1>8, <2>2
  <1>15. QED
    BY <1>1, <1>9, <1>10, <1>11, <1>13, <1>14 DEF ContractInv, KeyshareInv, KeysetHeld

\* Every step of contract and nodes keeps the invariant.
LEMMA NextKeyshareInv ==
  ASSUME ContractInv, KeyshareInv, [NodesNext]_systemVars
  PROVE  ContractInv' /\ KeyshareInv'
  <1>1. KeyInv
    BY DEF ContractInv
  <1>2. CASE UNCHANGED nodeVars /\ (OperatorNext \/ \E v \in votes_sent : ContractCall(v))
    BY <1>2, CallKeepsKeyshares
  <1>3. ASSUME UNCHANGED vars PROVE ContractInv'
    <2>1. UNCHANGED <<protocolVars, teeVars, height>>
      BY <1>3 DEF vars
    <2>2. KeyInv'
      BY <1>1, <2>1 DEF protocolVars, KeyInv, ProtocolTypeOK, KeysetMatchesDomains, CancelledAbove
    <2>3. TeeTypeOK' /\ RegistryInv'
      BY <2>1 DEF protocolVars, teeVars, ContractInv, TeeTypeOK, RegistryInv
    <2>4. QED
      BY <2>2, <2>3 DEF ContractInv
  <1>4. ASSUME NEW a \in Accounts, lead(a) \/ leader_retries(a)
        PROVE  UNCHANGED vars /\ KeyshareInv'
    BY <1>1, <1>4, LeadKeeps DEF lead, leader_retries
  <1>5. ASSUME NEW a \in Accounts, NEW key \in PublicKeys, new_channel_for_task(a, key)
        PROVE  UNCHANGED vars /\ KeyshareInv'
    BY <1>1, <1>5, NewChannelKeeps DEF new_channel_for_task
  <1>6. ASSUME NEW a \in Accounts, NEW r \in 1 .. Len(runs), receive_channel(a, r)
        PROVE  UNCHANGED vars /\ KeyshareInv'
    BY <1>1, <1>6, ReceiveKeeps DEF receive_channel
  <1>7. ASSUME NEW a \in Accounts, NEW t \in tasks[a],
               \/ start_key(a, t) \/ commit_keyshare(a, t) \/ send_vote(a, t)
               \/ send_abort(a, t) \/ expire(a, t)
        PROVE  UNCHANGED vars /\ KeyshareInv'
    <2>1. UNCHANGED vars
      BY <1>7 DEF start_key, commit_keyshare, send_vote, send_abort, expire
    <2>2. QED
      BY <1>1, <1>7, <2>1, StartKeyKeeps, CommitKeeps, SendKeeps, ExpireKeeps
  <1>8. ASSUME NEW a \in Accounts,
               \/ begin_load(a) \/ store_permanent(a)
               \/ delete_keyshares_prior_to_epoch_id(a) \/ switch_job(a)
        PROVE  UNCHANGED vars /\ KeyshareInv'
    <2>1. UNCHANGED vars
      BY <1>8 DEF begin_load, store_permanent, delete_keyshares_prior_to_epoch_id, switch_job
    <2>2. QED
      BY <1>1, <1>8, <2>1, BeginLoadKeeps, StoreKeeps, DeleteKeeps, SwitchJobKeeps
  <1>9. CASE UNCHANGED systemVars
    <2>1. UNCHANGED vars /\ UNCHANGED nodeVars
      BY <1>9 DEF systemVars
    <2>2. NodeTypeOK' /\ LoadsKept /\ TasksKept
      BY <2>1 DEF nodeVars, KeyshareInv, NodeTypeOK, LoadsKept, TasksKept
    <2>3. UNCHANGED <<permanent, temporary, runs, votes_sent>>
      BY <2>1 DEF nodeVars
    <2>4. KeyshareInv'
      BY <1>1, <2>1, <2>2, <2>3, QuietStep
    <2>5. QED
      BY <1>3, <2>1, <2>4
  <1>10. CASE NodesNext
    BY <1>2, <1>3, <1>4, <1>5, <1>6, <1>7, <1>8, <1>10 DEF NodesNext
  <1>11. QED
    BY <1>9, <1>10

\* Therefore it always holds.
LEMMA AlwaysKeyshareInv == NodesSpec => [](ContractInv /\ KeyshareInv)
  <1>1. ContractInv /\ KeyshareInv /\ [NodesNext]_systemVars => (ContractInv /\ KeyshareInv)'
    BY NextKeyshareInv
  <1>2. QED
    BY <1>1, InitKeyshareInv, PTL DEF NodesSpec

\* No participant is ever locked out of the keyset: however votes are delayed or
\* repeated, attempts fail, nodes crash between writing a share, voting and
\* promoting, and resharings begin and are cancelled meanwhile, each
\* participant's disk has its share of each key (keyshare.rs, key_events.rs).
THEOREM LoadableTheorem == NodesSpec => []KeysetLoadable
  <1>1. ContractInv /\ KeyshareInv => KeysetLoadable
    BY HeldIsLoadable DEF ContractInv, KeyshareInv, KeysetHeld
  <1>2. QED
    BY <1>1, AlwaysKeyshareInv, PTL
-----------------------------------------------------------------------------
(* The shares of a key are of one run.  A run has the id of the attempt it *)
(* was opened for, and no two runs have the same: a leader that asked for  *)
(* an attempt opens one channel for it, and nobody else leads at that      *)
(* epoch and domain.  Ids come back when a cancelled epoch is forgotten    *)
(* (RemembersCancelled).                                                   *)

\* Ids that are no longer given out: of an attempt before the next one (n = 0),
\* or the next one, too (n = 1).
PastIds(n) ==
    {id \in KeyEventIds :
        /\ id.epoch_id < prospective_epoch_id
        /\ id.epoch_id = keyset.epoch_id => id.domain_id < next_domain_id
        /\ (phase # "Running" /\ id.epoch_id = key_event.epoch_id) =>
              /\ id.domain_id <= key_event.domain_id
              /\ id.domain_id = key_event.domain_id =>
                    id.attempt_id < key_event.next_attempt_id + n}

\* Ids of epochs in which nobody but `a` leads, as far as the epoch is known.
LedIds(a) ==
    {id \in KeyEventIds :
        /\ id.epoch_id < prospective_epoch_id
        /\ id.epoch_id = keyset.epoch_id => a = Leader(parameters)
        /\ (phase # "Running" /\ id.epoch_id = key_event.epoch_id) =>
              a = Leader(key_event.parameters)}

CancelledRunning == cancelled_epoch # NoEpoch => phase = "Running" /\ domains # <<>>

\* Keys are generated for domains that the initial keyset does not have.
DomainsNew ==
    /\ next_domain_id >= InitialNextDomainId
    /\ phase = "Initializing" => key_event.domain_id >= InitialNextDomainId

RunIds ==
    \A r \in 1 .. Len(runs) :
        /\ runs[r].id \in PastIds(0)
        /\ runs[r].id.epoch_id = 0 => runs[r].id.domain_id >= InitialNextDomainId
        /\ \A q \in 1 .. Len(runs) : runs[q].id = runs[r].id => q = r

\* A leader that waits for its attempt has opened no channel for it yet.
LeadingIds ==
    /\ leading \in [Accounts -> KeyEventIds \cup {NotLeading}]
    /\ \A a \in Accounts : leading[a] # NotLeading =>
          /\ leading[a] \in PastIds(1) /\ leading[a] \in LedIds(a)
          /\ \A r \in 1 .. Len(runs) : runs[r].id # leading[a]

\* Shares of the initial keyset, and shares that the runs gave.
RunShares ==
    {s \in Shares :
        \/ s.run = 0 /\ s.id.epoch_id = 0 /\ s.id.domain_id < InitialNextDomainId
        \/ s.run \in 1 .. Len(runs) /\ runs[s.run].id = s.id}

SharesOfRuns ==
    \A a \in Accounts : /\ temporary[a] \subseteq RunShares
                        /\ \A i \in 1 .. Len(permanent[a].keyshares) :
                              permanent[a].keyshares[i] \in RunShares

RunInv == CancelledRunning /\ DomainsNew /\ RunIds /\ LeadingIds /\ SharesOfRuns

\* What is past stays past.
IdsKept ==
    /\ \A n \in {0, 1} : PastIds(n) \subseteq PastIds(n)'
    /\ \A a \in Accounts : LedIds(a) \subseteq LedIds(a)'

\* Every call of the contract moves epochs, domains and attempts on in one of
\* the ways of IdStep.
LEMMA CallIdStep ==
  ASSUME ContractInv, NodeTypeOK, OperatorNext \/ \E v \in votes_sent : ContractCall(v)
  PROVE  IdStep
  <1>1. CASE OperatorNext
    <2>1. [Next]_vars
      BY <1>1 DEF Next
    <2>2. QED
      BY <2>1, NextIdStep DEF ContractInv
  <1>2. ASSUME NEW v \in votes_sent, ContractCall(v)
        PROVE  IdStep
    <2>1. KeyInv /\ RegistryInv /\ v.signer \in Accounts
      BY DEF NodeTypeOK, ContractInv
    <2>2. CASE start_keygen_instance(v.signer, v.id) \/ start_reshare_instance(v.signer, v.id)
      <3>1. /\ phase # "Running"
            /\ key_event' = start(key_event, height, key_event_timeout_blocks)
            /\ UNCHANGED <<phase, keyset, parameters, cancelled_epoch, domains, next_domain_id>>
        BY <2>2 DEF start_keygen_instance, start_reshare_instance
      <3>2. EventGoesOn
        BY <2>1, <3>1, KeyEventInProgress, StartFields DEF EventGoesOn
      <3>3. QED
        BY <3>2 DEF IdStep
    <2>3. CASE vote_abort_key_event_instance(v.signer, v.id)
      <3>1. /\ phase # "Running" /\ key_event' = WithoutInstance(key_event)
            /\ UNCHANGED <<phase, keyset, parameters, cancelled_epoch, domains, next_domain_id>>
        BY <2>3 DEF vote_abort_key_event_instance
      <3>2. EventGoesOn
        BY <2>1, <3>1, KeyEventInProgress, AbortFields DEF EventGoesOn, StartsAttempt
      <3>3. QED
        BY <3>2 DEF IdStep
    <2>4. CASE vote_pk(v.signer, v.id, v.key)
      BY <2>1, <2>4, VotePkIdStep
    <2>5. CASE vote_reshared(v.signer, v.id)
      BY <2>1, <2>5, VoteResharedIdStep
    <2>6. QED
      BY <1>2, <2>2, <2>3, <2>4, <2>5 DEF ContractCall
  <1>3. QED
    BY <1>1, <1>2

\* What a new key event starts from (key_event.rs KeyEvent::new).
LEMMA NewEventFields ==
  ASSUME NEW e, NEW d, NEW p
  PROVE  /\ KeyEventNew(e, d, p).epoch_id = e /\ KeyEventNew(e, d, p).domain_id = d
         /\ KeyEventNew(e, d, p).parameters = p
  BY DEF KeyEventNew

\* Cancelled epochs and domain ids, under a call (running.rs, resharing.rs,
\* domain.rs).
LEMMA IdStepKeepsDomains ==
  ASSUME KeyInv, RegistryInv, CancelledRunning, DomainsNew, IdStep
  PROVE  CancelledRunning' /\ DomainsNew'
  <1>1. /\ next_domain_id \in Nat
        /\ phase # "Running" => key_event.domain_id \in Nat
        /\ InitialNextDomainId \in Nat
    BY EpochsInOrder, InitialAssumption
  <1>2. CASE EventGoesOn
    BY <1>1, <1>2 DEF EventGoesOn, CancelledRunning, DomainsNew
  <1>3. CASE NextDomain
    <2>1. PICK d \in Nat : /\ key_event.domain_id < d
                           /\ key_event' = KeyEventNew(key_event.epoch_id, d, key_event.parameters)
      BY <1>3 DEF NextDomain
    <2>2. key_event'.domain_id = d
      BY <2>1, NewEventFields
    <2>3. QED
      BY <1>1, <1>3, <2>1, <2>2 DEF NextDomain, CancelledRunning, DomainsNew
  <1>4. CASE StartsInitializing
    <2>1. key_event'.domain_id = next_domain_id
      BY <1>4, NewEventFields DEF StartsInitializing
    <2>2. QED
      BY <1>1, <1>4, <2>1 DEF StartsInitializing, CancelledRunning, DomainsNew
  <1>5. CASE CancelsResharing
    <2>1. domains # <<>>
      BY <1>5, KeyEventInProgress DEF CancelsResharing
    <2>2. QED
      BY <1>5, <2>1 DEF CancelsResharing, CancelledRunning, DomainsNew
  <1>6. CASE StartsResharing \/ EndsResharing \/ SkipsResharing \/ EndsInitializing
    BY <1>6 DEF StartsResharing, EndsResharing, SkipsResharing, EndsInitializing,
                CancelledRunning, DomainsNew
  <1>7. QED
    BY <1>2, <1>3, <1>4, <1>5, <1>6 DEF IdStep

\* Ids that were given out are not given out again, as long as cancelled epochs
\* are remembered, and an epoch keeps its leader.
LEMMA IdStepKeepsIds ==
  ASSUME KeyInv, RegistryInv, CancelledRunning, RemembersCancelled, IdStep
  PROVE  IdsKept
  <1>1. SUFFICES ASSUME NEW n \in {0, 1}, NEW a, NEW id \in KeyEventIds
                 PROVE  /\ id \in PastIds(n) => id \in PastIds(n)'
                        /\ id \in LedIds(a) => id \in LedIds(a)'
    <2>1. \A n \in {0, 1} : PastIds(n) \subseteq KeyEventIds
      BY DEF PastIds
    <2>2. \A a : LedIds(a) \subseteq KeyEventIds
      BY DEF LedIds
    <2>3. \A n \in {0, 1} : PastIds(n) \subseteq PastIds(n)'
      BY <1>1, <2>1
    <2>4. \A a : LedIds(a) \subseteq LedIds(a)'
      BY <1>1, <2>2
    <2>5. QED
      BY <2>3, <2>4 DEF IdsKept
  <1>2. id.epoch_id \in Nat /\ id.domain_id \in Nat /\ id.attempt_id \in Nat /\ n \in Nat
    BY DEF KeyEventIds
  <1>3. /\ keyset.epoch_id \in Nat /\ next_domain_id \in Nat
        /\ prospective_epoch_id \in Nat /\ prospective_epoch_id > keyset.epoch_id
        /\ phase # "Running" => /\ key_event.epoch_id \in Nat /\ key_event.domain_id \in Nat
                                /\ key_event.next_attempt_id \in Nat
                                /\ key_event.domain_id < next_domain_id
        /\ phase = "Initializing" =>
               key_event.epoch_id = keyset.epoch_id /\ key_event.parameters = parameters
        /\ phase = "Resharing" => key_event.epoch_id > keyset.epoch_id
    BY EpochsInOrder
  <1>4. cancelled_epoch = NoEpoch /\ phase # "Resharing" => prospective_epoch_id = keyset.epoch_id + 1
    BY DEF prospective_epoch_id, RunningProspectiveEpoch
  <1>5. phase = "Resharing" => prospective_epoch_id = key_event.epoch_id + 1
    BY DEF prospective_epoch_id
  <1>6. CASE EventGoesOn
    <2>1. prospective_epoch_id' = prospective_epoch_id
      BY <1>6 DEF EventGoesOn, prospective_epoch_id, RunningProspectiveEpoch
    <2>2. phase # "Running" =>
             /\ key_event'.epoch_id = key_event.epoch_id
             /\ key_event'.domain_id = key_event.domain_id
             /\ key_event'.parameters = key_event.parameters
             /\ \/ key_event'.next_attempt_id = key_event.next_attempt_id
                \/ key_event'.next_attempt_id = key_event.next_attempt_id + 1
      BY <1>6 DEF EventGoesOn
    <2>3. UNCHANGED <<phase, keyset, parameters, next_domain_id>>
      BY <1>6 DEF EventGoesOn
    <2>4. QED
      BY <1>2, <1>3, <2>1, <2>2, <2>3 DEF PastIds, LedIds
  <1>7. CASE NextDomain
    <2>1. PICK d \in Nat : /\ key_event.domain_id < d
                           /\ key_event' = KeyEventNew(key_event.epoch_id, d, key_event.parameters)
      BY <1>7 DEF NextDomain
    <2>2. /\ key_event'.epoch_id = key_event.epoch_id /\ key_event'.domain_id = d
          /\ key_event'.parameters = key_event.parameters
      BY <2>1, NewEventFields
    <2>3. /\ phase # "Running" /\ phase' = phase /\ keyset'.epoch_id = keyset.epoch_id
          /\ UNCHANGED <<parameters, next_domain_id>>
      BY <1>7 DEF NextDomain
    <2>4. prospective_epoch_id' = prospective_epoch_id
      BY <1>7, <2>2 DEF NextDomain, prospective_epoch_id, RunningProspectiveEpoch
    <2>5. QED
      BY <1>2, <1>3, <2>1, <2>2, <2>3, <2>4 DEF PastIds, LedIds
  <1>8. CASE StartsResharing
    <2>1. PICK d \in Nat : \E p : key_event' = KeyEventNew(prospective_epoch_id, d, p)
      BY <1>8 DEF StartsResharing
    <2>2. key_event'.epoch_id = prospective_epoch_id
      BY <2>1, NewEventFields
    <2>3. prospective_epoch_id' = prospective_epoch_id + 1
      BY <1>8, <2>2 DEF StartsResharing, prospective_epoch_id
    <2>4. UNCHANGED <<keyset, parameters, next_domain_id>>
      BY <1>8 DEF StartsResharing
    <2>5. QED
      BY <1>2, <1>3, <2>2, <2>3, <2>4 DEF PastIds, LedIds
  <1>9. CASE StartsInitializing
    <2>1. /\ cancelled_epoch = NoEpoch /\ phase = "Running" /\ phase' = "Initializing"
          /\ cancelled_epoch' = NoEpoch /\ UNCHANGED <<keyset, parameters>>
          /\ next_domain_id' > next_domain_id /\ next_domain_id' \in Nat
          /\ key_event' = KeyEventNew(keyset.epoch_id, next_domain_id, parameters)
      BY <1>9 DEF StartsInitializing, RemembersCancelled
    <2>2. prospective_epoch_id' = prospective_epoch_id
      BY <2>1 DEF prospective_epoch_id, RunningProspectiveEpoch
    <2>3. /\ key_event'.epoch_id = keyset.epoch_id /\ key_event'.domain_id = next_domain_id
          /\ key_event'.parameters = parameters
      BY <2>1, NewEventFields
    <2>4. QED
      BY <1>2, <1>3, <2>1, <2>2, <2>3 DEF PastIds, LedIds
  <1>10. CASE EndsResharing
    <2>1. prospective_epoch_id' = prospective_epoch_id
      BY <1>5, <1>10 DEF EndsResharing, prospective_epoch_id, RunningProspectiveEpoch
    <2>2. /\ phase = "Resharing" /\ phase' = "Running" /\ next_domain_id' = next_domain_id
          /\ keyset'.epoch_id = key_event.epoch_id /\ parameters' = key_event.parameters
      BY <1>10 DEF EndsResharing
    <2>3. QED
      BY <1>2, <1>3, <2>1, <2>2 DEF PastIds, LedIds
  <1>11. CASE CancelsResharing
    <2>1. key_event.epoch_id # NoEpoch
      BY <1>3, <1>11 DEF CancelsResharing, NoEpoch
    <2>2. prospective_epoch_id' = prospective_epoch_id
      BY <1>5, <1>11, <2>1 DEF CancelsResharing, prospective_epoch_id, RunningProspectiveEpoch
    <2>3. phase' = "Running" /\ UNCHANGED <<keyset, parameters, next_domain_id>>
      BY <1>11 DEF CancelsResharing
    <2>4. QED
      BY <1>2, <1>3, <2>2, <2>3 DEF PastIds, LedIds
  <1>12. CASE SkipsResharing
    <2>1. prospective_epoch_id = keyset.epoch_id + 1
      BY <1>4, <1>12 DEF SkipsResharing, CancelledRunning
    <2>2. prospective_epoch_id' = keyset.epoch_id + 2
      BY <1>3, <1>12 DEF SkipsResharing, prospective_epoch_id, RunningProspectiveEpoch
    <2>3. phase' = "Running" /\ keyset'.epoch_id = keyset.epoch_id + 1
      BY <1>12 DEF SkipsResharing
    <2>4. QED
      BY <1>2, <1>3, <2>1, <2>2, <2>3 DEF PastIds, LedIds
  <1>13. CASE EndsInitializing
    <2>1. prospective_epoch_id' = prospective_epoch_id
      BY <1>13 DEF EndsInitializing, CancelledRunning, prospective_epoch_id, RunningProspectiveEpoch
    <2>2. /\ phase' = "Running" /\ keyset'.epoch_id = keyset.epoch_id
          /\ UNCHANGED <<parameters, next_domain_id>>
      BY <1>13 DEF EndsInitializing
    <2>3. QED
      BY <1>2, <1>3, <2>1, <2>2 DEF PastIds, LedIds
  <1>14. QED
    BY <1>6, <1>7, <1>8, <1>9, <1>10, <1>11, <1>12, <1>13 DEF IdStep

\* Steps of the nodes leave the contract alone.
LEMMA SameContractIds ==
  ASSUME KeyInv, RegistryInv, CancelledRunning, DomainsNew, UNCHANGED vars
  PROVE  IdsKept /\ CancelledRunning' /\ DomainsNew'
  <1>1. EventGoesOn /\ phase' = phase
    BY DEF EventGoesOn, vars, protocolVars
  <1>2. RemembersCancelled
    BY <1>1 DEF RemembersCancelled, CancelledRunning
  <1>3. QED
    BY <1>1, <1>2, IdStepKeepsIds, IdStepKeepsDomains DEF IdStep

\* A run's id and a share of it stay what they are.
LEMMA RunsKeptKeepsShares ==
  ASSUME NodeTypeOK, RunsKept
  PROVE  RunShares \subseteq RunShares'
  <1>1. Len(runs) \in Nat /\ Len(runs') \in Nat /\ Len(runs) <= Len(runs')
    BY NodeFacts DEF RunsKept
  <1>2. \A r \in 1 .. Len(runs) : r \in 1 .. Len(runs') /\ runs'[r].id = runs[r].id
    BY <1>1 DEF RunsKept
  <1>3. QED
    BY <1>2 DEF RunShares

\* A step that opens no channel and asks for no attempt.
LEMMA NoChannelStep ==
  ASSUME NodeTypeOK, RunInv, IdsKept, CancelledRunning', DomainsNew',
         RunsKept, Len(runs') = Len(runs),
         leading' \in [Accounts -> KeyEventIds \cup {NotLeading}],
         \A a \in Accounts : leading'[a] \in {leading[a], NotLeading},
         \A a \in Accounts :
            /\ temporary'[a] \subseteq RunShares
            /\ \A i \in 1 .. Len(permanent'[a].keyshares) : permanent'[a].keyshares[i] \in RunShares
  PROVE  RunInv'
  <1>1. \A r \in 1 .. Len(runs) : runs'[r].id = runs[r].id
    BY DEF RunsKept
  <1>2. PastIds(0) \subseteq PastIds(0)' /\ PastIds(1) \subseteq PastIds(1)'
    BY DEF IdsKept
  <1>3. RunIds'
    BY <1>1, <1>2 DEF RunInv, RunIds
  <1>4. LeadingIds'
    <2> SUFFICES ASSUME NEW a \in Accounts, leading'[a] # NotLeading
                 PROVE  /\ leading'[a] \in PastIds(1)' /\ leading'[a] \in LedIds(a)'
                        /\ \A r \in 1 .. Len(runs') : runs'[r].id # leading'[a]
      BY DEF LeadingIds
    <2>1. leading'[a] = leading[a]
      OBVIOUS
    <2>2. /\ leading[a] \in PastIds(1) /\ leading[a] \in LedIds(a)
          /\ \A r \in 1 .. Len(runs) : runs[r].id # leading[a]
      BY <2>1 DEF RunInv, LeadingIds
    <2>3. LedIds(a) \subseteq LedIds(a)'
      BY DEF IdsKept
    <2>4. QED
      BY <1>1, <1>2, <2>1, <2>2, <2>3
  <1>5. SharesOfRuns'
    BY RunsKeptKeepsShares DEF SharesOfRuns
  <1>6. QED
    BY <1>3, <1>4, <1>5 DEF RunInv

\* Steps of the nodes that write no share and leave channels and leaders alone.
LEMMA NoShareStep ==
  ASSUME NodeTypeOK, RunInv, IdsKept, CancelledRunning', DomainsNew',
         RunsKept, Len(runs') = Len(runs), UNCHANGED <<permanent, temporary, leading>>
  PROVE  RunInv'
  <1>1. /\ leading' \in [Accounts -> KeyEventIds \cup {NotLeading}]
        /\ \A a \in Accounts : leading'[a] \in {leading[a], NotLeading}
    BY DEF RunInv, LeadingIds
  <1>2. \A a \in Accounts :
            /\ temporary'[a] \subseteq RunShares
            /\ \A i \in 1 .. Len(permanent'[a].keyshares) : permanent'[a].keyshares[i] \in RunShares
    BY DEF RunInv, SharesOfRuns
  <1>3. QED
    BY <1>1, <1>2, NoChannelStep

\* The leader asks for the next attempt, which no run is of.
LEMMA LeadKeepsRuns ==
  ASSUME KeyInv, RegistryInv, NodeTypeOK, RunInv, IdsKept, CancelledRunning', DomainsNew',
         NEW a \in Accounts, lead(a)
  PROVE  RunInv'
  <1> DEFINE id == SeenId
  <1>1. /\ phase \in {"Initializing", "Resharing"} /\ a = Leader(key_event.parameters)
        /\ ~ Started /\ leading' = [leading EXCEPT ![a] = id]
        /\ UNCHANGED <<permanent, temporary, runs>>
    BY DEF lead
  <1>2. /\ id \in KeyEventIds /\ id.epoch_id = key_event.epoch_id
        /\ id.domain_id = key_event.domain_id
    BY <1>1, SeenIdType
  <1>3. id.attempt_id = key_event.next_attempt_id
    BY <1>1 DEF SeenId
  <1> HIDE DEF id
  <1>4. /\ keyset.epoch_id \in Nat /\ next_domain_id \in Nat
        /\ prospective_epoch_id \in Nat /\ prospective_epoch_id > keyset.epoch_id
        /\ key_event.epoch_id \in Nat /\ key_event.domain_id \in Nat
        /\ key_event.next_attempt_id \in Nat /\ key_event.domain_id < next_domain_id
        /\ phase = "Initializing" =>
               key_event.epoch_id = keyset.epoch_id /\ key_event.parameters = parameters
        /\ phase = "Resharing" => key_event.epoch_id > keyset.epoch_id
    BY <1>1, EpochsInOrder
  <1>5. key_event.epoch_id < prospective_epoch_id
    BY <1>1, <1>4 DEF prospective_epoch_id
  <1>6. id \in PastIds(1)
    BY <1>1, <1>2, <1>3, <1>4, <1>5 DEF PastIds
  <1>7. id \in LedIds(a)
    BY <1>1, <1>2, <1>4, <1>5 DEF LedIds
  <1>8. id \notin PastIds(0)
    BY <1>1, <1>2, <1>3, <1>4 DEF PastIds
  <1>9. PastIds(0) \subseteq PastIds(0)' /\ PastIds(1) \subseteq PastIds(1)'
    BY DEF IdsKept
  <1>10. RunIds /\ LeadingIds /\ SharesOfRuns
    BY DEF RunInv
  <1>11. RunIds' /\ SharesOfRuns'
    BY <1>1, <1>9, <1>10 DEF RunIds, SharesOfRuns, RunShares
  <1>12. LeadingIds'
    <2>1. /\ leading' \in [Accounts -> KeyEventIds \cup {NotLeading}]
          /\ \A b \in Accounts : leading'[b] = IF b = a THEN id ELSE leading[b]
      BY <1>1, <1>2, <1>10 DEF LeadingIds
    <2> SUFFICES ASSUME NEW b \in Accounts, leading'[b] # NotLeading
                 PROVE  /\ leading'[b] \in PastIds(1) /\ leading'[b] \in LedIds(b)
                        /\ \A r \in 1 .. Len(runs) : runs[r].id # leading'[b]
      <3>1. \A b \in Accounts : LedIds(b) \subseteq LedIds(b)'
        BY DEF IdsKept
      <3>2. QED
        BY <1>1, <1>9, <2>1, <3>1 DEF LeadingIds
    <2>2. CASE b = a
      BY <1>6, <1>7, <1>8, <1>10, <2>1, <2>2 DEF RunIds
    <2>3. CASE b # a
      BY <1>10, <2>1, <2>3 DEF LeadingIds
    <2>4. QED
      BY <2>2, <2>3
  <1>13. QED
    BY <1>11, <1>12 DEF RunInv

\* The leader opens the one channel for the attempt it asked for.
LEMMA NewChannelKeepsRuns ==
  ASSUME KeyInv, RegistryInv, NodeTypeOK, AttemptBelow, RunInv, IdsKept, CancelledRunning',
         DomainsNew', NEW a \in Accounts, NEW key, new_channel_for_task(a, key)
  PROVE  RunInv'
  <1> DEFINE id == SeenId
             n == [id |-> SeenId, resharing |-> phase = "Resharing", key |-> key,
                   members |-> Members(key_event.parameters), received |-> {}, joined |-> {}]
  <1>1. /\ phase \in {"Initializing", "Resharing"} /\ Started /\ leading[a] = id
        /\ runs' = Append(runs, n) /\ leading' = [leading EXCEPT ![a] = NotLeading]
        /\ UNCHANGED <<permanent, temporary>>
    BY DEF new_channel_for_task
  <1>2. /\ id \in KeyEventIds /\ id.epoch_id = key_event.epoch_id
        /\ id.domain_id = key_event.domain_id
    BY <1>1, SeenIdType
  <1>3. id.attempt_id < key_event.next_attempt_id
    <2>1. key_event.instance # NoInstance
      BY <1>1 DEF Started, active
    <2>2. QED
      BY <1>1, <2>1 DEF SeenId, AttemptBelow
  <1>4. n.id = id
    OBVIOUS
  <1> HIDE DEF id, n
  <1>5. RunIds /\ LeadingIds /\ SharesOfRuns /\ DomainsNew
    BY DEF RunInv
  <1>6. id # NotLeading
    BY <1>2 DEF KeyEventIds, NotLeading
  <1>7. /\ id \in PastIds(1) /\ id \in LedIds(a)
        /\ \A r \in 1 .. Len(runs) : runs[r].id # id
    BY <1>1, <1>5, <1>6 DEF LeadingIds
  <1>8. /\ keyset.epoch_id \in Nat /\ key_event.next_attempt_id \in Nat
        /\ phase = "Resharing" => key_event.epoch_id > keyset.epoch_id
    BY <1>1, EpochsInOrder
  <1>9. id \in PastIds(0)
    BY <1>2, <1>3, <1>7, <1>8 DEF PastIds
  <1>10. id.epoch_id = 0 => id.domain_id >= InitialNextDomainId
    BY <1>1, <1>2, <1>5, <1>8 DEF DomainsNew
  <1>11. \A b \in Accounts : leading[b] = id => b = a
    <2> SUFFICES ASSUME NEW b \in Accounts, leading[b] = id
                 PROVE  b = a
      OBVIOUS
    <2>1. id \in LedIds(b)
      BY <1>5, <1>6 DEF LeadingIds
    <2>2. QED
      BY <1>1, <1>2, <1>7, <2>1 DEF LedIds
  <1>12. runs \in Seq(Runs) /\ Len(runs) \in Nat
    BY DEF NodeTypeOK
  <1>13. /\ Len(runs') = Len(runs) + 1
         /\ \A r \in 1 .. Len(runs) : runs'[r] = runs[r]
         /\ runs'[Len(runs) + 1] = n
    BY <1>1, <1>12
  <1>14. PastIds(0) \subseteq PastIds(0)' /\ PastIds(1) \subseteq PastIds(1)'
    BY DEF IdsKept
  <1>15. RunIds'
    <2> SUFFICES ASSUME NEW r \in 1 .. Len(runs')
                 PROVE  /\ runs'[r].id \in PastIds(0)
                        /\ runs'[r].id.epoch_id = 0 => runs'[r].id.domain_id >= InitialNextDomainId
                        /\ \A q \in 1 .. Len(runs') : runs'[q].id = runs'[r].id => q = r
      BY <1>14 DEF RunIds
    <2>1. CASE r = Len(runs) + 1
      BY <1>4, <1>7, <1>9, <1>10, <1>12, <1>13, <2>1
    <2>2. CASE r \in 1 .. Len(runs)
      BY <1>4, <1>5, <1>7, <1>12, <1>13, <2>2 DEF RunIds
    <2>3. QED
      BY <1>12, <1>13, <2>1, <2>2
  <1>16. LeadingIds'
    <2>1. /\ leading' \in [Accounts -> KeyEventIds \cup {NotLeading}]
          /\ \A b \in Accounts : leading'[b] = IF b = a THEN NotLeading ELSE leading[b]
      BY <1>1, <1>5 DEF LeadingIds
    <2> SUFFICES ASSUME NEW b \in Accounts, leading'[b] # NotLeading
                 PROVE  /\ leading'[b] \in PastIds(1) /\ leading'[b] \in LedIds(b)
                        /\ \A r \in 1 .. Len(runs') : runs'[r].id # leading'[b]
      <3>1. \A b \in Accounts : LedIds(b) \subseteq LedIds(b)'
        BY DEF IdsKept
      <3>2. QED
        BY <1>14, <2>1, <3>1 DEF LeadingIds
    <2>2. b # a /\ leading'[b] = leading[b] /\ leading[b] # id
      BY <1>11, <2>1
    <2>3. \A r \in 1 .. Len(runs') : r \in 1 .. Len(runs) \/ r = Len(runs) + 1
      BY <1>12, <1>13
    <2>4. QED
      BY <1>4, <1>5, <1>13, <2>2, <2>3 DEF LeadingIds
  <1>17. SharesOfRuns'
    <2>1. RunsKept
      BY <1>12, <1>13 DEF RunsKept
    <2>2. QED
      BY <1>1, <1>5, <2>1, RunsKeptKeepsShares DEF SharesOfRuns
  <1>18. QED
    BY <1>15, <1>16, <1>17 DEF RunInv

\* The share that is written is the run's (temporary.rs commit_keyshare).
LEMMA CommitKeepsRuns ==
  ASSUME NodeTypeOK, RunInv, IdsKept, CancelledRunning', DomainsNew',
         NEW a \in Accounts, NEW t \in tasks[a], commit_keyshare(a, t)
  PROVE  RunInv'
  <1> DEFINE r == t.run
             s == [id |-> runs[r].id, key |-> runs[r].key, run |-> r]
  <1>1. /\ UNCHANGED <<permanent, leading, runs>>
        /\ temporary' = [temporary EXCEPT ![a] = @ \cup {s}]
    BY DEF commit_keyshare
  <1>2. r \in 1 .. Len(runs) /\ temporary \in [Accounts -> SUBSET Shares]
    BY DEF NodeTypeOK
  <1>3. runs[r].id \in KeyEventIds /\ runs[r].key \in PublicKeys /\ r \in Nat
    BY <1>2, NodeFacts
  <1>4. s \in RunShares
    <2>1. s \in Shares /\ s.id = runs[r].id /\ s.run = r
      BY <1>3 DEF Shares
    <2> HIDE DEF s
    <2>2. QED
      BY <1>2, <2>1 DEF RunShares
  <1> HIDE DEF s
  <1>5. \A b \in Accounts : temporary'[b] = IF b = a THEN temporary[a] \cup {s} ELSE temporary[b]
    BY <1>1, <1>2
  <1>6. \A b \in Accounts :
            /\ temporary'[b] \subseteq RunShares
            /\ \A i \in 1 .. Len(permanent'[b].keyshares) : permanent'[b].keyshares[i] \in RunShares
    BY <1>1, <1>4, <1>5 DEF RunInv, SharesOfRuns
  <1>7. RunsKept /\ Len(runs') = Len(runs)
    BY <1>1, NodeFacts DEF RunsKept
  <1>8. /\ leading' \in [Accounts -> KeyEventIds \cup {NotLeading}]
        /\ \A b \in Accounts : leading'[b] \in {leading[b], NotLeading}
    BY <1>1 DEF RunInv, LeadingIds
  <1>9. QED
    BY <1>6, <1>7, <1>8, NoChannelStep

\* A node loads shares from its disk.
LEMMA LoadedOfRuns ==
  ASSUME NodeTypeOK, SharesOfRuns, NEW a \in Accounts, NEW e \in Int,
         NEW keys \in Seq(KeysForDomain), CanLoad(a, e, keys)
  PROVE  \A i \in 1 .. Len(keys) : Loaded(a, e, keys)[i] \in RunShares
  <1> DEFINE loaded == Loaded(a, e, keys)
             existing == PermanentShares(a, e)
  <1> SUFFICES ASSUME NEW i \in 1 .. Len(keys)
               PROVE  loaded[i] \in RunShares
    OBVIOUS
  <1>1. /\ Len(existing) \in Nat
        /\ i <= Len(existing) => loaded[i] = existing[i]
        /\ ~ (i <= Len(existing)) => loaded[i] \in temporary[a]
    BY LoadedShares
  <1>2. existing = permanent[a].keyshares \/ existing = <<>>
    BY DEF PermanentShares
  <1> HIDE DEF loaded, existing
  <1>3. CASE i <= Len(existing)
    <2>1. i \in 1 .. Len(existing) /\ existing = permanent[a].keyshares
      BY <1>1, <1>2, <1>3
    <2>2. QED
      BY <1>1, <1>3, <2>1 DEF SharesOfRuns
  <1>4. CASE ~ (i <= Len(existing))
    BY <1>1, <1>4 DEF SharesOfRuns
  <1>5. QED
    BY <1>3, <1>4

\* Shares are promoted as they are (keyshare.rs update_permanent_keyshares).
LEMMA StoreKeepsRuns ==
  ASSUME NodeTypeOK, RunInv, IdsKept, CancelledRunning', DomainsNew',
         NEW a \in Accounts, store_permanent(a)
  PROVE  RunInv'
  <1> DEFINE l == loading[a]
             loaded == Loaded(a, l.epoch_id, l.domains)
             new == [epoch_id |-> l.epoch_id, keyshares |-> loaded]
  <1>1. UNCHANGED <<temporary, leading, runs>>
    BY DEF store_permanent
  <1>2. RunsKept /\ Len(runs') = Len(runs)
    BY <1>1, NodeFacts DEF RunsKept
  <1>3. CASE UNCHANGED permanent
    BY <1>1, <1>2, <1>3, NoShareStep
  <1>4. CASE Promotes(a) /\ permanent' = [permanent EXCEPT ![a] = new]
    <2>1. CanLoad(a, l.epoch_id, l.domains)
      BY <1>4 DEF Promotes
    <2>2. /\ l.epoch_id \in Int /\ l.domains \in Seq(KeysForDomain)
          /\ permanent \in [Accounts -> [epoch_id : Int, keyshares : Seq(Shares)]]
      BY NodeFacts DEF NodeTypeOK
    <2>3. Len(loaded) = Len(l.domains)
      BY <2>1, <2>2, LoadedShares
    <2>4. \A i \in 1 .. Len(l.domains) : loaded[i] \in RunShares
      BY <2>1, <2>2, LoadedOfRuns DEF RunInv
    <2>5. new.keyshares = loaded
      OBVIOUS
    <2> HIDE DEF new, loaded
    <2>6. \A b \in Accounts : permanent'[b] = IF b = a THEN new ELSE permanent[b]
      BY <1>4, <2>2
    <2>7. \A b \in Accounts :
             /\ temporary'[b] \subseteq RunShares
             /\ \A i \in 1 .. Len(permanent'[b].keyshares) :
                   permanent'[b].keyshares[i] \in RunShares
      BY <1>1, <2>3, <2>4, <2>5, <2>6 DEF RunInv, SharesOfRuns
    <2>8. /\ leading' \in [Accounts -> KeyEventIds \cup {NotLeading}]
          /\ \A b \in Accounts : leading'[b] \in {leading[b], NotLeading}
      BY <1>1 DEF RunInv, LeadingIds
    <2>9. QED
      BY <1>2, <2>7, <2>8, NoChannelStep
  <1>5. QED
    BY <1>3, <1>4 DEF store_permanent

\* Old shares are deleted; leaders stop waiting; jobs are dropped.
LEMMA DropKeepsRuns ==
  ASSUME NodeTypeOK, RunInv, IdsKept, CancelledRunning', DomainsNew', NEW a \in Accounts,
         \/ leader_retries(a) \/ switch_job(a) \/ delete_keyshares_prior_to_epoch_id(a)
  PROVE  RunInv'
  <1>1. UNCHANGED <<permanent, runs>>
    BY DEF leader_retries, switch_job, delete_keyshares_prior_to_epoch_id
  <1>2. leading \in [Accounts -> KeyEventIds \cup {NotLeading}]
    BY DEF RunInv, LeadingIds
  <1>3. leading' = leading \/ leading' = [leading EXCEPT ![a] = NotLeading]
    BY DEF leader_retries, switch_job, delete_keyshares_prior_to_epoch_id
  <1>4. /\ leading' \in [Accounts -> KeyEventIds \cup {NotLeading}]
        /\ \A b \in Accounts : leading'[b] \in {leading[b], NotLeading}
    BY <1>2, <1>3
  <1>5. temporary \in [Accounts -> SUBSET Shares]
    BY DEF NodeTypeOK
  <1>6. \A b \in Accounts : temporary'[b] \subseteq temporary[b]
    BY <1>5 DEF leader_retries, switch_job, delete_keyshares_prior_to_epoch_id
  <1>7. \A b \in Accounts :
            /\ temporary'[b] \subseteq RunShares
            /\ \A i \in 1 .. Len(permanent'[b].keyshares) : permanent'[b].keyshares[i] \in RunShares
    BY <1>1, <1>6 DEF RunInv, SharesOfRuns
  <1>8. RunsKept /\ Len(runs') = Len(runs)
    BY <1>1, NodeFacts DEF RunsKept
  <1>9. QED
    BY <1>4, <1>7, <1>8, NoChannelStep

\* A participant gets a channel or takes part: the channel keeps its id.
LEMMA JoinKeepsRuns ==
  ASSUME NodeTypeOK, RunInv, IdsKept, CancelledRunning', DomainsNew', NEW a \in Accounts,
         \/ \E r \in 1 .. Len(runs) : receive_channel(a, r)
         \/ \E t \in tasks[a] : start_key(a, t)
  PROVE  RunInv'
  <1>1. UNCHANGED <<permanent, temporary, leading>>
    BY DEF receive_channel, start_key
  <1>2. ASSUME NEW r \in 1 .. Len(runs), receive_channel(a, r)
        PROVE  RunsKept /\ Len(runs') = Len(runs)
    <2> DEFINE n == [runs[r] EXCEPT !.received = @ \cup {a}]
    <2>1. runs' = [runs EXCEPT ![r] = n] /\ runs[r] \in Runs
      BY <1>2, NodeFacts DEF receive_channel
    <2>2. /\ n \in Runs /\ n.id = runs[r].id /\ n.key = runs[r].key
          /\ n.resharing = runs[r].resharing
      BY <2>1 DEF Runs
    <2> HIDE DEF n
    <2>3. QED
      BY <2>1, <2>2, ChannelUpdate
  <1>3. ASSUME NEW t \in tasks[a], start_key(a, t)
        PROVE  RunsKept /\ Len(runs') = Len(runs)
    <2> DEFINE r == t.run
               n == [runs[r] EXCEPT !.joined = @ \cup {a}]
    <2>1. runs' = [runs EXCEPT ![r] = n] /\ r \in 1 .. Len(runs)
      BY <1>3 DEF start_key, NodeTypeOK
    <2>2. runs[r] \in Runs
      BY <2>1, NodeFacts
    <2>3. /\ n \in Runs /\ n.id = runs[r].id /\ n.key = runs[r].key
          /\ n.resharing = runs[r].resharing
      BY <2>2 DEF Runs
    <2> HIDE DEF n, r
    <2>4. QED
      BY <2>1, <2>3, ChannelUpdate
  <1>4. QED
    BY <1>1, <1>2, <1>3, NoShareStep

\* At first there are no runs, and the shares are of the initial keyset.
LEMMA InitRunInv == NodesInit => RunInv
  <1> SUFFICES ASSUME NodesInit PROVE RunInv
    OBVIOUS
  <1> DEFINE shares == [i \in 1 .. Len(InitialDomains) |->
                           [id |-> KeyId(0, keyset.domains[i]),
                            key |-> keyset.domains[i].key, run |-> 0]]
             first == [epoch_id |-> 0, keyshares |-> shares]
  <1>1. NodeTypeOK
    BY InitKeyshareInv DEF KeyshareInv
  <1>2. /\ phase = "Running" /\ cancelled_epoch = NoEpoch /\ next_domain_id = InitialNextDomainId
        /\ leading = [a \in Accounts |-> NotLeading] /\ runs = <<>>
        /\ temporary = [a \in Accounts |-> {}]
        /\ permanent = [a \in Accounts |->
              IF a \in Members(InitialParameters) /\ InitialDomains # <<>> THEN first
              ELSE NoPermanent]
    BY DEF NodesInit, Init
  <1>3. InitialNextDomainId \in Nat /\ InitialDomains \in Seq(Nat) /\ Len(InitialDomains) \in Nat
    BY InitialAssumption
  <1>4. CancelledRunning /\ DomainsNew /\ RunIds
    BY <1>2, <1>3 DEF CancelledRunning, DomainsNew, RunIds
  <1>5. LeadingIds
    BY <1>2 DEF LeadingIds
  <1>6. \A i \in 1 .. Len(InitialDomains) :
           /\ KeyId(0, keyset.domains[i]).epoch_id = 0
           /\ KeyId(0, keyset.domains[i]).domain_id < InitialNextDomainId
    <2>1. \A i \in 1 .. Len(InitialDomains) : keyset.domains[i].domain_id = InitialDomains[i]
      BY <1>3 DEF NodesInit, Init
    <2>2. QED
      BY <2>1, InitialAssumption DEF KeyId
  <1>7. \A i \in 1 .. Len(InitialDomains) :
           /\ shares[i].id = KeyId(0, keyset.domains[i]) /\ shares[i].run = 0
    OBVIOUS
  <1>8. first.keyshares = shares /\ NoPermanent.keyshares = <<>>
    BY DEF NoPermanent
  <1>9. Len(shares) = Len(InitialDomains)
    BY <1>3
  <1> HIDE DEF first, shares
  <1>10. SharesOfRuns
    <2> SUFFICES ASSUME NEW a \in Accounts, NEW i \in 1 .. Len(permanent[a].keyshares)
                 PROVE  permanent[a].keyshares[i] \in RunShares
      BY <1>2 DEF SharesOfRuns
    <2>1. permanent[a].keyshares \in Seq(Shares)
      BY <1>1, NodeFacts
    <2>2. permanent[a].keyshares = shares
      <3>1. permanent[a] = first \/ permanent[a].keyshares = <<>>
        BY <1>2, <1>8
      <3>2. QED
        BY <1>8, <3>1
    <2>3. shares[i] \in Shares
      BY <2>1, <2>2
    <2>4. shares[i].run = 0 /\ shares[i].id.epoch_id = 0
          /\ shares[i].id.domain_id < InitialNextDomainId
      BY <1>6, <1>7, <1>9, <2>2
    <2>5. QED
      BY <2>2, <2>3, <2>4 DEF RunShares
  <1>11. QED
    BY <1>4, <1>5, <1>10 DEF RunInv

\* Every step of contract and nodes keeps the invariant, as long as cancelled
\* epochs are remembered.
LEMMA NextRunInv ==
  ASSUME ContractInv, KeyshareInv, RunInv, [NodesNext]_systemVars,
         [RemembersCancelled]_systemVars
  PROVE  RunInv'
  <1>1. /\ KeyInv /\ RegistryInv /\ NodeTypeOK /\ AttemptBelow
        /\ CancelledRunning /\ DomainsNew
    BY DEF ContractInv, KeyshareInv, EventHeld, RunInv
  <1>2. ASSUME UNCHANGED vars PROVE IdsKept /\ CancelledRunning' /\ DomainsNew'
    BY <1>1, <1>2, SameContractIds
  <1>3. ASSUME UNCHANGED runs PROVE RunsKept /\ Len(runs') = Len(runs)
    BY <1>1, <1>3, NodeFacts DEF RunsKept
  <1>4. CASE UNCHANGED systemVars
    <2>1. UNCHANGED <<vars, permanent, temporary, leading, runs>>
      BY <1>4 DEF systemVars, nodeVars
    <2>2. QED
      BY <1>1, <1>2, <1>3, <2>1, NoShareStep
  <1>5. ASSUME UNCHANGED nodeVars, RemembersCancelled,
               OperatorNext \/ \E v \in votes_sent : ContractCall(v)
        PROVE  RunInv'
    <2>1. IdsKept /\ CancelledRunning' /\ DomainsNew'
      BY <1>1, <1>5, CallIdStep, IdStepKeepsIds, IdStepKeepsDomains
    <2>2. UNCHANGED <<permanent, temporary, leading, runs>>
      BY <1>5 DEF nodeVars
    <2>3. QED
      BY <1>1, <1>3, <2>1, <2>2, NoShareStep
  <1>6. ASSUME NEW a \in Accounts, lead(a)
        PROVE  RunInv'
    <2>1. UNCHANGED vars
      BY <1>6 DEF lead
    <2>2. QED
      BY <1>1, <1>2, <1>6, <2>1, LeadKeepsRuns
  <1>7. ASSUME NEW a \in Accounts, NEW key \in PublicKeys, new_channel_for_task(a, key)
        PROVE  RunInv'
    <2>1. UNCHANGED vars
      BY <1>7 DEF new_channel_for_task
    <2>2. QED
      BY <1>1, <1>2, <1>7, <2>1, NewChannelKeepsRuns
  <1>8. ASSUME NEW a \in Accounts, NEW r \in 1 .. Len(runs), receive_channel(a, r)
        PROVE  RunInv'
    <2>1. UNCHANGED vars
      BY <1>8 DEF receive_channel
    <2>2. QED
      BY <1>1, <1>2, <1>8, <2>1, JoinKeepsRuns
  <1>9. ASSUME NEW a \in Accounts, NEW t \in tasks[a], start_key(a, t)
        PROVE  RunInv'
    <2>1. UNCHANGED vars
      BY <1>9 DEF start_key
    <2>2. QED
      BY <1>1, <1>2, <1>9, <2>1, JoinKeepsRuns
  <1>10. ASSUME NEW a \in Accounts, NEW t \in tasks[a], commit_keyshare(a, t)
         PROVE  RunInv'
    <2>1. UNCHANGED vars
      BY <1>10 DEF commit_keyshare
    <2>2. QED
      BY <1>1, <1>2, <1>10, <2>1, CommitKeepsRuns
  <1>11. ASSUME NEW a \in Accounts, NEW t \in tasks[a],
                send_vote(a, t) \/ send_abort(a, t) \/ expire(a, t)
         PROVE  RunInv'
    <2>1. UNCHANGED <<vars, permanent, temporary, leading, runs>>
      BY <1>11 DEF send_vote, send_abort, expire
    <2>2. QED
      BY <1>1, <1>2, <1>3, <2>1, NoShareStep
  <1>12. ASSUME NEW a \in Accounts, begin_load(a)
         PROVE  RunInv'
    <2>1. UNCHANGED <<vars, permanent, temporary, leading, runs>>
      BY <1>12 DEF begin_load
    <2>2. QED
      BY <1>1, <1>2, <1>3, <2>1, NoShareStep
  <1>13. ASSUME NEW a \in Accounts, store_permanent(a)
         PROVE  RunInv'
    <2>1. UNCHANGED vars
      BY <1>13 DEF store_permanent
    <2>2. QED
      BY <1>1, <1>2, <1>13, <2>1, StoreKeepsRuns
  <1>14. ASSUME NEW a \in Accounts,
                \/ leader_retries(a) \/ switch_job(a) \/ delete_keyshares_prior_to_epoch_id(a)
         PROVE  RunInv'
    <2>1. UNCHANGED vars
      BY <1>14 DEF leader_retries, switch_job, delete_keyshares_prior_to_epoch_id
    <2>2. QED
      BY <1>1, <1>2, <1>14, <2>1, DropKeepsRuns
  <1>15. CASE NodesNext /\ RemembersCancelled
    BY <1>5, <1>6, <1>7, <1>8, <1>9, <1>10, <1>11, <1>12, <1>13, <1>14, <1>15 DEF NodesNext
  <1>16. QED
    BY <1>4, <1>15

\* Two shares of one key id that runs gave are of one run.
LEMMA SharesBelongTogether ==
  ASSUME KeyInv, KeyshareInv, RunInv
  PROVE  SharesOfOneRun
  <1> DEFINE e == keyset.epoch_id
             keys == keyset.domains
  <1>1. /\ e \in Int /\ keys \in Seq(KeysForDomain) /\ Len(keys) \in Nat
        /\ Members(parameters) \subseteq Accounts
    BY KeysetType
  <1>2. /\ NodeTypeOK /\ OneShareEach /\ PermanentInv /\ KeysHeld /\ SharesOfRuns /\ RunIds
    BY DEF KeyshareInv, KeysetHeld, RunInv
  <1>3. SUFFICES ASSUME NEW a \in Members(parameters), NEW b \in Members(parameters),
                        CanLoad(a, e, keys), CanLoad(b, e, keys), NEW i \in 1 .. Len(keys)
                 PROVE  /\ Loaded(a, e, keys)[i].run = Loaded(b, e, keys)[i].run
                        /\ Loaded(a, e, keys)[i].key = keys[i].key
    BY DEF SharesOfOneRun
  <1> DEFINE s == Loaded(a, e, keys)[i]
             t == Loaded(b, e, keys)[i]
  <1>4. a \in Accounts /\ b \in Accounts
    BY <1>1
  <1>5. s \in RunShares /\ t \in RunShares
    BY <1>1, <1>2, <1>3, <1>4, LoadedOfRuns
  <1>6. check_consistency(s, e, keys[i]) /\ check_consistency(t, e, keys[i])
    <2>1. Len(keys) <= Len(keyset.domains) /\ \A j \in 1 .. Len(keys) : keys[j] = keyset.domains[j]
      BY <1>1
    <2>2. QED
      BY <1>1, <1>2, <1>3, <2>1, LoadedInForce
  <1>7. s.id = t.id /\ s.key = keys[i].key
    BY <1>6 DEF check_consistency
  <1> HIDE DEF s, t
  <1>8. s.run = t.run
    <2>1. s.id \in KeyEventIds /\ s.id.domain_id \in Nat /\ InitialNextDomainId \in Nat
      BY <1>5, InitialAssumption DEF RunShares, Shares, KeyEventIds
    <2>2. /\ s.run # 0 => s.run \in 1 .. Len(runs) /\ runs[s.run].id = s.id
          /\ t.run # 0 => t.run \in 1 .. Len(runs) /\ runs[t.run].id = s.id
          /\ s.run = 0 \/ t.run = 0 => /\ s.id.epoch_id = 0
                                      /\ s.id.domain_id < InitialNextDomainId
      <3>1. \A u \in RunShares :
               /\ u.run # 0 => u.run \in 1 .. Len(runs) /\ runs[u.run].id = u.id
               /\ u.run = 0 => u.id.epoch_id = 0 /\ u.id.domain_id < InitialNextDomainId
        BY DEF RunShares
      <3>2. QED
        BY <1>5, <1>7, <3>1
    <2>3. \A r \in 1 .. Len(runs) : runs[r].id = s.id =>
             ~ (s.id.epoch_id = 0 /\ s.id.domain_id < InitialNextDomainId)
      BY <1>2, <2>1 DEF RunIds
    <2>4. CASE s.run # 0 /\ t.run # 0
      BY <1>2, <2>2, <2>4 DEF RunIds
    <2>5. CASE s.run = 0 \/ t.run = 0
      BY <2>2, <2>3, <2>5
    <2>6. QED
      BY <2>4, <2>5
  <1>9. QED
    BY <1>7, <1>8 DEF s, t

\* The shares of a key that participants load belong together: they are of one
\* run of the computation and of the key in the contract, in every history in
\* which no keys are generated right after a resharing was cancelled (that step
\* forgets the cancelled epoch, whose ids then come back: running.rs
\* vote_add_domains).
THEOREM SharesTheorem ==
  NodesSpec /\ [][RemembersCancelled]_systemVars => []SharesOfOneRun
  <1>1. /\ ContractInv /\ KeyshareInv /\ RunInv
        /\ [NodesNext]_systemVars /\ [RemembersCancelled]_systemVars
        => RunInv'
    BY NextRunInv
  <1>2. ContractInv /\ KeyshareInv /\ RunInv => SharesOfOneRun
    BY SharesBelongTogether DEF ContractInv
  <1>3. QED
    BY <1>1, <1>2, InitRunInv, AlwaysKeyshareInv, PTL DEF NodesSpec

\* The contract driven by the nodes themselves, with whatever ids they send,
\* late and again, keeps the promise of Committee; and, by LoadableTheorem, every
\* key in it is on the disks of its participants.
THEOREM NodesCommitteeTheorem == NodesSpec => ImplementsCommittee
  <1>1. NodesInit => Promise!CommitteeInit
    BY InitMapped DEF NodesInit
  <1>2. ContractInv /\ KeyshareInv /\ ContractInv' /\ [NodesNext]_systemVars
          => [Promise!CommitteeNext]_(Promise!committeeVars)
    <2> SUFFICES ASSUME ContractInv, KeyshareInv, ContractInv', [NodesNext]_systemVars
                 PROVE  Promise!CommitteeNext \/ UNCHANGED Promise!committeeVars
      OBVIOUS
    <2>1. KeyInv /\ KeyInv' /\ RegistryInv /\ NodeTypeOK
      BY DEF ContractInv, KeyshareInv
    <2>2. CASE OperatorNext \/ UNCHANGED vars
      <3>1. [Next]_vars
        BY <2>2 DEF Next
      <3>2. QED
        BY <2>1, <3>1, NextMapped
    <2>3. ASSUME NEW v \in votes_sent, ContractCall(v)
          PROVE  Promise!CommitteeNext \/ UNCHANGED Promise!committeeVars
      <3>1. /\ v.signer \in Accounts
            /\ v.id \in [epoch_id : Nat, domain_id : Nat, attempt_id : Nat]
            /\ v.call = "vote_pk" => v.key \in PublicKeys
        BY <2>1 DEF NodeTypeOK, KeyEventIds
      <3>2. CASE start_keygen_instance(v.signer, v.id) \/ start_reshare_instance(v.signer, v.id)
        <4>1. /\ phase # "Running" /\ UNCHANGED <<phase, keyset, parameters>>
              /\ key_event' = start(key_event, height, key_event_timeout_blocks)
          BY <3>2 DEF start_keygen_instance, start_reshare_instance
        <4>2. QED
          BY <2>1, <4>1, KeyEventInProgress, StartFields, InvisibleStep
      <3>3. CASE vote_abort_key_event_instance(v.signer, v.id)
        <4>1. /\ phase # "Running" /\ UNCHANGED <<phase, keyset, parameters>>
              /\ key_event' = WithoutInstance(key_event)
          BY <3>3 DEF vote_abort_key_event_instance
        <4>2. QED
          BY <2>1, <4>1, KeyEventInProgress, AbortFields, InvisibleStep
      <3>4. CASE v.call = "vote_pk" /\ vote_pk(v.signer, v.id, v.key)
        BY <2>1, <3>1, <3>4, VotePkMapped
      <3>5. CASE vote_reshared(v.signer, v.id)
        BY <2>1, <3>1, <3>5, VoteResharedMapped
      <3>6. QED
        BY <2>3, <3>2, <3>3, <3>4, <3>5 DEF ContractCall
    <2>4. ASSUME NodesNext, ~ OperatorNext, \A v \in votes_sent : ~ ContractCall(v)
          PROVE  UNCHANGED vars
      <3>1. ASSUME NEW a \in Accounts,
                   \/ lead(a) \/ leader_retries(a) \/ begin_load(a) \/ store_permanent(a)
                   \/ delete_keyshares_prior_to_epoch_id(a) \/ switch_job(a)
            PROVE  UNCHANGED vars
        BY <3>1 DEF lead, leader_retries, begin_load, store_permanent,
                    delete_keyshares_prior_to_epoch_id, switch_job
      <3>2. ASSUME NEW a \in Accounts, NEW x, new_channel_for_task(a, x) \/ receive_channel(a, x)
            PROVE  UNCHANGED vars
        BY <3>2 DEF new_channel_for_task, receive_channel
      <3>3. ASSUME NEW a \in Accounts, NEW t \in tasks[a],
                   \/ start_key(a, t) \/ commit_keyshare(a, t) \/ send_vote(a, t)
                   \/ send_abort(a, t) \/ expire(a, t)
            PROVE  UNCHANGED vars
        BY <3>3 DEF start_key, commit_keyshare, send_vote, send_abort, expire
      <3>4. QED
        BY <2>4, <3>1, <3>2, <3>3 DEF NodesNext
    <2>5. QED
      BY <2>2, <2>3, <2>4 DEF systemVars
  <1>3. QED
    BY <1>1, <1>2, AlwaysKeyshareInv, PTL DEF NodesSpec, ImplementsCommittee, Promise!CommitteeSpec
=============================================================================
