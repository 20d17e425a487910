---------------------------- MODULE TaskChannels ----------------------------
(***************************************************************************)
(* Computations of several nodes over the mesh.  A leader opens a channel  *)
(* for each computation and tells the other participants to start;         *)
(* messages that come before the start are kept.  The computations here    *)
(* make an asset, of which every participant must hold a share before the  *)
(* leader counts it as its own.                                            *)
(*                                                                         *)
(* crates/node/src/network.rs, network/computation.rs, and the generation  *)
(* of triples and presignatures (providers/ecdsa/triple.rs, presign.rs)    *)
(*                                                                         *)
(* The protocol of a computation is external: each participant sends its   *)
(* data to those that Talk names, and is done when it has theirs.  A task  *)
(* reads a message as soon as its channel gets it.                         *)
(***************************************************************************)
EXTENDS Connections, FiniteSets

CONSTANTS
    leader,             \* the node that leads, and owns the assets
    Talk,               \* <<a, b>>: the protocol has a send data to b
    LRU_CAPACITY,
    MaxChannels         \* bound on the computations

ASSUME ChannelsAssumption ==
    leader \in Nodes /\ Talk \subseteq Pairs /\ LRU_CAPACITY \in Nat \ {0} /\ MaxChannels \in Nat

VARIABLES
    last_id,            \* the id of the last channel opened
    senders,            \* senders[n]: the channel ids for which n has a sender
    waiting,            \* channels_waiting_for_start[n]: [id, buffer], oldest first
    channels,           \* channels[n]: the live channels, by id
    shares,             \* shares[n]: assets of which n's database has a share
    owned,              \* assets in the leader's database
    started,            \* history: started[n] are the channels that n began
    evicted             \* history: evicted[n] are the channels whose messages n gave up

chanVars == <<last_id, senders, waiting, channels, shares, owned, started, evicted>>
netVars == <<connVars, chanVars>>

Followers == Nodes \ {leader}
Others(n) == Nodes \ {n}

\* The followers may still keep a late message of an earlier channel, 0.
TasksInit ==
    /\ ConnectionsInit
    /\ last_id = 0
    /\ \E late \in {{}, Followers} :
          /\ senders = [n \in Nodes |-> IF n \in late THEN {0} ELSE {}]
          /\ waiting = [n \in Nodes |-> IF n \in late
                          THEN <<[id |-> 0, buffer |-> <<[from |-> leader, kind |-> "Abort"]>>]>>
                          ELSE <<>>]
    /\ channels = [n \in Nodes |-> <<>>]
    /\ shares   = [n \in Nodes |-> {}]
    /\ owned = {}
    /\ started = [n \in Nodes |-> {0}]
    /\ evicted = [n \in Nodes |-> {}]

Message(c, kind) == [id |-> c, kind |-> kind]

live(n) == DOMAIN channels[n]
WaitingFor(n) == {waiting[n][i].id : i \in DOMAIN waiting[n]}

-----------------------------------------------------------------------------
(* sender_for                                                              *)

\* An entry is pushed; the oldest makes room.
Pushed(n, c, buffer) ==
    LET w == Append(waiting[n], [id |-> c, buffer |-> buffer])
    IN  IF Len(w) > LRU_CAPACITY THEN Tail(w) ELSE w

Evicted_Forgotten(n) == {}

Evicted(n) == IF Len(waiting[n]) = LRU_CAPACITY THEN {Head(waiting[n]).id} ELSE {}

\* The place of the entry of c, to which messages are added and which Start
\* pops with what is kept in it.
EntryOf(n, c) == CHOOSE i \in DOMAIN waiting[n] : waiting[n][i].id = c

Buffered(n, c) == waiting[n][EntryOf(n, c)].buffer

NewChannel(n, inbox) ==
    [versions |-> [p \in Nodes |-> connection_version(n, p)],
     inbox |-> inbox, step |-> "init", got |-> {}, successful |-> {}]

WithChannel(n, c, inbox) ==
    [channels EXCEPT ![n] = [d \in live(n) \cup {c} |->
        IF d = c THEN NewChannel(n, inbox) ELSE channels[n][d]]]

WithoutChannel(n, c) ==
    [channels EXCEPT ![n] = [d \in live(n) \ {c} |-> channels[n][d]]]

\* A Start, of the node itself or of another: the channel begins, with what
\* was kept for it.  A new entry goes through channels_waiting_for_start.
starts(n, c) ==
    /\ started' = [started EXCEPT ![n] = @ \cup {c}]
    /\ IF c \in WaitingFor(n)
       THEN /\ channels' = WithChannel(n, c, Buffered(n, c))
            /\ waiting' = [waiting EXCEPT ![n] = RemoveAt(@, EntryOf(n, c))]
            /\ UNCHANGED <<senders, evicted>>
       ELSE /\ channels' = WithChannel(n, c, <<>>)
            /\ waiting' = [waiting EXCEPT ![n] = IF Evicted(n) = {} THEN @ ELSE Tail(@)]
            /\ senders' = [senders EXCEPT ![n] = (@ \ Evicted(n)) \cup {c}]
            /\ evicted' = [evicted EXCEPT ![n] = @ \cup Evicted(n)]

\* A message for a channel that is not known, or has ended, is kept.
keep_Dropped(n, c, m) == UNCHANGED <<senders, waiting, evicted>>

keep(n, c, m) ==
    IF c \in WaitingFor(n)
    THEN /\ waiting' = [waiting EXCEPT ![n][EntryOf(n, c)].buffer = Append(@, m)]
         /\ UNCHANGED <<senders, evicted>>
    ELSE /\ waiting' = [waiting EXCEPT ![n] = Pushed(n, c, <<m>>)]
         /\ senders' = [senders EXCEPT ![n] = (@ \ Evicted(n)) \cup {c}]
         /\ evicted' = [evicted EXCEPT ![n] = @ \cup Evicted(n)]

\* A channel is dropped: drop_fn.
dropped(n, c) ==
    /\ channels' = WithoutChannel(n, c)
    /\ senders' = [senders EXCEPT ![n] = @ \ {c}]

-----------------------------------------------------------------------------
(* The computation, perform_leader_centric_computation.                    *)

Needs(n) == {p \in Nodes : <<p, n>> \in Talk}
TalksTo(n) == {p \in Nodes : <<n, p>> \in Talk}
FailureTo(n) == IF n = leader THEN Followers ELSE {leader}

versions(n, c) == channels[n][c].versions

CanSend(n, c, to) == \A p \in to : outgoing_connection_asserting(n, p, versions(n, c)[p])

Same(kind, c) == [p \in Nodes |-> <<Message(c, kind)>>]

\* What a message leaves alone besides the pipes.
UnchangedBySend == UNCHANGED <<outgoing, incoming, connection_attempt, read, old, faults>>

\* communicate_failure, best effort, and the channel is dropped.
fails(n, c) ==
    /\ dropped(n, c)
    /\ SendTo(n, FailureTo(n), versions(n, c), Same("Abort", c))
    /\ UNCHANGED <<outgoing, incoming, connection_attempt, read, old>>
    /\ UNCHANGED <<last_id, waiting, shares, owned, started, evicted>>

\* The leader chooses participants that are all connected to it, opens a
\* channel, sends everyone a Start and begins to compute.  That the leader has
\* no other live channel is a bound (the loop that generates triples keeps
\* several in flight); followers still have several.  A Start whose sending
\* fails ends the computation before it has begun and is left out.
new_channel_for_task ==
    LET c    == last_id + 1
        vs   == [p \in Nodes |-> connection_version(leader, p)]
        msgs == [p \in Nodes |-> IF p \in TalksTo(leader)
                                 THEN <<Message(c, "Start"), Message(c, "Data")>>
                                 ELSE <<Message(c, "Start")>>]
    IN  /\ last_id < MaxChannels
        /\ live(leader) = {}
        /\ \A p \in Followers : is_bidirectionally_connected(leader, p)
        /\ last_id' = c
        /\ SendTo(leader, Followers, vs, msgs)
        /\ started' = [started EXCEPT ![leader] = @ \cup {c}]
        /\ channels' = [channels EXCEPT ![leader] =
              [d \in {c} |-> [NewChannel(leader, <<>>) EXCEPT !.step = "compute"]]]
        /\ waiting' = [waiting EXCEPT ![leader] = IF Evicted(leader) = {} THEN @ ELSE Tail(@)]
        /\ senders' = [senders EXCEPT ![leader] = (@ \ Evicted(leader)) \cup {c}]
        /\ evicted' = [evicted EXCEPT ![leader] = @ \cup Evicted(leader)]
        /\ UnchangedBySend
        /\ UNCHANGED <<shares, owned>>

\* run_receive_message: b reads the next message of a and hands it on.
run_receive_message(a, b, q) ==
    LET m == NextMessage(a, b, q)
        from == [from |-> a, kind |-> m.kind]
    IN  /\ q \in Readable(a, b)
        /\ pipe' = ReadFrom(pipe, a, b, q)
        /\ old' = OldReadFrom(a, b, q)
        /\ \/ /\ m.id \in live(b)
              /\ channels' = [channels EXCEPT ![b][m.id].inbox = Append(@, from)]
              /\ UNCHANGED <<senders, waiting, started, evicted>>
           \/ /\ m.id \notin live(b)
              /\ m.kind = "Start"
              /\ starts(b, m.id)
           \/ /\ m.id \notin live(b)
              /\ m.kind # "Start"
              /\ keep(b, m.id, from)
              /\ UNCHANGED <<channels, started>>
        /\ UNCHANGED <<outgoing, incoming, connection_attempt, read, faults, last_id, shares, owned>>

\* A follower waits until it has been connected to all others, then computes.
initialize_all_participants_connections(n, c) ==
    /\ channels[n][c].step = "init"
    /\ \A p \in Others(n) : connection_reached(n, p, versions(n, c)[p])
    /\ CanSend(n, c, TalksTo(n))
    /\ SendTo(n, TalksTo(n), versions(n, c), Same("Data", c))
    /\ channels' = [channels EXCEPT ![n][c].step = "compute"]
    /\ UnchangedBySend
    /\ UNCHANGED <<last_id, senders, waiting, shares, owned, started, evicted>>

cannot_send(n, c) ==
    /\ channels[n][c].step = "init"
    /\ \A p \in Others(n) : connection_reached(n, p, versions(n, c)[p])
    /\ ~ CanSend(n, c, TalksTo(n))
    /\ fails(n, c)
    /\ UNCHANGED faults

receiving(n, c) == channels[n][c].step \in {"compute", "wait"}

Unexpected(n, m) == m.kind \in {"Abort", "Start"} \/ (m.kind = "Success" /\ n # leader)

\* receive_one takes the next message of the channel ...
receive_one(n, c) ==
    LET m == Head(channels[n][c].inbox)
    IN  /\ receiving(n, c) /\ channels[n][c].inbox # <<>>
        /\ ~ Unexpected(n, m)
        /\ channels' = [channels EXCEPT
              ![n][c].inbox = Tail(@),
              ![n][c].got = IF m.kind = "Data" THEN @ \cup {m.from} ELSE @,
              ![n][c].successful = IF m.kind = "Success" THEN @ \cup {m.from} ELSE @]
        /\ UNCHANGED <<connVars, last_id, senders, waiting, shares, owned, started, evicted>>

\* ... gives up at one that does not belong there ...
aborted(n, c) ==
    /\ receiving(n, c) /\ channels[n][c].inbox # <<>>
    /\ Unexpected(n, Head(channels[n][c].inbox))
    /\ fails(n, c)
    /\ UNCHANGED faults

\* ... or, when there is none for a second, if a connection was interrupted.
interrupted(n, c) ==
    /\ receiving(n, c) /\ channels[n][c].inbox = <<>>
    /\ \E p \in Others(n) : was_connection_interrupted(n, p, versions(n, c)[p])
    /\ fails(n, c)
    /\ UNCHANGED faults

\* The protocol has all it needs.  A follower stores its share; the leader goes
\* on to wait_for_followers_to_succeed.
compute_returns(n, c) ==
    /\ channels[n][c].step = "compute"
    /\ channels[n][c].got = Needs(n)
    /\ channels' = [channels EXCEPT ![n][c].step = IF n = leader THEN "wait" ELSE "done"]
    /\ shares' = [shares EXCEPT ![n] = IF n = leader THEN @ ELSE @ \cup {c}]
    /\ UNCHANGED <<connVars, last_id, senders, waiting, owned, started, evicted>>

communicate_success(n, c) ==
    /\ channels[n][c].step = "done"
    /\ SendTo(n, {leader}, versions(n, c), Same("Success", c))
    /\ dropped(n, c)
    /\ UnchangedBySend
    /\ UNCHANGED <<last_id, waiting, shares, owned, started, evicted>>

all_succeeded_Threshold(c) == Cardinality(channels[leader][c].successful) >= Cardinality(Followers) - 1

all_succeeded(c) == channels[leader][c].successful = Followers

add_owned(c) ==
    /\ channels[leader][c].step = "wait"
    /\ all_succeeded(c)
    /\ owned' = owned \cup {c}
    /\ dropped(leader, c)
    /\ UNCHANGED <<connVars, last_id, waiting, shares, started, evicted>>

time_out(n, c) ==
    /\ channels[n][c].step # "done"
    /\ faults < MaxFaults /\ faults' = faults + 1
    /\ fails(n, c)

\* A node stops, and starts with its database only.
crash(n) ==
    /\ connections_crash(n)
    /\ channels' = [channels EXCEPT ![n] = <<>>]
    /\ senders' = [senders EXCEPT ![n] = {}]
    /\ waiting' = [waiting EXCEPT ![n] = <<>>]
    /\ UNCHANGED <<last_id, shares, owned, started, evicted>>

TaskStep(n, c) ==
    \/ initialize_all_participants_connections(n, c)
    \/ cannot_send(n, c)
    \/ receive_one(n, c)
    \/ aborted(n, c)
    \/ interrupted(n, c)
    \/ compute_returns(n, c)
    \/ communicate_success(n, c)
    \/ n = leader /\ add_owned(c)

ConnectionStep(a, b) ==
    /\ \/ connect(a, b)
       \/ outgoing_closes(a, b)
       \/ incoming_closes(b, a)
    /\ UNCHANGED chanVars

Receives(a, b) == \E q \in {"pipe", "old"} : run_receive_message(a, b, q)

Next ==
    \/ new_channel_for_task
    \/ \E n \in Nodes : \E c \in live(n) : TaskStep(n, c) \/ time_out(n, c)
    \/ \E p \in Pairs : \/ Receives(p[1], p[2])
                        \/ ConnectionStep(p[1], p[2])
                        \/ break(p[1], p[2]) /\ UNCHANGED chanVars
    \/ \E n \in Nodes : crash(n)

\* The tasks, the readers and the reconnect loops run: each is a task of its
\* own.  Nothing says that a fault, a time-out or a new computation happens.
Fairness ==
    /\ \A n \in Nodes, c \in 1 .. MaxChannels : WF_netVars(c \in live(n) /\ TaskStep(n, c))
    /\ \A p \in Pairs : WF_netVars(Receives(p[1], p[2])) /\ WF_netVars(ConnectionStep(p[1], p[2]))

TasksSpec == TasksInit /\ [][Next]_netVars /\ Fairness

-----------------------------------------------------------------------------
\* The invariant that sender_for states: for each key of senders, either it
\* waits for its start or there is a live channel, and never both.  Otherwise
\* an ended or evicted computation leaves a sender behind for ever, or a
\* message finds no one.
SendersInvariant ==
    \A n \in Nodes : /\ senders[n] = WaitingFor(n) \cup live(n)
                     /\ WaitingFor(n) \cap live(n) = {}
                     /\ Len(waiting[n]) <= LRU_CAPACITY

\* What the leader counts as its own asset, every follower has a share of,
\* whatever broke, crashed or timed out on the way.
OwnedHeldByAll == \A c \in owned : \A n \in Followers : c \in shares[n]

\* A message of the leader waits for a start only if the channel is over: its
\* Start, sent first, arrives first, although connections are replaced.
StartComesFirst ==
    \A n \in Followers : \A i \in DOMAIN waiting[n] :
        (\E j \in DOMAIN waiting[n][i].buffer : waiting[n][i].buffer[j].from = leader)
            => waiting[n][i].id \in started[n]

\* A computation that was begun completes, whatever order its messages arrive
\* in, unless something breaks, times out or is evicted.
GenerationCompletes ==
    \A c \in 1 .. MaxChannels :
        c \in live(leader) ~> (c \in owned \/ faults > 0 \/ \E n \in Nodes : c \in evicted[n])
=============================================================================
