---------------------------- MODULE Connections ----------------------------
(***************************************************************************)
(* The mesh of TLS connections between the nodes.  Every node keeps one    *)
(* outgoing connection to every other node, over which it only sends, and  *)
(* accepts one from it, from which it only receives.  Versions tell a user *)
(* whether the connections are still those of the time it began.           *)
(*                                                                         *)
(* crates/node/src/p2p.rs, network/conn.rs, network/handshake.rs           *)
(*                                                                         *)
(* TCP, TLS and the wire format are external: a connection is a queue of   *)
(* messages that delivers a prefix of what was sent on it.  Each end finds *)
(* out by itself, some time later, that a connection is gone.              *)
(***************************************************************************)
EXTENDS Integers, SequencesExt

CONSTANTS
    Nodes,
    MaxFaults           \* bound on broken connections, crashes, time-outs

ASSUME ConnectionsAssumption == MaxFaults \in Nat

VARIABLES
    outgoing,           \* outgoing[a][b]: a's connection to b, [version, up]
    incoming,           \* incoming[b][a]: b's connection from a, [version, up, id]
    connection_attempt, \* connection_attempt[a][b]: the id of a's next or current one
    pipe,               \* pipe[a][b]: what a sent on it and b has not read
    read,               \* read[a][b]: b still reads a's current connection
    old,                \* old[a][b]: what b still reads from a's earlier ones
    faults

connVars == <<outgoing, incoming, connection_attempt, pipe, read, old, faults>>

Pairs == {p \in Nodes \X Nodes : p[1] # p[2]}

\* Everyone is connected to everyone.
ConnectionsInit ==
    /\ outgoing = [a \in Nodes |-> [b \in Nodes |-> [version |-> 1, up |-> TRUE]]]
    /\ incoming = [b \in Nodes |-> [a \in Nodes |-> [version |-> 1, up |-> TRUE, id |-> 0]]]
    /\ connection_attempt = [a \in Nodes |-> [b \in Nodes |-> 0]]
    /\ pipe = [a \in Nodes |-> [b \in Nodes |-> <<>>]]
    /\ read = [a \in Nodes |-> [b \in Nodes |-> TRUE]]
    /\ old = [a \in Nodes |-> [b \in Nodes |-> <<>>]]
    /\ faults = 0

\* ConnectionWithVersion::version: a dropped connection counts as the next one.
version(c) == IF c.up THEN c.version ELSE c.version + 1

connection_version(a, b) ==
    [outgoing |-> version(outgoing[a][b]), incoming |-> version(incoming[a][b])]

is_bidirectionally_connected(a, b) == outgoing[a][b].up /\ incoming[a][b].up

was_connection_interrupted(a, b, v) == connection_version(a, b) # v

\* wait_for_connection returns.
connection_reached(a, b, v) ==
    outgoing[a][b].version >= v.outgoing /\ incoming[a][b].version >= v.incoming

\* A message may be sent on the connection that the sender expects.
outgoing_connection_asserting_Any(a, b, v) == outgoing[a][b].up

outgoing_connection_asserting(a, b, v) ==
    outgoing[a][b].version = v.outgoing /\ outgoing[a][b].up

\* a's messages msgs[b], one after the other, to each b that it can send to.
SendTo(a, to, vs, msgs) ==
    pipe' = [pipe EXCEPT ![a] = [b \in Nodes |->
        IF b \in to /\ outgoing_connection_asserting(a, b, vs[b]) /\ read[a][b]
        THEN @[b] \o msgs[b] ELSE @[b]]]

-----------------------------------------------------------------------------
\* The handshake: the listener asks for an id above that of the connection it
\* has, and set_incoming_connection checks again.  Peers that still speak the
\* older version of the protocol, which sends no id and is accepted with id 1
\* while there is no connection, are left out.
min_expected_connection_id(b, a) == IF incoming[b][a].up THEN incoming[b][a].id + 1 ELSE 0

is_accepted_Strict(a, b) == min_expected_connection_id(b, a) < connection_attempt[a][b]

is_accepted(a, b) == min_expected_connection_id(b, a) <= connection_attempt[a][b]

\* The loop of PersistentConnection: connect, ...  The dialer's
\* set_outgoing_connection and the listener's set_incoming_connection, which
\* follows it, are one step.
connect(a, b) ==
    /\ ~ outgoing[a][b].up
    /\ is_accepted(a, b)
    /\ outgoing' = [outgoing EXCEPT ![a][b] = [version |-> @.version + 1, up |-> TRUE]]
    /\ incoming' = [incoming EXCEPT ![b][a] =
                      [version |-> @.version + 1, up |-> TRUE, id |-> connection_attempt[a][b]]]
    /\ pipe' = [pipe EXCEPT ![a][b] = <<>>]
    /\ read' = [read EXCEPT ![a][b] = TRUE]
    /\ UNCHANGED <<connection_attempt, old, faults>>

\* ... and when the connection closes, try again with the next id.
outgoing_closes(a, b) ==
    /\ outgoing[a][b].up /\ ~ read[a][b]
    /\ outgoing' = [outgoing EXCEPT ![a][b].up = FALSE]
    /\ connection_attempt' = [connection_attempt EXCEPT ![a][b] = @ + 1]
    /\ UNCHANGED <<incoming, pipe, read, old, faults>>

\* The reader of a connection that is gone finds its end, or has heard nothing
\* for too long.
incoming_closes(b, a) ==
    /\ incoming[b][a].up /\ ~ read[a][b] /\ old[a][b] = <<>>
    /\ incoming' = [incoming EXCEPT ![b][a].up = FALSE]
    /\ UNCHANGED <<outgoing, connection_attempt, pipe, read, old, faults>>

\* The network breaks a connection: b still reads a prefix of what is in it.
break(a, b) ==
    /\ faults < MaxFaults /\ faults' = faults + 1
    /\ outgoing[a][b].up /\ read[a][b]
    /\ read' = [read EXCEPT ![a][b] = FALSE]
    /\ \E rest \in Prefixes(pipe[a][b]) : old' = [old EXCEPT ![a][b] = @ \o rest]
    /\ pipe' = [pipe EXCEPT ![a][b] = <<>>]
    /\ UNCHANGED <<outgoing, incoming, connection_attempt>>

\* A node stops and starts anew.  Each other node still reads a prefix of what
\* it had sent; what was sent to it is lost.
connections_crash(n) ==
    /\ faults < MaxFaults /\ faults' = faults + 1
    /\ outgoing' = [outgoing EXCEPT ![n] = [b \in Nodes |-> [version |-> 0, up |-> FALSE]]]
    /\ incoming' = [incoming EXCEPT ![n] = [a \in Nodes |-> [version |-> 0, up |-> FALSE, id |-> 0]]]
    /\ connection_attempt' = [connection_attempt EXCEPT ![n] = [b \in Nodes |-> 0]]
    /\ read' = [a \in Nodes |-> [b \in Nodes |-> read[a][b] /\ a # n /\ b # n]]
    /\ \E rest \in [Nodes -> UNION {Prefixes(pipe[n][b]) : b \in Nodes}] :
          /\ \A b \in Nodes : rest[b] \in Prefixes(pipe[n][b])
          /\ old' = [a \in Nodes |-> [b \in Nodes |->
                IF b = n THEN <<>> ELSE IF a = n THEN old[a][b] \o rest[b] ELSE old[a][b]]]
    /\ pipe' = [a \in Nodes |-> [b \in Nodes |-> IF a = n \/ b = n THEN <<>> ELSE pipe[a][b]]]

\* What b may read next from a, and that it did.
Readable(a, b) ==
    {q \in {"pipe", "old"} : IF q = "pipe" THEN read[a][b] /\ pipe[a][b] # <<>> ELSE old[a][b] # <<>>}

NextMessage(a, b, q) == IF q = "pipe" THEN Head(pipe[a][b]) ELSE Head(old[a][b])

ReadFrom(ps, a, b, q) == IF q = "pipe" THEN [ps EXCEPT ![a][b] = Tail(@)] ELSE ps

OldReadFrom(a, b, q) == IF q = "old" THEN [old EXCEPT ![a][b] = Tail(@)] ELSE old

-----------------------------------------------------------------------------
\* Once nothing breaks any more, every node is connected to every other again
\* and stays so: the ids of the two ends do not keep each other from
\* connecting, also after one of them started over with id 0.
MeshRecovers ==
    \A p \in Pairs : <>[](outgoing[p[1]][p[2]].up /\ incoming[p[2]][p[1]].up)
=============================================================================
