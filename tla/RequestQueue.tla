---------------------------- MODULE RequestQueue ----------------------------
(***************************************************************************)
(* A node's queue of user requests: requests enter with the block that     *)
(* carries them, the node attempts those it leads, and they leave when a   *)
(* final block answers them, when they are too old or off the chain, or    *)
(* after too many attempts.                                                *)
(*                                                                         *)
(* crates/node/src/requests/queue.rs, and the loop that drives it          *)
(* (mpc_client.rs, monitor_block_updates)                                  *)
(*                                                                         *)
(* Signature, CKD and foreign-transaction requests have a queue each; this *)
(* is one of them.  The id of a request is the id of a receipt, so blocks  *)
(* of two forks may carry the same request.  Clocks are left out: which    *)
(* requests are due for a check is an input of each check, and `submitted` *)
(* is whether the last response was sent recently.  An attempt of a        *)
(* request that left the queue goes on, but the queue knows nothing of it. *)
(***************************************************************************)
EXTENDS RecentBlocks, Functions

CONSTANTS
    all_participants, my_participant_id,
    RequestIds,
    leader_selection_order,     \* per request id, an order of the participants
    STALE_PARTICIPANT_THRESHOLD,
    MAX_HEIGHT_DIFF,
    MAX_ATTEMPTS_PER_REQUEST_AS_LEADER,
    ReportedHeights,            \* the heights that peers report
    RequestHeights              \* the heights at which requests are made

ASSUME QueueAssumption ==
    /\ my_participant_id \in all_participants
    /\ \A r \in RequestIds : Range(leader_selection_order[r]) = all_participants

VARIABLES
    content,            \* per block: [requests, completed]
    requests,           \* the queue: request id -> [block, active, attempts, ...]
    connected,          \* peers with connections in both directions
    indexer_heights,    \* participant -> height, as far as this node heard
    given_up            \* requests dropped after too many attempts

queueVars == <<chain, trackerVars, content, requests, connected, indexer_heights, given_up>>

Peers == all_participants \ {my_participant_id}

QueueInit ==
    /\ TrackerInit
    /\ content = <<>>
    /\ requests = <<>>
    /\ connected = Peers
    /\ indexer_heights = [p \in all_participants |-> 0]
    /\ given_up = {}

-----------------------------------------------------------------------------
(* The network, as the queue sees it (network.rs).                         *)

\* all_alive_participant_ids
alive_participants ==
    {my_participant_id} \cup
    {p \in connected : indexer_heights[my_participant_id] <= indexer_heights[p] + MAX_HEIGHT_DIFF}

\* eligible_leaders_and_maximum_height
maximum_height == Max({indexer_heights[p] : p \in alive_participants})

eligible_leaders ==
    {p \in alive_participants : indexer_heights[p] + STALE_PARTICIPANT_THRESHOLD >= maximum_height}

\* The first of the order that is eligible.
current_leader(r) ==
    LET order == leader_selection_order[r]
        first == Min({i \in 1 .. Len(order) : order[i] \in eligible_leaders})
    IN  order[first]

\* A peer connects, is lost, or reports the height of its indexer.
PeerChanges(p) ==
    /\ \/ connected' = connected \cup {p} /\ p \notin connected /\ UNCHANGED indexer_heights
       \/ connected' = connected \ {p} /\ p \in connected /\ UNCHANGED indexer_heights
       \/ /\ \E h \in ReportedHeights : h > indexer_heights[p] /\
                indexer_heights' = [indexer_heights EXCEPT ![p] = h]
          /\ UNCHANGED connected
    /\ UNCHANGED <<chain, trackerVars, content, requests, given_up>>

-----------------------------------------------------------------------------
\* What a block may hold: a request is made once on a chain, and answered at
\* most once, later.
MayHold(height, prev, reqs, done) ==
    /\ reqs # {} => height \in RequestHeights
    /\ \A r \in reqs : \A b \in ChainTo[prev] : r \notin content[b].requests
    /\ \A r \in done :
          /\ \E b \in ChainTo[prev] : r \in content[b].requests
          /\ \A b \in ChainTo[prev] : r \notin content[b].completed

NewRequest(b) ==
    [block |-> b, active |-> FALSE, attempts |-> 0,
     computed_response |-> FALSE, submitted |-> FALSE]

\* Requests completed by the blocks that become final leave ...
CompletedIn(bs) == UNION {content[b].completed : b \in bs}

WithoutCompleted_OfBlock(f, done) == Restrict(requests, DOMAIN requests \ done)

WithoutCompleted(f, done) == Restrict(requests, DOMAIN requests \ CompletedIn(NewFinalBlocks(f)))

\* ... and the block's own requests enter; one that is there stays as it is.
WithRequests(queue, reqs, b) ==
    [r \in DOMAIN queue \cup reqs |-> IF r \in DOMAIN queue THEN queue[r] ELSE NewRequest(b)]

\* A block comes from the indexer (monitor_block_updates, notify_new_block).
notify_new_block(height, prev, reqs, done) ==
    /\ Len(chain) < MaxBlocks
    /\ MayFollow(height, prev)
    /\ MayHold(height, prev, reqs, done)
    /\ add_block(height, prev)
    /\ content' = Append(content, [requests |-> reqs, completed |-> done])
    /\ requests' = WithRequests(WithoutCompleted(LastFinal(height, prev), done), reqs, Len(chain) + 1)
    /\ indexer_heights' = [indexer_heights EXCEPT ![my_participant_id] = Max({@, height})]
    /\ UNCHANGED <<connected, given_up>>

-----------------------------------------------------------------------------
\* The class decides what happens to a request that is due.  A block that the
\* heights of others push out of the tree is older than the window, too.
Class(r) ==
    classify_block(requests[r].block, Max({maximum_height, maximum_height_available}))

Usable(rs)  == {r \in rs : Class(r) \in {"RecentAndFinal", "OptimisticAndCanonical", "Unknown"}}
Useless(rs) == {r \in rs : Class(r) \in {"NotIncluded", "OlderThanRecentWindow"}}
Led(rs)     == {r \in Usable(rs) : current_leader(r) = my_participant_id}
Exhausted(rs) == {r \in Led(rs) : requests[r].attempts >= MAX_ATTEMPTS_PER_REQUEST_AS_LEADER}

ToAttempt_Optimistic(rs) ==
    {r \in rs \ (Useless(rs) \cup Exhausted(rs)) :
        current_leader(r) = my_participant_id /\ ~ requests[r].submitted}

ToAttempt(rs) == {r \in Led(rs) \ Exhausted(rs) : ~ requests[r].submitted}

Discarded_NoLimit(rs) == Useless(rs)

Discarded(rs) == Useless(rs) \cup Exhausted(rs)

\* `due` are the requests whose last check is CHECK_EACH_REQUEST_INTERVAL ago.
get_requests_to_attempt(due) ==
    LET rs == {r \in due : ~ requests[r].active}
    IN  /\ requests' = [r \in DOMAIN requests \ Discarded(rs) |->
              IF r \in ToAttempt(rs)
              THEN [requests[r] EXCEPT !.active = TRUE, !.attempts = @ + 1]
              ELSE requests[r]]
        /\ given_up' = given_up \cup Exhausted(rs)
        /\ notify_maximum_height_available(maximum_height)
        /\ UNCHANGED <<content, connected, indexer_heights>>

\* The attempt's task: compute the response unless an earlier attempt did,
\* send it, note when, and end.
compute_response(r) ==
    /\ requests[r].active /\ ~ requests[r].computed_response
    /\ requests' = [requests EXCEPT ![r].computed_response = TRUE]
    /\ UNCHANGED <<chain, trackerVars, content, connected, indexer_heights, given_up>>

send_response(r) ==
    /\ requests[r].active /\ requests[r].computed_response
    /\ requests' = [requests EXCEPT ![r].submitted = TRUE, ![r].active = FALSE]
    /\ UNCHANGED <<chain, trackerVars, content, connected, indexer_heights, given_up>>

\* The computation fails or takes too long.
attempt_fails(r) ==
    /\ requests[r].active /\ ~ requests[r].computed_response
    /\ requests' = [requests EXCEPT ![r].active = FALSE]
    /\ UNCHANGED <<chain, trackerVars, content, connected, indexer_heights, given_up>>

\* MAX_LATENCY_BEFORE_EXPECTING_TRANSACTION_TO_FINALIZE passes.
ResponseIsLate(r) ==
    /\ requests[r].submitted
    /\ requests' = [requests EXCEPT ![r].submitted = FALSE]
    /\ UNCHANGED <<chain, trackerVars, content, connected, indexer_heights, given_up>>

Attempt(r) == compute_response(r) \/ send_response(r) \/ attempt_fails(r)

QueueNext ==
    \/ \E height \in 1 .. MaxBlockHeight, prev \in Blocks \cup {NoBlock},
          reqs \in SUBSET RequestIds, done \in SUBSET RequestIds :
          notify_new_block(height, prev, reqs, done)
    \/ \E p \in Peers : PeerChanges(p)
    \/ \E due \in SUBSET DOMAIN requests : get_requests_to_attempt(due)
    \/ \E r \in DOMAIN requests : Attempt(r) \/ ResponseIsLate(r)

\* The loop of monitor_block_updates runs at least once per second, clocks go
\* on, and every attempt ends: its computation has a time-out.
QueueFairness ==
    /\ \A r \in RequestIds :
          /\ WF_queueVars(\E due \in SUBSET DOMAIN requests : r \in due /\ get_requests_to_attempt(due))
          /\ WF_queueVars(r \in DOMAIN requests /\ Attempt(r))
          /\ WF_queueVars(r \in DOMAIN requests /\ ResponseIsLate(r))

QueueSpec == QueueInit /\ [][QueueNext]_queueVars /\ QueueFairness

-----------------------------------------------------------------------------
(* Properties.                                                             *)

Answered(r) == \E i \in 1 .. Len(final_stream) : r \in content[final_stream[i]].completed

\* The first block that brought the request.
BroughtBy(r, b) ==
    /\ r \in content[b].requests
    /\ \A c \in Blocks : r \in content[c].requests => b <= c

\* "Each request will be retried (by the current leader) if it has not been
\* successfully responded to on chain" (PendingRequests): a request on the
\* chain stays in the queue until it is answered by a final block, tried too
\* often or too old, whatever the forks, the pruning and the other nodes' heights
\* do meanwhile.  (The queue remembers the first block that brought it.)
OpenRequestsStay ==
    \A r \in RequestIds, b \in FinalBlocks :
        /\ BroughtBy(r, b)
        /\ Expected(b) # "OlderThanRecentWindow"
        /\ ~ Answered(r)
        /\ r \notin given_up
        => r \in DOMAIN requests

\* No attempt for a request that a final block already answered, nor for one
\* that only a dead fork made: a response would be refused by the contract.
AttemptsUseful(r) ==
    r \in DOMAIN requests' /\ requests'[r].active /\ (r \in DOMAIN requests => ~ requests[r].active)
    => /\ ~ Answered(r)
       /\ Expected(requests'[r].block) \in {"RecentAndFinal", "OptimisticAndCanonical"}

AttemptsAreUseful == [][\A r \in RequestIds : AttemptsUseful(r)]_queueVars

\* The node leads the request, and the request's block is on its chain.
Leads(r) ==
    /\ r \in DOMAIN requests
    /\ Class(r) \in {"RecentAndFinal", "OptimisticAndCanonical"}
    /\ current_leader(r) = my_participant_id

\* A request that this node leads is answered or given up: unless the node loses
\* the lead or the block, a response is sent or the request leaves the queue.
LedRequestsServed ==
    \A r \in RequestIds :
        Leads(r) ~> (~ Leads(r) \/ requests[r].submitted)
=============================================================================
