---------------------------- MODULE RecentBlocks ----------------------------
(***************************************************************************)
(* A node's view of the recent blocks of the chain: which blocks are       *)
(* final, which are on the canonical chain, and which are too old to       *)
(* matter.  It is built from the optimistic blocks of the indexer, forks   *)
(* included.                                                               *)
(*                                                                         *)
(* crates/node/src/requests/recent_blocks_tracker.rs                       *)
(*                                                                         *)
(* `chain` holds the blocks in the order in which the indexer gives them:  *)
(* block b is chain[b], and stands for its hash.  The chain itself is      *)
(* external.  As the tracker expects of the indexer, a parent comes before *)
(* its children and there are no gaps, but forks come in any order and may *)
(* start at parents that are never given.  As of consensus, we ask that    *)
(* blocks that headers call final lie on one chain.                        *)
(***************************************************************************)
EXTENDS Integers, SequencesExt

CONSTANTS
    window_size,
    MaxBlocks, MaxBlockHeight,      \* bounds on the chain: blocks, height,
    MaxSkip, MaxRoots               \* heights skipped, blocks without parent

ASSUME BlocksAssumption ==
    /\ window_size \in Nat \ {0} /\ MaxBlocks \in Nat /\ MaxBlockHeight \in Nat
    /\ MaxSkip \in Nat /\ MaxRoots \in Nat

VARIABLES
    chain,              \* blocks given so far: [height, prev_hash, last_final_block]
    hash_to_node,       \* the blocks that are kept
    is_final,           \* kept blocks marked final
    canonical,          \* kept blocks marked canonical
    final_head, canonical_head,
    maximum_height_available,
    final_stream        \* final blocks handed out by add_block, in order

trackerVars == <<hash_to_node, is_final, canonical, final_head, canonical_head,
                 maximum_height_available, final_stream>>

NoBlock == 0
Blocks  == 1 .. Len(chain)

TrackerInit ==
    /\ chain = <<>>
    /\ hash_to_node = {} /\ is_final = {} /\ canonical = {}
    /\ final_head = NoBlock /\ canonical_head = NoBlock
    /\ maximum_height_available = 0
    /\ final_stream = <<>>

-----------------------------------------------------------------------------
(* The chain.                                                              *)

\* A block and its ancestors, as far back as the indexer gave them.
ChainTo[b \in Nat] ==
    IF b \in Blocks THEN {b} \cup ChainTo[chain[b].prev_hash] ELSE {}

\* The latest ancestor with two successors at consecutive heights is final.
LastFinal(height, prev) ==
    IF prev = NoBlock THEN NoBlock
    ELSE IF /\ chain[prev].prev_hash # NoBlock
            /\ chain[prev].height = height - 1
            /\ chain[chain[prev].prev_hash].height = height - 2
         THEN chain[prev].prev_hash
         ELSE chain[prev].last_final_block

\* Headers never call two blocks of different forks final.
FinalityAgrees(f) ==
    \A b \in Blocks : LET g == chain[b].last_final_block
                      IN  f # NoBlock /\ g # NoBlock => f \in ChainTo[g] \/ g \in ChainTo[f]

\* A fork that left the final chain does not overtake it.  A parent that is
\* not given is not on the final chain, once a final block was given.
LeftFinalChain(prev) ==
    \E b \in Blocks : LET g == chain[b].last_final_block
                      IN  g # NoBlock /\ g \notin ChainTo[prev] /\ prev \notin ChainTo[g]

\* The next block: above its parent, or one whose parent is not given.
MayFollow(height, prev) ==
    /\ prev # NoBlock => height \in chain[prev].height + 1 .. chain[prev].height + 1 + MaxSkip
    /\ prev = NoBlock =>
          /\ height <= 1 + MaxSkip
          /\ Cardinality({b \in Blocks : chain[b].prev_hash = NoBlock}) < MaxRoots
    /\ LeftFinalChain(prev) => height <= chain[canonical_head].height
    /\ FinalityAgrees(LastFinal(height, prev))

-----------------------------------------------------------------------------
(* The tracker.                                                            *)

\* The node and its ancestors in the tree: the parent link of a node whose
\* parent is unknown or pruned is None.
NodesTo(b, nodes) == {x \in ChainTo[b] : \A y \in ChainTo[b] : y >= x => y \in nodes}

\* The walk up from b ends before the first node that is marked.
WalkUp(b, nodes, marked) ==
    {x \in NodesTo(b, nodes) : \A y \in NodesTo(b, nodes) : y >= x => y \notin marked}

\* update_canonical_head, for a new head on top of prev: the walk up from
\* the new head ends at the common ancestor, the walk up from the old head
\* takes the marks away that it finds before it.
CommonAncestor(prev) == Max((NodesTo(prev, hash_to_node) \cap canonical) \cup {NoBlock})

OffCanonical(prev) ==
    {x \in NodesTo(canonical_head, hash_to_node) : x > CommonAncestor(prev)}

update_canonical_head(b, prev) ==
    {b} \cup ((canonical \cup WalkUp(prev, hash_to_node, canonical)) \ OffCanonical(prev))

\* The lowest height of the window: saturating_sub and add(1).
WindowStart(max_height) ==
    (IF max_height < window_size THEN 0 ELSE max_height - window_size) + 1

minimum_height_to_keep_Window(max_height, final_height) == WindowStart(max_height)

minimum_height_to_keep(max_height, final_height) ==
    Min({WindowStart(max_height), final_height})

\* prune_old_blocks: heights grow along the chain, so all that is below the
\* minimum hangs off the root.
prune_old_blocks(blocks, nodes, max_height, head) ==
    IF head = NoBlock THEN nodes
    ELSE {b \in nodes :
            blocks[b].height >= minimum_height_to_keep(max_height, blocks[head].height)}

\* maybe_update_final_head: the blocks that become final, and the head.
NewFinalBlocks(f) == IF f \in hash_to_node THEN WalkUp(f, hash_to_node, is_final) ELSE {}

UpdatedFinalHead(f) ==
    IF /\ f \in hash_to_node
       /\ final_head = NoBlock \/ chain[final_head].height < chain[f].height
    THEN f ELSE final_head

\* add_block for the block that the indexer gives next.  The indexer gives each
\* block once; the tracker refuses one that it has, without a change.
add_block(height, prev) ==
    LET b      == Len(chain) + 1
        f      == LastFinal(height, prev)
        blocks == Append(chain, [height |-> height, prev_hash |-> prev, last_final_block |-> f])
        head   == UpdatedFinalHead(f)
        max    == Max({height, maximum_height_available})
        kept   == prune_old_blocks(blocks, hash_to_node \cup {b}, max, head)
        higher == canonical_head = NoBlock \/ height > chain[canonical_head].height
    IN  /\ chain' = blocks
        /\ final_head' = head
        /\ final_stream' = final_stream \o SetToSortSeq(NewFinalBlocks(f), <)
        /\ canonical_head' = IF higher THEN b ELSE canonical_head
        /\ maximum_height_available' = max
        /\ hash_to_node' = kept
        /\ is_final' = (is_final \cup NewFinalBlocks(f)) \cap kept
        /\ canonical' = (IF higher THEN update_canonical_head(b, prev) ELSE canonical) \cap kept

notify_maximum_height_available(height) ==
    LET max  == Max({height, maximum_height_available})
        kept == prune_old_blocks(chain, hash_to_node, max, final_head)
    IN  /\ maximum_height_available' = max
        /\ hash_to_node' = kept
        /\ is_final' = is_final \cap kept
        /\ canonical' = canonical \cap kept
        /\ UNCHANGED <<chain, final_head, canonical_head, final_stream>>

\* classify_block, with max_height the height of the window.
classify_block_ByCanonical(b, max_height) ==
    IF WindowStart(max_height) > chain[b].height THEN "OlderThanRecentWindow"
    ELSE IF b \in canonical THEN "OptimisticAndCanonical" ELSE "OptimisticButNotCanonical"

classify_block(b, max_height) ==
    IF WindowStart(max_height) > chain[b].height THEN "OlderThanRecentWindow"
    ELSE IF b \notin hash_to_node THEN "Unknown"
    ELSE IF b \in is_final THEN "RecentAndFinal"
    ELSE IF final_head # NoBlock /\ chain[b].height <= chain[final_head].height THEN "NotIncluded"
    ELSE IF b \in canonical THEN "OptimisticAndCanonical"
    ELSE "OptimisticButNotCanonical"

-----------------------------------------------------------------------------
(* Properties.                                                             *)

\* What the headers say is final, and the canonical chain by definition: the
\* chain of the block of greatest height that was given first.
FinalBlocks   == UNION {ChainTo[chain[b].last_final_block] : b \in Blocks}
HighestFinal  == Max({chain[b].height : b \in FinalBlocks} \cup {0})
CanonicalTips == {b \in Blocks : \A c \in Blocks :
                    chain[b].height > chain[c].height \/ (chain[b].height = chain[c].height /\ b <= c)}

\* The class that CheckBlockResult documents, computed from the whole chain.
Expected(b) ==
    IF chain[b].height <= maximum_height_available - window_size THEN "OlderThanRecentWindow"
    ELSE IF b \in FinalBlocks THEN "RecentAndFinal"
    ELSE IF chain[b].height <= HighestFinal THEN "NotIncluded"
    ELSE IF \E t \in CanonicalTips : b \in ChainTo[t] THEN "OptimisticAndCanonical"
    ELSE "OptimisticButNotCanonical"

\* Every block that was given is classified as CheckBlockResult documents,
\* although marks are kept on a pruned tree, forks come in any order and other
\* nodes move the window (classify_block against add_block, prune_old_blocks).
ClassifiedByChain ==
    \A b \in Blocks : classify_block(b, maximum_height_available) = Expected(b)

\* "It is guaranteed that the new final blocks returned from multiple calls to
\* add_block are contiguous" (AddBlockResult), also when finality is delayed
\* beyond the window: nothing that is needed for it is pruned.
FinalStreamContiguous ==
    \A i \in 1 .. (Len(final_stream) - 1) :
        chain[final_stream[i + 1]].prev_hash = final_stream[i]
=============================================================================
