CONSTANTS
    me = me peer = peer r1 = r1
    window_size = 3
    MaxBlocks = 5
    MaxBlockHeight = 5
    MaxSkip = 1
    MaxRoots = 1
    all_participants = {me, peer}
    my_participant_id = me
    RequestIds = {r1}
    leader_selection_order <- PeerFirst
    STALE_PARTICIPANT_THRESHOLD = 1
    MAX_HEIGHT_DIFF = 2
    MAX_ATTEMPTS_PER_REQUEST_AS_LEADER = 2
    ReportedHeights = {5}
    RequestHeights = {2}
SPECIFICATION QueueSpec
CHECK_DEADLOCK FALSE
INVARIANTS ClassifiedByChain FinalStreamContiguous OpenRequestsStay
PROPERTIES AttemptsAreUseful LedRequestsServed
