CONSTANTS
    n1 = n1 n2 = n2 n3 = n3 t1 = t1
    all_participants = {n1, n2, n3}
    my_participant_id = n1
    threshold = 2
    desired_to_buffer = 1
    concurrency = 1
    batch_size = 1
    num_assets_to_process = 1
    Takers = {t1}
    MaxClock = 1
    MaxIds = 2
    UnsteadyPeers = {}
    MaxAliveChanges = 0
    MigratingNodes = {}
    MaxChanges = 1
SPECIFICATION ReservedSpec
CHECK_DEADLOCK FALSE
INVARIANTS UniqueIds
