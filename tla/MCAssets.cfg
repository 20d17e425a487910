CONSTANTS
    n1 = n1 n2 = n2 n3 = n3 t1 = t1 t2 = t2
    all_participants = {n1, n2, n3}
    my_participant_id = n1
    threshold = 2
    desired_to_buffer = 2
    concurrency = 1
    batch_size = 1
    num_assets_to_process = 2
    Takers = {t1, t2}
    MaxClock = 1
    MaxIds = 2
    UnsteadyPeers = {n2}
    MaxAliveChanges = 2
    MigratingNodes = {n2}
    MaxChanges = 1
SPECIFICATION AssetsSpec
CHECK_DEADLOCK FALSE
INVARIANTS BarriersHold HandedOutOnce AssetsOfThisConfig
PROPERTIES IdsNotReused CallersServed
