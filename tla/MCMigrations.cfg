CONSTANTS
    a1 = a1 a2 = a2 a3 = a3 k1 = k1
    Accounts = {a1, a2, a3}
    PublicKeys = {k1}
    FirstParameters <- Trio
    FirstKeys <- OneKey
    Proposals <- PairAndTrio
    NodesOf = {"old", "new"}
    Hashes = {"h0"}
    Policies = {"none"}
    InitialHash = "h0"
    InitialPolicy = "none"
    InitialNode = "old"
    tee_upgrade_deadline_duration = 1
    MaxEpoch = 1
    MaxUpdates = 0
    MaxTime = 0
    MaxCalls = 2
SPECIFICATION GovernanceSpec
INVARIANTS MigrationsCancelled
