CONSTANTS
    a1 = a1 a2 = a2 a3 = a3 k1 = k1
    Accounts = {a1, a2, a3}
    PublicKeys = {k1}
    FirstParameters <- Trio
    FirstKeys <- OneKey
    Proposals <- PairAndTrio
    NodesOf = {"old", "new"}
    Hashes = {"h0", "h1", "h2"}
    Policies = {"none", "bitcoin"}
    InitialHash = "h0"
    InitialPolicy = "none"
    InitialNode = "old"
    tee_upgrade_deadline_duration = 1
    MaxEpoch = 2
    MaxUpdates = 1
    MaxTime = 2
    MaxCalls = 4
SPECIFICATION GovernanceSpec
INVARIANTS GracePeriodKept
PROPERTIES UpdatesApproved RecordsChangeByOwnCalls
