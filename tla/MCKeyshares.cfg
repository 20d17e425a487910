CONSTANTS
    a1 = a1 a2 = a2 a3 = a3 a4 = a4 k1 = k1 k2 = k2
    Accounts = {a1, a2}
    PublicKeys = {k1}
    InitialParameters <- PairParams
    InitialDomains <- NoDomain
    InitialNextDomainId = 0
    Proposals <- SameParams
    DomainProposals <- AddZero
    Quoted = {}
    Submissions = {}
    key_event_timeout_blocks = 0
    MaxEpoch = 1
    MaxAttempt = 1
    MaxHeight = 1
    MaxRuns = 2
SPECIFICATION NodesSpec
INVARIANTS  KeysetLoadable SharesOfOneRun
