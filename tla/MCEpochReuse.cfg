CONSTANTS
    a1 = a1 a2 = a2 a3 = a3 a4 = a4 k1 = k1 k2 = k2
    Accounts = {a1, a2, a3}
    PublicKeys = {k1}
    InitialParameters <- PairParams
    InitialDomains <- OneDomain
    InitialNextDomainId = 1
    Proposals <- JoinOrLeave
    DomainProposals <- AddOne
    Quoted = {}
    Submissions <- OwnKeys
    key_event_timeout_blocks = 0
    MaxEpoch = 3
    MaxAttempt = 1
    MaxHeight = 1
SPECIFICATION IdSpec
INVARIANTS EpochIdentifiesParameters
