CONSTANTS
    a1 = a1 a2 = a2 a3 = a3 a4 = a4 k1 = k1 k2 = k2 btc = btc
    Accounts = {a1, a2}
    PublicKeys = {k1, k2}
    InitialParameters <- PairParams
    InitialDomains <- OneDomain
    InitialNextDomainId = 1
    Proposals <- SameParams
    DomainProposals <- AddOne
    Quoted = {a2}
    Submissions <- OwnKeys
    key_event_timeout_blocks = 0
    MaxEpoch = 1
    MaxAttempt = 0
    MaxHeight = 0
    UserRequests <- SomeRequests
    Purpose <- TwoPurposes
    Policies <- SomePolicies
    MaxYields = 2
SPECIFICATION RequestsSpec
SYMMETRY KeySymmetry
INVARIANTS PendingEntriesLive LoneRequestAnswerable AnsweredUnderRequestedKey
