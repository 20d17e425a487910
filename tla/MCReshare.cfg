CONSTANTS
    a1 = a1 a2 = a2 a3 = a3 a4 = a4 k1 = k1 k2 = k2
    Accounts = {a1, a2, a3, a4}
    PublicKeys = {k1, k2}
    InitialParameters <- PairParams
    InitialDomains <- TwoDomains
    InitialNextDomainId = 2
    Proposals <- JoinLeaveSwap
    DomainProposals <- NoDomains
    Quoted = {}
    Submissions <- Newcomers
    key_event_timeout_blocks = 0
    MaxEpoch = 2
    MaxAttempt = 1
    MaxHeight = 2
SPECIFICATION IdSpec
SYMMETRY KeySymmetry
INVARIANTS KeysetMatchesDomains EpochIdentifiesParameters
PROPERTIES PublicKeysPermanent EpochGrowsWithParameters VotesExpireWithEpoch
    ResharingConsented KeyEventIdsStartOnce
