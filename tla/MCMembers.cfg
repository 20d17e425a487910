CONSTANTS
    a1 = a1 a2 = a2 a3 = a3 a4 = a4 k1 = k1 k2 = k2
    Accounts = {a1, a2, a3, a4}
    PublicKeys = {k1}
    InitialParameters <- TrioParams
    InitialDomains <- OneDomain
    InitialNextDomainId = 1
    Proposals <- TrioProposals
    DomainProposals <- AddTwo
    Quoted = {a3}
    Submissions <- KeyOfOther
    key_event_timeout_blocks = 0
    MaxEpoch = 2
    MaxAttempt = 0
    MaxHeight = 1
SPECIFICATION Spec
INVARIANTS TypeOK KeysetMatchesDomains ParametersValid VerifyTeeResolves
    ResharingCommitteeSound ActiveParticipantsAttested
PROPERTIES DomainIdsNeverReused DomainVotesFollowTheirVoter ImplementsCommittee
