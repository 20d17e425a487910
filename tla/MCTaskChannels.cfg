SPECIFICATION TasksSpec
CONSTANTS
    l = l
    f1 = f1
    f2 = f2
    leader = l
    Nodes = {l, f1, f2}
    Talk <- TalkOfThree
    LRU_CAPACITY = 1
    MaxChannels = 1
    MaxFaults = 1
INVARIANTS
    SendersInvariant
    OwnedHeldByAll
    StartComesFirst
PROPERTIES
    MeshRecovers
    GenerationCompletes
CHECK_DEADLOCK FALSE
