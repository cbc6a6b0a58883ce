SPECIFICATION Spec
CONSTANTS
    Peer = {"p1", "p2"}
    Block <- MCBlock
    Genesis = "g"
    Path <- MCPath
    Work <- MCWork
    Bad = {"x2"}
    Other = {"p2"}
    Known = {"g"}
    StartTip <- MCStartTip
    MovesTo <- MCMovesTo
    DefaultBatch = 1
    MaxBatch = 2
    Epoch = 3
    ReplyMax = 3
    NSpansThreshold = 1
    SizeThreshold = 1
    NearBlocks = 1
    NextAfter = 1
    StandbyAfter = 1
    MaxFaults = 1
INVARIANTS QueueSound BansDeserved
CHECK_DEADLOCK FALSE
PROPERTIES SyncCompletes PoolAsked
