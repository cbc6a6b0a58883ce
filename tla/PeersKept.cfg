SPECIFICATION Spec
CONSTANTS
    s = s a1 = a1 b = b
    Addr = {s, a1, b}
    HostOf <- MCHost
    WhiteLimit = 1
    GrayLimit = 2
    IdOf <- MCIds
    ListOf <- MCLists
    Steady = {s}
    Seeds <- MCSeeds
    BanList = {}
    OutPeers = 2
    InPeers = 1
    MaxDialing = 2
    Anchors = 1
    FailsBeforeBlock = 1
    Callers = {b}
    MaxEvents = 1
INVARIANTS BookSound OnePerNode DialingExact
PROPERTY FindsPeers
CHECK_DEADLOCK FALSE
