SPECIFICATION Spec
CONSTANTS
    s = s a1 = a1 b = b
    Addr = {s, a1, b}
    HostOf <- OwnHost
    WhiteLimit = 2
    GrayLimit = 2
    IdOf <- MCIds
    ListOf <- MCLists
    Steady = {s, a1}
    Seeds <- MCSeedsBanned
    BanList = {"hs"}
    OutPeers = 1
    InPeers = 1
    MaxDialing = 2
    Anchors = 1
    FailsBeforeBlock = 1
    Callers = {}
    MaxEvents = 0

PROPERTY FindsPeers
CHECK_DEADLOCK FALSE
