SPECIFICATION Spec
CONSTANTS
    Out = {"o1", "o2"}
    Tx = {"paid", "send", "other"}
    NoTx = "none"
    Ins <- MCIns
    Pays <- MCPays
    OwnTx = {"send"}
    Checkpoint = 0
    Dense = 1
    Granularity = 2
    RestoreHeights = {1}
    OldCaches = {2}
    StartTxs <- MCStartTxs
    MaxBatch = 4
    MinBatch = 2
    ListMax = 2
    SpendableAge = 1
    Reorgs = {2}
    MaxEvents = 3
INVARIANTS BooksSound HeldBackByPending
CHECK_DEADLOCK FALSE
PROPERTIES Settles
