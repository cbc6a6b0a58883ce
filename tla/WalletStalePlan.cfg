SPECIFICATION GuiSpec
CONSTANTS
    Out = {"o1", "o2", "o3"}
    Tx = {"paid", "tip", "send"}
    NoTx = "none"
    Ins <- MCIns2
    Pays <- MCPays2
    OwnTx = {"send"}
    Checkpoint = 0
    Dense = 1
    Granularity = 2
    RestoreHeights = {0}
    OldCaches = {}
    StartTxs <- MCStartTxs2
    MaxBatch = 4
    MinBatch = 4
    ListMax = 4
    SpendableAge = 1
    Reorgs = {2}
    MaxEvents = 1
INVARIANT RecordsItsInputs
CHECK_DEADLOCK FALSE
