SPECIFICATION Spec
CONSTANTS
    MoneySupply = 20000
    EmissionSpeed = 3
    FullRewardZone = 10
    SurgeFactor = 2
    ReferenceWeight = 10
    QuantizationMask = 10
    FeePlaces = 2
    Capacity = 3
    LimbBase = 16
    Target = 4
    Window = 4
    Cut = 1
    Lag = 2
    WindowV3 = 4
    CutV2 = 1
    LagV2 = 1
    Network = {"scaled", "lwma", "classic"}
    Forks <- MCForks
    Pinned <- MCPinned
    RewardWindow = 2
    StampWindow = 4
    StampWindowV2 = 3
    GenesisRow <- MCGenesis
    Gaps <- MCGaps
    Weights = {7, 19}
    Shortfalls = {0, 1}
    Fee = 1
    MaxHeight = 6
INVARIANTS CacheExact RollingMedianExact DifficultySound AltDifficultyAgrees MedianTimeAdvances HeavierEarnsLess LowTierSuffices
