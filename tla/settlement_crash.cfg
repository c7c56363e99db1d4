SPECIFICATION Spec
CONSTANTS
    Players = {p1, p2}
    UnitCents = 2
    InitialUnits = 2
    MaxUnits = 5
    Needs = {1, 3}
    LegacyCents = {0, 2}
    ExternalDeltas <- OtherPlugins
    OfflineChanges = FALSE
    MaxOps = 3
    MaxKills = 2
    MaxPowerLosses = 0
    MaxFaults = 0
    MaxExternal = 1
SYMMETRY PlayerSymmetry
INVARIANTS TypeOK ExactlyOnce FundingSuffices NothingMinted ConservedWhenSettled
