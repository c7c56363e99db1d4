SPECIFICATION Spec
CONSTANTS
    Players = {p1}
    UnitCents = 2
    InitialUnits = 2
    MaxUnits = 5
    Needs = {1, 3}
    LegacyCents = {0, 2}
    ExternalDeltas <- NoDeltas
    OfflineChanges = FALSE
    MaxOps = 1
    MaxKills = 0
    MaxPowerLosses = 0
    MaxFaults = 0
    MaxExternal = 0
INVARIANTS NoLegacyWithdrawn
