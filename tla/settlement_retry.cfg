SPECIFICATION Spec
CONSTANTS
    Players = {p1}
    UnitCents = 2
    InitialUnits = 2
    MaxUnits = 5
    Needs = {1, 3}
    LegacyCents = {0}
    ExternalDeltas <- NoDeltas
    OfflineChanges = FALSE
    MaxOps = 3
    MaxKills = 0
    MaxPowerLosses = 0
    MaxFaults = 1
    MaxExternal = 0
INVARIANTS ExactlyOnce
