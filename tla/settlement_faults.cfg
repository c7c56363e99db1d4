SPECIFICATION FairSpec
CONSTANTS
    Players = {p1, p2}
    UnitCents = 2
    InitialUnits = 2
    MaxUnits = 5
    Needs = {3}
    LegacyCents = {0}
    ExternalDeltas <- OtherPlugins
    OfflineChanges = TRUE
    MaxOps = 2
    MaxKills = 0
    MaxPowerLosses = 2
    MaxFaults = 1
    MaxExternal = 1
INVARIANTS BackingExact DurableUnderPowerLoss
PROPERTIES SettlesAndSweeps
