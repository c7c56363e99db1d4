SPECIFICATION Spec
CONSTANTS
    Players = {p1, p2}
    Targets = {t1, t2}
    Items = {i1, i2}
    Prices = {1}
    MaxQty = 2
    InitialBalance = 0
    MaxCents = 2
    Deltas <- AdminDeltas
    MaxMinted = 2
    MaxOrders = 2
    MaxMarkets = 2
SYMMETRY FullSymmetry
INVARIANTS
    NoOrphanOrders
    BindingsMatchMarkets
    MoneyConserved
    ItemsConserved
