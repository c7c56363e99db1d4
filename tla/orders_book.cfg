SPECIFICATION Spec
CONSTANTS
    Players = {p1, p2, p3}
    Targets = {t1}
    Items = {i1}
    Prices = {1, 2}
    MaxQty = 2
    InitialBalance = 3
    MaxCents = 5
    Deltas <- NoDeltas
    MaxMinted = 6
    MaxOrders = 3
    MaxMarkets = 1
SYMMETRY PlayerSymmetry
INVARIANTS
    TypeOK
    ReserveExact
    NoCrossedBook
    StatusAgrees
    MoneyConserved
PROPERTIES
    PriceTimePriority
    MakersSettledExactly
