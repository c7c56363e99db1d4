SPECIFICATION FairSpec
CONSTANTS
    Players = {alice, bob}
    Ops = {bob}
    Items = {i1}
    NoItem = NoItem
    Prices = {2}
    Stock = 2
    Balance = 2
    MaxAttempts = 2
    MaxListings = 2
    MaxMishaps = 2
INVARIANTS ItemsExact MoneyExact BindingExact Protected
PROPERTIES SoldFromFrame PaidArrives
