SPECIFICATION Spec
CONSTANTS
    Slots <- ThreeSlots
    StackSize = 2
    StartInventory <- FullStacks
    MarketStock = 3
    Quantities = {3}
    MaxEscrows = 2
    MaxEvents = 1
    MaxFaults = 1
    MaxKills = 1
    MaxToggles = 1
INVARIANTS ItemsExact ReservationExact CleanedLeftNoMark
PROPERTIES ImplementsCustody
