SPECIFICATION FairSpec
CONSTANTS
    Slots <- ThreeSlots
    StackSize = 2
    StartInventory <- TwoStacks
    MarketStock = 0
    Quantities = {2}
    MaxEscrows = 2
    MaxEvents = 1
    MaxFaults = 1
    MaxKills = 1
    MaxToggles = 2
PROPERTIES EscrowsFinish DeliveriesArrive
