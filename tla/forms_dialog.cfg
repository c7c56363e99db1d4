SPECIFICATION FairSpec
CONSTANTS
    Players = {alice}
    Configs <- OneConfig
    Numbers = {2, 3}
    Garbage = Garbage
    Books <- TwoBooks
    Unit = 2
    FirstPrice = 20
    Cooldown = 1
    MaxPackets = 2
    MaxTasks = 2
    MaxMishaps = 1
INVARIANTS OpenFormsExact OrdersAsReviewed DefaultIsNearest OneEffectPerClick
PROPERTIES ClickOpensForm
