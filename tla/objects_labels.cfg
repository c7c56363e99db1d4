SPECIFICATION FairSpec
CONSTANTS
    MaxIds = 2
    MaxVersions = 2
    MaxToggles = 2
    MaxEvents = 2
INVARIANTS Closable NoStrangeLabel
PROPERTIES NeverOlder LabelCatchesUp
