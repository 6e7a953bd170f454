CONSTANTS
    Modes <- AllModes
    Chunks = 2
    Patience = 1
    Sniffers = {"http", "tls"}
    Domains = {"dom", "hidden"}
    Excluded = {"hidden"}
    Overrides = {"http", "fakedns"}
    RuleLists <- Lists
    ProtocolLists <- Protocols
    MaxUpdates = 1
    None = None
SPECIFICATION Spec
CHECK_DEADLOCK FALSE
INVARIANTS TypeOK TurnedAwayIsShut RulesHold
PROPERTIES ImplementsStream ConnectionSettles
