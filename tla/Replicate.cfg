\* Three screens, everything that may change below them, and no answer.
SPECIFICATION FairSpec
CONSTANTS
    Names = {"a", "b"}
    MaxId = 3
    Screens = {"tab", "menu", "tui"}
    Settings <- Situations
    MissSets <- Missing
    Events = {"snap", "prune", "foreign", "mark", "network", "polkit"}
    None = None
INVARIANTS
    BareOnlyByRestore
PROPERTIES
    
    ChainHolds
    TransferEnds
CHECK_DEADLOCK FALSE
