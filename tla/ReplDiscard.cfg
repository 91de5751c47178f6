\* A transfer that is cancelled, and its partial discarded.
SPECIFICATION Spec
CONSTANTS
    Names = {"a", "b"}
    MaxId = 3
    Screens = {"tab", "tui"}
    Settings <- Situations
    MissSets <- Missing
    Events = {"snap", "prune", "foreign", "mark", "network", "polkit"}
    None = None
PROPERTIES
    DiscardTakesPartial
CHECK_DEADLOCK FALSE
