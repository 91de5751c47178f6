SPECIFICATION DeskSpec
CONSTANTS
    Kinds = {"favorites", "servers", "clients", "jobs"}
    Sessions = {"s1", "s2"}
    Entries = {"a", "b"}
    Cap = 1
    MaxOps = 3
    MaxNode = 3
    NoEntry = NoEntry
    Jobs = {"a", "b"}
    Units = {"u", "v"}
    Times = {"x"}
    Tabs = {1, 2}
    NoFile = NoFile
    Torn = Torn
    MaxJobOps = 2
    Servers = {"a", "b"}
    Paths = {"p", "q"}
    Dialogs = {1, 2}
    NoPath = "none"
    MaxKey = 2
    MaxKeyOps = 3
    Store = "s"
    Layers = {"l", "m"}
    MaxTag = 2
    MaxStoreOps = 5
    Shelves = {3, 6, 9, 13}
    Loose = 1
    Typed <- MCTyped
    MaxSteps = 3
    Order <- MCOrder
    Worlds <- MCWorlds
    Queries <- MCQueries
    Verbs = {"destroy", "create", "import", "hold", "riskyProperty"}
    NoName = NoName
    MaxTaps = 3
    Tree <- MCTree
    SnapTree <- MCSnapTree
    Vanished <- MCVanished
    NoPath0 = NoPath0
    MaxClicks = 5
INVARIANTS
    WholeFile
    SavesAddUp
    NoOrphan
    PublicPairs
    RollbackIsWhole
    SuggestSound
    ToleranceIsExact
    TreeIsWhole
    DetailsFollow
    RestoreIsListed
PROPERTIES
    SaidIsSo
    ReadyLogsIn
    KeepsDataset
\* Every part may stop: nobody need do anything.
CHECK_DEADLOCK FALSE
