\* The timer and "Run now" at the same time, and everything that may fail.
SPECIFICATION FairSpec
CONSTANTS
    Runs = {"timer", "now"}
    Timer = "timer"
    Datasets = {"rpool", "home", "vm"}
    Root = "rpool"
    Source0 = {"rpool", "home"}
    Recursive = TRUE
    Excluded = {}
    SrcHits = {}
    DstHits = {}
    SnapSets <- AllOfThree
    MaxSnap = 2
    Pruned <- HomeSecond
    Events = {"network", "skip", "wedge", "hang", "misfit", "nohost", "state", "local", "create"}
VIEW Viewed
INVARIANTS
    TypeOK
    NoneMissing
    CleanPullPasses
    FailureShows
PROPERTIES
    RunEnds
