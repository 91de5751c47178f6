\* One run after the other; syncoid fails on a dataset.
SPECIFICATION Spec
CONSTANTS
    Runs = {"timer"}
    Timer = "timer"
    Datasets = {"rpool", "home", "vm"}
    Root = "rpool"
    Source0 = {"rpool", "home", "vm"}
    Recursive = TRUE
    Excluded = {}
    SrcHits = {}
    DstHits = {}
    SnapSets <- AllOfThree
    MaxSnap = 2
    Pruned = {}
    Events = {"skip"}
INVARIANTS
    PassedIsReplicated
