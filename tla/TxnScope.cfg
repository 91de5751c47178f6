\* Two machines with overlapping names are started and stopped, and disks attached
\* and detached, while they begin and roll back.
SPECIFICATION Spec
CONSTANTS
    Conns = {c1, c2}
    Vms <- TwoVms
    Zvols <- TwoZvols
    TxnIds = {t1}
    AutoSnaps = {}
    Data = {d1}
    Names <- TwoNames
    Longer <- TwoLonger
    Disks0 <- TwoDisks
    Calls = {"begin", "rollback", "commit"}
    Events = {"power", "attach"}
    None = None
SYMMETRY Symmetry
VIEW Unaudited
PROPERTIES
    ScopeKept
    HeldIsNotRolledBack
