\* One zvol, two transactions, two requests at a time; crashes, failures of zfs
\* and of the state directory, guest writes, sanoid.
SPECIFICATION Spec
CONSTANTS
    Conns = {c1, c2}
    Vms <- OneVm
    Zvols <- OneZvol
    TxnIds = {t1, t2}
    AutoSnaps = {a1}
    Data = {d1, d2}
    Names <- OneNames
    Longer <- OneLonger
    Disks0 <- OneDisks
    Calls = {"begin", "rollback", "commit"}
    Events = {"crash", "zfs", "state", "write", "sanoid"}
    None = None
SYMMETRY Symmetry
VIEW Unaudited
INVARIANTS
    AckedIsDurable
    CommitOnce
    ErrorsAreClean
PROPERTIES
    LostOnlyToOlder
    StoreSpec
