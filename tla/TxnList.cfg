\* list reads the records one by one while they are created and removed; replies
\* are lost, records cannot be removed, audit lines cannot be written.
SPECIFICATION Spec
CONSTANTS
    Conns = {c1, c2}
    Vms <- OneVm
    Zvols <- OneZvol
    TxnIds = {t1, t2}
    AutoSnaps = {}
    Data = {d1}
    Names <- OneNames
    Longer <- OneLonger
    Disks0 <- OneDisks
    Calls = {"begin", "rollback", "commit", "list"}
    Events = {"crash", "lost", "remove", "audit"}
    None = None
SYMMETRY Symmetry
VIEW Unaudited
INVARIANTS
    AnswersInv
    ListComplete
