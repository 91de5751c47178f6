\* Fair handlers whose commands and files may fail, sanoid, in a process that stays up.
SPECIFICATION FairSpec
CONSTANTS
    Conns = {c1, c2}
    Vms <- OneVm
    Zvols <- OneZvol
    TxnIds = {t1}
    AutoSnaps = {a1}
    Data = {d1}
    Names <- OneNames
    Longer <- OneLonger
    Disks0 <- OneDisks
    Calls = {"begin", "rollback", "commit", "list"}
    Events = {"zfs", "state", "sanoid", "prune"}
    None = None
PROPERTIES
    Answered
    CommittedLeavesDisk
