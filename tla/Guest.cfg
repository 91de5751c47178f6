\* The script, with and without -force, over vsock and over TCP, run again and
\* again against a daemon that may crash or fail.
SPECIFICATION GuestFairSpec
CONSTANTS
    Conns = {c1, c2}
    Vms <- OneVm
    Zvols <- OneZvol
    TxnIds = {t1}
    AutoSnaps = {a1}
    Data = {1, 2}
    Names <- OneNames
    Longer <- OneLonger
    Disks0 <- OneDisks
    Calls = {"begin", "rollback", "commit"}
    Events = {"crash", "zfs", "state", "virsh", "lost", "sanoid", "prune"}
    None = None
    Guest = "v1"
    Disk = "z1"
    Scripts = {{"force", "unmount", "dev"}, {"unmount", "dev"}}
    Transports = {"vsock", "tcp"}
    GuestFails = TRUE
INVARIANTS
    UndoneBeforeCommit
PROPERTIES
    QuietRollback
    ScriptEnds
