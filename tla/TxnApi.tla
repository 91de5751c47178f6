------------------------------- MODULE TxnApi -------------------------------
(***************************************************************************)
(* The host-side transaction daemon, cmd/zxplore-api/main.go.              *)
(*                                                                         *)
(* Every connection is served by a goroutine of its own and no lock is     *)
(* held anywhere, so the requests interleave at every command they run     *)
(* (zfs, virsh) and at every file they touch.  All the state that survives *)
(* a request is outside the process: the snapshots of the pool, the record *)
(* files below STATE_DIR/txns, the audit log.  A handler is a sequence of  *)
(* steps, pc[c] saying what connection c does next.                        *)
(***************************************************************************)
EXTENDS Naturals, FiniteSets

CONSTANTS
    Conns,      \* connections that may be served at the same time
    Vms,        \* virtual machines
    Zvols,      \* datasets of type volume below ZXPLORE_VM_BASE
    TxnIds,     \* the names "zxplore-txn-<epoch>-<rand>" begin may draw
    AutoSnaps,  \* the names of sanoid's snapshots
    Data,       \* the contents a zvol may hold
    Names,      \* Names[v]: the zvols <base>/<v> and <base>/<v>-<name>
    Longer,     \* Longer[z]: z, and the zvols whose path starts with z's path
    Disks0,     \* Disks0[v]: the zvols the definition of v names at first
    Calls,      \* the operations the clients of the instance call
    Events,     \* what the environment does in the instance
    None        \* no value

Ops == {"begin", "rollback", "commit", "list"}

AllEvents == {"crash",      \* the daemon is killed, and restarted
              "virsh",      \* a virsh command fails
              "zfs",        \* a zfs command fails though it could succeed
              "state",      \* the state directory cannot be written
              "remove",     \* a record file cannot be removed
              "audit",      \* the audit log cannot be written
              "lost",       \* a reply misses the connection's deadline
              "write",      \* a guest writes to its disk
              "sanoid",     \* sanoid takes a snapshot
              "prune",      \* sanoid removes one of its own
              "power",      \* a virtual machine is started or stopped
              "attach"}     \* a disk is attached or detached

ASSUME ConstantsAssumption ==
    /\ Names \in [Vms -> SUBSET Zvols]
    /\ Longer \in [Zvols -> SUBSET Zvols]
    /\ \A z \in Zvols : z \in Longer[z]
    /\ Disks0 \in [Vms -> SUBSET Zvols]
    /\ Calls \subseteq Ops
    /\ Events \subseteq AllEvents
    /\ TxnIds \cap AutoSnaps = {}
    /\ None \notin TxnIds \cup Zvols \cup Vms

VARIABLES
    \* the pool
    live,       \* live[z]: the present content of z
    snaps,      \* the snapshots
    txg,        \* transaction group of the newest snapshot
    used,       \* the names that have been given to a snapshot
    \* the hypervisor
    running,    \* the running virtual machines
    disks,      \* disks[v]: the zvols in the definition of v
    \* the daemon's files
    files,      \* STATE_DIR/txns/<vm>/<id>
    audit,      \* the audit log
    \* the handlers
    pc,         \* pc[c]: the next step of the handler of c
    req,        \* req[c]: its request, completed with what it has read
    ok,         \* ok[c]: the "ok" of the reply it will write
    dir,        \* dir[c]: the directory entries a list has still to read
    listed,     \* listed[c]: the records it has read
    walk,       \* walk[c]: the machines whose definition a rollback has still to read
    \* history, read by no action
    fate,       \* how the transactions ended
    told,       \* the ok replies to begin and commit that reached their clients
    touched,    \* touched[c]: the request has changed the pool or a file
    owed,       \* owed[c]: the acknowledged transactions when c was accepted
    held        \* held[c]: if it is an unforced rollback, the machines, with a disk,
                \* that have been running with it since c was accepted

pool == <<live, snaps, txg, used>>
host == <<running, disks>>
daemon == <<files, audit>>
handlers == <<pc, req, ok, dir, listed, walk>>
history == <<fate, told, touched, owed, held>>
vars == <<pool, host, daemon, handlers, history>>

Snapshot == [name: TxnIds \cup AutoSnaps, zvol: Zvols, txg: Nat, data: Data]

\* A record file: created empty by os.WriteFile, then filled.
File == [txn: TxnIds, vm: Vms, zvol: Zvols, text: {"empty", "record"}]

AuditLine == [op: Ops, txn: TxnIds, result: {"ok", "refused-in-use"}]

Request == [op: Ops, vm: Vms \cup {None}, zvol: Zvols \cup {None},
            txn: TxnIds \cup {None}, force: BOOLEAN]

Steps == {"idle", "begin", "create", "fill", "load", "check", "walk", "refuse",
          "rollback", "destroy", "remove", "list", "read", "audit", "reply"}

\* The steps at which a handler knows its transaction and its zvol.
Loaded == {"create", "fill", "check", "walk", "refuse", "rollback", "destroy",
           "remove", "audit"}

At(c, op, step) == pc[c] = step /\ req[c].op = op

Ready(c) == pc[c] \in Loaded \/ (pc[c] = "reply" /\ ok[c] /\ req[c].op # "list")

Fates == {"none", "committed", "superseded"}

\* Besides the types: a handler works for a machine, and past its load, and
\* until it has answered ok, it has a transaction and a zvol.
TypeOK ==
    /\ live \in [Zvols -> Data]
    /\ snaps \subseteq Snapshot
    /\ txg \in Nat
    /\ used \subseteq TxnIds \cup AutoSnaps
    /\ running \subseteq Vms
    /\ disks \in [Vms -> SUBSET Zvols]
    /\ files \subseteq File
    /\ audit \subseteq AuditLine
    /\ pc \in [Conns -> Steps]
    /\ req \in [Conns -> Request]
    /\ ok \in [Conns -> BOOLEAN]
    /\ dir \in [Conns -> SUBSET TxnIds]
    /\ listed \in [Conns -> SUBSET TxnIds]
    /\ walk \in [Conns -> SUBSET Vms]
    /\ fate \in [TxnIds -> Fates]
    /\ told \subseteq [op: {"begin", "commit"}, txn: TxnIds]
    /\ touched \in [Conns -> BOOLEAN]
    /\ owed \in [Conns -> SUBSET TxnIds]
    /\ held \in [Conns -> SUBSET (Vms \X Zvols)]
    /\ \A c \in Conns :
        /\ pc[c] # "idle" => req[c].vm \in Vms
        /\ At(c, "begin", "begin") => req[c].zvol \in Zvols
        /\ pc[c] = "load" => req[c].op \in {"rollback", "commit"} /\ req[c].txn \in TxnIds
        /\ Ready(c) => req[c].txn \in TxnIds /\ req[c].zvol \in Zvols
-----------------------------------------------------------------------------
(* The pool.  The zfs commands are external: what they do is modelled from *)
(* the way the daemon uses them.                                           *)

SnapshotsOf(t) == {s \in snaps : s.name = t}

Newer(s) == {r \in snaps : r.zvol = s.zvol /\ r.txg > s.txg}

\* zfs snapshot z@n
TakeSnapshot(z, n) ==
    /\ n \notin used
    /\ snaps' = snaps \cup {[name |-> n, zvol |-> z, txg |-> txg + 1, data |-> live[z]]}
    /\ txg' = txg + 1
    /\ used' = used \cup {n}
    /\ UNCHANGED live

\* The snapshots of S are destroyed; those of transactions end for the
\* reason why.
Drop(S, why) ==
    /\ snaps' = snaps \ S
    /\ fate' = [t \in TxnIds |-> IF \E s \in S : s.name = t THEN why ELSE fate[t]]
    /\ UNCHANGED <<txg, used>>

\* zfs rollback -r s
RollBackTo(s) ==
    /\ live' = [live EXCEPT ![s.zvol] = s.data]
    /\ Drop(Newer(s), "superseded")

-----------------------------------------------------------------------------
(* The hypervisor, as virsh shows it.                                      *)

\* A running virtual machine has z attached.
Attached(z) == \E v \in running : z \in disks[v]

\* Machine h[1] is running and has zvol h[2] attached.
HasDisk(h) == h[1] \in running /\ h[2] \in disks[h[1]]

\* The path of z occurs in the definition of v, on its own or at the start of a
\* longer path.
Mentions(v, z) == disks[v] \cap Longer[z] # {}

\* Who is calling: over vsock, the running machine whose CID the peer has;
\* with a token, the machine the token is for; root on the unix socket names
\* it.  No caller is identified otherwise.
Identified(via, v) ==
    \/ via = "vsock" /\ v \in running
    \/ via \in {"token", "operator"}
-----------------------------------------------------------------------------
(* The record files.                                                       *)

FileOf(v, t) == {f \in files : f.vm = v /\ f.txn = t}

\* Mutant: the record is looked up in the directories of all the machines.
Records_AnyVm(v, t) == {f \in files : f.txn = t /\ f.text = "record"}

\* What loadTxn can read back: a file that is still empty is no record.
Records(v, t) == {f \in FileOf(v, t) : f.text = "record"}
-----------------------------------------------------------------------------
(* A handler.                                                              *)

Call(op, v, z, t, force) ==
    [op |-> op, vm |-> v, zvol |-> z, txn |-> t, force |-> force]

NoRequest == Call("list", None, None, None, FALSE)

FirstStep(op) ==
    IF op = "begin" THEN "begin" ELSE IF op = "list" THEN "list" ELSE "load"

Init ==
    /\ live \in [Zvols -> Data]
    /\ snaps = {} /\ txg = 0 /\ used = {}
    /\ running \in SUBSET Vms
    /\ disks = Disks0
    /\ files = {} /\ audit = {}
    /\ pc = [c \in Conns |-> "idle"]
    /\ req = [c \in Conns |-> NoRequest]
    /\ ok = [c \in Conns |-> FALSE]
    /\ dir = [c \in Conns |-> {}] /\ listed = [c \in Conns |-> {}]
    /\ walk = [c \in Conns |-> {}]
    /\ fate = [t \in TxnIds |-> "none"]
    /\ told = {}
    /\ touched = [c \in Conns |-> FALSE]
    /\ owed = [c \in Conns |-> {}]
    /\ held = [c \in Conns |-> {}]

Goto(c, step) == pc' = [pc EXCEPT ![c] = step]

Touch(c) == touched' = [touched EXCEPT ![c] = TRUE]

\* The operation returned an error: it is the answer.
Fail(c) ==
    /\ Goto(c, "reply")
    /\ ok' = [ok EXCEPT ![c] = FALSE]
    /\ UNCHANGED <<req, dir, listed, walk>>

\* A connection brings a request and its caller is identified.  Which zvol
\* it names matters to begin, which transaction and whether it insists to
\* the others.
Accept(c) ==
    /\ pc[c] = "idle"
    /\ \E op \in Calls, v \in Vms, via \in {"vsock", "token", "operator", "nobody"} :
       \E z \in Zvols \cup {None}, t \in TxnIds \cup {None}, force \in BOOLEAN :
        /\ op = "begin" <=> z # None
        /\ op \in {"rollback", "commit"} <=> t # None
        /\ op # "rollback" => ~force
        /\ req' = [req EXCEPT ![c] = Call(op, v, z, t, force)]
        /\ Goto(c, IF Identified(via, v) THEN FirstStep(op) ELSE "reply")
        /\ held' = [held EXCEPT ![c] =
                      {h \in Vms \X Zvols : HasDisk(h) /\ op = "rollback" /\ ~force}]
    /\ ok' = [ok EXCEPT ![c] = FALSE]
    /\ touched' = [touched EXCEPT ![c] = FALSE]
    /\ owed' = [owed EXCEPT ![c] =
                  {t \in TxnIds : [op |-> "begin", txn |-> t] \in told /\ fate[t] = "none"}]
    /\ UNCHANGED <<pool, host, daemon, dir, listed, walk, fate, told>>

\* opBegin: the zvol is in the caller's scope, and zfs snapshot succeeds
\* under a name never drawn before.
BeginSnapshot(c) ==
    /\ At(c, "begin", "begin")
    /\ req[c].zvol \in Names[req[c].vm]
    /\ \E t \in TxnIds :
        /\ TakeSnapshot(req[c].zvol, t)
        /\ req' = [req EXCEPT ![c].txn = t]
    /\ Goto(c, "create")
    /\ Touch(c)
    /\ UNCHANGED <<host, daemon, ok, dir, listed, walk, fate, told, owed, held>>

\* No such zvol in scope, or a zfs command failed; it fails for sure once all
\* the names of the instance are taken.
BeginRefused(c) ==
    /\ At(c, "begin", "begin")
    /\ req[c].zvol \notin Names[req[c].vm] \/ "zfs" \in Events \/ TxnIds \subseteq used
    /\ Fail(c)
    /\ UNCHANGED <<pool, host, daemon, history>>

\* os.WriteFile opens the record with O_CREATE and O_TRUNC ...
BeginCreate(c) ==
    /\ At(c, "begin", "create")
    /\ files' = files \cup {[txn |-> req[c].txn, vm |-> req[c].vm,
                              zvol |-> req[c].zvol, text |-> "empty"]}
    /\ Goto(c, "fill")
    /\ UNCHANGED <<pool, host, audit, req, ok, dir, listed, walk, history>>

\* ... and writes it.
BeginFill(c) ==
    /\ At(c, "begin", "fill")
    /\ files' = (files \ FileOf(req[c].vm, req[c].txn))
                 \cup {[txn |-> req[c].txn, vm |-> req[c].vm,
                        zvol |-> req[c].zvol, text |-> "record"]}
    /\ Goto(c, "audit")
    /\ UNCHANGED <<pool, host, audit, req, ok, dir, listed, walk, history>>

\* Mutant: the error of os.WriteFile is not looked at.
BeginNotRecorded_Ignored(c) ==
    /\ "state" \in Events
    /\ At(c, "begin", "create") \/ At(c, "begin", "fill")
    /\ Goto(c, "audit")
    /\ UNCHANGED <<pool, host, daemon, req, ok, dir, listed, walk, history>>

\* Either fails: the snapshot, and an empty file, stay behind.
BeginNotRecorded(c) ==
    /\ "state" \in Events
    /\ At(c, "begin", "create") \/ At(c, "begin", "fill")
    /\ Fail(c)
    /\ UNCHANGED <<pool, host, daemon, history>>

\* loadTxn, for rollback and commit: the record in the caller's directory.
Load(c) ==
    /\ pc[c] = "load"
    /\ \E f \in Records(req[c].vm, req[c].txn) :
            req' = [req EXCEPT ![c].zvol = f.zvol]
    /\ Goto(c, IF req[c].op = "rollback" THEN "check" ELSE "destroy")
    /\ UNCHANGED <<pool, host, daemon, ok, dir, listed, walk, history>>

LoadFailed(c) ==
    /\ pc[c] = "load"
    /\ Records(req[c].vm, req[c].txn) = {} \/ "state" \in Events
    /\ Fail(c)
    /\ UNCHANGED <<pool, host, daemon, history>>

\* opRollback asks zvolInUse, force or not.  Its first command lists the running
\* machines; a virsh that fails shows none ...
RollbackCheck(c) ==
    /\ At(c, "rollback", "check")
    /\ \/ walk' = [walk EXCEPT ![c] = running]
       \/ "virsh" \in Events /\ UNCHANGED walk
    /\ Goto(c, "walk")
    /\ UNCHANGED <<pool, host, daemon, req, ok, dir, listed, history>>

\* Mutant: with force or without.
RollbackWalk_Strict(c) ==
    /\ At(c, "rollback", "walk")
    /\ \/ /\ \E v \in walk[c] : Mentions(v, req[c].zvol)
          /\ walk' = [walk EXCEPT ![c] = {}]
          /\ Goto(c, "refuse")
       \/ /\ \E v \in walk[c] :
                /\ ~Mentions(v, req[c].zvol) \/ v \notin running \/ "virsh" \in Events
                /\ walk' = [walk EXCEPT ![c] = @ \ {v}]
          /\ UNCHANGED pc
       \/ /\ walk[c] = {} /\ UNCHANGED walk
          /\ Goto(c, "rollback")
    /\ UNCHANGED <<pool, host, daemon, req, ok, dir, listed, history>>

\* Mutant: a machine that cannot be read ends the walk.
RollbackWalk_Returns(c) ==
    /\ At(c, "rollback", "walk")
    /\ \/ /\ \E v \in walk[c] : Mentions(v, req[c].zvol)
          /\ walk' = [walk EXCEPT ![c] = {}]
          /\ Goto(c, IF req[c].force THEN "rollback" ELSE "refuse")
       \/ /\ \E v \in walk[c] :
                /\ ~Mentions(v, req[c].zvol) \/ v \notin running \/ "virsh" \in Events
                /\ walk' = [walk EXCEPT ![c] = IF v \in running THEN @ \ {v} ELSE {}]
          /\ UNCHANGED pc
       \/ /\ walk[c] = {} /\ UNCHANGED walk
          /\ Goto(c, "rollback")
    /\ UNCHANGED <<pool, host, daemon, req, ok, dir, listed, history>>

\* ... then one virsh dumpxml for each of them, one after the other, while
\* machines and disks come and go.  The first that names the zvol ends the walk,
\* and only with force the rollback goes on.  One that does not is passed over,
\* and so is one that cannot be read: it has gone since, or virsh fails.
RollbackWalk(c) ==
    /\ At(c, "rollback", "walk")
    /\ \/ /\ \E v \in walk[c] : Mentions(v, req[c].zvol)
          /\ walk' = [walk EXCEPT ![c] = {}]
          /\ Goto(c, IF req[c].force THEN "rollback" ELSE "refuse")
       \/ /\ \E v \in walk[c] :
                /\ ~Mentions(v, req[c].zvol) \/ v \notin running \/ "virsh" \in Events
                /\ walk' = [walk EXCEPT ![c] = @ \ {v}]
          /\ UNCHANGED pc
       \/ /\ walk[c] = {} /\ UNCHANGED walk
          /\ Goto(c, "rollback")
    /\ UNCHANGED <<pool, host, daemon, req, ok, dir, listed, history>>

\* audit(..., "refused-in-use"), best effort, and the error.
RollbackRefused(c) ==
    /\ At(c, "rollback", "refuse")
    /\ \/ audit' = audit \cup {[op |-> "rollback", txn |-> req[c].txn,
                                  result |-> "refused-in-use"]}
       \/ "audit" \in Events /\ UNCHANGED audit
    /\ Fail(c)
    /\ UNCHANGED <<pool, host, files, history>>

Rollback(c) ==
    /\ At(c, "rollback", "rollback")
    /\ \E s \in SnapshotsOf(req[c].txn) : RollBackTo(s)
    /\ Goto(c, "audit")
    /\ Touch(c)
    /\ UNCHANGED <<host, daemon, req, ok, dir, listed, walk, told, owed, held>>

\* The snapshot is gone, or zfs rollback -r gave up after destroying some of
\* the newer ones.
RollbackFailed(c) ==
    /\ At(c, "rollback", "rollback")
    /\ \/ SnapshotsOf(req[c].txn) = {} /\ UNCHANGED <<pool, fate, touched>>
       \/ /\ "zfs" \in Events
          /\ \E s \in SnapshotsOf(req[c].txn) : \E S \in SUBSET Newer(s) :
                /\ Drop(S, "superseded")
                /\ touched' = [touched EXCEPT ![c] = S # {}]
          /\ UNCHANGED live
    /\ Fail(c)
    /\ UNCHANGED <<host, daemon, told, owed, held>>

\* Mutant: zfs destroy is given the range "@t%", which takes the newer ones along.
CommitDestroy_Range(c) ==
    /\ At(c, "commit", "destroy")
    /\ SnapshotsOf(req[c].txn) # {}
    /\ Drop(UNION {{s} \cup Newer(s) : s \in SnapshotsOf(req[c].txn)}, "committed")
    /\ Goto(c, "remove")
    /\ Touch(c)
    /\ UNCHANGED <<live, host, daemon, req, ok, dir, listed, walk, told, owed, held>>

\* opCommit: zfs destroy, then the record is removed.
CommitDestroy(c) ==
    /\ At(c, "commit", "destroy")
    /\ SnapshotsOf(req[c].txn) # {}
    /\ Drop(SnapshotsOf(req[c].txn), "committed")
    /\ Goto(c, "remove")
    /\ Touch(c)
    /\ UNCHANGED <<live, host, daemon, req, ok, dir, listed, walk, told, owed, held>>

\* Mutant: the error of zfs destroy is not looked at.
CommitFailed_Ignored(c) ==
    /\ At(c, "commit", "destroy")
    /\ SnapshotsOf(req[c].txn) = {} \/ "zfs" \in Events
    /\ Goto(c, "remove")
    /\ UNCHANGED <<pool, host, daemon, req, ok, dir, listed, walk, history>>

\* Mutant: zfs destroy is tried again, without end.
CommitFailed_Retries(c) ==
    /\ At(c, "commit", "destroy")
    /\ SnapshotsOf(req[c].txn) = {} \/ "zfs" \in Events
    /\ UNCHANGED vars

\* Mutant: the record is removed first.
CommitFailed_Unrecorded(c) ==
    /\ At(c, "commit", "destroy")
    /\ SnapshotsOf(req[c].txn) = {} \/ "zfs" \in Events
    /\ files' = files \ FileOf(req[c].vm, req[c].txn)
    /\ Touch(c)
    /\ Fail(c)
    /\ UNCHANGED <<pool, host, audit, fate, told, owed, held>>

CommitFailed(c) ==
    /\ At(c, "commit", "destroy")
    /\ SnapshotsOf(req[c].txn) = {} \/ "zfs" \in Events
    /\ Fail(c)
    /\ UNCHANGED <<pool, host, daemon, history>>

\* Mutant: another file than the record is removed.
CommitRemove_Elsewhere(c) ==
    /\ At(c, "commit", "remove")
    /\ Goto(c, "audit")
    /\ UNCHANGED <<pool, host, daemon, req, ok, dir, listed, walk, history>>

\* The error of os.Remove is not looked at.
CommitRemove(c) ==
    /\ At(c, "commit", "remove")
    /\ \/ files' = files \ FileOf(req[c].vm, req[c].txn)
       \/ "remove" \in Events /\ UNCHANGED files
    /\ Goto(c, "audit")
    /\ UNCHANGED <<pool, host, audit, req, ok, dir, listed, walk, history>>

\* opList: the names in the caller's directory; none if it cannot be read.
ListDir(c) ==
    /\ At(c, "list", "list")
    /\ \/ dir' = [dir EXCEPT ![c] = {f.txn : f \in {g \in files : g.vm = req[c].vm}}]
       \/ "state" \in Events /\ UNCHANGED dir
    /\ Goto(c, "read")
    /\ UNCHANGED <<pool, host, daemon, req, ok, listed, walk, history>>

ListFailed(c) ==
    /\ At(c, "list", "list")
    /\ "state" \in Events
    /\ Fail(c)
    /\ UNCHANGED <<pool, host, daemon, history>>

\* Mutant: the loop ends at an entry that cannot be read.
ListRead_Breaks(c) ==
    /\ At(c, "list", "read")
    /\ \E t \in dir[c] :
        \/ /\ Records(req[c].vm, t) # {}
           /\ dir' = [dir EXCEPT ![c] = @ \ {t}]
           /\ listed' = [listed EXCEPT ![c] = @ \cup {t}]
        \/ /\ Records(req[c].vm, t) = {}
           /\ dir' = [dir EXCEPT ![c] = {}]
           /\ UNCHANGED listed
    /\ UNCHANGED <<pool, host, daemon, pc, req, ok, walk, history>>

\* One entry is read; it is left out if it is gone, empty or unreadable.
ListRead(c) ==
    /\ At(c, "list", "read")
    /\ \E t \in dir[c] :
        /\ dir' = [dir EXCEPT ![c] = @ \ {t}]
        /\ \/ Records(req[c].vm, t) # {} /\ listed' = [listed EXCEPT ![c] = @ \cup {t}]
           \/ (Records(req[c].vm, t) = {} \/ "state" \in Events) /\ UNCHANGED listed
    /\ UNCHANGED <<pool, host, daemon, pc, req, ok, walk, history>>

ListDone(c) ==
    /\ At(c, "list", "read")
    /\ dir[c] = {}
    /\ Goto(c, "reply")
    /\ ok' = [ok EXCEPT ![c] = TRUE]
    /\ UNCHANGED <<pool, host, daemon, req, dir, listed, walk, history>>

\* audit(..., "ok"), best effort, and the answer.
Audit(c) ==
    /\ pc[c] = "audit"
    /\ \/ audit' = audit \cup {[op |-> req[c].op, txn |-> req[c].txn, result |-> "ok"]}
       \/ "audit" \in Events /\ UNCHANGED audit
    /\ Goto(c, "reply")
    /\ ok' = [ok EXCEPT ![c] = TRUE]
    /\ UNCHANGED <<pool, host, files, req, dir, listed, walk, history>>

\* serve writes the reply; nobody reads it once the deadline has passed.
Reply(c) ==
    /\ pc[c] = "reply"
    /\ \/ told' = IF ok[c] /\ req[c].op \in {"begin", "commit"}
                     THEN told \cup {[op |-> req[c].op, txn |-> req[c].txn]}
                     ELSE told
       \/ "lost" \in Events /\ UNCHANGED told
    /\ Goto(c, "idle")
    /\ req' = [req EXCEPT ![c] = NoRequest]
    /\ dir' = [dir EXCEPT ![c] = {}] /\ listed' = [listed EXCEPT ![c] = {}]
    /\ walk' = [walk EXCEPT ![c] = {}]
    /\ ok' = [ok EXCEPT ![c] = FALSE]
    /\ touched' = [touched EXCEPT ![c] = FALSE]
    /\ owed' = [owed EXCEPT ![c] = {}]
    /\ held' = [held EXCEPT ![c] = {}]
    /\ UNCHANGED <<pool, host, daemon, fate>>

Step(c) ==
    \/ BeginSnapshot(c) \/ BeginRefused(c) \/ BeginCreate(c) \/ BeginFill(c)
    \/ BeginNotRecorded(c)
    \/ Load(c) \/ LoadFailed(c)
    \/ RollbackCheck(c) \/ RollbackWalk(c) \/ RollbackRefused(c) \/ Rollback(c) \/ RollbackFailed(c)
    \/ CommitDestroy(c) \/ CommitFailed(c) \/ CommitRemove(c)
    \/ ListDir(c) \/ ListFailed(c) \/ ListRead(c) \/ ListDone(c)
    \/ Audit(c) \/ Reply(c)
-----------------------------------------------------------------------------
(* The environment.                                                        *)

\* The daemon is killed between any two steps.  Its handlers vanish with
\* it; the restarted one finds the pool and the files.
Crash ==
    /\ "crash" \in Events
    /\ pc' = [c \in Conns |-> "idle"]
    /\ req' = [c \in Conns |-> NoRequest]
    /\ ok' = [c \in Conns |-> FALSE]
    /\ dir' = [c \in Conns |-> {}] /\ listed' = [c \in Conns |-> {}]
    /\ walk' = [c \in Conns |-> {}]
    /\ touched' = [c \in Conns |-> FALSE]
    /\ owed' = [c \in Conns |-> {}]
    /\ held' = [c \in Conns |-> {}]
    /\ UNCHANGED <<pool, host, daemon, fate, told>>

GuestWrite(z) ==
    /\ "write" \in Events
    /\ Attached(z)
    /\ \E d \in Data : live' = [live EXCEPT ![z] = d]
    /\ UNCHANGED <<snaps, txg, used, host, daemon, handlers, history>>

SanoidSnapshot(z, n) ==
    /\ "sanoid" \in Events
    /\ TakeSnapshot(z, n)
    /\ UNCHANGED <<host, daemon, handlers, history>>

SanoidPrune(s) ==
    /\ "prune" \in Events
    /\ s.name \in AutoSnaps
    /\ snaps' = snaps \ {s}
    /\ UNCHANGED <<live, txg, used, host, daemon, handlers, history>>

\* What has been attached all along is attached now.
StillHeld == held' = [c \in Conns |-> {h \in held[c] : HasDisk(h)'}]

PowerSwitch(v) ==
    /\ "power" \in Events
    /\ running' = IF v \in running THEN running \ {v} ELSE running \cup {v}
    /\ UNCHANGED <<pool, disks, daemon, handlers, fate, told, touched, owed>>
    /\ StillHeld

Attach(v, z) ==
    /\ "attach" \in Events
    /\ disks' = [disks EXCEPT ![v] = @ \cup {z}]
    /\ UNCHANGED <<pool, running, daemon, handlers, fate, told, touched, owed>>
    /\ StillHeld

Detach(v, z) ==
    /\ "attach" \in Events
    /\ disks' = [disks EXCEPT ![v] = @ \ {z}]
    /\ UNCHANGED <<pool, running, daemon, handlers, fate, told, touched, owed>>
    /\ StillHeld

Environment ==
    \/ Crash
    \/ \E z \in Zvols : GuestWrite(z) \/ \E n \in AutoSnaps : SanoidSnapshot(z, n)
    \/ \E s \in snaps : SanoidPrune(s)
    \/ \E v \in Vms : PowerSwitch(v) \/ \E z \in Zvols : Attach(v, z) \/ Detach(v, z)

Next == Environment \/ \E c \in Conns : Accept(c) \/ Step(c)

Spec == Init /\ [][Next]_vars

\* A goroutine is scheduled and the commands it runs return.
FairSpec == Spec /\ \A c \in Conns : WF_vars(Step(c))
-----------------------------------------------------------------------------
(* Properties.                                                             *)

\* t has a complete record, or is over.
Recorded(t) == fate[t] = "none" => \E f \in files : f.txn = t /\ f.text = "record"

\* A transaction whose begin was answered ok, and that is not over, has its
\* snapshot and a complete record, whatever crashed, failed or ran meanwhile:
\* the handler takes the snapshot, writes the record and only then answers,
\* and commit removes the record after the snapshot.
AckedIsDurable ==
    \A t \in TxnIds :
        [op |-> "begin", txn |-> t] \in told /\ fate[t] = "none" =>
            /\ SnapshotsOf(t) # {}
            /\ \E f \in files : f.txn = t /\ f.text = "record"

\* The handler of c has committed its transaction and will say so.
Committing(c) ==
    /\ req[c].op = "commit"
    /\ pc[c] \in {"remove", "audit"} \/ (pc[c] = "reply" /\ ok[c])

\* However commits of one transaction race and are retried, one of them at
\* most is answered ok, and the transaction is then over for that reason:
\* zfs destroy succeeds once.
CommitOnce ==
    \A c \in Conns : Committing(c) =>
        /\ fate[req[c].txn] = "committed"
        /\ [op |-> "commit", txn |-> req[c].txn] \notin told
        /\ \A d \in Conns \ {c} : ~(Committing(d) /\ req[d].txn = req[c].txn)

\* A request that is answered with an error has changed nothing, with two
\* exceptions: a begin that could not write its record leaves the snapshot, and
\* a rollback that zfs gave up half way has destroyed younger snapshots only, so
\* that its own transaction is still open unless another handler has ended it.
\* A commit that is refused is thus never half done.
ErrorsAreClean ==
    \A c \in Conns : pc[c] = "reply" /\ ~ok[c] /\ touched[c] =>
        \/ /\ req[c].op = "begin"
           /\ \A f \in files : f.txn = req[c].txn => f.text = "empty"
        \/ /\ req[c].op = "rollback"
           /\ fate[req[c].txn] = "none" => SnapshotsOf(req[c].txn) # {} /\ Recorded(req[c].txn)

\* A handler changes no zvol outside the scope of its caller: the record it
\* acts on was read from the caller's directory, and begin only ever wrote
\* zvols of the caller's scope there.
ScopeKept ==
    [][\A c \in Conns : pc[c] # "idle" /\ pc'[c] # pc[c] =>
          \A z \in Zvols : z \notin Names[req[c].vm] =>
              /\ live'[z] = live[z]
              /\ {s \in snaps' : s.zvol = z} = {s \in snaps : s.zvol = z}]_vars

\* A transaction's snapshot goes away only by a commit of that transaction or
\* by the rollback of an older transaction of the same zvol, one that is
\* still on record and keeps its own snapshot.
LostOnlyToOlder ==
    [][\A s \in snaps \ snaps' : s.name \in TxnIds =>
          \/ \E c \in Conns : At(c, "commit", "destroy") /\ pc'[c] = "remove"
                              /\ req[c].txn = s.name
          \/ \E o \in snaps \cap snaps' :
                /\ o.zvol = s.zvol /\ o.txg < s.txg
                /\ \E f \in files : f.txn = o.name /\ f.text = "record"]_vars

\* A zvol that one running machine has attached from the moment a rollback
\* without force is accepted is not rolled back by it, as long as virsh works:
\* the walk comes to that machine at some time, whatever starts, stops and is
\* attached or detached between its commands.  (A disk that moves from a machine
\* that is still to be read to one that has been, or started later, gets through.)
HeldIsNotRolledBack ==
    [][\A c \in Conns :
          At(c, "rollback", "rollback") /\ pc'[c] = "audit" /\ ~req[c].force =>
              \A v \in Vms : <<v, req[c].zvol>> \notin held[c]]_vars

\* What list answers contains every transaction whose begin had been answered
\* ok when the list was called, unless it has ended since: the entries are
\* read one at a time while other handlers create and remove records, all of
\* which can be read.
ListComplete ==
    \A c \in Conns :
        At(c, "list", "reply") /\ ok[c] =>
            \A t \in owed[c] : fate[t] = "none" /\ (\E f \in FileOf(req[c].vm, t) : TRUE)
                                => t \in listed[c]

\* The daemon implements the transaction store: a snapshot named after a
\* transaction is that transaction open, and every step of a handler either
\* is one operation of the store or leaves it alone.
Store == INSTANCE TxnStore WITH open <- {s \in snaps : s.name \in TxnIds}

StoreSpec == Store!Spec

\* Every request is answered, or dies with the daemon.
Answered == \A c \in Conns : pc[c] # "idle" ~> pc[c] = "idle"

\* The record of a committed transaction leaves the disk.
CommittedLeavesDisk ==
    \A t \in TxnIds : fate[t] = "committed" ~> \A f \in files : f.txn # t
-----------------------------------------------------------------------------
(* The inductive invariant.                                                *)

\* A name is given once; snapshots of later transaction groups are newer; a
\* transaction has a snapshot from the time its name is drawn until it ends.
PoolInv ==
    /\ \A s \in snaps : s.name \in used /\ s.txg <= txg
    /\ \A r, s \in snaps : r.name = s.name \/ r.txg = s.txg => r = s
    /\ \A t \in TxnIds : fate[t] # "none" => t \in used /\ SnapshotsOf(t) = {}
    /\ \A t \in TxnIds \cap used : fate[t] = "none" => SnapshotsOf(t) # {}

\* A record is about the zvol its transaction's snapshot is of, and that zvol
\* is in the scope of the machine below whose directory the record lies.
FilesInv ==
    /\ \A f \in files : f.txn \in used /\ f.zvol \in Names[f.vm]
    /\ \A f, g \in files : f.txn = g.txn => f = g
    /\ \A f \in files : \A s \in SnapshotsOf(f.txn) : s.zvol = f.zvol

\* What handler c has read or done still holds, whatever the others do.
HandlerInv(c) ==
    /\ Ready(c) =>
        /\ req[c].txn \in used
        /\ req[c].zvol \in Names[req[c].vm]
        /\ \A s \in SnapshotsOf(req[c].txn) : s.zvol = req[c].zvol
    /\ pc[c] \in {"create", "fill"} =>
        /\ req[c].op = "begin"
        /\ \A f \in files : f.txn = req[c].txn =>
                f.text = "empty" /\ f.vm = req[c].vm /\ pc[c] = "fill"
        /\ \A d \in Conns \ {c} : Ready(d) => req[d].txn # req[c].txn
    /\ Ready(c) /\ pc[c] \notin {"create", "fill"} /\ ~Committing(c) =>
            Recorded(req[c].txn)
    /\ pc[c] \in {"check", "walk", "refuse", "rollback"} => req[c].op = "rollback"
    /\ pc[c] \in {"destroy", "remove"} => req[c].op = "commit"

HandlersInv == \A c \in Conns : HandlerInv(c)

ToldInv ==
    \A t \in TxnIds :
        /\ [op |-> "begin", txn |-> t] \in told => t \in used /\ Recorded(t)
        /\ [op |-> "commit", txn |-> t] \in told => fate[t] = "committed"

IInv == TypeOK /\ PoolInv /\ FilesInv /\ HandlersInv /\ ToldInv /\ CommitOnce

\* The handler of c is about to answer an error, and has changed something.
Failing(c) == pc[c] = "reply" /\ ~ok[c] /\ touched[c]

\* Up to the command of its operation a handler has changed nothing.  When it
\* fails after that, it has a transaction: of a begin, which nobody will record
\* any more, or of a rollback, which is on record or over.
CleanInv(c) ==
    /\ pc[c] \in {"begin", "load", "check", "walk", "refuse", "rollback", "destroy", "list", "read"}
        => ~touched[c]
    /\ Failing(c) =>
        /\ req[c].txn \in TxnIds \cap used
        /\ \/ /\ req[c].op = "begin"
              /\ \A f \in files : f.txn = req[c].txn => f.text = "empty"
              /\ \A d \in Conns : pc[d] \in {"create", "fill"} => req[d].txn # req[c].txn
           \/ req[c].op = "rollback" /\ Recorded(req[c].txn)

\* A machine that holds a disk is running with it now; if it is the disk of a
\* rollback, the walk has still to come to it, so that past the walk an unforced
\* rollback is of a zvol that no machine has held all along.
HeldInv(c) ==
    /\ \A h \in held[c] : HasDisk(h)
    /\ \A v \in Vms : <<v, req[c].zvol>> \in held[c] =>
        /\ At(c, "rollback", "walk") => v \in walk[c]
        /\ At(c, "rollback", "rollback") => req[c].force

\* A list owes what had been answered; an owed transaction that is open and in
\* the caller's directory is still to be read, or has been.
ListInv(c) ==
    /\ pc[c] = "audit" => req[c].op # "list"
    /\ \A t \in owed[c] :
        /\ [op |-> "begin", txn |-> t] \in told
        /\ fate[t] = "none" /\ FileOf(req[c].vm, t) # {} =>
            /\ At(c, "list", "read") => t \in dir[c] \cup listed[c]
            /\ At(c, "list", "reply") /\ ok[c] => t \in listed[c]

\* What the answers rest on: the second part as long as virsh works, the third
\* as long as the state directory can be read.
AnswersInv ==
    /\ IInv
    /\ \A c \in Conns :
        /\ CleanInv(c)
        /\ "virsh" \notin Events => HeldInv(c)
        /\ "state" \notin Events => ListInv(c)
=============================================================================
