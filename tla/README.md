# zxplore in TLA+

zxplore is a ZFS explorer written in Go: a terminal and a graphical front end
over the `zfs` and `zpool` commands, a scheduler for pulled backups (*Auto
Sync*), and a transaction service through which a virtual machine can snapshot
and roll back its own disks. This directory models the parts of it that have a
protocol of their own, checks them with TLC on small instances, and proves the
most important results with TLAPS for every value of the constants.

`PROJECT.json` is the index: components, runs, the source lines each definition
models, the mutants that show that a property can be broken, the divergences
found, the hazards, the theorems.

    tlc -workers 2 -config TxnCore.cfg MCTxnApi      # a run (PROJECT.json names the module)
    tlapm TxnApiProofs.tla                           # the proofs

## Inventory

| Component | State | Operations | Talks to | Hard behaviour | Correct when |
|---|---|---|---|---|---|
| Transaction daemon, `cmd/zxplore-api/main.go` | none in the process; snapshots of the pool, record files below `STATE_DIR/txns`, an audit log | begin, rollback, commit, list | `zfs`, `virsh`, one goroutine per connection | no lock anywhere; crash between any two commands; `zfs rollback -r` takes younger transactions along; lost replies are retried | what is acknowledged is durable; one commit succeeds; nobody reaches another machine's disk; a held disk is not rolled back without force |
| Client and transports, `cmd/zxplore-txn/main.go`, `txn/txn.go` | the mount of the disk, the script's `$txn` | begin, rollback with -force/-unmount/-dev, commit | the daemon over vsock, a unix socket or TCP | a client that gives up leaves its handler running; deadlines on raw descriptors; flags before the id | the documented script undoes a failed migration; the disk is not mounted while it is rolled back |
| Auto Sync, a run, `sync.go` (`runSyncJob`) | the state file, what systemd remembers | the timer, Run now, `--sync-run` | syncoid, ssh, `zfs list` at both ends, the boot manifest tool | runs overlap; syncoid skips datasets; a receive hangs; the source changes under the verification | a run that passes has replicated; a run that failed is shown as such; every run ends |
| Auto Sync, the jobs, `sync.go`, `gui_sync.go` | `/etc/zxplore/syncjobs.json`, the units in `/etc/systemd/system` | upsert, delete, install, remove, status | systemctl, several sessions | load–change–save without a lock; truncating writes; two files and two systemctl calls per install | no job is lost; a unit belongs to one job; enabled means installed |
| ZFS command layer, `zfs.go` | the host that is connected, the audit log | scan, properties, snapshots, replicate, restore, resume; elevation by sudo/pkexec | local shell or ssh | the incremental base, resume tokens and rawness are probed before the pipeline runs; elevated retries | a transfer starts from a common snapshot; cancelling destroys only its own partial; one privileged try per intent |
| TUI, `model.go`, `tui_*.go`, `transfer.go` | mode, host, datasets, cursor, selection, generation counters, the read-only flag | keys, results of background commands | the command layer, by messages | results arrive late, out of order, for another host; overlays dispatch actions | late results do not land in the wrong place; nothing mutates while read-only |
| GUI, `gui*.go` | the same in widgets; the transfer dialog | dialogs, drag and drop, cancel | the command layer, by goroutines | a transfer that ends while it is being cancelled | the partial offered for destruction is the transfer's own |
| Servers, clients, keys, `servers.go` | `servers.json`, `clients.json`, key files | add, delete, generate, paste, push a key | ssh-keygen, ssh-copy-id | the old key goes before the new one is made | an entry's key works or is known not to |
| Favorites, `favorites.go` | `favorites.json` and its temporary file | load, add (50 at most), save | other zxplore processes | one temporary name for all processes | the file is always one process's list |
| Containers, `containers.go` | the datasets of the container store | start, stop, remove; snapshot and roll back the store | `zfs`, podman | one dataset of several fails | a rollback is complete or reported |
| Shares, `shares.go` | none; reads NFS exports, SMB shares, iSCSI targets | list, attach to datasets | `exportfs`, `testparm`, targetcli | one source fails or is missing | every share is shown at its dataset, and what could not be read is said |
| Pool builder, `builder.go`, `gui_builder.go` | the layout being drawn | add, move, remove a vdev or disk, validate, render | `zpool create` | parity and capacity at the boundaries | what validates can be created; the tolerance is not overstated |
| Dataset tree, `dstree.go` | open branches | build, toggle | – | orphans, missing parents | every dataset is shown once, under its parent |
| Observe, `observe.go` | two samples of kernel counters | sample, rate | `/proc`, `zpool iostat` | counters reset | a rate is never negative |
| Command line, packaging, docs | – | dispatch | – | – | – |

`PROJECT.json` lists the hazards one by one at their lines, with the
properties that cover them and what these leave out; some have none.

## Modules

| Module | What it is |
|---|---|
| `TxnStore` | the abstract transaction store: open transactions, what ends them, what they restore |
| `TxnApi` | the daemon, step by step, with the pool, its files, the hypervisor and every fault; properties and the inductive invariant |
| `MCTxnApi` | instances of it, symmetry and the view |
| `TxnApiProofs` | type correctness, the inductive invariant, four safety properties, for all constants; `TxnApi` implements `TxnStore` |
| `TxnAnswersProofs` | what the daemon's answers promise: clean errors, complete lists, held disks |
| `TxnGuest`, `MCTxnGuest` | the client's script composed with the daemon |
| `TxnGuestProofs` | what the script relies on; the composition implements `TxnStore` too |
| `SyncRun`, `MCSyncRun` | one Auto Sync job being run, possibly several times at once |
| `SyncRunProofs` | type correctness, completeness of a passing run, clean pulls that pass, failures that show |
| `Replicate`, `MCReplicate` | one dataset sent to another: the pipeline, the three screens that plan and run it, `zfs send` and `zfs recv` |
| `ReplicateProofs` | sealed data stays sealed, the target is as the dialog says, a replica can be continued |
| `Tui`, `MCTui` | the terminal program: keys, overlays, the gate, two hosts, answers of the background |
| `TuiProofs` | the gate, late answers, the dossier |
| `ConfigFiles` | the four JSON lists, read, changed and written by several sessions |
| `SyncJobs` | the job list, the units and the timers of Auto Sync |
| `ServerKeys` | the key files, the host's authorised keys, the one-click setup |
| `ContainerStore` | the datasets of a container engine, snapshot and rolled back one by one |
| `Builder` | the pool builder: proposing, checking, naming the tolerance, the command line |
| `GuiBrowser` | the window's browser: tree, filter, details, editor, menus, lock |
| `GuiExplorer` | the window's file explorer and its restores |
| `MCDesk` | the last seven side by side: they share no state, so one runs per behaviour |
| `BuilderProofs` | proofs about the pool builder, and the facts about numbers, lists and recursive functions they and `DeskProofs` rest on |
| `DeskProofs` | proofs about the other six, each from its own specification |

How they fit: `TxnGuest` composes the daemon with its client. What a timer of
`SyncJobs` starts is a run of `SyncRun`; how the job list reaches the disk is
`ConfigFiles`. The transfer tab of the window, the context menu that
`GuiBrowser` opens and the commander of the terminal meet in `Replicate`, which
takes each from the button to the dialog that ends it; `GuiBrowser` and `Tui`
take an operation for a command that succeeds or fails.

### The daemon (`TxnApi`)

A handler is one goroutine: `identify`, `dispatch`, the operation, the reply.
`pc[c]` names the next command or file operation of connection `c`, so that
anything may happen between two of them; what it has read so far is in `req[c]`
(the request, completed with the record's zvol), `dir[c]`, `listed[c]` and
`walk[c]`, the machines whose definition `zvolInUse` has still to read.

| Code | Actions |
|---|---|
| `identify`, `serve` (identity from the vsock CID or the token, request parsed) | `Accept`; an unknown caller goes straight to an error reply |
| `opBegin`: `resolveZvol`, `zfs snapshot`, `os.WriteFile` (create, then fill) | `BeginSnapshot`, `BeginRefused`, `BeginCreate`, `BeginFill`, `BeginNotRecorded` |
| `loadTxn` | `Load`, `LoadFailed` |
| `opRollback`: `zvolInUse`, refusal with its audit line, `zfs rollback -r` | `RollbackCheck` (`virsh list`), `RollbackWalk` (one `virsh dumpxml`), `RollbackRefused`, `Rollback`, `RollbackFailed` |
| `opCommit`: `zfs destroy`, `os.Remove` | `CommitDestroy`, `CommitFailed`, `CommitRemove` |
| `opList`: `os.ReadDir`, then one file after the other | `ListDir`, `ListFailed`, `ListRead`, `ListDone` |
| `audit`, the reply | `Audit`, `Reply` |
| not the program's | `Crash`, `GuestWrite`, `SanoidSnapshot`, `SanoidPrune`, `PowerSwitch`, `Attach`, `Detach` |

`Names[v]` is the scope that `resolveZvol` grants a machine, `Longer[z]` the
zvols whose path starts with that of `z`: `zvolInUse` looks for the path as a
text in the domain's definition, and finds those too. It lists the running
machines, then reads one definition per command, in any order, until one names
the path; machines start and stop and disks come and go between the commands, a
machine that has stopped meanwhile cannot be read and is skipped, and a `virsh`
that fails means no machines, or none of this name. `Events` switches the faults
of an instance on. Five history variables, which no guard reads, record
how each transaction ended, which ok replies arrived, what a request changed,
what a list owed its caller and which disks the same running machine has had
attached since a rollback without force was accepted.

Assumptions: only the daemon makes and removes `zxplore-txn-*` snapshots (sanoid
touches its own); the random part of an id is never drawn twice (when the finite
set of ids is used up, `begin` is refused: a bound of the instance);
`vmForVsockCID`, which walks the domains too, to find whose CID a connection has,
is taken at one moment (the CIDs of the instance do not change, and whom it does
not find gets an error); a crash is that of the process, not of the machine, so
what was written is on disk.

### The guest (`TxnGuest`)

`TxnGuest` EXTENDS the daemon and adds one machine running the script of the
client's header: `step` is the command, `via` the connection its client waits
on. A client exits on the reply (`Answer`), on its deadline (`GiveUp`), or when
the daemon dies (`CutOff`); in the last two cases the handler's effects go on or
stay, and `LateReply` is written to nobody. The script then continues exactly as
the shell would: a failed begin ends it, a failed rollback does not stop the
commit. Two sets of flags and two transports are chosen in the initial state.

### The run of a job (`SyncRun`)

`pc[r]` follows `runSyncJob`: the probe, `newestSnapshot`, syncoid, the
verification (`snapshotPresent`), the two counts (`datasetCount`), the boot
manifest, `recordSyncRun`. Each of the two is one `zfs list` that may fail, on the
other host or on this one: `VerifyBlind` then takes the snapshot for missing, and
`CountBlind` counts 0. Snapshots are numbered by age; `have` and `landed` are
those of each dataset at both ends, and sanoid prunes on the source (`Prune`).
syncoid is external: it sends the datasets it found one by one (`Send`), from the
newest snapshot both ends have, to which it rolls the target back, or from its own
bookmark where there is none; it may give up some (`Skip`) or hang (`Wedge`), and
is killed by `timeout`. `os.WriteFile` truncates and then writes, and two runs
that do so at once may leave a torn file, which does not parse. `overlap`, `churn`
and `sure` are history: two runs at once; a dataset that appeared during a run;
that the datasets a run fetches had the snapshot it looks for when it looked, and
have not lost it to a prune before they were sent. Datasets are not destroyed on
the source: the program counts those that stay behind in the target, and they can
make up for a missing one.

### A replication (`Replicate`)

`ReplicatePipeline` is `replicatePipeline` as an operator: a token of the target
is resumed, else the newest common short name or a bookmark is the base; raw unless
a source that says it is plain goes below an encrypted parent, or a restore finds
the source's key loaded; properties only where the target takes them. `MissSets` are the questions that stay without an answer. The
plan is made when the screen asks (`Tab`, `Menu`, `Commander`) and run after the
operator's `Confirm`, and snapshots are taken, pruned, bookmarked and made under
a used name at both ends between the two (`World`). `flow` is the pipeline:
`Refuse` for want of permission, `Receive` snapshot by snapshot with `Break`
leaving a partial, `Finish`. `TapCancel`, `Kill` and `Close` race, as the button,
the process and the dialog do. External: what zfs accepts (`SendAccepts`,
`RecvAccepts`, `Meaning`) and does. zfs takes no increment over a target that came
the other way (`Mixes`): a raw one needs a target that came raw, of the same
source; one that is not raw needs, over a target that came raw, its key loaded.
What the target holds is `owner` (whose key seals it) and `sealed` (that of an
encrypted source all of it came raw); a full stream is taken where there is no
target, or one that has no snapshot.

### The terminal program (`Tui`)

bubbletea calls `Update` with one message at a time: a key or an answer. `inbox`
holds what runs in the background, tagged with the generation at which it was
started; every answer that the code compares with `scanGen` or `dossGen` is
compared here, and the platform, which it does not tag, is not. `ov` maps each
overlay to what it is about, and `Focus` is the order in which they take a key.
`ran` names the operation that the step ran, with the way it came (`typed`,
`confirm` or plain), which is what the gate is about; an operation's effects on
the datasets are those a rescan then finds.

### The lists (`ConfigFiles`), the jobs (`SyncJobs`), the keys (`ServerKeys`)

A file is an inode that a name points at, so that a session that goes on writing
after the rename writes into what is now the list. A save is `Begin` (the list is
read and the changed one made of it, `Change` from the disk, `Drop` from the
screen or, for a job, the disk), `Open` (the file is made or cut to nothing),
`Write` and `Publish`, with other sessions in between, and `Abandon` its failure
or the end of the session anywhere in it. Nothing in the code keeps two saves
apart, so one can undo another; `raced` and `wanted`, the list that the saves
would have made one after another, are history. `cut` are the inodes that have
been emptied and not yet written, `body` what was written; a session reads
`ListIn` of the file's inode. `SyncJobs` follows `InstallSyncJob`, `RemoveSyncJob`
and `DeleteSyncJob` step by step, with each file operation and `systemctl`
failing, from a card that was drawn earlier (`drawn`) or from the command line.
`ServerKeys` follows the setup goroutine (`dlg[d].go.at`), which works on the
entry as it was copied, while both dialogs go on generating, pasting and saving
and the host is reinstalled.

### The containers (`ContainerStore`) and the builder (`Builder`)

`RollbackStore` names its targets and `RollbackOne` takes them one at a time; the
engine's answers decide whether the store is found at all; a `zfs rollback -r` that
fails may have destroyed younger snapshots, or be through. The list of containers,
which is read again under a selected position, is not modelled: stop, restart and
remove are one command each. In `Builder` sizes are classes of
bytes, a shelf has 3 to 13 disks, and the state machine is short: tick, propose,
use, add, remove, create; a dRAID that is added has the numbers that were typed
(`Typed`; negative ones are left out: of spares they pass `Validate`, and it is
zpool that refuses them) or those of `DraidLayout`. `Suggest` is its blocks one by one (`Mirrors`, `RaidzOf`,
`DraidOf`), the set of those there are disks for (`Offers`), and the sort by badge
(`Ranked`). `SuggestSound` reads the command line of a proposal back with
`ParseSpec` and compares; `ToleranceIsExact` compares `FaultTolerance` with the loss
of every set of data disks of that size.

### The window (`GuiBrowser`, `GuiExplorer`)

`ui` is the browser's widgets as one record, and the closures of `runGUI` are
functions of it (`SetDossier`, `ShowDossier`, `ReloadSnaps`, `BuildRight`,
`SelectAt`, `ApplyFilter`, `Restore`, `SetFold`, `ApplyLoad`, `MergeCounts`),
composed as they call each other; an action is one user event or one `fyne.Do`.
The code gives each background read a number and drops what is not the latest; the
model keeps just that bit (`latest`). `BuildTree` and `FlatRows` are those of
`dstree.go`; the recursion is a function. A menu item is a verb with what it asks
(`Asks`) and where the lock is looked at (`GatedFirst`, `GatedRun`); what is
chosen from a menu names the dataset it was opened on, whatever happens to the
list meanwhile. In `GuiExplorer` the path line, the listing, the selection and the
versions are four things that change at different times.

## Runs

| Run | Question | Instance |
|---|---|---|
| `TxnCore` | Do two racing requests, with crashes, failing zfs, an unwritable state directory, guest writes and sanoid, keep what was acknowledged? `AckedIsDurable`, `CommitOnce`, `ErrorsAreClean`, `LostOnlyToOlder`, and the refinement `StoreSpec` | 2 connections, 2 transactions, 1 zvol, 1 autosnap, 2 contents |
| `TxnScope` | Does a handler stay in its caller's scope, and off disks in use? `ScopeKept`, `HeldIsNotRolledBack` | 2 machines whose names overlap, 2 zvols, 1 transaction, power and attach |
| `TxnList` | Does a list miss an acknowledged transaction? `ListComplete`; and `AnswersInv`, the invariant of the proofs | 2 connections, 2 transactions, crash, lost replies, failing remove and audit |
| `TxnLive` | `Answered`, `CommittedLeavesDisk` | 2 connections, 1 transaction, 1 autosnap, fair handlers whose commands fail |
| `Guest` | Does the documented script, with its flags, undo and terminate? `UndoneBeforeCommit`, `QuietRollback`, `ScriptEnds` | 2 connections (one may be a stray handler), 1 id, vsock and TCP, every fault |
| `SyncRun` | Is a success complete, a clean pull accepted, a failure shown, a run finite? `NoneMissing`, `CleanPullPasses`, `FailureShows`, `RunEnds` | the timer and Run now, the source and two datasets, two snapshots of which one dataset's may be pruned, every fault |
| `Replicate` | Does anything encrypted arrive in the clear unasked, does the target hold what the dialog says, can a replica in step be brought up to date, does every transfer end? `BareOnlyByRestore`, `ToldIsThere`, `ChainHolds`, `TransferEnds` | all three screens, two names, three snapshots, one bookmark, four situations of encryption and place, four sets of unanswered questions |
| `Tui` | Does a mutation slip past the gate, does a late answer land? `GateHolds`, `LateIsDropped`, `DossierIsSelected` | two hosts with two datasets, six operations of every kind of confirmation, five keys, two scans and two dossiers |
| `Desk` | The seven parts that share no state: `WholeFile`, `SavesAddUp`, `SaidIsSo`, `NoOrphan`, `ReadyLogsIn`, `PublicPairs`, `RollbackIsWhole`, `SuggestSound`, `ToleranceIsExact`, `TreeIsWhole`, `DetailsFollow`, `KeepsDataset`, `RestoreIsListed` | see below |

Why these bounds are enough to be interesting: two connections give every pair
of operations on one transaction and on an older and a younger one; two
transactions give "older" and "younger"; one autosnap gives what stands between
them; the handlers hold no lock, so a third connection adds interleavings but no
new kind of conflict, and the theorems cover any number. Two machines named
`web` and `web-db` are the smallest instance of overlapping scopes and of one
path being a prefix of another. In `SyncRun`, two datasets below the source are
the least in which one may be sent and the other skipped, and two snapshots the
least in which something is newer than what the run looks for; the pruned one is
then what a run looks for, or the one the next increment would start from.

In `Replicate` three snapshots allow a common one, an older one and a newer one,
and two names a name that means two snapshots. In `Tui` five keys are a menu, an
item, a confirmation, its answer and one key in between, with every answer of the
background anywhere; two generations are the latest and a late one. `Desk`:
`ConfigFiles` two sessions, two entries, three changes, a cap of one; `SyncJobs`
two jobs that may share a unit, two sessions, two operations; `ServerKeys` two
entries that may share a path, two dialogs, two keys, three buttons;
`ContainerStore` a store with two layers, two tags, five steps; `Builder` shelves
of 3, 6, 9 and 13 disks, where the number of vdevs and the spares of a proposal
change, with all or up to one disk ticked by hand, dRAID groups of two typed with
and without a spare, and three steps; `GuiBrowser` a pool of three levels and
another, which zfs lists between the first and its children, or the two rows a
delegated user sees, a filter that finds two and one that finds nothing, three
taps with the first scan and every read they start under way; `GuiExplorer` three
directories with files of one name, one of them missing from the snapshot and one
that may vanish, five clicks.

`TxnCore`, `TxnScope` and `TxnList` use symmetry of connections, ids, autosnaps
and contents, and a view that drops the audit log (nothing reads it) and the
request of a handler about to answer an error, save what it did. `SyncRun` uses a
view that drops what the source held when a run began, the histories of a run whose
verdict no longer depends on them, and the status once runs have overlapped: no
property of the run reads them then, and no guard ever does.

The three remaining runs each show, as a counterexample, something a comment or
the manual says of the program and the code does not do:

| Run | What happens |
|---|---|
| `SyncStale` (`PassedIsReplicated`) | one dataset with the newest snapshot and the right number of datasets pass as "replicated and verified", though another is stale |
| `ReplDiscard` (`DiscardTakesPartial`) | Discard after Cancel runs `zfs destroy -r` on the target: a replica that was only being added to, or a transfer that had just ended, goes as a whole |
| `GuiLock` (`ReadOnlyKeeps`) | with the lock on, the controls of the property editor apply, and Replicate runs from the context menu |

## Other divergences

Met while modelling; the models behave as the code does, and the properties are
stated for the cases in which they hold.

Transactions.
- A rollback leaves the record files of the younger transactions whose snapshots
  it destroyed: list shows them, and no request removes them (`main.go:309`).
- `zfs rollback -r` destroys sanoid's younger snapshots, against the header's
  "never touched" (`main.go:53`).
- A blocking vsock descriptor has no deadline, the error that says so is dropped
  (`txn.go:163`), and a hung daemon hangs its clients.
- The script as documented rolls back a disk that is in use, is refused, and
  commits, which destroys the snapshot (`zxplore-txn/main.go:22`).
- "The id may come before or after the flags" does not hold when a flag with a
  value comes first: the value is taken for the id (`zxplore-txn/main.go:197`).
- `zvolInUse` matches paths as texts, so `web` is refused while `web-db` is
  attached. Against "never yank a disk out from under a running VM"
  (`main.go:227`) a disk is rolled back under its machine when it is attached
  between `zvolInUse` and `zfs rollback`; when, attached throughout, it moves
  during the walk from a machine still to be read to one already read or started
  since; and when `virsh` fails. Error paths after a change leave no audit line,
  against the header's step 5.

Auto Sync.
- A pull that syncoid did without a complaint is recorded as failed when `zfs list`
  fails on this host: `snapshotPresent` takes that for a missing snapshot
  (`sync.go:566`), `datasetCount` counts 0 and calls it a partial replica
  (`sync.go:813`). So is one whose newest snapshot was pruned before it was sent.
- Two failing exits of `runSyncJob` (no syncoid, no snapshots) record nothing, so
  the status keeps showing the run before, against "every run writes here".
- `captureBootManifest` has no time limit inside a service that was given none on
  purpose; a job that is not recursive counts all datasets below its source and
  so fails as a partial replica; an exclude is a regex for syncoid and a text for
  the count.
- A card shows the edited schedule while the timer keeps the old one until it is
  installed again; two names that differ in replaced characters have one unit;
  deleting a job goes on when the removal of its units failed; a card drawn before
  another session deleted the job installs it; editing drops the port; renaming
  leaves the old job.

Lists and keys.
- Two saves at once use one temporary file, and the rename of one publishes what
  the other has just emptied; what another session saves between the reading and
  the writing of a list is undone; deleting a server, a client or a favorite writes
  back the list on the screen, without what others have changed since; clients and
  jobs, written in place, are lost to a crash in the middle.
- Authorising dials the host directly, whatever jump host the entry names; the
  first test's error is dropped; generating for an entry that shares its key file
  replaces a key in use.

Replication.
- Raw or not is decided from restore mode and the source's key alone
  (`zfs.go:1443`), whatever the target holds. A replica of an encrypted dataset
  that was received raw is refused an update that is not raw unless its key is
  loaded, and a restore received in the clear is refused the raw one that the
  next plain replication builds; the dialog then says that it failed. A target
  that exists without a snapshot is sent a full stream.
- "Stopped: the target holds a partial receive" (`gui_transfer.go:342`) is also
  said of a transfer that had ended, or of which nothing had arrived.
- The lock label says "encrypted end to end" for every plain source
  (`zfs.go:1345`), and not for an encrypted one that is resumed or restored raw.
- When permission is missing, the end that is asked for its password follows from
  whether the message names the send, which it does also when the receiving end
  refused; with two remote ends the wrong one is asked again and again.

Terminal program.
- After a connect the old host's list, menu and property editor stay until the
  scan of the new one lands, and what is chosen from them runs on the new host
  (`model.go:290`).
- Going to a share's dataset sets the cursor by its place in the unfiltered list
  and asks for no dossier; the platform chip never appears when a rescan begins
  before its message; "connected: …" overwrites the error of a scan that failed;
  restoring in the explorer takes the file under the cursor and the version list
  of the file they were asked for.

Window.
- The lock is also not looked at by the pool builder, the containers and the
  shares.
- A rescan puts the cursor on the first row, although the comment at `gui.go:890`
  names rescans among what it survives. The first scan is applied whenever it
  lands, also after a later one. A dossier that arrives late is shown over "(no
  datasets match)" or a list error, and with no match the snapshots and the editor
  of the dataset before stay in use. Arriving counts build the editor again, and
  what was being typed is gone.
- Up, or Enter on a directory, and Restore before the listing has come: what is
  restored is the new directory with the old name. A second Enter acts on a row
  that ".." has shifted.

Containers and the builder.
- A rollback needs the engine stopped, and then docker's store cannot be found, so
  the command line never rolls one back and the window only until it has read the
  list again. It succeeds when no dataset has the tag. "Longest matching mountpoint
  wins" is an equality. Stop and restart act on the container that is at the
  selected position when they are tapped.
- A mirror or raidz vdev followed by a stripe is written as one wider vdev. The
  tolerance does not count a special or dedup vdev, whose loss is the pool's.

## Fairness

`TxnApi!FairSpec`: every handler is weakly fair, because goroutines are
scheduled and the commands they run return; nothing is assumed of clients or of
the environment. `CommittedLeavesDisk` is checked where the process stays up and
the directory can be written: the code has no recovery for the other case.
`TxnGuest!GuestFairSpec`: the client is fair, and so is every handler: its
commands return. Over vsock that is needed: the client has no deadline there (see
the divergences), and a command that hangs keeps it waiting for ever. The daemon
may die at any time, TCP clients may give up at any time, and nothing makes anybody
wait.
`SyncRun!FairSpec`: a run is fair and what it executes returns, because syncoid
is bounded by `timeout` and ssh by its connect timeout and TCP's keepalive; the
boot manifest tool is not assumed to return, and `RunEnds` excepts it.
`Replicate!FairSpec`: the pipeline is started, goes on, is refused or breaks, and
the window draws its end; the network is assumed to work or to break, not to hang.
Nothing is assumed of the operator, of the world, or of a cancel being tapped. The
properties of `Tui` and `Desk` are safety properties, checked without fairness:
nobody need press a key, which is why these runs do not check deadlock.

## Proofs

`TxnApiProofs` proves, for any numbers of connections, machines, zvols and
transactions, from `ConstantsAssumption` alone (scopes are sets of zvols, ids
are not autosnap names), that `IInv` is inductive, and from it `AckedIsDurable`,
`CommitOnce`, `ScopeKept` and `LostOnlyToOlder`. None of these is inductive:

- `PoolInv`: a name is given to one snapshot, ages are distinct, a transaction
  that has not ended has its snapshot. It makes "the snapshot of t" one thing.
- `FilesInv`: a record is about the zvol its snapshot is of, in the scope of the
  directory's machine. It carries the scope check of begin over to rollback and
  commit, which make none.
- `HandlersInv`: what a handler read still holds when it acts; only the handler
  that draws an id creates its file; whoever is past that has a complete record
  behind it, unless the transaction is over.
- `ToldInv`: what clients were told agrees with pool and files.
- `CommitOnce` itself, which needs the fate recorded at `zfs destroy`.

A crash is one case of the step: handlers disappear, and each conjunct that
speaks of a handler holds vacuously, which is the reason why the others speak of
files and snapshots only. The last part of the module, `Implements`, uses `IInv` to
map each step of the daemon to an operation of `TxnStore` or to a stutter, with the
open transactions being the snapshots named after one.

`TxnAnswersProofs` is about what a client is told. `AnswersInv` extends `IInv` by
three parts, each the history of one handler: what a request has changed by the
time it fails (`ErrorsAreClean`), which machines have kept a disk since a rollback
was accepted (`HeldIsNotRolledBack`: as long as the walk is under way, each of
them is running and still to be read, so that it cannot end before one answers),
and what a listing still owes, of which whatever was
acknowledged before it is either listed, on the handler's list of files, or over
(`ListComplete`). The lemma that the other handlers' steps leave these histories
alone or weaken them (`Still`) is what makes it inductive. Two theorems take a
fault away that refutes the property: `HeldStays` needs a `virsh` that answers,
since the code takes no answer for no domains, and `ListsAreComplete` a state
directory that can be read. `TxnList` checks `AnswersInv` itself.

`TxnGuestProofs` takes the daemon below the script. `GuestInv` says what the
script waits for (`Waits`) and which id it holds (`Holds`), and, which is the core,
that the rollbacks a client gave up and which may still land are of transactions
older than the current one (`OlderInv`): one that lands takes the current snapshot
along, and the disk back further than was asked, after which there is nothing left
that the property compares with; none puts back something younger, so that while
the snapshot stands the disk is what begin kept (`SettledInv`). `Quiet` is the vsock
transport's one connection. Since the script writes to the disk, which no handler
does, `IInv` is proved again for its steps; from it come `AckedBelowTheScript` and
the refinement `ScriptUsesTheStore` of `TxnStore`, and with the rest `DiskIsUndone`
and `RollbackIsQuiet`.

`SyncRunProofs` proves type correctness and `NoneMissing` for any number of
overlapping runs and datasets, from `SyncAssumption` (the datasets are finitely
many, the source is one of them). `PullInv` strengthens it with: the target has
only what the source has; what a run has still to send too; a run that is not
active knows no count; a positive count is the number of the source's datasets
while no dataset appears. The step from counts to sets is the lemma `EnoughIsAll`.
`FailuresShow` rests on `RecordInv`, which holds while runs do not overlap: the
one that writes is alone with the emptied file. `CleanPullsPass` needs `CleanInv`:
of each dataset a run fetches, the snapshot that it looks for is on the source and
either still to be sent or landed, and nothing that the source still has goes from
the target, whoever rolls it back (`OthersKeepClean`), because an increment starts
from the newest snapshot both ends have. Its hypotheses are recursive and nothing
excluded. Which datasets a snapshot is taken of, what is pruned and which lists
fail is left open: the property itself excepts a failed list on this host and, by
`sure`, a snapshot that some dataset had not, or no longer.

`ReplicateProofs` has three invariants. `SealInv` follows the data: the plan that
was confirmed, the stream under way and the partial it leaves each keep an
encrypted source sealed or were asked for as a restore, whichever questions went
unanswered; `NothingIsBared`. `ChainInv` follows the snapshots at both ends: in
order, of distinct names on the source, a partial younger than all it lands on,
below an encrypted parent a key wherever there is a dataset, and the source's key
only where data came raw or that key is loaded. `ChainsHold` takes from it that
the base the pipeline finds is the last snapshot of the target, which is where the
greatest common position is needed; it exists because a least element of a set of
numbers does (`WFMin` of the library), which stands for induction. That what is
there came the way that is sent now is a hypothesis (`Kindred`), since the program
does not look; that zfs then takes the increment (`Mixes`) follows from the
owners. `ReplicateAssumption` says of `None` that it is no receipt and no
bookmark. `ToldInv` follows one pipeline from its launch to its dialog: until it
has arrived the target has the snapshots it had, and the partial it had or one of
the snapshot that is sent, whatever breaks it, kills it or refuses it, and
whatever is pruned at the source meanwhile. `ToldIsOnTheTarget` compares that with
what each way of closing says.

`TuiProofs` proves `GateHolds` from `UiInv`: a prompt or a picker that is open was
opened past the gate, one for a destructive operation asks for the name, and the
pickers that are open without the gate are those that change nothing. Keys are
proved to proceed (`Proceeds`: nothing shown changes, what runs is gated), answers
to run nothing. `LateInv` is that no generation is from the future and an answer
of the current one is of the host the browser is on; `DossInv` the same for
dossiers and the row. `LateIsDropped` and `DossierIsSelected` are parts of them.

`DeskProofs` has the parts of `Desk`, each from its own specification:

- `FilesInv`: while no two saves have a file open together, the one that has has the
  temporary file's inode to itself, which is not the list's, and has written all of
  it before the rename (`WholeFile`).
- `SavesInv`: while saves take turns, the list that can be read is what they made
  of it, the list a session is about to write is its change made of that, and the
  inode it writes is the one that becomes the list (`SavesAddUp`), whatever is
  killed between the steps. The proof takes the change for any function of a list
  and an entry.
- `JobsInv`: an enabled timer's unit is the one of a job on the list, and each
  operation under way finds its earlier steps as it left them (`NoOrphan`,
  `SaidIsSo`). Both while no operation has crossed another, the first also while
  none has failed.
- `KeysInv`: a setup that is about to save has a key that logs in, unless
  something was changed under it (`ReadyLogsIn`, `PublicPairs`).
- `StoreInv`: a dataset the rollback is through with is back, has failed or had no
  such snapshot (`RollbackIsWhole`).
- `ExplorerInv`: on a settled listing, the versions shown and those on their way
  are of the selected entry (`RestoreIsListed`).
- `WindowInv`: the selection is the cursor, and the form, the dossier, the snapshots
  and every answer that still counts are about the row under it. `DetailsFollow`
  alone says nothing of the answers to come, and the next one would break it. The
  handlers are functions of the window, and each has a lemma on which parts it
  establishes and which it keeps, whatever the rows are.
- `BrowserInv`: the rows are those of the filter, or those `BuildTree` gives for the
  last scan and the folds of today, so that what there is to prove of the tree is a
  fact about `BuildTree` (`TreeIs`). Its recursion goes to longer names only, of
  which there is a longest (`Deepest`), so the function exists (`WalkExists`); a
  walk shows its row, then what is below each child that is not folded, one child
  after the other in the order of the list (`ShownFrom`, `SiblingsOrdered`,
  `WalkIs`). `TreeIsWhole` and `KeepsDataset` follow: `Restore` finds a dataset
  that has a row, and folding a row takes away only what is below it. The list of
  datasets may have any shape: parents missing, or their children apart from them.
  `BrowserAssumption` says only that it names no dataset twice.

`BuilderProofs` is about every shelf and every choice of its disks:

- `LayoutTyped`: a layout is of known kinds and of disks of the shelf, which takes a
  lemma for every block of `Suggest`; and a set in order is a sequence of it
  because as many different places as members are all the places (`Places`).
- `ToleranceOfLayouts` then proves `ToleranceIsExact` of any layout that
  validates: a set that kills is found in the weakest vdev, and none of fewer
  disks leaves a vdev without what it needs.
- `LayoutIsExact` is the round trip through the command line. The parser is a
  function of what it has read (`Reads(a, s, b)`: from a, the words s lead to b), and
  what it makes of two lists of words one after the other follows from what it
  makes of each (`ReadsBoth`, `ReadsAll`). So a vdev's words add that vdev
  (`ReadsVdev`), a section's its vdevs, and the whole line the layout in the order of
  its sections, which within a role is the order of the layout (`SectionsKeep`). It
  holds where a stripe is the only vdev of its role (`Alone`), which is what the
  divergence above needs to be absent.
- `Sound` says of vdevs that each can be created and that they deal a set of disks
  among them, each disk at one place. It holds of one vdev (`SoundOne`), of the
  pieces of a list cut at places in order (`DealsCut`), and of two layouts of
  different disks and roles together (`SoundBoth`); from these it is put together
  for each block of `Suggest`. For the RAIDZ blocks this is the arithmetic of the
  cuts: with (n + w - 1) div w groups every group has its parity and one disk more
  (`CutsApart`), for the three widths the code names and any number of disks.
  `SuggestionsAreSound` takes the two together.

Recursive definitions are functions over the places of a list, and what they
compute is proved by one scheme: such a loop is the function that it says
(`Loops`), and what holds at 0 and from each place to the next holds at all
(`UpTo`, by the least place where it fails, which is what stands in for an
induction).

Only model-checked:

- All liveness (`Answered`, `CommittedLeavesDisk`, `ScriptEnds`, `RunEnds`,
  `TransferEnds`): fairness and ENABLED are out of the prover's reach.

TLC refutes the three properties of the runs that expect a violation.
Every invariant and every action property of a passing run is stated by a theorem.

## Plan

What is left:

1. `Observe` as one more part of `Desk`, once its sampling does more than set a
   flag.
2. The round trip of the builder's command line for a layout drawn by hand, once the
   builder keeps a stripe apart from the vdev before it.
3. The pool and boot environment managers of the window as state machines, once
   their lists are more than what their buttons start.

## Not modelled

Rendering, wording and layout (views, tables, dialogs, man page), parsing of
`zfs`, `zpool`, podman and kernel text beyond what a decision depends on, and
packaging. `observe.go` and `gui_observe.go` read kernel counters and draw them;
all they keep is whether a sample is under way. Of the containers pane only the
rollback of the store is modelled. `shares.go` lists what is exported
and changes nothing. `main.go` dispatches. Of `zfs.go`, which wraps a hundred
commands, replication is modelled whole, the rest as commands that succeed or
fail; how sudo and pkexec are chosen and what the front ends' audit log records is
left out.
ssh and polkit are taken for what they do: a command runs on a host, or fails.
Machine crashes that lose written data, and clocks, are outside the models.
