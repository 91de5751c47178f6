------------------------------- MODULE SyncRun -------------------------------
(***************************************************************************)
(* One Auto Sync job at work: runSyncJob and what it calls, sync.go.       *)
(*                                                                         *)
(* A run fetches the datasets below the source into the target through     *)
(* syncoid and judges the outcome by what has landed.  The timer's service *)
(* and any number of "Run now" buttons and command lines run the same job  *)
(* at the same time; nothing keeps them apart.  The source host goes up    *)
(* and down, sanoid takes and prunes snapshots there, datasets appear.     *)
(***************************************************************************)
EXTENDS Integers, FiniteSets

CONSTANTS
    Runs,       \* what may run the job at the same time
    Timer,      \* the one of them that systemd starts
    Datasets,   \* the names below the source, relative to it
    Root,       \* the source itself
    Source0,    \* the datasets that exist at first
    Recursive,  \* the job's "recursive"
    Excluded,   \* what syncoid leaves out for the job's "exclude", a regex
    SrcHits,    \* the datasets whose full name contains that text: here ...
    DstHits,    \* ... and under the target
    SnapSets,   \* the sets of datasets that sanoid snapshots at once
    MaxSnap,    \* bound: the snapshots it takes
    Pruned,     \* bound: the snapshots it prunes, <<dataset, number>>
    Events      \* what the environment does in the instance

AllEvents == {"network",    \* the source host goes down and comes up
              "skip",       \* syncoid fails on a dataset
              "wedge",      \* a receive hangs, or takes longer than the cap
              "hang",       \* kldload-boot-manifest hangs
              "misfit",     \* syncoid is not installed
              "nohost",     \* the server of a legacy job is in no inventory
              "state",      \* the state file cannot be written
              "local",      \* a zfs list on this host fails
              "create"}     \* a dataset appears on the source

ASSUME SyncAssumption ==
    /\ Timer \in Runs
    /\ Root \in Source0 /\ Source0 \subseteq Datasets
    /\ IsFiniteSet(Datasets)
    /\ Recursive \in BOOLEAN
    /\ Excluded \subseteq Datasets \ {Root}
    /\ SrcHits \subseteq Datasets /\ DstHits \subseteq Datasets
    /\ SnapSets \subseteq SUBSET Datasets
    /\ MaxSnap \in Nat /\ Pruned \subseteq Datasets \X Nat
    /\ Events \subseteq AllEvents

VARIABLES
    \* the two ends
    up,         \* the source host answers
    src,        \* the datasets of the source
    have,       \* have[d]: the snapshots of source dataset d, numbered by age
    dst,        \* the datasets of the target
    landed,     \* landed[d]: the snapshots of target dataset d
    clock,      \* the number of the newest snapshot
    \* the runs
    pc,         \* pc[r]: the next step of run r
    newest,     \* newest[r]: the snapshot that must be here when r finishes
    todo,       \* todo[r]: the datasets its syncoid has still to send
    clean,      \* clean[r]: syncoid has exited 0
    srcN,       \* srcN[r]: how many datasets it has counted on the source
    rc,         \* rc[r]: the exit code it is about to record
    \* what is left of them
    file,       \* the state file
    unit,       \* systemd's ExecMainStatus of the service
    \* history, read by no action
    began,      \* began[r]: the source's snapshots when r began
    last,       \* the exit code of the run that ended last, while runs have come
                \* one by one, unless its record could not be written
    overlap,    \* two runs have been active at once
    churn,      \* a dataset has appeared since some run has been active
    sure        \* sure[r]: what r fetches has had the snapshot it looks for since
                \* it looked it up, and no list of r on this host has failed

ends == <<up, src, have, dst, landed, clock>>
runs == <<pc, newest, todo, clean, srcN, rc>>
left == <<file, unit>>
history == <<began, last, overlap, churn, sure>>
vars == <<ends, runs, left, history>>

\* The exit codes 0, 1, 2 and 124.
Codes == {"ok", "failed", "misfit", "timeout"}

Steps == {"idle", "probe", "newest", "syncoid", "wedged",
          "verify", "countsrc", "countdst", "capture", "hung", "record", "write"}

TypeOK ==
    /\ up \in BOOLEAN
    /\ src \subseteq Datasets /\ dst \subseteq Datasets
    /\ have \in [Datasets -> SUBSET Nat]
    /\ landed \in [Datasets -> SUBSET Nat]
    /\ clock \in Nat
    /\ pc \in [Runs -> Steps]
    /\ newest \in [Runs -> Nat]
    /\ todo \in [Runs -> SUBSET Datasets]
    /\ clean \in [Runs -> BOOLEAN]
    /\ srcN \in [Runs -> Nat]
    /\ rc \in [Runs -> Codes]
    /\ file \in Codes \cup {"none", "empty", "torn"}
    /\ unit \in Codes \cup {"never"}
    /\ began \in [Runs -> [Datasets -> SUBSET Nat]]
    /\ last \in Codes \cup {"never", "unwritten"}
    /\ overlap \in BOOLEAN /\ churn \in BOOLEAN
    /\ sure \in [Runs -> BOOLEAN]

\* n is the newest of the snapshots S.
IsNewest(n, S) == n \in S /\ \A m \in S : m <= n

AllSnaps == UNION {have[d] : d \in src}

\* What syncoid goes through: --recursive comes with --skip-parent.
Fetched == IF Recursive THEN (src \ {Root}) \ Excluded ELSE {Root}

Active(r) == pc[r] # "idle"

Init ==
    /\ up = TRUE
    /\ src = Source0 /\ dst = IF Recursive THEN {Root} ELSE {}
    /\ have = [d \in Datasets |-> IF d \in Source0 THEN {1} ELSE {}]
    /\ landed = [d \in Datasets |-> {}]
    /\ clock = 1
    /\ pc = [r \in Runs |-> "idle"]
    /\ newest = [r \in Runs |-> 0] /\ todo = [r \in Runs |-> {}]
    /\ clean = [r \in Runs |-> TRUE] /\ srcN = [r \in Runs |-> 0]
    /\ rc = [r \in Runs |-> "ok"]
    /\ file = "none" /\ unit = "never"
    /\ began = [r \in Runs |-> [d \in Datasets |-> {}]]
    /\ last = "never" /\ overlap = FALSE /\ churn = FALSE
    /\ sure = [r \in Runs |-> FALSE]

Goto(r, step) == pc' = [pc EXCEPT ![r] = step]

\* recordSyncRun(j, code, ...) comes next, then the run returns.  What a run no
\* longer reads is forgotten, here and below.
Conclude(r, code) ==
    /\ Goto(r, "record")
    /\ rc' = [rc EXCEPT ![r] = code]
    /\ newest' = [newest EXCEPT ![r] = 0] /\ todo' = [todo EXCEPT ![r] = {}]

\* The run is over and systemd notes the exit of the one it started.
Ended(r, code, shown) ==
    /\ Goto(r, "idle")
    /\ last' = IF overlap THEN "never" ELSE shown
    /\ unit' = IF r = Timer THEN code ELSE unit
    /\ newest' = [newest EXCEPT ![r] = 0] /\ todo' = [todo EXCEPT ![r] = {}]
    /\ clean' = [clean EXCEPT ![r] = TRUE] /\ srcN' = [srcN EXCEPT ![r] = 0]
    /\ rc' = [rc EXCEPT ![r] = "ok"]
    /\ began' = [began EXCEPT ![r] = [d \in Datasets |-> {}]]
    /\ churn' = (churn /\ \E q \in Runs \ {r} : Active(q))
    /\ sure' = [sure EXCEPT ![r] = FALSE]
    /\ UNCHANGED overlap
-----------------------------------------------------------------------------
(* A run.                                                                  *)

\* The timer, "Run now" or the command line; a oneshot service that is still
\* running is not started again.
Start(r) ==
    /\ ~Active(r)
    /\ Goto(r, "probe")
    /\ began' = [began EXCEPT ![r] = have]
    /\ overlap' = (overlap \/ \E q \in Runs : Active(q))
    /\ last' = IF overlap' THEN "never" ELSE last
    /\ UNCHANGED <<ends, newest, todo, clean, srcN, rc, left, churn, sure>>

\* The connection is resolved, syncoid is found, the host answers.
Probe(r) ==
    /\ pc[r] = "probe" /\ up
    /\ Goto(r, "newest")
    /\ UNCHANGED <<ends, newest, todo, clean, srcN, rc, left, history>>

Unreachable(r) ==
    /\ pc[r] = "probe"
    /\ ~up \/ "nohost" \in Events
    /\ Conclude(r, "misfit")
    /\ UNCHANGED <<ends, clean, srcN, left, history>>

\* This exit is not recorded.
NoSyncoid(r) ==
    /\ "misfit" \in Events /\ pc[r] = "probe"
    /\ Ended(r, "misfit", "misfit")
    /\ UNCHANGED <<ends, file>>

\* newestSnapshot, over all the datasets below the source, then the start of
\* syncoid, which lists what it will send.  Raw or not only matters to whether
\* a dataset is refused.
Newest(r) ==
    /\ pc[r] = "newest" /\ up
    /\ \E n \in AllSnaps :
        /\ IsNewest(n, AllSnaps)
        /\ newest' = [newest EXCEPT ![r] = n]
        /\ sure' = [sure EXCEPT ![r] = Fetched # {} /\ \A d \in Fetched : n \in have[d]]
    /\ todo' = [todo EXCEPT ![r] = Fetched]
    /\ Goto(r, "syncoid")
    /\ UNCHANGED <<ends, clean, srcN, rc, left, began, last, overlap, churn>>

\* No snapshot, or no answer any more; this exit is not recorded either.
NoSnapshots(r) ==
    /\ pc[r] = "newest"
    /\ ~up \/ AllSnaps = {}
    /\ Ended(r, "misfit", "misfit")
    /\ UNCHANGED <<ends, file>>

\* The newest snapshot that both ends have of d is the base of an increment;
\* without one it is the bookmark of the last that was sent (--create-bookmark).
Common(d) == have[d] \cap landed[d]

\* syncoid rolls the target back to the base and sends d up to its newest
\* snapshot, the ones in between included.
Send(r, d) ==
    /\ pc[r] = "syncoid" /\ up
    /\ d \in todo[r] /\ have[d] # {}
    /\ dst' = dst \cup {d}
    /\ LET kept == {m \in landed[d] : Common(d) = {} \/ \E b \in Common(d) : m <= b}
       IN  landed' = [landed EXCEPT ![d] = kept \cup {n \in have[d] : \A m \in kept : m < n}]
    /\ todo' = [todo EXCEPT ![r] = @ \ {d}]
    /\ UNCHANGED <<up, src, have, clock, pc, newest, clean, srcN, rc, left, history>>

\* syncoid gives d up, and goes on with the next dataset.
Skip(r, d) ==
    /\ pc[r] = "syncoid" /\ d \in todo[r]
    /\ "skip" \in Events \/ ~up \/ have[d] = {} \/ Common(d) = {}
    /\ todo' = [todo EXCEPT ![r] = @ \ {d}]
    /\ clean' = [clean EXCEPT ![r] = FALSE]
    /\ UNCHANGED <<ends, pc, newest, srcN, rc, left, history>>

\* What it exits with is only worth a warning.
SyncoidExits(r) ==
    /\ pc[r] = "syncoid" /\ todo[r] = {}
    /\ Goto(r, "verify")
    /\ UNCHANGED <<ends, newest, todo, clean, srcN, rc, left, history>>

\* A receive fails and the sender waits on its pipe ...
Wedge(r) ==
    /\ "wedge" \in Events /\ pc[r] = "syncoid"
    /\ Goto(r, "wedged")
    /\ newest' = [newest EXCEPT ![r] = 0] /\ todo' = [todo EXCEPT ![r] = {}]
    /\ UNCHANGED <<ends, clean, srcN, rc, left, history>>

\* Mutant: a killed run returns at once.
Timeout_Silent(r) ==
    /\ "wedge" \in Events /\ pc[r] \in {"syncoid", "wedged"}
    /\ Ended(r, "timeout", "timeout")
    /\ UNCHANGED <<ends, file>>

\* Mutant: syncoid is run without timeout(1).
Timeout_None(r) == pc[r] = "wedged" /\ UNCHANGED vars

\* ... until timeout(1) kills it; a run that is only slow is killed as well.
Timeout(r) ==
    /\ "wedge" \in Events /\ pc[r] \in {"syncoid", "wedged"}
    /\ Conclude(r, "timeout")
    /\ UNCHANGED <<ends, clean, srcN, left, history>>

\* Mutant: the newest snapshot is looked up when syncoid is done.
Verify_Late(r) ==
    /\ pc[r] = "verify"
    /\ IF \E d \in dst : \E n \in landed[d] : IsNewest(n, AllSnaps)
         THEN Goto(r, "countsrc") /\ newest' = [newest EXCEPT ![r] = 0] /\ UNCHANGED <<rc, todo>>
         ELSE Conclude(r, "failed")
    /\ UNCHANGED <<ends, clean, srcN, left, history>>

\* snapshotPresent: some dataset of the target carries the snapshot that was
\* the newest when the run began.
Verify(r) ==
    /\ pc[r] = "verify"
    /\ IF \E d \in dst : newest[r] \in landed[d]
         THEN Goto(r, "countsrc") /\ newest' = [newest EXCEPT ![r] = 0] /\ UNCHANGED <<rc, todo>>
         ELSE Conclude(r, "failed")
    /\ UNCHANGED <<ends, clean, srcN, left, history>>

\* snapshotPresent finds nothing if its zfs list fails.
VerifyBlind(r) ==
    /\ "local" \in Events /\ pc[r] = "verify"
    /\ Conclude(r, "failed")
    /\ sure' = [sure EXCEPT ![r] = FALSE]
    /\ UNCHANGED <<ends, clean, srcN, left, began, last, overlap, churn>>

\* Mutant: the count of a source that does not answer is -1.
CountSrc_Negative(r) ==
    /\ pc[r] = "countsrc"
    /\ srcN' = [srcN EXCEPT ![r] = IF up THEN Cardinality(src \ SrcHits) ELSE 0 - 1]
    /\ Goto(r, "countdst")
    /\ UNCHANGED <<ends, newest, todo, clean, rc, left, history>>

\* datasetCount on the source, which is 0 if it does not answer ...
CountSrc(r) ==
    /\ pc[r] = "countsrc"
    /\ srcN' = [srcN EXCEPT ![r] = IF up THEN Cardinality(src \ SrcHits) ELSE 0]
    /\ Goto(r, "countdst")
    /\ UNCHANGED <<ends, newest, todo, clean, rc, left, history>>

\* Mutant: one dataset, the source itself, is allowed for.
CountDst_OffByOne(r) ==
    /\ pc[r] = "countdst"
    /\ IF srcN[r] > 0 /\ Cardinality(dst \ DstHits) < srcN[r] - 1
         THEN Conclude(r, "failed")
         ELSE Goto(r, "capture") /\ UNCHANGED <<rc, newest, todo>>
    /\ UNCHANGED <<ends, clean, srcN, left, history>>

\* ... and on the target: fewer are a partial replica.
CountDst(r) ==
    /\ pc[r] = "countdst"
    /\ IF srcN[r] > 0 /\ Cardinality(dst \ DstHits) < srcN[r]
         THEN Conclude(r, "failed")
         ELSE Goto(r, "capture") /\ UNCHANGED <<rc, newest, todo>>
    /\ UNCHANGED <<ends, clean, srcN, left, history>>

\* datasetCount is 0 here too if the list fails, which no count of the source
\* but 0 survives.
CountBlind(r) ==
    /\ "local" \in Events /\ pc[r] = "countdst"
    /\ IF srcN[r] > 0
         THEN Conclude(r, "failed")
         ELSE Goto(r, "capture") /\ UNCHANGED <<rc, newest, todo>>
    /\ sure' = [sure EXCEPT ![r] = FALSE]
    /\ UNCHANGED <<ends, clean, srcN, left, began, last, overlap, churn>>

\* captureBootManifest, whose failure is a warning; then the run is a success.
Capture(r) ==
    /\ pc[r] = "capture"
    /\ Conclude(r, "ok")
    /\ UNCHANGED <<ends, clean, srcN, left, history>>

\* The tool talks to the source over ssh, with no time limit.
CaptureHangs(r) ==
    /\ "hang" \in Events /\ pc[r] = "capture"
    /\ Goto(r, "hung")
    /\ UNCHANGED <<ends, newest, todo, clean, srcN, rc, left, history>>

\* recordSyncRun: os.WriteFile truncates the state file ...
Record(r) ==
    /\ pc[r] = "record"
    /\ file' = "empty"
    /\ Goto(r, "write")
    /\ UNCHANGED <<ends, newest, todo, clean, srcN, rc, unit, history>>

\* ... and writes it, over what another run may have written since, whose end
\* sticks out if it is longer.
Write(r) ==
    /\ pc[r] = "write"
    /\ file' \in {rc[r]} \cup (IF file = "empty" THEN {} ELSE {"torn"})
    /\ Ended(r, rc[r], rc[r])
    /\ UNCHANGED ends

\* Its errors are not looked at.
RecordFails(r) ==
    /\ "state" \in Events /\ pc[r] \in {"record", "write"}
    /\ Ended(r, rc[r], "unwritten")
    /\ UNCHANGED <<ends, file>>

Step(r) ==
    \/ Probe(r) \/ Unreachable(r) \/ NoSyncoid(r) \/ Newest(r) \/ NoSnapshots(r)
    \/ \E d \in Datasets : Send(r, d) \/ Skip(r, d)
    \/ SyncoidExits(r) \/ Wedge(r) \/ Timeout(r)
    \/ Verify(r) \/ VerifyBlind(r) \/ CountSrc(r) \/ CountDst(r) \/ CountBlind(r)
    \/ Capture(r) \/ CaptureHangs(r)
    \/ Record(r) \/ Write(r) \/ RecordFails(r)
-----------------------------------------------------------------------------
(* The source host.                                                        *)

Network ==
    /\ "network" \in Events
    /\ up' = ~up
    /\ UNCHANGED <<src, have, dst, landed, clock, runs, left, history>>

Sanoid(D) ==
    /\ clock < MaxSnap
    /\ have' = [d \in Datasets |->
                   IF d \in D \cap src THEN have[d] \cup {clock + 1} ELSE have[d]]
    /\ clock' = clock + 1
    /\ UNCHANGED <<up, src, dst, landed, runs, left, history>>

CreateDataset(d) ==
    /\ "create" \in Events /\ d \notin src
    /\ src' = src \cup {d}
    /\ churn' = (churn \/ \E r \in Runs : Active(r))
    /\ UNCHANGED <<up, have, dst, landed, clock, runs, left, began, last, overlap, sure>>

\* One dataset, one snapshot at a time, whatever the runs are looking for.
Prune(d, n) ==
    /\ <<d, n>> \in Pruned /\ n \in have[d]
    /\ have' = [have EXCEPT ![d] = @ \ {n}]
    /\ sure' = [r \in Runs |-> sure[r] /\ ~(newest[r] = n /\ d \in Fetched)]
    /\ UNCHANGED <<up, src, dst, landed, clock, runs, left, began, last, overlap, churn>>

Environment ==
    \/ Network
    \/ \E D \in SnapSets : Sanoid(D)
    \/ \E d \in Datasets : CreateDataset(d) \/ \E n \in have[d] : Prune(d, n)

Next == Environment \/ \E r \in Runs : Start(r) \/ Step(r)

Spec == Init /\ [][Next]_vars

\* A run is scheduled, and what it runs returns, syncoid and the boot manifest
\* tool aside (an ssh to a host that went away, by TCP's keepalive at the latest).
FairSpec == Spec /\ \A r \in Runs : WF_vars(Step(r))
-----------------------------------------------------------------------------
(* Properties.                                                             *)

\* Run r has passed its checks and is a success, recorded or not yet.
Passed(r) ==
    pc[r] \in {"capture", "hung"} \/ (pc[r] \in {"record", "write"} /\ rc[r] = "ok")

\* The names are counted alike at both ends, and the source has the datasets
\* it had when the active runs began.
Steady == SrcHits = DstHits /\ ~churn

\* Then a success is not short of a dataset, whatever syncoid skipped, the
\* network lost and other runs did meanwhile, if the source was counted: the
\* target only ever receives what the source has, so the two counts, taken one
\* after the other, compare the datasets themselves.
NoneMissing ==
    Steady => \A r \in Runs : Passed(r) /\ srcN[r] > 0 => src \ SrcHits \subseteq dst

\* A recursive pull that leaves nothing out and that syncoid had nothing to
\* complain about is recorded as a failure only if a list on this host failed,
\* or what it fetched had not, or lost, the snapshot that it looked for.  What
\* other snapshots are taken and pruned meanwhile, by whom else the target is
\* fetched and rolled back, and when the source goes away does not matter.
CleanPullPasses ==
    Steady => \A r \in Runs :
        pc[r] \in {"record", "write"} /\ rc[r] = "failed" => ~(clean[r] /\ sure[r])

\* What SyncStatus shows: the state file beats systemd, if it can be read.
Shown == IF file \in Codes THEN file ELSE unit

\* One run at a time so far, none of them now, and the last one was able to
\* leave a record.
Settled == ~overlap /\ (\A r \in Runs : ~Active(r)) /\ last # "unwritten"

\* A run that timed out or did not verify is shown as such until another ends,
\* however well the runs before it went and whoever started them.
FailureShows == Settled /\ last \in {"failed", "timeout"} => Shown = last

\* Nothing holds a run for ever but the boot manifest tool: a wedged receive is
\* killed, and a source that goes and comes back does not send it in circles.
RunEnds == \A r \in Runs : Active(r) ~> pc[r] \in {"idle", "hung"}
-----------------------------------------------------------------------------
(* What the comments of the program say of it, and the code does not keep. *)

\* "0 replicated and verified": when a run passes, the target has the newest
\* snapshots that its datasets had when it began.  One snapshot name is looked
\* for, under any dataset, and the datasets are only counted, so those that
\* syncoid skipped may be as old as they like.
PassedIsReplicated ==
    \A r \in Runs : Passed(r) =>
        \A d \in Datasets \ (Excluded \cup {Root}) :
            \A n \in began[r][d] : IsNewest(n, began[r][d]) => n \in landed[d]
=============================================================================
