------------------------------ MODULE SyncJobs ------------------------------
(***************************************************************************)
(* The schedule of Auto Sync (sync.go, gui_sync.go): a job on the list,    *)
(* its systemd service and timer, installed and removed in steps by the    *)
(* tab or by `zxplore --sync', with systemctl and the disk failing between *)
(* any two.  What a timer then runs is SyncRun; how the list's file is     *)
(* written is ConfigFiles.                                                 *)
(***************************************************************************)
EXTENDS Integers, FiniteSets

CONSTANTS
    Jobs,    \* job names
    Units,   \* names of units
    Times,   \* schedules
    Tabs,    \* open tabs, and command lines
    NoFile,  \* a file, or an entry of the list, that is not there
    Torn,    \* a unit file whose writing failed
    MaxJobOps

ASSUME JobsAssumption ==
    /\ {NoFile, Torn} \cap (Jobs \cup Times) = {} /\ NoFile # Torn /\ MaxJobOps \in Nat

VARIABLES
    unitName,  \* job |-> unit; two names may differ in replaced characters only
    joblist,   \* job |-> its schedule on the list, or NoFile
    service,   \* unit |-> the job its service runs
    timer,     \* unit |-> the schedule of its timer
    links,     \* the units systemd has links to
    drawn,     \* tab |-> the list and the enabled timers as drawn
    step,      \* tab |-> the step it is at, of which job and schedule
    erred,     \* tab |-> an error of this removal
    jobSaid,   \* tab |-> what it reported last
    clean,     \* no step has failed
    crossed,   \* two operations overlapped, or one began from an old drawing
    jobOps

jobVars == <<unitName, joblist, service, timer, links, drawn, step, erred, jobSaid, clean, crossed, jobOps>>

Idle == [at |-> "idle", job |-> NoFile, sched |-> NoFile, del |-> FALSE]

\* SyncStatus: `systemctl is-enabled' of a timer.
IsEnabled(u) == u \in links /\ timer[u] # NoFile

Drawing == [list |-> joblist, on |-> {u \in Units : IsEnabled(u)}]

JobsInit ==
    /\ unitName \in [Jobs -> Units]
    /\ joblist \in [Jobs -> Times \cup {NoFile}]
    /\ service = [u \in Units |-> NoFile] /\ timer = [u \in Units |-> NoFile] /\ links = {}
    /\ drawn = [t \in Tabs |-> Drawing]
    /\ step = [t \in Tabs |-> Idle]
    /\ erred = [t \in Tabs |-> FALSE]
    /\ jobSaid = [t \in Tabs |-> "nothing"]
    /\ clean = TRUE /\ crossed = FALSE /\ jobOps = 0

\* A tab begins something.
Starts(t, at, v, j, del) ==
    /\ step[t] = Idle /\ jobOps < MaxJobOps
    /\ jobOps' = jobOps + 1
    /\ step' = [step EXCEPT ![t] = [at |-> at, job |-> j, sched |-> v.list[j], del |-> del]]
    /\ erred' = [erred EXCEPT ![t] = FALSE]
    /\ jobSaid' = [jobSaid EXCEPT ![t] = "nothing"]
    /\ crossed' = (crossed \/ v # Drawing \/ \E o \in Tabs : step[o] # Idle)
    /\ UNCHANGED <<unitName, joblist, service, timer, links, drawn, clean>>

Goes(t, at) ==
    /\ step' = [step EXCEPT ![t].at = at]
    /\ UNCHANGED <<unitName, drawn, jobSaid, crossed, jobOps>>

\* The end of an operation; the tab is drawn again unless it failed.
Ends(t, says) ==
    /\ step' = [step EXCEPT ![t] = Idle]
    /\ jobSaid' = [jobSaid EXCEPT ![t] = says]
    /\ drawn' = [drawn EXCEPT ![t] = IF says = "error" THEN @ ELSE Drawing']
    /\ UNCHANGED <<unitName, crossed, jobOps>>

Redraw(t) ==
    /\ step[t] = Idle
    /\ drawn' = [drawn EXCEPT ![t] = Drawing]
    /\ UNCHANGED <<unitName, joblist, service, timer, links, step, erred, jobSaid, clean, crossed, jobOps>>

\* The job editor saves; installed units are left as they are.
SaveJob(t) ==
    /\ step[t] = Idle /\ jobOps < MaxJobOps
    /\ \E j \in Jobs, s \in Times : joblist' = [joblist EXCEPT ![j] = s]
    /\ drawn' = [drawn EXCEPT ![t] = [Drawing EXCEPT !.list = joblist']]
    /\ jobOps' = jobOps + 1
    /\ crossed' = (crossed \/ \E o \in Tabs : step[o] # Idle)
    /\ UNCHANGED <<unitName, service, timer, links, step, erred, jobSaid, clean>>

\* What an operation goes by: what is drawn, or what a command line reads.
View(t, cli) == IF cli THEN Drawing ELSE drawn[t]

Install(t) ==
    \E cli \in BOOLEAN, j \in Jobs :
       LET v == View(t, cli)
       IN  /\ v.list[j] # NoFile
           /\ cli \/ unitName[j] \notin v.on
           /\ Starts(t, "service", v, j, FALSE)

RemoveUnits(t) ==
    \E cli \in BOOLEAN, j \in Jobs :
       LET v == View(t, cli)
       IN  /\ v.list[j] # NoFile
           /\ cli \/ unitName[j] \in v.on
           /\ Starts(t, "disable", v, j, FALSE)

\* Mutant: the job is deleted, its timer is not.
Delete_ListOnly(t) ==
    \E j \in Jobs : drawn[t].list[j] # NoFile /\ Starts(t, "save", drawn[t], j, TRUE)

Delete(t) ==
    \E j \in Jobs : drawn[t].list[j] # NoFile /\ Starts(t, "disable", drawn[t], j, TRUE)

UnitOf(t) == unitName[step[t].job]

\* No systemd, no syncoid, or a step of an installation that fails: a file may
\* be left torn.
InstallFails(t) ==
    /\ step[t].at \in {"service", "timer", "reload", "enable"}
    /\ service' \in {service, [service EXCEPT ![UnitOf(t)] = IF step[t].at = "service" THEN Torn ELSE @]}
    /\ timer' \in {timer, [timer EXCEPT ![UnitOf(t)] = IF step[t].at = "timer" THEN Torn ELSE @]}
    /\ Ends(t, "error")
    /\ clean' = FALSE
    /\ UNCHANGED <<joblist, links, erred>>

WriteService(t) ==
    /\ step[t].at = "service"
    /\ service' = [service EXCEPT ![UnitOf(t)] = step[t].job]
    /\ Goes(t, "timer")
    /\ UNCHANGED <<joblist, timer, links, erred, clean>>

WriteTimer(t) ==
    /\ step[t].at = "timer"
    /\ timer' = [timer EXCEPT ![UnitOf(t)] = step[t].sched]
    /\ Goes(t, "reload")
    /\ UNCHANGED <<joblist, service, links, erred, clean>>

ReloadUnits(t) ==
    /\ step[t].at = "reload"
    /\ Goes(t, "enable")
    /\ UNCHANGED <<joblist, service, timer, links, erred, clean>>

\* `enable' returns 0, which is not proof that the link is there.
Enable(t) ==
    /\ step[t].at = "enable" /\ timer[UnitOf(t)] # NoFile
    /\ links' \in {links, links \cup {UnitOf(t)}}
    /\ Goes(t, "verify")
    /\ UNCHANGED <<joblist, service, timer, erred, clean>>

\* Mutant: what `enable' returned is believed.
Verify_Trusts(t) ==
    /\ step[t].at = "verify"
    /\ UNCHANGED <<joblist, service, timer, links, erred, clean>>
    /\ Ends(t, "installed")

Verify(t) ==
    /\ step[t].at = "verify"
    /\ UNCHANGED <<joblist, service, timer, links, erred, clean>>
    /\ Ends(t, IF IsEnabled(UnitOf(t)) THEN "installed" ELSE "error")

\* What `disable' returns is not looked at.
Disable(t) ==
    /\ step[t].at = "disable"
    /\ \E did \in BOOLEAN :
          /\ links' = IF did THEN links \ {UnitOf(t)} ELSE links
          /\ clean' = (clean /\ did)
    /\ Goes(t, "rmService")
    /\ UNCHANGED <<joblist, service, timer, erred>>

RemoveService(t) ==
    /\ step[t].at = "rmService"
    /\ \E did \in BOOLEAN :
          /\ service' = IF did THEN [service EXCEPT ![UnitOf(t)] = NoFile] ELSE service
          /\ erred' = [erred EXCEPT ![t] = ~did]
          /\ clean' = (clean /\ did)
    /\ Goes(t, "rmTimer")
    /\ UNCHANGED <<joblist, timer, links>>

\* The first error is kept, and the other file is removed all the same.
RemoveTimer(t) ==
    /\ step[t].at = "rmTimer"
    /\ \E did \in BOOLEAN :
          /\ timer' = IF did THEN [timer EXCEPT ![UnitOf(t)] = NoFile] ELSE timer
          /\ erred' = [erred EXCEPT ![t] = @ \/ ~did]
          /\ clean' = (clean /\ did)
    /\ Goes(t, "rmReload")
    /\ UNCHANGED <<joblist, service, links>>

\* A removal reports its error; a deletion goes on without looking at it.
Removed(t) ==
    /\ step[t].at = "rmReload"
    /\ UNCHANGED <<joblist, service, timer, links, erred, clean>>
    /\ IF step[t].del THEN Goes(t, "save")
       ELSE Ends(t, IF erred[t] THEN "error" ELSE "removed")

SaveDeleted(t) ==
    /\ step[t].at = "save"
    /\ UNCHANGED <<service, timer, links, erred>>
    /\ \/ joblist' = [joblist EXCEPT ![step[t].job] = NoFile] /\ Ends(t, "deleted") /\ UNCHANGED clean
       \/ clean' = FALSE /\ Ends(t, "error") /\ UNCHANGED joblist

JobsNext ==
    \E t \in Tabs :
        \/ Redraw(t) \/ SaveJob(t) \/ Install(t) \/ RemoveUnits(t) \/ Delete(t)
        \/ InstallFails(t) \/ WriteService(t) \/ WriteTimer(t) \/ ReloadUnits(t)
        \/ Enable(t) \/ Verify(t)
        \/ Disable(t) \/ RemoveService(t) \/ RemoveTimer(t) \/ Removed(t) \/ SaveDeleted(t)

JobsSpec == JobsInit /\ [][JobsNext]_jobVars
-----------------------------------------------------------------------------
(* Properties.                                                             *)

\* "Installed" and "removed" are said of what is so: the timer is enabled and
\* its service is there, or neither file is left, as long as no other session
\* had a part in it (InstallSyncJob, RemoveSyncJob).
SaidIsSo ==
    [][\A t \in Tabs, u \in Units :
          step[t] # Idle /\ u = UnitOf(t) /\ ~crossed =>
              /\ jobSaid'[t] = "installed" =>
                    IsEnabled(u)' /\ service[u] = step[t].job /\ timer[u] = step[t].sched
              /\ jobSaid'[t] = "removed" => service'[u] = NoFile /\ timer'[u] = NoFile]_jobVars

\* Between clean operations every enabled timer runs a job that is on the list,
\* whatever names share a unit: no timer is left that the tab does not show.
NoOrphan ==
    clean /\ ~crossed /\ (\A t \in Tabs : step[t] = Idle) =>
        \A u \in Units : IsEnabled(u) =>
            service[u] \in Jobs /\ joblist[service[u]] # NoFile /\ unitName[service[u]] = u
=============================================================================
