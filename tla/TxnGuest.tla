------------------------------ MODULE TxnGuest ------------------------------
(***************************************************************************)
(* The guest-side client, cmd/zxplore-txn/main.go, composed with the       *)
(* daemon: one machine runs the script that the client's header gives,     *)
(*                                                                         *)
(*     txn=$(zxplore-txn begin -zvol data) || exit 1                       *)
(*     migrate && smoke-test || zxplore-txn rollback "$txn" -unmount /data *)
(*     zxplore-txn commit "$txn"                                           *)
(*                                                                         *)
(* on a data disk it has mounted.  Every command opens a connection of its *)
(* own; a client that gives up leaves the daemon's handler running.        *)
(***************************************************************************)
EXTENDS TxnApi

CONSTANTS
    Guest,      \* the machine
    Disk,       \* the zvol of its data disk
    Scripts,    \* the sets of flags a script may give to rollback
    Transports, \* the ways a client may reach the daemon
    GuestFails  \* umount and mount may fail

ASSUME GuestAssumption ==
    /\ Guest \in Vms /\ Disk \in Names[Guest]
    /\ Scripts \subseteq SUBSET {"force", "unmount", "dev"}
    /\ Transports \subseteq {"vsock", "unix", "tcp"}
    /\ GuestFails \in BOOLEAN
    /\ None \notin Conns

VARIABLES
    flags,      \* the flags the script gives to rollback
    transport,  \* how its clients reach the daemon
    step,       \* the command the script is at
    via,        \* the connection its client waits on
    id,         \* $txn
    mounted,    \* the file system on the disk is mounted
    \* history, read by no action
    undo,       \* the smoke test has failed, $txn is to be undone
    trouble     \* since the script began something has failed on its own

options == <<flags, transport>>
script == <<options, step, via, id, mounted, undo, trouble>>
allvars == <<vars, script>>

GuestInit ==
    /\ Init /\ Guest \in running
    /\ flags \in Scripts /\ transport \in Transports
    /\ step = "begin" /\ via = None /\ id = None
    /\ mounted = TRUE /\ undo = FALSE /\ trouble = FALSE

\* Where the script goes when the client at command s has exited.
After(s, success) ==
    CASE s = "begin" -> IF success THEN "work" ELSE "end"
      [] s = "rollback" -> IF success /\ {"unmount", "dev"} \subseteq flags
                             THEN "mount" ELSE "commit"
      [] s = "commit" -> "end"

\* call: dial, and write the request.
Connect(c) ==
    /\ step \in {"begin", "rollback", "commit"} /\ via = None
    /\ Accept(c)
    /\ req'[c] = Call(step, Guest, IF step = "begin" THEN Disk ELSE None,
                      id, step = "rollback" /\ "force" \in flags)
    /\ pc'[c] # "reply"
    /\ via' = c
    /\ UNCHANGED <<options, step, id, mounted, undo, trouble>>

\* Mutant: a command that is answered with an error is given once more.
Answer_Persists(c) ==
    /\ via = c
    /\ Reply(c)
    /\ ok[c] /\ req[c].op \in {"begin", "commit"} =>
            [op |-> req[c].op, txn |-> req[c].txn] \in told'
    /\ via' = None
    /\ step' = IF ok[c] THEN After(step, TRUE) ELSE step
    /\ id' = IF step = "begin" /\ ok[c] THEN req[c].txn ELSE id
    /\ UNCHANGED <<options, mounted, undo, trouble>>

\* The reply arrives: print it, or die with its error.
Answer(c) ==
    /\ via = c
    /\ Reply(c)
    /\ ok[c] /\ req[c].op \in {"begin", "commit"} =>
            [op |-> req[c].op, txn |-> req[c].txn] \in told'
    /\ via' = None
    /\ step' = After(step, ok[c])
    /\ id' = IF step = "begin" /\ ok[c] THEN req[c].txn ELSE id
    /\ UNCHANGED <<options, mounted, undo, trouble>>

\* The reply to a client that has given up.
LateReply(c) ==
    /\ via # c
    /\ Reply(c) /\ UNCHANGED told
    /\ UNCHANGED script

\* The 30 seconds are over.  The deadline is set on every transport, but a
\* vsock file descriptor is in blocking mode, for which os.File has none, and
\* the error of SetDeadline is not looked at.
GiveUp ==
    /\ via # None /\ transport # "vsock" /\ "lost" \in Events
    /\ via' = None
    /\ step' = After(step, FALSE)
    /\ trouble' = TRUE
    /\ UNCHANGED <<vars, options, id, mounted, undo>>

\* The daemon is killed, and the connection with it.
CutOff ==
    /\ Crash
    /\ via' = None
    /\ step' = IF via # None THEN After(step, FALSE) ELSE step
    /\ trouble' = TRUE
    /\ UNCHANGED <<options, id, mounted, undo>>

\* The migration writes to the disk; then the smoke test passes or not.
Work ==
    /\ step = "work"
    /\ \E d \in Data : live' = [live EXCEPT ![Disk] = d]
    /\ \/ step' = "commit" /\ UNCHANGED undo
       \/ /\ step' = IF "unmount" \in flags THEN "unmount" ELSE "rollback"
          /\ undo' = TRUE
    /\ UNCHANGED <<snaps, txg, used, host, daemon, handlers, history, options, via, id, mounted, trouble>>

\* Mutant: the daemon is called before the file system is unmounted.
Unmount_Skipped ==
    /\ step = "unmount"
    /\ step' = "rollback"
    /\ UNCHANGED <<vars, options, via, id, mounted, undo, trouble>>

\* rollback -unmount DIR: umount, and die if that fails.
Unmount ==
    /\ step = "unmount"
    /\ \/ mounted' = FALSE /\ step' = "rollback" /\ UNCHANGED trouble
       \/ GuestFails /\ UNCHANGED mounted /\ step' = "commit" /\ trouble' = TRUE
    /\ UNCHANGED <<vars, options, via, id, undo>>

\* -dev DEV: mount it again once the daemon has rolled back.
Mount ==
    /\ step = "mount"
    /\ \/ mounted' = TRUE
       \/ GuestFails /\ UNCHANGED mounted
    /\ step' = "commit"
    /\ UNCHANGED <<vars, options, via, id, undo, trouble>>

\* Later somebody runs the script again, with the disk mounted.
Again ==
    /\ step = "end" /\ step' = "begin"
    /\ id' = None /\ mounted' = TRUE /\ undo' = FALSE /\ trouble' = FALSE
    /\ UNCHANGED <<vars, options, via>>

Client ==
    \/ \E c \in Conns : Connect(c) \/ Answer(c)
    \/ GiveUp \/ Work \/ Unmount \/ Mount

\* A handler answers an error though the pool and the files allow the request.
FailsAlone(c) ==
    \/ BeginRefused(c) /\ req[c].zvol \in Names[req[c].vm]
    \/ BeginNotRecorded(c)
    \/ LoadFailed(c) /\ Records(req[c].vm, req[c].txn) # {}
    \/ (RollbackFailed(c) \/ CommitFailed(c)) /\ SnapshotsOf(req[c].txn) # {}

\* A handler on its way to the reply.
Serve(c) ==
    /\ Step(c) /\ ~Reply(c)
    /\ trouble' = (trouble \/ FailsAlone(c))
    /\ UNCHANGED <<options, step, via, id, mounted, undo>>

GuestNext ==
    \/ Client \/ Again \/ CutOff
    \/ \E c \in Conns : Serve(c) \/ LateReply(c)
    \/ /\ \/ \E n \in AutoSnaps : SanoidSnapshot(Disk, n)
          \/ \E s \in snaps : SanoidPrune(s)
       /\ UNCHANGED script

GuestSpec == GuestInit /\ [][GuestNext]_allvars

\* The guest is scheduled, so is every handler of the daemon, and the commands
\* that it runs return; a handler is served to its end, whether somebody waits for
\* it or not.  Nothing makes the daemon stay up, or a client wait for it over TCP.
GuestFairSpec ==
    /\ GuestSpec
    /\ WF_allvars(Client)
    /\ \A c \in Conns : WF_allvars(Serve(c) \/ Answer(c) \/ LateReply(c))
-----------------------------------------------------------------------------
\* A script that unmounts the disk before the rollback never has it mounted
\* while the daemon rolls it back, though the daemon may crash, commands may
\* fail and the script may run again: over vsock the client outwaits the
\* daemon, and remounts only what is rolled back.
QuietRollback ==
    [][\A c \in Conns :
          At(c, "rollback", "rollback") /\ pc'[c] = "audit"
            /\ "unmount" \in flags /\ transport = "vsock" => ~mounted]_allvars

Undone == \A s \in SnapshotsOf(id) : live[Disk] = s.data

\* When a script that insists commits after a failed smoke test, and nothing
\* has failed on its own, the disk is back to what begin kept: sanoid's
\* snapshots and prunes and a virsh that fails do not stand in its way.
UndoneBeforeCommit ==
    step = "commit" /\ undo /\ "force" \in flags /\ ~trouble => Undone

\* The script ends, whatever crashes and fails under it, on either transport:
\* over vsock, where a client has no deadline, because every path of a handler
\* ends in a reply and a daemon that dies takes the connection with it; over TCP
\* although the handlers that its clients have given up keep their connections
\* until they are done.
ScriptEnds == step = "work" ~> step = "end"
=============================================================================
