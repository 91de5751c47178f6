--------------------------- MODULE TxnGuestProofs ---------------------------
(***************************************************************************)
(* Proofs about the guest's script and the daemon together (module         *)
(* TxnGuest): what TxnApiProofs shows of the daemon also holds below the   *)
(* script, whose disk is quiet while it is rolled back over vsock, and is  *)
(* back to what begin kept when a script that insists commits.             *)
(***************************************************************************)
EXTENDS TxnGuest, TxnApiProofs

\* The steps at which the script has a transaction.
Past == {"work", "unmount", "rollback", "mount", "commit"}

\* The handler of c serves a command of the script, of this or an earlier run.
Asked(c) ==
    pc[c] # "idle" =>
        /\ req[c].vm = Guest
        /\ \/ req[c].op = "begin" /\ req[c].zvol = Disk
           \/ req[c].op \in {"rollback", "commit"} /\ req[c].txn \in used

\* The pool and the files are about the script's disk and machine.
OnDisk == (\A s \in snaps : s.zvol = Disk) /\ (\A f \in files : f.vm = Guest)

\* The connection its client waits on serves the command the script is at; a
\* rollback that insists is never refused.
Waits ==
    /\ via \in Conns \cup {None}
    /\ via # None =>
        /\ pc[via] # "idle" /\ step \in {"begin", "rollback", "commit"} /\ req[via].op = step
        /\ step # "begin" => req[via].txn = id
        /\ step = "rollback" /\ "force" \in flags => req[via].force /\ pc[via] # "refuse"

\* Past begin the script knows a transaction that it has been told of.
Holds ==
    /\ step \in Past \cup {"begin", "end"}
    /\ step \in Past => id \in TxnIds /\ [op |-> "begin", txn |-> id] \in told
    /\ step \in {"begin", "work"} => ~undo

\* Over vsock the daemon serves nobody but the waiting client.
Quiet ==
    transport = "vsock" =>
        /\ \A c \in Conns : pc[c] # "idle" => c = via
        /\ "unmount" \in flags /\ step = "rollback" => ~mounted

\* t is the transaction of this run of the script, which may not know it yet.
Current(t) ==
    \/ step \in Past /\ t = id
    \/ step = "begin" /\ via # None /\ Ready(via) /\ t = req[via].txn

\* The rollbacks that clients have given up go back to before t.
Older(t) ==
    \A d \in Conns \ {via} : pc[d] # "idle" /\ req[d].op = "rollback" =>
        \A r \in SnapshotsOf(req[d].txn), s \in SnapshotsOf(t) : r.txg < s.txg

\* The daemon has rolled the disk back, or has said that it cannot.
Settled ==
    \/ step \in {"mount", "commit"}
    \/ step = "rollback" /\ via # None /\ pc[via] \in {"audit", "reply"}

OlderInv == ~trouble => \A t \in TxnIds : Current(t) => Older(t)

SettledInv == ~trouble /\ undo /\ "force" \in flags /\ Settled => Undone

\* The inductive invariant.
GuestInv ==
    /\ IInv
    /\ \A c \in Conns : Asked(c)
    /\ OnDisk /\ Waits /\ Holds /\ Quiet /\ OlderInv /\ SettledInv
-----------------------------------------------------------------------------
(* The daemon below the script.                                            *)

\* The script only does to the daemon what TxnApi allows, but for its writes
\* to the disk, which ask nobody.
LEMMA DaemonMoves ==
    ASSUME [GuestNext]_allvars
    PROVE  [Next]_vars \/ Work
<1> USE DEF allvars
<1>1. ASSUME NEW c \in Conns, Connect(c) PROVE Next
  BY <1>1 DEF Connect, Next
<1>2. ASSUME NEW c \in Conns, Answer(c) \/ LateReply(c) PROVE Next
  BY <1>2 DEF Answer, LateReply, Next, Step
<1>3. ASSUME NEW c \in Conns, Serve(c) PROVE Next
  BY <1>3 DEF Serve, Next
<1>4. CASE GiveUp \/ Unmount \/ Mount \/ Again \/ UNCHANGED allvars
  BY <1>4 DEF GiveUp, Unmount, Mount, Again
<1>5. CASE CutOff
  BY <1>5 DEF CutOff, Next, Environment
<1>6. ASSUME \/ \E n \in AutoSnaps : SanoidSnapshot(Disk, n)
             \/ \E s \in snaps : SanoidPrune(s)
      PROVE  Next
  <2>1. Disk \in Zvols
    BY GuestAssumption, ConstantsAssumption
  <2>2. QED
    BY <1>6, <2>1 DEF Next, Environment
<1>7. QED
  BY <1>1, <1>2, <1>3, <1>4, <1>5, <1>6 DEF GuestNext, Client

\* A write to the disk is nothing to the daemon.
LEMMA WorkIsNothing ==
    ASSUME IInv, Work
    PROVE  IInv' /\ Monotone /\ told \subseteq told'
<1>1. UNCHANGED <<snaps, txg, used, running, disks, files, audit, pc, req, ok, dir, listed, walk,
                  fate, told, touched, owed, held>>
  BY DEF Work, host, daemon, handlers, history
<1>2. live' \in [Zvols -> Data]
  BY DEF Work, IInv, TypeOK
<1>3. TypeOK'
  BY <1>1, <1>2 DEF IInv, TypeOK, Ready, At
<1>4. PoolInv' /\ FilesInv'
  BY <1>1 DEF IInv, PoolInv, FilesInv, SnapshotsOf
<1>5. HandlersInv' /\ CommitOnce'
  BY <1>1 DEF IInv, HandlersInv, HandlerInv, CommitOnce, Committing, Ready, Recorded, SnapshotsOf
<1>6. ToldInv'
  BY <1>1 DEF IInv, ToldInv, Recorded
<1>7. Monotone
  BY <1>1 DEF Monotone, SnapshotsOf
<1>8. QED
  BY <1>1, <1>3, <1>4, <1>5, <1>6, <1>7 DEF IInv

\* What has been told stays told.
LEMMA ToldStays == [Next]_vars => told \subseteq told'
<1>1. CASE Environment \/ UNCHANGED vars
  BY <1>1 DEF Environment, vars, history, Crash, GuestWrite, SanoidSnapshot, SanoidPrune,
     PowerSwitch, Attach, Detach
<1>2. ASSUME NEW c \in Conns, Reply(c) PROVE told \subseteq told'
  BY <1>2 DEF Reply
<1>3. ASSUME NEW c \in Conns, Accept(c) \/ (Step(c) /\ ~Reply(c)) PROVE told' = told
  <2>1. CASE \/ Accept(c) \/ BeginSnapshot(c) \/ BeginRefused(c) \/ BeginCreate(c) \/ BeginFill(c)
             \/ BeginNotRecorded(c) \/ Load(c) \/ LoadFailed(c)
    BY <2>1 DEF Accept, BeginSnapshot, BeginRefused, BeginCreate, BeginFill, BeginNotRecorded,
       Load, LoadFailed, history
  <2>2. CASE \/ RollbackCheck(c) \/ RollbackWalk(c) \/ RollbackRefused(c) \/ Rollback(c)
             \/ RollbackFailed(c) \/ CommitDestroy(c) \/ CommitFailed(c) \/ CommitRemove(c)
    BY <2>2 DEF RollbackCheck, RollbackWalk, RollbackRefused, Rollback, RollbackFailed,
       CommitDestroy, CommitFailed, CommitRemove, history
  <2>3. CASE ListDir(c) \/ ListFailed(c) \/ ListRead(c) \/ ListDone(c) \/ Audit(c)
    BY <2>3 DEF ListDir, ListFailed, ListRead, ListDone, Audit, history
  <2> QED
    BY <1>3, <2>1, <2>2, <2>3 DEF Step
<1> QED
  BY <1>1, <1>2, <1>3 DEF Next

\* The daemon's invariant is kept.
LEMMA DaemonStep ==
    ASSUME IInv, [GuestNext]_allvars
    PROVE  IInv' /\ Monotone /\ told \subseteq told'
<1>1. CASE [Next]_vars
  <2>1. TypeOK /\ PoolInv
    BY DEF IInv
  <2>2. QED
    BY <1>1, <2>1, Inductive, PoolMonotone, ToldStays
<1>2. CASE Work
  BY <1>2, WorkIsNothing
<1>3. QED
  BY <1>1, <1>2, DaemonMoves
-----------------------------------------------------------------------------
(* The handlers, and what they are about.                                  *)

\* A handler on its way to the reply works on the request it was given; that a
\* begin draws its transaction and the others look up their zvol is no matter.
LEMMA RequestStays ==
    ASSUME TypeOK, NEW c \in Conns, Step(c), ~Reply(c)
    PROVE  /\ pc[c] # "idle" /\ pc'[c] # "idle"
           /\ req'[c].op = req[c].op /\ req'[c].vm = req[c].vm /\ req'[c].force = req[c].force
           /\ req[c].op # "begin" => req'[c].txn = req[c].txn
           /\ req[c].op = "begin" => req'[c].zvol = req[c].zvol
           /\ told' = told
<1> USE DEF TypeOK, At, Goto, Fail, handlers, history
<1>1. CASE BeginSnapshot(c)
  BY <1>1 DEF BeginSnapshot, Request
<1>2. CASE BeginRefused(c) \/ BeginCreate(c) \/ BeginFill(c) \/ BeginNotRecorded(c)
  BY <1>2 DEF BeginRefused, BeginCreate, BeginFill, BeginNotRecorded
<1>3. CASE Load(c)
  BY <1>3 DEF Load, Request
<1>4. CASE LoadFailed(c) \/ RollbackCheck(c) \/ RollbackWalk(c) \/ RollbackRefused(c)
  BY <1>4 DEF LoadFailed, RollbackCheck, RollbackWalk, RollbackRefused
<1>5. CASE Rollback(c) \/ RollbackFailed(c)
  BY <1>5 DEF Rollback, RollbackFailed
<1>6. CASE CommitDestroy(c) \/ CommitFailed(c) \/ CommitRemove(c)
  BY <1>6 DEF CommitDestroy, CommitFailed, CommitRemove
<1>7. CASE ListDir(c) \/ ListFailed(c) \/ ListRead(c) \/ ListDone(c) \/ Audit(c)
  BY <1>7 DEF ListDir, ListFailed, ListRead, ListDone, Audit
<1>8. QED
  BY <1>1, <1>2, <1>3, <1>4, <1>5, <1>6, <1>7 DEF Step

\* A client brings the command its script is at, and is let in.
LEMMA ConnectBrings ==
    ASSUME TypeOK, NEW c \in Conns, Connect(c)
    PROVE  /\ pc'[c] \in {"begin", "load"}
           /\ req'[c] = Call(step, Guest, IF step = "begin" THEN Disk ELSE None,
                             id, step = "rollback" /\ "force" \in flags)
           /\ \A d \in Conns \ {c} : Same(d)
           /\ UNCHANGED <<pool, host, daemon, fate, told>>
<1>1. Accept(c) /\ req'[c].op = step /\ step \in {"begin", "rollback", "commit"} /\ pc'[c] # "reply"
  BY DEF Connect, Call
<1>2. PICK op \in Calls, v \in Vms, by \in {"vsock", "token", "operator", "nobody"} :
        \E z \in Zvols \cup {None}, t \in TxnIds \cup {None}, force \in BOOLEAN :
          /\ op = "begin" <=> z # None
          /\ op \in {"rollback", "commit"} <=> t # None
          /\ op # "rollback" => ~force
          /\ req' = [req EXCEPT ![c] = Call(op, v, z, t, force)]
          /\ Goto(c, IF Identified(by, v) THEN FirstStep(op) ELSE "reply")
          /\ held' = [held EXCEPT ![c] =
                        {h \in Vms \X Zvols : HasDisk(h) /\ op = "rollback" /\ ~force}]
  BY <1>1, Zenon DEF Accept
<1>3. op = step /\ pc'[c] = FirstStep(op)
  BY <1>1, <1>2 DEF TypeOK, Goto, Call
<1>4. pc'[c] \in {"begin", "load"}
  BY <1>1, <1>3 DEF FirstStep
<1>5. \A d \in Conns \ {c} : Same(d)
  BY <1>1, OneMoves
<1>6. UNCHANGED <<pool, host, daemon, fate, told>>
  BY <1>1 DEF Accept
<1>7. QED
  BY <1>4, <1>5, <1>6 DEF Connect

\* A reply ends the handler.
LEMMA ReplyEnds ==
    ASSUME TypeOK, NEW c \in Conns, Reply(c)
    PROVE  /\ pc[c] = "reply" /\ pc'[c] = "idle"
           /\ \A d \in Conns \ {c} : Same(d)
           /\ UNCHANGED <<pool, host, daemon, fate>>
BY OneMoves DEF Reply, Step, TypeOK, Goto

\* Every request is the script's.
LEMMA AskedStep ==
    ASSUME IInv, Waits, Holds, \A c \in Conns : Asked(c), [GuestNext]_allvars
    PROVE  (\A c \in Conns : Asked(c))'
<1> DEFINE Kept(d) == pc'[d] = "idle" \/ (pc'[d] = pc[d] /\ req'[d] = req[d])
<1>0. TypeOK /\ ToldInv /\ used \subseteq used'
  BY DaemonStep DEF IInv, Monotone
<1>1. ASSUME NEW d \in Conns, Kept(d) PROVE Asked(d)'
  BY <1>0, <1>1 DEF Asked
<1>2. ASSUME NEW c \in Conns, Connect(c) PROVE \A d \in Conns : Asked(d)'
  <2>1. Asked(c)'
    <3>1. step # "begin" => id \in used
      BY <1>0, <1>2 DEF Connect, Holds, Past, ToldInv
    <3>2. QED
      BY <1>0, <1>2, <3>1, ConnectBrings DEF Asked, Call, Connect
  <2>2. QED
    BY <1>0, <1>1, <1>2, <2>1, ConnectBrings DEF Same
<1>3. ASSUME NEW c \in Conns, Answer(c) \/ LateReply(c) PROVE \A d \in Conns : Asked(d)'
  BY <1>0, <1>1, <1>3, ReplyEnds DEF Answer, LateReply, Same
<1>4. ASSUME NEW c \in Conns, Serve(c) PROVE \A d \in Conns : Asked(d)'
  <2>1. Asked(c)'
    BY <1>0, <1>4, RequestStays DEF Serve, Asked
  <2>2. QED
    BY <1>0, <1>1, <1>4, <2>1, OneMoves DEF Serve, Same
<1>5. CASE \/ GiveUp \/ CutOff \/ Work \/ Unmount \/ Mount \/ Again \/ UNCHANGED allvars
           \/ \E n \in AutoSnaps : SanoidSnapshot(Disk, n)
           \/ \E s \in snaps : SanoidPrune(s)
  <2>1. \A d \in Conns : Kept(d)
    BY <1>5 DEF GiveUp, CutOff, Crash, Work, Unmount, Mount, Again, SanoidSnapshot, SanoidPrune,
       allvars, vars, handlers
  <2>2. QED
    BY <1>1, <2>1
<1>6. QED
  BY <1>2, <1>3, <1>4, <1>5 DEF GuestNext, Client

\* A request that insists is not refused.
LEMMA RefusedFrom ==
    ASSUME TypeOK, NEW c \in Conns, Step(c), ~Reply(c), req[c].force, pc[c] # "refuse"
    PROVE  pc'[c] # "refuse"
<1> USE DEF TypeOK, At, Goto, Fail, handlers
<1>1. CASE BeginSnapshot(c) \/ BeginRefused(c) \/ BeginCreate(c) \/ BeginFill(c) \/ BeginNotRecorded(c)
  BY <1>1 DEF BeginSnapshot, BeginRefused, BeginCreate, BeginFill, BeginNotRecorded
<1>2. CASE Load(c) \/ LoadFailed(c) \/ RollbackCheck(c) \/ RollbackWalk(c) \/ RollbackRefused(c)
  BY <1>2 DEF Load, LoadFailed, RollbackCheck, RollbackWalk, RollbackRefused
<1>3. CASE Rollback(c) \/ RollbackFailed(c) \/ CommitDestroy(c) \/ CommitFailed(c) \/ CommitRemove(c)
  BY <1>3 DEF Rollback, RollbackFailed, CommitDestroy, CommitFailed, CommitRemove
<1>4. CASE ListDir(c) \/ ListFailed(c) \/ ListRead(c) \/ ListDone(c) \/ Audit(c)
  BY <1>4 DEF ListDir, ListFailed, ListRead, ListDone, Audit
<1>5. QED
  BY <1>1, <1>2, <1>3, <1>4 DEF Step

\* Nothing but the script's disk is snapshot, nothing but its transactions
\* recorded.
LEMMA OnDiskStep ==
    ASSUME TypeOK, \A c \in Conns : Asked(c), OnDisk, [GuestNext]_allvars
    PROVE  OnDisk'
<1> USE DEF OnDisk
<1>1. ASSUME NEW c \in Conns, BeginSnapshot(c) PROVE OnDisk'
  BY <1>1 DEF BeginSnapshot, TakeSnapshot, Asked, At, daemon
<1>2. ASSUME NEW c \in Conns, BeginCreate(c) \/ BeginFill(c) PROVE OnDisk'
  BY <1>2 DEF BeginCreate, BeginFill, Asked, At, pool
<1>3. ASSUME NEW c \in Conns,
             Rollback(c) \/ RollbackFailed(c) \/ CommitDestroy(c) \/ CommitRemove(c)
      PROVE  OnDisk'
  BY <1>3 DEF Rollback, RollbackFailed, CommitDestroy, CommitRemove, RollBackTo, Drop, daemon, pool
<1>4. ASSUME NEW c \in Conns,
             \/ BeginRefused(c) \/ BeginNotRecorded(c) \/ Load(c) \/ LoadFailed(c)
             \/ RollbackCheck(c) \/ RollbackWalk(c) \/ RollbackRefused(c) \/ CommitFailed(c)
             \/ ListDir(c) \/ ListFailed(c) \/ ListRead(c) \/ ListDone(c) \/ Audit(c)
      PROVE  OnDisk'
  BY <1>4 DEF pool, daemon, BeginRefused, BeginNotRecorded, Load, LoadFailed, RollbackCheck, RollbackWalk,
     RollbackRefused, CommitFailed, ListDir, ListFailed, ListRead, ListDone, Audit
<1>5. ASSUME NEW c \in Conns, Connect(c) \/ Answer(c) \/ LateReply(c) PROVE OnDisk'
  BY <1>5 DEF Connect, Answer, LateReply, Accept, Reply, pool, daemon
<1>6. CASE GiveUp \/ CutOff \/ Work \/ Unmount \/ Mount \/ Again \/ UNCHANGED allvars
  BY <1>6 DEF GiveUp, CutOff, Crash, Work, Unmount, Mount, Again, allvars, vars, pool, daemon
<1>7. CASE \/ \E n \in AutoSnaps : SanoidSnapshot(Disk, n)
           \/ \E s \in snaps : SanoidPrune(s)
  BY <1>7 DEF SanoidSnapshot, TakeSnapshot, SanoidPrune, daemon
<1>8. QED
  BY <1>1, <1>2, <1>3, <1>4, <1>5, <1>6, <1>7 DEF GuestNext, Client, Serve, Step

\* Whoever the client waits on serves its command.
LEMMA WaitsStep ==
    ASSUME TypeOK, Waits, [GuestNext]_allvars
    PROVE  Waits'
<1>0. None \notin Conns
  BY GuestAssumption
<1>1. ASSUME NEW c \in Conns, Connect(c) PROVE Waits'
  <2>1. /\ via' = c /\ step \in {"begin", "rollback", "commit"}
        /\ UNCHANGED <<flags, step, id>>
    BY <1>1 DEF Connect, options
  <2>2. pc'[c] \in {"begin", "load"}
    BY <1>1, ConnectBrings
  <2> DEFINE disk == IF step = "begin" THEN Disk ELSE None
             insists == step = "rollback" /\ "force" \in flags
  <2>3. req'[c] = [op |-> step, vm |-> Guest, zvol |-> disk, txn |-> id, force |-> insists]
    BY <1>1, ConnectBrings, Zenon DEF Call
  <2> HIDE DEF disk, insists
  <2>4. req'[c].op = step /\ req'[c].txn = id /\ req'[c].force = insists
    BY <2>3
  <2>5. QED
    BY <2>1, <2>2, <2>4 DEF Waits, insists
<1>2. ASSUME NEW c \in Conns, Serve(c) PROVE Waits'
  <2>1. UNCHANGED <<flags, step, via, id>> /\ Step(c) /\ ~Reply(c)
    BY <1>2 DEF Serve, options
  <2>2. CASE via = c
    BY <2>1, <2>2, RequestStays, RefusedFrom DEF Waits
  <2>3. CASE via # c
    BY <2>1, <2>3, OneMoves DEF Waits, Same
  <2>4. QED
    BY <2>2, <2>3
<1>3. ASSUME NEW c \in Conns, LateReply(c) PROVE Waits'
  BY <1>3, ReplyEnds DEF LateReply, Waits, Same, script, options
<1>4. CASE \/ GiveUp \/ CutOff \/ \E c \in Conns : Answer(c)
  BY <1>0, <1>4 DEF GiveUp, CutOff, Answer, Waits
<1>5. CASE Work \/ Unmount \/ Mount \/ Again
  BY <1>0, <1>5 DEF Work, Unmount, Mount, Again, Waits
<1>6. CASE \/ UNCHANGED allvars
           \/ UNCHANGED script /\ \/ \E n \in AutoSnaps : SanoidSnapshot(Disk, n)
                                  \/ \E s \in snaps : SanoidPrune(s)
  BY <1>6 DEF SanoidSnapshot, SanoidPrune, allvars, vars, handlers, script, options, Waits
<1>7. QED
  BY <1>1, <1>2, <1>3, <1>4, <1>5, <1>6 DEF GuestNext, Client

\* The script only gets past begin with a transaction it was told of.
LEMMA HoldsStep ==
    ASSUME IInv, Waits, Holds, [GuestNext]_allvars
    PROVE  Holds'
<1>0. told \subseteq told' /\ TypeOK
  BY DaemonStep DEF IInv
<1> USE <1>0 DEF Holds, Past
<1>1. ASSUME NEW c \in Conns, Answer(c) PROVE Holds'
  <2>1. /\ step \in {"begin", "rollback", "commit"} /\ req[c].op = step
        /\ step' = After(step, ok[c])
        /\ id' = IF step = "begin" /\ ok[c] THEN req[c].txn ELSE id
        /\ undo' = undo
        /\ ok[c] /\ step = "begin" => [op |-> "begin", txn |-> req[c].txn] \in told'
    BY <1>1, GuestAssumption DEF Answer, Waits
  <2>2. ok[c] /\ step = "begin" => req[c].txn \in TxnIds
    BY <1>1, <2>1 DEF Answer, Reply, TypeOK, Ready
  <2>3. CASE step = "begin" /\ ok[c]
    BY <2>1, <2>2, <2>3 DEF After
  <2>4. CASE step = "begin" /\ ~ok[c]
    BY <2>1, <2>4 DEF After
  <2>5. CASE step # "begin"
    BY <2>1, <2>5 DEF After
  <2>6. QED
    BY <2>3, <2>4, <2>5
<1>2. CASE GiveUp \/ CutOff
  <2>1. /\ step' \in {step, After(step, FALSE)} /\ UNCHANGED <<id, undo>>
        /\ step' # step => step \in {"begin", "rollback", "commit"}
    BY <1>2 DEF GiveUp, CutOff, Waits
  <2>2. QED
    BY <2>1 DEF After
<1>3. CASE Work \/ Unmount \/ Mount \/ Again
  BY <1>3 DEF Work, Unmount, Mount, Again
<1>4. CASE \/ \E c \in Conns : Connect(c) \/ Serve(c) \/ LateReply(c)
           \/ UNCHANGED script \/ UNCHANGED allvars
  BY <1>4 DEF Connect, Serve, LateReply, script, allvars
<1>5. QED
  BY <1>1, <1>2, <1>3, <1>4 DEF GuestNext, Client

\* Over vsock a client outwaits the daemon.
LEMMA QuietStep ==
    ASSUME TypeOK, Waits, Quiet, [GuestNext]_allvars
    PROVE  Quiet'
<1> SUFFICES ASSUME transport' = "vsock" PROVE Quiet'
  BY DEF Quiet
<1>0. transport = "vsock" /\ flags' = flags
  BY DEF GuestNext, Client, Connect, Answer, GiveUp, Work, Unmount, Mount, Again, CutOff, Serve,
     LateReply, script, options, allvars
<1> USE <1>0 DEF Quiet
<1>1. ASSUME NEW c \in Conns, Connect(c) PROVE Quiet'
  BY <1>1, ConnectBrings, GuestAssumption DEF Connect, Same
<1>2. ASSUME NEW c \in Conns, Answer(c) PROVE Quiet'
  <2>1. step' # "rollback"
    BY <1>2, GuestAssumption DEF Answer, After, Waits
  <2>2. QED
    BY <1>2, <2>1, ReplyEnds DEF Answer, Same
<1>3. ASSUME NEW c \in Conns, Serve(c) PROVE Quiet'
  BY <1>3, RequestStays, OneMoves DEF Serve, Same
<1>4. ASSUME NEW c \in Conns, LateReply(c) PROVE Quiet'
  BY <1>4, ReplyEnds DEF LateReply, script
<1>5. CASE CutOff
  BY <1>5 DEF CutOff, Crash, After, Waits
<1>6. CASE GiveUp
  BY <1>6 DEF GiveUp
<1>7. CASE Work \/ Unmount \/ Mount \/ Again
  BY <1>7 DEF Work, Unmount, Mount, Again, vars, handlers
<1>8. CASE \/ UNCHANGED allvars
           \/ UNCHANGED script /\ \/ \E n \in AutoSnaps : SanoidSnapshot(Disk, n)
                                  \/ \E s \in snaps : SanoidPrune(s)
  BY <1>8 DEF SanoidSnapshot, SanoidPrune, allvars, vars, handlers, script
<1>9. QED
  BY <1>1, <1>2, <1>3, <1>4, <1>5, <1>6, <1>7, <1>8 DEF GuestNext, Client
-----------------------------------------------------------------------------
(* What a run of the script does to its disk.                              *)

\* A transaction stays newer than the rollbacks that were given up, as long as
\* nobody else comes to roll back.
LEMMA OlderKept ==
    ASSUME IInv, Monotone, \A c \in Conns : Asked(c), NEW t \in used, Older(t),
           \A d \in Conns \ {via'} : pc'[d] # "idle" /\ req'[d].op = "rollback" =>
                d # via /\ pc[d] # "idle" /\ req[d].op = "rollback" /\ req'[d].txn = req[d].txn
    PROVE  Older(t)'
<1> SUFFICES ASSUME NEW d \in Conns, d # via', pc'[d] # "idle", req'[d].op = "rollback",
                    NEW r \in snaps', r.name = req'[d].txn, NEW s \in SnapshotsOf(t)'
             PROVE  r.txg < s.txg
  BY DEF Older, SnapshotsOf
<1>1. d # via /\ pc[d] # "idle" /\ req[d].op = "rollback" /\ req'[d].txn = req[d].txn
  OBVIOUS
<1>2. r \in SnapshotsOf(req[d].txn) /\ s \in SnapshotsOf(t)
  <2>1. req[d].txn \in used
    BY <1>1 DEF Asked
  <2>2. r \in SnapshotsOf(req[d].txn)'
    BY <1>1 DEF SnapshotsOf
  <2>3. QED
    BY <2>1, <2>2 DEF Monotone
<1>3. QED
  BY <1>1, <1>2 DEF Older

\* The transaction that a begin draws is newer than all there is.
LEMMA DrawnIsNewer ==
    ASSUME IInv, IInv', Monotone, \A c \in Conns : Asked(c),
           via \in Conns, via' = via, BeginSnapshot(via), NEW t \in TxnIds, t = req'[via].txn
    PROVE  Older(t)'
<1>0. TypeOK /\ PoolInv /\ PoolInv'
  BY DEF IInv
<1>1. \A d \in Conns \ {via} : Same(d)
  BY <1>0, OneMoves DEF Step
<1>2. PICK n \in TxnIds : TakeSnapshot(req[via].zvol, n) /\ req' = [req EXCEPT ![via].txn = n]
  BY DEF BeginSnapshot
<1>3. n = t
  BY <1>0, <1>2 DEF TypeOK, Request
<1>4. \A s \in SnapshotsOf(t)' : s.txg = txg + 1
  BY <1>0, <1>2, <1>3 DEF SnapshotsOf, TakeSnapshot, PoolInv
<1>5. SUFFICES ASSUME NEW d \in Conns, d # via, pc'[d] # "idle", req'[d].op = "rollback",
                      NEW r \in snaps', r.name = req'[d].txn, NEW s \in SnapshotsOf(t)'
               PROVE  r.txg < s.txg
  BY DEF Older, SnapshotsOf
<1>6. r \in SnapshotsOf(req[d].txn)
  <2>1. req[d].txn \in used /\ req'[d] = req[d]
    BY <1>1, <1>5 DEF Asked, Same
  <2>2. r \in SnapshotsOf(req[d].txn)'
    BY <1>5, <2>1 DEF SnapshotsOf
  <2>3. QED
    BY <2>1, <2>2 DEF Monotone
<1>7. r.txg \in Nat /\ r.txg <= txg /\ txg \in Nat
  BY <1>0, <1>6 DEF SnapshotsOf, TypeOK, Snapshot, PoolInv
<1>8. QED
  BY <1>4, <1>5, <1>7

\* The transaction of the current run is taken.
LEMMA CurrentIsUsed ==
    ASSUME IInv, Waits, Holds, NEW t \in TxnIds, Current(t)
    PROVE  t \in used
<1>1. CASE step \in Past /\ t = id
  BY <1>1 DEF IInv, ToldInv, Holds
<1>2. CASE via # None /\ Ready(via) /\ t = req[via].txn
  <2>1. HandlerInv(via)
    BY <1>2 DEF IInv, HandlersInv, Waits
  <2>2. QED
    BY <1>2, <2>1 DEF HandlerInv
<1>3. QED
  BY <1>1, <1>2 DEF Current

\* Only a rollback and the script itself write to the disk.
LEMMA LiveMoves ==
    ASSUME NEW c \in Conns, Serve(c) \/ Connect(c) \/ Answer(c) \/ LateReply(c), ~Rollback(c)
    PROVE  live' = live
<1>1. CASE Connect(c) \/ Answer(c) \/ LateReply(c)
  BY <1>1 DEF Connect, Answer, LateReply, Accept, Reply, pool
<1>2. CASE Serve(c)
  BY <1>2 DEF Serve, Step, pool, TakeSnapshot, Drop, BeginSnapshot, BeginRefused, BeginCreate,
     BeginFill, BeginNotRecorded, Load, LoadFailed, RollbackCheck, RollbackWalk,
     RollbackRefused, RollbackFailed,
     CommitDestroy, CommitFailed, CommitRemove, ListDir, ListFailed, ListRead, ListDone, Audit
<1>3. QED
  BY <1>1, <1>2

\* A transaction that is undone stays so while the disk is left alone.
LEMMA UndoneStays ==
    ASSUME Undone, Monotone, id \in used, id' = id, live'[Disk] = live[Disk]
    PROVE  Undone'
BY DEF Undone, Monotone

\* The rollback of another transaction, an older one, takes it along.
LEMMA OlderTakesAlong ==
    ASSUME IInv, Monotone, OnDisk, Older(id), id \in used, id' = id,
           NEW c \in Conns, c # via, Rollback(c)
    PROVE  Undone'
<1>1. pc[c] # "idle" /\ req[c].op = "rollback"
  BY DEF Rollback, At
<1>2. PICK r \in SnapshotsOf(req[c].txn) : snaps' = snaps \ Newer(r)
  BY DEF Rollback, RollBackTo, Drop
<1>3. \A s \in SnapshotsOf(id) : s \in Newer(r)
  BY <1>1, <1>2 DEF Older, OnDisk, SnapshotsOf, Newer
<1>4. SnapshotsOf(id)' = {}
  BY <1>2, <1>3 DEF SnapshotsOf
<1>5. QED
  BY <1>4 DEF Undone

\* A rollback puts the disk back.
LEMMA RollbackUndoes ==
    ASSUME IInv, OnDisk, id \in used, id' = id,
           NEW c \in Conns, req[c].txn = id, Rollback(c)
    PROVE  Undone'
<1>1. PICK s \in SnapshotsOf(id) : live' = [live EXCEPT ![s.zvol] = s.data] /\ snaps' \subseteq snaps
  BY DEF Rollback, RollBackTo, Drop
<1>2. s.zvol = Disk /\ Disk \in Zvols /\ live \in [Zvols -> Data]
  BY GuestAssumption, ConstantsAssumption DEF OnDisk, SnapshotsOf, IInv, TypeOK
<1>3. live'[Disk] = s.data
  BY <1>1, <1>2
<1>4. \A r \in SnapshotsOf(id)' : r = s
  BY <1>1 DEF SnapshotsOf, IInv, PoolInv
<1>5. QED
  BY <1>3, <1>4 DEF Undone

\* A transaction that is no longer on record is over.
LEMMA UnrecordedIsOver ==
    ASSUME IInv, OnDisk, id \in TxnIds, [op |-> "begin", txn |-> id] \in told,
           Records(Guest, id) = {}
    PROVE  SnapshotsOf(id) = {}
<1>1. \A f \in files : ~(f.txn = id /\ f.text = "record")
  BY DEF Records, FileOf, OnDisk
<1>2. fate[id] # "none"
  BY <1>1 DEF IInv, ToldInv, Recorded
<1>3. QED
  BY <1>2 DEF IInv, PoolInv

\* The rollbacks that were given up go back to before the current transaction.
LEMMA OlderStep ==
    ASSUME GuestInv, IInv', Monotone, [GuestNext]_allvars
    PROVE  OlderInv'
<1> SUFFICES ASSUME ~trouble', NEW t \in TxnIds, Current(t)' PROVE Older(t)'
  BY DEF OlderInv
<1>0. /\ IInv /\ TypeOK /\ (\A c \in Conns : Asked(c)) /\ Waits /\ Holds
      /\ None \notin Conns
  BY GuestAssumption DEF GuestInv, IInv
<1>a. ASSUME ~trouble, Current(t),
             \A d \in Conns \ {via'} : pc'[d] # "idle" /\ req'[d].op = "rollback" =>
                d # via /\ pc[d] # "idle" /\ req[d].op = "rollback" /\ req'[d].txn = req[d].txn
      PROVE  Older(t)'
  <2>1. t \in used /\ Older(t)
    BY <1>0, <1>a, CurrentIsUsed DEF GuestInv, OlderInv
  <2>2. QED
    BY <1>0, <1>a, <2>1, OlderKept
<1>1. ASSUME NEW c \in Conns, Connect(c) PROVE Older(t)'
  <2>1. /\ via = None /\ via' = c /\ UNCHANGED <<step, id, trouble>>
        /\ pc'[c] \in {"begin", "load"} /\ \A d \in Conns \ {c} : Same(d)
    BY <1>0, <1>1, ConnectBrings DEF Connect
  <2>2. Current(t)
    BY <2>1 DEF Current, Ready, Loaded
  <2>3. QED
    BY <1>0, <1>a, <2>1, <2>2 DEF Same
<1>2. ASSUME NEW c \in Conns, Answer(c) PROVE Older(t)'
  <2>1. /\ via = c /\ via' = None /\ step' = After(step, ok[c]) /\ trouble' = trouble
        /\ id' = IF step = "begin" /\ ok[c] THEN req[c].txn ELSE id
        /\ pc[c] = "reply" /\ pc'[c] = "idle" /\ \A d \in Conns \ {c} : Same(d)
    BY <1>0, <1>2, ReplyEnds DEF Answer
  <2>2. step \in {"begin", "rollback", "commit"} /\ req[c].op = step
    BY <1>0, <2>1 DEF Waits
  <2>3. step' \in Past /\ t = id'
    BY <2>1 DEF Current
  <2>4. CASE step = "begin"
    <3>1. ok[c]
      BY <2>1, <2>3, <2>4 DEF After, Past
    <3>2. Ready(c) /\ t = req[c].txn
      BY <2>1, <2>2, <2>3, <2>4, <3>1 DEF Ready
    <3>3. Current(t)
      BY <1>0, <2>1, <2>4, <3>2 DEF Current
    <3>4. QED
      BY <1>a, <2>1, <3>3 DEF Same
  <2>5. CASE step # "begin"
    <3>1. Current(t)
      BY <2>1, <2>2, <2>3, <2>5 DEF Current, Past
    <3>2. QED
      BY <1>a, <2>1, <3>1 DEF Same
  <2>6. QED
    BY <2>4, <2>5
<1>3. ASSUME NEW c \in Conns, Serve(c) PROVE Older(t)'
  <2>1. /\ Step(c) /\ ~Reply(c) /\ ~trouble /\ UNCHANGED <<step, via, id>>
        /\ \A d \in Conns \ {c} : Same(d)
    BY <1>0, <1>3, OneMoves DEF Serve
  <2>2. /\ pc[c] # "idle" /\ req'[c].op = req[c].op
        /\ req[c].op # "begin" => req'[c].txn = req[c].txn
    BY <1>0, <2>1, RequestStays
  <2>3. ASSUME Current(t) PROVE Older(t)'
    BY <1>a, <2>1, <2>2, <2>3 DEF Same
  <2>4. CASE step \in Past /\ t = id
    BY <2>3, <2>4 DEF Current
  <2>5. CASE step = "begin" /\ via # None /\ Ready(via)' /\ t = req'[via].txn
    <3>1. via \in Conns /\ req[via].op = "begin"
      BY <1>0, <2>5 DEF Waits
    <3>2. CASE via # c
      <4>1. Ready(via) /\ t = req[via].txn
        BY <2>1, <2>5, <3>1, <3>2 DEF Ready, Same
      <4>2. QED
        BY <2>3, <2>5, <4>1 DEF Current
    <3>3. CASE via = c
      <4>1. \/ BeginSnapshot(c)
            \/ Ready(c) /\ req'[c] = req[c]
        <5>1. ~Load(c)
          BY <1>0, <3>1, <3>3 DEF Load, TypeOK
        <5>2. QED
          BY <1>0, <2>1, <2>5, <3>3, <5>1, ReadyFrom
      <4>2. CASE BeginSnapshot(c)
        BY <1>0, <2>1, <2>5, <3>1, <3>3, <4>2, DrawnIsNewer
      <4>3. CASE Ready(c) /\ req'[c] = req[c]
        BY <2>3, <2>5, <3>3, <4>3 DEF Current
      <4>4. QED
        BY <4>1, <4>2, <4>3
    <3>4. QED
      BY <3>2, <3>3
  <2>6. QED
    BY <2>1, <2>4, <2>5 DEF Current
<1>4. ASSUME NEW c \in Conns, LateReply(c) PROVE Older(t)'
  <2>1. /\ via # c /\ UNCHANGED <<step, via, id, trouble>>
        /\ pc'[c] = "idle" /\ \A d \in Conns \ {c} : Same(d)
    BY <1>0, <1>4, ReplyEnds DEF LateReply, script
  <2>2. Current(t)
    BY <1>0, <2>1 DEF Current, Waits, Ready, Same
  <2>3. QED
    BY <1>a, <2>1, <2>2 DEF Same
<1>5. CASE Work \/ Unmount \/ Mount \/ Again
  <2>1. via = None /\ via' = None /\ pc' = pc /\ req' = req
    BY <1>0, <1>5 DEF Work, Unmount, Mount, Again, Waits, vars, handlers
  <2>2. step \in Past /\ t = id /\ ~trouble
    BY <1>5, <2>1 DEF Work, Unmount, Mount, Again, Current, Past
  <2>3. QED
    BY <1>0, <1>a, <2>1, <2>2 DEF Current
<1>6. CASE GiveUp \/ CutOff
  BY <1>6 DEF GiveUp, CutOff
<1>7. CASE \/ UNCHANGED allvars
           \/ UNCHANGED script /\ \/ \E n \in AutoSnaps : SanoidSnapshot(Disk, n)
                                  \/ \E s \in snaps : SanoidPrune(s)
  <2>1. UNCHANGED <<step, via, id, trouble, pc, req, ok>>
    BY <1>7 DEF SanoidSnapshot, SanoidPrune, allvars, vars, handlers, script
  <2>2. Current(t)
    BY <2>1 DEF Current, Ready
  <2>3. QED
    BY <1>a, <2>1, <2>2
<1>8. QED
  BY <1>1, <1>2, <1>3, <1>4, <1>5, <1>6, <1>7 DEF GuestNext, Client

\* The client's rollback that is over has put the disk back, or there is
\* nothing to put it back to, unless something failed on its own.
LEMMA OwnRollback ==
    ASSUME GuestInv, NEW c \in Conns, Serve(c), via = c, step = "rollback", id \in used,
           "force" \in flags, ~trouble', Monotone, ~Settled,
           pc'[c] \in {"audit", "reply"}
    PROVE  Undone'
<1>0. /\ IInv /\ TypeOK /\ OnDisk
      /\ Step(c) /\ ~Reply(c) /\ ~FailsAlone(c) /\ id' = id
      /\ id \in TxnIds /\ [op |-> "begin", txn |-> id] \in told
  BY GuestAssumption DEF GuestInv, IInv, Serve, Holds, Past
<1>1. req[c].op = "rollback" /\ req[c].txn = id /\ req[c].vm = Guest /\ pc[c] # "refuse"
  BY GuestAssumption DEF GuestInv, Waits, Asked
<1>2. pc[c] \notin {"audit", "reply"}
  BY GuestAssumption DEF Settled
<1>3. ASSUME SnapshotsOf(id) = {} PROVE Undone'
  <2>1. SnapshotsOf(id)' = {}
    BY <1>0, <1>3 DEF Monotone, SnapshotsOf
  <2>2. QED
    BY <1>0, <2>1 DEF Undone
<1>4. CASE LoadFailed(c)
  <2>1. Records(Guest, id) = {}
    BY <1>0, <1>1, <1>4 DEF FailsAlone
  <2>2. QED
    BY <1>0, <1>3, <2>1, UnrecordedIsOver
<1>5. CASE RollbackFailed(c)
  BY <1>0, <1>1, <1>3, <1>5 DEF FailsAlone
<1>6. CASE Rollback(c)
  BY <1>0, <1>1, <1>6, RollbackUndoes
<1>7. CASE \/ BeginSnapshot(c) \/ BeginRefused(c) \/ BeginCreate(c) \/ BeginFill(c)
           \/ BeginNotRecorded(c) \/ CommitDestroy(c) \/ CommitFailed(c) \/ CommitRemove(c)
           \/ ListDir(c) \/ ListFailed(c) \/ ListRead(c) \/ ListDone(c)
  BY <1>1, <1>7 DEF BeginSnapshot, BeginRefused, BeginCreate, BeginFill, BeginNotRecorded,
     CommitDestroy, CommitFailed, CommitRemove, ListDir, ListFailed, ListRead, ListDone, At
<1>8. CASE Load(c) \/ RollbackCheck(c) \/ RollbackWalk(c) \/ RollbackRefused(c) \/ Audit(c)
  BY <1>0, <1>1, <1>2, <1>8 DEF Load, RollbackCheck, RollbackWalk,
  RollbackRefused, Audit, At, Goto, TypeOK
<1>9. QED
  BY <1>0, <1>4, <1>5, <1>6, <1>7, <1>8 DEF Step

\* What is rolled back stays rolled back until the script is over.
LEMMA SettledStep ==
    ASSUME GuestInv, IInv', Monotone, [GuestNext]_allvars
    PROVE  SettledInv'
<1> SUFFICES ASSUME ~trouble', undo', "force" \in flags', Settled' PROVE Undone'
  BY DEF SettledInv
<1>0. /\ IInv /\ TypeOK /\ (\A c \in Conns : Asked(c)) /\ OnDisk /\ Waits /\ Holds
      /\ None \notin Conns
  BY GuestAssumption DEF GuestInv, IInv
<1>1. "force" \in flags
  BY DEF GuestNext, Client, Connect, Answer, GiveUp, Work, Unmount, Mount, Again, CutOff, Serve,
     LateReply, script, options, allvars
<1>2. ASSUME Settled PROVE id \in TxnIds /\ id \in used /\ Current(id)
  <2>1. id \in TxnIds /\ Current(id)
    BY <1>0, <1>2 DEF Settled, Holds, Past, Current
  <2>2. QED
    BY <1>0, <2>1, CurrentIsUsed
<1>3. ASSUME Settled, ~trouble, undo, id' = id, live'[Disk] = live[Disk] PROVE Undone'
  <2>1. Undone
    BY <1>1, <1>3 DEF GuestInv, SettledInv
  <2>2. QED
    BY <1>2, <1>3, <2>1, UndoneStays
<1>4. ASSUME NEW c \in Conns, Connect(c) PROVE Undone'
  <2>1. via' = c /\ pc'[c] \in {"begin", "load"} /\ UNCHANGED <<step, id, undo, trouble, live>>
    BY <1>0, <1>4, ConnectBrings DEF Connect, pool
  <2>2. Settled
    BY <2>1 DEF Settled
  <2>3. QED
    BY <1>3, <2>1, <2>2
<1>5. ASSUME NEW c \in Conns, Answer(c) PROVE Undone'
  <2>1. /\ via = c /\ via' = None /\ step' = After(step, ok[c]) /\ UNCHANGED <<undo, trouble, live>>
        /\ id' = IF step = "begin" /\ ok[c] THEN req[c].txn ELSE id
        /\ pc[c] = "reply"
    BY <1>0, <1>5, ReplyEnds DEF Answer, pool
  <2>2. step \in {"begin", "rollback", "commit"}
    BY <1>0, <2>1 DEF Waits
  <2>3. step = "rollback"
    BY <2>1, <2>2 DEF Settled, After
  <2>4. Settled
    BY <1>0, <2>1, <2>3 DEF Settled
  <2>5. QED
    BY <1>3, <2>1, <2>3, <2>4
<1>6. ASSUME NEW c \in Conns, Serve(c) PROVE Undone'
  <2>1. /\ Step(c) /\ ~Reply(c) /\ ~trouble /\ UNCHANGED <<step, via, id, undo>>
        /\ \A d \in Conns \ {c} : Same(d)
    BY <1>0, <1>6, OneMoves DEF Serve
  <2>2. CASE Settled /\ ~Rollback(c)
    BY <1>3, <1>6, <2>1, <2>2, LiveMoves
  <2>3. CASE Settled /\ Rollback(c)
    <3>1. Older(id)
      BY <1>2, <2>1, <2>3 DEF GuestInv, OlderInv
    <3>2. c # via
      BY <1>0, <2>3 DEF Settled, Waits, Rollback, At
    <3>3. QED
      BY <1>0, <1>2, <2>1, <2>3, <3>1, <3>2, OlderTakesAlong
  <2>4. CASE ~Settled
    <3>1. step = "rollback" /\ via \in Conns /\ pc'[via] \in {"audit", "reply"}
      BY <1>0, <2>1, <2>4 DEF Settled, Waits
    <3>2. via = c
      BY <1>0, <2>1, <2>4, <3>1 DEF Settled, Same
    <3>3. id \in used
      BY <1>0, <3>1 DEF Holds, Past, IInv, ToldInv
    <3>4. QED
      BY <1>1, <1>6, <2>4, <3>1, <3>2, <3>3, OwnRollback
  <2>5. QED
    BY <2>2, <2>3, <2>4
<1>7. ASSUME NEW c \in Conns, LateReply(c) PROVE Undone'
  <2>1. /\ via # c /\ UNCHANGED <<step, via, id, undo, trouble, live>>
        /\ \A d \in Conns \ {c} : Same(d)
    BY <1>0, <1>7, ReplyEnds DEF LateReply, script, pool
  <2>2. Settled
    BY <1>0, <2>1 DEF Settled, Waits, Same
  <2>3. QED
    BY <1>3, <2>1, <2>2
<1>8. CASE Work \/ Unmount \/ Again
  <2>1. via' = None
    BY <1>0, <1>8 DEF Work, Unmount, Again, Waits
  <2>2. QED
    BY <1>0, <1>8, <2>1 DEF Work, Unmount, Again, Settled, Holds
<1>9. CASE Mount
  BY <1>3, <1>9 DEF Mount, Settled, vars, pool
<1>10. CASE GiveUp \/ CutOff
  BY <1>10 DEF GiveUp, CutOff
<1>11. CASE \/ UNCHANGED allvars
            \/ UNCHANGED script /\ \/ \E n \in AutoSnaps : SanoidSnapshot(Disk, n)
                                   \/ \E s \in snaps : SanoidPrune(s)
  <2>1. UNCHANGED <<step, via, id, undo, trouble, pc, live>>
    BY <1>11 DEF SanoidSnapshot, SanoidPrune, TakeSnapshot, allvars, vars, pool, handlers, script
  <2>2. QED
    BY <1>3, <2>1 DEF Settled
<1>12. QED
  BY <1>4, <1>5, <1>6, <1>7, <1>8, <1>9, <1>10, <1>11 DEF GuestNext, Client
-----------------------------------------------------------------------------
(* The theorems.                                                           *)

\* The strengthening is inductive, whatever the script's flags and however its
\* clients reach the daemon: a handler's request, the command the script is at
\* and the snapshots it is about fit together, also after a client gave up.
THEOREM GuestInvariance == GuestSpec => []GuestInv
<1>1. GuestInit => GuestInv
  <2> SUFFICES ASSUME GuestInit PROVE GuestInv
    OBVIOUS
  <2>1. Init /\ IInv
    BY InitIInv DEF GuestInit
  <2>2. (\A c \in Conns : pc[c] = "idle") /\ snaps = {} /\ files = {}
    BY <2>1 DEF Init
  <2>3. step = "begin" /\ via = None /\ ~undo
    BY DEF GuestInit
  <2>4. (\A c \in Conns : Asked(c)) /\ OnDisk /\ Waits /\ Holds /\ Quiet
    BY <2>2, <2>3 DEF Asked, OnDisk, Waits, Holds, Quiet, Past
  <2>5. OlderInv /\ SettledInv
    BY <2>3 DEF OlderInv, SettledInv, Current, Settled, Past
  <2>6. QED
    BY <2>1, <2>4, <2>5 DEF GuestInv
<1>2. GuestInv /\ [GuestNext]_allvars => GuestInv'
  <2> SUFFICES ASSUME GuestInv, [GuestNext]_allvars PROVE GuestInv'
    OBVIOUS
  <2>1. /\ IInv /\ TypeOK /\ (\A c \in Conns : Asked(c)) /\ OnDisk /\ Waits /\ Holds /\ Quiet
    BY DEF GuestInv, IInv
  <2>2. IInv' /\ Monotone
    BY <2>1, DaemonStep
  <2>3. (\A c \in Conns : Asked(c))' /\ OnDisk' /\ Waits' /\ Holds' /\ Quiet'
    BY <2>1, AskedStep, OnDiskStep, WaitsStep, HoldsStep, QuietStep
  <2>4. OlderInv' /\ SettledInv'
    BY <2>2, OlderStep, SettledStep
  <2>5. QED
    BY <2>2, <2>3, <2>4 DEF GuestInv
<1>3. QED
  BY <1>1, <1>2, PTL DEF GuestSpec

\* A transaction that a client was told of keeps its snapshot and its record
\* also while the script writes to its disk and gives calls up.
THEOREM AckedBelowTheScript == GuestSpec => []AckedIsDurable
<1>1. GuestInv => AckedIsDurable
  BY DEF GuestInv, IInv, AckedIsDurable, ToldInv, PoolInv, Recorded
<1>2. QED
  BY <1>1, GuestInvariance, PTL

\* When a script that insists commits after a failed smoke test, and nothing
\* has failed on its own, the disk is back to what begin kept.
THEOREM DiskIsUndone == GuestSpec => []UndoneBeforeCommit
<1>1. GuestInv => UndoneBeforeCommit
  BY DEF GuestInv, SettledInv, Settled, UndoneBeforeCommit
<1>2. QED
  BY <1>1, GuestInvariance, PTL

\* Over vsock a script that unmounts its disk first never has it mounted while
\* the daemon rolls it back.
THEOREM RollbackIsQuiet == GuestSpec => QuietRollback
<1> DEFINE Still == \A c \in Conns :
                      At(c, "rollback", "rollback") /\ pc'[c] = "audit"
                        /\ "unmount" \in flags /\ transport = "vsock" => ~mounted
<1>1. GuestInv /\ [GuestNext]_allvars => [Still]_allvars
  BY GuestAssumption DEF GuestInv, Quiet, Waits, At
<1>2. QED
  BY <1>1, GuestInvariance, PTL DEF GuestSpec, QuietRollback

\* The script and the daemon together still are a transaction store: what the
\* script writes is a write of its disk, and all else is a step of the daemon.
THEOREM ScriptUsesTheStore == GuestSpec => StoreSpec
<1>1. GuestInit => Store!Init
  BY InitMaps DEF GuestInit
<1>2. GuestInv /\ [GuestNext]_allvars => [Store!Next]_(Store!vars)
  <2> SUFFICES ASSUME GuestInv, [GuestNext]_allvars PROVE [Store!Next]_(Store!vars)
    OBVIOUS
  <2>1. CASE [Next]_vars
    BY <2>1, StepMaps DEF GuestInv
  <2>2. CASE Work
    <3>1. Store!Write(Disk)
      BY <2>2 DEF Work, Store!Write, history
    <3>2. Disk \in Zvols
      BY GuestAssumption, ConstantsAssumption
    <3>3. QED
      BY <3>1, <3>2 DEF Store!Next
  <2>3. QED
    BY <2>1, <2>2, DaemonMoves
<1>3. QED
  BY <1>1, <1>2, GuestInvariance, PTL DEF GuestSpec, StoreSpec, Store!Spec
=============================================================================
