-------------------------- MODULE TxnAnswersProofs --------------------------
(***************************************************************************)
(* What the transaction daemon's answers are worth (module TxnApi), proved *)
(* from the invariant of TxnApiProofs for every value of the constants: an *)
(* error has left nothing behind that is not named, a list is complete, an *)
(* attached zvol is not rolled back unforced.                              *)
(***************************************************************************)
EXTENDS TxnApiProofs

\* The handler of c does not move, nor does what is remembered of it.
Still(c) ==
    /\ Same(c)
    /\ touched'[c] = touched[c] /\ owed'[c] = owed[c] /\ held'[c] \subseteq held[c]
    /\ dir'[c] = dir[c] /\ listed'[c] = listed[c] /\ walk'[c] = walk[c]

\* One handler moves at a time, and touches nothing of the others.
LEMMA OneStirs ==
    ASSUME TypeOK, NEW c \in Conns, Accept(c) \/ Step(c)
    PROVE  \A d \in Conns \ {c} : Still(d)
<1>0. \A d \in Conns \ {c} : Same(d)
  BY OneMoves
<1> USE <1>0 DEF TypeOK, Still, Fail, Touch, handlers, history
<1>1. CASE Accept(c)
  BY <1>1 DEF Accept
<1>2. CASE BeginSnapshot(c) \/ BeginRefused(c) \/ BeginCreate(c) \/ BeginFill(c)
           \/ BeginNotRecorded(c)
  BY <1>2 DEF BeginSnapshot, BeginRefused, BeginCreate, BeginFill, BeginNotRecorded
<1>3. CASE Load(c) \/ LoadFailed(c)
  BY <1>3 DEF Load, LoadFailed
<1>4. CASE RollbackCheck(c) \/ RollbackWalk(c) \/ RollbackRefused(c) \/ Rollback(c)
  BY <1>4 DEF RollbackCheck, RollbackWalk, RollbackRefused, Rollback
<1>5. CASE RollbackFailed(c)
  <2>1. \A d \in Conns \ {c} : touched'[d] = touched[d]
    BY <1>5, Zenon DEF RollbackFailed
  <2>2. QED
    BY <1>5, <2>1 DEF RollbackFailed
<1>6. CASE CommitDestroy(c) \/ CommitFailed(c) \/ CommitRemove(c)
  BY <1>6 DEF CommitDestroy, CommitFailed, CommitRemove
<1>7. CASE ListDir(c) \/ ListFailed(c) \/ ListRead(c) \/ ListDone(c)
  BY <1>7 DEF ListDir, ListFailed, ListRead, ListDone
<1>8. CASE Audit(c) \/ Reply(c)
  BY <1>8 DEF Audit, Reply
<1>9. QED
  BY <1>1, <1>2, <1>3, <1>4, <1>5, <1>6, <1>7, <1>8 DEF Step

\* A step is a crash, or of the environment, or of one handler.
LEMMA Stirs ==
    TypeOK /\ [Next]_vars =>
        \/ Crash
        \/ \A c \in Conns : Still(c)
        \/ \E c \in Conns : (Accept(c) \/ Step(c)) /\ \A d \in Conns \ {c} : Still(d)
<1> SUFFICES ASSUME TypeOK, [Next]_vars
             PROVE  \/ Crash
                    \/ \A c \in Conns : Still(c)
                    \/ \E c \in Conns : (Accept(c) \/ Step(c)) /\ \A d \in Conns \ {c} : Still(d)
  OBVIOUS
<1>1. CASE \/ \E z \in Zvols : GuestWrite(z) \/ \E n \in AutoSnaps : SanoidSnapshot(z, n)
           \/ \E s \in snaps : SanoidPrune(s)
           \/ UNCHANGED vars
  BY <1>1 DEF GuestWrite, SanoidSnapshot, SanoidPrune, handlers, history, vars, Same, Still
<1>2. CASE \E v \in Vms : PowerSwitch(v) \/ \E z \in Zvols : Attach(v, z) \/ Detach(v, z)
  BY <1>2 DEF PowerSwitch, Attach, Detach, StillHeld, handlers, Same, Still
<1>3. ASSUME NEW c \in Conns, Accept(c) \/ Step(c)
      PROVE  \A d \in Conns \ {c} : Still(d)
  BY <1>3, OneStirs
<1>4. QED
  BY <1>1, <1>2, <1>3 DEF Next, Environment

\* A handler that has a record to write has drawn its transaction in this
\* step, or had it before.
LEMMA CreateFrom ==
    ASSUME TypeOK, [Next]_vars, NEW c \in Conns, pc'[c] \in {"create", "fill"}
    PROVE  \/ BeginSnapshot(c)
           \/ pc[c] \in {"create", "fill"} /\ req'[c] = req[c]
<1>1. CASE Crash
  BY <1>1 DEF Crash
<1>2. CASE Still(c)
  BY <1>2 DEF Still, Same
<1>3. CASE Accept(c) \/ Step(c)
  <2> USE DEF TypeOK, Goto, At, Fail
  <2>1. CASE Accept(c)
    <3>1. pc'[c] \in {"begin", "list", "load", "reply"}
      BY <2>1, ZenonT(40) DEF Accept, FirstStep
    <3>2. QED
      BY <3>1
  <2>2. CASE BeginRefused(c) \/ BeginCreate(c) \/ BeginFill(c) \/ BeginNotRecorded(c)
             \/ Load(c) \/ LoadFailed(c)
    BY <2>2 DEF BeginRefused, BeginCreate, BeginFill, BeginNotRecorded, Load, LoadFailed
  <2>3. CASE RollbackCheck(c) \/ RollbackWalk(c) \/ RollbackRefused(c)
             \/ Rollback(c) \/ RollbackFailed(c)
             \/ CommitDestroy(c) \/ CommitFailed(c) \/ CommitRemove(c)
    BY <2>3 DEF RollbackCheck, RollbackWalk, RollbackRefused, Rollback, RollbackFailed,
       CommitDestroy, CommitFailed, CommitRemove
  <2>4. CASE ListDir(c) \/ ListFailed(c) \/ ListRead(c) \/ ListDone(c)
             \/ Audit(c) \/ Reply(c)
    BY <2>4 DEF ListDir, ListFailed, ListRead, ListDone, Audit, Reply
  <2>5. QED
    BY <1>3, <2>1, <2>2, <2>3, <2>4 DEF Step
<1>4. QED
  BY <1>1, <1>2, <1>3, Stirs
-----------------------------------------------------------------------------
(* Errors.                                                                 *)

\* Nobody else gets to record a transaction that was drawn before.
LEMMA DrawnBefore ==
    ASSUME TypeOK, [Next]_vars, NEW t \in used,
           \A d \in Conns : pc[d] \in {"create", "fill"} => req[d].txn # t
    PROVE  \A d \in Conns : pc'[d] \in {"create", "fill"} => req'[d].txn # t
<1> SUFFICES ASSUME NEW d \in Conns, pc'[d] \in {"create", "fill"} PROVE req'[d].txn # t
  OBVIOUS
<1>1. CASE BeginSnapshot(d)
  <2>1. PICK u \in TxnIds : TakeSnapshot(req[d].zvol, u) /\ req' = [req EXCEPT ![d].txn = u]
    BY <1>1 DEF BeginSnapshot
  <2>2. u \notin used /\ req'[d].txn = u
    BY <2>1 DEF TakeSnapshot, TypeOK, Request
  <2>3. QED
    BY <2>2
<1>2. CASE pc[d] \in {"create", "fill"} /\ req'[d] = req[d]
  BY <1>2
<1>3. QED
  BY <1>1, <1>2, CreateFrom

\* ... so that what was left without a record stays without one.
LEMMA EmptyStays ==
    ASSUME Before, [Next]_vars, NEW t \in TxnIds,
           \A f \in files : f.txn = t => f.text = "empty",
           \A d \in Conns : pc[d] \in {"create", "fill"} => req[d].txn # t
    PROVE  \A f \in files' : f.txn = t => f.text = "empty"
<1> SUFFICES ASSUME NEW f \in files', f \notin files PROVE f.txn # t
  OBVIOUS
<1>1. PICK b \in Conns : BeginCreate(b) \/ BeginFill(b) \/ CommitRemove(b)
  BY FilesMoves DEF Before
<1>2. f.txn = req[b].txn /\ pc[b] \in {"create", "fill"}
  BY <1>1 DEF BeginCreate, BeginFill, CommitRemove, FileOf, At
<1>3. QED
  BY <1>2

\* A handler that stands still.
LEMMA CleanOther ==
    ASSUME Before, [Next]_vars, NEW c \in Conns, CleanInv(c), Still(c)
    PROVE  CleanInv(c)'
<1>0. TypeOK /\ Monotone /\ FilesMonotone
  BY DEF Before
<1>1. /\ pc'[c] = pc[c] /\ req'[c] = req[c] /\ ok'[c] = ok[c] /\ touched'[c] = touched[c]
  BY DEF Still, Same
<1>2. CASE ~Failing(c)
  BY <1>1, <1>2 DEF CleanInv, Failing
<1>3. CASE Failing(c)
  <2> DEFINE t == req[c].txn
  <2>1. t \in TxnIds /\ t \in used /\ t \in used' /\ t' = t
    BY <1>0, <1>1, <1>3 DEF CleanInv, Monotone
  <2>2. CASE req[c].op = "begin"
    <3>1. /\ \A f \in files : f.txn = t => f.text = "empty"
          /\ \A d \in Conns : pc[d] \in {"create", "fill"} => req[d].txn # t
      BY <1>3, <2>2 DEF CleanInv
    <3> HIDE DEF t
    <3>2. \A f \in files' : f.txn = t => f.text = "empty"
      BY <2>1, <3>1, EmptyStays
    <3>3. \A d \in Conns : pc'[d] \in {"create", "fill"} => req'[d].txn # t
      BY <1>0, <2>1, <3>1, DrawnBefore
    <3>4. QED
      BY <1>1, <1>3, <2>1, <2>2, <3>2, <3>3 DEF CleanInv, Failing, t
  <2>3. CASE req[c].op = "rollback"
    <3>1. Recorded(t)
      BY <1>3, <2>3 DEF CleanInv
    <3> HIDE DEF t
    <3>2. \A u \in TxnIds : Recorded(u) => Recorded(u)'
      BY <1>0, RecordedStays
    <3>3. Recorded(t)'
      BY <2>1, <3>1, <3>2 DEF Recorded
    <3>4. QED
      BY <1>1, <1>3, <2>1, <2>3, <3>3 DEF CleanInv, Failing, t
  <2>4. QED
    BY <1>3, <2>2, <2>3 DEF CleanInv
<1>4. QED
  BY <1>2, <1>3

\* The handler that moves.
LEMMA CleanMover ==
    ASSUME Before, [Next]_vars, NEW c \in Conns, CleanInv(c), Accept(c) \/ Step(c)
    PROVE  CleanInv(c)'
<1>0. TypeOK /\ HandlerInv(c) /\ Monotone /\ FilesMonotone
  BY DEF Before, HandlersInv
<1> USE DEF TypeOK, Goto, Fail, At, Touch
<1>1. CASE Accept(c)
  <2>1. ~touched'[c]
    BY <1>0, <1>1, Zenon DEF Accept
  <2>2. QED
    BY <2>1 DEF CleanInv, Failing
<1>2. CASE BeginRefused(c) \/ LoadFailed(c) \/ RollbackRefused(c) \/ CommitFailed(c) \/ ListFailed(c)
  <2>1. ~touched[c] /\ touched' = touched /\ pc'[c] = "reply"
    BY <1>0, <1>2 DEF CleanInv, BeginRefused, LoadFailed, RollbackRefused, CommitFailed, ListFailed,
       history
  <2>2. QED
    BY <2>1 DEF CleanInv, Failing
<1>3. CASE Load(c) \/ RollbackCheck(c) \/ RollbackWalk(c) \/ ListDir(c) \/ ListRead(c)
  <2>1. ~touched[c] /\ touched' = touched /\ pc'[c] # "reply"
    BY <1>0, <1>3 DEF CleanInv, Load, RollbackCheck, RollbackWalk, ListDir, ListRead, history
  <2>2. QED
    BY <2>1 DEF CleanInv, Failing
<1>4. CASE BeginSnapshot(c) \/ BeginCreate(c) \/ BeginFill(c) \/ Rollback(c)
           \/ CommitDestroy(c) \/ CommitRemove(c)
  <2>1. pc'[c] \in {"create", "fill", "audit", "remove"}
    BY <1>0, <1>4 DEF BeginSnapshot, BeginCreate, BeginFill, Rollback, CommitDestroy, CommitRemove
  <2>2. QED
    BY <2>1 DEF CleanInv, Failing
<1>5. CASE ListDone(c) \/ Audit(c)
  <2>1. pc'[c] = "reply" /\ ok'[c]
    BY <1>0, <1>5 DEF ListDone, Audit
  <2>2. QED
    BY <2>1 DEF CleanInv, Failing
<1>6. CASE Reply(c)
  <2>1. pc'[c] = "idle"
    BY <1>0, <1>6 DEF Reply
  <2>2. QED
    BY <2>1 DEF CleanInv, Failing
<1>7. CASE BeginNotRecorded(c)
  <2>1. /\ pc[c] \in {"create", "fill"} /\ pc'[c] = "reply" /\ req' = req /\ files' = files
        /\ pc' = [pc EXCEPT ![c] = "reply"] /\ UNCHANGED used
    BY <1>0, <1>7 DEF BeginNotRecorded, pool, daemon
  <2>2. /\ req[c].op = "begin" /\ req[c].txn \in used /\ req[c].txn \in TxnIds
        /\ \A f \in files : f.txn = req[c].txn => f.text = "empty"
        /\ \A d \in Conns \ {c} : Ready(d) => req[d].txn # req[c].txn
    BY <1>0, <2>1 DEF HandlerInv, Ready, Loaded
  <2>3. \A d \in Conns : pc'[d] \in {"create", "fill"} => req[d].txn # req[c].txn
    BY <1>0, <2>1, <2>2 DEF Ready, Loaded
  <2>4. QED
    BY <2>1, <2>2, <2>3 DEF CleanInv
<1>8. CASE RollbackFailed(c)
  <2>1. /\ pc[c] = "rollback" /\ pc'[c] = "reply" /\ req' = req /\ req[c].op = "rollback"
        /\ UNCHANGED files
    BY <1>0, <1>8 DEF RollbackFailed, daemon
  <2>2. /\ Ready(c) /\ Recorded(req[c].txn) /\ req[c].txn \in used /\ req[c].txn \in TxnIds
    BY <1>0, <2>1 DEF HandlerInv, Ready, Loaded, Committing
  <2>3. Recorded(req[c].txn)'
    BY <2>1, <2>2, WrittenKept
  <2>4. req[c].txn \in used'
    BY <1>0, <2>2 DEF Monotone
  <2>5. QED
    BY <2>1, <2>2, <2>3, <2>4 DEF CleanInv
<1>9. QED
  BY <1>1, <1>2, <1>3, <1>4, <1>5, <1>6, <1>7, <1>8 DEF Step

\* What a failing handler has changed stays named, whoever moves.
LEMMA CleanStep ==
    ASSUME Before, [Next]_vars, \A c \in Conns : CleanInv(c)
    PROVE  \A c \in Conns : CleanInv(c)'
<1>0. TypeOK
  BY DEF Before
<1>1. CASE Crash
  BY <1>1 DEF Crash, CleanInv, Failing
<1>2. CASE \A c \in Conns : Still(c)
  BY <1>2, CleanOther
<1>3. ASSUME NEW c \in Conns, Accept(c) \/ Step(c), \A d \in Conns \ {c} : Still(d)
      PROVE  \A d \in Conns : CleanInv(d)'
  BY <1>3, CleanOther, CleanMover
<1>4. QED
  BY <1>0, <1>1, <1>2, <1>3, Stirs
-----------------------------------------------------------------------------
(* The guard of an unforced rollback, as long as virsh works.              *)

\* Who holds a disk runs with it: machines and disks come and go, and what was
\* remembered is cut down with them.
LEMMA HeldHolds ==
    ASSUME TypeOK, [Next]_vars, NEW c \in Conns, \A h \in held[c] : HasDisk(h)
    PROVE  \A h \in held'[c] : HasDisk(h)'
<1>1. CASE Crash
  BY <1>1 DEF Crash
<1>2. CASE \E v \in Vms : PowerSwitch(v) \/ \E z \in Zvols : Attach(v, z) \/ Detach(v, z)
  BY <1>2 DEF PowerSwitch, Attach, Detach, StillHeld
<1>3. CASE \/ \E z \in Zvols : GuestWrite(z) \/ \E n \in AutoSnaps : SanoidSnapshot(z, n)
           \/ \E s \in snaps : SanoidPrune(s)
           \/ UNCHANGED vars
  BY <1>3 DEF GuestWrite, SanoidSnapshot, SanoidPrune, host, history, vars, HasDisk
<1>4. ASSUME NEW d \in Conns, Accept(d)
      PROVE  \A h \in held'[c] : HasDisk(h)'
  <2>1. UNCHANGED <<running, disks>>
    BY <1>4 DEF Accept, host
  <2>2. PICK S \in SUBSET {h \in Vms \X Zvols : HasDisk(h)} : held' = [held EXCEPT ![d] = S]
    BY <1>4 DEF Accept
  <2>3. QED
    BY <2>1, <2>2 DEF HasDisk, TypeOK
<1>5. ASSUME NEW d \in Conns, Step(d)
      PROVE  \A h \in held'[c] : HasDisk(h)'
  <2>1. UNCHANGED <<running, disks>> /\ held'[c] \subseteq held[c]
    <3> USE <1>5 DEF host, history, TypeOK
    <3>1. CASE BeginSnapshot(d) \/ BeginRefused(d) \/ BeginCreate(d) \/ BeginFill(d)
               \/ BeginNotRecorded(d)
      BY <3>1 DEF BeginSnapshot, BeginRefused, BeginCreate, BeginFill, BeginNotRecorded
    <3>2. CASE Load(d) \/ LoadFailed(d) \/ RollbackCheck(d) \/ RollbackWalk(d)
               \/ RollbackRefused(d) \/ Rollback(d) \/ RollbackFailed(d)
      BY <3>2 DEF Load, LoadFailed, RollbackCheck, RollbackWalk, RollbackRefused, Rollback,
         RollbackFailed
    <3>3. CASE CommitDestroy(d) \/ CommitFailed(d) \/ CommitRemove(d)
               \/ ListDir(d) \/ ListFailed(d) \/ ListRead(d) \/ ListDone(d)
      BY <3>3 DEF CommitDestroy, CommitFailed, CommitRemove, ListDir, ListFailed, ListRead, ListDone
    <3>4. CASE Audit(d) \/ Reply(d)
      BY <3>4 DEF Audit, Reply
    <3>5. QED
      BY <3>1, <3>2, <3>3, <3>4 DEF Step
  <2>2. QED
    BY <2>1 DEF HasDisk
<1>6. QED
  BY <1>1, <1>2, <1>3, <1>4, <1>5 DEF Next, Environment

\* A handler comes to its walk from the check, and to its rollback from the walk.
LEMMA RollbackFrom ==
    ASSUME TypeOK, NEW c \in Conns, Accept(c) \/ Step(c), pc'[c] \in {"walk", "rollback"}
    PROVE  RollbackCheck(c) \/ RollbackWalk(c)
<1> USE DEF TypeOK, Goto, At, Fail
<1>1. CASE Accept(c)
  <2>1. pc'[c] \in {"begin", "list", "load", "reply"}
    BY <1>1, ZenonT(40) DEF Accept, FirstStep
  <2>2. QED
    BY <2>1
<1>2. CASE BeginSnapshot(c) \/ BeginRefused(c) \/ BeginCreate(c) \/ BeginFill(c)
           \/ BeginNotRecorded(c) \/ Load(c) \/ LoadFailed(c)
  BY <1>2 DEF BeginSnapshot, BeginRefused, BeginCreate, BeginFill, BeginNotRecorded, Load, LoadFailed
<1>3. CASE RollbackRefused(c) \/ Rollback(c) \/ RollbackFailed(c)
           \/ CommitDestroy(c) \/ CommitFailed(c) \/ CommitRemove(c)
  BY <1>3 DEF RollbackRefused, Rollback, RollbackFailed, CommitDestroy, CommitFailed, CommitRemove
<1>4. CASE ListDir(c) \/ ListFailed(c) \/ ListRead(c) \/ ListDone(c) \/ Audit(c) \/ Reply(c)
  BY <1>4 DEF ListDir, ListFailed, ListRead, ListDone, Audit, Reply
<1>5. QED
  BY <1>1, <1>2, <1>3, <1>4 DEF Step

\* A machine that holds a disk to be rolled back is not passed over.
LEMMA WalkStops ==
    ASSUME TypeOK, TypeOK', "virsh" \notin Events, NEW c \in Conns,
           RollbackCheck(c) \/ RollbackWalk(c), HeldInv(c), NEW v \in Vms,
           <<v, req[c].zvol>> \in held[c]
    PROVE  /\ pc'[c] = "walk" => v \in walk'[c]
           /\ pc'[c] = "rollback" => req[c].force
<1>1. /\ pc[c] \in {"check", "walk"} /\ req[c].op = "rollback" /\ req[c].zvol \in Zvols
      /\ walk \in [Conns -> SUBSET Vms]
  BY DEF RollbackCheck, RollbackWalk, TypeOK, At, Ready, Loaded
<1>2. v \in running /\ req[c].zvol \in disks[v]
  <2>1. HasDisk(<<v, req[c].zvol>>)
    BY DEF HeldInv
  <2>2. QED
    BY <2>1 DEF HasDisk
<1>3. Mentions(v, req[c].zvol)
  BY <1>1, <1>2, ConstantsAssumption DEF Mentions
<1>4. CASE RollbackCheck(c)
  BY <1>1, <1>2, <1>4 DEF RollbackCheck, Goto, TypeOK
<1>5. CASE RollbackWalk(c)
  <2>1. v \in walk[c]
    BY <1>1, <1>5 DEF HeldInv, At, RollbackWalk
  <2>2. QED
    BY <1>1, <1>2, <1>3, <1>5, <2>1 DEF RollbackWalk, Goto, TypeOK
<1>6. QED
  BY <1>4, <1>5

\* The walk of an unforced rollback has still to come to each machine that holds
\* its disk, whatever happens.
LEMMA HeldStep ==
    ASSUME TypeOK, TypeOK', "virsh" \notin Events, [Next]_vars, \A c \in Conns : HeldInv(c)
    PROVE  \A c \in Conns : HeldInv(c)'
<1> SUFFICES ASSUME NEW c \in Conns PROVE HeldInv(c)'
  OBVIOUS
<1>1. \A h \in held'[c] : HasDisk(h)'
  BY HeldHolds DEF HeldInv
<1>2. CASE Crash
  BY <1>1, <1>2 DEF Crash, HeldInv, At
<1>3. CASE Still(c)
  <2>1. /\ pc'[c] = pc[c] /\ req'[c] = req[c] /\ walk'[c] = walk[c]
        /\ held'[c] \subseteq held[c]
    BY <1>3 DEF Still, Same
  <2>2. QED
    BY <1>1, <2>1 DEF HeldInv, At
<1>4. CASE Accept(c) \/ Step(c)
  <2> SUFFICES ASSUME pc'[c] \in {"walk", "rollback"}, NEW v \in Vms,
                      <<v, req'[c].zvol>> \in held'[c]
               PROVE  /\ pc'[c] = "walk" => v \in walk'[c]
                      /\ pc'[c] = "rollback" => req'[c].force
    BY <1>1 DEF HeldInv, At
  <2>1. RollbackCheck(c) \/ RollbackWalk(c)
    BY <1>4, RollbackFrom
  <2>2. req' = req /\ held' = held
    BY <2>1 DEF RollbackCheck, RollbackWalk, history
  <2>3. QED
    BY <2>1, <2>2, WalkStops
<1>5. QED
  BY <1>2, <1>3, <1>4, Stirs
-----------------------------------------------------------------------------
(* Lists, as long as the state directory can be read.                      *)

\* What clients were told they were told for good.
LEMMA ToldGrows == [Next]_vars => told \subseteq told'
<1> SUFFICES ASSUME [Next]_vars PROVE told \subseteq told'
  OBVIOUS
<1>1. ASSUME NEW c \in Conns, Reply(c) PROVE told \subseteq told'
  BY <1>1 DEF Reply
<1>2. QED
  BY <1>1, ToldMoves

\* The record of an acknowledged open transaction is the one file of that
\* transaction, and was there before this step.
LEMMA OneRecord ==
    ASSUME Before, ToldInv, [Next]_vars, NEW t \in TxnIds,
           [op |-> "begin", txn |-> t] \in told, fate'[t] = "none"
    PROVE  /\ fate[t] = "none"
           /\ \E f \in files : /\ f.txn = t /\ f.text = "record"
                               /\ \A v : FileOf(v, t) # {} <=> v = f.vm
                               /\ \A v : FileOf(v, t)' = FileOf(v, t)
<1>1. fate[t] = "none"
  BY DEF Before, Monotone
<1>2. PICK f \in files : f.txn = t /\ f.text = "record"
  BY <1>1 DEF ToldInv, Recorded
<1>3. f \in files'
  BY <1>1, <1>2 DEF Before, FilesMonotone
<1>4. \A g \in files : g.txn = t => g = f
  BY <1>2 DEF Before, FilesInv
<1>5. \A g \in files' : g.txn = t => g = f
  BY <1>2, <1>3 DEF Before, FilesInv
<1>6. \A v : FileOf(v, t) # {} <=> v = f.vm
  BY <1>2, <1>4 DEF FileOf
<1>7. \A v : FileOf(v, t)' = FileOf(v, t)
  BY <1>2, <1>3, <1>4, <1>5 DEF FileOf
<1>8. QED
  BY <1>1, <1>2, <1>6, <1>7

\* What a handler owes is kept while it stands still.
LEMMA ListOther ==
    ASSUME Before, ToldInv, [Next]_vars, NEW c \in Conns, ListInv(c), Still(c)
    PROVE  ListInv(c)'
<1>1. /\ pc'[c] = pc[c] /\ req'[c] = req[c] /\ ok'[c] = ok[c]
      /\ owed'[c] = owed[c] /\ dir'[c] = dir[c] /\ listed'[c] = listed[c]
      /\ owed[c] \subseteq TxnIds
  BY DEF Still, Same, Before, TypeOK
<1>2. ASSUME NEW t \in owed[c]
      PROVE  /\ [op |-> "begin", txn |-> t] \in told'
             /\ fate'[t] = "none" => fate[t] = "none" /\ FileOf(req[c].vm, t)' = FileOf(req[c].vm, t)
  <2>1. t \in TxnIds /\ [op |-> "begin", txn |-> t] \in told
    BY <1>1 DEF ListInv
  <2>2. [op |-> "begin", txn |-> t] \in told'
    BY <2>1, ToldGrows
  <2>3. CASE fate'[t] = "none"
    <3>1. fate[t] = "none" /\ \A v : FileOf(v, t)' = FileOf(v, t)
      BY <2>1, <2>3, OneRecord
    <3>2. FileOf(req[c].vm, t)' = FileOf(req[c].vm, t)
      BY <1>1, <3>1 DEF FileOf
    <3>3. QED
      BY <2>2, <3>1, <3>2
  <2>4. QED
    BY <2>2, <2>3
<1>3. QED
  BY <1>1, <1>2 DEF ListInv, At

\* The handler of a list that moves.
LEMMA ListMover ==
    ASSUME Before, ToldInv, "state" \notin Events, [Next]_vars, NEW c \in Conns, ListInv(c),
           Accept(c) \/ Step(c)
    PROVE  ListInv(c)'
<1>0. TypeOK /\ HandlerInv(c)
  BY DEF Before, HandlersInv
<1> USE DEF TypeOK, Goto, At, Fail, Touch
<1>1. CASE Accept(c)
  <2>1. /\ pc'[c] \in {"begin", "list", "load", "reply"} /\ ~ok'[c]
        /\ owed'[c] = {t \in TxnIds : [op |-> "begin", txn |-> t] \in told /\ fate[t] = "none"}
        /\ told' = told
    BY <1>0, <1>1, ZenonT(40) DEF Accept, FirstStep
  <2>2. QED
    BY <2>1 DEF ListInv
<1>2. CASE Reply(c)
  <2>1. owed'[c] = {} /\ pc'[c] = "idle"
    BY <1>0, <1>2 DEF Reply
  <2>2. QED
    BY <2>1 DEF ListInv
<1>3. ASSUME UNCHANGED <<owed, told>>, pc'[c] = "audit" => req'[c].op # "list",
             pc'[c] \notin {"read"}, pc'[c] = "reply" => ~ok'[c] \/ req'[c].op # "list"
      PROVE  ListInv(c)'
  BY <1>3 DEF ListInv
<1>4. CASE BeginSnapshot(c) \/ BeginRefused(c) \/ BeginCreate(c) \/ BeginFill(c)
           \/ BeginNotRecorded(c) \/ Load(c) \/ LoadFailed(c) \/ ListFailed(c)
  BY <1>0, <1>3, <1>4 DEF BeginSnapshot, BeginRefused, BeginCreate, BeginFill, BeginNotRecorded,
     Load, LoadFailed, ListFailed, history
<1>5. CASE RollbackCheck(c) \/ RollbackWalk(c) \/ RollbackRefused(c)
           \/ Rollback(c) \/ RollbackFailed(c)
           \/ CommitDestroy(c) \/ CommitFailed(c) \/ CommitRemove(c)
  BY <1>0, <1>3, <1>5 DEF RollbackCheck, RollbackWalk, RollbackRefused, Rollback, RollbackFailed,
     CommitDestroy, CommitFailed, CommitRemove, history
<1>6. CASE Audit(c)
  <2>1. /\ UNCHANGED <<owed, told, req>> /\ pc[c] = "audit" /\ pc'[c] = "reply"
    BY <1>0, <1>6 DEF Audit, history
  <2>2. QED
    BY <1>3, <2>1 DEF ListInv
<1>7. CASE ListDir(c) \/ ListRead(c) \/ ListDone(c)
  <2>1. /\ UNCHANGED <<owed, told, req, fate, files>> /\ req[c].op = "list"
        /\ owed[c] \subseteq TxnIds /\ pc'[c] # "audit"
    BY <1>0, <1>7 DEF ListDir, ListRead, ListDone, history, daemon
  <2> SUFFICES ASSUME NEW t \in owed[c], fate[t] = "none", FileOf(req[c].vm, t) # {}
               PROVE  /\ pc'[c] = "read" => t \in dir'[c] \cup listed'[c]
                      /\ pc'[c] = "reply" => t \in listed'[c]
    BY <2>1 DEF ListInv, FileOf
  <2>2. t \in TxnIds /\ [op |-> "begin", txn |-> t] \in told
    BY <2>1 DEF ListInv
  <2>3. CASE ListDir(c)
    <3>1. pc'[c] = "read" /\ dir'[c] = {f.txn : f \in {g \in files : g.vm = req[c].vm}}
      BY <1>0, <2>3 DEF ListDir
    <3>2. QED
      BY <3>1 DEF FileOf
  <2>4. CASE ListRead(c)
    <3>1. PICK u \in dir[c] :
            /\ dir' = [dir EXCEPT ![c] = @ \ {u}]
            /\ \/ Records(req[c].vm, u) # {} /\ listed' = [listed EXCEPT ![c] = @ \cup {u}]
               \/ Records(req[c].vm, u) = {} /\ UNCHANGED listed
      BY <2>4 DEF ListRead
    <3>2. pc'[c] = "read" /\ t \in dir[c] \cup listed[c]
      BY <2>1, <2>4 DEF ListRead, ListInv
    <3>3. Records(req[c].vm, t) # {}
      <4>1. PICK f \in files : /\ f.txn = t /\ f.text = "record"
                               /\ \A v : FileOf(v, t) # {} <=> v = f.vm
        BY <2>1, <2>2, OneRecord
      <4>2. f \in Records(req[c].vm, t)
        BY <4>1 DEF Records, FileOf
      <4>3. QED
        BY <4>2
    <3>4. QED
      BY <1>0, <3>1, <3>2, <3>3
  <2>5. CASE ListDone(c)
    <3>1. pc[c] = "read" /\ pc'[c] = "reply" /\ dir[c] = {} /\ listed' = listed
      BY <1>0, <2>5 DEF ListDone
    <3>2. QED
      BY <2>1, <3>1 DEF ListInv
  <2>6. QED
    BY <1>7, <2>3, <2>4, <2>5
<1>8. QED
  BY <1>1, <1>2, <1>4, <1>5, <1>6, <1>7 DEF Step

\* What a list owes is still to be read, or has been, whoever moves.
LEMMA ListStep ==
    ASSUME Before, ToldInv, "state" \notin Events, [Next]_vars, \A c \in Conns : ListInv(c)
    PROVE  \A c \in Conns : ListInv(c)'
<1>0. TypeOK
  BY DEF Before
<1>1. CASE Crash
  BY <1>1 DEF Crash, ListInv
<1>2. CASE \A c \in Conns : Still(c)
  BY <1>2, ListOther
<1>3. ASSUME NEW c \in Conns, Accept(c) \/ Step(c), \A d \in Conns \ {c} : Still(d)
      PROVE  \A d \in Conns : ListInv(d)'
  BY <1>3, ListOther, ListMover
<1>4. QED
  BY <1>0, <1>1, <1>2, <1>3, Stirs
-----------------------------------------------------------------------------
(* The theorems.                                                           *)

\* The answers rest on the invariant of the files, of what each handler has
\* changed, of the zvols attached all along, of what each list still owes.
THEOREM AnswersInvariance == Spec => []AnswersInv
<1>1. Init => AnswersInv
  <2> SUFFICES ASSUME Init PROVE AnswersInv
    OBVIOUS
  <2>1. \A c \in Conns : CleanInv(c) /\ HeldInv(c) /\ ListInv(c)
    BY DEF Init, CleanInv, Failing, HeldInv, ListInv, At
  <2>2. QED
    BY <2>1, InitIInv DEF AnswersInv
<1>2. AnswersInv /\ [Next]_vars => AnswersInv'
  <2> SUFFICES ASSUME AnswersInv, [Next]_vars PROVE AnswersInv'
    OBVIOUS
  <2>1. IInv /\ IInv'
    BY Inductive DEF AnswersInv
  <2>2. TypeOK /\ TypeOK' /\ ToldInv /\ Before
    <3>1. Monotone /\ FilesMonotone
      BY <2>1, PoolMonotone, FilesStep DEF IInv
    <3>2. QED
      BY <2>1, <3>1 DEF IInv, Before
  <2>3. \A c \in Conns : CleanInv(c)'
    BY <2>2, CleanStep DEF AnswersInv
  <2>4. "virsh" \notin Events => \A c \in Conns : HeldInv(c)'
    BY <2>2, HeldStep DEF AnswersInv
  <2>5. "state" \notin Events => \A c \in Conns : ListInv(c)'
    BY <2>2, ListStep DEF AnswersInv
  <2>6. QED
    BY <2>1, <2>3, <2>4, <2>5 DEF AnswersInv
<1>3. QED
  BY <1>1, <1>2, PTL DEF Spec

\* A request that is answered with an error has changed nothing, but for the
\* snapshot of a begin that nobody will record, and the younger snapshots
\* that a rollback of an open transaction destroyed before zfs gave up.
THEOREM ErrorsLeaveNothing == Spec => []ErrorsAreClean
<1>1. AnswersInv => ErrorsAreClean
  <2> SUFFICES ASSUME AnswersInv, NEW c \in Conns, Failing(c)
               PROVE  \/ /\ req[c].op = "begin"
                         /\ \A f \in files : f.txn = req[c].txn => f.text = "empty"
                      \/ /\ req[c].op = "rollback"
                         /\ fate[req[c].txn] = "none" =>
                               SnapshotsOf(req[c].txn) # {} /\ Recorded(req[c].txn)
    BY DEF ErrorsAreClean, Failing
  <2>1. CleanInv(c) /\ PoolInv
    BY DEF AnswersInv, IInv
  <2>2. QED
    BY <2>1 DEF CleanInv, PoolInv
<1>2. QED
  BY <1>1, AnswersInvariance, PTL

\* However machines and disks come and go between the commands of the walk, a zvol
\* that one machine has kept attached since a rollback without force was accepted
\* is not rolled back by it.
THEOREM HeldStays == ASSUME "virsh" \notin Events PROVE Spec => HeldIsNotRolledBack
<1>1. AnswersInv /\ [Next]_vars =>
        [\A c \in Conns :
          At(c, "rollback", "rollback") /\ pc'[c] = "audit" /\ ~req[c].force =>
              \A v \in Vms : <<v, req[c].zvol>> \notin held[c]]_vars
  BY DEF AnswersInv, HeldInv
<1>2. QED
  BY <1>1, AnswersInvariance, PTL DEF Spec, HeldIsNotRolledBack

\* A list that is answered lacks no transaction that had been acknowledged
\* when it was called and is still open, however many records come and go
\* while it reads.
THEOREM ListsAreComplete == ASSUME "state" \notin Events PROVE Spec => []ListComplete
<1>1. AnswersInv => ListComplete
  BY DEF AnswersInv, ListInv, ListComplete, At, FileOf
<1>2. QED
  BY <1>1, AnswersInvariance, PTL
=============================================================================
