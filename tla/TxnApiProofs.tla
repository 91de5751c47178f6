---------------------------- MODULE TxnApiProofs ----------------------------
(***************************************************************************)
(* Proofs about the transaction daemon (module TxnApi), for any number of  *)
(* connections, machines, zvols and transactions and any scope.            *)
(***************************************************************************)
EXTENDS TxnApi, TLAPS

\* Type correctness is inductive.
LEMMA TypeStep == TypeOK /\ [Next]_vars => TypeOK'
<1> SUFFICES ASSUME TypeOK, [Next]_vars PROVE TypeOK'
  OBVIOUS
<1> USE ConstantsAssumption DEF TypeOK, Ready, Loaded, Steps, At, Goto, Fates,
        pool, host, daemon, handlers, history, Fail, Touch
<1>1. ASSUME NEW c \in Conns, Accept(c) PROVE TypeOK'
  <2>0. PICK op \in Calls, v \in Vms, via \in {"vsock", "token", "operator", "nobody"} :
          \E z \in Zvols \cup {None}, t \in TxnIds \cup {None}, force \in BOOLEAN :
            /\ op = "begin" <=> z # None
            /\ op \in {"rollback", "commit"} <=> t # None
            /\ op # "rollback" => ~force
            /\ req' = [req EXCEPT ![c] = Call(op, v, z, t, force)]
            /\ Goto(c, IF Identified(via, v) THEN FirstStep(op) ELSE "reply")
            /\ held' = [held EXCEPT ![c] =
                          {h \in Vms \X Zvols : HasDisk(h) /\ op = "rollback" /\ ~force}]
    BY <1>1, Zenon DEF Accept
  <2>1. PICK z \in Zvols \cup {None}, t \in TxnIds \cup {None}, force \in BOOLEAN :
          /\ op = "begin" <=> z # None
          /\ op \in {"rollback", "commit"} <=> t # None
          /\ op # "rollback" => ~force
          /\ req' = [req EXCEPT ![c] = Call(op, v, z, t, force)]
          /\ Goto(c, IF Identified(via, v) THEN FirstStep(op) ELSE "reply")
          /\ held' = [held EXCEPT ![c] =
                        {h \in Vms \X Zvols : HasDisk(h) /\ op = "rollback" /\ ~force}]
    BY <2>0, Zenon
  <2>2. Call(op, v, z, t, force) \in Request
    BY <2>1 DEF Call, Request
  <2>3. op \in Ops
    BY <2>1
  <2>4. req' \in [Conns -> Request]
    BY <2>1, <2>2
  <2>5. pc' \in [Conns -> Steps]
    BY <2>1 DEF FirstStep
  <2>6. ASSUME NEW d \in Conns
        PROVE /\ pc'[d] # "idle" => req'[d].vm \in Vms
              /\ At(d, "begin", "begin")' => req'[d].zvol \in Zvols
              /\ pc'[d] = "load" => req'[d].op \in {"rollback", "commit"} /\ req'[d].txn \in TxnIds
              /\ Ready(d)' => req'[d].txn \in TxnIds /\ req'[d].zvol \in Zvols
    <3>1. CASE d = c
      <4>1. req'[c].op = op /\ req'[c].vm = v /\ req'[c].zvol = z /\ req'[c].txn = t
        BY <2>1 DEF Call
      <4>2. pc'[c] \in {"begin", "list", "load", "reply"} /\ ~ok'[c]
        BY <1>1, <2>1 DEF Accept, FirstStep
      <4>3. pc'[c] = "begin" => op = "begin"
        BY <2>1, <4>2 DEF FirstStep
      <4>4. pc'[c] = "load" => op \notin {"begin", "list"}
        BY <2>1, <4>2 DEF FirstStep
      <4>5. QED
        BY <3>1, <4>1, <4>2, <4>3, <4>4, <2>1, <2>3 DEF Ops
    <3>2. CASE d # c
      BY <1>1, <2>1, <3>2 DEF Accept
    <3>3. QED
      BY <3>1, <3>2
  <2>7. /\ ok' \in [Conns -> BOOLEAN] /\ touched' \in [Conns -> BOOLEAN]
        /\ owed' \in [Conns -> SUBSET TxnIds] /\ held' \in [Conns -> SUBSET (Vms \X Zvols)]
    BY <1>1, <2>1 DEF Accept
  <2>8. QED
    BY <1>1, <2>4, <2>5, <2>6, <2>7 DEF Accept
<1>2. ASSUME NEW c \in Conns, BeginSnapshot(c) PROVE TypeOK'
  <2>1. PICK t \in TxnIds : TakeSnapshot(req[c].zvol, t) /\ req' = [req EXCEPT ![c].txn = t]
    BY <1>2 DEF BeginSnapshot
  <2>2. req[c] \in Request /\ req[c].zvol \in Zvols /\ req[c].vm \in Vms
    BY <1>2 DEF BeginSnapshot
  <2>3. req' \in [Conns -> Request]
    BY <2>1, <2>2 DEF Request
  <2>4. snaps' \subseteq Snapshot /\ txg' \in Nat /\ used' \subseteq TxnIds \cup AutoSnaps
    BY <2>1, <2>2 DEF TakeSnapshot, Snapshot
  <2>5. ASSUME NEW d \in Conns
        PROVE /\ pc'[d] # "idle" => req'[d].vm \in Vms
              /\ At(d, "begin", "begin")' => req'[d].zvol \in Zvols
              /\ pc'[d] = "load" => req'[d].op \in {"rollback", "commit"} /\ req'[d].txn \in TxnIds
              /\ Ready(d)' => req'[d].txn \in TxnIds /\ req'[d].zvol \in Zvols
    BY <1>2, <2>1, <2>2 DEF BeginSnapshot, Request
  <2>6. QED
    BY <1>2, <2>1, <2>3, <2>4, <2>5 DEF BeginSnapshot, TakeSnapshot
<1>3. ASSUME NEW c \in Conns, BeginRefused(c) PROVE TypeOK'
  BY <1>3 DEF BeginRefused
<1>4. ASSUME NEW c \in Conns, BeginCreate(c) PROVE TypeOK'
  <2>1. req[c] \in Request /\ req[c].zvol \in Zvols /\ req[c].txn \in TxnIds /\ req[c].vm \in Vms
    BY <1>4 DEF BeginCreate
  <2>2. files' \subseteq File
    BY <1>4, <2>1 DEF BeginCreate, File, FileOf
  <2>3. ASSUME NEW d \in Conns
        PROVE /\ pc'[d] # "idle" => req'[d].vm \in Vms
              /\ At(d, "begin", "begin")' => req'[d].zvol \in Zvols
              /\ pc'[d] = "load" => req'[d].op \in {"rollback", "commit"} /\ req'[d].txn \in TxnIds
              /\ Ready(d)' => req'[d].txn \in TxnIds /\ req'[d].zvol \in Zvols
    BY <1>4, <2>1 DEF BeginCreate
  <2>4. QED
    BY <1>4, <2>2, <2>3 DEF BeginCreate
<1>5. ASSUME NEW c \in Conns, BeginFill(c) PROVE TypeOK'
  <2>1. req[c] \in Request /\ req[c].zvol \in Zvols /\ req[c].txn \in TxnIds /\ req[c].vm \in Vms
    BY <1>5 DEF BeginFill
  <2>2. files' \subseteq File
    BY <1>5, <2>1 DEF BeginFill, File, FileOf
  <2>3. ASSUME NEW d \in Conns
        PROVE /\ pc'[d] # "idle" => req'[d].vm \in Vms
              /\ At(d, "begin", "begin")' => req'[d].zvol \in Zvols
              /\ pc'[d] = "load" => req'[d].op \in {"rollback", "commit"} /\ req'[d].txn \in TxnIds
              /\ Ready(d)' => req'[d].txn \in TxnIds /\ req'[d].zvol \in Zvols
    BY <1>5, <2>1 DEF BeginFill
  <2>4. QED
    BY <1>5, <2>2, <2>3 DEF BeginFill
<1>6. ASSUME NEW c \in Conns, BeginNotRecorded(c) PROVE TypeOK'
  BY <1>6 DEF BeginNotRecorded
<1>7. ASSUME NEW c \in Conns, Load(c) PROVE TypeOK'
  <2>1. PICK f \in files : req' = [req EXCEPT ![c].zvol = f.zvol]
    BY <1>7 DEF Load, Records, FileOf
  <2>2. f.zvol \in Zvols /\ req[c] \in Request
    BY DEF File
  <2>3. req' \in [Conns -> Request]
    BY <2>1, <2>2 DEF Request
  <2>4. /\ req'[c].vm = req[c].vm /\ req'[c].op = req[c].op /\ req'[c].txn = req[c].txn
        /\ req'[c].zvol = f.zvol
        /\ \A d \in Conns \ {c} : req'[d] = req[d]
    BY <2>1, <2>2 DEF Request
  <2>5. ASSUME NEW d \in Conns
        PROVE /\ pc'[d] # "idle" => req'[d].vm \in Vms
              /\ At(d, "begin", "begin")' => req'[d].zvol \in Zvols
              /\ pc'[d] = "load" => req'[d].op \in {"rollback", "commit"} /\ req'[d].txn \in TxnIds
              /\ Ready(d)' => req'[d].txn \in TxnIds /\ req'[d].zvol \in Zvols
    BY <1>7, <2>2, <2>4 DEF Load
  <2>6. QED
    BY <1>7, <2>3, <2>5 DEF Load
<1>8. ASSUME NEW c \in Conns, LoadFailed(c) PROVE TypeOK'
  BY <1>8 DEF LoadFailed
<1>9. ASSUME NEW c \in Conns, RollbackCheck(c) \/ RollbackWalk(c) PROVE TypeOK'
  BY <1>9 DEF RollbackCheck, RollbackWalk
<1>10. ASSUME NEW c \in Conns, RollbackRefused(c) PROVE TypeOK'
  BY <1>10 DEF RollbackRefused, AuditLine, Ops
<1>11. ASSUME NEW c \in Conns, Rollback(c) PROVE TypeOK'
  BY <1>11 DEF Rollback, RollBackTo, Drop, Newer, SnapshotsOf, Snapshot
<1>12. ASSUME NEW c \in Conns, RollbackFailed(c) PROVE TypeOK'
  <2>1. snaps' \subseteq snaps /\ fate' \in [TxnIds -> Fates] /\ touched' \in [Conns -> BOOLEAN]
    <3>1. CASE UNCHANGED <<pool, fate, touched>>
      BY <3>1
    <3>2. ASSUME NEW s \in SnapshotsOf(req[c].txn), NEW S \in SUBSET Newer(s),
                 Drop(S, "superseded"), touched' = [touched EXCEPT ![c] = S # {}]
          PROVE  snaps' \subseteq snaps /\ fate' \in [TxnIds -> Fates] /\ touched' \in [Conns -> BOOLEAN]
      <4>1. (S # {}) \in BOOLEAN
        OBVIOUS
      <4>2. touched' \in [Conns -> BOOLEAN]
        BY <3>2, <4>1, Zenon
      <4>3. QED
        BY <3>2, <4>2 DEF Drop
    <3>3. QED
      BY <1>12, <3>1, <3>2 DEF RollbackFailed
  <2>2. UNCHANGED <<live, txg, used>>
    BY <1>12 DEF RollbackFailed, Drop
  <2>3. ASSUME NEW d \in Conns
        PROVE /\ pc'[d] # "idle" => req'[d].vm \in Vms
              /\ At(d, "begin", "begin")' => req'[d].zvol \in Zvols
              /\ pc'[d] = "load" => req'[d].op \in {"rollback", "commit"} /\ req'[d].txn \in TxnIds
              /\ Ready(d)' => req'[d].txn \in TxnIds /\ req'[d].zvol \in Zvols
    BY <1>12 DEF RollbackFailed
  <2>4. QED
    BY <1>12, <2>1, <2>2, <2>3 DEF RollbackFailed
<1>13. ASSUME NEW c \in Conns, CommitDestroy(c) PROVE TypeOK'
  BY <1>13 DEF CommitDestroy, Drop
<1>14. ASSUME NEW c \in Conns, CommitFailed(c) PROVE TypeOK'
  BY <1>14 DEF CommitFailed
<1>15. ASSUME NEW c \in Conns, CommitRemove(c) PROVE TypeOK'
  BY <1>15 DEF CommitRemove, FileOf
<1>16. ASSUME NEW c \in Conns, ListDir(c) PROVE TypeOK'
  BY <1>16 DEF ListDir, File
<1>17. ASSUME NEW c \in Conns, ListFailed(c) PROVE TypeOK'
  BY <1>17 DEF ListFailed
<1>18. ASSUME NEW c \in Conns, ListRead(c) PROVE TypeOK'
  BY <1>18, SMTT(20) DEF ListRead
<1>19. ASSUME NEW c \in Conns, ListDone(c) PROVE TypeOK'
  BY <1>19 DEF ListDone
<1>20. ASSUME NEW c \in Conns, Audit(c) PROVE TypeOK'
  BY <1>20 DEF Audit, AuditLine, Request, Ops
<1>21. ASSUME NEW c \in Conns, Reply(c) PROVE TypeOK'
  BY <1>21 DEF Reply, NoRequest, Call, Request, Ops
<1>22. CASE Crash
  BY <1>22 DEF Crash, NoRequest, Call, Request, Ops
<1>23. ASSUME NEW z \in Zvols, GuestWrite(z) PROVE TypeOK'
  BY <1>23 DEF GuestWrite
<1>24. ASSUME NEW z \in Zvols, NEW n \in AutoSnaps, SanoidSnapshot(z, n) PROVE TypeOK'
  BY <1>24 DEF SanoidSnapshot, TakeSnapshot, Snapshot
<1>25. ASSUME NEW s \in snaps, SanoidPrune(s) PROVE TypeOK'
  BY <1>25 DEF SanoidPrune
<1>26. ASSUME NEW v \in Vms, PowerSwitch(v) PROVE TypeOK'
  BY <1>26 DEF PowerSwitch, StillHeld
<1>27. ASSUME NEW v \in Vms, NEW z \in Zvols, Attach(v, z) PROVE TypeOK'
  BY <1>27 DEF Attach, StillHeld
<1>28. ASSUME NEW v \in Vms, NEW z \in Zvols, Detach(v, z) PROVE TypeOK'
  BY <1>28 DEF Detach, StillHeld
<1>29. CASE UNCHANGED vars
  BY <1>29 DEF vars
<1>30. QED
  BY <1>1, <1>2, <1>3, <1>4, <1>5, <1>6, <1>7, <1>8, <1>9, <1>10, <1>11, <1>12, <1>13, <1>14, <1>15, <1>16, <1>17, <1>18, <1>19, <1>20, <1>21, <1>22, <1>23, <1>24, <1>25, <1>26, <1>27, <1>28, <1>29 DEF Next, Step, Environment

\* Whatever the requests, their interleaving and the faults, the daemon's
\* state keeps its types, and a handler past its load has what it works on.
THEOREM TypeCorrect == Spec => []TypeOK
<1>1. Init => TypeOK
  BY ConstantsAssumption DEF Init, TypeOK, NoRequest, Call, Request, Steps, Fates, Ops, At, Ready, Loaded
<1>2. QED
  BY <1>1, TypeStep, PTL DEF Spec
-----------------------------------------------------------------------------
(* The pool.                                                               *)

\* The four ways in which a step may change what snapshots there are.
Taken == \E z \in Zvols, n \in TxnIds \cup AutoSnaps :
            TakeSnapshot(z, n) /\ UNCHANGED fate
Dropped == \E S \in SUBSET snaps, why \in {"committed", "superseded"} : Drop(S, why)
Pruned == \E s \in snaps : /\ s.name \in AutoSnaps /\ snaps' = snaps \ {s}
                          /\ UNCHANGED <<txg, used, fate>>
PoolStays == UNCHANGED <<snaps, txg, used, fate>>

\* A step takes a snapshot, drops some, prunes one of sanoid's or leaves them alone.
LEMMA PoolMoves == TypeOK /\ [Next]_vars => Taken \/ Dropped \/ Pruned \/ PoolStays
<1> SUFFICES ASSUME TypeOK, [Next]_vars PROVE Taken \/ Dropped \/ Pruned \/ PoolStays
  OBVIOUS
<1>1. ASSUME NEW c \in Conns, BeginSnapshot(c) PROVE Taken
  BY <1>1 DEF BeginSnapshot, Taken, TypeOK, At
<1>2. ASSUME NEW c \in Conns, Rollback(c) PROVE Dropped
  BY <1>2 DEF Rollback, RollBackTo, Newer, Dropped
<1>3. ASSUME NEW c \in Conns, RollbackFailed(c) PROVE Dropped \/ PoolStays
  BY <1>3 DEF RollbackFailed, Newer, Dropped, PoolStays, pool
<1>4. ASSUME NEW c \in Conns, CommitDestroy(c) PROVE Dropped
  BY <1>4 DEF CommitDestroy, SnapshotsOf, Dropped
<1>5. ASSUME NEW z \in Zvols, NEW n \in AutoSnaps, SanoidSnapshot(z, n) PROVE Taken
  BY <1>5 DEF SanoidSnapshot, Taken, history
<1>6. ASSUME NEW s \in snaps, SanoidPrune(s) PROVE Pruned
  BY <1>6 DEF SanoidPrune, Pruned, history
<1>7. ASSUME NEW c \in Conns,
             \/ Accept(c) \/ BeginRefused(c) \/ BeginCreate(c) \/ BeginFill(c) \/ BeginNotRecorded(c)
             \/ Load(c) \/ LoadFailed(c) \/ RollbackCheck(c) \/ RollbackWalk(c)
             \/ RollbackRefused(c)
             \/ CommitFailed(c) \/ CommitRemove(c)
             \/ ListDir(c) \/ ListFailed(c) \/ ListRead(c) \/ ListDone(c) \/ Audit(c) \/ Reply(c)
      PROVE  PoolStays
  BY <1>7 DEF PoolStays, pool, history, Accept, BeginRefused, BeginCreate, BeginFill,
     BeginNotRecorded, Load, LoadFailed, RollbackCheck, RollbackWalk,
     RollbackRefused, CommitFailed,
     CommitRemove, ListDir, ListFailed, ListRead, ListDone, Audit, Reply
<1>8. CASE \/ Crash \/ \E z \in Zvols : GuestWrite(z)
           \/ \E v \in Vms : PowerSwitch(v) \/ \E z \in Zvols : Attach(v, z) \/ Detach(v, z)
           \/ UNCHANGED vars
  BY <1>8 DEF PoolStays, pool, history, vars, Crash, GuestWrite, PowerSwitch, Attach, Detach
<1>9. QED
  BY <1>1, <1>2, <1>3, <1>4, <1>5, <1>6, <1>7, <1>8 DEF Next, Step, Environment

\* The invariant of the pool is inductive by itself: names are never reused.
LEMMA PoolStep == TypeOK /\ PoolInv /\ [Next]_vars => PoolInv'
<1> SUFFICES ASSUME TypeOK, PoolInv, [Next]_vars PROVE PoolInv'
  OBVIOUS
<1> USE DEF PoolInv, SnapshotsOf, TypeOK
<1>1. CASE Taken
  <2>1. PICK z \in Zvols, n \in TxnIds \cup AutoSnaps : TakeSnapshot(z, n) /\ UNCHANGED fate
    BY <1>1 DEF Taken
  <2>2. n \notin used /\ used' = used \cup {n} /\ txg' = txg + 1 /\ txg \in Nat
    BY <2>1 DEF TakeSnapshot
  <2>3. PICK new \in Snapshot :
            /\ new.name = n /\ new.zvol = z /\ new.txg = txg + 1
            /\ snaps' = snaps \cup {new}
    <3>1. [name |-> n, zvol |-> z, txg |-> txg + 1, data |-> live[z]] \in Snapshot
      BY DEF Snapshot
    <3>2. snaps' = snaps \cup {[name |-> n, zvol |-> z, txg |-> txg + 1, data |-> live[z]]}
      BY <2>1 DEF TakeSnapshot
    <3>3. QED
      BY <3>1, <3>2
  <2>4. \A s \in snaps : s.txg \in Nat
    BY DEF Snapshot
  <2>5. \A s \in snaps' : s.name \in used' /\ s.txg <= txg'
    BY <2>2, <2>3, <2>4
  <2>6. \A q, s \in snaps' : q.name = s.name \/ q.txg = s.txg => q = s
    BY <2>2, <2>3, <2>4
  <2>7. QED
    BY <2>1, <2>2, <2>3, <2>5, <2>6
<1>2. CASE Dropped
  BY <1>2 DEF Dropped, Drop, Fates
<1>3. CASE Pruned
  BY <1>3, ConstantsAssumption DEF Pruned
<1>4. CASE PoolStays
  BY <1>4 DEF PoolStays
<1>5. QED
  BY <1>1, <1>2, <1>3, <1>4, PoolMoves

\* Names stay taken, the snapshots of a taken name only disappear, and what is
\* over stays over, for the same reason.
Monotone ==
    /\ used \subseteq used'
    /\ \A t \in used : SnapshotsOf(t)' \subseteq SnapshotsOf(t)
    /\ \A t \in TxnIds : fate[t] # "none" => fate'[t] = fate[t]

\* The pool only ever forgets.
LEMMA PoolMonotone == TypeOK /\ PoolInv /\ [Next]_vars => Monotone
<1> SUFFICES ASSUME TypeOK, PoolInv, [Next]_vars PROVE Monotone
  OBVIOUS
<1> USE DEF Monotone, PoolInv, SnapshotsOf, TypeOK
<1>1. CASE Taken
  BY <1>1 DEF Taken, TakeSnapshot
<1>2. CASE Dropped
  BY <1>2 DEF Dropped, Drop
<1>3. CASE Pruned
  BY <1>3 DEF Pruned
<1>4. CASE PoolStays
  BY <1>4 DEF PoolStays
<1>5. QED
  BY <1>1, <1>2, <1>3, <1>4, PoolMoves
-----------------------------------------------------------------------------
(* The record files.                                                       *)

\* A record is complete from the time it is filled until its transaction is
\* committed.
FilesMonotone ==
    \A f \in files : f.text = "record" =>
        f \in files' \/ fate[f.txn] = "committed"

\* Record files are only created, filled and removed.
LEMMA FilesMoves ==
    TypeOK /\ HandlersInv /\ CommitOnce /\ [Next]_vars =>
        \/ UNCHANGED files
        \/ \E c \in Conns : /\ BeginCreate(c) \/ BeginFill(c) \/ CommitRemove(c)
<1> SUFFICES ASSUME TypeOK, [Next]_vars
             PROVE  \/ UNCHANGED files
                    \/ \E c \in Conns : /\ BeginCreate(c) \/ BeginFill(c) \/ CommitRemove(c)
  OBVIOUS
<1>1. ASSUME NEW c \in Conns,
             \/ Accept(c) \/ BeginSnapshot(c) \/ BeginRefused(c) \/ BeginNotRecorded(c)
             \/ Load(c) \/ LoadFailed(c) \/ RollbackCheck(c) \/ RollbackWalk(c)
             \/ RollbackRefused(c)
             \/ Rollback(c) \/ RollbackFailed(c) \/ CommitDestroy(c) \/ CommitFailed(c)
             \/ ListDir(c) \/ ListFailed(c) \/ ListRead(c) \/ ListDone(c) \/ Audit(c) \/ Reply(c)
      PROVE  UNCHANGED files
  BY <1>1 DEF daemon, Accept, BeginSnapshot, BeginRefused, BeginNotRecorded, Load, LoadFailed,
     RollbackCheck, RollbackWalk,
     RollbackRefused, Rollback, RollbackFailed, CommitDestroy, CommitFailed,
     ListDir, ListFailed, ListRead, ListDone, Audit, Reply
<1>2. CASE Environment \/ UNCHANGED vars
  BY <1>2 DEF daemon, vars, Environment, Crash, GuestWrite, SanoidSnapshot, SanoidPrune,
     PowerSwitch, Attach, Detach
<1>3. QED
  BY <1>1, <1>2 DEF Next, Step

\* The invariant of the record files: a begin writes its own file, a commit removes
\* it, and nobody else has one of that name.
LEMMA FilesStep ==
    TypeOK /\ PoolInv /\ FilesInv /\ HandlersInv /\ CommitOnce /\ [Next]_vars =>
        FilesInv' /\ FilesMonotone
<1> SUFFICES ASSUME TypeOK, PoolInv, FilesInv, HandlersInv, CommitOnce, [Next]_vars
             PROVE  FilesInv' /\ FilesMonotone
  OBVIOUS
<1>0. Monotone
  BY PoolMonotone
<1> USE DEF FilesInv, FilesMonotone, Monotone, SnapshotsOf
<1>1. CASE UNCHANGED files
  BY <1>0, <1>1
<1>2. ASSUME NEW c \in Conns, BeginCreate(c) \/ BeginFill(c)
      PROVE  FilesInv' /\ FilesMonotone
  <2>1. /\ Ready(c) /\ pc[c] \in {"create", "fill"} /\ HandlerInv(c)
        /\ UNCHANGED <<snaps, used>>
    BY <1>2 DEF BeginCreate, BeginFill, At, Ready, Loaded, HandlersInv, pool
  <2>2. PICK F \in SUBSET files, new \in File :
            /\ new.txn = req[c].txn /\ new.vm = req[c].vm /\ new.zvol = req[c].zvol
            /\ files' = F \cup {new}
            /\ \A f \in F : f.txn # req[c].txn
            /\ \A f \in files : f.txn # req[c].txn => f \in F
    <3> DEFINE R(text) == [txn |-> req[c].txn, vm |-> req[c].vm,
                           zvol |-> req[c].zvol, text |-> text]
    <3>0. R("empty") \in File /\ R("record") \in File
      BY <2>1 DEF File, TypeOK, Ready, Loaded
    <3>1. CASE BeginCreate(c)
      <4>1. files' = files \cup {R("empty")}
        BY <3>1 DEF BeginCreate
      <4>2. \A f \in files : f.txn # req[c].txn
        BY <2>1, <3>1 DEF BeginCreate, At, HandlerInv
      <4>3. QED
        BY <3>0, <4>1, <4>2
    <3>2. CASE BeginFill(c)
      <4> DEFINE F == files \ FileOf(req[c].vm, req[c].txn)
      <4>1. files' = F \cup {R("record")}
        BY <3>2 DEF BeginFill
      <4>2. \A f \in F : f.txn # req[c].txn
        BY <2>1 DEF HandlerInv, FileOf
      <4>3. \A f \in files : f.txn # req[c].txn => f \in F
        BY DEF FileOf
      <4>4. F \in SUBSET files
        OBVIOUS
      <4> HIDE DEF F
      <4>5. QED
        BY <3>0, <4>1, <4>2, <4>3, <4>4
    <3>3. QED
      BY <1>2, <3>1, <3>2
  <2>3. \A f \in files : f.txn = req[c].txn => f.text # "record"
    BY <2>1 DEF HandlerInv
  <2>4. FilesMonotone
    BY <2>2, <2>3
  <2>5. FilesInv'
    BY <2>1, <2>2 DEF HandlerInv
  <2>6. QED
    BY <2>4, <2>5
<1>3. ASSUME NEW c \in Conns, CommitRemove(c)
      PROVE  FilesInv' /\ FilesMonotone
  <2>1. fate[req[c].txn] = "committed"
    BY <1>3 DEF CommitRemove, At, CommitOnce, Committing
  <2>2. /\ files' \subseteq files
        /\ \A f \in files : f.txn # req[c].txn => f \in files'
    BY <1>3 DEF CommitRemove, FileOf
  <2>3. UNCHANGED <<snaps, used>>
    BY <1>3 DEF CommitRemove, pool
  <2>4. QED
    BY <2>1, <2>2, <2>3
<1>4. QED
  BY <1>1, <1>2, <1>3, FilesMoves

\* So once a transaction has been recorded it stays recorded or ends.
LEMMA RecordedStays ==
    ASSUME TypeOK, Monotone, FilesMonotone, NEW t \in TxnIds, Recorded(t)
    PROVE  Recorded(t)'
BY DEF Recorded, Monotone, FilesMonotone, TypeOK, File
-----------------------------------------------------------------------------
(* The handlers.                                                           *)

\* The handler of c does not move.
Same(c) == pc'[c] = pc[c] /\ req'[c] = req[c] /\ ok'[c] = ok[c]

\* One handler moves at a time.
LEMMA OneMoves ==
    ASSUME TypeOK, NEW c \in Conns, Accept(c) \/ Step(c)
    PROVE  \A d \in Conns \ {c} : Same(d)
<1> USE DEF TypeOK, Same, Goto, Fail, handlers
<1>1. CASE Accept(c)
  BY <1>1 DEF Accept
<1>2. CASE BeginSnapshot(c) \/ BeginRefused(c) \/ BeginCreate(c) \/ BeginFill(c)
           \/ BeginNotRecorded(c)
  BY <1>2 DEF BeginSnapshot, BeginRefused, BeginCreate, BeginFill, BeginNotRecorded
<1>3. CASE Load(c) \/ LoadFailed(c)
  BY <1>3 DEF Load, LoadFailed
<1>4. CASE RollbackCheck(c) \/ RollbackWalk(c)
           \/ RollbackRefused(c) \/ Rollback(c) \/ RollbackFailed(c)
  BY <1>4 DEF RollbackCheck, RollbackWalk, RollbackRefused, Rollback, RollbackFailed
<1>5. CASE CommitDestroy(c) \/ CommitFailed(c) \/ CommitRemove(c)
  BY <1>5 DEF CommitDestroy, CommitFailed, CommitRemove
<1>6. CASE ListDir(c) \/ ListFailed(c) \/ ListRead(c) \/ ListDone(c)
  BY <1>6 DEF ListDir, ListFailed, ListRead, ListDone
<1>7. CASE Audit(c) \/ Reply(c)
  BY <1>7 DEF Audit, Reply
<1>8. QED
  BY <1>1, <1>2, <1>3, <1>4, <1>5, <1>6, <1>7 DEF Step

\* A step is a crash, or a step of the environment, or of one handler.
LEMMA HandlerMoves ==
    TypeOK /\ [Next]_vars =>
        \/ \A c \in Conns : pc'[c] = "idle"
        \/ \A c \in Conns : Same(c)
        \/ \E c \in Conns : (Accept(c) \/ Step(c)) /\ \A d \in Conns \ {c} : Same(d)
<1> SUFFICES ASSUME TypeOK, [Next]_vars
             PROVE  \/ \A c \in Conns : pc'[c] = "idle"
                    \/ \A c \in Conns : Same(c)
                    \/ \E c \in Conns : (Accept(c) \/ Step(c)) /\ \A d \in Conns \ {c} : Same(d)
  OBVIOUS
<1>1. CASE Crash
  BY <1>1 DEF Crash
<1>2. CASE \/ \E z \in Zvols : GuestWrite(z) \/ \E n \in AutoSnaps : SanoidSnapshot(z, n)
           \/ \E s \in snaps : SanoidPrune(s)
           \/ \E v \in Vms : PowerSwitch(v) \/ \E z \in Zvols : Attach(v, z) \/ Detach(v, z)
           \/ UNCHANGED vars
  BY <1>2 DEF GuestWrite, SanoidSnapshot, SanoidPrune, PowerSwitch, Attach, Detach, handlers,
     vars, Same
<1>3. ASSUME NEW c \in Conns, Accept(c) \/ Step(c)
      PROVE  \A d \in Conns \ {c} : Same(d)
  BY <1>3, OneMoves
<1>4. QED
  BY <1>1, <1>2, <1>3 DEF Next, Environment

\* A handler gets to know its transaction by drawing its name or by loading
\* its record, and keeps it from then on.
LEMMA ReadyFrom ==
    ASSUME TypeOK, NEW c \in Conns, Accept(c) \/ Step(c), Ready(c)'
    PROVE  \/ BeginSnapshot(c)
           \/ Load(c)
           \/ Ready(c) /\ req'[c] = req[c]
<1> USE DEF TypeOK, Ready, Loaded, Goto, Fail, At
<1>1. CASE Accept(c)
  <2>1. pc'[c] \in {"begin", "list", "load", "reply"} /\ ~ok'[c]
    BY <1>1, Zenon DEF Accept, FirstStep
  <2>2. QED
    BY <2>1
<1>2. CASE BeginRefused(c) \/ BeginCreate(c) \/ BeginFill(c) \/ BeginNotRecorded(c)
  BY <1>2 DEF BeginRefused, BeginCreate, BeginFill, BeginNotRecorded
<1>3. CASE LoadFailed(c)
  BY <1>3 DEF LoadFailed
<1>4. CASE RollbackCheck(c) \/ RollbackWalk(c)
           \/ RollbackRefused(c) \/ Rollback(c) \/ RollbackFailed(c)
  BY <1>4 DEF RollbackCheck, RollbackWalk, RollbackRefused, Rollback, RollbackFailed
<1>5. CASE CommitDestroy(c) \/ CommitFailed(c) \/ CommitRemove(c)
  BY <1>5 DEF CommitDestroy, CommitFailed, CommitRemove
<1>6. CASE ListDir(c) \/ ListFailed(c) \/ ListRead(c) \/ ListDone(c)
  BY <1>6 DEF ListDir, ListFailed, ListRead, ListDone
<1>7. CASE Audit(c) \/ Reply(c)
  BY <1>7 DEF Audit, Reply
<1>8. QED
  BY <1>1, <1>2, <1>3, <1>4, <1>5, <1>6, <1>7 DEF Step

\* The parts of HandlerInv(c) that only concern c itself and the pool.
Own(c) ==
    Ready(c) =>
        /\ req[c].txn \in used
        /\ req[c].zvol \in Names[req[c].vm]
        /\ \A s \in SnapshotsOf(req[c].txn) : s.zvol = req[c].zvol

\* What c, which has yet to write its record, needs of the files ...
Unwritten(c) ==
    pc[c] \in {"create", "fill"} =>
        /\ req[c].op = "begin"
        /\ \A f \in files : f.txn = req[c].txn =>
                f.text = "empty" /\ f.vm = req[c].vm /\ pc[c] = "fill"

\* ... and of the other handlers.
Alone(c, d) ==
    pc[c] \in {"create", "fill"} /\ Ready(d) => req[d].txn # req[c].txn

\* What c, which has its record, needs of the files.
Written(c) ==
    Ready(c) /\ pc[c] \notin {"create", "fill"} /\ ~Committing(c) => Recorded(req[c].txn)

OpOf(c) ==
    /\ pc[c] \in {"check", "walk", "refuse", "rollback"} => req[c].op = "rollback"
    /\ pc[c] \in {"destroy", "remove"} => req[c].op = "commit"

\* The parts make up the invariant of a handler.
LEMMA HandlerParts ==
    ASSUME NEW c \in Conns
    PROVE  HandlerInv(c) <=> /\ Own(c) /\ Unwritten(c) /\ Written(c) /\ OpOf(c)
                             /\ \A d \in Conns \ {c} : Alone(c, d)
BY DEF HandlerInv, Own, Unwritten, Alone, Written, OpOf

\* The assumptions of a step that preserves the invariant.
Before ==
    /\ TypeOK /\ PoolInv /\ FilesInv /\ HandlersInv /\ CommitOnce
    /\ TypeOK' /\ PoolInv' /\ FilesInv' /\ Monotone /\ FilesMonotone

\* Knowing a transaction, a handler that keeps it keeps what it knows of it.
LEMMA OwnKept ==
    ASSUME Before, NEW c \in Conns, Own(c), Ready(c), req'[c] = req[c]
    PROVE  Own(c)'
BY DEF Before, Own, Monotone

\* Recorded once, a transaction a handler knows stays recorded while it keeps it.
LEMMA WrittenKept ==
    ASSUME Before, NEW c \in Conns, Recorded(req[c].txn), Ready(c), req'[c] = req[c]
    PROVE  Recorded(req[c].txn)'
<1>1. req[c].txn \in TxnIds
  BY DEF Before, TypeOK
<1>2. Recorded(req[c].txn)'
  <2> DEFINE t == req[c].txn
  <2>1. t \in TxnIds /\ Recorded(t)
    BY <1>1
  <2>2. t' = t
    OBVIOUS
  <2> HIDE DEF t
  <2>3. \A u \in TxnIds : Recorded(u) => Recorded(u)'
    BY RecordedStays DEF Before
  <2>4. QED
    BY <2>1, <2>2, <2>3 DEF Recorded, t
<1>3. QED
  BY <1>2

\* The handler that moves.
LEMMA MoverStep ==
    ASSUME Before, [Next]_vars, NEW c \in Conns, Accept(c) \/ Step(c)
    PROVE  Own(c)' /\ Unwritten(c)' /\ Written(c)' /\ OpOf(c)'
<1>0. /\ HandlerInv(c) /\ TypeOK /\ PoolInv /\ FilesInv /\ TypeOK' /\ Monotone
      /\ Own(c) /\ Unwritten(c) /\ Written(c) /\ OpOf(c)
  BY HandlerParts DEF Before, HandlersInv
<1>1. CASE BeginSnapshot(c)
  <2>1. PICK t \in TxnIds : TakeSnapshot(req[c].zvol, t) /\ req' = [req EXCEPT ![c].txn = t]
    BY <1>1 DEF BeginSnapshot
  <2>2. /\ t \notin used /\ t \in used' /\ req'[c].txn = t
        /\ req'[c].vm = req[c].vm /\ req'[c].zvol = req[c].zvol /\ req'[c].op = "begin"
        /\ req[c].zvol \in Names[req[c].vm] /\ pc'[c] = "create"
    BY <1>0, <1>1, <2>1 DEF BeginSnapshot, TakeSnapshot, TypeOK, At, Goto, Request
  <2>3. \A s \in snaps' : s.name = t => s.zvol = req[c].zvol
    BY <1>0, <2>1 DEF TakeSnapshot, PoolInv
  <2>4. Own(c)'
    BY <2>2, <2>3 DEF Own, SnapshotsOf
  <2>5. \A f \in files' : f.txn # t
    BY <1>0, <1>1, <2>2 DEF BeginSnapshot, FilesInv, daemon
  <2>6. Unwritten(c)'
    BY <2>2, <2>5 DEF Unwritten
  <2>7. QED
    BY <2>2, <2>4, <2>6 DEF Written, OpOf
<1>2. CASE Load(c)
  <2>1. PICK f \in Records(req[c].vm, req[c].txn) : req' = [req EXCEPT ![c].zvol = f.zvol]
    BY <1>2 DEF Load
  <2>2. f \in files /\ f.vm = req[c].vm /\ f.txn = req[c].txn /\ f.text = "record"
    BY DEF Records, FileOf
  <2>3. /\ req'[c].txn = f.txn /\ req'[c].vm = f.vm /\ req'[c].zvol = f.zvol
        /\ req'[c].op = req[c].op /\ req[c].op \in {"rollback", "commit"}
        /\ pc'[c] = IF req[c].op = "rollback" THEN "check" ELSE "destroy"
        /\ UNCHANGED <<snaps, used, files, fate>>
    BY <1>0, <1>2, <2>1, <2>2 DEF Load, TypeOK, Goto, Request, pool, daemon, history
  <2>4. Own(c)'
    BY <1>0, <2>2, <2>3 DEF Own, FilesInv, SnapshotsOf
  <2>5. Written(c)'
    BY <2>2, <2>3 DEF Written, Recorded
  <2>6. QED
    BY <2>3, <2>4, <2>5 DEF Unwritten, OpOf
<1>3. CASE Ready(c)' /\ Ready(c) /\ req'[c] = req[c]
  <2>1. Own(c)'
    BY <1>0, <1>3, OwnKept
  <2>2. CASE BeginCreate(c)
    <3>1. pc[c] = "create" /\ pc'[c] = "fill" /\ req[c].op = "begin"
      BY <1>0, <2>2 DEF BeginCreate, TypeOK, At, Goto
    <3>2. \A f \in files' : f.txn = req[c].txn => f.text = "empty" /\ f.vm = req[c].vm
      BY <1>0, <2>2, <3>1 DEF BeginCreate, Unwritten
    <3>3. QED
      BY <1>3, <2>1, <3>1, <3>2 DEF Unwritten, Written, OpOf
  <2>3. CASE BeginFill(c)
    <3>1. pc'[c] = "audit"
      BY <1>0, <2>3 DEF BeginFill, TypeOK, Goto
    <3>2. [txn |-> req[c].txn, vm |-> req[c].vm,
           zvol |-> req[c].zvol, text |-> "record"] \in files'
      BY <2>3 DEF BeginFill
    <3>3. QED
      BY <1>3, <2>1, <3>1, <3>2 DEF Unwritten, Written, OpOf, Recorded
  <2>4. CASE /\ pc'[c] \notin {"create", "fill"}
             /\ Committing(c)' \/ (pc[c] \notin {"create", "fill"} /\ ~Committing(c))
             /\ OpOf(c)'
    <3>1. CASE Committing(c)'
      BY <2>1, <2>4, <3>1 DEF Unwritten, Written
    <3>2. CASE pc[c] \notin {"create", "fill"} /\ ~Committing(c)
      <4>1. Recorded(req[c].txn)'
        BY <1>0, <1>3, <3>2, WrittenKept DEF Written
      <4>2. QED
        BY <2>1, <2>4, <4>1 DEF Unwritten, Written
    <3>3. QED
      BY <2>4, <3>1, <3>2
  <2>5. CASE RollbackCheck(c) \/ RollbackWalk(c) \/ Rollback(c)
    <3>1. /\ pc[c] \in {"check", "walk", "rollback"} /\ req[c].op = "rollback"
          /\ pc'[c] \in {"walk", "refuse", "rollback", "audit"}
      BY <1>0, <2>5 DEF RollbackCheck, RollbackWalk, Rollback, TypeOK, At, Goto
    <3>2. QED
      BY <1>3, <2>4, <3>1 DEF OpOf, Committing
  <2>6. CASE CommitDestroy(c) \/ CommitRemove(c)
    <3>1. req[c].op = "commit" /\ pc'[c] \in {"remove", "audit"}
      BY <1>0, <2>6 DEF CommitDestroy, CommitRemove, TypeOK, At, Goto
    <3>2. QED
      BY <1>3, <2>4, <3>1 DEF OpOf, Committing
  <2>7. CASE Audit(c)
    <3>1. pc[c] = "audit" /\ pc'[c] = "reply" /\ ok'[c]
      BY <1>0, <2>7 DEF Audit, TypeOK, Goto
    <3>2. QED
      BY <1>3, <2>4, <3>1 DEF OpOf, Committing
  <2>8. ASSUME ~(BeginCreate(c) \/ BeginFill(c) \/ RollbackCheck(c) \/ RollbackWalk(c)
                 \/ Rollback(c)
                  \/ CommitDestroy(c) \/ CommitRemove(c) \/ Audit(c))
        PROVE  FALSE
    <3> USE DEF TypeOK, Ready, Loaded, Goto, Fail, At
    <3>1. CASE Accept(c)
      <4>1. pc[c] = "idle"
        BY <3>1 DEF Accept
      <4>2. QED
        BY <1>3, <4>1
    <3>2. CASE BeginSnapshot(c) \/ Load(c)
      BY <1>3, <3>2 DEF BeginSnapshot, Load
    <3>3. CASE BeginRefused(c) \/ BeginNotRecorded(c) \/ LoadFailed(c) \/ RollbackRefused(c)
               \/ RollbackFailed(c) \/ CommitFailed(c) \/ ListFailed(c)
      BY <1>0, <1>3, <3>3 DEF BeginRefused, BeginNotRecorded, LoadFailed, RollbackRefused,
         RollbackFailed, CommitFailed, ListFailed
    <3>4. CASE ListDir(c) \/ ListRead(c) \/ ListDone(c) \/ Reply(c)
      BY <1>0, <1>3, <3>4 DEF ListDir, ListRead, ListDone, Reply
    <3>5. QED
      BY <2>8, <3>1, <3>2, <3>3, <3>4 DEF Step
  <2>9. QED
    BY <2>2, <2>3, <2>5, <2>6, <2>7, <2>8
<1>4. CASE ~Ready(c)'
  <2>1. pc'[c] \notin Loaded
    BY <1>4 DEF Ready
  <2>2. QED
    BY <1>4, <2>1 DEF Own, Unwritten, Written, OpOf, Loaded
<1>5. QED
  BY <1>0, <1>1, <1>2, <1>3, <1>4, ReadyFrom

\* A handler that does not move.
LEMMA OtherStep ==
    ASSUME Before, [Next]_vars, NEW d \in Conns, Same(d)
    PROVE  Own(d)' /\ Written(d)' /\ OpOf(d)' /\ (UNCHANGED files => Unwritten(d)')
<1>0. HandlerInv(d) /\ Own(d) /\ Unwritten(d) /\ Written(d) /\ OpOf(d)
  BY HandlerParts DEF Before, HandlersInv
<1>1. (Ready(d)' <=> Ready(d)) /\ (Committing(d)' <=> Committing(d))
  BY DEF Same, Ready, Committing
<1>2. Own(d)'
  BY <1>0, <1>1, OwnKept DEF Own, Same
<1>3. Written(d)'
  BY <1>0, <1>1, WrittenKept DEF Written, Same
<1>4. QED
  BY <1>0, <1>2, <1>3 DEF OpOf, Unwritten, Same

\* What every handler has read or done still holds after the step of any of them.
LEMMA HandlersStep ==
    ASSUME Before, [Next]_vars PROVE HandlersInv'
<1>0. TypeOK /\ HandlersInv /\ PoolInv /\ FilesInv
  BY DEF Before
<1>1. CASE \A c \in Conns : pc'[c] = "idle"
  BY <1>1 DEF HandlersInv, HandlerInv, Ready, Loaded
<1>2. CASE \A c \in Conns : Same(c)
  <2>1. UNCHANGED files
    <3>1. ASSUME NEW c \in Conns, BeginCreate(c) \/ BeginFill(c) \/ CommitRemove(c)
          PROVE  FALSE
      BY <1>0, <1>2, <3>1 DEF Same, BeginCreate, BeginFill, CommitRemove, TypeOK, At, Goto
    <3>2. QED
      BY <3>1, FilesMoves DEF Before
  <2>2. ASSUME NEW c \in Conns, NEW d \in Conns \ {c} PROVE Alone(c, d)'
    <3>1. Alone(c, d) /\ Same(c) /\ Same(d)
      BY <1>0, <1>2, HandlerParts DEF HandlersInv
    <3>2. QED
      BY <3>1 DEF Alone, Same, Ready
  <2>3. ASSUME NEW c \in Conns PROVE HandlerInv(c)'
    <3>1. Own(c)' /\ Unwritten(c)' /\ Written(c)' /\ OpOf(c)'
      BY <1>2, <2>1, OtherStep
    <3>2. QED
      BY <2>2, <3>1, HandlerParts DEF HandlerInv, Own, Unwritten, Alone, Written, OpOf
  <2>4. QED
    BY <2>3 DEF HandlersInv
<1>3. ASSUME NEW c \in Conns, Accept(c) \/ Step(c), \A d \in Conns \ {c} : Same(d)
      PROVE  HandlersInv'
  <2>1. ASSUME NEW d \in Conns, d # c, pc[d] \in {"create", "fill"}, Ready(c)'
        PROVE  req'[c].txn # req[d].txn
    <3>1. HandlerInv(d) /\ Ready(d)
      BY <1>0, <2>1 DEF HandlersInv, Ready, Loaded
    <3>2. CASE BeginSnapshot(c)
      <4>1. PICK t \in TxnIds : TakeSnapshot(req[c].zvol, t) /\ req' = [req EXCEPT ![c].txn = t]
        BY <3>2 DEF BeginSnapshot
      <4>2. t \notin used /\ req'[c].txn = t
        BY <1>0, <4>1 DEF TakeSnapshot, TypeOK, Request
      <4>3. QED
        BY <3>1, <4>2 DEF HandlerInv
    <3>3. CASE Load(c)
      <4>1. PICK f \in files : f.txn = req[c].txn /\ f.text = "record"
        BY <3>3 DEF Load, Records, FileOf
      <4>2. req'[c].txn = req[c].txn
        BY <1>0, <3>3 DEF Load, TypeOK, Request
      <4>3. QED
        BY <2>1, <3>1, <4>1, <4>2 DEF HandlerInv
    <3>4. CASE Ready(c) /\ req'[c] = req[c]
      BY <2>1, <3>1, <3>4 DEF HandlerInv
    <3>5. QED
      BY <1>0, <1>3, <2>1, <3>2, <3>3, <3>4, ReadyFrom
  <2>2. ASSUME NEW b \in Conns, NEW d \in Conns \ {b} PROVE Alone(b, d)'
    <3>0. Alone(b, d)
      BY <1>0, HandlerParts DEF HandlersInv
    <3>1. CASE b # c /\ d # c
      BY <1>3, <3>0, <3>1 DEF Alone, Same, Ready
    <3>2. CASE d = c
      BY <1>3, <2>1, <3>2 DEF Alone, Same
    <3>3. CASE b = c
      <4> SUFFICES ASSUME pc'[c] \in {"create", "fill"}, Ready(d)'
                   PROVE  req'[d].txn # req'[c].txn
        BY <3>3 DEF Alone
      <4>1. Ready(d) /\ req'[d] = req[d]
        BY <1>3, <3>3 DEF Same, Ready
      <4>2. CASE BeginSnapshot(c)
        <5>1. PICK t \in TxnIds : TakeSnapshot(req[c].zvol, t) /\ req' = [req EXCEPT ![c].txn = t]
          BY <4>2 DEF BeginSnapshot
        <5>2. t \notin used /\ req'[c].txn = t
          BY <1>0, <5>1 DEF TakeSnapshot, TypeOK, Request
        <5>3. QED
          BY <1>0, <4>1, <5>2 DEF HandlersInv, HandlerInv
      <4>3. CASE Load(c)
        BY <1>0, <4>3 DEF Load, TypeOK, Goto
      <4>4. CASE Ready(c) /\ req'[c] = req[c] /\ pc[c] \in {"create", "fill"}
        BY <3>0, <3>3, <4>1, <4>4 DEF Alone
      <4>5. CASE ~(pc[c] \in {"create", "fill"}) /\ ~BeginSnapshot(c)
        <5> USE DEF TypeOK, Goto, At, Fail
        <5>1. CASE Accept(c)
          <6>1. pc'[c] \in {"begin", "list", "load", "reply"}
            BY <1>0, <5>1, Zenon DEF Accept, FirstStep
          <6>2. QED
            BY <6>1
        <5>2. CASE BeginRefused(c) \/ BeginCreate(c) \/ BeginFill(c) \/ BeginNotRecorded(c)
                   \/ Load(c) \/ LoadFailed(c)
          BY <1>0, <4>5, <5>2 DEF BeginRefused, BeginCreate, BeginFill, BeginNotRecorded,
             Load, LoadFailed
        <5>3. CASE RollbackCheck(c) \/ RollbackWalk(c)
                   \/ RollbackRefused(c) \/ Rollback(c) \/ RollbackFailed(c)
                   \/ CommitDestroy(c) \/ CommitFailed(c) \/ CommitRemove(c)
          BY <1>0, <5>3 DEF RollbackCheck, RollbackWalk,
          RollbackRefused, Rollback, RollbackFailed,
             CommitDestroy, CommitFailed, CommitRemove
        <5>4. CASE ListDir(c) \/ ListFailed(c) \/ ListRead(c) \/ ListDone(c)
                   \/ Audit(c) \/ Reply(c)
          BY <1>0, <5>4 DEF ListDir, ListFailed, ListRead, ListDone, Audit, Reply
        <5>5. QED
          BY <1>3, <4>5, <5>1, <5>2, <5>3, <5>4 DEF Step
      <4>6. QED
        BY <1>0, <1>3, <4>2, <4>3, <4>4, <4>5, ReadyFrom DEF Ready, Loaded
    <3>4. QED
      BY <3>1, <3>2, <3>3
  <2>3. ASSUME NEW d \in Conns, d # c PROVE Unwritten(d)'
    <3> SUFFICES ASSUME pc[d] \in {"create", "fill"}, Same(d)
                 PROVE  Unwritten(d)'
      BY <1>3, <2>3 DEF Unwritten, Same
    <3>1. Unwritten(d) /\ Alone(d, c)
      BY <1>0, <2>3, HandlerParts DEF HandlersInv
    <3>2. ASSUME NEW f \in files', f \notin files PROVE f.txn # req[d].txn
      <4>1. PICK b \in Conns : BeginCreate(b) \/ BeginFill(b) \/ CommitRemove(b)
        BY <3>2, FilesMoves DEF Before
      <4>2. b = c
        BY <1>0, <1>3, <4>1 DEF BeginCreate, BeginFill, CommitRemove, TypeOK, At, Goto, Same
      <4>3. f.txn = req[c].txn /\ Ready(c)
        BY <3>2, <4>1, <4>2 DEF BeginCreate, BeginFill, CommitRemove, FileOf, At, Ready, Loaded
      <4>4. QED
        BY <3>1, <4>3 DEF Alone
    <3>3. QED
      BY <3>1, <3>2 DEF Unwritten, Same
  <2>4. ASSUME NEW d \in Conns PROVE HandlerInv(d)'
    <3>1. Own(d)' /\ Unwritten(d)' /\ Written(d)' /\ OpOf(d)'
      BY <1>3, <2>3, OtherStep, MoverStep
    <3>2. QED
      BY <2>2, <3>1 DEF HandlerInv, Own, Unwritten, Alone, Written, OpOf
  <2>5. QED
    BY <2>4 DEF HandlersInv
<1>4. QED
  BY <1>0, <1>1, <1>2, <1>3, HandlerMoves
-----------------------------------------------------------------------------
(* The answers.                                                            *)

\* Only a reply adds to what the clients have been told.
LEMMA ToldMoves ==
    [Next]_vars => UNCHANGED told \/ \E c \in Conns : Reply(c)
<1> SUFFICES ASSUME [Next]_vars PROVE UNCHANGED told \/ \E c \in Conns : Reply(c)
  OBVIOUS
<1>1. ASSUME NEW c \in Conns,
             \/ Accept(c) \/ BeginSnapshot(c) \/ BeginRefused(c) \/ BeginCreate(c) \/ BeginFill(c)
             \/ BeginNotRecorded(c) \/ Load(c) \/ LoadFailed(c) \/ RollbackCheck(c) \/ RollbackWalk(c)
             \/ RollbackRefused(c) \/ Rollback(c) \/ RollbackFailed(c) \/ CommitDestroy(c)
             \/ CommitFailed(c) \/ CommitRemove(c)
             \/ ListDir(c) \/ ListFailed(c) \/ ListRead(c) \/ ListDone(c) \/ Audit(c)
      PROVE  UNCHANGED told
  BY <1>1 DEF history, Accept, BeginSnapshot, BeginRefused, BeginCreate, BeginFill,
     BeginNotRecorded, Load, LoadFailed, RollbackCheck, RollbackWalk, RollbackRefused, Rollback,
     RollbackFailed, CommitDestroy, CommitFailed, CommitRemove, ListDir, ListFailed,
     ListRead, ListDone, Audit
<1>2. CASE Environment \/ UNCHANGED vars
  BY <1>2 DEF history, vars, Environment, Crash, GuestWrite, SanoidSnapshot, SanoidPrune,
     PowerSwitch, Attach, Detach
<1>3. QED
  BY <1>1, <1>2 DEF Next, Step

\* What a reply tells: the operation and the transaction of a handler that is
\* about to answer ok.
LEMMA ToldNew ==
    ASSUME TypeOK, [Next]_vars, NEW m \in told', m \notin told
    PROVE  \E c \in Conns : /\ pc[c] = "reply" /\ ok[c] /\ pc'[c] # "reply"
                            /\ req[c].op \in {"begin", "commit"}
                            /\ m.op = req[c].op /\ m.txn = req[c].txn
<1>1. PICK c \in Conns : Reply(c)
  BY ToldMoves
<1>2. /\ pc[c] = "reply" /\ ok[c] /\ req[c].op \in {"begin", "commit"}
      /\ m = [op |-> req[c].op, txn |-> req[c].txn]
  BY <1>1 DEF Reply
<1>3. pc'[c] # "reply"
  BY <1>1, <1>2 DEF Reply, Goto, TypeOK
<1>4. QED
  BY <1>2, <1>3

\* What the clients were told stays true.
LEMMA ToldStep ==
    ASSUME Before, ToldInv, [Next]_vars PROVE ToldInv'
<1>0. TypeOK /\ HandlersInv /\ CommitOnce /\ Monotone
  BY DEF Before
<1> SUFFICES ASSUME NEW t \in TxnIds
             PROVE  /\ [op |-> "begin", txn |-> t] \in told' => t \in used' /\ Recorded(t)'
                    /\ [op |-> "commit", txn |-> t] \in told' => fate'[t] = "committed"
  BY DEF ToldInv, Recorded
<1>1. Recorded(t) => Recorded(t)'
  BY RecordedStays DEF Before
<1>2. ASSUME [op |-> "begin", txn |-> t] \in told' PROVE t \in used /\ Recorded(t)
  <2>1. CASE [op |-> "begin", txn |-> t] \in told
    BY <2>1 DEF ToldInv
  <2>2. CASE [op |-> "begin", txn |-> t] \notin told
    <3>1. PICK c \in Conns : /\ pc[c] = "reply" /\ ok[c] /\ req[c].op = "begin" /\ t = req[c].txn
      BY <1>0, <1>2, <2>2, ToldNew
    <3>2. Ready(c) /\ ~Committing(c)
      BY <3>1 DEF Ready, Committing
    <3>3. QED
      BY <1>0, <3>1, <3>2 DEF HandlersInv, HandlerInv
  <2>3. QED
    BY <2>1, <2>2
<1>3. ASSUME [op |-> "commit", txn |-> t] \in told' PROVE fate[t] = "committed"
  <2>1. CASE [op |-> "commit", txn |-> t] \in told
    BY <2>1 DEF ToldInv
  <2>2. CASE [op |-> "commit", txn |-> t] \notin told
    <3>1. PICK c \in Conns : /\ pc[c] = "reply" /\ ok[c] /\ req[c].op = "commit" /\ t = req[c].txn
      BY <1>0, <1>3, <2>2, ToldNew
    <3>2. QED
      BY <1>0, <3>1 DEF CommitOnce, Committing
  <2>3. QED
    BY <2>1, <2>2
<1>4. QED
  BY <1>0, <1>1, <1>2, <1>3 DEF Monotone

\* A handler that has committed has destroyed the snapshot, in this step or
\* before.
LEMMA CommittingFrom ==
    ASSUME TypeOK, NEW c \in Conns, Accept(c) \/ Step(c), Committing(c)', ~CommitDestroy(c)
    PROVE  Committing(c) /\ req'[c] = req[c]
<1> USE DEF TypeOK, Committing, Goto, Fail, At
<1>1. CASE Accept(c)
  <2>1. pc'[c] \in {"begin", "list", "load", "reply"} /\ ~ok'[c]
    BY <1>1, Zenon DEF Accept, FirstStep
  <2>2. QED
    BY <2>1
<1>2. CASE BeginSnapshot(c) \/ BeginRefused(c) \/ BeginCreate(c) \/ BeginFill(c)
           \/ BeginNotRecorded(c)
  BY <1>2 DEF BeginSnapshot, BeginRefused, BeginCreate, BeginFill, BeginNotRecorded
<1>3. CASE Load(c) \/ LoadFailed(c)
  BY <1>3 DEF Load, LoadFailed
<1>4. CASE RollbackCheck(c) \/ RollbackWalk(c)
           \/ RollbackRefused(c) \/ Rollback(c) \/ RollbackFailed(c)
  BY <1>4 DEF RollbackCheck, RollbackWalk, RollbackRefused, Rollback, RollbackFailed
<1>5. CASE CommitFailed(c) \/ CommitRemove(c)
  BY <1>5 DEF CommitFailed, CommitRemove
<1>6. CASE ListDir(c) \/ ListFailed(c) \/ ListRead(c) \/ ListDone(c)
  BY <1>6 DEF ListDir, ListFailed, ListRead, ListDone
<1>7. CASE Audit(c) \/ Reply(c)
  BY <1>7 DEF Audit, Reply
<1>8. QED
  BY <1>1, <1>2, <1>3, <1>4, <1>5, <1>6, <1>7 DEF Step

\* Of the commits of a transaction only the one that destroys its snapshot goes on.
LEMMA CommitOnceStep ==
    ASSUME Before, ToldInv, [Next]_vars PROVE CommitOnce'
<1>0. TypeOK /\ PoolInv /\ CommitOnce /\ Monotone
  BY DEF Before
<1>1. ASSUME NEW c \in Conns, CommitDestroy(c), \A d \in Conns \ {c} : Same(d)
      PROVE  CommitOnce'
  <2> DEFINE t == req[c].txn
  <2>1. PICK s \in snaps : s.name = t
    BY <1>1 DEF CommitDestroy, SnapshotsOf
  <2>2. /\ t \in TxnIds /\ fate[t] = "none"
    BY <1>0, <1>1, <2>1 DEF CommitDestroy, PoolInv, SnapshotsOf, TypeOK, At, Ready, Loaded
  <2>3. /\ fate'[t] = "committed" /\ UNCHANGED <<told, req, ok>>
        /\ pc' = [pc EXCEPT ![c] = "remove"]
    BY <1>0, <1>1, <2>1, <2>2 DEF CommitDestroy, Drop, SnapshotsOf, Goto
  <2>4. \A d \in Conns : Committing(d) => req[d].txn # t /\ fate[req[d].txn] = "committed"
    BY <1>0, <2>2 DEF CommitOnce
  <2>5. [op |-> "commit", txn |-> t] \notin told
    BY <2>2 DEF ToldInv
  <2>6. \A d \in Conns \ {c} : Committing(d)' <=> Committing(d)
    BY <1>1 DEF Same, Committing
  <2>7. \A d \in Conns : Committing(d) => req[d].txn \in TxnIds
    BY <1>0 DEF Committing, TypeOK, Ready, Loaded
  <2>8. \A d \in Conns : Committing(d) => fate'[req[d].txn] = "committed"
    BY <1>0, <2>4, <2>7 DEF Monotone
  <2>9. ASSUME NEW b \in Conns, Committing(b)'
        PROVE  /\ fate'[req'[b].txn] = "committed"
               /\ [op |-> "commit", txn |-> req'[b].txn] \notin told'
               /\ \A d \in Conns \ {b} : ~(Committing(d)' /\ req'[d].txn = req'[b].txn)
    <3>1. CASE b = c
      BY <2>3, <2>4, <2>5, <2>6, <3>1
    <3>2. CASE b # c
      <4>1. Committing(b)
        BY <2>6, <2>9, <3>2
      <4>2. /\ [op |-> "commit", txn |-> req[b].txn] \notin told
            /\ \A d \in Conns \ {b} : ~(Committing(d) /\ req[d].txn = req[b].txn)
        BY <1>0, <4>1 DEF CommitOnce
      <4>3. QED
        BY <2>3, <2>4, <2>6, <2>8, <4>1, <4>2
    <3>3. QED
      BY <3>1, <3>2
  <2>10. QED
    BY <2>9 DEF CommitOnce
<1>2. ASSUME \A c \in Conns : Committing(c)' => Committing(c) /\ req'[c] = req[c]
      PROVE  CommitOnce'
  <2>1. ASSUME NEW c \in Conns, Committing(c)'
        PROVE  /\ fate'[req'[c].txn] = "committed"
               /\ [op |-> "commit", txn |-> req'[c].txn] \notin told'
               /\ \A d \in Conns \ {c} : ~(Committing(d)' /\ req'[d].txn = req'[c].txn)
    <3>1. /\ Committing(c) /\ req'[c] = req[c]
          /\ fate[req[c].txn] = "committed"
          /\ [op |-> "commit", txn |-> req[c].txn] \notin told
          /\ \A d \in Conns \ {c} : ~(Committing(d) /\ req[d].txn = req[c].txn)
      BY <1>0, <1>2, <2>1 DEF CommitOnce
    <3>2. req[c].txn \in TxnIds
      BY <1>0, <3>1 DEF Committing, TypeOK, Ready, Loaded
    <3>3. fate'[req'[c].txn] = "committed"
      BY <1>0, <3>1, <3>2 DEF Monotone
    <3>4. [op |-> "commit", txn |-> req[c].txn] \notin told'
      <4> SUFFICES ASSUME [op |-> "commit", txn |-> req[c].txn] \in told' PROVE FALSE
        OBVIOUS
      <4>1. PICK d \in Conns : /\ pc[d] = "reply" /\ ok[d] /\ pc'[d] # "reply"
                               /\ req[d].op = "commit" /\ req[c].txn = req[d].txn
        BY <1>0, <3>1, ToldNew
      <4>2. Committing(d) /\ ~Committing(d)'
        <5>1. CASE Committing(d)'
          <6>1. pc'[d] \in {"remove", "audit"}
            BY <4>1, <5>1 DEF Committing
          <6>2. PICK e \in Conns : Reply(e)
            BY <3>1, ToldMoves
          <6>3. e = d
            BY <1>0, <4>1, <6>2 DEF Reply, Goto, TypeOK
          <6>4. QED
            BY <1>0, <6>1, <6>2, <6>3 DEF Reply, Goto, TypeOK
        <5>2. QED
          BY <4>1, <5>1 DEF Committing
      <4>3. d # c
        BY <2>1, <4>2
      <4>4. QED
        BY <3>1, <4>1, <4>2, <4>3
    <3>5. QED
      BY <1>2, <3>1, <3>3, <3>4
  <2>2. QED
    BY <2>1 DEF CommitOnce
<1>3. CASE \A c \in Conns : pc'[c] = "idle"
  BY <1>3 DEF CommitOnce, Committing
<1>4. CASE \A c \in Conns : Same(c)
  BY <1>2, <1>4 DEF Same, Committing
<1>5. ASSUME NEW c \in Conns, Accept(c) \/ Step(c), \A d \in Conns \ {c} : Same(d),
             ~CommitDestroy(c)
      PROVE  CommitOnce'
  <2>1. ASSUME NEW d \in Conns, Committing(d)' PROVE Committing(d) /\ req'[d] = req[d]
    BY <1>0, <1>5, <2>1, CommittingFrom DEF Same, Committing
  <2>2. QED
    BY <1>2, <2>1
<1>6. QED
  BY <1>0, <1>1, <1>3, <1>4, <1>5, HandlerMoves

\* The invariant is inductive.
LEMMA Inductive == IInv /\ [Next]_vars => IInv'
<1> SUFFICES ASSUME IInv, [Next]_vars PROVE IInv'
  OBVIOUS
<1>1. TypeOK /\ PoolInv /\ FilesInv /\ HandlersInv /\ ToldInv /\ CommitOnce
  BY DEF IInv
<1>2. TypeOK' /\ PoolInv' /\ Monotone
  BY <1>1, TypeStep, PoolStep, PoolMonotone
<1>3. FilesInv' /\ FilesMonotone
  BY <1>1, FilesStep
<1>4. Before
  BY <1>1, <1>2, <1>3 DEF Before
<1>5. HandlersInv' /\ ToldInv' /\ CommitOnce'
  BY <1>1, <1>4, HandlersStep, ToldStep, CommitOnceStep
<1>6. QED
  BY <1>2, <1>3, <1>5 DEF IInv

\* Initially there is nothing.
LEMMA InitIInv == Init => IInv
<1> SUFFICES ASSUME Init PROVE IInv
  OBVIOUS
<1>1. TypeOK
  BY ConstantsAssumption DEF Init, TypeOK, NoRequest, Call, Request, Steps, Fates, Ops,
     At, Ready, Loaded
<1>2. PoolInv /\ FilesInv
  BY DEF Init, PoolInv, FilesInv, SnapshotsOf
<1>3. HandlersInv /\ CommitOnce
  BY DEF Init, HandlersInv, HandlerInv, CommitOnce, Committing, Ready, Loaded
<1>4. ToldInv
  BY DEF Init, ToldInv
<1>5. QED
  BY <1>1, <1>2, <1>3, <1>4 DEF IInv

\* The strengthening that carries the safety properties: what is on disk, what
\* the handlers know and what the clients have been told fit together.
THEOREM Invariance == Spec => []IInv
BY InitIInv, Inductive, PTL DEF Spec

\* A transaction whose begin was answered ok, and that is not over, has its
\* snapshot and a complete record, whatever runs, fails or crashes meanwhile.
THEOREM AckedIsSafe == Spec => []AckedIsDurable
<1>1. IInv => AckedIsDurable
  BY DEF IInv, AckedIsDurable, ToldInv, PoolInv, Recorded
<1>2. QED
  BY <1>1, Invariance, PTL

\* One commit of a transaction at most succeeds, however they race.
THEOREM CommitsOnce == Spec => []CommitOnce
<1>1. IInv => CommitOnce
  BY DEF IInv
<1>2. QED
  BY <1>1, Invariance, PTL
-----------------------------------------------------------------------------
(* What a step may do to the pool.                                         *)

\* The zvols and snapshots outside the scope of v stay as they are.
Outside(v) ==
    \A z \in Zvols : z \notin Names[v] =>
        /\ live'[z] = live[z]
        /\ {s \in snaps' : s.zvol = z} = {s \in snaps : s.zvol = z}

\* A handler that moves leaves the zvols and the snapshots outside its scope alone.
LEMMA ScopeStep ==
    ASSUME IInv, [Next]_vars, NEW c \in Conns, pc[c] # "idle", pc'[c] # pc[c]
    PROVE  Outside(req[c].vm)
<1>0. TypeOK /\ HandlerInv(c)
  BY DEF IInv, HandlersInv
<1>1. CASE UNCHANGED pool
  BY <1>1 DEF Outside, pool
<1>2. CASE BeginSnapshot(c)
  BY <1>0, <1>2 DEF BeginSnapshot, TakeSnapshot, Outside, TypeOK, At
<1>3. ASSUME NEW s \in SnapshotsOf(req[c].txn), At(c, "rollback", "rollback"),
             NEW S \in SUBSET Newer(s), snaps' = snaps \ S,
             \/ live' = [live EXCEPT ![s.zvol] = s.data] \/ UNCHANGED live
      PROVE  Outside(req[c].vm)
  <2>1. s.zvol \in Names[req[c].vm]
    BY <1>0, <1>3 DEF HandlerInv, At, Ready, Loaded
  <2>2. \A r \in S : r.zvol = s.zvol
    BY DEF Newer
  <2>3. QED
    BY <1>0, <1>3, <2>1, <2>2 DEF Outside, TypeOK
<1>4. CASE Rollback(c)
  BY <1>3, <1>4 DEF Rollback, RollBackTo, Drop
<1>5. CASE RollbackFailed(c)
  BY <1>1, <1>3, <1>5 DEF RollbackFailed, Drop
<1>6. CASE CommitDestroy(c)
  <2>1. req[c].zvol \in Names[req[c].vm]
    BY <1>0, <1>6 DEF CommitDestroy, HandlerInv, At, Ready, Loaded
  <2>2. \A s \in SnapshotsOf(req[c].txn) : s.zvol = req[c].zvol
    BY <1>0, <1>6 DEF CommitDestroy, HandlerInv, At, Ready, Loaded
  <2>3. QED
    BY <1>6, <2>1, <2>2 DEF CommitDestroy, Drop, Outside
<1>7. ASSUME \/ Accept(c) \/ BeginRefused(c) \/ BeginCreate(c) \/ BeginFill(c) \/ BeginNotRecorded(c)
             \/ Load(c) \/ LoadFailed(c) \/ RollbackCheck(c) \/ RollbackWalk(c)
             \/ RollbackRefused(c)
             \/ CommitFailed(c) \/ CommitRemove(c)
             \/ ListDir(c) \/ ListFailed(c) \/ ListRead(c) \/ ListDone(c) \/ Audit(c) \/ Reply(c)
             \/ Crash
      PROVE  UNCHANGED pool
  BY <1>7 DEF Accept, BeginRefused, BeginCreate, BeginFill, BeginNotRecorded, Load, LoadFailed,
     RollbackCheck, RollbackWalk,
     RollbackRefused, CommitFailed, CommitRemove, ListDir, ListFailed, ListRead,
     ListDone, Audit, Reply, Crash
<1>8. CASE Crash
  BY <1>1, <1>7, <1>8
<1>9. CASE Accept(c) \/ Step(c)
  BY <1>1, <1>2, <1>4, <1>5, <1>6, <1>7, <1>9 DEF Step
<1>10. ASSUME ~Crash, ~(Accept(c) \/ Step(c)) PROVE FALSE
  <2>1. CASE \/ \E z \in Zvols : GuestWrite(z) \/ \E n \in AutoSnaps : SanoidSnapshot(z, n)
             \/ \E s \in snaps : SanoidPrune(s)
             \/ \E v \in Vms : PowerSwitch(v) \/ \E z \in Zvols : Attach(v, z) \/ Detach(v, z)
             \/ UNCHANGED vars
    BY <2>1 DEF GuestWrite, SanoidSnapshot, SanoidPrune, PowerSwitch, Attach, Detach, handlers,
       vars
  <2>2. ASSUME NEW d \in Conns, Accept(d) \/ Step(d) PROVE FALSE
    BY <1>0, <1>10, <2>2, OneMoves DEF Same
  <2>3. QED
    BY <1>10, <2>1, <2>2 DEF Next, Environment
<1>11. QED
  BY <1>8, <1>9, <1>10

\* A handler changes no zvol and no snapshot outside the scope of its caller.
THEOREM ScopeIsKept == Spec => ScopeKept
<1>1. IInv /\ [Next]_vars =>
        [\A c \in Conns : pc[c] # "idle" /\ pc'[c] # pc[c] =>
          \A z \in Zvols : z \notin Names[req[c].vm] =>
              /\ live'[z] = live[z]
              /\ {s \in snaps' : s.zvol = z} = {s \in snaps : s.zvol = z}]_vars
  BY ScopeStep DEF Outside
<1>2. QED
  BY <1>1, Invariance, PTL DEF Spec, ScopeKept

\* A transaction's snapshot that goes is committed, or newer than one rolled back to.
LEMMA LostStep ==
    ASSUME IInv, [Next]_vars, NEW s \in snaps \ snaps', s.name \in TxnIds
    PROVE  \/ \E c \in Conns : At(c, "commit", "destroy") /\ pc'[c] = "remove"
                               /\ req[c].txn = s.name
           \/ \E o \in snaps \cap snaps' :
                 /\ o.zvol = s.zvol /\ o.txg < s.txg
                 /\ \E f \in files : f.txn = o.name /\ f.text = "record"
<1>0. TypeOK /\ PoolInv /\ HandlersInv
  BY DEF IInv
<1>1. ASSUME NEW c \in Conns, At(c, "rollback", "rollback"),
             NEW o \in SnapshotsOf(req[c].txn), NEW S \in SUBSET Newer(o), snaps' = snaps \ S
      PROVE  \E p \in snaps \cap snaps' :
                 /\ p.zvol = s.zvol /\ p.txg < s.txg
                 /\ \E f \in files : f.txn = p.name /\ f.text = "record"
  <2>1. s \in Newer(o) /\ o \in snaps /\ o.name = req[c].txn
    BY <1>1 DEF SnapshotsOf
  <2>2. o.txg \in Nat /\ s.txg \in Nat
    BY <1>0, <2>1 DEF TypeOK, Snapshot
  <2>3. o.zvol = s.zvol /\ o.txg < s.txg /\ o \in snaps'
    BY <1>1, <2>1, <2>2 DEF Newer
  <2>4. Ready(c) /\ ~Committing(c) /\ pc[c] \notin {"create", "fill"}
    BY <1>1 DEF At, Ready, Loaded, Committing
  <2>5. Recorded(req[c].txn) /\ req[c].txn \in TxnIds
    BY <1>0, <2>4 DEF HandlersInv, HandlerInv, TypeOK
  <2>6. fate[req[c].txn] = "none"
    BY <1>0, <2>1, <2>5 DEF PoolInv, SnapshotsOf
  <2>7. QED
    BY <2>1, <2>3, <2>5, <2>6 DEF Recorded
<1>2. ASSUME NEW c \in Conns, Rollback(c) \/ RollbackFailed(c)
      PROVE  \E p \in snaps \cap snaps' :
                 /\ p.zvol = s.zvol /\ p.txg < s.txg
                 /\ \E f \in files : f.txn = p.name /\ f.text = "record"
  <2>1. PICK o \in SnapshotsOf(req[c].txn) : \E S \in SUBSET Newer(o) : snaps' = snaps \ S
    <3>1. CASE Rollback(c)
      BY <3>1 DEF Rollback, RollBackTo, Drop
    <3>2. CASE RollbackFailed(c)
      BY <3>2 DEF RollbackFailed, Drop, pool
    <3>3. QED
      BY <1>2, <3>1, <3>2
  <2>2. QED
    BY <1>1, <1>2, <2>1 DEF Rollback, RollbackFailed
<1>3. ASSUME NEW c \in Conns, CommitDestroy(c)
      PROVE  At(c, "commit", "destroy") /\ pc'[c] = "remove" /\ req[c].txn = s.name
  BY <1>0, <1>3 DEF CommitDestroy, Drop, SnapshotsOf, Goto, TypeOK
<1>4. ASSUME NEW r \in snaps, SanoidPrune(r) PROVE FALSE
  BY <1>4, ConstantsAssumption DEF SanoidPrune
<1>5. ASSUME NEW c \in Conns, BeginSnapshot(c) PROVE FALSE
  BY <1>5 DEF BeginSnapshot, TakeSnapshot
<1>6. ASSUME NEW z \in Zvols, NEW n \in AutoSnaps, SanoidSnapshot(z, n) PROVE FALSE
  BY <1>6 DEF SanoidSnapshot, TakeSnapshot
<1>7. ASSUME NEW c \in Conns,
             \/ Accept(c) \/ BeginRefused(c) \/ BeginCreate(c) \/ BeginFill(c) \/ BeginNotRecorded(c)
             \/ Load(c) \/ LoadFailed(c) \/ RollbackCheck(c) \/ RollbackWalk(c)
             \/ RollbackRefused(c)
             \/ CommitFailed(c) \/ CommitRemove(c)
             \/ ListDir(c) \/ ListFailed(c) \/ ListRead(c) \/ ListDone(c) \/ Audit(c) \/ Reply(c)
      PROVE  FALSE
  BY <1>7 DEF pool, Accept, BeginRefused, BeginCreate, BeginFill, BeginNotRecorded, Load,
     LoadFailed, RollbackCheck, RollbackWalk,
     RollbackRefused, CommitFailed, CommitRemove, ListDir, ListFailed,
     ListRead, ListDone, Audit, Reply
<1>8. ASSUME \/ Crash \/ \E z \in Zvols : GuestWrite(z)
             \/ \E v \in Vms : PowerSwitch(v) \/ \E z \in Zvols : Attach(v, z) \/ Detach(v, z)
             \/ UNCHANGED vars
      PROVE  FALSE
  BY <1>8 DEF pool, vars, Crash, GuestWrite, PowerSwitch, Attach, Detach
<1>9. QED
  BY <1>2, <1>3, <1>4, <1>5, <1>6, <1>7, <1>8 DEF Next, Step, Environment

\* The snapshot of a transaction goes away only by its commit, or by the
\* rollback of an older transaction that is on record and stays open.
THEOREM LostToOlder == Spec => LostOnlyToOlder
<1>1. IInv /\ [Next]_vars =>
        [\A s \in snaps \ snaps' : s.name \in TxnIds =>
          \/ \E c \in Conns : At(c, "commit", "destroy") /\ pc'[c] = "remove"
                              /\ req[c].txn = s.name
          \/ \E o \in snaps \cap snaps' :
                /\ o.zvol = s.zvol /\ o.txg < s.txg
                /\ \E f \in files : f.txn = o.name /\ f.text = "record"]_vars
  BY LostStep
<1>2. QED
  BY <1>1, Invariance, PTL DEF Spec, LostOnlyToOlder
-----------------------------------------------------------------------------
(* The daemon implements the transaction store (module TxnStore): a         *)
(* snapshot named after a transaction is that transaction open, and every  *)
(* step of a handler, of its environment, and every crash is one operation *)
(* of the store or none.                                                   *)

\* The refinement mapping.
Open == {s \in snaps : s.name \in TxnIds}

\* The daemon starts as an empty store.
LEMMA InitMaps == Init => Store!Init
BY DEF Init, Store!Init

\* Destroying snapshots ends the transactions that have their names.
LEMMA DropEnds ==
    ASSUME TypeOK, NEW S \in SUBSET snaps, NEW why, Drop(S, why)
    PROVE  /\ Store!End({s \in S : s.name \in TxnIds}, why)
BY DEF Drop, Store!End, TypeOK

\* A snapshot under a new transaction's name is the begin of that transaction.
LEMMA BeginMaps ==
    ASSUME TypeOK, PoolInv, NEW z \in Zvols, NEW t \in TxnIds, TakeSnapshot(z, t), UNCHANGED fate
    PROVE  Store!Begin(t, z)
<1> DEFINE new == [name |-> t, zvol |-> z, txg |-> txg + 1, data |-> live[z]]
<1>1. snaps' = snaps \cup {new} /\ UNCHANGED live /\ t \notin used
  BY DEF TakeSnapshot
<1>2. new.name = t /\ new.zvol = z /\ new.txg = txg + 1 /\ new.data = live[z]
  OBVIOUS
<1> HIDE DEF new
<1>3. fate[t] = "none" /\ \A s \in snaps : s.name # t
  BY <1>1 DEF PoolInv
<1>4. \A s \in snaps : s.txg < new.txg
  BY <1>2 DEF PoolInv, TypeOK, Snapshot
<1>5. Open' = Open \cup {new}
  BY <1>1, <1>2 DEF Open
<1>6. new \in Open'
  BY <1>5
<1>7. QED
  BY <1>1, <1>2, <1>3, <1>4, <1>5, <1>6 DEF Store!Begin, Open

\* What leaves the contents and the snapshots alone is no operation of the store.
LEMMA StoreStays ==
    ASSUME UNCHANGED <<live, snaps, fate>> PROVE UNCHANGED Store!vars
BY DEF Store!vars

\* Every step of the daemon is one operation of the store, or none.
LEMMA StepMaps == IInv /\ [Next]_vars => [Store!Next]_(Store!vars)
<1> SUFFICES ASSUME IInv, [Next]_vars PROVE Store!Next \/ UNCHANGED Store!vars
  OBVIOUS
<1>0. TypeOK /\ PoolInv
  BY DEF IInv
<1>1. ASSUME NEW c \in Conns, BeginSnapshot(c) PROVE Store!Next
  <2>1. PICK z \in Zvols : z = req[c].zvol
    BY <1>0, <1>1 DEF BeginSnapshot, TypeOK
  <2>2. PICK t \in TxnIds : TakeSnapshot(z, t)
    BY <1>1, <2>1 DEF BeginSnapshot
  <2>3. Store!Begin(t, z)
    BY <1>0, <1>1, <2>2, BeginMaps DEF BeginSnapshot
  <2>4. QED
    BY <2>3 DEF Store!Next
<1>2. ASSUME NEW c \in Conns, NEW s \in SnapshotsOf(req[c].txn), At(c, "rollback", "rollback")
      PROVE  /\ s \in Open
             /\ {r \in Newer(s) : r.name \in TxnIds} = Store!Later(s)
  BY <1>0, <1>2 DEF SnapshotsOf, Newer, Open, Store!Later, TypeOK, At, Ready, Loaded
<1>3. ASSUME NEW c \in Conns, Rollback(c) PROVE Store!Next
  <2>1. PICK s \in SnapshotsOf(req[c].txn) : RollBackTo(s)
    BY <1>3 DEF Rollback
  <2>2. s \in Open /\ {r \in Newer(s) : r.name \in TxnIds} = Store!Later(s)
    BY <1>2, <1>3 DEF Rollback
  <2>3. Store!End({r \in Newer(s) : r.name \in TxnIds}, "superseded")
    BY <1>0, <2>1, DropEnds DEF RollBackTo, Newer
  <2>4. Store!Rollback(s)
    BY <2>1, <2>2, <2>3 DEF RollBackTo, Store!Rollback
  <2>5. QED
    BY <2>2, <2>4 DEF Store!Next, Open
<1>4. ASSUME NEW c \in Conns, RollbackFailed(c) PROVE Store!Next \/ UNCHANGED Store!vars
  <2>1. CASE UNCHANGED <<pool, fate>>
    BY <2>1, StoreStays DEF pool
  <2>2. ASSUME NEW s \in SnapshotsOf(req[c].txn), NEW S \in SUBSET Newer(s),
               Drop(S, "superseded"), UNCHANGED live
        PROVE  Store!Next
    <3>1. s \in Open /\ {r \in Newer(s) : r.name \in TxnIds} = Store!Later(s)
      BY <1>2, <1>4 DEF RollbackFailed
    <3> DEFINE T == {r \in S : r.name \in TxnIds}
    <3>2. Store!End(T, "superseded")
      BY <1>0, <2>2, DropEnds DEF Newer
    <3>3. T \in SUBSET Store!Later(s)
      BY <3>1
    <3> HIDE DEF T
    <3>4. Store!RollbackFailed(s)
      BY <2>2, <3>2, <3>3 DEF Store!RollbackFailed
    <3>5. QED
      BY <3>1, <3>4 DEF Store!Next, Open
  <2>3. QED
    BY <1>4, <2>1, <2>2 DEF RollbackFailed
<1>5. ASSUME NEW c \in Conns, CommitDestroy(c) PROVE Store!Next
  <2> DEFINE t == req[c].txn
  <2>1. PICK s \in snaps : s.name = t
    BY <1>5 DEF CommitDestroy, SnapshotsOf
  <2>2. SnapshotsOf(t) = {s} /\ t \in TxnIds
    BY <1>0, <1>5, <2>1 DEF CommitDestroy, SnapshotsOf, PoolInv, TypeOK, At, Ready, Loaded
  <2>3. {r \in SnapshotsOf(t) : r.name \in TxnIds} = {s}
    BY <2>1, <2>2
  <2>4. Drop(SnapshotsOf(t), "committed") /\ SnapshotsOf(t) \subseteq snaps
    BY <1>5 DEF CommitDestroy, SnapshotsOf
  <2>5. Store!End({s}, "committed")
    BY <1>0, <2>3, <2>4, DropEnds
  <2>6. Store!Commit(s)
    BY <1>5, <2>5 DEF CommitDestroy, Store!Commit
  <2>7. QED
    BY <2>1, <2>2, <2>6 DEF Store!Next, Open
<1>6. ASSUME NEW z \in Zvols, GuestWrite(z) PROVE Store!Next
  <2>1. Store!Write(z)
    BY <1>6 DEF GuestWrite, Store!Write, history
  <2>2. QED
    BY <2>1 DEF Store!Next
<1>7. ASSUME NEW z \in Zvols, NEW n \in AutoSnaps, SanoidSnapshot(z, n)
      PROVE  UNCHANGED Store!vars
  BY <1>7, ConstantsAssumption DEF SanoidSnapshot, TakeSnapshot, history, Store!vars
<1>8. ASSUME NEW s \in snaps, SanoidPrune(s) PROVE UNCHANGED Store!vars
  BY <1>8, ConstantsAssumption DEF SanoidPrune, history, Store!vars
<1>9. ASSUME NEW c \in Conns,
             \/ Accept(c) \/ BeginRefused(c) \/ BeginCreate(c) \/ BeginFill(c) \/ BeginNotRecorded(c)
             \/ Load(c) \/ LoadFailed(c) \/ RollbackCheck(c) \/ RollbackWalk(c)
             \/ RollbackRefused(c)
             \/ CommitFailed(c) \/ CommitRemove(c)
             \/ ListDir(c) \/ ListFailed(c) \/ ListRead(c) \/ ListDone(c) \/ Audit(c) \/ Reply(c)
      PROVE  UNCHANGED Store!vars
  BY <1>9, StoreStays DEF pool, history, Accept, BeginRefused, BeginCreate, BeginFill,
     BeginNotRecorded, Load, LoadFailed, RollbackCheck, RollbackWalk,
     RollbackRefused, CommitFailed,
     CommitRemove, ListDir, ListFailed, ListRead, ListDone, Audit, Reply
<1>10. CASE \/ Crash
            \/ \E v \in Vms : PowerSwitch(v) \/ \E z \in Zvols : Attach(v, z) \/ Detach(v, z)
            \/ UNCHANGED vars
  BY <1>10, StoreStays DEF pool, history, vars, Crash, PowerSwitch, Attach, Detach
<1>11. QED
  BY <1>1, <1>3, <1>4, <1>5, <1>6, <1>7, <1>8, <1>9, <1>10 DEF Next, Step, Environment

\* The daemon, with its files, its handlers and its crashes, is a transaction
\* store: what a client can lose is what the store says can be lost.
THEOREM Implements == Spec => StoreSpec
<1>1. Init => Store!Init
  BY InitMaps
<1>2. QED
  BY <1>1, StepMaps, Invariance, PTL DEF Spec, StoreSpec, Store!Spec
=============================================================================
