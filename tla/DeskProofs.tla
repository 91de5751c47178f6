------------------------------ MODULE DeskProofs ------------------------------
(***************************************************************************)
(* Proofs about what the windows and command lines of one user share: the  *)
(* lists in their files, the schedule of Auto Sync, the keys of servers,   *)
(* the store of the containers, the explorer of snapshots and the window   *)
(* on the datasets; the pool builder has module BuilderProofs.  Each part  *)
(* has its own state, so that each has its own specification and its own   *)
(* inductive invariant, for any number of sessions, tabs, dialogs, jobs,   *)
(* units, key files, layers and datasets.                                  *)
(***************************************************************************)
EXTENDS ConfigFiles, SyncJobs, ServerKeys, ContainerStore, GuiExplorer, GuiBrowser,
        BuilderProofs

-----------------------------------------------------------------------------
(* The lists in their files.                                               *)

FilesTyped ==
    /\ file \in 0 .. MaxNode /\ tmp \in 0 .. MaxNode /\ nodes \in 0 .. MaxNode
    /\ file <= nodes /\ tmp <= nodes
    /\ cut \subseteq 1 .. MaxNode
    /\ saving \in [Sessions -> {"no", "read", "open", "written"}]
    /\ fd \in [Sessions -> 0 .. MaxNode]
    /\ shared \in BOOLEAN

\* The sessions that have the file open that they write.
Writes(s) == saving[s] \in {"open", "written"}

\* While they come one by one, the one under way has the temporary file to
\* itself, which is not the list's, and has written all of it before the rename.
FilesInv ==
    /\ FilesTyped
    /\ Atomic /\ ~shared =>
        /\ file \notin cut
        /\ file # 0 => file # tmp
        /\ \A s, t \in Sessions : Writes(s) /\ Writes(t) => s = t
        /\ \A s \in Sessions : Writes(s) => fd[s] = tmp /\ tmp # 0
        /\ \A s \in Sessions : saving[s] = "written" => tmp \notin cut

\* The end of a save, with nothing published or the temporary file renamed.
LEMMA FinishKeeps ==
    ASSUME FilesInv, NEW s \in Sessions, NEW f, NEW shown,
           Finished(s, f, shown),
           \/ UNCHANGED <<file, tmp>>
           \/ saving[s] = "written" /\ Atomic /\ tmp # 0 /\ file' = tmp /\ tmp' = 0
    PROVE  FilesInv'
<1> USE DEF FilesInv, FilesTyped, Atomic, Writes
<1>1. /\ saving' = [saving EXCEPT ![s] = "no"] /\ fd' = [fd EXCEPT ![s] = 0]
      /\ UNCHANGED <<kind, cut, nodes, shared>>
  BY DEF Finished
<1>2. FilesTyped'
  BY <1>1, ConfigAssumption
<1>3. CASE Atomic /\ ~shared
  <2>1. \A t \in Sessions : Writes(t)' => t # s /\ Writes(t) /\ fd'[t] = fd[t]
    BY <1>1
  <2>2. CASE UNCHANGED <<file, tmp>>
    BY <1>1, <1>2, <1>3, <2>1, <2>2
  <2>3. CASE saving[s] = "written" /\ tmp # 0 /\ file' = tmp /\ tmp' = 0
    <3>1. \A t \in Sessions : ~Writes(t)'
      BY <1>3, <2>1, <2>3
    <3> QED
      BY <1>1, <1>2, <1>3, <2>3, <3>1
  <2> QED
    BY <2>2, <2>3
<1> QED
  BY <1>1, <1>2, <1>3

\* A save that is alone cuts the temporary file, not the list's.
LEMMA OpenKeeps == ASSUME FilesInv, NEW s \in Sessions, Open(s) PROVE FilesInv'
<1> USE DEF FilesInv, FilesTyped, Writes
<1> DEFINE target == IF Atomic THEN tmp ELSE file
           node == IF target = 0 THEN nodes + 1 ELSE target
<1>1. /\ node <= MaxNode /\ saving' = [saving EXCEPT ![s] = "open"]
      /\ fd' = [fd EXCEPT ![s] = node] /\ cut' = cut \cup {node}
      /\ nodes' = IF target = 0 THEN nodes + 1 ELSE nodes
      /\ IF Atomic THEN tmp' = node /\ UNCHANGED file ELSE file' = node /\ UNCHANGED tmp
      /\ shared' = (shared \/ \E t \in Sessions : saving[t] \in {"open", "written"})
      /\ kind' = kind
  BY DEF Open
<1>2. node \in 1 .. MaxNode /\ node <= nodes' /\ nodes <= nodes' /\ nodes' \in 0 .. MaxNode
  BY <1>1, ConfigAssumption
<1>3. FilesTyped'
  BY <1>1, <1>2
<1>4. CASE Atomic /\ ~shared'
  <2>1. /\ tmp' = node /\ file' = file
        /\ \A t \in Sessions : saving'[t] \in {"open", "written"} => t = s
        /\ saving'[s] = "open" /\ fd'[s] = node
    BY <1>1, <1>4
  <2>2. file \notin cut' /\ file # node
    BY <1>1, <1>2, <1>4
  <2>3. \A t \in Sessions : Writes(t)' => fd'[t] = tmp' /\ saving'[t] # "written"
    BY <2>1
  <2>4. \A t, o \in Sessions : Writes(t)' /\ Writes(o)' => t = o
    BY <2>1
  <2>5. tmp' # 0
    BY <1>2, <2>1
  <2> HIDE DEF node, target
  <2> QED
    BY <1>3, <2>1, <2>2, <2>3, <2>4, <2>5
<1>5. CASE ~(Atomic /\ ~shared')
  <2>1. ~(Atomic' /\ ~shared')
    BY <1>1, <1>5 DEF Atomic
  <2> QED
    BY <1>3, <2>1
<1> QED
  BY <1>4, <1>5

\* Every inode a name points at has been made, and a save that is alone keeps to
\* the temporary file.
THEOREM FilesInvariance == ConfigSpec => []FilesInv
<1>1. ConfigInit => FilesInv
  <2> SUFFICES ASSUME ConfigInit PROVE FilesInv
    OBVIOUS
  <2>1. /\ cut = {} /\ file = 0 /\ tmp = 0 /\ nodes = 0 /\ shared = FALSE
        /\ saving = [s \in Sessions |-> "no"] /\ fd = [s \in Sessions |-> 0]
    BY DEF ConfigInit
  <2>2. 0 \in 0 .. MaxNode
    BY ConfigAssumption
  <2>3. FilesTyped
    <3>1. file \in 0 .. MaxNode /\ tmp \in 0 .. MaxNode /\ nodes \in 0 .. MaxNode
      BY <2>1, <2>2
    <3>2. file <= nodes /\ tmp <= nodes /\ cut \subseteq 1 .. MaxNode
      BY <2>1
    <3>3. saving \in [Sessions -> {"no", "read", "open", "written"}] /\ shared \in BOOLEAN
      BY <2>1
    <3>4. fd \in [Sessions -> 0 .. MaxNode]
      BY <2>1, <2>2
    <3> QED
      BY <3>1, <3>2, <3>3, <3>4 DEF FilesTyped
  <2>4. \A s \in Sessions : saving[s] = "no"
    BY <2>1
  <2> QED
    BY <2>1, <2>3, <2>4 DEF FilesInv, Writes
<1>2. FilesInv /\ [ConfigNext]_configVars => FilesInv'
  <2> SUFFICES ASSUME FilesInv, [ConfigNext]_configVars PROVE FilesInv'
    OBVIOUS
  <2>1. CASE UNCHANGED <<kind, cut, file, tmp, nodes, saving, fd, shared>>
    BY <2>1 DEF FilesInv, FilesTyped, Atomic, Writes
  <2>2. ASSUME NEW s \in Sessions, OpenList(s) PROVE FilesInv'
    BY <2>1, <2>2 DEF OpenList
  <2>3. ASSUME NEW s \in Sessions, Change(s) \/ Drop(s) PROVE FilesInv'
    <3>1. /\ saving[s] = "no" /\ saving' = [saving EXCEPT ![s] = "read"]
          /\ UNCHANGED <<kind, cut, file, tmp, nodes, fd, shared>>
      BY <2>3 DEF Change, Drop, Begin
    <3>2. FilesTyped' /\ \A t \in Sessions : Writes(t)' => Writes(t) /\ saving'[t] = saving[t]
      BY <3>1 DEF FilesInv, FilesTyped, Writes
    <3> QED
      BY <3>1, <3>2 DEF FilesInv, Atomic
  <2>4. ASSUME NEW s \in Sessions, Write(s) PROVE FilesInv'
    <3>1. /\ saving[s] = "open" /\ cut' = cut \ {fd[s]}
          /\ saving' = [saving EXCEPT ![s] = "written"]
          /\ UNCHANGED <<kind, file, tmp, nodes, fd, shared>>
      BY <2>4 DEF Write
    <3>2. FilesTyped'
      BY <3>1 DEF FilesInv, FilesTyped
    <3>3. CASE Atomic /\ ~shared
      <4>1. Writes(s) /\ \A t \in Sessions : Writes(t)' => t = s /\ Writes(t)
        BY <3>1, <3>3 DEF FilesInv, FilesTyped, Writes
      <4>2. fd[s] = tmp /\ tmp # 0
        BY <3>1, <3>3, <4>1 DEF FilesInv
      <4> QED
        BY <3>1, <3>2, <3>3, <4>1, <4>2 DEF FilesInv, Atomic
    <3> QED
      BY <3>1, <3>2, <3>3 DEF FilesInv, Atomic
  <2>5. ASSUME NEW s \in Sessions, Publish(s) PROVE FilesInv'
    BY <2>5, FinishKeeps DEF Publish
  <2>6. ASSUME NEW s \in Sessions, Abandon(s) PROVE FilesInv'
    BY <2>6, FinishKeeps DEF Abandon
  <2>7. ASSUME NEW s \in Sessions, Open(s) PROVE FilesInv'
    BY <2>7, OpenKeeps
  <2> QED
    BY <2>1, <2>2, <2>3, <2>4, <2>5, <2>6, <2>7 DEF ConfigNext, configVars
<1> QED
  BY <1>1, <1>2, PTL DEF ConfigSpec

\* A list that is renamed into place is whole, whichever session is killed or
\* runs out of disk at whichever step of its save, as long as no two have a file
\* open together, for any number of sessions and of saves.
THEOREM ListsAreWhole == ConfigSpec => []WholeFile
<1>1. FilesInv => WholeFile
  BY DEF FilesInv, WholeFile, Atomic
<1> QED
  BY <1>1, FilesInvariance, PTL
-----------------------------------------------------------------------------
(* Saves that take turns.                                                  *)

\* While they do, the list that can be read is what the saves made of it; the one
\* under way makes its change of that, and what it renames, or has written in
\* place, is its own.  A list written in place is cut only while it is saved.
SavesInv ==
    /\ DOMAIN body = 1 .. MaxNode /\ DOMAIN out = Sessions
    /\ ~raced =>
        /\ ~shared
        /\ \A s, t \in Sessions : saving[s] # "no" /\ saving[t] # "no" => s = t
        /\ file \notin cut => LoadList = wanted
        /\ \A s \in Sessions :
              /\ saving[s] # "no" /\ (Atomic \/ saving[s] # "written") =>
                    out[s].list = Changed(wanted, out[s].change)
              /\ Atomic /\ saving[s] = "written" => body[tmp] = out[s].list
              /\ ~Atomic /\ Writes(s) => fd[s] = file /\ file # 0
        /\ ~Atomic /\ file \in cut => \E s \in Sessions : saving[s] = "open"

\* The list does not change when an inode is written that is not its own.
LEMMA ListStays ==
    ASSUME UNCHANGED file, NEW n, NEW list, n # file, body' = [body EXCEPT ![n] = list],
           file = 0 \/ file \in DOMAIN body
    PROVE  LoadList' = LoadList
BY DEF LoadList, ListIn

\* A change begins on the list as it is, or is not in turn.
LEMMA BeginAddsUp ==
    ASSUME FilesInv, SavesInv, NEW s \in Sessions, Change(s) \/ Drop(s)
    PROVE  SavesInv'
<1>1. PICK from, e : Begin(s, from, e) /\ (kind = "jobs" => from = LoadList)
  BY DEF Change, Drop
<1>2. /\ saving' = [saving EXCEPT ![s] = "read"] /\ saving[s] = "no"
      /\ out' = [out EXCEPT ![s] = [list |-> Changed(from, e), change |-> e]]
      /\ raced' = (raced \/ (\E t \in Sessions : saving[t] # "no") \/ (kind # "jobs" /\ from # LoadList))
      /\ UNCHANGED <<kind, body, cut, file, tmp, fd, shared, wanted>>
  BY <1>1 DEF Begin
<1>3. DOMAIN body' = 1 .. MaxNode /\ DOMAIN out' = Sessions
  BY <1>2 DEF SavesInv
<1>4. ASSUME ~raced' PROVE SavesInv'
  <2>1. ~raced /\ from = LoadList /\ \A t \in Sessions : saving[t] = "no"
    BY <1>1, <1>2, <1>4
  <2>2. file \notin cut
    BY <2>1 DEF SavesInv, FilesInv
  <2>3. LoadList = wanted /\ LoadList' = LoadList
    BY <1>2, <2>1, <2>2 DEF SavesInv, LoadList, ListIn
  <2>4. \A t \in Sessions : saving'[t] = IF t = s THEN "read" ELSE "no"
    BY <1>2, <2>1 DEF FilesInv, FilesTyped
  <2>5. out'[s].list = Changed(from, e) /\ out'[s].change = e
    BY <1>2 DEF SavesInv
  <2>6. Changed(from, e) = Changed(wanted, e)'
    BY <1>2, <2>1, <2>3 DEF Changed
  <2>7. out'[s].list = Changed(wanted, out[s].change)'
    BY <1>2, <2>1, <2>3, <2>5 DEF Changed
  <2>8. \A t \in Sessions : saving'[t] # "no" => t = s
    BY <2>4
  <2> QED
    BY <1>2, <1>3, <2>1, <2>2, <2>3, <2>4, <2>7, <2>8 DEF SavesInv, Writes
<1> QED
  BY <1>3, <1>4 DEF SavesInv

\* A file is cut: the temporary one, or the list itself by the one that saves it.
LEMMA OpenAddsUp ==
    ASSUME FilesInv, SavesInv, NEW s \in Sessions, Open(s)
    PROVE  SavesInv'
<1> DEFINE target == IF Atomic THEN tmp ELSE file
           node == IF target = 0 THEN nodes + 1 ELSE target
<1>1. /\ node <= MaxNode /\ saving[s] = "read" /\ saving' = [saving EXCEPT ![s] = "open"]
      /\ fd' = [fd EXCEPT ![s] = node] /\ cut' = cut \cup {node}
      /\ body' = [body EXCEPT ![node] = <<>>]
      /\ IF Atomic THEN tmp' = node /\ UNCHANGED file ELSE file' = node /\ UNCHANGED tmp
      /\ shared' = (shared \/ \E t \in Sessions : saving[t] \in {"open", "written"})
      /\ UNCHANGED <<kind, out, wanted, raced>>
  BY DEF Open
<1>2. node \in 1 .. MaxNode /\ file \in 0 .. MaxNode
  BY <1>1, ConfigAssumption DEF FilesInv, FilesTyped
<1>3. DOMAIN body' = 1 .. MaxNode /\ DOMAIN out' = Sessions
  BY <1>1 DEF SavesInv
<1>4. ASSUME ~raced PROVE SavesInv'
  <2>1. ~shared /\ \A t \in Sessions : t # s => saving[t] = "no"
    BY <1>1, <1>4 DEF SavesInv
  <2>2. \A t \in Sessions : saving'[t] = IF t = s THEN "open" ELSE "no"
    BY <1>1, <2>1 DEF FilesInv, FilesTyped
  <2>3. ~shared'
    BY <1>1, <2>1
  <2>4. out'[s].list = Changed(wanted, out[s].change)'
    BY <1>1, <1>4 DEF SavesInv, Changed
  <2>5. file' \notin cut' => LoadList' = wanted'
    <3>1. CASE Atomic
      <4>1. node # file /\ file' = file
        BY <1>1, <1>2, <2>1, <3>1 DEF FilesInv, FilesTyped
      <4>2. file = 0 \/ file \in DOMAIN body
        BY <1>2 DEF SavesInv
      <4> HIDE DEF node, target
      <4>3. LoadList' = LoadList
        BY <1>1, <4>1, <4>2, ListStays
      <4> QED
        BY <1>1, <1>4, <4>1, <4>3 DEF SavesInv
    <3>2. CASE ~Atomic
      BY <1>1, <3>2
    <3> QED
      BY <3>1, <3>2
  <2>6. ~Atomic => fd'[s] = file' /\ file' # 0
    BY <1>1, <1>2 DEF FilesInv, FilesTyped
  <2>7. Atomic' <=> Atomic
    BY <1>1 DEF Atomic
  <2>8. \A t \in Sessions : saving'[t] # "no" => t = s /\ saving'[t] = "open"
    BY <2>2
  <2> HIDE DEF node, target
  <2> QED
    BY <1>1, <1>3, <2>2, <2>3, <2>4, <2>5, <2>6, <2>7, <2>8 DEF SavesInv, Writes
<1> QED
  BY <1>1, <1>3, <1>4 DEF SavesInv

\* The file is written: what is to be renamed, or the list.
LEMMA WriteAddsUp ==
    ASSUME FilesInv, SavesInv, NEW s \in Sessions, Write(s)
    PROVE  SavesInv'
<1>1. /\ saving[s] = "open" /\ saving' = [saving EXCEPT ![s] = "written"]
      /\ body' = [body EXCEPT ![fd[s]] = out[s].list] /\ cut' = cut \ {fd[s]}
      /\ wanted' = IF Atomic THEN wanted ELSE Changed(wanted, out[s].change)
      /\ UNCHANGED <<kind, file, tmp, out, fd, shared, raced>>
  BY DEF Write
<1>2. DOMAIN body' = 1 .. MaxNode /\ DOMAIN out' = Sessions
  BY <1>1 DEF SavesInv
<1>3. ASSUME ~raced PROVE SavesInv'
  <2>1. /\ ~shared /\ \A t \in Sessions : t # s => saving[t] = "no"
        /\ out[s].list = Changed(wanted, out[s].change) /\ Writes(s)
    BY <1>1, <1>3 DEF SavesInv, Writes
  <2>2. \A t \in Sessions : saving'[t] = IF t = s THEN "written" ELSE "no"
    BY <1>1, <2>1 DEF FilesInv, FilesTyped
  <2>3. \A t \in Sessions : saving'[t] # "no" => t = s
    BY <2>2
  <2>4. file \in 0 .. MaxNode /\ tmp \in 0 .. MaxNode /\ (Atomic' <=> Atomic)
    BY <1>1 DEF FilesInv, FilesTyped, Atomic
  <2>5. CASE Atomic
    <3>1. fd[s] = tmp /\ tmp # 0 /\ file \notin cut /\ tmp # file
      BY <2>1, <2>5 DEF FilesInv
    <3>2. tmp \in DOMAIN body /\ (file = 0 \/ file \in DOMAIN body)
      BY <2>4, <3>1 DEF SavesInv
    <3>3. body'[tmp] = out[s].list
      BY <1>1, <3>1, <3>2
    <3>4. LoadList' = LoadList
      BY <1>1, <3>1, <3>2, ListStays
    <3>5. LoadList' = wanted' /\ file' \notin cut'
      BY <1>1, <1>3, <2>5, <3>1, <3>4 DEF SavesInv
    <3>6. out'[s].list = Changed(wanted, out[s].change)'
      BY <1>1, <2>1, <2>5 DEF Changed
    <3> QED
      BY <1>1, <1>2, <2>1, <2>3, <2>4, <2>5, <3>3, <3>5, <3>6 DEF SavesInv
  <2>6. CASE ~Atomic
    <3>1. fd[s] = file /\ file # 0 /\ file \in DOMAIN body
      BY <1>3, <2>1, <2>4, <2>6 DEF SavesInv
    <3>2. LoadList' = out[s].list
      BY <1>1, <3>1 DEF LoadList, ListIn
    <3>3. LoadList' = wanted' /\ file' \notin cut'
      BY <1>1, <2>1, <2>6, <3>1, <3>2
    <3> QED
      BY <1>1, <1>2, <2>1, <2>2, <2>3, <2>4, <2>6, <3>1, <3>3 DEF SavesInv, Writes
  <2> QED
    BY <2>5, <2>6
<1> QED
  BY <1>1, <1>2, <1>3 DEF SavesInv

\* The end of a save: the file it wrote is renamed, or the save is given up.
LEMMA EndAddsUp ==
    ASSUME FilesInv, SavesInv, NEW s \in Sessions, Publish(s) \/ Abandon(s)
    PROVE  SavesInv'
<1>1. /\ saving[s] # "no" /\ saving' = [saving EXCEPT ![s] = "no"] /\ fd' = [fd EXCEPT ![s] = 0]
      /\ out' = [out EXCEPT ![s] = Nothing] /\ UNCHANGED <<kind, body, cut, shared>>
  BY DEF Publish, Abandon, Finished
<1>0. raced => raced'
  BY Zenon DEF Publish, Abandon
<1>2. DOMAIN body' = 1 .. MaxNode /\ DOMAIN out' = Sessions
  BY <1>1 DEF SavesInv
<1>3. ASSUME ~raced' PROVE SavesInv'
  <2>1. ~raced /\ ~shared /\ \A t \in Sessions : t # s => saving[t] = "no"
    BY <1>0, <1>1, <1>3 DEF SavesInv
  <2>2. \A t \in Sessions : saving'[t] = "no"
    BY <1>1, <2>1 DEF FilesInv, FilesTyped
  <2>3. file' \notin cut' /\ LoadList' = wanted'
    <3>1. CASE Publish(s) /\ Atomic
      <4>1. Writes(s) /\ saving[s] = "written"
        BY <3>1 DEF Publish, Writes
      <4>2. tmp # 0 /\ tmp \notin cut
        BY <2>1, <3>1, <4>1 DEF FilesInv
      <4>3. file' = tmp /\ wanted' = Changed(wanted, out[s].change)
        BY <3>1, <4>2 DEF Publish
      <4>4. body[tmp] = out[s].list /\ out[s].list = Changed(wanted, out[s].change)
        BY <2>1, <3>1, <4>1 DEF SavesInv
      <4> QED
        BY <1>1, <4>2, <4>3, <4>4 DEF LoadList, ListIn
    <3>2. CASE Atomic /\ Abandon(s)
      <4>1. file \notin cut /\ UNCHANGED <<file, wanted>>
        BY <2>1, <3>2 DEF FilesInv, Abandon
      <4> QED
        BY <1>1, <2>1, <4>1 DEF SavesInv, LoadList, ListIn
    <3>3. CASE ~Atomic
      <4>1. saving[s] # "open" /\ UNCHANGED <<file, wanted>>
        BY <1>3, <3>3 DEF Publish, Abandon
      <4>2. file \notin cut
        BY <2>1, <3>3, <4>1 DEF SavesInv
      <4> QED
        BY <1>1, <2>1, <4>1, <4>2 DEF SavesInv, LoadList, ListIn
    <3> QED
      BY <3>1, <3>2, <3>3
  <2> QED
    BY <1>1, <1>2, <2>1, <2>2, <2>3 DEF SavesInv, Writes
<1> QED
  BY <1>2, <1>3 DEF SavesInv

\* What can be read is what the saves made of it, and the one under way has read
\* that and makes its change of it, through every crash and full disk.
THEOREM SavesInvariance == ConfigSpec => []SavesInv
<1>1. ConfigInit => SavesInv
  <2> SUFFICES ASSUME ConfigInit PROVE SavesInv
    OBVIOUS
  <2>1. /\ body = [i \in 1 .. MaxNode |-> <<>>] /\ out = [s \in Sessions |-> Nothing]
        /\ file = 0 /\ wanted = <<>> /\ cut = {} /\ shared = FALSE
        /\ saving = [s \in Sessions |-> "no"]
    BY DEF ConfigInit
  <2>2. \A s \in Sessions : saving[s] = "no"
    BY <2>1
  <2> QED
    BY <2>1, <2>2 DEF SavesInv, Writes, LoadList, ListIn
<1>2. FilesInv /\ SavesInv /\ [ConfigNext]_configVars => SavesInv'
  <2> SUFFICES ASSUME FilesInv, SavesInv, [ConfigNext]_configVars PROVE SavesInv'
    OBVIOUS
  <2>1. CASE UNCHANGED <<kind, body, cut, file, tmp, saving, out, fd, shared, wanted, raced>>
    BY <2>1 DEF SavesInv, Writes, Atomic, LoadList, ListIn, Changed
  <2>2. ASSUME NEW s \in Sessions, OpenList(s) PROVE SavesInv'
    BY <2>1, <2>2 DEF OpenList
  <2> QED
    BY <2>1, <2>2, BeginAddsUp, OpenAddsUp, WriteAddsUp, EndAddsUp DEF ConfigNext, configVars
<1> QED
  BY <1>1, <1>2, FilesInvariance, PTL DEF ConfigSpec

\* What one session saved is neither lost nor brought back by another or by one
\* that is killed: a list that can be read is what the saves make of it one after
\* another, as long as each is over before the next one reads and a deletion that
\* is made on the screen is made on the list as it is.
THEOREM NoSaveIsLost == ConfigSpec => []SavesAddUp
<1>1. SavesInv => SavesAddUp
  BY DEF SavesInv, SavesAddUp
<1> QED
  BY <1>1, SavesInvariance, PTL
-----------------------------------------------------------------------------
(* The schedule.                                                           *)

\* The steps of an installation after the service file is written, and of a
\* removal after the timer is disabled.
Installing == {"timer", "reload", "enable", "verify"}
Removing == {"rmService", "rmTimer", "rmReload", "save"}

JobsTyped ==
    /\ unitName \in [Jobs -> Units]
    /\ joblist \in [Jobs -> Times \cup {NoFile}]
    /\ service \in [Units -> Jobs \cup {NoFile, Torn}]
    /\ timer \in [Units -> Times \cup {NoFile, Torn}]
    /\ links \subseteq Units
    /\ drawn \in [Tabs -> [list : [Jobs -> Times \cup {NoFile}], on : SUBSET Units]]
    /\ step \in [Tabs -> {Idle} \cup
                    [at : {"service", "disable"} \cup Installing \cup Removing,
                     job : Jobs, sched : Times, del : BOOLEAN]]
    /\ erred \in [Tabs -> BOOLEAN]
    /\ jobSaid \in [Tabs -> {"nothing", "installed", "removed", "deleted", "error"}]
    /\ clean \in BOOLEAN /\ crossed \in BOOLEAN

\* The timer of unit u, if it is enabled, runs a job of the list whose unit it is.
Owned(u) == service[u] \in Jobs /\ joblist[service[u]] # NoFile /\ unitName[service[u]] = u

\* What tab t has done so far, when nobody else had a part in it.
Done(t) ==
    /\ step[t].at \in Installing => service[UnitOf(t)] = step[t].job
    /\ step[t].at \in Installing \ {"timer"} => timer[UnitOf(t)] = step[t].sched
    /\ step[t].at \in {"rmTimer", "rmReload"} /\ ~erred[t] => service[UnitOf(t)] = NoFile
    /\ step[t].at = "rmReload" /\ ~erred[t] => timer[UnitOf(t)] = NoFile

\* One operation at a time: the work of the tab that is busy is as it left it, its
\* job is on the list, and every timer is owned but for the one it is disabling.
JobsInv ==
    /\ JobsTyped
    /\ \A t \in Tabs : step[t] # Idle => jobSaid[t] = "nothing"
    /\ ~crossed =>
        /\ \A t, o \in Tabs : step[t] # Idle /\ step[o] # Idle => t = o
        /\ \A t \in Tabs : step[t] # Idle => Done(t) /\ joblist[step[t].job] # NoFile
    /\ ~crossed /\ clean =>
        /\ \A u \in Units : IsEnabled(u) => Owned(u)
        /\ \A t \in Tabs : step[t] # Idle /\ step[t].at \in Removing => UnitOf(t) \notin links

Working == {"service", "disable"} \cup Installing \cup Removing

\* A busy tab knows its job, and goes on to another step with it.
LEMMA BusyTab ==
    ASSUME JobsTyped, NEW t \in Tabs, step[t] # Idle
    PROVE  /\ step[t].at \in Working /\ step[t].job \in Jobs /\ step[t].sched \in Times
           /\ UnitOf(t) \in Units
  BY DEF JobsTyped, UnitOf, Working

\* An operation under way keeps its job, its schedule and so its unit from step to
\* step, and the other tabs' operations stay as they are.
LEMMA GoesOn ==
    ASSUME JobsTyped, NEW t \in Tabs, step[t] # Idle, NEW at \in Working, Goes(t, at)
    PROVE  /\ step' \in [Tabs -> {Idle} \cup [at : Working, job : Jobs, sched : Times, del : BOOLEAN]]
           /\ step'[t] # Idle /\ step'[t].at = at
           /\ step'[t].job = step[t].job /\ step'[t].sched = step[t].sched
           /\ UnitOf(t)' = UnitOf(t)
           /\ \A o \in Tabs \ {t} : step'[o] = step[o]
           /\ UNCHANGED <<unitName, drawn, jobSaid, crossed>>
<1>1. step[t] \in [at : Working, job : Jobs, sched : Times, del : BOOLEAN]
  BY DEF JobsTyped, Working
<1>2. step' = [step EXCEPT ![t] = [step[t] EXCEPT !.at = at]]
      /\ UNCHANGED <<unitName, drawn, jobSaid, crossed>>
  BY DEF Goes
<1>3. step \in [Tabs -> {Idle} \cup [at : Working, job : Jobs, sched : Times, del : BOOLEAN]]
  BY DEF JobsTyped, Working
<1>4. [step[t] EXCEPT !.at = at] \in [at : Working, job : Jobs, sched : Times, del : BOOLEAN]
  BY <1>1
<1>5. step'[t] = [step[t] EXCEPT !.at = at] /\ \A o \in Tabs \ {t} : step'[o] = step[o]
  BY <1>2, <1>3
<1>6. step'[t].at = at /\ step'[t].job = step[t].job /\ step'[t].sched = step[t].sched
  BY <1>1, <1>5
<1>7. step'[t] # Idle
  <2>1. at # "idle"
    BY DEF Working, Installing, Removing
  <2> QED
    BY <1>6, <2>1 DEF Idle
<1> QED
  BY <1>2, <1>3, <1>4, <1>5, <1>6, <1>7 DEF UnitOf

\* What a step of a busy tab has to show: the other tabs have nothing to do with it.
LEMMA BusyMoves ==
    ASSUME JobsInv, JobsTyped', NEW t \in Tabs, step[t] # Idle,
           \A o \in Tabs \ {t} : step'[o] = step[o] /\ jobSaid'[o] = jobSaid[o],
           crossed' = crossed,
           step'[t] # Idle => jobSaid'[t] = "nothing",
           ~crossed /\ step'[t] # Idle => Done(t)' /\ joblist'[step'[t].job] # NoFile,
           ~crossed /\ clean' =>
               /\ clean
               /\ \A u \in Units : IsEnabled(u)' => Owned(u)'
               /\ step'[t] # Idle /\ step'[t].at \in Removing => UnitOf(t)' \notin links'
    PROVE  JobsInv'
<1>1. ~crossed => \A o \in Tabs \ {t} : step'[o] = Idle
  BY DEF JobsInv
<1>2. \A o \in Tabs : step'[o] # Idle => jobSaid'[o] = "nothing"
  BY DEF JobsInv
<1> QED
  BY <1>1, <1>2 DEF JobsInv

Drawings == [list : [Jobs -> Times \cup {NoFile}], on : SUBSET Units]

\* An operation that begins alone goes by a job that is on the list.
LEMMA StartKeeps ==
    ASSUME JobsInv, NEW t \in Tabs, NEW at \in {"service", "disable"},
           NEW v \in {Drawing, drawn[t]}, NEW j \in Jobs, NEW del \in BOOLEAN,
           v.list[j] # NoFile, Starts(t, at, v, j, del)
    PROVE  JobsInv'
<1> USE DEF JobsInv, JobsTyped
<1>1. Drawing \in Drawings /\ drawn[t] \in Drawings
  BY DEF Drawing, Drawings
<1>2. v.list[j] \in Times
  BY <1>1 DEF Drawings
<1> DEFINE new == [at |-> at, job |-> j, sched |-> v.list[j], del |-> del]
<1>3. /\ step' = [step EXCEPT ![t] = new] /\ erred' = [erred EXCEPT ![t] = FALSE]
      /\ jobSaid' = [jobSaid EXCEPT ![t] = "nothing"]
      /\ crossed' = (crossed \/ v # Drawing \/ \E o \in Tabs : step[o] # Idle)
      /\ UNCHANGED <<unitName, joblist, service, timer, links, drawn, clean>>
  BY DEF Starts
<1>4. /\ new \in [at : {"service", "disable"} \cup Installing \cup Removing,
                  job : Jobs, sched : Times, del : BOOLEAN]
      /\ new.at = at /\ new.job = j
  BY <1>2
<1> HIDE DEF new
<1>5. step'[t] = new /\ \A o \in Tabs \ {t} : step'[o] = step[o] /\ jobSaid'[o] = jobSaid[o]
  BY <1>3
<1>6. JobsTyped'
  BY <1>3, <1>4
<1>7. \A o \in Tabs : step'[o] # Idle => jobSaid'[o] = "nothing"
  BY <1>3, <1>5
<1>8. CASE ~crossed'
  <2>1. ~crossed /\ joblist[j] # NoFile /\ \A o \in Tabs \ {t} : step'[o] = Idle
    <3>1. ~crossed /\ v = Drawing /\ \A o \in Tabs : step[o] = Idle
      BY <1>3, <1>8
    <3>2. Drawing.list = joblist
      BY DEF Drawing
    <3> QED
      BY <1>5, <3>1, <3>2
  <2>2. Done(t)' /\ at \notin Removing
    BY <1>4, <1>5 DEF Done, Installing, Removing
  <2>3. clean' /\ clean => \A u \in Units : IsEnabled(u)' => Owned(u)'
    BY <1>3, <2>1 DEF IsEnabled, Owned
  <2>4. \A o \in Tabs : step'[o] # Idle => o = t /\ step'[o].at \notin Removing
    BY <1>4, <1>5, <2>1, <2>2
  <2>5. \A o \in Tabs : step'[o] # Idle => Done(o)' /\ joblist'[step'[o].job] # NoFile
    BY <1>3, <1>4, <1>5, <2>1, <2>2, <2>4
  <2> HIDE DEF JobsTyped
  <2> QED
    BY <1>3, <1>6, <1>7, <2>3, <2>4, <2>5
<1> QED
  BY <1>6, <1>7, <1>8

\* The end of an operation leaves no busy tab, if it was alone.
LEMMA EndJobKeeps ==
    ASSUME JobsInv, NEW t \in Tabs, step[t] # Idle,
           NEW says \in {"installed", "removed", "deleted", "error"}, Ends(t, says),
           joblist' \in [Jobs -> Times \cup {NoFile}],
           service' \in [Units -> Jobs \cup {NoFile, Torn}],
           timer' \in [Units -> Times \cup {NoFile, Torn}],
           links' \subseteq Units, erred' \in [Tabs -> BOOLEAN], clean' \in BOOLEAN,
           ~crossed /\ clean' => clean /\ \A u \in Units : IsEnabled(u)' => Owned(u)'
    PROVE  JobsInv'
<1>1. /\ step' = [step EXCEPT ![t] = Idle] /\ jobSaid' = [jobSaid EXCEPT ![t] = says]
      /\ drawn' = [drawn EXCEPT ![t] = IF says = "error" THEN @ ELSE Drawing']
      /\ UNCHANGED <<unitName, crossed>>
  BY DEF Ends
<1>2. Drawing' \in Drawings
  BY DEF Drawing, Drawings
<1>3. drawn \in [Tabs -> Drawings] /\ step \in [Tabs -> {Idle} \cup
                    [at : {"service", "disable"} \cup Installing \cup Removing,
                     job : Jobs, sched : Times, del : BOOLEAN]]
  BY DEF JobsInv, JobsTyped, Drawings
<1>4. drawn' \in [Tabs -> Drawings]
  BY <1>1, <1>2, <1>3
<1>5. step'[t] = Idle /\ \A o \in Tabs \ {t} : step'[o] = step[o] /\ jobSaid'[o] = jobSaid[o]
  BY <1>1 DEF JobsInv, JobsTyped
<1>6. JobsTyped'
  BY <1>1, <1>4 DEF JobsInv, JobsTyped, Drawings
<1> QED
  BY <1>1, <1>5, <1>6, BusyMoves

\* The work of one tab on the files and the links, step by step.
LEMMA WorkStep ==
    ASSUME JobsInv, NEW t \in Tabs,
           \/ InstallFails(t) \/ WriteService(t) \/ WriteTimer(t) \/ ReloadUnits(t)
           \/ Enable(t) \/ Verify(t)
           \/ Disable(t) \/ RemoveService(t) \/ RemoveTimer(t) \/ Removed(t) \/ SaveDeleted(t)
    PROVE  JobsInv'
<1>1. JobsTyped
  BY DEF JobsInv
<1>2. step[t] # Idle
  BY DEF InstallFails, WriteService, WriteTimer, ReloadUnits, Enable, Verify, Disable,
         RemoveService, RemoveTimer, Removed, SaveDeleted, Idle
<1>3. /\ step[t].job \in Jobs /\ step[t].sched \in Times /\ UnitOf(t) \in Units
      /\ UnitOf(t) = unitName[step[t].job]
  BY <1>1, <1>2, BusyTab DEF UnitOf
<1>4. ~crossed => /\ Done(t) /\ joblist[step[t].job] # NoFile
                  /\ \A o \in Tabs \ {t} : step[o] = Idle
  BY <1>2 DEF JobsInv
<1>5. ~crossed /\ clean => /\ \A u \in Units : IsEnabled(u) => Owned(u)
                           /\ step[t].at \in Removing => UnitOf(t) \notin links
  BY <1>2 DEF JobsInv
<1>6. ASSUME NEW at \in Working, Goes(t, at), JobsTyped', joblist' = joblist,
             ~crossed => Done(t)',
             ~crossed /\ clean' =>
                 /\ clean
                 /\ \A u \in Units : IsEnabled(u)' => Owned(u)'
                 /\ at \in Removing => UnitOf(t) \notin links'
      PROVE  JobsInv'
  <2>1. /\ step'[t] # Idle /\ step'[t].at = at /\ step'[t].job = step[t].job
        /\ UnitOf(t)' = UnitOf(t) /\ \A o \in Tabs \ {t} : step'[o] = step[o]
        /\ UNCHANGED <<jobSaid, crossed>>
    BY <1>1, <1>2, <1>6, GoesOn
  <2>2. jobSaid'[t] = "nothing"
    BY <1>2, <2>1 DEF JobsInv
  <2> QED
    BY <1>2, <1>4, <1>6, <2>1, <2>2, BusyMoves
<1>7. ASSUME NEW at \in Working, Goes(t, at),
             service' \in [Units -> Jobs \cup {NoFile, Torn}],
             timer' \in [Units -> Times \cup {NoFile, Torn}],
             links' \subseteq Units, erred' \in [Tabs -> BOOLEAN], clean' \in BOOLEAN,
             joblist' = joblist
      PROVE  JobsTyped'
  <2>1. /\ step' \in [Tabs -> {Idle} \cup [at : Working, job : Jobs, sched : Times, del : BOOLEAN]]
        /\ UNCHANGED <<unitName, drawn, jobSaid, crossed>>
    BY <1>1, <1>2, <1>7, GoesOn
  <2> QED
    BY <1>1, <1>7, <2>1 DEF JobsTyped, Working
<1>8. ASSUME NEW at \in Working, Goes(t, at)
      PROVE  /\ step'[t].at = at /\ step'[t].job = step[t].job /\ step'[t].sched = step[t].sched
             /\ UnitOf(t)' = UnitOf(t) /\ unitName' = unitName /\ crossed' = crossed
  BY <1>1, <1>2, <1>8, GoesOn
<1>9. {"timer", "reload", "enable", "verify", "rmService", "rmTimer", "rmReload", "save"} \subseteq Working
  BY DEF Working, Installing, Removing
<1>10. CASE InstallFails(t)
  <2>1. /\ service' \in {service, [service EXCEPT ![UnitOf(t)] = IF step[t].at = "service" THEN Torn ELSE @]}
        /\ timer' \in {timer, [timer EXCEPT ![UnitOf(t)] = IF step[t].at = "timer" THEN Torn ELSE @]}
        /\ Ends(t, "error") /\ clean' = FALSE /\ UNCHANGED <<joblist, links, erred>>
    BY <1>10 DEF InstallFails
  <2>2. service' \in [Units -> Jobs \cup {NoFile, Torn}] /\ timer' \in [Units -> Times \cup {NoFile, Torn}]
    BY <1>1, <2>1 DEF JobsTyped
  <2> QED
    BY <1>1, <1>2, <2>1, <2>2, EndJobKeeps DEF JobsTyped
<1>11. CASE WriteService(t)
  <2>1. /\ step[t].at = "service" /\ Goes(t, "timer")
        /\ service' = [service EXCEPT ![UnitOf(t)] = step[t].job]
        /\ UNCHANGED <<joblist, timer, links, erred, clean>>
    BY <1>11 DEF WriteService
  <2>2. JobsTyped'
    BY <1>1, <1>3, <1>7, <1>9, <2>1 DEF JobsTyped
  <2>3. service'[UnitOf(t)] = step[t].job /\ \A u \in Units \ {UnitOf(t)} : service'[u] = service[u]
    BY <1>1, <1>3, <2>1 DEF JobsTyped
  <2>4. Done(t)'
    BY <1>8, <1>9, <2>1, <2>3 DEF Done
  <2>5. ~crossed /\ clean => \A u \in Units : IsEnabled(u)' => Owned(u)'
    BY <1>3, <1>4, <1>5, <1>8, <1>9, <2>1, <2>3 DEF IsEnabled, Owned
  <2> QED
    BY <1>6, <1>9, <2>1, <2>2, <2>4, <2>5 DEF Removing
<1>12. CASE WriteTimer(t)
  <2>1. /\ step[t].at = "timer" /\ Goes(t, "reload")
        /\ timer' = [timer EXCEPT ![UnitOf(t)] = step[t].sched]
        /\ UNCHANGED <<joblist, service, links, erred, clean>>
    BY <1>12 DEF WriteTimer
  <2>2. JobsTyped'
    BY <1>1, <1>3, <1>7, <1>9, <2>1 DEF JobsTyped
  <2>3. timer'[UnitOf(t)] = step[t].sched /\ \A u \in Units \ {UnitOf(t)} : timer'[u] = timer[u]
    BY <1>1, <1>3, <2>1 DEF JobsTyped
  <2>4. ~crossed => service[UnitOf(t)] = step[t].job
    BY <1>4, <2>1 DEF Done, Installing
  <2>5. ~crossed => Done(t)'
    BY <1>8, <1>9, <2>1, <2>3, <2>4 DEF Done
  <2>6. ~crossed /\ clean => \A u \in Units : IsEnabled(u)' => Owned(u)'
    BY <1>3, <1>4, <1>5, <1>8, <1>9, <2>1, <2>3, <2>4 DEF IsEnabled, Owned
  <2> QED
    BY <1>6, <1>9, <2>1, <2>2, <2>5, <2>6 DEF Removing
<1>13. CASE ReloadUnits(t)
  <2>1. /\ step[t].at = "reload" /\ Goes(t, "enable")
        /\ UNCHANGED <<joblist, service, timer, links, erred, clean>>
    BY <1>13 DEF ReloadUnits
  <2>2. JobsTyped'
    BY <1>1, <1>7, <1>9, <2>1 DEF JobsTyped
  <2>3. ~crossed => Done(t)'
    BY <1>4, <1>8, <1>9, <2>1 DEF Done, Installing
  <2>4. ~crossed /\ clean => \A u \in Units : IsEnabled(u)' => Owned(u)'
    BY <1>5, <1>8, <1>9, <2>1 DEF IsEnabled, Owned
  <2> QED
    BY <1>6, <1>9, <2>1, <2>2, <2>3, <2>4 DEF Removing
<1>14. CASE Enable(t)
  <2>1. /\ step[t].at = "enable" /\ Goes(t, "verify")
        /\ links' \in {links, links \cup {UnitOf(t)}}
        /\ UNCHANGED <<joblist, service, timer, erred, clean>>
    BY <1>14 DEF Enable
  <2>2. JobsTyped'
    BY <1>1, <1>3, <1>7, <1>9, <2>1 DEF JobsTyped
  <2>3. ~crossed => Done(t)'
    BY <1>4, <1>8, <1>9, <2>1 DEF Done, Installing
  <2>4. ~crossed => service[UnitOf(t)] = step[t].job
    BY <1>4, <2>1 DEF Done, Installing
  <2>5. ~crossed /\ clean => \A u \in Units : IsEnabled(u)' => Owned(u)'
    BY <1>3, <1>4, <1>5, <1>8, <1>9, <2>1, <2>4 DEF IsEnabled, Owned
  <2> QED
    BY <1>6, <1>9, <2>1, <2>2, <2>3, <2>5 DEF Removing
<1>15. CASE Verify(t)
  <2>1. /\ UNCHANGED <<joblist, service, timer, links, erred, clean>>
        /\ Ends(t, IF IsEnabled(UnitOf(t)) THEN "installed" ELSE "error")
    BY <1>15 DEF Verify
  <2>2. unitName' = unitName
    BY <2>1 DEF Ends
  <2>3. \A u \in Units : (IsEnabled(u)' <=> IsEnabled(u)) /\ (Owned(u)' <=> Owned(u))
    BY <2>1, <2>2 DEF IsEnabled, Owned
  <2> QED
    BY <1>1, <1>2, <1>5, <2>1, <2>3, EndJobKeeps DEF JobsTyped
<1>16. CASE Disable(t)
  <2>1. PICK did \in BOOLEAN : /\ links' = IF did THEN links \ {UnitOf(t)} ELSE links
                              /\ clean' = (clean /\ did)
    BY <1>16 DEF Disable
  <2>2. Goes(t, "rmService") /\ UNCHANGED <<joblist, service, timer, erred>>
    BY <1>16 DEF Disable
  <2>3. JobsTyped'
    BY <1>1, <1>7, <1>9, <2>1, <2>2 DEF JobsTyped
  <2>4. Done(t)'
    BY <1>8, <1>9, <2>2 DEF Done, Installing
  <2>5. ~crossed /\ clean' => \A u \in Units : IsEnabled(u)' => Owned(u)'
    BY <1>5, <1>8, <1>9, <2>1, <2>2 DEF IsEnabled, Owned
  <2> QED
    BY <1>6, <1>9, <2>1, <2>2, <2>3, <2>4, <2>5
<1>17. CASE RemoveService(t)
  <2>1. PICK did \in BOOLEAN :
            /\ service' = IF did THEN [service EXCEPT ![UnitOf(t)] = NoFile] ELSE service
            /\ erred' = [erred EXCEPT ![t] = ~did]
            /\ clean' = (clean /\ did)
    BY <1>17 DEF RemoveService
  <2>2. step[t].at = "rmService" /\ Goes(t, "rmTimer") /\ UNCHANGED <<joblist, timer, links>>
    BY <1>17 DEF RemoveService
  <2>3. JobsTyped'
    BY <1>1, <1>3, <1>7, <1>9, <2>1, <2>2 DEF JobsTyped
  <2>4. /\ erred'[t] = ~did /\ (did => service'[UnitOf(t)] = NoFile)
        /\ \A u \in Units \ {UnitOf(t)} : service'[u] = service[u]
    BY <1>1, <1>3, <2>1 DEF JobsTyped
  <2>5. Done(t)'
    BY <1>8, <1>9, <2>2, <2>4 DEF Done, Installing
  <2>6. ~crossed /\ clean' => \A u \in Units : IsEnabled(u)' => Owned(u)'
    BY <1>5, <1>8, <1>9, <2>1, <2>2, <2>4 DEF IsEnabled, Owned, Removing
  <2> QED
    BY <1>5, <1>6, <1>9, <2>1, <2>2, <2>3, <2>5, <2>6 DEF Removing
<1>18. CASE RemoveTimer(t)
  <2>1. PICK did \in BOOLEAN :
            /\ timer' = IF did THEN [timer EXCEPT ![UnitOf(t)] = NoFile] ELSE timer
            /\ erred' = [erred EXCEPT ![t] = @ \/ ~did]
            /\ clean' = (clean /\ did)
    BY <1>18 DEF RemoveTimer
  <2>2. step[t].at = "rmTimer" /\ Goes(t, "rmReload") /\ UNCHANGED <<joblist, service, links>>
    BY <1>18 DEF RemoveTimer
  <2>3. JobsTyped'
    BY <1>1, <1>3, <1>7, <1>9, <2>1, <2>2 DEF JobsTyped
  <2>4. /\ erred'[t] = (erred[t] \/ ~did) /\ (did => timer'[UnitOf(t)] = NoFile)
        /\ \A u \in Units \ {UnitOf(t)} : timer'[u] = timer[u]
    BY <1>1, <1>3, <2>1 DEF JobsTyped
  <2>5. ~crossed => Done(t)'
    BY <1>4, <1>8, <1>9, <2>2, <2>4 DEF Done, Installing
  <2>6. ~crossed /\ clean' => \A u \in Units : IsEnabled(u)' => Owned(u)'
    BY <1>5, <1>8, <1>9, <2>1, <2>2, <2>4 DEF IsEnabled, Owned, Removing
  <2> QED
    BY <1>5, <1>6, <1>9, <2>1, <2>2, <2>3, <2>5, <2>6 DEF Removing
<1>19. CASE Removed(t)
  <2>1. step[t].at = "rmReload" /\ UNCHANGED <<joblist, service, timer, links, erred, clean>>
    BY <1>19 DEF Removed
  <2>2. CASE step[t].del
    <3>1. Goes(t, "save")
      BY <1>19, <2>2 DEF Removed
    <3>2. JobsTyped'
      BY <1>1, <1>7, <1>9, <2>1, <3>1 DEF JobsTyped
    <3>3. Done(t)'
      BY <1>8, <1>9, <3>1 DEF Done, Installing
    <3>4. ~crossed /\ clean' => \A u \in Units : IsEnabled(u)' => Owned(u)'
      BY <1>5, <1>8, <1>9, <2>1, <3>1 DEF IsEnabled, Owned
    <3> QED
      BY <1>5, <1>6, <1>9, <2>1, <3>1, <3>2, <3>3, <3>4 DEF Removing
  <2>3. CASE ~step[t].del
    <3>1. Ends(t, IF erred[t] THEN "error" ELSE "removed")
      BY <1>19, <2>3 DEF Removed
    <3>2. unitName' = unitName
      BY <3>1 DEF Ends
    <3>3. \A u \in Units : (IsEnabled(u)' <=> IsEnabled(u)) /\ (Owned(u)' <=> Owned(u))
      BY <2>1, <3>2 DEF IsEnabled, Owned
    <3> QED
      BY <1>1, <1>2, <1>5, <2>1, <3>1, <3>3, EndJobKeeps DEF JobsTyped
  <2> QED
    BY <2>2, <2>3
<1>20. CASE SaveDeleted(t)
  <2>1. step[t].at = "save" /\ UNCHANGED <<service, timer, links, erred>>
    BY <1>20 DEF SaveDeleted
  <2>2. CASE /\ joblist' = [joblist EXCEPT ![step[t].job] = NoFile]
             /\ Ends(t, "deleted") /\ UNCHANGED clean
    <3>1. unitName' = unitName
      BY <2>2 DEF Ends
    <3>2. joblist' \in [Jobs -> Times \cup {NoFile}]
          /\ \A j \in Jobs \ {step[t].job} : joblist'[j] = joblist[j]
      BY <1>1, <1>3, <2>2 DEF JobsTyped
    <3>3. ~crossed /\ clean => \A u \in Units : IsEnabled(u)' => Owned(u)'
      <4> SUFFICES ASSUME ~crossed, clean, NEW u \in Units, IsEnabled(u)' PROVE Owned(u)'
        OBVIOUS
      <4>1. IsEnabled(u) /\ Owned(u) /\ u # UnitOf(t)
        BY <1>5, <2>1 DEF IsEnabled, Removing
      <4>2. service[u] # step[t].job
        BY <1>3, <4>1 DEF Owned
      <4> QED
        BY <2>1, <3>1, <3>2, <4>1, <4>2 DEF Owned
    <3> QED
      BY <1>1, <1>2, <2>1, <2>2, <3>2, <3>3, EndJobKeeps DEF JobsTyped
  <2>3. CASE clean' = FALSE /\ Ends(t, "error") /\ UNCHANGED joblist
    BY <1>1, <1>2, <2>1, <2>3, EndJobKeeps DEF JobsTyped
  <2> QED
    BY <1>20, <2>2, <2>3 DEF SaveDeleted
<1> QED
  BY <1>10, <1>11, <1>12, <1>13, <1>14, <1>15, <1>16, <1>17, <1>18, <1>19, <1>20

\* The invariant of the schedule: the work of a tab that is alone is as it left
\* it, and every enabled timer is that of a job on the list.
THEOREM ScheduleInvariance == JobsSpec => []JobsInv
<1>1. JobsInit => JobsInv
  <2> SUFFICES ASSUME JobsInit PROVE JobsInv
    OBVIOUS
  <2>1. /\ \A t \in Tabs : step[t] = Idle
        /\ \A u \in Units : ~IsEnabled(u)
    BY DEF JobsInit, IsEnabled
  <2>2. drawn \in [Tabs -> Drawings]
    BY <2>1 DEF JobsInit, Drawing, Drawings
  <2>3. JobsTyped
    BY <2>2 DEF JobsInit, JobsTyped, Drawings
  <2> QED
    BY <2>1, <2>3 DEF JobsInv
<1>2. JobsInv /\ [JobsNext]_jobVars => JobsInv'
  <2> SUFFICES ASSUME JobsInv, [JobsNext]_jobVars PROVE JobsInv'
    OBVIOUS
  <2>1. CASE UNCHANGED jobVars
    BY <2>1 DEF jobVars, JobsInv, JobsTyped, Done, Owned, IsEnabled, UnitOf
  <2>2. ASSUME NEW t \in Tabs, Redraw(t) PROVE JobsInv'
    <3>1. /\ drawn' = [drawn EXCEPT ![t] = Drawing]
          /\ UNCHANGED <<unitName, joblist, service, timer, links, step, erred, jobSaid, clean, crossed>>
      BY <2>2 DEF Redraw
    <3>2. Drawing \in Drawings
      BY DEF JobsInv, JobsTyped, Drawing, Drawings
    <3>3. drawn' \in [Tabs -> Drawings]
      BY <3>1, <3>2 DEF JobsInv, JobsTyped, Drawings
    <3>4. JobsTyped'
      BY <3>1, <3>3 DEF JobsInv, JobsTyped, Drawings
    <3> QED
      BY <3>1, <3>4 DEF JobsInv, Done, Owned, IsEnabled, UnitOf
  <2>3. ASSUME NEW t \in Tabs, SaveJob(t) PROVE JobsInv'
    <3>1. PICK j \in Jobs, s \in Times : joblist' = [joblist EXCEPT ![j] = s]
      BY <2>3 DEF SaveJob
    <3>2. /\ drawn' = [drawn EXCEPT ![t] = [Drawing EXCEPT !.list = joblist']]
          /\ crossed' = (crossed \/ \E o \in Tabs : step[o] # Idle)
          /\ UNCHANGED <<unitName, service, timer, links, step, erred, jobSaid, clean>>
      BY <2>3 DEF SaveJob
    <3>3. joblist' \in [Jobs -> Times \cup {NoFile}] /\ \A k \in Jobs : joblist[k] # NoFile => joblist'[k] # NoFile
      BY <3>1, JobsAssumption DEF JobsInv, JobsTyped
    <3>4. [Drawing EXCEPT !.list = joblist'] \in Drawings
      BY <3>3 DEF JobsInv, JobsTyped, Drawing, Drawings
    <3>5. drawn' \in [Tabs -> Drawings]
      BY <3>2, <3>4 DEF JobsInv, JobsTyped, Drawings
    <3>6. JobsTyped'
      BY <3>2, <3>3, <3>5 DEF JobsInv, JobsTyped, Drawings
    <3>7. ~crossed' => ~crossed /\ \A o \in Tabs : step'[o] = Idle
      BY <3>2
    <3>8. ~crossed' /\ clean' => \A u \in Units : IsEnabled(u)' => Owned(u)'
      BY <3>2, <3>3, <3>7 DEF JobsInv, IsEnabled, Owned
    <3> QED
      BY <3>2, <3>6, <3>7, <3>8 DEF JobsInv
  <2>4. ASSUME NEW t \in Tabs, Install(t) \/ RemoveUnits(t) \/ Delete(t) PROVE JobsInv'
    <3>1. CASE Install(t)
      BY <3>1, StartKeeps DEF Install, View
    <3>2. CASE RemoveUnits(t)
      BY <3>2, StartKeeps DEF RemoveUnits, View
    <3>3. CASE Delete(t)
      BY <3>3, StartKeeps DEF Delete
    <3> QED
      BY <2>4, <3>1, <3>2, <3>3
  <2> QED
    BY <2>1, <2>2, <2>3, <2>4, WorkStep DEF JobsNext
<1> QED
  BY <1>1, <1>2, PTL DEF JobsSpec

\* Between clean operations, one at a time, no timer is enabled that the tab
\* does not show: it runs a job of the list, and is that job's own, however many
\* names share a unit.
THEOREM NoTimerIsOrphaned == JobsSpec => []NoOrphan
<1>1. JobsInv => NoOrphan
  BY DEF JobsInv, NoOrphan, Owned
<1> QED
  BY <1>1, ScheduleInvariance, PTL

\* "Installed" is said when the timer is enabled, with the schedule and the job
\* it was asked for, and "removed" when neither file is left, if no other session
\* had a part in it, whatever failed on the way.
THEOREM WhatIsSaidIsSo == JobsSpec => SaidIsSo
<1> DEFINE Kept == \A t \in Tabs, u \in Units :
          step[t] # Idle /\ u = UnitOf(t) /\ ~crossed =>
              /\ jobSaid'[t] = "installed" =>
                    IsEnabled(u)' /\ service[u] = step[t].job /\ timer[u] = step[t].sched
              /\ jobSaid'[t] = "removed" => service'[u] = NoFile /\ timer'[u] = NoFile
<1>1. JobsInv /\ [JobsNext]_jobVars => [Kept]_jobVars
  <2> SUFFICES ASSUME JobsInv, JobsNext, NEW t \in Tabs, step[t] # Idle, ~crossed,
                      jobSaid'[t] \in {"installed", "removed"}
               PROVE  /\ jobSaid'[t] = "installed" =>
                            /\ UnitOf(t) \in links' /\ timer'[UnitOf(t)] # NoFile
                            /\ service[UnitOf(t)] = step[t].job /\ timer[UnitOf(t)] = step[t].sched
                      /\ jobSaid'[t] = "removed" =>
                            service'[UnitOf(t)] = NoFile /\ timer'[UnitOf(t)] = NoFile
    BY DEF IsEnabled
  <2>1. jobSaid[t] = "nothing" /\ JobsTyped
    BY DEF JobsInv
  <2>2. jobSaid'[t] # jobSaid[t]
    BY <2>1
  <2>3. ASSUME NEW o \in Tabs,
               \/ Redraw(o) \/ SaveJob(o) \/ Install(o) \/ RemoveUnits(o) \/ Delete(o)
        PROVE  FALSE
    <3>1. step[o] = Idle /\ jobSaid' \in {jobSaid, [jobSaid EXCEPT ![o] = "nothing"]}
      BY <2>3 DEF Redraw, SaveJob, Install, RemoveUnits, Delete, Starts
    <3> QED
      BY <2>1, <2>2, <3>1 DEF JobsTyped
  <2>4. ASSUME NEW o \in Tabs, NEW says, Ends(o, says) PROVE o = t /\ says = jobSaid'[t]
    BY <2>1, <2>2, <2>4 DEF Ends, JobsTyped
  <2>5. ASSUME NEW o \in Tabs, NEW at, Goes(o, at) PROVE FALSE
    BY <2>2, <2>5 DEF Goes
  <2>6. PICK o \in Tabs : Verify(o) \/ Removed(o)
    <3>1. ASSUME NEW o \in Tabs,
                 \/ InstallFails(o) \/ WriteService(o) \/ WriteTimer(o) \/ ReloadUnits(o)
                 \/ Enable(o) \/ Disable(o) \/ RemoveService(o) \/ RemoveTimer(o) \/ SaveDeleted(o)
          PROVE  FALSE
      BY <2>4, <2>5, <3>1
         DEF InstallFails, WriteService, WriteTimer, ReloadUnits, Enable, Disable,
             RemoveService, RemoveTimer, SaveDeleted
    <3> QED
      BY <2>3, <3>1 DEF JobsNext
  <2>7. Done(t) /\ UnitOf(t) \in Units
    BY <2>1, BusyTab DEF JobsInv
  <2>8. CASE Verify(o)
    <3>1. /\ step[o].at = "verify" /\ UNCHANGED <<service, timer, links>>
          /\ Ends(o, IF IsEnabled(UnitOf(o)) THEN "installed" ELSE "error")
      BY <2>8 DEF Verify
    <3>2. o = t /\ jobSaid'[t] = "installed" /\ IsEnabled(UnitOf(t))
      BY <2>4, <3>1
    <3>3. IsEnabled(UnitOf(t)) <=> (UnitOf(t) \in links' /\ timer'[UnitOf(t)] # NoFile)
      BY <3>1 DEF IsEnabled
    <3>4. service[UnitOf(t)] = step[t].job /\ timer[UnitOf(t)] = step[t].sched
      BY <2>7, <3>1, <3>2 DEF Done, Installing
    <3> QED
      BY <3>2, <3>3, <3>4 DEF IsEnabled
  <2>9. CASE Removed(o)
    <3>1. step[o].at = "rmReload" /\ UNCHANGED <<service, timer>>
      BY <2>9 DEF Removed
    <3>2. Ends(o, IF erred[o] THEN "error" ELSE "removed")
      BY <2>5, <2>9 DEF Removed
    <3>3. o = t /\ jobSaid'[t] = "removed" /\ ~erred[t]
      BY <2>4, <3>2
    <3> QED
      BY <2>7, <3>1, <3>3 DEF Done
  <2> QED
    BY <2>6, <2>8, <2>9
<1> QED
  BY <1>1, ScheduleInvariance, PTL DEF SaidIsSo, JobsSpec
-----------------------------------------------------------------------------
(* The keys.                                                               *)

Gos == [at : {"idle", "gen", "test", "auth", "retest", "save", "ask"},
        run : Paths \cup {NoPath}, pw : {"none", "wrong", "right"},
        offer : BOOLEAN, only : BOOLEAN]

Dialog == [entry : Servers, path : Paths \cup {NoPath}, go : Gos]

KeysTyped ==
    /\ keyPathFor \in [Servers -> Paths]
    /\ made \in Nat
    /\ priv \in [Paths -> Int] /\ pub \in [Paths -> Int]
    /\ hostKey \in Nat \ {0} /\ pin \in Nat
    /\ keyPath \in [Servers -> Paths \cup {NoPath}]
    /\ dlg \in [Dialogs -> Dialog]
    /\ keySaid \in [Dialogs -> {"nothing", "error", "authorized", "ready"}]
    /\ halted \in BOOLEAN /\ meddled \in BOOLEAN

\* A setup under way is of a key file, one that only authorizes of the one set.
Underway(d) ==
    dlg[d].go.at # "idle" => dlg[d].go.run \in Paths /\ (dlg[d].go.only => dlg[d].path \in Paths)

\* A setup that is about to save has seen its key log in, and it still does.
KeysInv ==
    /\ KeysTyped
    /\ PublicPairs
    /\ \A d \in Dialogs : Underway(d)
    /\ ~meddled => \A d \in Dialogs : dlg[d].go.at = "save" => LogsIn(dlg[d].go.run)

\* What setting the key file, or the step, of a dialog changes of it.
LEMMA PathSet ==
    ASSUME KeysTyped, NEW d \in Dialogs, NEW p \in Paths \cup {NoPath},
           dlg' = [dlg EXCEPT ![d].path = p]
    PROVE  /\ dlg' \in [Dialogs -> Dialog]
           /\ \A o \in Dialogs : dlg'[o].go = dlg[o].go /\ dlg'[o].entry = dlg[o].entry
           /\ \A o \in Dialogs \ {d} : dlg'[o] = dlg[o]
           /\ dlg'[d].path = p
<1>1. dlg \in [Dialogs -> Dialog]
  BY DEF KeysTyped
<1>2. dlg' = [dlg EXCEPT ![d] = [dlg[d] EXCEPT !.path = p]]
  OBVIOUS
<1>3. /\ [dlg[d] EXCEPT !.path = p] \in Dialog /\ [dlg[d] EXCEPT !.path = p].go = dlg[d].go
      /\ [dlg[d] EXCEPT !.path = p].entry = dlg[d].entry /\ [dlg[d] EXCEPT !.path = p].path = p
  BY <1>1 DEF Dialog
<1>4. dlg'[d] = [dlg[d] EXCEPT !.path = p] /\ \A o \in Dialogs \ {d} : dlg'[o] = dlg[o]
  BY <1>1, <1>2
<1> QED
  BY <1>1, <1>2, <1>3, <1>4

\* A dialog that only moves on keeps its path and its entry, and so do the others.
LEMMA GoSet ==
    ASSUME KeysTyped, NEW d \in Dialogs, NEW g \in Gos, dlg' = [dlg EXCEPT ![d].go = g]
    PROVE  /\ dlg' \in [Dialogs -> Dialog]
           /\ \A o \in Dialogs : dlg'[o].path = dlg[o].path /\ dlg'[o].entry = dlg[o].entry
           /\ \A o \in Dialogs \ {d} : dlg'[o] = dlg[o]
           /\ dlg'[d].go = g
<1>1. dlg \in [Dialogs -> Dialog]
  BY DEF KeysTyped
<1>2. dlg' = [dlg EXCEPT ![d] = [dlg[d] EXCEPT !.go = g]]
  OBVIOUS
<1>3. /\ [dlg[d] EXCEPT !.go = g] \in Dialog /\ [dlg[d] EXCEPT !.go = g].go = g
      /\ [dlg[d] EXCEPT !.go = g].entry = dlg[d].entry /\ [dlg[d] EXCEPT !.go = g].path = dlg[d].path
  BY <1>1 DEF Dialog
<1>4. dlg'[d] = [dlg[d] EXCEPT !.go = g] /\ \A o \in Dialogs \ {d} : dlg'[o] = dlg[o]
  BY <1>1, <1>2
<1> QED
  BY <1>1, <1>2, <1>3, <1>4

GoSteps == {"idle", "gen", "test", "auth", "retest", "save", "ask"}

\* A setup that goes on keeps its key file; one that ends forgets it.
LEMMA SetupGoes ==
    ASSUME KeysTyped, NEW d \in Dialogs, Underway(d), dlg[d].go.at # "idle",
           NEW at \in GoSteps, Goto(d, at)
    PROVE  /\ dlg' \in [Dialogs -> Dialog]
           /\ \A o \in Dialogs : dlg'[o].path = dlg[o].path /\ dlg'[o].entry = dlg[o].entry
           /\ \A o \in Dialogs \ {d} : dlg'[o] = dlg[o]
           /\ dlg'[d].go.at = at
           /\ at # "idle" => dlg'[d].go.run = dlg[d].go.run
           /\ Underway(d)'
<1> DEFINE g == IF at = "idle" THEN Resting ELSE [dlg[d].go EXCEPT !.at = at]
<1>1. dlg[d].go \in Gos
  BY DEF KeysTyped, Dialog
<1>2. Resting \in Gos /\ Resting.at = "idle"
  BY DEF Resting, Gos
<1>3. g \in Gos /\ g.at = at /\ (at # "idle" => g.run = dlg[d].go.run /\ g.only = dlg[d].go.only)
  BY <1>1, <1>2 DEF Gos, GoSteps
<1>4. dlg' = [dlg EXCEPT ![d].go = g]
  BY DEF Goto
<1> HIDE DEF g
<1>5. /\ dlg' \in [Dialogs -> Dialog]
      /\ \A o \in Dialogs : dlg'[o].path = dlg[o].path /\ dlg'[o].entry = dlg[o].entry
      /\ \A o \in Dialogs \ {d} : dlg'[o] = dlg[o]
      /\ dlg'[d].go = g
  BY <1>3, <1>4, GoSet
<1> QED
  BY <1>3, <1>5 DEF Underway

\* A step that touches no key and no host, and moves one dialog.
LEMMA OneSetup ==
    ASSUME KeysInv, KeysTyped', NEW d \in Dialogs,
           UNCHANGED <<priv, pub, hostKey, meddled, halted>>,
           authorized \subseteq authorized', pin' \in {pin, 0, hostKey},
           \A o \in Dialogs \ {d} : dlg'[o] = dlg[o], Underway(d)',
           ~meddled /\ dlg'[d].go.at = "save" => LogsIn(dlg[d].go.run)'
    PROVE  KeysInv'
<1>1. PublicPairs'
  BY DEF KeysInv, PublicPairs
<1>2. ASSUME NEW o \in Dialogs PROVE Underway(o)'
  BY DEF KeysInv, Underway
<1>3. ASSUME ~meddled', NEW o \in Dialogs, (dlg[o].go.at = "save")' PROVE LogsIn(dlg[o].go.run)'
  <2>1. CASE o = d
    BY <1>3, <2>1
  <2>2. CASE o # d
    <3>1. dlg'[o] = dlg[o] /\ LogsIn(dlg[o].go.run)
      BY <1>3, <2>2 DEF KeysInv
    <3>2. priv'[dlg'[o].go.run] \in authorized'
      BY <3>1 DEF LogsIn
    <3>3. pin' \in {0, hostKey'}
      BY <3>1 DEF LogsIn
    <3> QED
      BY <3>2, <3>3 DEF LogsIn
  <2> QED
    BY <2>1, <2>2
<1> QED
  BY <1>1, <1>2, <1>3 DEF KeysInv

\* A step that changes keys outside a setup, which marks the setups under way.
LEMMA KeysChange ==
    ASSUME KeysInv, KeysTyped', PublicPairs', meddled' = (meddled \/ Running),
           \A o \in Dialogs : dlg'[o].go = dlg[o].go, \A o \in Dialogs : Underway(o)'
    PROVE  KeysInv'
<1>1. ~meddled' => \A o \in Dialogs : dlg'[o].go.at = "idle"
  BY DEF Running
<1> QED
  BY <1>1 DEF KeysInv

\* A generated pair is a pair, and so is what is left of a failed one.
LEMMA GeneratedPairs ==
    ASSUME KeysTyped, PublicPairs, NEW p \in Paths, NEW ok \in BOOLEAN, Generated(p, ok), halted' = halted
    PROVE  /\ made' \in Nat /\ priv' \in [Paths -> Int] /\ pub' \in [Paths -> Int]
           /\ PublicPairs'
<1>1. /\ made' = (IF ok THEN made + 1 ELSE made)
      /\ priv' = [priv EXCEPT ![p] = IF ok THEN made' ELSE 0]
      /\ pub' = [pub EXCEPT ![p] = IF ok THEN made' ELSE 0]
  BY DEF Generated
<1>2. made' \in Nat
  BY <1>1 DEF KeysTyped
<1> QED
  BY <1>1, <1>2 DEF KeysTyped, PublicPairs

\* A dialog whose key file is set while a setup runs leaves the setup alone.
LEMMA PathKeeps ==
    ASSUME KeysTyped, \A o \in Dialogs : Underway(o), NEW d \in Dialogs, NEW p \in Paths,
           dlg' = [dlg EXCEPT ![d].path = p]
    PROVE  \A o \in Dialogs : Underway(o)'
<1>1. /\ \A o \in Dialogs : dlg'[o].go = dlg[o].go
      /\ \A o \in Dialogs \ {d} : dlg'[o] = dlg[o]
      /\ dlg'[d].path = p
  BY PathSet
<1> QED
  BY <1>1 DEF Underway

\* The first step of a setup of a dialog has its key file.
LEMMA FirstStepTyped ==
    ASSUME KeysTyped, NEW d \in Dialogs, NEW g \in Gos, g.only => dlg[d].path \in Paths
    PROVE  /\ FirstStep(d, g) \in Gos /\ FirstStep(d, g).run \in Paths
           /\ FirstStep(d, g).only = g.only /\ FirstStep(d, g).at \in {"auth", "gen", "test"}
<1>1. dlg[d] \in Dialog
  BY DEF KeysTyped
<1>2. dlg[d].path \in Paths \cup {NoPath} /\ keyPathFor[dlg[d].entry] \in Paths
  BY <1>1 DEF Dialog, KeysTyped
<1>3. CASE g.only
  BY <1>2, <1>3 DEF FirstStep, Gos
<1>4. CASE ~g.only /\ dlg[d].path = NoPath
  BY <1>2, <1>4 DEF FirstStep, Gos
<1>5. CASE ~g.only /\ dlg[d].path # NoPath
  BY <1>2, <1>5 DEF FirstStep, Gos
<1> QED
  BY <1>3, <1>4, <1>5 DEF Gos

\* A setup that takes a step over the network: it may pin the host's key, add to
\* what is authorized, and goes to "save" only with a key that logs in.
LEMMA SetupStep ==
    ASSUME KeysInv, NEW d \in Dialogs, dlg[d].go.at # "idle", NEW at \in GoSteps, Goto(d, at),
           UNCHANGED <<keyPathFor, priv, pub, made, hostKey, keyPath, halted, meddled>>,
           keySaid' \in [Dialogs -> {"nothing", "error", "authorized", "ready"}],
           authorized \subseteq authorized', pin' \in {pin, hostKey},
           at = "save" => LogsIn(dlg[d].go.run)
    PROVE  KeysInv'
<1>1. KeysTyped /\ Underway(d)
  BY DEF KeysInv
<1>2. /\ dlg' \in [Dialogs -> Dialog]
      /\ \A o \in Dialogs \ {d} : dlg'[o] = dlg[o]
      /\ dlg'[d].go.at = at
      /\ at # "idle" => dlg'[d].go.run = dlg[d].go.run
      /\ Underway(d)'
  BY <1>1, SetupGoes
<1>3. pin' \in Nat
  BY <1>1 DEF KeysTyped
<1>4. KeysTyped'
  BY <1>1, <1>2, <1>3 DEF KeysTyped, Dialog, Gos
<1>5. ~meddled /\ dlg'[d].go.at = "save" => LogsIn(dlg[d].go.run)'
  BY <1>2 DEF LogsIn
<1> QED
  BY <1>2, <1>4, <1>5, OneSetup

\* What is said of a dialog is one of four things.
LEMMA SaidTyped ==
    ASSUME KeysTyped, NEW d \in Dialogs, NEW what \in {"nothing", "error", "authorized", "ready"},
           keySaid' = [keySaid EXCEPT ![d] = what]
    PROVE  keySaid' \in [Dialogs -> {"nothing", "error", "authorized", "ready"}]
BY DEF KeysTyped

\* A setup that ends with an answer, or asks about a changed host key.
LEMMA SaysKeeps ==
    ASSUME KeysInv, NEW d \in Dialogs, dlg[d].go.at # "idle",
           UNCHANGED <<keyPathFor, priv, pub, made, hostKey, keyPath, halted, meddled>>,
           NEW what \in {"error", "authorized"}, Says(d, what) \/ SetupFails(d),
           authorized \subseteq authorized', pin' \in {pin, hostKey}
    PROVE  KeysInv'
<1>1. KeysTyped /\ "idle" \in GoSteps /\ "ask" \in GoSteps
  BY DEF KeysInv, GoSteps
<1>2. ASSUME NEW w \in {"error", "authorized"}, Says(d, w) PROVE KeysInv'
  <2>1. keySaid' \in [Dialogs -> {"nothing", "error", "authorized", "ready"}]
    BY <1>1, <1>2, SaidTyped DEF Says
  <2> QED
    BY <1>1, <1>2, <2>1, SetupStep DEF Says
<1>3. CASE Goto(d, "ask") /\ UNCHANGED keySaid
  <2>1. keySaid' \in [Dialogs -> {"nothing", "error", "authorized", "ready"}]
    BY <1>1, <1>3 DEF KeysTyped
  <2> QED
    BY <1>1, <1>3, <2>1, SetupStep
<1> QED
  BY <1>2, <1>3 DEF SetupFails

\* What is pinned on first contact is the host's key.
LEMMA ContactPins == ASSUME Contact PROVE pin' \in {pin, hostKey}
BY DEF Contact

\* The three steps of a setup that talk to the host.
LEMMA NetworkSteps ==
    ASSUME KeysInv, NEW d \in Dialogs, FirstTest(d) \/ AuthorizeKey(d) \/ Retest(d)
    PROVE  KeysInv'
<1>1. KeysTyped /\ GoSteps = {"idle", "gen", "test", "auth", "retest", "save", "ask"}
  BY DEF KeysInv, GoSteps
<1>2. keySaid \in [Dialogs -> {"nothing", "error", "authorized", "ready"}]
  BY <1>1 DEF KeysTyped
<1>3. CASE FirstTest(d)
  <2>1. /\ dlg[d].go.at # "idle" /\ pin' \in {pin, hostKey}
        /\ UNCHANGED <<keyPathFor, priv, pub, made, hostKey, authorized, keyPath, halted, meddled>>
    BY <1>3, ContactPins DEF FirstTest
  <2>2. CASE LogsIn(dlg[d].go.run) /\ Goto(d, "save") /\ UNCHANGED keySaid
    BY <1>1, <1>2, <2>1, <2>2, SetupStep
  <2>3. CASE Says(d, "error")
    BY <2>1, <2>3, SaysKeeps
  <2>4. CASE Goto(d, "auth") /\ UNCHANGED keySaid
    BY <1>1, <1>2, <2>1, <2>4, SetupStep
  <2> QED
    BY <1>3, <2>2, <2>3, <2>4 DEF FirstTest
<1>4. CASE AuthorizeKey(d)
  <2>1. /\ dlg[d].go.at # "idle" /\ pin' \in {pin, hostKey} /\ authorized \subseteq authorized'
        /\ UNCHANGED <<keyPathFor, priv, pub, made, hostKey, keyPath, halted, meddled>>
    BY <1>4, ContactPins DEF AuthorizeKey
  <2>2. CASE Says(d, "authorized") \/ SetupFails(d)
    BY <2>1, <2>2, SaysKeeps
  <2>3. CASE Goto(d, "retest") /\ UNCHANGED keySaid
    BY <1>1, <1>2, <2>1, <2>3, SetupStep
  <2> QED
    BY <1>4, <2>2, <2>3 DEF AuthorizeKey
<1>5. CASE Retest(d)
  <2>1. /\ dlg[d].go.at # "idle" /\ pin' \in {pin, hostKey}
        /\ UNCHANGED <<keyPathFor, priv, pub, made, hostKey, authorized, keyPath, halted, meddled>>
    BY <1>5, ContactPins DEF Retest
  <2>2. CASE LogsIn(dlg[d].go.run) /\ Goto(d, "save") /\ UNCHANGED keySaid
    BY <1>1, <1>2, <2>1, <2>2, SetupStep
  <2>3. CASE SetupFails(d)
    BY <2>1, <2>3, SaysKeeps
  <2> QED
    BY <1>5, <2>2, <2>3 DEF Retest
<1> QED
  BY <1>3, <1>4, <1>5

\* A key pair generated, a key pasted, or a file chosen, while setups may run.
LEMMA KeyButtons ==
    ASSUME KeysInv, NEW d \in Dialogs, GenerateKey(d) \/ SavePastedKey(d) \/ UseFile(d)
    PROVE  KeysInv'
<1>1. KeysTyped /\ PublicPairs /\ \A o \in Dialogs : Underway(o)
  BY DEF KeysInv
<1>2. dlg[d] \in Dialog /\ keyPathFor[dlg[d].entry] \in Paths
  BY <1>1 DEF KeysTyped, Dialog
<1>3. ASSUME NEW p \in Paths, dlg' = [dlg EXCEPT ![d].path = p] \/ UNCHANGED dlg
      PROVE  /\ dlg' \in [Dialogs -> Dialog]
             /\ \A o \in Dialogs : dlg'[o].go = dlg[o].go
             /\ \A o \in Dialogs : Underway(o)'
  <2>1. CASE dlg' = [dlg EXCEPT ![d].path = p]
    BY <1>1, <2>1, PathSet, PathKeeps
  <2>2. CASE UNCHANGED dlg
    BY <1>1, <2>2 DEF KeysTyped, Underway
  <2> QED
    BY <1>3, <2>1, <2>2
<1>4. CASE GenerateKey(d)
  <2>1. PICK ok \in BOOLEAN, p \in {keyPathFor[dlg[d].entry]} :
             Generated(p, ok) /\ dlg' = [dlg EXCEPT ![d].path = IF ok THEN p ELSE @]
    BY <1>4 DEF GenerateKey
  <2>2. /\ UNCHANGED <<keyPathFor, hostKey, pin, authorized, keyPath, keySaid, halted>>
        /\ meddled' = (meddled \/ Running)
    BY <1>4 DEF GenerateKey
  <2>3. dlg' = [dlg EXCEPT ![d].path = p] \/ UNCHANGED dlg
    <3>1. CASE ok
      BY <2>1, <3>1
    <3>2. CASE ~ok
      BY <1>1, <2>1, <3>2 DEF KeysTyped, Dialog
    <3> QED
      BY <3>1, <3>2
  <2>4. made' \in Nat /\ priv' \in [Paths -> Int] /\ pub' \in [Paths -> Int] /\ PublicPairs'
    BY <1>1, <1>2, <2>1, <2>2, GeneratedPairs
  <2>5. /\ dlg' \in [Dialogs -> Dialog]
        /\ \A o \in Dialogs : dlg'[o].go = dlg[o].go
        /\ \A o \in Dialogs : Underway(o)'
    BY <1>2, <1>3, <2>3
  <2>6. KeysTyped'
    BY <1>1, <2>2, <2>4, <2>5 DEF KeysTyped
  <2> QED
    BY <2>2, <2>4, <2>5, <2>6, KeysChange
<1>5. CASE SavePastedKey(d)
  <2>1. PICK how \in {"done", "failed", "killed"}, p \in {keyPathFor[dlg[d].entry]} :
             /\ priv' = [priv EXCEPT ![p] = IF how = "failed" THEN -1 ELSE made']
             /\ pub' = [pub EXCEPT ![p] = IF how = "done" THEN 0 ELSE @]
             /\ dlg' = [dlg EXCEPT ![d].path = IF how = "done" THEN p ELSE @]
             /\ halted' = (halted \/ how # "done")
    BY <1>5 DEF SavePastedKey
  <2>2. /\ made' = made + 1 /\ meddled' = (meddled \/ Running)
        /\ UNCHANGED <<keyPathFor, hostKey, pin, authorized, keyPath, keySaid>>
    BY <1>5 DEF SavePastedKey
  <2>3. dlg' = [dlg EXCEPT ![d].path = p] \/ UNCHANGED dlg
    <3>1. CASE how = "done"
      BY <2>1, <3>1
    <3>2. CASE how # "done"
      BY <1>1, <2>1, <3>2 DEF KeysTyped, Dialog
    <3> QED
      BY <3>1, <3>2
  <2>4. made' \in Nat /\ priv' \in [Paths -> Int] /\ pub' \in [Paths -> Int] /\ halted' \in BOOLEAN
    <3>1. made' \in Nat /\ (IF how = "failed" THEN -1 ELSE made') \in Int
      BY <1>1, <2>2 DEF KeysTyped
    <3>2. priv' \in [Paths -> Int]
      BY <1>1, <2>1, <3>1 DEF KeysTyped
    <3>3. pub' \in [Paths -> Int]
      BY <1>1, <1>2, <2>1 DEF KeysTyped
    <3>4. halted' \in BOOLEAN
      BY <1>1, <2>1 DEF KeysTyped
    <3> QED
      BY <3>1, <3>2, <3>3, <3>4
  <2>5. PublicPairs'
    <3>1. CASE how = "done"
      <4>1. ~halted' => ~halted
        BY <2>1
      <4>2. \A q \in Paths : pub'[q] # 0 => pub'[q] = pub[q] /\ priv'[q] = priv[q]
        BY <1>1, <2>1, <3>1 DEF KeysTyped
      <4> QED
        BY <1>1, <4>1, <4>2 DEF PublicPairs
    <3>2. CASE how # "done"
      BY <2>1, <3>2 DEF PublicPairs
    <3> QED
      BY <3>1, <3>2
  <2>6. /\ dlg' \in [Dialogs -> Dialog]
        /\ \A o \in Dialogs : dlg'[o].go = dlg[o].go
        /\ \A o \in Dialogs : Underway(o)'
    BY <1>2, <1>3, <2>3
  <2>7. KeysTyped'
    BY <1>1, <2>2, <2>4, <2>6 DEF KeysTyped
  <2> QED
    BY <2>2, <2>5, <2>6, <2>7, KeysChange
<1>6. CASE UseFile(d)
  <2>1. PICK p \in Paths : dlg' = [dlg EXCEPT ![d].path = p]
    BY <1>6 DEF UseFile
  <2>2. UNCHANGED <<keyPathFor, priv, pub, made, hostKey, pin, authorized, keyPath, keySaid, halted, meddled>>
    BY <1>6 DEF UseFile
  <2>3. /\ dlg' \in [Dialogs -> Dialog]
        /\ \A o \in Dialogs : dlg'[o].go = dlg[o].go
        /\ \A o \in Dialogs : Underway(o)'
    BY <1>3, <2>1
  <2>4. KeysTyped'
    BY <1>1, <2>2, <2>3 DEF KeysTyped
  <2>5. PublicPairs'
    BY <1>1, <2>2 DEF PublicPairs
  <2>6. ASSUME ~meddled', NEW o \in Dialogs, (dlg[o].go.at = "save")' PROVE LogsIn(dlg[o].go.run)'
    <3>1. dlg'[o].go = dlg[o].go /\ LogsIn(dlg[o].go.run)
      BY <2>2, <2>3, <2>6 DEF KeysInv
    <3> QED
      BY <2>2, <3>1 DEF LogsIn
  <2> QED
    BY <2>3, <2>4, <2>5, <2>6 DEF KeysInv
<1> QED
  BY <1>4, <1>5, <1>6

\* A dialog of an entry is saved, when no setup of it runs, and opened on another.
LEMMA SaveEntryKeeps ==
    ASSUME KeysInv, NEW d \in Dialogs, SaveEntry(d)
    PROVE  KeysInv'
<1>1. KeysTyped /\ Underway(d)
  BY DEF KeysInv
<1>2. /\ dlg[d].go.at = "idle"
      /\ UNCHANGED <<keyPathFor, priv, pub, made, hostKey, pin, authorized, keySaid, halted, meddled>>
  BY DEF SaveEntry
<1>3. PICK e \in Servers :
          /\ keyPath' = [keyPath EXCEPT ![dlg[d].entry] = dlg[d].path]
          /\ dlg' = [dlg EXCEPT ![d] = [entry |-> e, path |-> keyPath'[e], go |-> @.go]]
  BY DEF SaveEntry
<1>4. dlg[d] \in Dialog
  BY <1>1 DEF KeysTyped
<1>5. keyPath' \in [Servers -> Paths \cup {NoPath}]
  BY <1>1, <1>3, <1>4 DEF KeysTyped, Dialog
<1>6. [entry |-> e, path |-> keyPath'[e], go |-> dlg[d].go] \in Dialog
  BY <1>4, <1>5 DEF Dialog
<1>7. /\ dlg' \in [Dialogs -> Dialog]
      /\ \A o \in Dialogs \ {d} : dlg'[o] = dlg[o]
      /\ dlg'[d].go = dlg[d].go
  BY <1>1, <1>3, <1>6 DEF KeysTyped
<1>8. KeysTyped'
  BY <1>1, <1>2, <1>5, <1>7 DEF KeysTyped
<1>9. Underway(d)' /\ (~meddled /\ dlg'[d].go.at = "save" => LogsIn(dlg[d].go.run)')
  BY <1>2, <1>7 DEF Underway
<1> QED
  BY <1>2, <1>7, <1>8, <1>9, OneSetup

\* A setup starts, on the key file of the dialog or on one it will generate, or
\* starts again when the host's old key is forgotten.
LEMMA StartsSetup ==
    ASSUME KeysInv, NEW d \in Dialogs, NEW g \in Gos, g.only => dlg[d].path \in Paths,
           dlg' = [dlg EXCEPT ![d].go = FirstStep(d, g)],
           UNCHANGED <<keyPathFor, priv, pub, made, hostKey, authorized, keyPath, halted, meddled>>,
           keySaid' \in [Dialogs -> {"nothing", "error", "authorized", "ready"}],
           pin' \in {pin, 0}
    PROVE  KeysInv'
<1>1. KeysTyped
  BY DEF KeysInv
<1>2. /\ FirstStep(d, g) \in Gos /\ FirstStep(d, g).run \in Paths
      /\ FirstStep(d, g).only = g.only /\ FirstStep(d, g).at \in {"auth", "gen", "test"}
  BY <1>1, FirstStepTyped
<1>3. /\ dlg' \in [Dialogs -> Dialog]
      /\ \A o \in Dialogs : dlg'[o].path = dlg[o].path
      /\ \A o \in Dialogs \ {d} : dlg'[o] = dlg[o]
      /\ dlg'[d].go = FirstStep(d, g)
  BY <1>1, <1>2, GoSet
<1>4. pin' \in Nat
  BY <1>1 DEF KeysTyped
<1>5. KeysTyped'
  BY <1>1, <1>3, <1>4 DEF KeysTyped
<1>6. Underway(d)' /\ (~meddled /\ dlg'[d].go.at = "save" => LogsIn(dlg[d].go.run)')
  BY <1>2, <1>3 DEF Underway
<1> QED
  BY <1>3, <1>5, <1>6, OneSetup

\* "Set up", and what is answered to the question about a changed host key.
LEMMA SetUpKeeps ==
    ASSUME KeysInv, NEW d \in Dialogs, SetUp(d) \/ HostKeyReset(d)
    PROVE  KeysInv'
<1>1. KeysTyped /\ Underway(d) /\ "idle" \in GoSteps
  BY DEF KeysInv, GoSteps
<1>2. dlg[d].go \in Gos /\ dlg[d].path \in Paths \cup {NoPath}
  BY <1>1 DEF KeysTyped, Dialog
<1>3. CASE SetUp(d)
  <2>1. PICK only \in BOOLEAN, pw \in {"none", "wrong", "right"} :
            /\ only => dlg[d].path # NoPath
            /\ dlg' = [dlg EXCEPT ![d].go =
                  FirstStep(d, [Resting EXCEPT !.pw = pw, !.offer = TRUE, !.only = only])]
    BY <1>3 DEF SetUp
  <2>2. /\ keySaid' = [keySaid EXCEPT ![d] = "nothing"]
        /\ UNCHANGED <<keyPathFor, priv, pub, made, hostKey, pin, authorized, keyPath, halted, meddled>>
    BY <1>3 DEF SetUp
  <2> DEFINE g == [Resting EXCEPT !.pw = pw, !.offer = TRUE, !.only = only]
  <2>3. g \in Gos /\ g.only = only
    BY DEF Resting, Gos
  <2>4. keySaid' \in [Dialogs -> {"nothing", "error", "authorized", "ready"}]
    BY <1>1, <2>2, SaidTyped
  <2> HIDE DEF g
  <2>5. dlg' = [dlg EXCEPT ![d].go = FirstStep(d, g)]
    BY <2>1 DEF g
  <2>6. g.only => dlg[d].path \in Paths
    BY <1>2, <2>1, <2>3
  <2> QED
    BY <2>2, <2>3, <2>4, <2>5, <2>6, StartsSetup
<1>4. CASE HostKeyReset(d)
  <2>1. /\ dlg[d].go.at = "ask"
        /\ UNCHANGED <<keyPathFor, priv, pub, made, hostKey, authorized, keyPath, halted, meddled>>
    BY <1>4 DEF HostKeyReset
  <2>2. UNCHANGED keySaid /\ keySaid' \in [Dialogs -> {"nothing", "error", "authorized", "ready"}]
    BY <1>1, <1>4 DEF HostKeyReset, KeysTyped
  <2>3. CASE Goto(d, "idle") /\ UNCHANGED <<pin, keySaid>>
    BY <1>1, <2>1, <2>2, <2>3, SetupStep
  <2>4. CASE pin' = 0 /\ dlg' = [dlg EXCEPT ![d].go = FirstStep(d, [dlg[d].go EXCEPT !.offer = FALSE])]
    <3> DEFINE g == [dlg[d].go EXCEPT !.offer = FALSE]
    <3>1. g \in Gos /\ g.only = dlg[d].go.only
      BY <1>2 DEF Gos
    <3>2. g.only => dlg[d].path \in Paths
      BY <1>1, <2>1, <3>1 DEF Underway
    <3>3. dlg' = [dlg EXCEPT ![d].go = FirstStep(d, g)]
      BY <2>4
    <3> HIDE DEF g
    <3> QED
      BY <2>1, <2>2, <2>4, <3>1, <3>2, <3>3, StartsSetup
  <2> QED
    BY <1>4, <2>3, <2>4 DEF HostKeyReset
<1> QED
  BY <1>3, <1>4

\* A setup generates the pair of its key file, which disturbs every other one.
LEMMA SetupGeneratesKeeps ==
    ASSUME KeysInv, NEW d \in Dialogs, SetupGenerates(d)
    PROVE  KeysInv'
<1>1. KeysTyped /\ PublicPairs /\ Underway(d) /\ "idle" \in GoSteps /\ "test" \in GoSteps
  BY DEF KeysInv, GoSteps
<1>2. PICK ok \in BOOLEAN :
          /\ Generated(dlg[d].go.run, ok)
          /\ IF ok THEN Goto(d, "test") /\ UNCHANGED keySaid ELSE Says(d, "error")
  BY DEF SetupGenerates
<1>3. /\ dlg[d].go.at = "gen" /\ dlg[d].go.run \in Paths
      /\ meddled' = (meddled \/ \E o \in Dialogs \ {d} : dlg[o].go.at # "idle")
      /\ UNCHANGED <<keyPathFor, hostKey, pin, authorized, keyPath, halted>>
  BY <1>1 DEF SetupGenerates, Underway
<1>4. made' \in Nat /\ priv' \in [Paths -> Int] /\ pub' \in [Paths -> Int] /\ PublicPairs'
  BY <1>1, <1>2, <1>3, GeneratedPairs
<1>5. PICK at \in {"idle", "test"} : Goto(d, at)
  BY <1>2 DEF Says
<1>6. /\ dlg' \in [Dialogs -> Dialog]
      /\ \A o \in Dialogs \ {d} : dlg'[o] = dlg[o]
      /\ dlg'[d].go.at = at /\ Underway(d)'
  BY <1>1, <1>3, <1>5, SetupGoes
<1>7. keySaid' \in [Dialogs -> {"nothing", "error", "authorized", "ready"}]
  <2>1. CASE ok
    BY <1>1, <1>2, <2>1 DEF KeysTyped
  <2>2. CASE ~ok
    BY <1>1, <1>2, <2>2, SaidTyped DEF Says
  <2> QED
    BY <2>1, <2>2
<1>8. KeysTyped'
  BY <1>1, <1>3, <1>4, <1>6, <1>7 DEF KeysTyped
<1>9. ASSUME NEW o \in Dialogs PROVE Underway(o)'
  BY <1>6 DEF KeysInv, Underway
<1>10. ~meddled' => \A o \in Dialogs : dlg'[o].go.at # "save"
  BY <1>3, <1>5, <1>6
<1> QED
  BY <1>4, <1>8, <1>9, <1>10 DEF KeysInv

\* A setup whose key logged in saves its entry, or fails to.
LEMMA SaveReadyKeeps ==
    ASSUME KeysInv, NEW d \in Dialogs, SaveReady(d)
    PROVE  KeysInv'
<1>1. KeysTyped /\ Underway(d) /\ dlg[d] \in Dialog
  BY DEF KeysInv, KeysTyped
<1>2. /\ dlg[d].go.at = "save" /\ dlg[d].go.run \in Paths
      /\ dlg' = [dlg EXCEPT ![d].path = dlg[d].go.run, ![d].go = Resting]
      /\ UNCHANGED <<keyPathFor, priv, pub, made, hostKey, pin, authorized, halted, meddled>>
  BY <1>1 DEF SaveReady, Underway
<1>3. Resting \in Gos /\ Resting.at = "idle"
  BY DEF Resting, Gos
<1>4. [dlg[d] EXCEPT !.path = dlg[d].go.run, !.go = Resting] \in Dialog
  BY <1>1, <1>2, <1>3 DEF Dialog
<1>5. [dlg[d] EXCEPT !.path = dlg[d].go.run, !.go = Resting].go = Resting
  BY <1>1 DEF Dialog
<1>6. dlg' = [dlg EXCEPT ![d] = [dlg[d] EXCEPT !.path = dlg[d].go.run, !.go = Resting]]
  BY <1>1, <1>2 DEF KeysTyped
<1>7. /\ dlg' \in [Dialogs -> Dialog] /\ dlg'[d].go = Resting
      /\ \A o \in Dialogs \ {d} : dlg'[o] = dlg[o]
  BY <1>1, <1>4, <1>5, <1>6 DEF KeysTyped
<1>8. /\ keyPath' \in [Servers -> Paths \cup {NoPath}]
      /\ keySaid' \in [Dialogs -> {"nothing", "error", "authorized", "ready"}]
  <2>1. CASE /\ keyPath' = [keyPath EXCEPT ![dlg[d].entry] = dlg[d].go.run]
             /\ keySaid' = [keySaid EXCEPT ![d] = "ready"]
    BY <1>1, <1>2, <2>1, SaidTyped DEF KeysTyped
  <2>2. CASE UNCHANGED keyPath /\ keySaid' = [keySaid EXCEPT ![d] = "error"]
    BY <1>1, <2>2, SaidTyped DEF KeysTyped
  <2> QED
    BY <2>1, <2>2 DEF SaveReady
<1>9. KeysTyped'
  BY <1>1, <1>2, <1>7, <1>8 DEF KeysTyped
<1>10. Underway(d)' /\ (~meddled /\ dlg'[d].go.at = "save" => LogsIn(dlg[d].go.run)')
  BY <1>3, <1>7 DEF Underway
<1> QED
  BY <1>2, <1>7, <1>9, <1>10, OneSetup

\* Every setup under way is of one key file, and one that is about to save has a
\* key that logs in, unless a key or the host changed under it.
THEOREM KeysInvariance == KeysSpec => []KeysInv
<1>1. KeysInit => KeysInv
  <2> SUFFICES ASSUME KeysInit PROVE KeysInv
    OBVIOUS
  <2>1. Resting \in Gos /\ Resting.at = "idle"
    BY DEF Resting, Gos
  <2>2. dlg \in [Dialogs -> Dialog] /\ \A d \in Dialogs : dlg[d].go = Resting
    <3>1. dlg \in [Dialogs -> {[entry |-> e, path |-> NoPath, go |-> Resting] : e \in Servers}]
      BY DEF KeysInit
    <3>2. ASSUME NEW d \in Dialogs PROVE dlg[d] \in Dialog /\ dlg[d].go = Resting
      <4>1. PICK e \in Servers : dlg[d] = [entry |-> e, path |-> NoPath, go |-> Resting]
        BY <3>1
      <4> QED
        BY <2>1, <4>1 DEF Dialog
    <3> QED
      BY <3>1, <3>2
  <2>3. KeysTyped
    <3>1. priv \in [Paths -> Int] /\ pub \in [Paths -> Int] /\ hostKey \in Nat \ {0}
      BY DEF KeysInit
    <3>2. /\ keyPath \in [Servers -> Paths \cup {NoPath}]
          /\ keySaid \in [Dialogs -> {"nothing", "error", "authorized", "ready"}]
      BY DEF KeysInit
    <3> QED
      BY <2>2, <3>1, <3>2 DEF KeysInit, KeysTyped
  <2>4. PublicPairs
    BY DEF KeysInit, PublicPairs
  <2> QED
    BY <2>1, <2>2, <2>3, <2>4 DEF KeysInv, Underway
<1>2. KeysInv /\ [KeysNext]_keyVars => KeysInv'
  <2> SUFFICES ASSUME KeysInv, [KeysNext]_keyVars PROVE KeysInv'
    OBVIOUS
  <2>1. CASE UNCHANGED keyVars
    BY <2>1 DEF keyVars, KeysInv, KeysTyped, PublicPairs, Underway, LogsIn
  <2>2. CASE Reinstall
    <3>1. /\ hostKey' = hostKey + 1 /\ authorized' = {} /\ meddled' = (meddled \/ Running)
          /\ UNCHANGED <<keyPathFor, priv, pub, made, pin, keyPath, dlg, keySaid, halted>>
      BY <2>2 DEF Reinstall
    <3>2. KeysTyped' /\ PublicPairs' /\ \A o \in Dialogs : Underway(o)'
      BY <3>1 DEF KeysInv, KeysTyped, PublicPairs, Underway
    <3> QED
      BY <3>1, <3>2, KeysChange
  <2> QED
    BY <2>1, <2>2, KeyButtons, SaveEntryKeeps, SetUpKeeps, SetupGeneratesKeeps, NetworkSteps,
       SaveReadyKeeps DEF KeysNext
<1> QED
  BY <1>1, <1>2, PTL DEF KeysSpec

\* What Authorize installs is the key that will log in: a public file belongs to
\* the private file beside it, unless a paste was cut short.
THEOREM PublicIsOfPrivate == KeysSpec => []PublicPairs
<1>1. KeysInv => PublicPairs
  BY DEF KeysInv
<1> QED
  BY <1>1, KeysInvariance, PTL

\* "Ready" is said of an entry whose saved key logs in at the pinned host, if
\* nobody changed a key or the host while its setup ran.
THEOREM ReadyIsTrue == KeysSpec => ReadyLogsIn
<1> DEFINE Ready == \A d \in Dialogs, p \in Paths :
          keySaid'[d] = "ready" /\ keySaid[d] # "ready" /\ ~meddled' /\ p = keyPath'[dlg[d].entry]
            => LogsIn(p)'
<1>1. KeysInv /\ [KeysNext]_keyVars => [Ready]_keyVars
  <2> SUFFICES ASSUME KeysInv, KeysNext, NEW d \in Dialogs, NEW p \in Paths,
                      keySaid'[d] = "ready", keySaid[d] # "ready", ~meddled',
                      p = keyPath'[dlg[d].entry]
               PROVE  LogsIn(p)'
    OBVIOUS
  <2>1. KeysTyped
    BY DEF KeysInv
  <2>2. ASSUME NEW o \in Dialogs, NEW what \in {"nothing", "error", "authorized"},
               keySaid' = [keySaid EXCEPT ![o] = what]
        PROVE  FALSE
    BY <2>1, <2>2 DEF KeysTyped
  <2>3. ASSUME UNCHANGED keySaid PROVE FALSE
    BY <2>3
  <2>4. PICK o \in Dialogs : SaveReady(o)
    <3>1. ASSUME Reinstall PROVE FALSE
      BY <2>3, <3>1 DEF Reinstall
    <3>2. ASSUME NEW o \in Dialogs,
                 GenerateKey(o) \/ SavePastedKey(o) \/ UseFile(o) \/ SaveEntry(o) \/ SetUp(o)
          PROVE  FALSE
      BY <2>2, <2>3, <3>2 DEF GenerateKey, SavePastedKey, UseFile, SaveEntry, SetUp
    <3>3. ASSUME NEW o \in Dialogs,
                 \/ SetupGenerates(o) \/ FirstTest(o) \/ AuthorizeKey(o) \/ Retest(o)
                 \/ HostKeyReset(o)
          PROVE  FALSE
      BY <2>2, <2>3, <3>3
         DEF SetupGenerates, FirstTest, AuthorizeKey, Retest, HostKeyReset, Says, SetupFails
    <3> QED
      BY <3>1, <3>2, <3>3 DEF KeysNext
  <2>5. /\ dlg[o].go.at = "save"
        /\ UNCHANGED <<priv, hostKey, pin, authorized, meddled>>
    BY <2>4 DEF SaveReady
  <2>6. /\ keyPath' = [keyPath EXCEPT ![dlg[o].entry] = dlg[o].go.run]
        /\ keySaid' = [keySaid EXCEPT ![o] = "ready"]
    BY <2>2, <2>4 DEF SaveReady
  <2>7. o = d
    BY <2>1, <2>6 DEF KeysTyped
  <2>8. p = dlg[d].go.run
    BY <2>1, <2>6, <2>7 DEF KeysTyped, Dialog
  <2>9. LogsIn(p)
    BY <2>5, <2>7, <2>8 DEF KeysInv
  <2> QED
    BY <2>5, <2>9 DEF LogsIn
<1> QED
  BY <1>1, KeysInvariance, PTL DEF ReadyLogsIn, KeysSpec
-----------------------------------------------------------------------------
(* The store.                                                              *)

StoreTyped ==
    /\ present \subseteq All /\ lastTag \in Nat
    /\ kept \in [All -> SUBSET Nat] /\ live \in [All -> Nat]
    /\ roll \in [tag : Nat, targets : SUBSET All, all : SUBSET All, failed : SUBSET All]

\* A dataset the rollback is through with is back, or failed, or has no such
\* snapshot.
StoreInv ==
    /\ StoreTyped
    /\ ~ran => \A d \in roll.all \ (roll.targets \cup roll.failed) :
                  roll.tag \in kept[d] => live[d] = roll.tag

\* A step that leaves the rollback and what is in the store alone.
LEMMA StoreStands ==
    ASSUME StoreInv, UNCHANGED <<present, kept, live, lastTag, roll>>, ran => ran'
    PROVE  StoreInv'
BY DEF StoreInv, StoreTyped

\* Every dataset a rollback is through with is back at the tag, or counted as
\* failed, or has no such snapshot, while nobody else used the store.
THEOREM StoreInvariance == StoreSpec => []StoreInv
<1>1. StoreInit => StoreInv
  <2> SUFFICES ASSUME StoreInit PROVE StoreInv
    OBVIOUS
  <2>1. NoRoll \in [tag : Nat, targets : SUBSET All, all : SUBSET All, failed : SUBSET All]
    BY DEF NoRoll
  <2>2. present \subseteq All /\ lastTag \in Nat /\ kept \in [All -> SUBSET Nat] /\ live \in [All -> Nat]
    BY DEF StoreInit, All
  <2> QED
    BY <2>1, <2>2 DEF StoreInit, StoreInv, StoreTyped, NoRoll
<1>2. StoreInv /\ [StoreNext]_storeVars => StoreInv'
  <2> SUFFICES ASSUME StoreInv, [StoreNext]_storeVars PROVE StoreInv'
    OBVIOUS
  <2>1. StoreTyped /\ NoRoll \in [tag : Nat, targets : SUBSET All, all : SUBSET All, failed : SUBSET All]
    BY DEF StoreInv, NoRoll
  <2>2. CASE UNCHANGED storeVars \/ EngineToggles \/ Refresh
    <3>1. UNCHANGED <<present, kept, live, lastTag, roll>> /\ (ran' = ran \/ ran' = TRUE)
      BY <2>2 DEF storeVars, data, EngineToggles, Refresh
    <3> QED
      BY <3>1, StoreStands
  <2>3. CASE EngineWorks
    <3>1. PICK d \in Layers :
          \/ present' = present \cup {d} /\ d \notin present /\ UNCHANGED <<kept, live>>
          \/ /\ d \in present /\ present' = present \ {d}
             /\ kept' = [kept EXCEPT ![d] = {}] /\ live' = [live EXCEPT ![d] = 0]
          \/ \E o \in present : live' = [live EXCEPT ![o] = 0] /\ UNCHANGED <<present, kept>>
      BY <2>3 DEF EngineWorks
    <3>2. ran' = TRUE /\ UNCHANGED <<lastTag, roll>> /\ d \in All
      BY <2>3 DEF EngineWorks, All, data
    <3>3. StoreTyped'
      BY <2>1, <3>1, <3>2 DEF StoreTyped
    <3> QED
      BY <3>2, <3>3 DEF StoreInv
  <2>4. CASE SnapshotStore
    <3>1. /\ lastTag' = lastTag + 1 /\ ran' = TRUE /\ UNCHANGED <<present, roll>> /\ lastTag' \in Nat
          /\ kept' = [d \in All |-> IF d \in present THEN kept[d] \cup {lastTag'} ELSE kept[d]]
          /\ live' = [d \in All |-> IF d \in present THEN lastTag' ELSE live[d]]
      BY <2>1, <2>4 DEF SnapshotStore, StoreTyped
    <3>2. StoreTyped'
      BY <2>1, <3>1 DEF StoreTyped
    <3> QED
      BY <3>1, <3>2 DEF StoreInv
  <2>5. CASE RollbackStore
    <3>1. PICK cli \in BOOLEAN, tag \in 1 .. MaxTag :
             roll' = IF storeSaid' = "nothing"
                       THEN [tag |-> tag, targets |-> RollbackTargets, all |-> present, failed |-> {}]
                       ELSE NoRoll
      BY <2>5 DEF RollbackStore
    <3>2. UNCHANGED <<present, kept, live, lastTag>>
      BY <2>5 DEF RollbackStore, data
    <3>3. CASE roll' = NoRoll
      BY <2>1, <3>2, <3>3 DEF StoreInv, StoreTyped, NoRoll
    <3>4. CASE roll' = [tag |-> tag, targets |-> present, all |-> present, failed |-> {}]
      <4>1. tag \in Nat /\ roll'.all \ (roll'.targets \cup roll'.failed) = {}
        BY <3>4, StoreAssumption
      <4>2. roll' \in [tag : Nat, targets : SUBSET All, all : SUBSET All, failed : SUBSET All]
        BY <2>1, <3>4, <4>1 DEF StoreTyped
      <4> QED
        BY <2>1, <3>2, <4>1, <4>2 DEF StoreInv, StoreTyped
    <3> QED
      BY <3>1, <3>3, <3>4 DEF RollbackTargets
  <2>6. CASE RollbackOne
    <3>1. PICK d \in roll.targets :
          \/ /\ roll.tag \in kept[d] /\ d \in present
             /\ live' = [live EXCEPT ![d] = roll.tag]
             /\ kept' = [kept EXCEPT ![d] = {t \in @ : t <= roll.tag}]
             /\ roll' = [roll EXCEPT !.targets = @ \ {d}]
          \/ /\ roll.tag \notin kept[d]
             /\ roll' = [roll EXCEPT !.targets = @ \ {d}] /\ UNCHANGED <<kept, live>>
          \/ /\ roll.tag \in kept[d]
             /\ roll' = [roll EXCEPT !.targets = @ \ {d}, !.failed = @ \cup {d}]
             /\ \E lost \in SUBSET {t \in kept[d] : t > roll.tag} :
                   /\ kept' = [kept EXCEPT ![d] = @ \ lost]
                   /\ \/ UNCHANGED live
                      \/ /\ lost = {t \in kept[d] : t > roll.tag}
                         /\ live' = [live EXCEPT ![d] = roll.tag]
      BY <2>6 DEF RollbackOne
    <3>2. UNCHANGED <<present, lastTag, ran>> /\ d \in All
      BY <2>1, <2>6 DEF RollbackOne, StoreTyped
    <3>3. /\ roll' \in [tag : Nat, targets : SUBSET All, all : SUBSET All, failed : SUBSET All]
          /\ roll'.tag = roll.tag /\ roll'.all = roll.all /\ roll'.targets = roll.targets \ {d}
          /\ roll'.failed \in {roll.failed, roll.failed \cup {d}}
          /\ d \in roll'.failed \/ roll.tag \notin kept[d] \/ live' = [live EXCEPT ![d] = roll.tag]
      <4>1. CASE roll' = [roll EXCEPT !.targets = @ \ {d}]
        BY <2>1, <3>1, <3>2, <4>1 DEF StoreTyped
      <4>2. CASE roll' = [roll EXCEPT !.targets = @ \ {d}, !.failed = @ \cup {d}]
        BY <2>1, <3>2, <4>2 DEF StoreTyped
      <4> QED
        BY <3>1, <4>1, <4>2
    <3>4. /\ kept' \in [All -> SUBSET Nat] /\ live' \in [All -> Nat]
          /\ \A o \in All \ {d} : kept'[o] = kept[o] /\ live'[o] = live[o]
      <4>1. CASE UNCHANGED <<kept, live>>
        BY <2>1, <4>1 DEF StoreTyped
      <4>2. CASE /\ live' = [live EXCEPT ![d] = roll.tag]
                 /\ kept' = [kept EXCEPT ![d] = {t \in @ : t <= roll.tag}]
        <5>1. roll.tag \in Nat /\ {t \in kept[d] : t <= roll.tag} \in SUBSET Nat
          BY <2>1, <3>2 DEF StoreTyped
        <5> QED
          BY <2>1, <3>2, <4>2, <5>1 DEF StoreTyped
      <4>3. ASSUME NEW lost, kept' = [kept EXCEPT ![d] = @ \ lost],
                   live' \in {live, [live EXCEPT ![d] = roll.tag]}
            PROVE  /\ kept' \in [All -> SUBSET Nat] /\ live' \in [All -> Nat]
                   /\ \A o \in All \ {d} : kept'[o] = kept[o] /\ live'[o] = live[o]
        <5>1. kept[d] \ lost \in SUBSET Nat /\ roll.tag \in Nat
          BY <2>1, <3>2 DEF StoreTyped
        <5> QED
          BY <2>1, <3>2, <4>3, <5>1 DEF StoreTyped
      <4> QED
        BY <3>1, <4>1, <4>2, <4>3
    <3>5. d \in roll'.failed \/ (roll'.tag \in kept'[d] => live'[d] = roll'.tag)
      BY <2>1, <3>1, <3>2, <3>3 DEF StoreTyped
    <3>6. StoreTyped'
      BY <2>1, <3>2, <3>3, <3>4 DEF StoreTyped
    <3>7. ASSUME ~ran, NEW o \in roll'.all \ (roll'.targets \cup roll'.failed), roll'.tag \in kept'[o]
          PROVE  live'[o] = roll'.tag
      <4>1. CASE o = d
        BY <3>5, <3>7, <4>1
      <4>2. CASE o # d
        BY <3>3, <3>4, <3>7, <4>2 DEF StoreInv
      <4> QED
        BY <4>1, <4>2
    <3> QED
      BY <3>2, <3>6, <3>7 DEF StoreInv
  <2>7. CASE RollbackEnds
    <3>1. roll' = NoRoll /\ UNCHANGED <<present, kept, live, lastTag>>
      BY <2>7 DEF RollbackEnds, data
    <3> QED
      BY <2>1, <3>1 DEF StoreInv, StoreTyped, NoRoll
  <2> QED
    BY <2>2, <2>3, <2>4, <2>5, <2>6, <2>7 DEF StoreNext
<1> QED
  BY <1>1, <1>2, PTL DEF StoreSpec

\* A rollback that reports no error has every dataset of the store back that has a
\* snapshot of that name, the layers as well.
THEOREM RollbacksAreWhole == StoreSpec => []RollbackIsWhole
<1>1. StoreInv => RollbackIsWhole
  BY DEF StoreInv, RollbackIsWhole
<1> QED
  BY <1>1, StoreInvariance, PTL
-----------------------------------------------------------------------------
(* The explorer.                                                           *)

\* While the listing is of the directory on the path line, the versions that are
\* listed, or that are being read, are those of the selected entry there.
ExplorerInv ==
    /\ \A f \in files : f \in [path : {f.path}, latest : BOOLEAN]
    /\ fresh /\ sel # NoPath0 =>
        /\ vers # NoPath0 => vers = Append(rel, sel)
        /\ \A f \in files : f.latest => f.path = Append(rel, sel)
    /\ RestoreIsListed

\* The answers that are older than the last question keep their shape, and are not
\* taken for the latest.
LEMMA AgedFiles ==
    ASSUME \A f \in files : f \in [path : {f.path}, latest : BOOLEAN], NEW p, NEW flights,
           flights = Aged(files) \cup {[path |-> p, latest |-> TRUE]}
    PROVE  \A f \in flights : f \in [path : {f.path}, latest : BOOLEAN] /\ (f.latest => f.path = p)
<1> SUFFICES ASSUME NEW f \in flights
             PROVE  f \in [path : {f.path}, latest : BOOLEAN] /\ (f.latest => f.path = p)
  OBVIOUS
<1>1. CASE f = [path |-> p, latest |-> TRUE]
  BY <1>1
<1>2. CASE f \in Aged(files)
  <2>1. PICK g \in files : f = [g EXCEPT !.latest = FALSE]
    BY <1>2 DEF Aged
  <2>2. g \in [path : {g.path}, latest : BOOLEAN]
    OBVIOUS
  <2> QED
    BY <2>1, <2>2
<1> QED
  BY <1>1, <1>2

\* While the listing on the screen is of the directory on the path line, what is
\* listed, or on its way, are the versions of the selected entry there.
THEOREM ExplorerInvariance == ExplorerSpec => []ExplorerInv
<1>1. ExplorerInit => ExplorerInv
  BY DEF ExplorerInit, ExplorerInv, RestoreIsListed
<1>2. ExplorerInv /\ [ExplorerNext]_explorerVars => ExplorerInv'
  <2> SUFFICES ASSUME ExplorerInv, [ExplorerNext]_explorerVars PROVE ExplorerInv'
    OBVIOUS
  <2>1. \A f \in files : f \in [path : {f.path}, latest : BOOLEAN]
    BY DEF ExplorerInv
  <2>2. CASE UNCHANGED explorerVars \/ PickVersion
    BY <2>2 DEF explorerVars, PickVersion, Click, ExplorerInv, RestoreIsListed
  <2>3. CASE SelectEntry
    <3>1. PICK e \in entries :
             /\ sel' = e.name /\ vers' = NoPath0
             /\ files' = Aged(files) \cup {[path |-> Append(rel, e.name), latest |-> TRUE]}
      BY <2>3 DEF SelectEntry
    <3>2. UNCHANGED <<rel, question>>
      BY <2>3 DEF SelectEntry, Click
    <3>3. \A f \in files' : /\ f \in [path : {f.path}, latest : BOOLEAN]
                            /\ f.latest => f.path = Append(rel, e.name)
      BY <2>1, <3>1, AgedFiles
    <3> QED
      BY <3>1, <3>2, <3>3 DEF ExplorerInv, RestoreIsListed
  <2>4. CASE OpenDir \/ GoUp \/ ReadAgain \/ ChooseSource
    <3>1. fresh' = FALSE /\ UNCHANGED <<files, question>>
      BY <2>4 DEF OpenDir, GoUp, ReadAgain, ChooseSource, LoadDir, Click
    <3> QED
      BY <3>1 DEF ExplorerInv, RestoreIsListed
  <2>5. CASE AskRestore
    <3>1. /\ sel # NoPath0 /\ vers # NoPath0
          /\ question' = [path |-> Append(rel, sel), shown |-> vers, settled |-> fresh]
          /\ UNCHANGED <<rel, fresh, sel, vers, files>>
      BY <2>5 DEF AskRestore
    <3>2. RestoreIsListed'
      BY <3>1 DEF ExplorerInv, RestoreIsListed
    <3> QED
      BY <3>1, <3>2 DEF ExplorerInv
  <2>6. CASE AnswerRestore
    <3>1. question' = NoPath0 /\ UNCHANGED <<sel, vers, files>>
      BY <2>6 DEF AnswerRestore
    <3>2. fresh' = FALSE \/ UNCHANGED <<rel, fresh>>
      BY <2>6 DEF AnswerRestore, LoadDir
    <3> QED
      BY <3>1, <3>2 DEF ExplorerInv, RestoreIsListed
  <2>7. CASE DirLands
    <3>1. /\ UNCHANGED <<rel, files, question>>
          /\ sel' = NoPath0 \/ UNCHANGED <<fresh, sel, vers>>
      BY <2>7 DEF DirLands
    <3> QED
      BY <3>1 DEF ExplorerInv, RestoreIsListed
  <2>8. CASE VersionsLand
    <3>1. PICK f \in files : files' = files \ {f} /\ vers' = IF f.latest THEN f.path ELSE vers
      BY <2>8 DEF VersionsLand
    <3>2. UNCHANGED <<rel, fresh, sel, question>>
      BY <2>8 DEF VersionsLand
    <3> QED
      BY <3>1, <3>2 DEF ExplorerInv, RestoreIsListed
  <2> QED
    BY <2>2, <2>3, <2>4, <2>5, <2>6, <2>7, <2>8 DEF ExplorerNext
<1> QED
  BY <1>1, <1>2, PTL DEF ExplorerSpec

\* A restore asked for on a settled listing is of the very file whose versions are
\* listed.
THEOREM RestoresTheListed == ExplorerSpec => []RestoreIsListed
<1>1. ExplorerInv => RestoreIsListed
  BY DEF ExplorerInv
<1> QED
  BY <1>1, ExplorerInvariance, PTL
-----------------------------------------------------------------------------
(* The window: what is shown beside the list.                              *)

\* Answers under way, to a question about a dataset.
Flights(S) == \A f \in S : DOMAIN f = {"ds", "latest"} /\ f.latest \in BOOLEAN

Fields == {"all", "listErr", "query", "collapsed", "seeded", "visible", "cursor", "selected",
           "lastShown", "pane", "dossiers", "snaps", "lists", "counts", "editing", "form",
           "rw", "popup"}

\* Without Edit no controls are left over from an earlier row.
Window(g) ==
    /\ DOMAIN g = Fields
    /\ Flights(g.dossiers) /\ Flights(g.lists)
    /\ g.editing \in BOOLEAN /\ g.listErr \in BOOLEAN
    /\ ~g.editing => g.form = NoName

\* The snapshots are those of the row under the cursor, or will be.
SnapsFollow(g) ==
    /\ g.snaps = CurName(g) \/ [ds |-> CurName(g), latest |-> TRUE] \in g.lists
    /\ \A f \in g.lists : f.latest => f.ds = CurName(g)

\* The dossier is that of the row under the cursor, and no answer that still counts
\* is about another.
PaneFollows(g) ==
    /\ g.lastShown = g.cursor /\ g.pane.ds = CurName(g)
    /\ \A f \in g.dossiers : f.latest => f.ds = CurName(g)

\* Where there are rows, the selection is the cursor and the right side is about it.
About(g) ==
    g.visible # <<>> =>
        /\ g.selected = g.cursor
        /\ SnapsFollow(g)
        /\ g.editing => g.form = CurName(g)
        /\ ~g.editing /\ ~g.listErr => PaneFollows(g)

WindowInv(g) == Window(g) /\ About(g)

\* An answer that is asked for again is late.
LEMMA LateIsLate ==
    ASSUME NEW S, Flights(S)
    PROVE  Flights(Late(S)) /\ \A f \in Late(S) : ~f.latest
<1>1. ASSUME NEW f \in Late(S)
      PROVE  DOMAIN f = {"ds", "latest"} /\ f.latest = FALSE
  <2>1. PICK e \in S : f = [e EXCEPT !.latest = FALSE]
    BY DEF Late
  <2> QED
    BY <2>1 DEF Flights
<1> QED
  BY <1>1 DEF Flights

\* A question that is asked now.
LEMMA AskedNow ==
    ASSUME NEW S, Flights(S), NEW d
    PROVE  /\ Flights(Late(S) \cup {[ds |-> d, latest |-> TRUE]})
           /\ \A f \in Late(S) \cup {[ds |-> d, latest |-> TRUE]} : f.latest => f.ds = d
<1>1. Flights(Late(S)) /\ \A f \in Late(S) : ~f.latest
  BY LateIsLate
<1> DEFINE read == [ds |-> d, latest |-> TRUE]
<1>2. DOMAIN read = {"ds", "latest"} /\ read.latest = TRUE /\ read.ds = d
  OBVIOUS
<1> HIDE DEF read
<1>3. ASSUME NEW f \in Late(S) \cup {read}
      PROVE  DOMAIN f = {"ds", "latest"} /\ f.latest \in BOOLEAN /\ (f.latest => f.ds = d)
  BY <1>1, <1>2 DEF Flights
<1> QED
  BY <1>3 DEF Flights, read

\* What no one of the above reads may change.
LEMMA Unseen ==
    ASSUME NEW g, NEW h, WindowInv(g), DOMAIN h = Fields,
           h.visible = g.visible, h.cursor = g.cursor, h.selected = g.selected,
           h.lastShown = g.lastShown, h.pane = g.pane, h.dossiers = g.dossiers,
           h.snaps = g.snaps, h.lists = g.lists, h.editing = g.editing, h.form = g.form,
           h.listErr = g.listErr
    PROVE  WindowInv(h)
<1>1. CurName(h) = CurName(g)
  BY DEF CurName
<1> QED
  BY <1>1 DEF WindowInv, Window, About, SnapsFollow, PaneFollows

\* setDossier asks for the row it is called with, and says so.
LEMMA ShowsIt ==
    ASSUME NEW g, DOMAIN g = Fields, Flights(g.dossiers)
    PROVE  LET h == ShowDossier(g, g.cursor) IN
           /\ DOMAIN h = Fields /\ Flights(h.dossiers) /\ PaneFollows(h)
           /\ h.visible = g.visible /\ h.cursor = g.cursor /\ h.selected = g.selected
           /\ h.snaps = g.snaps /\ h.lists = g.lists /\ h.editing = g.editing
           /\ h.form = g.form /\ h.listErr = g.listErr
<1> DEFINE d == g.visible[g.cursor].ds
           h == ShowDossier(g, g.cursor)
           k == [g EXCEPT !.lastShown = g.cursor, !.dossiers = Late(@)]
<1>1. DOMAIN g = Fields /\ Flights(g.dossiers)
  OBVIOUS
<1>2. /\ DOMAIN k = Fields /\ k.lastShown = g.cursor /\ k.dossiers = Late(g.dossiers)
      /\ k.visible = g.visible /\ k.cursor = g.cursor /\ k.selected = g.selected
      /\ k.snaps = g.snaps /\ k.lists = g.lists /\ k.editing = g.editing
      /\ k.form = g.form /\ k.listErr = g.listErr
  BY <1>1 DEF Fields
<1>3. h = IF g.cursor \notin DOMAIN g.visible THEN [k EXCEPT !.pane = Note]
          ELSE [k EXCEPT !.pane = Pane("loading", d),
                         !.dossiers = @ \cup {[ds |-> d, latest |-> TRUE]}]
  BY DEF ShowDossier
<1> HIDE DEF h, k
<1>4. CASE g.cursor \notin DOMAIN g.visible
  <2>1. h = [k EXCEPT !.pane = Note]
    BY <1>3, <1>4
  <2>2. /\ DOMAIN h = Fields /\ h.lastShown = g.cursor /\ h.dossiers = Late(g.dossiers)
        /\ h.visible = g.visible /\ h.cursor = g.cursor /\ h.selected = g.selected
        /\ h.snaps = g.snaps /\ h.lists = g.lists /\ h.editing = g.editing
        /\ h.form = g.form /\ h.listErr = g.listErr /\ h.pane = Note
    BY <1>2, <2>1 DEF Fields
  <2>3. CurName(h) = NoName /\ Note.ds = NoName
    BY <1>4, <2>2 DEF CurName, Note, Pane
  <2>4. Flights(h.dossiers) /\ \A f \in h.dossiers : ~f.latest
    BY <1>1, <2>2, LateIsLate
  <2>5. PaneFollows(h)
    BY <2>2, <2>3, <2>4 DEF PaneFollows
  <2> QED
    BY <2>2, <2>4, <2>5 DEF h
<1>5. CASE g.cursor \in DOMAIN g.visible
  <2>1. h = [k EXCEPT !.pane = Pane("loading", d),
                      !.dossiers = @ \cup {[ds |-> d, latest |-> TRUE]}]
    BY <1>3, <1>5
  <2>2. /\ DOMAIN h = Fields /\ h.lastShown = g.cursor
        /\ h.dossiers = Late(g.dossiers) \cup {[ds |-> d, latest |-> TRUE]}
        /\ h.visible = g.visible /\ h.cursor = g.cursor /\ h.selected = g.selected
        /\ h.snaps = g.snaps /\ h.lists = g.lists /\ h.editing = g.editing
        /\ h.form = g.form /\ h.listErr = g.listErr /\ h.pane = Pane("loading", d)
    BY <1>2, <2>1 DEF Fields
  <2>3. CurName(h) = d /\ Pane("loading", d).ds = d
    BY <1>5, <2>2 DEF CurName, Pane
  <2>4. Flights(h.dossiers) /\ \A f \in h.dossiers : f.latest => f.ds = d
    <3> HIDE DEF d
    <3> DEFINE D == g.dossiers
    <3>1. Flights(D)
      BY <1>1
    <3>2. h.dossiers = Late(D) \cup {[ds |-> d, latest |-> TRUE]}
      BY <2>2
    <3> HIDE DEF D
    <3>3. /\ Flights(Late(D) \cup {[ds |-> d, latest |-> TRUE]})
          /\ \A f \in Late(D) \cup {[ds |-> d, latest |-> TRUE]} : f.latest => f.ds = d
      BY <3>1, AskedNow
    <3> QED
      BY <3>2, <3>3
  <2>5. PaneFollows(h)
    BY <2>2, <2>3, <2>4 DEF PaneFollows
  <2> QED
    BY <2>2, <2>4, <2>5 DEF h
<1> QED
  BY <1>4, <1>5

\* reloadSnaps asks for those of the row under the cursor.
LEMMA AsksForSnaps ==
    ASSUME NEW g, Window(g)
    PROVE  LET h == ReloadSnaps(g) IN
           /\ Window(h) /\ SnapsFollow(h)
           /\ h.visible = g.visible /\ h.cursor = g.cursor /\ h.selected = g.selected
           /\ h.lastShown = g.lastShown /\ h.pane = g.pane /\ h.dossiers = g.dossiers
           /\ h.editing = g.editing /\ h.form = g.form /\ h.listErr = g.listErr
<1> DEFINE d == CurName(g)
           h == ReloadSnaps(g)
           k == [g EXCEPT !.lists = Late(@)]
<1>1. DOMAIN g = Fields /\ Flights(g.lists)
  BY DEF Window
<1>2. /\ DOMAIN k = Fields /\ k.lists = Late(g.lists) /\ k.snaps = g.snaps
      /\ k.visible = g.visible /\ k.cursor = g.cursor /\ k.selected = g.selected
      /\ k.lastShown = g.lastShown /\ k.pane = g.pane /\ k.dossiers = g.dossiers
      /\ k.editing = g.editing /\ k.form = g.form /\ k.listErr = g.listErr
  BY <1>1 DEF Fields
<1>3. h = IF d = NoName THEN [k EXCEPT !.snaps = NoName]
          ELSE [k EXCEPT !.lists = @ \cup {[ds |-> d, latest |-> TRUE]}]
  BY DEF ReloadSnaps
<1> HIDE DEF h, k
<1>4. /\ DOMAIN h = Fields
      /\ h.lists = IF d = NoName THEN Late(g.lists) ELSE Late(g.lists) \cup {[ds |-> d, latest |-> TRUE]}
      /\ d = NoName => h.snaps = NoName
      /\ h.visible = g.visible /\ h.cursor = g.cursor /\ h.selected = g.selected
      /\ h.lastShown = g.lastShown /\ h.pane = g.pane /\ h.dossiers = g.dossiers
      /\ h.editing = g.editing /\ h.form = g.form /\ h.listErr = g.listErr
  BY <1>2, <1>3 DEF Fields
<1>5. CurName(h) = d
  BY <1>4 DEF CurName
<1> HIDE DEF d
<1>6. /\ Flights(h.lists) /\ \A f \in h.lists : f.latest => f.ds = d
      /\ d # NoName => [ds |-> d, latest |-> TRUE] \in h.lists
  <2> DEFINE L == g.lists
  <2>1. Flights(L) /\ (d = NoName => h.lists = Late(L))
        /\ (d # NoName => h.lists = Late(L) \cup {[ds |-> d, latest |-> TRUE]})
    BY <1>1, <1>4
  <2> HIDE DEF L
  <2>2. Flights(Late(L)) /\ \A f \in Late(L) : ~f.latest
    BY <2>1, LateIsLate
  <2>3. /\ Flights(Late(L) \cup {[ds |-> d, latest |-> TRUE]})
        /\ \A f \in Late(L) \cup {[ds |-> d, latest |-> TRUE]} : f.latest => f.ds = d
    BY <2>1, AskedNow
  <2>4. CASE d = NoName
    BY <2>1, <2>2, <2>4
  <2>5. CASE d # NoName
    <3>1. h.lists = Late(L) \cup {[ds |-> d, latest |-> TRUE]}
      BY <2>1, <2>5
    <3> QED
      BY <2>3, <3>1
  <2> QED
    BY <2>4, <2>5
<1>7. SnapsFollow(h)
  BY <1>4, <1>5, <1>6 DEF SnapsFollow
<1>8. Window(h)
  BY <1>4, <1>6 DEF Window
<1> QED
  BY <1>4, <1>7, <1>8 DEF h

\* The right side is built for the row under the cursor, whatever it showed before.
LEMMA BuildsRight ==
    ASSUME NEW g, DOMAIN g = Fields, Flights(g.dossiers), Flights(g.lists),
           g.editing \in BOOLEAN, g.listErr \in BOOLEAN,
           g.visible # <<>> => g.selected = g.cursor /\ SnapsFollow(g)
    PROVE  LET h == BuildRight(g) IN
           /\ WindowInv(h) /\ h.editing = g.editing
           /\ h.visible = g.visible /\ h.cursor = g.cursor /\ h.listErr = g.listErr
<1> DEFINE h == BuildRight(g)
           k == ShowDossier(g, g.cursor)
<1>1. CASE g.editing /\ CurName(g) # NoName
  <2>1. h = [g EXCEPT !.form = CurName(g)]
    BY <1>1 DEF BuildRight
  <2>2. /\ DOMAIN h = Fields /\ h.form = CurName(g)
        /\ h.visible = g.visible /\ h.cursor = g.cursor /\ h.selected = g.selected
        /\ h.snaps = g.snaps /\ h.lists = g.lists /\ h.dossiers = g.dossiers
        /\ h.editing = g.editing /\ h.listErr = g.listErr
    BY <2>1 DEF Fields
  <2> HIDE DEF h
  <2>3. CurName(h) = CurName(g)
    BY <2>2 DEF CurName
  <2>4. WindowInv(h)
    BY <1>1, <2>2, <2>3 DEF WindowInv, Window, About, SnapsFollow
  <2> QED
    BY <2>2, <2>4 DEF h
<1>2. CASE ~(g.editing /\ CurName(g) # NoName)
  <2>1. h = [k EXCEPT !.form = NoName]
    BY <1>2 DEF BuildRight
  <2>2. /\ DOMAIN k = Fields /\ Flights(k.dossiers) /\ PaneFollows(k)
        /\ k.visible = g.visible /\ k.cursor = g.cursor /\ k.selected = g.selected
        /\ k.snaps = g.snaps /\ k.lists = g.lists /\ k.editing = g.editing
        /\ k.listErr = g.listErr
    BY ShowsIt
  <2> HIDE DEF h, k
  <2>3. /\ DOMAIN h = Fields /\ h.form = NoName
        /\ h.visible = g.visible /\ h.cursor = g.cursor /\ h.selected = g.selected
        /\ h.snaps = g.snaps /\ h.lists = g.lists /\ h.dossiers = k.dossiers
        /\ h.editing = g.editing /\ h.listErr = g.listErr
        /\ h.lastShown = k.lastShown /\ h.pane = k.pane
    BY <2>1, <2>2 DEF Fields
  <2>4. CurName(h) = CurName(g) /\ CurName(k) = CurName(g)
    BY <2>2, <2>3 DEF CurName
  <2>5. WindowInv(h)
    BY <1>2, <2>2, <2>3, <2>4 DEF WindowInv, Window, About, SnapsFollow, PaneFollows
  <2> QED
    BY <2>3, <2>5 DEF h
<1> QED
  BY <1>1, <1>2

\* A row is selected that was not: everything beside the list is asked for anew.
LEMMA Selects ==
    ASSUME NEW g, NEW i, Window(g), g.visible # <<>>, g.selected # i,
           ~g.editing /\ ~g.listErr => g.lastShown # i
    PROVE  WindowInv(SelectAt(g, i))
<1> DEFINE k == [g EXCEPT !.selected = i, !.cursor = i]
           h == ReloadSnaps(k)
<1>1. SelectAt(g, i) = IF h.editing THEN BuildRight(h) ELSE SetDossier(h, i)
  BY DEF SelectAt
<1>2. /\ DOMAIN k = Fields /\ k.selected = i /\ k.cursor = i
      /\ k.visible = g.visible /\ k.lastShown = g.lastShown /\ k.pane = g.pane
      /\ k.dossiers = g.dossiers /\ k.snaps = g.snaps /\ k.lists = g.lists
      /\ k.editing = g.editing /\ k.form = g.form /\ k.listErr = g.listErr
  BY DEF Window, Fields
<1> HIDE DEF k
<1>3. Window(k)
  BY <1>2 DEF Window
<1>4. /\ Window(h) /\ SnapsFollow(h)
      /\ h.visible = k.visible /\ h.cursor = k.cursor /\ h.selected = k.selected
      /\ h.lastShown = k.lastShown /\ h.pane = k.pane /\ h.dossiers = k.dossiers
      /\ h.editing = k.editing /\ h.form = k.form /\ h.listErr = k.listErr
  BY <1>3, AsksForSnaps
<1> HIDE DEF h
<1>5. CASE h.editing
  <2>1. WindowInv(BuildRight(h))
    BY <1>2, <1>4, BuildsRight DEF Window
  <2> QED
    BY <1>1, <1>5, <2>1
<1>6. CASE ~h.editing
  <2>1. CASE i = h.lastShown
    <3>1. SelectAt(g, i) = h
      BY <1>1, <1>6, <2>1 DEF SetDossier
    <3>2. h.listErr
      BY <1>2, <1>4, <1>6, <2>1
    <3> QED
      BY <1>2, <1>4, <1>6, <3>1, <3>2 DEF WindowInv, About
  <2>2. CASE i # h.lastShown
    <3> DEFINE s == ShowDossier(h, h.cursor)
    <3>1. SelectAt(g, i) = s
      BY <1>1, <1>2, <1>4, <1>6, <2>2 DEF SetDossier
    <3>2. /\ DOMAIN s = Fields /\ Flights(s.dossiers) /\ PaneFollows(s)
          /\ s.visible = h.visible /\ s.cursor = h.cursor /\ s.selected = h.selected
          /\ s.snaps = h.snaps /\ s.lists = h.lists /\ s.editing = h.editing
          /\ s.form = h.form /\ s.listErr = h.listErr
      BY <1>4, ShowsIt DEF Window
    <3> HIDE DEF s
    <3>3. CurName(s) = CurName(h)
      BY <3>2 DEF CurName
    <3>4. Window(s)
      BY <1>4, <3>2 DEF Window
    <3>5. SnapsFollow(s)
      BY <1>4, <3>2, <3>3 DEF SnapsFollow
    <3> QED
      BY <1>2, <1>4, <1>6, <3>1, <3>2, <3>4, <3>5 DEF WindowInv, About
  <2> QED
    BY <2>1, <2>2
<1> QED
  BY <1>5, <1>6

\* The cursor moves to a row, or is on it already.
LEMMA SelectKeeps ==
    ASSUME NEW g, NEW i, WindowInv(g)
    PROVE  WindowInv(SelectAt(g, i))
<1>1. CASE g.selected = i \/ g.visible = <<>>
  BY <1>1 DEF SelectAt
<1>2. CASE g.selected # i /\ g.visible # <<>>
  <2>1. ~g.editing /\ ~g.listErr => g.lastShown # i
    BY <1>2 DEF WindowInv, About, PaneFollows
  <2> QED
    BY <1>2, <2>1, Selects DEF WindowInv
<1> QED
  BY <1>1, <1>2

\* The rows are built anew, and the first one is selected: whatever was shown before.
LEMMA FilterShowsTop ==
    ASSUME NEW g, Window(g)
    PROVE  WindowInv(ApplyFilter(g))
<1> DEFINE seed == g.query = NoName /\ ~g.seeded /\ g.all # {}
           folded == IF seed THEN DefaultCollapsed(g.all) ELSE g.collapsed
           rows == IF g.query = NoName THEN BuildTree(g.all, folded) ELSE FlatRows(g.all \cap g.query)
           known == g.seeded \/ seed
           h == [g EXCEPT !.collapsed = folded, !.seeded = known, !.visible = rows,
                          !.lastShown = 0, !.selected = 0]
<1>1. ApplyFilter(g) = IF rows # <<>> THEN SelectAt(h, 1) ELSE [h EXCEPT !.pane = Note]
  BY Zenon DEF ApplyFilter
<1> HIDE DEF seed, folded, rows, known
<1>2. /\ DOMAIN h = Fields /\ h.visible = rows /\ h.lastShown = 0 /\ h.selected = 0
      /\ h.dossiers = g.dossiers /\ h.lists = g.lists
      /\ h.editing = g.editing /\ h.form = g.form /\ h.listErr = g.listErr
  BY DEF Window, Fields
<1> HIDE DEF h
<1>3. Window(h)
  BY <1>2 DEF Window
<1>4. CASE rows # <<>>
  <2>1. WindowInv(SelectAt(h, 1))
    BY <1>2, <1>3, <1>4, Selects
  <2> QED
    BY <1>1, <1>4, <2>1
<1>5. CASE rows = <<>>
  <2> DEFINE k == [h EXCEPT !.pane = Note]
  <2>1. /\ DOMAIN k = Fields /\ k.visible = rows /\ k.dossiers = h.dossiers /\ k.lists = h.lists
        /\ k.editing = h.editing /\ k.form = h.form /\ k.listErr = h.listErr
    BY <1>2 DEF Fields
  <2>2. ApplyFilter(g) = k
    BY <1>1, <1>5
  <2> HIDE DEF k
  <2> QED
    BY <1>3, <1>5, <2>1, <2>2 DEF WindowInv, Window, About
<1> QED
  BY <1>4, <1>5

\* The cursor is put back on a dataset, if it has a row.
LEMMA RestoreKeeps ==
    ASSUME NEW g, NEW d, WindowInv(g)
    PROVE  WindowInv(Restore(g, d))
<1> DEFINE at == {i \in DOMAIN g.visible : g.visible[i].ds = d}
<1>1. CASE at = {}
  BY <1>1 DEF Restore
<1>2. CASE at # {}
  <2>1. Restore(g, d) = SelectAt(g, CHOOSE i \in at : TRUE)
    BY <1>2 DEF Restore
  <2> QED
    BY <2>1, SelectKeeps
<1> QED
  BY <1>1, <1>2

\* A row is folded or unfolded.
LEMMA FoldKeeps ==
    ASSUME NEW g, NEW i, NEW expand, WindowInv(g)
    PROVE  WindowInv(SetFold(g, i, expand))
<1> DEFINE row == g.visible[i]
           folds == IF expand THEN g.collapsed \ {row.ds} ELSE g.collapsed \cup {row.ds}
           h == [g EXCEPT !.collapsed = folds]
<1>1. SetFold(g, i, expand) = g \/ SetFold(g, i, expand) = Restore(ApplyFilter(h), row.ds)
  BY Zenon DEF SetFold
<1> HIDE DEF row, folds
<1>2. /\ DOMAIN h = Fields /\ h.dossiers = g.dossiers /\ h.lists = g.lists
      /\ h.editing = g.editing /\ h.form = g.form /\ h.listErr = g.listErr
  BY DEF WindowInv, Window, Fields
<1> HIDE DEF h
<1>3. Window(h)
  BY <1>2 DEF WindowInv, Window
<1>4. WindowInv(Restore(ApplyFilter(h), row.ds))
  BY <1>3, FilterShowsTop, RestoreKeeps
<1> QED
  BY <1>1, <1>4

\* A scan lands, well or not.
LEMMA LoadKeeps ==
    ASSUME NEW g, NEW rows, NEW err \in BOOLEAN, WindowInv(g)
    PROVE  WindowInv(ApplyLoad(g, rows, err))
<1> DEFINE h == [g EXCEPT !.all = rows, !.listErr = err]
           k == [h EXCEPT !.pane = Note]
<1>1. /\ DOMAIN h = Fields /\ h.listErr = err
      /\ h.visible = g.visible /\ h.cursor = g.cursor /\ h.selected = g.selected
      /\ h.dossiers = g.dossiers /\ h.snaps = g.snaps /\ h.lists = g.lists
      /\ h.editing = g.editing /\ h.form = g.form
  BY DEF WindowInv, Window, Fields
<1>2. ApplyLoad(g, rows, err) = IF err THEN k ELSE ApplyFilter(h)
  BY DEF ApplyLoad
<1> HIDE DEF h
<1>3. Window(h)
  BY <1>1 DEF WindowInv, Window
<1>4. CASE err
  <2>1. /\ DOMAIN k = Fields /\ k.listErr = err
        /\ k.visible = g.visible /\ k.cursor = g.cursor /\ k.selected = g.selected
        /\ k.dossiers = g.dossiers /\ k.snaps = g.snaps /\ k.lists = g.lists
        /\ k.editing = g.editing /\ k.form = g.form
    BY <1>1 DEF Fields
  <2>2. ApplyLoad(g, rows, err) = k
    BY <1>2, <1>4
  <2> HIDE DEF k
  <2>3. CurName(k) = CurName(g)
    BY <2>1 DEF CurName
  <2> QED
    BY <1>4, <2>1, <2>2, <2>3 DEF WindowInv, Window, About, SnapsFollow
<1>5. CASE ~err
  <2>1. WindowInv(ApplyFilter(h))
    BY <1>3, FilterShowsTop
  <2> QED
    BY <1>2, <1>5, <2>1
<1> QED
  BY <1>4, <1>5

\* The counts and the menu are not looked at.
LEMMA CountsAreUnseen ==
    ASSUME NEW g, WindowInv(g), NEW C
    PROVE  WindowInv([g EXCEPT !.counts = C])
<1> DEFINE h == [g EXCEPT !.counts = C]
<1>1. /\ DOMAIN h = Fields
      /\ h.visible = g.visible /\ h.cursor = g.cursor /\ h.selected = g.selected
      /\ h.lastShown = g.lastShown /\ h.pane = g.pane /\ h.dossiers = g.dossiers
      /\ h.snaps = g.snaps /\ h.lists = g.lists /\ h.editing = g.editing
      /\ h.form = g.form /\ h.listErr = g.listErr
  BY DEF WindowInv, Window, Fields
<1> HIDE DEF h
<1>2. WindowInv(h)
  BY <1>1, Unseen
<1> QED
  BY <1>2 DEF h

\* Nor is the menu or dialog that is open.
LEMMA PopupIsUnseen ==
    ASSUME NEW g, WindowInv(g), NEW p
    PROVE  WindowInv([g EXCEPT !.popup = p])
<1> DEFINE h == [g EXCEPT !.popup = p]
<1>1. /\ DOMAIN h = Fields
      /\ h.visible = g.visible /\ h.cursor = g.cursor /\ h.selected = g.selected
      /\ h.lastShown = g.lastShown /\ h.pane = g.pane /\ h.dossiers = g.dossiers
      /\ h.snaps = g.snaps /\ h.lists = g.lists /\ h.editing = g.editing
      /\ h.form = g.form /\ h.listErr = g.listErr
  BY DEF WindowInv, Window, Fields
<1> HIDE DEF h
<1>2. WindowInv(h)
  BY <1>1, Unseen
<1> QED
  BY <1>2 DEF h

\* The right side is built again: the editor after a change, or what follows it.
LEMMA BuildsAgain ==
    ASSUME NEW g, WindowInv(g)
    PROVE  WindowInv(BuildRight(g))
BY BuildsRight DEF WindowInv, Window, About

\* The snapshots and the dossier are read again, also behind the editor.
LEMMA ShowsAgain ==
    ASSUME NEW g, WindowInv(g)
    PROVE  WindowInv(ShowDossier(ReloadSnaps(g), g.cursor))
<1> DEFINE h == ReloadSnaps(g)
           s == ShowDossier(h, h.cursor)
<1>1. /\ Window(h) /\ SnapsFollow(h)
      /\ h.visible = g.visible /\ h.cursor = g.cursor /\ h.selected = g.selected
      /\ h.editing = g.editing /\ h.form = g.form /\ h.listErr = g.listErr
  BY AsksForSnaps DEF WindowInv
<1> HIDE DEF h
<1>2. /\ DOMAIN s = Fields /\ Flights(s.dossiers) /\ PaneFollows(s)
      /\ s.visible = h.visible /\ s.cursor = h.cursor /\ s.selected = h.selected
      /\ s.snaps = h.snaps /\ s.lists = h.lists /\ s.editing = h.editing
      /\ s.form = h.form /\ s.listErr = h.listErr
  BY <1>1, ShowsIt DEF Window
<1>3. ShowDossier(h, g.cursor) = s
  BY <1>1
<1> HIDE DEF s
<1>4. CurName(s) = CurName(g)
  BY <1>1, <1>2 DEF CurName
<1>5. CurName(h) = CurName(g)
  BY <1>1 DEF CurName
<1>6. Window(s) /\ SnapsFollow(s)
  BY <1>1, <1>2, <1>4, <1>5 DEF Window, SnapsFollow
<1>7. WindowInv(s)
  BY <1>1, <1>2, <1>4, <1>6 DEF WindowInv, About
<1> QED
  BY <1>3, <1>7 DEF h

\* Landing, an answer goes from those under way.
LEMMA FewerFlights ==
    ASSUME NEW S, NEW f, Flights(S)
    PROVE  Flights(S \ {f})
BY DEF Flights

\* The window of DetailsFollow is invariant: whatever is typed, selected, folded, edited,
\* answered or run, in any order, the selection, the cursor and the right side agree.
THEOREM WindowInvariance == BrowserSpec => []WindowInv(ui)
<1>1. ASSUME BrowserInit
      PROVE  WindowInv(ui)
  BY <1>1 DEF BrowserInit, WindowInv, Window, About, Flights, Fields
<1>2. ASSUME WindowInv(ui), [BrowserNext]_browserVars
      PROVE  WindowInv(ui')
  <2> USE <1>2
  <2>0. DOMAIN ui = Fields /\ Window(ui)
    BY DEF WindowInv, Window
  <2>1. CASE UNCHANGED browserVars
    BY <2>1 DEF browserVars
  <2>2. CASE TypeQuery
    <3>1. PICK q \in Queries \cup {NoName} : ui' = ApplyFilter([ui EXCEPT !.query = q])
      BY <2>2 DEF TypeQuery, Tap
    <3> DEFINE h == [ui EXCEPT !.query = q]
    <3>2. Window(h)
      BY <2>0 DEF Window, Fields
    <3> HIDE DEF h
    <3> QED
      BY <3>1, <3>2, FilterShowsTop DEF h
  <2>3. CASE Highlight
    <3>1. PICK i \in DOMAIN ui.visible : ui' = SelectAt(ui, i)
      BY <2>3 DEF Highlight, Tap
    <3> QED
      BY <3>1, SelectKeeps
  <2>4. CASE TapRow
    <3>1. PICK i \in DOMAIN ui.visible : ui' = SetFold(SelectAt(ui, i), i, ~ui.visible[i].open)
      BY <2>4 DEF TapRow, Tap
    <3>2. WindowInv(SelectAt(ui, i))
      BY SelectKeeps
    <3> QED
      BY <3>1, <3>2, FoldKeeps
  <2>5. CASE FoldKey
    <3>1. PICK expand \in BOOLEAN :
              \/ ui' = Restore(ui, ParentOf(ui.visible[ui.cursor].ds))
              \/ ui' = SetFold(ui, ui.cursor, expand)
      BY <2>5 DEF FoldKey, Tap
    <3> QED
      BY <3>1, RestoreKeeps, FoldKeeps
  <2>6. CASE ToggleEdit
    <3> DEFINE h == [ui EXCEPT !.editing = ~@]
    <3>1. ui' = BuildRight(h)
      BY <2>6 DEF ToggleEdit, Tap
    <3>2. DOMAIN h = Fields /\ h.editing \in BOOLEAN
      BY <2>0 DEF Window, Fields
    <3>3. /\ h.visible = ui.visible /\ h.cursor = ui.cursor /\ h.selected = ui.selected
          /\ h.snaps = ui.snaps /\ h.lists = ui.lists /\ h.dossiers = ui.dossiers
          /\ h.listErr = ui.listErr
      BY <2>0 DEF Fields
    <3> HIDE DEF h
    <3>4. CurName(h) = CurName(ui)
      BY <3>3 DEF CurName
    <3>5. h.visible # <<>> => h.selected = h.cursor /\ SnapsFollow(h)
      BY <3>3, <3>4 DEF WindowInv, About, SnapsFollow
    <3> QED
      BY <2>0, <3>1, <3>2, <3>3, <3>5, BuildsRight DEF Window
  <2>7. CASE ToggleLock
    <3> DEFINE h == [ui EXCEPT !.rw = ~@]
    <3>1. ui' = h
      BY <2>7 DEF ToggleLock, Tap
    <3>2. /\ DOMAIN h = Fields
          /\ h.visible = ui.visible /\ h.cursor = ui.cursor /\ h.selected = ui.selected
          /\ h.lastShown = ui.lastShown /\ h.pane = ui.pane /\ h.dossiers = ui.dossiers
          /\ h.snaps = ui.snaps /\ h.lists = ui.lists /\ h.editing = ui.editing
          /\ h.form = ui.form /\ h.listErr = ui.listErr
      BY <2>0 DEF Fields
    <3> HIDE DEF h
    <3> QED
      BY <3>1, <3>2, Unseen
  <2>8. CASE Reload
    BY <2>8, CountsAreUnseen DEF Reload, Tap
  <2>9. CASE Pick
    <3>1. \E verb, d : ui' = ui \/ ui' = [ui EXCEPT !.popup = [verb |-> verb, ds |-> d]]
      BY <2>9, Zenon DEF Pick, Tap
    <3> QED
      BY <3>1, PopupIsUnseen
  <2>10. CASE RunOp
    BY <2>10, PopupIsUnseen DEF RunOp
  <2>11. CASE CancelPopup
    <3> DEFINE h == [ui EXCEPT !.popup = NoName]
    <3>1. ui' = BuildRight(h) \/ ui' = h
      BY <2>11 DEF CancelPopup
    <3>2. WindowInv(h)
      BY PopupIsUnseen
    <3> HIDE DEF h
    <3> QED
      BY <3>1, <3>2, BuildsAgain
  <2>12. CASE OpEnds
    <3>1. \/ ui' = [ui EXCEPT !.counts = Late(@)]
          \/ ui' = ShowDossier(ReloadSnaps(ui), ui.cursor)
          \/ ui' = BuildRight(ui) \/ ui' = ui
      BY <2>12, Zenon DEF OpEnds
    <3>2. WindowInv(ShowDossier(ReloadSnaps(ui), ui.cursor))
      BY ShowsAgain
    <3> QED
      BY <3>1, <3>2, CountsAreUnseen, BuildsAgain
  <2>13. CASE DossierLands
    <3>1. PICK f \in ui.dossiers :
              ui' = [ui EXCEPT !.dossiers = @ \ {f},
                               !.pane = IF f.latest THEN Pane("text", f.ds) ELSE @]
      BY <2>13 DEF DossierLands
    <3> DEFINE shown == IF f.latest THEN Pane("text", f.ds) ELSE ui.pane
    <3>2. /\ DOMAIN ui' = Fields /\ ui'.dossiers = ui.dossiers \ {f} /\ ui'.pane = shown
          /\ ui'.visible = ui.visible /\ ui'.cursor = ui.cursor /\ ui'.selected = ui.selected
          /\ ui'.lastShown = ui.lastShown /\ ui'.snaps = ui.snaps /\ ui'.lists = ui.lists
          /\ ui'.editing = ui.editing /\ ui'.form = ui.form /\ ui'.listErr = ui.listErr
      BY <2>0, <3>1 DEF Fields
    <3>3. shown.ds = IF f.latest THEN f.ds ELSE ui.pane.ds
      BY DEF Pane
    <3> HIDE DEF shown
    <3>4. CurName(ui') = CurName(ui)
      BY <3>2 DEF CurName
    <3>5. Flights(ui'.dossiers)
      BY <2>0, <3>2, FewerFlights DEF Window
    <3>6. Window(ui')
      BY <2>0, <3>2, <3>5 DEF Window
    <3>7. PaneFollows(ui) => PaneFollows(ui')
      BY <3>2, <3>3, <3>4 DEF PaneFollows
    <3> QED
      BY <3>2, <3>4, <3>6, <3>7 DEF WindowInv, About, SnapsFollow
  <2>14. CASE SnapsLand
    <3>1. PICK f \in ui.lists :
              ui' = [ui EXCEPT !.lists = @ \ {f}, !.snaps = IF f.latest THEN f.ds ELSE @]
      BY <2>14 DEF SnapsLand
    <3> DEFINE snaps == IF f.latest THEN f.ds ELSE ui.snaps
    <3>2. /\ DOMAIN ui' = Fields /\ ui'.lists = ui.lists \ {f} /\ ui'.snaps = snaps
          /\ ui'.visible = ui.visible /\ ui'.cursor = ui.cursor /\ ui'.selected = ui.selected
          /\ ui'.lastShown = ui.lastShown /\ ui'.dossiers = ui.dossiers /\ ui'.pane = ui.pane
          /\ ui'.editing = ui.editing /\ ui'.form = ui.form /\ ui'.listErr = ui.listErr
      BY <2>0, <3>1 DEF Fields
    <3>3. CurName(ui') = CurName(ui)
      BY <3>2 DEF CurName
    <3>4. Flights(ui'.lists)
      BY <2>0, <3>2, FewerFlights DEF Window
    <3>5. Window(ui')
      BY <2>0, <3>2, <3>4 DEF Window
    <3>6. ASSUME SnapsFollow(ui)
          PROVE  SnapsFollow(ui')
      <4> DEFINE cur == [ds |-> CurName(ui), latest |-> TRUE]
      <4>1. cur.latest = TRUE
        OBVIOUS
      <4> HIDE DEF cur
      <4>2. ui.snaps = CurName(ui) \/ cur \in ui.lists
        BY <3>6 DEF SnapsFollow, cur
      <4>3. \A e \in ui.lists : e.latest => e.ds = CurName(ui)
        BY <3>6 DEF SnapsFollow
      <4>4. CASE f.latest
        BY <3>2, <3>3, <4>3, <4>4 DEF SnapsFollow
      <4>5. CASE ~f.latest
        <5>1. ui'.snaps = CurName(ui) \/ cur \in ui'.lists
          BY <3>2, <4>1, <4>2, <4>5
        <5> QED
          BY <3>2, <3>3, <4>3, <5>1 DEF SnapsFollow, cur
      <4> QED
        BY <4>4, <4>5
    <3> QED
      BY <3>2, <3>3, <3>5, <3>6 DEF WindowInv, About, PaneFollows
  <2>15. CASE ScanReads
    BY <2>15 DEF ScanReads
  <2>16. CASE ScanLands
    <3>1. PICK s \in scans :
              \/ ui' = ui
              \/ ui' = [ApplyLoad(ui, s.rows, s.phase = "failed") EXCEPT
                           !.counts = @ \cup {[latest |-> s.latest]}]
      BY <2>16, Zenon DEF ScanLands
    <3> DEFINE h == ApplyLoad(ui, s.rows, s.phase = "failed")
    <3>2. WindowInv(h)
      BY LoadKeeps
    <3> HIDE DEF h
    <3>3. \A C : WindowInv([h EXCEPT !.counts = C])
      BY <3>2, CountsAreUnseen
    <3> QED
      BY <3>1, <3>3 DEF h
  <2>17. CASE CountsLand
    <3>1. PICK f \in ui.counts :
              LET g == [ui EXCEPT !.counts = @ \ {f}] IN ui' = MergeCounts(g) \/ ui' = g
      BY <2>17, Zenon DEF CountsLand
    <3> DEFINE g == [ui EXCEPT !.counts = @ \ {f}]
    <3>2. WindowInv(g)
      BY CountsAreUnseen
    <3> HIDE DEF g
    <3>3. WindowInv(Restore(ApplyFilter(g), CurName(g)))
      BY <3>2, FilterShowsTop, RestoreKeeps DEF WindowInv
    <3> QED
      BY <3>1, <3>2, <3>3 DEF MergeCounts, g
  <2> QED
    BY <2>1, <2>2, <2>3, <2>4, <2>5, <2>6, <2>7, <2>8, <2>9, <2>10, <2>11, <2>12, <2>13,
       <2>14, <2>15, <2>16, <2>17 DEF BrowserNext
<1>3. WindowInv(ui) /\ [BrowserNext]_browserVars => WindowInv(ui)'
  BY <1>2 DEF WindowInv, Window, About, SnapsFollow, PaneFollows, CurName, Flights
<1> QED
  BY <1>1, <1>3, PTL DEF BrowserSpec

\* Where there are rows and no error to show, the right side is about the row under the
\* cursor, whichever answers are late and whatever the rows have become.
THEOREM DetailsAreOfTheRow == BrowserSpec => []DetailsFollow
<1>1. ASSUME WindowInv(ui)
      PROVE  DetailsFollow
  BY <1>1 DEF WindowInv, Window, About, SnapsFollow, PaneFollows, DetailsFollow
<1> QED
  BY <1>1, WindowInvariance, PTL

-----------------------------------------------------------------------------
(* The rows of the tree.                                                   *)

\* Names are not empty, and have one place in the order of zfs.
LEMMA NamesTyped ==
    /\ Len(Order) \in Nat /\ DOMAIN Order = 1 .. Len(Order) /\ NoName \notin Datasets
    /\ \A i \in 1 .. Len(Order) : Order[i] \in Datasets /\ Place(Order[i]) = i
    /\ \A d \in Datasets : /\ d \in Seq(STRING) /\ Len(d) \in Nat \ {0} /\ d # <<>>
                           /\ Place(d) \in 1 .. Len(Order) /\ Order[Place(d)] = d
<1>1. /\ Len(Order) \in Nat /\ DOMAIN Order = 1 .. Len(Order) /\ NoName \notin Datasets
      /\ \A i \in 1 .. Len(Order) : Order[i] \in Datasets /\ Order[i] \in Seq(STRING) \ {<<>>}
      /\ \A i, j \in 1 .. Len(Order) : Order[i] = Order[j] => i = j
      /\ \A d \in Datasets : \E i \in 1 .. Len(Order) : Order[i] = d
  BY BrowserAssumption DEF Datasets, ToSet
<1>2. ASSUME NEW i \in 1 .. Len(Order) PROVE Place(Order[i]) = i
  BY <1>1 DEF Place
<1>3. ASSUME NEW d \in Datasets
      PROVE  /\ d \in Seq(STRING) /\ Len(d) \in Nat \ {0} /\ d # <<>>
             /\ Place(d) \in 1 .. Len(Order) /\ Order[Place(d)] = d
  <2>1. PICK i \in 1 .. Len(Order) : Order[i] = d
    BY <1>1
  <2>2. Place(d) = i
    BY <1>2, <2>1
  <2>3. d \in Seq(STRING) /\ d # <<>>
    BY <1>1, <2>1
  <2>4. Len(d) \in Nat \ {0}
    BY <2>3, EmptySeq
  <2> QED
    BY <2>1, <2>2, <2>3, <2>4
<1> QED
  BY <1>1, <1>2, <1>3

\* The loop over the rows keeps those of a set, each once and in their order.
LEMMA ListedIs ==
    ASSUME NEW S \in SUBSET Datasets
    PROVE  /\ Listed(S) \in Seq(S)
           /\ \A d : (\E i \in 1 .. Len(Listed(S)) : Listed(S)[i] = d) <=> d \in S
           /\ \A i, j \in 1 .. Len(Listed(S)) : i < j => Place(Listed(S)[i]) < Place(Listed(S)[j])
<1> DEFINE n == Len(Order)
           Listing(g) == g = [i \in 0 .. n |->
                             IF i = 0 THEN <<>>
                             ELSE IF Order[i] \in S THEN Append(g[i - 1], Order[i]) ELSE g[i - 1]]
           list == CHOOSE g : Listing(g)
           X == Seq(S)
           round == [i \in 1 .. n |-> [q \in X |-> IF Order[i] \in S THEN Append(q, Order[i]) ELSE q]]
<1>1. n \in Nat /\ <<>> \in X
  BY NamesTyped
<1>2. round \in Rounds(n, X)
  <2>1. ASSUME NEW i \in 1 .. n, NEW q \in X
        PROVE  (IF Order[i] \in S THEN Append(q, Order[i]) ELSE q) \in X
    OBVIOUS
  <2> HIDE DEF X
  <2> QED
    BY <2>1 DEF Rounds
<1>3. \E g : Listing(g)
  <2>1. PICK f \in [0 .. n -> X] : f[0] = <<>> /\ \A i \in 1 .. n : f[i] = round[i][f[i - 1]]
    <3> DEFINE base == <<>>
    <3>1. base \in X
      BY <1>1
    <3> HIDE DEF X, round, n, base
    <3>2. \E f : Runs(f, n, X, base, round)
      BY <1>1, <1>2, <3>1, Loops
    <3> QED
      BY <3>2 DEF base, Runs
  <2>2. ASSUME NEW i \in 0 .. n
        PROVE  f[i] = IF i = 0 THEN <<>>
                      ELSE IF Order[i] \in S THEN Append(f[i - 1], Order[i]) ELSE f[i - 1]
    <3>1. CASE i = 0
      BY <2>1, <3>1
    <3>2. CASE i # 0
      <4>1. i \in 1 .. n /\ i - 1 \in 0 .. n
        BY <1>1, <3>2
      <4>2. f[i] = round[i][f[i - 1]] /\ f[i - 1] \in X
        BY <2>1, <4>1
      <4> HIDE DEF X
      <4> QED
        BY <3>2, <4>1, <4>2
    <3> QED
      BY <3>1, <3>2
  <2>3. Listing(f)
    BY <2>1, <2>2
  <2> HIDE DEF Listing
  <2> QED
    BY <2>3
<1>4. Listing(list)
  <2> HIDE DEF Listing
  <2> QED
    BY <1>3
<1>5. Listed(S) = list[n]
  BY DEF Listed
<1> HIDE DEF list
<1>6. ASSUME NEW i \in 0 .. n
      PROVE  list[i] = IF i = 0 THEN <<>>
                       ELSE IF Order[i] \in S THEN Append(list[i - 1], Order[i]) ELSE list[i - 1]
  BY <1>4
<1> DEFINE Good(k, q) ==
               /\ q \in Seq(S)
               /\ \A d : (\E i \in 1 .. Len(q) : q[i] = d) <=> (\E i \in 1 .. k : Order[i] = d /\ d \in S)
               /\ \A i, j \in 1 .. Len(q) : i < j => Place(q[i]) < Place(q[j])
           P == {k \in 0 .. n : Good(k, list[k])}
<1> HIDE DEF Listing, X, round
<1>7. 0 \in P
  <2>1. list[0] = <<>> /\ Len(<<>>) = 0 /\ <<>> \in Seq(S) /\ 1 .. 0 = {}
    BY <1>1, <1>6
  <2>2. Good(0, <<>>)
    BY <2>1
  <2> HIDE DEF Good
  <2> QED
    BY <1>1, <2>1, <2>2
<1>8. ASSUME NEW k \in 1 .. n, k - 1 \in P PROVE k \in P
  <2> DEFINE q == list[k - 1]
             r == list[k]
  <2>1. Good(k - 1, q) /\ k \in 0 .. n
    BY <1>1, <1>8
  <2>2. r = IF Order[k] \in S THEN Append(q, Order[k]) ELSE q
    BY <1>1, <1>6
  <2> HIDE DEF q, r
  <2>3. CASE Order[k] \notin S
    <3>1. r = q
      BY <2>2, <2>3
    <3>2. \A i : i \in 1 .. k <=> i \in 1 .. (k - 1) \/ i = k
      BY <1>1
    <3>3. Good(k, r)
      BY <2>1, <2>3, <3>1, <3>2
    <3> QED
      BY <2>1, <3>3 DEF r
  <2>4. CASE Order[k] \in S
    <3>1. /\ r = Append(q, Order[k]) /\ r \in Seq(S) /\ Len(r) = Len(q) + 1 /\ Len(q) \in Nat
          /\ \A i \in 1 .. Len(q) : r[i] = q[i]
          /\ r[Len(q) + 1] = Order[k]
      BY <2>1, <2>2, <2>4
    <3>2. ASSUME NEW d
          PROVE  (\E i \in 1 .. Len(r) : r[i] = d) <=> (\E i \in 1 .. k : Order[i] = d /\ d \in S)
      <4>1. (\E i \in 1 .. Len(r) : r[i] = d) <=> (\E i \in 1 .. Len(q) : q[i] = d) \/ d = Order[k]
        BY <3>1
      <4>2. (\E i \in 1 .. Len(q) : q[i] = d) <=> (\E i \in 1 .. (k - 1) : Order[i] = d /\ d \in S)
        BY <2>1
      <4>3. \A i : i \in 1 .. k <=> i \in 1 .. (k - 1) \/ i = k
        BY <1>1
      <4> QED
        BY <2>4, <4>1, <4>2, <4>3
    <3>3. ASSUME NEW i \in 1 .. Len(r), NEW j \in 1 .. Len(r), i < j
          PROVE  Place(r[i]) < Place(r[j])
      <4>1. CASE j # Len(r)
        <5>1. i \in 1 .. Len(q) /\ j \in 1 .. Len(q) /\ r[i] = q[i] /\ r[j] = q[j]
          BY <3>1, <3>3, <4>1
        <5> QED
          BY <2>1, <3>3, <5>1
      <4>2. CASE j = Len(r)
        <5>1. i \in 1 .. Len(q) /\ r[i] = q[i] /\ r[j] = Order[k]
          BY <3>1, <3>3, <4>2
        <5>2. PICK l \in 1 .. (k - 1) : Order[l] = q[i]
          BY <2>1, <5>1
        <5>3. l \in 1 .. n /\ l < k
          BY <1>1
        <5>4. Place(Order[l]) = l /\ Place(Order[k]) = k
          BY <5>3, NamesTyped
        <5> QED
          BY <5>1, <5>2, <5>3, <5>4
      <4> QED
        BY <4>1, <4>2
    <3>4. Good(k, r)
      BY <3>1, <3>2, <3>3
    <3> QED
      BY <2>1, <3>4 DEF r
  <2> QED
    BY <2>3, <2>4
<1>9. Good(n, list[n])
  <2>1. \A k \in 0 .. n : k \in P
    <3> HIDE DEF P, n
    <3> QED
      BY <1>1, <1>7, <1>8, UpTo
  <2> QED
    BY <1>1, <2>1
<1>10. ASSUME NEW d
       PROVE  (\E i \in 1 .. n : Order[i] = d /\ d \in S) <=> d \in S
  <2>1. CASE d \in S
    BY <2>1, NamesTyped
  <2> QED
    BY <2>1
<1> QED
  BY <1>5, <1>9, <1>10

\* The beginning of a name, and the beginning of that.
LEMMA Beginnings ==
    ASSUME NEW d \in Seq(STRING), NEW n \in 1 .. Len(d)
    PROVE  /\ SubSeq(d, 1, n) \in Seq(STRING) /\ Len(SubSeq(d, 1, n)) = n
           /\ \A k \in 1 .. n : SubSeq(SubSeq(d, 1, n), 1, k) = SubSeq(d, 1, k)
           /\ SubSeq(d, 1, Len(d)) = d
<1> DEFINE b == SubSeq(d, 1, n)
<1>1. b \in Seq(STRING) /\ Len(b) = n /\ \A i \in 1 .. n : b[i] = d[i]
  OBVIOUS
<1>2. ASSUME NEW k \in 1 .. n PROVE SubSeq(b, 1, k) = SubSeq(d, 1, k)
  <2>1. /\ SubSeq(d, 1, k) \in Seq(STRING) /\ Len(SubSeq(d, 1, k)) = k
        /\ \A i \in 1 .. k : SubSeq(d, 1, k)[i] = d[i]
    OBVIOUS
  <2> HIDE DEF b
  <2>2. /\ SubSeq(b, 1, k) \in Seq(STRING) /\ Len(SubSeq(b, 1, k)) = k
        /\ \A i \in 1 .. k : SubSeq(b, 1, k)[i] = b[i]
    BY <1>1
  <2>3. \A i \in 1 .. k : SubSeq(b, 1, k)[i] = SubSeq(d, 1, k)[i]
    BY <1>1, <2>1, <2>2
  <2> DEFINE s == SubSeq(b, 1, k)
             t == SubSeq(d, 1, k)
  <2> HIDE DEF s, t
  <2>4. s \in Seq(STRING) /\ t \in Seq(STRING) /\ Len(s) = Len(t) /\ \A i \in 1 .. Len(s) : s[i] = t[i]
    BY <2>1, <2>2, <2>3 DEF s, t
  <2>5. s = t
    BY <2>4, SeqEqual
  <2> QED
    BY <2>5 DEF s, t
<1>3. SubSeq(d, 1, Len(d)) = d
  BY SubSeqFull
<1> QED
  BY <1>1, <1>2, <1>3

\* What is above d is a beginning of its name, and all between is in the list.
LEMMA AboveIs ==
    ASSUME NEW rows \in SUBSET Datasets, NEW d \in Datasets, NEW a
    PROVE  a \in Above(rows, d) <=>
               /\ a \in rows /\ Len(a) \in 1 .. (Len(d) - 1) /\ a = SubSeq(d, 1, Len(a))
               /\ \A k \in Len(a) .. (Len(d) - 1) : SubSeq(d, 1, k) \in rows
<1>1. d \in Seq(STRING) /\ Len(d) \in Nat \ {0}
  BY NamesTyped
<1>2. a \in Above(rows, d) <=>
        \E n \in 1 .. (Len(d) - 1) : /\ a = SubSeq(d, 1, n)
                                     /\ \A k \in n .. (Len(d) - 1) : SubSeq(d, 1, k) \in rows
  BY DEF Above
<1>3. ASSUME NEW n \in 1 .. (Len(d) - 1), a = SubSeq(d, 1, n),
             \A k \in n .. (Len(d) - 1) : SubSeq(d, 1, k) \in rows
      PROVE  a \in rows /\ Len(a) = n
  <2>1. n \in 1 .. Len(d) /\ n \in n .. (Len(d) - 1)
    BY <1>1
  <2> QED
    BY <1>1, <1>3, <2>1, Beginnings
<1> QED
  BY <1>2, <1>3

\* Above what is above.
LEMMA AboveAbove ==
    ASSUME NEW rows \in SUBSET Datasets, NEW d \in Datasets,
           NEW b \in Above(rows, d), NEW a \in Above(rows, b)
    PROVE  a \in Above(rows, d)
<1>1. /\ b \in rows /\ Len(b) \in 1 .. (Len(d) - 1) /\ b = SubSeq(d, 1, Len(b))
      /\ \A k \in Len(b) .. (Len(d) - 1) : SubSeq(d, 1, k) \in rows
  BY AboveIs
<1>2. /\ a \in rows /\ Len(a) \in 1 .. (Len(b) - 1) /\ a = SubSeq(b, 1, Len(a))
      /\ \A k \in Len(a) .. (Len(b) - 1) : SubSeq(b, 1, k) \in rows
  BY <1>1, AboveIs
<1>3. d \in Seq(STRING) /\ Len(d) \in Nat /\ Len(b) \in 1 .. Len(d)
  BY <1>1, NamesTyped
<1>4. \A k \in 1 .. Len(b) : SubSeq(b, 1, k) = SubSeq(d, 1, k)
  BY <1>1, <1>3, Beginnings
<1>5. Len(a) \in 1 .. Len(b) /\ Len(a) \in 1 .. (Len(d) - 1)
  BY <1>1, <1>2, <1>3
<1>6. \A k \in Len(a) .. (Len(d) - 1) :
        k \in Len(b) .. (Len(d) - 1) \/ (k \in Len(a) .. (Len(b) - 1) /\ k \in 1 .. Len(b))
  BY <1>2, <1>3
<1> QED
  BY <1>1, <1>2, <1>4, <1>5, <1>6, AboveIs, ZenonT(40)

\* Of two above d, the shorter is above the longer; those of one length are one.
LEMMA OneWay ==
    ASSUME NEW rows \in SUBSET Datasets, NEW d \in Datasets,
           NEW a \in Above(rows, d), NEW b \in Above(rows, d)
    PROVE  /\ Len(a) \in Nat /\ Len(b) \in Nat /\ Len(a) < Len(d)
           /\ Len(a) = Len(b) => a = b
           /\ Len(a) < Len(b) => a \in Above(rows, b)
<1>1. /\ b \in rows /\ Len(b) \in 1 .. (Len(d) - 1) /\ b = SubSeq(d, 1, Len(b))
      /\ a \in rows /\ Len(a) \in 1 .. (Len(d) - 1) /\ a = SubSeq(d, 1, Len(a))
      /\ \A k \in Len(a) .. (Len(d) - 1) : SubSeq(d, 1, k) \in rows
  BY AboveIs, ZenonT(40)
<1>2. d \in Seq(STRING) /\ Len(d) \in Nat /\ Len(b) \in 1 .. Len(d) /\ b \in Datasets
  BY <1>1, NamesTyped
<1>3. \A k \in 1 .. Len(b) : SubSeq(b, 1, k) = SubSeq(d, 1, k)
  BY <1>1, <1>2, Beginnings
<1>4. ASSUME Len(a) < Len(b)
      PROVE  a \in Above(rows, b)
  <2>1. Len(a) \in 1 .. (Len(b) - 1) /\ a = SubSeq(b, 1, Len(a))
    BY <1>1, <1>3, <1>4
  <2>2. \A k \in Len(a) .. (Len(b) - 1) : k \in 1 .. Len(b) /\ k \in Len(a) .. (Len(d) - 1)
    BY <1>1, <1>2, <2>1
  <2>3. \A k \in Len(a) .. (Len(b) - 1) : SubSeq(b, 1, k) \in rows
    BY <1>1, <1>3, <2>2
  <2> QED
    BY <1>1, <1>2, <2>1, <2>3, AboveIs
<1>5. Len(a) = Len(b) => a = b
  BY <1>1, Zenon
<1>6. Len(a) \in Nat /\ Len(b) \in Nat /\ Len(a) < Len(d)
  BY <1>1, <1>2
<1> QED
  BY <1>4, <1>5, <1>6

\* The parent that is in the list is above, and what is above a row without such a
\* parent is nothing.
LEMMA ParentAbove ==
    ASSUME NEW rows \in SUBSET Datasets, NEW d \in Datasets
    PROVE  /\ ParentOf(d) \in rows =>
                  ParentOf(d) \in Above(rows, d) /\ Len(ParentOf(d)) = Len(d) - 1
           /\ ParentOf(d) \notin rows => Above(rows, d) = {}
<1>1. d \in Seq(STRING) /\ Len(d) \in Nat \ {0} /\ NoName \notin rows
  BY NamesTyped
<1>2. ParentOf(d) = IF Len(d) > 1 THEN SubSeq(d, 1, Len(d) - 1) ELSE NoName
  BY DEF ParentOf, Front
<1>3. ASSUME ParentOf(d) \in rows
      PROVE  ParentOf(d) \in Above(rows, d) /\ Len(ParentOf(d)) = Len(d) - 1
  <2> DEFINE p == SubSeq(d, 1, Len(d) - 1)
  <2>1. ParentOf(d) = p /\ Len(d) > 1 /\ p \in rows
    BY <1>1, <1>2, <1>3
  <2>2. Len(p) = Len(d) - 1
    <3>1. Len(d) - 1 \in 1 .. Len(d)
      BY <1>1, <2>1
    <3> QED
      BY <1>1, <3>1, Beginnings
  <2>3. /\ Len(p) \in 1 .. (Len(d) - 1) /\ p = SubSeq(d, 1, Len(p))
        /\ \A k \in Len(p) .. (Len(d) - 1) : k = Len(d) - 1
    BY <1>1, <2>1, <2>2
  <2>4. \A k \in Len(p) .. (Len(d) - 1) : SubSeq(d, 1, k) \in rows
    BY <2>1, <2>3
  <2>5. p \in Above(rows, d)
    BY <2>1, <2>3, <2>4, AboveIs
  <2> QED
    BY <2>1, <2>2, <2>5
<1>4. ASSUME NEW a \in Above(rows, d)
      PROVE  ParentOf(d) \in rows
  <2>1. /\ Len(a) \in 1 .. (Len(d) - 1)
        /\ \A k \in Len(a) .. (Len(d) - 1) : SubSeq(d, 1, k) \in rows
    BY AboveIs
  <2>2. Len(d) > 1 /\ Len(d) - 1 \in Len(a) .. (Len(d) - 1)
    BY <1>1, <2>1
  <2> QED
    BY <1>2, <2>1, <2>2
<1> QED
  BY <1>3, <1>4

\* One step down from what is above a row, towards the row.
LEMMA StepDown ==
    ASSUME NEW rows \in SUBSET Datasets, NEW e \in rows, NEW d \in Above(rows, e)
    PROVE  \E k \in rows : ParentOf(k) = d /\ k \in Way(rows, e)
<1> DEFINE n == Len(d) + 1
           k == SubSeq(e, 1, n)
<1>1. /\ d \in rows /\ Len(d) \in 1 .. (Len(e) - 1) /\ d = SubSeq(e, 1, Len(d))
      /\ \A l \in Len(d) .. (Len(e) - 1) : SubSeq(e, 1, l) \in rows
  BY AboveIs
<1>2. e \in Seq(STRING) /\ Len(e) \in Nat /\ n \in 1 .. Len(e) /\ n > 1 /\ Len(d) \in 1 .. n
  BY <1>1, NamesTyped
<1>3. Len(k) = n /\ SubSeq(k, 1, Len(d)) = SubSeq(e, 1, Len(d)) /\ SubSeq(e, 1, Len(e)) = e
  BY <1>2, Beginnings
<1>4. ParentOf(k) = d
  BY <1>1, <1>2, <1>3 DEF ParentOf, Front
<1>5. k \in rows /\ k \in Way(rows, e)
  <2>1. CASE n = Len(e)
    BY <1>3, <2>1 DEF Way
  <2>2. CASE n # Len(e)
    <3>1. n \in Len(d) .. (Len(e) - 1) /\ n \in 1 .. (Len(e) - 1)
      BY <1>1, <1>2, <2>2
    <3>2. k \in rows
      BY <1>1, <3>1
    <3>3. \A l \in n .. (Len(e) - 1) : l \in Len(d) .. (Len(e) - 1)
      BY <1>1, <1>2
    <3> HIDE DEF n
    <3>4. Len(k) \in 1 .. (Len(e) - 1) /\ k = SubSeq(e, 1, Len(k))
          /\ \A l \in Len(k) .. (Len(e) - 1) : SubSeq(e, 1, l) \in rows
      BY <1>1, <1>3, <3>1, <3>3
    <3> HIDE DEF k
    <3>5. k \in Above(rows, e)
      BY <3>2, <3>4, AboveIs
    <3> QED
      BY <3>2, <3>5 DEF Way
  <2> QED
    BY <2>1, <2>2
<1> QED
  BY <1>4, <1>5

\* A row's way starts at a root of the tree.
LEMMA RootOf ==
    ASSUME NEW rows \in SUBSET Datasets, NEW e \in rows
    PROVE  \E r \in rows : ParentOf(r) \notin rows /\ r \in Way(rows, e)
<1> DEFINE S == {Len(a) : a \in Way(rows, e)}
<1>1. \A a \in Way(rows, e) : a \in rows /\ Len(a) \in Nat
  BY AboveIs, NamesTyped DEF Way
<1>2. S \in SUBSET Nat /\ S # {}
  BY <1>1 DEF Way
<1>3. PICK n \in S : \A m \in S : n <= m
  <2> HIDE DEF S
  <2> QED
    BY <1>2, LeastOf
<1>4. PICK r \in Way(rows, e) : \A a \in Way(rows, e) : Len(r) <= Len(a)
  BY <1>3
<1>5. ParentOf(r) \notin rows
  <2> SUFFICES ASSUME ParentOf(r) \in rows PROVE FALSE
    OBVIOUS
  <2>1. ParentOf(r) \in Above(rows, r) /\ Len(ParentOf(r)) = Len(r) - 1
    BY <1>1, ParentAbove
  <2>2. ParentOf(r) \in Way(rows, e)
    BY <2>1, AboveAbove DEF Way
  <2> QED
    BY <1>1, <1>4, <2>1, <2>2
<1> QED
  BY <1>1, <1>5

\* The rows shown of d and what is below it.
Shown(rows, C, d) ==
    {e \in rows : d \in Way(rows, e) /\ \A a \in Above(rows, e) : d \in Way(rows, a) => a \notin C}

\* They are d and, unless it is folded, those of its children.
LEMMA ShownFrom ==
    ASSUME NEW rows \in SUBSET Datasets, NEW C, NEW d \in rows, NEW e
    PROVE  e \in Shown(rows, C, d) <=>
               \/ e = d
               \/ d \notin C /\ \E k \in rows : ParentOf(k) = d /\ e \in Shown(rows, C, k)
<1>0. d \in Datasets
  OBVIOUS
<1>1. ASSUME e = d
      PROVE  e \in Shown(rows, C, d)
  <2>1. ASSUME NEW a \in Above(rows, d) PROVE d \notin Way(rows, a)
    <3>1. Len(a) \in Nat /\ Len(a) < Len(d) /\ a \in Datasets
      BY OneWay, AboveIs
    <3>2. ASSUME d \in Above(rows, a) PROVE FALSE
      <4>1. Len(d) < Len(a) /\ Len(d) \in Nat
        BY <3>1, <3>2, OneWay
      <4> QED
        BY <3>1, <4>1
    <3>3. d # a
      BY <3>1
    <3> QED
      BY <3>2, <3>3 DEF Way
  <2> QED
    BY <1>1, <2>1 DEF Shown, Way
<1>2. ASSUME e \in Shown(rows, C, d), e # d
      PROVE  d \notin C /\ \E k \in rows : ParentOf(k) = d /\ e \in Shown(rows, C, k)
  <2>1. e \in rows /\ e \in Datasets /\ d \in Above(rows, e)
    BY <1>2 DEF Shown, Way
  <2>2. d \notin C
    BY <1>2, <2>1 DEF Shown, Way
  <2>3. PICK k \in rows : ParentOf(k) = d /\ k \in Way(rows, e)
    BY <2>1, StepDown
  <2>4. d \in Above(rows, k) /\ k \in Datasets
    BY <2>3, ParentAbove
  <2>5. ASSUME NEW a \in Above(rows, e), k \in Way(rows, a)
        PROVE  a \notin C
    <3>1. a \in Datasets
      BY <2>1, AboveIs
    <3>2. d \in Above(rows, a)
      BY <2>4, <2>5, <3>1, AboveAbove DEF Way
    <3> QED
      BY <1>2, <3>2 DEF Shown, Way
  <2>6. e \in Shown(rows, C, k)
    BY <2>1, <2>3, <2>5 DEF Shown
  <2> QED
    BY <2>2, <2>3, <2>6
<1>3. ASSUME d \notin C, NEW k \in rows, ParentOf(k) = d, e \in Shown(rows, C, k)
      PROVE  e \in Shown(rows, C, d)
  <2>1. e \in rows /\ e \in Datasets /\ k \in Datasets /\ k \in Way(rows, e)
    BY <1>3 DEF Shown
  <2>2. d \in Above(rows, k) /\ Len(d) = Len(k) - 1 /\ Len(k) \in Nat /\ Len(d) \in Nat
    BY <1>3, ParentAbove, NamesTyped
  <2>3. d \in Above(rows, e)
    BY <2>1, <2>2, AboveAbove DEF Way
  <2>4. ASSUME NEW a \in Above(rows, e), d \in Way(rows, a)
        PROVE  a \notin C
    <3>1. a \in Datasets
      BY <2>1, AboveIs
    <3>2. CASE a = d
      BY <1>3, <3>2
    <3>3. CASE a # d
      <4>1. d \in Above(rows, a)
        BY <2>4, <3>3 DEF Way
      <4>2. Len(d) < Len(a) /\ Len(a) \in Nat
        BY <3>1, <4>1, OneWay, NamesTyped
      <4>3. k \in Way(rows, a)
        <5>1. CASE k = e
          <6>1. Len(a) < Len(k)
            BY <2>1, <5>1, OneWay
          <6> QED
            BY <2>2, <4>2, <6>1
        <5>2. CASE k # e
          <6>1. k \in Above(rows, e)
            BY <2>1, <5>2 DEF Way
          <6>2. CASE Len(k) = Len(a)
            BY <2>1, <6>1, <6>2, OneWay DEF Way
          <6>3. CASE Len(k) < Len(a)
            BY <2>1, <6>1, <6>3, OneWay DEF Way
          <6> QED
            BY <2>2, <4>2, <6>2, <6>3
        <5> QED
          BY <5>1, <5>2
      <4> QED
        BY <1>3, <4>3 DEF Shown
    <3> QED
      BY <3>2, <3>3
  <2> QED
    BY <2>1, <2>3, <2>4 DEF Shown, Way
<1> QED
  BY <1>1, <1>2, <1>3

\* Those of the roots are the rows of which nothing above is folded.
LEMMA ShownOfRoots ==
    ASSUME NEW rows \in SUBSET Datasets, NEW C, NEW e
    PROVE  (\E r \in rows : ParentOf(r) \notin rows /\ e \in Shown(rows, C, r)) <=>
               e \in rows /\ Above(rows, e) \cap C = {}
<1>1. ASSUME e \in rows, Above(rows, e) \cap C = {}
      PROVE  \E r \in rows : ParentOf(r) \notin rows /\ e \in Shown(rows, C, r)
  <2>1. PICK r \in rows : ParentOf(r) \notin rows /\ r \in Way(rows, e)
    BY <1>1, RootOf
  <2> QED
    BY <1>1, <2>1 DEF Shown
<1>2. ASSUME NEW r \in rows, ParentOf(r) \notin rows, e \in Shown(rows, C, r)
      PROVE  e \in rows /\ Above(rows, e) \cap C = {}
  <2>1. e \in rows /\ e \in Datasets /\ r \in Datasets /\ r \in Way(rows, e)
    BY <1>2 DEF Shown
  <2>2. Above(rows, r) = {}
    BY <1>2, <2>1, ParentAbove
  <2>3. ASSUME NEW a \in Above(rows, e)
        PROVE  r \in Way(rows, a)
    <3>1. r \in Above(rows, e)
      BY <2>1, <2>2, <2>3 DEF Way
    <3>2. Len(r) \in Nat /\ Len(a) \in Nat /\ ~(Len(a) < Len(r))
      BY <2>1, <2>2, <2>3, <3>1, OneWay
    <3>3. Len(r) = Len(a) \/ Len(r) < Len(a)
      BY <3>2
    <3> QED
      BY <2>1, <2>3, <3>1, <3>3, OneWay DEF Way
  <2> QED
    BY <1>2, <2>1, <2>3 DEF Shown
<1> QED
  BY <1>1, <1>2

\* What walk makes of d when w is what it makes of the children; and that w is walk
\* on the datasets of D.
RowsFrom(w, rows, C, d) ==
    LET kids == KidsIn(rows, d) IN
    <<Row(d, kids # <<>>, d \notin C, FALSE)>> \o
    (IF kids # <<>> /\ d \notin C
       THEN FlattenSeq([i \in DOMAIN kids |-> w[kids[i]]]) ELSE <<>>)
Walks(w, rows, C, D) == w = [d \in D |-> RowsFrom(w, rows, C, d)]

\* The children of d, as the loop collects them.
LEMMA KidsAre ==
    ASSUME NEW rows \in SUBSET Datasets, NEW d
    PROVE  /\ KidsIn(rows, d) \in Seq(rows) /\ Len(KidsIn(rows, d)) \in Nat
           /\ DOMAIN KidsIn(rows, d) = 1 .. Len(KidsIn(rows, d))
           /\ KidsIn(rows, d) = <<>> <=> Len(KidsIn(rows, d)) = 0
           /\ \A i \in 1 .. Len(KidsIn(rows, d)) : KidsIn(rows, d)[i] \in rows /\ ParentOf(KidsIn(rows, d)[i]) = d
           /\ \A k \in rows : ParentOf(k) = d => \E i \in 1 .. Len(KidsIn(rows, d)) : KidsIn(rows, d)[i] = k
           /\ \A i, j \in 1 .. Len(KidsIn(rows, d)) :
                  i < j => Place(KidsIn(rows, d)[i]) < Place(KidsIn(rows, d)[j])
<1> DEFINE S == {k \in rows : ParentOf(k) = d}
           L == Listed(S)
<1>1. S \in SUBSET Datasets /\ S \subseteq rows /\ \A k : k \in S <=> k \in rows /\ ParentOf(k) = d
  OBVIOUS
<1>2. KidsIn(rows, d) = L
  BY DEF KidsIn
<1> HIDE DEF S
<1>3. /\ L \in Seq(S)
      /\ \A k : (\E i \in 1 .. Len(L) : L[i] = k) <=> k \in S
      /\ \A i, j \in 1 .. Len(L) : i < j => Place(L[i]) < Place(L[j])
  BY <1>1, ListedIs
<1> HIDE DEF L
<1>4. /\ L \in Seq(rows) /\ Len(L) \in Nat /\ DOMAIN L = 1 .. Len(L)
      /\ \A i \in 1 .. Len(L) : L[i] \in rows
  BY <1>1, <1>3
<1>5. L = <<>> <=> Len(L) = 0
  BY <1>4, EmptySeq
<1> QED
  BY <1>1, <1>2, <1>3, <1>4, <1>5

\* What walk makes of d depends on what it makes of its children only.
LEMMA RowsAgree ==
    ASSUME NEW rows \in SUBSET Datasets, NEW C, NEW d, NEW w, NEW g,
           \A k \in rows : ParentOf(k) = d => w[k] = g[k]
    PROVE  RowsFrom(w, rows, C, d) = RowsFrom(g, rows, C, d)
<1> DEFINE kids == KidsIn(rows, d)
<1>1. DOMAIN kids = 1 .. Len(kids) /\ \A i \in 1 .. Len(kids) : kids[i] \in rows /\ ParentOf(kids[i]) = d
  BY KidsAre
<1> HIDE DEF kids
<1>2. [i \in DOMAIN kids |-> w[kids[i]]] = [i \in DOMAIN kids |-> g[kids[i]]]
  BY <1>1
<1> QED
  BY <1>2 DEF RowsFrom, kids

\* No name is longer than some number of parts.
LEMMA Deepest == \E B \in Nat : \A d \in Datasets : Len(d) <= B
<1> DEFINE n == Len(Order)
           P == {k \in 0 .. n : \E B \in Nat : \A i \in 1 .. k : Len(Order[i]) <= B}
<1>1. n \in Nat /\ \A i \in 1 .. n : Len(Order[i]) \in Nat
  BY NamesTyped
<1>2. 0 \in P
  BY <1>1
<1>3. ASSUME NEW k \in 1 .. n, k - 1 \in P PROVE k \in P
  <2>1. PICK B \in Nat : \A i \in 1 .. (k - 1) : Len(Order[i]) <= B
    BY <1>3
  <2> DEFINE M == IF Len(Order[k]) <= B THEN B ELSE Len(Order[k])
  <2>2. M \in Nat /\ B <= M /\ Len(Order[k]) <= M
    BY <1>1
  <2> HIDE DEF M
  <2>3. \A i \in 1 .. k : Len(Order[i]) <= M
    <3>1. ASSUME NEW i \in 1 .. k PROVE Len(Order[i]) <= M
      <4>1. i \in 1 .. n /\ (i = k \/ i \in 1 .. (k - 1))
        BY <1>1
      <4> QED
        BY <1>1, <2>1, <2>2, <4>1
    <3> QED
      BY <3>1
  <2>4. k \in 0 .. n
    BY <1>1
  <2> QED
    BY <2>2, <2>3, <2>4
<1> HIDE DEF P
<1>4. n \in P
  <2>1. \A k \in 0 .. n : k \in P
    <3> HIDE DEF n
    <3> QED
      BY <1>1, <1>2, <1>3, UpTo
  <2> QED
    BY <1>1, <2>1
<1>5. PICK B \in Nat : \A i \in 1 .. n : Len(Order[i]) <= B
  BY <1>4 DEF P
<1> QED
  BY <1>5, NamesTyped

\* The recursion ends: below every row are longer names only.
LEMMA WalkExists ==
    ASSUME NEW rows \in SUBSET Datasets, NEW C
    PROVE  \E w : Walks(w, rows, C, rows)
<1>1. PICK B \in Nat : \A d \in Datasets : Len(d) <= B
  BY Deepest
<1> DEFINE D(n) == {d \in rows : Len(d) > B - n}
           P == {n \in 0 .. B : \E w : Walks(w, rows, C, D(n))}
<1>2. \A d \in rows : d \in Datasets /\ Len(d) \in Nat \ {0} /\ Len(d) <= B
  BY <1>1, NamesTyped
<1>3. 0 \in P
  <2> DEFINE w == [d \in D(0) |-> 0]
  <2>1. D(0) = {}
    BY <1>2
  <2>2. w = [d \in D(0) |-> RowsFrom(w, rows, C, d)]
    BY <2>1
  <2> HIDE DEF w, D
  <2>3. Walks(w, rows, C, D(0))
    BY <2>2 DEF Walks
  <2> QED
    BY <2>3
<1>4. ASSUME NEW n \in 1 .. B, n - 1 \in P PROVE n \in P
  <2>1. PICK g : Walks(g, rows, C, D(n - 1))
    BY <1>4
  <2> DEFINE w == [d \in D(n) |-> IF d \in D(n - 1) THEN g[d] ELSE RowsFrom(g, rows, C, d)]
  <2>2. D(n - 1) \subseteq D(n) /\ D(n) \subseteq rows
    BY <1>2
  <2>3. ASSUME NEW d \in D(n)
        PROVE  \A k \in rows : ParentOf(k) = d => k \in D(n - 1)
    <3>1. ASSUME NEW k \in rows, ParentOf(k) = d PROVE k \in D(n - 1)
      <4>1. d \in rows /\ Len(d) \in Nat /\ Len(k) \in Nat /\ k \in Datasets
        BY <1>2, <2>2
      <4>2. Len(d) = Len(k) - 1
        BY <3>1, <4>1, ParentAbove
      <4>3. Len(d) > B - n
        OBVIOUS
      <4> QED
        BY <1>2, <4>1, <4>2, <4>3
    <3> QED
      BY <3>1
  <2> HIDE DEF D
  <2>4. \A d \in D(n - 1) : w[d] = g[d]
    BY <2>2
  <2>5. \A d \in D(n - 1) : g[d] = RowsFrom(g, rows, C, d)
    BY <2>1 DEF Walks
  <2>6. \A d \in D(n) : w[d] = RowsFrom(g, rows, C, d)
    BY <2>5
  <2>7. w = [d \in D(n) |-> w[d]]
    OBVIOUS
  <2> HIDE DEF w
  <2>8. \A d \in D(n) : RowsFrom(w, rows, C, d) = RowsFrom(g, rows, C, d)
    BY <2>3, <2>4, RowsAgree
  <2>9. Walks(w, rows, C, D(n))
    BY <2>6, <2>7, <2>8 DEF Walks
  <2> QED
    BY <2>9
<1>5. B \in P
  <2>1. \A n \in 0 .. B : n \in P
    <3> HIDE DEF P
    <3> QED
      BY <1>3, <1>4, UpTo
  <2> HIDE DEF P
  <2> QED
    BY <2>1
<1>6. D(B) = rows
  BY <1>2
<1> HIDE DEF D
<1> QED
  BY <1>5, <1>6

\* The row of a dataset, and the rows there are.
RowOf(rows, C, d) == Row(d, KidsIn(rows, d) # <<>>, d \notin C, FALSE)
RowsOf(rows, C) == {RowOf(rows, C, d) : d \in rows}

\* Rows are those of some datasets, depth first.
Ordered(rows, C, s, D) ==
    /\ s \in Seq(RowsOf(rows, C))
    /\ \A x : (\E j \in 1 .. Len(s) : s[j] = x) <=> \E e \in D : x = RowOf(rows, C, e)
    /\ \A i, j \in 1 .. Len(s) : i < j => Before(rows, s[i].ds, s[j].ds)

\* What walk makes of some datasets, one after the other.
InTurn(w, kids) == FlattenSeq([i \in DOMAIN kids |-> w[kids[i]]])

\* The rows of several datasets with one parent, or of several roots, one after the
\* other in the order of zfs.
LEMMA SiblingsOrdered ==
    ASSUME NEW rows \in SUBSET Datasets, NEW C, NEW kids \in Seq(rows), NEW w, NEW p, NEW U,
           \A i \in 1 .. Len(kids) : Up(rows, kids[i]) = p,
           \A i, j \in 1 .. Len(kids) : i < j => Place(kids[i]) < Place(kids[j]),
           \A i \in 1 .. Len(kids) : Ordered(rows, C, w[kids[i]], Shown(rows, C, kids[i])),
           \A e : e \in U <=> \E i \in 1 .. Len(kids) : e \in Shown(rows, C, kids[i])
    PROVE  Ordered(rows, C, InTurn(w, kids), U)
<1> DEFINE m == Len(kids)
           S == RowsOf(rows, C)
           D(i) == Shown(rows, C, kids[i])
           seqs == [i \in 1 .. m |-> w[kids[i]]]
           R == {q \in S \X S : Before(rows, q[1].ds, q[2].ds)}
           F == FlattenSeq(seqs)
<1>1. m \in Nat /\ DOMAIN kids = 1 .. m /\ \A i \in 1 .. m : kids[i] \in rows
  OBVIOUS
<1>2. \A x, y : <<x, y>> \in R <=> x \in S /\ y \in S /\ Before(rows, x.ds, y.ds)
  OBVIOUS
<1>3. ASSUME NEW i \in 1 .. m
      PROVE  /\ seqs[i] \in Seq(S)
             /\ \A x : (\E j \in 1 .. Len(seqs[i]) : seqs[i][j] = x) <=> \E e \in D(i) : x = RowOf(rows, C, e)
             /\ \A j, k \in 1 .. Len(seqs[i]) : j < k => Before(rows, seqs[i][j].ds, seqs[i][k].ds)
             /\ \A j \in 1 .. Len(seqs[i]) : seqs[i][j] \in S
  <2>1. seqs[i] = w[kids[i]] /\ Ordered(rows, C, w[kids[i]], Shown(rows, C, kids[i]))
    OBVIOUS
  <2>2. Ordered(rows, C, seqs[i], D(i))
    BY <2>1
  <2> DEFINE s == seqs[i]
  <2>3. s \in Seq(S)
    BY <2>2 DEF Ordered
  <2>4. \A j \in 1 .. Len(s) : s[j] \in S
    <3> HIDE DEF s, S
    <3> QED
      BY <2>3
  <2> HIDE DEF seqs, D
  <2> QED
    BY <2>2, <2>3, <2>4 DEF Ordered
<1>4. seqs \in [1 .. m -> Seq(S)]
  <2> HIDE DEF m, S
  <2> QED
    BY <1>3
<1>5. seqs = [i \in DOMAIN kids |-> w[kids[i]]]
  BY <1>1
<1>6. \A e : RowOf(rows, C, e).ds = e
  BY DEF RowOf, Row
<1>7. \A i \in 1 .. m : \A e \in D(i) : kids[i] \in Way(rows, e) /\ e \in rows
  BY DEF Shown
<1>8. \A i, l \in 1 .. m : i < l => Place(kids[i]) < Place(kids[l]) /\ Up(rows, kids[i]) = Up(rows, kids[l])
  OBVIOUS
<1> HIDE DEF m, S, D, seqs, R
<1>9. \A i \in 1 .. m : \A j, k \in 1 .. Len(seqs[i]) : j < k => <<seqs[i][j], seqs[i][k]>> \in R
  BY <1>2, <1>3
<1>10. ASSUME NEW i \in 1 .. m, NEW l \in 1 .. m, i < l,
              NEW j \in 1 .. Len(seqs[i]), NEW k \in 1 .. Len(seqs[l])
       PROVE  <<seqs[i][j], seqs[l][k]>> \in R
  <2>1. PICK d \in D(i) : seqs[i][j] = RowOf(rows, C, d)
    BY <1>3
  <2>2. PICK e \in D(l) : seqs[l][k] = RowOf(rows, C, e)
    BY <1>3
  <2>3. kids[i] \in Way(rows, d) /\ kids[l] \in Way(rows, e)
    BY <1>7
  <2>4. Before(rows, d, e)
    BY <1>8, <1>10, <2>3 DEF Before
  <2> QED
    BY <1>2, <1>3, <1>6, <2>1, <2>2, <2>4, SMTT(30)
<1>11. /\ F \in Seq(S)
       /\ \A x : (\E j \in 1 .. Len(F) : F[j] = x) <=>
                 (\E i \in 1 .. m : \E j \in 1 .. Len(seqs[i]) : seqs[i][j] = x)
       /\ \A j, k \in 1 .. Len(F) : j < k => <<F[j], F[k]>> \in R
  BY <1>1, <1>4, <1>9, <1>10, Flattened
<1> HIDE DEF F
<1>12. \A x : (\E j \in 1 .. Len(F) : F[j] = x) <=> \E e \in U : x = RowOf(rows, C, e)
  <2>1. \A x : (\E j \in 1 .. Len(F) : F[j] = x) <=>
               (\E i \in 1 .. m : \E e \in D(i) : x = RowOf(rows, C, e))
    <3>1. ASSUME NEW x
          PROVE  (\E i \in 1 .. m : \E j \in 1 .. Len(seqs[i]) : seqs[i][j] = x) <=>
                 (\E i \in 1 .. m : \E e \in D(i) : x = RowOf(rows, C, e))
      BY <1>3, Zenon
    <3> QED
      BY <1>11, <3>1, Zenon
  <2>2. \A e : e \in U <=> \E i \in 1 .. m : e \in D(i)
    BY DEF D, m
  <2> QED
    BY <2>1, <2>2
<1>13. Ordered(rows, C, F, U)
  BY <1>2, <1>11, <1>12 DEF Ordered, S
<1> QED
  BY <1>5, <1>13 DEF F, InTurn

\* A walk shows of each row the row and what is below it, as far as it is not folded.
LEMMA WalkIs ==
    ASSUME NEW rows \in SUBSET Datasets, NEW C, NEW w, Walks(w, rows, C, rows)
    PROVE  \A d \in rows : Ordered(rows, C, w[d], Shown(rows, C, d))
<1>1. PICK B \in Nat : \A d \in Datasets : Len(d) <= B
  BY Deepest
<1>2. \A d \in rows : d \in Datasets /\ Len(d) \in Nat \ {0} /\ Len(d) <= B
  BY <1>1, NamesTyped
<1> DEFINE Good(d) == Ordered(rows, C, w[d], Shown(rows, C, d))
           P == {n \in 0 .. B : \A d \in rows : Len(d) > B - n => Good(d)}
<1> HIDE DEF Good
<1>3. 0 \in P
  BY <1>2
<1>4. ASSUME NEW n \in 1 .. B, n - 1 \in P, NEW d \in rows, Len(d) > B - n
      PROVE  Good(d)
  <2> DEFINE kids == KidsIn(rows, d)
             m == Len(kids)
             F == FlattenSeq([i \in DOMAIN kids |-> w[kids[i]]])
             first == RowOf(rows, C, d)
  <2>1. /\ kids \in Seq(rows) /\ m \in Nat /\ DOMAIN kids = 1 .. m /\ (kids = <<>> <=> m = 0)
        /\ \A i \in 1 .. m : kids[i] \in rows /\ ParentOf(kids[i]) = d
        /\ \A k \in rows : ParentOf(k) = d => \E i \in 1 .. m : kids[i] = k
        /\ \A i, j \in 1 .. m : i < j => Place(kids[i]) < Place(kids[j])
    BY KidsAre
  <2>2. w[d] = <<first>> \o (IF kids # <<>> /\ d \notin C THEN F ELSE <<>>)
    BY DEF Walks, RowsFrom, RowOf
  <2> HIDE DEF kids, m, F, first
  <2>3. ASSUME NEW i \in 1 .. m
        PROVE  Good(kids[i]) /\ Up(rows, kids[i]) = d /\ d \in Above(rows, kids[i])
    <3>1. kids[i] \in rows /\ ParentOf(kids[i]) = d /\ kids[i] \in Datasets
      BY <2>1
    <3>2. d \in Above(rows, kids[i]) /\ Len(d) = Len(kids[i]) - 1
      BY <3>1, ParentAbove
    <3>3. Len(kids[i]) > B - (n - 1) /\ n - 1 \in 0 .. B
      BY <1>2, <1>4, <3>1, <3>2
    <3> QED
      BY <1>4, <3>1, <3>2, <3>3 DEF Up
  <2> DEFINE U == UNION {Shown(rows, C, kids[i]) : i \in 1 .. m}
  <2>4. Ordered(rows, C, F, U)
    <3>1. \A i \in 1 .. m : Ordered(rows, C, w[kids[i]], Shown(rows, C, kids[i]))
      BY <2>3 DEF Good
    <3>2. /\ kids \in Seq(rows)
          /\ \A i \in 1 .. Len(kids) : Up(rows, kids[i]) = d
          /\ \A i, j \in 1 .. Len(kids) : i < j => Place(kids[i]) < Place(kids[j])
          /\ \A i \in 1 .. Len(kids) : Ordered(rows, C, w[kids[i]], Shown(rows, C, kids[i]))
      BY <2>1, <2>3, <3>1 DEF m
    <3>3. \A e : e \in U <=> \E i \in 1 .. Len(kids) : e \in Shown(rows, C, kids[i])
      BY DEF m
    <3> HIDE DEF U
    <3>4. Ordered(rows, C, InTurn(w, kids), U)
      BY <3>2, <3>3, SiblingsOrdered
    <3> QED
      BY <3>4 DEF F, InTurn
  <2>5. \A e : e \in U <=> \E k \in rows : ParentOf(k) = d /\ e \in Shown(rows, C, k)
    <3>1. \A e : e \in U <=> \E i \in 1 .. m : e \in Shown(rows, C, kids[i])
      OBVIOUS
    <3> HIDE DEF U
    <3> QED
      BY <2>1, <3>1
  <2>6. \A e \in U : d \in Above(rows, e)
    <3>1. ASSUME NEW i \in 1 .. m, NEW e \in Shown(rows, C, kids[i])
          PROVE  d \in Above(rows, e)
      <4>1. kids[i] \in Way(rows, e) /\ e \in Datasets
        BY DEF Shown
      <4> QED
        BY <2>3, <4>1, AboveAbove DEF Way
    <3> QED
      BY <3>1
  <2>7. \A e : RowOf(rows, C, e).ds = e
    BY DEF RowOf, Row
  <2>8. first \in RowsOf(rows, C) /\ first.ds = d /\ first = RowOf(rows, C, d)
    BY <2>7 DEF RowsOf, first
  <2>9. \A e : e \in Shown(rows, C, d) <=> e = d \/ (d \notin C /\ e \in U)
    BY <2>5, ShownFrom
  <2> HIDE DEF U
  <2> DEFINE S == RowsOf(rows, C)
             s == w[d]
  <2>10. CASE kids # <<>> /\ d \notin C
    <3>1. s = <<first>> \o F /\ F \in Seq(S) /\ <<first>> \in Seq(S) /\ Len(<<first>>) = 1
      BY <2>2, <2>4, <2>8, <2>10 DEF Ordered
    <3> HIDE DEF s, S
    <3>2. /\ s \in Seq(S) /\ Len(s) = 1 + Len(F) /\ Len(F) \in Nat
          /\ s[1] = first /\ \A j \in 1 .. Len(F) : s[1 + j] = F[j]
      BY <3>1, ConcatProperties
    <3>3. /\ \A x : (\E j \in 1 .. Len(F) : F[j] = x) <=> \E e \in U : x = RowOf(rows, C, e)
          /\ \A i, j \in 1 .. Len(F) : i < j => Before(rows, F[i].ds, F[j].ds)
      BY <2>4 DEF Ordered
    <3>4. \A x : (\E j \in 1 .. Len(s) : s[j] = x) <=> x = first \/ (\E j \in 1 .. Len(F) : F[j] = x)
      <4>1. \A j \in 1 .. Len(s) : j = 1 \/ (j - 1 \in 1 .. Len(F) /\ s[j] = F[j - 1])
        BY <3>2
      <4>2. \A j \in 1 .. Len(F) : 1 + j \in 1 .. Len(s) /\ s[1 + j] = F[j]
        BY <3>2
      <4>3. 1 \in 1 .. Len(s)
        BY <3>2
      <4> QED
        BY <3>2, <4>1, <4>2, <4>3, SMTT(30)
    <3>5. \A x : (\E j \in 1 .. Len(s) : s[j] = x) <=> \E e \in Shown(rows, C, d) : x = RowOf(rows, C, e)
      BY <2>8, <2>9, <2>10, <3>3, <3>4
    <3>6. ASSUME NEW i \in 1 .. Len(s), NEW j \in 1 .. Len(s), i < j
          PROVE  Before(rows, s[i].ds, s[j].ds)
      <4>1. j - 1 \in 1 .. Len(F) /\ s[j] = F[j - 1]
        BY <3>2, <3>6
      <4>2. CASE i = 1
        <5>1. PICK e \in U : s[j] = RowOf(rows, C, e)
          BY <3>3, <4>1
        <5> QED
          BY <2>6, <2>7, <2>8, <3>2, <4>2, <5>1 DEF Before
      <4>3. CASE i # 1
        <5>1. i - 1 \in 1 .. Len(F) /\ s[i] = F[i - 1] /\ i - 1 < j - 1
          BY <3>2, <3>6, <4>3
        <5> QED
          BY <3>3, <4>1, <5>1
      <4> QED
        BY <4>2, <4>3
    <3>7. Ordered(rows, C, s, Shown(rows, C, d))
      BY <3>2, <3>5, <3>6 DEF Ordered, S
    <3> QED
      BY <3>7 DEF Good, s
  <2>11. CASE ~(kids # <<>> /\ d \notin C)
    <3>1. s = <<first>> \o <<>> /\ first \in S
      BY <2>2, <2>8, <2>11
    <3> HIDE DEF s, S
    <3>2. s = <<first>> /\ s \in Seq(S) /\ Len(s) = 1 /\ s[1] = first
      BY <3>1
    <3>3. \A e : e \in Shown(rows, C, d) <=> e = d
      <4>1. kids = <<>> => ~ \E k \in rows : ParentOf(k) = d
        BY <2>1
      <4> QED
        BY <2>5, <2>9, <2>11, <4>1
    <3>4. \A x : (\E j \in 1 .. Len(s) : s[j] = x) <=> \E e \in Shown(rows, C, d) : x = RowOf(rows, C, e)
      BY <2>8, <3>2, <3>3
    <3>5. \A i, j \in 1 .. Len(s) : ~ (i < j)
      BY <3>2
    <3>6. Ordered(rows, C, s, Shown(rows, C, d))
      BY <3>2, <3>4, <3>5 DEF Ordered, S
    <3> QED
      BY <3>6 DEF Good, s
  <2> QED
    BY <2>10, <2>11
<1>5. \A n \in 0 .. B : n \in P
  <2>1. \A n \in 1 .. B : n - 1 \in P => n \in P
    BY <1>4
  <2> HIDE DEF P
  <2> QED
    BY <1>3, <2>1, UpTo
<1>6. B \in P
  <2> HIDE DEF P
  <2> QED
    BY <1>5
<1> QED
  BY <1>2, <1>6 DEF Good

\* The tree: the rows of which nothing above is folded, each once and depth first.
LEMMA TreeIs ==
    ASSUME NEW rows \in SUBSET Datasets, NEW C
    PROVE  Ordered(rows, C, BuildTree(rows, C), {d \in rows : Above(rows, d) \cap C = {}})
<1> DEFINE w == CHOOSE w : Walks(w, rows, C, rows)
           S == {d \in rows : ParentOf(d) \notin rows}
           L == Listed(S)
<1>1. BuildTree(rows, C) = InTurn(w, L)
  BY DEF BuildTree, Walks, RowsFrom, RootsIn, InTurn
<1>2. Walks(w, rows, C, rows)
  BY WalkExists
<1> HIDE DEF w
<1>3. \A d \in rows : Ordered(rows, C, w[d], Shown(rows, C, d))
  BY <1>2, WalkIs
<1>4. S \in SUBSET Datasets /\ S \subseteq rows /\ \A d : d \in S <=> d \in rows /\ ParentOf(d) \notin rows
  OBVIOUS
<1> HIDE DEF S
<1>5. /\ L \in Seq(S)
      /\ \A d : (\E i \in 1 .. Len(L) : L[i] = d) <=> d \in S
      /\ \A i, j \in 1 .. Len(L) : i < j => Place(L[i]) < Place(L[j])
  BY <1>4, ListedIs
<1> HIDE DEF L
<1>6. /\ L \in Seq(rows)
      /\ \A i \in 1 .. Len(L) : L[i] \in rows /\ Up(rows, L[i]) = NoName
  BY <1>4, <1>5 DEF Up
<1>7. /\ \A i \in 1 .. Len(L) : Up(rows, L[i]) = NoName
      /\ \A i \in 1 .. Len(L) : Ordered(rows, C, w[L[i]], Shown(rows, C, L[i]))
  BY <1>3, <1>6
<1> DEFINE U == UNION {Shown(rows, C, L[i]) : i \in 1 .. Len(L)}
<1>0. \A d : d \in U <=> \E i \in 1 .. Len(L) : d \in Shown(rows, C, L[i])
  OBVIOUS
<1> HIDE DEF U
<1>8. Ordered(rows, C, InTurn(w, L), U)
  BY <1>0, <1>5, <1>6, <1>7, SiblingsOrdered
<1>9. U = {d \in rows : Above(rows, d) \cap C = {}}
  <2>2. \A d : d \in U <=> \E r \in S : d \in Shown(rows, C, r)
    <3>1. ASSUME NEW d, NEW i \in 1 .. Len(L), d \in Shown(rows, C, L[i])
          PROVE  L[i] \in S
      BY <1>5
    <3>2. ASSUME NEW d, NEW r \in S, d \in Shown(rows, C, r)
          PROVE  \E i \in 1 .. Len(L) : d \in Shown(rows, C, L[i])
      BY <1>5, <3>2
    <3> QED
      BY <1>0, <3>1, <3>2
  <2>3. \A d : d \in U <=> d \in rows /\ Above(rows, d) \cap C = {}
    <3>1. \A d : (\E r \in S : d \in Shown(rows, C, r)) <=>
                 (\E r \in rows : ParentOf(r) \notin rows /\ d \in Shown(rows, C, r))
      BY <1>4
    <3>2. \A d : (\E r \in rows : ParentOf(r) \notin rows /\ d \in Shown(rows, C, r)) <=>
                 d \in rows /\ Above(rows, d) \cap C = {}
      BY ShownOfRoots, Zenon
    <3> QED
      BY <2>2, <3>1, <3>2, Zenon
  <2> QED
    BY <2>3
<1> QED
  BY <1>1, <1>8, <1>9

\* The same, of the datasets only.
Whole(rows, C, t) ==
    /\ \A d : (\E i \in DOMAIN t : t[i].ds = d) <=> d \in rows /\ Above(rows, d) \cap C = {}
    /\ \A i, j \in DOMAIN t : i < j => Before(rows, t[i].ds, t[j].ds)

\* What the tree shows, for who asks for the datasets only.
LEMMA TreeShows ==
    ASSUME NEW rows \in SUBSET Datasets, NEW C
    PROVE  Whole(rows, C, BuildTree(rows, C))
<1> DEFINE t == BuildTree(rows, C)
           D == {d \in rows : Above(rows, d) \cap C = {}}
<1> HIDE DEF t
<1>1. Ordered(rows, C, t, D)
  BY TreeIs DEF t
<1>2. /\ \A x : (\E j \in 1 .. Len(t) : t[j] = x) <=> \E e \in D : x = RowOf(rows, C, e)
      /\ \A i, j \in 1 .. Len(t) : i < j => Before(rows, t[i].ds, t[j].ds)
      /\ t \in Seq(RowsOf(rows, C))
  BY <1>1 DEF Ordered
<1>3. DOMAIN t = 1 .. Len(t) /\ Len(t) \in Nat
  BY <1>2
<1>4. \A e : RowOf(rows, C, e).ds = e
  BY DEF RowOf, Row
<1>5. \A d : (\E i \in 1 .. Len(t) : t[i].ds = d) <=> d \in D
  <2>1. ASSUME NEW d, d \in D
        PROVE  \E i \in 1 .. Len(t) : t[i].ds = d
    <3>1. \E i \in 1 .. Len(t) : t[i] = RowOf(rows, C, d)
      BY <1>2, <2>1
    <3> QED
      BY <1>4, <3>1
  <2>2. ASSUME NEW i \in 1 .. Len(t)
        PROVE  t[i].ds \in D
    <3>1. \E e \in D : t[i] = RowOf(rows, C, e)
      BY <1>2
    <3> QED
      BY <1>4, <3>1
  <2> QED
    BY <2>1, <2>2
<1> QED
  BY <1>2, <1>3, <1>5 DEF Whole, t

\* Rows under a filter are flat.
LEMMA FlatIsFlat == \A hits \in SUBSET Datasets : \A i \in DOMAIN FlatRows(hits) : FlatRows(hits)[i].flat
BY DEF FlatRows, Row
-----------------------------------------------------------------------------
(* The rows on the screen are those of the last scan.                      *)

\* No dataset but those there may be, and a tree that is the one of the last scan
\* and the folds of today.  Where there are datasets and no filter, the first view
\* has been folded: else the next list, and not the user, would fold rows.
RowsInv(g) ==
    /\ g.all \subseteq Datasets
    /\ g.listErr => g.all = {}
    /\ g.query = NoName /\ g.all # {} => g.seeded
    /\ ~g.listErr => g.visible = IF g.query = NoName THEN BuildTree(g.all, g.collapsed)
                                 ELSE FlatRows(g.all \cap g.query)

\* The part of the window that it is about.
SameRows(g, h) ==
    /\ DOMAIN h = Fields
    /\ h.all = g.all /\ h.listErr = g.listErr /\ h.query = g.query /\ h.collapsed = g.collapsed
    /\ h.seeded = g.seeded /\ h.visible = g.visible

\* Looking at the rows does not change them.
LEMMA ShowSame ==
    ASSUME NEW g, NEW i, DOMAIN g = Fields
    PROVE  SameRows(g, ShowDossier(g, i)) /\ ShowDossier(g, i).cursor = g.cursor
<1> DEFINE k == [g EXCEPT !.lastShown = i, !.dossiers = Late(@)]
           h == ShowDossier(g, i)
           d == g.visible[i].ds
<1>1. SameRows(g, k) /\ k.cursor = g.cursor
  BY DEF SameRows, Fields
<1>2. h = [k EXCEPT !.pane = Note] \/
      h = [k EXCEPT !.pane = Pane("loading", d), !.dossiers = @ \cup {[ds |-> d, latest |-> TRUE]}]
  BY DEF ShowDossier
<1> HIDE DEF k, h, d
<1>3. DOMAIN k = Fields
  BY <1>1 DEF SameRows
<1>4. CASE h = [k EXCEPT !.pane = Note]
  <2>1. SameRows(k, h) /\ h.cursor = k.cursor
    BY <1>3, <1>4 DEF SameRows, Fields
  <2> QED
    BY <1>1, <2>1 DEF SameRows, h
<1>5. CASE h = [k EXCEPT !.pane = Pane("loading", d), !.dossiers = @ \cup {[ds |-> d, latest |-> TRUE]}]
  <2>1. SameRows(k, h) /\ h.cursor = k.cursor
    BY <1>3, <1>5 DEF SameRows, Fields
  <2> QED
    BY <1>1, <2>1 DEF SameRows, h
<1> QED
  BY <1>2, <1>4, <1>5

\* Nor does asking for the snapshots.
LEMMA SnapsSame ==
    ASSUME NEW g, DOMAIN g = Fields
    PROVE  SameRows(g, ReloadSnaps(g)) /\ ReloadSnaps(g).cursor = g.cursor
<1> DEFINE k == [g EXCEPT !.lists = Late(@)]
           h == ReloadSnaps(g)
           d == CurName(g)
<1>1. SameRows(g, k) /\ k.cursor = g.cursor
  BY DEF SameRows, Fields
<1>2. h = [k EXCEPT !.snaps = NoName] \/ h = [k EXCEPT !.lists = @ \cup {[ds |-> d, latest |-> TRUE]}]
  BY DEF ReloadSnaps
<1> HIDE DEF k, h, d
<1>3. DOMAIN k = Fields
  BY <1>1 DEF SameRows
<1>4. SameRows(k, h) /\ h.cursor = k.cursor
  BY <1>2, <1>3 DEF SameRows, Fields
<1> QED
  BY <1>1, <1>4 DEF SameRows, h

\* Nor does the editor.
LEMMA BuildSame ==
    ASSUME NEW g, DOMAIN g = Fields
    PROVE  SameRows(g, BuildRight(g)) /\ BuildRight(g).cursor = g.cursor
<1> DEFINE k == ShowDossier(g, g.cursor)
           h == BuildRight(g)
<1>1. SameRows(g, k) /\ k.cursor = g.cursor
  BY ShowSame
<1>2. h = [g EXCEPT !.form = CurName(g)] \/ h = [k EXCEPT !.form = NoName]
  BY DEF BuildRight
<1> HIDE DEF k, h
<1>3. DOMAIN k = Fields
  BY <1>1 DEF SameRows
<1>4. CASE h = [g EXCEPT !.form = CurName(g)]
  BY <1>4 DEF SameRows, Fields, h
<1>5. CASE h = [k EXCEPT !.form = NoName]
  <2>1. SameRows(k, h) /\ h.cursor = k.cursor
    BY <1>3, <1>5 DEF SameRows, Fields
  <2> QED
    BY <1>1, <2>1 DEF SameRows, h
<1> QED
  BY <1>2, <1>4, <1>5

\* Nor does selecting one of them, after which it is under the cursor.
LEMMA SelectSame ==
    ASSUME NEW g, NEW i, DOMAIN g = Fields
    PROVE  /\ SameRows(g, SelectAt(g, i))
           /\ g.visible # <<>> /\ g.selected = g.cursor => SelectAt(g, i).cursor = i
<1> DEFINE k == [g EXCEPT !.selected = i, !.cursor = i]
           h == ReloadSnaps(k)
           s == SelectAt(g, i)
<1>1. CASE g.selected = i \/ g.visible = <<>>
  <2>1. s = g
    BY <1>1 DEF SelectAt
  <2> QED
    BY <1>1, <2>1 DEF SameRows
<1>2. CASE ~(g.selected = i \/ g.visible = <<>>)
  <2>1. s = IF h.editing THEN BuildRight(h) ELSE SetDossier(h, i)
    BY <1>2 DEF SelectAt
  <2>2. SameRows(g, k) /\ k.cursor = i
    BY DEF SameRows, Fields
  <2> HIDE DEF k
  <2>3. SameRows(k, h) /\ h.cursor = i
    BY <2>2, SnapsSame DEF SameRows
  <2> HIDE DEF h, s
  <2>4. s = BuildRight(h) \/ s = h \/ s = ShowDossier(h, i)
    BY <2>1 DEF SetDossier
  <2>5. SameRows(h, s) /\ s.cursor = i
    BY <2>3, <2>4, BuildSame, ShowSame DEF SameRows
  <2> QED
    BY <2>2, <2>3, <2>5 DEF SameRows, s
<1> QED
  BY <1>1, <1>2

\* Nor does putting the cursor back, which finds a dataset that has a row.
LEMMA RestoreSame ==
    ASSUME NEW g, NEW d, DOMAIN g = Fields
    PROVE  LET h == Restore(g, d) IN
           /\ SameRows(g, h)
           /\ (\E i \in DOMAIN g.visible : g.visible[i].ds = d) /\ g.selected = g.cursor => CurName(h) = d
           /\ h = g \/ (g.selected = g.cursor => CurName(h) = d)
<1> DEFINE at == {i \in DOMAIN g.visible : g.visible[i].ds = d}
           i == CHOOSE i \in at : TRUE
           h == Restore(g, d)
<1>1. CASE at = {}
  <2>1. h = g
    BY <1>1 DEF Restore
  <2> QED
    BY <1>1, <2>1 DEF SameRows
<1>2. CASE at # {}
  <2>1. h = SelectAt(g, i)
    BY <1>2 DEF Restore
  <2>2. i \in at
    BY <1>2
  <2>3. i \in DOMAIN g.visible /\ g.visible[i].ds = d
    BY <2>2
  <2> HIDE DEF h, i, at
  <2>4. g.visible # <<>>
    BY <2>3
  <2>5. SameRows(g, h) /\ (g.selected = g.cursor => h.cursor = i)
    BY <2>1, <2>4, SelectSame
  <2>6. g.selected = g.cursor => CurName(h) = d
    BY <2>3, <2>5 DEF CurName, SameRows
  <2> QED
    BY <2>5, <2>6 DEF h
<1> QED
  BY <1>1, <1>2

\* Rows that are the same are as they should be.
LEMMA SameKeeps ==
    ASSUME NEW g, NEW h, RowsInv(g), SameRows(g, h)
    PROVE  RowsInv(h)
BY DEF RowsInv, SameRows

\* Building the rows shows those of the last scan; it folds no rows but the first time.
LEMMA FilterRows ==
    ASSUME NEW g, DOMAIN g = Fields, g.all \subseteq Datasets, g.listErr => g.all = {}
    PROVE  LET h == ApplyFilter(g) IN
           /\ RowsInv(h) /\ DOMAIN h = Fields
           /\ h.all = g.all /\ h.query = g.query /\ h.listErr = g.listErr
           /\ (g.query = NoName /\ g.all # {} => g.seeded) => h.collapsed = g.collapsed
<1> DEFINE seed == g.query = NoName /\ ~g.seeded /\ g.all # {}
           folded == IF seed THEN DefaultCollapsed(g.all) ELSE g.collapsed
           rows == IF g.query = NoName THEN BuildTree(g.all, folded) ELSE FlatRows(g.all \cap g.query)
           known == g.seeded \/ seed
           k == [g EXCEPT !.collapsed = folded, !.seeded = known, !.visible = rows,
                          !.lastShown = 0, !.selected = 0]
           h == ApplyFilter(g)
<1>1. h = IF rows # <<>> THEN SelectAt(k, 1) ELSE [k EXCEPT !.pane = Note]
  BY Zenon DEF ApplyFilter
<1>2. /\ (g.query = NoName /\ g.all # {} => g.seeded) => folded = g.collapsed
      /\ g.query = NoName /\ g.all # {} => known
      /\ rows = IF g.query = NoName THEN BuildTree(g.all, folded) ELSE FlatRows(g.all \cap g.query)
  OBVIOUS
<1> HIDE DEF seed, folded, rows, known
<1>3. /\ DOMAIN k = Fields /\ k.visible = rows /\ k.collapsed = folded /\ k.seeded = known
      /\ k.all = g.all /\ k.query = g.query /\ k.listErr = g.listErr
  BY DEF Fields
<1> HIDE DEF k
<1>4. RowsInv(k)
  BY <1>2, <1>3 DEF RowsInv
<1>5. SameRows(k, h)
  <2>1. CASE rows # <<>>
    BY <1>1, <1>3, <2>1, SelectSame
  <2>2. CASE rows = <<>>
    <3>1. h = [k EXCEPT !.pane = Note]
      BY <1>1, <2>2
    <3> HIDE DEF h
    <3> QED
      BY <1>3, <3>1 DEF SameRows, Fields
  <2> QED
    BY <2>1, <2>2
<1> HIDE DEF h
<1>6. RowsInv(h)
  BY <1>4, <1>5, SameKeeps
<1> QED
  BY <1>2, <1>3, <1>5, <1>6 DEF SameRows, h

\* Folding or unfolding a row.
LEMMA FoldRows ==
    ASSUME NEW g, NEW i, NEW expand, DOMAIN g = Fields, RowsInv(g)
    PROVE  RowsInv(SetFold(g, i, expand))
<1> DEFINE row == g.visible[i]
           folds == IF expand THEN g.collapsed \ {row.ds} ELSE g.collapsed \cup {row.ds}
           h == [g EXCEPT !.collapsed = folds]
           k == ApplyFilter(h)
<1>1. SetFold(g, i, expand) = g \/ SetFold(g, i, expand) = Restore(k, row.ds)
  BY Zenon DEF SetFold
<1> HIDE DEF row, folds
<1>2. DOMAIN h = Fields /\ h.all = g.all /\ h.listErr = g.listErr
  BY DEF Fields
<1> HIDE DEF h
<1>3. RowsInv(k) /\ DOMAIN k = Fields
  BY <1>2, FilterRows DEF RowsInv
<1> HIDE DEF k
<1>4. SameRows(k, Restore(k, row.ds))
  BY <1>3, RestoreSame
<1> QED
  BY <1>1, <1>3, <1>4, SameKeeps

\* A scan has read nothing yet, what there was, or an error, of which no rows come.
ScanRecords == [rows : SUBSET Datasets, phase : {"asked", "read", "failed"}, first : BOOLEAN, latest : BOOLEAN]
ScansInv ==
    /\ world \subseteq Datasets
    /\ scans \subseteq ScanRecords
    /\ \A s \in scans : s.phase = "failed" => s.rows = {}

BrowserInv == ScansInv /\ RowsInv(ui)

\* A scan that is started makes the others late, which changes nothing of what they
\* have read.
LEMMA StartedTyped ==
    ASSUME ScansInv
    PROVE  Started \subseteq ScanRecords /\ \A s \in Started : s.phase = "failed" => s.rows = {}
<1> DEFINE R == ScanRecords
<1>1. ASSUME NEW s \in Late(scans)
      PROVE  s \in R /\ (s.phase = "failed" => s.rows = {})
  <2>1. PICK e \in scans : s = [e EXCEPT !.latest = FALSE]
    BY <1>1 DEF Late
  <2>2. e \in [rows : SUBSET Datasets, phase : {"asked", "read", "failed"}, first : BOOLEAN, latest : BOOLEAN]
        /\ (e.phase = "failed" => e.rows = {})
    BY DEF ScansInv, ScanRecords
  <2>3. s \in [rows : SUBSET Datasets, phase : {"asked", "read", "failed"}, first : BOOLEAN, latest : BOOLEAN]
        /\ s.phase = e.phase /\ s.rows = e.rows
    BY <2>1, <2>2
  <2> QED
    BY <2>2, <2>3 DEF ScanRecords
<1>2. Scan(FALSE) \in R /\ Scan(FALSE).phase = "asked"
  BY DEF Scan, ScanRecords
<1> HIDE DEF R
<1>3. ASSUME NEW s \in Started
      PROVE  s \in R /\ (s.phase = "failed" => s.rows = {})
  <2>1. s \in Late(scans) \/ s = Scan(FALSE)
    BY DEF Started
  <2> QED
    BY <1>1, <1>2, <2>1
<1> QED
  BY <1>3 DEF R

\* Only an operation changes what there is, to what there may be.
LEMMA EffectsTyped ==
    ASSUME world \subseteq Datasets, NEW op, NEW w \in Effects(op)
    PROVE  w \subseteq Datasets
<1>1. \/ w = world \ Under(op.ds) \/ w = world \cup Under(op.ds) \/ w = world
      \/ \E d \in Datasets : w = world \cup {d}
  BY DEF Effects
<1>2. Under(op.ds) \subseteq Datasets
  BY DEF Under
<1> QED
  BY <1>1, <1>2

\* The scans under way and the datasets, in every step.
LEMMA ScansKeep == ASSUME ScansInv, BrowserNext PROVE ScansInv'
<1> DEFINE R == ScanRecords
<1>0. /\ world \subseteq Datasets /\ scans \subseteq R
      /\ \A s \in scans : s.phase = "failed" => s.rows = {}
  BY DEF ScansInv
<1>1. CASE UNCHANGED <<world, scans>>
  BY <1>1 DEF ScansInv
<1>2. CASE UNCHANGED world /\ scans' = Started
  BY <1>0, <1>2, StartedTyped DEF ScansInv
<1>3. CASE OpEnds
  <2>1. PICK op \in running, done \in BOOLEAN :
            /\ world' \in IF done THEN Effects(op) ELSE {world}
            /\ scans' = Started \/ scans' = scans
    BY <1>3, Zenon DEF OpEnds
  <2>2. world' \subseteq Datasets
    BY <1>0, <2>1, EffectsTyped
  <2> QED
    BY <1>0, <2>1, <2>2, StartedTyped DEF ScansInv
<1>4. CASE ScanReads
  <2>1. PICK s \in scans, err \in BOOLEAN :
            /\ scans' = (scans \ {s}) \cup {[s EXCEPT !.phase = IF err THEN "failed" ELSE "read",
                                                      !.rows = IF err THEN {} ELSE world]}
            /\ world' = world
    BY <1>4 DEF ScanReads
  <2> DEFINE ph == IF err THEN "failed" ELSE "read"
             rs == IF err THEN {} ELSE world
             t == [s EXCEPT !.phase = ph, !.rows = rs]
  <2>2. s \in [rows : SUBSET Datasets, phase : {"asked", "read", "failed"}, first : BOOLEAN, latest : BOOLEAN]
    BY <1>0 DEF ScanRecords
  <2>3. ph \in {"read", "failed"} /\ rs \in SUBSET Datasets /\ (ph = "failed" => rs = {})
    BY <1>0
  <2>4. scans' = (scans \ {s}) \cup {t}
    BY <2>1
  <2> HIDE DEF ph, rs
  <2>5. t \in [rows : SUBSET Datasets, phase : {"asked", "read", "failed"}, first : BOOLEAN, latest : BOOLEAN]
        /\ t.phase = ph /\ t.rows = rs
    BY <2>2, <2>3
  <2>6. t \in R
    BY <2>5 DEF ScanRecords
  <2> HIDE DEF t, R
  <2> QED
    BY <1>0, <2>1, <2>3, <2>4, <2>5, <2>6 DEF ScansInv, R
<1>5. CASE ScanLands
  <2>1. PICK s \in scans : scans' = scans \ {s} /\ world' = world
    BY <1>5 DEF ScanLands
  <2> HIDE DEF R
  <2> QED
    BY <1>0, <2>1 DEF ScansInv, R
<1>6. CASE TypeQuery \/ Highlight \/ TapRow \/ FoldKey \/ ToggleEdit \/ ToggleLock \/ Pick
  <2>1. UNCHANGED <<world, scans>>
    BY <1>6 DEF TypeQuery, Highlight, TapRow, FoldKey, ToggleEdit, ToggleLock, Pick, Tap
  <2> QED
    BY <1>1, <2>1
<1>7. CASE RunOp \/ CancelPopup \/ DossierLands \/ SnapsLand \/ CountsLand
  <2>1. UNCHANGED <<world, scans>>
    BY <1>7 DEF RunOp, CancelPopup, DossierLands, SnapsLand, CountsLand
  <2> QED
    BY <1>1, <2>1
<1>8. CASE Reload
  BY <1>2, <1>8 DEF Reload, Tap
<1> QED
  BY <1>3, <1>4, <1>5, <1>6, <1>7, <1>8 DEF BrowserNext

\* The rows on the screen are those of the last scan, with the folds of today: whatever
\* is typed, folded, scanned or answered, in any order.
THEOREM RowsInvariance == BrowserSpec => []BrowserInv
<1>1. ASSUME BrowserInit
      PROVE  BrowserInv
  <2>1. world \subseteq Datasets
    BY <1>1, BrowserAssumption DEF BrowserInit, Datasets
  <2>2. scans = {Scan(TRUE)} /\ Scan(TRUE) \in ScanRecords /\ Scan(TRUE).phase = "asked"
    BY <1>1 DEF BrowserInit, Scan, ScanRecords
  <2>3. ScansInv
    BY <2>1, <2>2 DEF ScansInv
  <2>4. /\ ui.all = {} /\ ui.query = NoName /\ ui.visible = <<>> /\ ui.listErr = FALSE
    BY <1>1 DEF BrowserInit
  <2>5. BuildTree({}, ui.collapsed) = <<>>
    <3> DEFINE t == BuildTree({}, ui.collapsed)
    <3>1. Ordered({}, ui.collapsed, t, {d \in {} : Above({}, d) \cap ui.collapsed = {}})
      BY TreeIs
    <3>2. t \in Seq(RowsOf({}, ui.collapsed)) /\ ~ \E j \in 1 .. Len(t) : TRUE
      BY <3>1 DEF Ordered
    <3> HIDE DEF t
    <3>3. Len(t) = 0
      BY <3>2
    <3> QED
      BY <3>2, <3>3, EmptySeq DEF t
  <2> QED
    BY <2>3, <2>4, <2>5 DEF BrowserInv, RowsInv
<1>2. ASSUME BrowserInv, WindowInv(ui), [BrowserNext]_browserVars
      PROVE  BrowserInv'
  <2>1. CASE UNCHANGED browserVars
    BY <1>2, <2>1 DEF browserVars, BrowserInv, ScansInv, RowsInv
  <2>2. CASE BrowserNext
    <3> USE <1>2, <2>2
    <3>0. SUFFICES RowsInv(ui')
      <4>1. ScansInv'
        BY ScansKeep DEF BrowserInv
      <4> QED
        BY <4>1 DEF BrowserInv, RowsInv
    <3>1. ScansInv /\ RowsInv(ui)
      BY DEF BrowserInv
    <3>2. DOMAIN ui = Fields
      BY DEF WindowInv, Window
    <3>3. ASSUME SameRows(ui, ui') PROVE RowsInv(ui')
      BY <3>1, <3>3, SameKeeps
    <3>4. CASE TypeQuery
      <4>1. PICK q \in Queries \cup {NoName} : ui' = ApplyFilter([ui EXCEPT !.query = q])
        BY <3>4 DEF TypeQuery, Tap
      <4> DEFINE h == [ui EXCEPT !.query = q]
      <4>2. DOMAIN h = Fields /\ h.all = ui.all /\ h.listErr = ui.listErr
        BY <3>2 DEF Fields
      <4> HIDE DEF h
      <4>3. RowsInv(ApplyFilter(h))
        BY <3>1, <4>2, FilterRows DEF RowsInv
      <4> QED
        BY <4>1, <4>3 DEF h
    <3>5. CASE Highlight
      <4>1. PICK i \in DOMAIN ui.visible : ui' = SelectAt(ui, i)
        BY <3>5 DEF Highlight, Tap
      <4> QED
        BY <3>2, <3>3, <4>1, SelectSame
    <3>6. CASE TapRow
      <4>1. PICK i \in DOMAIN ui.visible : ui' = SetFold(SelectAt(ui, i), i, ~ui.visible[i].open)
        BY <3>6 DEF TapRow, Tap
      <4>2. SameRows(ui, SelectAt(ui, i))
        BY <3>2, SelectSame
      <4>3. RowsInv(SelectAt(ui, i)) /\ DOMAIN SelectAt(ui, i) = Fields
        BY <3>1, <4>2, SameKeeps DEF SameRows
      <4> QED
        BY <4>1, <4>3, FoldRows
    <3>7. CASE FoldKey
      <4>1. PICK expand \in BOOLEAN :
                \/ ui' = Restore(ui, ParentOf(ui.visible[ui.cursor].ds))
                \/ ui' = SetFold(ui, ui.cursor, expand)
        BY <3>7 DEF FoldKey, Tap
      <4> QED
        BY <3>1, <3>2, <3>3, <4>1, RestoreSame, FoldRows
    <3>8. CASE ToggleEdit
      <4> DEFINE h == [ui EXCEPT !.editing = ~@]
      <4>1. ui' = BuildRight(h) /\ SameRows(ui, h)
        BY <3>2, <3>8 DEF ToggleEdit, Tap, SameRows, Fields
      <4> HIDE DEF h
      <4>2. SameRows(h, ui')
        BY <4>1, BuildSame DEF SameRows
      <4> QED
        BY <3>3, <4>1, <4>2 DEF SameRows
    <3>9. CASE ToggleLock \/ Reload
      <4>1. ui' = [ui EXCEPT !.rw = ~@] \/ ui' = [ui EXCEPT !.counts = Late(@)]
        BY <3>9 DEF ToggleLock, Reload, Tap
      <4>2. SameRows(ui, ui')
        BY <3>2, <4>1 DEF SameRows, Fields
      <4> QED
        BY <3>3, <4>2
    <3>10. CASE Pick \/ RunOp
      <4>1. ui' = ui \/ \E p : ui' = [ui EXCEPT !.popup = p]
        <5>1. CASE Pick
          BY <5>1, Zenon DEF Pick, Tap
        <5>2. CASE RunOp
          BY <5>2 DEF RunOp
        <5> QED
          BY <3>10, <5>1, <5>2
      <4>2. SameRows(ui, ui')
        BY <3>2, <4>1 DEF SameRows, Fields
      <4> QED
        BY <3>3, <4>2
    <3>11. CASE CancelPopup
      <4> DEFINE h == [ui EXCEPT !.popup = NoName]
      <4>1. (ui' = BuildRight(h) \/ ui' = h) /\ SameRows(ui, h)
        BY <3>2, <3>11 DEF CancelPopup, SameRows, Fields
      <4> HIDE DEF h
      <4>2. SameRows(h, BuildRight(h))
        BY <4>1, BuildSame DEF SameRows
      <4> QED
        BY <3>3, <4>1, <4>2 DEF SameRows
    <3>12. CASE OpEnds
      <4>1. \/ ui' = [ui EXCEPT !.counts = Late(@)]
            \/ ui' = ShowDossier(ReloadSnaps(ui), ui.cursor)
            \/ ui' = BuildRight(ui) \/ ui' = ui
        BY <3>12, Zenon DEF OpEnds
      <4>2. SameRows(ui, [ui EXCEPT !.counts = Late(@)])
        BY <3>2 DEF SameRows, Fields
      <4>3. SameRows(ui, ShowDossier(ReloadSnaps(ui), ui.cursor))
        <5> DEFINE h == ReloadSnaps(ui)
        <5>1. SameRows(ui, h)
          BY <3>2, SnapsSame
        <5> HIDE DEF h
        <5>2. SameRows(h, ShowDossier(h, ui.cursor))
          BY <5>1, ShowSame DEF SameRows
        <5> QED
          BY <5>1, <5>2 DEF SameRows, h
      <4>4. SameRows(ui, BuildRight(ui)) /\ SameRows(ui, ui)
        BY <3>2, BuildSame DEF SameRows
      <4> QED
        BY <3>3, <4>1, <4>2, <4>3, <4>4
    <3>13. CASE DossierLands \/ SnapsLand
      <4>1. (\E D, p : ui' = [ui EXCEPT !.dossiers = D, !.pane = p])
            \/ (\E L, p : ui' = [ui EXCEPT !.lists = L, !.snaps = p])
        BY <3>13, Zenon DEF DossierLands, SnapsLand
      <4>2. SameRows(ui, ui')
        BY <3>2, <4>1 DEF SameRows, Fields
      <4> QED
        BY <3>3, <4>2
    <3>14. CASE ScanReads
      BY <3>1, <3>14 DEF ScanReads, RowsInv
    <3>15. CASE ScanLands
      <4>1. PICK s \in scans :
              /\ s.phase # "asked"
              /\ \/ ui' = ui
                 \/ ui' = [ApplyLoad(ui, s.rows, s.phase = "failed") EXCEPT
                             !.counts = @ \cup {[latest |-> s.latest]}]
        BY <3>15, Zenon DEF ScanLands
      <4> DEFINE err == s.phase = "failed"
                 h == [ui EXCEPT !.all = s.rows, !.listErr = err]
                 k == ApplyLoad(ui, s.rows, err)
      <4>2. s.rows \subseteq Datasets /\ (err => s.rows = {})
        BY <3>1 DEF ScansInv, ScanRecords
      <4>3. k = IF err THEN [h EXCEPT !.pane = Note] ELSE ApplyFilter(h)
        BY DEF ApplyLoad
      <4> HIDE DEF err
      <4>4. DOMAIN h = Fields /\ h.all = s.rows /\ h.listErr = err
        BY <3>2 DEF Fields
      <4> HIDE DEF h, k
      <4>5. RowsInv(k) /\ DOMAIN k = Fields
        <5>1. CASE err
          <6>1. k = [h EXCEPT !.pane = Note]
            BY <4>3, <5>1
          <6>2. SameRows(h, k)
            BY <4>4, <6>1 DEF SameRows, Fields
          <6>3. RowsInv(h)
            BY <4>2, <4>4, <5>1 DEF RowsInv
          <6> QED
            BY <6>2, <6>3, SameKeeps DEF SameRows
        <5>2. CASE ~err
          <6>1. k = ApplyFilter(h)
            BY <4>3, <5>2
          <6> QED
            BY <4>2, <4>4, <5>2, <6>1, FilterRows
        <5> QED
          BY <5>1, <5>2
      <4>6. ASSUME NEW C
            PROVE  RowsInv([k EXCEPT !.counts = C])
        <5>1. SameRows(k, [k EXCEPT !.counts = C])
          BY <4>5 DEF SameRows, Fields
        <5> QED
          BY <4>5, <5>1, SameKeeps
      <4> QED
        BY <3>1, <4>1, <4>6 DEF k, err
    <3>16. CASE CountsLand
      <4>1. PICK f \in ui.counts :
                LET g == [ui EXCEPT !.counts = @ \ {f}] IN ui' = MergeCounts(g) \/ ui' = g
        BY <3>16, Zenon DEF CountsLand
      <4> DEFINE g == [ui EXCEPT !.counts = @ \ {f}]
                 k == ApplyFilter(g)
      <4>2. SameRows(ui, g)
        BY <3>2 DEF SameRows, Fields
      <4>3. ui' = Restore(k, CurName(g)) \/ ui' = g
        BY <4>1 DEF MergeCounts
      <4> HIDE DEF g
      <4>4. RowsInv(k) /\ DOMAIN k = Fields
        BY <3>1, <4>2, FilterRows DEF SameRows, RowsInv
      <4> HIDE DEF k
      <4>5. SameRows(k, Restore(k, CurName(g)))
        BY <4>4, RestoreSame
      <4> QED
        BY <3>3, <4>2, <4>3, <4>4, <4>5, SameKeeps
    <3> QED
      BY <3>4, <3>5, <3>6, <3>7, <3>8, <3>9, <3>10, <3>11, <3>12, <3>13, <3>14, <3>15, <3>16
         DEF BrowserNext
  <2> QED
    BY <1>2, <2>1, <2>2
<1> QED
  BY <1>1, <1>2, WindowInvariance, PTL DEF BrowserSpec

\* Whatever has been folded, scanned, filtered and read, in whatever order the answers
\* came: the tree shows each dataset of the last scan of which nothing above is folded,
\* once, depth first and in the order of zfs.
THEOREM TreesAreWhole == BrowserSpec => []TreeIsWhole
<1>1. ASSUME BrowserInv, ui.query = NoName, ~ui.listErr
      PROVE  /\ {ui.visible[i].ds : i \in DOMAIN ui.visible} =
                    {d \in ui.all : Above(ui.all, d) \cap ui.collapsed = {}}
             /\ \A i, j \in DOMAIN ui.visible :
                    i < j => Before(ui.all, ui.visible[i].ds, ui.visible[j].ds)
  <2> DEFINE t == ui.visible
             S == {t[i].ds : i \in DOMAIN t}
             D == {d \in ui.all : Above(ui.all, d) \cap ui.collapsed = {}}
  <2>1. ui.all \in SUBSET Datasets /\ t = BuildTree(ui.all, ui.collapsed)
    BY <1>1 DEF BrowserInv, RowsInv
  <2> HIDE DEF t
  <2>0. Whole(ui.all, ui.collapsed, t)
    BY <2>1, TreeShows
  <2>2. /\ \A d : (\E i \in DOMAIN t : t[i].ds = d) <=> d \in ui.all /\ Above(ui.all, d) \cap ui.collapsed = {}
        /\ \A i, j \in DOMAIN t : i < j => Before(ui.all, t[i].ds, t[j].ds)
    BY <2>0 DEF Whole
  <2>3. \A d : d \in S <=> \E i \in DOMAIN t : t[i].ds = d
    BY Zenon
  <2>4. \A d : d \in D <=> d \in ui.all /\ Above(ui.all, d) \cap ui.collapsed = {}
    BY Zenon
  <2> HIDE DEF S, D
  <2>5. S = D
    BY <2>2, <2>3, <2>4, Zenon
  <2> QED
    BY <2>2, <2>5 DEF S, D, t
<1>2. BrowserInv => TreeIsWhole
  BY <1>1 DEF TreeIsWhole
<1> QED
  BY <1>2, RowsInvariance, PTL

\* After the rows are built again the cursor is on the dataset it was put back on, if
\* that has a row.
LEMMA BackOn ==
    ASSUME NEW g, NEW d, Window(g),
           \E i \in DOMAIN ApplyFilter(g).visible : ApplyFilter(g).visible[i].ds = d
    PROVE  CurName(Restore(ApplyFilter(g), d)) = d
<1> DEFINE h == ApplyFilter(g)
<1>1. WindowInv(h)
  BY FilterShowsTop
<1> HIDE DEF h
<1>2. \E i \in DOMAIN h.visible : h.visible[i].ds = d
  BY DEF h
<1>3. h.visible # <<>>
  BY <1>2
<1>4. DOMAIN h = Fields /\ h.selected = h.cursor
  BY <1>1, <1>3 DEF WindowInv, Window, About
<1> QED
  BY <1>2, <1>4, RestoreSame DEF h

\* A row that is folded or unfolded by hand keeps the cursor.
LEMMA FoldStays ==
    ASSUME NEW g, NEW expand \in BOOLEAN, WindowInv(g), RowsInv(g), ~g.listErr,
           g.cursor \in DOMAIN g.visible
    PROVE  CurName(SetFold(g, g.cursor, expand)) = CurName(g)
<1> DEFINE row == g.visible[g.cursor]
           folds == IF expand THEN g.collapsed \ {row.ds} ELSE g.collapsed \cup {row.ds}
           h == [g EXCEPT !.collapsed = folds]
           k == ApplyFilter(h)
           d == row.ds
<1>1. \/ SetFold(g, g.cursor, expand) = g
      \/ ~row.flat /\ SetFold(g, g.cursor, expand) = Restore(k, d)
  BY Zenon DEF SetFold
<1>2. CASE SetFold(g, g.cursor, expand) = g
  BY <1>2
<1>3. CASE ~row.flat /\ SetFold(g, g.cursor, expand) = Restore(k, d)
  <2>1. DOMAIN g = Fields /\ Window(g)
    BY DEF WindowInv, Window
  <2>2. g.query = NoName
    <3>1. g.query # NoName => g.visible = FlatRows(g.all \cap g.query) /\ g.all \cap g.query \in SUBSET Datasets
      BY DEF RowsInv
    <3> QED
      BY <1>3, <3>1, FlatIsFlat
  <2>3. g.all \in SUBSET Datasets /\ g.visible = BuildTree(g.all, g.collapsed)
    BY <2>2 DEF RowsInv
  <2>4. d \in g.all /\ Above(g.all, d) \cap g.collapsed = {}
    <3>1. Whole(g.all, g.collapsed, g.visible)
      BY <2>3, TreeShows
    <3> QED
      BY <3>1 DEF Whole
  <2> HIDE DEF folds
  <2>5. /\ DOMAIN h = Fields /\ h.all = g.all /\ h.query = g.query /\ h.listErr = g.listErr
        /\ h.seeded = g.seeded /\ h.collapsed = folds
        /\ h.dossiers = g.dossiers /\ h.lists = g.lists /\ h.editing = g.editing /\ h.form = g.form
    BY <2>1 DEF Fields
  <2> HIDE DEF h
  <2>6. Window(h)
    BY <2>1, <2>5 DEF Window
  <2>7. RowsInv(k) /\ k.all = g.all /\ k.query = NoName /\ k.listErr = g.listErr /\ k.collapsed = folds
    BY <2>2, <2>5, FilterRows DEF RowsInv
  <2>8. k.visible = BuildTree(g.all, folds)
    BY <2>7 DEF RowsInv
  <2>9. Above(g.all, d) \cap folds = {}
    <3>1. d \notin Above(g.all, d)
      <4>1. \A a \in Above(g.all, d) : Len(a) \in Nat /\ Len(a) < Len(d)
        BY <2>3, <2>4, OneWay
      <4> QED
        BY <4>1
    <3>2. \A x \in folds : x \in g.collapsed \/ x = d
      BY DEF folds
    <3> HIDE DEF d
    <3> QED
      BY <2>4, <3>1, <3>2
  <2>10. \E i \in DOMAIN k.visible : k.visible[i].ds = d
    <3>1. Whole(g.all, folds, k.visible)
      BY <2>3, <2>8, TreeShows
    <3> HIDE DEF k
    <3> QED
      BY <2>4, <2>9, <3>1 DEF Whole
  <2>11. CurName(Restore(k, d)) = d
    BY <2>6, <2>10, BackOn
  <2>12. CurName(g) = d
    BY DEF CurName
  <2> QED
    BY <1>3, <2>11, <2>12
<1> QED
  BY <1>1, <1>2, <1>3

\* The counts, which build the rows again, keep the cursor.
LEMMA CountsStay ==
    ASSUME NEW g, WindowInv(g), RowsInv(g), ~g.listErr, CurName(g) \in g.all
    PROVE  CurName(MergeCounts(g)) = CurName(g)
<1> DEFINE k == ApplyFilter(g)
<1>1. DOMAIN g = Fields /\ Window(g)
  BY DEF WindowInv, Window
<1>2. /\ RowsInv(k) /\ k.all = g.all /\ k.query = g.query /\ k.listErr = g.listErr
      /\ k.collapsed = g.collapsed
  BY <1>1, FilterRows DEF RowsInv
<1>3. k.visible = g.visible
  BY <1>2 DEF RowsInv
<1>4. \E i \in DOMAIN k.visible : k.visible[i].ds = CurName(g)
  <2>1. CurName(g) # NoName
    BY NamesTyped DEF RowsInv
  <2> QED
    BY <1>3, <2>1 DEF CurName
<1>5. CurName(Restore(k, CurName(g))) = CurName(g)
  BY <1>1, <1>4, BackOn
<1> QED
  BY <1>5 DEF MergeCounts

\* Folding is no scan: what the last one found stays.
LEMMA FoldKeepsAll ==
    ASSUME NEW g, NEW i, NEW expand, DOMAIN g = Fields, RowsInv(g)
    PROVE  SetFold(g, i, expand).all = g.all
<1> DEFINE row == g.visible[i]
           folds == IF expand THEN g.collapsed \ {row.ds} ELSE g.collapsed \cup {row.ds}
           h == [g EXCEPT !.collapsed = folds]
           k == ApplyFilter(h)
<1>1. SetFold(g, i, expand) = g \/ SetFold(g, i, expand) = Restore(k, row.ds)
  BY Zenon DEF SetFold
<1> HIDE DEF row, folds
<1>2. DOMAIN h = Fields /\ h.all = g.all /\ h.listErr = g.listErr
  BY DEF Fields
<1> HIDE DEF h
<1>3. DOMAIN k = Fields /\ k.all = g.all
  BY <1>2, FilterRows DEF RowsInv
<1> HIDE DEF k
<1>4. SameRows(k, Restore(k, row.ds))
  BY <1>3, RestoreSame
<1> QED
  BY <1>1, <1>3, <1>4 DEF SameRows

\* Nor are the counts.
LEMMA CountsKeepAll ==
    ASSUME NEW g, DOMAIN g = Fields, RowsInv(g)
    PROVE  MergeCounts(g).all = g.all
<1> DEFINE k == ApplyFilter(g)
<1>1. DOMAIN k = Fields /\ k.all = g.all
  BY FilterRows DEF RowsInv
<1> HIDE DEF k
<1>2. SameRows(k, Restore(k, CurName(g)))
  BY <1>1, RestoreSame
<1> QED
  BY <1>1, <1>2 DEF SameRows, MergeCounts, k

\* Folding a row by hand and the counts that stream in leave the cursor on its
\* dataset, or on the parent that was asked for.
THEOREM CursorStays == BrowserSpec => KeepsDataset
<1>1. ASSUME BrowserInv, WindowInv(ui), FoldKey \/ CountsLand, CurName(ui) \in ui'.all
      PROVE  CurName(ui') = CurName(ui) \/ CurName(ui') = ParentOf(CurName(ui))
  <2> USE <1>1
  <2>1. DOMAIN ui = Fields /\ RowsInv(ui)
    BY DEF WindowInv, Window, BrowserInv
  <2>2. CASE FoldKey
    <3>1. PICK expand \in BOOLEAN :
              \/ ui' = Restore(ui, ParentOf(ui.visible[ui.cursor].ds))
              \/ ui' = SetFold(ui, ui.cursor, expand)
      BY <2>2 DEF FoldKey, Tap
    <3>2. ui.cursor \in DOMAIN ui.visible /\ ui.visible # <<>>
      BY <2>2 DEF FoldKey, CurName
    <3>3. CurName(ui) = ui.visible[ui.cursor].ds
      BY <3>2 DEF CurName
    <3>4. CASE ui' = Restore(ui, ParentOf(ui.visible[ui.cursor].ds))
      <4>1. ui.selected = ui.cursor
        BY <3>2 DEF WindowInv, About
      <4> DEFINE p == ParentOf(ui.visible[ui.cursor].ds)
      <4>2. ui' = Restore(ui, p)
        BY <3>4
      <4>3. p = ParentOf(CurName(ui))
        BY <3>3
      <4> HIDE DEF p
      <4>4. ui' = ui \/ CurName(ui') = p
        BY <2>1, <4>1, <4>2, RestoreSame
      <4> QED
        BY <4>3, <4>4
    <3>5. CASE ui' = SetFold(ui, ui.cursor, expand)
      <4>1. CASE ui.listErr
        <5>1. ui'.all = ui.all
          BY <2>1, <3>5, FoldKeepsAll
        <5> QED
          BY <2>1, <4>1, <5>1 DEF RowsInv
      <4>2. CASE ~ui.listErr
        BY <2>1, <3>2, <3>5, <4>2, FoldStays
      <4> QED
        BY <4>1, <4>2
    <3> QED
      BY <3>1, <3>4, <3>5
  <2>3. CASE CountsLand
    <3>1. PICK f \in ui.counts :
              LET g == [ui EXCEPT !.counts = @ \ {f}] IN ui' = MergeCounts(g) \/ ui' = g
      BY <2>3, Zenon DEF CountsLand
    <3> DEFINE g == [ui EXCEPT !.counts = @ \ {f}]
    <3>2. WindowInv(g) /\ g.all = ui.all /\ SameRows(ui, g) /\ CurName(g) = CurName(ui)
      BY <2>1, CountsAreUnseen DEF SameRows, Fields, CurName
    <3>3. ui' = MergeCounts(g) \/ ui' = g
      BY <3>1
    <3> HIDE DEF g
    <3>4. RowsInv(g)
      BY <2>1, <3>2, SameKeeps
    <3>5. CASE ui' = g
      BY <3>2, <3>5
    <3>6. CASE ui' = MergeCounts(g)
      <4>1. ui'.all = g.all
        BY <3>2, <3>4, <3>6, CountsKeepAll DEF SameRows
      <4>2. CurName(g) \in g.all
        BY <3>2, <4>1
      <4>3. ~g.listErr
        BY <3>4, <4>2 DEF RowsInv
      <4> QED
        BY <3>2, <3>4, <3>6, <4>2, <4>3, CountsStay
    <3> QED
      BY <3>3, <3>5, <3>6
  <2> QED
    BY <2>2, <2>3
<1>2. BrowserInv /\ WindowInv(ui) /\ [BrowserNext]_browserVars =>
        [(FoldKey \/ CountsLand) /\ CurName(ui) \in ui'.all =>
             \/ CurName(ui') = CurName(ui) \/ CurName(ui') = ParentOf(CurName(ui))]_browserVars
  BY <1>1, Zenon
<1> QED
  BY <1>2, RowsInvariance, WindowInvariance, PTL DEF BrowserSpec, KeepsDataset
=============================================================================
