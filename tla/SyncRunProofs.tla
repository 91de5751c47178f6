---------------------------- MODULE SyncRunProofs ----------------------------
(***************************************************************************)
(* Proofs about the runs of a sync job, for any number of runs, datasets   *)
(* and snapshots: type correctness, and that a success lacks no dataset.   *)
(***************************************************************************)
EXTENDS SyncRun, FiniteSetTheorems, TLAPS

\* What is counted on either end is finite, so that it can be counted.
LEMMA CountIsNat ==
    ASSUME NEW S \in SUBSET Datasets, NEW H
    PROVE  Cardinality(S \ H) \in Nat /\ IsFiniteSet(S \ H)
<1>1. IsFiniteSet(S \ H)
  BY SyncAssumption, FS_Subset
<1> QED
  BY <1>1, FS_CardinalityType

\* Every variable keeps its type: the counts are natural numbers, the record
\* is one of the codes the status can show.
THEOREM TypeCorrect == Spec => []TypeOK
<1>1. Init => TypeOK
  <2> SUFFICES ASSUME Init PROVE TypeOK
    OBVIOUS
  <2>1. src \subseteq Datasets /\ dst \subseteq Datasets
    BY SyncAssumption DEF Init
  <2>2. /\ have \in [Datasets -> SUBSET Nat]
        /\ landed \in [Datasets -> SUBSET Nat]
        /\ began \in [Runs -> [Datasets -> SUBSET Nat]]
    BY DEF Init
  <2>3. /\ newest \in [Runs -> Nat] /\ srcN \in [Runs -> Nat]
        /\ todo \in [Runs -> SUBSET Datasets] /\ clean \in [Runs -> BOOLEAN]
        /\ sure \in [Runs -> BOOLEAN]
    BY DEF Init
  <2> QED
    BY <2>1, <2>2, <2>3 DEF Init, TypeOK, Steps, Codes
<1>2. TypeOK /\ [Next]_vars => TypeOK'
  <2> SUFFICES ASSUME TypeOK, [Next]_vars PROVE TypeOK'
    OBVIOUS
  <2> USE DEF TypeOK, Steps, Codes
  <2>1. CASE UNCHANGED vars
    BY <2>1 DEF vars, ends, runs, left, history
  <2>2. CASE Environment
    <3>1. CASE Network
      BY <3>1 DEF Network, runs, left, history
    <3>2. ASSUME NEW D \in SnapSets, Sanoid(D) PROVE TypeOK'
      BY <3>2 DEF Sanoid, runs, left, history
    <3>3. ASSUME NEW d \in Datasets, CreateDataset(d) PROVE TypeOK'
      <4>1. src' \subseteq Datasets /\ churn' \in BOOLEAN
        BY <3>3 DEF CreateDataset, Active
      <4> QED
        BY <3>3, <4>1 DEF CreateDataset, runs, left
    <3>4. ASSUME NEW d \in Datasets, NEW n \in have[d], Prune(d, n) PROVE TypeOK'
      <4>1. have' \in [Datasets -> SUBSET Nat]
        BY <3>4 DEF Prune
      <4>2. sure' \in [Runs -> BOOLEAN]
        <5>1. \A r \in Runs : (sure[r] /\ ~(newest[r] = n /\ d \in Fetched)) \in BOOLEAN
          OBVIOUS
        <5> QED
          BY <3>4, <5>1 DEF Prune
      <4> QED
        BY <3>4, <4>1, <4>2 DEF Prune, runs, left
    <3> QED
      BY <2>2, <3>1, <3>2, <3>3, <3>4 DEF Environment
  <2>3. ASSUME NEW r \in Runs, Start(r) PROVE TypeOK'
    BY <2>3 DEF Start, Goto, ends, left
  <2>4. ASSUME NEW r \in Runs, NEW code \in Codes, NEW shown \in Codes \cup {"unwritten"},
               Ended(r, code, shown), UNCHANGED ends,
               file' \in Codes \cup {"none", "empty", "torn"}
        PROVE  TypeOK'
    BY <2>4 DEF Ended, Goto, ends
  <2>5. ASSUME NEW r \in Runs, NEW code \in Codes, Conclude(r, code),
               UNCHANGED <<ends, clean, srcN, left, began, last, overlap, churn>>,
               sure' \in [Runs -> BOOLEAN]
        PROVE  TypeOK'
    BY <2>5 DEF Conclude, Goto, ends, left
  <2>7. ASSUME NEW r \in Runs, NEW step \in Steps, pc' = [pc EXCEPT ![r] = step],
               UNCHANGED <<ends, newest, todo, clean, srcN, rc, left, began, last, overlap, churn>>,
               sure' \in [Runs -> BOOLEAN]
        PROVE  TypeOK'
    <3>1. pc' \in [Runs -> Steps]
      BY <2>7
    <3> QED
      BY <2>7, <3>1 DEF ends, left
  <2>6. ASSUME NEW r \in Runs, Step(r) PROVE TypeOK'
    <3>1. CASE Probe(r)
      BY <3>1 DEF Probe, Goto, ends, left, history
    <3>2. CASE Unreachable(r)
      BY <3>2, <2>5 DEF Unreachable, history
    <3>3. CASE NoSyncoid(r)
      BY <3>3, <2>4 DEF NoSyncoid
    <3>4. CASE Newest(r)
      <4>1. \A n \in AllSnaps : n \in Nat
        BY DEF AllSnaps
      <4>2. Fetched \subseteq Datasets
        BY SyncAssumption DEF Fetched
      <4>3. newest' \in [Runs -> Nat] /\ sure' \in [Runs -> BOOLEAN]
        <5>1. PICK n \in AllSnaps :
                /\ newest' = [newest EXCEPT ![r] = n]
                /\ sure' = [sure EXCEPT ![r] = Fetched # {} /\ \A d \in Fetched : n \in have[d]]
          BY <3>4 DEF Newest
        <5>2. n \in Nat
          BY <4>1
        <5>3. (Fetched # {} /\ \A d \in Fetched : n \in have[d]) \in BOOLEAN
          OBVIOUS
        <5>4. newest' \in [Runs -> Nat]
          BY <5>1, <5>2
        <5>5. sure' \in [Runs -> BOOLEAN]
          BY <5>1, <5>3, Zenon
        <5> QED
          BY <5>4, <5>5
      <4> QED
        BY <3>4, <4>2, <4>3 DEF Newest, Goto, ends, left
    <3>5. CASE NoSnapshots(r)
      BY <3>5, <2>4 DEF NoSnapshots
    <3>6. ASSUME NEW d \in Datasets, Send(r, d) PROVE TypeOK'
      BY <3>6 DEF Send, left, history
    <3>7. ASSUME NEW d \in Datasets, Skip(r, d) PROVE TypeOK'
      BY <3>7 DEF Skip, ends, left, history
    <3>8. CASE SyncoidExits(r)
      BY <3>8 DEF SyncoidExits, Goto, ends, left, history
    <3>9. CASE Wedge(r)
      BY <3>9 DEF Wedge, Goto, ends, left, history
    <3>10. CASE Timeout(r)
      BY <3>10, <2>5 DEF Timeout, history
    <3>11. CASE Verify(r)
      <4>1. CASE \E d \in dst : newest[r] \in landed[d]
        <5>1. /\ pc' = [pc EXCEPT ![r] = "countsrc"]
              /\ newest' = [newest EXCEPT ![r] = 0]
              /\ UNCHANGED <<rc, todo, ends, clean, srcN, left, history>>
          BY <3>11, <4>1 DEF Verify, Goto
        <5> QED
          BY <5>1 DEF ends, left, history
      <4>2. CASE ~ \E d \in dst : newest[r] \in landed[d]
        BY <3>11, <4>2, <2>5 DEF Verify, history
      <4> QED
        BY <4>1, <4>2
    <3>12. CASE CountSrc(r)
      <4>1. Cardinality(src \ SrcHits) \in Nat
        BY CountIsNat
      <4> QED
        BY <3>12, <4>1 DEF CountSrc, Goto, ends, left, history
    <3>13. CASE CountDst(r)
      <4>1. CASE Conclude(r, "failed")
        BY <3>13, <4>1, <2>5 DEF CountDst, history
      <4>2. CASE ~Conclude(r, "failed")
        <5>1. /\ pc' = [pc EXCEPT ![r] = "capture"]
              /\ UNCHANGED <<ends, newest, todo, clean, srcN, rc, left, history>>
          BY <3>13, <4>2 DEF CountDst, Goto
        <5>2. UNCHANGED <<began, last, overlap, churn>> /\ sure' \in [Runs -> BOOLEAN]
          BY <5>1 DEF history
        <5> QED
          BY <2>7, <5>1, <5>2
      <4> QED
        BY <4>1, <4>2
    <3>14. CASE Capture(r)
      BY <3>14, <2>5 DEF Capture, history
    <3>15. CASE CaptureHangs(r)
      BY <3>15 DEF CaptureHangs, Goto, ends, left, history
    <3>16. CASE Record(r)
      BY <3>16 DEF Record, Goto, ends, history
    <3>17. CASE Write(r)
      <4>1. file' \in Codes \cup {"none", "empty", "torn"} /\ rc[r] \in Codes
        BY <3>17 DEF Write
      <4> QED
        BY <3>17, <4>1, <2>4 DEF Write
    <3>18. CASE RecordFails(r)
      BY <3>18, <2>4 DEF RecordFails
    <3>19. CASE VerifyBlind(r)
      BY <3>19, <2>5 DEF VerifyBlind
    <3>20. CASE CountBlind(r)
      <4>1. CASE Conclude(r, "failed")
        BY <3>20, <4>1, <2>5 DEF CountBlind
      <4>2. CASE ~Conclude(r, "failed")
        <5>1. /\ pc' = [pc EXCEPT ![r] = "capture"]
              /\ UNCHANGED <<ends, newest, todo, clean, srcN, rc, left, began, last, overlap, churn>>
          BY <3>20, <4>2 DEF CountBlind, Goto
        <5>2. sure' \in [Runs -> BOOLEAN]
          BY <3>20 DEF CountBlind
        <5> QED
          BY <2>7, <5>1, <5>2
      <4> QED
        BY <4>1, <4>2
    <3> QED
      BY <2>6, <3>1, <3>2, <3>3, <3>4, <3>5, <3>6, <3>7, <3>8, <3>9, <3>10, <3>11, <3>12,
         <3>13, <3>14, <3>15, <3>16, <3>17, <3>18, <3>19, <3>20 DEF Step
  <2> QED
    BY <2>1, <2>2, <2>3, <2>6 DEF Next
<1> QED
  BY <1>1, <1>2, PTL DEF Spec
-----------------------------------------------------------------------------
\* The source itself stays, nothing is sent but what it has, a run that has not counted knows
\* no count, and one that has knows the right one while the source is steady.
PullInv ==
    /\ Root \in src /\ dst \subseteq src
    /\ \A r \in Runs : todo[r] \subseteq src
    /\ \A r \in Runs : ~Active(r) => srcN[r] = 0
    /\ Steady => \A r \in Runs : srcN[r] > 0 => srcN[r] = Cardinality(src \ SrcHits)
    /\ NoneMissing

\* A count on the target that is not below that on the source leaves no room
\* for a missing dataset, since the target has nothing else.
LEMMA EnoughIsAll ==
    ASSUME NEW S \in SUBSET Datasets, NEW T \in SUBSET S, NEW H,
           ~(Cardinality(T \ H) < Cardinality(S \ H))
    PROVE  S \ H \subseteq T
<1>1. IsFiniteSet(S \ H) /\ Cardinality(S \ H) \in Nat /\ Cardinality(T \ H) \in Nat
  BY CountIsNat
<1>2. T \ H \subseteq S \ H
  OBVIOUS
<1>3. /\ Cardinality(T \ H) <= Cardinality(S \ H)
      /\ Cardinality(T \ H) = Cardinality(S \ H) => T \ H = S \ H
  BY <1>1, <1>2, FS_Subset
<1> QED
  BY <1>1, <1>3

\* A run that ends without a success to its name, or goes on to record a
\* failure, keeps the invariant.
LEMMA EndKeeps ==
    ASSUME TypeOK, PullInv, NEW r \in Runs, NEW code, NEW shown,
           Ended(r, code, shown), UNCHANGED ends
    PROVE  PullInv'
<1>1. /\ pc' = [pc EXCEPT ![r] = "idle"]
      /\ todo' = [todo EXCEPT ![r] = {}] /\ srcN' = [srcN EXCEPT ![r] = 0]
      /\ rc' = [rc EXCEPT ![r] = "ok"]
      /\ churn' = (churn /\ \E q \in Runs \ {r} : Active(q))
      /\ src' = src /\ dst' = dst
  BY DEF Ended, Goto, ends
<1>2. \A q \in Runs \ {r} : pc'[q] = pc[q] /\ todo'[q] = todo[q] /\ srcN'[q] = srcN[q] /\ rc'[q] = rc[q]
  BY <1>1 DEF TypeOK
<1>3. pc'[r] = "idle" /\ todo'[r] = {} /\ srcN'[r] = 0
  BY <1>1 DEF TypeOK
<1>4. \A q \in Runs : ~Active(q)' => srcN'[q] = 0
  BY <1>2, <1>3 DEF PullInv, Active
<1>5. CASE churn' = churn
  <2>1. Steady' => Steady
    BY <1>5 DEF Steady
  <2>2. Steady' => \A q \in Runs : srcN'[q] > 0 => srcN'[q] = Cardinality(src \ SrcHits)
    <3> SUFFICES ASSUME Steady', NEW q \in Runs, srcN'[q] > 0
                 PROVE  srcN'[q] = Cardinality(src \ SrcHits)
      OBVIOUS
    <3>1. q # r
      BY <1>3
    <3>2. srcN'[q] = srcN[q]
      BY <1>2, <3>1
    <3> QED
      BY <2>1, <3>2 DEF PullInv
  <2>3. NoneMissing'
    BY <1>1, <1>2, <1>3, <2>1 DEF PullInv, NoneMissing, Passed
  <2> QED
    BY <1>1, <1>2, <1>3, <1>4, <2>2, <2>3 DEF PullInv
<1>6. CASE churn' # churn
  <2>1. \A q \in Runs : ~Active(q)' /\ srcN'[q] = 0
    <3>1. churn = TRUE /\ churn' = FALSE
      BY <1>1, <1>6 DEF TypeOK
    <3>2. \A q \in Runs \ {r} : ~Active(q)
      BY <1>1, <3>1
    <3> QED
      BY <1>2, <1>3, <1>4, <3>2 DEF Active
  <2>2. NoneMissing'
    BY <2>1 DEF NoneMissing, Passed, Active
  <2> QED
    BY <1>1, <1>2, <1>3, <2>1, <2>2 DEF PullInv
<1> QED
  BY <1>5, <1>6

\* A step of run r that leaves the source and the count alone, and does not
\* bring the run to a success, keeps the invariant.
LEMMA StepKeeps ==
    ASSUME TypeOK, PullInv, NEW r \in Runs, pc'[r] # "idle",
           src' = src, dst' = dst \/ (dst' \subseteq src /\ dst \subseteq dst'),
           srcN' = srcN, churn' = churn,
           todo'[r] \subseteq src, \A q \in Runs \ {r} : todo'[q] = todo[q],
           \A q \in Runs \ {r} : pc'[q] = pc[q] /\ rc'[q] = rc[q],
           ~Passed(r)' \/ Passed(r)
    PROVE  PullInv'
<1>1. Steady' = Steady
  BY DEF Steady
<1>2. dst' \subseteq src' /\ dst \subseteq dst'
  BY DEF PullInv
<1>3. \A q \in Runs : todo'[q] \subseteq src'
  BY DEF PullInv
<1>4. \A q \in Runs : ~Active(q)' => srcN'[q] = 0
  BY DEF PullInv, Active
<1>5. \A q \in Runs : Passed(q)' => Passed(q)
  BY DEF Passed
<1>6. NoneMissing'
  BY <1>1, <1>2, <1>5 DEF PullInv, NoneMissing
<1> QED
  BY <1>1, <1>2, <1>3, <1>4, <1>6 DEF PullInv

\* The counts are right and the target has only what the source has, at every
\* moment of any number of runs.
LEMMA PullInvariance == Spec => []PullInv
<1>1. Init => PullInv
  <2> SUFFICES ASSUME Init PROVE PullInv
    OBVIOUS
  <2>1. Root \in src /\ dst \subseteq src
    BY SyncAssumption DEF Init
  <2>2. \A r \in Runs : pc[r] = "idle" /\ todo[r] = {} /\ srcN[r] = 0
    BY DEF Init
  <2> QED
    BY <2>1, <2>2 DEF PullInv, NoneMissing, Passed
<1>2. TypeOK /\ PullInv /\ [Next]_vars => PullInv'
  <2> SUFFICES ASSUME TypeOK, PullInv, [Next]_vars PROVE PullInv'
    OBVIOUS
  <2>1. CASE UNCHANGED <<src, dst, runs, churn>>
    BY <2>1 DEF runs, PullInv, NoneMissing, Passed, Steady, Active
  <2>2. CASE Environment
    <3>1. CASE Network
      BY <3>1, <2>1 DEF Network, history
    <3>2. ASSUME NEW D \in SnapSets, Sanoid(D) PROVE PullInv'
      BY <3>2, <2>1 DEF Sanoid, history
    <3>3. ASSUME NEW d \in Datasets, CreateDataset(d) PROVE PullInv'
      <4>1. /\ src \subseteq src' /\ UNCHANGED <<dst, pc, todo, srcN, rc>>
            /\ churn' = (churn \/ \E r \in Runs : Active(r))
        BY <3>3 DEF CreateDataset, runs
      <4>2. Steady' => \A r \in Runs : ~Active(r) /\ srcN[r] = 0
        BY <4>1 DEF PullInv, Steady
      <4>3. NoneMissing'
        BY <4>1, <4>2 DEF NoneMissing, Passed, Active
      <4>4. \A r \in Runs : ~Active(r)' => srcN'[r] = 0
        BY <4>1 DEF PullInv, Active
      <4>5. Steady' => \A r \in Runs : ~(srcN'[r] > 0)
        BY <4>1, <4>2
      <4> QED
        BY <4>1, <4>3, <4>4, <4>5 DEF PullInv
    <3>4. ASSUME NEW d \in Datasets, NEW n \in have[d], Prune(d, n) PROVE PullInv'
      BY <3>4, <2>1 DEF Prune
    <3> QED
      BY <2>2, <3>1, <3>2, <3>3, <3>4 DEF Environment
  <2>3. ASSUME NEW r \in Runs, Start(r) PROVE PullInv'
    BY <2>3, StepKeeps DEF Start, Goto, ends, TypeOK, PullInv, Passed
  <2>4. ASSUME NEW r \in Runs, Step(r) PROVE PullInv'
    <3>1. ASSUME NEW code \in Codes \ {"ok"}, Conclude(r, code),
                 UNCHANGED <<ends, srcN, churn>>
          PROVE  PullInv'
      BY <3>1, StepKeeps DEF Conclude, Goto, ends, TypeOK, PullInv, Passed
    <3>2. CASE Probe(r)
      BY <3>2, StepKeeps DEF Probe, Goto, ends, history, TypeOK, PullInv, Passed
    <3>3. CASE Unreachable(r)
      BY <3>3, <3>1 DEF Unreachable, Codes, history
    <3>4. CASE NoSyncoid(r)
      BY <3>4, EndKeeps DEF NoSyncoid
    <3>5. CASE Newest(r)
      <4>1. Fetched \subseteq src
        BY DEF PullInv, Fetched
      <4> QED
        BY <3>5, <4>1, StepKeeps DEF Newest, Goto, ends, TypeOK, PullInv, Passed
    <3>6. CASE NoSnapshots(r)
      BY <3>6, EndKeeps DEF NoSnapshots
    <3>7. ASSUME NEW d \in Datasets, Send(r, d) PROVE PullInv'
      BY <3>7, StepKeeps DEF Send, history, TypeOK, PullInv, Passed
    <3>8. ASSUME NEW d \in Datasets, Skip(r, d) PROVE PullInv'
      BY <3>8, StepKeeps DEF Skip, ends, history, TypeOK, PullInv, Passed
    <3>9. CASE SyncoidExits(r)
      BY <3>9, StepKeeps DEF SyncoidExits, Goto, ends, history, TypeOK, PullInv, Passed
    <3>10. CASE Wedge(r)
      BY <3>10, StepKeeps DEF Wedge, Goto, ends, history, TypeOK, PullInv, Passed
    <3>11. CASE Timeout(r)
      BY <3>11, <3>1 DEF Timeout, Codes, history
    <3>12. CASE Verify(r)
      <4>1. CASE Conclude(r, "failed")
        BY <3>12, <4>1, <3>1 DEF Verify, Codes, history
      <4>2. CASE ~Conclude(r, "failed")
        BY <3>12, <4>2, StepKeeps DEF Verify, Goto, ends, history, TypeOK, PullInv, Passed
      <4> QED
        BY <4>1, <4>2
    <3>13. CASE CountSrc(r)
      <4>1. /\ src' = src /\ dst' = dst /\ todo' = todo /\ churn' = churn /\ rc' = rc
            /\ pc[r] = "countsrc" /\ pc' = [pc EXCEPT ![r] = "countdst"]
            /\ srcN'[r] \in {0, Cardinality(src \ SrcHits)}
            /\ \A q \in Runs \ {r} : srcN'[q] = srcN[q]
        BY <3>13 DEF CountSrc, Goto, ends, history, TypeOK
      <4>2. Steady' = Steady
        BY <4>1 DEF Steady
      <4>3. Steady => \A q \in Runs : srcN'[q] > 0 => srcN'[q] = Cardinality(src \ SrcHits)
        <5> SUFFICES ASSUME Steady, NEW q \in Runs, srcN'[q] > 0
                     PROVE  srcN'[q] = Cardinality(src \ SrcHits)
          OBVIOUS
        <5>1. CASE q = r
          BY <4>1, <5>1
        <5>2. CASE q # r
          <6>1. srcN'[q] = srcN[q]
            BY <4>1, <5>2
          <6> QED
            BY <6>1 DEF PullInv
        <5> QED
          BY <5>1, <5>2
      <4>4. \A q \in Runs : Passed(q)' => q # r /\ Passed(q)
        BY <4>1 DEF Passed, TypeOK
      <4>5. NoneMissing'
        BY <4>1, <4>2, <4>4 DEF PullInv, NoneMissing
      <4>6. \A q \in Runs : ~Active(q)' => srcN'[q] = 0
        BY <4>1 DEF PullInv, Active, TypeOK
      <4> QED
        BY <4>1, <4>2, <4>3, <4>5, <4>6 DEF PullInv
    <3>14. CASE CountDst(r)
      <4>1. CASE Conclude(r, "failed")
        BY <3>14, <4>1, <3>1 DEF CountDst, Codes, history
      <4>2. CASE ~Conclude(r, "failed")
        <5>1. /\ src' = src /\ dst' = dst /\ todo' = todo /\ churn' = churn /\ rc' = rc
              /\ srcN' = srcN /\ pc' = [pc EXCEPT ![r] = "capture"]
              /\ ~(srcN[r] > 0 /\ Cardinality(dst \ DstHits) < srcN[r])
          BY <3>14, <4>2 DEF CountDst, Goto, ends, history
        <5>2. Steady' = Steady
          BY <5>1 DEF Steady
        <5>3. Steady /\ srcN[r] > 0 => src \ SrcHits \subseteq dst
          <6> SUFFICES ASSUME Steady, srcN[r] > 0 PROVE src \ SrcHits \subseteq dst
            OBVIOUS
          <6>1. srcN[r] = Cardinality(src \ SrcHits) /\ DstHits = SrcHits
            BY DEF PullInv, Steady
          <6>2. ~(Cardinality(dst \ SrcHits) < Cardinality(src \ SrcHits))
            BY <5>1, <6>1
          <6>3. src \in SUBSET Datasets /\ dst \in SUBSET src
            BY DEF TypeOK, PullInv
          <6> QED
            BY <6>2, <6>3, EnoughIsAll
        <5>4. \A q \in Runs \ {r} : Passed(q)' => Passed(q)
          BY <5>1 DEF Passed, TypeOK
        <5>5. NoneMissing'
          BY <5>1, <5>2, <5>3, <5>4 DEF PullInv, NoneMissing
        <5>6. \A q \in Runs : ~Active(q)' => srcN'[q] = 0
          BY <5>1 DEF PullInv, Active, TypeOK
        <5> QED
          BY <5>1, <5>2, <5>5, <5>6 DEF PullInv
      <4> QED
        BY <4>1, <4>2
    <3>15. CASE Capture(r)
      BY <3>15, StepKeeps DEF Capture, Conclude, Goto, ends, history, TypeOK, PullInv, Passed
    <3>16. CASE CaptureHangs(r)
      BY <3>16, StepKeeps DEF CaptureHangs, Goto, ends, history, TypeOK, PullInv, Passed
    <3>17. CASE Record(r)
      BY <3>17, StepKeeps DEF Record, Goto, ends, history, TypeOK, PullInv, Passed
    <3>18. CASE Write(r)
      BY <3>18, EndKeeps DEF Write
    <3>19. CASE RecordFails(r)
      BY <3>19, EndKeeps DEF RecordFails
    <3>20. CASE VerifyBlind(r)
      BY <3>20, <3>1 DEF VerifyBlind, Codes
    <3>21. CASE CountBlind(r)
      <4>1. CASE Conclude(r, "failed")
        BY <3>21, <4>1, <3>1 DEF CountBlind, Codes
      <4>2. CASE ~Conclude(r, "failed")
        <5>1. /\ src' = src /\ dst' = dst /\ todo' = todo /\ churn' = churn /\ rc' = rc
              /\ srcN' = srcN /\ pc' = [pc EXCEPT ![r] = "capture"] /\ srcN[r] = 0
          BY <3>21, <4>2 DEF CountBlind, Goto, ends, TypeOK
        <5>2. Steady' = Steady
          BY <5>1 DEF Steady
        <5>3. \A q \in Runs \ {r} : Passed(q)' => Passed(q)
          BY <5>1 DEF Passed, TypeOK
        <5>4. NoneMissing'
          BY <5>1, <5>2, <5>3 DEF PullInv, NoneMissing
        <5>5. \A q \in Runs : ~Active(q)' => srcN'[q] = 0
          BY <5>1 DEF PullInv, Active, TypeOK
        <5> QED
          BY <5>1, <5>2, <5>4, <5>5 DEF PullInv
      <4> QED
        BY <4>1, <4>2
    <3> QED
      BY <2>4, <3>2, <3>3, <3>4, <3>5, <3>6, <3>7, <3>8, <3>9, <3>10, <3>11, <3>12, <3>13,
         <3>14, <3>15, <3>16, <3>17, <3>18, <3>19, <3>20, <3>21 DEF Step
  <2> QED
    BY <2>1, <2>2, <2>3, <2>4 DEF Next, vars, ends, runs, left, history
<1> QED
  BY <1>1, <1>2, TypeCorrect, PTL DEF Spec

\* A success is not short of a dataset that the source has, as long as the
\* source was counted and no dataset appeared since the run began: for any
\* number of runs at once, whatever syncoid skips and whenever the network goes.
THEOREM NoneIsMissing == Spec => []NoneMissing
<1>1. PullInv => NoneMissing
  BY DEF PullInv
<1> QED
  BY <1>1, PullInvariance, PTL
-----------------------------------------------------------------------------
(* What is left of a run.                                                  *)

\* While runs come one by one, a run that is about to write has the file to
\* itself, and between two writes the file says how the last failure ended.
\* FailureShows looks only at the moments when nothing runs.
RecordInv ==
    ~overlap =>
        /\ \A r, q \in Runs : Active(r) /\ Active(q) => r = q
        /\ \A r \in Runs : pc[r] = "write" => file = "empty"
        /\ (\A r \in Runs : pc[r] # "write") /\ last \in {"failed", "timeout"}
               => file = last

\* A step of an active run that leaves the records alone keeps the invariant.
LEMMA WorkKeeps ==
    ASSUME TypeOK, RecordInv, NEW r \in Runs, pc[r] \notin {"idle", "write"},
           NEW step \in Steps \ {"idle", "write"}, Goto(r, step),
           UNCHANGED <<file, last, overlap>>
    PROVE  RecordInv'
<1>1. \A q \in Runs : (pc'[q] # "idle" <=> pc[q] # "idle") /\ (pc'[q] = "write" <=> pc[q] = "write")
  BY DEF Goto, TypeOK
<1> QED
  BY <1>1 DEF RecordInv, Active

\* A run that ends with a record of its own, or with none that counts, keeps
\* the invariant.
LEMMA RecordKeeps ==
    ASSUME TypeOK, RecordInv, NEW r \in Runs, Active(r), NEW code, NEW shown,
           Ended(r, code, shown),
           ~overlap => shown \notin {"failed", "timeout"} \/ file' = shown
    PROVE  RecordInv'
<1>1. pc' = [pc EXCEPT ![r] = "idle"] /\ overlap' = overlap /\ (~overlap => last' = shown)
  BY DEF Ended, Goto
<1> SUFFICES ASSUME ~overlap PROVE RecordInv'
  BY <1>1 DEF RecordInv
<1>2. \A q \in Runs : pc'[q] = "idle"
  BY <1>1 DEF TypeOK, RecordInv, Active
<1> QED
  BY <1>1, <1>2 DEF RecordInv, Active

\* A run that timed out or did not verify is what the status shows until
\* another run ends, as long as the runs come one by one and the state file can
\* be written: whoever started them, and however the earlier ones ended.
THEOREM FailuresShow == Spec => []FailureShows
<1>1. Init => RecordInv
  BY DEF Init, RecordInv, Active
<1>2. TypeOK /\ RecordInv /\ [Next]_vars => RecordInv'
  <2> SUFFICES ASSUME TypeOK, RecordInv, [Next]_vars PROVE RecordInv'
    OBVIOUS
  <2>1. CASE UNCHANGED <<pc, file, last, overlap>>
    BY <2>1 DEF RecordInv, Active
  <2>2. CASE Environment
    BY <2>1, <2>2 DEF Environment, Network, Sanoid, CreateDataset, Prune, runs, left, history
  <2>3. ASSUME NEW r \in Runs, Start(r) PROVE RecordInv'
    <3>1. /\ pc' = [pc EXCEPT ![r] = "probe"] /\ file' = file
          /\ overlap' = (overlap \/ \E q \in Runs : Active(q))
          /\ ~overlap' => last' = last
      BY <2>3 DEF Start, Goto, left
    <3> SUFFICES ASSUME ~overlap' PROVE RecordInv'
      BY DEF RecordInv
    <3>2. ~overlap /\ \A q \in Runs : pc[q] = "idle"
      BY <3>1 DEF Active, TypeOK
    <3>3. \A q \in Runs : pc'[q] = IF q = r THEN "probe" ELSE "idle"
      BY <3>1, <3>2 DEF TypeOK
    <3> QED
      BY <3>1, <3>2, <3>3 DEF RecordInv, Active
  <2>4. ASSUME NEW r \in Runs, Step(r) PROVE RecordInv'
    <3> USE DEF Steps
    <3>1. ASSUME NEW code, Conclude(r, code), pc[r] \notin {"idle", "write"},
                 UNCHANGED <<left, last, overlap>>
          PROVE  RecordInv'
      BY <3>1, WorkKeeps DEF Conclude, left
    <3>2. CASE Probe(r)
      BY <3>2, WorkKeeps DEF Probe, left, history
    <3>3. CASE Unreachable(r)
      BY <3>3, <3>1 DEF Unreachable, history
    <3>4. CASE NoSyncoid(r)
      BY <3>4, RecordKeeps DEF NoSyncoid, Active
    <3>5. CASE Newest(r)
      BY <3>5, WorkKeeps DEF Newest, left
    <3>6. CASE NoSnapshots(r)
      BY <3>6, RecordKeeps DEF NoSnapshots, Active
    <3>7. ASSUME NEW d \in Datasets, Send(r, d) \/ Skip(r, d) PROVE RecordInv'
      BY <3>7, <2>1 DEF Send, Skip, left, history
    <3>8. CASE SyncoidExits(r)
      BY <3>8, WorkKeeps DEF SyncoidExits, left, history
    <3>9. CASE Wedge(r)
      BY <3>9, WorkKeeps DEF Wedge, left, history
    <3>10. CASE Timeout(r)
      BY <3>10, <3>1 DEF Timeout, history
    <3>11. CASE Verify(r)
      <4>1. CASE Conclude(r, "failed")
        BY <3>11, <4>1, <3>1 DEF Verify, history
      <4>2. CASE ~Conclude(r, "failed")
        BY <3>11, <4>2, WorkKeeps DEF Verify, left, history
      <4> QED
        BY <4>1, <4>2
    <3>12. CASE CountSrc(r)
      BY <3>12, WorkKeeps DEF CountSrc, left, history
    <3>13. CASE CountDst(r)
      <4>1. CASE Conclude(r, "failed")
        BY <3>13, <4>1, <3>1 DEF CountDst, history
      <4>2. CASE ~Conclude(r, "failed")
        BY <3>13, <4>2, WorkKeeps DEF CountDst, left, history
      <4> QED
        BY <4>1, <4>2
    <3>14. CASE Capture(r)
      BY <3>14, <3>1 DEF Capture, history
    <3>15. CASE CaptureHangs(r)
      BY <3>15, WorkKeeps DEF CaptureHangs, left, history
    <3>16. CASE Record(r)
      <4>1. /\ pc[r] = "record" /\ pc' = [pc EXCEPT ![r] = "write"]
            /\ file' = "empty" /\ overlap' = overlap
        BY <3>16 DEF Record, Goto, history
      <4>2. \A q \in Runs : pc'[q] # "idle" <=> pc[q] # "idle"
        BY <4>1 DEF TypeOK
      <4>3. pc'[r] = "write"
        BY <4>1 DEF TypeOK
      <4> QED
        BY <4>1, <4>2, <4>3 DEF RecordInv, Active
    <3>17. CASE Write(r)
      <4>1. ~overlap => file = "empty"
        BY <3>17 DEF Write, RecordInv
      <4>2. ~overlap => file' = rc[r]
        BY <3>17, <4>1 DEF Write
      <4> QED
        BY <3>17, <4>2, RecordKeeps DEF Write, Active
    <3>18. CASE RecordFails(r)
      BY <3>18, RecordKeeps DEF RecordFails, Active
    <3>19. CASE VerifyBlind(r)
      BY <3>19, <3>1 DEF VerifyBlind
    <3>20. CASE CountBlind(r)
      <4>1. CASE Conclude(r, "failed")
        BY <3>20, <4>1, <3>1 DEF CountBlind
      <4>2. CASE ~Conclude(r, "failed")
        BY <3>20, <4>2, WorkKeeps DEF CountBlind, left
      <4> QED
        BY <4>1, <4>2
    <3> QED
      BY <2>4, <3>2, <3>3, <3>4, <3>5, <3>6, <3>7, <3>8, <3>9, <3>10, <3>11, <3>12, <3>13,
         <3>14, <3>15, <3>16, <3>17, <3>18, <3>19, <3>20 DEF Step
  <2> QED
    BY <2>1, <2>2, <2>3, <2>4 DEF Next, vars, ends, runs, left, history
<1>3. RecordInv => FailureShows
  BY DEF RecordInv, FailureShows, Settled, Shown, Active, Codes
<1> QED
  BY <1>1, <1>2, <1>3, TypeCorrect, PTL DEF Spec
-----------------------------------------------------------------------------
(* A pull that syncoid had nothing to complain about.                      *)

\* Nothing is newer than the clock, and a dataset of the target has no gap where
\* the source still has a snapshot: what was pruned before it was sent is not
\* there, what is there from the source is complete up to the newest.
SnapInv ==
    /\ Root \in dst
    /\ \A d \in Datasets : \A n \in have[d] \cup landed[d] : n <= clock
    /\ \A d \in Datasets : \A n \in have[d], m \in landed[d] : n <= m => n \in landed[d]

\* What run r knows as long as syncoid has not complained, and neither pruning
\* nor this host has got in its way: what it fetches has the snapshot that it
\* will verify and, once sent, has it here; a dataset that is missing is to be
\* sent.
CleanRun(r) ==
    /\ pc[r] \in {"verify", "countsrc", "countdst"} => todo[r] = {}
    /\ clean[r] /\ sure[r] /\ ~churn /\ pc[r] \in {"syncoid", "verify"} =>
        /\ src \ {Root} # {}
        /\ \A d \in src \ {Root} :
            newest[r] \in have[d] /\ (d \in todo[r] \/ (d \in dst /\ newest[r] \in landed[d]))
    /\ clean[r] /\ ~churn /\ pc[r] \in {"syncoid", "verify", "countsrc", "countdst"} =>
        src \subseteq todo[r] \cup dst
    /\ Steady /\ pc[r] \in {"record", "write"} /\ rc[r] = "failed" => ~(clean[r] /\ sure[r])

CleanInv == SnapInv /\ \A r \in Runs : CleanRun(r)

\* What one run knows survives what the others and the source do: nothing that
\* the source still has goes from the target.
LEMMA OthersKeepClean ==
    ASSUME TypeOK, TypeOK', NEW q \in Runs, CleanRun(q),
           pc'[q] = pc[q], newest'[q] = newest[q], todo'[q] = todo[q],
           clean'[q] = clean[q], rc'[q] = rc[q], sure'[q] => sure[q],
           dst \subseteq dst',
           \A d \in Datasets : have[d] \cap landed[d] \subseteq landed'[d],
           sure'[q] => \A d \in src \ {Root} : newest[q] \in have[d] => newest[q] \in have'[d],
           Active(q) => (churn => churn') /\ (churn' \/ src' = src)
    PROVE  CleanRun(q)'
<1>1. CASE ~Active(q)
  BY <1>1 DEF Active, CleanRun
<1>2. CASE Active(q)
  <2>1. Steady' => Steady
    BY <1>2 DEF Steady
  <2>2. ASSUME clean'[q], sure'[q], ~churn', pc'[q] \in {"syncoid", "verify"}
        PROVE  /\ src' \ {Root} # {}
               /\ \A d \in src' \ {Root} :
                     /\ newest'[q] \in have'[d]
                     /\ d \in todo'[q] \/ (d \in dst' /\ newest'[q] \in landed'[d])
    <3>1. src' = src /\ ~churn /\ clean[q] /\ sure[q] /\ pc[q] \in {"syncoid", "verify"}
      BY <1>2, <2>2
    <3>2. /\ src \ {Root} # {}
          /\ \A d \in src \ {Root} :
                newest[q] \in have[d] /\ (d \in todo[q] \/ (d \in dst /\ newest[q] \in landed[d]))
      BY <3>1 DEF CleanRun
    <3>3. src \subseteq Datasets
      BY DEF TypeOK
    <3>4. ASSUME NEW d \in src \ {Root}
          PROVE  /\ newest'[q] \in have'[d]
                 /\ d \in todo'[q] \/ (d \in dst' /\ newest'[q] \in landed'[d])
      BY <2>2, <3>2, <3>3
    <3> QED
      BY <3>1, <3>2, <3>4
  <2>3. clean'[q] /\ ~churn' /\ pc'[q] \in {"syncoid", "verify", "countsrc", "countdst"} =>
          src' \subseteq todo'[q] \cup dst'
    BY <1>2 DEF CleanRun
  <2> QED
    BY <2>1, <2>2, <2>3 DEF CleanRun
<1> QED
  BY <1>1, <1>2

\* A step that moves run r, and nothing of the two ends, keeps what the other
\* runs know.
LEMMA OneMoves ==
    ASSUME TypeOK, TypeOK', SnapInv, \A q \in Runs : CleanRun(q), NEW r \in Runs,
           \A q \in Runs \ {r} : /\ pc'[q] = pc[q] /\ newest'[q] = newest[q]
                                 /\ todo'[q] = todo[q] /\ clean'[q] = clean[q]
                                 /\ rc'[q] = rc[q] /\ sure'[q] = sure[q]
                                 /\ Active(q) => (churn => churn'),
           UNCHANGED ends, CleanRun(r)'
    PROVE  SnapInv' /\ \A q \in Runs : CleanRun(q)'
<1>1. UNCHANGED <<src, have, dst, landed, clock>>
  BY DEF ends
<1>2. SnapInv'
  BY <1>1 DEF SnapInv
<1>3. ASSUME NEW q \in Runs \ {r} PROVE CleanRun(q)'
  BY <1>1, OthersKeepClean
<1> QED
  BY <1>2, <1>3

\* Sending a dataset brings over all that the source has of it, whatever had
\* landed, was pruned or is rolled back: the runs know more, and nothing they
\* knew is lost.
LEMMA SendKeeps ==
    ASSUME TypeOK, TypeOK', SnapInv, \A q \in Runs : CleanRun(q),
           NEW r \in Runs, NEW d \in Datasets, Send(r, d)
    PROVE  SnapInv' /\ \A q \in Runs : CleanRun(q)'
<1> DEFINE kept == {m \in landed[d] : Common(d) = {} \/ \E b \in Common(d) : m <= b}
<1>1. /\ pc[r] = "syncoid" /\ d \in todo[r]
      /\ dst' = dst \cup {d}
      /\ landed' = [landed EXCEPT ![d] = kept \cup {n \in have[d] : \A m \in kept : m < n}]
      /\ todo' = [todo EXCEPT ![r] = @ \ {d}]
      /\ UNCHANGED <<src, have, clock, pc, newest, clean, srcN, rc, churn, sure>>
  BY DEF Send, history
<1>2. /\ \A e \in Datasets \ {d} : landed'[e] = landed[e]
      /\ landed'[d] = kept \cup {n \in have[d] : \A m \in kept : m < n}
  BY <1>1 DEF TypeOK
<1>3. have[d] \subseteq Nat /\ landed[d] \subseteq Nat
  BY DEF TypeOK
<1>4. Common(d) \subseteq kept
  BY <1>3 DEF Common
<1>5. have[d] \subseteq landed'[d]
  <2> SUFFICES ASSUME NEW n \in have[d], \E m \in kept : ~(m < n) PROVE n \in kept
    BY <1>2
  <2>1. PICK m \in landed[d] : n <= m
    BY <1>3
  <2>2. n \in landed[d]
    BY <2>1 DEF SnapInv
  <2> QED
    BY <1>4, <2>2 DEF Common
<1>6. landed'[d] \subseteq landed[d] \cup have[d]
  BY <1>2
<1> HIDE DEF kept
<1>7. SnapInv'
  <2>1. Root \in dst'
    BY <1>1 DEF SnapInv
  <2>2. ASSUME NEW e \in Datasets
        PROVE  /\ \A n \in have[e] \cup landed'[e] : n <= clock
               /\ \A n \in have[e], m \in landed'[e] : n <= m => n \in landed'[e]
    <3>1. CASE e = d
      BY <1>5, <1>6, <3>1 DEF SnapInv
    <3>2. CASE e # d
      BY <1>2, <3>2 DEF SnapInv
    <3> QED
      BY <3>1, <3>2
  <2> QED
    BY <1>1, <2>1, <2>2 DEF SnapInv
<1>8. \A e \in Datasets : have[e] \cap landed[e] \subseteq landed'[e]
  BY <1>2, <1>5
<1>9. ASSUME NEW q \in Runs \ {r} PROVE CleanRun(q)'
  BY <1>1, <1>8, OthersKeepClean DEF TypeOK
<1>10. CleanRun(r)'
  <2>1. /\ todo'[r] = todo[r] \ {d} /\ clean'[r] = clean[r] /\ newest'[r] = newest[r]
        /\ sure'[r] = sure[r] /\ dst' = dst \cup {d}
    BY <1>1 DEF TypeOK
  <2>2. ASSUME clean[r], sure[r], ~churn
        PROVE  /\ src \ {Root} # {}
               /\ \A e \in src \ {Root} :
                     /\ newest[r] \in have[e]
                     /\ e \in todo'[r] \/ (e \in dst' /\ newest[r] \in landed'[e])
    <3>1. /\ src \ {Root} # {} /\ src \subseteq Datasets
          /\ \A e \in src \ {Root} :
                newest[r] \in have[e] /\ (e \in todo[r] \/ (e \in dst /\ newest[r] \in landed[e]))
      BY <1>1, <2>2 DEF CleanRun, TypeOK
    <3>2. ASSUME NEW e \in src \ {Root}, e \notin todo'[r]
          PROVE  e \in dst' /\ newest[r] \in landed'[e]
      <4>1. CASE e = d
        BY <1>5, <2>1, <3>1, <4>1
      <4>2. CASE e # d
        BY <1>8, <2>1, <3>1, <3>2, <4>2
      <4> QED
        BY <4>1, <4>2
    <3> QED
      BY <3>1, <3>2
  <2>3. clean[r] /\ ~churn => src \subseteq todo'[r] \cup dst'
    BY <1>1, <2>1 DEF CleanRun
  <2> QED
    BY <1>1, <2>1, <2>2, <2>3 DEF CleanRun
<1> QED
  BY <1>7, <1>9, <1>10

\* The source's own steps: a new snapshot is newer than all that has landed, a
\* snapshot that is pruned makes the runs that look for it unsure, and a dataset
\* that appears while a run is active is noted.
LEMMA SourceKeepsClean ==
    ASSUME TypeOK, TypeOK', SnapInv, \A q \in Runs : CleanRun(q),
           Recursive, Excluded = {}, Environment
    PROVE  SnapInv' /\ \A q \in Runs : CleanRun(q)'
<1>1. CASE Network
  <2>1. UNCHANGED <<src, have, dst, landed, clock, pc, newest, todo, clean, rc, churn, sure>>
    BY <1>1 DEF Network, runs, history
  <2> QED
    BY <2>1 DEF SnapInv, CleanRun, Steady
<1>2. ASSUME NEW D \in SnapSets, Sanoid(D) PROVE SnapInv' /\ \A q \in Runs : CleanRun(q)'
  <2>1. /\ \A d \in Datasets : have[d] \subseteq have'[d] /\ have'[d] \subseteq have[d] \cup {clock + 1}
        /\ clock' = clock + 1
        /\ UNCHANGED <<src, dst, landed, pc, newest, todo, clean, rc, churn, sure>>
    BY <1>2 DEF Sanoid, runs, history
  <2>2. ASSUME NEW d \in Datasets
        PROVE  /\ \A n \in have'[d] \cup landed'[d] : n <= clock'
               /\ \A n \in have'[d], m \in landed'[d] : n <= m => n \in landed'[d]
    <3>1. /\ have[d] \subseteq Nat /\ landed[d] \subseteq Nat /\ clock \in Nat
          /\ \A n \in have[d] \cup landed[d] : n <= clock
          /\ \A n \in have[d], m \in landed[d] : n <= m => n \in landed[d]
      BY DEF TypeOK, SnapInv
    <3>2. have'[d] \subseteq have[d] \cup {clock + 1} /\ clock' = clock + 1 /\ landed'[d] = landed[d]
      BY <2>1
    <3> QED
      BY <3>1, <3>2
  <2>3. SnapInv'
    BY <2>1, <2>2 DEF SnapInv
  <2>4. ASSUME NEW q \in Runs PROVE CleanRun(q)'
    <3>1. src \subseteq Datasets
      BY DEF TypeOK
    <3> QED
      BY <2>1, <3>1, OthersKeepClean
  <2> QED
    BY <2>3, <2>4
<1>3. ASSUME NEW d \in Datasets, CreateDataset(d) PROVE SnapInv' /\ \A q \in Runs : CleanRun(q)'
  <2>1. /\ src' = src \cup {d} /\ churn' = (churn \/ \E r \in Runs : Active(r))
        /\ UNCHANGED <<have, dst, landed, clock, pc, newest, todo, clean, rc, sure>>
    BY <1>3 DEF CreateDataset, runs
  <2>2. SnapInv'
    BY <2>1 DEF SnapInv
  <2>3. ASSUME NEW q \in Runs PROVE CleanRun(q)'
    <3>1. Active(q) => churn' = TRUE
      BY <2>1
    <3> QED
      BY <2>1, <3>1, OthersKeepClean DEF TypeOK
  <2> QED
    BY <2>2, <2>3
<1>4. ASSUME NEW d \in Datasets, NEW n \in have[d], Prune(d, n)
      PROVE  SnapInv' /\ \A q \in Runs : CleanRun(q)'
  <2>1. /\ have' = [have EXCEPT ![d] = @ \ {n}]
        /\ sure' = [q \in Runs |-> sure[q] /\ ~(newest[q] = n /\ d \in Fetched)]
        /\ UNCHANGED <<src, dst, landed, clock, pc, newest, todo, clean, rc, churn>>
    BY <1>4 DEF Prune, runs
  <2>2. \A e \in Datasets : have'[e] = IF e = d THEN have[e] \ {n} ELSE have[e]
    BY <2>1 DEF TypeOK
  <2>3. SnapInv'
    BY <2>1, <2>2 DEF SnapInv
  <2>4. ASSUME NEW q \in Runs PROVE CleanRun(q)'
    <3>1. src \subseteq Datasets /\ Fetched = src \ {Root}
      BY DEF TypeOK, Fetched
    <3>2. sure'[q] => sure[q] /\ ~(newest[q] = n /\ d \in Fetched)
      BY <2>1
    <3>3. sure'[q] => \A e \in src \ {Root} : newest[q] \in have[e] => newest[q] \in have'[e]
      BY <2>2, <3>1, <3>2
    <3> QED
      BY <2>1, <3>2, <3>3, OthersKeepClean
  <2> QED
    BY <2>3, <2>4
<1> QED
  BY <1>1, <1>2, <1>3, <1>4 DEF Environment

\* A recursive pull that leaves nothing out: if syncoid skips nothing, every list
\* on this host works and what is fetched keeps the snapshot that is looked for,
\* the verification and the count find nothing to object to, whatever else is
\* snapshot, pruned, rolled back and sent meanwhile.
THEOREM CleanPullsPass ==
    ASSUME Recursive, Excluded = {}
    PROVE  Spec => []CleanPullPasses
<1>1. Init => CleanInv
  <2> SUFFICES ASSUME Init PROVE SnapInv /\ \A r \in Runs : CleanRun(r)
    BY DEF CleanInv
  <2>1. clock = 1 /\ Root \in dst
    BY DEF Init
  <2>2. \A d \in Datasets : have[d] \subseteq {1} /\ landed[d] = {}
    BY DEF Init
  <2>3. \A r \in Runs : pc[r] = "idle"
    BY DEF Init
  <2> QED
    BY <2>1, <2>2, <2>3 DEF SnapInv, CleanRun
<1>2. TypeOK /\ TypeOK' /\ PullInv /\ CleanInv /\ [Next]_vars => CleanInv'
  <2> SUFFICES ASSUME TypeOK, TypeOK', PullInv, SnapInv, \A r \in Runs : CleanRun(r), [Next]_vars
               PROVE  SnapInv' /\ \A r \in Runs : CleanRun(r)'
    BY DEF CleanInv
  <2>1. CASE UNCHANGED vars
    <3>1. UNCHANGED <<src, have, dst, landed, clock, pc, newest, todo, clean, rc, churn, sure>>
      BY <2>1 DEF vars, ends, runs, history
    <3> QED
      BY <3>1 DEF SnapInv, CleanRun, Steady
  <2>2. CASE Environment
    BY <2>2, SourceKeepsClean
  <2>3. ASSUME NEW r \in Runs, Start(r) PROVE SnapInv' /\ \A q \in Runs : CleanRun(q)'
    <3>1. pc' = [pc EXCEPT ![r] = "probe"] /\ UNCHANGED <<ends, newest, todo, clean, rc, churn, sure>>
      BY <2>3 DEF Start, Goto
    <3>2. pc'[r] = "probe"
      BY <3>1 DEF TypeOK
    <3>3. CleanRun(r)'
      BY <3>2 DEF CleanRun
    <3> QED
      BY <3>1, <3>3, OneMoves DEF TypeOK
  <2>4. ASSUME NEW r \in Runs, Step(r) PROVE SnapInv' /\ \A q \in Runs : CleanRun(q)'
    <3>1. ASSUME NEW code \in Codes, Conclude(r, code), UNCHANGED <<ends, clean, churn>>,
                 \A q \in Runs \ {r} : sure'[q] = sure[q],
                 Steady /\ code = "failed" => ~(clean[r] /\ sure'[r])
          PROVE  SnapInv' /\ \A q \in Runs : CleanRun(q)'
      <4>1. /\ pc' = [pc EXCEPT ![r] = "record"] /\ rc' = [rc EXCEPT ![r] = code]
            /\ newest' = [newest EXCEPT ![r] = 0] /\ todo' = [todo EXCEPT ![r] = {}]
            /\ clean' = clean /\ churn' = churn
        BY <3>1 DEF Conclude, Goto
      <4>2. pc'[r] = "record" /\ rc'[r] = code /\ Steady' = Steady
        BY <4>1 DEF TypeOK, Steady
      <4>3. CleanRun(r)'
        BY <3>1, <4>1, <4>2 DEF CleanRun
      <4> QED
        BY <3>1, <4>1, <4>3, OneMoves DEF TypeOK
    <3>2. ASSUME NEW code, NEW shown, Ended(r, code, shown), UNCHANGED ends
          PROVE  SnapInv' /\ \A q \in Runs : CleanRun(q)'
      <4>1. /\ pc' = [pc EXCEPT ![r] = "idle"] /\ rc' = [rc EXCEPT ![r] = "ok"]
            /\ newest' = [newest EXCEPT ![r] = 0] /\ todo' = [todo EXCEPT ![r] = {}]
            /\ clean' = [clean EXCEPT ![r] = TRUE] /\ sure' = [sure EXCEPT ![r] = FALSE]
            /\ churn' = (churn /\ \E q \in Runs \ {r} : Active(q))
        BY <3>2 DEF Ended, Goto
      <4>2. pc'[r] = "idle"
        BY <4>1 DEF TypeOK
      <4>3. CleanRun(r)'
        BY <4>2 DEF CleanRun
      <4>4. \A q \in Runs \ {r} : Active(q) => (churn => churn')
        BY <4>1
      <4> QED
        BY <3>2, <4>1, <4>3, <4>4, OneMoves DEF TypeOK
    <3>3. ASSUME NEW step \in Steps, Goto(r, step), CleanRun(r)',
                 newest' = newest \/ newest' = [newest EXCEPT ![r] = 0],
                 todo' = todo \/ todo' = [todo EXCEPT ![r] = {}],
                 \A q \in Runs \ {r} : sure'[q] = sure[q],
                 UNCHANGED <<ends, clean, rc, churn>>
          PROVE  SnapInv' /\ \A q \in Runs : CleanRun(q)'
      <4>1. \A q \in Runs \ {r} : pc'[q] = pc[q] /\ newest'[q] = newest[q] /\ todo'[q] = todo[q]
        BY <3>3 DEF Goto, TypeOK
      <4> QED
        BY <3>3, <4>1, OneMoves
    <3>4. CASE Probe(r)
      <4>1. pc'[r] = "newest"
        BY <3>4 DEF Probe, Goto, TypeOK
      <4>2. CleanRun(r)'
        BY <4>1 DEF CleanRun
      <4> QED
        BY <3>3, <3>4, <4>2 DEF Probe, history, Steps
    <3>5. CASE Unreachable(r)
      BY <3>1, <3>5 DEF Unreachable, Codes, history
    <3>6. CASE NoSyncoid(r)
      BY <3>2, <3>6 DEF NoSyncoid
    <3>7. CASE Newest(r)
      <4>1. PICK n \in AllSnaps :
              /\ newest' = [newest EXCEPT ![r] = n]
              /\ sure' = [sure EXCEPT ![r] = Fetched # {} /\ \A d \in Fetched : n \in have[d]]
        BY <3>7 DEF Newest
      <4>2. /\ todo' = [todo EXCEPT ![r] = Fetched]
            /\ pc' = [pc EXCEPT ![r] = "syncoid"]
            /\ UNCHANGED <<ends, clean, rc, churn>>
        BY <3>7 DEF Newest, Goto
      <4>3. /\ pc'[r] = "syncoid" /\ newest'[r] = n /\ todo'[r] = Fetched
            /\ src' = src /\ dst' = dst /\ have' = have
        BY <4>1, <4>2 DEF TypeOK, ends
      <4>4. sure'[r] = (Fetched # {} /\ \A d \in Fetched : n \in have[d])
        BY <4>1 DEF TypeOK
      <4>5. Fetched = src \ {Root} /\ Root \in dst
        BY DEF Fetched, SnapInv
      <4>6. CleanRun(r)'
        BY <4>3, <4>4, <4>5 DEF CleanRun
      <4>7. \A q \in Runs \ {r} :
              /\ pc'[q] = pc[q] /\ newest'[q] = newest[q]
              /\ todo'[q] = todo[q] /\ sure'[q] = sure[q]
        BY <4>1, <4>2 DEF TypeOK
      <4> QED
        BY <4>2, <4>6, <4>7, OneMoves
    <3>8. CASE NoSnapshots(r)
      BY <3>2, <3>8 DEF NoSnapshots
    <3>9. ASSUME NEW d \in Datasets, Send(r, d) PROVE SnapInv' /\ \A q \in Runs : CleanRun(q)'
      BY <3>9, SendKeeps
    <3>10. ASSUME NEW d \in Datasets, Skip(r, d) PROVE SnapInv' /\ \A q \in Runs : CleanRun(q)'
      <4>1. /\ pc[r] = "syncoid" /\ todo' = [todo EXCEPT ![r] = @ \ {d}]
            /\ clean' = [clean EXCEPT ![r] = FALSE]
            /\ UNCHANGED <<ends, pc, newest, rc, churn, sure>>
        BY <3>10 DEF Skip, history
      <4>2. CleanRun(r)'
        BY <4>1 DEF CleanRun, TypeOK
      <4> QED
        BY <4>1, <4>2, OneMoves DEF TypeOK
    <3>11. CASE SyncoidExits(r)
      <4>1. /\ pc[r] = "syncoid" /\ todo[r] = {} /\ pc'[r] = "verify"
            /\ UNCHANGED <<src, have, dst, landed, newest, todo, clean, rc, churn, sure>>
        BY <3>11 DEF SyncoidExits, Goto, TypeOK, ends, history
      <4>2. CleanRun(r)'
        BY <4>1 DEF CleanRun
      <4> QED
        BY <3>3, <3>11, <4>2 DEF SyncoidExits, history, Steps
    <3>12. CASE Wedge(r)
      <4>1. pc'[r] = "wedged"
        BY <3>12 DEF Wedge, Goto, TypeOK
      <4>2. CleanRun(r)'
        BY <4>1 DEF CleanRun
      <4> QED
        BY <3>3, <3>12, <4>2 DEF Wedge, history, Steps
    <3>13. CASE Timeout(r)
      BY <3>1, <3>13 DEF Timeout, Codes, history
    <3>14. CASE Verify(r)
      <4>1. CASE \E d \in dst : newest[r] \in landed[d]
        <5>1. /\ Goto(r, "countsrc") /\ newest' = [newest EXCEPT ![r] = 0]
              /\ UNCHANGED <<rc, todo, ends, clean, churn, sure>>
          BY <3>14, <4>1 DEF Verify, history
        <5>2. /\ pc[r] = "verify" /\ pc'[r] = "countsrc"
              /\ UNCHANGED <<src, dst, todo, clean, rc, churn, sure>>
          BY <3>14, <5>1 DEF Verify, Goto, TypeOK, ends
        <5>3. CleanRun(r)'
          BY <5>2 DEF CleanRun
        <5> QED
          BY <3>3, <5>1, <5>3 DEF Steps
      <4>2. CASE ~ \E d \in dst : newest[r] \in landed[d]
        <5>1. Steady => ~(clean[r] /\ sure[r])
          <6> SUFFICES ASSUME Steady, clean[r], sure[r] PROVE FALSE
            OBVIOUS
          <6>1. pc[r] = "verify"
            BY <3>14 DEF Verify
          <6>2. PICK d \in src \ {Root} : d \in dst /\ newest[r] \in landed[d]
            BY <6>1 DEF CleanRun, Steady
          <6> QED
            BY <4>2, <6>2
        <5>2. sure' = sure
          BY <3>14 DEF Verify, history
        <5> QED
          BY <3>1, <3>14, <4>2, <5>1, <5>2 DEF Verify, Codes, history
      <4> QED
        BY <4>1, <4>2
    <3>15. CASE CountSrc(r)
      <4>1. /\ pc[r] = "countsrc" /\ pc'[r] = "countdst"
            /\ UNCHANGED <<src, dst, newest, todo, clean, rc, churn, sure>>
        BY <3>15 DEF CountSrc, Goto, TypeOK, ends, history
      <4>2. CleanRun(r)'
        BY <4>1 DEF CleanRun
      <4> QED
        BY <3>3, <3>15, <4>2 DEF CountSrc, history, Steps
    <3>16. CASE CountDst(r)
      <4>1. CASE srcN[r] > 0 /\ Cardinality(dst \ DstHits) < srcN[r]
        <5>1. Steady => ~(clean[r] /\ sure'[r])
          <6> SUFFICES ASSUME Steady, clean[r] PROVE FALSE
            OBVIOUS
          <6>1. dst = src
            BY <3>16 DEF CountDst, CleanRun, PullInv, Steady
          <6>2. srcN[r] = Cardinality(src \ SrcHits) /\ SrcHits = DstHits
            BY <4>1 DEF PullInv, Steady
          <6>3. Cardinality(src \ SrcHits) \in Nat
            BY CountIsNat DEF TypeOK
          <6> QED
            BY <4>1, <6>1, <6>2, <6>3
        <5> QED
          BY <3>1, <3>16, <4>1, <5>1 DEF CountDst, Codes, history
      <4>2. CASE ~(srcN[r] > 0 /\ Cardinality(dst \ DstHits) < srcN[r])
        <5>1. Goto(r, "capture") /\ UNCHANGED <<rc, newest, todo, ends, clean, churn, sure>>
          BY <3>16, <4>2 DEF CountDst, history
        <5>2. pc'[r] = "capture"
          BY <5>1 DEF Goto, TypeOK
        <5>3. CleanRun(r)'
          BY <5>2 DEF CleanRun
        <5> QED
          BY <3>3, <5>1, <5>3 DEF Steps
      <4> QED
        BY <4>1, <4>2
    <3>17. CASE Capture(r)
      BY <3>1, <3>17 DEF Capture, Codes, history
    <3>18. CASE CaptureHangs(r)
      <4>1. pc'[r] = "hung"
        BY <3>18 DEF CaptureHangs, Goto, TypeOK
      <4>2. CleanRun(r)'
        BY <4>1 DEF CleanRun
      <4> QED
        BY <3>3, <3>18, <4>2 DEF CaptureHangs, history, Steps
    <3>19. CASE Record(r)
      <4>1. /\ pc[r] = "record" /\ pc'[r] = "write" /\ UNCHANGED <<clean, rc, churn, sure>>
        BY <3>19 DEF Record, Goto, TypeOK, history
      <4>2. CleanRun(r)'
        BY <4>1 DEF CleanRun, Steady
      <4> QED
        BY <3>3, <3>19, <4>2 DEF Record, history, Steps
    <3>20. CASE Write(r)
      BY <3>2, <3>20 DEF Write
    <3>21. CASE RecordFails(r)
      BY <3>2, <3>21 DEF RecordFails
    <3>22. CASE VerifyBlind(r)
      <4>1. Conclude(r, "failed") /\ UNCHANGED <<ends, clean, churn>>
        BY <3>22 DEF VerifyBlind
      <4>2. sure'[r] = FALSE /\ \A q \in Runs \ {r} : sure'[q] = sure[q]
        BY <3>22 DEF VerifyBlind, TypeOK
      <4> QED
        BY <3>1, <4>1, <4>2 DEF Codes
    <3>23. CASE CountBlind(r)
      <4>1. UNCHANGED <<ends, clean, churn>>
        BY <3>23 DEF CountBlind
      <4>2. sure'[r] = FALSE /\ \A q \in Runs \ {r} : sure'[q] = sure[q]
        BY <3>23 DEF CountBlind, TypeOK
      <4>3. CASE srcN[r] > 0
        BY <3>1, <3>23, <4>1, <4>2, <4>3 DEF CountBlind, Codes
      <4>4. CASE ~(srcN[r] > 0)
        <5>1. Goto(r, "capture") /\ UNCHANGED <<rc, newest, todo>>
          BY <3>23, <4>4 DEF CountBlind
        <5>2. pc'[r] = "capture"
          BY <5>1 DEF Goto, TypeOK
        <5>3. CleanRun(r)'
          BY <5>2 DEF CleanRun
        <5> QED
          BY <3>3, <4>1, <4>2, <5>1, <5>3 DEF Steps
      <4> QED
        BY <4>3, <4>4
    <3> QED
      BY <2>4, <3>4, <3>5, <3>6, <3>7, <3>8, <3>9, <3>10, <3>11, <3>12, <3>13, <3>14, <3>15,
         <3>16, <3>17, <3>18, <3>19, <3>20, <3>21, <3>22, <3>23 DEF Step
  <2> QED
    BY <2>1, <2>2, <2>3, <2>4 DEF Next
<1>3. CleanInv => CleanPullPasses
  BY DEF CleanInv, CleanRun, CleanPullPasses
<1> QED
  BY <1>1, <1>2, <1>3, TypeCorrect, PullInvariance, PTL DEF Spec
=============================================================================
