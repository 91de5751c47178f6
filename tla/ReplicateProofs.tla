--------------------------- MODULE ReplicateProofs ---------------------------
(***************************************************************************)
(* What holds of replication for any snapshots, settings, screens and      *)
(* unanswered questions: data of an encrypted source is not left           *)
(* decrypted, a replica in step can be brought up to date, and the dialogs *)
(* say what the target shows.                                              *)
(***************************************************************************)
EXTENDS Replicate, SequenceTheorems, WellFoundedInduction, TLAPS

\* What is, or would be, received opens the source only if that was asked for.
Sealed(part) == setting.encrypted /\ ~part.raw => part.asked

\* A pipeline that is not a resume does so, too.
Honest(p) == p.token = None => (setting.encrypted /\ ~p.raw => p.restore)

\* Every partial receive is sealed, one a token resumes as well, and so is what a
\* pipeline that waits or runs will begin.
SealInv ==
    /\ ~bare
    /\ partial # None => Sealed(partial)
    /\ phase \in {"confirm", "running"} => Honest(plan)
    /\ flow \in {"begun", "moving"} => phase = "running"
    /\ flow = "moving" => Sealed(partial)
-----------------------------------------------------------------------------
(* What is sent in the clear.                                              *)

\* Without raw an encrypted source is sent only for a restore: no answer, or a
\* lost one, makes it plain (replicatePipeline).
LEMMA RawUnlessRestored ==
    ASSUME NEW restore \in BOOLEAN, NEW miss, setting.encrypted, ~Raw(restore, miss)
    PROVE  restore
BY DEF Raw

\* Every pipeline that is built is honest.
LEMMA PipelinesAreHonest ==
    ASSUME NEW s, NEW restore \in BOOLEAN, NEW miss
    PROVE  Honest(ReplicatePipeline(s, restore, miss))
<1>1. CASE partial # None /\ "token" \notin miss
  BY <1>1 DEF Honest, ReplicatePipeline
<1>2. CASE ~(partial # None /\ "token" \notin miss)
  <2>1. /\ ReplicatePipeline(s, restore, miss).raw = Raw(restore, miss)
        /\ ReplicatePipeline(s, restore, miss).restore = restore
    BY <1>2 DEF ReplicatePipeline
  <2> QED
    BY <2>1, RawUnlessRestored DEF Honest
<1> QED
  BY <1>1, <1>2

\* A screen plans a transfer, of a snapshot there is or of a new one, or may not.
LEMMA PicksKeep == ASSUME SealInv, Picks PROVE SealInv'
<1>1. PICK sc \in {"tab", "menu", "tui"}, restore \in BOOLEAN, miss \in MissSets :
          \/ FromSnap(sc, Newest, restore, miss) \/ FromSnap(sc, ToSet(source), restore, miss)
          \/ FromNew(sc, restore, miss) \/ Denied(sc)
  BY DEF Picks, Tab, Menu, Commander
<1>2. UNCHANGED <<setting, partial, bare>>
  BY <1>1 DEF FromSnap, FromNew, Denied, zvars
<1>3. ASSUME NEW s, Planned(sc, s, restore, miss) PROVE SealInv'
  <2>1. /\ plan' = ReplicatePipeline(s, restore, miss)
        /\ phase' \in {"confirm", "running"} /\ flow' = "none"
    BY <1>3 DEF Planned
  <2>2. Honest(plan)'
    BY <1>2, <2>1, PipelinesAreHonest DEF Honest
  <2> QED
    BY <1>2, <2>1, <2>2 DEF SealInv, Sealed
<1>4. CASE Denied(sc)
  BY <1>2, <1>4 DEF Denied, SealInv, Sealed
<1> QED
  BY <1>1, <1>3, <1>4 DEF FromSnap, FromNew

\* What is received is what the pipeline was built for, or what the token stands for.
LEMMA ReceiveKeeps == ASSUME SealInv, Receive PROVE SealInv'
<1>1. /\ flow = "begun" /\ phase = "running" /\ Honest(plan) /\ RecvAccepts(plan)
      /\ partial' = Begun(plan) /\ flow' = "moving"
      /\ UNCHANGED <<setting, bare, phase, plan>>
  BY DEF Receive, SealInv, uvars, dialog
<1>2. Sealed(Begun(plan))
  <2>1. CASE plan.token # None
    BY <1>1, <2>1 DEF Begun, RecvAccepts, SealInv
  <2>2. CASE plan.token = None
    <3>1. Begun(plan).raw = plan.raw /\ Begun(plan).asked = plan.restore
      BY <2>2 DEF Begun
    <3> QED
      BY <1>1, <2>2, <3>1 DEF Honest, Sealed
  <2> QED
    BY <2>1, <2>2
<1>3. Sealed(partial)'
  BY <1>1, <1>2 DEF Sealed
<1> QED
  BY <1>1, <1>3 DEF SealInv, Honest

\* Every partial, and everything a pipeline will begin, is sealed.
THEOREM SealInvariance == Spec => []SealInv
<1>1. Init => SealInv
  BY DEF Init, SealInv
<1>2. SealInv /\ [Next]_vars => SealInv'
  <2> SUFFICES ASSUME SealInv, [Next]_vars PROVE SealInv'
    OBVIOUS
  <2>1. CASE UNCHANGED vars
    BY <2>1 DEF vars, zvars, uvars, dialog, SealInv, Sealed, Honest
  <2>2. CASE World
    BY <2>2 DEF World, uvars, dialog, SealInv, Sealed, Honest
  <2>3. CASE Confirm \/ Launch \/ TapCancel
    BY <2>3 DEF Confirm, Launch, TapCancel, zvars, SealInv, Sealed, Honest
  <2>4. CASE Refuse \/ Break \/ Kill
    BY <2>4 DEF Refuse, Break, Kill, zvars, uvars, dialog, SealInv, Sealed, Honest
  <2>5. CASE Finish
    BY <2>5 DEF Finish, uvars, dialog, SealInv, Sealed, Honest
  <2>6. CASE Close \/ Dismiss
    BY <2>6 DEF Close, Dismiss, Cleared, zvars, dialog, SealInv, Sealed, Honest
  <2>7. CASE Discard \/ Grant
    BY <2>7 DEF Discard, Grant, Cleared, dialog, SealInv, Sealed, Honest
  <2> QED
    BY <2>1, <2>2, <2>3, <2>4, <2>5, <2>6, <2>7, PicksKeep, ReceiveKeeps DEF Next
<1> QED
  BY <1>1, <1>2, PTL DEF Spec

\* Data of an encrypted source lies decrypted on the target only when the operator
\* asked to restore that snapshot, whatever went unanswered or is resumed.
THEOREM NothingIsBared == Spec => []BareOnlyByRestore
<1>1. SealInv => BareOnlyByRestore
  BY DEF SealInv, BareOnlyByRestore
<1> QED
  BY <1>1, SealInvariance, PTL
-----------------------------------------------------------------------------
(* The chain of snapshots.                                                 *)

Ordered(snaps) == \A i, j \in DOMAIN snaps : i < j => snaps[i].id < snaps[j].id
Distinct(snaps) == \A i, j \in DOMAIN snaps : snaps[i].name = snaps[j].name => i = j
UpTo(snaps, n) == \A i \in DOMAIN snaps : snaps[i].id <= n

Receipt == [snap : Snap, raw : BOOLEAN, asked : BOOLEAN, base : 0 .. MaxId]

\* A receive that has begun: its snapshot is younger than all the target has, and
\* it makes a target of its own, or adds to one that has its owner, in the clear
\* only where the key of what came raw is loaded.
Fits(part) ==
    /\ part \in Receipt /\ part.snap.id <= ids
    /\ UpTo(target, part.snap.id - 1)
    /\ setting.under /\ part.base # 0 => owner # None
    /\ ~part.raw /\ part.base # 0 /\ owner = "source" => setting.opened

\* The source holds its snapshots in order, under distinct names.
SourceOk ==
    /\ ids \in 0 .. MaxId
    /\ source \in Seq(Snap) /\ Ordered(source) /\ Distinct(source) /\ UpTo(source, ids)
    /\ marks \in Seq(Snap) /\ Len(marks) <= 1

\* The target holds its own in order, what it is receiving is younger, and below an
\* encrypted parent it is itself encrypted.  With the source's key it came raw, but
\* for what was added where that key is loaded.
TargetOk ==
    /\ target \in Seq(Snap) /\ Ordered(target) /\ UpTo(target, ids)
    /\ target # <<>> => there
    /\ flow = "moving" => there /\ partial # None
    /\ partial # None => Fits(partial)
    /\ there /\ partial = None /\ setting.under => owner # None
    /\ sealed \in BOOLEAN
    /\ owner = "source" => setting.encrypted /\ (sealed \/ setting.opened)

\* A pipeline that is not a resume says whether it is raw, and a restore.
PlanOk ==
    phase \in {"confirm", "running"} /\ plan.token = None =>
        plan.raw \in BOOLEAN /\ plan.restore \in BOOLEAN

ChainInv == SourceOk /\ TargetOk /\ PlanOk

\* A set of natural numbers that is not empty has a least one: what stands in for
\* an induction here.
LEMMA LeastOf == ASSUME NEW S \in SUBSET Nat, S # {} PROVE \E x \in S : \A y \in S : x <= y
<1> DEFINE R == OpToRel(<, Nat)
<1>1. PICK x \in S : \A y \in S : ~ (<<y, x>> \in R)
  <2>1. IsWellFoundedOn(R, Nat)
    BY NatLessThanWellFounded
  <2> HIDE DEF R
  <2> QED
    BY <2>1, WFMin
<1>2. ASSUME NEW y \in S PROVE x <= y
  <2>1. ~ (y < x)
    BY <1>1 DEF OpToRel
  <2> QED
    BY <2>1
<1> QED
  BY <1>2

\* A set of places in a sequence that is not empty has a last one.
LEMMA LastPlace ==
    ASSUME NEW n \in Nat, NEW S \in SUBSET (1 .. n), S # {}
    PROVE  Max(S) \in S /\ \A y \in S : y <= Max(S)
<1> DEFINE T == {i \in 0 .. n : \A y \in S : y <= i}
<1>1. PICK t \in T : \A u \in T : t <= u
  <2>1. n \in T /\ T \in SUBSET Nat
    OBVIOUS
  <2> HIDE DEF T
  <2> QED
    BY <2>1, LeastOf
<1>2. t \in S
  <2> SUFFICES ASSUME t \notin S PROVE FALSE
    OBVIOUS
  <2>1. PICK y \in S : TRUE
    OBVIOUS
  <2>2. t - 1 \in T
    BY <2>1
  <2> QED
    BY <1>1, <2>2
<1>3. \A y \in S : t >= y
  BY <1>1
<1> QED
  BY <1>2, <1>3 DEF Max

\* A snapshot younger than the others is added at the end.
LEMMA AppendInOrder ==
    ASSUME NEW s \in Seq(Snap), NEW x \in Snap, NEW n \in Int,
           Ordered(s), UpTo(s, n), n < x.id
    PROVE  /\ Append(s, x) \in Seq(Snap) /\ Ordered(Append(s, x)) /\ UpTo(Append(s, x), x.id)
           /\ Append(s, x) # <<>>
<1>1. /\ Append(s, x) \in Seq(Snap) /\ Len(Append(s, x)) = Len(s) + 1
      /\ \A i \in 1 .. Len(s) : Append(s, x)[i] = s[i]
      /\ Append(s, x)[Len(s) + 1] = x
  OBVIOUS
<1> DEFINE a == Append(s, x)
<1>2. DOMAIN a = 1 .. (Len(s) + 1) /\ DOMAIN s = 1 .. Len(s) /\ Len(s) \in Nat
  BY <1>1
<1>3. \A i \in 1 .. Len(s) : a[i].id \in Int /\ a[i].id <= n
  <2>1. \A y \in Snap : y.id \in Int
    BY ReplicateAssumption DEF Snap
  <2> QED
    BY <1>1, <1>2, <2>1 DEF UpTo
<1>4. x.id \in Int
  BY ReplicateAssumption DEF Snap
<1> HIDE DEF a
<1>5. ASSUME NEW i \in DOMAIN a, NEW j \in DOMAIN a, i < j PROVE a[i].id < a[j].id
  <2>1. CASE j = Len(s) + 1
    <3>1. i \in 1 .. Len(s)
      BY <1>2, <1>5, <2>1
    <3> QED
      BY <1>1, <1>3, <1>4, <2>1, <3>1 DEF a
  <2>2. CASE j # Len(s) + 1
    <3>1. i \in 1 .. Len(s) /\ j \in 1 .. Len(s)
      BY <1>2, <1>5, <2>2
    <3> QED
      BY <1>1, <1>2, <1>5, <3>1 DEF a, Ordered
  <2> QED
    BY <2>1, <2>2
<1>6. ASSUME NEW i \in DOMAIN a PROVE a[i].id <= x.id
  BY <1>1, <1>2, <1>3, <1>4 DEF a
<1> QED
  BY <1>1, <1>5, <1>6 DEF a, Ordered, UpTo

\* A snapshot is pruned: what stays is in order, with the names it had.
LEMMA RemoveInOrder ==
    ASSUME NEW s \in Seq(Snap), NEW k \in DOMAIN s, Ordered(s)
    PROVE  /\ RemoveAt(s, k) \in Seq(Snap) /\ Ordered(RemoveAt(s, k))
           /\ Distinct(s) => Distinct(RemoveAt(s, k))
           /\ \A n \in Int : UpTo(s, n) => UpTo(RemoveAt(s, k), n)
<1> DEFINE a == RemoveAt(s, k)
<1>1. k \in 1 .. Len(s) /\ Len(s) \in Nat /\ DOMAIN s = 1 .. Len(s)
  OBVIOUS
<1>2. /\ a \in Seq(Snap) /\ Len(a) = Len(s) - 1
      /\ \A i \in 1 .. Len(a) : a[i] = IF i < k THEN s[i] ELSE s[i + 1]
  <2> DEFINE l == SubSeq(s, 1, k - 1)
             r == SubSeq(s, k + 1, Len(s))
  <2>1. /\ l \in Seq(Snap) /\ Len(l) = k - 1 /\ \A i \in 1 .. (k - 1) : l[i] = s[i]
    BY <1>1, SubSeqProperties
  <2>2. /\ r \in Seq(Snap) /\ Len(r) = Len(s) - k /\ \A i \in 1 .. (Len(s) - k) : r[i] = s[i + k]
    BY <1>1, SubSeqProperties
  <2>3. a = l \o r
    BY DEF RemoveAt
  <2> HIDE DEF l, r, a
  <2>4. /\ a \in Seq(Snap) /\ Len(a) = Len(l) + Len(r)
        /\ \A i \in 1 .. Len(l) + Len(r) : a[i] = IF i <= Len(l) THEN l[i] ELSE r[i - Len(l)]
    BY <2>1, <2>2, <2>3, ConcatProperties
  <2>5. ASSUME NEW i \in 1 .. Len(a) PROVE a[i] = IF i < k THEN s[i] ELSE s[i + 1]
    <3>1. CASE i < k
      BY <1>1, <2>1, <2>2, <2>4, <3>1
    <3>2. CASE ~(i < k)
      <4>1. i - (k - 1) \in 1 .. (Len(s) - k) /\ i - (k - 1) + k = i + 1
        BY <1>1, <2>1, <2>2, <2>4, <3>2, SMTT(20)
      <4>2. a[i] = r[i - (k - 1)]
        BY <1>1, <2>1, <2>2, <2>4, <3>2, <4>1, SMTT(20)
      <4> QED
        BY <2>2, <3>2, <4>1, <4>2
    <3> QED
      BY <3>1, <3>2
  <2> QED
    BY <1>1, <2>1, <2>2, <2>4, <2>5
<1> DEFINE old(i) == IF i < k THEN i ELSE i + 1
<1> HIDE DEF a
<1>3. DOMAIN a = 1 .. Len(a)
  BY <1>2
<1>4. \A i \in DOMAIN a : old(i) \in DOMAIN s /\ a[i] = s[old(i)]
  BY <1>1, <1>2, <1>3
<1>5. \A i, j \in DOMAIN a : i < j => old(i) < old(j)
  BY <1>1, <1>3
<1>6. \A i, j \in DOMAIN a : old(i) = old(j) => i = j
  BY <1>1, <1>3
<1> HIDE DEF old
<1>7. Ordered(a)
  BY <1>4, <1>5 DEF Ordered
<1>8. Distinct(s) => Distinct(a)
  BY <1>4, <1>6 DEF Distinct
<1>9. \A n \in Int : UpTo(s, n) => UpTo(a, n)
  BY <1>4 DEF UpTo
<1> QED
  BY <1>2, <1>7, <1>8, <1>9 DEF a

\* The oldest snapshot is pruned.
LEMMA TailInOrder ==
    ASSUME NEW s \in Seq(Snap), s # <<>>, Ordered(s)
    PROVE  /\ Tail(s) \in Seq(Snap) /\ Ordered(Tail(s))
           /\ \A n \in Int : UpTo(s, n) => UpTo(Tail(s), n)
<1> DEFINE a == Tail(s)
<1>1. /\ a \in Seq(Snap) /\ Len(a) = Len(s) - 1 /\ Len(s) \in Nat /\ DOMAIN s = 1 .. Len(s)
      /\ \A i \in 1 .. Len(a) : a[i] = s[i + 1]
  OBVIOUS
<1> HIDE DEF a
<1>2. DOMAIN a = 1 .. Len(a)
  BY <1>1
<1>3. \A i \in DOMAIN a : i + 1 \in DOMAIN s /\ a[i] = s[i + 1]
  BY <1>1, <1>2
<1>4. Ordered(a)
  BY <1>1, <1>2, <1>3 DEF Ordered
<1>5. \A n \in Int : UpTo(s, n) => UpTo(a, n)
  BY <1>3 DEF UpTo
<1> QED
  BY <1>1, <1>4, <1>5 DEF a

\* The numbers of snapshots are integers.
LEMMA SnapIds == \A s \in Snap : s.id \in 1 .. MaxId /\ s.name \in Names /\ MaxId \in Nat
BY ReplicateAssumption DEF Snap

\* A snapshot that is taken is the youngest, under a name that is not in use.
LEMMA FreshIsYoungest ==
    ASSUME SourceOk, NEW seq, NEW s \in Fresh(seq)
    PROVE  /\ s \in Snap /\ s.id = ids + 1 /\ ids + 1 \in 0 .. MaxId /\ ids \in Nat
           /\ \A i \in DOMAIN seq : seq[i].name # s.name
<1>1. ids \in 0 .. MaxId /\ MaxId \in Nat
  BY ReplicateAssumption DEF SourceOk
<1>2. ids < MaxId /\ s \in [name : Names \ {t.name : t \in ToSet(seq)}, id : {ids + 1}]
  BY DEF Fresh
<1>3. s.name \notin {t.name : t \in ToSet(seq)}
  BY <1>2
<1>4. \A i \in DOMAIN seq : seq[i] \in ToSet(seq)
  BY DEF ToSet
<1>5. s \in Snap
  BY <1>1, <1>2 DEF Snap
<1> QED
  BY <1>1, <1>2, <1>3, <1>4, <1>5

\* What neither end sees keeps both as they are.
LEMMA TargetStays ==
    ASSUME TargetOk, ids \in Int, ids' \in Int, ids <= ids',
           UNCHANGED <<setting, target, there, partial, owner, sealed>>,
           flow' = "moving" => flow = "moving"
    PROVE  TargetOk'
<1>1. \A n, m \in Int : n <= m /\ UpTo(target, n) => UpTo(target, m)
  BY SnapIds DEF TargetOk, UpTo
<1>2. partial # None => Fits(partial)'
  BY SnapIds DEF TargetOk, Fits, Receipt
<1> QED
  BY <1>1, <1>2 DEF TargetOk

\* A snapshot of the source leaves it in order.
LEMMA SourceGrows ==
    ASSUME SourceOk, NEW s \in Fresh(source), source' = Append(source, s), ids' = ids + 1,
           UNCHANGED marks
    PROVE  SourceOk'
<1>1. /\ s \in Snap /\ s.id = ids + 1 /\ ids + 1 \in 0 .. MaxId /\ ids \in Nat
      /\ \A i \in DOMAIN source : source[i].name # s.name
  BY FreshIsYoungest
<1>2. source' \in Seq(Snap) /\ Ordered(source)' /\ UpTo(source, ids)'
  BY <1>1, AppendInOrder, SMTT(20) DEF SourceOk, Ordered, UpTo
<1>3. Distinct(source)'
  <2>1. /\ DOMAIN source = 1 .. Len(source) /\ DOMAIN source' = 1 .. (Len(source) + 1)
        /\ Len(source) \in Nat /\ source'[Len(source) + 1] = s
        /\ \A i \in 1 .. Len(source) : source'[i] = source[i]
    BY <1>1 DEF SourceOk
  <2> QED
    BY <1>1, <2>1 DEF SourceOk, Distinct
<1> QED
  BY <1>1, <1>2, <1>3 DEF SourceOk

\* Both ends change between the question and the pipeline, and stay in order.
LEMMA WorldKeepsChain == ASSUME ChainInv, World PROVE ChainInv'
<1>1. /\ UNCHANGED <<setting, there, partial, owner, sealed, phase, plan, flow>>
      /\ ids \in Nat
  BY ReplicateAssumption DEF World, uvars, dialog, ChainInv, SourceOk
<1>2. PlanOk'
  BY <1>1 DEF ChainInv, PlanOk
<1>3. ASSUME NEW s \in Fresh(source), source' = Append(source, s), ids' = ids + 1,
             UNCHANGED <<target, marks>>
      PROVE  SourceOk' /\ TargetOk'
  <2>1. SourceOk'
    BY <1>3, SourceGrows DEF ChainInv
  <2>2. ids \in Int /\ ids' \in Int /\ ids <= ids'
    BY <1>1, <1>3
  <2> QED
    BY <1>1, <1>3, <2>1, <2>2, TargetStays DEF ChainInv
<1>4. ASSUME there, partial = None, NEW s \in Fresh(target), target' = Append(target, s), ids' = ids + 1,
             UNCHANGED <<source, marks>>
      PROVE  SourceOk' /\ TargetOk'
  <2>1. s \in Snap /\ s.id = ids + 1 /\ ids + 1 \in 0 .. MaxId /\ ids \in Nat
    BY FreshIsYoungest DEF ChainInv
  <2>2. SourceOk'
    BY <1>4, <2>1, SnapIds DEF ChainInv, SourceOk, UpTo, Ordered, Distinct
  <2>3. target' \in Seq(Snap) /\ Ordered(target)' /\ UpTo(target, ids)'
    BY <1>4, <2>1, AppendInOrder DEF ChainInv, TargetOk, Ordered, UpTo
  <2>4. TargetOk'
    <3>1. /\ there' /\ partial' = None /\ flow # "moving" /\ (setting'.under => owner' # None)
          /\ sealed' \in BOOLEAN /\ (owner' = "source" => setting'.encrypted /\ (sealed' \/ setting'.opened))
      BY <1>1, <1>4 DEF ChainInv, TargetOk
    <3> QED
      BY <1>1, <2>3, <3>1 DEF TargetOk
  <2> QED
    BY <2>2, <2>4
<1>5. ASSUME NEW i \in DOMAIN source, source' = RemoveAt(source, i), UNCHANGED <<target, ids, marks>>
      PROVE  SourceOk' /\ TargetOk'
  <2>1. /\ source' \in Seq(Snap) /\ Ordered(source') /\ Distinct(source') /\ UpTo(source', ids)
    BY <1>1, <1>5, RemoveInOrder DEF ChainInv, SourceOk
  <2>2. Ordered(source)' /\ Distinct(source)' /\ UpTo(source, ids)'
    BY <1>5, <2>1 DEF Ordered, Distinct, UpTo
  <2> QED
    BY <1>1, <1>5, <2>1, <2>2, TargetStays DEF ChainInv, SourceOk
<1>6. ASSUME target # <<>>, target' = Tail(target), UNCHANGED <<source, ids, marks>>
      PROVE  SourceOk' /\ TargetOk'
  <2>1. /\ target' \in Seq(Snap) /\ Ordered(target)'
        /\ \A n \in Int : UpTo(target, n) => UpTo(target', n)
    BY <1>6, TailInOrder DEF ChainInv, TargetOk, Ordered, UpTo
  <2>2. partial # None => Fits(partial)'
    BY <1>1, <1>6, <2>1, SnapIds DEF ChainInv, TargetOk, Fits, Receipt, UpTo
  <2>3. UpTo(target, ids)'
    BY <1>1, <1>6, <2>1 DEF ChainInv, TargetOk, UpTo
  <2> QED
    BY <1>1, <1>6, <2>1, <2>2, <2>3 DEF ChainInv, TargetOk, SourceOk, UpTo, Ordered, Distinct
<1>7. ASSUME marks = <<>>, NEW s \in ToSet(source), marks' = Append(marks, s), UNCHANGED <<ids, source, target>>
      PROVE  SourceOk' /\ TargetOk'
  <2>1. s \in Snap
    BY DEF ChainInv, SourceOk, ToSet
  <2>2. marks' \in Seq(Snap) /\ Len(marks') <= 1
    BY <1>7, <2>1
  <2> QED
    BY <1>1, <1>7, <2>2, TargetStays DEF ChainInv, SourceOk, Ordered, UpTo, Distinct
<1> QED
  BY <1>2, <1>3, <1>4, <1>5, <1>6, <1>7 DEF World, ChainInv

\* A screen plans a transfer, of a snapshot there is or of a new one.
LEMMA PicksKeepChain == ASSUME ChainInv, Picks PROVE ChainInv'
<1>1. PICK sc \in {"tab", "menu", "tui"}, restore \in BOOLEAN, miss \in MissSets :
          \/ FromSnap(sc, Newest, restore, miss) \/ FromSnap(sc, ToSet(source), restore, miss)
          \/ FromNew(sc, restore, miss) \/ Denied(sc)
  BY DEF Picks, Tab, Menu, Commander
<1>2. /\ UNCHANGED <<setting, target, there, partial, owner, sealed, marks>> /\ flow' \in {"none", "broken"}
      /\ ids \in Nat
  BY <1>1, ReplicateAssumption DEF FromSnap, FromNew, Denied, Planned, zvars, ChainInv, SourceOk
<1>3. SourceOk' /\ TargetOk'
  <2>1. CASE UNCHANGED <<source, ids>>
    BY <1>2, <2>1, TargetStays DEF ChainInv, SourceOk, Ordered, UpTo, Distinct
  <2>2. ASSUME NEW s \in Fresh(source), source' = Append(source, s), ids' = ids + 1
        PROVE  SourceOk' /\ TargetOk'
    BY <1>2, <2>2, SourceGrows, TargetStays DEF ChainInv
  <2> QED
    BY <1>1, <2>1, <2>2 DEF FromSnap, FromNew, Denied, zvars
<1>4. PlanOk'
  <2>1. ASSUME NEW s, Planned(sc, s, restore, miss) PROVE PlanOk'
    BY <2>1 DEF Planned, PlanOk, ReplicatePipeline, Raw
  <2>2. CASE Denied(sc)
    BY <2>2 DEF Denied, PlanOk
  <2> QED
    BY <1>1, <2>1, <2>2 DEF FromSnap, FromNew
<1> QED
  BY <1>3, <1>4 DEF ChainInv

\* What a base may mean on the source is a snapshot.
LEMMA MeaningIsSnap == ASSUME SourceOk, NEW b, NEW s \in Meaning(b) PROVE s \in Snap
<1>1. s \in ToSet(marks) \/ s \in ToSet(source)
  BY DEF Meaning
<1> QED
  BY <1>1 DEF SourceOk, ToSet

\* There is one snapshot, or bookmark, of a name.
LEMMA MeaningIsOne ==
    ASSUME SourceOk, NEW b, NEW s \in Meaning(b), NEW t \in Meaning(b)
    PROVE  s = t
<1>1. CASE b.mark
  BY <1>1 DEF SourceOk, Meaning, ToSet
<1>2. CASE ~b.mark
  BY <1>2 DEF SourceOk, Meaning, ToSet, Distinct
<1> QED
  BY <1>1, <1>2

\* A receive begins on what the target has, and is younger.
LEMMA ReceiveKeepsChain == ASSUME ChainInv, SealInv, Receive PROVE ChainInv'
<1>1. /\ flow = "begun" /\ phase = "running" /\ SendAccepts(plan) /\ RecvAccepts(plan)
      /\ there' = TRUE /\ partial' = Begun(plan) /\ flow' = "moving"
      /\ UNCHANGED <<setting, source, marks, target, owner, sealed, ids, phase, plan>>
      /\ ids \in Nat
  BY ReplicateAssumption DEF Receive, SealInv, uvars, dialog, ChainInv, SourceOk
<1>2. SourceOk' /\ PlanOk'
  BY <1>1 DEF ChainInv, SourceOk, PlanOk, Ordered, UpTo, Distinct
<1>3. partial' # None /\ Fits(partial)'
  <2>1. CASE plan.token # None
    <3>1. partial' = partial /\ partial # None
      BY <1>1, <2>1 DEF RecvAccepts, Begun
    <3> QED
      BY <1>1, <3>1 DEF ChainInv, TargetOk, Fits, UpTo
  <2>2. CASE plan.token = None
    <3> DEFINE base == (CHOOSE s \in Meaning(plan.base) : TRUE).id
    <3>1. /\ plan.raw \in BOOLEAN /\ plan.restore \in BOOLEAN
          /\ plan.snap \in ToSet(source) /\ partial = None
      BY <1>1, <2>2 DEF SendAccepts, RecvAccepts, ChainInv, PlanOk
    <3>2. plan.snap \in Snap /\ plan.snap.id <= ids
      BY <3>1 DEF ChainInv, SourceOk, ToSet, UpTo
    <3>3. CASE plan.base = None
      <4>1. /\ target = <<>>
            /\ partial' = [snap |-> plan.snap, raw |-> plan.raw, asked |-> plan.restore, base |-> 0]
        BY <1>1, <2>2, <3>3 DEF RecvAccepts, Begun
      <4>2. partial' \in Receipt
        BY <3>1, <3>2, <4>1, ReplicateAssumption DEF Receipt
      <4> QED
        BY <1>1, <3>2, <4>1, <4>2, ReplicateAssumption DEF Fits, UpTo, Receipt
    <3>4. CASE plan.base # None
      <4>1. PICK s \in Meaning(plan.base) : s.id < plan.snap.id
        BY <1>1, <2>2, <3>4 DEF SendAccepts
      <4>2. /\ target # <<>>
            /\ \E t \in Meaning(plan.base) : Last(target).id = t.id
        BY <1>1, <2>2, <3>4 DEF RecvAccepts
      <4>3. Last(target).id = s.id /\ base = s.id /\ s \in Snap
        BY <4>1, <4>2, MeaningIsOne, MeaningIsSnap DEF ChainInv
      <4>4. partial' = [snap |-> plan.snap, raw |-> plan.raw, asked |-> plan.restore, base |-> s.id]
        BY <1>1, <2>2, <3>4, <4>3 DEF Begun
      <4>5. partial' \in Receipt
        BY <3>1, <3>2, <4>3, <4>4, SnapIds DEF Receipt
      <4>6. UpTo(target, plan.snap.id - 1)
        <5>1. ASSUME NEW i \in DOMAIN target PROVE target[i].id <= s.id
          <6>1. /\ Len(target) \in DOMAIN target /\ target[i] \in Snap /\ target[Len(target)] \in Snap
                /\ i <= Len(target)
            BY <4>2 DEF ChainInv, TargetOk
          <6>2. i < Len(target) => target[i].id < target[Len(target)].id
            BY <6>1 DEF ChainInv, TargetOk, Ordered
          <6>3. target[Len(target)].id = s.id
            BY <4>3 DEF Last
          <6>4. i < Len(target) \/ i = Len(target)
            BY <6>1 DEF ChainInv, TargetOk
          <6> QED
            BY <6>1, <6>2, <6>3, <6>4, SnapIds
        <5>2. \A i \in DOMAIN target : target[i] \in Snap
          BY DEF ChainInv, TargetOk
        <5> QED
          BY <3>2, <4>1, <4>3, <5>1, <5>2, SnapIds DEF UpTo
      <4>7. setting.under => owner # None
        BY <3>1, <4>2 DEF ChainInv, TargetOk
      <4>8. ~plan.raw /\ owner = "source" => setting.opened
        BY <1>1, <2>2, <3>4 DEF RecvAccepts, Mixes
      <4> QED
        BY <1>1, <3>2, <4>4, <4>5, <4>6, <4>7, <4>8, ReplicateAssumption DEF Fits, UpTo, Receipt
    <3> QED
      BY <3>3, <3>4
  <2> QED
    BY <2>1, <2>2
<1>4. TargetOk'
  BY <1>1, <1>3 DEF ChainInv, TargetOk, Ordered, UpTo
<1> QED
  BY <1>2, <1>4 DEF ChainInv

\* The stream that ends adds its snapshot, and settles whose key opens the target.
LEMMA FinishKeepsChain == ASSUME ChainInv, Finish PROVE ChainInv'
<1>1. /\ flow = "moving" /\ flow' = "ok" /\ partial # None /\ Fits(partial) /\ there
      /\ target' = Append(target, partial.snap)
      /\ owner' = IF partial.base = 0 THEN OwnerOf(partial) ELSE owner
      /\ partial' = None /\ sealed' = (partial.raw /\ setting.encrypted)
      /\ UNCHANGED <<setting, source, marks, there, ids, phase, plan>>
  BY DEF Finish, uvars, dialog, ChainInv, TargetOk
<1>2. SourceOk' /\ PlanOk'
  BY <1>1 DEF ChainInv, SourceOk, PlanOk, Ordered, UpTo, Distinct
<1>3. partial.snap \in Snap /\ partial.snap.id \in Int /\ partial.snap.id <= ids /\ ids \in Int
  BY <1>1, SnapIds DEF Fits, Receipt, ChainInv, SourceOk
<1>4. /\ target' \in Seq(Snap) /\ Ordered(target)' /\ UpTo(target', partial.snap.id)
  BY <1>1, <1>3, AppendInOrder, SMTT(30) DEF ChainInv, TargetOk, Fits, Ordered
<1>5. UpTo(target, ids)'
  <2>1. \A i \in DOMAIN target' : target'[i].id \in Int
    BY <1>4, SnapIds
  <2> QED
    BY <1>1, <1>3, <1>4, <2>1 DEF UpTo
<1>6. setting.under => owner' # None
  BY <1>1, ReplicateAssumption DEF Fits, OwnerOf, Ends
<1>7. sealed' \in BOOLEAN
  BY <1>1
<1>8. owner' = "source" => setting'.encrypted /\ (sealed' \/ setting'.opened)
  <2>1. CASE partial.base = 0
    BY <1>1, <2>1, ReplicateAssumption DEF OwnerOf, Ends
  <2>2. CASE partial.base # 0
    <3>1. /\ owner' = owner /\ (owner = "source" => setting.encrypted)
          /\ ~partial.raw /\ owner = "source" => setting.opened
      BY <1>1, <2>2 DEF ChainInv, TargetOk, Fits
    <3> QED
      BY <1>1, <3>1
  <2> QED
    BY <2>1, <2>2
<1> QED
  BY <1>1, <1>2, <1>4, <1>5, <1>6, <1>7, <1>8 DEF ChainInv, TargetOk

\* Both ends keep their order, and a target below an encrypted parent its owner.
THEOREM ChainInvariance == Spec => []ChainInv
<1>0. None # "source"
  BY ReplicateAssumption DEF Ends
<1>1. Init => ChainInv
  <2> SUFFICES ASSUME Init PROVE ChainInv
    OBVIOUS
  <2>1. sealed \in BOOLEAN /\ owner # "source" /\ ~there /\ partial = None /\ flow # "moving"
    BY <1>0 DEF Init
  <2>2. SourceOk /\ PlanOk
    BY ReplicateAssumption DEF Init, SourceOk, PlanOk, Ordered, Distinct, UpTo
  <2>3. target \in Seq(Snap) /\ Ordered(target) /\ UpTo(target, ids) /\ target = <<>>
    BY DEF Init, Ordered, UpTo
  <2> QED
    BY <2>1, <2>2, <2>3 DEF ChainInv, TargetOk
<1>2. ChainInv /\ SealInv /\ [Next]_vars => ChainInv'
  <2> SUFFICES ASSUME ChainInv, SealInv, [Next]_vars PROVE ChainInv'
    OBVIOUS
  <2>1. ASSUME UNCHANGED <<setting, source, marks, target, there, partial, owner, sealed, ids>>,
               flow' = "moving" => flow = "moving", PlanOk'
        PROVE  ChainInv'
    <3>1. SourceOk' /\ ids \in Int
      BY <2>1 DEF ChainInv, SourceOk, Ordered, UpTo, Distinct
    <3> QED
      BY <2>1, <3>1, TargetStays DEF ChainInv
  <2>2. CASE UNCHANGED vars
    <3>1. PlanOk'
      BY <2>2 DEF vars, uvars, dialog, ChainInv, PlanOk
    <3> QED
      BY <2>1, <2>2, <3>1 DEF vars, zvars
  <2>3. CASE Confirm \/ Launch \/ TapCancel
    <3>1. PlanOk'
      BY <2>3 DEF Confirm, Launch, TapCancel, ChainInv, PlanOk
    <3> QED
      BY <2>1, <2>3, <3>1 DEF Confirm, Launch, TapCancel, zvars
  <2>4. CASE Refuse \/ Break \/ Kill
    <3>1. PlanOk'
      BY <2>4 DEF Refuse, Break, Kill, uvars, dialog, ChainInv, PlanOk
    <3> QED
      BY <2>1, <2>4, <3>1 DEF Refuse, Break, Kill, zvars
  <2>5. CASE Close \/ Dismiss
    <3>1. PlanOk'
      BY <2>5 DEF Close, Dismiss, PlanOk
    <3> QED
      BY <2>1, <2>5, <3>1 DEF Close, Dismiss, Cleared, zvars
  <2>6. CASE Grant
    <3>1. PlanOk'
      BY <2>6 DEF Grant, PlanOk
    <3> QED
      BY <2>1, <2>6, <3>1 DEF Grant, Cleared
  <2>7. CASE Discard
    <3>1. SourceOk' /\ PlanOk'
      BY <2>7 DEF Discard, ChainInv, SourceOk, PlanOk, Ordered, UpTo, Distinct
    <3>2. TargetOk'
      <4>1. sealed' \in BOOLEAN /\ owner' # "source" /\ ~there' /\ partial' = None /\ flow' # "moving"
        BY <1>0, <2>7 DEF Discard, Cleared
      <4>2. target' \in Seq(Snap) /\ Ordered(target)' /\ UpTo(target, ids)' /\ target' = <<>>
        BY <2>7 DEF Discard, Ordered, UpTo
      <4> QED
        BY <4>1, <4>2 DEF TargetOk
    <3> QED
      BY <3>1, <3>2 DEF ChainInv
  <2> QED
    BY <2>2, <2>3, <2>4, <2>5, <2>6, <2>7, WorldKeepsChain, PicksKeepChain, ReceiveKeepsChain,
       FinishKeepsChain DEF Next
<1> QED
  BY <1>1, <1>2, SealInvariance, PTL DEF Spec

\* A replica that goes with its source has a base on it, and it is the newest
\* snapshot of the replica, or a bookmark of that.
LEMMA BaseIsTheNewest ==
    ASSUME ChainInv, InStep, target # <<>>
    PROVE  /\ IncrementalBase({}) # None
           /\ \E s \in Meaning(IncrementalBase({})) : s.id = Last(target).id /\ s \in Snap
<1> DEFINE have == {s.name : s \in ToSet(target)}
           common == {i \in DOMAIN source : source[i].name \in have}
           marked == {i \in DOMAIN marks : marks[i].name \in have}
           n == Len(target)
<1>1. /\ n \in DOMAIN target /\ n \in Nat /\ DOMAIN target = 1 .. n /\ Last(target) = target[n]
      /\ target[n] \in ToSet(target) /\ target[n] \in Snap /\ target[n].name \in have
  BY DEF ChainInv, TargetOk, ToSet, Last
<1>2. IncrementalBase({}) = IF common # {} THEN [name |-> source[Max(common)].name, mark |-> FALSE]
                            ELSE IF marked # {} THEN [name |-> marks[Max(marked)].name, mark |-> TRUE]
                            ELSE None
  BY DEF IncrementalBase
<1>3. ASSUME NEW s \in ToSet(source) \cup ToSet(marks), s.name \in have
      PROVE  s \in ToSet(target) /\ s.id <= target[n].id
  <2>1. PICK t \in ToSet(target) : t.name = s.name
    BY <1>3
  <2>2. s = t
    BY <2>1 DEF InStep
  <2>3. PICK j \in DOMAIN target : target[j] = t
    BY DEF ToSet
  <2>4. target[j].id <= target[n].id
    <3>1. j = n \/ j < n
      BY <1>1
    <3>2. j < n => target[j].id < target[n].id
      BY <1>1 DEF ChainInv, TargetOk, Ordered
    <3>3. target[j] \in Snap
      BY DEF ChainInv, TargetOk
    <3> QED
      BY <1>1, <3>1, <3>2, <3>3, SnapIds
  <2> QED
    BY <2>2, <2>3, <2>4
<1>4. CASE target[n] \in ToSet(source)
  <2>1. PICK k \in DOMAIN source : source[k] = target[n]
    BY <1>4 DEF ToSet
  <2>2. k \in common /\ common \in SUBSET (1 .. Len(source)) /\ Len(source) \in Nat
    BY <1>1, <2>1 DEF ChainInv, SourceOk
  <2> DEFINE m == Max(common)
  <2>3. m \in common /\ k <= m
    <3> HIDE DEF common
    <3> QED
      BY <2>2, LastPlace
  <2>4. /\ m \in DOMAIN source /\ source[m].name \in have /\ source[m] \in ToSet(source)
        /\ source[m] \in Snap
    <3>1. m \in DOMAIN source /\ source[m].name \in have
      BY <2>3
    <3> HIDE DEF m, have
    <3> QED
      BY <3>1 DEF ToSet, ChainInv, SourceOk
  <2>5. source[k].id <= source[m].id
    <3>1. k = m \/ k < m
      BY <2>2, <2>3
    <3>2. k < m => source[k].id < source[m].id
      BY <2>4 DEF ChainInv, SourceOk, Ordered
    <3> QED
      BY <2>4, <3>1, <3>2, <2>1, <1>1, SnapIds
  <2>6. source[m].id = target[n].id
    BY <1>1, <1>3, <2>1, <2>4, <2>5, SnapIds
  <2>7. IncrementalBase({}) = [name |-> source[m].name, mark |-> FALSE]
    BY <1>2, <2>2
  <2>8. source[m] \in Meaning(IncrementalBase({}))
    BY <2>4, <2>7 DEF Meaning
  <2>9. IncrementalBase({}) # None
    <3>1. source[m].name \in Names
      BY <2>4, SnapIds
    <3> HIDE DEF m
    <3>2. [name |-> source[m].name, mark |-> FALSE] \in [name : Names, mark : BOOLEAN]
      BY <3>1
    <3> QED
      BY <2>7, <3>2, ReplicateAssumption, Zenon
  <2> QED
    BY <1>1, <2>4, <2>6, <2>8, <2>9
<1>5. CASE target[n] \in ToSet(marks) /\ ToSet(source) \cap ToSet(target) = {}
  <2>1. common = {}
    <3> SUFFICES ASSUME NEW i \in DOMAIN source, source[i].name \in have PROVE FALSE
      OBVIOUS
    <3>1. source[i] \in ToSet(source)
      BY DEF ToSet
    <3> QED
      BY <1>3, <1>5, <3>1
  <2>2. DOMAIN marks = {1} /\ marks[1] = target[n]
    <3>1. PICK k \in DOMAIN marks : marks[k] = target[n]
      BY <1>5 DEF ToSet
    <3>2. marks \in Seq(Snap) /\ Len(marks) <= 1
      BY DEF ChainInv, SourceOk
    <3>3. DOMAIN marks = 1 .. Len(marks) /\ Len(marks) \in Nat
      BY <3>2
    <3> QED
      BY <3>1, <3>2, <3>3
  <2>3. marked = {1}
    BY <1>1, <2>2
  <2>4. Max(marked) = 1
    <3>1. 1 \in Nat /\ marked \in SUBSET (1 .. 1) /\ marked # {}
      BY <2>3
    <3> HIDE DEF marked
    <3>2. Max(marked) \in marked
      BY <3>1, LastPlace
    <3> QED
      BY <2>3, <3>2
  <2>5. IncrementalBase({}) = [name |-> marks[1].name, mark |-> TRUE]
    BY <1>2, <2>1, <2>3, <2>4
  <2>6. marks[1] \in Meaning(IncrementalBase({}))
    BY <2>2, <2>5 DEF Meaning, ToSet
  <2>7. IncrementalBase({}) # None
    <3>1. marks[1].name \in Names
      BY <1>1, <2>2, SnapIds
    <3>2. [name |-> marks[1].name, mark |-> TRUE] \in [name : Names, mark : BOOLEAN]
      BY <3>1
    <3> QED
      BY <2>5, <3>2, ReplicateAssumption, Zenon
  <2> QED
    BY <1>1, <2>2, <2>6, <2>7
<1> QED
  BY <1>1, <1>4, <1>5 DEF InStep

\* A step that plans a transfer without taking a snapshot has one on the source.
LEMMA PlansNeedASource ==
    ASSUME ChainInv, Next, plan = None, plan' # None, UNCHANGED source
    PROVE  source # <<>>
<1>1. Picks
  BY DEF Next, World, Confirm, Launch, Refuse, Receive, Finish, Break, TapCancel, Kill, Close, Hidden,
         Dismiss, Discard, Grant, Cleared, uvars, dialog
<1>2. PICK sc \in {"tab", "menu", "tui"}, restore \in BOOLEAN, miss \in MissSets :
          \/ FromSnap(sc, Newest, restore, miss) \/ FromSnap(sc, ToSet(source), restore, miss)
          \/ FromNew(sc, restore, miss) \/ Denied(sc)
  BY <1>1 DEF Picks, Tab, Menu, Commander
<1>3. ~Denied(sc)
  BY DEF Denied, dialog
<1>4. ASSUME NEW s \in Fresh(source), source' = Append(source, s) PROVE FALSE
  <2>1. s \in Snap
    BY FreshIsYoungest DEF ChainInv
  <2>2. Len(Append(source, s)) = Len(source) + 1 /\ Len(source) \in Nat
    BY <2>1 DEF ChainInv, SourceOk
  <2> QED
    BY <1>4, <2>2
<1>5. FromSnap(sc, Newest, restore, miss) \/ FromSnap(sc, ToSet(source), restore, miss)
  BY <1>2, <1>3, <1>4 DEF FromNew
<1> QED
  BY <1>5 DEF FromSnap, Newest, ToSet

\* A replica that goes with its source can be brought up to date: zfs accepts the
\* pipeline that is built for the newest snapshot when every question was answered,
\* whatever was taken, pruned, bookmarked, broken off and resumed at both ends.
THEOREM ChainsHold == Spec => ChainHolds
<1>1. ASSUME ChainInv, Next, plan = None, plan' # None, UNCHANGED <<source, partial>>, partial = None,
             plan' = ReplicatePipeline(Last(source), plan'.restore, {}),
             InStep, \A t \in ToSet(target) : t.id < Last(source).id, Kindred(plan'),
             setting.encrypted /\ ~plan'.raw => setting.loaded
      PROVE  SendAccepts(plan') /\ RecvAccepts(plan')
  <2> DEFINE b == IncrementalBase({})
             r == plan'.restore
  <2>1. /\ plan'.token = None /\ plan'.snap = Last(source) /\ plan'.base = b
        /\ plan'.raw = Raw(r, {}) /\ plan'.props = Props(r, {})
    BY <1>1 DEF ReplicatePipeline
  <2>2. source # <<>>
    BY <1>1, PlansNeedASource
  <2>3. plan'.snap \in ToSet(source) /\ plan'.snap \in Snap
    <3>1. Len(source) \in DOMAIN source /\ source[Len(source)] \in Snap
      BY <1>1, <2>2 DEF ChainInv, SourceOk
    <3> QED
      BY <2>1, <3>1 DEF ToSet, Last
  <2>4. setting.encrypted /\ ~plan'.raw => setting.loaded /\ ~plan'.props
    BY <1>1, <2>1 DEF Props
  <2>5. CASE target = <<>>
    <3>1. b = None
      BY <2>5 DEF IncrementalBase, ToSet
    <3>2. ~(plan'.raw /\ ~setting.encrypted /\ setting.under)
      BY <1>1, <2>1 DEF Raw, TargetEncrypted, ChainInv, TargetOk
    <3>3. ~there
      BY <1>1, <2>5 DEF Kindred
    <3> QED
      BY <1>1, <2>1, <2>3, <2>4, <2>5, <3>1, <3>2, <3>3 DEF SendAccepts, RecvAccepts
  <2>6. CASE target # <<>>
    <3>1. b # None /\ \E s \in Meaning(b) : s.id = Last(target).id /\ s \in Snap
      BY <1>1, <2>6, BaseIsTheNewest
    <3>2. Last(target).id < Last(source).id
      BY <1>1, <2>6 DEF ToSet, Last, ChainInv, TargetOk
    <3>3. \E s \in Meaning(b) : s.id < plan'.snap.id
      BY <2>1, <3>1, <3>2
    <3>4. Mixes(plan')
      <4>1. /\ there /\ (setting.encrypted => sealed = plan'.raw)
            /\ owner = "source" => setting.encrypted /\ (sealed \/ setting.opened)
        BY <1>1, <2>6 DEF Kindred, ChainInv, TargetOk
      <4>2. plan'.raw /\ ~setting.encrypted => owner = None
        BY <2>1, <4>1 DEF Raw, TargetEncrypted
      <4> QED
        BY <4>1, <4>2 DEF Mixes
    <3> HIDE DEF b
    <3> QED
      BY <1>1, <2>1, <2>3, <2>4, <2>6, <3>1, <3>3, <3>4 DEF SendAccepts, RecvAccepts
  <2> QED
    BY <2>5, <2>6
<1>2. ChainInv /\ [Next]_vars =>
        [ ( /\ plan = None /\ plan' # None /\ UNCHANGED <<source, partial>> /\ partial = None
            /\ plan' = ReplicatePipeline(Last(source), plan'.restore, {})
            /\ InStep /\ (\A t \in ToSet(target) : t.id < Last(source).id)
            /\ Kindred(plan')
            /\ setting.encrypted /\ ~plan'.raw => setting.loaded )
          => SendAccepts(plan') /\ RecvAccepts(plan') ]_vars
  BY <1>1
<1> QED
  BY <1>2, ChainInvariance, PTL DEF Spec, ChainHolds
-----------------------------------------------------------------------------
(* What the dialogs say.                                                   *)

\* The snapshot a pipeline is to bring.
SentBy(p) == IF p.token = None THEN p.snap ELSE p.token.snap

\* From its launch to its dialog a pipeline leaves the target as it found it, but
\* for the partial it makes or resumes, until it has arrived.
ToldInv ==
    /\ phase = "confirm" => flow = "none"
    /\ flow \in {"begun", "moving"} => phase = "running"
    /\ flow = "begun" => target = before.target /\ partial = before.partial
    /\ flow = "moving" =>
         /\ target = before.target /\ partial # None /\ partial.snap = SentBy(plan)
         /\ SentBy(plan) \in ToSet(source)
    /\ phase = "running" /\ flow = "ok" => Arrived
    /\ phase = "running" /\ flow = "broken" => Kept

\* What is received is the snapshot of the pipeline, or of the token it resumes.
LEMMA ReceiveKeepsTold == ASSUME ToldInv, Receive, partial' # None PROVE ToldInv'
<1>1. /\ flow = "begun" /\ phase = "running" /\ SendAccepts(plan)
      /\ partial' = Begun(plan) /\ flow' = "moving" /\ target = before.target
      /\ UNCHANGED <<source, target, phase, plan, before>>
  BY DEF Receive, ToldInv, uvars, dialog
<1>2. Begun(plan).snap = SentBy(plan)
  BY DEF Begun, SentBy
<1>3. SentBy(plan) \in ToSet(source)
  BY <1>1 DEF SendAccepts, SentBy
<1>4. SentBy(plan)' = SentBy(plan)
  BY <1>1 DEF SentBy
<1> QED
  BY <1>1, <1>2, <1>3, <1>4 DEF ToldInv

\* The stream ends with its snapshot on top of what was there.
LEMMA FinishKeepsTold == ASSUME ToldInv, Finish PROVE ToldInv'
<1>1. /\ flow = "moving" /\ flow' = "ok" /\ phase = "running" /\ partial' = None
      /\ target' = Append(before.target, SentBy(plan)) /\ SentBy(plan) \in ToSet(source)
      /\ UNCHANGED <<source, phase, plan, before>>
  BY DEF Finish, ToldInv, uvars, dialog
<1>2. Arrived'
  BY <1>1 DEF Arrived, SentBy
<1> QED
  BY <1>1, <1>2 DEF ToldInv

\* It breaks, is refused or killed: the target has lost nothing.
LEMMA BreaksKeepTold == ASSUME ToldInv, Refuse \/ Break \/ Kill PROVE ToldInv'
<1>1. /\ flow \in {"begun", "moving"} /\ flow' = "broken" /\ phase = "running"
      /\ UNCHANGED <<source, target, partial, phase, plan, before>>
  BY DEF Refuse, Break, Kill, ToldInv, zvars, uvars, dialog
<1>2. Kept
  BY <1>1 DEF ToldInv, Kept, SentBy
<1>3. Kept'
  BY <1>1, <1>2 DEF Kept
<1> QED
  BY <1>1, <1>3 DEF ToldInv

\* The pipeline and the target agree, from the launch to the dialog.
THEOREM ToldInvariance == Spec => []ToldInv
<1>1. Init => ToldInv
  BY DEF Init, ToldInv
<1>2. ToldInv /\ ChainInv' /\ [Next]_vars => ToldInv'
  <2> SUFFICES ASSUME ToldInv, ChainInv', [Next]_vars PROVE ToldInv'
    OBVIOUS
  <2>1. CASE UNCHANGED vars
    BY <2>1 DEF vars, zvars, uvars, dialog, ToldInv, SentBy, Arrived, Kept
  <2>2. CASE World
    BY <2>2 DEF World, uvars, dialog, ToldInv
  <2>3. CASE Picks
    BY <2>3 DEF Picks, Tab, Menu, Commander, FromSnap, FromNew, Denied, Planned, ToldInv
  <2>4. CASE Confirm
    BY <2>4 DEF Confirm, zvars, ToldInv
  <2>5. CASE Launch
    BY <2>5 DEF Launch, zvars, ToldInv, Kept
  <2>6. CASE TapCancel
    BY <2>6 DEF TapCancel, zvars, ToldInv, SentBy, Arrived, Kept
  <2>7. CASE Receive
    BY <2>7, ReceiveKeepsTold DEF Receive, ChainInv, TargetOk
  <2>8. CASE Close \/ Dismiss \/ Discard \/ Grant
    BY <2>8 DEF Close, Dismiss, Discard, Grant, Cleared, ToldInv
  <2> QED
    BY <2>1, <2>2, <2>3, <2>4, <2>5, <2>6, <2>7, <2>8, FinishKeepsTold, BreaksKeepTold DEF Next
<1> QED
  BY <1>1, <1>2, ChainInvariance, PTL DEF Spec

\* "Done" is said of a transfer that is on the target and a failure of one that is
\* not and has cost nothing there, whichever screen asked and whatever was resumed,
\* refused, broken or cancelled; one that is said to be stopped is either.
THEOREM ToldIsOnTheTarget == Spec => ToldIsThere
<1>1. ASSUME ToldInv, Next, phase = "running", phase' # "running"
      PROVE  /\ Arrived \/ Kept
             /\ phase' = "done" => Arrived
             /\ phase' \in {"failed", "offer"} => Kept
  <2>1. Close
    BY <1>1 DEF Next, World, Picks, Tab, Menu, Commander, Confirm, Launch, Refuse, Receive, Finish,
       Break, TapCancel, Kill, Dismiss, Discard, Grant, uvars
  <2> QED
    BY <1>1, <2>1 DEF Close, ToldInv
<1>2. ToldInv /\ [Next]_vars =>
        [ phase = "running" /\ phase' # "running" =>
            /\ Arrived \/ Kept
            /\ phase' = "done" => Arrived
            /\ phase' \in {"failed", "offer"} => Kept ]_vars
  BY <1>1
<1> QED
  BY <1>2, ToldInvariance, PTL DEF Spec, ToldIsThere
=============================================================================
