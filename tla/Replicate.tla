----------------------------- MODULE Replicate -----------------------------
(***************************************************************************)
(* One dataset sent to another with zfs send | zfs recv: how the pipeline  *)
(* is built from what the two ends answer (zfs.go), and the three screens  *)
(* that run it: the transfer tab (gui_transfer.go), which can cancel, the  *)
(* context menu of a dataset (gui_context.go), and the commander of the    *)
(* terminal (transfer.go).  zfs itself is external.                        *)
(***************************************************************************)
EXTENDS Integers, SequencesExt

CONSTANTS
    Names,    \* short names of snapshots
    MaxId,    \* bound: snapshots ever taken, on either end
    Screens,  \* the screens in use: "tab", "menu", "tui"
    Settings, \* the situations: what is encrypted, which ends are remote, read-write
    MissSets, \* the sets of questions that may go unanswered together
    Events,   \* what may happen: "snap", "prune", "foreign", "mark", "network", "polkit"
    None

Ends == {"source", "target"}
Snap == [name : Names, id : 1 .. MaxId]

ASSUME ReplicateAssumption ==
    /\ MaxId \in Nat
    /\ Screens \subseteq {"tab", "menu", "tui"}
    /\ Settings \subseteq [encrypted : BOOLEAN, loaded : BOOLEAN, under : BOOLEAN,
                           opened : BOOLEAN, remote : SUBSET Ends, rw : BOOLEAN]
    /\ MissSets \subseteq SUBSET {"token", "source", "target", "marks", "srcenc", "dstenc", "key"}
    /\ None \notin Names \cup Ends \cup [name : Names, mark : BOOLEAN]
    /\ None \notin [snap : Snap, raw : BOOLEAN, asked : BOOLEAN, base : 0 .. MaxId]

VARIABLES
    setting,   \* encrypted: the source is; loaded: its key; under: the target's parent is
               \* encrypted; opened: the key of what came raw gets loaded on the target
    source,    \* the snapshots of the source, oldest first: a name and an id
    marks,     \* its bookmarks, oldest first
    target,    \* the snapshots of the target, oldest first
    there,     \* the target exists
    partial,   \* the interrupted receive the target holds: of a snapshot, onto a base, raw, asked for
    owner,     \* whose key opens the target: None, "source" or "target"
    sealed,    \* what the target holds of an encrypted source came raw, all of it
    delegated, \* the ends whose account holds the zfs allow set
    ids,       \* snapshots taken so far
    bare,      \* data of an encrypted source lies decrypted on the target, and no restore was asked for
    screen, phase,
    plan,      \* snapshot, resume token, base, raw, with properties, a restore
    live,      \* the Cancel button works
    cancelled,
    flow,      \* the pipeline
    refuser,   \* the end that refused for want of permission
    before     \* history: the target's snapshots and partial when the pipeline was launched

zvars == <<setting, source, marks, target, there, partial, owner, sealed, delegated, ids, bare>>
dialog == <<screen, plan, live, cancelled, before>>
uvars == <<dialog, phase>>
vars == <<zvars, uvars, flow, refuser>>

-----------------------------------------------------------------------------
(* The pipeline.                                                           *)

\* Mutant: the oldest common snapshot.
IncrementalBase_Oldest(miss) ==
    LET have   == IF "target" \in miss THEN {} ELSE {s.name : s \in ToSet(target)}
        common == {i \in DOMAIN source : source[i].name \in have}
    IN  IF "source" \in miss \/ common = {} THEN None
        ELSE [name |-> source[Min(common)].name, mark |-> FALSE]

\* incrementalBase: the newest source snapshot whose short name the target has,
\* a bookmark with such a name when there is none, or nothing.
IncrementalBase(miss) ==
    LET have   == IF "target" \in miss THEN {} ELSE {s.name : s \in ToSet(target)}
        common == {i \in DOMAIN source : source[i].name \in have}
        marked == {i \in DOMAIN marks : marks[i].name \in have}
    IN  IF "source" \in miss THEN None
        ELSE IF common # {} THEN [name |-> source[Max(common)].name, mark |-> FALSE]
        ELSE IF marked # {} /\ "marks" \notin miss THEN [name |-> marks[Max(marked)].name, mark |-> TRUE]
        ELSE None

\* inheritedEncryption: of the target or, when there is none, of its nearest
\* ancestor; a question without an answer is not "encrypted".
TargetEncrypted(miss) ==
    "dstenc" \notin miss /\ IF there THEN owner # None ELSE setting.under

\* Mutant: raw only when the source is known to be encrypted.
Raw_KnownOnly(restore, miss) == setting.encrypted /\ "srcenc" \notin miss

\* Raw, but for a plain source below an encrypted target, and for a restore
\* with the key at hand.
Raw(restore, miss) ==
    LET plain  == ~setting.encrypted /\ "srcenc" \notin miss
        opened == /\ restore
                  /\ setting.encrypted /\ "srcenc" \notin miss
                  /\ setting.loaded /\ "key" \notin miss
    IN  ~(plain /\ TargetEncrypted(miss)) /\ ~opened

\* send -p: dropped with the restore that opens the source.
Props(restore, miss) ==
    restore /\ (Raw(restore, miss) \/ ~setting.encrypted \/ "srcenc" \in miss)

\* replicatePipeline: a resume whenever the target holds a token.
ReplicatePipeline(s, restore, miss) ==
    IF partial # None /\ "token" \notin miss
      THEN [snap |-> s, token |-> partial, base |-> None, raw |-> FALSE, props |-> FALSE,
            restore |-> restore]
      ELSE [snap |-> s, token |-> None, base |-> IncrementalBase(miss), raw |-> Raw(restore, miss),
            props |-> Props(restore, miss), restore |-> restore]

\* IsRawSend: found by the text of the pipeline.
IsRawSend(p) == p.token = None /\ p.raw /\ (p.props => p.base # None)
-----------------------------------------------------------------------------
(* What zfs makes of it.                                                   *)

Denies(e) == e \in setting.remote \ delegated

\* The snapshots a base may mean on the source now.
Meaning(b) == {s \in IF b.mark THEN ToSet(marks) ELSE ToSet(source) : s.name = b.name}

SendAccepts(p) ==
    IF p.token # None THEN p.token.snap \in ToSet(source)
    ELSE /\ p.snap \in ToSet(source)
         /\ p.base # None => \E s \in Meaning(p.base) : s.id < p.snap.id
         /\ (setting.encrypted /\ ~p.raw) => setting.loaded /\ ~p.props

\* An increment of an encrypted source is taken raw only onto what came raw, and
\* in the clear only where the target's key is loaded; the embedded blocks of a
\* plain one are not taken into encryption.
Mixes(p) ==
    IF p.raw THEN IF setting.encrypted THEN sealed ELSE owner = None
    ELSE owner = "source" => setting.opened

\* A full stream makes a target, or replaces one without snapshots, not an
\* encrypted one nor by one.
RecvAccepts(p) ==
    IF p.token # None THEN partial = p.token
    ELSE /\ partial = None
         /\ IF p.base = None
              THEN /\ target = <<>> /\ ~(p.raw /\ ~setting.encrypted /\ setting.under)
                   /\ there => owner = None /\ ~(p.raw /\ setting.encrypted)
              ELSE /\ target # <<>> /\ \E s \in Meaning(p.base) : Last(target).id = s.id
                   /\ Mixes(p)

\* What the target holds of a receive that has begun.
Begun(p) ==
    IF p.token # None THEN p.token
    ELSE [snap |-> p.snap, raw |-> p.raw, asked |-> p.restore,
          base |-> IF p.base = None THEN 0 ELSE (CHOOSE s \in Meaning(p.base) : TRUE).id]

OwnerOf(part) ==
    IF part.raw /\ setting.encrypted THEN "source" ELSE IF setting.under THEN "target" ELSE None
-----------------------------------------------------------------------------
Init ==
    /\ setting \in Settings
    /\ source = <<>> /\ marks = <<>> /\ target = <<>>
    /\ there = FALSE /\ partial = None /\ owner = None /\ sealed = FALSE
    /\ delegated = {} /\ ids = 0 /\ bare = FALSE
    /\ screen = None /\ phase = "idle" /\ plan = None
    /\ live = FALSE /\ cancelled = FALSE
    /\ flow = "none" /\ refuser = None /\ before = None

(* The world.                                                              *)

Fresh(seq) == IF ids < MaxId THEN [name : Names \ {s.name : s \in ToSet(seq)}, id : {ids + 1}] ELSE {}

\* A timer on the source, sanoid on the target, a prune, a bookmark.
World ==
    /\ phase \in {"idle", "confirm"} \* bound: not once the pipeline is on its way
    /\ \/ /\ "snap" \in Events
          /\ \E s \in Fresh(source) : source' = Append(source, s) /\ ids' = ids + 1
          /\ UNCHANGED <<target, marks>>
       \/ /\ "foreign" \in Events /\ there /\ partial = None
          /\ \E s \in Fresh(target) : target' = Append(target, s) /\ ids' = ids + 1
          /\ UNCHANGED <<source, marks>>
       \/ /\ "prune" \in Events
          /\ \/ \E i \in DOMAIN source : source' = RemoveAt(source, i) /\ UNCHANGED target
             \/ target # <<>> /\ target' = Tail(target) /\ UNCHANGED source
          /\ UNCHANGED <<ids, marks>>
       \/ /\ "mark" \in Events
          /\ marks = <<>> \* bound: one bookmark
          /\ \E s \in ToSet(source) : marks' = Append(marks, s)
          /\ UNCHANGED <<ids, source, target>>
    /\ UNCHANGED <<setting, there, partial, owner, sealed, delegated, bare, uvars, flow, refuser>>
-----------------------------------------------------------------------------
(* The screens.                                                            *)

\* The tab asks, the others go on.
Planned(sc, s, restore, miss) ==
    /\ plan' = ReplicatePipeline(s, restore, miss)
    /\ screen' = sc
    /\ phase' = IF sc = "tab" THEN "confirm" ELSE "running"
    /\ live' = FALSE /\ cancelled' = FALSE /\ flow' = "none" /\ refuser' = None
    /\ before' = None

\* A snapshot there is.
FromSnap(sc, chosen, restore, miss) ==
    /\ "source" \notin miss
    /\ \E s \in chosen : Planned(sc, s, restore, miss)
    /\ UNCHANGED zvars

\* No snapshot, or none that could be listed: SnapshotNow.
FromNew(sc, restore, miss) ==
    /\ "source" \in miss \/ source = <<>>
    /\ ~Denies("source")
    /\ \E s \in Fresh(source) :
          /\ source' = Append(source, s) /\ ids' = ids + 1
          /\ Planned(sc, s, restore, miss)
    /\ UNCHANGED <<setting, marks, target, there, partial, owner, sealed, delegated, bare>>

\* It may not be taken: the tab offers to delegate.
Denied(sc) ==
    /\ source = <<>> /\ Denies("source")
    /\ phase' = IF sc = "tab" THEN "offer" ELSE "failed"
    /\ refuser' = "source" /\ flow' = "broken"
    /\ UNCHANGED <<zvars, dialog>>

Newest == IF source = <<>> THEN {} ELSE {Last(source)}

\* The transfer tab, behind guiMutOK; again after a grant.
Tab(restore, miss) ==
    /\ phase \in {"idle", "retry"} /\ setting.rw
    /\ FromSnap("tab", Newest, restore, miss) \/ FromNew("tab", restore, miss) \/ Denied("tab")

\* "Replicate / back up to..." of a dataset, which has a question of its own
\* and builds the pipeline after it.
Menu(miss) ==
    /\ phase = "idle"
    /\ FromSnap("menu", Newest, FALSE, miss) \/ FromNew("menu", FALSE, miss) \/ Denied("menu")

\* The commander: any snapshot, or a dataset.
Commander(miss) ==
    /\ phase = "idle"
    /\ FromSnap("tui", ToSet(source), FALSE, miss) \/ FromNew("tui", FALSE, miss) \/ Denied("tui")

Confirm ==
    /\ phase = "confirm"
    /\ \/ phase' = "running" /\ UNCHANGED <<screen, plan>>
       \/ phase' = "idle" /\ plan' = None /\ screen' = None
    /\ UNCHANGED <<zvars, live, cancelled, flow, refuser, before>>

\* The wrapper reports its process group, and the tab can cancel; or the
\* operator refuses the elevation.
Launch ==
    /\ phase = "running" /\ flow = "none"
    /\ \/ flow' = "begun" /\ live' = (screen = "tab")
       \/ "polkit" \in Events /\ flow' = "broken" /\ UNCHANGED live
    /\ before' = [target |-> target, partial |-> partial]
    /\ UNCHANGED <<zvars, screen, phase, plan, cancelled, refuser>>

\* An end refuses: for want of permission, or the stream.
Refuse ==
    /\ flow = "begun"
    /\ \/ \E e \in Ends : Denies(e) /\ refuser' = e
       \/ ~(SendAccepts(plan) /\ RecvAccepts(plan)) /\ UNCHANGED refuser
    /\ flow' = "broken"
    /\ UNCHANGED <<zvars, uvars>>

Receive ==
    /\ flow = "begun"
    /\ \A e \in Ends : ~Denies(e)
    /\ SendAccepts(plan) /\ RecvAccepts(plan)
    /\ there' = TRUE /\ partial' = Begun(plan) /\ flow' = "moving"
    /\ UNCHANGED <<setting, source, marks, target, owner, sealed, delegated, ids, bare, uvars, refuser>>

\* The stream ends. recv -F has discarded what the target had of its own.
Finish ==
    /\ flow = "moving" /\ flow' = "ok"
    /\ target' = Append(target, partial.snap)
    /\ owner' = IF partial.base = 0 THEN OwnerOf(partial) ELSE owner
    /\ sealed' = (partial.raw /\ setting.encrypted)
    /\ bare' = (bare \/ (setting.encrypted /\ ~partial.raw /\ ~partial.asked))
    /\ partial' = None
    /\ UNCHANGED <<setting, source, marks, there, delegated, ids, uvars, refuser>>

\* recv -s: what has arrived stays, with a token.
Break ==
    /\ "network" \in Events
    /\ flow = "moving" /\ flow' = "broken"
    /\ UNCHANGED <<zvars, uvars, refuser>>

\* Cancel, once the group is known, until the dialog is hidden.
TapCancel ==
    /\ phase = "running" /\ live /\ ~cancelled
    /\ cancelled' = TRUE
    /\ UNCHANGED <<zvars, screen, phase, plan, live, flow, refuser, before>>

\* The signal reaches the whole group, if the pipeline still runs.
Kill ==
    /\ cancelled /\ flow \in {"begun", "moving"} /\ flow' = "broken"
    /\ UNCHANGED <<zvars, uvars, refuser>>

\* The progress dialog goes with what only it knew.
Hidden ==
    /\ screen' = None /\ plan' = None /\ live' = FALSE /\ cancelled' = FALSE
    /\ before' = None

\* Mutant: a failure is shown as done.
Close_Done ==
    /\ phase = "running" /\ flow \in {"ok", "broken"}
    /\ phase' = IF cancelled THEN "stopped" ELSE "done"
    /\ Hidden
    /\ UNCHANGED <<zvars, flow, refuser>>

\* Mutant: a transfer that succeeds after Cancel closes nothing.
Close_Stuck ==
    /\ phase = "running"
    /\ flow = "broken" \/ (flow = "ok" /\ ~cancelled)
    /\ phase' = IF cancelled THEN "stopped" ELSE IF flow = "ok" THEN "done" ELSE "failed"
    /\ Hidden
    /\ UNCHANGED <<zvars, flow, refuser>>

\* The dialog that follows: the cancel flag wins over the result.
Close ==
    /\ phase = "running" /\ flow \in {"ok", "broken"}
    /\ phase' = IF cancelled THEN "stopped"
                ELSE IF flow = "ok" THEN "done"
                ELSE IF screen = "tab" /\ refuser # None THEN "offer" ELSE "failed"
    /\ Hidden
    /\ UNCHANGED <<zvars, flow, refuser>>

\* A dialog goes, and nothing of the transfer is left.
Cleared ==
    /\ flow' = "none" /\ refuser' = None
    /\ UNCHANGED dialog

\* The result is read; of a transfer that was cancelled the partial is kept.
Dismiss ==
    /\ phase \in {"done", "failed", "stopped"} /\ phase' = "idle"
    /\ Cleared
    /\ UNCHANGED zvars

\* "Discard the partial instead?": destroy -r of the target.
Discard ==
    /\ phase = "stopped" /\ phase' = "idle"
    /\ there' = FALSE /\ target' = <<>> /\ partial' = None /\ owner' = None /\ sealed' = FALSE
    /\ bare' = FALSE
    /\ Cleared
    /\ UNCHANGED <<setting, source, marks, delegated, ids>>

\* offerGrant: which end is asked for its password. A send that lost its
\* reader says so, and the text then names the send.
Offered(e) ==
    \/ e = "source" /\ e \in setting.remote
    \/ e = "target" /\ e \in setting.remote /\ (refuser = "target" \/ "source" \notin setting.remote)

\* GrantReplicationPerms: zfs allow, through sudo on a remote end.
GrantReplicationPerms(e) == delegated' = delegated \cup {e}

Grant ==
    /\ phase = "offer"
    /\ \/ \E e \in Ends : Offered(e) /\ GrantReplicationPerms(e) /\ phase' = "retry"
       \/ phase' = "idle" /\ UNCHANGED delegated
    /\ Cleared
    /\ UNCHANGED <<setting, source, marks, target, there, partial, owner, sealed, ids, bare>>

Picks ==
    \E miss \in MissSets :
       \/ "tab" \in Screens /\ \E restore \in BOOLEAN : Tab(restore, miss)
       \/ "menu" \in Screens /\ Menu(miss)
       \/ "tui" \in Screens /\ Commander(miss)

Next ==
    \/ World \/ Picks
    \/ Confirm \/ Launch \/ Refuse \/ Receive \/ Finish \/ Break
    \/ TapCancel \/ Kill \/ Close \/ Dismiss \/ Discard \/ Grant

Spec == Init /\ [][Next]_vars

\* The processes of the pipeline go on or end, and the window draws.
FairSpec == Spec /\ WF_vars(Launch) /\ WF_vars(Refuse \/ Receive) /\ WF_vars(Finish) /\ WF_vars(Close)
-----------------------------------------------------------------------------
(* Properties.                                                             *)

\* Data of an encrypted source lies decrypted on the target only when the
\* operator asked to restore that snapshot, whatever questions went
\* unanswered, and whatever is resumed (replicatePipeline).
BareOnlyByRestore == ~bare

\* The replica goes with the source: where both have a name it means the same
\* snapshot, and the newest of the target is on the source, or marked there
\* when they have nothing else in common.
InStep ==
    /\ \A s \in ToSet(source) \cup ToSet(marks), t \in ToSet(target) : s.name = t.name => s = t
    /\ target # <<>> =>
         \/ Last(target) \in ToSet(source)
         \/ Last(target) \in ToSet(marks) /\ ToSet(source) \cap ToSet(target) = {}

\* What the target has of an encrypted source, if anything, came the way that the
\* pipeline sends, raw or not.  The program does not look: whether it sends raw
\* depends on restore mode and the source's key alone.
Kindred(p) ==
    there => target # <<>> /\ (setting.encrypted => sealed = p.raw)

\* A replica that goes with its source can be brought up to date: zfs accepts
\* the pipeline built for the newest snapshot when every question was answered,
\* what is there came the same way and the key, if it has to be, is loaded.
ChainHolds ==
    [][ ( /\ plan = None /\ plan' # None /\ UNCHANGED <<source, partial>> /\ partial = None
          /\ plan' = ReplicatePipeline(Last(source), plan'.restore, {})
          /\ InStep /\ (\A t \in ToSet(target) : t.id < Last(source).id)
          /\ Kindred(plan')
          /\ setting.encrypted /\ ~plan'.raw => setting.loaded )
        => SendAccepts(plan') /\ RecvAccepts(plan') ]_vars

\* What the pipeline was to bring is there: the end of the receive it resumes, or
\* its own snapshot, on top of what was there, and no partial is left.
Arrived ==
    LET sent == IF plan.token = None THEN plan.snap ELSE plan.token.snap
    IN  partial = None /\ target = Append(before.target, sent) /\ sent \in ToSet(source)

\* It is not: the target has what it had, and the partial it had or one of this.
Kept ==
    LET sent == IF plan.token = None THEN plan.snap ELSE plan.token.snap
    IN  target = before.target /\ (partial = before.partial \/ (partial # None /\ partial.snap = sent))

\* What a dialog says of a transfer, its target shows: "done" of one that has
\* arrived, with the partial it may have resumed gone, a failure of one that has
\* not and has cost the target nothing, "stopped" of either: one that ended while
\* Cancel was tapped is complete.
ToldIsThere ==
    [][ phase = "running" /\ phase' # "running" =>
            /\ Arrived \/ Kept
            /\ phase' = "done" => Arrived
            /\ phase' \in {"failed", "offer"} => Kept ]_vars

\* A transfer, cancelled or not, comes to its dialog.
TransferEnds == phase = "running" ~> phase # "running"

\* What a comment and the dialog say of Discard: the partial goes, and nothing
\* the target had before.
DiscardTakesPartial == [][phase = "stopped" => target' = target]_vars
=============================================================================
