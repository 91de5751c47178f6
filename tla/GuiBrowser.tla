----------------------------- MODULE GuiBrowser -----------------------------
(***************************************************************************)
(* The Browser of the window (gui.go, dstree.go, gui_edit.go and           *)
(* gui_context.go): the list of datasets as a tree or under a filter, the  *)
(* details and the snapshots of the row under the cursor, the property     *)
(* editor, the menus, and the goroutines whose answers arrive later.       *)
(*                                                                         *)
(* The code drops an answer whose generation is no longer the current one; *)
(* all that matters of a generation is whether it is, so an answer under   *)
(* way says "latest", and asking again makes the earlier ones late.        *)
(***************************************************************************)
EXTENDS Naturals, SequencesExt

CONSTANTS
    Order,       \* the datasets there may be, as zfs list sorts them: by their
                 \* names, so that "p-x" comes between "p" and "p/a"; a name is the
                 \* sequence of its parts
    Worlds,      \* those there are at first
    Queries,     \* what may be typed into the filter: the names it finds
    Verbs,       \* the menu items that are used
    NoName,      \* no dataset
    MaxTaps      \* bound: what the user does

ASSUME BrowserAssumption ==
    /\ Order \in Seq(Seq(STRING) \ {<<>>})
    /\ \A i, j \in DOMAIN Order : Order[i] = Order[j] => i = j
    /\ NoName \notin ToSet(Order)
    /\ \A W \in Worlds : W \subseteq ToSet(Order)

VARIABLES
    world,       \* the datasets there are
    ui,          \* the window: one record, so that a handler is a composition
    scans,       \* the scans under way, and what they have read
    running,     \* the operations under way
    taps

browserVars == <<world, ui, scans, running, taps>>

Datasets == ToSet(Order)
Pane(is, d) == [is |-> is, ds |-> d]
Note == Pane("note", NoName)
Late(flights) == {[f EXCEPT !.latest = FALSE] : f \in flights}
-----------------------------------------------------------------------------
(* dstree.go *)

\* A name with nothing before its last slash has no parent.
ParentOf(d) == IF Len(d) > 1 THEN Front(d) ELSE NoName
\* The datasets of S, collected by a loop over those of zfs list.
Listed(S) ==
    LET list[i \in 0 .. Len(Order)] ==
            IF i = 0 THEN <<>>
            ELSE IF Order[i] \in S THEN Append(list[i - 1], Order[i]) ELSE list[i - 1]
    IN  list[Len(Order)]

KidsIn(rows, d) == Listed({k \in rows : ParentOf(k) = d})
\* Mutant: only a pool is a root.
RootsIn_Pools(rows) == Listed({d \in rows : ParentOf(d) = NoName})
RootsIn(rows) == Listed({d \in rows : ParentOf(d) \notin rows})

Row(d, kids, open, flat) == [ds |-> d, kids |-> kids, open |-> open, flat |-> flat]

\* Depth first, without what is below a folded row.
BuildTree(rows, collapsed) ==
    LET walk[d \in rows] ==
            LET kids == KidsIn(rows, d) IN
            <<Row(d, kids # <<>>, d \notin collapsed, FALSE)>> \o
            (IF kids # <<>> /\ d \notin collapsed
               THEN FlattenSeq([i \in DOMAIN kids |-> walk[kids[i]]]) ELSE <<>>)
        roots == RootsIn(rows)
    IN  FlattenSeq([i \in DOMAIN roots |-> walk[roots[i]]])

DefaultCollapsed(rows) == {d \in rows : KidsIn(rows, d) # <<>>}

FlatRows(hits) ==
    LET found == Listed(hits)
    IN  [i \in DOMAIN found |-> Row(found[i], FALSE, FALSE, TRUE)]
-----------------------------------------------------------------------------
(* The handlers of gui.go, each a function of the window g. *)

\* curRow, curName.
CurName(g) == IF g.cursor \in DOMAIN g.visible THEN g.visible[g.cursor].ds ELSE NoName

\* setDossier, after lastShown = -1.
ShowDossier(g, i) ==
    LET h == [g EXCEPT !.lastShown = i, !.dossiers = Late(@)] IN
    IF i \notin DOMAIN g.visible THEN [h EXCEPT !.pane = Note]
    ELSE [h EXCEPT !.pane = Pane("loading", g.visible[i].ds),
                   !.dossiers = @ \cup {[ds |-> g.visible[i].ds, latest |-> TRUE]}]

SetDossier(g, i) == IF i = g.lastShown THEN g ELSE ShowDossier(g, i)

ReloadSnaps(g) ==
    LET h == [g EXCEPT !.lists = Late(@)] IN
    IF CurName(g) = NoName THEN [h EXCEPT !.snaps = NoName]
    ELSE [h EXCEPT !.lists = @ \cup {[ds |-> CurName(g), latest |-> TRUE]}]

\* The editor or the dossier, whichever the Edit button asks for.
BuildRight(g) ==
    IF g.editing /\ CurName(g) # NoName
      THEN [g EXCEPT !.form = CurName(g)]
      ELSE [ShowDossier(g, g.cursor) EXCEPT !.form = NoName]

\* The list does not report a row that is selected already.
SelectAt(g, i) ==
    IF g.selected = i \/ g.visible = <<>> THEN g
    ELSE LET h == ReloadSnaps([g EXCEPT !.selected = i, !.cursor = i])
         IN  IF h.editing THEN BuildRight(h) ELSE SetDossier(h, i)

ApplyFilter(g) ==
    LET seed == g.query = NoName /\ ~g.seeded /\ g.all # {}
        folded == IF seed THEN DefaultCollapsed(g.all) ELSE g.collapsed
        rows == IF g.query = NoName THEN BuildTree(g.all, folded) ELSE FlatRows(g.all \cap g.query)
        h == [g EXCEPT !.collapsed = folded, !.seeded = @ \/ seed, !.visible = rows,
                       !.lastShown = 0, !.selected = 0]
    IN  IF rows # <<>> THEN SelectAt(h, 1) ELSE [h EXCEPT !.pane = Note]

Restore(g, d) ==
    LET at == {i \in DOMAIN g.visible : g.visible[i].ds = d}
    IN  IF at = {} THEN g ELSE SelectAt(g, CHOOSE i \in at : TRUE)

SetFold(g, i, expand) ==
    LET row == g.visible[i] IN
    IF ~row.kids \/ row.flat \/ (expand # (row.ds \in g.collapsed)) THEN g
    ELSE Restore(ApplyFilter([g EXCEPT !.collapsed = IF expand THEN @ \ {row.ds} ELSE @ \cup {row.ds}]),
                 row.ds)

\* A scan has landed; an error leaves the rows of the last one on the screen. The
\* welcome is one more note: without datasets there are no rows.
ApplyLoad(g, rows, err) ==
    LET h == [g EXCEPT !.all = rows, !.listErr = err] IN
    IF err THEN [h EXCEPT !.pane = Note] ELSE ApplyFilter(h)

\* Mutant: the cursor is not put back.
MergeCounts_Top(g) == ApplyFilter(g)

\* The counts are merged into all, and the rows built again.
MergeCounts(g) == Restore(ApplyFilter(g), CurName(g))
-----------------------------------------------------------------------------
Scan(first) == [rows |-> {}, phase |-> "asked", first |-> first, latest |-> TRUE]

BrowserInit ==
    /\ world \in Worlds
    /\ ui = [all |-> {}, listErr |-> FALSE, query |-> NoName, collapsed |-> {}, seeded |-> FALSE,
             visible |-> <<>>, cursor |-> 1, selected |-> 0, lastShown |-> 0, pane |-> Note,
             dossiers |-> {}, snaps |-> NoName, lists |-> {}, counts |-> {},
             editing |-> FALSE, form |-> NoName, rw |-> FALSE, popup |-> NoName]
    /\ scans = {Scan(TRUE)} /\ running = {} /\ taps = 0

\* What the user does to the window when no menu or dialog is in the way.
Tap(g) ==
    /\ taps < MaxTaps /\ taps' = taps + 1
    /\ ui.popup = NoName /\ ui' = g
    /\ UNCHANGED <<world, running>>

TypeQuery ==
    /\ \E q \in Queries \cup {NoName} : q # ui.query /\ Tap(ApplyFilter([ui EXCEPT !.query = q]))
    /\ UNCHANGED scans

\* An arrow key or the pointer passing over a row moves the selection.
Highlight == (\E i \in DOMAIN ui.visible : i # ui.selected /\ Tap(SelectAt(ui, i))) /\ UNCHANGED scans

TapRow ==
    /\ \E i \in DOMAIN ui.visible : Tap(SetFold(SelectAt(ui, i), i, ~ui.visible[i].open))
    /\ UNCHANGED scans

\* Left and Right: fold, unfold, or from a row without children to its parent.
FoldKey ==
    /\ CurName(ui) # NoName /\ UNCHANGED scans
    /\ \E expand \in BOOLEAN :
           LET row == ui.visible[ui.cursor] IN
           Tap(IF ~row.kids /\ ~expand /\ ~row.flat THEN Restore(ui, ParentOf(row.ds))
               ELSE SetFold(ui, ui.cursor, expand))

ToggleEdit == Tap(BuildRight([ui EXCEPT !.editing = ~@])) /\ UNCHANGED scans
ToggleLock == Tap([ui EXCEPT !.rw = ~@]) /\ UNCHANGED scans

\* A scan that is started makes the earlier ones, and their counts, late.
Started == Late(scans) \cup {Scan(FALSE)}
Reload == Tap([ui EXCEPT !.counts = Late(@)]) /\ scans' = Started
-----------------------------------------------------------------------------
(* Menus and dialogs: what an item asks, and where the lock is looked at. *)

MenuAsks ==
    [create |-> "prompt", rename |-> "prompt", snapshot |-> "prompt", clone |-> "prompt",
     be |-> "prompt", key |-> "prompt", mount |-> "nothing", lock |-> "nothing",
     replicate |-> "confirm", bookmark |-> "confirm", rollback |-> "typed", destroy |-> "typed"]
SnapAsks ==
    [snapRollback |-> "typed", snapDestroy |-> "typed", snapClone |-> "prompt",
     snapBookmark |-> "prompt", hold |-> "nothing", release |-> "nothing"]
\* The pool manager and the boot environments.
PoolAsks ==
    [scrub |-> "nothing", stopScrub |-> "nothing", trim |-> "nothing", clear |-> "nothing", import |-> "menu"]
BootAsks == [bootCreate |-> "prompt", bootRollback |-> "typed", bootDelete |-> "typed"]
\* The controls of the editor; a risky property is confirmed.
FormAsks == [property |-> "nothing", riskyProperty |-> "confirm"]
Asks == MenuAsks @@ SnapAsks @@ PoolAsks @@ BootAsks @@ FormAsks

\* Looked at before anything is asked, and when the operation starts.
GatedFirst(verb) == Asks[verb] = "typed" \/ verb = "import"
GatedRun(verb) == verb \notin {"replicate", "import"} \cup DOMAIN FormAsks

\* What an item is for: the dataset that is under the cursor, listed or edited when
\* it is opened; a pool that is imported, or one that is not.
TargetsOf(verb) ==
    LET pools == {d \in Datasets : Len(d) = 1} IN
    CASE verb \in DOMAIN MenuAsks -> {CurName(ui)}
      [] verb \in DOMAIN SnapAsks -> {ui.snaps}
      [] verb \in DOMAIN FormAsks -> {ui.form}
      [] verb = "import" -> pools \ world
      [] OTHER -> pools \cap world

Pick ==
    /\ \E verb \in Verbs : \E d \in TargetsOf(verb) \ {NoName} :
           Tap(IF GatedFirst(verb) /\ ~ui.rw THEN ui
               ELSE [ui EXCEPT !.popup = [verb |-> verb, ds |-> d]])
    /\ UNCHANGED scans

\* OK, the typed name, or no question at all.
RunOp ==
    /\ ui.popup # NoName
    /\ ui' = [ui EXCEPT !.popup = NoName]
    /\ running' = IF GatedRun(ui.popup.verb) /\ ~ui.rw THEN running
              ELSE running \cup {[verb |-> ui.popup.verb, ds |-> ui.popup.ds]}
    /\ UNCHANGED <<world, scans, taps>>

\* Cancel, Escape, or another name than the one asked for.
CancelPopup ==
    /\ ui.popup # NoName /\ Asks[ui.popup.verb] # "nothing"
    /\ ui' = IF ui.popup.verb \in DOMAIN FormAsks THEN BuildRight([ui EXCEPT !.popup = NoName])
             ELSE [ui EXCEPT !.popup = NoName]
    /\ UNCHANGED <<world, scans, running, taps>>

\* Below d, d included.
Under(d) == {e \in Datasets : Len(e) >= Len(d) /\ SubSeq(e, 1, Len(d)) = d}

\* What a command that succeeds makes of the datasets.
Effects(op) ==
    CASE op.verb = "destroy" -> {world \ Under(op.ds)}
      [] op.verb = "create"  -> {world \cup {d} : d \in {k \in Datasets : ParentOf(k) = op.ds}}
      [] op.verb = "import"  -> {world \cup Under(op.ds)}
      [] OTHER -> {world}

Rescans(op, done) == op.verb \in DOMAIN MenuAsks \/ (op.verb = "import" /\ done)

\* The command: as the user and, when that is not permitted, once more as root; it
\* succeeds or not. What is read again depends on the menu it came from.
OpEnds ==
    \E op \in running, done \in BOOLEAN :
        /\ world' \in IF done THEN Effects(op) ELSE {world}
        /\ running' = running \ {op}
        /\ scans' = IF Rescans(op, done) THEN Started ELSE scans
        /\ ui' = CASE Rescans(op, done) -> [ui EXCEPT !.counts = Late(@)]
                   [] op.verb \in DOMAIN SnapAsks -> ShowDossier(ReloadSnaps(ui), ui.cursor)
                   [] op.verb \in DOMAIN FormAsks -> BuildRight(ui)
                   [] OTHER -> ui
        /\ UNCHANGED taps
-----------------------------------------------------------------------------
(* The answers of the goroutines. *)

\* Mutant: every answer is shown.
DossierLands_Any ==
    \E f \in ui.dossiers :
        /\ ui' = [ui EXCEPT !.dossiers = @ \ {f}, !.pane = Pane("text", f.ds)]
        /\ UNCHANGED <<world, scans, running, taps>>

DossierLands ==
    \E f \in ui.dossiers :
        /\ ui' = [ui EXCEPT !.dossiers = @ \ {f}, !.pane = IF f.latest THEN Pane("text", f.ds) ELSE @]
        /\ UNCHANGED <<world, scans, running, taps>>

SnapsLand ==
    \E f \in ui.lists :
        /\ ui' = [ui EXCEPT !.lists = @ \ {f}, !.snaps = IF f.latest THEN f.ds ELSE @]
        /\ UNCHANGED <<world, scans, running, taps>>

\* zfs list answers, with what there is or with an error.
ScanReads ==
    \E s \in scans, err \in BOOLEAN :
        /\ s.phase = "asked"
        /\ scans' = (scans \ {s}) \cup
               {[s EXCEPT !.phase = IF err THEN "failed" ELSE "read", !.rows = IF err THEN {} ELSE world]}
        /\ UNCHANGED <<world, ui, running, taps>>

\* The first scan lands whenever it does; a later one only if it is the latest.
ScanLands ==
    \E s \in scans :
        /\ s.phase # "asked" /\ scans' = scans \ {s}
        /\ ui' = IF s.first \/ s.latest
                   THEN [ApplyLoad(ui, s.rows, s.phase = "failed") EXCEPT
                            !.counts = @ \cup {[latest |-> s.latest]}]
                   ELSE ui
        /\ UNCHANGED <<world, running, taps>>

\* The counts, or their failure.
CountsLand ==
    \E f \in ui.counts, err \in BOOLEAN :
        LET g == [ui EXCEPT !.counts = @ \ {f}] IN
        /\ ui' = IF f.latest /\ ~err THEN MergeCounts(g) ELSE g
        /\ UNCHANGED <<world, scans, running, taps>>

BrowserNext ==
    \/ TypeQuery \/ Highlight \/ TapRow \/ FoldKey \/ ToggleEdit \/ ToggleLock \/ Reload
    \/ Pick \/ RunOp \/ CancelPopup \/ OpEnds
    \/ DossierLands \/ SnapsLand \/ ScanReads \/ ScanLands \/ CountsLand

BrowserSpec == BrowserInit /\ [][BrowserNext]_browserVars
-----------------------------------------------------------------------------
\* The datasets above d, as far as each is in the list and so is the one below it.
Above(rows, d) == {SubSeq(d, 1, n) : n \in {m \in 1 .. (Len(d) - 1) :
                      \A k \in m .. (Len(d) - 1) : SubSeq(d, 1, k) \in rows}}
Way(rows, d) == Above(rows, d) \cup {d}
\* The parent, if it is in the list.
Up(rows, d) == IF ParentOf(d) \in rows THEN ParentOf(d) ELSE NoName
Place(d) == CHOOSE i \in DOMAIN Order : Order[i] = d
\* Depth first: d is above e; or, where the ways down to them part, the one to d
\* takes the dataset that zfs lists first.
Before(rows, d, e) ==
    \/ d \in Above(rows, e)
    \/ \E a \in Way(rows, d), b \in Way(rows, e) : Up(rows, a) = Up(rows, b) /\ Place(a) < Place(b)

\* Whatever has been folded, scanned, filtered and read, in whatever order the
\* answers came: the rows of the tree are the datasets of the last scan of which
\* nothing above, as far as it is in the list, is folded, each once and depth first
\* in the order of zfs; also where a delegated user sees children without their
\* parent, and where zfs lists another pool between a pool and its children.
TreeIsWhole ==
    (ui.query = NoName /\ ~ui.listErr) =>
        /\ {ui.visible[i].ds : i \in DOMAIN ui.visible} =
               {d \in ui.all : Above(ui.all, d) \cap ui.collapsed = {}}
        /\ \A i, j \in DOMAIN ui.visible :
               i < j => Before(ui.all, ui.visible[i].ds, ui.visible[j].ds)

\* Where there are rows and no error to show, the right side is about the row under
\* the cursor: the editor's controls change its dataset, the dossier is its dossier,
\* and the snapshots, on which Enter acts, are its own or are being read.
DetailsFollow ==
    (ui.visible # <<>> /\ ~ui.listErr) =>
        /\ ui.form = (IF ui.editing THEN CurName(ui) ELSE NoName)
        /\ ui.editing \/ ui.pane.ds = CurName(ui)
        /\ ui.snaps = CurName(ui) \/ [ds |-> CurName(ui), latest |-> TRUE] \in ui.lists

\* Folding a row and the counts that stream in leave the cursor on its dataset.
KeepsDataset ==
    [][(FoldKey \/ CountsLand) /\ CurName(ui) \in ui'.all =>
           \/ CurName(ui') = CurName(ui) \/ CurName(ui') = ParentOf(CurName(ui))]_browserVars

\* "zxplore is in READ-ONLY mode": while the lock is on, no operation is started.
ReadOnlyKeeps == [][running' \subseteq running \/ ui.rw]_browserVars
=============================================================================
