---------------------------- MODULE GuiExplorer ----------------------------
(***************************************************************************)
(* The Explorer tab of the window (gui_snapexplore.go): a directory of a   *)
(* dataset, live or in a snapshot, the versions of the selected entry in   *)
(* every snapshot, and the restore of one of them.  Listings and versions  *)
(* are read by goroutines; of a generation only matters whether it is the  *)
(* current one ("latest").                                                 *)
(***************************************************************************)
EXTENDS Naturals, Sequences

CONSTANTS
    Tree,         \* Tree[p]: the names in directory p of the live dataset
    SnapTree,     \* the same in the snapshot one may browse
    Vanished,     \* what may be removed from the live dataset meanwhile
    NoPath0,      \* no path
    MaxClicks     \* bound: what the user does

VARIABLES
    rel,          \* the directory on the path line
    source,       \* "live" or "snap"
    entries,      \* the names listed, and which of them are directories
    fresh,       \* whether the listing on the screen is of rel
    sel,          \* the selected entry
    vers,         \* the path whose versions are listed
    picked,       \* a version is selected
    dirs, files,  \* listings and versions under way
    question,     \* the restore being confirmed
    clicks

explorerVars == <<rel, source, entries, fresh, sel, vers, picked, dirs, files, question, clicks>>

Aged(flights) == {[f EXCEPT !.latest = FALSE] : f \in flights}
TreeOf(src) == IF src = "live" THEN Tree ELSE SnapTree
IsDir(src, p) == p \in DOMAIN TreeOf(src)
Names(p, src) == {[name |-> n, dir |-> IsDir(src, Append(p, n))] : n \in TreeOf(src)[p]}

Click ==
    /\ clicks < MaxClicks /\ clicks' = clicks + 1
    /\ question = NoPath0 /\ UNCHANGED question

\* loadDir: the path line at once, the listing when it comes.
LoadDir(p, src) ==
    /\ rel' = p /\ source' = src /\ fresh' = FALSE
    /\ dirs' = Aged(dirs) \cup {[path |-> p, src |-> src, latest |-> TRUE]}

\* The view is opened on a dataset, or on one of its snapshots.
ExplorerInit ==
    /\ rel = <<>> /\ source \in {"live", "snap"}
    /\ entries = {} /\ fresh = FALSE /\ sel = NoPath0 /\ vers = NoPath0 /\ picked = FALSE
    /\ dirs = {[path |-> <<>>, src |-> source, latest |-> TRUE]} /\ files = {}
    /\ question = NoPath0 /\ clicks = 0

\* An entry is selected, and its versions asked for: at the path on the path line.
SelectEntry ==
    /\ Click
    /\ \E e \in entries :
           /\ sel' = e.name /\ vers' = NoPath0 /\ picked' = FALSE
           /\ files' = Aged(files) \cup {[path |-> Append(rel, e.name), latest |-> TRUE]}
    /\ UNCHANGED <<rel, source, entries, fresh, dirs>>

\* Enter on the selected directory; while a listing is on its way the row with ".."
\* comes or goes, and the cursor may stand on any entry of the old one.
OpenDir ==
    /\ Click
    /\ \E e \in entries : e.dir /\ (fresh => e.name = sel) /\ LoadDir(Append(rel, e.name), source)
    /\ UNCHANGED <<entries, sel, vers, picked, files>>

\* "..", or the Up button.
GoUp ==
    /\ Click /\ rel # <<>>
    /\ LoadDir(SubSeq(rel, 1, Len(rel) - 1), source)
    /\ UNCHANGED <<entries, sel, vers, picked, files>>

ReadAgain == Click /\ LoadDir(rel, source) /\ UNCHANGED <<entries, sel, vers, picked, files>>

\* Another time, the same directory.
ChooseSource ==
    /\ Click
    /\ \E src \in {"live", "snap"} \ {source} : LoadDir(rel, src)
    /\ UNCHANGED <<entries, sel, vers, picked, files>>

PickVersion ==
    /\ Click /\ vers # NoPath0 /\ picked' = TRUE
    /\ UNCHANGED <<rel, source, entries, fresh, sel, vers, dirs, files>>

\* doRestore, with the lock off: over the live file, its name typed, or as a copy.
AskRestore ==
    /\ clicks < MaxClicks /\ clicks' = clicks + 1
    /\ question = NoPath0 /\ sel # NoPath0 /\ picked /\ vers # NoPath0
    /\ question' = [path |-> Append(rel, sel), shown |-> vers, settled |-> fresh]
    /\ UNCHANGED <<rel, source, entries, fresh, sel, vers, picked, dirs, files>>

\* Confirmed and done, which reads the directory again; or not.
AnswerRestore ==
    /\ question # NoPath0 /\ question' = NoPath0
    /\ \/ LoadDir(rel, source)
       \/ UNCHANGED <<rel, source, fresh, dirs>>
    /\ UNCHANGED <<entries, sel, vers, picked, files, clicks>>

\* Mutant: the listing arrives and the selection stays.
DirLands_Keeps ==
    \E f \in dirs, gone \in BOOLEAN :
        /\ gone => f.src = "live" /\ f.path \in Vanished
        /\ dirs' = dirs \ {f}
        /\ IF f.latest
             THEN /\ entries' = IF IsDir(f.src, f.path) /\ ~gone THEN Names(f.path, f.src) ELSE {}
                  /\ fresh' = TRUE
             ELSE UNCHANGED <<entries, fresh>>
        /\ UNCHANGED <<rel, source, sel, vers, picked, files, question, clicks>>

\* A listing arrives, of a directory that may be gone, and takes the selection with it.
DirLands ==
    \E f \in dirs, gone \in BOOLEAN :
        /\ gone => f.src = "live" /\ f.path \in Vanished
        /\ dirs' = dirs \ {f}
        /\ IF f.latest
             THEN /\ entries' = IF IsDir(f.src, f.path) /\ ~gone THEN Names(f.path, f.src) ELSE {}
                  /\ fresh' = TRUE /\ sel' = NoPath0 /\ vers' = NoPath0 /\ picked' = FALSE
             ELSE UNCHANGED <<entries, fresh, sel, vers, picked>>
        /\ UNCHANGED <<rel, source, files, question, clicks>>

VersionsLand ==
    \E f \in files :
        /\ files' = files \ {f}
        /\ vers' = IF f.latest THEN f.path ELSE vers
        /\ UNCHANGED <<rel, source, entries, fresh, sel, picked, dirs, question, clicks>>

ExplorerNext ==
    \/ SelectEntry \/ OpenDir \/ GoUp \/ ReadAgain \/ ChooseSource \/ PickVersion
    \/ AskRestore \/ AnswerRestore \/ DirLands \/ VersionsLand

ExplorerSpec == ExplorerInit /\ [][ExplorerNext]_explorerVars
-----------------------------------------------------------------------------
\* However fast the user walks and however late the answers: a restore that is asked
\* for when the listing on the screen is of the directory on the path line is for the
\* very file whose versions are listed and one of them picked, and no other live file
\* of the same name is overwritten.
RestoreIsListed ==
    question # NoPath0 /\ question.settled => question.path = question.shown
=============================================================================
