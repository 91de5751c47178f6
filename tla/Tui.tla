-------------------------------- MODULE Tui ---------------------------------
(***************************************************************************)
(* The terminal program (model.go, tui_*.go): one update at a time, a key  *)
(* or the answer of something run in the background; modes and, over them, *)
(* overlays; the scan of a host, the counts, the dossier and the platform  *)
(* that arrive late and in any order; and the operations, which must pass  *)
(* the read-only gate.  Moving about in a list, text and drawing are left  *)
(* out; the panes of the transfer mode are in Replicate.                   *)
(***************************************************************************)
EXTENDS Integers, FiniteSets, SequencesExt

CONSTANTS
    Hosts, Local,
    Names,    \* datasets, numbered in the order of a listing
    Filters,  \* the names that the filters typed let through
    Acts,     \* the operations chosen from the menus
    None,     \* no dataset, prompt, menu ...
    MaxScan,  \* bound: scans started
    MaxDoss,  \* bound: dossiers asked for
    MaxKeys   \* bound: keys

ASSUME TuiAssumption ==
    /\ Names \subseteq Nat /\ Local \in Hosts /\ Filters \subseteq SUBSET Names
    /\ MaxScan \in Nat \ {0} /\ MaxDoss \in Nat /\ MaxKeys \in Nat /\ None \notin BOOLEAN

VARIABLES
    tree,     \* host |-> the datasets it has
    host,     \* the host the browser is on
    rows,     \* [of: the host, list: the datasets] of the last scan
    cursor,   \* the row
    filter,   \* the names the filter lets through
    counted,  \* the host whose snapshot counts are in the rows
    dossier,  \* the dataset, with its host, whose dossier is shown
    platform, \* the host whose platform is shown
    mode,
    forPane,  \* the connection that is chosen is for a pane
    ov,       \* overlay |-> what it is about, None when it is closed
    exp,      \* the explorer: its dataset, the entry, the file whose versions are listed
    rw,       \* mutations are unlocked
    landing,  \* where to land when the scan arrives
    scanGen, dossGen,
    inbox,    \* what runs in the background, and its answers
    ran,      \* the operation this step ran
    jumped,   \* the cursor was set from the shares, with no dossier asked for
    keys      \* keys pressed

list == <<rows, cursor, filter, counted, dossier, platform, landing>>
bg == <<scanGen, dossGen, inbox>>
ui == <<mode, forPane, ov, exp, rw>>
tuiVars == <<tree, host, list, bg, ui, ran, jumped, keys>>

\* The overlays in the order they take a key; "pe", the property editor, is
\* the browser's own.
Overlays == <<"pg", "help", "pr", "pk", "cmd", "edit", "sm", "dm", "bm">>
Closed == [o \in ToSet(Overlays) \cup {"pe"} |-> None]

\* The overlay or the mode that the next key goes to.
Focus(k) ==
    \/ mode = k /\ \A o \in ToSet(Overlays) : ov[o] = None
    \/ \E i \in DOMAIN Overlays :
          k = Overlays[i] /\ ov[k] # None /\ \A j \in 1 .. i - 1 : ov[Overlays[j]] = None

On(h, n) == [host |-> h, name |-> n]
Fds == rows.list \cap filter
Nth(S, i) == CHOOSE n \in S : Cardinality({m \in S : m < n}) = i - 1
Sel == IF cursor <= Cardinality(Fds) THEN Nth(Fds, cursor) ELSE None
Clamp(c, S) == IF Cardinality(S) = 0 THEN 1 ELSE IF c > Cardinality(S) THEN Cardinality(S) ELSE c

TuiInit ==
    /\ tree = [h \in Hosts |-> Names]
    /\ host = Local
    /\ rows = [of |-> host, list |-> {}] /\ cursor = 1 /\ filter = Names
    /\ counted = None /\ dossier = None /\ platform = host
    /\ mode = "browse" /\ forPane = FALSE /\ ov = Closed /\ exp = None /\ rw = FALSE
    /\ landing = None
    /\ scanGen = 1 /\ dossGen = 0
    /\ inbox = {[is |-> "scan", gen |-> 1, of |-> host]}
    /\ ran = None /\ jumped = FALSE /\ keys = 0

Quiet == UNCHANGED bg

StartScan(h) ==
    /\ scanGen < MaxScan
    /\ scanGen' = scanGen + 1
    /\ inbox' = inbox \cup {[is |-> "scan", gen |-> scanGen', of |-> h]}
    /\ UNCHANGED dossGen

Schedule ==
    /\ dossGen < MaxDoss
    /\ dossGen' = dossGen + 1
    /\ inbox' = inbox \cup {[is |-> "tick", gen |-> dossGen']}
    /\ UNCHANGED scanGen

Press == keys < MaxKeys /\ keys' = keys + 1

\* A key, and an answer, that run nothing.
NoRun == Press /\ ran' = None /\ UNCHANGED <<tree, host, jumped>>
Arrived == ran' = None /\ UNCHANGED <<tree, host, jumped, keys>>
-----------------------------------------------------------------------------
(* Answers.                                                                *)

Scan(m) ==
    /\ m.is = "scan"
    /\ \E l \in {tree[m.of], {}} :
          inbox' = (inbox \ {m}) \cup {[is |-> "rows", gen |-> m.gen, of |-> m.of, list |-> l]}
    /\ Arrived /\ UNCHANGED <<list, ui, scanGen, dossGen>>

\* Mutant: a scan that was overtaken is shown all the same.
DatasetsMsg_Any(m) ==
    /\ m.is = "rows" /\ dossGen < MaxDoss
    /\ rows' = [of |-> m.of, list |-> m.list]
    /\ cursor' = Clamp(cursor, m.list \cap filter)
    /\ landing' = None /\ counted' = None
    /\ dossGen' = dossGen + 1
    /\ inbox' = (inbox \ {m}) \cup {[is |-> "counts", gen |-> m.gen, of |-> host], [is |-> "tick", gen |-> dossGen']}
    /\ ran' = None /\ jumped' = FALSE
    /\ UNCHANGED <<keys, tree, host, filter, dossier, platform, ui, scanGen>>

DatasetsMsg(m) ==
    /\ m.is = "rows" /\ m.gen = scanGen /\ dossGen < MaxDoss
    /\ rows' = [of |-> m.of, list |-> m.list]
    /\ LET fds == m.list \cap filter
       IN  cursor' = IF landing \in fds THEN Cardinality({n \in fds : n <= landing}) ELSE Clamp(cursor, fds)
    /\ landing' = None /\ counted' = None
    /\ dossGen' = dossGen + 1
    /\ inbox' = (inbox \ {m}) \cup {[is |-> "counts", gen |-> m.gen, of |-> host], [is |-> "tick", gen |-> dossGen']}
    /\ ran' = None /\ jumped' = FALSE
    /\ UNCHANGED <<keys, tree, host, filter, dossier, platform, ui, scanGen>>

\* What is dropped, having been overtaken.
Overtaken(m) ==
    /\ \/ m.is \in {"rows", "counts", "plat"} /\ m.gen # scanGen
       \/ m.is \in {"tick", "dossier"} /\ m.gen # dossGen
    /\ inbox' = inbox \ {m}
    /\ Arrived /\ UNCHANGED <<list, ui, scanGen, dossGen>>

CountsMsg(m) ==
    /\ m.is = "counts" /\ m.gen = scanGen
    /\ counted' \in {m.of, counted}
    /\ inbox' = inbox \ {m}
    /\ Arrived /\ UNCHANGED <<rows, cursor, filter, dossier, platform, landing, ui, scanGen, dossGen>>

\* After 120 ms of stillness the dossier of what is selected now is fetched.
DossierTick(m) ==
    /\ m.is = "tick" /\ m.gen = dossGen
    /\ inbox' = (inbox \ {m}) \cup {[is |-> "dossier", gen |-> m.gen, on |-> On(host, Sel)]}
    /\ Arrived /\ UNCHANGED <<list, ui, scanGen, dossGen>>

DossierMsg(m) ==
    /\ m.is = "dossier" /\ m.gen = dossGen
    /\ dossier' = m.on
    /\ inbox' = inbox \ {m}
    /\ Arrived /\ UNCHANGED <<rows, cursor, filter, counted, platform, landing, ui, scanGen, dossGen>>

PlatformMsg(m) ==
    /\ m.is = "plat" /\ m.gen = scanGen
    /\ platform' = m.of
    /\ inbox' = inbox \ {m}
    /\ Arrived /\ UNCHANGED <<rows, cursor, filter, counted, dossier, landing, ui, scanGen, dossGen>>
-----------------------------------------------------------------------------
(* Operations.                                                             *)

\* What each menu asks before it dispatches: nothing, a yes, a text, or the
\* name of the target.
DsMenuActs ==
    [direct |-> {"mount-ds", "unmount-ds", "unloadkey"}, typed |-> {"destroy-ds"},
     input |-> {"create-ds", "create-zvol-name", "create-enc-name", "rename-ds", "loadkey", "changekey"}]
SnapMenuActs ==
    [direct |-> {"hold", "release"}, input |-> {"clone", "bookmark"}, typed |-> {"rollback", "destroy-snap"}]
BeMenuActs == [input |-> {"be-create"}, typed |-> {"be-rollback", "be-delete"}]
PoolActs == [confirm |-> {"scrub", "trim"}, direct |-> {"scrub-stop", "clear"}]

Creates == {"create-ds", "create-zvol", "create-enc", "clone"}
Rescans == Creates \cup {"snapshot-now", "rollback", "rename-ds", "destroy-ds", "importpool"}
Redossiers == {"mount-ds", "unmount-ds", "loadkey", "unloadkey", "setprop"}

\* What an operation that succeeds does to the datasets of the host.
After(act, on) ==
    CASE act \in Creates    -> {tree[host] \cup {n} : n \in Names}
      [] act = "destroy-ds" -> {tree[host] \ {on.name}}
      [] act = "rename-ds"  -> {(tree[host] \ {on.name}) \cup {n} : n \in Names \ tree[host]}
      [] OTHER              -> {tree[host]}

Prompt(kind, act, on, risky) == [kind |-> kind, act |-> act, on |-> on, risky |-> risky]

LoadDir(e) == [e EXCEPT !.cur = 1, !.vers = 0, !.focus = 0]

\* dispatch, with the overlays as they are without the one it came from.
Dispatch(base, act, on, how, risky) ==
    /\ Press
    /\ IF act \in {"create-zvol-name", "create-enc-name", "diff2"}
         THEN /\ ran' = None /\ UNCHANGED tree
              /\ ov' = IF act = "diff2" THEN [base EXCEPT !.pg = TRUE]
                       ELSE [base EXCEPT !.pr = Prompt("input", IF act = "create-zvol-name" THEN "create-zvol"
                                                                 ELSE "create-enc", on, FALSE)]
         ELSE /\ ran' = [act |-> act, on |-> on, how |-> how, risky |-> risky]
              /\ \E s \in After(act, on) \cup {tree[host]} : tree' = [tree EXCEPT ![host] = s]
              /\ ov' = IF act = "destroy-snap" /\ base.sm # None THEN [base EXCEPT !.sm.acts = FALSE] ELSE base
    /\ IF act \in Rescans THEN StartScan(host) ELSE IF act \in Redossiers THEN Schedule ELSE Quiet
    /\ exp' = IF act = "restore" /\ exp # None THEN LoadDir(exp) ELSE exp
    /\ UNCHANGED <<host, list, mode, forPane, rw, jumped>>

\* An operation is asked for: refused when read-only.
Begin(base, act, on, how, risky) ==
    /\ rw
    /\ IF how = "direct" THEN Dispatch(base, act, on, how, risky)
       ELSE /\ ov' = [base EXCEPT !.pr = Prompt(how, act, on, risky)]
            /\ NoRun /\ Quiet /\ UNCHANGED <<list, mode, forPane, exp, rw>>

\* A line of a menu is chosen.
Menu(acts, base, on) == \E how \in DOMAIN acts : \E a \in Acts \cap acts[how] : Begin(base, a, on, how, FALSE)

\* Overlays change, and nothing else.
Show(o) == ov' = o /\ NoRun /\ Quiet /\ UNCHANGED <<list, mode, forPane, exp, rw>>

\* Esc, n, a typed name that does not match (the prompt stays), any key of
\* the help, enter in the pager.
CloseOverlay ==
    \E o \in ToSet(Overlays) \ {"edit"} :
        /\ Focus(o)
        /\ Show(IF o = "sm" /\ ov.sm.acts THEN [ov EXCEPT !.sm.acts = FALSE] ELSE [ov EXCEPT ![o] = None])

\* Mutant: a risky property typed in as a text is not asked about again.
AcceptPrompt_NoDetour ==
    /\ Focus("pr")
    /\ Dispatch([ov EXCEPT !.pr = None], ov.pr.act, ov.pr.on, ov.pr.kind, ov.pr.risky)

\* Yes, or enter: a risky property is asked about once more.
AcceptPrompt ==
    /\ Focus("pr")
    /\ IF ov.pr.kind = "input" /\ ov.pr.risky
         THEN Show([ov EXCEPT !.pr = Prompt("confirm", "setprop", ov.pr.on, TRUE)])
         ELSE Dispatch([ov EXCEPT !.pr = None], ov.pr.act, ov.pr.on, ov.pr.kind, ov.pr.risky)

PickOption ==
    /\ Focus("pk")
    /\ IF ov.pk.risky THEN Show([ov EXCEPT !.pk = None, !.pr = Prompt("confirm", "setprop", ov.pk.on, TRUE)])
       ELSE Dispatch([ov EXCEPT !.pk = None], ov.pk.act, ov.pk.on, "pick", FALSE)

\* A dataset that the host does not have cannot be opened.
Has(n) == n \in tree[host]

OpenSnapMenu(base, n) == Has(n) /\ Show([base EXCEPT !.sm = [on |-> On(host, n), acts |-> FALSE]])

OpenExplorer(base, n) ==
    /\ Has(n)
    /\ ov' = base /\ mode' = "explorer"
    /\ exp' = [on |-> On(host, n), cur |-> 1, vers |-> 0, focus |-> 0]
    /\ NoRun /\ Quiet /\ UNCHANGED <<list, forPane, rw>>

SnapMenu ==
    /\ Focus("sm")
    /\ \/ ~ov.sm.acts /\ Show([ov EXCEPT !.sm.acts = TRUE])
       \/ ov.sm.acts /\ OpenExplorer([ov EXCEPT !.sm = None], ov.sm.on.name)
       \/ ov.sm.acts /\ Show([ov EXCEPT !.pg = TRUE])
       \/ ov.sm.acts /\ Show([ov EXCEPT !.pk = Prompt("pick", "diff2", ov.sm.on, FALSE)])
       \/ ov.sm.acts /\ Menu(SnapMenuActs, ov, ov.sm.on)

DsMenu ==
    Focus("dm") /\ Menu(DsMenuActs, [ov EXCEPT !.dm = None], ov.dm)

BeMenu == Focus("bm") /\ Menu(BeMenuActs, ov, On(host, None))

\* The property editor: a choice or a text, of a risky property or not.
PropEdit ==
    /\ Focus("browse") /\ ov.pe # None
    /\ \/ Show([ov EXCEPT !.pe = None])
       \/ \E risky \in BOOLEAN :
             \/ Begin(ov, "setprop", ov.pe, "input", risky)
             \/ rw /\ Show([ov EXCEPT !.pk = Prompt("pick", "setprop", ov.pe, risky)])

\* Mutant: stopping a scrub and clearing errors take no unlocking.
Pools_Ungated ==
    /\ Focus("pools")
    /\ \/ \E a \in Acts \cap PoolActs.direct : Dispatch(ov, a, On(host, None), "direct", FALSE)
       \/ \E a \in Acts \cap PoolActs.confirm : Begin(ov, a, On(host, None), "confirm", FALSE)

Pools == Focus("pools") /\ Menu(PoolActs, ov, On(host, None))
-----------------------------------------------------------------------------
(* The browser.                                                            *)

Browsing == Focus("browse") /\ ov.pe = None

MoveCursor ==
    /\ Browsing
    /\ cursor' \in 1 .. Cardinality(Fds)
    /\ Schedule
    /\ Press /\ ran' = None /\ jumped' = FALSE
    /\ UNCHANGED <<tree, host, rows, filter, counted, dossier, platform, landing, ui>>

\* tab, /, enter, x, a, B, s on the row of the cursor.
BrowseKey ==
    /\ Browsing
    /\ \/ Show([ov EXCEPT !.edit = TRUE])
       \/ Show([ov EXCEPT !.bm = TRUE])
       \/ /\ Sel # None
          /\ \/ Has(Sel) /\ Show([ov EXCEPT !.pe = On(host, Sel)])
             \/ OpenSnapMenu(ov, Sel)
             \/ OpenExplorer(ov, Sel)
             \/ Show([ov EXCEPT !.dm = On(rows.of, Sel)])
             \/ Begin(ov, "snapshot-now", On(rows.of, Sel), "input", FALSE)

TypeFilter ==
    /\ Focus("edit")
    /\ filter' \in Filters /\ cursor' = 1
    /\ NoRun /\ Quiet /\ UNCHANGED <<rows, counted, dossier, platform, landing, ui>>

\* Mutant: the dossier is left as it was.
EndFilter_Quiet ==
    /\ Focus("edit")
    /\ ov' = [ov EXCEPT !.edit = None]
    /\ NoRun /\ Quiet
    /\ UNCHANGED <<rows, filter, cursor, counted, dossier, platform, landing, mode, forPane, exp, rw>>

EndFilter ==
    /\ Focus("edit")
    /\ ov' = [ov EXCEPT !.edit = None]
    /\ \/ UNCHANGED <<filter, cursor>>
       \/ filter' = Names /\ cursor' = Clamp(cursor, rows.list)
    /\ Schedule
    /\ Press /\ ran' = None /\ jumped' = FALSE
    /\ UNCHANGED <<tree, host, rows, counted, dossier, platform, landing, mode, forPane, exp, rw>>

\* Another mode, in which the explorer is gone.
GoTo(m, base) ==
    /\ mode' = m /\ ov' = base /\ exp' = None
    /\ UNCHANGED <<list, forPane, rw>>

\* F1 and r scan again; F3 is OpenExplorer, F2, F4 and F6 are modes.
GlobalKey ==
    /\ \E k \in {"browse", "transfer", "explorer", "pools", "shares"} : Focus(k)
    /\ \/ \E o \in {"cmd", "help"} : Show([ov EXCEPT ![o] = TRUE])
       \/ GoTo("browse", ov) /\ NoRun /\ StartScan(host)
       \/ \E m \in {"transfer", "pools", "shares"} : GoTo(m, ov) /\ NoRun /\ Quiet
       \/ Sel # None /\ OpenExplorer(ov, Sel)

\* Esc: back to the browser, with no scan.
Leave ==
    /\ \E k \in {"transfer", "explorer", "pools", "shares"} : Focus(k)
    /\ GoTo("browse", ov) /\ NoRun /\ Quiet

\* Snapshot and replication in the panes.
Transfer ==
    /\ Focus("transfer")
    /\ \E a \in {"pane-snapshot", "replicate"} : Begin(ov, a, On(host, None), "direct", FALSE)

\* g in the shares: the dataset of a share, by its place in the whole list.
JumpToDataset ==
    /\ Focus("shares")
    /\ \/ \E n \in rows.list : cursor' = Cardinality({x \in rows.list : x <= n})
       \/ UNCHANGED cursor
    /\ mode' = "browse" /\ jumped' = (jumped \/ cursor' # cursor) /\ Press /\ ran' = None
    /\ Quiet
    /\ UNCHANGED <<tree, host, rows, filter, counted, dossier, platform, landing, forPane, ov, exp, rw>>

\* The entries of the explorer: two files, then a directory.
Explorer ==
    /\ Focus("explorer")
    /\ \/ /\ exp' \in (IF exp.focus = 0 THEN {[exp EXCEPT !.cur = c] : c \in 1 .. 3} ELSE {exp})
                      \cup {LoadDir(exp)}
                      \cup (IF exp.vers = 0 THEN {} ELSE {[exp EXCEPT !.focus = 1 - @]})
                      \cup (IF exp.focus # 0 \/ exp.cur = 3 THEN {}
                            ELSE {[exp EXCEPT !.vers = @], [exp EXCEPT !.vers = exp.cur, !.focus = 1]})
          /\ NoRun /\ Quiet /\ UNCHANGED <<list, mode, forPane, ov, rw>>
       \/ exp.vers # 0 /\ Show([ov EXCEPT !.pg = TRUE])
       \/ exp.vers # 0 /\ \E how \in {"confirm", "typed"} : Begin(ov, "restore", exp.on, how, FALSE)
-----------------------------------------------------------------------------
(* Connections and commands.                                               *)

\* c, in the browser or in a pane; n, a new one; esc.
Favorites ==
    \/ /\ Browsing \/ Focus("transfer")
       /\ forPane' = (mode = "transfer") /\ mode' = "favorites"
       /\ NoRun /\ Quiet /\ UNCHANGED <<list, ov, exp, rw>>
    \/ Focus("favorites") /\ mode' = "connect" /\ NoRun /\ Quiet /\ UNCHANGED <<list, forPane, ov, exp, rw>>
    \/ /\ Focus("favorites") \/ Focus("connect")
       /\ mode' = (IF forPane THEN "transfer" ELSE "browse") /\ forPane' = FALSE
       /\ NoRun /\ Quiet /\ UNCHANGED <<list, ov, exp, rw>>

\* applyConnect: the browser goes to another host, and what it lists is left
\* as it is until the scan arrives.
Connect(base) ==
    \E h \in Hosts, n \in Names \cup {None} :
        /\ host' = h /\ platform' = None /\ cursor' = 1 /\ filter' = Names /\ landing' = n
        /\ scanGen < MaxScan /\ scanGen' = scanGen + 1
        /\ inbox' = inbox \cup {[is |-> "scan", gen |-> scanGen', of |-> h], [is |-> "plat", gen |-> scanGen', of |-> h]}
        /\ mode' = "browse" /\ ov' = base /\ exp' = None /\ forPane' = FALSE
        /\ Press /\ ran' = None
        /\ UNCHANGED <<tree, rows, counted, dossier, rw, dossGen, jumped>>

ChooseConnection ==
    /\ Focus("favorites") \/ Focus("connect")
    /\ IF forPane THEN /\ mode' = "transfer" /\ forPane' = FALSE
                       /\ NoRun /\ Quiet /\ UNCHANGED <<list, ov, exp, rw>>
       ELSE Connect(ov)

\* runCommand.
Command ==
    /\ Focus("cmd")
    /\ LET base == [ov EXCEPT !.cmd = None]
       IN  \/ Show([base EXCEPT !.help = TRUE]) \/ Show([base EXCEPT !.bm = TRUE])
           \/ GoTo("browse", base) /\ NoRun /\ StartScan(host)
           \/ ov' = base /\ NoRun /\ StartScan(host) /\ UNCHANGED <<list, mode, forPane, exp, rw>>
           \/ \E m \in {"transfer", "pools", "shares"} : GoTo(m, base) /\ NoRun /\ Quiet
           \/ \E n \in Names : OpenExplorer(base, n) \/ OpenSnapMenu(base, n)
           \/ Connect(base)
           \/ Begin(base, "importpool", On(host, None), "direct", FALSE)
           \/ rw' \in BOOLEAN /\ ov' = base /\ NoRun /\ Quiet /\ UNCHANGED <<list, mode, forPane, exp>>

TuiNext ==
    \/ \E m \in inbox :
          \/ Scan(m) \/ DatasetsMsg(m) \/ Overtaken(m) \/ CountsMsg(m)
          \/ DossierTick(m) \/ DossierMsg(m) \/ PlatformMsg(m)
    \/ CloseOverlay \/ AcceptPrompt \/ PickOption \/ SnapMenu \/ DsMenu \/ BeMenu \/ PropEdit
    \/ Pools \/ MoveCursor \/ BrowseKey \/ TypeFilter \/ EndFilter \/ GlobalKey \/ Leave \/ Transfer
    \/ JumpToDataset \/ Explorer \/ Favorites \/ ChooseConnection \/ Command

TuiSpec == TuiInit /\ [][TuiNext]_tuiVars
-----------------------------------------------------------------------------
(* Properties.                                                             *)

Destructive == {"destroy-ds", "rollback", "destroy-snap", "be-rollback", "be-delete"}

\* Whatever overlays and modes a mutation came through, it runs only with
\* mutations unlocked; the destructive ones with the target's name retyped,
\* and a risky property with a yes (requireRW, updatePrompt, updatePicker).
GateHolds ==
    [][ran' # None =>
          /\ rw
          /\ ran'.act \in Destructive => ran'.how = "typed"
          /\ ran'.risky => ran'.how = "confirm"]_tuiVars

Live(kinds, gen) == \E m \in inbox : m.is \in kinds /\ m.gen = gen

\* The list, the counts in it and the platform shown are of the host the
\* browser is on, unless the scan of it is still to arrive: an answer that was
\* overtaken is dropped (scanGen).
LateIsDropped ==
    /\ rows.of # host => Live({"scan", "rows"}, scanGen)
    /\ counted # None => counted = rows.of
    /\ platform # None => platform = host

\* With nothing on its way, the dossier is of the dataset under the cursor,
\* but while the filter is typed and after the jump from the shares (dossGen).
DossierIsSelected ==
    Live({"scan", "rows"}, scanGen) \/ Live({"tick", "dossier"}, dossGen) \/ ov.edit # None \/ jumped
        \/ dossier = On(host, Sel)
=============================================================================
