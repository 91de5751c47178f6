------------------------------ MODULE TuiProofs ------------------------------
(***************************************************************************)
(* What holds of the terminal program for any hosts, datasets and filters, *)
(* however many keys and answers: the read-only gate, and what the late    *)
(* answers may still change.                                               *)
(***************************************************************************)
EXTENDS Tui, TLAPS

Modes == {"browse", "transfer", "explorer", "pools", "shares", "favorites", "connect"}
Panels == {"pg", "help", "pr", "pk", "cmd", "edit", "sm", "dm", "bm", "pe"}

\* Overlays that may be open with mutations unlocked or not (w): a prompt and a
\* choice are about an operation that passed the gate, in the way it has to be
\* confirmed, but for the comparison of two snapshots.
Fits(o, w) ==
    /\ DOMAIN o = Panels
    /\ o.pr # None => /\ w
                      /\ o.pr.act \in Destructive => o.pr.kind = "typed"
                      /\ o.pr.risky => o.pr.kind \in {"confirm", "input"}
    /\ o.pk # None => /\ o.pk.act \notin Destructive
                      /\ w \/ (o.pk.act = "diff2" /\ ~o.pk.risky)

UiInv == mode \in Modes /\ Fits(ov, rw)

\* An operation that this step runs passed the gate.
Gated ==
    ran' # None =>
        /\ rw
        /\ ran'.act \in Destructive => ran'.how = "typed"
        /\ ran'.risky => ran'.how = "confirm"

\* The list and what is shown beside it stand, and at most one thing is asked for.
Stands ==
    /\ UNCHANGED <<host, rows, cursor, filter, counted, dossier, platform, jumped>>
    /\ Quiet \/ Schedule \/ StartScan(host)

\* What a key does that goes through o: the gate is kept, the filter's line stays.
Keeps(o) == Fits(o, rw) /\ (ov.edit # None => o.edit # None)

Proceeds ==
    /\ Stands /\ Gated
    /\ Fits(ov', rw') /\ (ov.edit # None => ov'.edit # None)
    /\ mode' \in Modes
-----------------------------------------------------------------------------
(* The keys.                                                               *)

\* A key goes to the first overlay that is open.
LEMMA FocusIsFirst ==
    ASSUME UiInv
    PROVE  /\ \A o \in {"pg", "help", "pr", "pk", "cmd", "edit", "sm", "dm", "bm"} : Focus(o) => ov[o] # None
           /\ Focus("cmd") => ov.pr = None /\ ov.pk = None
<1>1. DOMAIN Overlays = 1 .. 9
  BY DEF Overlays
<1>2. ASSUME NEW o \in {"pg", "help", "pr", "pk", "cmd", "edit", "sm", "dm", "bm"}, Focus(o)
      PROVE  \E i \in 1 .. 9 :
                 o = Overlays[i] /\ ov[o] # None /\ \A j \in 1 .. i - 1 : ov[Overlays[j]] = None
  BY <1>1, <1>2 DEF Focus, UiInv, Modes
<1>3. ASSUME Focus("cmd") PROVE ov.pr = None /\ ov.pk = None
  <2>1. PICK i \in 1 .. 9 : "cmd" = Overlays[i] /\ \A j \in 1 .. i - 1 : ov[Overlays[j]] = None
    BY <1>2, <1>3
  <2>2. i = 5
    BY <2>1 DEF Overlays
  <2>3. Overlays[3] = "pr" /\ Overlays[4] = "pk"
    BY DEF Overlays
  <2> QED
    BY <2>1, <2>2, <2>3
<1> QED
  BY <1>2, <1>3

\* Overlays change.
LEMMA ShowProceeds ==
    ASSUME UiInv, NEW o, Keeps(o), Show(o)
    PROVE  Proceeds
BY DEF UiInv, Keeps, Show, NoRun, Proceeds, Stands, Gated, list

\* One overlay that is neither a prompt nor a choice nor the filter opens or goes,
\* or a prompt or a choice goes.
LEMMA OverlayKeeps ==
    ASSUME NEW base, Keeps(base), NEW o \in Panels, NEW v,
           o \in {"pr", "pk"} => v = None, o # "edit" \/ v # None
    PROVE  Keeps([base EXCEPT ![o] = v])
<1> DEFINE new == [base EXCEPT ![o] = v]
<1>1. DOMAIN base = Panels
  BY DEF Keeps, Fits
<1>2. DOMAIN new = Panels /\ new[o] = v /\ \A q \in Panels \ {o} : new[q] = base[q]
  BY <1>1
<1>3. "pr" \in Panels /\ "pk" \in Panels /\ "edit" \in Panels
  BY DEF Panels
<1> HIDE DEF new
<1>4. new.pr \in {None, base.pr} /\ new.pk \in {None, base.pk} /\ (base.edit # None => new.edit # None)
  BY <1>2, <1>3
<1>5. Keeps(new)
  BY <1>2, <1>4 DEF Keeps, Fits
<1> QED
  BY <1>5 DEF new

\* A prompt for an operation that passed the gate.
LEMMA PromptKeeps ==
    ASSUME NEW base, Keeps(base), rw, NEW kind, NEW act, NEW on, NEW risky,
           act \in Destructive => kind = "typed", risky => kind \in {"confirm", "input"}
    PROVE  Keeps([base EXCEPT !.pr = Prompt(kind, act, on, risky)])
<1> DEFINE p == Prompt(kind, act, on, risky)
           new == [base EXCEPT !.pr = p]
<1>1. DOMAIN base = Panels /\ "pr" \in Panels /\ "pk" \in Panels /\ "edit" \in Panels
  BY DEF Keeps, Fits, Panels
<1>2. p.kind = kind /\ p.act = act /\ p.risky = risky
  BY DEF Prompt
<1> HIDE DEF p
<1>3. DOMAIN new = Panels /\ new.pr = p /\ new.pk = base.pk /\ new.edit = base.edit
  BY <1>1
<1> HIDE DEF new
<1>4. Keeps(new)
  BY <1>2, <1>3 DEF Keeps, Fits
<1> QED
  BY <1>4 DEF new, p

\* A choice of a value, or of a second snapshot.
LEMMA PickKeeps ==
    ASSUME NEW base, Keeps(base), NEW act, NEW on, NEW risky \in BOOLEAN,
           (act = "setprop" /\ rw) \/ (act = "diff2" /\ ~risky)
    PROVE  Keeps([base EXCEPT !.pk = Prompt("pick", act, on, risky)])
<1> DEFINE p == Prompt("pick", act, on, risky)
           new == [base EXCEPT !.pk = p]
<1>1. DOMAIN base = Panels /\ "pr" \in Panels /\ "pk" \in Panels /\ "edit" \in Panels
  BY DEF Keeps, Fits, Panels
<1>2. p.act = act /\ p.risky = risky
  BY DEF Prompt
<1> HIDE DEF p
<1>3. DOMAIN new = Panels /\ new.pk = p /\ new.pr = base.pr /\ new.edit = base.edit
  BY <1>1
<1> HIDE DEF new
<1>4. Keeps(new)
  BY <1>2, <1>3 DEF Keeps, Fits, Destructive
<1> QED
  BY <1>4 DEF new, p

\* An overlay whose own content changes stays what it is.
LEMMA SnapMenuKeeps ==
    ASSUME NEW base, Keeps(base), NEW b
    PROVE  Keeps([base EXCEPT !.sm.acts = b])
<1>1. [base EXCEPT !.sm.acts = b] = [base EXCEPT !["sm"] = [base.sm EXCEPT !.acts = b]]
  OBVIOUS
<1> QED
  BY <1>1, OverlayKeeps DEF Panels

\* An operation that passed the gate runs; two of them go on to a prompt, and the
\* comparison opens the pager.
LEMMA DispatchProceeds ==
    ASSUME UiInv, NEW base, Keeps(base), NEW act, NEW on, NEW how, NEW risky,
           rw \/ act = "diff2",
           act \in Destructive => how = "typed", risky => how = "confirm",
           Dispatch(base, act, on, how, risky)
    PROVE  Proceeds
<1>1. Stands /\ rw' = rw /\ mode' = mode
  BY DEF Dispatch, Press, Stands, list
<1>2. CASE act \in {"create-zvol-name", "create-enc-name"}
  <2>1. PICK next \in {"create-zvol", "create-enc"} :
            ran' = None /\ ov' = [base EXCEPT !.pr = Prompt("input", next, on, FALSE)]
    BY <1>2 DEF Dispatch
  <2>2. Keeps(ov')
    BY <1>2, <2>1, PromptKeeps DEF Destructive
  <2> QED
    BY <1>1, <2>1, <2>2 DEF Proceeds, Keeps, Gated, UiInv
<1>3. CASE act = "diff2"
  <2>1. ran' = None /\ ov' = [base EXCEPT !.pg = TRUE]
    BY <1>3 DEF Dispatch
  <2>2. Keeps(ov')
    BY <2>1, OverlayKeeps DEF Panels
  <2> QED
    BY <1>1, <2>1, <2>2 DEF Proceeds, Keeps, Gated, UiInv
<1>4. CASE act \notin {"create-zvol-name", "create-enc-name", "diff2"}
  <2>1. /\ ran' = [act |-> act, on |-> on, how |-> how, risky |-> risky]
        /\ ov' = base \/ ov' = [base EXCEPT !.sm.acts = FALSE]
    BY <1>4 DEF Dispatch
  <2>2. Keeps(ov')
    BY <2>1, SnapMenuKeeps
  <2>3. Gated
    BY <1>4, <2>1 DEF Gated
  <2> QED
    BY <1>1, <2>2, <2>3 DEF Proceeds, Keeps, UiInv
<1> QED
  BY <1>2, <1>3, <1>4

\* An operation is asked for.
LEMMA BeginProceeds ==
    ASSUME UiInv, NEW base, Keeps(base), NEW act, NEW on, NEW how, NEW risky,
           act \in Destructive => how = "typed", risky => how \in {"confirm", "input"},
           Begin(base, act, on, how, risky)
    PROVE  Proceeds
<1>1. rw
  BY DEF Begin
<1>2. CASE how = "direct"
  BY <1>1, <1>2, DispatchProceeds DEF Begin
<1>3. CASE how # "direct"
  <2>1. ov' = [base EXCEPT !.pr = Prompt(how, act, on, risky)]
    BY <1>3 DEF Begin
  <2>2. Keeps(ov')
    BY <1>1, <2>1, PromptKeeps
  <2>3. Stands /\ ran' = None /\ rw' = rw /\ mode' = mode
    BY <1>3 DEF Begin, NoRun, Stands, list
  <2> QED
    BY <2>2, <2>3 DEF Proceeds, Keeps, Gated, UiInv
<1> QED
  BY <1>2, <1>3

\* A line of one of the menus, each of which asks for what is destructive by name.
LEMMA MenuProceeds ==
    ASSUME UiInv, NEW base, Keeps(base), NEW acts \in {DsMenuActs, SnapMenuActs, BeMenuActs, PoolActs},
           NEW on, Menu(acts, base, on)
    PROVE  Proceeds
<1>1. PICK how \in DOMAIN acts : \E act \in acts[how] : Begin(base, act, on, how, FALSE)
  BY DEF Menu
<1>2. PICK act \in acts[how] : Begin(base, act, on, how, FALSE)
  BY <1>1
<1>3. act \in Destructive => how = "typed"
  <2>1. CASE acts = DsMenuActs
    BY <2>1 DEF DsMenuActs, Destructive
  <2>2. CASE acts = SnapMenuActs
    BY <2>2 DEF SnapMenuActs, Destructive
  <2>3. CASE acts = BeMenuActs
    BY <2>3 DEF BeMenuActs, Destructive
  <2>4. CASE acts = PoolActs
    BY <2>4 DEF PoolActs, Destructive
  <2> QED
    BY <2>1, <2>2, <2>3, <2>4
<1> QED
  BY <1>2, <1>3, BeginProceeds

\* Another mode.
LEMMA GoesProceed ==
    ASSUME UiInv, NEW base, Keeps(base)
    PROVE  /\ \A m \in Modes : GoTo(m, base) /\ NoRun /\ (Quiet \/ StartScan(host)) => Proceeds
           /\ \A n : OpenExplorer(base, n) \/ OpenSnapMenu(base, n) => Proceeds
<1>1. ASSUME NEW m \in Modes, GoTo(m, base), NoRun, Quiet \/ StartScan(host) PROVE Proceeds
  BY <1>1 DEF GoTo, NoRun, Proceeds, Stands, Gated, Keeps, list
<1>2. ASSUME NEW n, OpenExplorer(base, n) PROVE Proceeds
  BY <1>2 DEF OpenExplorer, NoRun, Proceeds, Stands, Gated, Keeps, list, Modes
<1>3. ASSUME NEW n, OpenSnapMenu(base, n) PROVE Proceeds
  <2>1. Keeps([base EXCEPT !.sm = [on |-> On(host, n), acts |-> FALSE]])
    BY OverlayKeeps DEF Panels
  <2> QED
    BY <1>3, <2>1, ShowProceeds DEF OpenSnapMenu
<1> QED
  BY <1>1, <1>2, <1>3

\* A yes, a text or a name, or a choice from a list, in the overlay that asked.
LEMMA AnswersProceed == ASSUME UiInv, AcceptPrompt \/ PickOption PROVE Proceeds
<1>1. Keeps(ov) /\ Keeps([ov EXCEPT !.pr = None]) /\ Keeps([ov EXCEPT !.pk = None])
  <2>1. Keeps(ov)
    BY DEF UiInv, Keeps
  <2> QED
    BY <2>1, OverlayKeeps DEF Panels
<1>2. CASE AcceptPrompt
  <2>1. /\ rw /\ (ov.pr.act \in Destructive => ov.pr.kind = "typed")
        /\ ov.pr.risky => ov.pr.kind \in {"confirm", "input"}
    BY <1>2, FocusIsFirst DEF AcceptPrompt, UiInv, Fits
  <2>2. CASE ov.pr.kind = "input" /\ ov.pr.risky
    <3>1. Keeps([ov EXCEPT !.pr = Prompt("confirm", "setprop", ov.pr.on, TRUE)])
      BY <1>1, <2>1, PromptKeeps DEF Destructive
    <3> QED
      BY <1>2, <2>2, <3>1, ShowProceeds DEF AcceptPrompt
  <2>3. CASE ~(ov.pr.kind = "input" /\ ov.pr.risky)
    BY <1>1, <1>2, <2>1, <2>3, DispatchProceeds DEF AcceptPrompt
  <2> QED
    BY <2>2, <2>3
<1>3. CASE PickOption
  <2>1. /\ ov.pk.act \notin Destructive
        /\ rw \/ (ov.pk.act = "diff2" /\ ~ov.pk.risky)
    BY <1>3, FocusIsFirst DEF PickOption, UiInv, Fits
  <2>2. CASE ov.pk.risky
    <3>1. Keeps([[ov EXCEPT !.pk = None] EXCEPT !.pr = Prompt("confirm", "setprop", ov.pk.on, TRUE)])
      BY <1>1, <2>1, <2>2, PromptKeeps DEF Destructive
    <3>2. [ov EXCEPT !.pk = None, !.pr = Prompt("confirm", "setprop", ov.pk.on, TRUE)]
             = [[ov EXCEPT !.pk = None] EXCEPT !.pr = Prompt("confirm", "setprop", ov.pk.on, TRUE)]
      OBVIOUS
    <3> QED
      BY <1>3, <2>2, <3>1, <3>2, ShowProceeds DEF PickOption
  <2>3. CASE ~ov.pk.risky
    BY <1>1, <1>3, <2>1, <2>3, DispatchProceeds DEF PickOption
  <2> QED
    BY <2>2, <2>3
<1> QED
  BY <1>2, <1>3

\* An overlay goes, or the list of actions in the snapshot menu.
LEMMA ClosesProceed == ASSUME UiInv, CloseOverlay PROVE Proceeds
<1>1. PICK o \in ToSet(Overlays) \ {"edit"} :
          Show(IF o = "sm" /\ ov.sm.acts THEN [ov EXCEPT !.sm.acts = FALSE] ELSE [ov EXCEPT ![o] = None])
  BY DEF CloseOverlay
<1>2. Keeps(ov) /\ o \in Panels
  BY DEF UiInv, Keeps, ToSet, Overlays, Panels
<1>3. Keeps([ov EXCEPT !.sm.acts = FALSE]) /\ Keeps([ov EXCEPT ![o] = None])
  BY <1>1, <1>2, OverlayKeeps, SnapMenuKeeps
<1> QED
  BY <1>1, <1>3, ShowProceeds

\* The menus, the property editor and the pools.
LEMMA MenusProceed ==
    ASSUME UiInv, SnapMenu \/ DsMenu \/ BeMenu \/ PropEdit \/ Pools
    PROVE  Proceeds
<1>1. /\ Keeps(ov) /\ Keeps([ov EXCEPT !.sm.acts = TRUE]) /\ Keeps([ov EXCEPT !.sm = None])
      /\ Keeps([ov EXCEPT !.dm = None]) /\ Keeps([ov EXCEPT !.pe = None]) /\ Keeps([ov EXCEPT !.pg = TRUE])
  <2>1. Keeps(ov)
    BY DEF UiInv, Keeps
  <2> QED
    BY <2>1, OverlayKeeps, SnapMenuKeeps DEF Panels
<1>2. CASE SnapMenu
  <2>1. Keeps([ov EXCEPT !.pk = Prompt("pick", "diff2", ov.sm.on, FALSE)])
    BY <1>1, PickKeeps
  <2> QED
    BY <1>1, <1>2, <2>1, ShowProceeds, GoesProceed, MenuProceeds DEF SnapMenu
<1>3. CASE DsMenu
  BY <1>1, <1>3, MenuProceeds DEF DsMenu
<1>4. CASE BeMenu \/ Pools
  BY <1>1, <1>4, MenuProceeds DEF BeMenu, Pools
<1>5. CASE PropEdit
  <2>1. CASE Show([ov EXCEPT !.pe = None])
    BY <1>1, <2>1, ShowProceeds
  <2>2. ASSUME NEW risky \in BOOLEAN, Begin(ov, "setprop", ov.pe, "input", risky) PROVE Proceeds
    BY <1>1, <2>2, BeginProceeds DEF Destructive
  <2>3. ASSUME NEW risky \in BOOLEAN, rw, Show([ov EXCEPT !.pk = Prompt("pick", "setprop", ov.pe, risky)])
        PROVE  Proceeds
    <3>1. Keeps([ov EXCEPT !.pk = Prompt("pick", "setprop", ov.pe, risky)])
      BY <1>1, <2>3, PickKeeps
    <3> QED
      BY <2>3, <3>1, ShowProceeds
  <2> QED
    BY <1>5, <2>1, <2>2, <2>3 DEF PropEdit
<1> QED
  BY <1>2, <1>3, <1>4, <1>5

\* The browser's keys, the keys of every mode, the panes and the explorer.
LEMMA ModesProceed ==
    ASSUME UiInv, BrowseKey \/ GlobalKey \/ Leave \/ Transfer \/ Explorer \/ Favorites
    PROVE  Proceeds
<1>1. Keeps(ov) /\ TRUE # None
  BY TuiAssumption DEF UiInv, Keeps
<1>2. CASE BrowseKey
  <2>1. /\ Keeps([ov EXCEPT !.edit = TRUE]) /\ Keeps([ov EXCEPT !.bm = TRUE])
        /\ \A v : Keeps([ov EXCEPT !.pe = v]) /\ Keeps([ov EXCEPT !.dm = v])
    BY <1>1, OverlayKeeps DEF Panels
  <2>2. ASSUME Begin(ov, "snapshot-now", On(rows.of, Sel), "input", FALSE) PROVE Proceeds
    BY <1>1, <2>2, BeginProceeds DEF Destructive
  <2> QED
    BY <1>1, <1>2, <2>1, <2>2, ShowProceeds, GoesProceed DEF BrowseKey
<1>3. CASE GlobalKey
  <2>1. ASSUME NEW o \in {"cmd", "help"}, Show([ov EXCEPT ![o] = TRUE]) PROVE Proceeds
    <3>1. Keeps([ov EXCEPT ![o] = TRUE])
      BY <1>1, OverlayKeeps DEF Panels
    <3> QED
      BY <2>1, <3>1, ShowProceeds
  <2> QED
    BY <1>1, <1>3, <2>1, GoesProceed DEF GlobalKey, Modes
<1>4. CASE Leave
  BY <1>1, <1>4, GoesProceed DEF Leave, Modes
<1>5. CASE Transfer
  BY <1>1, <1>5, BeginProceeds DEF Transfer, Destructive
<1>6. CASE Explorer
  <2>1. Keeps([ov EXCEPT !.pg = TRUE])
    BY <1>1, OverlayKeeps DEF Panels
  <2>2. CASE NoRun /\ Quiet /\ UNCHANGED <<list, mode, forPane, ov, rw>>
    BY <1>1, <2>2 DEF NoRun, Proceeds, Stands, Gated, Keeps, list, UiInv
  <2>3. ASSUME NEW how \in {"confirm", "typed"}, Begin(ov, "restore", exp.on, how, FALSE) PROVE Proceeds
    BY <1>1, <2>3, BeginProceeds DEF Destructive
  <2> QED
    BY <1>6, <2>1, <2>2, <2>3, ShowProceeds DEF Explorer
<1>7. CASE Favorites
  <2>1. NoRun /\ Quiet /\ UNCHANGED <<list, ov, rw>> /\ mode' \in Modes
    BY <1>7 DEF Favorites, Modes
  <2> QED
    BY <1>1, <2>1 DEF NoRun, Proceeds, Stands, Gated, Keeps, list
<1> QED
  BY <1>2, <1>3, <1>4, <1>5, <1>6, <1>7

\* A connection is chosen: of a pane, or the browser goes to its host; and what is
\* typed on the command line, which is open over no prompt.
LEMMA CommandsProceed ==
    ASSUME UiInv, ChooseConnection \/ Command
    PROVE  Proceeds \/ \E base : Keeps(base) /\ Connect(base)
<1>1. Keeps(ov)
  BY DEF UiInv, Keeps
<1>2. CASE ChooseConnection
  <2>1. CASE mode' = "transfer" /\ NoRun /\ Quiet /\ UNCHANGED <<list, ov, rw>>
    BY <1>1, <2>1 DEF NoRun, Proceeds, Stands, Gated, Keeps, list, Modes
  <2> QED
    BY <1>1, <1>2, <2>1 DEF ChooseConnection
<1>3. CASE Command
  <2> DEFINE base == [ov EXCEPT !.cmd = None]
  <2>1. Keeps(base) /\ base.pr = None /\ base.pk = None
    <3>1. ov.pr = None /\ ov.pk = None
      BY <1>3, FocusIsFirst DEF Command
    <3> QED
      BY <1>1, <3>1, OverlayKeeps DEF Panels, Keeps, Fits
  <2>2. /\ Keeps([base EXCEPT !.help = TRUE]) /\ Keeps([base EXCEPT !.bm = TRUE])
    BY <2>1, OverlayKeeps DEF Panels
  <2>3. \/ Show([base EXCEPT !.help = TRUE]) \/ Show([base EXCEPT !.bm = TRUE])
        \/ GoTo("browse", base) /\ NoRun /\ StartScan(host)
        \/ ov' = base /\ NoRun /\ StartScan(host) /\ UNCHANGED <<list, mode, forPane, exp, rw>>
        \/ \E m \in {"transfer", "pools", "shares"} : GoTo(m, base) /\ NoRun /\ Quiet
        \/ \E n \in Names : OpenExplorer(base, n) \/ OpenSnapMenu(base, n)
        \/ Connect(base)
        \/ Begin(base, "importpool", On(host, None), "direct", FALSE)
        \/ rw' \in BOOLEAN /\ ov' = base /\ NoRun /\ Quiet /\ UNCHANGED <<list, mode, forPane, exp>>
    BY <1>3 DEF Command
  <2> HIDE DEF base
  <2>4. CASE ov' = base /\ NoRun /\ StartScan(host) /\ UNCHANGED <<list, mode, forPane, exp, rw>>
    BY <2>1, <2>4 DEF NoRun, Proceeds, Stands, Gated, Keeps, list, UiInv
  <2>5. CASE rw' \in BOOLEAN /\ ov' = base /\ NoRun /\ Quiet /\ UNCHANGED <<list, mode, forPane, exp>>
    BY <2>1, <2>5 DEF NoRun, Proceeds, Stands, Gated, Keeps, Fits, list, UiInv
  <2>6. CASE Begin(base, "importpool", On(host, None), "direct", FALSE)
    BY <2>1, <2>6, BeginProceeds DEF Destructive
  <2>7. CASE \/ GoTo("browse", base) /\ NoRun /\ StartScan(host)
             \/ \E m \in {"transfer", "pools", "shares"} : GoTo(m, base) /\ NoRun /\ Quiet
             \/ \E n \in Names : OpenExplorer(base, n) \/ OpenSnapMenu(base, n)
    BY <2>1, <2>7, GoesProceed DEF Modes
  <2> QED
    BY <2>1, <2>2, <2>3, <2>4, <2>5, <2>6, <2>7, ShowProceeds
<1> QED
  BY <1>2, <1>3

\* The keys that move nothing in the list.
Plain ==
    \/ CloseOverlay \/ AcceptPrompt \/ PickOption \/ SnapMenu \/ DsMenu \/ BeMenu \/ PropEdit
    \/ Pools \/ BrowseKey \/ GlobalKey \/ Leave \/ Transfer \/ Explorer \/ Favorites
    \/ ChooseConnection \/ Command

\* The answers.
Answer ==
    \E m \in inbox :
       \/ Scan(m) \/ DatasetsMsg(m) \/ Overtaken(m) \/ CountsMsg(m)
       \/ DossierTick(m) \/ DossierMsg(m) \/ PlatformMsg(m)

\* Every step is an answer, a key that moves nothing in the list, or one of four.
LEMMA Steps ==
    ASSUME UiInv, TuiNext
    PROVE  \/ Answer \/ Proceeds \/ \E base : Keeps(base) /\ Connect(base)
           \/ MoveCursor \/ TypeFilter \/ EndFilter \/ JumpToDataset
BY ClosesProceed, AnswersProceed, MenusProceed, ModesProceed, CommandsProceed DEF TuiNext, Answer

\* The overlays and the mode after any step, and what it may have run.
LEMMA UiStep == ASSUME UiInv, [TuiNext]_tuiVars PROVE UiInv' /\ [Gated]_tuiVars
<1>1. CASE UNCHANGED tuiVars
  BY <1>1 DEF tuiVars, ui, UiInv, Fits
<1>2. CASE Answer
  <2>1. UNCHANGED ui /\ ran' = None
    BY <1>2 DEF Answer, Scan, DatasetsMsg, Overtaken, CountsMsg, DossierTick, DossierMsg, PlatformMsg, Arrived
  <2> QED
    BY <2>1 DEF ui, UiInv, Fits, Gated
<1>3. CASE Proceeds
  BY <1>3 DEF Proceeds, UiInv, Fits
<1>4. ASSUME NEW base, Keeps(base), Connect(base) PROVE UiInv' /\ Gated
  BY <1>4 DEF Connect, Keeps, UiInv, Fits, Gated, Modes
<1>5. CASE MoveCursor \/ TypeFilter
  BY <1>5 DEF MoveCursor, TypeFilter, NoRun, ui, UiInv, Fits, Gated
<1>6. CASE EndFilter
  <2>1. ov' = [ov EXCEPT !.edit = None] /\ ran' = None /\ UNCHANGED <<mode, rw>>
    BY <1>6 DEF EndFilter
  <2>2. /\ DOMAIN ov = Panels /\ "pr" \in Panels /\ "pk" \in Panels
    BY DEF UiInv, Fits, Panels
  <2>3. DOMAIN ov' = Panels /\ ov'.pr = ov.pr /\ ov'.pk = ov.pk
    BY <2>1, <2>2
  <2> QED
    BY <2>1, <2>3 DEF UiInv, Fits, Gated
<1>7. CASE JumpToDataset
  BY <1>7 DEF JumpToDataset, UiInv, Fits, Gated, Modes
<1> QED
  BY <1>1, <1>2, <1>3, <1>4, <1>5, <1>6, <1>7, Steps DEF Proceeds
-----------------------------------------------------------------------------
(* The gate.                                                               *)

\* Whatever is open was opened past the gate, if it is about a mutation.
THEOREM UiInvariance == TuiSpec => []UiInv
<1>1. TuiInit => UiInv
  <2> SUFFICES ASSUME TuiInit PROVE UiInv
    OBVIOUS
  <2>1. ToSet(Overlays) \cup {"pe"} = Panels
    BY DEF ToSet, Overlays, Panels
  <2>2. ov = [o \in Panels |-> None] /\ mode = "browse"
    BY <2>1 DEF TuiInit, Closed
  <2> QED
    BY <2>2 DEF UiInv, Fits, Modes, Panels
<1>2. UiInv /\ [TuiNext]_tuiVars => UiInv'
  BY UiStep
<1> QED
  BY <1>1, <1>2, PTL DEF TuiSpec

\* A mutation runs only with mutations unlocked, a destructive one with the name
\* of its target retyped, a risky one with a yes, whatever it came through.
THEOREM GateIsKept == TuiSpec => GateHolds
<1>1. UiInv /\ [TuiNext]_tuiVars => [Gated]_tuiVars
  BY UiStep
<1> QED
  BY <1>1, UiInvariance, PTL DEF GateHolds, Gated, TuiSpec
-----------------------------------------------------------------------------
(* The late answers.                                                       *)

\* Of the latest scan: what is on its way is of the host the browser is on, and
\* the counts are asked for when its rows are there.
LateInv ==
    /\ scanGen \in Nat
    /\ \A m \in inbox :
          m.is \in {"scan", "rows", "counts", "plat"} =>
              /\ m.gen \in Nat /\ m.gen <= scanGen
              /\ m.gen = scanGen => m.of = host /\ (m.is = "counts" => rows.of = host)
    /\ LateIsDropped

\* A step that drops no scan that is current, and sends nothing but a wait or a
\* question for a dossier.
LEMMA LateKept ==
    ASSUME LateInv, UNCHANGED <<host, rows, scanGen>>,
           counted' \in {counted, rows.of, None}, platform' \in {platform, host, None},
           \A m \in inbox : m.is \in {"scan", "rows"} /\ m.gen = scanGen => m \in inbox',
           \A m \in inbox' : m \in inbox \/ m.is \in {"tick", "dossier"}
    PROVE  LateInv'
<1>1. rows.of # host => Live({"scan", "rows"}, scanGen)'
  BY DEF LateInv, LateIsDropped, Live
<1>2. LateIsDropped'
  BY <1>1 DEF LateInv, LateIsDropped
<1> QED
  BY <1>2 DEF LateInv

\* A scan starts: everything of the earlier ones is late now.
LEMMA LateScan ==
    ASSUME LateInv, NEW h, host' = h, UNCHANGED <<rows, counted>>, platform' \in {platform, None},
           h = host \/ platform' = None, scanGen' = scanGen + 1,
           [is |-> "scan", gen |-> scanGen', of |-> h] \in inbox',
           \A m \in inbox' : \/ m \in inbox
                             \/ m = [is |-> "scan", gen |-> scanGen', of |-> h]
                             \/ m = [is |-> "plat", gen |-> scanGen', of |-> h]
    PROVE  LateInv'
<1>1. scanGen' \in Nat /\ scanGen \in Nat /\ scanGen' = scanGen + 1
  BY DEF LateInv
<1>2. ASSUME NEW m \in inbox', m.is \in {"scan", "rows", "counts", "plat"}
      PROVE  /\ m.gen \in Nat /\ m.gen <= scanGen'
             /\ m.gen = scanGen' => m.of = h /\ m.is # "counts"
  <2>1. CASE m \in inbox
    BY <1>1, <1>2, <2>1 DEF LateInv
  <2>2. CASE m = [is |-> "scan", gen |-> scanGen', of |-> h] \/ m = [is |-> "plat", gen |-> scanGen', of |-> h]
    BY <1>1, <2>2
  <2> QED
    BY <2>1, <2>2
<1>3. Live({"scan", "rows"}, scanGen)'
  BY DEF Live
<1>4. LateIsDropped'
  BY <1>3 DEF LateInv, LateIsDropped
<1> QED
  BY <1>1, <1>2, <1>4 DEF LateInv

\* Each answer.
LEMMA LateAnswers == ASSUME LateInv, Answer PROVE LateInv'
<1>1. PICK m \in inbox :
         \/ Scan(m) \/ DatasetsMsg(m) \/ Overtaken(m) \/ CountsMsg(m)
         \/ DossierTick(m) \/ DossierMsg(m) \/ PlatformMsg(m)
  BY DEF Answer
<1>2. CASE Scan(m)
  <2>1. PICK l \in {tree[m.of], {}} :
            inbox' = (inbox \ {m}) \cup {[is |-> "rows", gen |-> m.gen, of |-> m.of, list |-> l]}
    BY <1>2 DEF Scan
  <2> DEFINE r == [is |-> "rows", gen |-> m.gen, of |-> m.of, list |-> l]
  <2>2. m.is = "scan" /\ UNCHANGED <<host, rows, counted, platform, scanGen>>
    BY <1>2 DEF Scan, Arrived, list
  <2>3. r.is = "rows" /\ r.gen = m.gen /\ r.of = m.of /\ r \in inbox'
    BY <2>1
  <2>4. \A x \in inbox' : x \in inbox \/ x = r
    BY <2>1
  <2>5. \A x \in inbox : x = m \/ x \in inbox'
    BY <2>1
  <2> HIDE DEF r
  <2>6. ASSUME NEW x \in inbox', x.is \in {"scan", "rows", "counts", "plat"}
        PROVE  /\ x.gen \in Nat /\ x.gen <= scanGen
               /\ x.gen = scanGen => x.of = host /\ (x.is = "counts" => rows.of = host)
    BY <2>2, <2>3, <2>4, <2>6 DEF LateInv
  <2>7. rows.of # host => Live({"scan", "rows"}, scanGen)'
    BY <2>2, <2>3, <2>5 DEF LateInv, LateIsDropped, Live
  <2>8. LateIsDropped'
    BY <2>2, <2>7 DEF LateInv, LateIsDropped
  <2> QED
    BY <2>2, <2>6, <2>8 DEF LateInv
<1>3. CASE DatasetsMsg(m)
  <2>1. /\ m.is = "rows" /\ m.gen = scanGen
        /\ rows' = [of |-> m.of, list |-> m.list] /\ counted' = None
        /\ UNCHANGED <<host, platform, scanGen>>
        /\ inbox' = (inbox \ {m}) \cup {[is |-> "counts", gen |-> m.gen, of |-> host],
                                        [is |-> "tick", gen |-> dossGen']}
    BY <1>3 DEF DatasetsMsg
  <2>2. rows'.of = host
    BY <2>1 DEF LateInv
  <2>3. ASSUME NEW x \in inbox', x.is \in {"scan", "rows", "counts", "plat"}
        PROVE  x.gen \in Nat /\ x.gen <= scanGen /\ (x.gen = scanGen => x.of = host)
    <3>1. CASE x \in inbox
      BY <2>3, <3>1 DEF LateInv
    <3>2. CASE x = [is |-> "counts", gen |-> m.gen, of |-> host]
      BY <2>1, <3>2 DEF LateInv
    <3>3. CASE x = [is |-> "tick", gen |-> dossGen']
      BY <2>3, <3>3
    <3> QED
      BY <2>1, <3>1, <3>2, <3>3
  <2>4. LateIsDropped'
    BY <2>1, <2>2 DEF LateInv, LateIsDropped
  <2> QED
    BY <2>1, <2>2, <2>3, <2>4 DEF LateInv
<1>4. CASE Overtaken(m)
  BY <1>4, LateKept DEF Overtaken, Arrived, list
<1>5. CASE CountsMsg(m)
  <2>1. m.is = "counts" /\ m.of = rows.of
    BY <1>5 DEF CountsMsg, LateInv
  <2> QED
    BY <1>5, <2>1, LateKept DEF CountsMsg, Arrived
<1>6. CASE DossierTick(m)
  BY <1>6, LateKept DEF DossierTick, Arrived, list
<1>7. CASE DossierMsg(m)
  BY <1>7, LateKept DEF DossierMsg, Arrived
<1>8. CASE PlatformMsg(m)
  <2>1. m.is = "plat" /\ m.of = host
    BY <1>8 DEF PlatformMsg, LateInv
  <2> QED
    BY <1>8, <2>1, LateKept DEF PlatformMsg, Arrived
<1> QED
  BY <1>1, <1>2, <1>3, <1>4, <1>5, <1>6, <1>7, <1>8

\* Keys ask for at most one thing.
LEMMA LateAsked ==
    ASSUME LateInv, UNCHANGED <<host, rows, counted, platform>>, Quiet \/ Schedule \/ StartScan(host)
    PROVE  LateInv'
<1>1. CASE Quiet
  BY <1>1, LateKept DEF Quiet, bg
<1>2. CASE Schedule
  BY <1>2, LateKept DEF Schedule
<1>3. CASE StartScan(host)
  BY <1>3, LateScan DEF StartScan
<1> QED
  BY <1>1, <1>2, <1>3

\* The list, the counts and the platform after any step.
LEMMA LateStep == ASSUME UiInv, LateInv, [TuiNext]_tuiVars PROVE LateInv'
<1>1. CASE UNCHANGED tuiVars
  BY <1>1 DEF tuiVars, bg, list, LateInv, LateIsDropped, Live
<1>2. CASE Answer
  BY <1>2, LateAnswers
<1>3. CASE Proceeds
  BY <1>3, LateAsked DEF Proceeds, Stands
<1>4. ASSUME NEW base, Connect(base) PROVE LateInv'
  <2>1. PICK h \in Hosts :
            /\ host' = h /\ platform' = None /\ scanGen' = scanGen + 1
            /\ inbox' = inbox \cup {[is |-> "scan", gen |-> scanGen', of |-> h],
                                    [is |-> "plat", gen |-> scanGen', of |-> h]}
            /\ UNCHANGED <<rows, counted>>
    BY <1>4 DEF Connect
  <2> QED
    BY <2>1, LateScan
<1>5. CASE MoveCursor \/ TypeFilter \/ EndFilter \/ JumpToDataset
  BY <1>5, LateAsked DEF MoveCursor, TypeFilter, EndFilter, JumpToDataset, NoRun
<1> QED
  BY <1>1, <1>2, <1>3, <1>4, <1>5, Steps

\* An answer that was overtaken changes nothing: the list, the counts in it and the
\* platform are of the host the browser is on, or its scan is still to arrive.
THEOREM LateAnswersAreDropped == TuiSpec => []LateIsDropped
<1>1. TuiInit => LateInv
  BY TuiAssumption DEF TuiInit, LateInv, LateIsDropped
<1>2. UiInv /\ LateInv /\ [TuiNext]_tuiVars => LateInv'
  BY LateStep
<1>3. LateInv => LateIsDropped
  BY DEF LateInv
<1> QED
  BY <1>1, <1>2, <1>3, UiInvariance, PTL DEF TuiSpec
-----------------------------------------------------------------------------
(* The dossier.                                                            *)

\* What excuses a dossier that is not of the selected dataset: a scan is on its
\* way, the filter is being typed, or the cursor was set from the shares.
Excused == Live({"scan", "rows"}, scanGen) \/ ov.edit # None \/ jumped

\* The latest dossier that is on its way is of what is selected.
DossInv ==
    /\ dossGen \in Nat
    /\ \A m \in inbox :
          m.is \in {"tick", "dossier"} =>
              /\ m.gen \in Nat /\ m.gen <= dossGen
              /\ m.is = "dossier" /\ m.gen = dossGen => Excused \/ m.on = On(host, Sel)
    /\ DossierIsSelected

\* What is selected stands with the list, the filter and the cursor.
LEMMA SelStands == ASSUME UNCHANGED <<rows, filter, cursor>> PROVE Sel' = Sel
<1>1. Fds' = Fds
  BY DEF Fds
<1> QED
  BY <1>1 DEF Sel

\* The dossier is asked for again: every earlier answer is late now.
LEMMA DossierAsked ==
    ASSUME DossInv, dossGen' = dossGen + 1,
           [is |-> "tick", gen |-> dossGen'] \in inbox',
           \A m \in inbox' : \/ m \in inbox \/ m = [is |-> "tick", gen |-> dossGen']
                             \/ m.is \notin {"tick", "dossier"}
    PROVE  DossInv'
<1>1. dossGen \in Nat /\ dossGen' \in Nat /\ dossGen' = dossGen + 1
  BY DEF DossInv
<1>2. ASSUME NEW m \in inbox', m.is \in {"tick", "dossier"}
      PROVE  m.gen \in Nat /\ m.gen <= dossGen' /\ (m.is = "dossier" => m.gen # dossGen')
  <2>1. CASE m \in inbox
    BY <1>1, <1>2, <2>1 DEF DossInv
  <2>2. CASE m = [is |-> "tick", gen |-> dossGen']
    BY <1>1, <2>2
  <2> QED
    BY <1>2, <2>1, <2>2
<1>3. Live({"tick", "dossier"}, dossGen)'
  BY DEF Live
<1>4. DossierIsSelected'
  BY <1>3 DEF DossierIsSelected
<1> QED
  BY <1>1, <1>2, <1>4 DEF DossInv

\* A step after which there is an excuse and that sends no dossier.
LEMMA ExcusedStep ==
    ASSUME DossInv, UNCHANGED dossGen, Excused',
           \A m \in inbox' : m \in inbox \/ m.is \notin {"tick", "dossier"}
    PROVE  DossInv'
<1>1. DossierIsSelected'
  BY DEF Excused, DossierIsSelected
<1>2. ASSUME NEW m \in inbox', m.is \in {"tick", "dossier"}
      PROVE  m.gen \in Nat /\ m.gen <= dossGen
  BY <1>2 DEF DossInv
<1> QED
  BY <1>1, <1>2 DEF DossInv

\* A step that leaves the selection, every excuse and what is on its way alone.
LEMMA DossierKept ==
    ASSUME DossInv, UNCHANGED <<dossGen, host, dossier>>, Sel' = Sel, Excused => Excused',
           \A m \in inbox : m.is \in {"tick", "dossier"} /\ m.gen = dossGen => m \in inbox',
           \A m \in inbox' : m \in inbox \/ m.is \notin {"tick", "dossier"}
    PROVE  DossInv'
<1>1. Live({"tick", "dossier"}, dossGen) => Live({"tick", "dossier"}, dossGen)'
  BY DEF Live
<1>2. DossierIsSelected'
  BY <1>1 DEF DossInv, DossierIsSelected, Excused, On
<1>3. ASSUME NEW m \in inbox', m.is \in {"tick", "dossier"}
      PROVE  /\ m.gen \in Nat /\ m.gen <= dossGen
             /\ m.is = "dossier" /\ m.gen = dossGen => Excused' \/ m.on = On(host, Sel)'
  BY <1>3 DEF DossInv, On
<1> QED
  BY <1>2, <1>3 DEF DossInv

\* A scan that is on its way stays so.
LEMMA ScanStays ==
    ASSUME UNCHANGED <<scanGen, ov, jumped>>,
           \A m \in inbox : m.is \in {"scan", "rows"} /\ m.gen = scanGen => m \in inbox'
    PROVE  Excused => Excused'
BY DEF Excused, Live

\* A scan that has just started is on its way.
LEMMA ScanIsLive ==
    ASSUME NEW h, [is |-> "scan", gen |-> scanGen', of |-> h] \in inbox'
    PROVE  Excused'
BY DEF Excused, Live

\* Each answer.
LEMMA DossierAnswers == ASSUME DossInv, Answer PROVE DossInv'
<1>1. PICK m \in inbox :
         \/ Scan(m) \/ DatasetsMsg(m) \/ Overtaken(m) \/ CountsMsg(m)
         \/ DossierTick(m) \/ DossierMsg(m) \/ PlatformMsg(m)
  BY DEF Answer
<1>2. CASE Scan(m)
  <2>1. PICK l \in {tree[m.of], {}} :
            inbox' = (inbox \ {m}) \cup {[is |-> "rows", gen |-> m.gen, of |-> m.of, list |-> l]}
    BY <1>2 DEF Scan
  <2> DEFINE r == [is |-> "rows", gen |-> m.gen, of |-> m.of, list |-> l]
  <2>2. /\ m.is = "scan"
        /\ UNCHANGED <<host, rows, filter, cursor, dossier, scanGen, dossGen, ov, jumped>>
    BY <1>2 DEF Scan, Arrived, list, ui
  <2>3. /\ r.is = "rows" /\ r.gen = m.gen /\ r \in inbox'
        /\ \A x \in inbox' : x \in inbox \/ x = r
        /\ \A x \in inbox : x = m \/ x \in inbox'
    BY <2>1
  <2> HIDE DEF r
  <2>4. Excused => Excused'
    BY <2>2, <2>3 DEF Excused, Live
  <2> QED
    BY <2>2, <2>3, <2>4, SelStands, DossierKept
<1>3. CASE DatasetsMsg(m)
  BY <1>3, DossierAsked DEF DatasetsMsg
<1>4. CASE Overtaken(m)
  <2>1. /\ UNCHANGED <<host, rows, filter, cursor, dossier, scanGen, dossGen, ov, jumped>>
        /\ inbox' = inbox \ {m}
        /\ m.is \in {"scan", "rows"} => m.gen # scanGen
        /\ m.is \in {"tick", "dossier"} => m.gen # dossGen
    BY <1>4 DEF Overtaken, Arrived, list, ui
  <2> QED
    BY <2>1, SelStands, ScanStays, DossierKept
<1>5. CASE CountsMsg(m) \/ PlatformMsg(m)
  <2>1. /\ UNCHANGED <<host, rows, filter, cursor, dossier, scanGen, dossGen, ov, jumped>>
        /\ inbox' = inbox \ {m} /\ m.is \in {"counts", "plat"}
    BY <1>5 DEF CountsMsg, PlatformMsg, Arrived, ui
  <2> QED
    BY <2>1, SelStands, ScanStays, DossierKept
<1>6. CASE DossierTick(m)
  <2> DEFINE d == [is |-> "dossier", gen |-> m.gen, on |-> On(host, Sel)]
  <2>1. /\ UNCHANGED <<host, rows, filter, cursor, dossier, scanGen, dossGen, ov, jumped>>
        /\ inbox' = (inbox \ {m}) \cup {d} /\ m.is = "tick" /\ m.gen = dossGen
    BY <1>6 DEF DossierTick, Arrived, list, ui
  <2>2. /\ d.is = "dossier" /\ d.gen = dossGen /\ d.on = On(host, Sel) /\ d \in inbox'
        /\ \A x \in inbox' : x \in inbox \/ x = d
        /\ \A x \in inbox : x = m \/ x \in inbox'
    BY <2>1
  <2> HIDE DEF d
  <2>3. Excused => Excused'
    BY <2>1, <2>2, ScanStays
  <2>4. Sel' = Sel
    BY <2>1, SelStands
  <2>5. ASSUME NEW x \in inbox', x.is \in {"tick", "dossier"}
        PROVE  /\ x.gen \in Nat /\ x.gen <= dossGen
               /\ x.is = "dossier" /\ x.gen = dossGen => Excused' \/ x.on = On(host, Sel)'
    BY <2>1, <2>2, <2>3, <2>4, <2>5 DEF DossInv, On
  <2>6. Live({"tick", "dossier"}, dossGen)'
    BY <2>1, <2>2 DEF Live
  <2>7. DossierIsSelected'
    BY <2>6 DEF DossierIsSelected
  <2> QED
    BY <2>1, <2>5, <2>7 DEF DossInv
<1>7. CASE DossierMsg(m)
  <2>1. /\ UNCHANGED <<host, rows, filter, cursor, scanGen, dossGen, ov, jumped>>
        /\ dossier' = m.on /\ inbox' = inbox \ {m} /\ m.is = "dossier" /\ m.gen = dossGen
    BY <1>7 DEF DossierMsg, Arrived, ui
  <2>2. Excused => Excused'
    BY <2>1, ScanStays
  <2>3. Sel' = Sel
    BY <2>1, SelStands
  <2>4. Excused' \/ dossier' = On(host, Sel)'
    BY <2>1, <2>2, <2>3 DEF DossInv, On
  <2>5. DossierIsSelected'
    BY <2>4 DEF Excused, DossierIsSelected
  <2>6. ASSUME NEW x \in inbox', x.is \in {"tick", "dossier"}
        PROVE  /\ x.gen \in Nat /\ x.gen <= dossGen
               /\ x.is = "dossier" /\ x.gen = dossGen => Excused' \/ x.on = On(host, Sel)'
    BY <2>1, <2>2, <2>3, <2>6 DEF DossInv, On
  <2> QED
    BY <2>1, <2>5, <2>6 DEF DossInv
<1> QED
  BY <1>1, <1>2, <1>3, <1>4, <1>5, <1>6, <1>7

\* Keys that leave the selection and the filter's line alone.
LEMMA DossierStands ==
    ASSUME DossInv, Stands, ov.edit # None => ov'.edit # None
    PROVE  DossInv'
<1>1. CASE Quiet
  <2>1. UNCHANGED <<inbox, scanGen, dossGen>> /\ (Excused => Excused')
    BY <1>1 DEF Quiet, bg, Stands, Excused, Live
  <2> QED
    BY <2>1, SelStands, DossierKept DEF Stands
<1>2. CASE Schedule
  BY <1>2, DossierAsked DEF Schedule
<1>3. CASE StartScan(host)
  <2>1. /\ UNCHANGED dossGen
        /\ inbox' = inbox \cup {[is |-> "scan", gen |-> scanGen', of |-> host]}
    BY <1>3 DEF StartScan
  <2>2. Excused'
    BY <2>1, ScanIsLive
  <2> QED
    BY <2>1, <2>2, ExcusedStep
<1> QED
  BY <1>1, <1>2, <1>3 DEF Stands

\* The dossier after any step.
LEMMA DossierStep == ASSUME UiInv, DossInv, [TuiNext]_tuiVars PROVE DossInv'
<1>1. CASE UNCHANGED tuiVars
  BY <1>1, DossierStands DEF tuiVars, bg, list, ui, Stands, Quiet
<1>2. CASE Answer
  BY <1>2, DossierAnswers
<1>3. CASE Proceeds
  BY <1>3, DossierStands DEF Proceeds
<1>4. ASSUME NEW base, Connect(base) PROVE DossInv'
  <2>1. PICK h \in Hosts :
            /\ scanGen' = scanGen + 1 /\ UNCHANGED dossGen
            /\ inbox' = inbox \cup {[is |-> "scan", gen |-> scanGen', of |-> h],
                                    [is |-> "plat", gen |-> scanGen', of |-> h]}
    BY <1>4 DEF Connect
  <2>2. Excused'
    BY <2>1, ScanIsLive
  <2> QED
    BY <2>1, <2>2, ExcusedStep
<1>5. CASE MoveCursor \/ EndFilter
  BY <1>5, DossierAsked DEF MoveCursor, EndFilter, Schedule
<1>6. CASE TypeFilter
  <2>1. ov'.edit # None /\ UNCHANGED <<dossGen, inbox>>
    BY <1>6, FocusIsFirst DEF TypeFilter, ui, Quiet, bg
  <2> QED
    BY <2>1, ExcusedStep DEF Excused
<1>7. CASE JumpToDataset
  <2>1. /\ UNCHANGED <<host, rows, filter, dossier, scanGen, dossGen, inbox, ov>>
        /\ jumped' = (jumped \/ cursor' # cursor)
    BY <1>7 DEF JumpToDataset, Quiet, bg
  <2>2. CASE jumped'
    BY <2>1, <2>2, ExcusedStep DEF Excused
  <2>3. CASE ~jumped'
    <3>1. cursor' = cursor /\ (Excused => Excused')
      BY <2>1, <2>3 DEF Excused, Live
    <3> QED
      BY <2>1, <3>1, SelStands, DossierKept
  <2> QED
    BY <2>2, <2>3
<1> QED
  BY <1>1, <1>2, <1>3, <1>4, <1>5, <1>6, <1>7, Steps

\* With nothing on its way the dossier is of the dataset under the cursor, but
\* while the filter is typed and after the jump from the shares.
THEOREM DossiersAreOfTheSelected == TuiSpec => []DossierIsSelected
<1>1. TuiInit => DossInv
  <2> SUFFICES ASSUME TuiInit PROVE DossInv
    OBVIOUS
  <2>1. Live({"scan", "rows"}, scanGen)
    BY DEF TuiInit, Live
  <2> QED
    BY <2>1 DEF TuiInit, DossInv, DossierIsSelected
<1>2. UiInv /\ DossInv /\ [TuiNext]_tuiVars => DossInv'
  BY DossierStep
<1>3. DossInv => DossierIsSelected
  BY DEF DossInv
<1> QED
  BY <1>1, <1>2, <1>3, UiInvariance, PTL DEF TuiSpec
=============================================================================
