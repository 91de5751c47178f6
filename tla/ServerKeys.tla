----------------------------- MODULE ServerKeys -----------------------------
(***************************************************************************)
(* The keys of servers and clients (servers.go, gui_servers.go): a private *)
(* and a public file per entry, generated or pasted, installed on the host *)
(* with a one-time password against the pinned host key, and the one-click *)
(* setup that does it all in a goroutine while its dialog stays open.  The *)
(* inventories' files are ConfigFiles.                                     *)
(***************************************************************************)
EXTENDS Integers

CONSTANTS
    Servers,    \* names of entries
    Paths,      \* key files
    Dialogs,
    MaxKey,     \* bound: keys ever made
    MaxKeyOps,  \* bound: buttons pressed
    NoPath      \* no key file set

ASSUME KeysAssumption == NoPath \notin Paths /\ MaxKey \in Nat /\ MaxKeyOps \in Nat

VARIABLES
    keyPathFor,  \* entry |-> key file; names may differ in replaced characters only
    priv, pub,   \* key file |-> the key in it and in its .pub, 0 for none, -1 for a torn one
    made,        \* keys made
    hostKey,     \* the host's key: how often it was installed
    pin,         \* the one in known_hosts, 0 for none
    authorized,  \* the keys in authorized_keys
    keyPath,     \* entry |-> its key file in the inventory
    dlg,         \* dialog |-> its entry, its key file, and the goroutine it runs
    keySaid,     \* dialog |-> what it said last
    halted,      \* a paste was cut short
    meddled,     \* a key or the host changed while a setup was running
    keyOps

keyVars == <<keyPathFor, priv, pub, made, hostKey, pin, authorized, keyPath, dlg, keySaid,
             halted, meddled, keyOps>>

Resting == [at |-> "idle", run |-> NoPath, pw |-> "none", offer |-> FALSE, only |-> FALSE]

KeysInit ==
    /\ keyPathFor \in [Servers -> Paths]
    /\ priv = [p \in Paths |-> 0] /\ pub = [p \in Paths |-> 0] /\ made = 0
    /\ hostKey = 1 /\ pin = 0 /\ authorized = {}
    /\ keyPath = [e \in Servers |-> NoPath]
    /\ dlg \in [Dialogs -> {[entry |-> e, path |-> NoPath, go |-> Resting] : e \in Servers}]
    /\ keySaid = [d \in Dialogs |-> "nothing"]
    /\ halted = FALSE /\ meddled = FALSE /\ keyOps = 0

Running == \E d \in Dialogs : dlg[d].go.at # "idle"
Pressed == keyOps < MaxKeyOps /\ keyOps' = keyOps + 1

\* ssh-keygen for a path: what was there is removed first, and it may fail.
Generated(p, ok) ==
    /\ ok => made < MaxKey
    /\ made' = IF ok THEN made + 1 ELSE made
    /\ priv' = [priv EXCEPT ![p] = IF ok THEN made' ELSE 0]
    /\ pub' = [pub EXCEPT ![p] = IF ok THEN made' ELSE 0]

GenerateKey(d) ==
    /\ Pressed /\ meddled' = (meddled \/ Running)
    /\ \E ok \in BOOLEAN, p \in {keyPathFor[dlg[d].entry]} :
          /\ Generated(p, ok)
          /\ dlg' = [dlg EXCEPT ![d].path = IF ok THEN p ELSE @]
    /\ UNCHANGED <<keyPathFor, hostKey, pin, authorized, keyPath, keySaid, halted>>

\* Mutant: the public file is left for the next reader.
SavePastedKey_KeepsPub(d) ==
    /\ Pressed /\ meddled' = (meddled \/ Running) /\ made < MaxKey
    /\ LET p == keyPathFor[dlg[d].entry]
       IN  made' = made + 1 /\ priv' = [priv EXCEPT ![p] = made'] /\ dlg' = [dlg EXCEPT ![d].path = p]
    /\ UNCHANGED <<keyPathFor, pub, hostKey, pin, authorized, keyPath, keySaid, halted>>

\* A pasted key is written, then the public file removed: the write may fail,
\* or the program be killed in between.
SavePastedKey(d) ==
    /\ Pressed /\ meddled' = (meddled \/ Running) /\ made < MaxKey
    /\ made' = made + 1
    /\ \E how \in {"done", "failed", "killed"}, p \in {keyPathFor[dlg[d].entry]} :
          /\ priv' = [priv EXCEPT ![p] = IF how = "failed" THEN -1 ELSE made']
          /\ pub' = [pub EXCEPT ![p] = IF how = "done" THEN 0 ELSE @]
          /\ dlg' = [dlg EXCEPT ![d].path = IF how = "done" THEN p ELSE @]
          /\ halted' = (halted \/ how # "done")
    /\ UNCHANGED <<keyPathFor, hostKey, pin, authorized, keyPath, keySaid>>

UseFile(d) ==
    /\ Pressed
    /\ \E p \in Paths : dlg' = [dlg EXCEPT ![d].path = p]
    /\ UNCHANGED <<keyPathFor, priv, pub, made, hostKey, pin, authorized, keyPath, keySaid, halted, meddled>>

\* Saving, and opening the dialog again on an entry as it was saved.
SaveEntry(d) ==
    /\ Pressed
    /\ \E e \in Servers :
          /\ keyPath' = [keyPath EXCEPT ![dlg[d].entry] = dlg[d].path]
          /\ dlg' = [dlg EXCEPT ![d] = [entry |-> e, path |-> keyPath'[e], go |-> @.go]]
    /\ dlg[d].go.at = "idle"
    /\ UNCHANGED <<keyPathFor, priv, pub, made, hostKey, pin, authorized, keySaid, halted, meddled>>

\* The host is installed again: a new host key, and no authorized keys.
Reinstall ==
    /\ hostKey < 2 /\ hostKey' = hostKey + 1 /\ authorized' = {}
    /\ meddled' = (meddled \/ Running)
    /\ UNCHANGED <<keyPathFor, priv, pub, made, pin, keyPath, dlg, keySaid, halted, keyOps>>

Goto(d, at) == dlg' = [dlg EXCEPT ![d].go = IF at = "idle" THEN Resting ELSE [@ EXCEPT !.at = at]]
Says(d, what) == Goto(d, "idle") /\ keySaid' = [keySaid EXCEPT ![d] = what]

\* The first step of a setup of a key file that may be missing.
FirstStep(d, go) ==
    IF go.only THEN [go EXCEPT !.at = "auth", !.run = dlg[d].path]
    ELSE IF dlg[d].path = NoPath THEN [go EXCEPT !.at = "gen", !.run = keyPathFor[dlg[d].entry]]
    ELSE [go EXCEPT !.at = "test", !.run = dlg[d].path]

\* "Set up & save", or "Authorize": with the password, or none.
SetUp(d) ==
    /\ Pressed /\ dlg[d].go.at = "idle"
    /\ \E only \in BOOLEAN, pw \in {"none", "wrong", "right"} :
          /\ only => dlg[d].path # NoPath
          /\ dlg' = [dlg EXCEPT ![d].go =
                FirstStep(d, [Resting EXCEPT !.pw = pw, !.offer = TRUE, !.only = only])]
    /\ keySaid' = [keySaid EXCEPT ![d] = "nothing"]
    /\ UNCHANGED <<keyPathFor, priv, pub, made, hostKey, pin, authorized, keyPath, halted, meddled>>

SetupGenerates(d) ==
    /\ dlg[d].go.at = "gen"
    /\ \E ok \in BOOLEAN :
          /\ Generated(dlg[d].go.run, ok)
          /\ IF ok THEN Goto(d, "test") /\ UNCHANGED keySaid ELSE Says(d, "error")
    /\ meddled' = (meddled \/ \E o \in Dialogs \ {d} : dlg[o].go.at # "idle")
    /\ UNCHANGED <<keyPathFor, hostKey, pin, authorized, keyPath, halted, keyOps>>

\* The key of a file logs in at the host whose key is pinned (accept-new).
LogsIn(p) == priv[p] \in authorized /\ pin \in {0, hostKey}
Contact == pin' = IF pin = 0 THEN hostKey ELSE pin

\* TestServer before the password: its error is not looked at.
FirstTest(d) ==
    /\ dlg[d].go.at = "test" /\ Contact
    /\ \/ LogsIn(dlg[d].go.run) /\ Goto(d, "save") /\ UNCHANGED keySaid
       \/ dlg[d].go.pw = "none" /\ Says(d, "error")
       \/ dlg[d].go.pw # "none" /\ Goto(d, "auth") /\ UNCHANGED keySaid
    /\ UNCHANGED <<keyPathFor, priv, pub, made, hostKey, authorized, keyPath, halted, meddled, keyOps>>

\* A changed host key is asked about once, any other error is shown.
SetupFails(d) ==
    IF dlg[d].go.offer /\ pin \notin {0, hostKey} THEN Goto(d, "ask") /\ UNCHANGED keySaid
    ELSE Says(d, "error")

\* PublicKey: the public file first, else derived from the private one.
PublicKey(p) == IF pub[p] # 0 THEN pub[p] ELSE priv[p]

\* AuthorizeKey: the public key is appended, by password, at the pinned host.
AuthorizeKey(d) ==
    LET key == PublicKey(dlg[d].go.run)
    IN  /\ dlg[d].go.at = "auth"
        /\ \/ SetupFails(d) /\ UNCHANGED authorized /\ (Contact \/ UNCHANGED pin)
           \/ /\ key > 0 /\ pin \in {0, hostKey} /\ dlg[d].go.pw = "right" /\ Contact
              /\ authorized' = authorized \cup {key}
              /\ IF dlg[d].go.only THEN Says(d, "authorized")
                 ELSE Goto(d, "retest") /\ UNCHANGED keySaid
        /\ UNCHANGED <<keyPathFor, priv, pub, made, hostKey, keyPath, halted, meddled, keyOps>>

\* Mutant: the key is installed, so it is not tested.
Retest_Skipped(d) ==
    /\ dlg[d].go.at = "retest" /\ Goto(d, "save")
    /\ UNCHANGED <<keyPathFor, priv, pub, made, hostKey, pin, authorized, keyPath, keySaid, halted, meddled, keyOps>>

\* TestServer after it.
Retest(d) ==
    /\ dlg[d].go.at = "retest"
    /\ \/ LogsIn(dlg[d].go.run) /\ Goto(d, "save") /\ UNCHANGED keySaid
       \/ SetupFails(d)
    /\ Contact
    /\ UNCHANGED <<keyPathFor, priv, pub, made, hostKey, authorized, keyPath, halted, meddled, keyOps>>

\* The entry is saved and "Ready" said; or the inventory cannot be written.
SaveReady(d) ==
    LET e == dlg[d].entry
    IN  /\ dlg[d].go.at = "save"
        /\ dlg' = [dlg EXCEPT ![d].path = dlg[d].go.run, ![d].go = Resting]
        /\ \/ /\ keyPath' = [keyPath EXCEPT ![e] = dlg[d].go.run]
              /\ keySaid' = [keySaid EXCEPT ![d] = "ready"]
           \/ UNCHANGED keyPath /\ keySaid' = [keySaid EXCEPT ![d] = "error"]
        /\ UNCHANGED <<keyPathFor, priv, pub, made, hostKey, pin, authorized, halted, meddled, keyOps>>

\* "Forget the old key and continue?"
HostKeyReset(d) ==
    /\ dlg[d].go.at = "ask"
    /\ \/ Goto(d, "idle") /\ UNCHANGED <<pin, keySaid>>
       \/ /\ pin' = 0
          /\ dlg' = [dlg EXCEPT ![d].go = FirstStep(d, [dlg[d].go EXCEPT !.offer = FALSE])]
          /\ UNCHANGED keySaid
    /\ UNCHANGED <<keyPathFor, priv, pub, made, hostKey, authorized, keyPath, halted, meddled, keyOps>>

KeysNext ==
    \/ Reinstall
    \/ \E d \in Dialogs :
          \/ GenerateKey(d) \/ SavePastedKey(d) \/ UseFile(d) \/ SaveEntry(d)
          \/ SetUp(d) \/ SetupGenerates(d) \/ FirstTest(d) \/ AuthorizeKey(d) \/ Retest(d)
          \/ SaveReady(d) \/ HostKeyReset(d)

KeysSpec == KeysInit /\ [][KeysNext]_keyVars
-----------------------------------------------------------------------------
(* Properties.                                                             *)

\* "Ready" is said of an entry whose saved key logs in at the host that is
\* pinned, whatever was left in its key files by earlier attempts, as long as
\* nobody changed a key or the host meanwhile (serverEditDialog, SetupServer).
ReadyLogsIn ==
    [][\A d \in Dialogs, p \in Paths :
          keySaid'[d] = "ready" /\ keySaid[d] # "ready" /\ ~meddled' /\ p = keyPath'[dlg[d].entry]
            => LogsIn(p)']_keyVars

\* A public file belongs to the private file beside it, whichever entries share
\* the path, unless a paste was cut short: what Authorize installs is the key
\* that will log in (GenerateKey, SavePastedKey, PublicKey).
PublicPairs == ~halted => \A p \in Paths : pub[p] # 0 => pub[p] = priv[p]
=============================================================================
