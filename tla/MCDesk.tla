------------------------------- MODULE MCDesk -------------------------------
(***************************************************************************)
(* The parts of zxplore that share no state, on small instances: in a      *)
(* behaviour one of them runs and the others stand still, which shows of   *)
(* each what all of their interleavings would.                             *)
(***************************************************************************)
EXTENDS ConfigFiles, SyncJobs, ServerKeys, ContainerStore, Builder, GuiBrowser, GuiExplorer

VARIABLE part  \* the one that runs

Parts == {"files", "jobs", "keys", "store", "builder", "browser", "explorer"}

\* A pool "p" with two levels below it, and a pool whose name sorts before theirs.
MCOrder == << <<"p">>, <<"p-x">>, <<"p", "a">>, <<"p", "a", "b">> >>
\* All of it; and what a delegated user sees.
MCWorlds == {ToSet(MCOrder), {<<"p", "a">>, <<"p", "a", "b">>}}
MCQueries == {{<<"p", "a">>, <<"p", "a", "b">>}, {}}

\* Files of one name in three directories, of which a snapshot lacks one.
MCTree == (<<>> :> {"f", "d"}) @@ (<<"d">> :> {"f", "d"}) @@ (<<"d", "d">> :> {"f"})
MCSnapTree == (<<>> :> {"f", "d"}) @@ (<<"d">> :> {"f"})
MCVanished == {<<"d">>}

\* Nothing, spares alone, and groups of two with and without a spare.
MCTyped == {<<0, 0>>, <<0, 1>>, <<2, 0>>, <<2, 1>>}

First(S) == CHOOSE x \in S : TRUE

\* One state of each part that stands still.
DeskInit ==
    /\ part \in Parts
    /\ ConfigInit /\ (part = "files" \/ kind = First(Kinds))
    /\ JobsInit /\ (part = "jobs" \/ (unitName = First([Jobs -> Units]) /\ joblist = [j \in Jobs |-> NoFile]))
    /\ KeysInit /\ (part = "keys" \/ (keyPathFor = First([Servers -> Paths]) /\ \A d \in Dialogs : dlg[d].entry = First(Servers)))
    /\ StoreInit /\ (part = "store" \/ present = All)
    /\ BuilderInit /\ (part = "builder" \/ (Len(disks) = First(Shelves) /\ disks[1].bytes < 9 /\ ~disks[Len(disks)].fast))
    /\ BrowserInit /\ (part = "browser" \/ world = First(Worlds))
    /\ ExplorerInit /\ (part = "explorer" \/ source = "live")

DeskNext ==
    \/ part = "files" /\ ConfigNext
       /\ UNCHANGED <<part, jobVars, keyVars, storeVars, builderVars, browserVars, explorerVars>>
    \/ part = "jobs" /\ JobsNext
       /\ UNCHANGED <<part, configVars, keyVars, storeVars, builderVars, browserVars, explorerVars>>
    \/ part = "keys" /\ KeysNext
       /\ UNCHANGED <<part, configVars, jobVars, storeVars, builderVars, browserVars, explorerVars>>
    \/ part = "store" /\ StoreNext
       /\ UNCHANGED <<part, configVars, jobVars, keyVars, builderVars, browserVars, explorerVars>>
    \/ part = "builder" /\ BuilderNext
       /\ UNCHANGED <<part, configVars, jobVars, keyVars, storeVars, browserVars, explorerVars>>
    \/ part = "browser" /\ BrowserNext
       /\ UNCHANGED <<part, configVars, jobVars, keyVars, storeVars, builderVars, explorerVars>>
    \/ part = "explorer" /\ ExplorerNext
       /\ UNCHANGED <<part, configVars, jobVars, keyVars, storeVars, builderVars, browserVars>>

DeskSpec == DeskInit /\ [][DeskNext]_<<part, configVars, jobVars, keyVars, storeVars, builderVars, browserVars, explorerVars>>
=============================================================================
