--------------------------- MODULE ContainerStore ---------------------------
(***************************************************************************)
(* The container store of this host (containers.go, cli_containers.go,     *)
(* gui_containers.go): a dataset with a child per layer, snapshotted as    *)
(* one and rolled back dataset by dataset, while the engine it belongs to  *)
(* is started and stopped by others.                                       *)
(***************************************************************************)
EXTENDS Integers, Sequences, FiniteSets

CONSTANTS
    Store,        \* the dataset the engine's graph root is mounted from
    Layers,       \* its children
    MaxTag,       \* bound: snapshots taken
    MaxStoreOps   \* bound: what the engine and the operator do

ASSUME StoreAssumption ==
    Store \notin Layers /\ MaxTag \in Nat /\ MaxStoreOps \in Nat

VARIABLES
    up,        \* the engine answers
    present,   \* the datasets of the store
    kept,      \* dataset |-> the tags it has a snapshot of; later tags are greater
    live,      \* dataset |-> the tag its content is that of, 0 for none
    lastTag,
    found,     \* the tab's engine, as last detected: with its graph root, or not found
    roll,      \* the rollback under way
    storeSaid, \* what the last one reported
    ran,       \* the store was used or snapshotted since it began
    storeOps

storeVars == <<up, present, kept, live, lastTag, found, roll, storeSaid, ran, storeOps>>
data == <<present, kept, live, lastTag>>

NoRoll == [tag |-> 0, targets |-> {}, all |-> {}, failed |-> {}]
All == Layers \cup {Store}

StoreInit ==
    /\ up = TRUE /\ found = TRUE
    /\ present \in {{Store}, All} /\ lastTag = 0
    /\ kept = [d \in All |-> {}] /\ live = [d \in All |-> 0]
    /\ roll = NoRoll /\ storeSaid = "nothing" /\ ran = FALSE
    /\ storeOps = 0

Counted == storeOps < MaxStoreOps /\ storeOps' = storeOps + 1

\* systemctl start, stop.
EngineToggles ==
    /\ Counted /\ up' = ~up /\ ran' = TRUE
    /\ UNCHANGED <<data, found, roll, storeSaid>>

\* Another layer is pulled, or one deleted with its snapshots, or written.
EngineWorks ==
    /\ Counted /\ up /\ ran' = TRUE
    /\ \E d \in Layers :
          \/ present' = present \cup {d} /\ d \notin present /\ UNCHANGED <<kept, live>>
          \/ /\ d \in present /\ present' = present \ {d}
             /\ kept' = [kept EXCEPT ![d] = {}] /\ live' = [live EXCEPT ![d] = 0]
          \/ \E o \in present : live' = [live EXCEPT ![o] = 0] /\ UNCHANGED <<present, kept>>
    /\ UNCHANGED <<up, lastTag, found, roll, storeSaid>>

\* StoreDataset: found by the graph root that DetectEngine read from an engine
\* that answered, when the tab last looked or, on the command line, just now.
Resolves(cli) == IF cli THEN up ELSE found

\* One recursive snapshot of the store and every layer.
SnapshotStore ==
    /\ Counted /\ lastTag < MaxTag
    /\ \E cli \in BOOLEAN : Resolves(cli)
    /\ lastTag' = lastTag + 1 /\ ran' = TRUE
    /\ kept' = [d \in All |-> IF d \in present THEN kept[d] \cup {lastTag'} ELSE kept[d]]
    /\ live' = [d \in All |-> IF d \in present THEN lastTag' ELSE live[d]]
    /\ UNCHANGED <<up, present, found, roll, storeSaid>>

\* Mutant: `zfs rollback -r' is taken to go down to the layers.
RollbackTargets_Root == {Store}

RollbackTargets == present

\* The operator rolls back: to a tag the tab lists, or one typed.
RollbackStore ==
    /\ Counted /\ roll = NoRoll
    /\ \E cli \in BOOLEAN, tag \in 1 .. MaxTag :
          /\ cli \/ tag \in kept[Store]
          /\ storeSaid' = IF ~Resolves(cli) THEN "not on ZFS" ELSE IF up THEN "running" ELSE "nothing"
          /\ roll' = IF storeSaid' = "nothing"
                       THEN [tag |-> tag, targets |-> RollbackTargets, all |-> present, failed |-> {}]
                       ELSE NoRoll
    /\ ran' = FALSE
    /\ UNCHANGED <<up, data, found>>

\* One dataset, the store first: back with the later snapshots destroyed, or skipped as it does
\* not have the tag, or refused, or not done within the deadline, when later snapshots may be
\* gone and, at the latest moment, the dataset back.
RollbackOne ==
    \E d \in IF Store \in roll.targets THEN {Store} ELSE roll.targets :
        /\ \/ /\ roll.tag \in kept[d] /\ d \in present
              /\ live' = [live EXCEPT ![d] = roll.tag]
              /\ kept' = [kept EXCEPT ![d] = {t \in @ : t <= roll.tag}]
              /\ roll' = [roll EXCEPT !.targets = @ \ {d}]
           \/ /\ roll.tag \notin kept[d]
              /\ roll' = [roll EXCEPT !.targets = @ \ {d}] /\ UNCHANGED <<kept, live>>
           \/ /\ roll.tag \in kept[d]
              /\ roll' = [roll EXCEPT !.targets = @ \ {d}, !.failed = @ \cup {d}]
              /\ \E lost \in SUBSET {t \in kept[d] : t > roll.tag} :
                    /\ kept' = [kept EXCEPT ![d] = @ \ lost]
                    /\ \/ UNCHANGED live
                       \/ /\ lost = {t \in kept[d] : t > roll.tag}
                          /\ live' = [live EXCEPT ![d] = roll.tag]
        /\ UNCHANGED <<up, present, lastTag, found, storeSaid, ran, storeOps>>

RollbackEnds ==
    /\ roll # NoRoll /\ roll.targets = {}
    /\ storeSaid' = IF roll.failed = {} THEN "back" ELSE "refused"
    /\ roll' = NoRoll
    /\ UNCHANGED <<up, data, found, ran, storeOps>>

\* The tab detects the engine again, every ten seconds.
Refresh ==
    /\ found' = up
    /\ UNCHANGED <<up, data, roll, storeSaid, ran, storeOps>>

StoreNext ==
    \/ EngineToggles \/ EngineWorks \/ SnapshotStore \/ RollbackStore \/ RollbackOne
    \/ RollbackEnds \/ Refresh

StoreSpec == StoreInit /\ [][StoreNext]_storeVars
-----------------------------------------------------------------------------
(* Properties.                                                             *)

\* A rollback that reports no error has every dataset of the store back that
\* has a snapshot of that name, layers as well, unless the store was used
\* behind its back (RollbackStore).
RollbackIsWhole ==
    roll # NoRoll /\ ~ran /\ roll.targets = {} /\ roll.failed = {} =>
        \A d \in roll.all : roll.tag \in kept[d] => live[d] = roll.tag
=============================================================================
