---------------------------- MODULE ConfigFiles ----------------------------
(***************************************************************************)
(* The lists zxplore keeps as JSON files: favorites (favorites.go),        *)
(* servers and clients (servers.go, gui_servers.go) and sync jobs          *)
(* (sync.go, gui_sync.go).  Several sessions may be open.  Favorites and   *)
(* servers are written to one temporary file and renamed; clients and jobs *)
(* are written in place.  A file is an inode with a content, which a name  *)
(* points at.                                                              *)
(***************************************************************************)
EXTENDS Integers, SequencesExt

CONSTANTS
    Kinds,    \* the lists in use
    Sessions,
    Entries,  \* names of entries
    Cap,      \* the most favorites kept (50)
    MaxOps,   \* bound: changes made
    MaxNode,  \* bound: inodes ever made
    NoEntry   \* no entry

ASSUME ConfigAssumption ==
    /\ Kinds \subseteq {"favorites", "servers", "clients", "jobs"}
    /\ Cap \in Nat \ {0} /\ MaxOps \in Nat /\ MaxNode \in Nat \ {0}

VARIABLES
    kind,    \* the list this is about
    body,    \* inode |-> the list that is read from it
    cut,     \* the inodes that are empty or half written, which read as no list
    file,    \* the inode the file's name points at, 0 for none
    tmp,     \* the one its temporary name points at
    nodes,   \* inodes made
    held,    \* session |-> the list on its screen
    saving,  \* session |-> "no", "read", "open", "written"
    out,     \* session |-> the list it saves, and the change it makes by that
    fd,      \* session |-> the inode it writes
    shared,  \* two saves have had a file open together
    ops,
    wanted,  \* history: the list that the saves would have made, one after another
    raced  \* history: one began or deleted by what was read before the end of another,
             \* or was broken off after it had cut the list itself

configVars == <<kind, body, cut, file, tmp, nodes, held, saving, out, fd, shared, ops, wanted, raced>>

Entry == [name : Entries, val : {1, 2}]

\* Mutant: the servers are written in place, as the clients are.
Atomic_FavoritesOnly == kind = "favorites"

\* Which lists are written to a temporary file and renamed.
Atomic == kind \in {"favorites", "servers"}

\* LoadServers and its like: nothing when the file is missing or unreadable.
ListIn(f) == IF f = 0 THEN <<>> ELSE body[f]
LoadList == ListIn(file)

\* DeleteServer, DeleteSyncJob: the loop that keeps the others.
Without(list, n) ==
    LET kept[i \in 0 .. Len(list)] ==
            IF i = 0 THEN <<>>
            ELSE IF list[i].name = n THEN kept[i - 1] ELSE Append(kept[i - 1], list[i])
    IN  kept[Len(list)]

\* UpsertServer, UpsertSyncJob: in place, or at the end.
Upsert(list, e) ==
    IF \E i \in DOMAIN list : list[i].name = e.name
      THEN [i \in DOMAIN list |-> IF list[i].name = e.name THEN e ELSE list[i]]
      ELSE Append(list, e)

\* AddFavorite: first, once, and no more than the cap.
AddFavorite(list, e) ==
    LET all == <<e>> \o Without(list, e.name)
    IN  IF Len(all) > Cap THEN SubSeq(all, 1, Cap) ELSE all

\* What a change makes of a list: an entry without a value is one to delete.
Changed(list, e) ==
    IF e.val = 0 THEN Without(list, e.name)
    ELSE IF kind = "favorites" THEN AddFavorite(list, e) ELSE Upsert(list, e)

Nothing == [list |-> <<>>, change |-> [name |-> NoEntry, val |-> 0]]

ConfigInit ==
    /\ kind \in Kinds
    /\ body = [i \in 1 .. MaxNode |-> <<>>] /\ cut = {} /\ file = 0 /\ tmp = 0 /\ nodes = 0
    /\ held = [s \in Sessions |-> <<>>]
    /\ saving = [s \in Sessions |-> "no"]
    /\ out = [s \in Sessions |-> Nothing]
    /\ fd = [s \in Sessions |-> 0]
    /\ shared = FALSE /\ ops = 0 /\ wanted = <<>> /\ raced = FALSE

\* The manager, or the overlay of the favorites, is opened.
OpenList(s) ==
    /\ saving[s] = "no"
    /\ held' = [held EXCEPT ![s] = LoadList]
    /\ UNCHANGED <<kind, body, cut, file, tmp, nodes, saving, out, fd, shared, ops, wanted, raced>>

\* A save begins: the changed list is made of one that was read.
Begin(s, from, e) ==
    /\ saving[s] = "no" /\ ops < MaxOps /\ ops' = ops + 1
    /\ saving' = [saving EXCEPT ![s] = "read"]
    /\ out' = [out EXCEPT ![s] = [list |-> Changed(from, e), change |-> e]]
    /\ raced' = (raced \/ (\E t \in Sessions : saving[t] # "no") \/ (kind # "jobs" /\ from # LoadList))
    /\ UNCHANGED <<kind, body, cut, file, tmp, nodes, held, fd, shared, wanted>>

\* An entry is added or edited: on the list as it is on disk.
Change(s) == \E e \in Entry : Begin(s, LoadList, e)

Gone(entry) == [name |-> entry.name, val |-> 0]

\* Mutant: a job too is deleted from the list on the screen.
Drop_Screen(s) == \E i \in DOMAIN held[s] : Begin(s, held[s], Gone(held[s][i]))

\* An entry on the screen is deleted: from that list; a job from the list on disk.
Drop(s) ==
    \E i \in DOMAIN held[s] :
        Begin(s, IF kind = "jobs" THEN LoadList ELSE held[s], Gone(held[s][i]))

\* The file that is written is made, or cut to nothing.
Open(s) ==
    LET target == IF Atomic THEN tmp ELSE file
        node   == IF target = 0 THEN nodes + 1 ELSE target
    IN  /\ saving[s] = "read" /\ node <= MaxNode
        /\ saving' = [saving EXCEPT ![s] = "open"]
        /\ fd' = [fd EXCEPT ![s] = node]
        /\ body' = [body EXCEPT ![node] = <<>>] /\ cut' = cut \cup {node}
        /\ nodes' = IF target = 0 THEN nodes + 1 ELSE nodes
        /\ IF Atomic THEN tmp' = node /\ UNCHANGED file ELSE file' = node /\ UNCHANGED tmp
        /\ shared' = (shared \/ \E t \in Sessions : saving[t] \in {"open", "written"})
        /\ UNCHANGED <<kind, held, out, ops, wanted, raced>>

\* A list that is written in place has been saved by that.
Write(s) ==
    /\ saving[s] = "open"
    /\ body' = [body EXCEPT ![fd[s]] = out[s].list] /\ cut' = cut \ {fd[s]}
    /\ saving' = [saving EXCEPT ![s] = "written"]
    /\ wanted' = IF Atomic THEN wanted ELSE Changed(wanted, out[s].change)
    /\ UNCHANGED <<kind, file, tmp, nodes, held, out, fd, shared, ops, raced>>

\* The end of a save, with the list on the screen as it is read again.
Finished(s, f, shown) ==
    /\ saving' = [saving EXCEPT ![s] = "no"]
    /\ fd' = [fd EXCEPT ![s] = 0]
    /\ out' = [out EXCEPT ![s] = Nothing]
    /\ held' = [held EXCEPT ![s] = IF kind = "favorites" THEN shown ELSE ListIn(f)]
    /\ UNCHANGED <<kind, body, cut, nodes, shared, ops>>

\* Rename; with the temporary file gone to another session's rename it fails.
Publish(s) ==
    /\ saving[s] = "written"
    /\ IF Atomic /\ tmp # 0
         THEN file' = tmp /\ tmp' = 0 /\ wanted' = Changed(wanted, out[s].change)
         ELSE UNCHANGED <<file, tmp, wanted>>
    /\ Finished(s, file', out[s].list)
    /\ UNCHANGED raced

\* The disk is full, or the session is killed: what was cut stays cut.
Abandon(s) ==
    /\ saving[s] # "no"
    /\ Finished(s, file, out[s].list)
    /\ raced' = (raced \/ (~Atomic /\ saving[s] = "open"))
    /\ UNCHANGED <<file, tmp, wanted>>

ConfigNext ==
    \E s \in Sessions :
        OpenList(s) \/ Change(s) \/ Drop(s) \/ Open(s) \/ Write(s) \/ Publish(s) \/ Abandon(s)

ConfigSpec == ConfigInit /\ [][ConfigNext]_configVars
-----------------------------------------------------------------------------
(* Properties.                                                             *)

\* A list that is renamed into place is whole whatever session is killed or
\* fails in the middle of its save, as long as no two have a file open together:
\* they share the name of the temporary file (SaveFavorites, SaveServers).
WholeFile ==
    kind \in {"favorites", "servers"} /\ ~shared => file \notin cut

\* What one session saved is neither lost nor brought back by another, or by one
\* that is killed: whenever the list can be read it is the list that the saves
\* make of it one after another, as long as each is over before the next one
\* reads, a server, client or favorite is deleted on a screen that shows the
\* list as it is, and none is broken off with the list itself cut.
SavesAddUp == ~raced /\ file \notin cut => LoadList = wanted
=============================================================================
