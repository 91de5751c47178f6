------------------------------ MODULE MCTxnApi ------------------------------
(* Small instances of the transaction daemon for TLC.                      *)
EXTENDS TxnApi, TLC

\* One machine "v1" with the zvol "z1" (its OS disk).
OneVm == {"v1"}
OneZvol == {"z1"}
OneNames == [v \in OneVm |-> OneZvol]
OneLonger == [z \in OneZvol |-> OneZvol]
OneDisks == [v \in OneVm |-> OneZvol]

\* A machine "web" with a data disk, and a machine named like that disk: both
\* reach the zvol "web-db", whose path also starts with the path of "web".
TwoVms == {"web", "web-db"}
TwoZvols == {"web", "web-db"}
TwoNames == [v \in TwoVms |-> IF v = "web" THEN TwoZvols ELSE {"web-db"}]
TwoLonger == [z \in TwoZvols |-> IF z = "web" THEN TwoZvols ELSE {z}]
TwoDisks == [v \in TwoVms |-> IF v = "web" THEN {"web"} ELSE {"web-db"}]

\* What the rest of a behaviour depends on: nothing reads the audit log, and of
\* the request of a handler that is about to answer an error only what it did.
Unaudited ==
    <<pool, host, files, pc, ok, dir, listed, walk, fate, told, owed, held,
      [c \in Conns |-> IF pc[c] = "reply" /\ ~ok[c]
                         THEN IF touched[c] THEN <<req[c].op, req[c].txn>> ELSE None
                         ELSE req[c]]>>

Symmetry ==
    Permutations(Conns) \cup Permutations(TxnIds) \cup Permutations(AutoSnaps) \cup Permutations(Data)
=============================================================================
