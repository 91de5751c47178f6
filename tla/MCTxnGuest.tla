----------------------------- MODULE MCTxnGuest -----------------------------
(* Small instances of the client and the daemon for TLC.                    *)
EXTENDS TxnGuest, TLC

\* One machine "v1" with the data disk "z1".
OneVm == {"v1"}
OneZvol == {"z1"}
OneNames == [v \in OneVm |-> OneZvol]
OneLonger == [z \in OneZvol |-> OneZvol]
OneDisks == [v \in OneVm |-> OneZvol]
=============================================================================
