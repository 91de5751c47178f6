------------------------------ MODULE TxnStore ------------------------------
(***************************************************************************)
(* What the zxplore transaction service promises, with no daemon, files,   *)
(* connections or crashes: transactions are opened on zvols, an open one   *)
(* can put its zvol back to the content it was opened on, and it is open   *)
(* until it is committed or an older transaction of its zvol is rolled     *)
(* back over it.  Module TxnApi (the daemon) is shown to implement this.   *)
(***************************************************************************)
EXTENDS Naturals

CONSTANTS
    Zvols,      \* the datasets transactions are opened on
    TxnIds,     \* transaction ids; the daemon never draws one twice
    Data        \* the contents a zvol may hold

VARIABLES
    live,       \* live[z]: the present content of zvol z
    open,       \* the open transactions, with the content each one keeps
    fate        \* fate[t]: how t ended ("none" while it has not)

vars == <<live, open, fate>>

Fates == {"none", "committed", "superseded"}

OpenTxn == [name: TxnIds, zvol: Zvols, txg: Nat, data: Data]

TypeOK ==
    /\ live \in [Zvols -> Data]
    /\ open \subseteq OpenTxn
    /\ fate \in [TxnIds -> Fates]

Later(o) == {p \in open : p.zvol = o.zvol /\ p.txg > o.txg}

\* The transactions of S are over, for the reason why.
End(S, why) ==
    /\ open' = open \ S
    /\ fate' = [t \in TxnIds |-> IF \E o \in S : o.name = t THEN why ELSE fate[t]]

Init ==
    /\ live \in [Zvols -> Data]
    /\ open = {}
    /\ fate = [t \in TxnIds |-> "none"]

\* A new transaction keeps the present content of its zvol, and is younger
\* than every transaction that is open.
Begin(t, z) ==
    /\ fate[t] = "none"
    /\ \A o \in open : o.name # t
    /\ \E o \in open' :
        /\ o.name = t /\ o.zvol = z /\ o.data = live[z]
        /\ \A p \in open : p.txg < o.txg
        /\ open' = open \cup {o}
    /\ UNCHANGED <<live, fate>>

\* Rolling back restores the kept content and ends the younger transactions
\* of the zvol; the transaction itself stays open.
Rollback(o) ==
    /\ live' = [live EXCEPT ![o.zvol] = o.data]
    /\ End(Later(o), "superseded")

\* A rollback that fails half way has ended some of them and restored nothing.
RollbackFailed(o) ==
    /\ \E S \in SUBSET Later(o) : End(S, "superseded")
    /\ UNCHANGED live

Commit(o) ==
    /\ End({o}, "committed")
    /\ UNCHANGED live

\* The guest writes to its disk.
Write(z) ==
    /\ \E d \in Data : live' = [live EXCEPT ![z] = d]
    /\ UNCHANGED <<open, fate>>

Next ==
    \/ \E t \in TxnIds, z \in Zvols : Begin(t, z)
    \/ \E o \in open : Rollback(o) \/ RollbackFailed(o) \/ Commit(o)
    \/ \E z \in Zvols : Write(z)

Spec == Init /\ [][Next]_vars
=============================================================================
