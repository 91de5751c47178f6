----------------------------- MODULE MCSyncRun -----------------------------
(* A source and one or two datasets below it, snapshot together, and what    *)
(* may run the job.                                                          *)
EXTENDS SyncRun, TLC

AllOfThree == {{"rpool", "home", "vm"}}

\* The second snapshot of one dataset is pruned while others keep theirs: it may
\* be what a run looks for, or the newest that has landed.
HomeSecond == {<<"home", 2>>}

\* What the properties of SyncRun.cfg and the guards of the steps read: not
\* what the source had when a run began, not what a run no longer depends on
\* and, once runs have overlapped, not what is left of them.
FaultlessSoFar(r) ==
    /\ clean[r] /\ sure[r] /\ ~churn
    /\ pc[r] \in {"record", "write"} => rc[r] = "failed"
    /\ pc[r] \notin {"wedged", "capture", "hung"}

Counted(r) == IF pc[r] = "countdst" \/ (Passed(r) /\ ~churn) THEN srcN[r] ELSE 0

Recorded(r) == IF overlap THEN rc[r] = "ok" /\ Counted(r) > 0 ELSE rc[r]

Viewed ==
    <<ends, pc, newest, todo, overlap, churn,
      [r \in Runs |-> <<FaultlessSoFar(r), Counted(r), Recorded(r)>>],
      IF overlap THEN <<>> ELSE <<left, last>> >>
=============================================================================
