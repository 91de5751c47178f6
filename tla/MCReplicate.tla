---------------------------- MODULE MCReplicate ----------------------------
(* Each side encrypted or not, with and without the key, at home or remote. *)
EXTENDS Replicate

Situation(enc, key, under, opened, remote) ==
    [encrypted |-> enc, loaded |-> key, under |-> under, opened |-> opened, remote |-> remote, rw |-> TRUE]

Situations == {Situation(FALSE, FALSE, FALSE, FALSE, {"source"}), Situation(FALSE, FALSE, TRUE, FALSE, {}),
               Situation(TRUE, TRUE, TRUE, FALSE, {}), Situation(TRUE, FALSE, FALSE, FALSE, {"target"}),
               Situation(TRUE, TRUE, FALSE, TRUE, {})}

\* Every answer, one end that does not answer, or one question.
Missing == {{}, {"srcenc", "key", "source", "marks"}, {"token", "target", "dstenc"}, {"srcenc"}}
=============================================================================
