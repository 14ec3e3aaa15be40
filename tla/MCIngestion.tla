---------------------------- MODULE MCIngestion ----------------------------
(* Values for the constants of Ingestion that a cfg cannot write.          *)
EXTENDS Ingestion

CONSTANTS m1, m2, listed, unlisted

Plain(m) == [id |-> m, labels |-> {listed}, flagged |-> FALSE, attached |-> FALSE]

(* A plain and an irregular version of two messages. *)
IrregularMail ==
    {Plain(m1), [Plain(m1) EXCEPT !.labels = {unlisted}],
     Plain(m2), [Plain(m2) EXCEPT !.flagged = TRUE],
     [Plain(m2) EXCEPT !.attached = TRUE]}
=============================================================================
