--------------------------- MODULE MCGmailMailbox ---------------------------
(* Values for the constants of GmailMailbox that a cfg cannot write.       *)
EXTENDS GmailMailbox

CONSTANTS t1, t2, t3, t4, listed, later

(* A letter per thread and a reply in the first and the last; letters are  *)
(* numbered by thread and place.                                           *)
MCLetterIn ==
    [t \in {t1, t2, t3, t4} |->
        LET letter(n) == [id |-> <<t, n>>, labels |-> IF n = 1 THEN {listed} ELSE {later},
                          files |-> t = t1, deep |-> t = t2]
        IN  IF t \in {t1, t4} THEN <<letter(1), letter(2)>> ELSE <<letter(1)>>]

MCLetters == UNION {{MCLetterIn[t][i] : i \in DOMAIN MCLetterIn[t]} : t \in DOMAIN MCLetterIn}
MCMail == {Translated(l) : l \in MCLetters}

(* t4 is a thread that only arrives later, or is there from the start. *)
MCBoxes == {<<>>, <<t1, t2, t3>>, <<t4, t1, t2, t3>>}
=============================================================================
