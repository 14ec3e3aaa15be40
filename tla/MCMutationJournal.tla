------------------------- MODULE MCMutationJournal -------------------------
(* Values for the constants of MutationJournal that a cfg cannot write.    *)
EXTENDS MutationJournal

NoPath == {}
NewFile == {"directory"}
Established == Entries
=============================================================================
