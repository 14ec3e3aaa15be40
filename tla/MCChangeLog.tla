---------------------------- MODULE MCChangeLog ----------------------------
(* Values for the constants of ChangeLog that a cfg cannot write.          *)
EXTENDS ChangeLog

CONSTANTS work, unread

(* A provider that reports both placements, and one that hides the Inbox.  *)
MCExposures == {{"inbox", "trash"}, {"trash"}}
=============================================================================
