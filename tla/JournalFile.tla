---------------------------- MODULE JournalFile ----------------------------
(***************************************************************************)
(* What MutationJournal.load makes of the bytes of a journal file          *)
(* (mutation_journal.py).  A file is a sequence of chunks, one chunk per   *)
(* os.write call; a chunk is the part of one rendered event that the call  *)
(* put into the file:                                                      *)
(*                                                                         *)
(*   "whole"  the complete line, newline included                          *)
(*   "head"   a prefix of the line that the loader can still decode        *)
(*   "stub"   a prefix that ends inside a multi-byte character, or after a *)
(*            line boundary embedded in the event's own text               *)
(*   "tail"   the rest of the line, newline included                       *)
(*                                                                         *)
(* Events are rendered by json.dumps(..., ensure_ascii=False) and read     *)
(* back with str.splitlines, so the text of an event matters in two ways:  *)
(* a record with a character outside ASCII can be cut inside a character,  *)
(* and a record that holds U+0085, U+2028 or U+2029 is read back as        *)
(* several lines.  Only an intent carries free text (its target_label).    *)
(***************************************************************************)
EXTENDS Integers, Sequences

CONSTANTS
    Attempts,      \* attempt identifiers
    Wide,          \* the attempts whose intent has a character outside ASCII
    LineBreaking   \* of these, the attempts whose intent has a line boundary

ASSUME JournalFileAssumption == LineBreaking \subseteq Wide /\ Wide \subseteq Attempts

Events == [type : {"intent", "finalization"}, attempt : Attempts]
Intent(a) == [type |-> "intent", attempt |-> a]
Finalization(a) == [type |-> "finalization", attempt |-> a]

TornParts == {"head", "stub"}
Chunks == [part : {"whole", "tail"} \union TornParts, event : Events]

IsOver(event, labels) == event.type = "intent" /\ event.attempt \in labels

(* The prefixes a write of this event may stop at. *)
PrefixesOf(event) == IF IsOver(event, Wide) THEN TornParts ELSE {"head"}

EndsLine(f, i) == f[i].part \notin TornParts
StartsLine(f, i) == i > 1 => EndsLine(f, i - 1)

(* f[i] is the tail whose own torn part directly precedes it. *)
Completes(f, i) ==
    /\ i > 1
    /\ f[i].part = "tail"
    /\ f[i - 1].part \in TornParts
    /\ f[i - 1].event = f[i].event

(* Mutant of IsRecord: a final line without its newline is a record. *)
IsRecordWithoutNewline(f, i) ==
    /\ ~ IsOver(f[i].event, LineBreaking)
    /\ \/ f[i].part \in {"whole", "head"} /\ StartsLine(f, i)
       \/ Completes(f, i) /\ StartsLine(f, i - 1)

(* The line that ends with chunk i decodes to the event of that chunk. *)
IsRecord(f, i) ==
    /\ ~ IsOver(f[i].event, LineBreaking)
    /\ \/ f[i].part = "whole" /\ StartsLine(f, i)
       \/ Completes(f, i) /\ StartsLine(f, i - 1)

RecordAt(f, i, event) == f[i].event = event /\ IsRecord(f, i)
Recorded(f, event) == \E i \in 1..Len(f) : RecordAt(f, i, event)

-----------------------------------------------------------------------------
(* The three ways in which load raises. *)

(* read_text fails: a character is cut and its rest never followed.  A cut *)
(* behind an embedded line boundary leaves an undecodable earlier line.    *)
CutInsideCharacter(f) ==
    \E i \in 1..Len(f) :
        f[i].part = "stub" /\ ~ (i < Len(f) /\ Completes(f, i + 1))

(* A line before the final one does not decode; a record with an embedded  *)
(* line boundary counts as two lines, even in the final place.             *)
CorruptBeforeFinalLine(f) ==
    \E i \in 1..Len(f) :
        /\ EndsLine(f, i)
        /\ ~ IsRecord(f, i)
        /\ i < Len(f) \/ IsOver(f[i].event, LineBreaking)

(* The decoded events do not form a history. *)
IllFormedHistory(f) ==
    \E i \in 1..Len(f) :
        /\ IsRecord(f, i)
        /\ \/ \E j \in 1..(i - 1) : RecordAt(f, j, f[i].event)
           \/ /\ f[i].event.type = "finalization"
              /\ ~ \E j \in 1..(i - 1) : RecordAt(f, j, Intent(f[i].event.attempt))

Loads(f) ==
    /\ ~ CutInsideCharacter(f)
    /\ ~ CorruptBeforeFinalLine(f)
    /\ ~ IllFormedHistory(f)

(* MutationJournalLoadResult.trailing_corruption of a file that loads. *)
TrailingCorruption(f) == f # <<>> /\ ~ IsRecord(f, Len(f))

(* Mutants of MayAppend: a check of the append methods is forgotten. *)
MayAppendTwice(f, event) ==
    /\ Loads(f) /\ ~ TrailingCorruption(f)
    /\ event.type = "finalization" => Recorded(f, Intent(event.attempt))

MayAppendAfterTorn(f, event) ==
    /\ Loads(f) /\ ~ Recorded(f, event)
    /\ event.type = "finalization" => Recorded(f, Intent(event.attempt))

MayAppendUnknown(f, event) ==
    Loads(f) /\ ~ TrailingCorruption(f) /\ ~ Recorded(f, event)

(* The guards of append_intent and append_finalization. *)
MayAppend(f, event) ==
    /\ Loads(f)
    /\ ~ TrailingCorruption(f)
    /\ ~ Recorded(f, event)
    /\ event.type = "finalization" => Recorded(f, Intent(event.attempt))
=============================================================================
