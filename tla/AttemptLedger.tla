--------------------------- MODULE AttemptLedger ---------------------------
(***************************************************************************)
(* What the mutation journal promises to its callers, without files: every *)
(* attempt goes from absent to open (its intent is on record) to finalized.*)
(* A step becomes visible when it is recorded and permanent when it is     *)
(* promised (the append returned).  A fault may take back recorded steps,  *)
(* never promised ones.                                                    *)
(***************************************************************************)
EXTENDS Integers

CONSTANT Attempts

Absent == 0
Open == 1
Finalized == 2

VARIABLES
    status,     \* per attempt: what a load of the journal reports
    promised    \* per attempt: how far its progress was acknowledged

vars == <<status, promised>>

Statuses == {Absent, Open, Finalized}

Init ==
    /\ status = [a \in Attempts |-> Absent]
    /\ promised = [a \in Attempts |-> Absent]

(* append_intent or append_finalization puts its record into the journal. *)
Record(a) ==
    /\ status[a] \in {Absent, Open}
    /\ status' = [status EXCEPT ![a] = @ + 1]
    /\ UNCHANGED promised

(* The append returns. *)
Promise(a) ==
    /\ \E s \in Statuses :
        /\ promised[a] < s /\ s <= status[a]
        /\ promised' = [promised EXCEPT ![a] = s]
    /\ UNCHANGED status

(* A fault takes back what was recorded and not promised. *)
Forget ==
    /\ status' \in [Attempts -> Statuses]
    /\ \A a \in Attempts : promised[a] <= status'[a] /\ status'[a] <= status[a]
    /\ UNCHANGED promised

Next ==
    \/ \E a \in Attempts : Record(a) \/ Promise(a)
    \/ Forget

Spec == Init /\ [][Next]_vars

-----------------------------------------------------------------------------

(* A promise is kept: no fault ever takes the journal below it. *)
PromisesKept == \A a \in Attempts : promised[a] <= status[a]
=============================================================================
