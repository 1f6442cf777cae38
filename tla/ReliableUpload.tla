--------------------------- MODULE ReliableUpload ---------------------------
(***************************************************************************)
(* What the store-and-forward path promises, with no queue, thread, batch  *)
(* or fault in it: the gateway owes the cloud every reading it has taken,  *)
(* until the cloud holds it.                                               *)
(***************************************************************************)
EXTENDS Naturals

VARIABLES
    produced,   \* readings taken so far; they are numbered 1..produced
    owed,       \* readings the gateway keeps and will still try to upload
    held        \* readings the cloud has stored

vars == <<produced, owed, held>>

Init == produced = 0 /\ owed = {} /\ held = {}

\* A reading is taken.
Produce ==
    /\ produced' = produced + 1
    /\ owed' = owed \cup {produced + 1}
    /\ UNCHANGED held

\* Some of the readings owed reach the cloud, perhaps not for the first time.
Deliver ==
    /\ \E S \in SUBSET owed : held' = held \cup S
    /\ UNCHANGED <<produced, owed>>

\* The gateway stops owing a reading the cloud holds.
Discharge(r) ==
    /\ r \in owed \cap held
    /\ owed' = owed \ {r}
    /\ UNCHANGED <<produced, held>>

Next == Produce \/ Deliver \/ \E r \in owed : Discharge(r)

Spec == Init /\ [][Next]_vars
=============================================================================
