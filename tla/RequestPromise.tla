--------------------------- MODULE RequestPromise ---------------------------
(***************************************************************************)
(* What whoever sends requests to the daemon may rely on: a request is     *)
(* carried out at most once, "done" means it was, "refused" means it was   *)
(* not and will not be unless it is sent again, and after a lost           *)
(* connection nothing more happens to it behind the sender's back.         *)
(***************************************************************************)
EXTENDS Naturals

CONSTANT Requests

VARIABLES
    runs,  \* runs[r]: how often r has been carried out
    told   \* told[r]: what r's sender knows of it

vars == <<runs, told>>

Init == runs = [r \in Requests |-> 0] /\ told = [r \in Requests |-> "idle"]

Tells(r, from, to) == told[r] = from /\ told' = [told EXCEPT ![r] = to]

Ask(r) ==
    /\ runs[r] = 0
    /\ Tells(r, "idle", "sent") \/ Tells(r, "refused", "sent")
    /\ UNCHANGED runs

\* A request outlives the sender that left, and nothing else.
Carry(r) ==
    /\ runs[r] = 0 /\ told[r] \in {"sent", "gone"}
    /\ runs' = [runs EXCEPT ![r] = 1]
    /\ UNCHANGED told

Confirm(r) == runs[r] = 1 /\ Tells(r, "sent", "done") /\ UNCHANGED runs

Refuse(r) == runs[r] = 0 /\ Tells(r, "sent", "refused") /\ UNCHANGED runs

Leave(r) == Tells(r, "sent", "gone") /\ UNCHANGED runs

\* The daemon dies; every sender still waiting learns as much and no more.
LoseAll ==
    /\ told' = [r \in Requests |-> IF told[r] = "sent" THEN "lost" ELSE told[r]]
    /\ UNCHANGED runs

Next ==
    \/ \E r \in Requests : Ask(r) \/ Carry(r) \/ Confirm(r) \/ Refuse(r) \/ Leave(r)
    \/ LoseAll

Spec == Init /\ [][Next]_vars
=============================================================================
