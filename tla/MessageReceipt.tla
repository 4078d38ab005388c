--------------------------- MODULE MessageReceipt ---------------------------
(***************************************************************************)
(* What the sender of a message is promised about the answers it gets when *)
(* it asks for the message's delivery: they only become more certain, a    *)
(* refusal and a confirmation are final, and what is confirmed was read.   *)
(***************************************************************************)
CONSTANT Messages

VARIABLES
    status,  \* status[m]: the answer for m
    read     \* messages that reached the agent's context

vars == <<status, read>>

Moves == {<<"unknown", "undeliverable">>, <<"unknown", "queued">>, <<"unknown", "delivered">>,
          <<"queued", "timed out">>, <<"queued", "delivered">>, <<"timed out", "delivered">>}

Init == status = [m \in Messages |-> "unknown"] /\ read = {}

Read ==
    /\ read \subseteq read' /\ read' \subseteq Messages
    /\ UNCHANGED status

Answer(m) ==
    /\ <<status[m], status'[m]>> \in Moves
    /\ status'[m] = "delivered" => m \in read
    /\ status' = [status EXCEPT ![m] = status'[m]]
    /\ UNCHANGED read

Next == Read \/ \E m \in Messages : Answer(m)

Spec == Init /\ [][Next]_vars
=============================================================================
