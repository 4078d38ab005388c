--------------------------- MODULE DeliveryQueue ---------------------------
(***************************************************************************)
(* What a project's event feed promises its consumer: a queue that is      *)
(* delivered at least once.  Lines are settled in order, and a line is     *)
(* settled only after it was handed over, unless it was given up.          *)
(***************************************************************************)
EXTENDS Naturals

VARIABLES
    lines,    \* positions of the lines that are for this consumer
    handed,   \* lines handed over at least once
    givenUp,  \* lines that were given up
    settled   \* every line below this position is settled

vars == <<lines, handed, givenUp, settled>>

Init == lines = {} /\ handed = {} /\ givenUp = {} /\ settled = 0

\* A new line comes after every other, and is not settled.
Publish ==
    /\ lines \subseteq lines' /\ lines' \subseteq Nat
    /\ \A n \in lines' \ lines : settled <= n /\ \A m \in lines : m < n
    /\ UNCHANGED <<handed, givenUp, settled>>

\* The same lines may be handed over any number of times.
HandOver ==
    /\ handed \subseteq handed' /\ handed' \subseteq lines
    /\ UNCHANGED <<lines, givenUp, settled>>

\* Giving lines up and settling are one step where the feed does both at once.
Settle ==
    /\ givenUp \subseteq givenUp' /\ givenUp' \subseteq lines
    /\ settled' \in Nat /\ settled' >= settled
    /\ \A n \in lines : settled <= n /\ n < settled' => n \in handed \cup givenUp'
    /\ UNCHANGED <<lines, handed>>

Next == Publish \/ HandOver \/ Settle

Spec == Init /\ [][Next]_vars
=============================================================================
