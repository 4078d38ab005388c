---------------------------- MODULE RetainedLog ----------------------------
(***************************************************************************)
(* What the event log promises to everybody who holds a logical cursor     *)
(* into it: lines get consecutive logical positions and keep them, and the *)
(* log forgets only a prefix, whatever files it keeps its lines in and     *)
(* whatever happens to the process that is moving them.                    *)
(***************************************************************************)
EXTENDS Naturals

VARIABLES
    head,     \* position after the newest line
    earliest  \* position of the oldest line that can still be read

vars == <<head, earliest>>

Init == head = 0 /\ earliest = 0

\* One append makes one line, and the lines that name who lost data, readable.
Append ==
    /\ head' \in Nat /\ head' > head
    /\ UNCHANGED earliest

\* A rotation forgets a prefix; it neither adds nor renumbers a line.
Forget ==
    /\ earliest' \in Nat /\ earliest' > earliest /\ earliest' <= head
    /\ UNCHANGED head

Next == Append \/ Forget

Spec == Init /\ [][Next]_vars
=============================================================================
