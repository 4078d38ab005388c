-------------------------- MODULE StartTransaction --------------------------
(***************************************************************************)
(* A start of an issue as the board should see it: a transaction on the    *)
(* issue's card.  It takes effect at once, on a workspace the prompt was   *)
(* delivered to, or leaves no trace of its own.                            *)
(***************************************************************************)
CONSTANTS Issues, Workspaces, None

VARIABLES
    card,      \* card[i]: status and owner
    starting,  \* issues with a start under way
    delivered  \* <<i, w>>: i's prompt was delivered to w's agent

vars == <<card, starting, delivered>>

Init ==
    /\ card = [i \in Issues |-> [status |-> "ready", ws |-> None]]
    /\ starting = {}
    /\ delivered = {}

Becomes(i, c) == card' = [card EXCEPT ![i] = c]

HandedOn(c) == [c EXCEPT !.status = "done"]

Begin(i) ==
    /\ i \notin starting
    /\ starting' = starting \cup {i}
    /\ UNCHANGED <<card, delivered>>

\* An agent can hand its issue on before the start that brought it returns:
\* what became of the card meanwhile comes with the commit.
Commit(i, w) ==
    LET c == [status |-> "active", ws |-> w] IN
    /\ i \in starting /\ <<i, w>> \in delivered
    /\ Becomes(i, c) \/ Becomes(i, HandedOn(c))
    /\ starting' = starting \ {i}
    /\ UNCHANGED delivered

\* The same goes for a card that was in progress already.
Undo(i) ==
    /\ i \in starting
    /\ \/ UNCHANGED card
       \/ card[i].status = "active" /\ Becomes(i, HandedOn(card[i]))
    /\ starting' = starting \ {i}
    /\ UNCHANGED delivered

HandOn(i) ==
    /\ i \notin starting /\ card[i].status = "active"
    /\ Becomes(i, HandedOn(card[i]))
    /\ UNCHANGED <<starting, delivered>>

Reopen(i) ==
    /\ i \notin starting
    /\ card' = [card EXCEPT ![i].status = "ready"]
    /\ UNCHANGED <<starting, delivered>>

Deliver ==
    /\ delivered \subseteq delivered'
    /\ UNCHANGED <<card, starting>>

Next ==
    \/ \E i \in Issues :
        \/ Begin(i) \/ Undo(i)
        \/ \E w \in Workspaces : Commit(i, w)
        \/ HandOn(i) \/ Reopen(i)
    \/ Deliver

Spec == Init /\ [][Next]_vars
=============================================================================
