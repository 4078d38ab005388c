---------------------------- MODULE Supervision ----------------------------
(***************************************************************************)
(* Auto-restart of one workspace's agent pane: the decision core           *)
(* (crates/shelbi-app/src/supervision.rs) inside the poll thread's pass    *)
(* (crates/shelbi-orchestrator/src/poller.rs, maybe_supervise_workspace),  *)
(* against crashes, deliberate ends, the board and the reopen markers of   *)
(* the clients.                                                            *)
(*                                                                         *)
(* Time is counted in units of the base backoff; what is kept of an        *)
(* instant is its age, and an age stops counting at the window's length.   *)
(***************************************************************************)
EXTENDS Integers, Sequences, SequencesExt

CONSTANTS MaxRestarts,  \* MAX_RESTARTS_IN_WINDOW
          Window,       \* CRASH_LOOP_WINDOW
          Stable,       \* STABLE_RECOVERY
          MarkerAge     \* RELAUNCH_REQUEST_MAX_AGE

ASSUME SupervisionAssumption ==
    /\ MaxRestarts \in Nat \ {0}
    /\ Stable \in Nat \ {0}
    /\ Window \in Nat /\ Stable < Window
    /\ MarkerAge \in 1 .. Window

VARIABLES pane,    \* the slot's newest session
          ended,   \* how it ended, as its directory tells
          onIndex, \* the board index shows an active task on the slot
          onTask,  \* the task itself does
          marker,  \* age of the reopen marker, Absent without one
          seen,    \* what the pass under way read of the pane
          budget   \* SupervisionState

vars == <<pane, ended, onIndex, onTask, marker, seen, budget>>

Absent == Window + 1
Ages == 0 .. Window

TypeOK ==
    /\ pane \in {"up", "exiting", "down"}
    /\ ended \in {"crash", "deliberate", "redispatch"}
    /\ onIndex \in BOOLEAN /\ onTask \in BOOLEAN
    /\ marker \in Ages \cup {Absent}
    /\ seen \in {"nothing", "alive", "dead", "relaunching", "starting"}
    /\ budget \in [everAlive : BOOLEAN, restarts : Seq(Ages), gaveUp : BOOLEAN]
    /\ Len(budget.restarts) <= MaxRestarts

(* SupervisionState::default, and reset(). *)
Fresh == [everAlive |-> FALSE, restarts |-> <<>>, gaveUp |-> FALSE]

(* request_relaunch: the pane stays adopted. *)
Rearmed_StandsDown == Fresh
Rearmed == [Fresh EXCEPT !.everAlive = TRUE]

Init ==
    /\ pane = "down" /\ ended = "crash"
    /\ onIndex = FALSE /\ onTask = FALSE
    /\ marker = Absent
    /\ seen = "nothing"
    /\ budget = Fresh

-----------------------------------------------------------------------------
(* SupervisionState::decide. *)

(* A live pane: a give-up ends at the first sighting, the history once the *)
(* last restart is old enough. *)
Forgets(b) == b.gaveUp \/ (b.restarts # <<>> /\ Last(b.restarts) >= Stable)

Sighted(b) ==
    IF Forgets(b) THEN Rearmed
    ELSE [b EXCEPT !.everAlive = TRUE, !.gaveUp = FALSE]

(* The filter keeps what is still in the window.  The history is oldest    *)
(* first (OldestFirst), so what it drops is a prefix: there is a place     *)
(* where the history splits only because it is in order.                   *)
Expired(rs) ==
    CHOOSE n \in 0 .. Len(rs) : \A k \in DOMAIN rs : rs[k] < Window <=> k > n

InWindow_Unpruned(b) == b.restarts
InWindow(b) == SubSeq(b.restarts, Expired(b.restarts) + 1, Len(b.restarts))

(* 1 << n, for as many bits as the cap lets a history ask for. *)
Shl[n \in 0 .. MaxRestarts] == IF n = 0 THEN 1 ELSE 2 * Shl[n - 1]

Backoff_Flat(n) == 1
Backoff(n) == Shl[n - 1]

BacksOff(rs) == rs # <<>> /\ Last(rs) < Backoff(Len(rs))

Capped_OffByOne(rs) == Len(rs) > MaxRestarts
Capped(rs) == Len(rs) >= MaxRestarts

(* The verdict on a dead pane, and the state it leaves. *)
Verdict(b, work, deliberate) ==
    LET rs == InWindow(b) IN
    IF ~b.everAlive THEN [act |-> "none", next |-> b]
    ELSE IF ~work THEN [act |-> "none", next |-> Fresh]
    ELSE IF deliberate THEN [act |-> "stand-down", next |-> Fresh]
    ELSE IF b.gaveUp THEN [act |-> "none", next |-> b]
    ELSE IF Capped(rs)
    THEN [act |-> "give-up", next |-> [b EXCEPT !.restarts = rs, !.gaveUp = TRUE]]
    ELSE IF BacksOff(rs) THEN [act |-> "none", next |-> [b EXCEPT !.restarts = rs]]
    ELSE [act |-> "restart", next |-> [b EXCEPT !.restarts = Append(rs, 0)]]

-----------------------------------------------------------------------------
(* One pass of the poll thread. *)

Look ==
    /\ seen = "nothing"
    /\ seen' = IF pane = "up" THEN "alive" ELSE "dead"
    /\ UNCHANGED <<pane, ended, onIndex, onTask, marker, budget>>

(* A live pane's marker is spent with it. *)
SeenAlive ==
    /\ seen = "alive"
    /\ budget' = Sighted(budget)
    /\ marker' = Absent
    /\ seen' = "nothing"
    /\ UNCHANGED <<pane, ended, onIndex, onTask>>

(* The exit record is not written yet: the verdict waits. *)
SeenExiting ==
    /\ seen = "dead"
    /\ pane = "exiting"
    /\ seen' = "nothing"
    /\ UNCHANGED <<pane, ended, onIndex, onTask, marker, budget>>

(* A session that came up after the look has no end on record, and reads   *)
(* as a crash.                                                             *)
ReadsDeliberate == pane = "down" /\ ended # "crash"

Reopened == marker < MarkerAge

(* How a relaunch leaves the slot.  Its kill notes a redispatch on the      *)
(* slot's newest session, be it dead; when the spawn then fails, that one  *)
(* stays the newest unless the new session got as far as its directory.    *)
(* A failure before the kill changes nothing.                              *)
Respawned ==
    \/ pane' = "up" /\ ended' = ended
    \/ pane' = "down" /\ ended' \in {"redispatch", "crash"}
    \/ UNCHANGED <<pane, ended>>

(* The user reopened a pane that went down on purpose: it is resumed, not  *)
(* redispatched, when the slot has a task.                                 *)
ResumeReopened ==
    /\ seen = "dead" /\ pane # "exiting"
    /\ Reopened /\ ReadsDeliberate
    /\ budget' = Rearmed
    /\ marker' = Absent
    /\ seen' = "nothing"
    /\ IF onIndex THEN Respawned ELSE UNCHANGED <<pane, ended>>
    /\ UNCHANGED <<onIndex, onTask>>

DecideDead ==
    LET armed == IF Reopened THEN Rearmed ELSE budget
        verdict == Verdict(armed, onIndex, ReadsDeliberate)
    IN
    /\ seen = "dead" /\ pane # "exiting"
    /\ ~(Reopened /\ ReadsDeliberate)
    /\ budget' = verdict.next
    /\ marker' = Absent
    /\ seen' = IF verdict.act = "restart" THEN "relaunching" ELSE "nothing"
    /\ UNCHANGED <<pane, ended, onIndex, onTask>>

(* redispatch_workspace reads the task itself, which leads the index; then *)
(* start_workspace_on_task runs, which replaces whatever the slot runs.    *)
RedispatchSuperseded ==
    /\ seen = "relaunching"
    /\ ~onTask
    /\ budget' = Fresh
    /\ seen' = "nothing"
    /\ UNCHANGED <<pane, ended, onIndex, onTask, marker>>

Redispatch ==
    /\ seen = "relaunching"
    /\ onTask
    /\ seen' = "starting"
    /\ UNCHANGED <<pane, ended, onIndex, onTask, marker, budget>>

RelaunchEnds ==
    /\ seen = "starting"
    /\ seen' = "nothing"
    /\ Respawned
    /\ UNCHANGED <<onIndex, onTask, marker, budget>>

Pass ==
    \/ Look
    \/ SeenAlive \/ SeenExiting
    \/ ResumeReopened \/ DecideDead
    \/ RedispatchSuperseded \/ Redispatch \/ RelaunchEnds

-----------------------------------------------------------------------------
(* Everyone else. *)

Dies == pane = "up" /\ pane' = "exiting" /\ ended' = "crash"

(* A clean exit or a recorded kill; a stop takes the task off the slot.    *)
EndedOnPurpose ==
    /\ pane' = "down" /\ ended' = "deliberate"
    /\ onTask' \in {onTask, FALSE}

Crash ==
    /\ Dies
    /\ UNCHANGED <<onIndex, onTask, marker, seen, budget>>

Recorded ==
    /\ pane = "exiting"
    /\ pane' = "down"
    /\ UNCHANGED <<ended, onIndex, onTask, marker, seen, budget>>

EndOnPurpose ==
    /\ pane # "exiting"
    /\ EndedOnPurpose
    /\ UNCHANGED <<onIndex, marker, seen, budget>>

(* A dispatch puts a task on the slot and starts its agent. *)
Dispatch ==
    /\ pane # "exiting"
    /\ pane' = "up"
    /\ onTask' = TRUE
    /\ UNCHANGED <<ended, onIndex, marker, seen, budget>>

TaskMovesOn ==
    /\ onTask
    /\ onTask' = FALSE
    /\ UNCHANGED <<pane, ended, onIndex, marker, seen, budget>>

IndexCatchesUp ==
    /\ onIndex # onTask
    /\ onIndex' = onTask
    /\ UNCHANGED <<pane, ended, onTask, marker, seen, budget>>

Reopen ==
    /\ marker' = 0
    /\ UNCHANGED <<pane, ended, onIndex, onTask, seen, budget>>

Older(age) == IF age < Window THEN age + 1 ELSE age

TimePasses ==
    /\ budget' = [budget EXCEPT !.restarts = [k \in DOMAIN @ |-> Older(@[k])]]
    /\ marker' = Older(marker)
    /\ UNCHANGED <<pane, ended, onIndex, onTask, seen>>

Next ==
    \/ Pass
    \/ Crash \/ Recorded \/ EndOnPurpose
    \/ Dispatch \/ TaskMovesOn \/ IndexCatchesUp
    \/ Reopen
    \/ TimePasses

Spec == Init /\ [][Next]_vars

(* The poll thread runs, time passes, a dying session writes its record    *)
(* and the index is refreshed.                                             *)
FairSpec ==
    /\ Spec
    /\ WF_vars(Pass)
    /\ WF_vars(TimePasses)
    /\ WF_vars(Recorded)
    /\ WF_vars(IndexCatchesUp)

-----------------------------------------------------------------------------
(* Properties. *)

(* The history of restarts is kept oldest first: retain and push keep the  *)
(* order, and time passes for all of them alike.                           *)
OldestFirst ==
    \A j, k \in 1 .. Len(budget.restarts) :
        j < k => budget.restarts[j] >= budget.restarts[k]

(* Successive restarts in one budget are spaced exponentially, whatever    *)
(* the pruning, the sightings and the failed relaunches in between         *)
(* (supervision.rs: at 0s, then >=5s, >=10s, >=20s, >=40s).                *)
RestartsAreSpaced ==
    \A k \in 1 .. Len(budget.restarts) - 1 :
        budget.restarts[k] < Window =>
            budget.restarts[k] - budget.restarts[k + 1] >= Shl[k - 1]

(* A pane is given up only after as many restarts as the budget has, all   *)
(* of them inside one window when the verdict falls, and only once every   *)
(* backoff between them has been waited out, which add up.                 *)
GiveUpSpentTheBudget ==
    [][~budget.gaveUp /\ budget'.gaveUp =>
           /\ Len(budget'.restarts) = MaxRestarts
           /\ \A k \in 1 .. MaxRestarts : budget'.restarts[k] < Window
           /\ budget'.restarts[1] >= Shl[MaxRestarts - 1] - 1]_vars

(* A crashed pane that keeps its work is not forgotten, whatever reopens,  *)
(* failed relaunches and index lags come between: another relaunch starts, *)
(* or the pane is given up (poller.rs, maybe_supervise_workspace).         *)
CrashedAtWork ==
    /\ pane = "down" /\ ended = "crash"
    /\ budget.everAlive
    /\ onTask /\ onIndex

CrashIsAnswered ==
    CrashedAtWork ~>
        (pane = "up" \/ seen = "starting" \/ budget.gaveUp \/ ended # "crash" \/ ~onTask)
=============================================================================
