--------------------------- MODULE CancelRegistry ---------------------------
(***************************************************************************)
(* The process-global job registry of the daemon                           *)
(* (crates/shelbi-orchestrator/src/cancel.rs).  Every daemon job holds a   *)
(* guard for its whole lifetime; the guard's flag is its generation        *)
(* marker.  One mutex guards the registry, so each operation is one step.  *)
(***************************************************************************)
EXTENDS Naturals

CONSTANTS Projects,    \* project names
          Workspaces,  \* workspace names; a project-wide job has none of them
          Jobs,        \* identities a job may run under
          None         \* absent workspace, absent job


VARIABLES live,   \* live[j]: what job j is registered as, None while it is not
          flag,   \* flag[j]: j's cancellation flag (meaningful while live)
          quits   \* quits[p]: quitting phases open for project p

registry == <<live, flag, quits>>

JobKinds == {"launch", "poll"}

Registration == [project : Projects, workspace : Workspaces \cup {None}, kind : JobKinds]

ASSUME RegistryAssumption ==
    None \notin Workspaces \cup Projects \cup Jobs \cup Registration

RegistryTypeOK ==
    /\ live \in [Jobs -> Registration \cup {None}]
    /\ flag \in [Jobs -> BOOLEAN]
    /\ quits \in [Projects -> Nat]

RegistryInit ==
    /\ live = [j \in Jobs |-> None]
    /\ flag = [j \in Jobs |-> FALSE]
    /\ quits = [p \in Projects |-> 0]

-----------------------------------------------------------------------------
JobsOf(p) == {j \in Jobs : live[j] # None /\ live[j].project = p}

(* The jobs a trip of the whole project reaches. *)
Tripped(p) == JobsOf(p)

(* A job registered while its project is quitting is born cancelled. *)
BornCancelled_Never(p) == FALSE
BornCancelled_SharedMarker(p) == \E j \in JobsOf(p) : flag[j]
BornCancelled(p) == quits[p] > 0

Register(j, p, w, k) ==
    /\ live[j] = None
    /\ live' = [live EXCEPT ![j] = [project |-> p, workspace |-> w, kind |-> k]]
    /\ flag' = [flag EXCEPT ![j] = BornCancelled(p)]
    /\ UNCHANGED quits

(* JobGuard::drop.  The dropped flag is unobservable and reads FALSE. *)
Unregister(j) ==
    /\ live' = [live EXCEPT ![j] = None]
    /\ flag' = [flag EXCEPT ![j] = FALSE]
    /\ UNCHANGED quits

IsCancelled(j) == flag[j]

(* bump_workspace: a launch timed out; trip the workspace's launches only. *)
LaunchesOn_AnyKind(p, w) == {j \in JobsOf(p) : live[j].workspace = w}
LaunchesOn(p, w) == {j \in JobsOf(p) : live[j].kind = "launch" /\ live[j].workspace = w}

BumpWorkspace(p, w) ==
    /\ flag' = [j \in Jobs |-> flag[j] \/ j \in LaunchesOn(p, w)]
    /\ UNCHANGED <<live, quits>>

BeginQuit(p) ==
    /\ quits' = [quits EXCEPT ![p] = @ + 1]
    /\ flag' = [j \in Jobs |-> flag[j] \/ j \in Tripped(p)]
    /\ UNCHANGED live

(* QuitPhase::drop, a saturating subtraction. *)
PhasesLeft_Reset(n) == 0
PhasesLeft(n) == IF n = 0 THEN 0 ELSE n - 1

EndQuitPhase(p) ==
    /\ quits' = [quits EXCEPT ![p] = PhasesLeft(@)]
    /\ UNCHANGED <<live, flag>>

(* cancel::quit_project: a trip with no quitting phase. *)
TripProject(p) ==
    /\ flag' = [j \in Jobs |-> flag[j] \/ j \in Tripped(p)]
    /\ UNCHANGED <<live, quits>>

(* What QuitBarrier::wait polls for. *)
Drained_Always(p) == TRUE
Drained(p) == JobsOf(p) = {}
=============================================================================
