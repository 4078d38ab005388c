----------------------------- MODULE IssueStart -----------------------------
(***************************************************************************)
(* `issue start' inside the daemon: the requests that mutate the board     *)
(* (crates/shelbi-orchestrator/src/mutate/start.rs, one at a time per      *)
(* issue, crates/shelbi-cli/src/commands/daemon/control.rs) and the launch *)
(* threads they spawn, wait for and may abandon (workspace.rs,             *)
(* start_workspace_on_task).  One project, on the local board.             *)
(***************************************************************************)
EXTENDS CancelRegistry

CONSTANTS Issues,
          Project,
          LateThreads  \* threads that may reach their start's deadline unregistered

ASSUME StartAssumption ==
    /\ Projects = {Project}
    /\ None \notin Issues
    /\ LateThreads \subseteq Jobs

VARIABLES issue,     \* issue[i]: the card, its status and its assigned_to
          req,       \* req[i]: the start request that holds i's lock, if any
          launch,    \* launch[j]: the launch thread running as job j
          wsLock,    \* holder of the workspace's dispatch lock
          tree,      \* tree[w]: the issue whose branch w's worktree is on
          pane,      \* pane[w]: the issue w's agent session was started for,
                     \* until the session ends or is sent the signal to
          delivered, \* <<i, w>> with a confirmed/unverified event in the log
          acceptedLate, \* history: workspaces a timed out start was accepted on
          leftBehind \* workspaces whose session, of another issue, a failed
                     \* start could not end

vars == <<live, flag, quits, issue, req, launch, wsLock, tree, pane, delivered,
          acceptedLate, leftBehind>>

Statuses == {"ready", "active", "done"}
Cards == [status : Statuses, ws : Workspaces \cup {None}]
ReqPcs == {"idle", "gated", "moved", "assigned", "waiting", "timedout", "rollback",
           "restored", "teardown", "launched", "releasing"}
LaunchPcs == {"idle", "born", "registered", "locked", "synced", "deploying", "bare",
              "spawned", "completed", "failed"}

TypeOK ==
    /\ RegistryTypeOK
    /\ issue \in [Issues -> Cards]
    /\ req \in [Issues -> [pc : ReqPcs, ws : Workspaces \cup {None},
                           original : Cards, job : Jobs \cup {None}]]
    /\ launch \in [Jobs -> [pc : LaunchPcs, issue : Issues \cup {None},
                            ws : Workspaces \cup {None}]]
    /\ wsLock \in [Workspaces -> Jobs \cup {None}]
    /\ tree \in [Workspaces -> Issues \cup {None}]
    /\ pane \in [Workspaces -> Issues \cup {None}]
    /\ delivered \subseteq Issues \X Workspaces
    /\ acceptedLate \subseteq Workspaces
    /\ leftBehind \subseteq Workspaces

Unassigned == [status |-> "ready", ws |-> None]
NoRequest == [pc |-> "idle", ws |-> None, original |-> Unassigned, job |-> None]
NoLaunch == [pc |-> "idle", issue |-> None, ws |-> None]

Init ==
    /\ RegistryInit
    /\ issue = [i \in Issues |-> Unassigned]
    /\ req = [i \in Issues |-> NoRequest]
    /\ launch = [j \in Jobs |-> NoLaunch]
    /\ wsLock = [w \in Workspaces |-> None]
    /\ tree = [w \in Workspaces |-> None]
    /\ pane = [w \in Workspaces |-> None]
    /\ delivered = {}
    /\ acceptedLate = {}
    /\ leftBehind = {}

place == <<wsLock, tree, pane, delivered, acceptedLate, leftBehind>>
registryAndPlace == <<live, flag, quits, place>>

-----------------------------------------------------------------------------
(* The request. *)

(* ensure_workspace_dispatchable refuses a workspace another active card   *)
(* names; workspace_busy_with_other counts every open card that names it.  *)
(* A card that is "done" was handed on and is still open, or is closed.    *)
BusyWithOther(w, i) ==
    \E k \in Issues \ {i} : issue[k].ws = w /\ issue[k].status = "active"

NamedByOther(w, i) ==
    \E k \in Issues \ {i} : issue[k].ws = w /\ issue[k].status # "done"

Proceeds(i, pc) == req' = [req EXCEPT ![i].pc = pc]

(* A job identity is free once its thread and its request are both gone. *)
FreeJob(j) == launch[j].pc = "idle" /\ \A i \in Issues : req[i].job # j

Gate(i, w, j) ==
    /\ req[i].pc = "idle"
    /\ FreeJob(j)
    /\ ~BusyWithOther(w, i)
    /\ req' = [req EXCEPT ![i] = [pc |-> "gated", ws |-> w, original |-> issue[i], job |-> j]]
    /\ UNCHANGED <<issue, launch, registryAndPlace>>

(* The recheck right before the move: a card changed since the client      *)
(* looked at it aborts the start.                                          *)
RecheckFails(i) ==
    /\ req[i].pc = "gated"
    /\ issue[i] # req[i].original
    /\ req' = [req EXCEPT ![i] = NoRequest]
    /\ UNCHANGED <<issue, launch, registryAndPlace>>

(* Mutation: nobody looks again. *)
PersistMove_Unchecked(i) ==
    /\ req[i].pc = "gated"
    /\ issue' = [issue EXCEPT ![i].status = "active"]
    /\ Proceeds(i, "moved")
    /\ UNCHANGED <<launch, registryAndPlace>>

PersistMove(i) ==
    /\ req[i].pc = "gated"
    /\ issue[i] = req[i].original
    /\ issue' = [issue EXCEPT ![i].status = "active"]
    /\ Proceeds(i, "moved")
    /\ UNCHANGED <<launch, registryAndPlace>>

PersistAssignment(i) ==
    /\ req[i].pc = "moved"
    /\ issue' = [issue EXCEPT ![i].ws = req[i].ws]
    /\ Proceeds(i, "assigned")
    /\ UNCHANGED <<launch, registryAndPlace>>

SpawnLaunchThread(i) ==
    /\ req[i].pc = "assigned"
    /\ launch' = [launch EXCEPT ![req[i].job] =
                     [pc |-> "born", issue |-> i, ws |-> req[i].ws]]
    /\ Proceeds(i, "waiting")
    /\ UNCHANGED <<issue, registryAndPlace>>

(* await_launch: the thread's answer, or the idle deadline. *)
LaunchAnswers(i) ==
    LET j == req[i].job IN
    /\ req[i].pc = "waiting"
    /\ launch[j].pc \in {"completed", "failed"}
    /\ launch' = [launch EXCEPT ![j] = NoLaunch]
    /\ Proceeds(i, IF launch[j].pc = "completed" THEN "launched" ELSE "rollback")
    /\ UNCHANGED <<issue, registryAndPlace>>

DeadlineApplies_Never == FALSE
DeadlineApplies == TRUE

IdleTimeout(i) ==
    /\ req[i].pc = "waiting"
    /\ DeadlineApplies
    /\ launch[req[i].job].pc \notin {"completed", "failed"}
    /\ launch[req[i].job].pc = "born" => req[i].job \in LateThreads
    /\ Proceeds(i, "timedout")
    /\ UNCHANGED <<issue, launch, registryAndPlace>>

(* launch_appears_complete: an agent is live in the workspace, and the log *)
(* has a delivery of this issue to it, whenever that was.                  *)
AppearsComplete(i) == pane[req[i].ws] # None /\ <<i, req[i].ws>> \in delivered

LateSuccess(i) ==
    /\ req[i].pc = "timedout"
    /\ AppearsComplete(i)
    /\ Proceeds(i, "launched")
    /\ acceptedLate' = acceptedLate \cup {req[i].ws}
    /\ UNCHANGED <<live, flag, quits, issue, launch, wsLock, tree, pane, delivered,
                   leftBehind>>

Abandon(i) ==
    /\ req[i].pc = "timedout"
    /\ ~AppearsComplete(i)
    /\ BumpWorkspace(Project, req[i].ws)
    /\ Proceeds(i, "rollback")
    /\ UNCHANGED <<issue, launch, place>>

(* rollback_start, two writes; then the workspace's session is ended,      *)
(* whatever it runs.                                                       *)
(* Mutation: the status stays where the start put it. *)
RestoredStatus_Kept(i) == issue[i].status
RestoredStatus(i) == IF req[i].original.status = "active" THEN issue[i].status
                     ELSE req[i].original.status

RestoreStatus(i) ==
    /\ req[i].pc = "rollback"
    /\ issue' = [issue EXCEPT ![i].status = RestoredStatus(i)]
    /\ Proceeds(i, "restored")
    /\ UNCHANGED <<launch, registryAndPlace>>

(* Mutation: the assignment stays, too. *)
RestoredOwner_Kept(i) == issue[i].ws
RestoredOwner(i) == req[i].original.ws

RestoreFields(i) ==
    /\ req[i].pc = "restored"
    /\ issue' = [issue EXCEPT ![i].ws = RestoredOwner(i)]
    /\ Proceeds(i, "teardown")
    /\ UNCHANGED <<launch, registryAndPlace>>

(* Mutation: the ended session leaves a tombstone. *)
EndsSession_Tombstone(w) == [pane EXCEPT ![w] = "killed"]
EndsSession(w) == [pane EXCEPT ![w] = None]

(* The session in w, if there is one, is told to end. *)
Kill(w) ==
    /\ pane' = EndsSession(w)
    /\ leftBehind' = leftBehind \ {w}

(* A teardown that fails is only warned about. *)
Teardown(i) ==
    /\ req[i].pc = "teardown"
    /\ \/ Kill(req[i].ws)
       \/ /\ leftBehind' = IF pane[req[i].ws] \in {None, i} THEN leftBehind
                            ELSE leftBehind \cup {req[i].ws}
          /\ UNCHANGED pane
    /\ req' = [req EXCEPT ![i] = NoRequest]
    /\ UNCHANGED <<live, flag, quits, issue, launch, wsLock, tree, delivered, acceptedLate>>

(* A started card's former workspace is released unless another card names *)
(* it: first the check, then the kill.  A handed on card may be the other  *)
(* one, the board may be unreadable, the probe or the kill may fail: then  *)
(* the session is left alone.                                              *)
Supplants(i) == req[i].original.ws \notin {None, req[i].ws}

Finish(i) ==
    /\ req[i].pc = "launched"
    /\ \/ Supplants(i) /\ ~NamedByOther(req[i].original.ws, i) /\ Proceeds(i, "releasing")
       \/ req' = [req EXCEPT ![i] = NoRequest]
    /\ UNCHANGED <<issue, launch, registryAndPlace>>

ReleaseSupplanted(i) ==
    /\ req[i].pc = "releasing"
    /\ Kill(req[i].original.ws) \/ UNCHANGED <<pane, leftBehind>>
    /\ req' = [req EXCEPT ![i] = NoRequest]
    /\ UNCHANGED <<live, flag, quits, issue, launch, wsLock, tree, delivered, acceptedLate>>

ReqStep(i) ==
    \/ RecheckFails(i)
    \/ PersistMove(i)
    \/ PersistAssignment(i)
    \/ SpawnLaunchThread(i)
    \/ LaunchAnswers(i)
    \/ IdleTimeout(i)
    \/ LateSuccess(i)
    \/ Abandon(i)
    \/ RestoreStatus(i)
    \/ RestoreFields(i)
    \/ Teardown(i)
    \/ Finish(i)
    \/ ReleaseSupplanted(i)

-----------------------------------------------------------------------------
(* The launch thread (start_workspace_on_task, deploy_and_spawn). *)

Reaches(j, pc) == launch' = [launch EXCEPT ![j].pc = pc]

RegisterLaunch(j) ==
    /\ launch[j].pc = "born"
    /\ Register(j, Project, launch[j].ws, "launch")
    /\ Reaches(j, "registered")
    /\ UNCHANGED <<issue, req, place>>

(* Mutation: the dispatch is not serialised per workspace. *)
LockIsFree_Unlocked(w) == TRUE
LockIsFree(w) == wsLock[w] = None

LockAndCheck(j) ==
    LET w == launch[j].ws IN
    /\ launch[j].pc = "registered"
    /\ LockIsFree(w)
    /\ ~IsCancelled(j)
    /\ wsLock' = [wsLock EXCEPT ![w] = j]
    /\ Reaches(j, "locked")
    /\ UNCHANGED <<live, flag, quits, issue, req, tree, pane, delivered,
                   acceptedLate, leftBehind>>

SyncWorktree(j) ==
    /\ launch[j].pc = "locked"
    /\ tree' = [tree EXCEPT ![launch[j].ws] = launch[j].issue]
    /\ Reaches(j, "synced")
    /\ UNCHANGED <<live, flag, quits, issue, req, wsLock, pane, delivered,
                   acceptedLate, leftBehind>>

PreSpawnCheck(j) ==
    /\ launch[j].pc = "synced"
    /\ ~IsCancelled(j)
    /\ Reaches(j, "deploying")
    /\ UNCHANGED <<issue, req, registryAndPlace>>

KillOld(j) ==
    /\ launch[j].pc = "deploying"
    /\ Kill(launch[j].ws)
    /\ Reaches(j, "bare")
    /\ UNCHANGED <<live, flag, quits, issue, req, wsLock, tree, delivered,
                   acceptedLate>>

SpawnPane(j) ==
    /\ launch[j].pc = "bare"
    /\ pane' = [pane EXCEPT ![launch[j].ws] = launch[j].issue]
    /\ leftBehind' = leftBehind \ {launch[j].ws}
    /\ Reaches(j, "spawned")
    /\ UNCHANGED <<live, flag, quits, issue, req, wsLock, tree, delivered,
                   acceptedLate>>

(* The thread returns: lock and guard drop, the answer goes to the request *)
(* if it still waits.                                                      *)
Awaited(j) == \E i \in Issues : req[i].job = j /\ req[i].pc = "waiting"

Return(j, pc) ==
    /\ Unregister(j)
    /\ wsLock' = [w \in Workspaces |-> IF wsLock[w] = j THEN None ELSE wsLock[w]]
    /\ launch' = [launch EXCEPT ![j] = IF Awaited(j) THEN [@ EXCEPT !.pc = pc] ELSE NoLaunch]
    /\ UNCHANGED <<issue, req, tree, pane, acceptedLate, leftBehind>>

Deliver(j) ==
    /\ launch[j].pc = "spawned"
    /\ delivered' = delivered \cup {<<launch[j].issue, launch[j].ws>>}
    /\ Return(j, "completed")

(* A tripped launch stands down; a step of the setup, the kill, the spawn  *)
(* or the delivery fails.                                                  *)
StandDown(j) ==
    /\ IsCancelled(j)
    /\ \/ launch[j].pc = "registered" /\ LockIsFree(launch[j].ws)
       \/ launch[j].pc = "synced"
    /\ Return(j, "failed")
    /\ UNCHANGED delivered

LaunchFails(j) ==
    /\ launch[j].pc \in {"locked", "synced", "deploying", "bare", "spawned"}
    /\ launch[j].pc = "synced" => ~IsCancelled(j)
    /\ Return(j, "failed")
    /\ UNCHANGED delivered

LaunchStep(j) ==
    \/ RegisterLaunch(j)
    \/ LockAndCheck(j)
    \/ SyncWorktree(j)
    \/ PreSpawnCheck(j)
    \/ KillOld(j)
    \/ SpawnPane(j)
    \/ Deliver(j)
    \/ StandDown(j)
    \/ LaunchFails(j)

-----------------------------------------------------------------------------
(* Others: the poller hands a card on at any time, a user moves it under   *)
(* the issue's lock; a session dies.                                       *)

CardMoves(i) ==
    /\ \/ issue[i].status = "active" /\ issue' = [issue EXCEPT ![i].status = "done"]
       \/ /\ issue[i].status # "ready"
          /\ req[i].pc = "idle"
          /\ issue' = [issue EXCEPT ![i].status = "ready"]
    /\ UNCHANGED <<req, launch, registryAndPlace>>

SessionEnds(w) ==
    /\ pane[w] # None
    /\ Kill(w)
    /\ UNCHANGED <<live, flag, quits, issue, req, launch, wsLock, tree, delivered,
                   acceptedLate>>

Next ==
    \/ \E i \in Issues :
        \/ ReqStep(i)
        \/ CardMoves(i)
        \/ \E w \in Workspaces, j \in Jobs : Gate(i, w, j)
    \/ \E j \in Jobs : LaunchStep(j)
    \/ \E w \in Workspaces : SessionEnds(w)

Spec == Init /\ [][Next]_vars

(* The daemon runs the request's thread and its deadline comes, and a      *)
(* launch thread that is not late comes to register; from there on it may  *)
(* hang for ever.                                                          *)
FairSpec ==
    /\ Spec
    /\ \A i \in Issues : WF_vars(ReqStep(i))
    /\ \A j \in Jobs \ LateThreads : WF_vars(RegisterLaunch(j))

-----------------------------------------------------------------------------
(* Properties. *)

NoStartOn(w) == \A i \in Issues : req[i].ws # w

(* A workspace no start is working on never has an agent running in the    *)
(* worktree of another issue's branch, even while an abandoned launch      *)
(* still holds its lock (the promise of the dispatch lock,                 *)
(* workspace.rs:2660), unless a timed out start was accepted there or the  *)
(* agent is another issue's, which a failed start could not end and warned *)
(* about.                                                                  *)
QuietSlotRunsItsTree ==
    \A w \in Workspaces \ (acceptedLate \cup leftBehind) :
        NoStartOn(w) => pane[w] \in {None, tree[w]}

(* A card is left in progress only on a workspace its prompt was delivered *)
(* to: every other start is rolled back, to whatever the card was before   *)
(* (start.rs: the move is persisted before the launch, `F7').              *)
ActiveCardWasDelivered ==
    \A i \in Issues :
        req[i].pc = "idle" /\ issue[i].status = "active" =>
            <<i, issue[i].ws>> \in delivered

(* The launch a start waits for is never one that an earlier start's       *)
(* timeout tripped (start.rs:280: a redispatch registers a fresh guard     *)
(* after the bump).  It is about one issue: issues that share a workspace  *)
(* (see NoDoubleBooking) trip each other's launches.                       *)
RedispatchIsFresh ==
    \A i \in Issues : req[i].pc = "waiting" => ~IsCancelled(req[i].job)

(* A start is all or nothing for the card, although it writes the card     *)
(* twice on the way in and twice on the way back while the poller moves    *)
(* it: what it commits was delivered, and a start that fails gives back    *)
(* the card it found (start.rs: the snapshot taken after the recheck, and  *)
(* rollback_start).                                                        *)
Unsettled == {"moved", "assigned", "waiting", "timedout", "rollback", "restored"}

SettledCard(i) == IF req[i].pc \in Unsettled THEN req[i].original ELSE issue[i]

Transaction == INSTANCE StartTransaction WITH
    card <- [i \in Issues |-> SettledCard(i)],
    starting <- {i \in Issues : req[i].pc \in Unsettled}

StartsAreAtomic == Transaction!Spec

(* A start returns to its client however long its launch hangs, on git, on *)
(* ssh or behind another launch's lock (start.rs: the idle deadline).      *)
StartAlwaysReturns == \A i \in Issues : req[i].pc = "gated" ~> req[i].pc = "idle"

-----------------------------------------------------------------------------
(* What comments in the code say, and the code does not ensure. *)

(* Dispatch can't double-book a workspace, because it persists the         *)
(* assignment before it spawns (occupancy.rs): two started cards are never *)
(* in progress on one workspace.                                           *)
InProgressOn(i, w) == req[i].pc = "idle" /\ issue[i] = [status |-> "active", ws |-> w]

NoDoubleBooking ==
    \A w \in Workspaces, i, k \in Issues :
        InProgressOn(i, w) /\ InProgressOn(k, w) => i = k
=============================================================================
