---------------------------- MODULE ProjectQuit ----------------------------
(***************************************************************************)
(* Quitting a project (crates/shelbi-orchestrator/src/quit.rs) against     *)
(* everything the daemon may be doing for it: launches that agents,        *)
(* clients and the poller asked for (workspace.rs), the poller supervisor  *)
(* (poller.rs), the manager that starts and stops pollers                  *)
(* (shelbi-cli/src/commands/daemon/poller.rs), and a user reopening the    *)
(* project (lib.rs, ensure_dashboard).                                     *)
(*                                                                         *)
(* A slot is a place a session runs in: a workspace, or a project's        *)
(* orchestrator.  A launch is a thread inside start_workspace_on_task (or  *)
(* the orchestrator relaunch of the supervisor).                           *)
(***************************************************************************)
EXTENDS CancelRegistry, FiniteSets

CONSTANTS Launches,       \* launch threads
          Quits,          \* quit compositions that may run at once
          SlotProject,    \* the project of each slot
          OrchOf,         \* the orchestrator slot of each project
          Supervisor,     \* the job identity of each project's poller
          MayWedge        \* whether a job may outlast the quit barrier's bound

Slots == DOMAIN SlotProject
Orchestrators == {OrchOf[p] : p \in Projects}
Workers == Slots \ Orchestrators

ASSUME QuitAssumption ==
    /\ SlotProject \in [Slots -> Projects]
    /\ Workers = Workspaces
    /\ OrchOf \in [Projects -> Slots]
    /\ \A p \in Projects : SlotProject[OrchOf[p]] = p
    /\ Launches \subseteq Jobs
    /\ Supervisor \in [Projects -> Jobs \ Launches]
    /\ \A p, r \in Projects : Supervisor[p] = Supervisor[r] => p = r
    /\ IsFiniteSet(Quits)
    /\ MayWedge \in BOOLEAN
    /\ None \notin Slots
    /\ Projects \cap Launches = {}

VARIABLES open,      \* open[p]: the open flag in p's state.json
          session,   \* session[s]: the session in s
          slotLock,  \* holder of the slot's dispatch (or dashboard) lock
          launch,    \* launch[l]: where thread l is
          opener,    \* opener[p]: a user command inside ensure_dashboard
          quit,      \* quit[q]: where composition q is
          sup,       \* sup[p]: p's poller thread
          handle,    \* handle[p]: the manager holds a WorkspacePoller for p
          shutdown,  \* shutdown[p]: that handle's shutdown flag
          mgr        \* the manager's reconcile pass

vars == <<live, flag, quits, open, session, slotLock, launch, opener, quit, sup,
          handle, shutdown, mgr>>

Requesters == {"request", "poller"}
LaunchPcs == {"idle", "gated", "registered", "setup", "locking", "spawning", "spawned"}
QuitPcs == {"idle", "phasing", "closing", "draining", "listing", "killing", "ending"}
SupPcs == {"off", "born", "loop", "pass", "launching"}
MgrPcs == {"idle", "closing", "joining", "waiting", "starting"}

LaunchTypeOK ==
    /\ launch \in [Launches -> [pc : LaunchPcs, slot : Slots \cup {None}, by : Requesters]]
    /\ \A l \in Launches : launch[l].pc # "idle" => launch[l].slot \in Slots

(* `scope' are the projects whose sessions it sweeps, `projects' those it   *)
(* phases, closes and drains.                                              *)
Composition == [pc : QuitPcs, scope : SUBSET Projects, projects : SUBSET Projects,
                held : SUBSET Projects, todo : SUBSET Projects,
                victims : SUBSET Slots, drained : BOOLEAN]

QuitTypeOK == quit \in [Quits -> Composition]

PollerTypeOK ==
    /\ sup \in [Projects -> SupPcs]
    /\ handle \in [Projects -> BOOLEAN]
    /\ shutdown \in [Projects -> BOOLEAN]
    /\ mgr \in [pc : MgrPcs, seen : SUBSET Projects, todo : SUBSET Projects,
                at : Projects \cup {None}]

(* A session was started by a job of the daemon or by a user's opening the *)
(* project.  A job's session carries the quits that sent it a signal, of   *)
(* which it ends in its own time, and the quits that failed to list it or  *)
(* to signal it.                                                           *)
Session == [by : {"none", "job", "opener"}, asked : SUBSET Quits, spared : SUBSET Quits]

SlotTypeOK ==
    /\ open \in [Projects -> BOOLEAN]
    /\ opener \in [Projects -> {"idle", "marked"}]
    /\ session \in [Slots -> Session]
    /\ slotLock \in [Slots -> Launches \cup Projects \cup {None}]

TypeOK ==
    /\ RegistryTypeOK
    /\ LaunchTypeOK
    /\ QuitTypeOK
    /\ PollerTypeOK
    /\ SlotTypeOK

NoLaunch == [pc |-> "idle", slot |-> None, by |-> "request"]

NoQuit == [pc |-> "idle", scope |-> {}, projects |-> {}, held |-> {}, todo |-> {},
           victims |-> {}, drained |-> TRUE]

SessionOf(starter) == [by |-> starter, asked |-> {}, spared |-> {}]

NoSession == SessionOf("none")

Running(s) == session[s].by # "none"

NoPass == [pc |-> "idle", seen |-> {}, todo |-> {}, at |-> None]

Init ==
    /\ RegistryInit
    /\ open = [p \in Projects |-> FALSE]
    /\ session = [s \in Slots |-> NoSession]
    /\ slotLock = [s \in Slots |-> None]
    /\ launch = [l \in Launches |-> NoLaunch]
    /\ opener = [p \in Projects |-> "idle"]
    /\ quit = [q \in Quits |-> NoQuit]
    /\ sup = [p \in Projects |-> "off"]
    /\ handle = [p \in Projects |-> FALSE]
    /\ shutdown = [p \in Projects |-> FALSE]
    /\ mgr = NoPass

-----------------------------------------------------------------------------
(* Launches. *)

LaunchProject(l) == SlotProject[launch[l].slot]

Goes(l, pc) == launch' = [launch EXCEPT ![l].pc = pc]

others == <<open, opener, quit, handle, shutdown, mgr>>

(* Where a launch ends, its guard drops and its lock is released; a launch *)
(* the poller made gives its thread back to the supervisor's pass.         *)
EndLaunch_NotReset(l) ==
    /\ launch' = [launch EXCEPT ![l].slot = None]
    /\ slotLock' = [s \in Slots |-> IF slotLock[s] = l THEN None ELSE slotLock[s]]
    /\ Unregister(l)
    /\ UNCHANGED <<sup, others>>

EndLaunch(l) ==
    /\ launch' = [launch EXCEPT ![l] = NoLaunch]
    /\ slotLock' = [s \in Slots |-> IF slotLock[s] = l THEN None ELSE slotLock[s]]
    /\ Unregister(l)
    /\ sup' = IF launch[l].by = "poller" THEN [sup EXCEPT ![LaunchProject(l)] = "pass"]
              ELSE sup
    /\ UNCHANGED others

(* issue start, a resume or a review load reaches the launch primitive.    *)
(* Nothing on this path reads the open flag.                               *)
RequestLaunch(l, s) ==
    /\ launch[l].pc = "idle"
    /\ s \in Workers
    /\ launch' = [launch EXCEPT ![l] = [pc |-> "gated", slot |-> s, by |-> "request"]]
    /\ UNCHANGED <<live, flag, quits, session, slotLock, sup, others>>

(* One pass of the supervisor's tick: relaunch a dead orchestrator, load a *)
(* review, dispatch a parked gate, resume a stranded slot.  The launch     *)
(* runs on the supervisor's own thread.                                    *)
SupervisorLaunch(l, s) ==
    LET p == SlotProject[s] IN
    /\ sup[p] = "pass"
    /\ launch[l].pc = "idle"
    /\ ~Running(s)
    /\ launch' = [launch EXCEPT ![l] = [pc |-> "gated", slot |-> s, by |-> "poller"]]
    /\ sup' = [sup EXCEPT ![p] = "launching"]
    /\ UNCHANGED <<live, flag, quits, session, slotLock, others>>

LaunchScope(s) == IF s \in Workers THEN s ELSE None

RegisterLaunch(l) ==
    /\ launch[l].pc = "gated"
    /\ Register(l, LaunchProject(l), LaunchScope(launch[l].slot), "launch")
    /\ Goes(l, "registered")
    /\ UNCHANGED <<session, slotLock, sup, others>>

(* start_workspace_on_task takes the workspace's dispatch lock, then makes *)
(* its early check.                                                        *)
LockAndCheck(l) ==
    LET s == launch[l].slot IN
    /\ launch[l].pc = "registered"
    /\ s \in Workers
    /\ slotLock[s] = None
    /\ ~IsCancelled(l)
    /\ slotLock' = [slotLock EXCEPT ![s] = l]
    /\ Goes(l, "setup")
    /\ UNCHANGED <<live, flag, quits, session, sup, others>>

(* The relaunch of an orchestrator checks first and locks afterwards. *)
CheckOrchestrator(l) ==
    /\ launch[l].pc = "registered"
    /\ launch[l].slot \in Orchestrators
    /\ ~IsCancelled(l)
    /\ Goes(l, "locking")
    /\ UNCHANGED <<live, flag, quits, session, slotLock, sup, others>>

LockDashboard(l) ==
    LET s == launch[l].slot IN
    /\ launch[l].pc = "locking"
    /\ slotLock[s] = None
    /\ slotLock' = [slotLock EXCEPT ![s] = l]
    /\ Goes(l, "spawning")
    /\ UNCHANGED <<live, flag, quits, session, sup, others>>

(* The check before the irreversible step. *)
MayProceed_Always(l) == TRUE
MayProceed(l) == ~IsCancelled(l)

PreSpawnCheck(l) ==
    /\ launch[l].pc = "setup"
    /\ MayProceed(l)
    /\ Goes(l, "spawning")
    /\ UNCHANGED <<live, flag, quits, session, slotLock, sup, others>>

(* A tripped launch stands down at the check it reaches. *)
StandDown(l) ==
    /\ IsCancelled(l)
    /\ \/ launch[l].pc = "setup"
       \/ /\ launch[l].pc = "registered"
          /\ launch[l].slot \in Workers => slotLock[launch[l].slot] = None
    /\ session' = session
    /\ EndLaunch(l)

(* A step of the worktree setup failed. *)
SetupFails(l) ==
    /\ launch[l].pc = "setup"
    /\ session' = session
    /\ EndLaunch(l)

(* A worker's old session is killed before the new one starts; a live      *)
(* orchestrator is left alone.  The kill or the spawn may fail.            *)
Spawn(l) ==
    LET s == launch[l].slot IN
    /\ launch[l].pc = "spawning"
    /\ \/ /\ s \in Workers \/ ~Running(s)
          /\ session' = [session EXCEPT ![s] = SessionOf("job")]
       \/ s \in Workers /\ session' = [session EXCEPT ![s] = NoSession]
       \/ session' = session
    /\ Goes(l, "spawned")
    /\ UNCHANGED <<live, flag, quits, slotLock, sup, others>>

FinishLaunch(l) ==
    /\ launch[l].pc = "spawned"
    /\ session' = session
    /\ EndLaunch(l)

LaunchStep(l) ==
    \/ RegisterLaunch(l)
    \/ LockAndCheck(l)
    \/ CheckOrchestrator(l)
    \/ LockDashboard(l)
    \/ PreSpawnCheck(l)
    \/ StandDown(l)
    \/ SetupFails(l)
    \/ Spawn(l)
    \/ FinishLaunch(l)

(* A session ends: by a crash, by the user's own exit, or of a signal.     *)
SessionEnds(s) ==
    /\ Running(s)
    /\ session' = [session EXCEPT ![s] = NoSession]
    /\ UNCHANGED <<live, flag, quits, slotLock, launch, sup, others>>

-----------------------------------------------------------------------------
(* A user opens the project: under the dashboard lock the project is       *)
(* marked open, then the orchestrator is started unless it is alive; the   *)
(* start may fail.                                                         *)

OpenMark(p) ==
    /\ opener[p] = "idle"
    /\ slotLock[OrchOf[p]] = None
    /\ slotLock' = [slotLock EXCEPT ![OrchOf[p]] = p]
    /\ open' = [open EXCEPT ![p] = TRUE]
    /\ opener' = [opener EXCEPT ![p] = "marked"]
    /\ UNCHANGED <<live, flag, quits, session, launch, sup, quit, handle, shutdown, mgr>>

OpenSpawn(p) ==
    LET s == OrchOf[p] IN
    /\ opener[p] = "marked"
    /\ \/ ~Running(s) /\ session' = [session EXCEPT ![s] = SessionOf("opener")]
       \/ session' = session
    /\ slotLock' = [slotLock EXCEPT ![s] = None]
    /\ opener' = [opener EXCEPT ![p] = "idle"]
    /\ UNCHANGED <<live, flag, quits, open, launch, sup, quit, handle, shutdown, mgr>>

-----------------------------------------------------------------------------
(* A quit composition: quit_project for one project, quit_shelbi           *)
(* for every project marked open when it starts.  The order of its steps   *)
(* is the point: phase, close, drain, sweep.                               *)

OpenProjects == {p \in Projects : open[p]}

notSweep == <<slotLock, launch, opener, sup, handle, shutdown, mgr>>
notQuit == <<session, notSweep>>

(* With no project open there is nothing to phase, close or drain. *)
Started(scope, ps) ==
    [NoQuit EXCEPT !.pc = IF ps = {} THEN "listing" ELSE "phasing",
                   !.scope = scope, !.projects = ps, !.todo = ps]

QuitProject(q, p) ==
    /\ quit[q].pc = "idle"
    /\ quit' = [quit EXCEPT ![q] = Started({p}, {p})]
    /\ UNCHANGED <<live, flag, quits, open, notQuit>>

QuitShelbi(q) ==
    /\ quit[q].pc = "idle"
    /\ quit' = [quit EXCEPT ![q] = Started(Projects, OpenProjects)]
    /\ UNCHANGED <<live, flag, quits, open, notQuit>>

(* q's record once p is done in its stage: after the last project the      *)
(* composition is in the next one.                                         *)
Past(q, p, next) ==
    IF quit[q].todo = {p}
    THEN [quit[q] EXCEPT !.pc = next,
                         !.todo = IF next = "listing" THEN {} ELSE quit[q].projects]
    ELSE [quit[q] EXCEPT !.todo = @ \ {p}]

EnterPhase(q, p) ==
    /\ quit[q].pc = "phasing"
    /\ p \in quit[q].todo
    /\ BeginQuit(p)
    /\ quit' = [quit EXCEPT ![q] = [Past(q, p, "closing") EXCEPT !.held = @ \cup {p}]]
    /\ UNCHANGED <<open, notQuit>>

CloseProject(q, p) ==
    /\ quit[q].pc = "closing"
    /\ p \in quit[q].todo
    /\ open' = [open EXCEPT ![p] = FALSE]
    /\ quit' = [quit EXCEPT ![q] = Past(q, p, "draining")]
    /\ UNCHANGED <<live, flag, quits, notQuit>>

BarrierDrains(q, p) ==
    /\ quit[q].pc = "draining"
    /\ p \in quit[q].todo
    /\ Drained(p)
    /\ quit' = [quit EXCEPT ![q] = Past(q, p, "listing")]
    /\ UNCHANGED <<live, flag, quits, open, notQuit>>

(* The barrier gives up on a wedged job at its bound. *)
BoundElapses_Never == FALSE
BoundElapses == MayWedge

BarrierBound(q, p) ==
    /\ quit[q].pc = "draining"
    /\ p \in quit[q].todo
    /\ BoundElapses
    /\ ~Drained(p)
    /\ quit' = [quit EXCEPT ![q] = [Past(q, p, "listing") EXCEPT !.drained = FALSE]]
    /\ UNCHANGED <<live, flag, quits, open, notQuit>>

(* Quit Shelbi ends every local session, quit-project its project's own. *)
Owned(q) == {s \in Slots : SlotProject[s] \in quit[q].scope}

Killing(victims) == IF victims = {} THEN "ending" ELSE "killing"

AskedBy(s, q) ==
    IF session[s].by = "job" THEN [session[s] EXCEPT !.asked = @ \cup {q}] ELSE session[s]

SparedBy(s, q) ==
    IF session[s].by = "job" THEN [session[s] EXCEPT !.spared = @ \cup {q}] ELSE session[s]

(* A host whose sessions can't be listed yields none: they keep running.   *)
ListSessions(q) ==
    LET alive == {s \in Owned(q) : Running(s)} IN
    /\ quit[q].pc = "listing"
    /\ \E unlisted \in SUBSET alive :
        /\ quit' = [quit EXCEPT ![q].pc = Killing(alive \ unlisted),
                                ![q].victims = alive \ unlisted]
        /\ session' = [s \in Slots |-> IF s \in unlisted THEN SparedBy(s, q)
                                      ELSE session[s]]
    /\ UNCHANGED <<live, flag, quits, open, notSweep>>

(* A signal goes to whatever runs under the listed name by now, if         *)
(* anything does, and the session outlives it for a while (SessionEnds).   *)
(* A signal that can't be sent is only logged.                             *)
KillSession(q, s) ==
    /\ quit[q].pc = "killing"
    /\ s \in quit[q].victims
    /\ \/ session' = [session EXCEPT ![s] = AskedBy(s, q)]
       \/ session' = [session EXCEPT ![s] = SparedBy(s, q)]
    /\ quit' = [quit EXCEPT ![q].pc = Killing(quit[q].victims \ {s}),
                            ![q].victims = @ \ {s}]
    /\ UNCHANGED <<live, flag, quits, open, notSweep>>

(* The composition is over, and with it the record of what it swept. *)
Return(q) ==
    /\ quit' = [quit EXCEPT ![q] = NoQuit]
    /\ session' = [s \in Slots |-> [session[s] EXCEPT !.asked = @ \ {q}, !.spared = @ \ {q}]]

(* The phases drop as the composition returns. *)
LeavePhase(q, p) ==
    /\ quit[q].pc = "ending"
    /\ p \in quit[q].held
    /\ EndQuitPhase(p)
    /\ IF quit[q].held = {p} THEN Return(q)
       ELSE /\ quit' = [quit EXCEPT ![q].held = @ \ {p}]
            /\ UNCHANGED session
    /\ UNCHANGED <<open, notSweep>>

ReturnFromNothingOpen(q) ==
    /\ quit[q].pc = "ending"
    /\ quit[q].held = {}
    /\ Return(q)
    /\ UNCHANGED <<live, flag, quits, open, notSweep>>

QuitStep(q) ==
    \/ \E p \in Projects :
        \/ EnterPhase(q, p)
        \/ CloseProject(q, p)
        \/ BarrierDrains(q, p)
        \/ BarrierBound(q, p)
        \/ LeavePhase(q, p)
    \/ ListSessions(q)
    \/ \E s \in Slots : KillSession(q, s)
    \/ ReturnFromNothingOpen(q)

-----------------------------------------------------------------------------
(* A project's poller thread (run_poller_loop): it registers once, checks  *)
(* its shutdown flag and its cancellation between passes, and may launch   *)
(* sessions within a pass (SupervisorLaunch).                              *)

notSup == <<quits, open, session, slotLock, launch, opener, quit, handle, shutdown, mgr>>

SupRegister(p) ==
    /\ sup[p] = "born"
    /\ Register(Supervisor[p], p, None, "poll")
    /\ sup' = [sup EXCEPT ![p] = "loop"]
    /\ UNCHANGED <<open, session, slotLock, launch, opener, quit, handle, shutdown, mgr>>

SupStops(p) == shutdown[p] \/ IsCancelled(Supervisor[p])

SupPass(p) ==
    /\ sup[p] = "loop"
    /\ ~SupStops(p)
    /\ sup' = [sup EXCEPT ![p] = "pass"]
    /\ UNCHANGED <<live, flag, notSup>>

SupSleep(p) ==
    /\ sup[p] = "pass"
    /\ sup' = [sup EXCEPT ![p] = "loop"]
    /\ UNCHANGED <<live, flag, notSup>>

SupExit(p) ==
    /\ sup[p] = "loop"
    /\ SupStops(p)
    /\ Unregister(Supervisor[p])
    /\ sup' = [sup EXCEPT ![p] = "off"]
    /\ UNCHANGED <<open, session, slotLock, launch, opener, quit, handle, shutdown, mgr>>

SupStep(p) == SupRegister(p) \/ SupPass(p) \/ SupSleep(p) \/ SupExit(p)

-----------------------------------------------------------------------------
(* The manager's reconcile pass.  The open set is read once, at its start. *)

notMgr == <<open, session, slotLock, launch, opener, quit>>

Tick ==
    /\ mgr.pc = "idle"
    /\ mgr' = [pc |-> "closing", seen |-> OpenProjects, at |-> None,
               todo |-> {p \in Projects : handle[p] /\ ~open[p]}]
    /\ UNCHANGED <<live, flag, quits, sup, handle, shutdown, notMgr>>

(* A closed project's jobs are tripped, its poller's thread joined, and    *)
(* the rest of its jobs awaited.                                           *)
TripClosing(p) ==
    /\ mgr.pc = "closing"
    /\ p \in mgr.todo
    /\ TripProject(p)
    /\ shutdown' = [shutdown EXCEPT ![p] = TRUE]
    /\ mgr' = [mgr EXCEPT !.pc = "joining", !.todo = @ \ {p}, !.at = p]
    /\ UNCHANGED <<sup, handle, notMgr>>

JoinPoller(p) ==
    /\ mgr.pc = "joining"
    /\ mgr.at = p
    /\ sup[p] = "off"
    /\ handle' = [handle EXCEPT ![p] = FALSE]
    /\ mgr' = [mgr EXCEPT !.pc = "waiting"]
    /\ UNCHANGED <<live, flag, quits, sup, shutdown, notMgr>>

ClosedDrains(p) ==
    /\ mgr.pc = "waiting"
    /\ mgr.at = p
    /\ Drained(p) \/ BoundElapses
    /\ mgr' = [mgr EXCEPT !.pc = "closing", !.at = None]
    /\ UNCHANGED <<live, flag, quits, sup, handle, shutdown, notMgr>>

StartOpen ==
    /\ mgr.pc = "closing"
    /\ mgr.todo = {}
    /\ mgr' = [mgr EXCEPT !.pc = "starting", !.todo = mgr.seen]
    /\ UNCHANGED <<live, flag, quits, sup, handle, shutdown, notMgr>>

(* A missing poller is started and a finished one replaced; the poller     *)
(* lock a running thread holds keeps it single.                            *)
WantsPoller_Unfinished(p) == ~handle[p]
WantsPoller(p) == ~handle[p] \/ sup[p] = "off"

StartPoller(p) ==
    /\ mgr.pc = "starting"
    /\ p \in mgr.todo
    /\ mgr' = [mgr EXCEPT !.todo = @ \ {p}]
    /\ IF WantsPoller(p) /\ sup[p] = "off"
       THEN /\ handle' = [handle EXCEPT ![p] = TRUE]
            /\ shutdown' = [shutdown EXCEPT ![p] = FALSE]
            /\ sup' = [sup EXCEPT ![p] = "born"]
       ELSE UNCHANGED <<sup, handle, shutdown>>
    /\ UNCHANGED <<live, flag, quits, notMgr>>

EndPass ==
    /\ mgr.pc = "starting"
    /\ mgr.todo = {}
    /\ mgr' = NoPass
    /\ UNCHANGED <<live, flag, quits, sup, handle, shutdown, notMgr>>

MgrStep ==
    \/ Tick
    \/ \E p \in Projects :
        \/ TripClosing(p)
        \/ JoinPoller(p)
        \/ ClosedDrains(p)
        \/ StartPoller(p)
    \/ StartOpen
    \/ EndPass

-----------------------------------------------------------------------------
Next ==
    \/ \E l \in Launches :
        \/ LaunchStep(l)
        \/ \E s \in Slots : RequestLaunch(l, s) \/ SupervisorLaunch(l, s)
    \/ \E s \in Slots : SessionEnds(s)
    \/ \E p \in Projects : OpenMark(p) \/ OpenSpawn(p) \/ SupStep(p)
    \/ \E q \in Quits :
        \/ QuitStep(q)
        \/ QuitShelbi(q)
        \/ \E p \in Projects : QuitProject(q, p)
    \/ MgrStep

Spec == Init /\ [][Next]_vars

(* Threads run, and the kernel serves the waiters of a file lock, so a     *)
(* launch that can step again and again does; a poller's pass makes        *)
(* finitely many launches.  Commands (a start, an open, a quit) and        *)
(* session deaths are the environment's: nothing makes them happen.        *)
Fairness ==
    /\ \A l \in Launches : SF_vars(LaunchStep(l))
    /\ \A p \in Projects : WF_vars(OpenSpawn(p)) /\ SF_vars(SupStep(p))
    /\ \A q \in Quits : WF_vars(QuitStep(q))
    /\ WF_vars(MgrStep)

FairSpec == Spec /\ Fairness

-----------------------------------------------------------------------------
(* Properties. *)

Swept(q, p) ==
    /\ quit[q].pc = "ending"
    /\ quit[q].drained
    /\ p \in quit[q].held

(* Once a quit has drained its barrier and swept, and until it leaves the  *)
(* phase, every session of the project that a job started is one the sweep *)
(* dealt with: it was sent a signal, or this quit failed to list it or to  *)
(* signal it, and logged that.  None slipped in behind the listing, into a *)
(* slot it had found empty or under a name already signalled.  Only a      *)
(* user's own reopen can add a session (quit.rs: steps 2 to 5).            *)
DrainedQuitMissesNoSession ==
    \A q \in Quits, p \in Projects :
        Swept(q, p) =>
            \A s \in Slots :
                SlotProject[s] = p /\ session[s].by = "job" =>
                    q \in session[s].asked \cup session[s].spared

(* While a project is in the quitting phase every job it has is cancelled, *)
(* those registered meanwhile included (cancel.rs: begin_quit, register).  *)
QuittingCancelsEveryJob ==
    \A p \in Projects : quits[p] > 0 => \A j \in JobsOf(p) : IsCancelled(j)

(* Overlapping quits of one project each keep it in the phase until they   *)
(* are done: the count is the number of compositions that hold it.         *)
PhasesAreCounted ==
    \A p \in Projects : quits[p] = Cardinality({q \in Quits : p \in quit[q].held})

(* Every quit returns, wedged jobs or not: the barrier is bounded.         *)
QuitAlwaysFinishes ==
    \A q \in Quits : quit[q].pc = "phasing" ~> quit[q].pc = "idle"

(* A project that stays open, with no quit left, ends up with a poller     *)
(* that nothing has cancelled, whatever quits and reopens came before      *)
(* (the manager replaces a poller a quit cancelled).                       *)
Polled(p) == live[Supervisor[p]] # None /\ ~IsCancelled(Supervisor[p])

OpenProjectIsPolled ==
    \A p \in Projects : <>[](open[p] /\ quits[p] = 0) => <>[]Polled(p)

-----------------------------------------------------------------------------
(* What makes DrainedQuitMissesNoSession inductive.                        *)

(* A launch is in the registry exactly while it is past its gate, under    *)
(* its slot's project.                                                     *)
LaunchesAreRegistered ==
    \A l \in Launches :
        /\ live[l] = None <=> launch[l].pc \in {"idle", "gated"}
        /\ live[l] # None => live[l].project = LaunchProject(l)

(* A composition holds the phases of the projects it entered and only      *)
(* those, and nothing more once it returned.                               *)
PhasesFollowStages ==
    \A q \in Quits :
        /\ quit[q].held \subseteq quit[q].projects
        /\ quit[q].projects \subseteq quit[q].scope
        /\ quit[q].pc = "idle" => quit[q].held = {}
        /\ quit[q].pc = "phasing" => /\ quit[q].held \cap quit[q].todo = {}
                                     /\ quit[q].todo \subseteq quit[q].projects

DrainedBy(q, p) ==
    /\ quit[q].drained
    /\ p \in quit[q].held
    /\ \/ quit[q].pc \in {"listing", "killing", "ending"}
       \/ quit[q].pc = "draining" /\ p \notin quit[q].todo

(* After a drained barrier the project's launches stop at their first      *)
(* check until the phase ends.                                             *)
DrainedStaysDrained ==
    \A q \in Quits, p \in Projects :
        DrainedBy(q, p) =>
            \A l \in Launches :
                launch[l].pc \in {"idle", "gated", "registered"} \/ LaunchProject(l) # p

(* From the listing on, what the sweep still has to deal with is listed.   *)
SweepListIsComplete ==
    \A q \in Quits, p \in Projects :
        DrainedBy(q, p) /\ quit[q].pc \in {"killing", "ending"} =>
            \A s \in Slots :
                SlotProject[s] = p /\ session[s].by = "job" =>
                    \/ q \in session[s].asked \cup session[s].spared
                    \/ quit[q].pc = "killing" /\ s \in quit[q].victims

IInv ==
    /\ TypeOK
    /\ PhasesAreCounted
    /\ QuittingCancelsEveryJob
    /\ LaunchesAreRegistered
    /\ PhasesFollowStages
    /\ DrainedStaysDrained
    /\ SweepListIsComplete
=============================================================================
