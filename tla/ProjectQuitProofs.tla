------------------------- MODULE ProjectQuitProofs -------------------------
(***************************************************************************)
(* ProjectQuit's safety, for any projects, slots, launches and quits.      *)
(***************************************************************************)
EXTENDS ProjectQuit, FiniteSetTheorems, TLAPS

USE RegistryAssumption, QuitAssumption

(* Every Next step is one of these. *)
LEMMA NextCases ==
    ASSUME [Next]_vars
    PROVE  \/ \E l \in Launches : LaunchStep(l)
           \/ \E l \in Launches, s \in Slots : RequestLaunch(l, s) \/ SupervisorLaunch(l, s)
           \/ \E s \in Slots : SessionEnds(s)
           \/ \E p \in Projects : OpenMark(p) \/ OpenSpawn(p)
           \/ \E p \in Projects : SupStep(p)
           \/ \E q \in Quits : QuitStep(q)
           \/ \E q \in Quits : QuitShelbi(q) \/ \E p \in Projects : QuitProject(q, p)
           \/ MgrStep
           \/ UNCHANGED vars
  BY DEF Next

-----------------------------------------------------------------------------
(* Types.                                                                  *)

LEMMA InitTypes == Init => TypeOK
  <1>. SUFFICES ASSUME Init PROVE TypeOK
    OBVIOUS
  <1>1. RegistryTypeOK /\ SlotTypeOK /\ LaunchTypeOK
    BY DEF Init, RegistryInit, RegistryTypeOK, SlotTypeOK, LaunchTypeOK, NoLaunch, LaunchPcs,
           Requesters, NoSession, SessionOf, Session
  <1>2. QuitTypeOK
    BY DEF Init, QuitTypeOK, Composition, NoQuit, QuitPcs
  <1>3. PollerTypeOK
    BY DEF Init, PollerTypeOK, NoPass, SupPcs, MgrPcs
  <1>. QED
    BY <1>1, <1>2, <1>3 DEF TypeOK

LEMMA SessionTypes ==
    /\ NoSession \in Session
    /\ SessionOf("job") \in Session
    /\ SessionOf("opener") \in Session
  BY DEF NoSession, SessionOf, Session

LEMMA GoesTypes ==
    ASSUME LaunchTypeOK, NEW l \in Launches, launch[l].pc # "idle",
           NEW pc \in LaunchPcs, pc # "idle", Goes(l, pc)
    PROVE  LaunchTypeOK'
  BY DEF LaunchTypeOK, Goes

LEMMA EndLaunchTypes ==
    ASSUME TypeOK, NEW l \in Launches, launch[l].pc # "idle", EndLaunch(l),
           session' = session
    PROVE  TypeOK'
  <1>. USE DEF TypeOK
  <1>1. LaunchTypeOK'
    BY DEF EndLaunch, NoLaunch, LaunchTypeOK, LaunchPcs, Requesters
  <1>2. RegistryTypeOK'
    BY DEF EndLaunch, Unregister, RegistryTypeOK
  <1>3. LaunchProject(l) \in Projects
    BY DEF LaunchTypeOK, LaunchProject
  <1>4. QuitTypeOK' /\ PollerTypeOK' /\ SlotTypeOK'
    BY <1>3 DEF EndLaunch, others, QuitTypeOK, PollerTypeOK, SlotTypeOK, SupPcs
  <1>. QED
    BY <1>1, <1>2, <1>4

(* A launch's move to another stage of its own. *)
LEMMA MoveTypes ==
    ASSUME TypeOK, NEW l \in Launches, launch[l].pc # "idle",
           NEW pc \in LaunchPcs, pc # "idle", Goes(l, pc),
           session' \in [Slots -> Session],
           slotLock' \in [Slots -> Launches \cup Projects \cup {None}],
           UNCHANGED <<live, flag, quits, sup, others>>
    PROVE  TypeOK'
  <1>1. LaunchTypeOK'
    BY GoesTypes DEF TypeOK
  <1>. QED
    BY <1>1 DEF TypeOK, RegistryTypeOK, QuitTypeOK, PollerTypeOK, SlotTypeOK, others

LEMMA LaunchTypes ==
    ASSUME TypeOK, NEW l \in Launches, LaunchStep(l)
    PROVE  TypeOK'
  <1>. USE DEF TypeOK
  <1>1. CASE RegisterLaunch(l)
    <2>. /\ launch[l].slot \in Slots
         /\ LaunchProject(l) \in Projects
         /\ LaunchScope(launch[l].slot) \in Workspaces \cup {None}
      BY <1>1 DEF RegisterLaunch, LaunchTypeOK, LaunchProject, LaunchScope
    <2>1. RegistryTypeOK'
      BY <1>1 DEF RegisterLaunch, Register, RegistryTypeOK, Registration, JobKinds,
                  BornCancelled
    <2>2. LaunchTypeOK'
      <3>1. launch[l].pc # "idle" /\ Goes(l, "registered") /\ "registered" \in LaunchPcs
        BY <1>1 DEF RegisterLaunch, LaunchPcs
      <3>. QED
        BY <3>1, GoesTypes
    <2>3. QuitTypeOK' /\ PollerTypeOK' /\ SlotTypeOK'
      BY <1>1 DEF RegisterLaunch, others, QuitTypeOK, PollerTypeOK, SlotTypeOK
    <2>. QED
      BY <2>1, <2>2, <2>3
  <1>2. CASE LockAndCheck(l)
    <2>1. launch[l].pc # "idle" /\ Goes(l, "setup") /\ UNCHANGED <<live, flag, quits, sup, others>>
      BY <1>2 DEF LockAndCheck
    <2>2. session' \in [Slots -> Session]
      BY <1>2 DEF LockAndCheck, SlotTypeOK, LaunchTypeOK
    <2>3. slotLock' \in [Slots -> Launches \cup Projects \cup {None}]
      BY <1>2 DEF LockAndCheck, SlotTypeOK
    <2>4. "setup" \in LaunchPcs
      BY DEF LaunchPcs
    <2>. QED
      BY <2>1, <2>2, <2>3, <2>4, MoveTypes
  <1>3. CASE CheckOrchestrator(l)
    <2>1. launch[l].pc # "idle" /\ Goes(l, "locking") /\ UNCHANGED <<live, flag, quits, sup, others>>
      BY <1>3 DEF CheckOrchestrator
    <2>2. session' \in [Slots -> Session]
      BY <1>3 DEF CheckOrchestrator, SlotTypeOK, LaunchTypeOK
    <2>3. slotLock' \in [Slots -> Launches \cup Projects \cup {None}]
      BY <1>3 DEF CheckOrchestrator, SlotTypeOK
    <2>4. "locking" \in LaunchPcs
      BY DEF LaunchPcs
    <2>. QED
      BY <2>1, <2>2, <2>3, <2>4, MoveTypes
  <1>4. CASE LockDashboard(l)
    <2>1. launch[l].pc # "idle" /\ Goes(l, "spawning") /\ UNCHANGED <<live, flag, quits, sup, others>>
      BY <1>4 DEF LockDashboard
    <2>2. session' \in [Slots -> Session]
      BY <1>4 DEF LockDashboard, SlotTypeOK, LaunchTypeOK
    <2>3. slotLock' \in [Slots -> Launches \cup Projects \cup {None}]
      BY <1>4 DEF LockDashboard, SlotTypeOK
    <2>4. "spawning" \in LaunchPcs
      BY DEF LaunchPcs
    <2>. QED
      BY <2>1, <2>2, <2>3, <2>4, MoveTypes
  <1>5. CASE PreSpawnCheck(l)
    <2>1. launch[l].pc # "idle" /\ Goes(l, "spawning") /\ UNCHANGED <<live, flag, quits, sup, others>>
      BY <1>5 DEF PreSpawnCheck
    <2>2. session' \in [Slots -> Session]
      BY <1>5 DEF PreSpawnCheck, SlotTypeOK, LaunchTypeOK
    <2>3. slotLock' \in [Slots -> Launches \cup Projects \cup {None}]
      BY <1>5 DEF PreSpawnCheck, SlotTypeOK
    <2>4. "spawning" \in LaunchPcs
      BY DEF LaunchPcs
    <2>. QED
      BY <2>1, <2>2, <2>3, <2>4, MoveTypes
  <1>6. CASE Spawn(l)
    <2>1. launch[l].pc # "idle" /\ Goes(l, "spawned") /\ UNCHANGED <<live, flag, quits, sup, others>>
      BY <1>6 DEF Spawn
    <2>2. session' \in [Slots -> Session]
      <3>1. session \in [Slots -> Session] /\ SessionOf("job") \in Session /\ NoSession \in Session
        BY SessionTypes DEF SlotTypeOK
      <3>2. \/ session' = [session EXCEPT ![launch[l].slot] = SessionOf("job")]
            \/ session' = [session EXCEPT ![launch[l].slot] = NoSession]
            \/ session' = session
        BY <1>6 DEF Spawn
      <3>. HIDE DEF TypeOK
      <3>. QED
        BY <3>1, <3>2
    <2>3. slotLock' \in [Slots -> Launches \cup Projects \cup {None}]
      BY <1>6 DEF Spawn, SlotTypeOK
    <2>4. "spawned" \in LaunchPcs
      BY DEF LaunchPcs
    <2>. QED
      BY <2>1, <2>2, <2>3, <2>4, MoveTypes
  <1>7. CASE StandDown(l) \/ SetupFails(l) \/ FinishLaunch(l)
    BY <1>7, EndLaunchTypes DEF StandDown, SetupFails, FinishLaunch
  <1>. QED
    BY <1>1, <1>2, <1>3, <1>4, <1>5, <1>6, <1>7 DEF LaunchStep

LEMMA RequestTypes ==
    ASSUME TypeOK, NEW l \in Launches, NEW s \in Slots,
           RequestLaunch(l, s) \/ SupervisorLaunch(l, s)
    PROVE  TypeOK'
  <1>1. LaunchTypeOK'
    BY DEF TypeOK, LaunchTypeOK, RequestLaunch, SupervisorLaunch, LaunchPcs, Requesters
  <1>2. PollerTypeOK'
    BY DEF TypeOK, PollerTypeOK, RequestLaunch, SupervisorLaunch, SupPcs, others
  <1>. QED
    BY <1>1, <1>2 DEF TypeOK, RegistryTypeOK, QuitTypeOK, SlotTypeOK, RequestLaunch,
                      SupervisorLaunch, others

LEMMA OpenTypes ==
    ASSUME TypeOK, NEW p \in Projects, OpenMark(p) \/ OpenSpawn(p)
    PROVE  TypeOK'
  <1>1. CASE OpenMark(p)
    BY <1>1 DEF TypeOK, SlotTypeOK, OpenMark, RegistryTypeOK, LaunchTypeOK, QuitTypeOK,
                PollerTypeOK
  <1>2. CASE OpenSpawn(p)
    <2>1. session' \in [Slots -> Session]
      BY <1>2, SessionTypes DEF TypeOK, SlotTypeOK, OpenSpawn
    <2>. QED
      BY <1>2, <2>1 DEF TypeOK, SlotTypeOK, OpenSpawn, RegistryTypeOK, LaunchTypeOK,
                        QuitTypeOK, PollerTypeOK
  <1>. QED
    BY <1>1, <1>2

LEMMA RegistryTypes ==
    ASSUME RegistryTypeOK
    PROVE  /\ \A j \in Jobs, p \in Projects, w \in Workspaces \cup {None}, k \in JobKinds :
                 Register(j, p, w, k) => RegistryTypeOK'
           /\ \A j \in Jobs : Unregister(j) => RegistryTypeOK'
           /\ \A p \in Projects :
                 (BeginQuit(p) \/ EndQuitPhase(p) \/ TripProject(p)) => RegistryTypeOK'
  <1>1. ASSUME NEW j \in Jobs, NEW p \in Projects, NEW w \in Workspaces \cup {None},
               NEW k \in JobKinds, Register(j, p, w, k)
        PROVE  RegistryTypeOK'
    <2>1. [project |-> p, workspace |-> w, kind |-> k] \in Registration
      BY DEF Registration
    <2>. QED
      BY <1>1, <2>1 DEF Register, RegistryTypeOK, BornCancelled
  <1>2. ASSUME NEW j \in Jobs, Unregister(j) PROVE RegistryTypeOK'
    BY <1>2 DEF Unregister, RegistryTypeOK
  <1>3. ASSUME NEW p \in Projects, BeginQuit(p) PROVE RegistryTypeOK'
    BY <1>3 DEF BeginQuit, RegistryTypeOK
  <1>4. ASSUME NEW p \in Projects, EndQuitPhase(p) PROVE RegistryTypeOK'
    <2>1. PhasesLeft(quits[p]) \in Nat
      BY DEF PhasesLeft, RegistryTypeOK
    <2>. QED
      BY <1>4, <2>1 DEF EndQuitPhase, RegistryTypeOK
  <1>5. ASSUME NEW p \in Projects, TripProject(p) PROVE RegistryTypeOK'
    BY <1>5 DEF TripProject, RegistryTypeOK
  <1>. QED
    BY <1>1, <1>2, <1>3, <1>4, <1>5

LEMMA SupTypes ==
    ASSUME TypeOK, NEW p \in Projects, SupStep(p)
    PROVE  TypeOK'
  <1>. USE DEF notSup
  <1>0. Supervisor[p] \in Jobs /\ "poll" \in JobKinds
    BY DEF JobKinds
  <1>1. RegistryTypeOK'
    <2>1. CASE SupRegister(p)
      BY <2>1, <1>0, RegistryTypes DEF SupRegister, TypeOK
    <2>2. CASE SupExit(p)
      BY <2>2, <1>0, RegistryTypes DEF SupExit, TypeOK
    <2>3. CASE SupPass(p) \/ SupSleep(p)
      BY <2>3 DEF SupPass, SupSleep, TypeOK, RegistryTypeOK
    <2>. QED
      BY <2>1, <2>2, <2>3 DEF SupStep
  <1>2. PollerTypeOK' /\ UNCHANGED <<launch, quit, open, opener, session, slotLock>>
    BY DEF TypeOK, PollerTypeOK, SupPcs, SupStep, SupRegister, SupPass, SupSleep, SupExit
  <1>. QED
    BY <1>1, <1>2 DEF TypeOK, LaunchTypeOK, QuitTypeOK, SlotTypeOK

LEMMA MgrTypes ==
    ASSUME TypeOK, MgrStep
    PROVE  TypeOK'
  <1>. DEFINE MgrStates == [pc : MgrPcs, seen : SUBSET Projects, todo : SUBSET Projects,
                            at : Projects \cup {None}]
  <1>1. RegistryTypeOK'
    <2>1. ASSUME NEW p \in Projects, TripClosing(p) PROVE RegistryTypeOK'
      BY <2>1, RegistryTypes DEF TripClosing, TypeOK
    <2>2. \/ \E p \in Projects : TripClosing(p)
          \/ UNCHANGED <<live, flag, quits>>
      BY DEF MgrStep, Tick, JoinPoller, ClosedDrains, StartOpen, StartPoller, EndPass
    <2>. QED
      BY <2>1, <2>2 DEF TypeOK, RegistryTypeOK
  <1>2. mgr' \in MgrStates
    <2>1. OpenProjects \in SUBSET Projects /\ mgr \in MgrStates
      BY DEF OpenProjects, TypeOK, PollerTypeOK
    <2>2. CASE Tick
      BY <2>1, <2>2 DEF Tick, MgrPcs
    <2>3. ASSUME NEW p \in Projects, TripClosing(p) PROVE mgr' \in MgrStates
      BY <2>1, <2>3 DEF TripClosing, MgrPcs
    <2>4. ASSUME NEW p \in Projects, JoinPoller(p) PROVE mgr' \in MgrStates
      BY <2>1, <2>4 DEF JoinPoller, MgrPcs
    <2>5. ASSUME NEW p \in Projects, ClosedDrains(p) PROVE mgr' \in MgrStates
      BY <2>1, <2>5 DEF ClosedDrains, MgrPcs
    <2>6. ASSUME NEW p \in Projects, StartPoller(p) PROVE mgr' \in MgrStates
      BY <2>1, <2>6 DEF StartPoller, MgrPcs
    <2>7. CASE StartOpen
      BY <2>1, <2>7 DEF StartOpen, MgrPcs
    <2>8. CASE EndPass
      BY <2>8 DEF EndPass, MgrPcs, NoPass
    <2>. QED
      BY <2>2, <2>3, <2>4, <2>5, <2>6, <2>7, <2>8 DEF MgrStep
  <1>3. PollerTypeOK'
    <2>. USE DEF TypeOK, PollerTypeOK, SupPcs
    <2>1. ASSUME NEW p \in Projects, TripClosing(p) PROVE PollerTypeOK'
      BY <2>1, <1>2 DEF TripClosing
    <2>2. ASSUME NEW p \in Projects, JoinPoller(p) PROVE PollerTypeOK'
      BY <2>2, <1>2 DEF JoinPoller
    <2>3. ASSUME NEW p \in Projects, StartPoller(p) PROVE PollerTypeOK'
      <3>1. CASE UNCHANGED <<sup, handle, shutdown>>
        BY <1>2, <3>1
      <3>2. CASE /\ handle' = [handle EXCEPT ![p] = TRUE]
                 /\ shutdown' = [shutdown EXCEPT ![p] = FALSE]
                 /\ sup' = [sup EXCEPT ![p] = "born"]
        <4>1. handle' \in [Projects -> BOOLEAN] /\ shutdown' \in [Projects -> BOOLEAN]
          BY <3>2
        <4>2. sup' \in [Projects -> SupPcs]
          BY <3>2
        <4>. QED
          BY <1>2, <4>1, <4>2
      <3>. QED
        BY <2>3, <3>1, <3>2 DEF StartPoller
    <2>4. CASE UNCHANGED <<sup, handle, shutdown>>
      BY <2>4, <1>2
    <2>5. Tick \/ StartOpen \/ EndPass \/ (\E p \in Projects : ClosedDrains(p))
             => UNCHANGED <<sup, handle, shutdown>>
      BY DEF Tick, ClosedDrains, StartOpen, EndPass
    <2>. HIDE DEF PollerTypeOK
    <2>. QED
      BY <2>1, <2>2, <2>3, <2>4, <2>5 DEF MgrStep
  <1>4. UNCHANGED notMgr
    BY DEF MgrStep, Tick, TripClosing, JoinPoller, ClosedDrains, StartOpen, StartPoller, EndPass
  <1>. QED
    BY <1>1, <1>3, <1>4 DEF TypeOK, LaunchTypeOK, QuitTypeOK, SlotTypeOK, notMgr

LEMMA QuitCommandTypes ==
    ASSUME TypeOK, NEW q \in Quits,
           QuitShelbi(q) \/ \E p \in Projects : QuitProject(q, p)
    PROVE  TypeOK'
  <1>1. UNCHANGED <<live, flag, quits, open, notQuit>>
    BY DEF QuitShelbi, QuitProject
  <1>2. ASSUME NEW scope \in SUBSET Projects, NEW ps \in SUBSET Projects
        PROVE  Started(scope, ps) \in Composition
    BY DEF Started, NoQuit, Composition, QuitPcs
  <1>3. OpenProjects \in SUBSET Projects
    BY DEF OpenProjects
  <1>4. \E r \in Composition : quit' = [quit EXCEPT ![q] = r]
    <2>1. CASE QuitShelbi(q)
      BY <1>2, <1>3, <2>1 DEF QuitShelbi
    <2>2. ASSUME NEW p \in Projects, QuitProject(q, p)
          PROVE  \E r \in Composition : quit' = [quit EXCEPT ![q] = r]
      <3>1. {p} \in SUBSET Projects
        OBVIOUS
      <3>2. Started({p}, {p}) \in Composition
        BY <1>2, <3>1
      <3>. QED
        BY <2>2, <3>2 DEF QuitProject
    <2>. QED
      BY <2>1, <2>2
  <1>5. QuitTypeOK'
    BY <1>4 DEF TypeOK, QuitTypeOK
  <1>. QED
    BY <1>1, <1>5 DEF TypeOK, RegistryTypeOK, LaunchTypeOK, PollerTypeOK, SlotTypeOK, notQuit,
                      notSweep

LEMMA PastTypes ==
    ASSUME QuitTypeOK, NEW q \in Quits, NEW p \in Projects, NEW next \in QuitPcs
    PROVE  Past(q, p, next) \in Composition
  <1>1. quit[q] \in Composition
    BY DEF QuitTypeOK
  <1>2. quit[q].projects \in SUBSET Projects /\ quit[q].todo \ {p} \in SUBSET Projects
    BY <1>1 DEF Composition
  <1>. QED
    BY <1>1, <1>2 DEF Past, Composition

(* What a sweep records, and what it forgets as its quit returns. *)
LEMMA SweepTypes ==
    ASSUME TypeOK, NEW q \in Quits, QuitStep(q)
    PROVE  session' \in [Slots -> Session]
  <1>0. session \in [Slots -> Session]
    BY DEF TypeOK, SlotTypeOK
  <1>1. ASSUME NEW s \in Slots
        PROVE  AskedBy(s, q) \in Session /\ SparedBy(s, q) \in Session
    <2>1. session[s] \in Session
      BY <1>0
    <2>2. /\ [session[s] EXCEPT !.asked = @ \cup {q}] \in Session
          /\ [session[s] EXCEPT !.spared = @ \cup {q}] \in Session
      BY <2>1 DEF Session
    <2>. QED
      BY <2>1, <2>2 DEF AskedBy, SparedBy
  <1>2. ASSUME NEW s \in Slots
        PROVE  [session[s] EXCEPT !.asked = @ \ {q}, !.spared = @ \ {q}] \in Session
    <2>1. session[s] \in Session
      BY <1>0
    <2>. QED
      BY <2>1 DEF Session
  <1>3. CASE UNCHANGED session
    BY <1>0, <1>3
  <1>4. CASE ListSessions(q)
    BY <1>0, <1>1, <1>4 DEF ListSessions
  <1>5. ASSUME NEW s \in Slots, KillSession(q, s) PROVE session' \in [Slots -> Session]
    BY <1>0, <1>1, <1>5 DEF KillSession
  <1>6. CASE Return(q)
    BY <1>2, <1>6 DEF Return
  <1>7. ASSUME NEW p \in Projects, LeavePhase(q, p) PROVE Return(q) \/ UNCHANGED session
    BY <1>7 DEF LeavePhase
  <1>8. ASSUME NEW p \in Projects, \/ EnterPhase(q, p) \/ CloseProject(q, p)
                                  \/ BarrierDrains(q, p) \/ BarrierBound(q, p)
        PROVE  UNCHANGED session
    BY <1>8 DEF EnterPhase, CloseProject, BarrierDrains, BarrierBound, notQuit
  <1>9. ReturnFromNothingOpen(q) => Return(q)
    BY DEF ReturnFromNothingOpen
  <1>. QED
    BY <1>3, <1>4, <1>5, <1>6, <1>7, <1>8, <1>9 DEF QuitStep

LEMMA QuitStepTypes ==
    ASSUME TypeOK, NEW q \in Quits, QuitStep(q)
    PROVE  TypeOK'
  <1>1. ASSUME NEW p \in Projects, BeginQuit(p) \/ EndQuitPhase(p) PROVE RegistryTypeOK'
    BY <1>1, RegistryTypes DEF TypeOK
  <1>2. \/ \E p \in Projects : BeginQuit(p) \/ EndQuitPhase(p)
        \/ UNCHANGED <<live, flag, quits>>
    BY DEF QuitStep, EnterPhase, CloseProject, BarrierDrains, BarrierBound, LeavePhase,
           ListSessions, KillSession, ReturnFromNothingOpen
  <1>3. RegistryTypeOK'
    BY <1>1, <1>2 DEF TypeOK, RegistryTypeOK
  <1>4. /\ open' \in [Projects -> BOOLEAN]
        /\ UNCHANGED <<slotLock, launch, opener, sup, handle, shutdown, mgr>>
    BY DEF QuitStep, EnterPhase, CloseProject, BarrierDrains, BarrierBound, LeavePhase,
           ListSessions, KillSession, ReturnFromNothingOpen, notQuit, notSweep, TypeOK, SlotTypeOK
  <1>5. quit[q] \in Composition /\ NoQuit \in Composition
    BY DEF TypeOK, QuitTypeOK, NoQuit, Composition, QuitPcs
  <1>6. \E r \in Composition : quit' = [quit EXCEPT ![q] = r]
    <2>1. ASSUME NEW p \in Projects, EnterPhase(q, p)
          PROVE  \E r \in Composition : quit' = [quit EXCEPT ![q] = r]
      <3>1. Past(q, p, "closing") \in Composition
        BY PastTypes DEF TypeOK, QuitPcs
      <3>2. [Past(q, p, "closing") EXCEPT !.held = @ \cup {p}] \in Composition
        BY <3>1 DEF Composition
      <3>. QED
        BY <2>1, <3>2 DEF EnterPhase
    <2>2. ASSUME NEW p \in Projects, CloseProject(q, p) \/ BarrierDrains(q, p)
          PROVE  \E r \in Composition : quit' = [quit EXCEPT ![q] = r]
      <3>1. Past(q, p, "draining") \in Composition /\ Past(q, p, "listing") \in Composition
        BY PastTypes DEF TypeOK, QuitPcs
      <3>. QED
        BY <2>2, <3>1 DEF CloseProject, BarrierDrains
    <2>3. ASSUME NEW p \in Projects, BarrierBound(q, p)
          PROVE  \E r \in Composition : quit' = [quit EXCEPT ![q] = r]
      <3>1. Past(q, p, "listing") \in Composition
        BY PastTypes DEF TypeOK, QuitPcs
      <3>2. [Past(q, p, "listing") EXCEPT !.drained = FALSE] \in Composition
        BY <3>1 DEF Composition
      <3>. QED
        BY <2>3, <3>2 DEF BarrierBound
    <2>4. ASSUME NEW p \in Projects, LeavePhase(q, p)
          PROVE  \E r \in Composition : quit' = [quit EXCEPT ![q] = r]
      <3>1. [quit[q] EXCEPT !.held = @ \ {p}] \in Composition
        BY <1>5 DEF Composition
      <3>2. \/ quit' = [quit EXCEPT ![q] = NoQuit]
            \/ quit' = [quit EXCEPT ![q] = [quit[q] EXCEPT !.held = @ \ {p}]]
        BY <2>4 DEF LeavePhase, Return
      <3>. QED
        BY <1>5, <3>1, <3>2
    <2>5. ASSUME NEW v \in SUBSET Slots
          PROVE  [quit[q] EXCEPT !.pc = Killing(v), !.victims = v] \in Composition
      BY <1>5 DEF Composition, Killing, QuitPcs
    <2>6. CASE ListSessions(q)
      <3>1. PICK v \in SUBSET Slots :
                quit' = [quit EXCEPT ![q].pc = Killing(v), ![q].victims = v]
        BY <2>6 DEF ListSessions, Owned
      <3>. QED
        BY <2>5, <3>1, <1>5 DEF TypeOK, QuitTypeOK
    <2>7. ASSUME NEW s \in Slots, KillSession(q, s)
          PROVE  \E r \in Composition : quit' = [quit EXCEPT ![q] = r]
      <3>1. quit[q].victims \ {s} \in SUBSET Slots
        BY <1>5 DEF Composition
      <3>. QED
        BY <2>7, <2>5, <3>1, <1>5 DEF KillSession, TypeOK, QuitTypeOK
    <2>8. CASE ReturnFromNothingOpen(q)
      BY <2>8, <1>5 DEF ReturnFromNothingOpen, Return
    <2>. QED
      BY <2>1, <2>2, <2>3, <2>4, <2>6, <2>7, <2>8 DEF QuitStep
  <1>7. QuitTypeOK'
    BY <1>6 DEF TypeOK, QuitTypeOK
  <1>8. session' \in [Slots -> Session]
    BY SweepTypes
  <1>. QED
    BY <1>3, <1>4, <1>7, <1>8 DEF TypeOK, SlotTypeOK, LaunchTypeOK, PollerTypeOK

LEMMA NextTypes == TypeOK /\ [Next]_vars => TypeOK'
  <1>. SUFFICES ASSUME TypeOK, [Next]_vars PROVE TypeOK'
    OBVIOUS
  <1>1. ASSUME NEW s \in Slots, SessionEnds(s) PROVE TypeOK'
    BY <1>1, SessionTypes DEF TypeOK, RegistryTypeOK, LaunchTypeOK, QuitTypeOK, PollerTypeOK, SlotTypeOK,
                SessionEnds, others
  <1>2. CASE UNCHANGED vars
    BY <1>2 DEF TypeOK, RegistryTypeOK, LaunchTypeOK, QuitTypeOK, PollerTypeOK, SlotTypeOK,
                vars
  <1>. QED
    BY <1>1, <1>2, NextCases, LaunchTypes, RequestTypes, OpenTypes, SupTypes, QuitStepTypes,
       QuitCommandTypes, MgrTypes

(* Every variable keeps its type. *)
THEOREM TypeCorrect == Spec => []TypeOK
  BY InitTypes, NextTypes, PTL DEF Spec

-----------------------------------------------------------------------------
(* The registry: every step is one of its operations or leaves it alone.   *)

LEMMA LaunchRegistry ==
    ASSUME NEW l \in Launches, LaunchStep(l)
    PROVE  \/ /\ launch[l].pc = "gated"
              /\ Register(l, LaunchProject(l), LaunchScope(launch[l].slot), "launch")
              /\ Goes(l, "registered")
           \/ /\ launch[l].pc # "idle"
              /\ Unregister(l)
              /\ launch' = [launch EXCEPT ![l] = NoLaunch]
           \/ /\ UNCHANGED registry
              /\ launch[l].pc \notin {"idle", "gated"}
              /\ launch[l].pc = "registered" => ~IsCancelled(l)
              /\ \E pc \in LaunchPcs \ {"idle", "gated"} : Goes(l, pc)
  BY DEF LaunchStep, RegisterLaunch, LockAndCheck, CheckOrchestrator, LockDashboard,
         PreSpawnCheck, StandDown, SetupFails, Spawn, FinishLaunch, EndLaunch, registry,
         LaunchPcs

LEMMA SupRegistry ==
    ASSUME NEW p \in Projects, SupStep(p)
    PROVE  /\ \/ Register(Supervisor[p], p, None, "poll")
              \/ Unregister(Supervisor[p])
              \/ UNCHANGED registry
           /\ UNCHANGED <<quits, session, launch, quit>>
  BY DEF SupStep, SupRegister, SupPass, SupSleep, SupExit, notSup, registry, Register,
         Unregister

LEMMA MgrRegistry ==
    ASSUME MgrStep
    PROVE  /\ (\E p \in Projects : TripProject(p)) \/ UNCHANGED registry
           /\ UNCHANGED <<live, quits, session, launch, quit>>
  BY DEF MgrStep, Tick, TripClosing, JoinPoller, ClosedDrains, StartOpen, StartPoller, EndPass,
         notMgr, registry, TripProject

LEMMA QuitRegistry ==
    ASSUME NEW q \in Quits, QuitStep(q)
    PROVE  /\ \/ \E p \in Projects : BeginQuit(p) /\ EnterPhase(q, p)
              \/ \E p \in Projects : EndQuitPhase(p) /\ LeavePhase(q, p)
              \/ /\ UNCHANGED registry
                 /\ \/ \E p \in Projects : \/ CloseProject(q, p)
                                           \/ BarrierDrains(q, p)
                                           \/ BarrierBound(q, p)
                    \/ ListSessions(q)
                    \/ \E s \in Slots : KillSession(q, s)
                    \/ ReturnFromNothingOpen(q)
           /\ UNCHANGED <<live, launch>>
  BY DEF QuitStep, EnterPhase, CloseProject, BarrierDrains, BarrierBound, LeavePhase,
         ListSessions, KillSession, ReturnFromNothingOpen, notQuit, notSweep, registry, BeginQuit,
         EndQuitPhase

(* The steps that are none of these leave the registry and the quits'      *)
(* compositions alone, or only start a composition.                        *)
LEMMA OtherRegistry ==
    /\ \A l \in Launches, s \in Slots :
          (RequestLaunch(l, s) \/ SupervisorLaunch(l, s)) =>
              /\ launch[l].pc = "idle"
              /\ \E by \in Requesters :
                    launch' = [launch EXCEPT ![l] = [pc |-> "gated", slot |-> s, by |-> by]]
              /\ UNCHANGED <<live, flag, quits, session, quit>>
    /\ \A s \in Slots :
          SessionEnds(s) => /\ session' = [session EXCEPT ![s] = NoSession]
                            /\ UNCHANGED <<live, flag, quits, launch, quit>>
    /\ \A p \in Projects :
          (OpenMark(p) \/ OpenSpawn(p)) =>
              /\ \/ UNCHANGED session
                 \/ session' = [session EXCEPT ![OrchOf[p]] = SessionOf("opener")]
              /\ UNCHANGED <<live, flag, quits, launch, quit>>
    /\ \A q \in Quits :
          (QuitShelbi(q) \/ \E p \in Projects : QuitProject(q, p)) =>
              /\ quit[q].pc = "idle"
              /\ \E scope \in SUBSET Projects : \E ps \in SUBSET scope :
                    quit' = [quit EXCEPT ![q] = Started(scope, ps)]
              /\ UNCHANGED <<live, flag, quits, launch, session>>
  <1>1. OpenProjects \in SUBSET Projects
    BY DEF OpenProjects
  <1>2. ASSUME NEW q \in Quits, QuitShelbi(q) \/ \E p \in Projects : QuitProject(q, p)
        PROVE  \E scope \in SUBSET Projects : \E ps \in SUBSET scope :
                    quit' = [quit EXCEPT ![q] = Started(scope, ps)]
    <2>1. CASE QuitShelbi(q)
      BY <1>1, <2>1 DEF QuitShelbi
    <2>2. ASSUME NEW p \in Projects, QuitProject(q, p)
          PROVE  \E scope \in SUBSET Projects : \E ps \in SUBSET scope :
                      quit' = [quit EXCEPT ![q] = Started(scope, ps)]
      <3>1. {p} \in SUBSET Projects /\ {p} \in SUBSET {p}
        OBVIOUS
      <3>2. quit' = [quit EXCEPT ![q] = Started({p}, {p})]
        BY <2>2 DEF QuitProject
      <3>. QED
        BY <3>1, <3>2
    <2>. QED
      BY <1>2, <2>1, <2>2
  <1>3. ASSUME NEW q \in Quits, QuitShelbi(q) \/ \E p \in Projects : QuitProject(q, p)
        PROVE  quit[q].pc = "idle" /\ UNCHANGED <<live, flag, quits, launch, session>>
    BY <1>3 DEF QuitShelbi, QuitProject, notQuit, notSweep
  <1>4. ASSUME NEW l \in Launches, NEW s \in Slots,
               RequestLaunch(l, s) \/ SupervisorLaunch(l, s)
        PROVE  /\ launch[l].pc = "idle"
               /\ \E by \in Requesters :
                     launch' = [launch EXCEPT ![l] = [pc |-> "gated", slot |-> s, by |-> by]]
               /\ UNCHANGED <<live, flag, quits, session, quit>>
    BY <1>4 DEF RequestLaunch, SupervisorLaunch, others, Requesters
  <1>5. ASSUME NEW p \in Projects, OpenMark(p) \/ OpenSpawn(p)
        PROVE  /\ \/ UNCHANGED session
                  \/ session' = [session EXCEPT ![OrchOf[p]] = SessionOf("opener")]
               /\ UNCHANGED <<live, flag, quits, launch, quit>>
    BY <1>5 DEF OpenMark, OpenSpawn
  <1>6. ASSUME NEW s \in Slots, SessionEnds(s)
        PROVE  /\ session' = [session EXCEPT ![s] = NoSession]
               /\ UNCHANGED <<live, flag, quits, launch, quit>>
    BY <1>6 DEF SessionEnds, others
  <1>. QED
    BY <1>1, <1>2, <1>3, <1>4, <1>5, <1>6

-----------------------------------------------------------------------------
(* Phases.                                                                 *)

Holders(p) == {q \in Quits : p \in quit[q].held}

LEMMA HoldersFinite ==
    ASSUME NEW p
    PROVE  IsFiniteSet(Holders(p)) /\ IsFiniteSet(Holders(p)')
  <1>1. Holders(p) \subseteq Quits /\ Holders(p)' \subseteq Quits
    BY DEF Holders
  <1>. QED
    BY <1>1, FS_Subset

LEMMA HeldIsQuitting ==
    ASSUME TypeOK, PhasesAreCounted, NEW q \in Quits, NEW p \in Projects, p \in quit[q].held
    PROVE  quits[p] > 0
  <1>1. q \in Holders(p) /\ quits[p] = Cardinality(Holders(p))
    BY DEF Holders, PhasesAreCounted
  <1>2. Cardinality(Holders(p)) # 0 /\ Cardinality(Holders(p)) \in Nat
    BY <1>1, HoldersFinite, FS_EmptySet, FS_CardinalityType
  <1>. QED
    BY <1>1, <1>2

(* What each quit step does to the phases its composition holds. *)
LEMMA HeldCases ==
    ASSUME TypeOK, PhasesFollowStages, NEW q \in Quits, QuitStep(q)
    PROVE  \/ \E p \in Projects : /\ BeginQuit(p)
                                 /\ p \notin quit[q].held
                                 /\ quit'[q].held = quit[q].held \cup {p}
           \/ \E p \in Projects : /\ EndQuitPhase(p)
                                 /\ p \in quit[q].held
                                 /\ quit'[q].held = quit[q].held \ {p}
           \/ /\ UNCHANGED quits
              /\ quit'[q].held = quit[q].held
  <1>. USE DEF TypeOK, QuitTypeOK, Composition
  <1>1. ASSUME NEW p \in Projects, NEW next
        PROVE  /\ Past(q, p, next).held = quit[q].held
               /\ [Past(q, p, next) EXCEPT !.held = @ \cup {p}].held = quit[q].held \cup {p}
               /\ [Past(q, p, next) EXCEPT !.drained = FALSE].held = quit[q].held
    BY DEF Past
  <1>2. ASSUME NEW p \in Projects, EnterPhase(q, p)
        PROVE  /\ BeginQuit(p)
               /\ p \notin quit[q].held
               /\ quit'[q].held = quit[q].held \cup {p}
    BY <1>1, <1>2 DEF EnterPhase, PhasesFollowStages
  <1>3. ASSUME NEW p \in Projects, LeavePhase(q, p)
        PROVE  /\ EndQuitPhase(p)
               /\ p \in quit[q].held
               /\ quit'[q].held = quit[q].held \ {p}
    <2>1. EndQuitPhase(p) /\ p \in quit[q].held
      BY <1>3 DEF LeavePhase
    <2>2. CASE quit[q].held = {p}
      <3>1. quit' = [quit EXCEPT ![q] = NoQuit]
        BY <1>3, <2>2 DEF LeavePhase, Return
      <3>2. quit'[q].held = {}
        BY <3>1 DEF NoQuit
      <3>. QED
        BY <2>1, <2>2, <3>2
    <2>3. CASE quit[q].held # {p}
      <3>1. quit' = [quit EXCEPT ![q].held = @ \ {p}]
        BY <1>3, <2>3 DEF LeavePhase
      <3>. QED
        BY <2>1, <3>1
    <2>. QED
      BY <2>2, <2>3
  <1>4. ASSUME NEW p \in Projects,
               CloseProject(q, p) \/ BarrierDrains(q, p) \/ BarrierBound(q, p)
        PROVE  quit'[q].held = quit[q].held /\ UNCHANGED quits
    <2>1. \E next : \/ quit' = [quit EXCEPT ![q] = Past(q, p, next)]
                   \/ quit' = [quit EXCEPT ![q] = [Past(q, p, next) EXCEPT !.drained = FALSE]]
      BY <1>4 DEF CloseProject, BarrierDrains, BarrierBound
    <2>2. UNCHANGED quits
      BY <1>4 DEF CloseProject, BarrierDrains, BarrierBound
    <2>3. PICK next : \/ quit'[q] = Past(q, p, next)
                      \/ quit'[q] = [Past(q, p, next) EXCEPT !.drained = FALSE]
      BY <2>1
    <2>4. CASE quit'[q] = Past(q, p, next)
      BY <1>1, <2>2, <2>4
    <2>5. CASE quit'[q] = [Past(q, p, next) EXCEPT !.drained = FALSE]
      <3>1. quit'[q].held = [Past(q, p, next) EXCEPT !.drained = FALSE].held
        BY <2>5
      <3>2. @ = quit[q].held
        BY <1>1
      <3>. QED
        BY <2>2, <3>1, <3>2
    <2>. QED
      BY <2>3, <2>4, <2>5
  <1>5. ASSUME ListSessions(q) \/ (\E s \in Slots : KillSession(q, s))
        PROVE  quit'[q].held = quit[q].held /\ UNCHANGED quits
    <2>1. CASE ListSessions(q)
      BY <2>1 DEF ListSessions
    <2>2. ASSUME NEW s \in Slots, KillSession(q, s)
          PROVE  quit'[q].held = quit[q].held /\ UNCHANGED quits
      BY <2>2 DEF KillSession
    <2>. QED
      BY <1>5, <2>1, <2>2
  <1>6. ASSUME ReturnFromNothingOpen(q)
        PROVE  quit'[q].held = quit[q].held /\ UNCHANGED quits
    BY <1>6 DEF ReturnFromNothingOpen, Return, NoQuit
  <1>. QED
    BY <1>2, <1>3, <1>4, <1>5, <1>6 DEF QuitStep

LEMMA OneComposition ==
    ASSUME TypeOK, NEW q \in Quits, QuitStep(q)
    PROVE  \A r \in Quits \ {q} : quit'[r] = quit[r]
  BY DEF TypeOK, QuitTypeOK, QuitStep, EnterPhase, CloseProject, BarrierDrains, BarrierBound, LeavePhase,
         ListSessions, KillSession, ReturnFromNothingOpen, Return

(* The steps that are not a composition's own. *)
LEMMA QuitsElsewhere ==
    ASSUME [Next]_vars, ~(\E q \in Quits : QuitStep(q)),
           ~(\E q \in Quits : QuitShelbi(q) \/ \E p \in Projects : QuitProject(q, p))
    PROVE  UNCHANGED <<quits, quit>>
  <1>1. ASSUME NEW l \in Launches, LaunchStep(l) PROVE UNCHANGED <<quits, quit>>
    BY <1>1 DEF LaunchStep, RegisterLaunch, LockAndCheck, CheckOrchestrator, LockDashboard,
                PreSpawnCheck, StandDown, SetupFails, Spawn, FinishLaunch, EndLaunch,
                Register, Unregister, others
  <1>2. CASE UNCHANGED vars
    BY <1>2 DEF vars
  <1>. QED
    BY <1>1, <1>2, NextCases, OtherRegistry, SupRegistry, MgrRegistry

LEMMA NewComposition ==
    ASSUME TypeOK, PhasesFollowStages, NEW q \in Quits,
           QuitShelbi(q) \/ \E p \in Projects : QuitProject(q, p)
    PROVE  /\ UNCHANGED quits
           /\ quit[q].held = {} /\ quit'[q].held = {}
           /\ quit'[q].pc \in {"phasing", "listing"}
           /\ quit'[q].todo = quit'[q].projects
           /\ quit'[q].projects \subseteq quit'[q].scope
           /\ \A r \in Quits \ {q} : quit'[r] = quit[r]
  <1>0. PICK scope \in SUBSET Projects : \E ps \in SUBSET scope :
             quit' = [quit EXCEPT ![q] = Started(scope, ps)]
    BY OtherRegistry
  <1>1. PICK ps \in SUBSET scope : quit' = [quit EXCEPT ![q] = Started(scope, ps)]
    BY <1>0
  <1>2. /\ Started(scope, ps).held = {} /\ Started(scope, ps).pc \in {"phasing", "listing"}
        /\ Started(scope, ps).todo = ps /\ Started(scope, ps).projects = ps
        /\ Started(scope, ps).scope = scope
    BY DEF Started, NoQuit
  <1>3. quit[q].held = {} /\ UNCHANGED quits
    BY OtherRegistry DEF PhasesFollowStages
  <1>. QED
    BY <1>1, <1>2, <1>3 DEF TypeOK, QuitTypeOK

LEMMA CountedNext ==
    ASSUME TypeOK, PhasesAreCounted, PhasesFollowStages, [Next]_vars
    PROVE  PhasesAreCounted'
  <1>. SUFFICES ASSUME NEW r \in Projects PROVE quits'[r] = Cardinality(Holders(r)')
    BY DEF PhasesAreCounted, Holders
  <1>. /\ quits[r] = Cardinality(Holders(r))
       /\ quits \in [Projects -> Nat]
    BY DEF PhasesAreCounted, Holders, TypeOK, RegistryTypeOK
  <1>1. ASSUME NEW q \in Quits, QuitStep(q) PROVE quits'[r] = Cardinality(Holders(r)')
    <2>1. CASE UNCHANGED quits /\ quit'[q].held = quit[q].held
      <3>1. Holders(r)' = Holders(r)
        BY <1>1, <2>1, OneComposition DEF Holders
      <3>. QED
        BY <2>1, <3>1
    <2>2. ASSUME NEW p \in Projects, BeginQuit(p), p \notin quit[q].held,
                 quit'[q].held = quit[q].held \cup {p}
          PROVE  quits'[r] = Cardinality(Holders(r)')
      <3>1. CASE p = r
        <4>1. q \notin Holders(r) /\ Holders(r)' = Holders(r) \cup {q}
          BY <1>1, <2>2, <3>1, OneComposition DEF Holders
        <4>2. quits'[r] = quits[r] + 1
          BY <2>2, <3>1 DEF BeginQuit
        <4>3. IsFiniteSet(Holders(r))
          BY HoldersFinite
        <4>4. Cardinality(Holders(r) \cup {q}) = Cardinality(Holders(r)) + 1
          BY <4>1, <4>3, FS_AddElement
        <4>. QED
          BY <4>1, <4>2, <4>4
      <3>2. CASE p # r
        <4>1. Holders(r)' = Holders(r)
          BY <1>1, <2>2, <3>2, OneComposition DEF Holders
        <4>. QED
          BY <2>2, <3>2, <4>1 DEF BeginQuit
      <3>. QED
        BY <3>1, <3>2
    <2>3. ASSUME NEW p \in Projects, EndQuitPhase(p), p \in quit[q].held,
                 quit'[q].held = quit[q].held \ {p}
          PROVE  quits'[r] = Cardinality(Holders(r)')
      <3>1. CASE p = r
        <4>1. q \in Holders(r) /\ Holders(r)' = Holders(r) \ {q}
          BY <1>1, <2>3, <3>1, OneComposition DEF Holders
        <4>2. quits[r] > 0
          BY <2>3, <3>1, HeldIsQuitting
        <4>3. quits'[r] = quits[r] - 1
          BY <2>3, <3>1, <4>2 DEF EndQuitPhase, PhasesLeft
        <4>4. IsFiniteSet(Holders(r))
          BY HoldersFinite
        <4>5. Cardinality(Holders(r) \ {q}) = Cardinality(Holders(r)) - 1
          BY <4>1, <4>4, FS_RemoveElement
        <4>. QED
          BY <4>1, <4>3, <4>5
      <3>2. CASE p # r
        <4>1. Holders(r)' = Holders(r)
          BY <1>1, <2>3, <3>2, OneComposition DEF Holders
        <4>. QED
          BY <2>3, <3>2, <4>1 DEF EndQuitPhase
      <3>. QED
        BY <3>1, <3>2
    <2>. QED
      BY <1>1, <2>1, <2>2, <2>3, HeldCases
  <1>2. ASSUME NEW q \in Quits, QuitShelbi(q) \/ \E p \in Projects : QuitProject(q, p)
        PROVE  quits'[r] = Cardinality(Holders(r)')
    <2>1. Holders(r)' = Holders(r)
      BY <1>2, NewComposition DEF Holders
    <2>. QED
      BY <1>2, <2>1, NewComposition
  <1>3. CASE UNCHANGED <<quits, quit>>
    BY <1>3 DEF Holders
  <1>. QED
    BY <1>1, <1>2, <1>3, QuitsElsewhere

(* A composition's step, field by field. *)
Bound(c, d) == d.projects = c.projects /\ d.scope = c.scope
Keeps(c, d) == d.held = c.held /\ Bound(c, d) /\ d.drained = c.drained
Phases(c, d) ==
    \E p \in c.todo :
        /\ c.pc = "phasing"
        /\ d.pc = "closing" \/ (d.pc = "phasing" /\ d.todo = c.todo \ {p})
        /\ d.held = c.held \cup {p} /\ Bound(c, d) /\ p \in c.todo
Closes(c, d) ==
    /\ c.pc = "closing" /\ Keeps(c, d)
    /\ d.pc = "closing" \/ (d.pc = "draining" /\ d.todo = c.projects)
Drains(c, d) ==
    \E p \in c.todo :
        /\ c.pc = "draining" /\ Keeps(c, d) /\ Drained(p)
        /\ \/ d.pc = "draining" /\ d.todo = c.todo \ {p}
           \/ d.pc = "listing" /\ c.todo = {p}
Bounded(c, d) ==
    /\ c.pc = "draining" /\ d.held = c.held /\ Bound(c, d) /\ ~d.drained
    /\ d.pc \in {"draining", "listing"}
Alive(q) == {s \in Owned(q) : Running(s)}
Lists(q, c, d) ==
    \E unlisted \in SUBSET Alive(q) :
        /\ c.pc = "listing" /\ Keeps(c, d)
        /\ d.victims = Alive(q) \ unlisted /\ d.pc = Killing(d.victims)
        /\ session' = [s \in Slots |-> IF s \in unlisted THEN SparedBy(s, q)
                                      ELSE session[s]]
Kills(q, c, d) ==
    \E s \in Slots :
        /\ c.pc = "killing" /\ Keeps(c, d)
        /\ d.victims = c.victims \ {s} /\ d.pc = Killing(d.victims)
        /\ \/ session' = [session EXCEPT ![s] = AskedBy(s, q)]
           \/ session' = [session EXCEPT ![s] = SparedBy(s, q)]
Leaves(q, c, d) ==
    /\ c.pc = "ending"
    /\ \/ d = NoQuit /\ Return(q)
       \/ \E p \in Projects : /\ d.held = c.held \ {p} /\ d.pc = "ending"
                             /\ Bound(c, d) /\ d.drained = c.drained
                             /\ UNCHANGED session

LEMMA CompositionStep ==
    ASSUME TypeOK, NEW q \in Quits, QuitStep(q)
    PROVE  LET c == quit[q]
               d == quit'[q]
           IN  \/ /\ Phases(c, d) \/ Closes(c, d) \/ Drains(c, d) \/ Bounded(c, d)
                  /\ UNCHANGED session
               \/ Lists(q, c, d)
               \/ Kills(q, c, d)
               \/ Leaves(q, c, d)
  <1>. DEFINE c == quit[q]
              d == quit'[q]
              Stays == UNCHANGED session
  <1>0. c \in Composition /\ DOMAIN quit = Quits
    BY DEF TypeOK, QuitTypeOK
  <1>. HIDE DEF c
  <1>1. ASSUME NEW p \in Projects, NEW next \in QuitPcs
        PROVE  /\ Past(q, p, next).held = c.held
               /\ Bound(c, Past(q, p, next))
               /\ Past(q, p, next).drained = c.drained
               /\ \/ /\ Past(q, p, next).pc = next
                     /\ c.todo = {p}
                     /\ next = "listing" \/ Past(q, p, next).todo = c.projects
                  \/ /\ Past(q, p, next).pc = c.pc
                     /\ Past(q, p, next).todo = c.todo \ {p}
               /\ Past(q, p, next) \in Composition
    <2>1. quit[q] = c
      BY DEF c
    <2>2. Past(q, p, next) \in Composition
      BY PastTypes DEF TypeOK
    <2>. QED
      BY <1>0, <2>1, <2>2 DEF Past, Composition, Bound
  <1>2. ASSUME NEW p \in Projects, EnterPhase(q, p) PROVE Phases(c, d) /\ Stays
    <2>1. d = [Past(q, p, "closing") EXCEPT !.held = @ \cup {p}] /\ Stays
          /\ c.pc = "phasing" /\ p \in c.todo
      BY <1>0, <1>2 DEF EnterPhase, c, notQuit
    <2>2. "closing" \in QuitPcs
      BY DEF QuitPcs
    <2>3. /\ d.held = Past(q, p, "closing").held \cup {p}
          /\ d.pc = Past(q, p, "closing").pc
          /\ d.todo = Past(q, p, "closing").todo
          /\ Bound(Past(q, p, "closing"), d)
      BY <2>1, <2>2, <1>1 DEF Composition, Bound
    <2>. QED
      BY <1>1, <2>1, <2>2, <2>3 DEF Phases, Bound
  <1>3. ASSUME NEW p \in Projects, CloseProject(q, p) PROVE Closes(c, d) /\ Stays
    <2>1. d = Past(q, p, "draining") /\ Stays /\ c.pc = "closing"
      BY <1>0, <1>3 DEF CloseProject, c, notQuit
    <2>2. "draining" \in QuitPcs
      BY DEF QuitPcs
    <2>. QED
      BY <1>1, <2>1, <2>2 DEF Closes, Keeps, Bound
  <1>4. ASSUME NEW p \in Projects, BarrierDrains(q, p) PROVE Drains(c, d) /\ Stays
    <2>1. d = Past(q, p, "listing") /\ Stays /\ c.pc = "draining" /\ p \in c.todo /\ Drained(p)
      BY <1>0, <1>4 DEF BarrierDrains, c, notQuit
    <2>2. "listing" \in QuitPcs
      BY DEF QuitPcs
    <2>. QED
      BY <1>1, <2>1, <2>2 DEF Drains, Keeps, Bound
  <1>5. ASSUME NEW p \in Projects, BarrierBound(q, p) PROVE Bounded(c, d) /\ Stays
    <2>1. d = [Past(q, p, "listing") EXCEPT !.drained = FALSE] /\ Stays /\ c.pc = "draining"
      BY <1>0, <1>5 DEF BarrierBound, c, notQuit
    <2>2. "listing" \in QuitPcs
      BY DEF QuitPcs
    <2>3. /\ d.held = Past(q, p, "listing").held
          /\ d.pc = Past(q, p, "listing").pc
          /\ Bound(Past(q, p, "listing"), d)
          /\ d.drained = FALSE
      BY <2>1, <2>2, <1>1 DEF Composition, Bound
    <2>. QED
      BY <1>1, <2>1, <2>2, <2>3 DEF Bounded, Bound
  <1>6. ASSUME ListSessions(q) PROVE Lists(q, c, d)
    <2>1. PICK unlisted \in SUBSET Alive(q) :
              /\ quit' = [quit EXCEPT ![q].pc = Killing(Alive(q) \ unlisted),
                                      ![q].victims = Alive(q) \ unlisted]
              /\ session' = [s \in Slots |-> IF s \in unlisted THEN SparedBy(s, q)
                                            ELSE session[s]]
      BY <1>6 DEF ListSessions, Alive
    <2>2. /\ d.held = c.held /\ d.projects = c.projects /\ d.scope = c.scope
          /\ d.drained = c.drained /\ d.victims = Alive(q) \ unlisted
          /\ d.pc = Killing(Alive(q) \ unlisted) /\ c.pc = "listing"
      BY <1>0, <1>6, <2>1 DEF ListSessions, c, Composition
    <2>. QED
      BY <2>1, <2>2 DEF Lists, Keeps, Bound
  <1>7. ASSUME NEW s \in Slots, KillSession(q, s) PROVE Kills(q, c, d)
    BY <1>0, <1>7 DEF KillSession, Kills, Keeps, Bound, c, Composition
  <1>8. ASSUME NEW p \in Projects, LeavePhase(q, p) PROVE Leaves(q, c, d)
    <2>0. c.pc = "ending"
      BY <1>8 DEF LeavePhase, c
    <2>1. CASE Return(q)
      BY <1>0, <2>0, <2>1 DEF Return, Leaves
    <2>2. CASE quit' = [quit EXCEPT ![q].held = @ \ {p}] /\ UNCHANGED session
      BY <1>0, <2>0, <2>2 DEF Leaves, Bound, c, Composition
    <2>. QED
      BY <1>8, <2>1, <2>2 DEF LeavePhase
  <1>9. ASSUME ReturnFromNothingOpen(q) PROVE Leaves(q, c, d)
    BY <1>0, <1>9 DEF ReturnFromNothingOpen, Return, Leaves, c
  <1>. QED
    BY <1>2, <1>3, <1>4, <1>5, <1>6, <1>7, <1>8, <1>9 DEF QuitStep, c

LEMMA StagesNext ==
    ASSUME TypeOK, PhasesFollowStages, [Next]_vars
    PROVE  PhasesFollowStages'
  <1>. DEFINE Good(c) == /\ c.held \subseteq c.projects
                         /\ c.projects \subseteq c.scope
                         /\ c.pc = "idle" => c.held = {}
                         /\ c.pc = "phasing" => /\ c.held \cap c.todo = {}
                                                /\ c.todo \subseteq c.projects
  <1>1. ASSUME NEW q \in Quits, QuitStep(q) PROVE PhasesFollowStages'
    <2>0. quit[q] \in Composition /\ Good(quit[q]) /\ NoQuit.held = {} /\ NoQuit.pc = "idle"
          /\ NoQuit.projects = {}
      BY DEF TypeOK, QuitTypeOK, PhasesFollowStages, NoQuit
    <2>1. Good(quit'[q])
      BY <1>1, <2>0, CompositionStep DEF Phases, Closes, Drains, Bounded, Lists, Kills, Leaves,
                                        Keeps, Bound, Killing
    <2>. QED
      BY <1>1, <2>1, OneComposition DEF PhasesFollowStages
  <1>2. ASSUME NEW q \in Quits, QuitShelbi(q) \/ \E p \in Projects : QuitProject(q, p)
        PROVE  PhasesFollowStages'
    BY <1>2, NewComposition DEF PhasesFollowStages
  <1>3. CASE UNCHANGED <<quits, quit>>
    BY <1>3 DEF PhasesFollowStages
  <1>. QED
    BY <1>1, <1>2, <1>3, QuitsElsewhere

-----------------------------------------------------------------------------
(* Cancellation.                                                           *)

LEMMA RegistryOps ==
    ASSUME TypeOK, [Next]_vars
    PROVE  \/ \E j \in Jobs, p \in Projects : \E w, k : Register(j, p, w, k)
           \/ \E j \in Jobs : Unregister(j)
           \/ \E p \in Projects : BeginQuit(p) \/ EndQuitPhase(p) \/ TripProject(p)
           \/ UNCHANGED registry
  <1>1. ASSUME NEW l \in Launches, LaunchStep(l)
        PROVE  \/ \E j \in Jobs, p \in Projects : \E w, k : Register(j, p, w, k)
               \/ \E j \in Jobs : Unregister(j)
               \/ UNCHANGED registry
    <2>1. l \in Jobs /\ (launch[l].pc = "gated" => LaunchProject(l) \in Projects)
      BY DEF TypeOK, LaunchTypeOK, LaunchProject
    <2>. QED
      BY <1>1, <2>1, LaunchRegistry
  <1>2. ASSUME NEW p \in Projects, SupStep(p)
        PROVE  \/ \E j \in Jobs, r \in Projects : \E w, k : Register(j, r, w, k)
               \/ \E j \in Jobs : Unregister(j)
               \/ UNCHANGED registry
    <2>1. Supervisor[p] \in Jobs
      OBVIOUS
    <2>. QED
      BY <1>2, <2>1, SupRegistry
  <1>3. ASSUME NEW q \in Quits, QuitStep(q)
        PROVE  (\E p \in Projects : BeginQuit(p) \/ EndQuitPhase(p)) \/ UNCHANGED registry
    BY <1>3, QuitRegistry
  <1>4. CASE UNCHANGED <<live, flag, quits>>
    BY <1>4 DEF registry
  <1>5. CASE UNCHANGED vars
    BY <1>5 DEF vars, registry
  <1>. QED
    BY <1>1, <1>2, <1>3, <1>4, <1>5, NextCases, OtherRegistry, MgrRegistry

LEMMA CancelledNext ==
    ASSUME TypeOK, QuittingCancelsEveryJob, [Next]_vars
    PROVE  QuittingCancelsEveryJob'
  <1>. USE DEF QuittingCancelsEveryJob, JobsOf, IsCancelled
  <1>0. /\ live \in [Jobs -> Registration \cup {None}]
        /\ flag \in [Jobs -> BOOLEAN]
        /\ quits \in [Projects -> Nat]
    BY DEF TypeOK, RegistryTypeOK
  <1>1. ASSUME NEW j \in Jobs, NEW p \in Projects, NEW w, NEW k, Register(j, p, w, k)
        PROVE  QuittingCancelsEveryJob'
    BY <1>0, <1>1 DEF Register, BornCancelled
  <1>2. ASSUME NEW j \in Jobs, Unregister(j) PROVE QuittingCancelsEveryJob'
    BY <1>0, <1>2 DEF Unregister
  <1>3. ASSUME NEW p \in Projects, BeginQuit(p) PROVE QuittingCancelsEveryJob'
    BY <1>0, <1>3 DEF BeginQuit, Tripped
  <1>4. ASSUME NEW p \in Projects, EndQuitPhase(p) PROVE QuittingCancelsEveryJob'
    BY <1>0, <1>4 DEF EndQuitPhase, PhasesLeft
  <1>5. ASSUME NEW p \in Projects, TripProject(p) PROVE QuittingCancelsEveryJob'
    BY <1>0, <1>5 DEF TripProject
  <1>6. CASE UNCHANGED registry
    BY <1>6 DEF registry
  <1>. QED
    BY <1>1, <1>2, <1>3, <1>4, <1>5, <1>6, RegistryOps

LEMMA RegisteredNext ==
    ASSUME TypeOK, LaunchesAreRegistered, [Next]_vars
    PROVE  LaunchesAreRegistered'
  <1>. USE DEF LaunchesAreRegistered, LaunchProject
  <1>0. /\ live \in [Jobs -> Registration \cup {None}]
        /\ launch \in [Launches -> [pc : LaunchPcs, slot : Slots \cup {None}, by : Requesters]]
    BY DEF TypeOK, RegistryTypeOK, LaunchTypeOK
  <1>1. ASSUME NEW l \in Launches, LaunchStep(l) PROVE LaunchesAreRegistered'
    <2>0. l \in Jobs
      OBVIOUS
    <2>1. CASE /\ launch[l].pc = "gated"
               /\ Register(l, LaunchProject(l), LaunchScope(launch[l].slot), "launch")
               /\ Goes(l, "registered")
      <3>1. LaunchProject(l) \in Projects
        BY <2>1 DEF TypeOK, LaunchTypeOK
      <3>2. [project |-> LaunchProject(l), workspace |-> LaunchScope(launch[l].slot),
             kind |-> "launch"] \in Registration
        BY <2>1, <3>1 DEF Registration, JobKinds, LaunchScope
      <3>. QED
        BY <1>0, <2>0, <2>1, <3>2 DEF Register, Goes
    <2>2. CASE Unregister(l) /\ launch' = [launch EXCEPT ![l] = NoLaunch]
      BY <1>0, <2>0, <2>2 DEF Unregister, NoLaunch
    <2>3. CASE /\ UNCHANGED registry
               /\ launch[l].pc \notin {"idle", "gated"}
               /\ \E pc \in LaunchPcs \ {"idle", "gated"} : Goes(l, pc)
      BY <1>0, <2>3 DEF registry, Goes
    <2>. QED
      BY <1>1, <2>1, <2>2, <2>3, LaunchRegistry
  <1>2. ASSUME NEW l \in Launches, NEW s \in Slots,
               RequestLaunch(l, s) \/ SupervisorLaunch(l, s)
        PROVE  LaunchesAreRegistered'
    BY <1>0, <1>2, OtherRegistry
  <1>3. CASE UNCHANGED <<live, launch>>
    BY <1>3
  <1>4. ASSUME NEW p \in Projects, SupStep(p) PROVE LaunchesAreRegistered'
    <2>1. Supervisor[p] \in Jobs \ Launches /\ UNCHANGED launch
      BY <1>4, SupRegistry
    <2>2. \A l \in Launches : live'[l] = live[l]
      BY <1>0, <1>4, <2>1, SupRegistry DEF Register, Unregister, registry
    <2>. QED
      BY <2>1, <2>2
  <1>5. CASE UNCHANGED vars
    BY <1>5 DEF vars
  <1>6. ASSUME NEW q \in Quits, QuitStep(q) PROVE LaunchesAreRegistered'
    BY <1>6, <1>3, QuitRegistry
  <1>. QED
    BY <1>1, <1>2, <1>3, <1>4, <1>5, <1>6, NextCases, OtherRegistry, MgrRegistry

-----------------------------------------------------------------------------
(* After a drained barrier.                                                *)

LEMMA LaunchLeavesQuits ==
    ASSUME NEW l \in Launches, LaunchStep(l)
    PROVE  /\ UNCHANGED <<quits, quit>>
           /\ \/ UNCHANGED session
              \/ /\ launch[l].pc = "spawning"
                 /\ \E v : session' = [session EXCEPT ![launch[l].slot] = v]
  BY DEF LaunchStep, RegisterLaunch, LockAndCheck, CheckOrchestrator, LockDashboard,
         PreSpawnCheck, StandDown, SetupFails, Spawn, FinishLaunch, EndLaunch, Register,
         Unregister, others

(* A composition drained p either before the step or in it. *)
LEMMA DrainedCases ==
    ASSUME TypeOK, PhasesFollowStages, NEW q \in Quits, NEW p \in Projects, NEW r \in Quits,
           QuitStep(r), DrainedBy(q, p)'
    PROVE  DrainedBy(q, p) \/ Drained(p)
  <1>1. CASE r # q
    BY <1>1, OneComposition DEF DrainedBy
  <1>2. CASE r = q
    <2>1. /\ quit[q].held \subseteq quit[q].projects
          /\ quit[q].pc = "idle" => quit[q].held = {}
          /\ NoQuit.held = {}
      BY DEF PhasesFollowStages, NoQuit
    <2>. QED
      BY <1>2, <2>1, CompositionStep DEF DrainedBy, Phases, Closes, Drains, Bounded, Lists,
             Kills, Leaves, Keeps, Bound, Killing
  <1>. QED
    BY <1>1, <1>2

LEMMA NewCompositionDrainsNothing ==
    ASSUME TypeOK, PhasesFollowStages, NEW q \in Quits, NEW p \in Projects, NEW r \in Quits,
           QuitShelbi(r) \/ (\E s \in Projects : QuitProject(r, s)),
           DrainedBy(q, p)'
    PROVE  DrainedBy(q, p) /\ quit'[q] = quit[q]
  BY NewComposition DEF DrainedBy

LEMMA DrainedNext ==
    ASSUME TypeOK, PhasesAreCounted, QuittingCancelsEveryJob, LaunchesAreRegistered,
           PhasesFollowStages, DrainedStaysDrained, [Next]_vars
    PROVE  DrainedStaysDrained'
  <1>. DEFINE Stopped(p, l) == launch[l].pc \in {"idle", "gated", "registered"}
                               \/ LaunchProject(l) # p
  <1>. SUFFICES ASSUME NEW q \in Quits, NEW p \in Projects, DrainedBy(q, p)',
                       NEW l \in Launches
                PROVE  Stopped(p, l)'
    BY DEF DrainedStaysDrained
  <1>0. launch \in [Launches -> [pc : LaunchPcs, slot : Slots \cup {None}, by : Requesters]]
    BY DEF TypeOK, LaunchTypeOK
  <1>1. ASSUME NEW m \in Launches, LaunchStep(m) PROVE Stopped(p, l)'
    <2>1. DrainedBy(q, p)
      BY <1>1, LaunchLeavesQuits DEF DrainedBy
    <2>2. Stopped(p, l)
      BY <2>1 DEF DrainedStaysDrained
    <2>3. CASE m # l
      <3>1. launch'[l] = launch[l]
        BY <1>0, <1>1, <2>3, LaunchRegistry DEF Goes
      <3>. QED
        BY <2>2, <3>1 DEF LaunchProject
    <2>4. CASE m = l /\ LaunchProject(l) = p
      <3>1. quits[p] > 0
        BY <2>1, HeldIsQuitting DEF DrainedBy
      <3>2. launch[l].pc = "registered" => IsCancelled(l)
        <4>1. SUFFICES ASSUME launch[l].pc = "registered" PROVE l \in JobsOf(p)
          BY <3>1 DEF QuittingCancelsEveryJob
        <4>. QED
          BY <2>4, <4>1 DEF LaunchesAreRegistered, JobsOf
      <3>3. NoLaunch.pc = "idle"
        BY DEF NoLaunch
      <3>. QED
        BY <1>0, <1>1, <2>2, <2>4, <3>2, <3>3, LaunchRegistry DEF Goes
    <2>5. CASE m = l /\ LaunchProject(l) # p
      <3>1. \/ launch'[l].slot = launch[l].slot
            \/ launch'[l].pc = "idle"
        BY <1>0, <1>1, <2>5, LaunchRegistry DEF Goes, NoLaunch
      <3>. QED
        BY <2>5, <3>1 DEF LaunchProject
    <2>. QED
      BY <2>3, <2>4, <2>5
  <1>2. ASSUME NEW m \in Launches, NEW s \in Slots,
               RequestLaunch(m, s) \/ SupervisorLaunch(m, s)
        PROVE  Stopped(p, l)'
    <2>1. DrainedBy(q, p) /\ Stopped(p, l)
      BY <1>2, OtherRegistry DEF DrainedBy, DrainedStaysDrained
    <2>2. launch'[l].pc = "gated" \/ launch'[l] = launch[l]
      BY <1>0, <1>2, OtherRegistry
    <2>. QED
      BY <2>1, <2>2 DEF LaunchProject
  <1>3. ASSUME NEW r \in Quits, QuitStep(r) PROVE Stopped(p, l)'
    <2>1. UNCHANGED launch
      BY <1>3, QuitRegistry
    <2>2. CASE DrainedBy(q, p)
      BY <2>1, <2>2 DEF DrainedStaysDrained, LaunchProject
    <2>3. CASE Drained(p)
      <3>1. l \notin JobsOf(p) /\ l \in Jobs
        BY <2>3 DEF Drained
      <3>. QED
        BY <2>1, <3>1 DEF JobsOf, LaunchesAreRegistered, LaunchProject
    <2>. QED
      BY <1>3, <2>2, <2>3, DrainedCases
  <1>4. ASSUME NEW r \in Quits, QuitShelbi(r) \/ \E s \in Projects : QuitProject(r, s)
        PROVE  Stopped(p, l)'
    <2>1. DrainedBy(q, p) /\ UNCHANGED launch
      BY <1>4, NewCompositionDrainsNothing, OtherRegistry
    <2>. QED
      BY <2>1 DEF DrainedStaysDrained, LaunchProject
  <1>5. CASE UNCHANGED <<launch, quit>>
    BY <1>5 DEF DrainedStaysDrained, DrainedBy, LaunchProject
  <1>6. CASE UNCHANGED vars
    BY <1>5, <1>6 DEF vars
  <1>. QED
    BY <1>1, <1>2, <1>3, <1>4, <1>5, <1>6, NextCases, OtherRegistry, SupRegistry, MgrRegistry

(* What an empty slot, a user's session or a swept one needs no more.      *)
Cleared(q, s) == session[s].by = "job" => q \in session[s].asked \cup session[s].spared

LEMMA SparedIsCleared ==
    ASSUME TypeOK, NEW q \in Quits, NEW r \in Quits, NEW s \in Slots
    PROVE  /\ session'[s] \in {AskedBy(s, q), SparedBy(s, q)} => Cleared(q, s)'
           /\ session'[s] \in {AskedBy(s, r), SparedBy(s, r)} /\ Cleared(q, s) => Cleared(q, s)'
           /\ session'[s] \in {session[s], NoSession, SessionOf("opener")} /\ Cleared(q, s)
                 => Cleared(q, s)'
  <1>. session[s] \in Session
    BY DEF TypeOK, SlotTypeOK
  <1>. QED
    BY DEF AskedBy, SparedBy, Cleared, Session, NoSession, SessionOf

(* What another composition does to a session. *)
LEMMA OtherSweeps ==
    ASSUME TypeOK, NEW q \in Quits, NEW r \in Quits \ {q}, QuitStep(r), NEW s \in Slots,
           Cleared(q, s)
    PROVE  Cleared(q, s)'
  <1>0. session \in [Slots -> Session] /\ session[s] \in Session
    BY DEF TypeOK, SlotTypeOK
  <1>1. CASE Return(r)
    <2>1. session'[s] = [session[s] EXCEPT !.asked = @ \ {r}, !.spared = @ \ {r}]
      BY <1>1 DEF Return
    <2>. QED
      BY <1>0, <2>1 DEF Cleared, Session
  <1>2. CASE ~Return(r)
    <2>1. session'[s] \in {session[s], AskedBy(s, r), SparedBy(s, r)}
      BY <1>0, <1>2, CompositionStep DEF Lists, Kills, Leaves
    <2>. QED
      BY <2>1, SparedIsCleared
  <1>. QED
    BY <1>1, <1>2

LEMMA SweepNext ==
    ASSUME TypeOK, PhasesFollowStages, DrainedStaysDrained, SweepListIsComplete, [Next]_vars
    PROVE  SweepListIsComplete'
  <1>. DEFINE Listed(q, s) == quit[q].pc = "killing" /\ s \in quit[q].victims
  <1>. SUFFICES ASSUME NEW q \in Quits, NEW p \in Projects, DrainedBy(q, p)',
                       quit'[q].pc \in {"killing", "ending"},
                       NEW s \in Slots, SlotProject[s] = p
                PROVE  Cleared(q, s)' \/ Listed(q, s)'
    BY DEF SweepListIsComplete, Cleared
  <1>0. session \in [Slots -> Session]
    BY DEF TypeOK, SlotTypeOK
  <1>a. DrainedBy(q, p) /\ quit[q].pc \in {"killing", "ending"}
            => Cleared(q, s) \/ Listed(q, s)
    BY DEF SweepListIsComplete, Cleared
  <1>1. ASSUME DrainedBy(q, p), quit'[q] = quit[q],
               session'[s] \in {session[s], NoSession, SessionOf("opener")}
        PROVE  Cleared(q, s)' \/ Listed(q, s)'
    BY <1>a, <1>1, SparedIsCleared
  <1>2. ASSUME NEW m \in Launches, LaunchStep(m) PROVE Cleared(q, s)' \/ Listed(q, s)'
    <2>1. DrainedBy(q, p) /\ quit'[q] = quit[q]
      BY <1>2, LaunchLeavesQuits DEF DrainedBy
    <2>2. session'[s] = session[s]
      <3>1. CASE launch[m].pc = "spawning" /\ launch[m].slot = s
        BY <2>1, <3>1 DEF DrainedStaysDrained, LaunchProject
      <3>. QED
        BY <1>0, <1>2, <3>1, LaunchLeavesQuits
    <2>. QED
      BY <1>1, <2>1, <2>2
  <1>3. ASSUME NEW r \in Quits, QuitStep(r) PROVE Cleared(q, s)' \/ Listed(q, s)'
    <2>1. CASE r # q
      <3>1. quit'[q] = quit[q]
        BY <1>3, <2>1, OneComposition
      <3>2. DrainedBy(q, p)
        BY <3>1 DEF DrainedBy
      <3>3. Cleared(q, s) => Cleared(q, s)'
        BY <1>3, <2>1, OtherSweeps
      <3>. QED
        BY <1>a, <3>1, <3>2, <3>3
    <2>2. CASE r = q
      <3>. DEFINE c == quit[q]
                  d == quit'[q]
      <3>0. NoQuit.pc = "idle" /\ d.pc \in {"killing", "ending"}
            /\ d.drained /\ p \in d.held
        BY DEF NoQuit, DrainedBy
      <3>1. CASE Lists(q, c, d)
        <4>1. PICK unlisted \in SUBSET Alive(q) :
                  /\ c.pc = "listing" /\ Keeps(c, d)
                  /\ d.victims = Alive(q) \ unlisted /\ d.pc = Killing(d.victims)
                  /\ session' = [t \in Slots |-> IF t \in unlisted THEN SparedBy(t, q)
                                                ELSE session[t]]
          BY <3>1 DEF Lists
        <4>2. s \in Owned(q)
          BY <3>0, <4>1 DEF Keeps, PhasesFollowStages, Owned
        <4>3. CASE s \in unlisted
          BY <4>1, <4>3, SparedIsCleared
        <4>4. CASE s \in Alive(q) \ unlisted
          BY <4>1, <4>4 DEF Killing
        <4>5. CASE s \notin Alive(q)
          BY <4>1, <4>2, <4>5 DEF Alive, Running, Cleared
        <4>. QED
          BY <4>3, <4>4, <4>5
      <3>2. CASE Kills(q, c, d)
        <4>1. PICK t \in Slots : /\ c.pc = "killing" /\ Keeps(c, d)
                                /\ d.victims = c.victims \ {t}
                                /\ d.pc = Killing(d.victims)
                                /\ \/ session' = [session EXCEPT ![t] = AskedBy(t, q)]
                                   \/ session' = [session EXCEPT ![t] = SparedBy(t, q)]
          BY <3>2 DEF Kills
        <4>2. DrainedBy(q, p)
          BY <3>0, <4>1 DEF Keeps, DrainedBy
        <4>3. Cleared(q, s) \/ s \in c.victims
          BY <1>a, <4>1, <4>2
        <4>4. CASE s = t
          BY <1>0, <4>1, <4>4, SparedIsCleared
        <4>5. CASE s # t
          <5>1. session'[s] = session[s]
            BY <1>0, <4>1, <4>5
          <5>. QED
            BY <4>1, <4>3, <4>5, <5>1 DEF Killing, Cleared
        <4>. QED
          BY <4>4, <4>5
      <3>3. CASE Leaves(q, c, d)
        <4>1. DrainedBy(q, p) /\ c.pc = "ending" /\ UNCHANGED session
          BY <3>0, <3>3 DEF Leaves, DrainedBy
        <4>2. Cleared(q, s)
          BY <1>a, <4>1
        <4>. QED
          BY <4>1, <4>2 DEF Cleared
      <3>4. ~(\/ Phases(c, d) \/ Closes(c, d) \/ Drains(c, d) \/ Bounded(c, d))
        BY <3>0 DEF Phases, Closes, Drains, Bounded
      <3>. QED
        BY <1>3, <2>2, <3>1, <3>2, <3>3, <3>4, CompositionStep
    <2>. QED
      BY <2>1, <2>2
  <1>4. ASSUME NEW r \in Quits, QuitShelbi(r) \/ \E t \in Projects : QuitProject(r, t)
        PROVE  Cleared(q, s)' \/ Listed(q, s)'
    <2>1. DrainedBy(q, p) /\ quit'[q] = quit[q] /\ session'[s] = session[s]
      BY <1>4, NewCompositionDrainsNothing, OtherRegistry
    <2>. QED
      BY <1>1, <2>1
  <1>5. ASSUME UNCHANGED quit, session'[s] \in {session[s], NoSession, SessionOf("opener")}
        PROVE  Cleared(q, s)' \/ Listed(q, s)'
    BY <1>1, <1>5 DEF DrainedBy
  <1>6. CASE UNCHANGED vars
    BY <1>5, <1>6 DEF vars
  <1>. QED
    BY <1>0, <1>2, <1>3, <1>4, <1>5, <1>6, NextCases, OtherRegistry, SupRegistry, MgrRegistry

-----------------------------------------------------------------------------
LEMMA InitIInv == Init => IInv
  <1>. SUFFICES ASSUME Init PROVE IInv
    OBVIOUS
  <1>1. TypeOK
    BY InitTypes
  <1>2. /\ NoQuit.pc = "idle" /\ NoQuit.held = {} /\ NoQuit.projects = {}
        /\ NoLaunch.pc = "idle"
    BY DEF NoQuit, NoLaunch
  <1>3. PhasesAreCounted
    BY <1>2, FS_EmptySet DEF Init, RegistryInit, PhasesAreCounted
  <1>4. QuittingCancelsEveryJob
    BY DEF Init, RegistryInit, QuittingCancelsEveryJob
  <1>5. LaunchesAreRegistered
    BY <1>2 DEF Init, RegistryInit, LaunchesAreRegistered
  <1>6. PhasesFollowStages /\ DrainedStaysDrained /\ SweepListIsComplete
    BY <1>2 DEF Init, PhasesFollowStages, DrainedStaysDrained, SweepListIsComplete, DrainedBy
  <1>. QED
    BY <1>1, <1>3, <1>4, <1>5, <1>6 DEF IInv

LEMMA NextIInv == IInv /\ [Next]_vars => IInv'
  BY NextTypes, CountedNext, CancelledNext, RegisteredNext, StagesNext, DrainedNext, SweepNext
     DEF IInv

(* The inductive invariant holds throughout. *)
THEOREM Inductive == Spec => []IInv
  BY InitIInv, NextIInv, PTL DEF Spec

(* A job of a project in its quitting phase is cancelled, whenever it was  *)
(* registered and however many quits overlap.                              *)
THEOREM QuittingCancels == Spec => []QuittingCancelsEveryJob
  <1>1. IInv => QuittingCancelsEveryJob
    BY DEF IInv
  <1>. QED
    BY Inductive, <1>1, PTL

(* The phase of a project is held once per composition quitting it.        *)
THEOREM PhasesCounted == Spec => []PhasesAreCounted
  <1>1. IInv => PhasesAreCounted
    BY DEF IInv
  <1>. QED
    BY Inductive, <1>1, PTL

(* Every session a job started was signalled by a drained quit's sweep, or *)
(* is one it logged that it failed on: none slipped in behind the listing. *)
THEOREM DrainedQuit == Spec => []DrainedQuitMissesNoSession
  <1>1. IInv => DrainedQuitMissesNoSession
    BY DEF IInv, DrainedQuitMissesNoSession, Swept, SweepListIsComplete, DrainedBy
  <1>. QED
    BY Inductive, <1>1, PTL
=============================================================================
