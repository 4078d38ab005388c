------------------------- MODULE DaemonDrainProofs -------------------------
(***************************************************************************)
(* DaemonDrain's safety, for any requests.                                 *)
(***************************************************************************)
EXTENDS DaemonDrain, TLAPS

USE DrainAssumption

(* The steps that leave the requests and their jobs alone. *)
DaemonStep ==
    \/ Signal \/ BeginDrain \/ Expire \/ LeaveAcceptLoop \/ FinishDrain
    \/ IdleLooks \/ IdleDecides \/ IdleStops
    \/ ClientStarts \/ Watchdog
    \/ OpenEnsured \/ OpenMarks \/ OpenSpawns

(* Every step is one of these. *)
LEMMA NextCases ==
    ASSUME [Next]_vars
    PROVE  \/ DaemonStep
           \/ Alive /\ Gone
           \/ \E r \in Requests : Send(r) \/ ClientLeaves(r) \/ WriteReply(r) \/ Release(r)
           \/ \E m \in Mutations : ReadFlag(m) \/ Admit(m) \/ Run(m)
           \/ \E q \in Quits : \/ Track(q) \/ EnterQuit(q) \/ CloseProject(q)
                               \/ EndSessions(q) \/ StopDaemon(q)
           \/ UNCHANGED vars
  BY DEF Next, DaemonStep, Killed, Exit, Alive

LEMMA DaemonStepKeepsJobs ==
    ASSUME DaemonStep
    PROVE  UNCHANGED jobs
  BY DEF DaemonStep, Signal, BeginDrain, Expire, LeaveAcceptLoop, FinishDrain,
         IdleLooks, IdleDecides, IdleStops, ClientStarts, Watchdog,
         OpenEnsured, OpenMarks, OpenSpawns

-----------------------------------------------------------------------------
(* Types.                                                                  *)

LEMMA DaemonStepTypes ==
    ASSUME TypeOK, DaemonStep
    PROVE  TypeOK'
  <1>1. UNCHANGED jobs
    BY DaemonStepKeepsJobs
  <1>2. /\ proc' \in {"down", "serving", "draining", "waiting", "closing"}
        /\ stop' \in BOOLEAN /\ expired' \in BOOLEAN
        /\ open' \in BOOLEAN /\ session' \in BOOLEAN
        /\ opener' \in {"away", "ensured", "marked"}
    BY DEF TypeOK, DaemonStep, Signal, BeginDrain, Expire, LeaveAcceptLoop, FinishDrain,
           IdleLooks, IdleDecides, IdleStops, ClientStarts, Watchdog, Starts,
           OpenEnsured, OpenMarks, OpenSpawns, daemon, project
  <1>3. monitor' \in {"watching", "looked", "decided", "over"} /\ relied' \subseteq Quits
    <2>1. CASE IdleLooks \/ IdleDecides \/ IdleStops
      BY <2>1 DEF TypeOK, IdleLooks, IdleDecides, IdleStops, Closing
    <2>2. CASE UNCHANGED idle
      BY <2>2 DEF TypeOK, idle
    <2>. QED
      BY <2>1, <2>2 DEF DaemonStep, Signal, BeginDrain, Expire, LeaveAcceptLoop, FinishDrain,
             ClientStarts, Watchdog, Starts, OpenEnsured, OpenMarks, OpenSpawns, daemon
  <1>. QED
    BY <1>1, <1>2, <1>3 DEF TypeOK, jobs

LEMMA RequestTypes ==
    ASSUME TypeOK, NEW r \in Requests,
           Send(r) \/ ClientLeaves(r) \/ WriteReply(r) \/ Release(r)
    PROVE  TypeOK'
  <1>1. CASE Send(r)
    BY <1>1 DEF TypeOK, Send, Moves, Stages, daemon, idle, project
  <1>2. CASE ClientLeaves(r)
    BY <1>2 DEF TypeOK, ClientLeaves, daemon, idle, project
  <1>3. CASE WriteReply(r)
    BY <1>3 DEF TypeOK, WriteReply, Answer, Stages, daemon, idle, project
  <1>4. CASE Release(r)
    BY <1>4 DEF TypeOK, Release, Moves, Stages, daemon, idle, project
  <1>. QED
    BY <1>1, <1>2, <1>3, <1>4

LEMMA MutationTypes ==
    ASSUME TypeOK, NEW m \in Mutations, ReadFlag(m) \/ Admit(m) \/ Run(m)
    PROVE  TypeOK'
  <1>. m \in Requests
    BY DEF Requests
  <1>1. CASE ReadFlag(m)
    BY <1>1 DEF TypeOK, ReadFlag, Moves, Stages, daemon, idle, project
  <1>2. CASE Admit(m)
    BY <1>2 DEF TypeOK, Admit, Moves, Stages, daemon, idle, project
  <1>3. CASE Run(m)
    BY <1>3 DEF TypeOK, Run, Moves, Carried, Stages, daemon, idle, project
  <1>. QED
    BY <1>1, <1>2, <1>3

LEMMA QuitTypes ==
    ASSUME TypeOK, NEW q \in Quits,
           \/ Track(q) \/ EnterQuit(q) \/ CloseProject(q) \/ EndSessions(q) \/ StopDaemon(q)
    PROVE  TypeOK'
  <1>. q \in Requests
    BY DEF Requests
  <1>1. CASE Track(q)
    BY <1>1 DEF TypeOK, Track, Moves, Stages, QuitStages, daemon, idle, project
  <1>2. CASE EnterQuit(q)
    BY <1>2 DEF TypeOK, EnterQuit, Moves, Stages, QuitStages, daemon, idle, project
  <1>3. CASE CloseProject(q)
    BY <1>3 DEF TypeOK, CloseProject, Moves, Stages, QuitStages, daemon, idle
  <1>4. CASE EndSessions(q)
    <2>1. /\ stopping' \subseteq QuitAlls
          /\ job' \in [Requests -> Stages]
          /\ runs' \in [Requests -> Nat]
      BY <1>4 DEF TypeOK, EndSessions, StopsAfter, Moves, Carried, Stages
    <2>2. session' \in BOOLEAN
      BY <1>4 DEF EndSessions
    <2>. QED
      BY <1>4, <2>1, <2>2 DEF TypeOK, EndSessions, daemon, idle
  <1>5. CASE StopDaemon(q)
    BY <1>5 DEF TypeOK, StopDaemon, idle, project
  <1>. QED
    BY <1>1, <1>2, <1>3, <1>4, <1>5

(* The state stays well typed (control.rs and serve.rs; in particular only *)
(* a quit of everything is ever about to stop the daemon).                 *)
THEOREM TypesKept == Spec => []TypeOK
  <1>1. Init => TypeOK
    <2>. SUFFICES ASSUME Init PROVE TypeOK
      OBVIOUS
    <2>1. /\ job \in [Requests -> Stages]
          /\ client \in [Requests -> {"idle", "sent", "refused", "done", "lost", "gone"}]
          /\ runs \in [Requests -> Nat]
      BY DEF Init, Stages
    <2>2. session \in BOOLEAN /\ open \in BOOLEAN /\ stop \in BOOLEAN /\ expired \in BOOLEAN
      BY Zenon DEF Init
    <2>. QED
      BY <2>1, <2>2 DEF Init, TypeOK
  <1>2. TypeOK /\ [Next]_vars => TypeOK'
    <2>. SUFFICES ASSUME TypeOK, [Next]_vars PROVE TypeOK'
      OBVIOUS
    <2>1. CASE Alive /\ Gone
      BY <2>1 DEF TypeOK, Gone, Stages
    <2>2. CASE UNCHANGED vars
      BY <2>2 DEF TypeOK, vars
    <2>. QED
      BY <2>1, <2>2, NextCases, DaemonStepTypes, RequestTypes, MutationTypes, QuitTypes
  <1>. QED
    BY <1>1, <1>2, PTL DEF Spec

-----------------------------------------------------------------------------
(* Nothing runs twice.  A request that may be sent, or that a daemon is    *)
(* about to run or to refuse, has never been carried out; and while one is *)
(* with the daemon its client waits or is gone, so no copy is sent.        *)

NotYetRun == {"wire", "reading", "barred", "running", "refusing"} \cup QuitStages

RunInv ==
    \A r \in Requests :
        /\ runs[r] <= 1
        /\ job[r] \in NotYetRun => runs[r] = 0
        /\ job[r] = "replying" => runs[r] = 1
        /\ job[r] \in NotYetRun \cup {"replying"} => client[r] \in {"sent", "gone"}
        /\ client[r] \in {"idle", "refused"} => runs[r] = 0

LEMMA RequestRuns ==
    ASSUME TypeOK, RunInv, NEW r \in Requests,
           Send(r) \/ ClientLeaves(r) \/ WriteReply(r) \/ Release(r)
    PROVE  RunInv'
  <1>1. CASE Send(r)
    BY <1>1 DEF TypeOK, RunInv, Send, Sends, Moves
  <1>2. CASE ClientLeaves(r)
    BY <1>2 DEF TypeOK, RunInv, ClientLeaves
  <1>3. CASE WriteReply(r)
    BY <1>3 DEF TypeOK, RunInv, WriteReply, Answer, NotYetRun, QuitStages
  <1>4. CASE Release(r)
    BY <1>4 DEF TypeOK, RunInv, Release, Moves, NotYetRun, QuitStages
  <1>. QED
    BY <1>1, <1>2, <1>3, <1>4

LEMMA JobRuns ==
    ASSUME TypeOK, RunInv,
           \/ \E m \in Mutations : ReadFlag(m) \/ Admit(m) \/ Run(m)
           \/ \E q \in Quits : \/ Track(q) \/ EnterQuit(q) \/ CloseProject(q)
                               \/ EndSessions(q) \/ StopDaemon(q)
    PROVE  RunInv'
  <1>. USE DEF TypeOK, RunInv, Requests, NotYetRun, QuitStages
  <1>1. ASSUME NEW m \in Mutations, ReadFlag(m)
        PROVE  RunInv'
    BY <1>1 DEF ReadFlag, Moves
  <1>2. ASSUME NEW m \in Mutations, Admit(m)
        PROVE  RunInv'
    BY <1>2 DEF Admit, Moves
  <1>3. ASSUME NEW m \in Mutations, Run(m)
        PROVE  RunInv'
    BY <1>3 DEF Run, Moves, Carried
  <1>4. ASSUME NEW q \in Quits, Track(q) \/ EnterQuit(q) \/ CloseProject(q)
        PROVE  RunInv'
    BY <1>4 DEF Track, EnterQuit, CloseProject, Moves
  <1>5. ASSUME NEW q \in Quits, EndSessions(q)
        PROVE  RunInv'
    BY <1>5 DEF EndSessions, Moves, Carried
  <1>6. ASSUME NEW q \in Quits, StopDaemon(q)
        PROVE  RunInv'
    BY <1>6 DEF StopDaemon
  <1>. QED
    BY <1>1, <1>2, <1>3, <1>4, <1>5, <1>6

LEMMA RunInvariant == Spec => []RunInv
  <1>1. Init => RunInv
    BY DEF Init, RunInv, NotYetRun, QuitStages
  <1>2. TypeOK /\ RunInv /\ [Next]_vars => RunInv'
    <2>. SUFFICES ASSUME TypeOK, RunInv, [Next]_vars PROVE RunInv'
      OBVIOUS
    <2>1. CASE DaemonStep
      <3>1. UNCHANGED jobs
        BY <2>1, DaemonStepKeepsJobs
      <3>. QED
        BY <3>1 DEF RunInv, jobs
    <2>2. CASE Alive /\ Gone
      BY <2>2 DEF TypeOK, RunInv, Gone, NotYetRun, QuitStages
    <2>3. CASE UNCHANGED vars
      BY <2>3 DEF RunInv, vars
    <2>. QED
      BY <2>1, <2>2, <2>3, NextCases, RequestRuns, JobRuns
  <1>. QED
    BY <1>1, <1>2, TypesKept, PTL DEF Spec

(* No request is carried out twice, through any drains, crashes, new       *)
(* daemons and resends (shelbi-client, retry_through_drain).               *)
THEOREM NoDoubleRun == Spec => []NothingRunsTwice
  <1>1. RunInv => NothingRunsTwice
    BY DEF RunInv, NothingRunsTwice
  <1>. QED
    BY <1>1, RunInvariant, PTL

-----------------------------------------------------------------------------
(* The answers.  A step of the daemon or of a request's job is a step of   *)
(* RequestPromise for that request, or invisible to its sender.            *)

Told(r, from, to) == client[r] = from /\ client' = [client EXCEPT ![r] = to]

LEMMA Unseen ==
    ASSUME UNCHANGED <<client, runs>>
    PROVE  [Promise!Next]_(Promise!vars)
  BY DEF Promise!vars

LEMMA RequestAnswers ==
    ASSUME TypeOK, RunInv, NEW r \in Requests,
           Send(r) \/ ClientLeaves(r) \/ WriteReply(r) \/ Release(r)
    PROVE  [Promise!Next]_(Promise!vars)
  <1>1. CASE Send(r)
    <2>1. runs[r] = 0 /\ UNCHANGED runs
      BY <1>1 DEF RunInv, Send, Sends
    <2>2. Told(r, "idle", "sent") \/ Told(r, "refused", "sent")
      BY <1>1 DEF Send, Sends, Told
    <2>3. Promise!Ask(r)
      BY <2>1, <2>2 DEF Promise!Ask, Promise!Tells, Told
    <2>. QED
      BY <2>3 DEF Promise!Next
  <1>2. CASE ClientLeaves(r)
    <2>1. Promise!Leave(r)
      BY <1>2 DEF ClientLeaves, Promise!Leave, Promise!Tells
    <2>. QED
      BY <2>1 DEF Promise!Next
  <1>3. CASE WriteReply(r)
    <2>1. CASE client[r] # "sent"
      <3>1. UNCHANGED <<client, runs>>
        BY <1>3, <2>1 DEF WriteReply
      <3>. QED
        BY <3>1, Unseen
    <2>2. CASE client[r] = "sent" /\ job[r] = "refusing"
      <3>1. runs[r] = 0
        BY <2>2 DEF RunInv, NotYetRun
      <3>2. Told(r, "sent", "refused") /\ UNCHANGED runs
        BY <1>3, <2>2 DEF WriteReply, Answer, Told
      <3>3. Promise!Refuse(r)
        BY <3>1, <3>2 DEF Promise!Refuse, Promise!Tells, Told
      <3>. QED
        BY <3>3 DEF Promise!Next
    <2>3. CASE client[r] = "sent" /\ job[r] = "replying"
      <3>1. runs[r] = 1
        BY <2>3 DEF RunInv
      <3>2. Told(r, "sent", "done") /\ UNCHANGED runs
        BY <1>3, <2>3 DEF WriteReply, Answer, Told
      <3>3. Promise!Confirm(r)
        BY <3>1, <3>2 DEF Promise!Confirm, Promise!Tells, Told
      <3>. QED
        BY <3>3 DEF Promise!Next
    <2>. QED
      BY <1>3, <2>1, <2>2, <2>3 DEF WriteReply
  <1>4. CASE Release(r)
    BY <1>4, Unseen DEF Release
  <1>. QED
    BY <1>1, <1>2, <1>3, <1>4

LEMMA CarriedOnce ==
    ASSUME TypeOK, RunInv, NEW r \in Requests,
           job[r] \in NotYetRun, Carried(r), UNCHANGED client
    PROVE  [Promise!Next]_(Promise!vars)
  <1>1. runs[r] = 0 /\ client[r] \in {"sent", "gone"}
    BY DEF RunInv
  <1>2. runs' = [runs EXCEPT ![r] = 1]
    BY <1>1 DEF Carried
  <1>3. Promise!Carry(r)
    BY <1>1, <1>2 DEF Promise!Carry
  <1>. QED
    BY <1>3 DEF Promise!Next

LEMMA JobAnswers ==
    ASSUME TypeOK, RunInv,
           \/ \E m \in Mutations : ReadFlag(m) \/ Admit(m) \/ Run(m)
           \/ \E q \in Quits : \/ Track(q) \/ EnterQuit(q) \/ CloseProject(q)
                               \/ EndSessions(q) \/ StopDaemon(q)
    PROVE  [Promise!Next]_(Promise!vars)
  <1>1. ASSUME NEW m \in Mutations, ReadFlag(m) \/ Admit(m)
        PROVE  UNCHANGED <<client, runs>>
    BY <1>1 DEF ReadFlag, Admit
  <1>2. ASSUME NEW q \in Quits, \/ Track(q) \/ EnterQuit(q) \/ CloseProject(q)
                                 \/ StopDaemon(q)
        PROVE  UNCHANGED <<client, runs>>
    BY <1>2 DEF Track, EnterQuit, CloseProject, StopDaemon
  <1>3. ASSUME NEW m \in Mutations, Run(m)
        PROVE  [Promise!Next]_(Promise!vars)
    <2>1. m \in Requests /\ job[m] \in NotYetRun /\ Carried(m) /\ UNCHANGED client
      BY <1>3 DEF Run, Moves, NotYetRun, Requests
    <2>. QED
      BY <2>1, CarriedOnce
  <1>4. ASSUME NEW q \in Quits, EndSessions(q)
        PROVE  [Promise!Next]_(Promise!vars)
    <2>1. q \in Requests /\ job[q] \in NotYetRun /\ Carried(q) /\ UNCHANGED client
      BY <1>4 DEF EndSessions, Moves, NotYetRun, QuitStages, Requests
    <2>. QED
      BY <2>1, CarriedOnce
  <1>. QED
    BY <1>1, <1>2, <1>3, <1>4, Unseen

(* The daemon and its clients implement RequestPromise: a request is       *)
(* carried out at most once, and whoever hears of it is told what happened *)
(* (control.rs, admit and spawn_job; shelbi-client, retry_through_drain).  *)
THEOREM PromiseIsKept == Spec => AnswersAreHonest
  <1>1. Init => Promise!Init
    BY DEF Init, Promise!Init
  <1>2. TypeOK /\ RunInv /\ [Next]_vars => [Promise!Next]_(Promise!vars)
    <2>. SUFFICES ASSUME TypeOK, RunInv, [Next]_vars
                  PROVE  [Promise!Next]_(Promise!vars)
      OBVIOUS
    <2>1. CASE DaemonStep
      BY <2>1, DaemonStepKeepsJobs, Unseen DEF jobs
    <2>2. CASE Alive /\ Gone
      <3>1. Promise!LoseAll
        BY <2>2 DEF Gone, Promise!LoseAll
      <3>. QED
        BY <3>1 DEF Promise!Next
    <2>3. CASE UNCHANGED vars
      BY <2>3, Unseen DEF vars
    <2>. QED
      BY <2>1, <2>2, <2>3, NextCases, RequestAnswers, JobAnswers
  <1>. QED
    BY <1>1, <1>2, TypesKept, RunInvariant, PTL DEF Spec, AnswersAreHonest, Promise!Spec

-----------------------------------------------------------------------------
(* No admitted job slips past the drain.  A drain begins after the flag is *)
(* set; whoever read the flag before is inside admit, holding the lock the *)
(* drain needs, or counted; so once the drain has seen nothing counted,    *)
(* every later reader is barred.                                           *)

Admitted == {"running", "replying"}

GateInv ==
    /\ proc \in {"draining", "waiting", "closing"} => stop
    /\ \A m \in Mutations :
        /\ job[m] = "reading" => lock = m
        /\ job[m] \in Admitted => m \in counted
    /\ proc = "closing" /\ ~expired =>
        \A m \in Mutations : job[m] \notin Admitted \cup {"reading"}

LEMMA DaemonStepGate ==
    ASSUME TypeOK, GateInv, DaemonStep
    PROVE  GateInv'
  <1>1. UNCHANGED jobs
    BY DaemonStepKeepsJobs
  <1>2. CASE FinishDrain
    <2>1. lock = None /\ (counted = {} \/ expired)
      BY <1>2 DEF FinishDrain, JobsDone
    <2>2. ASSUME ~expired
          PROVE  \A m \in Mutations : job[m] \notin Admitted \cup {"reading"}
      BY <2>1, <2>2 DEF GateInv, Requests
    <2>. QED
      BY <1>1, <1>2, <2>2 DEF GateInv, FinishDrain, jobs
  <1>3. CASE Signal \/ BeginDrain \/ Expire \/ LeaveAcceptLoop
    BY <1>1, <1>3 DEF GateInv, TypeOK, Signal, BeginDrain, Expire, DeadlinePasses,
                      LeaveAcceptLoop, jobs
  <1>4. CASE IdleLooks \/ IdleDecides \/ IdleStops
    BY <1>1, <1>4 DEF GateInv, TypeOK, IdleLooks, IdleDecides, IdleStops, jobs
  <1>5. CASE ClientStarts \/ Watchdog \/ OpenEnsured \/ OpenMarks \/ OpenSpawns
    BY <1>1, <1>5 DEF GateInv, ClientStarts, Watchdog, Starts, OpenEnsured, OpenMarks,
                      OpenSpawns, daemon, jobs
  <1>. QED
    BY <1>2, <1>3, <1>4, <1>5 DEF DaemonStep

LEMMA RequestGate ==
    ASSUME TypeOK, GateInv, NEW r \in Requests,
           Send(r) \/ ClientLeaves(r) \/ WriteReply(r) \/ Release(r)
    PROVE  GateInv'
  <1>. USE DEF TypeOK, GateInv, Requests, Admitted
  <1>1. CASE Send(r)
    BY <1>1 DEF Send, Moves, daemon
  <1>2. CASE ClientLeaves(r)
    BY <1>2 DEF ClientLeaves, daemon
  <1>3. CASE WriteReply(r)
    BY <1>3 DEF WriteReply, daemon
  <1>4. CASE Release(r)
    BY <1>4 DEF Release, Moves, daemon
  <1>. QED
    BY <1>1, <1>2, <1>3, <1>4

LEMMA JobGate ==
    ASSUME TypeOK, GateInv,
           \/ \E m \in Mutations : ReadFlag(m) \/ Admit(m) \/ Run(m)
           \/ \E q \in Quits : \/ Track(q) \/ EnterQuit(q) \/ CloseProject(q)
                               \/ EndSessions(q) \/ StopDaemon(q)
    PROVE  GateInv'
  <1>. USE DEF TypeOK, GateInv, Requests, Admitted
  <1>1. ASSUME NEW m \in Mutations, ReadFlag(m)
        PROVE  GateInv'
    <2>1. proc = "closing" => stop
      OBVIOUS
    <2>. QED
      BY <1>1, <2>1 DEF ReadFlag, Moves, daemon
  <1>2. ASSUME NEW m \in Mutations, Admit(m)
        PROVE  GateInv'
    BY <1>2 DEF Admit, Moves, daemon
  <1>3. ASSUME NEW m \in Mutations, Run(m)
        PROVE  GateInv'
    BY <1>3 DEF Run, Moves, daemon
  <1>4. ASSUME NEW q \in Quits, Track(q) \/ EnterQuit(q)
        PROVE  GateInv'
    BY <1>4 DEF Track, EnterQuit, Moves, daemon
  <1>5. ASSUME NEW q \in Quits, CloseProject(q) \/ EndSessions(q)
        PROVE  GateInv'
    BY <1>5 DEF CloseProject, EndSessions, Moves, daemon
  <1>6. ASSUME NEW q \in Quits, StopDaemon(q)
        PROVE  GateInv'
    BY <1>6 DEF StopDaemon
  <1>. QED
    BY <1>1, <1>2, <1>3, <1>4, <1>5, <1>6

LEMMA GateInvariant == Spec => []GateInv
  <1>1. Init => GateInv
    BY DEF Init, GateInv, Admitted, Requests
  <1>2. TypeOK /\ GateInv /\ [Next]_vars => GateInv'
    <2>. SUFFICES ASSUME TypeOK, GateInv, [Next]_vars PROVE GateInv'
      OBVIOUS
    <2>1. CASE Alive /\ Gone
      BY <2>1 DEF Gone, GateInv, Admitted, Requests
    <2>2. CASE UNCHANGED vars
      BY <2>2 DEF GateInv, vars
    <2>. QED
      BY <2>1, <2>2, NextCases, DaemonStepGate, RequestGate, JobGate
  <1>. QED
    BY <1>1, <1>2, TypesKept, PTL DEF Spec

(* A drain that ends in time leaves no admitted mutation unfinished or     *)
(* unanswered (control.rs, ControlJobs: no job can slip past both).        *)
THEOREM DrainWaits == Spec => AcceptedWorkFinishes
  <1>1. GateInv => (proc = "closing" /\ proc' = "down" /\ ~expired =>
                        \A m \in Mutations : job[m] \notin {"running", "replying"})
    BY DEF GateInv, Admitted
  <1>. QED
    BY <1>1, GateInvariant, PTL DEF AcceptedWorkFinishes

-----------------------------------------------------------------------------
(* The quits the monitor's reads relied on are over when it stops.  One    *)
(* that had closed the project at the first read is still closing or has   *)
(* been carried out; the second read rules the former out; and what has    *)
(* been carried out stays so.                                              *)

IdleInv ==
    /\ monitor = "looked" => \A q \in relied : job[q] = "closed" \/ runs[q] > 0
    /\ monitor = "decided" => \A q \in relied : runs[q] > 0

LEMMA DaemonStepIdle ==
    ASSUME TypeOK, IdleInv, DaemonStep
    PROVE  IdleInv'
  <1>1. UNCHANGED <<job, runs>>
    BY DaemonStepKeepsJobs DEF jobs
  <1>2. CASE IdleLooks
    BY <1>1, <1>2 DEF IdleInv, IdleLooks, Closing
  <1>3. CASE IdleDecides
    <2>1. CASE IdleRead(2) /\ monitor' = "decided" /\ relied' = relied \cup Closing
      <3>1. \A q \in Quits : job[q] # "closed"
        BY <2>1 DEF IdleRead, QuitsInFlight
      <3>. QED
        BY <1>1, <1>3, <2>1, <3>1 DEF TypeOK, IdleInv, IdleDecides, Closing
    <2>2. CASE monitor' = "watching"
      BY <2>2 DEF IdleInv
    <2>. QED
      BY <1>3, <2>1, <2>2 DEF IdleDecides
  <1>4. CASE IdleStops
    BY <1>4 DEF IdleInv, IdleStops
  <1>5. CASE /\ DaemonStep
             /\ ~IdleLooks /\ ~IdleDecides /\ ~IdleStops
    <2>1. UNCHANGED idle
      BY <1>5 DEF DaemonStep, Signal, BeginDrain, Expire, LeaveAcceptLoop, FinishDrain,
                  ClientStarts, Watchdog, Starts, OpenEnsured, OpenMarks, OpenSpawns, daemon
    <2>. QED
      BY <1>1, <2>1 DEF IdleInv, idle
  <1>. QED
    BY <1>2, <1>3, <1>4, <1>5

(* No request's step but the second half of a quit takes it out of         *)
(* "closed", and that one carries it out.                                  *)
LEMMA RequestStepIdle ==
    ASSUME TypeOK, IdleInv,
           \/ \E r \in Requests : Send(r) \/ ClientLeaves(r) \/ WriteReply(r) \/ Release(r)
           \/ \E m \in Mutations : ReadFlag(m) \/ Admit(m) \/ Run(m)
           \/ \E q \in Quits : \/ Track(q) \/ EnterQuit(q) \/ CloseProject(q)
                               \/ EndSessions(q) \/ StopDaemon(q)
    PROVE  IdleInv'
  <1>1. UNCHANGED idle
    BY DEF Send, ClientLeaves, WriteReply, Release, ReadFlag, Admit, Run, Track, EnterQuit,
           CloseProject, EndSessions, StopDaemon, daemon
  <1>2. \A q \in Quits : runs[q] > 0 => runs'[q] > 0
    BY DEF TypeOK, Requests, Send, ClientLeaves, WriteReply, Release, ReadFlag, Admit, Run,
           Track, EnterQuit, CloseProject, EndSessions, StopDaemon, Carried
  <1>3. \A q \in Quits : job[q] = "closed" => job'[q] = "closed" \/ runs'[q] > 0
    BY DEF TypeOK, Requests, Send, ClientLeaves, WriteReply, Release, ReadFlag, Admit, Run,
           Track, EnterQuit, CloseProject, EndSessions, StopDaemon, Carried, Moves
  <1>. QED
    BY <1>1, <1>2, <1>3 DEF TypeOK, IdleInv, idle

LEMMA IdleInvariant == Spec => []IdleInv
  <1>1. Init => IdleInv
    BY DEF Init, IdleInv
  <1>2. TypeOK /\ IdleInv /\ [Next]_vars => IdleInv'
    <2>. SUFFICES ASSUME TypeOK, IdleInv, [Next]_vars PROVE IdleInv'
      OBVIOUS
    <2>1. CASE Alive /\ Gone
      BY <2>1 DEF Gone, IdleInv
    <2>2. CASE UNCHANGED vars
      BY <2>2 DEF IdleInv, vars
    <2>. QED
      BY <2>1, <2>2, NextCases, DaemonStepIdle, RequestStepIdle
  <1>. QED
    BY <1>1, <1>2, TypesKept, PTL DEF Spec

(* An idle exit comes after the quits whose close made the project look    *)
(* idle: when the monitor stops the daemon, each of them has ended its     *)
(* sessions, for any number of quits (serve.rs, daemon_is_idle).           *)
THEOREM IdleExitWaitsForQuits == Spec => IdleExitSparesQuits
  <1>1. IdleInv => (monitor = "decided" /\ monitor' = "over" =>
                        \A q \in relied : runs[q] > 0)
    BY DEF IdleInv
  <1>. QED
    BY <1>1, IdleInvariant, PTL DEF IdleExitSparesQuits
=============================================================================
