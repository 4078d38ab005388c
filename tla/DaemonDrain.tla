---------------------------- MODULE DaemonDrain ----------------------------
(***************************************************************************)
(* The life of the hub daemon (crates/shelbi-cli/src/commands/daemon):     *)
(* control jobs and the gate that refuses them once a stop has begun       *)
(* (control.rs), the shutdown drain and the idle monitor (serve.rs), the   *)
(* clients that ride out a drain (shelbi-client, control.rs), and the      *)
(* sessions' watchdog that starts a daemon for an open project             *)
(* (shelbi-session, daemon_watchdog.rs).                                   *)
(*                                                                         *)
(* One project is enough: only whether any is open matters here.  Quits    *)
(* are reduced to the steps the daemon's life depends on; ProjectQuit has  *)
(* the rest, the sessions a quit's sweep may leave behind among it.        *)
(***************************************************************************)
EXTENDS Naturals

CONSTANTS Mutations,  \* requests admit() takes: mutations, writes, sessions
          Quits,      \* requests to quit, which run during a drain too
          QuitAlls,   \* the quits that stop the daemon in the end
          None        \* no request

Requests == Mutations \cup Quits

ASSUME DrainAssumption ==
    /\ Mutations \cap Quits = {}
    /\ QuitAlls \subseteq Quits
    /\ None \notin Requests

VARIABLES proc,     \* the daemon process and where its main thread is
          stop,     \* the shared stop flag
          expired,  \* the drain's deadline has passed
          lock,     \* who is inside admit, holding the lock of `running`
          counted,  \* ControlJobs.running
          job,      \* job[r]: where r's handler or job thread is
          stopping, \* quits of everything about to call stop_daemon
          monitor,  \* the idle monitor
          relied,   \* history: quits that had closed the project, and not yet
                    \* ended its sessions, when the monitor read
          client,   \* client[r]: what r's client knows
          runs,     \* runs[r]: how often r has been carried out
          open,     \* the project's open flag
          session,  \* some session of the project runs
          opener    \* a client opening the project

vars == <<proc, stop, expired, lock, counted, job, stopping, monitor, relied,
          client, runs, open, session, opener>>

idle == <<monitor, relied>>
daemon == <<proc, stop, expired, idle>>
jobs == <<lock, counted, job, stopping, client, runs>>
project == <<open, session, opener>>

QuitStages == {"tracked", "entered", "closed"}
Stages == {"none", "wire", "reading", "barred", "running", "refusing", "replying", "flushed"}
            \cup QuitStages

TypeOK ==
    /\ proc \in {"down", "serving", "draining", "waiting", "closing"}
    /\ stop \in BOOLEAN /\ expired \in BOOLEAN
    /\ lock \in Mutations \cup {None}
    /\ counted \subseteq Requests
    /\ job \in [Requests -> Stages]
    /\ stopping \subseteq QuitAlls
    /\ monitor \in {"watching", "looked", "decided", "over"} /\ relied \subseteq Quits
    /\ client \in [Requests -> {"idle", "sent", "refused", "done", "lost", "gone"}]
    /\ runs \in [Requests -> Nat]
    /\ open \in BOOLEAN /\ session \in BOOLEAN
    /\ opener \in {"away", "ensured", "marked"}

Init ==
    /\ proc = "down" /\ stop = FALSE /\ expired = FALSE
    /\ lock = None /\ counted = {}
    /\ job = [r \in Requests |-> "none"]
    /\ stopping = {}
    /\ monitor = "watching" /\ relied = {}
    /\ client = [r \in Requests |-> "idle"]
    /\ runs = [r \in Requests |-> 0]
    /\ open \in BOOLEAN /\ session = open /\ opener = "away"

-----------------------------------------------------------------------------
(* The process. *)

Alive == proc # "down"

(* The control socket listens until the drain is over. *)
Listening == proc \in {"serving", "draining", "waiting"}

(* ensure_daemon_running; the bind lock makes it at most one. *)
Starts ==
    /\ proc = "down"
    /\ proc' = "serving"
    /\ UNCHANGED <<stop, expired, idle>>

(* Nothing of the process survives; a client waiting on it reads EOF. *)
Gone ==
    /\ proc' = "down" /\ stop' = FALSE /\ expired' = FALSE
    /\ lock' = None /\ counted' = {} /\ stopping' = {}
    /\ job' = [r \in Requests |-> "none"]
    /\ monitor' = "watching" /\ relied' = {}
    /\ client' = [r \in Requests |-> IF client[r] = "sent" THEN "lost" ELSE client[r]]
    /\ UNCHANGED <<runs, open, session, opener>>

(* Crash, a second signal, or the SIGKILL of an impatient stop_daemon. *)
Killed == Alive /\ Gone

(* SIGTERM, SIGINT, SIGHUP. *)
Signal ==
    /\ Alive
    /\ stop' = TRUE
    /\ UNCHANGED <<proc, expired, idle, jobs, project>>

(* serve: the accept loop notices the flag, ... *)
BeginDrain ==
    /\ proc = "serving" /\ stop
    /\ proc' = "draining"
    /\ UNCHANGED <<stop, expired, idle, jobs, project>>

DeadlinePasses_Never == FALSE
DeadlinePasses == proc \in {"draining", "waiting"}

Expire ==
    /\ DeadlinePasses
    /\ expired' = TRUE
    /\ UNCHANGED <<proc, stop, idle, jobs, project>>

(* ... goes on accepting until the jobs are done or out of time, ... *)
JobsDone_Unlocked == counted = {} \/ expired
JobsDone == lock = None /\ (counted = {} \/ expired)

LeaveAcceptLoop ==
    /\ proc = "draining" /\ JobsDone
    /\ proc' = "waiting"
    /\ UNCHANGED <<stop, expired, idle, jobs, project>>

(* ... looks again beside the connections of the hub socket, ... *)
FinishDrain ==
    /\ proc = "waiting" /\ JobsDone
    /\ proc' = "closing"
    /\ UNCHANGED <<stop, expired, idle, jobs, project>>

(* ... and returns, which ends the process. *)
Exit == proc = "closing" /\ Gone

-----------------------------------------------------------------------------
(* The idle monitor: nothing open, then no quit in flight. *)

QuitsInFlight == {q \in Quits : job[q] \in {"entered", "closed"}}

IdleRead_Swapped(k) == IF k = 1 THEN QuitsInFlight = {} ELSE ~open
IdleRead(k) == IF k = 1 THEN ~open ELSE QuitsInFlight = {}

Closing == {q \in Quits : job[q] = "closed"}

IdleLooks ==
    /\ Alive /\ ~stop
    /\ monitor = "watching" /\ IdleRead(1)
    /\ monitor' = "looked" /\ relied' = Closing
    /\ UNCHANGED <<proc, stop, expired, jobs, project>>

IdleDecides ==
    /\ monitor = "looked"
    /\ \/ IdleRead(2) /\ monitor' = "decided" /\ relied' = relied \cup Closing
       \/ ~IdleRead(2) /\ monitor' = "watching" /\ relied' = {}
    /\ UNCHANGED <<proc, stop, expired, jobs, project>>

IdleStops ==
    /\ monitor = "decided" /\ monitor' = "over"
    /\ stop' = TRUE
    /\ UNCHANGED <<proc, expired, relied, jobs, project>>

-----------------------------------------------------------------------------
(* A request and its job. *)

Moves(r, from, to) == job[r] = from /\ job' = [job EXCEPT ![r] = to]

(* What a client (re)sends: a first try, or one the daemon refused. *)
Sends_LostToo(r) == client[r] \in {"idle", "refused", "lost"}
Sends(r) == client[r] = "idle" \/ (r \in Mutations /\ client[r] = "refused")

Send(r) ==
    /\ Listening
    /\ Sends(r)
    /\ Moves(r, "none", "wire")
    /\ client' = [client EXCEPT ![r] = "sent"]
    /\ UNCHANGED <<lock, counted, stopping, runs, daemon, project>>

(* The client's process ends; its request does not. *)
ClientLeaves(r) ==
    /\ client[r] = "sent"
    /\ client' = [client EXCEPT ![r] = "gone"]
    /\ UNCHANGED <<lock, counted, job, stopping, runs, daemon, project>>

(* admit: the flag is read under the lock, ... *)
ReadFlag(r) ==
    /\ lock = None
    /\ Moves(r, "wire", IF stop THEN "barred" ELSE "reading")
    /\ lock' = r
    /\ UNCHANGED <<counted, stopping, client, runs, daemon, project>>

(* ... and the job counted under it, run or refused. *)
Admit(r) ==
    /\ lock = r
    /\ \/ Moves(r, "reading", "running")
       \/ Moves(r, "barred", "refusing")
    /\ counted' = counted \cup {r}
    /\ lock' = None
    /\ UNCHANGED <<stopping, client, runs, daemon, project>>

Carried(r) == runs' = [runs EXCEPT ![r] = @ + 1]

Run(r) ==
    /\ Moves(r, "running", "replying")
    /\ Carried(r)
    /\ UNCHANGED <<lock, counted, stopping, client, daemon, project>>

(* The reply says what happened to the job, not what the flag says by now. *)
Answer_ByFlag(r) == IF stop THEN "refused" ELSE "done"
Answer(r) == IF job[r] = "refusing" THEN "refused" ELSE "done"

(* The writer thread writes the reply, then drops the guard queued behind. *)
WriteReply(r) ==
    /\ job[r] \in {"replying", "refusing"}
    /\ job' = [job EXCEPT ![r] = "flushed"]
    /\ client' = IF client[r] # "sent" THEN client
                 ELSE [client EXCEPT ![r] = Answer(r)]
    /\ UNCHANGED <<lock, counted, stopping, runs, daemon, project>>

Release(r) ==
    /\ lock = None
    /\ counted' = counted \ {r}
    /\ Moves(r, "flushed", "none")
    /\ UNCHANGED <<lock, stopping, client, runs, daemon, project>>

-----------------------------------------------------------------------------
(* A quit: counted by track, which asks nothing, then the composition. *)

Track_Locked(q) ==
    /\ lock = None
    /\ Moves(q, "wire", "tracked")
    /\ lock' = q /\ counted' = counted \cup {q}
    /\ UNCHANGED <<stopping, client, runs, daemon, project>>

Track(q) ==
    /\ lock = None
    /\ Moves(q, "wire", "tracked")
    /\ counted' = counted \cup {q}
    /\ UNCHANGED <<lock, stopping, client, runs, daemon, project>>

EnterQuit(q) ==
    /\ Moves(q, "tracked", "entered")
    /\ UNCHANGED <<lock, counted, stopping, client, runs, daemon, project>>

CloseProject(q) ==
    /\ Moves(q, "entered", "closed")
    /\ open' = FALSE
    /\ UNCHANGED <<lock, counted, stopping, client, runs, daemon, session, opener>>

StopsAfter(q) == {q} \cap QuitAlls

EndSessions(q) ==
    /\ Moves(q, "closed", "replying")
    /\ session' = FALSE
    /\ Carried(q)
    /\ stopping' = stopping \cup StopsAfter(q)
    /\ UNCHANGED <<lock, counted, client, daemon, open, opener>>

(* stop_daemon, once the reply is queued. *)
StopDaemon(q) ==
    /\ q \in stopping
    /\ stopping' = stopping \ {q}
    /\ stop' = TRUE
    /\ UNCHANGED <<proc, expired, idle, lock, counted, job, client, runs, project>>

-----------------------------------------------------------------------------
(* Around the daemon. *)

(* A client about to send a mutation, or to open the project, starts one. *)
ClientStarts ==
    /\ \/ \E m \in Mutations : Sends(m)
       \/ opener = "away"
    /\ Starts
    /\ UNCHANGED <<jobs, project>>

ShouldStart_Never == FALSE
ShouldStart == proc = "down" /\ open

Watchdog ==
    /\ session /\ ShouldStart
    /\ Starts
    /\ UNCHANGED <<jobs, project>>

(* Opening: a daemon that answers, the open flag, the session. *)
OpenEnsured ==
    /\ proc \in {"serving", "draining"}
    /\ opener = "away" /\ opener' = "ensured"
    /\ UNCHANGED <<daemon, jobs, open, session>>

OpenMarks ==
    /\ opener = "ensured" /\ opener' = "marked"
    /\ open' = TRUE
    /\ UNCHANGED <<daemon, jobs, session>>

OpenSpawns ==
    /\ opener = "marked" /\ opener' = "away"
    /\ session' = TRUE
    /\ UNCHANGED <<daemon, jobs, open>>

Next ==
    \/ Signal \/ BeginDrain \/ Expire
    \/ LeaveAcceptLoop \/ FinishDrain \/ Exit \/ Killed
    \/ IdleLooks \/ IdleDecides \/ IdleStops
    \/ \E r \in Requests : Send(r) \/ ClientLeaves(r) \/ WriteReply(r) \/ Release(r)
    \/ \E m \in Mutations : ReadFlag(m) \/ Admit(m) \/ Run(m)
    \/ \E q \in Quits : \/ Track(q) \/ EnterQuit(q) \/ CloseProject(q)
                        \/ EndSessions(q) \/ StopDaemon(q)
    \/ ClientStarts \/ Watchdog
    \/ OpenEnsured \/ OpenMarks \/ OpenSpawns

Spec == Init /\ [][Next]_vars

(* The main thread runs, and finds the lock of `running` free in between   *)
(* admissions that each hold it for an insertion; the deadline comes; a    *)
(* session's watchdog ticks.  A job may hang.                              *)
FairSpec ==
    /\ Spec
    /\ WF_vars(BeginDrain) /\ WF_vars(Expire)
    /\ SF_vars(LeaveAcceptLoop) /\ SF_vars(FinishDrain) /\ WF_vars(Exit)
    /\ \A m \in Mutations : WF_vars(Admit(m))
    /\ WF_vars(Watchdog)

-----------------------------------------------------------------------------
(* Properties. *)

(* A daemon that shuts down in time leaves no admitted job unfinished, nor *)
(* its reply unwritten, however the stop falls between admit's read of the *)
(* flag and its insertion (control.rs, ControlJobs: no job can slip past   *)
(* both; Outgoing::Flushed: it has told its client).                       *)
AcceptedWorkFinishes ==
    [][proc = "closing" /\ proc' = "down" /\ ~expired =>
           \A m \in Mutations : job[m] \notin {"running", "replying"}]_vars

(* Resending through drains, crashes and new daemons never carries one     *)
(* request out twice (shelbi-client, retry_through_drain: only the refusal *)
(* promises the request didn't run).                                       *)
NothingRunsTwice == \A r \in Requests : runs[r] <= 1

(* What a client is told of its request is what happened to it, and a      *)
(* request it has lost sight of is left alone, through drains, crashes and *)
(* resends: the daemon and its clients implement RequestPromise            *)
(* (control.rs, spawn_job and admit; shelbi-client, retry_through_drain).  *)
Promise == INSTANCE RequestPromise WITH told <- client

AnswersAreHonest == Promise!Spec

(* When the idle monitor stops the daemon, every quit whose close it had   *)
(* before it when it found nothing open has been carried out: its sessions *)
(* were swept by the daemon that owned them.  A quit that comes after the  *)
(* reads is the drain's to wait for (serve.rs, daemon_is_idle and          *)
(* spawn_idle_monitor; quit.rs, the order quit_in_flight is safe in).      *)
IdleExitSparesQuits ==
    [][monitor = "decided" /\ monitor' = "over" => \A q \in relied : runs[q] > 0]_vars

(* An open project that has a session gets a daemon that is not on its way *)
(* out, whatever is taking the last one: an idle exit that raced the open, *)
(* a quit of everything acknowledged just before it, a drain behind a job  *)
(* that hangs, a crash (daemon_watchdog.rs, tick).                         *)
OpenProjectHasDaemon ==
    (open /\ session) ~> (proc = "serving" /\ ~stop) \/ ~open \/ ~session

(* A stopping daemon goes away even with a job that hangs                  *)
(* (serve.rs, serve: up to job_drain).                                     *)
StoppedDaemonExits == stop ~> proc = "down"
=============================================================================
