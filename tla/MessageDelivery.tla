-------------------------- MODULE MessageDelivery --------------------------
(***************************************************************************)
(* Messages to the worker of one issue: `shelbi message`, which refuses    *)
(* what nobody would read and queues the rest on the issue's message log   *)
(* (shelbi-cli, message.rs); the hooks of the worker's session, or the     *)
(* polling its prompt asks for, that read the log and confirm              *)
(* (shelbi-orchestrator, workspace.rs); the daemon's timer for what is not *)
(* confirmed (shelbi-cli, daemon/serve.rs); and the answer `message        *)
(* status` derives from the event log (shelbi-state, event_log.rs).        *)
(***************************************************************************)
EXTENDS Integers, Sequences, FiniteSets

CONSTANTS
    Tracked,       \* messages sent by `shelbi message`, a process each
    Directives,    \* nudges the poller pushes, which nobody waits for
    Channels,      \* message channels of the runners in use
    DispatchBound, \* bound: launches of the worker
    FaultBound,    \* bound: sessions, hooks and daemons that die
    None

Messages == Tracked \cup Directives

ASSUME ChannelAssumption == Channels \subseteq {"hooks", "polling"}
ASSUME MessageAssumption == Tracked \cap Directives = {} /\ IsFiniteSet(Messages)
ASSUME NoneAssumption == None \notin Nat /\ None \notin Channels
ASSUME BoundAssumption == DispatchBound \in Nat /\ FaultBound \in Nat

VARIABLES
    sender,     \* sender[m]: how far the process that sends m is
    log,        \* <task>.log
    cursor,     \* <task>.cursor: the number of the next unread line
    beacon,     \* <task>.session, as far as `shelbi message` can tell
    launch,     \* channel of a dispatch about to replace the session
    runner,     \* channel of the session there is
    session,    \* the worker's session
    drain,      \* the Stop hook, or the agent's poll, under way
    printed,    \* messages that reached the agent's context
    hub,        \* whether the daemon is up
    pending,    \* the daemon's unconfirmed messages
    jobs,       \* connections and reaper of the daemon, and what each is about to do
    record,     \* record[m]: lines of m in the event log
    dispatches,
    faults

workerVars == <<cursor, beacon, launch, runner, session, drain, printed, dispatches>>
hubVars == <<hub, pending, jobs>>
vars == <<sender, log, workerVars, hubVars, record, faults>>

Stages == {"idle", "accepted", "appended", "pushed", "refused", "over"}
Jobs == [does : {"arm", "ack", "worker", "timeout"}, msg : Messages]
Drain == [step : {"counted", "polled", "acking"}, next : Nat, total : Nat]

Init ==
    /\ sender = [m \in Messages |-> "idle"]
    /\ log = <<>> /\ cursor = None /\ beacon = "none"
    /\ launch = None /\ runner = None /\ session = "none" /\ drain = None
    /\ printed = {} /\ dispatches = 0
    /\ hub = TRUE /\ pending = {} /\ jobs = {}
    /\ record = [m \in Messages |-> {}]
    /\ faults = 0

Writes(m, line) == record' = [record EXCEPT ![m] = @ \cup {line}]
Fault == faults < FaultBound /\ faults' = faults + 1

(***************************************************************************)
(* shelbi message                                                          *)
(***************************************************************************)
Proceeds(m, from, to) == sender[m] = from /\ sender' = [sender EXCEPT ![m] = to]

\* A beacon left by a dead session reads as dead; a polling runner is vouched
\* for by its pane.
SessionLive == beacon \in {"own", "polling"} /\ session # "none"

\* The record is the refusal's only effect.  The issue may be done or not: users
\* move its card at any time.
Refuse(m, isDone) ==
    /\ isDone \/ ~SessionLive
    /\ Proceeds(m, "idle", "refused")
    /\ Writes(m, "undeliverable")
    /\ UNCHANGED <<log, workerVars, hubVars, faults>>

Accept(m) ==
    /\ SessionLive /\ Proceeds(m, "idle", "accepted")
    /\ UNCHANGED <<log, workerVars, hubVars, record, faults>>

AppendMessage(m) ==
    /\ Proceeds(m, "accepted", "appended")
    /\ log' = Append(log, m)
    /\ UNCHANGED <<workerVars, hubVars, record, faults>>

RecordPush(m) ==
    /\ Proceeds(m, "appended", IF m \in Tracked THEN "pushed" ELSE "over")
    /\ Writes(m, "push")
    /\ UNCHANGED <<log, workerVars, hubVars, faults>>

\* Best effort: a daemon that is down, or that is too slow, arms nothing.
NotifyDaemon(m) ==
    /\ Proceeds(m, "pushed", "over")
    /\ \/ hub /\ jobs' = jobs \cup {[does |-> "arm", msg |-> m]}
       \/ UNCHANGED jobs
    /\ UNCHANGED <<log, workerVars, hub, pending, record, faults>>

\* push_worker_directive looks at no beacon and arms no timer.  It answers a
\* handoff, so a worker is there.
PushDirective(m) ==
    /\ session = "live"
    /\ Proceeds(m, "idle", "appended")
    /\ log' = Append(log, m)
    /\ UNCHANGED <<workerVars, hubVars, record, faults>>

(***************************************************************************)
(* The worker's session                                                    *)
(***************************************************************************)
\* A dispatch resets the beacon, best effort, while the old session still runs.
ResetBeacon(channel) ==
    /\ launch = None /\ dispatches < DispatchBound
    /\ launch' = channel /\ dispatches' = dispatches + 1
    /\ beacon' \in {beacon, IF channel = "hooks" THEN "none" ELSE "polling"}
    /\ UNCHANGED <<sender, log, cursor, runner, session, drain, printed, hubVars, record, faults>>

\* What the beacon of a session that is gone reads as.
Orphaned == IF beacon = "own" THEN "stale" ELSE beacon

\* The old session is killed and a new one spawned, which may fail.
SpawnSession ==
    /\ launch # None
    /\ launch' = None /\ runner' = launch /\ drain' = None /\ beacon' = Orphaned
    /\ session' \in {"none", IF launch = "hooks" THEN "starting" ELSE "live"}
    /\ UNCHANGED <<sender, log, cursor, printed, dispatches, hubVars, record, faults>>

SessionDies ==
    /\ session # "none" /\ Fault
    /\ session' = "none" /\ drain' = None /\ beacon' = Orphaned
    /\ UNCHANGED <<sender, log, cursor, launch, runner, printed, dispatches, hubVars, record>>

\* SessionStart: the cursor is seeded at the end of the log when there is none,
\* and the beacon written after it.
SeedCursor ==
    /\ session = "starting"
    /\ cursor' = IF cursor = None THEN Len(log) + 1 ELSE cursor
    /\ session' = "seeded"
    /\ UNCHANGED <<sender, log, beacon, launch, runner, drain, printed, dispatches, hubVars, record, faults>>

WriteBeacon ==
    /\ session = "seeded"
    /\ beacon' = "own" /\ session' = "live"
    /\ UNCHANGED <<sender, log, cursor, launch, runner, drain, printed, dispatches, hubVars, record, faults>>

(***************************************************************************)
(* Reading: the Stop hook at the end of a turn, or a poll                  *)
(***************************************************************************)
Reads(channel) == session = "live" /\ runner = channel
Lines(from, to) == {log[i] : i \in (from..to) \cap DOMAIN log}

\* Mutant: the cursor taken for the last line read.
FirstUnread_LastRead(total) == IF cursor <= total + 1 THEN cursor - 1 ELSE 1

\* A cursor past the end belongs to a log that was replaced.
FirstUnread(total) == IF cursor <= total + 1 THEN cursor ELSE 1

\* The hook counts the lines first, and deals with those only.  A session that
\* ends a turn has started, so there is a cursor.
CountLines ==
    /\ Reads("hooks") /\ drain = None /\ cursor # None
    /\ FirstUnread(Len(log)) <= Len(log)
    /\ drain' = [step |-> "counted", next |-> FirstUnread(Len(log)), total |-> Len(log)]
    /\ UNCHANGED <<sender, log, cursor, beacon, launch, runner, session, printed, dispatches, hubVars, record, faults>>

PrintBatch ==
    /\ drain # None /\ drain.step = "counted"
    /\ printed' = printed \cup Lines(drain.next, drain.total)
    /\ drain' = [drain EXCEPT !.step = "acking"]
    /\ UNCHANGED <<sender, log, cursor, beacon, launch, runner, session, dispatches, hubVars, record, faults>>

\* One connection per message, best effort.
SendAck ==
    /\ drain # None /\ drain.step = "acking" /\ drain.next <= drain.total
    /\ \/ hub /\ jobs' = jobs \cup {[does |-> "ack", msg |-> log[drain.next]]}
       \/ UNCHANGED jobs
    /\ drain' = [drain EXCEPT !.next = @ + 1]
    /\ UNCHANGED <<sender, log, cursor, beacon, launch, runner, session, printed, dispatches,
                   hub, pending, record, faults>>

\* Mutant: the hook counts again to move the cursor.
AdvanceCursor_Recount ==
    /\ Reads("hooks")
    /\ drain # None /\ drain.step = "acking" /\ drain.next > drain.total
    /\ cursor' = Len(log) + 1 /\ drain' = None
    /\ UNCHANGED <<sender, log, beacon, launch, runner, session, printed, dispatches, hubVars, record, faults>>

\* The hook moves the cursor last, past the lines it counted.
AdvanceCursor ==
    /\ Reads("hooks")
    /\ drain # None /\ drain.step = "acking" /\ drain.next > drain.total
    /\ cursor' = drain.total + 1 /\ drain' = None
    /\ UNCHANGED <<sender, log, beacon, launch, runner, session, printed, dispatches, hubVars, record, faults>>

HookDies ==
    /\ Reads("hooks") /\ drain # None /\ Fault
    /\ drain' = None
    /\ UNCHANGED <<sender, log, cursor, beacon, launch, runner, session, printed, dispatches, hubVars, record>>

\* The prompt's three lines: show everything from the cursor on, ...
PollLines ==
    /\ Reads("polling") /\ drain = None
    /\ LET next == IF cursor = None THEN 1 ELSE cursor IN
       /\ printed' = printed \cup Lines(next, Len(log))
       /\ drain' = [step |-> "polled", next |-> next, total |-> Len(log)]
    /\ UNCHANGED <<sender, log, cursor, beacon, launch, runner, session, dispatches, hubVars, record, faults>>

\* ... then count the lines there are by now.
PollAdvances ==
    /\ Reads("polling") /\ drain # None /\ drain.step = "polled"
    /\ cursor' = Len(log) + 1
    /\ drain' = [drain EXCEPT !.step = "acking"]
    /\ UNCHANGED <<sender, log, beacon, launch, runner, session, printed, dispatches, hubVars, record, faults>>

PollEnds ==
    /\ Reads("polling") /\ drain # None /\ drain.step = "acking" /\ drain.next > drain.total
    /\ drain' = None
    /\ UNCHANGED <<sender, log, cursor, beacon, launch, runner, session, printed, dispatches, hubVars, record, faults>>

(***************************************************************************)
(* The daemon                                                              *)
(***************************************************************************)
Takes(does, m) == [does |-> does, msg |-> m] \in jobs
Turns(does, m, into) == jobs' = (jobs \ {[does |-> does, msg |-> m]}) \cup into

\* handle_message_pushed: the map is shared by all issues, and takes no new
\* message when it is full.
ArmTimer(m) ==
    /\ Takes("arm", m)
    /\ Turns("arm", m, {})
    /\ pending' \in {pending, pending \cup {m}}
    /\ UNCHANGED <<sender, log, workerVars, hub, record, faults>>

\* handle_message_ack: the timer is dropped under the lock, the line written after.
TakeAck(m) ==
    /\ Takes("ack", m)
    /\ Turns("ack", m, {[does |-> "worker", msg |-> m]})
    /\ pending' = pending \ {m}
    /\ UNCHANGED <<sender, log, workerVars, hub, record, faults>>

\* Mutant: no timeout is written for what the agent was given.
Reap_Forgets(expired) ==
    /\ expired # {} /\ expired \subseteq pending
    /\ pending' = pending \ expired
    /\ jobs' = jobs \cup [does : {"timeout"}, msg : expired \ printed]
    /\ UNCHANGED <<sender, log, workerVars, hub, record, faults>>

\* reap_expired: so are the timers that ran out, whichever those are.
Reap(expired) ==
    /\ expired # {} /\ expired \subseteq pending
    /\ pending' = pending \ expired
    /\ jobs' = jobs \cup [does : {"timeout"}, msg : expired]
    /\ UNCHANGED <<sender, log, workerVars, hub, record, faults>>

RecordAck(m, who) ==
    /\ Takes(who, m)
    /\ Turns(who, m, {})
    /\ Writes(m, who)
    /\ UNCHANGED <<sender, log, workerVars, hub, pending, faults>>

\* The map and the connections live in memory.
HubDies ==
    /\ hub /\ Fault
    /\ hub' = FALSE /\ pending' = {} /\ jobs' = {}
    /\ UNCHANGED <<sender, log, workerVars, record>>

HubStarts ==
    /\ ~hub /\ hub' = TRUE
    /\ UNCHANGED <<sender, log, workerVars, pending, jobs, record, faults>>
\* Mutant: a timeout outweighs the worker's confirmation.
Delivery_TimeoutFirst(m) ==
    IF "timeout" \in record[m] THEN "timed out"
    ELSE IF "worker" \in record[m] THEN "delivered"
    ELSE IF "undeliverable" \in record[m] THEN "undeliverable"
    ELSE IF "push" \in record[m] THEN "queued"
    ELSE "unknown"

\* message_delivery_status
Delivery(m) ==
    IF "worker" \in record[m] THEN "delivered"
    ELSE IF "undeliverable" \in record[m] THEN "undeliverable"
    ELSE IF "timeout" \in record[m] THEN "timed out"
    ELSE IF "push" \in record[m] THEN "queued"
    ELSE "unknown"

-----------------------------------------------------------------------------
Sending(m) ==
    \/ Accept(m) \/ AppendMessage(m) \/ NotifyDaemon(m)
    \/ \E isDone \in BOOLEAN : Refuse(m, isDone)

Working ==
    \/ \E channel \in Channels : ResetBeacon(channel)
    \/ SpawnSession \/ SessionDies \/ SeedCursor \/ WriteBeacon
    \/ CountLines \/ PrintBatch \/ SendAck \/ AdvanceCursor \/ HookDies
    \/ PollLines \/ PollAdvances \/ PollEnds

Serving ==
    \/ \E m \in Messages : ArmTimer(m) \/ TakeAck(m) \/ \E who \in {"worker", "timeout"} : RecordAck(m, who)
    \/ \E expired \in SUBSET pending : Reap(expired)
    \/ HubDies \/ HubStarts

Next ==
    \/ \E m \in Tracked : Sending(m)
    \/ \E m \in Directives : PushDirective(m)
    \/ \E m \in Messages : RecordPush(m)
    \/ Working \/ Serving

Spec == Init /\ [][Next]_vars

\* The daemon's threads run, and a timer runs out some day.
Fairness ==
    \A m \in Messages :
        /\ WF_vars(TakeAck(m))
        /\ \A who \in {"worker", "timeout"} : WF_vars(RecordAck(m, who))
        /\ WF_vars(\E expired \in SUBSET pending : m \in expired /\ Reap(expired))

FairSpec == Spec /\ Fairness
-----------------------------------------------------------------------------
(* Properties *)

TypeOK ==
    /\ sender \in [Messages -> Stages]
    /\ log \in Seq(Messages)
    /\ cursor \in Nat \cup {None}
    /\ beacon \in {"none", "own", "stale", "polling"}
    /\ launch \in Channels \cup {None} /\ runner \in Channels \cup {None}
    /\ session \in {"none", "starting", "seeded", "live"}
    /\ drain \in Drain \cup {None}
    /\ drain # None => drain.total <= Len(log) /\ drain.next \in 1..(drain.total + 1)
    /\ printed \in SUBSET Messages
    /\ hub \in BOOLEAN
    /\ pending \in SUBSET Messages
    /\ jobs \in SUBSET Jobs
    /\ record \in [Messages -> SUBSET {"push", "worker", "timeout", "undeliverable"}]
    /\ dispatches \in Nat /\ faults \in Nat

\* Whatever the order in which the sender, the worker's acks, the daemon's timers
\* and restarts reach the event log, the answers for a message only become more
\* certain, and a message that is reported as delivered was read.
Receipts == INSTANCE MessageReceipt WITH
    status <- [m \in Messages |-> Delivery(m)], read <- printed
ReceiptsAreHonest == Receipts!Spec

\* Under hooks the cursor never passes a message the agent was not given, though
\* messages arrive while the hook runs, and hooks and sessions are killed in it.
NothingIsDrainedUnread ==
    [][runner = "hooks" /\ cursor # None /\ cursor' # cursor =>
           \A i \in DOMAIN log : cursor <= i /\ i < cursor' => log[i] \in printed]_vars

\* A timer the daemon armed ends in a line in the event log, unless the daemon
\* dies: an ack or a timeout that takes it out of the map is written down.
ArmedTimerIsAnswered ==
    \A m \in Messages :
        m \in pending ~> record[m] \cap {"worker", "timeout"} # {} \/ ~hub

\* The cursor is the number of the next unread line.
CursorIsNextUnread ==
    cursor # None => \A i \in DOMAIN log : i < cursor => log[i] \in printed
=============================================================================
