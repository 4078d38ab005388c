# TLA+ models of Shelbi

Shelbi runs coding agents in terminal sessions, one per *workspace* (a git
worktree), driven by a board of issues. One hub daemon per user serves every
project: clients (CLI, TUI, palette, desktop) send it requests over a control
socket, and its threads poll sessions and boards, restart crashed agents and
start new ones. Sessions are processes of their own and outlive the daemon.

What makes it hard is the daemon: several requests, poll threads and launch
threads act on the same project at once; launches take minutes and may hang on
`git` or `ssh`; a quit must end all of it; clients time out and resend; the
daemon may crash or be replaced while sessions run on. These modules model that
part of the code, and the two channels through which the parts hear of each
other: the hub's event log with its one consumer per project, and the messages to
workers. TLC checks all of it; every safety property of it (the invariants, the
action properties and the refinements) is also proved with TLAPS, for every value
of the constants.

Paths below are relative to `crates/`; `PROJECT.json` maps every definition to
its source lines.

## 1. Inventory

| Component | State it keeps | Operations | Meets others through | What makes it correct |
|---|---|---|---|---|
| Cancellation registry, `shelbi-orchestrator/src/cancel.rs` | a process-global map of live jobs with their flags, a count of quitting phases per project | `register`, drop of a guard, `bump_workspace`, `begin_quit`, drop of a phase, `quit_project`, `wait` | calls from every daemon job | a job of a quitting project is cancelled, whenever it registered; overlapping quits are counted |
| Quit, `shelbi-orchestrator/src/quit.rs` | none of its own: `open` flags, registry, sessions | `quit_project`, `quit_shelbi` | registry, sessions, open flags | a quit returns; a drained one has dealt with every session a job started |
| Launch, `shelbi-orchestrator/src/workspace.rs`, `lib.rs` | per-workspace dispatch lock, the slot's session, worktree | `start_workspace_on_task`, `deploy_and_spawn`, `ensure_dashboard` | registry, sessions, event log | one launch per slot at a time; a cancelled launch stands down |
| Pollers, `shelbi-cli/src/commands/daemon/poller.rs`, `shelbi-orchestrator/src/poller.rs` | thread handles, shutdown flags | `reconcile`, a supervisor thread per project, a poll thread per workspace | open flags, registry | an open project is polled, a closed one is left alone |
| Issue start, `shelbi-orchestrator/src/mutate/start.rs` | the card's status and assignment, the request's progress | gate, recheck, move, launch, wait, late success, rollback, release | board store, launch thread, registry | a card in progress was delivered to its workspace; a failed start restores the card |
| Supervision, `shelbi-app/src/supervision.rs` and `maybe_supervise_workspace` | a restart budget per pane | `decide`, `request_relaunch`, `stand_down` | session records, board index, reopen markers, launches | a crashed pane with work comes back or is given up, with backoff |
| Daemon control jobs and shutdown, `daemon/control.rs`, `daemon/serve.rs` | `running` jobs under a lock, stop flag, quits in flight | `admit`, `track`, writer, `spawn_job`, the drain, the idle monitor | clients, quits, session watchdogs | admitted work finishes before the process exits; the daemon goes away in the end |
| Control clients, `shelbi-client/src/control.rs` | what a client knows of its request | send, `retry_through_drain` | control socket | nothing is carried out twice |
| Daemon start on demand, `shelbi-state/src/daemon_lifecycle.rs`, `shelbi-session/src/daemon_watchdog.rs` | pid and lock files | `ensure_daemon_running`, `tick`, `stop_daemon` | processes, open flags | an open project has a daemon |
| Other mutations (`add`, `edit`, `move`, `merge`, transitions) | cards, expected states, per-issue lock | the control socket's jobs | board store, poll threads | a change applies to the card the client saw |
| Messages to workers, `shelbi-cli/src/commands/message.rs`, the hooks in `shelbi-orchestrator/src/workspace.rs`, `daemon/serve.rs` | per issue a log, a cursor and a session beacon in the worktree; pending timers in the daemon's memory; lines in the event log | send or refuse, SessionStart and Stop hooks, polling, `message-pushed`, `message-ack`, the reaper, `message status` | files in the worktree, hub socket, event log, launches | a message accepted is shown to the agent before the cursor passes it; what is reported as delivered was read |
| Event log, `shelbi-state/src/event_log.rs` | `events.log`, one rotated generation, the index, the rotation journal, a cursor per project | `append_event_line`, `maybe_rotate_events_log`, `load_event_log_index` with its recovery, reads from a cursor | one lock file, cursors of projects | logical positions survive rotation and crashes; unread lines hold rotation back, up to a ceiling |
| Event feed, `shelbi-cli/src/commands/orchestrator.rs` and the registry in `event_log.rs` | cursor, high-water mark, follower registry; in memory the batch in flight | claim, poll loop, redelivery, quarantine, resynchronization, `events ack`, release | event log, signals | one consumer per project; every line is handed over before it is passed, unless it is given up |
| Board index and stores | published index, issue caches | publish, write-through, merge | files, `gh` | a local write is not undone by an older snapshot |
| GitHub budget, Zen, sessions, session loss, remote relay, wire protocol, workflows, runner integration, clients' UI | see `PROJECT.json` | | | |

`PROJECT.json` lists each of these with its status. The hazards in it are the
places where this code is hard to test; the properties were chosen for them.

## 2. Modules

```
CancelRegistry          the job registry: one operator per operation
  |-- ProjectQuit       quits x launches x pollers x reopening
  |     |-- MCProjectQuit       instances for TLC
  |     `-- ProjectQuitProofs   theorems
  `-- IssueStart        start requests x launch threads x users
        |-- MCIssueStart
        `-- IssueStartProofs    theorems
              `-- StartTransactionProofs   the cards: refinement, double booking
StartTransaction        abstract: a start as the card sees it, all or nothing;
                        implemented by IssueStart
Supervision             one pane's restart budget in the poll pass
  |-- MCSupervision
  `-- SupervisionProofs theorems
RequestPromise          abstract: what the sender of a request may rely on
  `-- DaemonDrain       the daemon's process, its jobs, its clients; implements RequestPromise
        |-- MCDaemonDrain
        `-- DaemonDrainProofs   theorems
RetainedLog             abstract: a log that forgets only a prefix
  `-- EventLog          rotation, recovery, cursors; implements RetainedLog
        |-- MCEventLog
        `-- EventLogProofs
DeliveryQueue           abstract: a queue with at-least-once delivery
  `-- EventFeed         followers, cursor writes, acks; implements DeliveryQueue
        |-- MCEventFeed
        `-- EventFeedProofs
MessageReceipt          abstract: what a sender is told about a message
  `-- MessageDelivery   sender, hooks, polling, timers; implements MessageReceipt
        |-- MCMessageDelivery
        `-- MessageDeliveryProofs
```

A definition with a suffix, `Foo_Bar`, placed before `Foo`, is a faulty variant
of it (a dropped guard, a swapped order). No specification uses it; it documents
which mistake a property is there to catch, and `PROJECT.json` pairs them.

**CancelRegistry.** `live`, `flag` and `quits` are the registry behind its one
mutex, so each operation is one step. A job identity stands for a thread that may
register again after it dropped its guard; the generation counter of the code,
which only tells such registrations apart, is the flag itself.

**ProjectQuit.** A *slot* is a workspace or the project's orchestrator. `launch`
follows a thread through `start_workspace_on_task`: registered, waiting for the
slot's dispatch lock, set up, past its last cancellation check, spawning; or, for
an orchestrator, through the dashboard lock. `quit` follows a composition through
its five steps: enter the phase, clear the open flag, wait for the barrier (or
its bound), list and kill sessions, leave the phase. `sup`, `handle`, `shutdown`
and `mgr` are the pollers: `Tick` reads the open set once, as `reconcile` does,
and the rest of the pass works from that reading, stale or not. `opener` is a
user reopening the project between a quit's steps: the open flag first, the
orchestrator's session later. The poll threads of the workspaces are merged with
the project's supervisor thread, which they stop with. Listing, killing one
session and every check are steps of their own; the drop of the dispatch lock
and of the guard at the end of a launch is one step. The sweep is as weak as in the
code: a listing that fails leaves its sessions out, a kill sends a signal, which a
session may outlive for any time (`SessionEnds`), or fails, and neither failure shows
in the outcome. Of a job's session `asked` says which quits signalled it, `spared`
which failed to list or to signal it.

**IssueStart.** `req[i]` is the start request that holds issue i's lock, `launch`
its thread. The occupancy gate, the recheck, the two writes (status, then
fields), the launch, the wait with its idle deadline, late success, the two
writes of the rollback, the teardown and the release of the former workspace are
separate steps, as they are separate store calls in the code. Any card can be
started, one that was handed on (`done`) included. The teardown and the release may
fail, which the code only warns about; `leftBehind` remembers the workspaces where
such a teardown left another issue's agent. A session that was sent the signal to
end counts as ended here. `CardMoves` is the
poller, which hands a card on at any time, or the user, who moves one that no
start holds. The board is a local one (`file_system`) and its writes succeed.
`acceptedLate` is a history variable: the workspaces on which a timed-out start was
accepted as a late success. Seen from the card a start is a transaction: as long as
it has written the card and may still roll back (`Unsettled`), `SettledCard` is the
card it found, and what the poller did to the card meanwhile shows with the commit.

**Supervision.** `decide` in the poll pass of one local workspace. Time is
counted in units of the base backoff; of an instant only its age is kept, capped
where the code stops telling ages apart. The history's pruning is the removal of a
prefix (`Expired`), which is what the code's `retain` comes to as long as the history
is oldest first (`OldestFirst`); the backoff is the recursive function `Shl`, the
code's `1 << n`. `seen` is what a pass read of the pane
before it acts, so users, crashes and reopens come in between. A redispatch that
fails is three steps: kill (which records why), spawn, failure. The resume pass
for development slots is not in it.

**DaemonDrain.** `proc` is the process: serving, draining (accept loop), waiting
(the second look at the jobs), closing, down. `ReadFlag`/`Admit` are the two
halves of `admit`, under `lock`; `Track` is the path of quits, which a drain does
not refuse. A request's job writes its reply before `Release` takes it off
`counted`. `monitor` reads the open flag and the quits in flight as two steps, in
the code's order, and stops the daemon in a third; `relied` is a history variable, the
quits found between closing the project and ending its sessions by those readings. Of
a quit's sweep nothing matters here but that it comes after the close; what it may
leave running is in ProjectQuit. `client` is what the sender knows; it may resend only what a
draining daemon refused. `Killed` is a crash or SIGKILL at any point. The idle
monitor's grace period is left out: the model may decide earlier than the code.

**EventLog.** A line has length one. `current` and `rotated` are the two files; a
file is known by the position of its first line, which stands for its device and
inode, so a rename keeps the identity and a file created later has another.
`step` is the holder of `events.log.lock`: every append and every read locks,
loads the index (which runs the recovery), and an append goes on through
journal, rename, index and removal of the journal before it writes. Each of these
is a step of its own, each may fail, and the holder may die at any of them; a
failure takes the branch the code takes (append without rotation, or refuse). The
journal's removal is best effort everywhere, as in the code. `TakeCursor` does
not take the log's lock, since a cursor has a lock of its own, so a rotation may
come between it and `Scan`. `consumer` is a project's liveness as a rotation
classifies it. `degraded` and `returned` are history variables: whether an
operation has failed, and which idle consumers came back after a rotation looked
at them. The high-water mark is in EventFeed. The index file is always there: the
one-time migration of older logs is not modelled.

**EventFeed.** The log is its end, its earliest position and the positions of the
project's own lines; EventLog is what justifies this. A follower's `pc` is where
it is in a tick: the checks at the top, the read of the cursor, the scan, and the
write of the cursor for a quarantine or a resynchronization, whose value was
computed a step earlier. An acknowledgement reads the cursor in one step and
writes it in another; the code takes the cursor's lock for each, not for both.
`WriteCursor` writes the cursor and its high-water mark in one step, as they are
written under one lock; a process killed between the two is not modelled.
`Resolved` is what any reader makes of the two files. A kill leaves the registry
naming a dead process, and a claim signals the recorded owner only if it lives.
The visibility timeout may pass at any time.

**MessageDelivery.** `sender` is the process of one `shelbi message`: the check of
the beacon, the append to the issue's log, the `push=ok` line and the
notification of the daemon are separate steps. `beacon` is what the check makes
of the beacon file: a session that ended leaves one that reads as stale. A
dispatch resets the beacon first and replaces the session later, and either may
fail. `drain` is the Stop hook under way (count, print, one ack per message, move
the cursor) or an agent's poll (show, then count and move the cursor). `pending`
and `jobs` are the daemon's map and its threads: a timer or an ack leaves the map
in one step and is written to the event log in a later one. `record` is the lines
about a message in the event log, from which `Delivery` derives the answer of
`message status`. `ArmTimer` may refuse: the map is shared by all issues and
bounded. Whether the issue is done is open at every send.

## 3. Runs

Deadlock is checked in the runs on quits, starts, supervision and shutdown. In those
on the event log, the feed and messages it is not: there the bounds on lines,
faults and launches stop the system.

| Run | Instance | States | Shows |
|---|---|---|---|
| `quit_overlap` | one project, a workspace and an orchestrator, one launch, the poller, two quits | 2.2 M | `DrainedQuitMissesNoSession`, `QuittingCancelsEveryJob`, `PhasesAreCounted`, `TypeOK`: however two quits, a launch, the supervisor, the manager and a reopen interleave, a drained quit has dealt with every session a job started: each was sent a signal, or is one the quit failed, and logged, to list or to signal |
| `quit_live` | the same with one quit, fair | 0.2 M | `QuitAlwaysFinishes`: although any job may wedge. `OpenProjectIsPolled`: a project reopened during its quit does not keep a poller that is cancelled from birth |
| `start_one_slot` | two issues, one workspace, two launches | 0.5 M | `QuietSlotRunsItsTree`: no agent is left running in another issue's worktree, even under an abandoned launch that still holds the lock, except by a start accepted late or a teardown that failed. `ActiveCardWasDelivered` through time-outs, abandoned threads and rollbacks |
| `start_moves` | one issue, two workspaces, two launches, one of which may hang before it registers, fair | 0.8 M | `ActiveCardWasDelivered` when the rollback must restore another assignee, `RedispatchIsFresh`, `StartAlwaysReturns`; `StartsAreAtomic`: IssueStart implements StartTransaction |
| `start_double_booked` | two issues, one workspace | violated | finding 1 |
| `sup_restarts` | three restarts in a window of 12 units, recovery 3, markers 2, fair | 0.3 M | `RestartsAreSpaced`, `GiveUpSpentTheBudget`, `CrashIsAnswered` against crashes, deliberate ends, a lagging index, user dispatches and reopens |
| `drain_live` | one mutation, one quit of everything, fair | 0.2 M | `AcceptedWorkFinishes`, `NothingRunsTwice` through drains, crashes, resends and new daemons; `AnswersAreHonest`: DaemonDrain implements RequestPromise; `IdleExitSparesQuits`: an idle exit comes after the quits whose close made the project look idle; `OpenProjectHasDaemon`, `StoppedDaemonExits` |
| `log_rotation` | two projects, a limit of one line, a ceiling of two, appends up to five lines, every operation may fail | 2.1 M | `AlwaysRecoverable`, `ReadsAreFaithful`, `CursorsAreWithinLog`, `LogIsBounded`, `UnreadLinesHoldRotation`; `KeepsLogicalPositions`: EventLog implements RetainedLog |
| `feed_delivery` | two followers, one acknowledgement at a time, one redelivery, two lines, one fault, fair | 0.3 M | `OneFollower`; `DeliversAtLeastOnce`: EventFeed implements DeliveryQueue; `EveryLineIsHandedOver` |
| `feed_quarantine` | one follower, one acknowledgement, no faults | violated | finding 2 |
| `messages` | a tracked message and a directive, two launches of either channel, two faults, fair | 0.5 M | `ReceiptsAreHonest`: MessageDelivery implements MessageReceipt; `NothingIsDrainedUnread`, `ArmedTimerIsAnswered` |
| `msg_polling` | one message, one launch under polling, no faults | violated | finding 3 |

### Bounds, and why they are enough

- *Quits.* The counter of phases and the born-cancelled rule need two quits of
  one project to differ from a flag; a third adds nothing either tells apart.
  One launch and the supervisor give two jobs of different kinds; contention for
  a dispatch lock is explored in `IssueStart`. TLC has one project; the theorems
  cover any number of projects, slots, launches and quits.
- *Starts.* Two launches suffice for every overlap of an abandoned thread with
  its successor; two issues on one workspace and one issue on two workspaces are
  the two ways in which starts meet. `LateThreads` are the threads that may miss
  their start's 180 s deadline unregistered; `start_moves` has one, so that it meets
  a launch that registered in time, before it or after it. With such a thread and
  two issues on one workspace the worktree can change under the other issue's agent:
  the code does not claim otherwise, so `start_one_slot` has none.
- *Supervision.* The production values (five restarts in five minutes, a 5 s
  backoff, 60 s of recovery) are scaled to three restarts in twelve units. The
  window must outlast the sum of the backoffs, or no pane is ever given up, and
  recovery must be shorter than the window; both hold as in the code. The theorems
  assume only the second.
- *Shutdown.* A mutation and a quit contend for `running`; what holds for any
  number of either is proved.
- *Event log.* With a limit of one line every append beside an existing file may
  rotate, so `LineBound` = 5 gives several rotations in a row, with recovery in
  between; two projects are one that lags and one that does not. A ceiling of two
  lines is the smallest at which a rotation can be held. A write may pass
  `LineBound` by the lines that name losses.
- *Feed.* Two followers are a claim beside a live one, and with `FaultBound` = 1
  one kill, expiry or duplicate start falls anywhere in it; restarts after that
  are free. Two lines and one redelivery are enough for a batch that is emitted,
  extended, redelivered, quarantined or acknowledged late. The production cap is
  10 redeliveries.
- *Messages.* One message with a timer and one without are on the same log, so a
  batch can hold both or either; two launches give a change of channel in each
  direction, two faults a hook or session that dies and a daemon that restarts.
- Symmetry is used only in runs without temporal properties on fairness.
- `runs`, `quits` and the restart history are bounded by the protocol itself. The
  bounds that are not in the code are `LineBound`, `FaultBound` and
  `DispatchBound`; the theorems hold for any value of them.

### Fairness

- *Quits*: WF on a quit's steps, on the manager's and on a user's second step:
  each is a thread that runs. SF on a launch's and a supervisor's steps, since
  both wait for a lock that others hold in between; it is a kernel `flock`, which
  serves a waiter. `MayWedge` stands for the barrier's bound (10 s by default,
  clamped to 50 ms - 120 s), which is always there. Commands, reopens and deaths
  of sessions are not fair.
- *Starts*: WF on the request's thread, whose deadline is what makes it return. Of a
  launch thread only that it comes to register unless it is in `LateThreads`: that
  is its first act, and the deadline waits for it in the model. From there on it may
  hang for ever.
- *Supervision*: WF on the poll pass, on time, on a dying session's record and on
  the index refresh. A spawn may fail every time.
- *Shutdown*: WF on the main thread, on the deadline, on the admission under way
  and on the session's watchdog. SF on the two looks at `running`: its lock is
  held for one insertion, and a refused client pauses 200 ms before it resends.
  Jobs may hang, clients may leave, nobody need ask for anything.
- *Feed*: WF on a follower's loop, which is a thread with bounded waits for its
  locks, and on time; WF on the orchestrator's next run of the follower when none
  is alive (its instructions have it restart a feed that ended). Nobody need
  acknowledge anything, and kills come within `FaultBound`.
- *Messages*: WF on the daemon's connection threads and on its reaper. Nothing is
  assumed of senders, sessions or agents: an idle agent ends no turn, so that a
  queued message is read in the end is not a property of this code.
- The event log has no liveness property: whoever holds its lock may fail every
  time.

## 4. Proofs

The eight `...Proofs` modules are checked by TLAPS to the last leaf. They assume only
the named assumptions on constants: that absent values are absent, that each slot
belongs to a project, that each project has its own orchestrator slot and its own
poller's job identity, that launches are jobs, that quits, projects and messages
are finitely many, that mutations and quits are different requests, that sizes
and bounds are numbers (a log's limit and ceiling, a restart cap and a recovery time
positive, recovery and a marker's age within the window). Every run evaluates those
of its module.

**Quits** (`TypeCorrect`, `Inductive`, `QuittingCancels`, `PhasesCounted`,
`DrainedQuit`). That a drained quit's sweep misses no session is not inductive. A session
can appear between the listing and the end of the quit only if a launch of the
project is past its last check then, so the invariant `IInv` adds:

- `LaunchesAreRegistered`: a launch past its gate holds a guard under its slot's
  project, so the barrier sees it;
- `QuittingCancelsEveryJob`, `PhasesAreCounted`, `PhasesFollowStages`: while a
  quit holds a phase the counter is positive, so whoever registers is cancelled,
  and no other quit's end can undo that;
- `DrainedStaysDrained`: so, once the barrier has drained, every launch of the
  project stops at its first check;
- `SweepListIsComplete`: so a job's session the sweep has neither signalled nor failed
  on is in its list, and its slot gets no other session before the quit's end.

The proof that a step preserves `IInv` has one lemma per group of actions and
part of the invariant. `DrainedQuit` is the last part read at the last step.

**Shutdown** (`TypesKept`, `NoDoubleRun`, `PromiseIsKept`, `DrainWaits`,
`IdleExitWaitsForQuits`). `NothingRunsTwice` needs `RunInv`: a request that its
client may still send, or that the daemon has not run, has not been carried out, one
about to be answered "done" has, and while the daemon has it its client waits or has
gone, so it cannot be sent a second time. `AnswersAreHonest` is the step-by-step
refinement under the same invariant: admissions, drains and the writer are invisible
to the sender, a job's run is the abstract execution, the reply the abstract answer,
and the end of a process tells every sender who still waits that it will not know.
`AcceptedWorkFinishes` needs `GateInv`: whoever is inside `admit` holds the lock, an
admitted mutation is counted until its reply is out, and a daemon that is closing in
time has none admitted and none inside `admit`. `IdleExitSparesQuits` needs `IdleInv`:
after the first reading a quit it relied on is still closing or has been carried out,
the second reading rules the former out, and what has been carried out stays so until
the stop. A quit that comes after the readings may be under way at the stop; it is
counted, and the drain waits for it, up to its last look (section 5).

**Event log** (`LogIsInShape`, `TypesKept`, `Recovers`, `Faithful`, `CursorsWithin`,
`Bounded`, `UnreadHolds`, `Refines`). That recovery always understands what it
finds follows from `LogInv`: beside a journal, files and index are in one of three
shapes (not renamed, renamed with the index behind, completed), and the holder's
step says in which. The files' lengths play a part: the journal's file may have
grown by appends that went on without rotation, so "not renamed" allows a longer
file, and a journal of length zero, which no rotation writes, would blur the
shapes. `ReadsAreFaithful` is `LogInv` read through `RecoveredIndex`, the index as
the next load will see it; so is the refinement, in which a rename, the commit of
the index and a recovery after a crash are one step of RetainedLog, at the rename.
`LogIsBounded` and `UnreadLinesHoldRotation` each add what a rotation decided and
has not yet done.

**Feed** (`FeedIsSound`, `FeedTypes`, `OneConsumer`, `AtLeastOnce`). Followers and
acknowledgements write the cursor from reads that may be long stale, so nothing
can be said of the cursor alone. `FeedInv` is about the high-water mark: the
cursor is never ahead of it, every cursor somebody has read is at most the mark,
and every batch ever emitted lies within the log. A write then moves the resolved
cursor to the larger of the mark and its value, and covers only lines handed over
from at most the mark, or given up in that step.

**Messages** (`Invariant`, `TypeCorrect`, `NothingSkipped`, `ReceiptsHold`). `Inv`
adds `LogOrder` (a message on the log was accepted, a refused one is not), `Evidence`
(whoever is about to write an ack or a timeout has what entitles it to: the
message was printed, or pushed) and `DrainCovers` (what a hook is about to move the
cursor over was printed). Finality of a confirmation is in `Delivery`, where the
worker's word outweighs a timeout in either order.

**Starts** (`StartTypeCorrect`, `DeliveredBeforeActive`, `SlotRunsItsTree`,
`RedispatchFresh`; in `StartTransactionProofs` `StartIsATransaction` and
`ApartStartsBookOnce`). All rest on `RequestsOK` and `LaunchesOK`: no two requests have
one job, and a launch is of the request that has its job, while there is one.

- `CardsOK` follows the card through the stages of its start: the original that a
  rollback restores was itself delivered where it was in progress, and a launch
  that completed has its delivery in the log.
- `SlotRunsItsTree` needs an account of every launch nobody waits for. `StraysOK`
  says it was tripped (its registration is what `bump_workspace` looks for,
  `HoldersOK`), so one that has not passed its check stops there; one that already
  holds the lock finds the slot empty, since the teardown came first. `SlotsOK` is
  the invariant: a session of another issue than the worktree's has a start on
  that workspace which will end it. A launch that misses the deadline
  unregistered is not tripped, hence the hypothesis `LateThreads = {}`. A teardown that
  fails leaves the session where it was: if it is the start's own the tree agrees, if
  it is another issue's the workspace is in `leftBehind`, until its session ends.
- `RedispatchFresh` holds with late threads, for one issue: issues that share a
  workspace trip each other's launches (finding 1).
- `StartIsATransaction` is the refinement of `StartTransaction`. The first write is
  where a start begins, since the recheck has just found the card as the request
  remembers it; the launch's answer, or the late look at the log, commits; the second
  write of the rollback undoes. `CardsOK` gives the delivery a commit needs, and
  `FlightsOK` that in between the poller can only have handed the card on: a card
  whose status the rollback has restored differs from the original at most by having
  been handed on. Cards that were handed on before the start are no exception. It holds for any number
  of issues and launches, late threads and shared workspaces included: a double
  booking (finding 1) breaks the slot, not the cards.
- `ApartStartsBookOnce` is the other side of finding 1: `NoDoubleBooking` does hold of
  every behaviour in which starts that are under way together occupy different
  workspaces (`StartsAreApart`), so nothing but such an overlap breaks it. A start
  occupies the workspace it asks for and the one a rollback would put the card back
  on. The hypothesis needs the second: without it TLC finds the other trace told
  under finding 1. `AsFoundOK` says that a card whose start ended without success is
  in progress, if at all, where it was.

**Supervision** (`TypeCorrect`, `HistoryIsOldestFirst`, `RestartSpacing`,
`GiveUpIsEarned`). The two definitions that are not first order are characterised
first. `ShlValues` says that `Shl` is what its recursion says, `ShlMonotone` that it
grows; both argue by the least counterexample (`LeastElement`, from the
well-foundedness of `<` on the naturals), the form of induction that does not take an
operator as a parameter. `ExpiredSplits` says that an oldest-first history splits
where `Expired` claims, and `PrunedHistory` that the part kept is a suffix that is
still in order and still spaced. The invariant `Inv` is the type, `OldestFirst` and
`RestartsAreSpaced`. A suffix asks less of each pair than the history did, since the
backoff is that of an earlier place, and time adds the same to every age until it
reaches the window's length, where the spacing no longer asks anything.
`GiveUpIsEarned` adds the backoffs of a full history up (`BackoffsAddUp`, again by
the least counterexample): the oldest of n restarts is at least 2^(n-1) - 1 units
old. It needs no assumption that the window is longer than that; where it is not,
no pane is ever given up.

Not proved, and left to TLC: liveness under fairness (`QuitAlwaysFinishes`,
`OpenProjectIsPolled`, `StartAlwaysReturns`, `CrashIsAnswered`, `OpenProjectHasDaemon`,
`StoppedDaemonExits`, `EveryLineIsHandedOver`, `ArmedTimerIsAnswered`), which rests on
ENABLED, and the three violated runs, which are counterexamples.

## 5. Findings

Each is a run whose property states what a comment in the code says; `PROJECT.json`
quotes the lines.

1. `start_double_booked`: the occupancy gate and the assignment it protects are
   not under one lock, so two issues can be started on one workspace
   (`mutate/start.rs:113`, `occupancy.rs:103`). The starts need not even ask for the
   same workspace: a card in progress on `w1` is started on `w2`, another issue takes
   `w1`, which no card names any more, and the first start fails and is rolled back
   to `w1` (`mutate/start.rs:414`).
2. `feed_quarantine`: the rescan that gives an unacknowledged batch up moves the
   cursor over lines appended since the batch was last emitted, which were never
   handed over (`orchestrator.rs:409`, `487`).
3. `msg_polling`: the polling contract shows lines and counts them in two
   commands, so a message between the two is skipped (`workspace.rs:6452`,
   `docs/message-delivery-ack.md:30`).

The models also show the following, without a run of its own.

- An abandoned launch that is past its last check still starts its agent
  (`workspace.rs:2848`), and releasing the former workspace can end a worker that
  moved to another issue after the check (`mutate/start.rs:498`): `IssueStart`.
- A relaunch that kills and then fails to spawn is read as a deliberate end, and
  supervision stands down (`poller.rs:4983`, `5046`); the give-up latch is cleared
  by one sighting of a live pane, where the field's doc asks for recovery
  (`supervision.rs:93`, `141`): `Supervision`.
- A quit counted after the drain's last look is cut by the exit (`control.rs:601`,
  `serve.rs:619`): `DaemonDrain`.
- The manager starts pollers from an open set it read before it waited on closed
  projects' barriers, so a project quit meanwhile is polled until the next pass
  (`daemon/poller.rs:69`): `ProjectQuit`.
- A timed-out start may be accepted on the evidence of an earlier launch
  (`mutate/start.rs:267`): `IssueStart`.
- The lines that name who a rotation cost data are held in memory until the append:
  when the process dies after the rename they are never written, which the comment
  at `event_log.rs:1170` takes for granted: `EventLog`.
- A batch acknowledged between a follower's read of the cursor and its scan is
  emitted once more, against "no acked batch is ever replayed"
  (`orchestrator.rs:487`): `EventFeed`. The consumer's ids make it harmless.
- An issue whose worker moves from polling to hooks before its first poll has no
  cursor, and the hook seeds one past messages already accepted
  (`workspace.rs:4658`): `MessageDelivery`.

## 6. Not modelled, and the plan

Left out of the modules above: the handoff message of a quit, remote machines,
the quit's stop of the daemon (in `DaemonDrain` instead), resuming panes, remote
boards, failing store writes (a failing second write of a move or of a rollback among
them), takeover of a running daemon, session health, the
hub socket's event messages. Of the event log: the migration of a log without an
index, malformed journals and torn writes, the read fallback without the lock,
`events drain`, the death of a process between the cursor and its high-water mark,
and the Codex queue fed by batches. Of messages: hosts without `ps`, sessions from
before the beacon, `--wait`, questions, failing appends. Out of reach or of little
use to a model: terminal emulation and replay (bytes against a real pty), prompt
composition and screen scraping, UI, configuration parsing.

In order:

1. `ControlMutations`: the per-issue lock, the expected-state gate of `run_job`
   and its recheck before the irreversible step, against poll threads that write
   without the lock (`control.rs`, `mutate.rs`). Property: a change never lands
   on a card other than the one its client saw.
2. `DevResume` beside `Supervision`: the poller's resume pass for stranded
   development slots (`orchestrator/poller.rs`), and that both passes do not
   relaunch one pane.
3. The Codex wake queue (`wake.rs`) on top of `EventFeed`, and the one-time migration
   of `EventLog`'s cursors.
4. `BoardIndex`: publish against write-through (`board_index.rs`).
5. An abstract specification of a quit implemented by `ProjectQuit`, and its proof.
6. `stop_daemon` and takeover, Zen, the GitHub budget's parking as operators.
