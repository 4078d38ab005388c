----------------------------- MODULE EventFeed -----------------------------
(***************************************************************************)
(* The consuming feed of one project's events: followers that claim the    *)
(* project's single consumer slot, read batches from the durable cursor,   *)
(* redeliver what is not acknowledged and stand down for a newer follower, *)
(* and the acknowledgements that move the cursor                           *)
(* (shelbi-cli/src/commands/orchestrator.rs, shelbi-state/event_log.rs).   *)
(*                                                                         *)
(* EventLog shows that positions survive rotation and crashes, so the log  *)
(* is its two ends here and the positions of the project's own lines.      *)
(***************************************************************************)
EXTENDS Integers, FiniteSets

CONSTANTS
    Followers,       \* processes of `orchestrator events next --follow`
    Ackers,          \* processes of `orchestrator events ack`
    MaxRedeliveries, \* FEED_MAX_REDELIVERIES
    LineBound,       \* bound: lines the log ever gets
    FaultBound,      \* bound: kills, expiries and duplicate starts together
    None

ASSUME NoneAssumption == None \notin Nat /\ None \notin Followers
ASSUME RedeliveryAssumption == MaxRedeliveries \in Nat \ {0}
ASSUME BoundAssumption == LineBound \in Nat /\ FaultBound \in Nat

VARIABLES
    head,      \* end of the log
    earliest,  \* oldest position still retained
    mine,      \* positions of lines that belong to the project
    cursor,    \* event-cursor
    hwm,       \* event-cursor.hwm
    owner,     \* event-follower: the process that claimed the slot last
    pc,        \* where each follower is in its loop
    signal,    \* whether a termination signal reached it
    at,        \* the cursor it read this tick
    target,    \* the position it is about to write to the cursor
    inflight,  \* its batch that was emitted and not acknowledged, or None
    overdue,   \* whether that batch outlived its visibility timeout
    ack,       \* an acknowledgement under way: its batch and the cursor it read
    delivered, \* history: every batch emitted to the consumer
    skipped,   \* history: positions a quarantine moved the cursor over
    faults

logVars == <<head, earliest, mine>>
cursorVars == <<cursor, hwm>>
loopVars == <<at, target, inflight, overdue>>
vars == <<head, earliest, mine, cursor, hwm, owner, pc, signal, at, target, inflight,
          overdue, ack, delivered, skipped, faults>>

Position == 0..LineBound
Batch == [from : Position, through : Position]
InFlight == [cursor : Position, redeliveries : 0..MaxRedeliveries]
Ack == [batch : Batch, current : Position]

Larger(a, b) == IF a < b THEN b ELSE a

\* The cursor as every read of it resolves it: never behind the high-water mark.
Resolved == Larger(cursor, hwm)

Lines(from, through) == {n \in mine : from <= n /\ n < through}

Alive(f) == pc[f] # "off"

Init ==
    /\ head = 0 /\ earliest = 0 /\ mine = {}
    /\ cursor = 0 /\ hwm = 0 /\ owner = None
    /\ pc = [f \in Followers |-> "off"]
    /\ signal = [f \in Followers |-> FALSE]
    /\ at = [f \in Followers |-> None]
    /\ target = [f \in Followers |-> None]
    /\ inflight = [f \in Followers |-> None]
    /\ overdue = [f \in Followers |-> FALSE]
    /\ ack = [a \in Ackers |-> None]
    /\ delivered = {} /\ skipped = {} /\ faults = 0

(***************************************************************************)
(* The log                                                                 *)
(***************************************************************************)
AppendLine(isMine) ==
    /\ head < LineBound
    /\ head' = head + 1
    /\ mine' = IF isMine THEN mine \cup {head} ELSE mine
    /\ UNCHANGED <<earliest, cursorVars, owner, pc, signal, loopVars, ack, delivered, skipped, faults>>

\* A rotation, whose cost to a consumer that lags EventLog bounds.
Forget ==
    /\ earliest < head
    /\ earliest' = head
    /\ UNCHANGED <<head, mine, cursorVars, owner, pc, signal, loopVars, ack, delivered, skipped, faults>>

(***************************************************************************)
(* The cursor and its high-water mark                                      *)
(***************************************************************************)
\* Mutant: the cursor is written without its high-water mark.
WriteCursor_Alone(pos) ==
    /\ cursor' = pos
    /\ hwm' = hwm

\* write_event_cursor: whatever the caller computed, even from a stale read.
WriteCursor(pos) ==
    /\ cursor' = pos
    /\ hwm' = Larger(hwm, pos)

\* read_or_initialize_event_cursor: heals a rewind and leaves an expired cursor
\* at the earliest line.
SettledCursor == Larger(Resolved, earliest)

(***************************************************************************)
(* Claim, supersede, release                                               *)
(***************************************************************************)
\* A claim beside a live follower needs a second session; one where nobody is
\* alive is the orchestrator's own next run.
Claim(f) ==
    /\ pc[f] = "off"
    /\ \/ /\ \A g \in Followers : ~Alive(g)
          /\ UNCHANGED faults
       \/ /\ \E g \in Followers : Alive(g)
          /\ faults < FaultBound /\ faults' = faults + 1
    /\ signal' = [g \in Followers |->
                    IF g = f THEN FALSE ELSE signal[g] \/ (g = owner /\ Alive(g))]
    /\ owner' = f
    /\ pc' = [pc EXCEPT ![f] = "tick"]
    /\ UNCHANGED <<logVars, cursorVars, loopVars, ack, delivered, skipped>>

Superseded(f) == owner # None /\ owner # f

\* The top of the loop: stop for a signal or a newer follower, or go on.
Tick(f) ==
    /\ pc[f] = "tick"
    /\ pc' = [pc EXCEPT ![f] = IF signal[f] \/ Superseded(f) THEN "release" ELSE "read"]
    /\ UNCHANGED <<logVars, cursorVars, owner, signal, loopVars, ack, delivered, skipped, faults>>

\* --max-lifetime elapsed, or an error ended the loop.
Expires(f) ==
    /\ pc[f] = "tick" /\ faults < FaultBound
    /\ faults' = faults + 1
    /\ pc' = [pc EXCEPT ![f] = "release"]
    /\ UNCHANGED <<logVars, cursorVars, owner, signal, loopVars, ack, delivered, skipped>>

\* Everything the process kept in memory is gone.
Gone(f) ==
    /\ pc' = [pc EXCEPT ![f] = "off"]
    /\ signal' = [signal EXCEPT ![f] = FALSE]
    /\ at' = [at EXCEPT ![f] = None]
    /\ target' = [target EXCEPT ![f] = None]
    /\ inflight' = [inflight EXCEPT ![f] = None]
    /\ overdue' = [overdue EXCEPT ![f] = FALSE]

\* Mutant: the registry is cleared without a look at whose it is.
Release_Blindly(f) ==
    /\ pc[f] = "release"
    /\ owner' = None
    /\ Gone(f)
    /\ UNCHANGED <<logVars, cursorVars, ack, delivered, skipped, faults>>

Release(f) ==
    /\ pc[f] = "release"
    /\ owner' = IF owner = f THEN None ELSE owner
    /\ Gone(f)
    /\ UNCHANGED <<logVars, cursorVars, ack, delivered, skipped, faults>>

\* SIGKILL: the registry keeps naming a dead process.
Kill(f) ==
    /\ Alive(f) /\ faults < FaultBound
    /\ faults' = faults + 1
    /\ Gone(f)
    /\ UNCHANGED <<logVars, cursorVars, owner, ack, delivered, skipped>>

(***************************************************************************)
(* One tick of feed_loop_with                                              *)
(***************************************************************************)
\* Mutant: an emitted batch is never looked at again before the cursor moves.
ShouldScan_Once(f, pos) == inflight[f] = None \/ inflight[f].cursor # pos

ShouldScan(f, pos) ==
    inflight[f] = None \/ inflight[f].cursor # pos \/ overdue[f]

\* A signal ends the wait for either lock of the tick.
LockCancelled(f) ==
    /\ pc[f] \in {"read", "scan"} /\ signal[f]
    /\ pc' = [pc EXCEPT ![f] = "tick"]
    /\ at' = [at EXCEPT ![f] = None]
    /\ UNCHANGED <<logVars, cursorVars, owner, signal, target, inflight, overdue, ack, delivered, skipped, faults>>

ReadCursor(f) ==
    /\ pc[f] = "read"
    /\ cursor' = Resolved
    /\ at' = [at EXCEPT ![f] = IF ShouldScan(f, Resolved) THEN Resolved ELSE None]
    /\ pc' = [pc EXCEPT ![f] = IF ShouldScan(f, Resolved) THEN "scan" ELSE "tick"]
    /\ UNCHANGED <<logVars, hwm, owner, signal, target, inflight, overdue, ack, delivered, skipped, faults>>

Redeliveries(f) ==
    IF inflight[f] # None /\ inflight[f].cursor = at[f] THEN inflight[f].redeliveries + 1 ELSE 0

\* Mutant: no limit on how often a batch goes out again.
Emit_Forever(f) ==
    /\ pc[f] = "scan" /\ at[f] >= earliest
    /\ Lines(at[f], head) # {}
    /\ delivered' = delivered \cup {[from |-> at[f], through |-> head]}
    /\ inflight' = [inflight EXCEPT ![f] = [cursor |-> at[f], redeliveries |-> Redeliveries(f)]]
    /\ overdue' = [overdue EXCEPT ![f] = FALSE]
    /\ at' = [at EXCEPT ![f] = None]
    /\ pc' = [pc EXCEPT ![f] = "tick"]
    /\ UNCHANGED <<logVars, cursorVars, owner, signal, target, ack, skipped, faults>>

\* The batch goes out, or goes out again.
Emit(f) ==
    /\ pc[f] = "scan" /\ at[f] >= earliest
    /\ Lines(at[f], head) # {} /\ Redeliveries(f) <= MaxRedeliveries
    /\ delivered' = delivered \cup {[from |-> at[f], through |-> head]}
    /\ inflight' = [inflight EXCEPT ![f] = [cursor |-> at[f], redeliveries |-> Redeliveries(f)]]
    /\ overdue' = [overdue EXCEPT ![f] = FALSE]
    /\ at' = [at EXCEPT ![f] = None]
    /\ pc' = [pc EXCEPT ![f] = "tick"]
    /\ UNCHANGED <<logVars, cursorVars, owner, signal, target, ack, skipped, faults>>

FindNothing(f) ==
    /\ pc[f] = "scan" /\ at[f] >= earliest
    /\ Lines(at[f], head) = {}
    /\ inflight' = [inflight EXCEPT ![f] = None]
    /\ overdue' = [overdue EXCEPT ![f] = FALSE]
    /\ at' = [at EXCEPT ![f] = None]
    /\ pc' = [pc EXCEPT ![f] = "tick"]
    /\ UNCHANGED <<logVars, cursorVars, owner, signal, target, ack, delivered, skipped, faults>>

\* The batch went unacknowledged too often, or the cursor expired: the follower
\* is about to move the cursor itself, to what it has just read.
GiveUp(f, way, pos) ==
    /\ target' = [target EXCEPT ![f] = pos]
    /\ pc' = [pc EXCEPT ![f] = way]
    /\ UNCHANGED <<logVars, cursorVars, owner, signal, at, inflight, overdue, ack, delivered, skipped, faults>>

FindUnackable(f) ==
    /\ pc[f] = "scan" /\ at[f] >= earliest
    /\ Lines(at[f], head) # {} /\ Redeliveries(f) > MaxRedeliveries
    /\ GiveUp(f, "quarantine", head)

FindExpired(f) ==
    /\ pc[f] = "scan" /\ at[f] < earliest
    /\ GiveUp(f, "resync", earliest)

MoveCursor(f) ==
    /\ WriteCursor(target[f])
    /\ inflight' = [inflight EXCEPT ![f] = None]
    /\ overdue' = [overdue EXCEPT ![f] = FALSE]
    /\ at' = [at EXCEPT ![f] = None]
    /\ target' = [target EXCEPT ![f] = None]
    /\ pc' = [pc EXCEPT ![f] = "tick"]
    /\ UNCHANGED <<logVars, owner, signal, ack, delivered, faults>>

Quarantine(f) ==
    /\ pc[f] = "quarantine"
    /\ MoveCursor(f)
    /\ skipped' = skipped \cup Lines(at[f], target[f])

Resync(f) ==
    /\ pc[f] = "resync"
    /\ MoveCursor(f)
    /\ UNCHANGED skipped

TimePasses(f) ==
    /\ inflight[f] # None /\ ~overdue[f]
    /\ overdue' = [overdue EXCEPT ![f] = TRUE]
    /\ UNCHANGED <<logVars, cursorVars, owner, pc, signal, at, target, inflight, ack, delivered, skipped, faults>>

(***************************************************************************)
(* ack_delivery: of any batch the consumer was ever given, as often and as *)
(* late as it likes                                                        *)
(***************************************************************************)
AckReads(a, batch) ==
    /\ ack[a] = None /\ batch \in delivered
    /\ ack' = [ack EXCEPT ![a] = [batch |-> batch, current |-> SettledCursor]]
    /\ cursor' = SettledCursor
    /\ hwm' = IF Resolved < earliest THEN Larger(hwm, earliest) ELSE hwm
    /\ UNCHANGED <<logVars, owner, pc, signal, loopVars, delivered, skipped, faults>>

\* Behind the cursor already: nothing.  Across a gap: refused.
AckWrites(a) ==
    /\ ack[a] # None
    /\ LET batch == ack[a].batch
           current == ack[a].current
       IN  IF current < batch.through /\ batch.from <= current
           THEN WriteCursor(batch.through)
           ELSE UNCHANGED cursorVars
    /\ ack' = [ack EXCEPT ![a] = None]
    /\ UNCHANGED <<logVars, owner, pc, signal, loopVars, delivered, skipped, faults>>

AckDies(a) ==
    /\ ack[a] # None
    /\ ack' = [ack EXCEPT ![a] = None]
    /\ UNCHANGED <<logVars, cursorVars, owner, pc, signal, loopVars, delivered, skipped, faults>>
-----------------------------------------------------------------------------
Loop(f) ==
    \/ Tick(f) \/ ReadCursor(f) \/ Emit(f) \/ FindNothing(f) \/ FindUnackable(f)
    \/ FindExpired(f) \/ Quarantine(f) \/ Resync(f) \/ Release(f)

Next ==
    \/ \E isMine \in BOOLEAN : AppendLine(isMine)
    \/ Forget
    \/ \E f \in Followers :
          Claim(f) \/ Loop(f) \/ LockCancelled(f) \/ Expires(f) \/ Kill(f) \/ TimePasses(f)
    \/ \E a \in Ackers :
          AckWrites(a) \/ AckDies(a) \/ \E batch \in delivered : AckReads(a, batch)

Spec == Init /\ [][Next]_vars

\* The orchestrator runs the follower again when none is alive, a follower goes
\* round its loop, and time passes.  Nobody has to acknowledge anything.
Fairness ==
    /\ \A f \in Followers : WF_vars(Loop(f)) /\ WF_vars(TimePasses(f))
    /\ WF_vars(\E f \in Followers : Claim(f) /\ \A g \in Followers : ~Alive(g))

FairSpec == Spec /\ Fairness
-----------------------------------------------------------------------------
(* Properties *)

TypeOK ==
    /\ head \in Position /\ earliest \in 0..head /\ mine \in SUBSET (0..(LineBound - 1))
    /\ cursor \in Position /\ hwm \in Position
    /\ owner \in Followers \cup {None}
    /\ pc \in [Followers -> {"off", "tick", "read", "scan", "quarantine", "resync", "release"}]
    /\ signal \in [Followers -> BOOLEAN]
    /\ at \in [Followers -> Position \cup {None}]
    /\ target \in [Followers -> Position \cup {None}]
    /\ inflight \in [Followers -> InFlight \cup {None}]
    /\ overdue \in [Followers -> BOOLEAN]
    /\ ack \in [Ackers -> Ack \cup {None}]
    /\ delivered \in SUBSET Batch
    /\ skipped \in SUBSET (0..(LineBound - 1))
    /\ faults \in 0..FaultBound

\* However claims, exits and kills interleave, at most one follower that was not
\* told to stop consumes the feed, and the registry names it.
OneFollower ==
    \A f \in Followers : pc[f] \notin {"off", "release"} /\ ~signal[f] => owner = f

Handed == UNION {Lines(batch.from, batch.through) : batch \in delivered}
Expired == {n \in mine : n < earliest}

\* The feed is a queue that delivers at least once: whatever stale reads the
\* followers and acknowledgements write the cursor from, its resolved value never
\* goes back, and it passes only lines that were handed over, had expired or were
\* quarantined.
Queue == INSTANCE DeliveryQueue WITH
    lines <- mine, handed <- Handed, givenUp <- Expired \cup skipped, settled <- Resolved
DeliversAtLeastOnce == Queue!Spec

\* Every line of the project reaches the consumer, expires or is quarantined,
\* though no batch is ever acknowledged, followers are killed and supersede
\* each other.
EveryLineIsHandedOver ==
    \A n \in 0..(LineBound - 1) :
        n \in mine ~> n \in Handed \cup Expired \cup skipped

\* What a quarantine skips is a batch the consumer was given and did not
\* acknowledge.
QuarantineSkipsDelivered == skipped \subseteq Handed
=============================================================================
