------------------------ MODULE MessageDeliveryProofs ------------------------
(***************************************************************************)
(* MessageDelivery for any messages, channels and number of failures: its  *)
(* types, what its hooks drain, and that it implements MessageReceipt.     *)
(***************************************************************************)
EXTENDS MessageDelivery, TLAPS

\* What a message's process and its line in the log tell about each other, and
\* about the lines of the message in the event log.
Logged(m) == sender[m] \in {"appended", "pushed", "over"}
LogOrder ==
    /\ \A i \in DOMAIN log : Logged(log[i])
    /\ \A m \in printed : Logged(m)
    /\ \A m \in Messages : "push" \in record[m] => sender[m] \in {"pushed", "over"}
    /\ \A m \in Messages : "undeliverable" \in record[m] => sender[m] = "refused"

\* Whoever is about to write a line may.
Evidence ==
    /\ \A j \in jobs : j.does \in {"ack", "worker"} => j.msg \in printed
    /\ \A j \in jobs : j.does \in {"arm", "timeout"} => "push" \in record[j.msg]
    /\ \A m \in pending : "push" \in record[m]
    /\ \A m \in Messages : "worker" \in record[m] => m \in printed
    /\ \A m \in Messages : "timeout" \in record[m] => "push" \in record[m]
    /\ \A m \in Messages : sender[m] = "pushed" => "push" \in record[m]

\* How far a drain is, and what it has given the agent.
DrainCovers ==
    /\ cursor # None => cursor \in 1..(Len(log) + 1)
    /\ drain # None => session = "live"
    /\ drain # None /\ drain.step \in {"polled", "acking"} =>
           \A i \in drain.next..drain.total : log[i] \in printed
    /\ drain # None /\ runner = "hooks" =>
           /\ cursor # None
           /\ drain.step = "counted" => drain.next <= cursor
           /\ drain.step = "acking" => \A i \in cursor..drain.total : log[i] \in printed

Inv == TypeOK /\ LogOrder /\ Evidence /\ DrainCovers

-----------------------------------------------------------------------------
(* Steps by what they leave alone. *)

\* Steps of the session that neither read a message nor tell the daemon.
QuietStep ==
    \/ \E channel \in Channels : ResetBeacon(channel)
    \/ SpawnSession \/ SessionDies \/ SeedCursor \/ WriteBeacon
    \/ CountLines \/ AdvanceCursor \/ HookDies \/ PollAdvances \/ PollEnds

SenderStep(m) ==
    \/ Accept(m) \/ AppendMessage(m) \/ NotifyDaemon(m) \/ RecordPush(m)
    \/ PushDirective(m) \/ \E isDone \in BOOLEAN : Refuse(m, isDone)

DaemonStep(m) ==
    ArmTimer(m) \/ TakeAck(m) \/ \E who \in {"worker", "timeout"} : RecordAck(m, who)

LEMMA NextCases ==
    ASSUME [Next]_vars
    PROVE  \/ \E m \in Messages : SenderStep(m) \/ DaemonStep(m)
           \/ QuietStep \/ PrintBatch \/ PollLines \/ SendAck
           \/ \E expired \in SUBSET pending : Reap(expired)
           \/ HubDies \/ HubStarts
           \/ UNCHANGED vars
  BY DEF Next, Sending, Working, Serving, SenderStep, DaemonStep, QuietStep, Messages

LEMMA QuietStepFrame ==
    ASSUME QuietStep
    PROVE  UNCHANGED <<sender, log, printed, hubVars, record>>
  BY DEF QuietStep, ResetBeacon, SpawnSession, SessionDies, SeedCursor, WriteBeacon,
         CountLines, AdvanceCursor, HookDies, PollAdvances, PollEnds

-----------------------------------------------------------------------------
(* Types *)

LEMMA SenderTypes ==
    ASSUME TypeOK, NEW m \in Messages, SenderStep(m)
    PROVE  TypeOK'
  <1>. USE DEF TypeOK, workerVars, hubVars, Proceeds, Writes, Stages
  <1>1. CASE Accept(m)
    BY <1>1 DEF Accept
  <1>2. CASE AppendMessage(m)
    <2>1. log' \in Seq(Messages) /\ Len(log') = Len(log) + 1
      BY <1>2 DEF AppendMessage
    <2>. QED
      BY <1>2, <2>1 DEF AppendMessage, Drain
  <1>3. CASE NotifyDaemon(m)
    BY <1>3 DEF NotifyDaemon, Jobs
  <1>4. CASE RecordPush(m)
    BY <1>4 DEF RecordPush
  <1>5. CASE PushDirective(m)
    <2>1. log' \in Seq(Messages) /\ Len(log') = Len(log) + 1
      BY <1>5 DEF PushDirective
    <2>. QED
      BY <1>5, <2>1 DEF PushDirective, Drain
  <1>6. ASSUME NEW isDone \in BOOLEAN, Refuse(m, isDone) PROVE TypeOK'
    BY <1>6 DEF Refuse
  <1>. QED
    BY <1>1, <1>2, <1>3, <1>4, <1>5, <1>6 DEF SenderStep

LEMMA DaemonTypes ==
    ASSUME TypeOK, NEW m \in Messages, DaemonStep(m)
    PROVE  TypeOK'
  <1>. USE DEF TypeOK, workerVars, hubVars, Turns, Writes, Jobs
  <1>1. CASE ArmTimer(m)
    BY <1>1 DEF ArmTimer
  <1>2. CASE TakeAck(m)
    BY <1>2 DEF TakeAck
  <1>3. ASSUME NEW who \in {"worker", "timeout"}, RecordAck(m, who) PROVE TypeOK'
    BY <1>3 DEF RecordAck
  <1>. QED
    BY <1>1, <1>2, <1>3 DEF DaemonStep

LEMMA SessionTypes ==
    ASSUME TypeOK, DrainCovers, QuietStep
    PROVE  TypeOK'
  <1>. USE DEF TypeOK, hubVars, Fault
  <1>1. ASSUME NEW channel \in Channels, ResetBeacon(channel) PROVE TypeOK'
    BY <1>1 DEF ResetBeacon
  <1>2. CASE SpawnSession
    BY <1>2 DEF SpawnSession, Orphaned
  <1>3. CASE SessionDies
    BY <1>3 DEF SessionDies, Orphaned
  <1>4. CASE SeedCursor
    BY <1>4 DEF SeedCursor
  <1>5. CASE WriteBeacon
    BY <1>5 DEF WriteBeacon
  <1>6. CASE CountLines
    <2>1. Len(log) \in Nat /\ cursor \in 1..(Len(log) + 1)
      BY <1>6 DEF CountLines, DrainCovers
    <2>2. FirstUnread(Len(log)) = cursor
      BY <2>1 DEF FirstUnread
    <2>. QED
      BY <1>6, <2>1, <2>2 DEF CountLines, Drain
  <1>7. CASE AdvanceCursor
    BY <1>7 DEF AdvanceCursor, Drain
  <1>8. CASE HookDies
    BY <1>8 DEF HookDies
  <1>9. CASE PollAdvances
    BY <1>9 DEF PollAdvances, Drain
  <1>10. CASE PollEnds
    BY <1>10 DEF PollEnds
  <1>. QED
    BY <1>1, <1>2, <1>3, <1>4, <1>5, <1>6, <1>7, <1>8, <1>9, <1>10 DEF QuietStep

LEMMA LinesAreMessages ==
    ASSUME TypeOK, NEW from \in Nat, NEW to \in Nat
    PROVE  Lines(from, to) \subseteq Messages
  BY DEF TypeOK, Lines

LEMMA ReadingTypes ==
    ASSUME TypeOK, DrainCovers, PrintBatch \/ PollLines \/ SendAck
    PROVE  TypeOK'
  <1>. USE DEF TypeOK, hubVars
  <1>1. CASE PrintBatch
    <2>1. drain \in Drain
      BY <1>1 DEF PrintBatch
    <2>2. Lines(drain.next, drain.total) \subseteq Messages
      BY <2>1, LinesAreMessages DEF Drain
    <2>. QED
      BY <1>1, <2>1, <2>2 DEF PrintBatch, Drain
  <1>2. CASE PollLines
    <2>. DEFINE next == IF cursor = None THEN 1 ELSE cursor
    <2>1. next \in 1..(Len(log) + 1) /\ Len(log) \in Nat
      BY DEF DrainCovers
    <2>2. Lines(next, Len(log)) \subseteq Messages
      BY <2>1, LinesAreMessages
    <2>3. /\ printed' = printed \cup Lines(next, Len(log))
          /\ drain' = [step |-> "polled", next |-> next, total |-> Len(log)]
      BY <1>2 DEF PollLines
    <2>4. drain' \in Drain /\ drain'.total <= Len(log) /\ drain'.next \in 1..(drain'.total + 1)
      BY <2>1, <2>3 DEF Drain
    <2>. HIDE DEF next
    <2>. QED
      BY <1>2, <2>2, <2>3, <2>4 DEF PollLines
  <1>3. CASE SendAck
    <2>1. drain \in Drain /\ drain.next \in 1..drain.total /\ drain.total <= Len(log)
      BY <1>3 DEF SendAck, Drain
    <2>2. drain.next \in DOMAIN log
      BY <2>1 DEF Drain
    <2>3. jobs' \in SUBSET Jobs
      BY <1>3, <2>2 DEF SendAck, Jobs
    <2>4. drain' \in Drain /\ drain'.total = drain.total /\ drain'.next = drain.next + 1
      BY <1>3, <2>1 DEF SendAck, Drain
    <2>. QED
      BY <1>3, <2>1, <2>3, <2>4 DEF SendAck, Drain
  <1>. QED
    BY <1>1, <1>2, <1>3

LEMMA TypesStep ==
    ASSUME TypeOK, DrainCovers, [Next]_vars
    PROVE  TypeOK'
  <1>1. ASSUME NEW expired \in SUBSET pending, Reap(expired) PROVE TypeOK'
    BY <1>1 DEF Reap, TypeOK, Jobs, workerVars
  <1>2. CASE HubDies
    <2>1. faults' \in Nat
      BY <1>2 DEF HubDies, TypeOK, Fault
    <2>2. hub' \in BOOLEAN /\ pending' = {} /\ jobs' = {}
      BY <1>2, Zenon DEF HubDies
    <2>3. UNCHANGED <<sender, log, workerVars, record>>
      BY <1>2 DEF HubDies
    <2>. QED
      BY <2>1, <2>2, <2>3 DEF TypeOK, workerVars
  <1>3. CASE HubStarts
    BY <1>3 DEF HubStarts, TypeOK, workerVars
  <1>4. CASE UNCHANGED vars
    BY <1>4 DEF TypeOK, vars, workerVars, hubVars
  <1>. QED
    BY <1>1, <1>2, <1>3, <1>4, NextCases, SenderTypes, DaemonTypes, SessionTypes, ReadingTypes

-----------------------------------------------------------------------------
(* What may be in the log and in the event log *)

LEMMA SenderKeepsOrder ==
    ASSUME TypeOK, LogOrder, Evidence, NEW m \in Messages, SenderStep(m)
    PROVE  LogOrder'
  <1>. USE DEF TypeOK, LogOrder, Logged, Proceeds, Writes, Stages
  <1>1. CASE Accept(m)
    BY <1>1 DEF Accept, workerVars
  <1>2. CASE AppendMessage(m) \/ PushDirective(m)
    <2>1. /\ sender' = [sender EXCEPT ![m] = "appended"] /\ log' = Append(log, m)
          /\ sender[m] \in {"idle", "accepted"} /\ UNCHANGED <<printed, record>>
      BY <1>2 DEF AppendMessage, PushDirective, workerVars
    <2>2. \A i \in DOMAIN log' : log'[i] \in Messages /\ (log'[i] = m \/ Logged(log'[i]))
      BY <2>1
    <2>3. \A i \in DOMAIN log' : Logged(log[i])'
      BY <2>1, <2>2
    <2>. QED
      BY <2>1, <2>3
  <1>3. CASE NotifyDaemon(m)
    BY <1>3 DEF NotifyDaemon, workerVars
  <1>4. CASE RecordPush(m)
    BY <1>4 DEF RecordPush, workerVars
  <1>5. ASSUME NEW isDone \in BOOLEAN, Refuse(m, isDone) PROVE LogOrder'
    BY <1>5 DEF Refuse, workerVars
  <1>. QED
    BY <1>1, <1>2, <1>3, <1>4, <1>5 DEF SenderStep

LEMMA OrderStep ==
    ASSUME TypeOK, LogOrder, Evidence, [Next]_vars
    PROVE  LogOrder'
  <1>1. ASSUME NEW m \in Messages, DaemonStep(m) PROVE LogOrder'
    BY <1>1 DEF DaemonStep, ArmTimer, TakeAck, RecordAck, Writes, workerVars, TypeOK, LogOrder, Logged
  <1>2. CASE QuietStep
    BY <1>2, QuietStepFrame DEF LogOrder, Logged
  <1>3. CASE PrintBatch \/ PollLines
    <2>1. \A m \in printed' : m \in printed \/ \E i \in DOMAIN log : m = log[i]
      BY <1>3 DEF PrintBatch, PollLines, Lines
    <2>. QED
      BY <1>3, <2>1 DEF PrintBatch, PollLines, LogOrder, Logged
  <1>4. CASE SendAck
    BY <1>4 DEF SendAck, LogOrder, Logged
  <1>5. ASSUME NEW expired \in SUBSET pending, Reap(expired) PROVE LogOrder'
    BY <1>5 DEF Reap, LogOrder, Logged, workerVars
  <1>6. CASE HubDies \/ HubStarts
    BY <1>6 DEF HubDies, HubStarts, LogOrder, Logged, workerVars
  <1>7. CASE UNCHANGED vars
    BY <1>7 DEF vars, LogOrder, Logged, workerVars
  <1>. QED
    BY <1>1, <1>2, <1>3, <1>4, <1>5, <1>6, <1>7, NextCases, SenderKeepsOrder

LEMMA SenderKeepsEvidence ==
    ASSUME TypeOK, LogOrder, Evidence, NEW m \in Messages, SenderStep(m)
    PROVE  Evidence'
  <1>. USE DEF TypeOK, LogOrder, Evidence, Proceeds, Writes, Jobs
  <1>1. CASE Accept(m)
    BY <1>1 DEF Accept, workerVars, hubVars
  <1>2. CASE AppendMessage(m) \/ PushDirective(m)
    BY <1>2 DEF AppendMessage, PushDirective, workerVars, hubVars
  <1>3. CASE NotifyDaemon(m)
    BY <1>3 DEF NotifyDaemon, workerVars
  <1>4. CASE RecordPush(m)
    BY <1>4 DEF RecordPush, workerVars, hubVars
  <1>5. ASSUME NEW isDone \in BOOLEAN, Refuse(m, isDone) PROVE Evidence'
    BY <1>5 DEF Refuse, workerVars, hubVars
  <1>. QED
    BY <1>1, <1>2, <1>3, <1>4, <1>5 DEF SenderStep

LEMMA DaemonKeepsEvidence ==
    ASSUME TypeOK, Evidence, NEW m \in Messages, DaemonStep(m)
    PROVE  Evidence'
  <1>. USE DEF TypeOK, Evidence, Takes, Turns, Writes, Jobs, workerVars
  <1>1. CASE ArmTimer(m)
    BY <1>1 DEF ArmTimer
  <1>2. CASE TakeAck(m)
    BY <1>2 DEF TakeAck
  <1>3. ASSUME NEW who \in {"worker", "timeout"}, RecordAck(m, who) PROVE Evidence'
    BY <1>3 DEF RecordAck
  <1>. QED
    BY <1>1, <1>2, <1>3 DEF DaemonStep

LEMMA EvidenceStep ==
    ASSUME TypeOK, LogOrder, Evidence, DrainCovers, [Next]_vars
    PROVE  Evidence'
  <1>1. CASE QuietStep
    BY <1>1, QuietStepFrame DEF Evidence, hubVars
  <1>2. CASE PrintBatch \/ PollLines
    BY <1>2 DEF PrintBatch, PollLines, Evidence, hubVars
  <1>3. CASE SendAck
    <2>1. drain.next \in drain.next..drain.total
      BY <1>3 DEF SendAck, TypeOK, Drain
    <2>2. log[drain.next] \in printed
      BY <1>3, <2>1 DEF SendAck, DrainCovers
    <2>3. jobs' \subseteq jobs \cup {[does |-> "ack", msg |-> log[drain.next]]}
      BY <1>3 DEF SendAck
    <2>4. UNCHANGED <<pending, printed, record, sender>>
      BY <1>3 DEF SendAck
    <2>. QED
      BY <2>2, <2>3, <2>4 DEF Evidence
  <1>4. ASSUME NEW expired \in SUBSET pending, Reap(expired) PROVE Evidence'
    BY <1>4 DEF Reap, Evidence, workerVars
  <1>5. CASE HubDies \/ HubStarts
    BY <1>5 DEF HubDies, HubStarts, Evidence, workerVars
  <1>6. CASE UNCHANGED vars
    BY <1>6 DEF vars, Evidence, workerVars, hubVars
  <1>. QED
    BY <1>1, <1>2, <1>3, <1>4, <1>5, <1>6, NextCases, SenderKeepsEvidence, DaemonKeepsEvidence

-----------------------------------------------------------------------------
(* What a drain has given the agent *)

LEMMA AppendingKeepsDrain ==
    ASSUME TypeOK, DrainCovers, NEW m \in Messages, AppendMessage(m) \/ PushDirective(m)
    PROVE  DrainCovers'
  <1>1. log' = Append(log, m) /\ UNCHANGED <<cursor, session, drain, runner, printed>>
    BY DEF AppendMessage, PushDirective, workerVars
  <1>2. Len(log') = Len(log) + 1 /\ Len(log) \in Nat /\ \A i \in 1..Len(log) : log'[i] = log[i]
    BY <1>1 DEF TypeOK
  <1>3. cursor # None => cursor \in 1..(Len(log) + 1) /\ cursor \in Nat
    BY DEF DrainCovers, TypeOK
  <1>4. drain # None => /\ drain.next \in Nat /\ drain.total \in Nat
                        /\ drain.total <= Len(log) /\ drain.next >= 1
    BY DEF TypeOK, Drain
  <1>5. drain # None => \A i \in drain.next..drain.total : log'[i] = log[i]
    BY <1>2, <1>4
  <1>6. drain # None /\ cursor # None => \A i \in cursor..drain.total : log'[i] = log[i]
    BY <1>2, <1>3, <1>4
  <1>. QED
    BY <1>1, <1>2, <1>3, <1>4, <1>5, <1>6 DEF DrainCovers

LEMMA SessionKeepsDrain ==
    ASSUME TypeOK, DrainCovers, QuietStep
    PROVE  DrainCovers'
  <1>. USE DEF TypeOK, DrainCovers
  <1>1. ASSUME NEW channel \in Channels, ResetBeacon(channel) PROVE DrainCovers'
    BY <1>1 DEF ResetBeacon, hubVars
  <1>2. CASE SpawnSession \/ SessionDies
    BY <1>2 DEF SpawnSession, SessionDies
  <1>3. CASE SeedCursor
    BY <1>3 DEF SeedCursor
  <1>4. CASE WriteBeacon
    BY <1>4 DEF WriteBeacon
  <1>5. CASE CountLines
    <2>1. Len(log) \in Nat /\ cursor \in 1..(Len(log) + 1)
      BY <1>5 DEF CountLines
    <2>2. FirstUnread(Len(log)) = cursor
      BY <2>1 DEF FirstUnread
    <2>3. drain' = [step |-> "counted", next |-> cursor, total |-> Len(log)]
      BY <1>5, <2>2 DEF CountLines
    <2>4. session = "live" /\ cursor # None /\ UNCHANGED <<log, cursor, session, runner, printed>>
      BY <1>5 DEF CountLines, Reads
    <2>. QED
      BY <2>1, <2>3, <2>4
  <1>6. CASE AdvanceCursor
    <2>1. drain' = None /\ cursor' = drain.total + 1 /\ log' = log
      BY <1>6 DEF AdvanceCursor
    <2>2. drain.total \in Nat /\ drain.total <= Len(log) /\ Len(log) \in Nat
      BY <1>6 DEF AdvanceCursor, Drain
    <2>. QED
      BY <2>1, <2>2
  <1>7. CASE HookDies \/ PollEnds
    BY <1>7 DEF HookDies, PollEnds
  <1>8. CASE PollAdvances
    <2>1. drain \in Drain /\ drain' = [drain EXCEPT !.step = "acking"] /\ drain.step = "polled"
      BY <1>8 DEF PollAdvances
    <2>2. drain'.next = drain.next /\ drain'.total = drain.total
      BY <2>1 DEF Drain
    <2>3. /\ runner = "polling" /\ session = "live" /\ cursor' = Len(log) + 1 /\ Len(log) \in Nat
          /\ UNCHANGED <<log, runner, session, printed>>
      BY <1>8 DEF PollAdvances, Reads
    <2>4. drain # None
      BY <1>8 DEF PollAdvances
    <2>. QED
      BY <2>1, <2>2, <2>3, <2>4
  <1>. QED
    BY <1>1, <1>2, <1>3, <1>4, <1>5, <1>6, <1>7, <1>8 DEF QuietStep

LEMMA ReadingKeepsDrain ==
    ASSUME TypeOK, DrainCovers, PrintBatch \/ PollLines \/ SendAck
    PROVE  DrainCovers'
  <1>. USE DEF TypeOK, DrainCovers
  <1>1. CASE PrintBatch
    <2>1. drain # None /\ drain \in Drain /\ drain.step = "counted" /\ drain' = [drain EXCEPT !.step = "acking"]
      BY <1>1 DEF PrintBatch
    <2>2. drain'.next = drain.next /\ drain'.total = drain.total /\ drain'.step = "acking"
      BY <2>1 DEF Drain
    <2>3. drain.next \in Nat /\ drain.next >= 1 /\ drain.total \in Nat /\ drain.total <= Len(log)
      BY <2>1 DEF Drain
    <2>4. /\ UNCHANGED <<log, cursor, session, runner>>
          /\ printed' = printed \cup Lines(drain.next, drain.total)
      BY <1>1 DEF PrintBatch
    <2>5. \A i \in drain.next..drain.total : log[i] \in printed'
      BY <2>3, <2>4 DEF Lines
    <2>6. runner = "hooks" => \A i \in cursor..drain.total : log[i] \in printed'
      <3>1. runner = "hooks" => drain.next <= cursor /\ cursor \in Nat
        BY <2>1
      <3>. QED
        BY <2>3, <2>5, <3>1
    <2>. QED
      BY <2>1, <2>2, <2>4, <2>5, <2>6
  <1>2. CASE PollLines
    <2>. DEFINE next == IF cursor = None THEN 1 ELSE cursor
    <2>1. next \in 1..(Len(log) + 1) /\ Len(log) \in Nat
      OBVIOUS
    <2>2. /\ printed' = printed \cup Lines(next, Len(log))
          /\ drain' = [step |-> "polled", next |-> next, total |-> Len(log)]
          /\ runner = "polling" /\ session = "live"
          /\ UNCHANGED <<log, cursor, session, runner>>
      BY <1>2 DEF PollLines, Reads
    <2>. HIDE DEF next
    <2>3. \A i \in next..Len(log) : log[i] \in printed'
      BY <2>1, <2>2 DEF Lines
    <2>. QED
      BY <2>1, <2>2, <2>3
  <1>3. CASE SendAck
    <2>1. drain # None /\ drain \in Drain /\ drain.step = "acking" /\ drain' = [drain EXCEPT !.next = @ + 1]
      BY <1>3 DEF SendAck
    <2>2. drain'.next = drain.next + 1 /\ drain'.total = drain.total /\ drain'.step = "acking"
      BY <2>1 DEF Drain
    <2>3. drain.next \in Nat /\ drain.total \in Nat
      BY <2>1 DEF Drain
    <2>4. UNCHANGED <<log, cursor, session, runner, printed>>
      BY <1>3 DEF SendAck
    <2>5. \A i \in (drain.next + 1)..drain.total : log[i] \in printed
      BY <2>1, <2>3
    <2>. QED
      BY <2>1, <2>2, <2>4, <2>5
  <1>. QED
    BY <1>1, <1>2, <1>3

LEMMA DrainStep ==
    ASSUME TypeOK, DrainCovers, [Next]_vars
    PROVE  DrainCovers'
  <1>1. ASSUME NEW m \in Messages, SenderStep(m) PROVE DrainCovers'
    <2>1. CASE AppendMessage(m) \/ PushDirective(m)
      BY <2>1, AppendingKeepsDrain
    <2>2. CASE Accept(m) \/ NotifyDaemon(m) \/ RecordPush(m) \/ \E isDone \in BOOLEAN : Refuse(m, isDone)
      BY <2>2 DEF Accept, NotifyDaemon, RecordPush, Refuse, workerVars, DrainCovers
    <2>. QED
      BY <1>1, <2>1, <2>2 DEF SenderStep
  <1>2. ASSUME NEW m \in Messages, DaemonStep(m) PROVE DrainCovers'
    BY <1>2 DEF DaemonStep, ArmTimer, TakeAck, RecordAck, workerVars, DrainCovers
  <1>3. ASSUME NEW expired \in SUBSET pending, Reap(expired) PROVE DrainCovers'
    BY <1>3 DEF Reap, workerVars, DrainCovers
  <1>4. CASE HubDies \/ HubStarts
    BY <1>4 DEF HubDies, HubStarts, workerVars, DrainCovers
  <1>5. CASE UNCHANGED vars
    BY <1>5 DEF vars, workerVars, DrainCovers
  <1>. QED
    BY <1>1, <1>2, <1>3, <1>4, <1>5, NextCases, SessionKeepsDrain, ReadingKeepsDrain

-----------------------------------------------------------------------------
(* Theorems *)

\* The invariant that the theorems below rest on: who may write what, and what a
\* drain has shown, in every reachable state.
THEOREM Invariant == Spec => []Inv
  <1>1. Init => Inv
    BY DEF Init, Inv, TypeOK, LogOrder, Evidence, DrainCovers, Stages, Jobs
  <1>2. Inv /\ [Next]_vars => Inv'
    BY TypesStep, OrderStep, EvidenceStep, DrainStep DEF Inv
  <1>. QED
    BY <1>1, <1>2, PTL DEF Spec

\* Every variable keeps its type; in particular a drain is always inside the log.
THEOREM TypeCorrect == Spec => []TypeOK
  BY Invariant, PTL DEF Inv

\* Under hooks no message is passed by the cursor unread (MESSAGE_DRAIN_STOP_SH:
\* at-least-once, never silently dropped).
THEOREM NothingSkipped == Spec => NothingIsDrainedUnread
  <1>. DEFINE Passed == runner = "hooks" /\ cursor # None /\ cursor' # cursor =>
                           \A i \in DOMAIN log : cursor <= i /\ i < cursor' => log[i] \in printed
  <1>1. Inv /\ [Next]_vars => Passed
    <2>. SUFFICES ASSUME Inv, [Next]_vars PROVE Passed
      OBVIOUS
    <2>1. CASE AdvanceCursor
      <3>1. drain # None /\ drain.step = "acking" /\ runner = "hooks" /\ cursor' = drain.total + 1
        BY <2>1 DEF AdvanceCursor, Reads
      <3>2. \A i \in cursor..drain.total : log[i] \in printed
        BY <3>1 DEF Inv, DrainCovers
      <3>3. drain.total \in Nat /\ cursor \in Nat \cup {None} /\ DOMAIN log \subseteq Nat
        BY <3>1 DEF Inv, TypeOK, Drain
      <3>4. cursor # None => \A i \in DOMAIN log : cursor <= i /\ i < drain.total + 1 => i \in cursor..drain.total
        BY <3>3
      <3>. QED
        BY <3>1, <3>2, <3>4
    <2>2. CASE SeedCursor
      BY <2>2 DEF SeedCursor
    <2>3. CASE PollAdvances
      BY <2>3 DEF PollAdvances, Reads
    <2>4. CASE UNCHANGED cursor
      BY <2>4
    <2>. QED
      BY <2>1, <2>2, <2>3, <2>4
      DEF Next, vars, workerVars, Sending, Accept, AppendMessage, NotifyDaemon, Refuse, PushDirective,
          RecordPush, Working, ResetBeacon, SpawnSession, SessionDies, WriteBeacon, CountLines, PrintBatch,
          SendAck, HookDies, PollLines, PollEnds, Serving, ArmTimer, TakeAck, RecordAck, Reap, HubDies, HubStarts
  <1>. QED
    BY <1>1, Invariant, PTL DEF Spec, NothingIsDrainedUnread

-----------------------------------------------------------------------------
(* MessageDelivery implements MessageReceipt *)

Answers == [m \in Messages |-> Delivery(m)]

\* A step that writes one line of m moves the answer for m, or none.
LEMMA OneAnswerMoves ==
    ASSUME TypeOK, NEW m \in Messages, NEW line, Writes(m, line), UNCHANGED printed,
           \/ Delivery(m)' = Delivery(m)
           \/ /\ <<Delivery(m), Delivery(m)'>> \in Receipts!Moves
              /\ Delivery(m)' = "delivered" => m \in printed
    PROVE  [Receipts!Next]_(Receipts!vars)
  <1>1. \A x \in Messages : x # m => Delivery(x)' = Delivery(x)
    BY DEF Writes, Delivery, TypeOK
  <1>2. CASE Delivery(m)' = Delivery(m)
    <2>1. \A x \in Messages : Delivery(x)' = Delivery(x)
      BY <1>1, <1>2
    <2>2. Answers' = Answers
      BY <2>1 DEF Answers
    <2>. QED
      BY <2>2 DEF Receipts!vars, Answers
  <1>3. CASE /\ <<Delivery(m), Delivery(m)'>> \in Receipts!Moves
             /\ Delivery(m)' = "delivered" => m \in printed
    <2>1. Answers' = [Answers EXCEPT ![m] = Answers'[m]]
      BY <1>1 DEF Answers
    <2>2. Answers[m] = Delivery(m) /\ Answers'[m] = Delivery(m)'
      BY DEF Answers
    <2>3. Receipts!Answer(m)
      BY <1>3, <2>1, <2>2 DEF Receipts!Answer, Answers
    <2>. QED
      BY <2>3 DEF Receipts!Next
  <1>. QED
    BY <1>2, <1>3

LEMMA WritingMoves ==
    ASSUME Inv, NEW m \in Messages,
           \/ RecordPush(m) \/ \E isDone \in BOOLEAN : Refuse(m, isDone)
           \/ \E who \in {"worker", "timeout"} : RecordAck(m, who)
    PROVE  [Receipts!Next]_(Receipts!vars)
  <1>. USE DEF Inv, Delivery, Receipts!Moves
  <1>1. CASE RecordPush(m)
    <2>1. Writes(m, "push") /\ sender[m] = "appended" /\ UNCHANGED printed
      BY <1>1 DEF RecordPush, Proceeds, workerVars
    <2>2. "undeliverable" \notin record[m] /\ "timeout" \notin record[m] /\ "push" \notin record[m]
      BY <2>1 DEF LogOrder, Evidence
    <2>3. record'[m] = record[m] \cup {"push"}
      BY <2>1 DEF Writes, TypeOK
    <2>4. \/ Delivery(m)' = Delivery(m)
          \/ Delivery(m) = "unknown" /\ Delivery(m)' = "queued"
      BY <2>2, <2>3
    <2>. QED
      BY <2>1, <2>4, OneAnswerMoves
  <1>2. ASSUME NEW isDone \in BOOLEAN, Refuse(m, isDone) PROVE [Receipts!Next]_(Receipts!vars)
    <2>1. Writes(m, "undeliverable") /\ sender[m] = "idle" /\ UNCHANGED printed
      BY <1>2 DEF Refuse, Proceeds, workerVars
    <2>2. m \notin printed
      BY <2>1 DEF LogOrder, Logged
    <2>3. "push" \notin record[m] /\ "undeliverable" \notin record[m]
      BY <2>1 DEF LogOrder
    <2>4. "worker" \notin record[m] /\ "timeout" \notin record[m]
      BY <2>2, <2>3 DEF Evidence
    <2>5. record'[m] = record[m] \cup {"undeliverable"}
      BY <2>1 DEF Writes, TypeOK
    <2>6. Delivery(m) = "unknown" /\ Delivery(m)' = "undeliverable"
      BY <2>3, <2>4, <2>5
    <2>. QED
      BY <2>1, <2>6, OneAnswerMoves
  <1>3. CASE RecordAck(m, "worker")
    <2>1. Writes(m, "worker") /\ [does |-> "worker", msg |-> m] \in jobs /\ UNCHANGED printed
      BY <1>3 DEF RecordAck, Takes, workerVars
    <2>2. m \in printed
      BY <2>1 DEF Evidence
    <2>3. "undeliverable" \notin record[m]
      BY <2>2 DEF LogOrder, Logged
    <2>4. record'[m] = record[m] \cup {"worker"}
      BY <2>1 DEF Writes, TypeOK
    <2>5. Delivery(m)' = "delivered" /\ Delivery(m) \in {"delivered", "unknown", "queued", "timed out"}
      BY <2>3, <2>4
    <2>. QED
      BY <2>1, <2>2, <2>5, OneAnswerMoves
  <1>4. CASE RecordAck(m, "timeout")
    <2>1. Writes(m, "timeout") /\ [does |-> "timeout", msg |-> m] \in jobs /\ UNCHANGED printed
      BY <1>4 DEF RecordAck, Takes, workerVars
    <2>2. "push" \in record[m]
      BY <2>1 DEF Evidence
    <2>3. "undeliverable" \notin record[m]
      BY <2>2 DEF LogOrder
    <2>4. record'[m] = record[m] \cup {"timeout"}
      BY <2>1 DEF Writes, TypeOK
    <2>5. \/ Delivery(m)' = Delivery(m)
          \/ Delivery(m) = "queued" /\ Delivery(m)' = "timed out"
      BY <2>2, <2>3, <2>4
    <2>. QED
      BY <2>1, <2>5, OneAnswerMoves
  <1>. QED
    BY <1>1, <1>2, <1>3, <1>4

LEMMA NotWritingMoves ==
    ASSUME Inv, Inv', UNCHANGED record, printed \subseteq printed'
    PROVE  [Receipts!Next]_(Receipts!vars)
  <1>1. [m \in Messages |-> Delivery(m)]' = [m \in Messages |-> Delivery(m)]
    BY DEF Delivery
  <1>2. printed' \subseteq Messages
    BY DEF Inv, TypeOK
  <1>3. Receipts!Read
    BY <1>1, <1>2 DEF Receipts!Read
  <1>. QED
    BY <1>3 DEF Receipts!Next

\* The answers of `message status` only become more certain, and what is reported
\* as delivered was read (event_log.rs, message_delivery_status).
THEOREM ReceiptsHold == Spec => ReceiptsAreHonest
  <1>1. Init => Receipts!Init
    BY DEF Init, Receipts!Init, Delivery
  <1>2. Inv /\ Inv' /\ [Next]_vars => [Receipts!Next]_(Receipts!vars)
    <2>. SUFFICES ASSUME Inv, Inv', [Next]_vars PROVE [Receipts!Next]_(Receipts!vars)
      OBVIOUS
    <2>1. ASSUME NEW m \in Messages,
                 \/ RecordPush(m) \/ \E isDone \in BOOLEAN : Refuse(m, isDone)
                 \/ \E who \in {"worker", "timeout"} : RecordAck(m, who)
          PROVE  [Receipts!Next]_(Receipts!vars)
      BY <2>1, WritingMoves
    <2>2. CASE PrintBatch \/ PollLines
      BY <2>2, NotWritingMoves DEF PrintBatch, PollLines
    <2>3. CASE UNCHANGED <<record, printed>>
      BY <2>3, NotWritingMoves
    <2>4. \/ PrintBatch \/ PollLines \/ UNCHANGED <<record, printed>>
          \/ \E m \in Messages : \/ RecordPush(m) \/ \E isDone \in BOOLEAN : Refuse(m, isDone)
                                \/ \E who \in {"worker", "timeout"} : RecordAck(m, who)
      <3>1. ASSUME NEW m \in Messages, SenderStep(m)
            PROVE  \/ RecordPush(m) \/ \E isDone \in BOOLEAN : Refuse(m, isDone)
                   \/ UNCHANGED <<record, printed>>
        BY <3>1 DEF SenderStep, Accept, AppendMessage, NotifyDaemon, PushDirective, workerVars
      <3>2. ASSUME NEW m \in Messages, DaemonStep(m)
            PROVE  \/ \E who \in {"worker", "timeout"} : RecordAck(m, who)
                   \/ UNCHANGED <<record, printed>>
        BY <3>2 DEF DaemonStep, ArmTimer, TakeAck, workerVars
      <3>3. CASE QuietStep
        BY <3>3, QuietStepFrame
      <3>4. CASE SendAck \/ (\E expired \in SUBSET pending : Reap(expired)) \/ HubDies \/ HubStarts
        BY <3>4 DEF SendAck, Reap, HubDies, HubStarts, workerVars
      <3>5. CASE UNCHANGED vars
        BY <3>5 DEF vars, workerVars
      <3>. QED
        BY <3>1, <3>2, <3>3, <3>4, <3>5, NextCases
    <2>. QED
      BY <2>1, <2>2, <2>3, <2>4
  <1>. QED
    BY <1>1, <1>2, Invariant, PTL DEF Spec, ReceiptsAreHonest, Receipts!Spec
=============================================================================
