--------------------------- MODULE EventFeedProofs ---------------------------
(***************************************************************************)
(* What holds of a project's event feed for any number of followers and    *)
(* acknowledgements, any lines and any faults: one consumer at a time, and *)
(* a queue that is delivered at least once.  The cursor is written from    *)
(* reads that may be long stale, so the argument is about the high-water   *)
(* mark: no read is ever ahead of it, and it never goes back.              *)
(***************************************************************************)
EXTENDS EventFeed, TLAPS

\* What one follower holds in memory.
FollowerOK(f) ==
    /\ at[f] # None => at[f] <= hwm
    /\ pc[f] \in {"scan", "quarantine"} => at[f] # None
    /\ pc[f] \in {"quarantine", "resync"} => target[f] # None
    /\ target[f] # None => target[f] <= head
    /\ pc[f] = "resync" => target[f] <= earliest

AckOK(a) == ack[a] # None => ack[a].batch \in delivered /\ ack[a].current <= hwm

LogOK ==
    /\ \A n \in mine : n < head
    /\ \A batch \in delivered : batch.through <= head
    /\ cursor <= hwm /\ hwm <= head
    /\ skipped \subseteq mine

FeedInv ==
    /\ TypeOK
    /\ LogOK
    /\ \A f \in Followers : FollowerOK(f)
    /\ \A a \in Ackers : AckOK(a)

\* The log and the mark only move on.
MovesOn ==
    /\ head' \in Position /\ head <= head'
    /\ earliest' \in Position /\ earliest <= earliest'
    /\ hwm' \in Position /\ hwm <= hwm'
    /\ delivered \subseteq delivered'
-----------------------------------------------------------------------------
LEMMA Facts ==
    ASSUME TypeOK
    PROVE  /\ head \in Nat /\ earliest \in Nat /\ earliest <= head /\ head <= LineBound
           /\ cursor \in Nat /\ hwm \in Nat /\ LineBound \in Nat
           /\ Resolved \in Position /\ SettledCursor \in Position
  BY BoundAssumption DEF TypeOK, Position, Resolved, SettledCursor, Larger

\* Steps of the log.
LEMMA LogSteps ==
    ASSUME FeedInv, (\E isMine \in BOOLEAN : AppendLine(isMine)) \/ Forget
    PROVE  FeedInv' /\ MovesOn
  <1>. USE DEF FeedInv
  <1>0. /\ UNCHANGED <<cursor, hwm, owner, pc, signal, at, target, inflight, overdue, ack, delivered,
                       skipped, faults>>
        /\ \/ earliest' = earliest /\ head < LineBound /\ head' = head + 1 /\ mine' \in {mine, mine \cup {head}}
           \/ earliest' = head /\ head' = head /\ mine' = mine
    BY DEF AppendLine, Forget, cursorVars, loopVars
  <1>1. TypeOK'
    <2>1. head' \in Position /\ earliest' \in 0..head' /\ mine' \in SUBSET (0..(LineBound - 1))
      <3>1. head \in Nat /\ earliest \in Nat /\ earliest <= head /\ head <= LineBound /\ LineBound \in Nat
            /\ mine \subseteq 0..(LineBound - 1)
        BY Facts DEF FeedInv, TypeOK
      <3>2. \/ earliest' = earliest /\ head < LineBound /\ head' = head + 1
            \/ earliest' = head /\ head' = head
        BY <1>0
      <3>3. head' \in Position
        BY <3>1, <3>2 DEF Position
      <3>4. earliest' \in 0..head'
        BY <3>1, <3>2
      <3>5. mine' \subseteq 0..(LineBound - 1)
        <4>. SUFFICES ASSUME NEW n \in mine' PROVE n \in 0..(LineBound - 1)
          OBVIOUS
        <4>1. CASE n \in mine
          BY <3>1, <4>1
        <4>2. CASE n \notin mine
          <5>1. n = head /\ head < LineBound
            BY <1>0, <4>2
          <5>. QED  BY <3>1, <5>1
        <4>. QED  BY <4>1, <4>2
      <3>. QED  BY <3>3, <3>4, <3>5
    <2>. QED  BY <1>0, <2>1 DEF TypeOK
  <1>5. MovesOn
    BY <1>0, <1>1, Facts DEF MovesOn, TypeOK, Position
  <1>2. LogOK'
    <2>1. \A n \in mine : n \in Nat
      BY Facts DEF TypeOK
    <2>2. \A batch \in delivered : batch.through \in Nat
      BY DEF TypeOK, Batch, Position
    <2>. QED  BY <1>0, <2>1, <2>2, Facts DEF LogOK
  <1>3. \A f \in Followers : FollowerOK(f)'
    BY Facts DEF AppendLine, Forget, cursorVars, loopVars, FollowerOK, TypeOK, Position
  <1>4. \A a \in Ackers : AckOK(a)'
    BY DEF AppendLine, Forget, cursorVars, AckOK
  <1>. QED  BY <1>1, <1>2, <1>3, <1>4, <1>5

\* What one follower's step must leave as it was, and what it must establish.
LEMMA FollowerFrame ==
    ASSUME FeedInv, NEW f \in Followers, TypeOK', MovesOn, UNCHANGED <<head, earliest, mine, ack>>,
           cursor' <= hwm', hwm' <= head, skipped' \subseteq mine,
           \A batch \in delivered' : batch.through <= head,
           \A g \in Followers : g # f => at'[g] = at[g] /\ pc'[g] = pc[g] /\ target'[g] = target[g],
           FollowerOK(f)'
    PROVE  FeedInv' /\ MovesOn
  <1>1. LogOK'
    BY DEF FeedInv, LogOK
  <1>2. \A g \in Followers : g # f => FollowerOK(g)'
    BY Facts DEF FeedInv, FollowerOK, MovesOn, TypeOK, Position
  <1>3. \A a \in Ackers : AckOK(a)'
    <2>. SUFFICES ASSUME NEW a \in Ackers, ack[a] # None
                  PROVE  ack[a].batch \in delivered' /\ ack[a].current <= hwm'
      BY DEF AckOK
    <2>1. ack[a].batch \in delivered /\ ack[a].current <= hwm /\ ack[a].current \in Nat
      BY DEF FeedInv, AckOK, TypeOK, Ack, Position
    <2>. QED  BY <2>1, Facts DEF MovesOn, FeedInv, Position
  <1>. QED  BY <1>1, <1>2, <1>3 DEF FeedInv

LEMMA ClaimSteps ==
    ASSUME FeedInv, NEW f \in Followers,
           Claim(f) \/ Tick(f) \/ Expires(f) \/ Release(f) \/ Kill(f) \/ LockCancelled(f) \/ TimePasses(f)
    PROVE  FeedInv' /\ MovesOn
  <1>1. TypeOK'
    <2>1. CASE Claim(f)
      <3>1. faults' \in 0..FaultBound
        BY <2>1, BoundAssumption DEF FeedInv, TypeOK, Claim
      <3>2. signal' \in [Followers -> BOOLEAN]
        BY <2>1 DEF FeedInv, TypeOK, Claim
      <3>. QED  BY <2>1, <3>1, <3>2 DEF FeedInv, TypeOK, Claim, logVars, cursorVars, loopVars
    <2>2. CASE Tick(f) \/ LockCancelled(f) \/ TimePasses(f)
      BY <2>2 DEF FeedInv, TypeOK, Tick, LockCancelled, TimePasses, logVars, cursorVars, loopVars
    <2>3. CASE Expires(f)
      <3>1. faults' \in 0..FaultBound
        BY <2>3, BoundAssumption DEF FeedInv, TypeOK, Expires
      <3>. QED  BY <2>3, <3>1 DEF FeedInv, TypeOK, Expires, logVars, cursorVars, loopVars
    <2>4. CASE Release(f)
      BY <2>4 DEF FeedInv, TypeOK, Release, Gone, logVars, cursorVars
    <2>5. CASE Kill(f)
      <3>1. faults' \in 0..FaultBound
        BY <2>5, BoundAssumption DEF FeedInv, TypeOK, Kill
      <3>. QED  BY <2>5, <3>1 DEF FeedInv, TypeOK, Kill, Gone, logVars, cursorVars
    <2>. QED  BY <2>1, <2>2, <2>3, <2>4, <2>5
  <1>2. /\ UNCHANGED <<head, earliest, mine, cursor, hwm, delivered, ack>>
        /\ MovesOn
    <2>1. UNCHANGED <<head, earliest, mine, cursor, hwm, delivered, ack>>
      BY DEF Claim, Tick, Expires, Release, Kill, LockCancelled, TimePasses, logVars, cursorVars
    <2>. QED  BY <2>1, Facts DEF FeedInv, MovesOn, TypeOK, Position
  <1>3. \A g \in Followers : g # f => at'[g] = at[g] /\ pc'[g] = pc[g] /\ target'[g] = target[g]
    BY DEF FeedInv, TypeOK, Claim, Tick, Expires, Release, Kill, LockCancelled, TimePasses, Gone, loopVars
  <1>4. /\ at'[f] \in {at[f], None} /\ target'[f] \in {target[f], None}
        /\ pc'[f] \notin {"scan", "quarantine", "resync"} \/ UNCHANGED <<at, target, pc>>
    BY DEF FeedInv, TypeOK, Claim, Tick, Expires, Release, Kill, LockCancelled, TimePasses, Gone, loopVars
  <1>5. FollowerOK(f)'
    BY <1>2, <1>4 DEF FeedInv, FollowerOK
  <1>6. skipped' \subseteq mine
    BY DEF FeedInv, LogOK, Claim, Tick, Expires, Release, Kill, LockCancelled, TimePasses
  <1>. QED  BY <1>1, <1>2, <1>3, <1>5, <1>6, FollowerFrame DEF FeedInv, LogOK

LEMMA TickSteps ==
    ASSUME FeedInv, NEW f \in Followers,
           ReadCursor(f) \/ Emit(f) \/ FindNothing(f) \/ FindUnackable(f) \/ FindExpired(f)
    PROVE  FeedInv' /\ MovesOn
  <1>1. TypeOK /\ FollowerOK(f) /\ LogOK
    BY DEF FeedInv
  <1>2. Resolved = hwm
    BY <1>1, Facts DEF LogOK, Resolved, Larger
  <1>3. \A g \in Followers : g # f => at'[g] = at[g] /\ pc'[g] = pc[g] /\ target'[g] = target[g]
    BY <1>1 DEF TypeOK, ReadCursor, Emit, FindNothing, FindUnackable, FindExpired, GiveUp
  <1>4. UNCHANGED <<head, earliest, mine, hwm, owner, signal, ack, skipped, faults>> /\ cursor' \in {cursor, hwm}
    BY <1>2 DEF ReadCursor, Emit, FindNothing, FindUnackable, FindExpired, GiveUp, logVars, cursorVars
  <1>8. skipped' \subseteq mine
    BY <1>1, <1>4 DEF LogOK
  <1>5. CASE ReadCursor(f)
    <2>1. TypeOK'
      BY <1>1, <1>2, <1>5 DEF TypeOK, ReadCursor, logVars
    <2>2. FollowerOK(f)'
      <3>1. /\ at'[f] \in {hwm, None} /\ target'[f] = target[f]
            /\ pc'[f] = "tick" \/ (pc'[f] = "scan" /\ at'[f] = hwm)
        BY <1>1, <1>2, <1>5 DEF TypeOK, ReadCursor
      <3>. QED  BY <1>1, <1>4, <3>1, Facts, NoneAssumption DEF FollowerOK
    <2>3. delivered' = delivered
      BY <1>5 DEF ReadCursor
    <2>4. MovesOn
      BY <1>1, <1>4, <2>3, Facts DEF MovesOn, TypeOK, Position
    <2>5. cursor' <= hwm' /\ hwm' <= head /\ \A batch \in delivered' : batch.through <= head
      BY <1>1, <1>4, <2>3, Facts DEF LogOK
    <2>. QED  BY <1>3, <1>4, <1>8, <2>1, <2>2, <2>4, <2>5, FollowerFrame
  <1>6. CASE Emit(f)
    <2>1. at[f] \in Position /\ head \in Position
      BY <1>1, <1>6 DEF Emit, FollowerOK, TypeOK
    <2>2. Redeliveries(f) \in 0..MaxRedeliveries
      BY <1>1, <1>6, RedeliveryAssumption DEF Emit, Redeliveries, TypeOK, InFlight
    <2>3. inflight' \in [Followers -> InFlight \cup {None}] /\ delivered' \in SUBSET Batch
      BY <1>1, <1>6, <2>1, <2>2 DEF Emit, TypeOK, InFlight, Batch
    <2>4. TypeOK'
      BY <1>1, <1>6, <2>3 DEF Emit, TypeOK, logVars, cursorVars
    <2>5. FollowerOK(f)' /\ delivered \subseteq delivered' /\ cursor' = cursor
          /\ delivered' = delivered \cup {[from |-> at[f], through |-> head]}
      BY <1>1, <1>4, <1>6 DEF Emit, FollowerOK, TypeOK, cursorVars
    <2>6. \A batch \in delivered' : batch.through <= head
      BY <1>1, <2>5, Facts DEF LogOK
    <2>7. MovesOn
      BY <1>1, <1>4, <2>5, Facts DEF MovesOn, TypeOK, Position
    <2>8. cursor' <= hwm' /\ hwm' <= head
      BY <1>1, <1>4, <2>5, Facts DEF LogOK
    <2>. QED  BY <1>3, <1>4, <1>8, <2>4, <2>5, <2>6, <2>7, <2>8, FollowerFrame
  <1>7. CASE FindNothing(f) \/ FindUnackable(f) \/ FindExpired(f)
    <2>1. head \in Position /\ earliest \in Position
      BY <1>1, Facts DEF TypeOK, Position
    <2>2. TypeOK'
      <3>1. CASE FindNothing(f)
        BY <1>1, <3>1 DEF FindNothing, TypeOK, logVars, cursorVars
      <3>2. CASE FindUnackable(f)
        BY <1>1, <3>2, <2>1 DEF FindUnackable, GiveUp, TypeOK, logVars, cursorVars
      <3>3. CASE FindExpired(f)
        BY <1>1, <3>3, <2>1 DEF FindExpired, GiveUp, TypeOK, logVars, cursorVars
      <3>. QED  BY <1>7, <3>1, <3>2, <3>3
    <2>3. UNCHANGED <<delivered, cursor>>
      BY <1>7 DEF FindNothing, FindUnackable, FindExpired, GiveUp, cursorVars
    <2>4. FollowerOK(f)'
      <3>1. CASE FindNothing(f)
        BY <1>1, <1>4, <3>1 DEF FindNothing, FollowerOK, TypeOK
      <3>2. CASE FindUnackable(f)
        BY <1>1, <1>4, <3>2, Facts, NoneAssumption DEF FindUnackable, GiveUp, FollowerOK, TypeOK
      <3>3. CASE FindExpired(f)
        BY <1>1, <1>4, <3>3, Facts, NoneAssumption DEF FindExpired, GiveUp, FollowerOK, TypeOK
      <3>. QED  BY <1>7, <3>1, <3>2, <3>3
    <2>5. MovesOn
      BY <1>1, <1>4, <2>3, Facts DEF MovesOn, TypeOK, Position
    <2>6. cursor' <= hwm' /\ hwm' <= head /\ \A batch \in delivered' : batch.through <= head
      BY <1>1, <1>4, <2>3, Facts DEF LogOK
    <2>. QED  BY <1>3, <1>4, <1>8, <2>2, <2>4, <2>5, <2>6, FollowerFrame
  <1>. QED  BY <1>5, <1>6, <1>7

LEMMA MoveSteps ==
    ASSUME FeedInv, NEW f \in Followers, Quarantine(f) \/ Resync(f)
    PROVE  /\ FeedInv' /\ MovesOn
           /\ target[f] \in Position /\ hwm' = Larger(hwm, target[f])
  <1>1. TypeOK /\ FollowerOK(f) /\ LogOK
    BY DEF FeedInv
  <1>2. /\ target[f] \in Position /\ target[f] <= head
        /\ cursor' = target[f] /\ hwm' = Larger(hwm, target[f])
        /\ UNCHANGED <<head, earliest, mine, ack, delivered>>
    BY <1>1 DEF Quarantine, Resync, MoveCursor, WriteCursor, FollowerOK, TypeOK, logVars
  <1>3. hwm' \in Position /\ hwm <= hwm' /\ target[f] <= hwm' /\ hwm' <= head
    BY <1>1, <1>2, Facts DEF Larger, LogOK, TypeOK, Position
  <1>4. skipped' \in SUBSET (0..(LineBound - 1))
    BY <1>1 DEF Quarantine, Resync, Lines, TypeOK
  <1>5. TypeOK'
    BY <1>1, <1>2, <1>3, <1>4 DEF Quarantine, Resync, MoveCursor, TypeOK, logVars
  <1>6. /\ \A g \in Followers : g # f => at'[g] = at[g] /\ pc'[g] = pc[g] /\ target'[g] = target[g]
        /\ FollowerOK(f)'
    BY <1>1 DEF Quarantine, Resync, MoveCursor, FollowerOK, TypeOK
  <1>7. MovesOn
    BY <1>1, <1>2, <1>3, Facts DEF MovesOn, TypeOK, Position
  <1>8. cursor' <= hwm' /\ \A batch \in delivered' : batch.through <= head
    BY <1>1, <1>2, <1>3 DEF LogOK
  <1>9. skipped' \subseteq mine
    BY <1>1 DEF LogOK, Quarantine, Resync, Lines
  <1>. QED  BY <1>2, <1>3, <1>5, <1>6, <1>7, <1>8, <1>9, FollowerFrame

LEMMA AckSteps ==
    ASSUME FeedInv, NEW a \in Ackers,
           AckWrites(a) \/ AckDies(a) \/ \E batch \in delivered : AckReads(a, batch)
    PROVE  FeedInv' /\ MovesOn
  <1>1. TypeOK /\ LogOK /\ AckOK(a)
    BY DEF FeedInv
  <1>2. UNCHANGED <<head, earliest, mine, owner, pc, signal, at, target, inflight, overdue, delivered, skipped, faults>>
    BY DEF AckWrites, AckDies, AckReads, logVars, loopVars
  <1>3. /\ cursor' \in Position /\ hwm' \in Position
        /\ cursor' <= hwm' /\ hwm' <= head /\ hwm <= hwm'
        /\ ack' \in [Ackers -> Ack \cup {None}]
        /\ AckOK(a)'
    <2>1. CASE AckWrites(a)
      <3>1. ack[a].batch \in delivered /\ ack[a].batch \in Batch /\ ack[a].batch.through \in Nat
            /\ ack[a].batch.through \in Position /\ ack[a].batch.through <= head
        BY <1>1, <2>1 DEF AckWrites, AckOK, LogOK, TypeOK, Batch, Position
      <3>2. (cursor' = cursor /\ hwm' = hwm)
            \/ (cursor' = ack[a].batch.through /\ hwm' = Larger(hwm, ack[a].batch.through))
        BY <2>1 DEF AckWrites, WriteCursor, cursorVars
      <3>3. /\ cursor' \in Position /\ hwm' \in Position
            /\ cursor' <= hwm' /\ hwm' <= head /\ hwm <= hwm'
        BY <1>1, <3>1, <3>2, Facts DEF Larger, LogOK, TypeOK
      <3>. QED  BY <1>1, <2>1, <3>3 DEF AckWrites, AckOK, TypeOK
    <2>2. CASE AckDies(a)
      BY <1>1, <2>2, Facts DEF AckDies, cursorVars, AckOK, LogOK, TypeOK
    <2>3. CASE \E batch \in delivered : AckReads(a, batch)
      <3>1. PICK batch \in delivered : AckReads(a, batch)
        BY <2>3
      <3>2. Resolved = hwm /\ SettledCursor = Larger(hwm, earliest)
        BY <1>1, Facts DEF LogOK, Resolved, SettledCursor, Larger
      <3>3. cursor' = Larger(hwm, earliest) /\ hwm' = Larger(hwm, earliest)
        BY <3>1, <3>2, Facts DEF AckReads, Larger
      <3>4. Larger(hwm, earliest) \in Position /\ hwm <= Larger(hwm, earliest) /\ Larger(hwm, earliest) <= head
        BY <1>1, Facts DEF Larger, LogOK, Position
      <3>5. ack' = [ack EXCEPT ![a] = [batch |-> batch, current |-> Larger(hwm, earliest)]]
        BY <3>1, <3>2 DEF AckReads
      <3>6. batch \in Batch
        BY <1>1 DEF TypeOK
      <3>7. ack' \in [Ackers -> Ack \cup {None}] /\ AckOK(a)'
        BY <1>1, <1>2, <3>3, <3>4, <3>5, <3>6 DEF TypeOK, Ack, AckOK, Position
      <3>. QED  BY <3>3, <3>4, <3>7, Facts, <1>1 DEF Position
    <2>. QED  BY <2>1, <2>2, <2>3
  <1>4. TypeOK'
    BY <1>1, <1>2, <1>3 DEF TypeOK
  <1>5. MovesOn
    BY <1>1, <1>2, <1>3, Facts DEF MovesOn, Position
  <1>6. LogOK'
    BY <1>1, <1>2, <1>3 DEF LogOK
  <1>7. \A g \in Followers : FollowerOK(g)'
    BY <1>1, <1>2, <1>3, Facts DEF FeedInv, FollowerOK, TypeOK, Position
  <1>8. \A b \in Ackers : AckOK(b)'
    <2>1. \A b \in Ackers : b # a => ack'[b] = ack[b]
      BY <1>1 DEF AckWrites, AckDies, AckReads, TypeOK
    <2>2. \A b \in Ackers : ack[b] # None => ack[b].current \in Nat
      BY <1>1 DEF TypeOK, Ack, Position
    <2>. QED  BY <1>2, <1>3, <2>1, <2>2, Facts, <1>1 DEF FeedInv, AckOK, Position
  <1>. QED  BY <1>4, <1>5, <1>6, <1>7, <1>8 DEF FeedInv
-----------------------------------------------------------------------------
LEMMA FeedInit == Init => FeedInv
  <1>. SUFFICES ASSUME Init PROVE FeedInv
    OBVIOUS
  <1>1. TypeOK
    BY BoundAssumption DEF Init, TypeOK, Position
  <1>2. LogOK
    BY DEF Init, LogOK
  <1>. QED  BY <1>1, <1>2 DEF Init, FeedInv, FollowerOK, AckOK

LEMMA FeedStep == FeedInv /\ [Next]_vars => FeedInv' /\ MovesOn
  <1>. SUFFICES ASSUME FeedInv, [Next]_vars PROVE FeedInv' /\ MovesOn
    OBVIOUS
  <1>1. CASE UNCHANGED vars
    <2>1. UNCHANGED <<head, earliest, hwm, delivered>> /\ TypeOK
      BY <1>1 DEF vars, FeedInv
    <2>2. MovesOn
      BY <2>1, Facts DEF MovesOn, TypeOK, Position
    <2>3. FeedInv'
      BY <1>1 DEF vars, FeedInv, TypeOK, LogOK, FollowerOK, AckOK
    <2>. QED  BY <2>2, <2>3
  <1>2. CASE Next
    BY <1>2, LogSteps, ClaimSteps, TickSteps, MoveSteps, AckSteps DEF Next, Loop
  <1>. QED  BY <1>1, <1>2

\* No position anybody read or is about to write is ahead of what the log holds,
\* and no read of the cursor is ahead of its high-water mark.
THEOREM FeedIsSound == Spec => []FeedInv
  BY FeedInit, FeedStep, PTL DEF Spec

(* The state of the feed stays well typed, redeliveries within their limit. *)
THEOREM FeedTypes == Spec => []TypeOK
  <1>1. FeedInv => TypeOK
    BY DEF FeedInv
  <1>. QED  BY <1>1, FeedIsSound, PTL
-----------------------------------------------------------------------------
(* One consumer. *)
LEMMA OneFollowerStays ==
    ASSUME TypeOK, OneFollower, [Next]_vars
    PROVE  OneFollower'
  <1>1. CASE \E f \in Followers : Claim(f)
    <2>1. PICK f \in Followers : Claim(f)
      BY <1>1
    <2>2. \A g \in Followers : g # f => pc'[g] = pc[g]
      BY <2>1 DEF Claim, TypeOK
    <2>3. \A g \in Followers : g # f => (signal'[g] <=> (signal[g] \/ (g = owner /\ Alive(g))))
      BY <2>1 DEF Claim, TypeOK
    <2>4. \A g \in Followers : g # f /\ pc'[g] \notin {"off", "release"} => signal'[g]
      BY <2>2, <2>3 DEF OneFollower, Alive
    <2>5. owner' = f
      BY <2>1 DEF Claim
    <2>. QED  BY <2>4, <2>5 DEF OneFollower
  <1>2. CASE \E f \in Followers : Release(f)
    <2>1. PICK f \in Followers : Release(f)
      BY <1>2
    <2>2. \A g \in Followers : g # f => pc'[g] = pc[g] /\ signal'[g] = signal[g]
      BY <2>1 DEF Release, Gone, TypeOK
    <2>3. pc'[f] = "off"
      BY <2>1 DEF Release, Gone, TypeOK
    <2>4. owner' = IF owner = f THEN None ELSE owner
      BY <2>1 DEF Release
    <2>. QED  BY <2>2, <2>3, <2>4 DEF OneFollower
  <1>3. CASE \E f \in Followers : Kill(f)
    <2>1. PICK f \in Followers : Kill(f)
      BY <1>3
    <2>2. \A g \in Followers : g # f => pc'[g] = pc[g] /\ signal'[g] = signal[g]
      BY <2>1 DEF Kill, Gone, TypeOK
    <2>3. pc'[f] = "off" /\ owner' = owner
      BY <2>1 DEF Kill, Gone, TypeOK
    <2>. QED  BY <2>2, <2>3 DEF OneFollower
  <1>4. CASE \E f \in Followers :
                \/ Tick(f) \/ ReadCursor(f) \/ Emit(f) \/ FindNothing(f) \/ FindUnackable(f)
                \/ FindExpired(f) \/ Quarantine(f) \/ Resync(f) \/ LockCancelled(f) \/ Expires(f)
    <2>1. PICK f \in Followers :
                \/ Tick(f) \/ ReadCursor(f) \/ Emit(f) \/ FindNothing(f) \/ FindUnackable(f)
                \/ FindExpired(f) \/ Quarantine(f) \/ Resync(f) \/ LockCancelled(f) \/ Expires(f)
      BY <1>4
    <2>2. signal' = signal /\ owner' = owner /\ pc[f] \notin {"off", "release"}
      BY <2>1 DEF Tick, ReadCursor, Emit, FindNothing, FindUnackable, FindExpired, GiveUp, Quarantine, Resync,
         MoveCursor, LockCancelled, Expires
    <2>3. \A g \in Followers : g # f => pc'[g] = pc[g]
      BY <2>1 DEF Tick, ReadCursor, Emit, FindNothing, FindUnackable, FindExpired, GiveUp, Quarantine, Resync,
         MoveCursor, LockCancelled, Expires, TypeOK
    <2>. QED  BY <2>2, <2>3 DEF OneFollower
  <1>5. CASE UNCHANGED <<pc, signal, owner>>
    BY <1>5 DEF OneFollower
  <1>. QED
    <2>1. CASE UNCHANGED vars
      BY <2>1, <1>5 DEF vars
    <2>2. CASE \/ \E isMine \in BOOLEAN : AppendLine(isMine)
               \/ Forget
               \/ \E f \in Followers : TimePasses(f)
               \/ \E a \in Ackers :
                     AckWrites(a) \/ AckDies(a) \/ \E batch \in delivered : AckReads(a, batch)
      BY <2>2, <1>5 DEF AppendLine, Forget, TimePasses, AckWrites, AckDies, AckReads
    <2>. QED  BY <2>1, <2>2, <1>1, <1>2, <1>3, <1>4 DEF Next, Loop

\* Whatever claims, exits and kills race, a follower that was not told to stop is
\* the one the registry names: two consumers never run side by side for good.
THEOREM OneConsumer == Spec => []OneFollower
  <1>1. Init => OneFollower
    BY DEF Init, OneFollower
  <1>. QED  BY <1>1, OneFollowerStays, FeedTypes, PTL DEF Spec
-----------------------------------------------------------------------------
(* At least once. *)
LEMMA HandedGrows ==
    ASSUME FeedInv, mine' = mine, delivered \subseteq delivered'
    PROVE  Handed \subseteq Handed' /\ Handed' \subseteq mine
  BY DEF Handed, Lines

LEMMA HandedStays ==
    ASSUME FeedInv, delivered' = delivered, mine \subseteq mine',
           \A n \in mine' \ mine : n = head
    PROVE  Handed' = Handed
  <1>1. \A batch \in delivered : Lines(batch.from, batch.through)' = Lines(batch.from, batch.through)
    <2>. SUFFICES ASSUME NEW batch \in delivered, NEW n \in mine' \ mine
                  PROVE  ~(n < batch.through)
      BY DEF Lines
    <2>1. batch.through <= head /\ batch.through \in Nat /\ n = head /\ head \in Nat
      BY Facts DEF FeedInv, LogOK, TypeOK, Batch, Position
    <2>. QED  BY <2>1
  <1>. QED  BY <1>1 DEF Handed

LEMMA SettledIsMark ==
    ASSUME FeedInv
    PROVE  Resolved = hwm
  BY Facts DEF FeedInv, LogOK, Resolved, Larger

LEMMA GivenUpGrows ==
    ASSUME FeedInv, MovesOn, mine' = mine, skipped \subseteq skipped', skipped' \subseteq mine
    PROVE  /\ Expired \cup skipped \subseteq (Expired \cup skipped)'
           /\ (Expired \cup skipped)' \subseteq mine
  <1>1. \A n \in mine : n \in Nat
    BY DEF FeedInv, TypeOK
  <1>. QED  BY <1>1, Facts DEF FeedInv, MovesOn, Expired, Position

\* A step that writes no line and settles only what was handed over or given up.
LEMMA SettlingStep ==
    ASSUME FeedInv, FeedInv', MovesOn, mine' = mine, delivered' = delivered, skipped \subseteq skipped',
           \A n \in mine : hwm <= n /\ n < hwm' => n \in Handed \cup (Expired \cup skipped)'
    PROVE  [Queue!Next]_(Queue!vars)
  <1>1. Resolved = hwm /\ Resolved' = hwm' /\ hwm' \in Nat /\ hwm' >= hwm
    <2>1. Resolved = hwm
      BY SettledIsMark
    <2>2. Resolved' = hwm'
      BY BoundAssumption DEF FeedInv, LogOK, TypeOK, Position, Resolved, Larger
    <2>. QED  BY <2>1, <2>2, Facts DEF MovesOn, FeedInv, Position
  <1>2. skipped' \subseteq mine
    BY DEF FeedInv, LogOK
  <1>3. Handed' = Handed
    BY HandedStays
  <1>4. Queue!Settle
    BY <1>1, <1>2, <1>3, GivenUpGrows DEF Queue!Settle
  <1>. QED  BY <1>4 DEF Queue!Next

\* Steps that leave the log, the mark and what was given up alone.
LEMMA FollowersQuiet ==
    ASSUME FeedInv, FeedInv', NEW f \in Followers,
           \/ Claim(f) \/ Tick(f) \/ Expires(f) \/ Release(f) \/ Kill(f) \/ LockCancelled(f) \/ TimePasses(f)
           \/ ReadCursor(f) \/ FindNothing(f) \/ FindUnackable(f) \/ FindExpired(f)
    PROVE  UNCHANGED Queue!vars
  <1>1. UNCHANGED <<head, earliest, mine, hwm, delivered, skipped>>
    BY DEF Claim, Tick, Expires, Release, Kill, LockCancelled, TimePasses, ReadCursor, FindNothing,
       FindUnackable, FindExpired, GiveUp, logVars, cursorVars
  <1>2. Resolved = hwm /\ Resolved' = hwm'
    BY SettledIsMark, BoundAssumption DEF FeedInv, LogOK, TypeOK, Position, Resolved, Larger
  <1>3. Handed' = Handed /\ Expired' = Expired
    BY <1>1 DEF Handed, Lines, Expired
  <1>. QED  BY <1>1, <1>2, <1>3 DEF Queue!vars

LEMMA EmitHandsOver ==
    ASSUME FeedInv, FeedInv', NEW f \in Followers, Emit(f)
    PROVE  [Queue!Next]_(Queue!vars)
  <1>1. UNCHANGED <<head, earliest, mine, hwm, cursor, skipped>> /\ delivered \subseteq delivered'
    BY DEF Emit, logVars, cursorVars
  <1>2. Resolved' = Resolved /\ Expired' = Expired
    BY <1>1 DEF Resolved, Expired
  <1>3. Queue!HandOver
    BY <1>1, <1>2, HandedGrows DEF Queue!HandOver
  <1>. QED  BY <1>3 DEF Queue!Next

LEMMA LogPublishes ==
    ASSUME FeedInv, FeedInv', MovesOn, (\E isMine \in BOOLEAN : AppendLine(isMine)) \/ Forget
    PROVE  [Queue!Next]_(Queue!vars)
  <1>1. CASE Forget
    <2>1. mine' = mine /\ hwm' = hwm /\ UNCHANGED <<delivered, skipped>>
      BY <1>1 DEF Forget, cursorVars
    <2>2. \A n \in mine : ~(hwm <= n /\ n < hwm')
      BY <2>1, Facts DEF FeedInv, TypeOK
    <2>. QED  BY <2>1, <2>2, SettlingStep
  <1>2. CASE \E isMine \in BOOLEAN : AppendLine(isMine)
    <2>1. /\ UNCHANGED <<earliest, cursor, hwm, delivered, skipped>>
          /\ mine' = mine \/ mine' = mine \cup {head}
      BY <1>2 DEF AppendLine, cursorVars
    <2>2. Handed' = Handed /\ Resolved' = Resolved
      BY <2>1, HandedStays DEF Resolved
    <2>3. head \in Nat /\ earliest \in Nat /\ earliest <= head /\ hwm <= head
      BY Facts DEF FeedInv, LogOK
    <2>4. Expired' = Expired
      BY <2>1, <2>3 DEF Expired
    <2>5. CASE mine' = mine
      BY <2>1, <2>2, <2>4, <2>5 DEF Queue!vars
    <2>6. CASE mine' = mine \cup {head}
      <3>1. mine \subseteq Nat
        BY DEF FeedInv, TypeOK
      <3>2. \A n \in mine : n < head
        BY DEF FeedInv, LogOK
      <3>3. Resolved <= head
        BY <2>3, SettledIsMark
      <3>4. Queue!Publish
        BY <2>1, <2>2, <2>3, <2>4, <2>6, <3>1, <3>2, <3>3 DEF Queue!Publish
      <3>. QED  BY <3>4 DEF Queue!Next
    <2>. QED  BY <2>1, <2>5, <2>6
  <1>. QED  BY <1>1, <1>2

LEMMA MovesSettle ==
    ASSUME FeedInv, FeedInv', MovesOn, NEW f \in Followers, Quarantine(f) \/ Resync(f)
    PROVE  [Queue!Next]_(Queue!vars)
  <1>1. TypeOK /\ FollowerOK(f)
    BY DEF FeedInv
  <1>2. /\ target[f] \in Position /\ hwm' = Larger(hwm, target[f])
        /\ UNCHANGED <<mine, earliest, delivered>>
    BY MoveSteps DEF Quarantine, Resync, MoveCursor, logVars
  <1>3. \A n \in mine : n \in Nat /\ (hwm <= n /\ n < hwm' => n < target[f])
    BY <1>1, <1>2, Facts DEF Larger, TypeOK, Position
  <1>4. CASE Quarantine(f)
    <2>1. at[f] \in Nat /\ at[f] <= hwm
      BY <1>1, <1>4 DEF Quarantine, FollowerOK, TypeOK, Position
    <2>2. \A n \in mine : hwm <= n /\ n < hwm' => n \in Lines(at[f], target[f])
      BY <1>1, <1>3, <2>1, Facts DEF Lines
    <2>3. skipped' = skipped \cup Lines(at[f], target[f])
      BY <1>4 DEF Quarantine
    <2>. QED  BY <1>2, <2>2, <2>3, SettlingStep
  <1>5. CASE Resync(f)
    <2>1. target[f] <= earliest /\ skipped' = skipped
      BY <1>1, <1>2, <1>5, NoneAssumption DEF Resync, FollowerOK
    <2>2. \A n \in mine : hwm <= n /\ n < hwm' => n \in Expired'
      BY <1>1, <1>2, <1>3, <2>1, Facts DEF Expired, Position
    <2>. QED  BY <1>2, <2>1, <2>2, SettlingStep
  <1>. QED  BY <1>4, <1>5

LEMMA AcksSettle ==
    ASSUME FeedInv, FeedInv', MovesOn, NEW a \in Ackers,
           AckWrites(a) \/ AckDies(a) \/ \E batch \in delivered : AckReads(a, batch)
    PROVE  [Queue!Next]_(Queue!vars)
  <1>1. TypeOK /\ LogOK /\ AckOK(a)
    BY DEF FeedInv
  <1>2. UNCHANGED <<mine, earliest, delivered, skipped>>
    BY DEF AckWrites, AckDies, AckReads, logVars
  <1>3. \A n \in mine : n \in Nat
    BY <1>1 DEF TypeOK
  <1>4. CASE hwm' = hwm
    <2>1. \A n \in mine : ~(hwm <= n /\ n < hwm')
      BY <1>1, <1>3, <1>4, Facts
    <2>. QED  BY <1>2, <2>1, SettlingStep
  <1>5. CASE AckWrites(a) /\ hwm' # hwm
    <2>. DEFINE batch == ack[a].batch
    <2>1. /\ batch \in delivered /\ batch.from \in Nat /\ batch.through \in Nat
          /\ ack[a].current \in Nat /\ ack[a].current <= hwm
      BY <1>1, <1>5 DEF AckWrites, AckOK, TypeOK, Batch, Ack, Position
    <2>2. batch.from <= ack[a].current /\ hwm' = Larger(hwm, batch.through)
      BY <1>5 DEF AckWrites, WriteCursor, cursorVars
    <2>3. \A n \in mine : hwm <= n /\ n < hwm' => n \in Lines(batch.from, batch.through)
      BY <1>1, <1>3, <2>1, <2>2, Facts DEF Larger, Lines
    <2>4. \A n \in mine : hwm <= n /\ n < hwm' => n \in Handed
      BY <2>1, <2>3 DEF Handed
    <2>. QED  BY <1>2, <2>4, SettlingStep
  <1>6. CASE \E batch \in delivered : AckReads(a, batch)
    <2>1. hwm' = Larger(hwm, earliest)
      BY <1>1, <1>6, SettledIsMark, Facts DEF AckReads, Larger
    <2>2. \A n \in mine : hwm <= n /\ n < hwm' => n \in Expired'
      BY <1>1, <1>2, <1>3, <2>1, Facts DEF Larger, Expired
    <2>. QED  BY <1>2, <2>2, SettlingStep
  <1>. QED  BY <1>4, <1>5, <1>6 DEF AckDies, cursorVars

\* The claims, stale reads, redeliveries and late acknowledgements of any number
\* of processes deliver every line at least once: none is settled unseen.
THEOREM AtLeastOnce == Spec => DeliversAtLeastOnce
  <1>1. Init => Queue!Init
    <2>. SUFFICES ASSUME Init PROVE Queue!Init
      OBVIOUS
    <2>1. mine = {} /\ Handed = {} /\ Expired \cup skipped = {} /\ Resolved = 0
      BY DEF Init, Handed, Expired, Resolved, Larger
    <2>. QED  BY <2>1 DEF Queue!Init
  <1>2. FeedInv /\ [Next]_vars => [Queue!Next]_(Queue!vars)
    <2>. SUFFICES ASSUME FeedInv, [Next]_vars PROVE [Queue!Next]_(Queue!vars)
      OBVIOUS
    <2>1. FeedInv' /\ MovesOn
      BY FeedStep
    <2>2. CASE UNCHANGED vars
      <3>1. UNCHANGED Queue!vars
        BY <2>2 DEF vars, Queue!vars, Handed, Lines, Expired, Resolved
      <3>. QED  BY <3>1
    <2>3. CASE Next
      BY <2>1, <2>3, FollowersQuiet, EmitHandsOver, LogPublishes, MovesSettle, AcksSettle DEF Next, Loop
    <2>. QED  BY <2>2, <2>3
  <1>. QED  BY <1>1, <1>2, FeedIsSound, PTL DEF Spec, DeliversAtLeastOnce, Queue!Spec
=============================================================================
