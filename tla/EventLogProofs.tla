--------------------------- MODULE EventLogProofs ---------------------------
(***************************************************************************)
(* What holds of the event log for any projects, any sizes and any order   *)
(* of failures and crashes.  The argument: beside a journal the files and  *)
(* the index are in one of three shapes, and the step the lock's holder is *)
(* at says in which.                                                       *)
(***************************************************************************)
EXTENDS EventLog, FiniteSetTheorems, TLAPS

\* The index names the first line of each file, and the files meet.
Names(idx) ==
    /\ Head(idx) = written
    /\ current # None => idx.base = current.first
    /\ idx.previous # None => /\ rotated # None
                              /\ rotated.first = idx.previous
                              /\ rotated.first + rotated.len = idx.base

\* The three shapes of a journal.
NotRenamed == index.base = journal.base /\ CurrentIsSource
Pending == index.base = journal.base /\ current = None /\ RotatedIsSource
Completed == index = NewIndex /\ RotatedIsSource

Shapes == journal # None => journal.len > 0 /\ (NotRenamed \/ Pending \/ Completed)

Unrenamed == journal # None => NotRenamed \/ Completed

StepTells ==
    /\ step = "journaled" => journal # None /\ NotRenamed /\ current.len = journal.len
    /\ step = "renamed" => journal # None /\ Pending
    /\ step \in {"recovered", "indexed"} => journal # None /\ Completed
    /\ step \in {"loaded", "write"} => Unrenamed

LogInv == TypeOK /\ Names(RecoveredIndex) /\ Shapes /\ StepTells
-----------------------------------------------------------------------------
(* A pending rename is exactly what recovery completes. *)
LEMMA PendingIsRecovered ==
    ASSUME TypeOK, Shapes, journal # None, Pending
    PROVE  RenameIsPending /\ RecoveredIndex = NewIndex /\ ~NotRenamed /\ ~Completed
  BY NoneAssumption DEF TypeOK, Shapes, Pending, NotRenamed, Completed, RenameIsPending, RecoveredIndex,
     NewIndex, CurrentIsSource, Journal, Index

LEMMA OthersAreNot ==
    ASSUME TypeOK, Shapes, Unrenamed
    PROVE  RecoveredIndex = index /\ (journal # None => JournalIsSpent)
  BY NoneAssumption DEF TypeOK, Shapes, Pending, NotRenamed, Completed, RenameIsPending, RecoveredIndex,
     NewIndex, CurrentIsSource, RotatedIsSource, JournalIsSpent, Unrenamed, Journal, Index, Generation
-----------------------------------------------------------------------------
(* Types. *)
LEMMA LockTypes ==
    ASSUME TypeOK, LockToAppend \/ \E p \in Projects : LockToRead(p) \/ LockToInit(p)
    PROVE  TypeOK'
  <1>1. PICK t \in Task : Lock(t)
    BY DEF LockToAppend, LockToRead, LockToInit, Task
  <1>. QED  BY <1>1 DEF Lock, TypeOK, Steps, logVars, cursorVars

LEMMA LoadTypes ==
    ASSUME TypeOK, Loading
    PROVE  TypeOK'
  <1>1. CASE LoadIndex
    BY <1>1 DEF LoadIndex, DropJournal, TypeOK, Steps, cursorVars
  <1>2. CASE CommitPending
    <2>1. journal # None /\ index' = NewIndex
      BY <1>2 DEF CommitPending
    <2>2. index' \in Index
      BY <2>1 DEF TypeOK, NewIndex, Index, Journal
    <2>. QED  BY <1>2, <2>2 DEF CommitPending, TypeOK, Steps, cursorVars
  <1>3. CASE DropRecovered
    BY <1>3 DEF DropRecovered, DropJournal, TypeOK, Steps, cursorVars
  <1>4. CASE LoadFails
    BY <1>4 DEF LoadFails, Release, TypeOK, Steps, logVars, cursorVars
  <1>. QED  BY <1>1, <1>2, <1>3, <1>4 DEF Loading

LEMMA RotationTypes ==
    ASSUME LogInv, Rotation
    PROVE  TypeOK'
  <1>. USE DEF LogInv
  <1>1. CASE SkipRotation
    BY <1>1 DEF SkipRotation, TypeOK, Steps, logVars, cursorVars
  <1>2. CASE BeginRotation
    <2>1. journal' \in Journal
      BY <1>2, NoneAssumption DEF BeginRotation, RotationIsDue, TypeOK, Journal, Index, Generation
    <2>2. losses' \in SUBSET Projects
      BY <1>2 DEF BeginRotation, RotationLosses, Lagging
    <2>. QED  BY <1>2, <2>1, <2>2 DEF BeginRotation, TypeOK, Steps, cursorVars
  <1>3. CASE JournalFails
    BY <1>3 DEF JournalFails, TypeOK, Steps, logVars, cursorVars
  <1>4. CASE Rename
    BY <1>4 DEF Rename, TypeOK, Steps, cursorVars
  <1>5. CASE RenameFails
    BY <1>5 DEF RenameFails, DropJournal, Release, TypeOK, Steps, cursorVars
  <1>6. CASE SaveIndex
    <2>1. index' \in Index
      BY <1>6 DEF SaveIndex, StepTells, TypeOK, NewIndex, Index, Journal
    <2>. QED  BY <1>6, <2>1 DEF SaveIndex, TypeOK, Steps, cursorVars
  <1>7. CASE SaveFails
    BY <1>7 DEF SaveFails, Release, TypeOK, Steps, logVars, cursorVars
  <1>8. CASE FinishRotation
    BY <1>8 DEF FinishRotation, DropJournal, TypeOK, Steps, cursorVars
  <1>. QED  BY <1>1, <1>2, <1>3, <1>4, <1>5, <1>6, <1>7, <1>8 DEF Rotation

\* What one write adds: the lines that name the losers, and its own.
LEMMA WritesLines ==
    ASSUME TypeOK, Write
    PROVE  /\ Cardinality(losses) + 1 \in Nat \ {0}
           /\ current' = [first |-> IF current = None THEN written ELSE current.first,
                          len |-> Length(current) + (Cardinality(losses) + 1)]
           /\ written' = written + (Cardinality(losses) + 1)
           /\ UNCHANGED <<rotated, index, journal>>
           /\ step' = "free"
  <1>1. Cardinality(losses) \in Nat
    BY ProjectsAssumption, FS_Subset, FS_CardinalityType DEF TypeOK
  <1>. QED  BY <1>1 DEF Write, Release

LEMMA WriteLeavesFile ==
    ASSUME TypeOK, Write \/ WriteFails
    PROVE  current' \in Generation
  <1>1. CASE Write
    <2>1. Length(current) \in Nat
      BY DEF Length, TypeOK, Generation
    <2>2. (IF current = None THEN written ELSE current.first) \in Nat
      BY DEF TypeOK, Generation
    <2>. QED  BY <1>1, <2>1, <2>2, WritesLines DEF Generation
  <1>2. CASE WriteFails
    BY <1>2 DEF WriteFails, TypeOK, Generation
  <1>. QED  BY <1>1, <1>2

LEMMA WriteTypes ==
    ASSUME TypeOK, Write \/ WriteFails \/ Crash
    PROVE  TypeOK'
  <1>1. CASE Write
    <2>1. written' \in Nat
      BY <1>1, WritesLines DEF TypeOK
    <2>. QED  BY <1>1, <2>1, WriteLeavesFile DEF Write, Release, TypeOK, Steps, cursorVars
  <1>2. CASE WriteFails
    BY <1>2, WriteLeavesFile DEF WriteFails, Release, TypeOK, Steps, cursorVars
  <1>3. CASE Crash
    BY <1>3 DEF Crash, Release, TypeOK, Steps, logVars, cursorVars
  <1>. QED  BY <1>1, <1>2, <1>3

\* Readers write positions only.
LEMMA PositionsAreNumbers ==
    ASSUME TypeOK
    PROVE  index.base \in Nat /\ Earliest(index) \in Nat /\ Head(index) \in Nat
  BY DEF TypeOK, Earliest, Head, Length, Index, Generation

LEMMA ReaderTypes ==
    ASSUME TypeOK, NEW p \in Projects,
           \/ TakeCursor(p) \/ InitCursor(p) \/ Scan(p) \/ WriteCursor(p) \/ ReaderDies(p)
           \/ \E liveness \in {"idle", "unregistered"} : Fades(p, liveness)
    PROVE  TypeOK'
  <1>1. CASE TakeCursor(p)
    BY <1>1 DEF TakeCursor, TypeOK, logVars, lockVars
  <1>2. CASE InitCursor(p)
    BY <1>2, PositionsAreNumbers DEF InitCursor, Release, TypeOK, Steps, logVars
  <1>3. CASE Scan(p)
    BY <1>3, PositionsAreNumbers DEF Scan, Release, TypeOK, Steps, logVars
  <1>4. CASE WriteCursor(p)
    BY <1>4 DEF WriteCursor, TypeOK, logVars, lockVars
  <1>5. CASE ReaderDies(p)
    BY <1>5 DEF ReaderDies, TypeOK, logVars, lockVars
  <1>6. CASE \E liveness \in {"idle", "unregistered"} : Fades(p, liveness)
    BY <1>6 DEF Fades, TypeOK, logVars, lockVars
  <1>. QED  BY <1>1, <1>2, <1>3, <1>4, <1>5, <1>6
-----------------------------------------------------------------------------
(* Shapes. *)
ShapeInv == Names(RecoveredIndex) /\ Shapes /\ StepTells

\* Nothing but the step changes, to one that tells nothing new.
LEMMA StepMoves ==
    ASSUME LogInv, UNCHANGED <<logVars, written>>,
           \/ step' \in {"free", "load"}
           \/ step' = step
           \/ Unrenamed /\ step' \in {"loaded", "write"}
    PROVE  ShapeInv'
  <1>1. Names(RecoveredIndex)' /\ Shapes'
    BY DEF LogInv, logVars, Names, Head, Length, RecoveredIndex, RenameIsPending, NewIndex,
       RotatedIsSource, CurrentIsSource, Shapes, NotRenamed, Pending, Completed
  <1>2. StepTells'
    BY DEF LogInv, logVars, StepTells, Unrenamed, NotRenamed, Pending, Completed, NewIndex,
       RotatedIsSource, CurrentIsSource
  <1>. QED  BY <1>1, <1>2 DEF ShapeInv

\* The journal goes, or stays, and its rotation is not pending.
LEMMA JournalDrops ==
    ASSUME LogInv, Unrenamed, journal' = None \/ journal' = journal,
           UNCHANGED <<current, rotated, index, written>>, step' \in {"loaded", "write"}
    PROVE  ShapeInv'
  <1>1. RecoveredIndex = index /\ RecoveredIndex' = index
    BY OthersAreNot DEF LogInv, RecoveredIndex, RenameIsPending, NewIndex, RotatedIsSource
  <1>2. Names(RecoveredIndex)'
    BY <1>1 DEF LogInv, Names, Head, Length
  <1>3. Shapes' /\ Unrenamed'
    BY DEF LogInv, Shapes, Unrenamed, NotRenamed, Pending, Completed, NewIndex, RotatedIsSource,
       CurrentIsSource
  <1>. QED  BY <1>2, <1>3 DEF ShapeInv, StepTells

LEMMA LoadKeepsShapes ==
    ASSUME LogInv, Loading
    PROVE  ShapeInv'
  <1>1. CASE LoadIndex
    <2>1. Unrenamed
      BY <1>1, PendingIsRecovered, NoneAssumption
      DEF LoadIndex, LogInv, Shapes, Unrenamed, JournalIsSpent, Pending, CurrentIsSource, RenameIsPending
    <2>. QED  BY <1>1, <2>1, JournalDrops DEF LoadIndex, DropJournal
  <1>2. CASE CommitPending
    <2>1. journal # None /\ RenameIsPending /\ index' = NewIndex /\ step' = "recovered"
          /\ UNCHANGED <<current, rotated, journal, written>>
      BY <1>2 DEF CommitPending
    <2>2. RecoveredIndex = NewIndex /\ RecoveredIndex' = NewIndex /\ NewIndex' = NewIndex
      BY <2>1 DEF RecoveredIndex, RenameIsPending, NewIndex
    <2>3. Names(RecoveredIndex)'
      BY <2>1, <2>2 DEF LogInv, Names, Head, Length
    <2>4. Completed'
      BY <2>1, <2>2 DEF Completed, RenameIsPending, RotatedIsSource
    <2>. QED  BY <2>1, <2>3, <2>4 DEF ShapeInv, LogInv, Shapes, StepTells
  <1>3. CASE DropRecovered
    BY <1>3, JournalDrops DEF DropRecovered, DropJournal, LogInv, StepTells, Unrenamed
  <1>4. CASE LoadFails
    <2>1. step' = "free" \/ (Unrenamed /\ step' = "write")
      BY <1>4 DEF LoadFails, Release, LogInv, Shapes, Unrenamed, PostRenameOrAmbiguous, Pending,
         CurrentIsSource
    <2>. QED  BY <1>4, <2>1, StepMoves DEF LoadFails
  <1>. QED  BY <1>1, <1>2, <1>3, <1>4 DEF Loading

LEMMA RotationKeepsShapes ==
    ASSUME LogInv, Rotation
    PROVE  ShapeInv'
  <1>1. CASE SkipRotation \/ JournalFails
    BY <1>1, StepMoves DEF SkipRotation, JournalFails, LogInv, StepTells
  <1>2. CASE BeginRotation
    <2>1. Unrenamed /\ current # None /\ current.len > 0
      BY <1>2, SizeAssumption DEF BeginRotation, RotationIsDue, LogInv, StepTells, TypeOK, Generation
    <2>2. RecoveredIndex = index
      BY <2>1, OthersAreNot DEF LogInv
    <2>3. /\ journal' = [base |-> index.base, len |-> current.len, source |-> current.first]
          /\ UNCHANGED <<current, rotated, index, written>> /\ step' = "journaled"
      BY <1>2 DEF BeginRotation
    <2>4. journal' # None
      BY <2>1, <2>3, NoneAssumption DEF LogInv, TypeOK, Journal, Index, Generation
    <2>5. RecoveredIndex' = index
      BY <2>1, <2>3 DEF RecoveredIndex, RenameIsPending
    <2>6. NotRenamed' /\ (current.len = journal.len)'
      BY <2>1, <2>3 DEF NotRenamed, CurrentIsSource, LogInv, TypeOK, Generation
    <2>7. Names(RecoveredIndex)'
      BY <2>2, <2>3, <2>5 DEF LogInv, Names, Head, Length
    <2>8. Shapes'
      BY <2>1, <2>3, <2>6 DEF Shapes
    <2>. QED  BY <2>3, <2>4, <2>6, <2>7, <2>8 DEF ShapeInv, StepTells
  <1>3. CASE Rename
    <2>1. /\ journal # None /\ NotRenamed /\ current.len = journal.len /\ journal.len > 0
          /\ rotated' = current /\ current' = None /\ step' = "renamed"
          /\ UNCHANGED <<index, journal, written>>
      BY <1>3 DEF Rename, LogInv, StepTells, Shapes
    <2>2. RecoveredIndex = index
      BY <2>1 DEF RecoveredIndex, RenameIsPending, NotRenamed, CurrentIsSource
    <2>3. Pending' /\ NewIndex' = NewIndex
      BY <2>1 DEF Pending, RotatedIsSource, NotRenamed, CurrentIsSource, NewIndex
    <2>4. index # NewIndex
      BY <2>1, PendingIsRecovered DEF LogInv, TypeOK, NewIndex, NotRenamed, Index, Journal
    <2>5. RecoveredIndex' = NewIndex
      BY <2>1, <2>3, <2>4 DEF RecoveredIndex, RenameIsPending, Pending
    <2>6. Names(RecoveredIndex)'
      BY <2>1, <2>2, <2>5 DEF LogInv, Names, Head, Length, NewIndex, NotRenamed, CurrentIsSource,
         TypeOK, Generation, Journal, Index
    <2>. QED  BY <2>1, <2>3, <2>6 DEF ShapeInv, Shapes, StepTells
  <1>4. CASE RenameFails
    <2>1. step = "journaled" /\ Unrenamed
      BY <1>4 DEF RenameFails, LogInv, StepTells, Unrenamed
    <2>2. CASE journal' = journal /\ step' = "free"
      BY <1>4, <2>2, StepMoves DEF RenameFails, logVars
    <2>3. CASE (journal' = None \/ journal' = journal) /\ step' = "write"
      BY <1>4, <2>1, <2>3, JournalDrops DEF RenameFails
    <2>. QED  BY <1>4, <2>2, <2>3 DEF RenameFails, DropJournal, Release
  <1>5. CASE SaveIndex
    <2>1. /\ journal # None /\ Pending /\ journal.len > 0 /\ index' = NewIndex /\ step' = "indexed"
          /\ UNCHANGED <<current, rotated, journal, written>>
      BY <1>5 DEF SaveIndex, LogInv, StepTells, Shapes
    <2>2. RecoveredIndex = NewIndex /\ RecoveredIndex' = NewIndex /\ NewIndex' = NewIndex
      BY <2>1, PendingIsRecovered DEF RecoveredIndex, RenameIsPending, NewIndex, LogInv
    <2>3. Names(RecoveredIndex)'
      BY <2>1, <2>2 DEF LogInv, Names, Head, Length
    <2>4. Completed'
      BY <2>1, <2>2 DEF Completed, Pending, RotatedIsSource
    <2>. QED  BY <2>1, <2>3, <2>4 DEF ShapeInv, LogInv, Shapes, StepTells
  <1>6. CASE SaveFails
    BY <1>6, StepMoves DEF SaveFails, Release
  <1>7. CASE FinishRotation
    BY <1>7, JournalDrops DEF FinishRotation, DropJournal, LogInv, StepTells, Unrenamed
  <1>. QED  BY <1>1, <1>2, <1>3, <1>4, <1>5, <1>6, <1>7 DEF Rotation

LEMMA WriteKeepsShapes ==
    ASSUME LogInv, Write \/ WriteFails \/ Crash
    PROVE  ShapeInv'
  <1>1. CASE Crash
    BY <1>1, StepMoves DEF Crash, Release
  <1>2. CASE Write \/ WriteFails
    <2>1. PICK n \in Nat :
             /\ current' = [first |-> IF current = None THEN written ELSE current.first,
                            len |-> Length(current) + n]
             /\ written' = written + n
             /\ UNCHANGED <<rotated, index, journal>>
             /\ step' = "free"
      <3>1. CASE Write
        BY <3>1, WritesLines DEF LogInv
      <3>2. CASE WriteFails
        <4>1. current' = IF current = None THEN [first |-> written, len |-> 0] ELSE current
          BY <3>2 DEF WriteFails
        <4>2. current # None => current = [first |-> current.first, len |-> current.len + 0]
          BY DEF LogInv, TypeOK, Generation
        <4>3. current' = [first |-> IF current = None THEN written ELSE current.first,
                          len |-> Length(current) + 0]
          BY <4>1, <4>2 DEF Length
        <4>4. written' = written + 0
          BY <3>2 DEF WriteFails, LogInv, TypeOK
        <4>. QED  BY <3>2, <4>3, <4>4 DEF WriteFails, Release
      <3>. QED  BY <1>2, <3>1, <3>2
    <2>2. Unrenamed
      BY <1>2 DEF Write, WriteFails, LogInv, StepTells
    <2>3. current' # None /\ Length(current)' = Length(current) + n
      BY <2>1, NoneAssumption, WriteTypes, <1>2 DEF LogInv, Length, TypeOK, Generation
    <2>4. RecoveredIndex = index /\ RecoveredIndex' = index
      BY <2>1, <2>2, <2>3, OthersAreNot DEF LogInv, RecoveredIndex, RenameIsPending
    <2>5. Names(RecoveredIndex)'
      <3>1. index.base + Length(current) = written /\ (current = None => index.base = written)
        BY <2>4, PositionsAreNumbers DEF LogInv, Names, Head, Length
      <3>2. index.base + (Length(current) + n) = written + n
        BY <3>1, <2>1, PositionsAreNumbers DEF LogInv, TypeOK, Length, Generation
      <3>3. current'.first = index.base
        BY <2>1, <2>4, <3>1 DEF LogInv, Names
      <3>. QED  BY <2>1, <2>3, <2>4, <3>2, <3>3 DEF LogInv, Names, Head
    <2>6. Shapes' /\ Unrenamed'
      <3>1. current # None => current'.first = current.first /\ current'.len >= current.len
        BY <2>1 DEF Length, LogInv, TypeOK, Generation
      <3>2. journal # None /\ NotRenamed => NotRenamed'
        <4>. SUFFICES ASSUME journal # None, NotRenamed PROVE NotRenamed'
          OBVIOUS
        <4>1. current # None /\ current.len \in Nat /\ current.len >= journal.len /\ journal.len \in Nat
          BY DEF NotRenamed, CurrentIsSource, LogInv, TypeOK, Generation, Journal
        <4>2. current'.len >= current.len /\ current'.len \in Nat
          BY <2>1, <3>1, <4>1 DEF Length
        <4>3. current'.len >= journal.len
          BY <4>1, <4>2
        <4>. QED  BY <2>1, <2>3, <3>1, <4>3 DEF NotRenamed, CurrentIsSource
      <3>3. Completed => Completed'
        BY <2>1 DEF Completed, NewIndex, RotatedIsSource
      <3>. QED  BY <2>1, <2>2, <3>2, <3>3 DEF LogInv, Shapes, Unrenamed
    <2>. QED  BY <2>1, <2>5, <2>6 DEF ShapeInv, StepTells
  <1>. QED  BY <1>1, <1>2

LEMMA ReadersKeepShapes ==
    ASSUME LogInv, \/ LockToAppend
                   \/ \E p \in Projects : Reading(p)
    PROVE  ShapeInv'
  <1>1. UNCHANGED <<logVars, written>> /\ (step' \in {"free", "load"} \/ step' = step)
    BY DEF LockToAppend, Reading, Lock, LockToRead, LockToInit, TakeCursor, InitCursor, Scan,
       WriteCursor, ReaderDies, Fades, Release, lockVars
  <1>. QED  BY <1>1, StepMoves
-----------------------------------------------------------------------------
(* The invariant. *)
LEMMA InitHolds == Init => LogInv
  <1>. SUFFICES ASSUME Init PROVE LogInv
    OBVIOUS
  <1>1. TypeOK
    BY DEF Init, TypeOK, Index, Steps
  <1>2. RecoveredIndex = [previous |-> None, base |-> 0]
    BY DEF Init, RecoveredIndex
  <1>3. Names(RecoveredIndex)
    BY <1>2 DEF Init, Names, Head, Length
  <1>. QED  BY <1>1, <1>3 DEF Init, LogInv, Shapes, StepTells

LEMMA StepHolds == LogInv /\ [Next]_vars => LogInv'
  <1>. SUFFICES ASSUME LogInv, [Next]_vars PROVE LogInv'
    OBVIOUS
  <1>1. TypeOK /\ (LogInv' <=> TypeOK' /\ ShapeInv')
    BY DEF LogInv, ShapeInv
  <1>2. CASE LockToAppend \/ Loading
    BY <1>1, <1>2, LockTypes, LoadTypes, ReadersKeepShapes, LoadKeepsShapes
  <1>3. CASE Rotation
    BY <1>1, <1>3, RotationTypes, RotationKeepsShapes
  <1>4. CASE Write \/ WriteFails \/ Crash
    BY <1>1, <1>4, WriteTypes, WriteKeepsShapes
  <1>5. CASE \E p \in Projects : Reading(p)
    <2>1. TypeOK'
      BY <1>1, <1>5, LockTypes, ReaderTypes DEF Reading
    <2>. QED  BY <1>1, <1>5, <2>1, ReadersKeepShapes
  <1>6. CASE UNCHANGED vars
    <2>1. TypeOK'
      BY <1>1, <1>6 DEF vars, logVars, lockVars, cursorVars, TypeOK
    <2>. QED  BY <1>1, <1>6, <2>1, StepMoves DEF vars, logVars
  <1>. QED  BY <1>2, <1>3, <1>4, <1>5, <1>6 DEF Next

\* Whatever fails or dies, the journal, the files and the index stay in the shapes
\* that load_event_log_index tells apart, and the lock's holder knows in which.
THEOREM LogIsInShape == Spec => []LogInv
  BY InitHolds, StepHolds, PTL DEF Spec

(* The state of the log stays well typed. *)
THEOREM TypesKept == Spec => []TypeOK
  <1>1. LogInv => TypeOK
    BY DEF LogInv
  <1>. QED  BY <1>1, LogIsInShape, PTL

\* No crash or failure leaves the log in a shape recovery calls ambiguous
\* (event_log.rs, recover): appends and reads are never refused for good.
THEOREM Recovers == Spec => []AlwaysRecoverable
  <1>1. LogInv => AlwaysRecoverable
    <2>. SUFFICES ASSUME LogInv, journal # None PROVE JournalIsSpent \/ RenameIsPending
      BY DEF AlwaysRecoverable, Recoverable
    <2>. QED  BY PendingIsRecovered, OthersAreNot DEF LogInv, Shapes, Unrenamed
  <1>. QED  BY <1>1, LogIsInShape, PTL

\* Each line stays at the position it was appended at, through every rotation.
THEOREM Faithful == Spec => []ReadsAreFaithful
  <1>1. LogInv => ReadsAreFaithful
    BY DEF LogInv, Names, ReadsAreFaithful
  <1>. QED  BY <1>1, LogIsInShape, PTL
-----------------------------------------------------------------------------
(* Cursors. *)
LEMMA PositionsAreWithin ==
    ASSUME LogInv, Unrenamed
    PROVE  /\ Head(index) = written /\ written \in Nat
           /\ index.base <= written /\ Earliest(index) <= written
  <1>1. RecoveredIndex = index
    BY OthersAreNot DEF LogInv
  <1>2. index.base + Length(current) = written /\ Length(current) \in Nat /\ index.base \in Nat
    BY <1>1 DEF LogInv, Names, Head, Length, TypeOK, Index, Generation
  <1>3. index.previous # None => index.previous \in Nat /\ index.previous <= index.base
    BY <1>1 DEF LogInv, Names, TypeOK, Index, Generation
  <1>. QED  BY <1>2, <1>3 DEF Head, Earliest, LogInv, TypeOK

LEMMA CursorsStayWithin ==
    ASSUME LogInv, CursorsAreWithinLog, [Next]_vars
    PROVE  CursorsAreWithinLog'
  <1>. USE DEF CursorsAreWithinLog
  <1>1. written \in Nat /\ written' \in Nat /\ written' >= written
    <2>1. TypeOK /\ TypeOK'
      BY StepHolds DEF LogInv
    <2>2. CASE Write
      BY <2>1, <2>2, WritesLines DEF TypeOK
    <2>3. CASE ~Write
      BY <2>1, <2>3 DEF Next, vars, TypeOK, LockToAppend, Loading, Rotation, WriteFails, Crash, Reading,
         Lock, LockToRead, LockToInit, LoadIndex, CommitPending, DropRecovered, LoadFails,
         SkipRotation, BeginRotation, JournalFails, Rename, RenameFails, SaveIndex, SaveFails,
         FinishRotation, TakeCursor, InitCursor, Scan, WriteCursor, ReaderDies, Fades
    <2>. QED  BY <2>2, <2>3
  <1>2. CASE UNCHANGED <<cursor, at, seen>>
    <2>. SUFFICES ASSUME NEW p \in Projects, NEW pos \in {cursor[p], at[p], seen[p]}, pos # None
                  PROVE  pos <= written'
      BY <1>2
    <2>1. pos <= written /\ pos \in Nat
      BY DEF LogInv, TypeOK
    <2>. QED  BY <1>1, <2>1
  <1>3. CASE \E p \in Projects : TakeCursor(p) \/ InitCursor(p) \/ Scan(p) \/ WriteCursor(p) \/ ReaderDies(p)
    <2>1. PICK p \in Projects : TakeCursor(p) \/ InitCursor(p) \/ Scan(p) \/ WriteCursor(p) \/ ReaderDies(p)
      BY <1>3
    <2>2. \A q \in Projects : q # p =>
              cursor'[q] = cursor[q] /\ at'[q] = at[q] /\ seen'[q] = seen[q]
      BY <2>1 DEF TakeCursor, InitCursor, Scan, WriteCursor, ReaderDies, LogInv, TypeOK
    <2>3. written' = written
      BY <2>1 DEF TakeCursor, InitCursor, Scan, WriteCursor, ReaderDies
    <2>4. \A pos \in {cursor'[p], at'[p], seen'[p]} :
              pos \in {cursor[p], at[p], seen[p], None} \/ pos <= written
      <3>1. CASE TakeCursor(p) \/ WriteCursor(p) \/ ReaderDies(p)
        BY <3>1 DEF TakeCursor, WriteCursor, ReaderDies, LogInv, TypeOK
      <3>2. CASE InitCursor(p)
        BY <3>2, PositionsAreWithin DEF InitCursor, LogInv, StepTells, TypeOK
      <3>3. CASE Scan(p)
        <4>1. seen'[p] \in {Earliest(index), Head(index), None}
          BY <3>3 DEF Scan, LogInv, TypeOK
        <4>. QED  BY <3>3, <4>1, PositionsAreWithin DEF Scan, LogInv, StepTells, TypeOK
      <3>. QED  BY <2>1, <3>1, <3>2, <3>3
    <2>. QED  BY <2>2, <2>3, <2>4
  <1>4. [Next]_vars => UNCHANGED <<cursor, at, seen>> \/ \E p \in Projects :
            TakeCursor(p) \/ InitCursor(p) \/ Scan(p) \/ WriteCursor(p) \/ ReaderDies(p)
    BY DEF Next, vars, cursorVars, LockToAppend, Loading, Rotation, Write, WriteFails, Crash, Reading,
       Lock, LockToRead, LockToInit, LoadIndex, CommitPending, DropRecovered, LoadFails,
       SkipRotation, BeginRotation, JournalFails, Rename, RenameFails, SaveIndex, SaveFails,
       FinishRotation, Fades
  <1>. QED  BY <1>2, <1>3, <1>4

\* No cursor, and none a reader holds or is about to write, is past the end.
THEOREM CursorsWithin == Spec => []CursorsAreWithinLog
  <1>1. Init => CursorsAreWithinLog
    BY DEF Init, CursorsAreWithinLog
  <1>. QED  BY <1>1, CursorsStayWithin, LogIsInShape, PTL DEF Spec
-----------------------------------------------------------------------------
(* The log's size. *)
BoundInv ==
    ~degraded =>
        /\ Length(current) <= Ceiling \/ Length(current) <= Cardinality(Projects) + 1
        /\ step \in {"free", "load", "recovered", "loaded"} => losses = {}
        /\ step \in {"renamed", "indexed"} => current = None
        /\ step = "write" => Length(current) = 0 \/ (losses = {} /\ Length(current) < Ceiling)

LEMMA CeilingIsAbove == Ceiling \in Nat /\ MaxLen <= Ceiling /\ 0 < Ceiling
  <1>1. \A a, b \in Nat \ {0} : a * b \in Nat /\ a <= a * b
    <2>. TAKE a, b \in Nat \ {0}
    <2>1. a * b = a + a * (b - 1)
      OBVIOUS
    <2>2. a * (b - 1) \in Nat
      OBVIOUS
    <2>. QED  BY <2>1, <2>2
  <1>. QED  BY <1>1, SizeAssumption DEF Ceiling

LEMMA BoundHolds ==
    ASSUME LogInv, BoundInv, [Next]_vars
    PROVE  BoundInv'
  <1>. SUFFICES ASSUME ~degraded' PROVE BoundInv'
    BY DEF BoundInv
  <1>1. ~degraded /\ Length(current) \in Nat
    BY DEF Next, vars, LockToAppend, Loading, Rotation, Write, WriteFails, Crash, Reading,
       Lock, LockToRead, LockToInit, LoadIndex, CommitPending, DropRecovered, LoadFails,
       SkipRotation, BeginRotation, JournalFails, Rename, RenameFails, SaveIndex, SaveFails,
       FinishRotation, TakeCursor, InitCursor, Scan, WriteCursor, ReaderDies, Fades,
       LogInv, TypeOK, Length, Generation
  <1>2. CASE LockToAppend \/ \E p \in Projects : Reading(p)
    BY <1>1, <1>2 DEF BoundInv, LockToAppend, Reading, Lock, LockToRead, LockToInit, TakeCursor,
       InitCursor, Scan, WriteCursor, ReaderDies, Fades, Release, Length, logVars, lockVars
  <1>3. CASE Loading
    BY <1>1, <1>3 DEF BoundInv, Loading, LoadIndex, CommitPending, DropRecovered, LoadFails, Length
  <1>4. CASE SkipRotation
    <2>1. Length(current) = 0 \/ Length(current) < Ceiling
      BY <1>1, <1>4, CeilingIsAbove, SizeAssumption DEF SkipRotation, RotationIsDue, Length
    <2>. QED  BY <1>1, <1>4, <2>1 DEF BoundInv, SkipRotation, Length, logVars
  <1>5. CASE Rotation /\ ~SkipRotation
    <2>1. CASE Rename
      BY <1>1, <2>1, CeilingIsAbove DEF BoundInv, Rename, Length
    <2>. QED  BY <1>1, <1>5, <2>1 DEF BoundInv, Rotation, BeginRotation, JournalFails, RenameFails, SaveIndex,
         SaveFails, FinishRotation, Length
  <1>6. CASE Write
    <2>1. /\ Length(current)' = Length(current) + (Cardinality(losses) + 1)
          /\ step' = "free" /\ losses' = {}
      BY <1>6, WritesLines, WriteLeavesFile, NoneAssumption DEF LogInv, Length, Write, Release
    <2>2. Cardinality(losses) \in Nat /\ Cardinality(losses) <= Cardinality(Projects)
          /\ Cardinality(Projects) \in Nat
      BY ProjectsAssumption, FS_Subset, FS_CardinalityType DEF LogInv, TypeOK
    <2>3. losses = {} => Cardinality(losses) = 0
      BY FS_EmptySet
    <2>4. Length(current) = 0 \/ (losses = {} /\ Length(current) < Ceiling)
      BY <1>1, <1>6 DEF BoundInv, Write
    <2>5. Length(current)' <= Ceiling \/ Length(current)' <= Cardinality(Projects) + 1
      BY <1>1, <2>1, <2>2, <2>3, <2>4, CeilingIsAbove
    <2>. QED  BY <2>1, <2>5 DEF BoundInv
  <1>7. CASE WriteFails
    <2>1. Length(current)' \in {0, Length(current)} /\ step' = "free" /\ losses' = {}
      BY <1>7 DEF WriteFails, Release, Length
    <2>. QED  BY <1>1, <2>1, CeilingIsAbove DEF BoundInv
  <1>8. CASE Crash \/ UNCHANGED vars
    BY <1>1, <1>8 DEF BoundInv, Crash, Release, Length, logVars, vars
  <1>. QED  BY <1>2, <1>3, <1>4, <1>5, <1>6, <1>7, <1>8 DEF Next

\* As long as no file operation fails, no consumer that stops reading makes a
\* generation larger than the ceiling, or than one append.
THEOREM Bounded == Spec => []LogIsBounded
  <1>1. Init => BoundInv
    BY CeilingIsAbove DEF Init, BoundInv, Length
  <1>2. BoundInv => LogIsBounded
    BY DEF BoundInv, LogIsBounded
  <1>. QED  BY <1>1, <1>2, BoundHolds, LogIsInShape, PTL DEF Spec
-----------------------------------------------------------------------------
(* The refinement. *)
LEMMA IndexIsSteady ==
    ASSUME LogInv, UNCHANGED index,
           \/ UNCHANGED logVars
           \/ UNCHANGED <<current, rotated>> /\ Unrenamed /\ (journal' \in {None, journal} \/ current # None)
           \/ current' # None /\ Unrenamed
    PROVE  RecoveredIndex' = RecoveredIndex
  <1>1. CASE UNCHANGED logVars
    BY <1>1 DEF logVars, RecoveredIndex, RenameIsPending, NewIndex, RotatedIsSource
  <1>2. CASE Unrenamed
    <2>1. RecoveredIndex = index
      BY <1>2, OthersAreNot DEF LogInv
    <2>2. CASE current' # None
      BY <2>1, <2>2 DEF RecoveredIndex, RenameIsPending
    <2>3. CASE UNCHANGED <<current, rotated, journal>>
      BY <2>3 DEF RecoveredIndex, RenameIsPending, NewIndex, RotatedIsSource
    <2>4. CASE journal' = None
      BY <2>1, <2>4 DEF RecoveredIndex
    <2>. QED  BY <1>2, <2>2, <2>3, <2>4 DEF logVars
  <1>. QED  BY <1>1, <1>2

LEMMA SteadySteps ==
    ASSUME LogInv, [Next]_vars, ~CommitPending, ~SaveIndex, ~Rename
    PROVE  RecoveredIndex' = RecoveredIndex
  <1>1. CASE LoadIndex
    <2>1. Unrenamed
      BY <1>1, PendingIsRecovered, NoneAssumption
      DEF LoadIndex, LogInv, Shapes, Unrenamed, JournalIsSpent, Pending, CurrentIsSource, RenameIsPending
    <2>. QED  BY <1>1, <2>1, IndexIsSteady DEF LoadIndex, DropJournal
  <1>2. CASE DropRecovered \/ FinishRotation
    BY <1>2, IndexIsSteady DEF DropRecovered, FinishRotation, DropJournal, LogInv, StepTells, Unrenamed
  <1>3. CASE BeginRotation
    BY <1>3, IndexIsSteady DEF BeginRotation, RotationIsDue, LogInv, StepTells
  <1>4. CASE RenameFails
    BY <1>4, IndexIsSteady DEF RenameFails, DropJournal, LogInv, StepTells, Unrenamed, logVars
  <1>5. CASE Write \/ WriteFails
    <2>1. current' # None
      BY <1>5, WriteLeavesFile, NoneAssumption DEF LogInv
    <2>. QED  BY <1>5, <2>1, IndexIsSteady DEF Write, WriteFails, LogInv, StepTells
  <1>6. CASE UNCHANGED logVars
    BY <1>6, IndexIsSteady DEF logVars
  <1>. QED
    <2>1. \/ LoadIndex \/ DropRecovered \/ FinishRotation \/ BeginRotation \/ RenameFails
          \/ Write \/ WriteFails \/ UNCHANGED logVars
      BY DEF Next, vars, logVars, LockToAppend, Loading, Rotation, Crash, Reading,
         Lock, LockToRead, LockToInit, LoadFails, SkipRotation, JournalFails, SaveFails,
         TakeCursor, InitCursor, Scan, WriteCursor, ReaderDies, Fades
    <2>. QED  BY <2>1, <1>1, <1>2, <1>3, <1>4, <1>5, <1>6

LEMMA LogRefines ==
    ASSUME LogInv, [Next]_vars
    PROVE  [Retained!Next]_(Retained!vars)
  <1>. DEFINE E == Earliest(RecoveredIndex)
  <1>1. LogInv'
    BY StepHolds
  <1>2. Head(RecoveredIndex) = written /\ Head(RecoveredIndex)' = written'
    BY <1>1 DEF LogInv, Names
  <1>3. CASE CommitPending \/ SaveIndex
    <2>1. journal # None /\ RenameIsPending /\ index' = NewIndex /\ UNCHANGED <<current, rotated, journal, written>>
      BY <1>3, PendingIsRecovered DEF CommitPending, SaveIndex, LogInv, StepTells
    <2>2. RecoveredIndex' = RecoveredIndex
      BY <2>1 DEF RecoveredIndex, RenameIsPending, NewIndex
    <2>. QED  BY <1>2, <2>1, <2>2 DEF Retained!vars, Earliest
  <1>4. CASE Rename
    <2>1. /\ journal # None /\ NotRenamed /\ current.len = journal.len /\ journal.len > 0
          /\ rotated' = current /\ current' = None
          /\ UNCHANGED <<index, journal, written>>
      BY <1>4 DEF Rename, LogInv, StepTells, Shapes
    <2>2. RecoveredIndex = index
      BY <2>1 DEF RecoveredIndex, RenameIsPending, NotRenamed, CurrentIsSource
    <2>3. index # NewIndex
      BY <2>1 DEF LogInv, TypeOK, NewIndex, NotRenamed, Index, Journal
    <2>4. RecoveredIndex' = NewIndex
      BY <2>1, <2>3 DEF RecoveredIndex, RenameIsPending, RotatedIsSource, NotRenamed, CurrentIsSource, NewIndex
    <2>5. E' = index.base
      BY <2>1, <2>4, NoneAssumption DEF Earliest, NewIndex, NotRenamed, LogInv, TypeOK, Journal
    <2>6. /\ index.base \in Nat /\ written \in Nat /\ index.base + Length(current) = written
          /\ Length(current) \in Nat
      BY <2>2 DEF LogInv, Names, Head, TypeOK, Index, Generation, Length
    <2>7. E = index.base \/ (E \in Nat /\ E <= index.base)
      BY <2>2 DEF LogInv, Names, TypeOK, Index, Generation, Earliest
    <2>8. E' \in Nat /\ E' <= written /\ (E' = E \/ E' > E)
      BY <2>5, <2>6, <2>7
    <2>. QED  BY <1>2, <2>1, <2>8 DEF Retained!Next, Retained!Forget, Retained!vars
  <1>5. CASE ~CommitPending /\ ~SaveIndex /\ ~Rename
    <2>1. E' = E
      BY <1>5, SteadySteps DEF Earliest
    <2>2. CASE Write
      <3>1. written' \in Nat /\ written' > written
        BY <2>2, WritesLines DEF LogInv, TypeOK
      <3>. QED  BY <1>2, <2>1, <3>1 DEF Retained!Next, Retained!Append
    <2>3. CASE ~Write
      <3>1. written' = written
        BY <2>3 DEF Next, vars, LockToAppend, Loading, Rotation, WriteFails, Crash, Reading,
           Lock, LockToRead, LockToInit, LoadIndex, CommitPending, DropRecovered, LoadFails,
           SkipRotation, BeginRotation, JournalFails, Rename, RenameFails, SaveIndex, SaveFails,
           FinishRotation, TakeCursor, InitCursor, Scan, WriteCursor, ReaderDies, Fades
      <3>. QED  BY <1>2, <2>1, <3>1 DEF Retained!vars
    <2>. QED  BY <2>2, <2>3
  <1>. QED  BY <1>3, <1>4, <1>5

\* Two files, an index and a journal, moved in separate steps by processes that
\* may fail or die at each, are one log that grows at its end and forgets a prefix.
THEOREM Refines == Spec => KeepsLogicalPositions
  <1>1. Init => Retained!Init
    BY DEF Init, Retained!Init, RecoveredIndex, Head, Length, Earliest
  <1>. QED  BY <1>1, LogRefines, LogIsInShape, PTL DEF Spec, KeepsLogicalPositions, Retained!Spec
-----------------------------------------------------------------------------
(* What a rotation takes from whom. *)
OneGeneration == RecoveredIndex.previous = None => rotated = None

ReadersMoveOn ==
    \A p \in Projects :
        /\ task = [kind |-> "read", project |-> p] => at[p] # None
        /\ task = [kind |-> "init", project |-> p] => cursor[p] = None
        /\ at[p] # None => at[p] = cursor[p] /\ seen[p] = None
        /\ seen[p] # None => cursor[p] # None /\ seen[p] >= cursor[p]

LosersAreKnown ==
    step = "journaled" /\ rotated # None =>
        \A p \in Projects :
            /\ consumer[p] = "active" /\ p \notin returned
            /\ cursor[p] # None /\ cursor[p] < index.base
            => current.len >= Ceiling /\ p \in losses

LossInv == OneGeneration /\ ReadersMoveOn /\ LosersAreKnown

Readers == \E p \in Projects :
    TakeCursor(p) \/ InitCursor(p) \/ Scan(p) \/ WriteCursor(p) \/ ReaderDies(p)

LEMMA GenerationsCounted ==
    ASSUME LogInv, OneGeneration, [Next]_vars
    PROVE  OneGeneration'
  <1>1. CASE CommitPending \/ SaveIndex \/ Rename
    <2>1. journal # None /\ journal.base \in Nat /\ journal' = journal
      BY <1>1 DEF CommitPending, SaveIndex, Rename, LogInv, StepTells, TypeOK, Journal
    <2>2. RecoveredIndex' = NewIndex
      <3>1. CASE Rename
        <4>1. index # NewIndex /\ NotRenamed /\ current.len = journal.len
          BY <3>1 DEF Rename, LogInv, StepTells, Shapes, TypeOK, NewIndex, NotRenamed, Index, Journal
        <4>. QED  BY <2>1, <3>1, <4>1 DEF Rename, RecoveredIndex, RenameIsPending, RotatedIsSource,
                  NotRenamed, CurrentIsSource, NewIndex
      <3>2. CASE CommitPending \/ SaveIndex
        BY <3>2, <2>1 DEF CommitPending, SaveIndex, RecoveredIndex, RenameIsPending, NewIndex
      <3>. QED  BY <1>1, <3>1, <3>2
    <2>. QED  BY <2>1, <2>2, NoneAssumption DEF OneGeneration, NewIndex
  <1>2. CASE ~CommitPending /\ ~SaveIndex /\ ~Rename
    <2>1. rotated' = rotated
      BY <1>2 DEF Next, vars, logVars, LockToAppend, Loading, Rotation, Write, WriteFails, Crash, Reading,
         Lock, LockToRead, LockToInit, LoadIndex, DropRecovered, LoadFails,
         SkipRotation, BeginRotation, JournalFails, RenameFails, SaveFails,
         FinishRotation, TakeCursor, InitCursor, Scan, WriteCursor, ReaderDies, Fades
    <2>. QED  BY <1>2, <2>1, SteadySteps DEF OneGeneration
  <1>. QED  BY <1>1, <1>2

LEMMA OthersLeaveCursors ==
    ASSUME [Next]_vars, ~Readers
    PROVE  /\ UNCHANGED <<cursor, at, seen>>
           /\ task' \in {task, None} \/ LockToAppend \/ \E p \in Projects : LockToRead(p) \/ LockToInit(p)
  BY DEF Release, lockVars, Readers, Next, vars, cursorVars, LockToAppend, Loading, Rotation, Write, WriteFails, Crash, Reading,
     Lock, LockToRead, LockToInit, LoadIndex, CommitPending, DropRecovered, LoadFails,
     SkipRotation, BeginRotation, JournalFails, Rename, RenameFails, SaveIndex, SaveFails,
     FinishRotation, Fades

LEMMA ReadersOnlyMoveOn ==
    ASSUME LogInv, ReadersMoveOn, [Next]_vars
    PROVE  ReadersMoveOn'
  <1>1. CASE ~Readers
    <2>1. \A p \in Projects :
              /\ task' = [kind |-> "read", project |-> p] => at[p] # None
              /\ task' = [kind |-> "init", project |-> p] => cursor[p] = None
      <3>1. CASE task' = task
        BY <3>1 DEF ReadersMoveOn
      <3>2. CASE task' = None
        BY <3>2, NoneAssumption DEF Task
      <3>3. CASE LockToAppend \/ \E q \in Projects : LockToRead(q) \/ LockToInit(q)
        BY <3>3 DEF LockToAppend, LockToRead, LockToInit, Lock
      <3>. QED  BY <1>1, <3>1, <3>2, <3>3, OthersLeaveCursors
    <2>. QED  BY <1>1, <2>1, OthersLeaveCursors DEF ReadersMoveOn
  <1>2. CASE Readers
    <2>1. PICK p \in Projects :
              TakeCursor(p) \/ InitCursor(p) \/ Scan(p) \/ WriteCursor(p) \/ ReaderDies(p)
      BY <1>2 DEF Readers
    <2>2. \A q \in Projects : q # p =>
              cursor'[q] = cursor[q] /\ at'[q] = at[q] /\ seen'[q] = seen[q]
      BY <2>1 DEF TakeCursor, InitCursor, Scan, WriteCursor, ReaderDies, LogInv, TypeOK
    <2>3. /\ at'[p] # None => at'[p] = cursor'[p] /\ seen'[p] = None
          /\ seen'[p] # None => cursor'[p] # None /\ seen'[p] >= cursor'[p]
      <3>1. CASE TakeCursor(p) \/ WriteCursor(p) \/ ReaderDies(p)
        BY <3>1 DEF TakeCursor, WriteCursor, ReaderDies, ReadersMoveOn, LogInv, TypeOK
      <3>2. CASE InitCursor(p)
        <4>1. cursor[p] = None
          BY <3>2 DEF InitCursor, ReadersMoveOn
        <4>2. at[p] = None /\ seen[p] = None
          BY <4>1 DEF ReadersMoveOn
        <4>. QED  BY <3>2, <4>2 DEF InitCursor
      <3>3. CASE Scan(p)
        <4>1. at[p] # None
          BY <3>3 DEF Scan, ReadersMoveOn
        <4>2. at[p] \in Nat /\ at[p] = cursor[p]
          BY <4>1 DEF ReadersMoveOn, LogInv, TypeOK
        <4>3. at' = [at EXCEPT ![p] = None] /\ cursor' = cursor
          BY <3>3 DEF Scan
        <4>4. seen'[p] # None => seen'[p] \in Nat /\ seen'[p] >= at[p]
          BY <3>3, <4>2, PositionsAreNumbers DEF Scan, LogInv, TypeOK
        <4>. QED  BY <4>2, <4>3, <4>4, NoneAssumption DEF LogInv, TypeOK
      <3>. QED  BY <2>1, <3>1, <3>2, <3>3
    <2>4. CASE task' = None
      <3>1. \A q \in Projects, k \in {"read", "init"} : task' # [kind |-> k, project |-> q]
        BY <2>4, NoneAssumption DEF Task
      <3>. QED  BY <2>2, <2>3, <3>1 DEF ReadersMoveOn
    <2>5. CASE task' = task /\ (TakeCursor(p) \/ WriteCursor(p) \/ ReaderDies(p))
      <3>1. task = [kind |-> "read", project |-> p] => at'[p] # None
        <4>1. task = [kind |-> "read", project |-> p] => task # None /\ task.project = p
          BY NoneAssumption DEF Task
        <4>. QED  BY <2>5, <4>1 DEF TakeCursor, WriteCursor, ReaderDies, ReadersMoveOn, LogInv, TypeOK
      <3>2. task = [kind |-> "init", project |-> p] => cursor'[p] = None
        BY <2>5 DEF TakeCursor, WriteCursor, ReaderDies, ReadersMoveOn
      <3>. QED  BY <2>2, <2>3, <2>5, <3>1, <3>2 DEF ReadersMoveOn
    <2>6. task' = None \/ (task' = task /\ (TakeCursor(p) \/ WriteCursor(p) \/ ReaderDies(p)))
      BY <2>1 DEF TakeCursor, InitCursor, Scan, WriteCursor, ReaderDies, Release, lockVars
    <2>. QED  BY <2>4, <2>5, <2>6
  <1>. QED  BY <1>1, <1>2

LEMMA LosersStayKnown ==
    ASSUME LogInv, LossInv, [Next]_vars
    PROVE  LosersAreKnown'
  <1>. SUFFICES ASSUME (step = "journaled" /\ rotated # None)', NEW p \in Projects,
                       consumer'[p] = "active", p \notin returned',
                       cursor'[p] # None, cursor'[p] < index'.base
                PROVE  current'.len >= Ceiling /\ p \in losses'
    BY DEF LosersAreKnown
  <1>1. CASE BeginRotation
    <2>1. /\ UNCHANGED <<rotated, index, current, cursor, consumer>>
          /\ current # None /\ RotationIsDue
          /\ losses' = IF index.previous = None THEN {} ELSE RotationLosses
      BY <1>1 DEF BeginRotation, RotationIsDue, cursorVars
    <2>2. Unrenamed
      BY <1>1 DEF BeginRotation, LogInv, StepTells
    <2>3. index.previous # None
      BY <2>1, <2>2, OthersAreNot DEF LogInv, LossInv, OneGeneration
    <2>4. p \in Lagging /\ Held
      BY <2>1 DEF Lagging, Held
    <2>5. p \in losses'
      BY <2>1, <2>3, <2>4 DEF RotationLosses
    <2>6. ~(current.len < Ceiling)
      BY <2>1, <2>3, <2>4 DEF RotationIsDue
    <2>7. current.len >= Ceiling
      BY <2>1, <2>6, CeilingIsAbove DEF LogInv, TypeOK, Generation
    <2>. QED  BY <2>1, <2>5, <2>7
  <1>2. CASE ~BeginRotation
    <2>1. step = "journaled" /\ UNCHANGED <<rotated, index, current, losses>>
      BY <1>2 DEF Next, vars, logVars, lockVars, LockToAppend, Loading, Rotation, Write, WriteFails, Crash, Reading,
         Lock, LockToRead, LockToInit, LoadIndex, CommitPending, DropRecovered, LoadFails,
         SkipRotation, JournalFails, Rename, RenameFails, SaveIndex, SaveFails, Release,
         FinishRotation, TakeCursor, InitCursor, Scan, WriteCursor, ReaderDies, Fades
    <2>2. CASE WriteCursor(p)
      <3>1. /\ seen[p] # None /\ cursor'[p] = seen[p]
            /\ returned' = IF consumer[p] = "idle" THEN returned \cup {p} ELSE returned
            /\ consumer[p] # "unregistered"
        BY <2>1, <2>2 DEF WriteCursor, LogInv, TypeOK
      <3>2. consumer[p] = "active" /\ p \notin returned
        BY <3>1 DEF LogInv, TypeOK
      <3>3. cursor[p] # None /\ cursor[p] < index.base
        <4>1. cursor[p] # None /\ seen[p] >= cursor[p]
          BY <3>1 DEF LossInv, ReadersMoveOn
        <4>2. cursor[p] \in Nat /\ seen[p] \in Nat /\ index.base \in Nat
          BY <3>1, <4>1, PositionsAreNumbers DEF LogInv, TypeOK
        <4>3. seen[p] < index.base
          BY <2>1, <3>1
        <4>. QED  BY <4>1, <4>2, <4>3
      <3>. QED  BY <2>1, <3>2, <3>3 DEF LossInv, LosersAreKnown
    <2>3. CASE ~WriteCursor(p)
      <3>1. consumer[p] = "active" /\ cursor'[p] = cursor[p] /\ p \notin returned
        BY <2>1, <1>2, <2>3 DEF Next, vars, cursorVars, LockToAppend, Loading, Rotation, Write, WriteFails, Crash, Reading,
           Lock, LockToRead, LockToInit, LoadIndex, CommitPending, DropRecovered, LoadFails,
           SkipRotation, JournalFails, Rename, RenameFails, SaveIndex, SaveFails, Release,
           FinishRotation, TakeCursor, InitCursor, Scan, WriteCursor, ReaderDies, Fades, LogInv, TypeOK
      <3>. QED  BY <2>1, <3>1 DEF LossInv, LosersAreKnown
    <2>. QED  BY <2>2, <2>3
  <1>. QED  BY <1>1, <1>2

\* A generation is replaced under an active consumer that has not read it only at
\* the ceiling, and the log will say so.
THEOREM UnreadHolds == Spec => UnreadLinesHoldRotation
  <1>1. Init => LossInv
    <2>. SUFFICES ASSUME Init PROVE LossInv
      OBVIOUS
    <2>1. \A p \in Projects, k \in {"read", "init"} : task # [kind |-> k, project |-> p]
      BY NoneAssumption DEF Init, Task
    <2>. QED  BY <2>1 DEF Init, LossInv, OneGeneration, ReadersMoveOn, LosersAreKnown
  <1>2. LogInv /\ LossInv /\ [Next]_vars => LossInv'
    BY GenerationsCounted, ReadersOnlyMoveOn, LosersStayKnown DEF LossInv
  <1>3. LogInv /\ LossInv /\ [Next]_vars =>
            [\A p \in Projects :
                (/\ rotated' # rotated /\ rotated # None
                 /\ consumer[p] = "active" /\ p \notin returned
                 /\ cursor[p] # None /\ cursor[p] < index.base)
                => current.len >= Ceiling /\ p \in losses]_vars
    <2>. SUFFICES ASSUME LogInv, LossInv, [Next]_vars, NEW p \in Projects, rotated' # rotated, rotated # None,
                         consumer[p] = "active", p \notin returned, cursor[p] # None, cursor[p] < index.base
                  PROVE  current.len >= Ceiling /\ p \in losses
      OBVIOUS
    <2>1. step = "journaled"
      BY DEF Next, vars, logVars, LockToAppend, Loading, Rotation, Write, WriteFails, Crash, Reading,
         Lock, LockToRead, LockToInit, LoadIndex, CommitPending, DropRecovered, LoadFails,
         SkipRotation, BeginRotation, JournalFails, Rename, RenameFails, SaveIndex, SaveFails,
         FinishRotation, TakeCursor, InitCursor, Scan, WriteCursor, ReaderDies, Fades
    <2>. QED  BY <2>1 DEF LossInv, LosersAreKnown
  <1>. QED  BY <1>1, <1>2, <1>3, LogIsInShape, PTL DEF Spec, UnreadLinesHoldRotation
=============================================================================
