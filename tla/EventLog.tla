------------------------------ MODULE EventLog ------------------------------
(***************************************************************************)
(* The hub's event log: `events.log`, one rotated generation `.1`, the     *)
(* index that gives both their logical offsets, the journal that makes a   *)
(* rotation recoverable, and the durable cursors of the projects that      *)
(* consume the log (shelbi-state/src/event_log.rs).  The high-water mark    *)
(* beside a cursor, and what is read and acknowledged, are in EventFeed.   *)
(*                                                                         *)
(* A line is one unit of length.  A file is known by the position of the   *)
(* first line written to it, which stands for its device and inode: a      *)
(* rename keeps it and a file created later has another.                   *)
(***************************************************************************)
EXTENDS Integers, FiniteSets

CONSTANTS
    Projects,  \* projects that consume the log
    MaxLen,    \* EVENTS_LOG_MAX_BYTES, in lines
    Factor,    \* EVENTS_LOG_CEILING_FACTOR
    LineBound, \* bound: appends stop here
    MayFail,   \* whether file operations may fail
    None

ASSUME SizeAssumption == MaxLen \in Nat \ {0} /\ Factor \in Nat \ {0}
ASSUME BoundAssumption == LineBound \in Nat
ASSUME FailAssumption == MayFail \in BOOLEAN
ASSUME ProjectsAssumption == IsFiniteSet(Projects)

VARIABLES
    current,   \* events.log: a generation, or None while there is no file
    rotated,   \* events.log.1
    index,     \* the index file: where each generation starts
    journal,   \* the rotation journal, or None
    step,      \* what the holder of events.log.lock does next
    task,      \* what it holds the lock for, None when nobody holds it
    losses,    \* consumers its rotation costs data, not yet logged
    written,   \* lines written so far, in this order
    degraded,  \* history: a file operation of a rotation failed
    cursor,    \* event-cursor of each project, None before the first read
    consumer,  \* active, idle (no ack for a week) or unregistered
    at,        \* the cursor a reader of the project took and has not used yet
    seen,      \* the position it may write back: read through, or resynced to
    returned   \* history: consumers back from idle since the holder decided

logVars == <<current, rotated, index, journal>>
lockVars == <<step, task, losses>>
cursorVars == <<cursor, consumer, at, seen>>
vars == <<current, rotated, index, journal, step, task, losses, written, degraded,
          cursor, consumer, at, seen, returned>>

Generation == [first : Nat, len : Nat]
Journal == [base : Nat, len : Nat, source : Nat]
Index == [previous : Nat \cup {None}, base : Nat]
Task == [kind : {"append", "read", "init"}, project : Projects \cup {None}]
Steps == {"free", "load", "recovered", "loaded", "journaled", "renamed", "indexed", "write"}

ASSUME NoneAssumption ==
    /\ None \notin Nat /\ None \notin Projects
    /\ None \notin Generation /\ None \notin Journal /\ None \notin Task

Ceiling == MaxLen * Factor

Length(gen) == IF gen = None THEN 0 ELSE gen.len

Earliest(idx) == IF idx.previous = None THEN idx.base ELSE idx.previous
Head(idx) == idx.base + Length(current)

(***************************************************************************)
(* Recovery of a rotation from its journal                                 *)
(***************************************************************************)
\* Mutant: the rotated generation is given the new one's place.
NewIndex_Shifted == [previous |-> journal.base + 1, base |-> journal.base + journal.len]

\* Mutant: the new generation starts where the rotated one did.
NewIndex_Rebased == [previous |-> journal.base, base |-> journal.base]

\* Mutant: the new generation starts one line late.
NewIndex_Late == [previous |-> journal.base, base |-> journal.base + journal.len + 1]

NewIndex == [previous |-> journal.base, base |-> journal.base + journal.len]

CurrentIsSource ==
    current # None /\ current.first = journal.source /\ current.len >= journal.len
RotatedIsSource ==
    rotated # None /\ rotated.first = journal.source /\ rotated.len = journal.len

\* The rotation was completed, or never got past its journal: only that is left.
JournalIsSpent ==
    \/ index = NewIndex /\ RotatedIsSource
    \/ index # NewIndex /\ index.base = journal.base /\ CurrentIsSource

\* The rename happened and the index does not know.
RenameIsPending ==
    /\ index # NewIndex /\ index.base = journal.base
    /\ current = None /\ RotatedIsSource

\* A load of the index finds a journal it can act on, or none.
Recoverable == journal # None => JournalIsSpent \/ RenameIsPending

\* The index as the next load will see it.
RecoveredIndex == IF journal # None /\ RenameIsPending THEN NewIndex ELSE index

\* Mutant: an append goes on after any failed load.
PostRenameOrAmbiguous_Never == FALSE

\* After a load failed: could a rename be behind it?
PostRenameOrAmbiguous == journal # None /\ ~CurrentIsSource

(***************************************************************************)
(* Which consumers a rotation would cost data                              *)
(***************************************************************************)
Lagging == {p \in Projects : cursor[p] # None /\ cursor[p] < index.base}

Held == \E p \in Lagging : consumer[p] = "active"

RotationLosses ==
    {p \in Lagging : consumer[p] = "active" \/ cursor[p] >= index.previous}
-----------------------------------------------------------------------------
Init ==
    /\ current = None /\ rotated = None /\ journal = None
    /\ index = [previous |-> None, base |-> 0]
    /\ step = "free" /\ task = None /\ losses = {}
    /\ written = 0 /\ degraded = FALSE
    /\ cursor = [p \in Projects |-> None]
    /\ consumer = [p \in Projects |-> "active"]
    /\ at = [p \in Projects |-> None]
    /\ seen = [p \in Projects |-> None]
    /\ returned = {}

\* Whatever ends the hold on events.log.lock ends the rotation it was in.
Release == step' = "free" /\ task' = None /\ losses' = {}

(***************************************************************************)
(* The lock and the load of the index, which every holder starts with      *)
(***************************************************************************)
Lock(t) ==
    /\ step = "free" /\ step' = "load" /\ task' = t
    /\ UNCHANGED <<logVars, losses, written, degraded, cursorVars, returned>>

LockToAppend ==
    /\ written < LineBound
    /\ Lock([kind |-> "append", project |-> None])

LockToRead(p) ==
    /\ at[p] # None
    /\ Lock([kind |-> "read", project |-> p])

LockToInit(p) ==
    /\ cursor[p] = None
    /\ Lock([kind |-> "init", project |-> p])

\* Removing the journal is best effort everywhere: a failure is only logged.
DropJournal == journal' \in {None} \cup (IF MayFail THEN {journal} ELSE {})

LoadIndex ==
    /\ step = "load"
    /\ \/ journal = None /\ UNCHANGED journal
       \/ journal # None /\ JournalIsSpent /\ DropJournal
    /\ step' = "loaded"
    /\ UNCHANGED <<current, rotated, index, task, losses, written, degraded, cursorVars, returned>>

CommitPending ==
    /\ step = "load" /\ journal # None /\ RenameIsPending
    /\ index' = NewIndex /\ step' = "recovered"
    /\ UNCHANGED <<current, rotated, journal, task, losses, written, degraded, cursorVars, returned>>

DropRecovered ==
    /\ step = "recovered" /\ DropJournal /\ step' = "loaded"
    /\ UNCHANGED <<current, rotated, index, task, losses, written, degraded, cursorVars, returned>>

\* An append goes on without bookkeeping only when no rename can be behind the
\* failure; a read reports the error.
LoadFails ==
    /\ step = "load"
    /\ MayFail \/ ~Recoverable
    /\ \/ /\ task.kind = "append" /\ ~PostRenameOrAmbiguous
          /\ step' = "write" /\ UNCHANGED <<task, losses>>
       \/ /\ task.kind # "append" \/ PostRenameOrAmbiguous
          /\ Release
    /\ degraded' = TRUE
    /\ UNCHANGED <<logVars, written, cursorVars, returned>>

(***************************************************************************)
(* maybe_rotate_events_log                                                 *)
(***************************************************************************)
\* Mutant: a held rotation waits for its consumer, however far the log grows.
RotationIsDue_NoCeiling ==
    /\ current # None /\ current.len >= MaxLen
    /\ ~(index.previous # None /\ Held)

\* Mutant: nothing holds a rotation.
RotationIsDue_NotHeld == current # None /\ current.len >= MaxLen

RotationIsDue ==
    /\ current # None /\ current.len >= MaxLen
    /\ ~(index.previous # None /\ Held /\ current.len < Ceiling)

SkipRotation ==
    /\ step = "loaded" /\ task.kind = "append" /\ ~RotationIsDue
    /\ step' = "write"
    /\ UNCHANGED <<logVars, task, losses, written, degraded, cursorVars, returned>>

BeginRotation ==
    /\ step = "loaded" /\ task.kind = "append" /\ RotationIsDue
    /\ journal' = [base |-> index.base, len |-> current.len, source |-> current.first]
    /\ losses' = IF index.previous = None THEN {} ELSE RotationLosses
    /\ step' = "journaled"
    /\ UNCHANGED <<current, rotated, index, task, written, degraded, cursorVars, returned>>

\* The journal cannot be written: append to the generation there is.
JournalFails ==
    /\ MayFail
    /\ step = "loaded" /\ task.kind = "append" /\ RotationIsDue
    /\ step' = "write" /\ degraded' = TRUE
    /\ UNCHANGED <<logVars, task, losses, written, cursorVars, returned>>

Rename ==
    /\ step = "journaled"
    /\ rotated' = current /\ current' = None
    /\ step' = "renamed" /\ returned' = {}
    /\ UNCHANGED <<index, journal, task, losses, written, degraded, cursorVars>>

\* The rename failed and current is still there; or it cannot be told.
RenameFails ==
    /\ MayFail /\ step = "journaled"
    /\ \/ DropJournal /\ step' = "write" /\ losses' = {} /\ UNCHANGED task
       \/ UNCHANGED journal /\ Release
    /\ degraded' = TRUE /\ returned' = {}
    /\ UNCHANGED <<current, rotated, index, written, cursorVars>>

SaveIndex ==
    /\ step = "renamed"
    /\ index' = NewIndex /\ step' = "indexed"
    /\ UNCHANGED <<current, rotated, journal, task, losses, written, degraded, cursorVars, returned>>

\* After the rename the append is refused: recovery has to come first.
SaveFails ==
    /\ MayFail /\ step = "renamed"
    /\ Release /\ degraded' = TRUE
    /\ UNCHANGED <<logVars, written, cursorVars, returned>>

FinishRotation ==
    /\ step = "indexed" /\ DropJournal /\ step' = "write"
    /\ UNCHANGED <<current, rotated, index, task, losses, written, degraded, cursorVars, returned>>

(***************************************************************************)
(* append_event_line: the lines that name losses, then the line itself     *)
(***************************************************************************)
Write ==
    LET n == Cardinality(losses) + 1 IN
    /\ step = "write"
    /\ current' = [first |-> IF current = None THEN written ELSE current.first,
                   len |-> Length(current) + n]
    /\ written' = written + n
    /\ Release
    /\ UNCHANGED <<rotated, index, journal, degraded, cursorVars, returned>>

\* Mutant: a failed write takes back a line it did not write.
WriteFails_TakesBack ==
    /\ MayFail /\ step = "write"
    /\ current' = IF current = None THEN [first |-> written, len |-> 0]
                  ELSE [current EXCEPT !.len = @ - 1]
    /\ Release
    /\ UNCHANGED <<rotated, index, journal, written, degraded, cursorVars, returned>>

\* The file was opened, and created if it had to be, but not written to.
WriteFails ==
    /\ MayFail /\ step = "write"
    /\ current' = IF current = None THEN [first |-> written, len |-> 0] ELSE current
    /\ Release
    /\ UNCHANGED <<rotated, index, journal, written, degraded, cursorVars, returned>>

\* The process that holds the lock dies, and the kernel releases the lock.
Crash ==
    /\ step # "free"
    /\ Release /\ returned' = {}
    /\ UNCHANGED <<logVars, written, degraded, cursorVars>>

(***************************************************************************)
(* Readers                                                                 *)
(***************************************************************************)
\* The log lock is not taken for this: the cursor has a lock of its own.
TakeCursor(p) ==
    /\ cursor[p] # None /\ at[p] = None /\ seen[p] = None
    /\ at' = [at EXCEPT ![p] = cursor[p]]
    /\ UNCHANGED <<logVars, lockVars, written, degraded, cursor, consumer, seen, returned>>

\* A missing cursor starts at the current generation, registered under the log
\* lock so that no rotation can come in between.
InitCursor(p) ==
    /\ step = "loaded" /\ task = [kind |-> "init", project |-> p]
    /\ cursor' = [cursor EXCEPT ![p] = index.base]
    /\ Release
    /\ UNCHANGED <<logVars, written, degraded, consumer, at, seen, returned>>

\* The reader gets everything from its cursor on, or learns that the cursor is
\* no longer retained and resynchronizes to the earliest line.
Scan(p) ==
    /\ step = "loaded" /\ task = [kind |-> "read", project |-> p]
    /\ seen' = [seen EXCEPT ![p] = IF at[p] < Earliest(index) THEN Earliest(index)
                                   ELSE IF at[p] <= Head(index) THEN Head(index)
                                   ELSE None]
    /\ at' = [at EXCEPT ![p] = None]
    /\ Release
    /\ UNCHANGED <<logVars, written, degraded, cursor, consumer, returned>>

WriteCursor(p) ==
    /\ seen[p] # None /\ consumer[p] # "unregistered"
    /\ cursor' = [cursor EXCEPT ![p] = seen[p]]
    /\ seen' = [seen EXCEPT ![p] = None]
    /\ consumer' = [consumer EXCEPT ![p] = "active"]
    /\ returned' = IF step = "journaled" /\ consumer[p] = "idle" THEN returned \cup {p} ELSE returned
    /\ UNCHANGED <<logVars, lockVars, written, degraded, at>>

\* A reader goes away with what it has read and not acknowledged.
ReaderDies(p) ==
    /\ at[p] # None \/ seen[p] # None
    /\ task # None => task.project # p
    /\ at' = [at EXCEPT ![p] = None]
    /\ seen' = [seen EXCEPT ![p] = None]
    /\ UNCHANGED <<logVars, lockVars, written, degraded, cursor, consumer, returned>>

\* A week without an acknowledgement; the project is removed.
Fades(p, liveness) ==
    /\ \/ consumer[p] = "active" /\ liveness = "idle"
       \/ consumer[p] # "unregistered" /\ liveness = "unregistered"
    /\ consumer' = [consumer EXCEPT ![p] = liveness]
    /\ UNCHANGED <<logVars, lockVars, written, degraded, cursor, at, seen, returned>>
-----------------------------------------------------------------------------
Rotation ==
    \/ SkipRotation \/ BeginRotation \/ JournalFails \/ Rename \/ RenameFails
    \/ SaveIndex \/ SaveFails \/ FinishRotation

Loading == LoadIndex \/ CommitPending \/ DropRecovered \/ LoadFails

Reading(p) ==
    \/ LockToRead(p) \/ LockToInit(p) \/ TakeCursor(p) \/ InitCursor(p) \/ Scan(p)
    \/ WriteCursor(p) \/ ReaderDies(p)
    \/ \E liveness \in {"idle", "unregistered"} : Fades(p, liveness)

Next ==
    \/ LockToAppend \/ Loading \/ Rotation \/ Write \/ WriteFails \/ Crash
    \/ \E p \in Projects : Reading(p)

Spec == Init /\ [][Next]_vars
-----------------------------------------------------------------------------
(* Properties *)

TypeOK ==
    /\ current \in Generation \cup {None}
    /\ rotated \in Generation \cup {None}
    /\ index \in Index
    /\ journal \in Journal \cup {None}
    /\ step \in Steps /\ task \in Task \cup {None} /\ losses \in SUBSET Projects
    /\ written \in Nat /\ degraded \in BOOLEAN
    /\ cursor \in [Projects -> Nat \cup {None}]
    /\ consumer \in [Projects -> {"active", "idle", "unregistered"}]
    /\ at \in [Projects -> Nat \cup {None}]
    /\ seen \in [Projects -> Nat \cup {None}]
    /\ returned \in SUBSET Projects

\* Whatever step the holder of the lock died or failed in, the next one can load
\* the index: recovery never meets the shapes it calls ambiguous.
AlwaysRecoverable == Recoverable

\* Every line is found at the logical position it was written at: after recovery
\* the index names the first line of each file there is, the files meet, and the
\* head is the number of lines ever written.  A cursor taken before a rotation or
\* a crash therefore reads the lines after it, each once.
ReadsAreFaithful ==
    LET idx == RecoveredIndex IN
    /\ Head(idx) = written
    /\ current # None => idx.base = current.first
    /\ idx.previous # None => /\ rotated # None
                              /\ rotated.first = idx.previous
                              /\ rotated.first + rotated.len = idx.base

\* No cursor is past the end of the log: a reader whose cursor is would fail at
\* every start.
CursorsAreWithinLog ==
    \A p \in Projects : \A pos \in {cursor[p], at[p], seen[p]} : pos # None => pos <= written

\* One stuck consumer does not grow the log without bound: as long as the file
\* operations succeed, a generation holds no more than the ceiling, or than the
\* one append that begins it.
LogIsBounded ==
    ~degraded => Length(current) <= Ceiling \/ Length(current) <= Cardinality(Projects) + 1

\* When `.1` is replaced, a consumer that was active when the rotation was
\* decided loses unread lines only because the log had reached its ceiling, and
\* it is among those the log will name.
UnreadLinesHoldRotation ==
    [][\A p \in Projects :
          (/\ rotated' # rotated /\ rotated # None
           /\ consumer[p] = "active" /\ p \notin returned
           /\ cursor[p] # None /\ cursor[p] < index.base)
          => current.len >= Ceiling /\ p \in losses]_vars

\* Seen through recovery, the two files, the index and the journal are one log
\* that only grows at its end and forgets only a prefix.
Retained == INSTANCE RetainedLog WITH
    head <- Head(RecoveredIndex), earliest <- Earliest(RecoveredIndex)
KeepsLogicalPositions == Retained!Spec
=============================================================================
