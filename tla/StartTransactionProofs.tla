----------------------- MODULE StartTransactionProofs -----------------------
(***************************************************************************)
(* What IssueStart's cards see of the starts, for any issues, workspaces   *)
(* and jobs: each start is a transaction (StartTransaction), and starts    *)
(* that are about different workspaces never book one twice.               *)
(***************************************************************************)
EXTENDS IssueStartProofs

USE RegistryAssumption, StartAssumption

(* A start is atomic. *)

(* How far the card may be from the one the start found, and from the one  *)
(* its rollback will leave: the poller only ever hands it on.              *)
FlightOK(i) ==
    /\ req[i].pc \in Unsettled \ {"restored"} => issue[i].status \in {"active", "done"}
    /\ req[i].pc = "restored" =>
           \/ issue[i].status = req[i].original.status
           \/ req[i].original.status = "active" /\ issue[i].status = "done"

FlightsOK == \A i \in Issues : FlightOK(i)

(* One issue's step leaves the others' flights and cards alone.            *)
Only(i) ==
    /\ req' \in [Issues -> RequestTypes] /\ issue' \in [Issues -> Cards]
    /\ \A k \in Issues \ {i} : req'[k] = req[k] /\ issue'[k] = issue[k]

LEMMA StepIsLocal ==
    ASSUME TypeOK, RequestsOK, NEW i \in Issues, ReqStep(i)
    PROVE  Only(i)
  <1>0. issue \in [Issues -> Cards]
    BY DEF TypeOK
  <1>1. req' \in [Issues -> RequestTypes] /\ \A k \in Issues \ {i} : req'[k] = req[k]
    BY MovesOrEnds DEF Moves, Ends
  <1>2. issue' \in [Issues -> Cards] /\ \A k \in Issues \ {i} : issue'[k] = issue[k]
    <2>1. CASE PersistMove(i) \/ PersistAssignment(i) \/ RestoreStatus(i) \/ RestoreFields(i)
      BY <2>1, RequestEffect DEF Card
    <2>2. CASE ~(PersistMove(i) \/ PersistAssignment(i) \/ RestoreStatus(i) \/ RestoreFields(i))
      <3>1. UNCHANGED issue
        BY <2>2 DEF ReqStep, RecheckFails, SpawnLaunchThread, LaunchAnswers, IdleTimeout,
                    LateSuccess, Abandon, Teardown, Finish, ReleaseSupplanted
      <3>. QED
        BY <1>0, <3>1
    <2>. QED
      BY <2>1, <2>2
  <1>. QED
    BY <1>1, <1>2 DEF Only

LEMMA MoveIsLocal ==
    ASSUME TypeOK, NEW i \in Issues, CardMoves(i)
    PROVE  /\ Only(i) /\ UNCHANGED <<req, delivered>> /\ issue'[i].ws = issue[i].ws
           /\ \/ issue[i].status = "active" /\ issue'[i].status = "done"
              \/ req[i].pc = "idle" /\ issue'[i].status = "ready"
  <1>1. \/ Card(i, "done", issue[i].ws) /\ issue[i].status = "active"
        \/ Card(i, "ready", issue[i].ws) /\ req[i].pc = "idle"
    BY CardChanges DEF CardMoves, Statuses
  <1>2. UNCHANGED <<req, delivered>>
    BY DEF CardMoves, registryAndPlace, place
  <1>. QED
    BY <1>1, <1>2 DEF Only, Card, TypeOK, RequestTypes

LEMMA GateIsLocal ==
    ASSUME TypeOK, NEW i \in Issues, NEW w \in Workspaces, NEW j \in Jobs, Gate(i, w, j)
    PROVE  /\ Only(i) /\ UNCHANGED <<issue, delivered>>
           /\ req[i].pc = "idle" /\ req'[i].pc = "gated" /\ req'[i].original = issue[i]
  BY GateEffect DEF Gate, GatedFor, Only, TypeOK, registryAndPlace, place

LEMMA OtherFlights ==
    ASSUME FlightsOK, NEW i \in Issues, Only(i), FlightOK(i)'
    PROVE  FlightsOK'
  BY DEF FlightsOK, FlightOK, Only

LEMMA NextFlights ==
    ASSUME CardInv, FlightsOK, [Next]_vars
    PROVE  FlightsOK'
  <1>0. TypeOK /\ RequestsOK /\ NoRequest.pc = "idle"
    BY DEF CardInv, NoRequest
  <1>1. ASSUME NEW i \in Issues, ReqStep(i)  PROVE FlightsOK'
    <2>1. FlightOK(i)
      BY DEF FlightsOK
    <2>2. FlightOK(i)'
      <3>. USE <1>0, <1>1, <2>1, RequestEffect DEF FlightOK, Unsettled
      <3>1. CASE RecheckFails(i) \/ Teardown(i) \/ ReleaseSupplanted(i)
        BY <3>1 DEF Ends
      <3>2. CASE PersistMove(i)
        BY <3>2 DEF PersistMove, Moves, Card
      <3>3. CASE PersistAssignment(i)
        BY <3>3 DEF PersistAssignment, Moves, Card
      <3>4. CASE SpawnLaunchThread(i)
        BY <3>4, SpawnEffect DEF SpawnLaunchThread, Moves
      <3>5. CASE LaunchAnswers(i)
        BY <3>5 DEF LaunchAnswers, Moves
      <3>6. CASE IdleTimeout(i) \/ LateSuccess(i) \/ Abandon(i)
        BY <3>6 DEF IdleTimeout, LateSuccess, Abandon, Moves
      <3>7. CASE RestoreStatus(i)
        <4>1. req[i].original.status \in Statuses
          BY DEF TypeOK, Cards
        <4>2. /\ req[i].pc = "rollback" /\ req'[i].pc = "restored"
              /\ req'[i].original = req[i].original
              /\ issue'[i].status = RestoredStatus(i)
          BY <3>7 DEF RestoreStatus, Moves, Card
        <4>. QED
          BY <4>1, <4>2 DEF RestoredStatus, Statuses
      <3>8. CASE RestoreFields(i)
        BY <3>8 DEF RestoreFields, Moves, Card
      <3>9. CASE Finish(i)
        BY <3>9 DEF Finish, Moves, Ends
      <3>. QED
        BY <3>1, <3>2, <3>3, <3>4, <3>5, <3>6, <3>7, <3>8, <3>9 DEF ReqStep
    <2>. QED
      BY <1>0, <1>1, <2>2, StepIsLocal, OtherFlights
  <1>2. ASSUME NEW i \in Issues, CardMoves(i)  PROVE FlightsOK'
    <2>1. FlightOK(i)
      BY DEF FlightsOK
    <2>2. FlightOK(i)'
      BY <1>0, <1>2, <2>1, MoveIsLocal DEF FlightOK, Unsettled
    <2>. QED
      BY <1>0, <1>2, <2>2, MoveIsLocal, OtherFlights
  <1>3. ASSUME NEW i \in Issues, NEW w \in Workspaces, NEW j \in Jobs, Gate(i, w, j)
        PROVE  FlightsOK'
    <2>1. FlightOK(i)'
      BY <1>0, <1>3, GateIsLocal DEF FlightOK, Unsettled
    <2>. QED
      BY <1>0, <1>3, <2>1, GateIsLocal, OtherFlights
  <1>4. ASSUME UNCHANGED <<issue, req>>  PROVE FlightsOK'
    BY <1>4 DEF FlightsOK, FlightOK
  <1>5. ASSUME NEW j \in Jobs, LaunchStep(j)  PROVE FlightsOK'
    BY <1>0, <1>4, <1>5, LaunchStages
  <1>6. CASE (\E w \in Workspaces : SessionEnds(w)) \/ UNCHANGED vars
    BY <1>4, <1>6 DEF SessionEnds, vars
  <1>. QED
    BY <1>1, <1>2, <1>3, <1>5, <1>6, NextCases

-----------------------------------------------------------------------------
(* What the transaction sees of the board. *)

Board == [i \in Issues |-> SettledCard(i)]
InFlight == {i \in Issues : req[i].pc \in Unsettled}

LEMMA BoardChanges ==
    ASSUME NEW i \in Issues, Only(i)
    PROVE  /\ Board' = [Board EXCEPT ![i] = SettledCard(i)']
           /\ req'[i].pc \in Unsettled => InFlight' = InFlight \cup {i}
           /\ req'[i].pc \notin Unsettled => InFlight' = InFlight \ {i}
           /\ Board[i] = SettledCard(i)
           /\ i \in InFlight <=> req[i].pc \in Unsettled
  <1>1. \A k \in Issues \ {i} : SettledCard(k)' = SettledCard(k)
    BY DEF SettledCard, Only
  <1>2. Board' = [k \in Issues |-> SettledCard(k)']
    BY DEF Board
  <1>. QED
    BY <1>1, <1>2 DEF Board, InFlight, Only

LEMMA BoardStays ==
    ASSUME NEW i \in Issues, Only(i), SettledCard(i)' = SettledCard(i),
           req'[i].pc \in Unsettled <=> req[i].pc \in Unsettled
    PROVE  UNCHANGED <<Board, InFlight>>
  <1>1. \A k \in Issues : SettledCard(k)' = SettledCard(k)
    BY DEF SettledCard, Only
  <1>2. \A k \in Issues : req'[k].pc \in Unsettled <=> req[k].pc \in Unsettled
    BY DEF Only
  <1>. QED
    BY <1>1, <1>2 DEF Board, InFlight

LEMMA SameCard ==
    ASSUME NEW c \in Cards, NEW d \in Cards, c.status = d.status, c.ws = d.ws
    PROVE  c = d
  BY DEF Cards

LEMMA HandsOn ==
    ASSUME NEW c \in Cards, NEW d \in Cards, d.status = "done", d.ws = c.ws
    PROVE  d = Transaction!HandedOn(c)
  BY DEF Cards, Transaction!HandedOn

AbstractVars == <<Board, InFlight, delivered>>
AbstractNext == Transaction!Next \/ UNCHANGED AbstractVars

LEMMA RequestStepMaps ==
    ASSUME CardInv, FlightsOK, NEW i \in Issues, ReqStep(i)
    PROVE  AbstractNext
  <1>0. /\ TypeOK /\ RequestsOK /\ NoRequest.pc = "idle" /\ CardOK(i) /\ FlightOK(i)
        /\ req[i].original \in Cards /\ issue[i] \in Cards /\ Only(i) /\ issue'[i] \in Cards
    BY StepIsLocal, CardsSplit DEF CardInv, NoRequest, FlightsOK, TypeOK, Only
  <1>a. ASSUME SettledCard(i)' = SettledCard(i), UNCHANGED delivered,
               req'[i].pc \in Unsettled <=> req[i].pc \in Unsettled
        PROVE  AbstractNext
    BY <1>0, <1>a, BoardStays DEF AbstractNext, AbstractVars
  <1>. USE DEF registryAndPlace, place
  <1>1. CASE RecheckFails(i) \/ Teardown(i) \/ ReleaseSupplanted(i)
    <2>1. /\ req[i].pc \in {"gated", "teardown", "releasing"} /\ req'[i].pc = "idle"
          /\ UNCHANGED <<issue, delivered>>
      BY <1>0, <1>1, RequestEffect DEF RecheckFails, Teardown, ReleaseSupplanted, Ends
    <2>. QED
      BY <1>a, <2>1 DEF SettledCard, Unsettled
  <1>2. CASE PersistMove(i)
    <2>1. /\ req[i].pc = "gated" /\ req'[i].pc = "moved" /\ issue[i] = req[i].original
          /\ req'[i].original = req[i].original /\ UNCHANGED delivered
      BY <1>0, <1>2, RequestEffect DEF PersistMove, Moves
    <2>2. SettledCard(i)' = SettledCard(i)
      BY <1>0, <2>1 DEF SettledCard, Unsettled, FlightOK
    <2>3. i \notin InFlight /\ InFlight' = InFlight \cup {i} /\ Board' = Board
      BY <1>0, <2>1, <2>2, BoardChanges DEF Unsettled, Board
    <2>4. Transaction!Begin(i)
      BY <2>1, <2>3 DEF Transaction!Begin, Board, InFlight
    <2>. QED
      BY <2>4 DEF AbstractNext, Transaction!Next
  <1>3. CASE \/ PersistAssignment(i) \/ SpawnLaunchThread(i) \/ IdleTimeout(i)
             \/ Abandon(i) \/ RestoreStatus(i)
    <2>1. /\ req[i].pc \in Unsettled /\ req'[i].pc \in Unsettled
          /\ req'[i].original = req[i].original /\ UNCHANGED delivered
      BY <1>0, <1>3, RequestEffect, SpawnEffect
         DEF PersistAssignment, SpawnLaunchThread, IdleTimeout, Abandon, RestoreStatus,
             Moves, Unsettled
    <2>. QED
      BY <1>a, <2>1 DEF SettledCard
  (* The two ways to succeed commit the card where it was delivered. *)
  <1>b. ASSUME req[i].pc \in {"waiting", "timedout"}, req'[i].pc = "launched",
               req[i].ws \in Workspaces, <<i, req[i].ws>> \in delivered,
               UNCHANGED <<issue, delivered>>
        PROVE  AbstractNext
    <2>0. PICK w \in Workspaces : w = req[i].ws
      BY <1>b
    <2>. DEFINE c == [status |-> "active", ws |-> w]
    <2>1. issue[i].status \in {"active", "done"} /\ issue[i].ws = w
      BY <1>0, <1>b, <2>0 DEF FlightOK, CardOK, Unsettled
    <2>2. c \in Cards /\ c.ws = w /\ c.status = "active"
      BY <1>b DEF Cards, Statuses
    <2>3. issue[i] \in {c, Transaction!HandedOn(c)}
      <3>. HIDE DEF c
      <3>. QED
        BY <1>0, <2>1, <2>2, SameCard, HandsOn
    <2>4. SettledCard(i)' = issue[i]
      BY <1>b DEF SettledCard, Unsettled
    <2>5. i \in InFlight /\ InFlight' = InFlight \ {i} /\ Board' = [Board EXCEPT ![i] = issue[i]]
      BY <1>0, <1>b, <2>4, BoardChanges DEF Unsettled
    <2>6. Transaction!Commit(i, w)
      BY <1>b, <2>0, <2>3, <2>5 DEF Transaction!Commit, Transaction!Becomes, Board, InFlight
    <2>. QED
      BY <2>6 DEF AbstractNext, Transaction!Next
  <1>4. CASE LaunchAnswers(i)
    <2>. DEFINE j == req[i].job
    <2>1. /\ req[i].pc = "waiting" /\ req'[i].original = req[i].original
          /\ UNCHANGED <<issue, delivered>> /\ req[i].ws \in Workspaces /\ j \in Jobs
          /\ launch[j].pc # "idle"
          /\ req'[i].pc = IF launch[j].pc = "completed" THEN "launched" ELSE "rollback"
      BY <1>0, <1>4, RequestEffect DEF LaunchAnswers, Moves, RequestsOK
    <2>2. CASE launch[j].pc = "completed"
      <3>1. launch[j].issue = i /\ launch[j].ws = req[i].ws
        BY <2>1 DEF CardInv, LaunchesOK
      <3>2. <<i, req[i].ws>> \in delivered
        BY <2>1, <2>2, <3>1 DEF CardInv, CardsOK
      <3>. QED
        BY <1>b, <2>1, <2>2, <3>2
    <2>3. CASE launch[j].pc # "completed"
      BY <1>a, <2>1, <2>3 DEF SettledCard, Unsettled
    <2>. QED
      BY <2>2, <2>3
  <1>5. CASE LateSuccess(i)
    <2>1. /\ req[i].pc = "timedout" /\ req'[i].pc = "launched" /\ req[i].ws \in Workspaces
          /\ <<i, req[i].ws>> \in delivered /\ UNCHANGED <<issue, delivered>>
      BY <1>0, <1>5, RequestEffect DEF LateSuccess, AppearsComplete, Moves, RequestsOK
    <2>. QED
      BY <1>b, <2>1
  (* The second write of the rollback is the undo. *)
  <1>6. CASE RestoreFields(i)
    <2>. DEFINE c == req[i].original
    <2>1. /\ req[i].pc = "restored" /\ req'[i].pc = "teardown"
          /\ issue'[i].status = issue[i].status /\ issue'[i].ws = c.ws
          /\ UNCHANGED delivered
      BY <1>0, <1>6, RequestEffect DEF RestoreFields, RestoredOwner, Moves, Card
    <2>2. SettledCard(i)' = issue'[i] /\ SettledCard(i) = c
      BY <2>1 DEF SettledCard, Unsettled
    <2>3. \/ issue'[i] = c
          \/ c.status = "active" /\ issue'[i] = Transaction!HandedOn(c)
      <3>. HIDE DEF c
      <3>1. /\ c \in Cards
            /\ \/ issue[i].status = c.status
               \/ c.status = "active" /\ issue[i].status = "done"
        BY <1>0, <2>1 DEF FlightOK, c
      <3>. QED
        BY <1>0, <2>1, <3>1, SameCard, HandsOn
    <2>4. /\ i \in InFlight /\ InFlight' = InFlight \ {i} /\ Board[i] = c
          /\ Board' = [Board EXCEPT ![i] = issue'[i]]
      BY <1>0, <2>1, <2>2, BoardChanges DEF Unsettled
    <2>5. \/ Board' = Board
          \/ /\ c.status = "active"
             /\ Board' = [Board EXCEPT ![i] = Transaction!HandedOn(c)]
      BY <2>3, <2>4 DEF Board
    <2>6. Transaction!Undo(i)
      BY <2>1, <2>4, <2>5 DEF Transaction!Undo, Transaction!Becomes, Board, InFlight
    <2>. QED
      BY <2>6 DEF AbstractNext, Transaction!Next
  <1>7. CASE Finish(i)
    <2>1. /\ req[i].pc = "launched" /\ req'[i].pc \in {"releasing", "idle"}
          /\ UNCHANGED <<issue, delivered>>
      BY <1>0, <1>7, RequestEffect DEF Finish, Moves, Ends
    <2>. QED
      BY <1>a, <2>1 DEF SettledCard, Unsettled
  <1>. QED
    BY <1>1, <1>2, <1>3, <1>4, <1>5, <1>6, <1>7 DEF ReqStep

LEMMA CardMoveMaps ==
    ASSUME CardInv, FlightsOK, NEW i \in Issues, CardMoves(i)
    PROVE  AbstractNext
  <1>0. /\ TypeOK /\ Only(i) /\ UNCHANGED <<req, delivered>>
        /\ issue[i] \in Cards /\ issue'[i] \in Cards /\ issue'[i].ws = issue[i].ws
    BY MoveIsLocal DEF CardInv, TypeOK, Only
  <1>1. CASE req[i].pc \in Unsettled
    <2>1. SettledCard(i)' = SettledCard(i)
      BY <1>0, <1>1 DEF SettledCard
    <2>. QED
      BY <1>0, <2>1, BoardStays DEF AbstractNext, AbstractVars
  <1>2. CASE req[i].pc \notin Unsettled
    <2>1. /\ i \notin InFlight /\ InFlight' = InFlight /\ Board[i] = issue[i]
          /\ Board' = [Board EXCEPT ![i] = issue'[i]]
      BY <1>0, <1>2, BoardChanges DEF SettledCard, InFlight
    <2>2. CASE issue[i].status = "active" /\ issue'[i].status = "done"
      <3>1. issue'[i] = Transaction!HandedOn(issue[i])
        BY <1>0, <2>2, HandsOn
      <3>2. Transaction!HandOn(i)
        BY <1>0, <2>1, <2>2, <3>1 DEF Transaction!HandOn, Transaction!Becomes, Board, InFlight
      <3>. QED
        BY <3>2 DEF AbstractNext, Transaction!Next
    <2>3. CASE issue'[i].status = "ready"
      <3>1. issue'[i] = [issue[i] EXCEPT !.status = "ready"]
        BY <1>0, <2>3 DEF Cards
      <3>2. Board' = [Board EXCEPT ![i].status = "ready"]
        BY <2>1, <3>1 DEF Board
      <3>3. Transaction!Reopen(i)
        BY <1>0, <2>1, <3>2 DEF Transaction!Reopen, Board, InFlight
      <3>. QED
        BY <3>3 DEF AbstractNext, Transaction!Next
    <2>. QED
      BY <1>0, <2>2, <2>3, MoveIsLocal
  <1>. QED
    BY <1>1, <1>2

LEMMA StepMaps ==
    ASSUME CardInv, FlightsOK, [Next]_vars
    PROVE  AbstractNext
  <1>0. TypeOK
    BY DEF CardInv
  <1>1. ASSUME NEW i \in Issues, NEW w \in Workspaces, NEW j \in Jobs, Gate(i, w, j)
        PROVE  AbstractNext
    <2>1. /\ SettledCard(i)' = SettledCard(i)
          /\ req[i].pc \notin Unsettled /\ req'[i].pc \notin Unsettled
      BY <1>0, <1>1, GateIsLocal DEF SettledCard, Unsettled
    <2>. QED
      BY <1>0, <1>1, <2>1, GateIsLocal, BoardStays DEF AbstractNext, AbstractVars
  <1>2. ASSUME UNCHANGED <<issue, req>>  PROVE UNCHANGED <<Board, InFlight>>
    BY <1>2 DEF Board, InFlight, SettledCard
  <1>3. ASSUME NEW j \in Jobs, LaunchStep(j)  PROVE AbstractNext
    <2>1. UNCHANGED <<Board, InFlight>> /\ delivered \subseteq delivered'
      BY <1>0, <1>2, <1>3, LaunchStages
    <2>2. Transaction!Deliver
      BY <2>1 DEF Transaction!Deliver, Board, InFlight
    <2>. QED
      BY <2>2 DEF AbstractNext, Transaction!Next
  <1>4. CASE (\E w \in Workspaces : SessionEnds(w)) \/ UNCHANGED vars
    BY <1>2, <1>4 DEF SessionEnds, vars, AbstractNext, AbstractVars
  <1>. QED
    BY <1>1, <1>3, <1>4, RequestStepMaps, CardMoveMaps, NextCases

(* However the poller, timeouts and launches that outlive their start      *)
(* interleave with a start's four writes of the card, the card sees a      *)
(* transaction: what a start commits was delivered where it says, and one  *)
(* that fails gives the card back as it found it (start.rs: the snapshot   *)
(* taken after the recheck, and rollback_start).                           *)
THEOREM StartIsATransaction == Spec => StartsAreAtomic
  <1>1. Init => Transaction!Init
    BY DEF Init, Transaction!Init, NoRequest, Unassigned, SettledCard, Unsettled
  <1>2. Init => FlightsOK
    BY DEF Init, FlightsOK, FlightOK, NoRequest, Unsettled
  <1>3. FlightsOK /\ CardInv /\ [Next]_vars => FlightsOK'
    BY NextFlights
  <1>4. FlightsOK /\ CardInv /\ [Next]_vars => [Transaction!Next]_(Transaction!vars)
    BY StepMaps DEF AbstractNext, AbstractVars, Transaction!vars, Board, InFlight
  <1>. QED
    BY <1>1, <1>2, <1>3, <1>4, CardsInvariant, PTL DEF Spec, StartsAreAtomic, Transaction!Spec

-----------------------------------------------------------------------------
(* When the occupancy gate is enough. *)

(* The workspaces a card is in progress on, or that its start may leave it *)
(* in progress on: the one asked for, or by a rollback the one it had.     *)
Occupies(i) ==
    {w \in Workspaces :
        IF req[i].pc = "idle" THEN issue[i] = [status |-> "active", ws |-> w]
        ELSE w = req[i].ws \/ req[i].original = [status |-> "active", ws |-> w]}

(* Starts that are under way at one time are about different workspaces.   *)
StartsAreApart ==
    \A i, k \in Issues :
        i # k /\ req[i].pc # "idle" /\ req[k].pc # "idle" => Occupies(i) \cap Occupies(k) = {}

OccupiedOnce == \A i, k \in Issues : i # k => Occupies(i) \cap Occupies(k) = {}

(* A card whose start ends without success is, if it is in progress, where *)
(* it was.                                                                 *)
AsFoundOK ==
    \A i \in Issues :
        req[i].pc \in {"gated", "teardown"} =>
            /\ issue[i].ws = req[i].original.ws
            /\ issue[i].status = "active" => req[i].original.status = "active"

LEMMA NextAsFound ==
    ASSUME CardInv, AsFoundOK, [Next]_vars
    PROVE  AsFoundOK'
  <1>0. TypeOK /\ RequestsOK /\ NoRequest.pc = "idle"
    BY DEF CardInv, NoRequest
  <1>1. ASSUME NEW i \in Issues, ReqStep(i)  PROVE AsFoundOK'
    <2>1. req'[i].pc \in {"gated", "teardown"} =>
              /\ issue'[i].ws = req'[i].original.ws
              /\ issue'[i].status = "active" => req'[i].original.status = "active"
      <3>1. CASE RestoreFields(i)
        <4>1. /\ req[i].pc = "restored" /\ req'[i].original = req[i].original
              /\ issue'[i].status = issue[i].status /\ issue'[i].ws = req[i].original.ws
          BY <1>0, <3>1, RequestEffect DEF RestoreFields, RestoredOwner, Moves, Card
        <4>. QED
          BY <4>1 DEF CardInv, CardsOK
      <3>2. CASE LaunchAnswers(i)
        BY <1>0, <3>2, RequestEffect DEF Moves
      <3>3. CASE ~RestoreFields(i) /\ ~LaunchAnswers(i)
        <4>1. Ends(i) \/ \E pc \in ReqPcs \ {"gated", "teardown"} : Moves(i, pc)
          BY <1>0, <1>1, <3>3, RequestEffect, SpawnEffect DEF ReqStep, ReqPcs
        <4>. QED
          BY <1>0, <4>1 DEF Ends, Moves
      <3>. QED
        BY <3>1, <3>2, <3>3
    <2>. QED
      BY <1>0, <1>1, <2>1, StepIsLocal DEF AsFoundOK, Only
  <1>2. ASSUME NEW i \in Issues, CardMoves(i)  PROVE AsFoundOK'
    BY <1>0, <1>2, MoveIsLocal DEF AsFoundOK, Only
  <1>3. ASSUME NEW i \in Issues, NEW w \in Workspaces, NEW j \in Jobs, Gate(i, w, j)
        PROVE  AsFoundOK'
    BY <1>0, <1>3, GateIsLocal DEF AsFoundOK, Only
  <1>4. ASSUME UNCHANGED <<issue, req>>  PROVE AsFoundOK'
    BY <1>4 DEF AsFoundOK
  <1>5. ASSUME NEW j \in Jobs, LaunchStep(j)  PROVE AsFoundOK'
    BY <1>0, <1>4, <1>5, LaunchStages
  <1>6. CASE (\E w \in Workspaces : SessionEnds(w)) \/ UNCHANGED vars
    BY <1>4, <1>6 DEF SessionEnds, vars
  <1>. QED
    BY <1>1, <1>2, <1>3, <1>5, <1>6, NextCases

(* Only the gate lets a card occupy a workspace it did not.                *)
LEMMA OnlyGateOccupies ==
    ASSUME CardInv, AsFoundOK, NEW i \in Issues, ReqStep(i) \/ CardMoves(i)
    PROVE  \A k \in Issues : Occupies(k)' \subseteq Occupies(k)
  <1>0. /\ TypeOK /\ RequestsOK /\ NoRequest.pc = "idle" /\ Only(i)
        /\ issue[i] \in Cards /\ issue'[i] \in Cards /\ req[i].original \in Cards
        /\ None \notin Workspaces
    BY StepIsLocal, MoveIsLocal DEF CardInv, NoRequest, TypeOK, Only
  <1>1. \A k \in Issues \ {i} : Occupies(k)' = Occupies(k)
    BY <1>0 DEF Occupies, Only
  <1>2. CASE CardMoves(i)
    BY <1>0, <1>1, <1>2, MoveIsLocal DEF Occupies
  <1>3. CASE ReqStep(i)
    <2>1. req[i].pc # "idle"
      BY <1>0, <1>3, MovesOrEnds
    <2>2. CASE \E pc \in ReqPcs \ {"idle"} : Moves(i, pc)
      BY <1>1, <2>1, <2>2 DEF Moves, Occupies
    <2>3. CASE Ends(i)
      <3>1. req[i].pc \in {"gated", "teardown"} \cup Succeeded /\ UNCHANGED issue
        <4>1. CASE LaunchAnswers(i)
          BY <1>0, <2>3, <4>1, RequestEffect DEF Moves, Ends
        <4>2. CASE ~LaunchAnswers(i)
          <5>1. \A pc \in ReqPcs \ {"idle"} : ~Moves(i, pc)
            BY <1>0, <2>3 DEF Moves, Ends
          <5>2. RecheckFails(i) \/ Teardown(i) \/ Finish(i) \/ ReleaseSupplanted(i)
            BY <1>0, <1>3, <4>2, <5>1, RequestEffect, SpawnEffect DEF ReqStep, ReqPcs
          <5>3. Finish(i) => req[i].pc = "launched" /\ UNCHANGED issue
            BY DEF Finish
          <5>4. RecheckFails(i) => req[i].pc = "gated" /\ UNCHANGED issue
            BY DEF RecheckFails
          <5>5. Teardown(i) => req[i].pc = "teardown" /\ UNCHANGED issue
            BY DEF Teardown
          <5>6. ReleaseSupplanted(i) => req[i].pc = "releasing" /\ UNCHANGED issue
            BY DEF ReleaseSupplanted
          <5>. QED
            BY <5>2, <5>3, <5>4, <5>5, <5>6 DEF Succeeded
        <4>. QED
          BY <4>1, <4>2
      <3>2. ASSUME NEW w \in Workspaces, issue[i] = [status |-> "active", ws |-> w]
            PROVE  w = req[i].ws \/ req[i].original = [status |-> "active", ws |-> w]
        <4>0. issue[i].ws = w /\ issue[i].status = "active"
          BY <3>2
        <4>1. CASE req[i].pc \in Succeeded
          <5>1. issue[i].ws = req[i].ws
            BY <4>1 DEF CardInv, CardsOK
          <5>. QED
            BY <4>0, <5>1
        <4>2. CASE req[i].pc \in {"gated", "teardown"}
          <5>1. req[i].original.ws = w /\ req[i].original.status = "active"
            BY <4>0, <4>2 DEF AsFoundOK
          <5>. QED
            BY <1>0, <5>1 DEF Cards
        <4>. QED
          BY <3>1, <4>1, <4>2
      <3>. QED
        BY <1>0, <1>1, <2>1, <2>3, <3>1, <3>2 DEF Ends, Occupies
    <2>. QED
      BY <1>0, <1>3, <2>2, <2>3, MovesOrEnds
  <1>. QED
    BY <1>2, <1>3

LEMMA NextOccupied ==
    ASSUME CardInv, AsFoundOK, OccupiedOnce, [Next]_vars, StartsAreApart'
    PROVE  OccupiedOnce'
  <1>0. TypeOK /\ RequestsOK
    BY DEF CardInv
  <1>a. ASSUME \A k \in Issues : Occupies(k)' \subseteq Occupies(k)  PROVE OccupiedOnce'
    BY <1>a DEF OccupiedOnce
  <1>1. ASSUME NEW i \in Issues, NEW w \in Workspaces, NEW j \in Jobs, Gate(i, w, j)
        PROVE  OccupiedOnce'
    <2>1. /\ Only(i) /\ UNCHANGED issue /\ req[i].pc = "idle" /\ req'[i].pc = "gated"
          /\ req'[i].original = issue[i] /\ req'[i].ws = w
      BY <1>0, <1>1, GateIsLocal, GateEffect DEF GatedFor
    <2>2. \A k \in Issues \ {i} : Occupies(k)' = Occupies(k)
      BY <2>1 DEF Occupies, Only
    <2>3. Occupies(i)' \subseteq Occupies(i) \cup {w}
      BY <2>1 DEF Occupies
    <2>4. ASSUME NEW k \in Issues \ {i}  PROVE Occupies(i)' \cap Occupies(k)' = {}
      <3>1. CASE req[k].pc = "idle"
        <4>1. w \notin Occupies(k)
          BY <1>1, <3>1 DEF Gate, BusyWithOther, Occupies
        <4>. QED
          BY <2>2, <2>3, <4>1 DEF OccupiedOnce
      <3>2. CASE req[k].pc # "idle"
        BY <2>1, <3>2 DEF StartsAreApart, Only
      <3>. QED
        BY <3>1, <3>2
    <2>. QED
      BY <2>2, <2>4 DEF OccupiedOnce
  <1>2. ASSUME NEW i \in Issues, ReqStep(i) \/ CardMoves(i)  PROVE OccupiedOnce'
    BY <1>2, <1>a, OnlyGateOccupies
  <1>3. ASSUME UNCHANGED <<issue, req>>  PROVE OccupiedOnce'
    BY <1>3, <1>a DEF Occupies
  <1>4. ASSUME NEW j \in Jobs, LaunchStep(j)  PROVE OccupiedOnce'
    BY <1>0, <1>3, <1>4, LaunchStages
  <1>5. CASE (\E w \in Workspaces : SessionEnds(w)) \/ UNCHANGED vars
    BY <1>3, <1>5 DEF SessionEnds, vars
  <1>. QED
    BY <1>1, <1>2, <1>4, <1>5, NextCases

(* The occupancy gate does keep two cards from one workspace as long as no *)
(* two starts that are about one workspace are under way at once, the      *)
(* workspace a rollback would return to included (start.rs:113,            *)
(* occupancy.rs).  So what lets them meet is the overlap and nothing else: *)
(* not the launches that outlive their start, nor the poller.              *)
THEOREM ApartStartsBookOnce == Spec /\ []StartsAreApart => []NoDoubleBooking
  <1>1. Init => AsFoundOK /\ OccupiedOnce
    BY DEF Init, AsFoundOK, OccupiedOnce, Occupies, NoRequest, Unassigned
  <1>2. CardInv /\ AsFoundOK /\ [Next]_vars => AsFoundOK'
    BY NextAsFound
  <1>3. CardInv /\ AsFoundOK /\ OccupiedOnce /\ [Next]_vars /\ StartsAreApart' => OccupiedOnce'
    BY NextOccupied
  <1>4. OccupiedOnce => NoDoubleBooking
    BY DEF OccupiedOnce, Occupies, NoDoubleBooking, InProgressOn
  <1>. QED
    BY <1>1, <1>2, <1>3, <1>4, CardsInvariant, PTL DEF Spec
=============================================================================
