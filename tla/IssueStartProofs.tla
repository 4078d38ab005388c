-------------------------- MODULE IssueStartProofs --------------------------
(***************************************************************************)
(* IssueStart's types and safety, for any issues, workspaces and jobs.     *)
(***************************************************************************)
EXTENDS IssueStart, TLAPS

USE RegistryAssumption, StartAssumption

Early == {"gated", "moved", "assigned"}
Succeeded == {"launched", "releasing"}
Rolling == {"rollback", "restored", "teardown"}
Holding == {"locked", "synced", "deploying", "bare", "spawned"}

(* The inductive invariant, in parts. *)

(* Who a request is for, and the job no other request has. *)
RequestsOK ==
    \A i \in Issues :
        /\ req[i].pc = "idle" => req[i] = NoRequest
        /\ req[i].pc # "idle" => req[i].ws \in Workspaces /\ req[i].job \in Jobs
        /\ \A k \in Issues : req[i].pc # "idle" /\ req[k].job = req[i].job => k = i

(* A launch is of the request that has its job, while there is one. *)
LaunchesOK ==
    /\ \A j \in Jobs :
           /\ launch[j].pc # "idle" => launch[j].issue \in Issues /\ launch[j].ws \in Workspaces
           /\ launch[j].pc \in {"completed", "failed"} => Awaited(j)
    /\ \A i \in Issues :
           /\ req[i].pc \in Early => launch[req[i].job].pc = "idle"
           /\ req[i].pc = "waiting" => launch[req[i].job].pc # "idle"
           /\ req[i].pc # "idle" /\ launch[req[i].job].pc # "idle" =>
                  /\ launch[req[i].job].issue = i
                  /\ launch[req[i].job].ws = req[i].ws

(* A card that is in progress when a start takes it, and one a start       *)
(* leaves in progress, was delivered where it is assigned.                 *)
DeliveredIfActive(i, card) == card.status = "active" => <<i, card.ws>> \in delivered

CardsOK ==
    /\ \A j \in Jobs : launch[j].pc = "completed" => <<launch[j].issue, launch[j].ws>> \in delivered
    /\ \A i \in Issues :
           /\ req[i].pc \in {"idle", "gated", "teardown"} => DeliveredIfActive(i, issue[i])
           /\ req[i].pc # "idle" => DeliveredIfActive(i, req[i].original)
           /\ req[i].pc = "restored" =>
                  (issue[i].status = "active" => req[i].original.status = "active")
           /\ req[i].pc \in Succeeded =>
                  issue[i].ws = req[i].ws /\ <<i, req[i].ws>> \in delivered
           /\ req[i].pc \in {"assigned", "waiting", "timedout"} => issue[i].ws = req[i].ws

CardInv == TypeOK /\ RequestsOK /\ LaunchesOK /\ CardsOK

(* A launch that holds a workspace's lock is alone there, and past the     *)
(* sync its tree is its issue's.                                           *)
HoldersOK ==
    \A j \in Jobs :
        /\ launch[j].pc \in Holding => wsLock[launch[j].ws] = j
        /\ launch[j].pc \in Holding \ {"locked"} => tree[launch[j].ws] = launch[j].issue
        /\ launch[j].pc \in {"bare", "spawned"} => pane[launch[j].ws] \in {None, launch[j].issue}
        /\ launch[j].pc \in Holding \cup {"registered"} =>
               live[j] = [project |-> Project, workspace |-> launch[j].ws, kind |-> "launch"]

RequestIn(j, pcs) == \E i \in Issues : req[i].job = j /\ req[i].pc \in pcs

(* A launch nobody waits for any more was tripped, and finds no session of *)
(* another issue when it comes to the worktree; a start accepted late, and *)
(* a session that could not be ended, are the exceptions.                  *)
StraysOK ==
    /\ \A j \in Jobs :
           /\ launch[j].pc = "born" => Awaited(j)
           /\ launch[j].pc \in Holding \cup {"registered"} =>
                  \/ IsCancelled(j)
                  \/ launch[j].ws \in acceptedLate
                  \/ RequestIn(j, {"waiting", "timedout"})
           /\ launch[j].pc = "locked" =>
                  \/ pane[launch[j].ws] \in {None, launch[j].issue}
                  \/ launch[j].ws \in acceptedLate \cup leftBehind
                  \/ RequestIn(j, {"waiting", "timedout"} \cup Rolling)
    /\ \A i \in Issues :
           req[i].pc \in Succeeded =>
               launch[req[i].job].pc = "idle" \/ req[i].ws \in acceptedLate

(* A session of another issue than the worktree's was left behind, or the  *)
(* start that switched the worktree has yet to end it.                     *)
WillEnd(i) ==
    \/ req[i].pc \in {"timedout"} \cup Rolling
    \/ req[i].pc = "waiting" /\ launch[req[i].job].pc \in {"synced", "deploying", "failed"}

SlotsOK ==
    \A w \in Workspaces \ acceptedLate :
        \/ pane[w] \in {None, tree[w]}
        \/ w \in leftBehind
        \/ \E i \in Issues : req[i].ws = w /\ tree[w] = i /\ WillEnd(i)

SlotInv == TypeOK /\ RequestsOK /\ LaunchesOK /\ HoldersOK /\ StraysOK /\ SlotsOK

-----------------------------------------------------------------------------
(* Types. *)

RequestTypes == [pc : ReqPcs, ws : Workspaces \cup {None}, original : Cards,
                 job : Jobs \cup {None}]
LaunchTypes == [pc : LaunchPcs, issue : Issues \cup {None}, ws : Workspaces \cup {None}]

LEMMA Nulls == Unassigned \in Cards /\ NoRequest \in RequestTypes /\ NoLaunch \in LaunchTypes
  BY DEF Unassigned, NoRequest, NoLaunch, Cards, Statuses, RequestTypes, LaunchTypes,
         ReqPcs, LaunchPcs

LEMMA InitTypes == Init => TypeOK
  <1>. SUFFICES ASSUME Init PROVE TypeOK
    OBVIOUS
  <1>2. RegistryTypeOK
    BY DEF Init, RegistryInit, RegistryTypeOK
  <1>. QED
    BY Nulls, <1>2 DEF Init, TypeOK, RequestTypes, LaunchTypes

(* One field of one request changes. *)
Moves(i, pc) ==
    /\ req' \in [Issues -> RequestTypes]
    /\ req'[i].pc = pc /\ req'[i].ws = req[i].ws
    /\ req'[i].original = req[i].original /\ req'[i].job = req[i].job
    /\ \A k \in Issues \ {i} : req'[k] = req[k]

LEMMA ProceedsMoves ==
    ASSUME TypeOK, NEW i \in Issues, NEW pc \in ReqPcs, Proceeds(i, pc)
    PROVE  Moves(i, pc)
  <1>1. req \in [Issues -> [pc : ReqPcs, ws : Workspaces \cup {None}, original : Cards,
                            job : Jobs \cup {None}]]
    BY DEF TypeOK
  <1>. QED
    BY <1>1 DEF Proceeds, Moves, RequestTypes

(* So with a launch. *)
Goes(j, pc) ==
    /\ launch' \in [Jobs -> LaunchTypes]
    /\ launch'[j].pc = pc /\ launch'[j].issue = launch[j].issue /\ launch'[j].ws = launch[j].ws
    /\ \A k \in Jobs \ {j} : launch'[k] = launch[k]

LEMMA ReachesGoes ==
    ASSUME TypeOK, NEW j \in Jobs, NEW pc \in LaunchPcs, Reaches(j, pc)
    PROVE  Goes(j, pc)
  <1>1. launch \in [Jobs -> [pc : LaunchPcs, issue : Issues \cup {None},
                             ws : Workspaces \cup {None}]]
    BY DEF TypeOK
  <1>. QED
    BY <1>1 DEF Reaches, Goes, LaunchTypes

(* And with a card. *)
Card(i, status, ws) ==
    /\ issue' \in [Issues -> Cards]
    /\ issue'[i].status = status /\ issue'[i].ws = ws
    /\ \A k \in Issues \ {i} : issue'[k] = issue[k]

LEMMA CardChanges ==
    ASSUME TypeOK, NEW i \in Issues
    PROVE  /\ \A s \in Statuses : issue' = [issue EXCEPT ![i].status = s] => Card(i, s, issue[i].ws)
           /\ \A w \in Workspaces \cup {None} :
                  issue' = [issue EXCEPT ![i].ws = w] => Card(i, issue[i].status, w)
  <1>1. issue \in [Issues -> [status : Statuses, ws : Workspaces \cup {None}]]
    BY DEF TypeOK, Cards
  <1>. QED
    BY <1>1 DEF Card, Cards

Ends(i) ==
    /\ req' \in [Issues -> RequestTypes]
    /\ req'[i] = NoRequest
    /\ \A k \in Issues \ {i} : req'[k] = req[k]

LEMMA RequestEnds ==
    ASSUME TypeOK, NEW i \in Issues, req' = [req EXCEPT ![i] = NoRequest]
    PROVE  Ends(i)
  BY Nulls DEF Ends, TypeOK, RequestTypes

Gone(j) ==
    /\ launch' \in [Jobs -> LaunchTypes]
    /\ launch'[j] = NoLaunch
    /\ \A k \in Jobs \ {j} : launch'[k] = launch[k]

LEMMA LaunchGone ==
    ASSUME TypeOK, NEW j \in Jobs, launch' = [launch EXCEPT ![j] = NoLaunch]
    PROVE  Gone(j)
  BY Nulls DEF Gone, TypeOK, LaunchTypes

-----------------------------------------------------------------------------
(* What a step does to the cards, the requests and the launches.           *)

LEMMA NextCases ==
    ASSUME [Next]_vars
    PROVE  \/ \E i \in Issues : ReqStep(i)
           \/ \E i \in Issues : CardMoves(i)
           \/ \E i \in Issues, w \in Workspaces, j \in Jobs : Gate(i, w, j)
           \/ \E j \in Jobs : LaunchStep(j)
           \/ \E w \in Workspaces : SessionEnds(w)
           \/ UNCHANGED vars
  BY DEF Next

GatedFor(i, w, j) ==
    /\ req' \in [Issues -> RequestTypes]
    /\ req'[i].pc = "gated" /\ req'[i].ws = w /\ req'[i].original = issue[i] /\ req'[i].job = j
    /\ \A k \in Issues \ {i} : req'[k] = req[k]

LEMMA GateEffect ==
    ASSUME TypeOK, NEW i \in Issues, NEW w \in Workspaces, NEW j \in Jobs, Gate(i, w, j)
    PROVE  GatedFor(i, w, j)
  <1>. DEFINE new == [pc |-> "gated", ws |-> w, original |-> issue[i], job |-> j]
  <1>1. new \in RequestTypes
    BY DEF RequestTypes, ReqPcs, TypeOK
  <1>2. req' = [req EXCEPT ![i] = new]
    BY DEF Gate
  <1>3. req \in [Issues -> RequestTypes]
    BY DEF TypeOK, RequestTypes
  <1>4. req' \in [Issues -> RequestTypes] /\ req'[i] = new
    BY <1>1, <1>2, <1>3
  <1>. QED
    BY <1>2, <1>3, <1>4 DEF GatedFor

LEMMA SpawnEffect ==
    ASSUME TypeOK, RequestsOK, NEW i \in Issues, SpawnLaunchThread(i)
    PROVE  /\ Moves(i, "waiting")
           /\ launch' \in [Jobs -> LaunchTypes]
           /\ launch'[req[i].job].pc = "born"
           /\ launch'[req[i].job].issue = i
           /\ launch'[req[i].job].ws = req[i].ws
           /\ \A j \in Jobs \ {req[i].job} : launch'[j] = launch[j]
  <1>. DEFINE new == [pc |-> "born", issue |-> i, ws |-> req[i].ws]
  <1>1. req[i].ws \in Workspaces /\ req[i].job \in Jobs
    BY DEF RequestsOK, SpawnLaunchThread
  <1>2. new \in LaunchTypes
    BY <1>1 DEF LaunchTypes, LaunchPcs
  <1>3. launch' = [launch EXCEPT ![req[i].job] = new]
    BY DEF SpawnLaunchThread
  <1>4. launch \in [Jobs -> LaunchTypes]
    BY DEF TypeOK, LaunchTypes
  <1>5. launch' \in [Jobs -> LaunchTypes] /\ launch'[req[i].job] = new
    BY <1>1, <1>2, <1>3, <1>4
  <1>6. Moves(i, "waiting")
    BY ProceedsMoves DEF SpawnLaunchThread, ReqPcs
  <1>. QED
    BY <1>1, <1>3, <1>4, <1>5, <1>6

(* A launch that returns keeps its answer only for a request that waits.   *)
LEMMA ReturnEffect ==
    ASSUME TypeOK, NEW j \in Jobs, NEW pc \in LaunchPcs, Return(j, pc)
    PROVE  /\ Awaited(j) => Goes(j, pc)
           /\ ~Awaited(j) => Gone(j)
           /\ live' \in [Jobs -> Registration \cup {None}] /\ flag' \in [Jobs -> BOOLEAN]
           /\ \A k \in Jobs \ {j} : live'[k] = live[k] /\ flag'[k] = flag[k]
           /\ wsLock' = [w \in Workspaces |-> IF wsLock[w] = j THEN None ELSE wsLock[w]]
           /\ UNCHANGED <<quits, issue, req, tree, pane, acceptedLate, leftBehind>>
  <1>1. launch \in [Jobs -> [pc : LaunchPcs, issue : Issues \cup {None},
                             ws : Workspaces \cup {None}]]
    BY DEF TypeOK
  <1>2. Awaited(j) => Goes(j, pc)
    <2>. SUFFICES ASSUME Awaited(j) PROVE Goes(j, pc)
      OBVIOUS
    <2>1. launch' = [launch EXCEPT ![j] = [@ EXCEPT !.pc = pc]]
      BY DEF Return
    <2>. QED
      BY <1>1, <2>1 DEF Goes, LaunchTypes
  <1>3. ~Awaited(j) => Gone(j)
    BY LaunchGone DEF Return
  <1>. QED
    BY <1>2, <1>3 DEF Return, Unregister, TypeOK, RegistryTypeOK

(* The request's steps, field by field. *)
LEMMA RequestEffect ==
    ASSUME TypeOK, RequestsOK, NEW i \in Issues
    PROVE  /\ RecheckFails(i) => Ends(i)
           /\ PersistMove(i) => Moves(i, "moved") /\ Card(i, "active", issue[i].ws)
           /\ PersistAssignment(i) => Moves(i, "assigned") /\ Card(i, issue[i].status, req[i].ws)
           /\ LaunchAnswers(i) =>
                  /\ Moves(i, IF launch[req[i].job].pc = "completed" THEN "launched" ELSE "rollback")
                  /\ Gone(req[i].job)
           /\ IdleTimeout(i) => Moves(i, "timedout")
           /\ LateSuccess(i) => Moves(i, "launched")
           /\ Abandon(i) => Moves(i, "rollback")
           /\ RestoreStatus(i) => Moves(i, "restored") /\ Card(i, RestoredStatus(i), issue[i].ws)
           /\ RestoreFields(i) => Moves(i, "teardown") /\ Card(i, issue[i].status, RestoredOwner(i))
           /\ Teardown(i) => Ends(i)
           /\ Finish(i) => Moves(i, "releasing") \/ Ends(i)
           /\ ReleaseSupplanted(i) => Ends(i)
  <1>0. req[i].pc # "idle" => req[i].ws \in Workspaces /\ req[i].job \in Jobs
    BY DEF RequestsOK
  <1>1. RecheckFails(i) => Ends(i)
    BY RequestEnds DEF RecheckFails
  <1>2. PersistMove(i) => Moves(i, "moved") /\ Card(i, "active", issue[i].ws)
    BY ProceedsMoves, CardChanges DEF PersistMove, ReqPcs, Statuses
  <1>3. PersistAssignment(i) => Moves(i, "assigned") /\ Card(i, issue[i].status, req[i].ws)
    BY <1>0, ProceedsMoves, CardChanges DEF PersistAssignment, ReqPcs
  <1>4. LaunchAnswers(i) =>
            /\ Moves(i, IF launch[req[i].job].pc = "completed" THEN "launched" ELSE "rollback")
            /\ Gone(req[i].job)
    BY <1>0, ProceedsMoves, LaunchGone DEF LaunchAnswers, ReqPcs
  <1>5. /\ IdleTimeout(i) => Moves(i, "timedout")
        /\ LateSuccess(i) => Moves(i, "launched")
        /\ Abandon(i) => Moves(i, "rollback")
    BY ProceedsMoves DEF IdleTimeout, LateSuccess, Abandon, ReqPcs
  <1>6. RestoreStatus(i) => Moves(i, "restored") /\ Card(i, RestoredStatus(i), issue[i].ws)
    <2>1. RestoredStatus(i) \in Statuses
      BY DEF RestoredStatus, TypeOK, Cards
    <2>. QED
      BY <2>1, ProceedsMoves, CardChanges DEF RestoreStatus, ReqPcs
  <1>7. RestoreFields(i) => Moves(i, "teardown") /\ Card(i, issue[i].status, RestoredOwner(i))
    <2>1. RestoredOwner(i) \in Workspaces \cup {None}
      BY DEF RestoredOwner, TypeOK, Cards
    <2>. QED
      BY <2>1, ProceedsMoves, CardChanges DEF RestoreFields, ReqPcs
  <1>8. Teardown(i) => Ends(i)
    BY RequestEnds DEF Teardown
  <1>9. Finish(i) => Moves(i, "releasing") \/ Ends(i)
    BY ProceedsMoves, RequestEnds DEF Finish, ReqPcs
  <1>10. ReleaseSupplanted(i) => Ends(i)
    BY RequestEnds DEF ReleaseSupplanted
  <1>. QED
    BY <1>1, <1>2, <1>3, <1>4, <1>5, <1>6, <1>7, <1>8, <1>9, <1>10

(* The launch's steps. *)
LEMMA LaunchEffect ==
    ASSUME TypeOK, NEW j \in Jobs
    PROVE  /\ RegisterLaunch(j) => Goes(j, "registered")
           /\ LockAndCheck(j) => Goes(j, "locked")
           /\ SyncWorktree(j) => Goes(j, "synced")
           /\ PreSpawnCheck(j) => Goes(j, "deploying")
           /\ KillOld(j) => Goes(j, "bare")
           /\ SpawnPane(j) => Goes(j, "spawned")
  BY ReachesGoes DEF RegisterLaunch, LockAndCheck, SyncWorktree, PreSpawnCheck, KillOld,
     SpawnPane, LaunchPcs

-----------------------------------------------------------------------------
(* Types are kept. *)

LaunchStays == launch' \in [Jobs -> LaunchTypes]
RequestStays == req' \in [Issues -> RequestTypes]
CardStays == issue' \in [Issues -> Cards]

LEMMA TypesAgain ==
    ASSUME TypeOK, LaunchStays, RequestStays, CardStays,
           UNCHANGED <<live, flag, quits, wsLock, tree, delivered>>,
           pane' \in [Workspaces -> Issues \cup {None}],
           acceptedLate' \subseteq Workspaces, leftBehind' \subseteq Workspaces
    PROVE  TypeOK'
  BY DEF TypeOK, LaunchStays, RequestStays, CardStays, RequestTypes, LaunchTypes, RegistryTypeOK

LEMMA ReqStepTypes ==
    ASSUME TypeOK, RequestsOK, NEW i \in Issues, ReqStep(i)
    PROVE  TypeOK'
  <1>0. /\ launch \in [Jobs -> LaunchTypes] /\ req \in [Issues -> RequestTypes]
        /\ issue \in [Issues -> Cards] /\ pane \in [Workspaces -> Issues \cup {None}]
        /\ acceptedLate \subseteq Workspaces /\ leftBehind \subseteq Workspaces
    BY DEF TypeOK, LaunchTypes, RequestTypes
  <1>. USE DEF LaunchStays, RequestStays, CardStays, registryAndPlace, place, Ends, Moves, Card
  <1>1. CASE RecheckFails(i)
    BY <1>1, <1>0, RequestEffect, TypesAgain DEF RecheckFails
  <1>2. CASE PersistMove(i)
    BY <1>2, <1>0, RequestEffect, TypesAgain DEF PersistMove
  <1>3. CASE PersistAssignment(i)
    BY <1>3, <1>0, RequestEffect, TypesAgain DEF PersistAssignment
  <1>4. CASE SpawnLaunchThread(i)
    BY <1>4, <1>0, SpawnEffect, TypesAgain DEF SpawnLaunchThread
  <1>5. CASE LaunchAnswers(i)
    BY <1>5, <1>0, RequestEffect, TypesAgain DEF LaunchAnswers, Gone
  <1>6. CASE IdleTimeout(i)
    BY <1>6, <1>0, RequestEffect, TypesAgain DEF IdleTimeout
  <1>7. CASE LateSuccess(i)
    <2>1. req[i].ws \in Workspaces
      BY <1>7 DEF LateSuccess, RequestsOK
    <2>. QED
      BY <1>7, <1>0, <2>1, RequestEffect, TypesAgain DEF LateSuccess
  <1>8. CASE Abandon(i)
    <2>1. RegistryTypeOK'
      BY <1>8 DEF Abandon, BumpWorkspace, TypeOK, RegistryTypeOK
    <2>. QED
      BY <1>8, <1>0, <2>1, RequestEffect DEF Abandon, TypeOK, RequestTypes
  <1>9. CASE RestoreStatus(i)
    BY <1>9, <1>0, RequestEffect, TypesAgain DEF RestoreStatus
  <1>10. CASE RestoreFields(i)
    BY <1>10, <1>0, RequestEffect, TypesAgain DEF RestoreFields
  <1>11. CASE Teardown(i)
    <2>1. req[i].ws \in Workspaces
      BY <1>11 DEF Teardown, RequestsOK
    <2>. QED
      BY <1>11, <1>0, <2>1, RequestEffect, TypesAgain DEF Teardown, Kill, EndsSession
  <1>12. CASE Finish(i)
    BY <1>12, <1>0, RequestEffect, TypesAgain DEF Finish
  <1>13. CASE ReleaseSupplanted(i)
    BY <1>13, <1>0, RequestEffect, TypesAgain
       DEF ReleaseSupplanted, Kill, EndsSession
  <1>. QED
    BY <1>1, <1>2, <1>3, <1>4, <1>5, <1>6, <1>7, <1>8, <1>9, <1>10, <1>11, <1>12, <1>13
       DEF ReqStep

LEMMA LaunchStepTypes ==
    ASSUME TypeOK, LaunchesOK, NEW j \in Jobs, LaunchStep(j)
    PROVE  TypeOK'
  <1>0. /\ launch \in [Jobs -> LaunchTypes] /\ req \in [Issues -> RequestTypes]
        /\ issue \in [Issues -> Cards] /\ pane \in [Workspaces -> Issues \cup {None}]
        /\ wsLock \in [Workspaces -> Jobs \cup {None}]
        /\ tree \in [Workspaces -> Issues \cup {None}]
        /\ delivered \subseteq Issues \X Workspaces /\ acceptedLate \subseteq Workspaces
        /\ leftBehind \subseteq Workspaces
        /\ RegistryTypeOK
    BY DEF TypeOK, LaunchTypes, RequestTypes
  <1>a. ASSUME launch[j].pc # "idle"  PROVE launch[j].ws \in Workspaces /\ launch[j].issue \in Issues
    BY <1>a DEF LaunchesOK
  <1>b. ASSUME launch' \in [Jobs -> LaunchTypes], UNCHANGED <<issue, req, acceptedLate>>,
               RegistryTypeOK', wsLock' \in [Workspaces -> Jobs \cup {None}],
               tree' \in [Workspaces -> Issues \cup {None}],
               pane' \in [Workspaces -> Issues \cup {None}],
               delivered' \subseteq Issues \X Workspaces, leftBehind' \subseteq leftBehind
        PROVE  TypeOK'
    BY <1>0, <1>b DEF TypeOK, LaunchTypes
  <1>c. ASSUME UNCHANGED <<live, flag, quits>>  PROVE RegistryTypeOK'
    BY <1>0, <1>c DEF RegistryTypeOK
  <1>. USE DEF registryAndPlace, place, Goes
  <1>1. CASE RegisterLaunch(j)
    <2>1. RegistryTypeOK'
      <3>1. [project |-> Project, workspace |-> launch[j].ws, kind |-> "launch"] \in Registration
        BY <1>1, <1>a DEF RegisterLaunch, Registration, JobKinds
      <3>. QED
        BY <1>0, <1>1, <3>1 DEF RegisterLaunch, Register, RegistryTypeOK, BornCancelled
    <2>. QED
      BY <1>1, <1>0, <1>b, <2>1, LaunchEffect DEF RegisterLaunch
  <1>2. CASE LockAndCheck(j)
    BY <1>2, <1>0, <1>b, <1>c, LaunchEffect DEF LockAndCheck
  <1>3. CASE SyncWorktree(j)
    BY <1>3, <1>0, <1>a, <1>b, <1>c, LaunchEffect DEF SyncWorktree
  <1>4. CASE PreSpawnCheck(j)
    BY <1>4, <1>0, <1>b, <1>c, LaunchEffect DEF PreSpawnCheck
  <1>5. CASE KillOld(j)
    BY <1>5, <1>0, <1>b, <1>c, LaunchEffect DEF KillOld, Kill, EndsSession
  <1>6. CASE SpawnPane(j)
    BY <1>6, <1>0, <1>a, <1>b, <1>c, LaunchEffect DEF SpawnPane
  <1>7. ASSUME NEW pc \in {"completed", "failed"}, Return(j, pc),
               delivered' \subseteq Issues \X Workspaces
        PROVE  TypeOK'
    <2>1. pc \in LaunchPcs
      BY DEF LaunchPcs
    <2>2. Goes(j, pc) \/ Gone(j)
      BY <1>7, <2>1, ReturnEffect
    <2>3. RegistryTypeOK' /\ wsLock' \in [Workspaces -> Jobs \cup {None}]
      BY <1>7, <2>1, <1>0, ReturnEffect DEF RegistryTypeOK
    <2>. QED
      BY <1>7, <1>0, <1>b, <2>1, <2>2, <2>3, ReturnEffect DEF Gone
  <1>8. CASE Deliver(j)
    BY <1>8, <1>7, <1>0, <1>a DEF Deliver
  <1>9. CASE StandDown(j)
    BY <1>9, <1>7, <1>0 DEF StandDown
  <1>10. CASE LaunchFails(j)
    BY <1>10, <1>7, <1>0 DEF LaunchFails
  <1>. QED
    BY <1>1, <1>2, <1>3, <1>4, <1>5, <1>6, <1>8, <1>9, <1>10 DEF LaunchStep

LEMMA NextTypes ==
    ASSUME TypeOK, RequestsOK, LaunchesOK, [Next]_vars
    PROVE  TypeOK'
  <1>0. /\ launch \in [Jobs -> LaunchTypes] /\ req \in [Issues -> RequestTypes]
        /\ issue \in [Issues -> Cards] /\ pane \in [Workspaces -> Issues \cup {None}]
        /\ acceptedLate \subseteq Workspaces /\ leftBehind \subseteq Workspaces
    BY DEF TypeOK, LaunchTypes, RequestTypes
  <1>. USE DEF LaunchStays, RequestStays, CardStays, registryAndPlace, place
  <1>1. ASSUME NEW i \in Issues, ReqStep(i)  PROVE TypeOK'
    BY <1>1, ReqStepTypes
  <1>2. ASSUME NEW i \in Issues, CardMoves(i)  PROVE TypeOK'
    <2>1. CardStays
      BY <1>2, CardChanges DEF CardMoves, Card, Statuses
    <2>. QED
      BY <1>2, <1>0, <2>1, TypesAgain DEF CardMoves
  <1>3. ASSUME NEW i \in Issues, NEW w \in Workspaces, NEW j \in Jobs, Gate(i, w, j)
        PROVE  TypeOK'
    BY <1>3, <1>0, GateEffect, TypesAgain DEF Gate, GatedFor
  <1>4. ASSUME NEW j \in Jobs, LaunchStep(j)  PROVE TypeOK'
    BY <1>4, LaunchStepTypes
  <1>5. ASSUME NEW w \in Workspaces, SessionEnds(w)  PROVE TypeOK'
    BY <1>5, <1>0, TypesAgain DEF SessionEnds, Kill, EndsSession
  <1>6. CASE UNCHANGED vars
    BY <1>6, <1>0, TypesAgain DEF vars
  <1>. QED
    BY <1>1, <1>2, <1>3, <1>4, <1>5, <1>6, NextCases

-----------------------------------------------------------------------------
(* Requests and launches belong together. *)

LEMMA MovesOrEnds ==
    ASSUME TypeOK, RequestsOK, NEW i \in Issues, ReqStep(i)
    PROVE  /\ req[i].pc # "idle"
           /\ (\E pc \in ReqPcs \ {"idle"} : Moves(i, pc)) \/ Ends(i)
  <1>1. req[i].pc # "idle"
    BY DEF ReqStep, RecheckFails, PersistMove, PersistAssignment, SpawnLaunchThread,
           LaunchAnswers, IdleTimeout, LateSuccess, Abandon, RestoreStatus, RestoreFields,
           Teardown, Finish, ReleaseSupplanted
  <1>2. CASE LaunchAnswers(i)
    BY <1>1, <1>2, RequestEffect DEF ReqPcs
  <1>3. CASE ~LaunchAnswers(i)
    BY <1>1, <1>3, RequestEffect, SpawnEffect DEF ReqStep, ReqPcs
  <1>. QED
    BY <1>1, <1>2, <1>3

LEMMA NextRequests ==
    ASSUME TypeOK, RequestsOK, [Next]_vars
    PROVE  RequestsOK'
  <1>0. /\ req \in [Issues -> RequestTypes] /\ None \notin Jobs
        /\ NoRequest.pc = "idle" /\ NoRequest.job = None
    BY DEF TypeOK, RequestTypes, NoRequest
  <1>1. ASSUME NEW i \in Issues, ReqStep(i)  PROVE RequestsOK'
    BY <1>0, <1>1, MovesOrEnds DEF RequestsOK, Moves, Ends
  <1>2. ASSUME NEW i \in Issues, NEW w \in Workspaces, NEW j \in Jobs, Gate(i, w, j)
        PROVE  RequestsOK'
    <2>1. \A k \in Issues : req[k].job # j
      BY <1>2 DEF Gate, FreeJob
    <2>. QED
      BY <1>0, <1>2, <2>1, GateEffect DEF GatedFor, RequestsOK
  <1>3. ASSUME UNCHANGED req  PROVE RequestsOK'
    BY <1>3 DEF RequestsOK
  <1>4. ASSUME NEW j \in Jobs, LaunchStep(j)  PROVE UNCHANGED req
    BY <1>4 DEF LaunchStep, RegisterLaunch, LockAndCheck, SyncWorktree, PreSpawnCheck, KillOld,
           SpawnPane, Deliver, StandDown, LaunchFails, Return
  <1>. QED
    BY <1>1, <1>2, <1>3, <1>4, NextCases DEF CardMoves, SessionEnds, vars

LEMMA ReqStepLaunches ==
    ASSUME TypeOK, RequestsOK, LaunchesOK, NEW i \in Issues, ReqStep(i)
    PROVE  LaunchesOK'
  <1>0. /\ req \in [Issues -> RequestTypes] /\ launch \in [Jobs -> LaunchTypes]
        /\ NoRequest.pc = "idle" /\ NoLaunch.pc = "idle" /\ NoRequest.job = None
        /\ None \notin Jobs
    BY DEF TypeOK, RequestTypes, LaunchTypes, NoRequest, NoLaunch
  <1>a. ASSUME NEW pc \in ReqPcs, Moves(i, pc), UNCHANGED launch, req[i].pc # "idle",
               req[i].pc # "waiting", pc # "waiting",
               pc \in Early => req[i].pc \in Early
        PROVE  LaunchesOK'
    BY <1>0, <1>a DEF LaunchesOK, Moves, Awaited
  <1>b. ASSUME Ends(i), UNCHANGED launch, req[i].pc # "waiting"  PROVE LaunchesOK'
    BY <1>0, <1>b DEF LaunchesOK, Ends, Awaited, Early
  <1>. USE DEF registryAndPlace, place
  <1>1. CASE RecheckFails(i)
    BY <1>1, <1>b, RequestEffect DEF RecheckFails
  <1>2. CASE PersistMove(i)
    BY <1>2, <1>a, RequestEffect DEF PersistMove, ReqPcs, Early
  <1>3. CASE PersistAssignment(i)
    BY <1>3, <1>a, RequestEffect DEF PersistAssignment, ReqPcs, Early
  <1>4. CASE SpawnLaunchThread(i)
    <2>1. req[i].pc = "assigned" /\ req[i].job \in Jobs /\ req[i].ws \in Workspaces
      BY <1>4 DEF SpawnLaunchThread, RequestsOK
    <2>2. \A k \in Issues \ {i} : req[k].pc # "idle" => req[k].job \in Jobs \ {req[i].job}
      BY <2>1 DEF RequestsOK
    <2>3. \A j \in Jobs : Awaited(j) => Awaited(j)'
      BY <1>4, <2>1, SpawnEffect DEF Awaited, Moves
    <2>4. \A j \in Jobs :
              /\ launch'[j].pc # "idle" =>
                     launch'[j].issue \in Issues /\ launch'[j].ws \in Workspaces
              /\ launch'[j].pc \in {"completed", "failed"} => Awaited(j)'
      BY <1>4, <2>1, <2>3, SpawnEffect DEF LaunchesOK
    <2>5. \A k \in Issues \ {i} : req'[k] = req[k] /\
              (req[k].pc # "idle" => launch'[req[k].job] = launch[req[k].job])
      BY <1>4, <2>2, SpawnEffect DEF Moves
    <2>. QED
      BY <1>4, <2>1, <2>4, <2>5, SpawnEffect DEF LaunchesOK, Moves, Early
  <1>5. CASE LaunchAnswers(i)
    <2>1. req[i].pc = "waiting" /\ req[i].job \in Jobs
      BY <1>5 DEF LaunchAnswers, RequestsOK
    <2>2. \A k \in Issues \ {i} : req[k].pc # "idle" => req[k].job \in Jobs \ {req[i].job}
      BY <2>1 DEF RequestsOK
    <2>3. Gone(req[i].job) /\ \E pc \in {"launched", "rollback"} : Moves(i, pc)
      BY <1>5, RequestEffect
    <2>4. \A j \in Jobs \ {req[i].job} : Awaited(j) => Awaited(j)'
      BY <2>3 DEF Awaited, Moves
    <2>5. \A j \in Jobs :
              /\ launch'[j].pc # "idle" =>
                     launch'[j].issue \in Issues /\ launch'[j].ws \in Workspaces
              /\ launch'[j].pc \in {"completed", "failed"} => Awaited(j)'
      BY <1>0, <2>3, <2>4 DEF LaunchesOK, Gone
    <2>6. \A k \in Issues \ {i} : req'[k] = req[k] /\
              (req[k].pc # "idle" => launch'[req[k].job] = launch[req[k].job])
      BY <2>2, <2>3 DEF Moves, Gone
    <2>7. launch'[req'[i].job].pc = "idle"
      BY <1>0, <2>1, <2>3 DEF Moves, Gone
    <2>. QED
      BY <2>3, <2>5, <2>6, <2>7 DEF LaunchesOK, Moves, Early
  <1>6. CASE IdleTimeout(i)
    BY <1>0, <1>6, RequestEffect DEF IdleTimeout, LaunchesOK, RequestsOK, Moves, Awaited, Early
  <1>7. CASE LateSuccess(i)
    BY <1>7, <1>a, RequestEffect DEF LateSuccess, ReqPcs, Early
  <1>8. CASE Abandon(i)
    BY <1>8, <1>a, RequestEffect DEF Abandon, ReqPcs, Early
  <1>9. CASE RestoreStatus(i)
    BY <1>9, <1>a, RequestEffect DEF RestoreStatus, ReqPcs, Early
  <1>10. CASE RestoreFields(i)
    BY <1>10, <1>a, RequestEffect DEF RestoreFields, ReqPcs, Early
  <1>11. CASE Teardown(i)
    BY <1>11, <1>b, RequestEffect DEF Teardown
  <1>12. CASE Finish(i)
    BY <1>12, <1>a, <1>b, RequestEffect DEF Finish, ReqPcs, Early
  <1>13. CASE ReleaseSupplanted(i)
    BY <1>13, <1>b, RequestEffect DEF ReleaseSupplanted
  <1>. QED
    BY <1>1, <1>2, <1>3, <1>4, <1>5, <1>6, <1>7, <1>8, <1>9, <1>10, <1>11, <1>12, <1>13
       DEF ReqStep

(* A launch's own step: it goes on to another stage, answers, or is gone. *)
LEMMA LaunchStages ==
    ASSUME TypeOK, NEW j \in Jobs, LaunchStep(j)
    PROVE  /\ UNCHANGED <<issue, req, acceptedLate>>
           /\ launch[j].pc \notin {"idle", "completed", "failed"}
           /\ \/ \E pc \in Holding \cup {"registered"} : Goes(j, pc)
              \/ Awaited(j) /\ \E pc \in {"completed", "failed"} : Goes(j, pc)
              \/ ~Awaited(j) /\ Gone(j)
           /\ launch'[j].pc = "completed" =>
                  delivered' = delivered \cup {<<launch[j].issue, launch[j].ws>>}
           /\ delivered \subseteq delivered'
  <1>1. ASSUME NEW pc \in {"completed", "failed"}, Return(j, pc)
        PROVE  /\ UNCHANGED <<issue, req, acceptedLate>>
               /\ (Awaited(j) /\ Goes(j, pc)) \/ (~Awaited(j) /\ Gone(j))
    BY <1>1, ReturnEffect DEF LaunchPcs
  <1>2. NoLaunch.pc = "idle"
    BY DEF NoLaunch
  <1>3. CASE Deliver(j)
    BY <1>1, <1>2, <1>3 DEF Deliver, Goes, Gone
  <1>4. CASE StandDown(j) \/ LaunchFails(j)
    BY <1>1, <1>2, <1>4 DEF StandDown, LaunchFails, Goes, Gone
  <1>5. CASE \/ RegisterLaunch(j) \/ LockAndCheck(j) \/ SyncWorktree(j)
             \/ PreSpawnCheck(j) \/ KillOld(j) \/ SpawnPane(j)
    BY <1>5, LaunchEffect
       DEF RegisterLaunch, LockAndCheck, SyncWorktree, PreSpawnCheck, KillOld, SpawnPane,
           registryAndPlace, place, Holding, Goes
  <1>. QED
    BY <1>3, <1>4, <1>5 DEF LaunchStep

LEMMA NextLaunches ==
    ASSUME TypeOK, RequestsOK, LaunchesOK, [Next]_vars
    PROVE  LaunchesOK'
  <1>0. /\ req \in [Issues -> RequestTypes] /\ launch \in [Jobs -> LaunchTypes]
        /\ NoLaunch.pc = "idle"
    BY DEF TypeOK, RequestTypes, LaunchTypes, NoLaunch
  <1>1. ASSUME NEW i \in Issues, ReqStep(i)  PROVE LaunchesOK'
    BY <1>1, ReqStepLaunches
  <1>2. ASSUME NEW i \in Issues, NEW w \in Workspaces, NEW j \in Jobs, Gate(i, w, j)
        PROVE  LaunchesOK'
    <2>1. /\ UNCHANGED launch /\ req[i].pc = "idle" /\ launch[j].pc = "idle"
      BY <1>2 DEF Gate, FreeJob
    <2>. QED
      BY <1>0, <1>2, <2>1, GateEffect DEF GatedFor, LaunchesOK, Awaited, Early
  <1>3. ASSUME UNCHANGED <<req, launch>>  PROVE LaunchesOK'
    BY <1>3 DEF LaunchesOK, Awaited
  <1>4. ASSUME NEW j \in Jobs, LaunchStep(j)  PROVE LaunchesOK'
    <2>1. \A i \in Issues : req[i].pc \in Early => req[i].job # j
      BY <1>4, LaunchStages DEF LaunchesOK
    <2>2. UNCHANGED req
      BY <1>4, LaunchStages
    <2>3. \A k \in Jobs : Awaited(k)' = Awaited(k)
      BY <2>2 DEF Awaited
    <2>4. \A i \in Issues : req[i].pc # "idle" => req[i].job \in Jobs
      BY DEF RequestsOK
    <2>5. launch[j].issue \in Issues /\ launch[j].ws \in Workspaces
      BY <1>4, LaunchStages DEF LaunchesOK
    <2>6. ASSUME NEW pc \in LaunchPcs \ {"idle"}, Goes(j, pc),
                 pc \in {"completed", "failed"} => Awaited(j)
          PROVE  LaunchesOK'
      <3>1. \A k \in Jobs : launch'[k].issue = launch[k].issue /\ launch'[k].ws = launch[k].ws
        BY <2>6 DEF Goes
      <3>2. \A k \in Jobs : launch'[k].pc = launch[k].pc \/ (k = j /\ launch'[k].pc = pc)
        BY <2>6 DEF Goes
      <3>3. launch[j].pc # "idle"
        BY <1>4, LaunchStages
      <3>4. \A k \in Jobs :
                /\ launch'[k].pc # "idle" =>
                       launch'[k].issue \in Issues /\ launch'[k].ws \in Workspaces
                /\ launch'[k].pc \in {"completed", "failed"} => Awaited(k)'
        BY <2>3, <2>5, <2>6, <3>1, <3>2 DEF LaunchesOK
      <3>5. \A k \in Jobs : launch'[k].pc = "idle" <=> launch[k].pc = "idle"
        BY <2>6, <3>2, <3>3
      <3>6. \A i \in Issues : req[i].pc \in Early \cup {"waiting"} => req[i].pc # "idle"
        BY DEF Early
      <3>. QED
        BY <2>2, <2>4, <3>1, <3>4, <3>5, <3>6 DEF LaunchesOK
    <2>7. CASE ~Awaited(j) /\ Gone(j)
      <3>1. \A i \in Issues : req[i].pc = "waiting" => req[i].job # j
        BY <2>7 DEF Awaited
      <3>2. \A k \in Jobs :
                /\ launch'[k].pc # "idle" =>
                       launch'[k].issue \in Issues /\ launch'[k].ws \in Workspaces
                /\ launch'[k].pc \in {"completed", "failed"} => Awaited(k)'
        BY <1>0, <2>3, <2>7 DEF LaunchesOK, Gone
      <3>3. \A k \in Jobs : launch'[k].pc = "idle" \/ launch'[k] = launch[k]
        BY <1>0, <2>7 DEF Gone
      <3>4. \A i \in Issues : req[i].pc = "waiting" => launch'[req[i].job] = launch[req[i].job]
        BY <2>4, <2>7, <3>1 DEF Gone
      <3>5. \A i \in Issues : req[i].pc \in Early => req[i].pc # "idle"
        BY DEF Early
      <3>. QED
        BY <2>2, <2>4, <3>2, <3>3, <3>4, <3>5 DEF LaunchesOK
    <2>. QED
      BY <1>4, <2>6, <2>7, LaunchStages DEF Holding, LaunchPcs
  <1>. QED
    BY <1>1, <1>2, <1>3, <1>4, NextCases
       DEF CardMoves, SessionEnds, vars, registryAndPlace

-----------------------------------------------------------------------------
(* A card in progress was delivered where it is assigned. *)

(* What CardsOK says of one request and its card. *)
CardOK(i) ==
    /\ req[i].pc \in {"idle", "gated", "teardown"} => DeliveredIfActive(i, issue[i])
    /\ req[i].pc # "idle" => DeliveredIfActive(i, req[i].original)
    /\ req[i].pc = "restored" => (issue[i].status = "active" => req[i].original.status = "active")
    /\ req[i].pc \in Succeeded => issue[i].ws = req[i].ws /\ <<i, req[i].ws>> \in delivered
    /\ req[i].pc \in {"assigned", "waiting", "timedout"} => issue[i].ws = req[i].ws

CompletedOK ==
    \A j \in Jobs : launch[j].pc = "completed" => <<launch[j].issue, launch[j].ws>> \in delivered

LEMMA CardsSplit == CardsOK <=> CompletedOK /\ \A i \in Issues : CardOK(i)
  BY DEF CardsOK, CardOK, CompletedOK

LEMMA CardsSplitNext == CardsOK' <=> CompletedOK' /\ \A i \in Issues : CardOK(i)'
  BY DEF CardsOK, CardOK, CompletedOK

(* Another request's card is as it was. *)
LEMMA OtherCards ==
    ASSUME NEW i \in Issues, NEW k \in Issues, CardOK(k),
           req'[k] = req[k], issue'[k] = issue[k], delivered \subseteq delivered'
    PROVE  CardOK(k)'
  BY DEF CardOK, DeliveredIfActive

LEMMA ReqStepCards ==
    ASSUME TypeOK, RequestsOK, LaunchesOK, CardsOK, NEW i \in Issues, ReqStep(i)
    PROVE  CardsOK'
  <1>0. /\ req \in [Issues -> RequestTypes] /\ launch \in [Jobs -> LaunchTypes]
        /\ issue \in [Issues -> Cards] /\ NoRequest.pc = "idle" /\ NoLaunch.pc = "idle"
    BY DEF TypeOK, RequestTypes, LaunchTypes, NoRequest, NoLaunch
  <1>a. CompletedOK /\ \A k \in Issues : CardOK(k)
    BY CardsSplit
  <1>b. ASSUME CompletedOK', CardOK(i)', UNCHANGED delivered,
               \A k \in Issues \ {i} : req'[k] = req[k] /\ issue'[k] = issue[k]
        PROVE  CardsOK'
    BY <1>a, <1>b, OtherCards, CardsSplitNext
  <1>c. ASSUME UNCHANGED <<launch, delivered>>  PROVE CompletedOK'
    BY <1>a, <1>c DEF CompletedOK
  <1>d. CardOK(i)
    BY <1>a
  <1>. USE DEF registryAndPlace, place, CardOK, DeliveredIfActive, Succeeded
  <1>1. CASE RecheckFails(i)
    BY <1>0, <1>1, <1>b, <1>c, <1>d, RequestEffect DEF RecheckFails, Ends
  <1>2. CASE PersistMove(i)
    <2>1. /\ req[i].pc = "gated" /\ req'[i].pc = "moved"
          /\ req'[i].original = req[i].original
          /\ \A k \in Issues \ {i} : req'[k] = req[k] /\ issue'[k] = issue[k]
          /\ UNCHANGED <<launch, delivered>>
      BY <1>2, RequestEffect DEF PersistMove, Moves, Card
    <2>2. CardOK(i)'
      BY <1>d, <2>1
    <2>. QED
      BY <1>b, <1>c, <2>1, <2>2
  <1>3. CASE PersistAssignment(i)
    BY <1>0, <1>3, <1>b, <1>c, <1>d, RequestEffect DEF PersistAssignment, Moves, Card
  <1>4. CASE SpawnLaunchThread(i)
    <2>1. CompletedOK'
      BY <1>4, <1>a, SpawnEffect DEF SpawnLaunchThread, CompletedOK
    <2>. QED
      <3>1. /\ req[i].pc = "assigned" /\ req'[i].pc = "waiting" /\ req'[i].ws = req[i].ws
            /\ req'[i].original = req[i].original
            /\ UNCHANGED <<issue, delivered>>
            /\ \A k \in Issues \ {i} : req'[k] = req[k]
        BY <1>4, SpawnEffect DEF SpawnLaunchThread, Moves
      <3>2. CardOK(i)'
        BY <1>d, <3>1
      <3>. QED
        BY <1>b, <2>1, <3>1, <3>2
  <1>5. CASE LaunchAnswers(i)
    <2>1. req[i].job \in Jobs /\ req[i].pc = "waiting" /\ launch[req[i].job].pc # "idle"
      BY <1>5 DEF LaunchAnswers, RequestsOK
    <2>2. launch[req[i].job].issue = i /\ launch[req[i].job].ws = req[i].ws
      BY <2>1 DEF LaunchesOK
    <2>3. CompletedOK'
      BY <1>0, <1>5, <1>a, <2>1, RequestEffect DEF LaunchAnswers, CompletedOK, Gone
    <2>4. launch[req[i].job].pc = "completed" => <<i, req[i].ws>> \in delivered
      BY <1>a, <2>1, <2>2 DEF CompletedOK
    <2>. QED
      BY <1>0, <1>5, <1>b, <1>d, <2>1, <2>3, <2>4, RequestEffect DEF LaunchAnswers, Moves
  <1>6. CASE IdleTimeout(i)
    BY <1>0, <1>6, <1>b, <1>c, <1>d, RequestEffect DEF IdleTimeout, Moves
  <1>7. CASE LateSuccess(i)
    BY <1>0, <1>7, <1>b, <1>c, <1>d, RequestEffect DEF LateSuccess, Moves, AppearsComplete
  <1>8. CASE Abandon(i)
    BY <1>0, <1>8, <1>b, <1>c, <1>d, RequestEffect DEF Abandon, Moves
  <1>9. CASE RestoreStatus(i)
    <2>1. /\ req[i].pc = "rollback" /\ req'[i].pc = "restored"
          /\ req'[i].original = req[i].original
          /\ issue'[i].status = RestoredStatus(i)
          /\ \A k \in Issues \ {i} : req'[k] = req[k] /\ issue'[k] = issue[k]
          /\ UNCHANGED <<launch, delivered>>
      BY <1>9, RequestEffect DEF RestoreStatus, Moves, Card
    <2>2. CardOK(i)'
      BY <1>d, <2>1 DEF RestoredStatus
    <2>. QED
      BY <1>b, <1>c, <2>1, <2>2
  <1>10. CASE RestoreFields(i)
    <2>1. /\ req[i].pc = "restored" /\ req'[i].pc = "teardown"
          /\ req'[i].original = req[i].original
          /\ issue'[i].status = issue[i].status /\ issue'[i].ws = req[i].original.ws
          /\ \A k \in Issues \ {i} : req'[k] = req[k] /\ issue'[k] = issue[k]
          /\ UNCHANGED <<launch, delivered>>
      BY <1>10, RequestEffect DEF RestoreFields, RestoredOwner, Moves, Card
    <2>2. CardOK(i)'
      BY <1>d, <2>1
    <2>. QED
      BY <1>b, <1>c, <2>1, <2>2
  <1>11. CASE Teardown(i)
    BY <1>0, <1>11, <1>b, <1>c, <1>d, RequestEffect DEF Teardown, Ends
  <1>12. CASE Finish(i)
    BY <1>0, <1>12, <1>b, <1>c, <1>d, RequestEffect DEF Finish, Ends, Moves
  <1>13. CASE ReleaseSupplanted(i)
    BY <1>0, <1>13, <1>b, <1>c, <1>d, RequestEffect DEF ReleaseSupplanted, Ends
  <1>. QED
    BY <1>1, <1>2, <1>3, <1>4, <1>5, <1>6, <1>7, <1>8, <1>9, <1>10, <1>11, <1>12, <1>13
       DEF ReqStep

LEMMA NextCards ==
    ASSUME TypeOK, RequestsOK, LaunchesOK, CardsOK, [Next]_vars
    PROVE  CardsOK'
  <1>0. /\ launch \in [Jobs -> LaunchTypes] /\ issue \in [Issues -> Cards]
        /\ NoLaunch.pc = "idle"
    BY DEF TypeOK, LaunchTypes, NoLaunch
  <1>a. CompletedOK /\ \A k \in Issues : CardOK(k)
    BY CardsSplit
  <1>b. ASSUME UNCHANGED <<launch, delivered>>  PROVE CompletedOK'
    BY <1>a, <1>b DEF CompletedOK
  <1>1. ASSUME NEW i \in Issues, ReqStep(i)  PROVE CardsOK'
    BY <1>1, ReqStepCards
  <1>2. ASSUME NEW i \in Issues, CardMoves(i)  PROVE CardsOK'
    <2>1. \/ Card(i, "done", issue[i].ws) /\ issue[i].status = "active"
          \/ Card(i, "ready", issue[i].ws) /\ req[i].pc = "idle"
      BY <1>2, CardChanges DEF CardMoves, Statuses
    <2>2. UNCHANGED <<req, launch, delivered>>
      BY <1>2 DEF CardMoves, registryAndPlace, place
    <2>3. CardOK(i)'
      BY <1>a, <2>1, <2>2 DEF CardOK, DeliveredIfActive, Card, Succeeded
    <2>4. \A k \in Issues \ {i} : CardOK(k)'
      BY <1>a, <2>1, <2>2, OtherCards DEF Card
    <2>. QED
      BY <1>b, <2>2, <2>3, <2>4, CardsSplitNext
  <1>3. ASSUME NEW i \in Issues, NEW w \in Workspaces, NEW j \in Jobs, Gate(i, w, j)
        PROVE  CardsOK'
    <2>1. UNCHANGED <<issue, launch, delivered>> /\ req[i].pc = "idle" /\ GatedFor(i, w, j)
      BY <1>3, GateEffect DEF Gate, registryAndPlace, place
    <2>2. CardOK(i)'
      BY <1>a, <2>1 DEF CardOK, DeliveredIfActive, GatedFor, Succeeded
    <2>3. \A k \in Issues \ {i} : CardOK(k)'
      BY <1>a, <2>1, OtherCards DEF GatedFor
    <2>. QED
      BY <1>b, <2>1, <2>2, <2>3, CardsSplitNext
  <1>4. ASSUME NEW j \in Jobs, LaunchStep(j)  PROVE CardsOK'
    <2>1. UNCHANGED <<issue, req>> /\ delivered \subseteq delivered'
      BY <1>4, LaunchStages
    <2>2. \A k \in Issues : CardOK(k)'
      BY <1>a, <2>1, OtherCards
    <2>3. CompletedOK'
      <3>1. \A k \in Jobs \ {j} : launch'[k] = launch[k]
        BY <1>4, LaunchStages DEF Goes, Gone
      <3>2. launch'[j].pc = "completed" => <<launch'[j].issue, launch'[j].ws>> \in delivered'
        BY <1>0, <1>4, LaunchStages DEF Goes, Gone
      <3>. QED
        BY <1>a, <2>1, <3>1, <3>2 DEF CompletedOK
    <2>. QED
      BY <2>2, <2>3, CardsSplitNext
  <1>5. CASE \/ \E w \in Workspaces : SessionEnds(w)
             \/ UNCHANGED vars
    <2>1. UNCHANGED <<issue, req, launch, delivered>>
      BY <1>5 DEF SessionEnds, vars
    <2>. QED
      BY <1>a, <1>b, <2>1, OtherCards, CardsSplitNext
  <1>. QED
    BY <1>1, <1>2, <1>3, <1>4, <1>5, NextCases

LEMMA InitCards == Init => RequestsOK /\ LaunchesOK /\ CardsOK
  BY DEF Init, RequestsOK, LaunchesOK, CardsOK, NoRequest, NoLaunch, Unassigned, Early,
         Succeeded, DeliveredIfActive

LEMMA CardsInductive == CardInv /\ [Next]_vars => CardInv'
  BY NextTypes, NextRequests, NextLaunches, NextCards DEF CardInv

LEMMA CardsInvariant == Spec => []CardInv
  <1>1. Init => CardInv
    BY InitTypes, InitCards DEF CardInv
  <1>. QED
    BY <1>1, CardsInductive, PTL DEF Spec

(* Every variable of the start keeps its type: a request's workspace, its  *)
(* job and the card it restores are always those of a real start.          *)
THEOREM StartTypeCorrect == Spec => []TypeOK
  <1>1. CardInv => TypeOK
    BY DEF CardInv
  <1>. QED
    BY <1>1, CardsInvariant, PTL

(* Whatever starts, timeouts, rollbacks, late successes and moves of the   *)
(* card interleave, a card that no start works on and that is in progress  *)
(* had its prompt delivered to the workspace it names (start.rs: the move  *)
(* is persisted before the launch, and rolled back with it).               *)
THEOREM DeliveredBeforeActive == Spec => []ActiveCardWasDelivered
  <1>1. CardInv => ActiveCardWasDelivered
    BY DEF CardInv, CardsOK, DeliveredIfActive, ActiveCardWasDelivered
  <1>. QED
    BY <1>1, CardsInvariant, PTL

-----------------------------------------------------------------------------
(* Holders of a dispatch lock. *)

HolderOK(j) ==
    /\ launch[j].pc \in Holding => wsLock[launch[j].ws] = j
    /\ launch[j].pc \in Holding \ {"locked"} => tree[launch[j].ws] = launch[j].issue
    /\ launch[j].pc \in {"bare", "spawned"} => pane[launch[j].ws] \in {None, launch[j].issue}
    /\ launch[j].pc \in Holding \cup {"registered"} =>
           live[j] = [project |-> Project, workspace |-> launch[j].ws, kind |-> "launch"]

LEMMA HoldersSplit == HoldersOK <=> \A j \in Jobs : HolderOK(j)
  BY DEF HoldersOK, HolderOK

LEMMA HoldersSplitNext == HoldersOK' <=> \A j \in Jobs : HolderOK(j)'
  BY DEF HoldersOK, HolderOK

(* A session at most goes away, and no launch gets or holds a lock by it. *)
PanesGo ==
    \A w \in Workspaces :
        /\ pane'[w] \in {None, pane[w]}
        /\ w \in leftBehind /\ pane'[w] # None => w \in leftBehind'

LEMMA HoldersApart ==
    ASSUME LaunchesOK, NEW k \in Jobs, HolderOK(k),
           launch'[k] = launch[k] \/ launch'[k].pc \in {"idle", "born"},
           live'[k] = live[k], UNCHANGED <<wsLock, tree>>, PanesGo
    PROVE  HolderOK(k)'
  <1>1. launch[k].pc \in {"bare", "spawned"} => launch[k].ws \in Workspaces
    BY DEF LaunchesOK
  <1>. QED
    BY <1>1 DEF HolderOK, Holding, PanesGo

(* What everyone but a launch leaves of the slots. *)
OtherStep ==
    \/ \E i \in Issues : ReqStep(i) \/ CardMoves(i)
    \/ \E i \in Issues, w \in Workspaces, j \in Jobs : Gate(i, w, j)
    \/ \E w \in Workspaces : SessionEnds(w)
    \/ UNCHANGED vars

LEMMA OthersLeave ==
    ASSUME TypeOK, RequestsOK, OtherStep
    PROVE  /\ \A j \in Jobs : launch'[j] = launch[j] \/ launch'[j].pc \in {"idle", "born"}
           /\ PanesGo
           /\ UNCHANGED <<live, quits, wsLock, tree, delivered>>
           /\ acceptedLate \subseteq acceptedLate'
           /\ \A j \in Jobs : flag[j] => flag'[j]
  <1>0. /\ pane \in [Workspaces -> Issues \cup {None}] /\ NoLaunch.pc = "idle"
        /\ flag \in [Jobs -> BOOLEAN]
    BY DEF TypeOK, RegistryTypeOK, NoLaunch
  <1>. USE DEF registryAndPlace, place, PanesGo
  <1>1. ASSUME NEW i \in Issues, ReqStep(i)
        PROVE  \A j \in Jobs : launch'[j] = launch[j] \/ launch'[j].pc \in {"idle", "born"}
    <2>1. CASE SpawnLaunchThread(i)
      BY <2>1, SpawnEffect
    <2>2. CASE LaunchAnswers(i)
      BY <1>0, <2>2, RequestEffect DEF Gone
    <2>3. CASE ~SpawnLaunchThread(i) /\ ~LaunchAnswers(i)
      BY <1>1, <2>3
         DEF ReqStep, RecheckFails, PersistMove, PersistAssignment, IdleTimeout, LateSuccess,
             Abandon, RestoreStatus, RestoreFields, Teardown, Finish, ReleaseSupplanted
    <2>. QED
      BY <2>1, <2>2, <2>3
  <1>2. ASSUME NEW i \in Issues, ReqStep(i)
        PROVE  /\ PanesGo /\ UNCHANGED <<live, quits, wsLock, tree, delivered>>
               /\ acceptedLate \subseteq acceptedLate'
               /\ \A j \in Jobs : flag[j] => flag'[j]
    <2>1. CASE Teardown(i) \/ ReleaseSupplanted(i)
      BY <1>0, <2>1 DEF Teardown, ReleaseSupplanted, Kill, EndsSession
    <2>2. CASE Abandon(i)
      BY <2>2 DEF Abandon, BumpWorkspace
    <2>3. CASE ~Teardown(i) /\ ~ReleaseSupplanted(i) /\ ~Abandon(i)
      BY <1>2, <2>3
         DEF ReqStep, RecheckFails, PersistMove, PersistAssignment, IdleTimeout, LateSuccess,
             SpawnLaunchThread, LaunchAnswers, RestoreStatus, RestoreFields, Finish
    <2>. QED
      BY <2>1, <2>2, <2>3
  <1>3. ASSUME NEW w \in Workspaces, SessionEnds(w)
        PROVE  /\ UNCHANGED <<live, flag, quits, launch, wsLock, tree, delivered, acceptedLate>>
               /\ PanesGo
    BY <1>0, <1>3 DEF SessionEnds, Kill, EndsSession
  <1>4. CASE \/ \E i \in Issues : CardMoves(i)
             \/ \E i \in Issues, w \in Workspaces, j \in Jobs : Gate(i, w, j)
             \/ UNCHANGED vars
    BY <1>4 DEF CardMoves, Gate, vars
  <1>. QED
    BY <1>1, <1>2, <1>3, <1>4 DEF OtherStep

(* Two launches at work in one workspace: never both with its lock. *)
LEMMA OneHolder ==
    ASSUME HoldersOK, NEW j \in Jobs, NEW k \in Jobs, launch[j].pc \in Holding,
           launch[k].pc \in Holding, launch[j].ws = launch[k].ws
    PROVE  j = k
  BY DEF HoldersOK

LEMMA NextHolders ==
    ASSUME TypeOK, RequestsOK, LaunchesOK, HoldersOK, [Next]_vars
    PROVE  HoldersOK'
  <1>0. /\ pane \in [Workspaces -> Issues \cup {None}]
        /\ tree \in [Workspaces -> Issues \cup {None}]
        /\ wsLock \in [Workspaces -> Jobs \cup {None}]
        /\ live \in [Jobs -> Registration \cup {None}]
        /\ NoLaunch.pc = "idle" /\ None \notin Jobs
    BY DEF TypeOK, RegistryTypeOK, NoLaunch
  <1>a. \A k \in Jobs : HolderOK(k)
    BY HoldersSplit
  <1>1. CASE OtherStep
    BY <1>1, <1>a, OthersLeave, HoldersApart, HoldersSplitNext
  <1>2. ASSUME NEW j \in Jobs, LaunchStep(j)  PROVE HoldersOK'
    <2>0. launch[j].ws \in Workspaces /\ launch[j].issue \in Issues
      BY <1>2, LaunchStages DEF LaunchesOK
    <2>. DEFINE w == launch[j].ws
    (* The others see no change where they hold a lock. *)
    <2>a. ASSUME HolderOK(j)', \A k \in Jobs \ {j} : launch'[k] = launch[k] /\ live'[k] = live[k],
                 \A v \in Workspaces \ {w} :
                     (wsLock'[v] = wsLock[v] \/ wsLock[v] = j)
                         /\ tree'[v] = tree[v] /\ pane'[v] = pane[v],
                 \/ wsLock[w] \in {j, None}
                 \/ wsLock'[w] = wsLock[w] /\ tree'[w] = tree[w] /\ pane'[w] = pane[w]
          PROVE  HoldersOK'
      <3>1. ASSUME NEW k \in Jobs \ {j}  PROVE HolderOK(k)'
        <4>1. CASE launch[k].pc \in Holding
          <5>1. launch[k].ws \in Workspaces /\ wsLock[launch[k].ws] = k
            BY <1>a, <4>1 DEF LaunchesOK, HolderOK, Holding
          <5>2. /\ wsLock'[launch[k].ws] = k
                /\ tree'[launch[k].ws] = tree[launch[k].ws]
                /\ pane'[launch[k].ws] = pane[launch[k].ws]
            BY <1>0, <2>0, <2>a, <5>1
          <5>. QED
            BY <1>a, <2>a, <5>2 DEF HolderOK
        <4>2. CASE launch[k].pc \notin Holding
          BY <1>a, <2>a, <4>2 DEF HolderOK, Holding
        <4>. QED
          BY <4>1, <4>2
      <3>. QED
        BY <2>a, <3>1, HoldersSplitNext
    <2>. USE DEF registryAndPlace, place, Goes, Holding
    <2>1. CASE RegisterLaunch(j)
      <3>1. HolderOK(j)'
        BY <1>0, <2>1, LaunchEffect DEF RegisterLaunch, Register, HolderOK
      <3>. QED
        BY <1>0, <2>1, <2>a, <3>1, LaunchEffect DEF RegisterLaunch, Register
    <2>2. CASE LockAndCheck(j)
      <3>1. HolderOK(j)'
        BY <1>0, <1>a, <2>0, <2>2, LaunchEffect DEF LockAndCheck, HolderOK
      <3>. QED
        BY <1>0, <2>0, <2>2, <2>a, <3>1, LaunchEffect DEF LockAndCheck, LockIsFree
    <2>3. CASE SyncWorktree(j)
      <3>1. HolderOK(j)'
        BY <1>0, <1>a, <2>0, <2>3, LaunchEffect DEF SyncWorktree, HolderOK
      <3>2. wsLock[w] = j
        BY <1>a, <2>3 DEF SyncWorktree, HolderOK
      <3>. QED
        BY <1>0, <2>0, <2>3, <2>a, <3>1, <3>2, LaunchEffect DEF SyncWorktree
    <2>4. CASE PreSpawnCheck(j)
      <3>1. HolderOK(j)'
        BY <1>0, <1>a, <2>0, <2>4, LaunchEffect DEF PreSpawnCheck, HolderOK
      <3>. QED
        BY <2>4, <2>a, <3>1, LaunchEffect DEF PreSpawnCheck
    <2>5. CASE KillOld(j)
      <3>1. HolderOK(j)'
        BY <1>0, <1>a, <2>0, <2>5, LaunchEffect DEF KillOld, HolderOK, Kill, EndsSession
      <3>2. wsLock[w] = j
        BY <1>a, <2>5 DEF KillOld, HolderOK
      <3>. QED
        BY <1>0, <2>0, <2>5, <2>a, <3>1, <3>2, LaunchEffect
           DEF KillOld, Kill, EndsSession
    <2>6. CASE SpawnPane(j)
      <3>1. HolderOK(j)'
        BY <1>0, <1>a, <2>0, <2>6, LaunchEffect DEF SpawnPane, HolderOK
      <3>2. wsLock[w] = j
        BY <1>a, <2>6 DEF SpawnPane, HolderOK
      <3>. QED
        BY <1>0, <2>0, <2>6, <2>a, <3>1, <3>2, LaunchEffect DEF SpawnPane
    <2>7. ASSUME NEW pc \in {"completed", "failed"}, Return(j, pc)  PROVE HoldersOK'
      <3>1. (Goes(j, pc) \/ Gone(j)) /\ UNCHANGED <<tree, pane>>
            /\ \A k \in Jobs \ {j} : live'[k] = live[k]
            /\ wsLock' = [v \in Workspaces |-> IF wsLock[v] = j THEN None ELSE wsLock[v]]
        BY <2>7, ReturnEffect DEF LaunchPcs
      <3>2. HolderOK(j)'
        BY <1>0, <3>1 DEF HolderOK, Gone
      <3>3. \A k \in Jobs \ {j} : launch'[k] = launch[k]
        BY <3>1 DEF Gone
      <3>4. \A v \in Workspaces : wsLock'[v] = wsLock[v] \/ wsLock[v] = j
        BY <2>7 DEF Return
      <3>. QED
        BY <2>0, <2>a, <3>1, <3>2, <3>3, <3>4
    <2>8. CASE Deliver(j) \/ StandDown(j) \/ LaunchFails(j)
      BY <2>7, <2>8 DEF Deliver, StandDown, LaunchFails
    <2>. QED
      BY <1>2, <2>1, <2>2, <2>3, <2>4, <2>5, <2>6, <2>8 DEF LaunchStep
  <1>. QED
    BY <1>1, <1>2, NextCases DEF OtherStep

-----------------------------------------------------------------------------
(* Launches nobody waits for. *)

StrayOK(j) ==
    /\ launch[j].pc = "born" => Awaited(j)
    /\ launch[j].pc \in Holding \cup {"registered"} =>
           \/ IsCancelled(j)
           \/ launch[j].ws \in acceptedLate
           \/ RequestIn(j, {"waiting", "timedout"})
    /\ launch[j].pc = "locked" =>
           \/ pane[launch[j].ws] \in {None, launch[j].issue}
           \/ launch[j].ws \in acceptedLate \cup leftBehind
           \/ RequestIn(j, {"waiting", "timedout"} \cup Rolling)

SuccessOK(i) ==
    req[i].pc \in Succeeded => launch[req[i].job].pc = "idle" \/ req[i].ws \in acceptedLate

LEMMA StraysSplit == StraysOK <=> (\A j \in Jobs : StrayOK(j)) /\ \A i \in Issues : SuccessOK(i)
  BY DEF StraysOK, StrayOK, SuccessOK

LEMMA StraysSplitNext ==
    StraysOK' <=> (\A j \in Jobs : StrayOK(j)') /\ \A i \in Issues : SuccessOK(i)'
  BY DEF StraysOK, StrayOK, SuccessOK

(* A request's step is felt by the launch with its job alone. *)
LEMMA OtherStrays ==
    ASSUME LaunchesOK, NEW j \in Jobs, StrayOK(j), launch'[j] = launch[j], PanesGo,
           flag[j] => flag'[j], acceptedLate \subseteq acceptedLate',
           \A i \in Issues : req[i].job = j => req'[i] = req[i]
    PROVE  StrayOK(j)'
  <1>1. launch[j].pc = "locked" => launch[j].ws \in Workspaces
    BY DEF LaunchesOK
  <1>2. \A pcs : RequestIn(j, pcs) => \E i \in Issues : req'[i].job = j /\ req'[i].pc \in pcs
    BY DEF RequestIn
  <1>3. Awaited(j) => Awaited(j)'
    BY DEF Awaited
  <1>. QED
    BY <1>1, <1>2, <1>3 DEF StrayOK, IsCancelled, RequestIn, PanesGo

LEMMA OtherSuccess ==
    ASSUME RequestsOK, NEW k \in Issues, SuccessOK(k), req'[k] = req[k],
           acceptedLate \subseteq acceptedLate',
           \A j \in Jobs : launch[j].pc = "idle" => req[k].job # j \/ launch'[j].pc = "idle"
    PROVE  SuccessOK(k)'
  <1>1. req[k].pc \in Succeeded => req[k].job \in Jobs
    BY DEF RequestsOK, Succeeded
  <1>. QED
    BY <1>1 DEF SuccessOK

LEMMA ReqStepStrays ==
    ASSUME LateThreads = {}, TypeOK, RequestsOK, LaunchesOK, HoldersOK, StraysOK,
           NEW i \in Issues, ReqStep(i)
    PROVE  StraysOK'
  <1>. PICK j \in Jobs : j = req[i].job
    BY MovesOrEnds DEF RequestsOK
  <1>0. /\ req[i].pc # "idle" /\ req[i].job = j /\ req[i].ws \in Workspaces
        /\ pane \in [Workspaces -> Issues \cup {None}] /\ flag \in [Jobs -> BOOLEAN]
        /\ launch \in [Jobs -> LaunchTypes]
        /\ NoLaunch.pc = "idle" /\ NoRequest.pc = "idle" /\ NoRequest.job = None /\ None \notin Jobs
    BY MovesOrEnds DEF RequestsOK, TypeOK, RegistryTypeOK, NoLaunch, NoRequest, LaunchTypes
  <1>a. (\A k \in Jobs : StrayOK(k)) /\ \A k \in Issues : SuccessOK(k)
    BY StraysSplit
  <1>b. \A k \in Issues \ {i} : req'[k] = req[k] /\ req[k].job # j
    BY <1>0, MovesOrEnds DEF Moves, Ends, RequestsOK
  <1>c. /\ \A k \in Jobs \ {j} : launch'[k] = launch[k]
        /\ PanesGo /\ acceptedLate \subseteq acceptedLate'
        /\ \A k \in Jobs : flag[k] => flag'[k]
    <2>1. OtherStep
      BY DEF OtherStep
    <2>2. \A k \in Jobs \ {j} : launch'[k] = launch[k]
      <3>1. CASE SpawnLaunchThread(i)
        BY <3>1, SpawnEffect
      <3>2. CASE LaunchAnswers(i)
        BY <3>2, RequestEffect DEF Gone
      <3>3. CASE ~SpawnLaunchThread(i) /\ ~LaunchAnswers(i)
        BY <3>3
           DEF ReqStep, RecheckFails, PersistMove, PersistAssignment, IdleTimeout, LateSuccess,
               Abandon, RestoreStatus, RestoreFields, Teardown, Finish, ReleaseSupplanted,
               registryAndPlace, place
      <3>. QED
        BY <3>1, <3>2, <3>3
    <2>. QED
      BY <2>1, <2>2, OthersLeave
  <1>d. \A k \in Jobs \ {j} : StrayOK(k)'
    BY <1>a, <1>b, <1>c, OtherStrays
  <1>e. \A k \in Issues \ {i} : SuccessOK(k)'
    BY <1>a, <1>b, <1>c, OtherSuccess
  <1>f. SUFFICES StrayOK(j)' /\ SuccessOK(i)'
    BY <1>0, <1>d, <1>e, StraysSplitNext
  (* Its own launch: no other request has the job. *)
  <1>g. /\ launch[j].pc = "born" => req[i].pc = "waiting"
        /\ launch[j].pc \in Holding \cup {"registered"} =>
               IsCancelled(j) \/ req[i].ws \in acceptedLate \/ req[i].pc \in {"waiting", "timedout"}
        /\ launch[j].pc = "locked" =>
               \/ pane[req[i].ws] \in {None, i}
               \/ req[i].ws \in acceptedLate \cup leftBehind
               \/ req[i].pc \in {"waiting", "timedout"} \cup Rolling
        /\ launch[j].pc # "idle" => launch[j].ws = req[i].ws /\ launch[j].issue = i
    <2>1. launch[j].pc # "idle" => launch[j].ws = req[i].ws /\ launch[j].issue = i
      BY <1>0 DEF LaunchesOK
    <2>. QED
      BY <1>0, <1>a, <1>b, <2>1 DEF StrayOK, Awaited, RequestIn, Holding
  <1>h. ASSUME launch'[j].pc = "idle"  PROVE StrayOK(j)'
    BY <1>h DEF StrayOK, Holding
  <1>i. ASSUME UNCHANGED launch, launch[j].pc = "idle", req[i].pc \in Early,
               Ends(i) \/ \E pc \in Early : Moves(i, pc)
        PROVE  StrayOK(j)' /\ SuccessOK(i)'
    BY <1>0, <1>i, <1>h DEF SuccessOK, Succeeded, Early, Moves, Ends
  (* A request that is answered or rolling back leaves its launch tripped. *)
  <1>j. ASSUME UNCHANGED launch, req[i].pc \in {"rollback", "restored"},
               \E pc \in Rolling : Moves(i, pc)
        PROVE  StrayOK(j)' /\ SuccessOK(i)'
    <2>1. req'[i].pc \in Rolling /\ req'[i].job = j
      BY <1>0, <1>j DEF Moves
    <2>2. RequestIn(j, {"waiting", "timedout"} \cup Rolling)'
      BY <2>1 DEF RequestIn
    <2>3. StrayOK(j)'
      BY <1>0, <1>c, <1>g, <1>j, <2>2 DEF StrayOK, IsCancelled, Holding
    <2>. QED
      BY <2>1, <2>3 DEF SuccessOK, Succeeded, Rolling
  <1>k. ASSUME UNCHANGED launch, req[i].pc \in Succeeded, Ends(i) \/ Moves(i, "releasing")
        PROVE  StrayOK(j)' /\ SuccessOK(i)'
    <2>1. launch[j].pc = "idle" \/ req[i].ws \in acceptedLate
      BY <1>a, <1>k DEF SuccessOK
    <2>. QED
      BY <1>0, <1>c, <1>g, <1>k, <2>1
         DEF StrayOK, SuccessOK, Succeeded, Holding, Moves, Ends
  <1>. USE DEF registryAndPlace, place
  <1>1. CASE RecheckFails(i)
    BY <1>1, <1>i, RequestEffect DEF RecheckFails, LaunchesOK, Early
  <1>2. CASE PersistMove(i)
    BY <1>2, <1>i, RequestEffect DEF PersistMove, LaunchesOK, Early
  <1>3. CASE PersistAssignment(i)
    BY <1>3, <1>i, RequestEffect DEF PersistAssignment, LaunchesOK, Early
  <1>4. CASE SpawnLaunchThread(i)
    BY <1>0, <1>4, SpawnEffect DEF StrayOK, SuccessOK, Succeeded, Awaited, Moves, Holding
  <1>5. CASE LaunchAnswers(i)
    BY <1>0, <1>5, <1>h, RequestEffect DEF SuccessOK, Succeeded, Moves, Gone
  <1>6. CASE IdleTimeout(i)
    BY <1>0, <1>6, <1>g, RequestEffect
       DEF IdleTimeout, StrayOK, SuccessOK, Succeeded, Moves, RequestIn
  <1>7. CASE LateSuccess(i)
    BY <1>0, <1>7, <1>g, RequestEffect
       DEF LateSuccess, StrayOK, SuccessOK, Succeeded, Moves, Holding
  <1>8. CASE Abandon(i)
    <2>1. launch[j].pc \in Holding \cup {"registered"} => flag'[j]
      <3>. SUFFICES ASSUME launch[j].pc \in Holding \cup {"registered"}  PROVE flag'[j]
        OBVIOUS
      <3>1. live[j] = [project |-> Project, workspace |-> req[i].ws, kind |-> "launch"]
        BY <1>0, <1>g DEF HoldersOK, Holding
      <3>2. live[j] # None
        BY <3>1, <1>0 DEF Registration, JobKinds
      <3>3. j \in LaunchesOn(Project, req[i].ws)
        BY <1>0, <3>1, <3>2 DEF LaunchesOn, JobsOf
      <3>. QED
        BY <1>0, <1>8, <3>3 DEF Abandon, BumpWorkspace
    <2>. QED
      BY <1>0, <1>8, <1>g, <2>1, RequestEffect
         DEF Abandon, StrayOK, SuccessOK, Succeeded, Rolling, Moves, IsCancelled, RequestIn
  <1>9. CASE RestoreStatus(i)
    BY <1>9, <1>j, RequestEffect DEF RestoreStatus, Rolling
  <1>10. CASE RestoreFields(i)
    BY <1>10, <1>j, RequestEffect DEF RestoreFields, Rolling
  <1>11. CASE Teardown(i)
    BY <1>0, <1>11, <1>c, <1>g, RequestEffect
       DEF Teardown, Kill, EndsSession, StrayOK, SuccessOK, Succeeded, Ends, IsCancelled, Holding
  <1>12. CASE Finish(i)
    BY <1>12, <1>k, RequestEffect DEF Finish, Succeeded
  <1>13. CASE ReleaseSupplanted(i)
    BY <1>13, <1>k, RequestEffect DEF ReleaseSupplanted, Succeeded
  <1>. QED
    BY <1>1, <1>2, <1>3, <1>4, <1>5, <1>6, <1>7, <1>8, <1>9, <1>10, <1>11, <1>12, <1>13
       DEF ReqStep

LEMMA LaunchStepStrays ==
    ASSUME TypeOK, RequestsOK, LaunchesOK, HoldersOK, StraysOK, NEW j \in Jobs, LaunchStep(j)
    PROVE  StraysOK'
  <1>0. /\ pane \in [Workspaces -> Issues \cup {None}]
        /\ flag \in [Jobs -> BOOLEAN]
        /\ launch[j].ws \in Workspaces /\ launch[j].pc # "idle"
        /\ NoLaunch.pc = "idle"
    BY LaunchStages DEF TypeOK, RegistryTypeOK, LaunchesOK, NoLaunch
  <1>a. (\A k \in Jobs : StrayOK(k)) /\ \A i \in Issues : SuccessOK(i)
    BY StraysSplit
  <1>b. UNCHANGED <<req, acceptedLate>> /\ \A k \in Jobs \ {j} : launch'[k] = launch[k]
    BY LaunchStages DEF Goes, Gone
  <1>c. \A i \in Issues : SuccessOK(i)'
    BY <1>0, <1>a, <1>b, OtherSuccess
  <1>d. \A k \in Jobs : Awaited(k)' = Awaited(k)
    BY <1>b DEF Awaited
  <1>e. \A k \in Jobs :
            /\ RequestIn(k, {"waiting", "timedout"})' = RequestIn(k, {"waiting", "timedout"})
            /\ RequestIn(k, {"waiting", "timedout"} \cup Rolling)'
                   = RequestIn(k, {"waiting", "timedout"} \cup Rolling)
    BY <1>b DEF RequestIn
  <1>f. \A k \in Jobs \ {j} : flag'[k] = flag[k]
    <2>1. ASSUME NEW pc \in {"completed", "failed"}, Return(j, pc)
          PROVE  \A k \in Jobs \ {j} : flag'[k] = flag[k]
      BY <2>1, ReturnEffect DEF LaunchPcs
    <2>. QED
      BY <1>0, <2>1
         DEF LaunchStep, RegisterLaunch, Register, LockAndCheck, SyncWorktree, PreSpawnCheck,
             KillOld, SpawnPane, Deliver, StandDown, LaunchFails, registryAndPlace
  (* A pane appears only under the lock of the launch that spawns it. *)
  <1>g. ASSUME NEW k \in Jobs \ {j}, launch[k].pc = "locked"
        PROVE  /\ pane'[launch[k].ws] \in {None, pane[launch[k].ws]}
               /\ launch[k].ws \in leftBehind =>
                      pane'[launch[k].ws] = None \/ launch[k].ws \in leftBehind'
    <2>1. launch[k].ws \in Workspaces
      BY <1>g DEF LaunchesOK
    <2>2. CASE SpawnPane(j)
      <3>1. launch[j].ws # launch[k].ws
        BY <1>g, <2>2, OneHolder DEF SpawnPane, Holding
      <3>. QED
        BY <1>0, <2>1, <2>2, <3>1 DEF SpawnPane
    <2>3. CASE KillOld(j)
      BY <1>0, <2>1, <2>3 DEF KillOld, Kill, EndsSession
    <2>4. CASE ~SpawnPane(j) /\ ~KillOld(j)
      BY <2>4 DEF LaunchStep, RegisterLaunch, LockAndCheck, SyncWorktree, PreSpawnCheck,
                  Deliver, StandDown, LaunchFails, Return, registryAndPlace, place
    <2>. QED
      BY <2>2, <2>3, <2>4
  <1>h. \A k \in Jobs \ {j} : StrayOK(k)'
    <2>. SUFFICES ASSUME NEW k \in Jobs \ {j}  PROVE StrayOK(k)'
      OBVIOUS
    <2>1. StrayOK(k) /\ launch'[k] = launch[k] /\ flag'[k] = flag[k]
      BY <1>a, <1>b, <1>f
    <2>2. launch[k].pc = "locked" /\ pane[launch[k].ws] \in {None, launch[k].issue} =>
              pane'[launch[k].ws] \in {None, launch[k].issue}
      BY <1>g
    <2>3. launch[k].pc = "locked" /\ launch[k].ws \in leftBehind =>
              pane'[launch[k].ws] = None \/ launch[k].ws \in leftBehind'
      BY <1>g
    <2>. QED
      BY <1>b, <1>d, <1>e, <2>1, <2>2, <2>3 DEF StrayOK, IsCancelled
  <1>i. StrayOK(j)'
    <2>. USE DEF registryAndPlace, place, Goes, Holding
    <2>1. CASE RegisterLaunch(j)
      <3>1. RequestIn(j, {"waiting", "timedout"})
        BY <1>a, <2>1 DEF RegisterLaunch, StrayOK, Awaited, RequestIn
      <3>. QED
        BY <1>e, <2>1, <3>1, LaunchEffect DEF StrayOK
    <2>2. CASE LockAndCheck(j)
      <3>1. launch[j].ws \in acceptedLate \/ RequestIn(j, {"waiting", "timedout"})
        BY <1>a, <2>2 DEF LockAndCheck, StrayOK
      <3>2. RequestIn(j, {"waiting", "timedout"}) =>
                RequestIn(j, {"waiting", "timedout"} \cup Rolling)
        BY DEF RequestIn
      <3>. QED
        BY <1>b, <1>e, <2>2, <3>1, <3>2, LaunchEffect DEF StrayOK
    <2>3. CASE SyncWorktree(j) \/ PreSpawnCheck(j) \/ KillOld(j) \/ SpawnPane(j)
      <3>1. /\ launch[j].pc \in Holding
            /\ launch'[j].pc \in Holding \ {"locked"} /\ launch'[j].ws = launch[j].ws
            /\ flag' = flag
        BY <2>3, LaunchEffect DEF SyncWorktree, PreSpawnCheck, KillOld, SpawnPane
      <3>. QED
        BY <1>a, <1>b, <1>e, <3>1 DEF StrayOK, IsCancelled
    <2>4. ASSUME NEW pc \in {"completed", "failed"}, Return(j, pc)  PROVE StrayOK(j)'
      <3>1. launch'[j].pc \in {"completed", "failed", "idle"}
        BY <1>0, <2>4, ReturnEffect DEF LaunchPcs, Gone
      <3>. QED
        BY <3>1 DEF StrayOK
    <2>5. CASE Deliver(j) \/ StandDown(j) \/ LaunchFails(j)
      BY <2>4, <2>5 DEF Deliver, StandDown, LaunchFails
    <2>. QED
      BY <2>1, <2>2, <2>3, <2>5 DEF LaunchStep
  <1>. QED
    BY <1>c, <1>h, <1>i, StraysSplitNext

LEMMA NextStrays ==
    ASSUME LateThreads = {}, TypeOK, RequestsOK, LaunchesOK, HoldersOK, StraysOK, [Next]_vars
    PROVE  StraysOK'
  <1>a. (\A k \in Jobs : StrayOK(k)) /\ \A i \in Issues : SuccessOK(i)
    BY StraysSplit
  <1>1. ASSUME NEW i \in Issues, ReqStep(i)  PROVE StraysOK'
    BY <1>1, ReqStepStrays
  <1>2. ASSUME NEW j \in Jobs, LaunchStep(j)  PROVE StraysOK'
    BY <1>2, LaunchStepStrays
  <1>3. ASSUME UNCHANGED <<launch, flag, acceptedLate>>, PanesGo,
               \A i \in Issues : req'[i] = req[i] \/ (req[i].pc = "idle" /\ req'[i].pc = "gated")
        PROVE  StraysOK'
    <2>1. \A i \in Issues, j \in Jobs : req[i].job = j => req'[i] = req[i]
      BY <1>3 DEF RequestsOK, NoRequest
    <2>2. \A j \in Jobs : StrayOK(j)'
      BY <1>3, <1>a, <2>1, OtherStrays
    <2>3. \A i \in Issues : SuccessOK(i)'
      BY <1>3, <1>a DEF SuccessOK, Succeeded
    <2>. QED
      BY <2>2, <2>3, StraysSplitNext
  <1>4. ASSUME NEW i \in Issues, NEW w \in Workspaces, NEW j \in Jobs, Gate(i, w, j)
        PROVE  StraysOK'
    <2>1. UNCHANGED <<launch, flag, acceptedLate, pane, leftBehind>> /\ req[i].pc = "idle"
      BY <1>4 DEF Gate, registryAndPlace, place
    <2>. QED
      BY <1>3, <1>4, <2>1, GateEffect DEF GatedFor, PanesGo
  <1>5. ASSUME NEW w \in Workspaces, SessionEnds(w)  PROVE StraysOK'
    BY <1>3, <1>5 DEF SessionEnds, Kill, EndsSession, PanesGo, TypeOK
  <1>6. CASE (\E i \in Issues : CardMoves(i)) \/ UNCHANGED vars
    BY <1>3, <1>6 DEF CardMoves, PanesGo, registryAndPlace, place, vars
  <1>. QED
    BY <1>1, <1>2, <1>4, <1>5, <1>6, NextCases

-----------------------------------------------------------------------------
(* Slots. *)

SlotOK(w) ==
    \/ pane[w] \in {None, tree[w]}
    \/ w \in leftBehind
    \/ \E i \in Issues : req[i].ws = w /\ tree[w] = i /\ WillEnd(i)

LEMMA ReqStepSlots ==
    ASSUME TypeOK, RequestsOK, LaunchesOK, SlotsOK, NEW i \in Issues, ReqStep(i)
    PROVE  SlotsOK'
  <1>0. /\ req[i].pc # "idle" /\ req[i].job \in Jobs
        /\ pane \in [Workspaces -> Issues \cup {None}]
    BY MovesOrEnds DEF RequestsOK, TypeOK
  <1>1. PanesGo /\ UNCHANGED tree /\ acceptedLate \subseteq acceptedLate'
    BY OthersLeave DEF OtherStep
  <1>2. ASSUME NEW w \in Workspaces \ acceptedLate', NEW k \in Issues \ {i}, req[k].ws = w, WillEnd(k)
        PROVE  req'[k].ws = w /\ WillEnd(k)'
    <2>1. req'[k] = req[k] /\ (req[k].pc # "idle" => req[k].job \in Jobs \ {req[i].job})
      BY <1>0, MovesOrEnds DEF Moves, Ends, RequestsOK
    <2>2. \A j \in Jobs \ {req[i].job} : launch'[j] = launch[j]
      <3>1. CASE SpawnLaunchThread(i)
        BY <3>1, SpawnEffect
      <3>2. CASE LaunchAnswers(i)
        BY <3>2, RequestEffect DEF Gone
      <3>3. CASE ~SpawnLaunchThread(i) /\ ~LaunchAnswers(i)
        BY <3>3
           DEF ReqStep, RecheckFails, PersistMove, PersistAssignment, IdleTimeout, LateSuccess,
               Abandon, RestoreStatus, RestoreFields, Teardown, Finish, ReleaseSupplanted,
               registryAndPlace, place
      <3>. QED
        BY <3>1, <3>2, <3>3
    <2>. QED
      BY <1>2, <2>1, <2>2 DEF WillEnd
  <1>3. ASSUME NEW w \in Workspaces \ acceptedLate', req[i].ws = w, WillEnd(i),
               pane[w] \notin {None, i}
        PROVE  pane'[w] = None \/ w \in leftBehind' \/ (req'[i].ws = w /\ WillEnd(i)')
    <2>. USE DEF WillEnd, Rolling, Moves
    <2>1. CASE Teardown(i)
      BY <1>0, <1>3, <2>1 DEF Teardown, Kill, EndsSession
    <2>2. CASE LateSuccess(i)
      BY <1>3, <2>2 DEF LateSuccess
    <2>3. CASE LaunchAnswers(i)
      BY <1>3, <2>3, RequestEffect DEF LaunchAnswers
    <2>4. CASE IdleTimeout(i) \/ Abandon(i) \/ RestoreStatus(i) \/ RestoreFields(i)
      BY <1>3, <2>4, RequestEffect
    <2>5. CASE \/ RecheckFails(i) \/ PersistMove(i) \/ PersistAssignment(i)
               \/ SpawnLaunchThread(i) \/ Finish(i) \/ ReleaseSupplanted(i)
      BY <1>3, <2>5 DEF RecheckFails, PersistMove, PersistAssignment, SpawnLaunchThread, Finish,
                        ReleaseSupplanted
    <2>. QED
      BY <2>1, <2>2, <2>3, <2>4, <2>5 DEF ReqStep
  <1>4. ASSUME NEW w \in Workspaces \ acceptedLate'
        PROVE  SlotOK(w)'
    <2>1. SlotOK(w)
      BY <1>1, <1>4 DEF SlotsOK, SlotOK
    <2>. QED
      BY <1>1, <1>2, <1>3, <2>1 DEF SlotOK, PanesGo
  <1>. QED
    BY <1>4 DEF SlotsOK, SlotOK

LEMMA LaunchStepSlots ==
    ASSUME TypeOK, RequestsOK, LaunchesOK, HoldersOK, StraysOK, SlotsOK,
           NEW j \in Jobs, LaunchStep(j)
    PROVE  SlotsOK'
  <1>0. /\ pane \in [Workspaces -> Issues \cup {None}]
        /\ tree \in [Workspaces -> Issues \cup {None}]
        /\ launch[j].ws \in Workspaces /\ launch[j].pc # "idle"
    BY LaunchStages DEF TypeOK, LaunchesOK
  <1>1. UNCHANGED <<req, acceptedLate>> /\ \A k \in Jobs \ {j} : launch'[k] = launch[k]
    BY LaunchStages DEF Goes, Gone
  <1>2. \A i \in Issues : req[i].pc # "idle" /\ req[i].job = j => req[i].ws = launch[j].ws
    BY <1>0 DEF LaunchesOK
  <1>3. \A i \in Issues : req[i].job # j /\ WillEnd(i) => WillEnd(i)'
    <2>1. \A i \in Issues : req[i].pc = "waiting" => req[i].job \in Jobs
      BY DEF RequestsOK
    <2>. QED
      BY <1>1, <2>1 DEF WillEnd
  (* Away from the launch's workspace nothing changes. *)
  <1>4. \A w \in Workspaces \ {launch[j].ws} :
            pane'[w] = pane[w] /\ tree'[w] = tree[w] /\ (w \in leftBehind => w \in leftBehind')
    <2>1. ASSUME NEW pc \in {"completed", "failed"}, Return(j, pc)
          PROVE  UNCHANGED <<pane, tree, leftBehind>>
      BY <2>1 DEF Return
    <2>. QED
      BY <1>0, <2>1
         DEF LaunchStep, RegisterLaunch, LockAndCheck, SyncWorktree, PreSpawnCheck, KillOld,
             SpawnPane, Kill, EndsSession, Deliver, StandDown, LaunchFails, registryAndPlace, place
  <1>5. ASSUME NEW w \in Workspaces \ acceptedLate, w # launch[j].ws  PROVE SlotOK(w)'
    <2>1. \A i \in Issues : req[i].ws = w /\ WillEnd(i) => req[i].job # j
      BY <1>2, <1>5 DEF WillEnd, Rolling
    <2>2. pane'[w] = pane[w] /\ tree'[w] = tree[w] /\ (w \in leftBehind => w \in leftBehind')
      BY <1>4, <1>5
    <2>3. SlotOK(w)
      BY <1>5 DEF SlotsOK, SlotOK
    <2>. QED
      BY <1>1, <1>3, <2>1, <2>2, <2>3 DEF SlotOK
  <1>6. ASSUME NEW w \in Workspaces \ acceptedLate, w = launch[j].ws  PROVE SlotOK(w)'
    <2>a. SlotOK(w)
      BY <1>6 DEF SlotsOK, SlotOK
    (* While nothing changes in the slot, only its own launch's leaving the *)
    (* stages that end a session matters.                                   *)
    <2>b. ASSUME UNCHANGED <<pane, tree, leftBehind>>,
                 \A i \in Issues : req[i].job = j /\ WillEnd(i) => WillEnd(i)'
          PROVE  SlotOK(w)'
      BY <1>1, <1>3, <2>a, <2>b DEF SlotOK
    <2>. USE DEF registryAndPlace, place, Goes
    <2>1. CASE RegisterLaunch(j) \/ LockAndCheck(j)
      <3>1. launch[j].pc \in {"born", "registered"} /\ UNCHANGED <<pane, tree, leftBehind>>
        BY <2>1 DEF RegisterLaunch, LockAndCheck
      <3>2. \A i \in Issues : req[i].job = j /\ WillEnd(i) => WillEnd(i)'
        BY <1>1, <3>1 DEF WillEnd
      <3>. QED
        BY <2>b, <3>1, <3>2
    <2>2. CASE SyncWorktree(j)
      <3>1. \/ pane[w] \in {None, launch[j].issue}
            \/ w \in leftBehind
            \/ RequestIn(j, {"waiting", "timedout"} \cup Rolling)
        BY <1>6, <2>2 DEF SyncWorktree, StraysOK
      <3>2. UNCHANGED <<pane, leftBehind>> /\ launch'[j].pc = "synced"
        BY <2>2, LaunchEffect DEF SyncWorktree
      <3>3. tree'[w] = launch[j].issue
        BY <1>0, <1>6, <2>2 DEF SyncWorktree
      <3>4. ASSUME RequestIn(j, {"waiting", "timedout"} \cup Rolling)
            PROVE  SlotOK(w)'
        <4>1. PICK i \in Issues : req[i].job = j /\ req[i].pc \in {"waiting", "timedout"} \cup Rolling
          BY <3>4 DEF RequestIn
        <4>2. req[i].ws = w /\ launch[j].issue = i
          BY <1>0, <1>6, <4>1 DEF LaunchesOK, Rolling
        <4>3. WillEnd(i)'
          BY <1>1, <3>2, <4>1 DEF WillEnd
        <4>. QED
          BY <1>1, <3>3, <4>2, <4>3 DEF SlotOK
      <3>. QED
        BY <3>1, <3>2, <3>3, <3>4 DEF SlotOK
    <2>3. CASE PreSpawnCheck(j)
      <3>1. UNCHANGED <<pane, tree, leftBehind>> /\ launch'[j].pc = "deploying"
        BY <2>3, LaunchEffect DEF PreSpawnCheck
      <3>2. \A i \in Issues : req[i].job = j /\ WillEnd(i) => WillEnd(i)'
        BY <1>1, <3>1 DEF WillEnd
      <3>. QED
        BY <2>b, <3>1, <3>2
    <2>4. CASE KillOld(j)
      BY <1>0, <1>6, <2>4 DEF KillOld, Kill, EndsSession, SlotOK
    <2>5. CASE SpawnPane(j)
      <3>1. tree[w] = launch[j].issue
        BY <1>6, <2>5 DEF SpawnPane, HoldersOK, Holding
      <3>. QED
        BY <1>0, <1>6, <2>5, <3>1 DEF SpawnPane, SlotOK
    <2>6. CASE StandDown(j) \/ LaunchFails(j)
      <3>1. Return(j, "failed") /\ "failed" \in LaunchPcs
        BY <2>6 DEF StandDown, LaunchFails, LaunchPcs
      <3>2. UNCHANGED <<pane, tree, leftBehind>> /\ (Awaited(j) => launch'[j].pc = "failed")
        BY <3>1, ReturnEffect
      <3>3. \A i \in Issues : req[i].job = j /\ WillEnd(i) => WillEnd(i)'
        BY <1>1, <3>2 DEF WillEnd, Awaited
      <3>. QED
        BY <2>b, <3>2, <3>3
    <2>7. CASE Deliver(j)
      <3>1. launch[j].pc = "spawned" /\ UNCHANGED <<pane, tree, leftBehind>>
        BY <2>7 DEF Deliver, Return
      <3>2. \A i \in Issues : req[i].job = j /\ WillEnd(i) => WillEnd(i)'
        BY <1>1, <3>1 DEF WillEnd
      <3>. QED
        BY <2>b, <3>1, <3>2
    <2>. QED
      BY <2>1, <2>2, <2>3, <2>4, <2>5, <2>6, <2>7 DEF LaunchStep
  <1>. QED
    BY <1>1, <1>5, <1>6 DEF SlotsOK, SlotOK

LEMMA NextSlots ==
    ASSUME TypeOK, RequestsOK, LaunchesOK, HoldersOK, StraysOK, SlotsOK, [Next]_vars
    PROVE  SlotsOK'
  <1>1. ASSUME NEW i \in Issues, ReqStep(i)  PROVE SlotsOK'
    BY <1>1, ReqStepSlots
  <1>2. ASSUME NEW j \in Jobs, LaunchStep(j)  PROVE SlotsOK'
    BY <1>2, LaunchStepSlots
  <1>3. ASSUME UNCHANGED <<launch, tree, acceptedLate>>, PanesGo,
               \A i \in Issues : req'[i] = req[i] \/ (req[i].pc = "idle" /\ req'[i].pc = "gated")
        PROVE  SlotsOK'
    <2>1. \A i \in Issues : WillEnd(i) => WillEnd(i)' /\ req'[i].ws = req[i].ws
      BY <1>3 DEF WillEnd, Rolling
    <2>. QED
      BY <1>3, <2>1 DEF SlotsOK, PanesGo
  <1>4. ASSUME NEW i \in Issues, NEW w \in Workspaces, NEW j \in Jobs, Gate(i, w, j)
        PROVE  SlotsOK'
    <2>1. UNCHANGED <<launch, tree, acceptedLate, pane, leftBehind>> /\ req[i].pc = "idle"
      BY <1>4 DEF Gate, registryAndPlace, place
    <2>. QED
      BY <1>3, <1>4, <2>1, GateEffect DEF GatedFor, PanesGo
  <1>5. ASSUME NEW w \in Workspaces, SessionEnds(w)  PROVE SlotsOK'
    BY <1>3, <1>5 DEF SessionEnds, Kill, EndsSession, PanesGo, TypeOK
  <1>6. CASE (\E i \in Issues : CardMoves(i)) \/ UNCHANGED vars
    BY <1>3, <1>6 DEF CardMoves, PanesGo, registryAndPlace, place, vars
  <1>. QED
    BY <1>1, <1>2, <1>4, <1>5, <1>6, NextCases

LEMMA InitSlots == Init => HoldersOK /\ StraysOK /\ SlotsOK
  BY DEF Init, HoldersOK, StraysOK, SlotsOK, NoRequest, NoLaunch, Holding, Succeeded

(* Once no start is under way on a workspace, the agent that runs there is *)
(* the one of the issue whose branch the worktree is on, whatever launches *)
(* failed, were abandoned or still run there, unless a timed out start was *)
(* accepted on the workspace, or a failed start could not end the other    *)
(* issue's agent it found there (workspace.rs, the dispatch lock; start.rs,*)
(* the teardown of a failed start).  It takes launches that register before*)
(* their start's deadline: one that is late runs untripped.                *)
THEOREM SlotRunsItsTree ==
    ASSUME LateThreads = {}
    PROVE  Spec => []QuietSlotRunsItsTree
  <1>1. Init => SlotInv
    BY InitTypes, InitCards, InitSlots DEF SlotInv
  <1>2. SlotInv /\ [Next]_vars => SlotInv'
    BY NextTypes, NextRequests, NextLaunches, NextHolders, NextStrays, NextSlots DEF SlotInv
  <1>3. SlotInv => QuietSlotRunsItsTree
    BY DEF SlotInv, SlotsOK, NoStartOn, QuietSlotRunsItsTree
  <1>. QED
    BY <1>1, <1>2, <1>3, PTL DEF Spec

-----------------------------------------------------------------------------
(* The flags of one issue's launches. *)

FlagsOK ==
    /\ \A p \in Projects : quits[p] = 0
    /\ \A j \in Jobs :
           /\ flag[j] => live[j] # None
           /\ launch[j].pc \in {"idle", "born", "completed", "failed"} => live[j] = None
    /\ RedispatchIsFresh

FlagInv == TypeOK /\ RequestsOK /\ LaunchesOK /\ FlagsOK

LEMMA ReqStepFlags ==
    ASSUME \A i, k \in Issues : i = k, TypeOK, RequestsOK, LaunchesOK, FlagsOK,
           NEW i \in Issues, ReqStep(i)
    PROVE  FlagsOK'
  <1>0. /\ flag \in [Jobs -> BOOLEAN] /\ NoRequest.pc = "idle" /\ NoLaunch.pc = "idle"
        /\ req[i].job \in Jobs /\ req[i].pc # "idle"
    BY MovesOrEnds DEF TypeOK, RegistryTypeOK, NoRequest, NoLaunch, RequestsOK
  <1>1. UNCHANGED <<live, quits>>
    BY OthersLeave DEF OtherStep
  <1>2. \A j \in Jobs :
            launch'[j].pc \in {"idle", "born", "completed", "failed"} => live[j] = None
    <2>1. CASE SpawnLaunchThread(i)
      <3>1. launch[req[i].job].pc = "idle"
        BY <2>1 DEF SpawnLaunchThread, LaunchesOK, Early
      <3>. QED
        BY <1>0, <2>1, <3>1, SpawnEffect DEF FlagsOK
    <2>2. CASE LaunchAnswers(i)
      BY <1>0, <2>2, RequestEffect DEF FlagsOK, LaunchAnswers, Gone
    <2>3. CASE ~SpawnLaunchThread(i) /\ ~LaunchAnswers(i)
      <3>1. UNCHANGED launch
        BY <2>3
           DEF ReqStep, RecheckFails, PersistMove, PersistAssignment, IdleTimeout, LateSuccess,
               Abandon, RestoreStatus, RestoreFields, Teardown, Finish, ReleaseSupplanted,
               registryAndPlace, place
      <3>. QED
        BY <3>1 DEF FlagsOK
    <2>. QED
      BY <2>1, <2>2, <2>3
  <1>3. \A j \in Jobs : flag'[j] => live[j] # None
    <2>1. CASE Abandon(i)
      BY <1>0, <2>1 DEF Abandon, BumpWorkspace, LaunchesOn, JobsOf, FlagsOK
    <2>2. CASE ~Abandon(i)
      <3>1. UNCHANGED flag
        BY <2>2
           DEF ReqStep, RecheckFails, PersistMove, PersistAssignment, SpawnLaunchThread,
               LaunchAnswers, IdleTimeout, LateSuccess, RestoreStatus, RestoreFields, Teardown,
               Finish, ReleaseSupplanted, registryAndPlace
      <3>. QED
        BY <3>1 DEF FlagsOK
    <2>. QED
      BY <2>1, <2>2
  (* The only request that waits now is one that has just spawned its launch. *)
  <1>4. req'[i].pc = "waiting" => ~flag'[req'[i].job]
    <2>1. CASE SpawnLaunchThread(i)
      <3>1. launch[req[i].job].pc = "idle"
        BY <2>1 DEF SpawnLaunchThread, LaunchesOK, Early
      <3>2. req'[i].job = req[i].job
        BY <2>1, SpawnEffect DEF Moves
      <3>. QED
        BY <1>0, <1>3, <3>1, <3>2 DEF FlagsOK
    <2>2. CASE LaunchAnswers(i)
      BY <2>2, RequestEffect DEF Moves
    <2>3. CASE ~SpawnLaunchThread(i) /\ ~LaunchAnswers(i)
      <3>1. Ends(i) \/ \E pc \in ReqPcs \ {"waiting"} : Moves(i, pc)
        BY <2>3, RequestEffect DEF ReqStep, ReqPcs
      <3>. QED
        BY <1>0, <3>1 DEF Moves, Ends
    <2>. QED
      BY <2>1, <2>2, <2>3
  <1>5. RedispatchIsFresh'
    BY <1>4 DEF RedispatchIsFresh, IsCancelled
  <1>. QED
    BY <1>1, <1>2, <1>3, <1>5 DEF FlagsOK

LEMMA LaunchStepFlags ==
    ASSUME TypeOK, RequestsOK, LaunchesOK, FlagsOK, NEW j \in Jobs, LaunchStep(j)
    PROVE  FlagsOK'
  <1>0. /\ flag \in [Jobs -> BOOLEAN] /\ live \in [Jobs -> Registration \cup {None}]
        /\ launch[j].ws \in Workspaces /\ Project \in Projects
        /\ \A i \in Issues : req[i].pc = "waiting" => req[i].job \in Jobs
    BY LaunchStages DEF TypeOK, RegistryTypeOK, LaunchesOK, RequestsOK
  <1>1. UNCHANGED req /\ \A k \in Jobs \ {j} : launch'[k] = launch[k]
    BY LaunchStages DEF Goes, Gone
  <1>a. ASSUME UNCHANGED quits,
               \A k \in Jobs \ {j} : live'[k] = live[k] /\ flag'[k] = flag[k],
               flag'[j] => flag[j] /\ live'[j] # None,
               launch'[j].pc \in {"idle", "born", "completed", "failed"} => live'[j] = None
        PROVE  FlagsOK'
    BY <1>0, <1>1, <1>a DEF FlagsOK, RedispatchIsFresh, IsCancelled
  <1>2. CASE RegisterLaunch(j)
    <2>1. BornCancelled(Project) = FALSE
      BY <1>0 DEF FlagsOK, BornCancelled
    <2>2. flag' = [flag EXCEPT ![j] = FALSE]
      BY <1>2, <2>1 DEF RegisterLaunch, Register
    <2>3. ~flag'[j] /\ launch'[j].pc = "registered"
      BY <1>0, <1>2, <2>2, LaunchEffect DEF Goes
    <2>. QED
      BY <1>0, <1>2, <1>a, <2>3 DEF RegisterLaunch, Register
  <1>3. CASE \/ LockAndCheck(j) \/ SyncWorktree(j) \/ PreSpawnCheck(j)
             \/ KillOld(j) \/ SpawnPane(j)
    <2>1. /\ UNCHANGED <<live, flag, quits>>
          /\ launch'[j].pc \in Holding
      BY <1>3, LaunchEffect
         DEF LockAndCheck, SyncWorktree, PreSpawnCheck, KillOld, SpawnPane, registryAndPlace,
             Goes, Holding
    <2>2. flag[j] => live[j] # None
      BY DEF FlagsOK
    <2>. QED
      BY <1>a, <2>1, <2>2 DEF Holding
  <1>4. ASSUME NEW pc \in {"completed", "failed"}, Return(j, pc)  PROVE FlagsOK'
    <2>1. live'[j] = None /\ ~flag'[j] /\ UNCHANGED quits
      BY <1>0, <1>4 DEF Return, Unregister
    <2>2. \A k \in Jobs \ {j} : live'[k] = live[k] /\ flag'[k] = flag[k]
      BY <1>4, ReturnEffect DEF LaunchPcs
    <2>. QED
      BY <1>a, <2>1, <2>2
  <1>5. CASE Deliver(j) \/ StandDown(j) \/ LaunchFails(j)
    BY <1>4, <1>5 DEF Deliver, StandDown, LaunchFails
  <1>. QED
    BY <1>2, <1>3, <1>5 DEF LaunchStep

LEMMA NextFlags ==
    ASSUME \A i, k \in Issues : i = k, TypeOK, RequestsOK, LaunchesOK, FlagsOK, [Next]_vars
    PROVE  FlagsOK'
  <1>1. ASSUME NEW i \in Issues, ReqStep(i)  PROVE FlagsOK'
    BY <1>1, ReqStepFlags
  <1>2. ASSUME NEW j \in Jobs, LaunchStep(j)  PROVE FlagsOK'
    BY <1>2, LaunchStepFlags
  <1>3. ASSUME UNCHANGED <<live, flag, quits, launch>>,
               \A i \in Issues : req'[i] = req[i] \/ req'[i].pc = "gated"
        PROVE  FlagsOK'
    BY <1>3 DEF FlagsOK, RedispatchIsFresh, IsCancelled
  <1>4. ASSUME NEW i \in Issues, NEW w \in Workspaces, NEW j \in Jobs, Gate(i, w, j)
        PROVE  FlagsOK'
    <2>1. UNCHANGED <<live, flag, quits, launch>>
      BY <1>4 DEF Gate, registryAndPlace
    <2>. QED
      BY <1>3, <1>4, <2>1, GateEffect DEF GatedFor
  <1>5. CASE \/ \E i \in Issues : CardMoves(i)
             \/ \E w \in Workspaces : SessionEnds(w)
             \/ UNCHANGED vars
    BY <1>3, <1>5 DEF CardMoves, SessionEnds, registryAndPlace, vars
  <1>. QED
    BY <1>1, <1>2, <1>4, <1>5, NextCases

(* However often one issue is started, times out and is started again, on  *)
(* whatever workspaces, with launches that linger or register late: the    *)
(* launch a start waits for was not tripped by an earlier start's timeout  *)
(* (start.rs:280, the redispatch's fresh guard).                           *)
THEOREM RedispatchFresh ==
    ASSUME \A i, k \in Issues : i = k
    PROVE  Spec => []RedispatchIsFresh
  <1>1. Init => FlagInv
    BY InitTypes, InitCards
       DEF FlagInv, FlagsOK, Init, RegistryInit, RedispatchIsFresh, IsCancelled, NoRequest, NoLaunch
  <1>2. FlagInv /\ [Next]_vars => FlagInv'
    BY NextTypes, NextRequests, NextLaunches, NextFlags DEF FlagInv
  <1>3. FlagInv => RedispatchIsFresh
    BY DEF FlagInv, FlagsOK
  <1>. QED
    BY <1>1, <1>2, <1>3, PTL DEF Spec
=============================================================================
