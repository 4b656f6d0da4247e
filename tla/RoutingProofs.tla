---------------------------- MODULE RoutingProofs ----------------------------
(***************************************************************************)
(* Proofs about Routing, for any number of requests, worker objects and    *)
(* ids.  Beside the properties themselves the invariant needs the bound on *)
(* the attempts of a request in flight and facts about worker objects: one *)
(* that is registered, being drained, or used by a request has been        *)
(* created, and one a pick has found is still registered.  The last part   *)
(* shows that the router implements Dispatch.                              *)
(***************************************************************************)
EXTENDS Routing, FiniteSetTheorems, TLAPS

AttemptBound ==
    \A r \in Requests :
        /\ pc[r] = "idle" => attempt[r] = 0
        /\ pc[r] \notin {"idle", "pick"} => attempt[r] < MaxAttempts

RegisteredCreated == \A i \in Instances : i \in Registered => life[i] # "new"

DrainedCreated ==
    /\ \A d \in Drainers : dpc[d] # "idle" => life[job[d]] # "new"
    /\ \A i \in drained : life[i] # "new"

\* The table does not change under a pick.
FoundRegistered == \A r \in Requests : Found(r) \subseteq Registered

UsedCreated == \A r \in Requests : on[r] # NoWorker => life[on[r]] # "new"

IInv ==
    /\ TypeOK /\ AttemptBound /\ ActiveLedger /\ InFlightLedger
    /\ RegisteredCreated /\ DrainedCreated /\ DrainedGone /\ FoundRegistered /\ UsedCreated

\* The steps of each kind of actor.
WorldStep ==
    \/ \E i \in Instances : Register(i)
    \/ \E id \in Ids : Crash(id) \/ AdminRemove(id) \/ DestroyContainer(id) \/ DestroyLost(id)
    \/ SetStrategy
DrainAny == \E d \in Drainers : ScaleDown(d) \/ AdminDrain(d) \/ DrainStep(d)
ChatAny == \E r \in Requests : BeginChat(r) \/ RequestStep(r)

-----------------------------------------------------------------------------
LEMMA NextActors ==
    ASSUME [Next]_vars
    PROVE  UNCHANGED vars \/ WorldStep \/ DrainAny \/ ChatAny \/ HealthStep
  BY DEF Next, WorldStep, DrainAny, ChatAny

\* RemoveWorker empties the slot of its id and touches no other.
LEMMA RemoveEntryFact ==
    ASSUME TypeOK, NEW id \in Ids, RemoveEntry(id)
    PROVE  /\ table' \in [Ids -> Instances \cup {NoWorker}]
           /\ \A d \in Ids : table'[d] # NoWorker => IdOf[table'[d]] = d
           /\ open' \in [Instances -> BOOLEAN]
           /\ doomed' \subseteq Ids
           /\ Registered' = {i \in Registered : IdOf[i] # id}
  BY NoWorkerAssumption, IdAssumption DEF TypeOK, RemoveEntry, Registered

\* The other actors never touch the counters nor the requests.
LEMMA OthersFrame ==
    ASSUME UNCHANGED vars \/ WorldStep \/ DrainAny \/ HealthStep
    PROVE  UNCHANGED <<active, requestVars>>
  <1> USE DEF workerVars, requestVars, drainVars, healthVars
  <1>1. CASE UNCHANGED vars
    BY <1>1 DEF vars
  <1>2. CASE WorldStep
    BY <1>2 DEF WorldStep, Register, Crash, AdminRemove, DestroyContainer,
                DestroyLost, SetStrategy
  <1>3. CASE DrainAny
    BY <1>3 DEF DrainAny, DrainStep, ScaleDown, AdminDrain, StartDrain, SetDraining,
                DrainIdle, DrainDeadline, SetStopping, Close, SetDead, DrainRemove, EndDrain
  <1>4. CASE HealthStep
    BY <1>4 DEF HealthStep, CollectIdleDraining, RemoveIdleDraining,
                SnapshotHealthy, SkipBusy, Ping, ApplyPing, EndOfCheck
  <1> QED
    BY <1>1, <1>2, <1>3, <1>4

-----------------------------------------------------------------------------
(* Type correctness, with the bound on attempts.                           *)

LEMMA TypeInit == Init => TypeOK /\ AttemptBound
  BY StrategyAssumption, BoundAssumption, NoWorkerAssumption
     DEF Init, TypeOK, ScanOK, Blank, Unread, AttemptBound, Lives, RequestPCs, DrainPCs, NoPing

LEMMA ScanFrame == ScanOK /\ UNCHANGED <<pc, how, loads>> => ScanOK'
  BY DEF ScanOK, Blank, Unread

\* A pick may leave its locals alone, start, or end.
LEMMA ScanStep ==
    ASSUME ScanOK, NEW r \in Requests, pc \in [Requests -> RequestPCs],
           NEW label, Goto(r, label),
           \/ EndScan(r)
           \/ label # "scan" /\ pc[r] # "scan" /\ UNCHANGED <<how, loads>>
    PROVE  ScanOK'
  <1>1. Blank \in [Instances -> Int] /\ Blank' = Blank
    BY DEF Blank, Unread
  <1>2. CASE EndScan(r)
    <2>1. how' \in [Requests -> Strategies \cup {"none", "wrapped"}]
      BY <1>2 DEF EndScan, ScanOK
    <2>2. loads' \in [Requests -> [Instances -> Int]]
      BY <1>1, <1>2 DEF EndScan, ScanOK
    <2>3. ASSUME NEW q \in Requests, pc'[q] # "scan"
          PROVE  how'[q] = "none" /\ loads'[q] = Blank
      BY <1>2, <2>3 DEF EndScan, ScanOK, Goto
    <2> QED
      BY <1>1, <2>1, <2>2, <2>3 DEF ScanOK
  <1>3. CASE label # "scan" /\ pc[r] # "scan" /\ UNCHANGED <<how, loads>>
    BY <1>1, <1>3 DEF ScanOK, Goto
  <1> QED
    BY <1>2, <1>3

LEMMA ScanChat ==
    ASSUME TypeOK, NEW r \in Requests, BeginChat(r) \/ RequestStep(r)
    PROVE  ScanOK'
  <1>1. ScanOK /\ pc \in [Requests -> RequestPCs]
    BY DEF TypeOK
  <1>2. CASE StartScan(r)
    <2>1. strategy \in Strategies
      BY DEF TypeOK
    <2> QED
      BY <1>1, <1>2, <2>1 DEF StartScan, ScanOK, Goto, Blank, Unread
  <1>3. CASE WrapAround(r)
    BY <1>1, <1>3 DEF WrapAround, ScanOK, Blank, Unread
  <1>4. CASE Look(r)
    <2>1. PICK i \in Instances : loads' = [loads EXCEPT ![r][i] = Seen(i)]
      BY <1>4 DEF Look, Registered
    <2>2. Seen(i) \in Int
      BY DEF Seen, TypeOK, Away
    <2>3. pc' = pc /\ how' = how /\ pc[r] = "scan"
      BY <1>4 DEF Look
    <2>4. loads' = [loads EXCEPT ![r] = [loads[r] EXCEPT ![i] = Seen(i)]]
      BY <2>1
    <2>5. loads[r] \in [Instances -> Int]
      BY <1>1 DEF ScanOK
    <2>6. [loads[r] EXCEPT ![i] = Seen(i)] \in [Instances -> Int]
      BY <2>2, <2>5
    <2> QED
      BY <1>1, <2>3, <2>4, <2>6 DEF ScanOK, Blank, Unread
  <1>5. CASE BeginChat(r) \/ AddInFlight(r) \/ SendBegin(r)
    BY <1>1, <1>5, ScanStep DEF BeginChat, AddInFlight, SendBegin, scanVars
  <1>6. CASE SendEnd(r)
    BY <1>1, <1>6, ScanStep DEF SendEnd, scanVars
  <1>7. CASE RemoveInFlight(r)
    BY <1>1, <1>7, ScanStep DEF RemoveInFlight, NextAttempt, scanVars
  <1>8. CASE MarkHealthy(r)
    BY <1>1, <1>8, ScanStep DEF MarkHealthy, Finish, scanVars
  <1>9. CASE PickWorker(r) \/ GiveUpOnWorkers(r) \/ NoWorkers(r)
    BY <1>1, <1>9, ScanStep DEF PickWorker, GiveUpOnWorkers, NoWorkers, Finish
  <1> QED
    BY <1>2, <1>3, <1>4, <1>5, <1>6, <1>7, <1>8, <1>9 DEF RequestStep

LEMMA ScanOthers ==
    ASSUME TypeOK, UNCHANGED vars \/ WorldStep \/ DrainAny \/ HealthStep
    PROVE  ScanOK'
  BY OthersFrame, ScanFrame DEF TypeOK, requestVars, scanVars

LEMMA TypeChat ==
    ASSUME TypeOK, AttemptBound, NEW r \in Requests, BeginChat(r) \/ RequestStep(r)
    PROVE  TypeOK' /\ AttemptBound'
  <1> USE BoundAssumption, NoWorkerAssumption
      DEF TypeOK, AttemptBound, Goto, Finish, workerVars, drainVars, healthVars,
          RequestPCs, Lives
  <1>0. ScanOK'
    BY ScanChat
  <1>1. CASE BeginChat(r)
    BY <1>0, <1>1 DEF BeginChat
  <1>2. CASE PickWorker(r)
    <2>1. PICK i \in Instances : on' = [on EXCEPT ![r] = i]
      BY <1>2 DEF PickWorker, Choices, Spare, Found
    <2> QED
      BY <1>0, <1>2, <2>1 DEF PickWorker
  <1>9. CASE StartScan(r) \/ WrapAround(r) \/ Look(r)
    BY <1>0, <1>9 DEF StartScan, WrapAround, Look
  <1>3. CASE GiveUpOnWorkers(r)
    BY <1>0, <1>3 DEF GiveUpOnWorkers
  <1>4. CASE NoWorkers(r)
    BY <1>0, <1>4 DEF NoWorkers
  <1>5. CASE AddInFlight(r)
    BY <1>0, <1>5 DEF AddInFlight
  <1>6. CASE SendBegin(r) \/ SendEnd(r)
    BY <1>0, <1>6 DEF SendBegin, SendEnd
  <1>7. CASE RemoveInFlight(r)
    BY <1>0, <1>7 DEF RemoveInFlight, NextAttempt
  <1>8. CASE MarkHealthy(r)
    BY <1>0, <1>8 DEF MarkHealthy, SetLife
  <1> QED
    BY <1>1, <1>2, <1>3, <1>4, <1>5, <1>6, <1>7, <1>8, <1>9 DEF RequestStep

LEMMA TypeWorld == TypeOK /\ AttemptBound /\ WorldStep => TypeOK' /\ AttemptBound'
  <1> SUFFICES ASSUME TypeOK, AttemptBound, WorldStep
               PROVE  TypeOK' /\ AttemptBound'
    OBVIOUS
  <1>0. ScanOK'
    BY ScanOthers
  <1> USE DEF TypeOK, AttemptBound, requestVars, drainVars, healthVars
  <1>1. ASSUME NEW i \in Instances, Register(i)
        PROVE  TypeOK' /\ AttemptBound'
    BY <1>0, <1>1, IdAssumption DEF Register, SetLife, Lives
  <1>2. ASSUME NEW id \in Ids, Crash(id) \/ DestroyContainer(id) \/ DestroyLost(id)
        PROVE  TypeOK' /\ AttemptBound'
    BY <1>0, <1>2 DEF Crash, DestroyContainer, DestroyLost
  <1>3. ASSUME NEW id \in Ids, AdminRemove(id)
        PROVE  TypeOK' /\ AttemptBound'
    BY <1>0, <1>3, RemoveEntryFact DEF AdminRemove
  <1>4. CASE SetStrategy
    BY <1>0, <1>4 DEF SetStrategy
  <1> QED
    BY <1>1, <1>2, <1>3, <1>4 DEF WorldStep

LEMMA TypeDrain == TypeOK /\ AttemptBound /\ DrainAny => TypeOK' /\ AttemptBound'
  <1> SUFFICES ASSUME TypeOK, AttemptBound,
                      NEW d \in Drainers, ScaleDown(d) \/ AdminDrain(d) \/ DrainStep(d)
               PROVE  TypeOK' /\ AttemptBound'
    BY DEF DrainAny
  <1>0. ScanOK'
    BY ScanOthers DEF DrainAny
  <1> USE DEF TypeOK, AttemptBound, DrainGoto, SetLife, Lives, DrainPCs,
              workerVars, requestVars, healthVars
  <1>1. CASE ScaleDown(d) \/ AdminDrain(d)
    <2>1. PICK i \in Instances :
              StartDrain(d, i, "chosen") \/ StartDrain(d, i, "killStop")
      BY <1>0, <1>1 DEF ScaleDown, AdminDrain, Routable, Registered
    <2> QED
      BY <1>0, <2>1 DEF StartDrain
  <1>2. CASE DrainIdle(d) \/ DrainDeadline(d)
    BY <1>0, <1>2 DEF DrainIdle, DrainDeadline
  <1>3. CASE SetDraining(d) \/ SetStopping(d) \/ SetDead(d)
    BY <1>0, <1>3 DEF SetDraining, SetStopping, SetDead
  <1>4. CASE Close(d)
    BY <1>0, <1>4 DEF Close
  <1>5. CASE DrainRemove(d)
    <2>1. job[d] \in Instances /\ IdOf[job[d]] \in Ids
      BY <1>0, <1>5, IdAssumption DEF DrainRemove, EndDrain
    <2> QED
      BY <1>0, <1>5, <2>1, RemoveEntryFact DEF DrainRemove, EndDrain
  <1> QED
    BY <1>1, <1>2, <1>3, <1>4, <1>5 DEF DrainStep

LEMMA TypeHealth == TypeOK /\ AttemptBound /\ HealthStep => TypeOK' /\ AttemptBound'
  <1> SUFFICES ASSUME TypeOK, AttemptBound, HealthStep
               PROVE  TypeOK' /\ AttemptBound'
    OBVIOUS
  <1>0. ScanOK'
    BY ScanOthers
  <1> USE DEF TypeOK, AttemptBound, workerVars, requestVars, drainVars
  <1>1. CASE CollectIdleDraining
    BY <1>0, <1>1, IdAssumption DEF CollectIdleDraining, Registered
  <1>2. CASE RemoveIdleDraining
    BY <1>0, <1>2, RemoveEntryFact DEF RemoveIdleDraining
  <1>3. CASE SnapshotHealthy
    BY <1>0, <1>3 DEF SnapshotHealthy, Routable, Registered
  <1>4. CASE SkipBusy \/ EndOfCheck
    BY <1>0, <1>4 DEF SkipBusy, EndOfCheck
  <1>5. CASE Ping
    BY <1>0, <1>5 DEF Ping
  <1>6. CASE ApplyPing
    BY <1>0, <1>6 DEF ApplyPing, SetLife, Lives, NoPing
  <1> QED
    BY <1>1, <1>2, <1>3, <1>4, <1>5, <1>6 DEF HealthStep

LEMMA TypeStep == TypeOK /\ AttemptBound /\ [Next]_vars => TypeOK' /\ AttemptBound'
  <1>1. TypeOK /\ AttemptBound /\ UNCHANGED vars => TypeOK' /\ AttemptBound'
    BY ScanOthers
       DEF TypeOK, AttemptBound, vars, workerVars, requestVars, drainVars, healthVars
  <1> QED
    BY <1>1, NextActors, TypeChat, TypeWorld, TypeDrain, TypeHealth DEF ChatAny

\* Every variable of the router, its workers and its goroutines keeps its type,
\* the map only holds workers under their own id, and a chat handler holds a
\* worker exactly while it is past its first choice.
THEOREM TypeCorrect == Spec => []TypeOK
  <1>1. Init => TypeOK /\ AttemptBound
    BY TypeInit
  <1> QED
    BY <1>1, TypeStep, PTL DEF Spec

-----------------------------------------------------------------------------
(* The ledger of active requests.                                          *)

LEMMA CallersFinite ==
    \A i : IsFiniteSet(Callers(i))
  <1>1. \A i : Callers(i) \in SUBSET Requests
    BY DEF Callers
  <1> QED
    BY <1>1, FiniteAssumption, FS_Subset

\* A step that leaves the counters, the positions of requests with respect to
\* their calls and their workers alone keeps the ledger.
LEMMA ActiveFrame ==
    ASSUME ActiveLedger, active' = active,
           \A i \in Instances : Callers(i)' = Callers(i)
    PROVE  ActiveLedger'
  BY DEF ActiveLedger

LEMMA ActiveChat ==
    ASSUME TypeOK, ActiveLedger, NEW r \in Requests, BeginChat(r) \/ RequestStep(r)
    PROVE  ActiveLedger'
  <1> USE DEF TypeOK, Goto, Finish, workerVars, drainVars, healthVars
  <1>1. CASE SendBegin(r)
    <2>1. on[r] \in Instances
      BY <1>1 DEF SendBegin
    <2>2. ASSUME NEW i \in Instances
          PROVE  active'[i] = Cardinality(Callers(i)')
      <3>1. CASE i = on[r]
        <4>1. r \notin Callers(i) /\ Callers(i)' = Callers(i) \cup {r}
          BY <1>1, <3>1 DEF SendBegin, Callers
        <4>2. active'[i] = active[i] + 1 /\ active[i] = Cardinality(Callers(i))
          BY <1>1, <3>1 DEF SendBegin, ActiveLedger
        <4>3. IsFiniteSet(Callers(i))
          BY CallersFinite
        <4>4. Cardinality(Callers(i) \cup {r}) = Cardinality(Callers(i)) + 1
          BY <4>1, <4>3, FS_AddElement
        <4> QED
          BY <4>1, <4>2, <4>4
      <3>2. CASE i # on[r]
        <4>1. Callers(i)' = Callers(i)
          BY <1>1, <3>2 DEF SendBegin, Callers
        <4>2. active'[i] = active[i]
          BY <1>1, <2>1, <3>2 DEF SendBegin
        <4> QED
          BY <4>1, <4>2 DEF ActiveLedger
      <3> QED
        BY <3>1, <3>2
    <2> QED
      BY <2>2 DEF ActiveLedger
  <1>2. CASE SendEnd(r)
    <2>1. on[r] \in Instances
      BY <1>2 DEF SendEnd
    <2>2. ASSUME NEW i \in Instances
          PROVE  active'[i] = Cardinality(Callers(i)')
      <3>1. CASE i = on[r]
        <4>1. r \in Callers(i) /\ Callers(i)' = Callers(i) \ {r}
          BY <1>2, <3>1 DEF SendEnd, Callers
        <4>2. active'[i] = active[i] - 1 /\ active[i] = Cardinality(Callers(i))
          BY <1>2, <3>1 DEF SendEnd, ActiveLedger
        <4>3. IsFiniteSet(Callers(i))
          BY CallersFinite
        <4>4. Cardinality(Callers(i) \ {r}) = Cardinality(Callers(i)) - 1
          BY <4>1, <4>3, FS_RemoveElement
        <4> QED
          BY <4>1, <4>2, <4>4
      <3>2. CASE i # on[r]
        <4>1. Callers(i)' = Callers(i)
          BY <1>2, <3>2 DEF SendEnd, Callers
        <4>2. active'[i] = active[i]
          BY <1>2, <2>1, <3>2 DEF SendEnd
        <4> QED
          BY <4>1, <4>2 DEF ActiveLedger
      <3> QED
        BY <3>1, <3>2
    <2> QED
      BY <2>2 DEF ActiveLedger
  <1>3. CASE BeginChat(r) \/ PickWorker(r) \/ AddInFlight(r)
    BY <1>3, ActiveFrame DEF BeginChat, PickWorker, AddInFlight, Callers
  <1>4. CASE GiveUpOnWorkers(r) \/ NoWorkers(r)
    BY <1>4, ActiveFrame DEF GiveUpOnWorkers, NoWorkers, Callers
  <1>5. CASE RemoveInFlight(r) \/ MarkHealthy(r)
    BY <1>5, ActiveFrame DEF RemoveInFlight, NextAttempt, MarkHealthy, Callers
  <1>6. CASE StartScan(r) \/ Look(r) \/ WrapAround(r)
    BY <1>6, ActiveFrame DEF StartScan, Look, WrapAround, Callers
  <1> QED
    BY <1>1, <1>2, <1>3, <1>4, <1>5, <1>6 DEF RequestStep

LEMMA ActiveStep == TypeOK /\ ActiveLedger /\ [Next]_vars => ActiveLedger'
  <1>1. ASSUME ActiveLedger, UNCHANGED <<active, requestVars>>
        PROVE  ActiveLedger'
    BY <1>1, ActiveFrame DEF requestVars, Callers
  <1> QED
    BY <1>1, NextActors, OthersFrame, ActiveChat DEF ChatAny

LEMMA InFlightStep == TypeOK /\ InFlightLedger /\ [Next]_vars => InFlightLedger'
  <1> SUFFICES ASSUME TypeOK, InFlightLedger, [Next]_vars
               PROVE  InFlightLedger'
    OBVIOUS
  <1>1. CASE UNCHANGED <<active, requestVars>>
    BY <1>1 DEF requestVars, InFlightLedger
  <1>2. ASSUME NEW r \in Requests, BeginChat(r) \/ RequestStep(r)
        PROVE  InFlightLedger'
    <2>1. CASE StartScan(r) \/ Look(r) \/ WrapAround(r)
      BY <2>1 DEF InFlightLedger, TypeOK, Goto, StartScan, Look, WrapAround
    <2>2. CASE BeginChat(r) \/ PickWorker(r) \/ GiveUpOnWorkers(r) \/ NoWorkers(r)
      BY <2>2 DEF InFlightLedger, TypeOK, Goto, Finish, BeginChat, PickWorker,
                  GiveUpOnWorkers, NoWorkers
    <2>3. CASE AddInFlight(r) \/ SendBegin(r) \/ SendEnd(r)
      BY <2>3 DEF InFlightLedger, TypeOK, Goto, AddInFlight, SendBegin, SendEnd
    <2>4. CASE RemoveInFlight(r) \/ MarkHealthy(r)
      BY <2>4 DEF InFlightLedger, TypeOK, Goto, Finish, RemoveInFlight, NextAttempt,
                  MarkHealthy
    <2> QED
      BY <1>2, <2>1, <2>2, <2>3, <2>4 DEF RequestStep
  <1> QED
    BY <1>1, <1>2, NextActors, OthersFrame DEF ChatAny

-----------------------------------------------------------------------------
(* A drained worker is gone.  Only Register adds to the map, and only a    *)
(* worker object that has just been created.                               *)

LEMMA CreatedStep ==
    /\ TypeOK /\ RegisteredCreated /\ DrainedCreated /\ DrainedGone /\ [Next]_vars
    => RegisteredCreated' /\ DrainedCreated' /\ DrainedGone'
  <1> SUFFICES ASSUME TypeOK, RegisteredCreated, DrainedCreated, DrainedGone, [Next]_vars
               PROVE  RegisteredCreated' /\ DrainedCreated' /\ DrainedGone'
    OBVIOUS
  <1> USE DEF RegisteredCreated, DrainedCreated, DrainedGone, SetLife, DrainGoto
  <1> DEFINE Keeps == /\ Registered' \subseteq Registered
                      /\ \A i \in Instances : life[i] # "new" => life'[i] # "new"
  <1>1. ASSUME Keeps, UNCHANGED drainVars
        PROVE  RegisteredCreated' /\ DrainedCreated' /\ DrainedGone'
    BY <1>1 DEF drainVars, TypeOK
  <1>2. CASE UNCHANGED vars
    BY <1>2 DEF vars, workerVars, drainVars, Registered
  <1>3. CASE ChatAny
    <2>1. Registered' = Registered /\ UNCHANGED drainVars
      BY <1>3 DEF ChatAny, RequestStep, BeginChat, StartScan, Look, WrapAround,
                  PickWorker, GiveUpOnWorkers,
                  NoWorkers, AddInFlight, SendBegin, SendEnd, RemoveInFlight,
                  MarkHealthy, workerVars, Registered
    <2>2. \A i \in Instances : life[i] # "new" => life'[i] # "new"
      BY <1>3 DEF ChatAny, RequestStep, BeginChat, StartScan, Look, WrapAround,
                  PickWorker, GiveUpOnWorkers,
                  NoWorkers, AddInFlight, SendBegin, SendEnd, RemoveInFlight,
                  MarkHealthy, workerVars, TypeOK
    <2> QED
      BY <1>1, <2>1, <2>2
  <1>4. CASE WorldStep
    <2>1. ASSUME NEW i \in Instances, Register(i)
          PROVE  RegisteredCreated' /\ DrainedCreated' /\ DrainedGone'
      <3>1. /\ life[i] = "new" /\ life' = [life EXCEPT ![i] = "HEALTHY"] /\ UNCHANGED drainVars
            /\ table' = [table EXCEPT ![IdOf[i]] = i]
        BY <2>1 DEF Register
      <3>2. Registered' \subseteq Registered \cup {i}
        BY <3>1, IdAssumption DEF Registered, TypeOK
      <3> QED
        BY <3>1, <3>2 DEF TypeOK, drainVars
    <2>2. ASSUME NEW id \in Ids, AdminRemove(id)
          PROVE  RegisteredCreated' /\ DrainedCreated' /\ DrainedGone'
      BY <1>1, <2>2, RemoveEntryFact DEF AdminRemove
    <2>3. ASSUME NEW id \in Ids, Crash(id) \/ DestroyContainer(id) \/ DestroyLost(id)
          PROVE  RegisteredCreated' /\ DrainedCreated' /\ DrainedGone'
      BY <1>1, <2>3 DEF Crash, DestroyContainer, DestroyLost, Registered
    <2>4. CASE SetStrategy
      BY <1>1, <2>4 DEF SetStrategy, Registered
    <2> QED
      BY <1>4, <2>1, <2>2, <2>3, <2>4 DEF WorldStep
  <1>5. ASSUME NEW d \in Drainers, ScaleDown(d) \/ AdminDrain(d) \/ DrainStep(d)
        PROVE  RegisteredCreated' /\ DrainedCreated' /\ DrainedGone'
    <2>1. CASE ScaleDown(d) \/ AdminDrain(d)
      <3>1. PICK i \in Registered :
                StartDrain(d, i, "chosen") \/ StartDrain(d, i, "killStop")
        BY <2>1 DEF ScaleDown, AdminDrain, Routable
      <3>2. i \in Instances
        BY DEF Registered
      <3> QED
        BY <3>1, <3>2 DEF StartDrain, workerVars, Registered, TypeOK
    <2>2. CASE SetDraining(d) \/ SetStopping(d) \/ SetDead(d)
      BY <2>2 DEF SetDraining, SetStopping, SetDead, Registered, TypeOK
    <2>3. CASE DrainIdle(d) \/ DrainDeadline(d) \/ Close(d)
      BY <2>3 DEF DrainIdle, DrainDeadline, Close, workerVars, Registered, TypeOK
    <2>4. CASE DrainRemove(d)
      <3>1. job[d] \in Instances /\ life[job[d]] # "new" /\ IdOf[job[d]] \in Ids
        BY <2>4, IdAssumption DEF DrainRemove, EndDrain, TypeOK
      <3>2. Registered' = {j \in Registered : IdOf[j] # IdOf[job[d]]}
        BY <2>4, <3>1, RemoveEntryFact DEF DrainRemove
      <3>3. /\ drained' = drained \cup {job[d]} /\ life' = life
            /\ dpc' = [dpc EXCEPT ![d] = "idle"] /\ job' = [job EXCEPT ![d] = NoWorker]
        BY <2>4 DEF DrainRemove, EndDrain
      <3> QED
        BY <3>1, <3>2, <3>3 DEF TypeOK
    <2> QED
      BY <1>5, <2>1, <2>2, <2>3, <2>4 DEF DrainStep
  <1>6. CASE HealthStep
    <2>1. CASE RemoveIdleDraining
      <3>1. PICK id \in sweep : RemoveEntry(id)
        BY <2>1 DEF RemoveIdleDraining
      <3>2. id \in Ids
        BY DEF TypeOK
      <3> QED
        BY <1>1, <2>1, <3>1, <3>2, RemoveEntryFact DEF RemoveIdleDraining
    <2>2. CASE ApplyPing
      BY <1>1, <2>2 DEF ApplyPing, Registered, TypeOK
    <2>3. CASE ~RemoveIdleDraining /\ ~ApplyPing
      BY <1>1, <1>6, <2>3 DEF HealthStep, CollectIdleDraining, SnapshotHealthy,
         SkipBusy, Ping, EndOfCheck, workerVars, Registered
    <2> QED
      BY <2>1, <2>2, <2>3
  <1> QED
    BY <1>2, <1>3, <1>4, <1>5, <1>6, NextActors DEF DrainAny

-----------------------------------------------------------------------------
(* The worker of a request has been created.                               *)

LEMMA LifeStays ==
    ASSUME TypeOK, [Next]_vars, NEW i \in Instances, life[i] # "new"
    PROVE  life'[i] # "new"
  <1> USE DEF TypeOK, SetLife, workerVars
  <1>1. CASE UNCHANGED vars
    BY <1>1 DEF vars
  <1>2. CASE WorldStep
    BY <1>2 DEF WorldStep, Register, Crash, AdminRemove, DestroyContainer,
                DestroyLost, SetStrategy
  <1>3. CASE DrainAny
    BY <1>3 DEF DrainAny, DrainStep, ScaleDown, AdminDrain, StartDrain, SetDraining,
                DrainIdle, DrainDeadline, SetStopping, Close, SetDead, DrainRemove, EndDrain
  <1>4. CASE HealthStep
    BY <1>4 DEF HealthStep, CollectIdleDraining, RemoveIdleDraining,
                SnapshotHealthy, SkipBusy, Ping, ApplyPing, EndOfCheck
  <1>5. CASE ChatAny
    BY <1>5 DEF ChatAny, RequestStep, BeginChat, StartScan, Look, WrapAround, PickWorker,
                GiveUpOnWorkers, NoWorkers, AddInFlight, SendBegin, SendEnd,
                RemoveInFlight, MarkHealthy
  <1> QED
    BY <1>1, <1>2, <1>3, <1>4, <1>5, NextActors

\* The write lock: while a pick runs, the table stays as it is.
LEMMA TableLocked ==
    ASSUME UNCHANGED vars \/ WorldStep \/ DrainAny \/ HealthStep
    PROVE  TableFree \/ table' = table
  <1> USE DEF workerVars, RemoveEntry
  <1>1. CASE UNCHANGED vars
    BY <1>1 DEF vars
  <1>2. CASE WorldStep
    BY <1>2 DEF WorldStep, Register, Crash, AdminRemove, DestroyContainer,
                DestroyLost, SetStrategy
  <1>3. CASE DrainAny
    BY <1>3 DEF DrainAny, DrainStep, ScaleDown, AdminDrain, StartDrain, SetDraining,
                DrainIdle, DrainDeadline, SetStopping, Close, SetDead, DrainRemove, EndDrain
  <1>4. CASE HealthStep
    BY <1>4 DEF HealthStep, CollectIdleDraining, RemoveIdleDraining,
                SnapshotHealthy, SkipBusy, Ping, ApplyPing, EndOfCheck
  <1> QED
    BY <1>1, <1>2, <1>3, <1>4

LEMMA ChatKeepsTable ==
    ASSUME NEW r \in Requests, BeginChat(r) \/ RequestStep(r)
    PROVE  UNCHANGED <<table, open, up, strategy, doomed>>
  BY DEF RequestStep, BeginChat, StartScan, Look, WrapAround, PickWorker, GiveUpOnWorkers,
         NoWorkers, AddInFlight, SendBegin, SendEnd, RemoveInFlight, MarkHealthy, workerVars

LEMMA NothingFound == ASSUME ScanOK, NEW r \in Requests, pc[r] # "scan" PROVE Found(r) = {}
  BY DEF ScanOK, Found, Blank, Unread

LEMMA FoundOthers ==
    ASSUME TypeOK, FoundRegistered, UNCHANGED vars \/ WorldStep \/ DrainAny \/ HealthStep
    PROVE  FoundRegistered'
  <1>1. \A r \in Requests : Found(r)' = Found(r)
    BY OthersFrame DEF requestVars, scanVars, Found
  <1>2. CASE TableFree
    BY <1>1, <1>2, NothingFound DEF FoundRegistered, TableFree, TypeOK
  <1>3. CASE table' = table
    BY <1>1, <1>3 DEF FoundRegistered, Registered
  <1> QED
    BY <1>2, <1>3, TableLocked

LEMMA FoundChat ==
    ASSUME TypeOK, FoundRegistered, NEW r \in Requests, BeginChat(r) \/ RequestStep(r)
    PROVE  FoundRegistered'
  <1>1. Registered' = Registered
    BY ChatKeepsTable DEF Registered
  <1>2. ScanOK /\ ScanOK'
    BY ScanChat DEF TypeOK
  <1>3. SUFFICES ASSUME NEW q \in Requests
                 PROVE  Found(q)' \subseteq Registered
    BY <1>1 DEF FoundRegistered
  <1>4. Found(q) \subseteq Registered
    BY DEF FoundRegistered
  <1>5. CASE Look(r)
    <2>1. PICK i \in Registered : loads' = [loads EXCEPT ![r][i] = Seen(i)]
      BY <1>5 DEF Look
    <2>2. i \in Instances
      BY DEF Registered
    <2>3. Found(q)' \subseteq Found(q) \cup {i}
      BY <1>2, <2>1, <2>2 DEF Found, ScanOK
    <2> QED
      BY <1>4, <2>1, <2>3
  <1>6. CASE loads' = loads
    BY <1>4, <1>6 DEF Found
  <1>7. CASE loads' = [loads EXCEPT ![r] = Blank]
    BY <1>2, <1>4, <1>7 DEF Found, ScanOK, Blank, Unread
  <1> QED
    BY <1>5, <1>6, <1>7 DEF RequestStep, BeginChat, StartScan, WrapAround, PickWorker,
       GiveUpOnWorkers, NoWorkers, AddInFlight, SendBegin, SendEnd, RemoveInFlight,
       MarkHealthy, EndScan, scanVars

LEMMA FoundStep == TypeOK /\ FoundRegistered /\ [Next]_vars => FoundRegistered'
  BY NextActors, FoundOthers, FoundChat DEF ChatAny

LEMMA UsedStep ==
    /\ TypeOK /\ RegisteredCreated /\ FoundRegistered /\ UsedCreated /\ [Next]_vars
    => UsedCreated'
  <1> SUFFICES ASSUME TypeOK, RegisteredCreated, FoundRegistered, UsedCreated, [Next]_vars,
                      NEW q \in Requests, on'[q] # NoWorker
               PROVE  life'[on'[q]] # "new"
    BY DEF UsedCreated
  <1>1. CASE on'[q] = on[q]
    <2>1. on[q] \in Instances /\ life[on[q]] # "new"
      BY <1>1 DEF TypeOK, UsedCreated
    <2> QED
      BY <1>1, <2>1, LifeStays
  <1>2. CASE on'[q] # on[q]
    <2>1. PICK r \in Requests : BeginChat(r) \/ RequestStep(r)
      BY <1>2, NextActors, OthersFrame DEF ChatAny, requestVars
    <2>2. PickWorker(r) /\ q = r
      BY <1>2, <2>1 DEF TypeOK, RequestStep, BeginChat, StartScan, Look, WrapAround, Finish,
         GiveUpOnWorkers, NoWorkers, AddInFlight, SendBegin, SendEnd, RemoveInFlight,
         NextAttempt, MarkHealthy, PickWorker
    <2>3. on'[q] \in Found(r)
      BY <2>2 DEF PickWorker, Choices, Spare, TypeOK
    <2>4. on'[q] \in Instances /\ life[on'[q]] # "new"
      BY <2>3 DEF FoundRegistered, RegisteredCreated, Registered
    <2> QED
      BY <2>4, LifeStays
  <1> QED
    BY <1>1, <1>2

-----------------------------------------------------------------------------
LEMMA IInvInit == Init => IInv
  <1> SUFFICES ASSUME Init
               PROVE  IInv
    OBVIOUS
  <1>1. \A i \in Instances : Callers(i) = {} /\ active[i] = 0
    BY DEF Init, Callers
  <1>2. ActiveLedger
    BY <1>1, FS_EmptySet DEF ActiveLedger
  <1>3. InFlightLedger /\ RegisteredCreated /\ DrainedCreated /\ DrainedGone
    BY NoWorkerAssumption, IdAssumption
       DEF Init, InFlightLedger, RegisteredCreated, DrainedCreated, DrainedGone, Registered
  <1>4. \A r \in Requests : loads[r] = Blank /\ on[r] = NoWorker
    BY DEF Init
  <1>5. FoundRegistered /\ UsedCreated
    BY <1>4 DEF FoundRegistered, UsedCreated, Found, Blank, Unread
  <1> QED
    BY <1>2, <1>3, <1>5, TypeInit DEF IInv

LEMMA InductiveInvariant == Spec => []IInv
  <1>1. IInv /\ [Next]_vars => IInv'
    BY TypeStep, ActiveStep, InFlightStep, CreatedStep, FoundStep, UsedStep DEF IInv
  <1> QED
    BY <1>1, IInvInit, PTL DEF Spec

\* A worker's counter of active requests always equals the number of calls in
\* progress on it: the choice of the least loaded worker, the drain's wait and
\* the health check never work from a leaked count.
THEOREM ActiveAccounted == Spec => []ActiveLedger
  <1>1. IInv => ActiveLedger
    BY DEF IInv
  <1> QED
    BY <1>1, InductiveInvariant, PTL

\* The in-flight store holds exactly the requests with a tracked attempt.
THEOREM InFlightAccounted == Spec => []InFlightLedger
  <1>1. IInv => InFlightLedger
    BY DEF IInv
  <1> QED
    BY <1>1, InductiveInvariant, PTL

\* A worker whose drain has ended is never in the map again, whatever late
\* replies and pings do to its state and whoever takes over its id.
THEOREM DrainIsFinal == Spec => []DrainedGone
  <1>1. IInv => DrainedGone
    BY DEF IInv
  <1> QED
    BY <1>1, InductiveInvariant, PTL

-----------------------------------------------------------------------------
(* The router implements Dispatch.                                         *)

Created == {i \in Instances : life[i] # "new"}
Clusters == <<Created, Registered, Routable>>

LEMMA SameCount == ASSUME NEW S PROVE Dispatcher!Cardinality(S) = Cardinality(S)
  BY DEF Cardinality, Dispatcher!Cardinality

LEMMA LoadIs == ASSUME TypeOK, ActiveLedger, NEW i \in Instances PROVE Dispatcher!Load(i) = active[i]
  <1> DEFINE Calling == {r \in Requests :
                           [q \in Requests |-> PhaseOf(pc[q])][r] = "calling" /\ on[r] = i}
  <1>1. Calling = Callers(i)
    BY DEF Callers, PhaseOf
  <1>2. active[i] = Cardinality(Callers(i))
    BY DEF ActiveLedger
  <1>3. Dispatcher!Load(i) = Dispatcher!Cardinality(Calling)
    BY DEF Dispatcher!Load
  <1> QED
    BY <1>1, <1>2, <1>3, SameCount

\* A step to another label is a step to its phase.
LEMMA Moves ==
    ASSUME TypeOK, NEW r \in Requests, NEW label, Goto(r, label)
    PROVE  Dispatcher!Move(r, PhaseOf(pc[r]), PhaseOf(label))
  BY DEF TypeOK, Goto, Dispatcher!Move

LEMMA ClusterKept == UNCHANGED <<table, life>> => UNCHANGED Clusters
  BY DEF Clusters, Created, Registered, Routable

-----------------------------------------------------------------------------
(* The choice of a worker.                                                 *)

LEMMA MapScan ==
    ASSUME TypeOK, ActiveLedger, NEW r \in Requests,
           StartScan(r) \/ Look(r) \/ WrapAround(r)
    PROVE  Dispatcher!Step(r)
  <1> USE DEF workerVars
  <1>1. CASE StartScan(r)
    <2>1. Dispatcher!Move(r, "pick", "scan")
      BY <1>1, Moves DEF StartScan, PhaseOf
    <2>2. UNCHANGED Clusters
      BY <1>1, ClusterKept DEF StartScan
    <2>3. Dispatcher!StartScan(r)
      BY <1>1, <2>1, <2>2
         DEF StartScan, Clusters, Created, Dispatcher!StartScan, Dispatcher!cluster
    <2> QED
      BY <2>3 DEF Dispatcher!Step
  <1>2. CASE Look(r)
    <2>1. PICK i \in Registered :
              loads[r][i] = Unread /\ loads' = [loads EXCEPT ![r][i] = Seen(i)]
      BY <1>2 DEF Look
    <2>2. i \in Instances
      BY DEF Registered
    <2>3. Seen(i) = IF i \in Routable THEN Dispatcher!Load(i) ELSE Away
      BY <2>2, LoadIs DEF Seen
    <2>4. UNCHANGED Clusters
      BY <1>2, ClusterKept DEF Look
    <2>5. [q \in Requests |-> PhaseOf(pc[q])][r] = "scan"
      BY <1>2 DEF Look, PhaseOf
    <2>6. UNCHANGED [q \in Requests |-> PhaseOf(pc[q])]
      BY <1>2 DEF Look
    <2>7. Dispatcher!Look(r)
      BY <1>2, <2>1, <2>3, <2>4, <2>5, <2>6
         DEF Look, Clusters, Created, Dispatcher!Look, Dispatcher!cluster
    <2> QED
      BY <2>7 DEF Dispatcher!Step
  <1>3. CASE WrapAround(r)
    <2>1. UNCHANGED Clusters
      BY <1>3, ClusterKept DEF WrapAround
    <2>2. [q \in Requests |-> PhaseOf(pc[q])][r] = "scan"
      BY <1>3 DEF WrapAround, PhaseOf
    <2>3. UNCHANGED [q \in Requests |-> PhaseOf(pc[q])]
      BY <1>3 DEF WrapAround
    <2>4. Dispatcher!LookAgain(r)
      BY <1>3, <2>1, <2>2, <2>3 DEF WrapAround, Blank, Clusters, Created,
         Dispatcher!LookAgain, Dispatcher!Blank, Dispatcher!cluster
    <2> QED
      BY <2>4 DEF Dispatcher!Step
  <1> QED
    BY <1>1, <1>2, <1>3

\* What a pick has seen, as the dispatcher says it.
LEMMA SeenSame ==
    ASSUME TypeOK, FoundRegistered, NEW r \in Requests
    PROVE  /\ Dispatcher!Found(r) = Found(r)
           /\ Dispatcher!Full(r) = Found(r) \ Spare(r)
           /\ Dispatcher!SawAll(r) <=> Complete(r)
  <1>1. Dispatcher!Found(r) = Found(r)
    BY DEF FoundRegistered, Registered, Found, Dispatcher!Found
  <1>2. \A i \in Found(r) : loads[r][i] \in Int
    BY DEF Found, TypeOK, ScanOK
  <1>3. Dispatcher!Full(r) = Found(r) \ Spare(r)
    BY <1>1, <1>2, BoundAssumption DEF Spare, Dispatcher!Full
  <1> QED
    BY <1>1, <1>3 DEF Complete, Dispatcher!SawAll

LEMMA NobodyElse ==
    ASSUME TypeOK, FoundRegistered, NEW r \in Requests, NoChoice(r)
    PROVE  Dispatcher!Nobody(r)
  <1>1. Spare(r) \subseteq Found(r)
    BY DEF Spare
  <1> QED
    BY <1>1, SeenSame DEF NoChoice, Dispatcher!Nobody

LEMMA Ends == ASSUME NEW r \in Requests, EndScan(r) PROVE Dispatcher!Decided(r)
  BY DEF EndScan, Blank, Dispatcher!Decided, Dispatcher!Blank

LEMMA MapPick ==
    ASSUME TypeOK, FoundRegistered, NEW r \in Requests, PickWorker(r)
    PROVE  Dispatcher!Step(r)
  <1>1. Dispatcher!Move(r, "scan", "assigned")
    BY Moves DEF PickWorker, PhaseOf
  <1>2. UNCHANGED Clusters
    BY ClusterKept DEF PickWorker, workerVars
  <1>3. Dispatcher!Decided(r)
    BY Ends DEF PickWorker
  <1>4. PICK i \in Choices(r) : on' = [on EXCEPT ![r] = i]
    BY DEF PickWorker
  <1>5. /\ i \in Dispatcher!Found(r) \ Dispatcher!Full(r)
        /\ how[r] = "least" =>
              Dispatcher!SawAll(r) /\ \A j \in Dispatcher!Found(r) : loads[r][i] <= loads[r][j]
    BY SeenSame DEF Choices, Spare
  <1>6. Dispatcher!Assign(r)
    BY <1>1, <1>2, <1>3, <1>4, <1>5
       DEF PickWorker, workerVars, Clusters, Created, Dispatcher!Assign, Dispatcher!cluster
  <1> QED
    BY <1>6 DEF Dispatcher!Step

LEMMA MapNobody ==
    ASSUME TypeOK, FoundRegistered, NEW r \in Requests, GiveUpOnWorkers(r) \/ NoWorkers(r)
    PROVE  Dispatcher!Step(r)
  <1>1. UNCHANGED Clusters
    BY ClusterKept DEF GiveUpOnWorkers, NoWorkers, workerVars
  <1>2. Dispatcher!Decided(r)
    BY Ends DEF GiveUpOnWorkers, NoWorkers
  <1>3. CASE pc[r] = "pick"
    <2>1. GiveUpOnWorkers(r) /\ attempt[r] = MaxAttempts
      BY <1>3 DEF GiveUpOnWorkers, NoWorkers
    <2>2. Dispatcher!Move(r, "pick", "idle")
      BY <1>3, <2>1, Moves DEF GiveUpOnWorkers, Finish, PhaseOf
    <2>3. UNCHANGED <<how, loads>>
      BY <1>3, <2>1 DEF GiveUpOnWorkers, EndScan, TypeOK, ScanOK
    <2>4. Dispatcher!GiveUp(r)
      BY <1>1, <2>1, <2>2, <2>3 DEF GiveUpOnWorkers, Finish, workerVars, Clusters, Created,
         Dispatcher!GiveUp, Dispatcher!Forget, Dispatcher!cluster
    <2> QED
      BY <2>4 DEF Dispatcher!Step
  <1>4. CASE pc[r] = "scan" /\ Finish(r)
    <2>1. Dispatcher!Nobody(r)
      BY <1>4, NobodyElse DEF GiveUpOnWorkers, NoWorkers
    <2>2. Dispatcher!Move(r, "scan", "idle")
      BY <1>4, Moves DEF Finish, PhaseOf
    <2>3. Dispatcher!Refuse(r)
      BY <1>1, <1>2, <1>4, <2>1, <2>2 DEF GiveUpOnWorkers, NoWorkers, Finish, workerVars,
         Clusters, Created, Dispatcher!Refuse, Dispatcher!Forget, Dispatcher!cluster
    <2> QED
      BY <2>3 DEF Dispatcher!Step
  <1>5. CASE NoWorkers(r) /\ Goto(r, "pick") /\ UNCHANGED <<on, attempt>>
    <2>1. Dispatcher!Nobody(r)
      BY <1>5, NobodyElse DEF NoWorkers
    <2>2. Dispatcher!Move(r, "scan", "pick")
      BY <1>5, Moves DEF NoWorkers, PhaseOf
    <2>3. Dispatcher!TryLater(r)
      BY <1>1, <1>2, <1>5, <2>1, <2>2 DEF NoWorkers, workerVars, Clusters, Created,
         Dispatcher!TryLater, Dispatcher!cluster
    <2> QED
      BY <2>3 DEF Dispatcher!Step
  <1> QED
    BY <1>3, <1>4, <1>5 DEF GiveUpOnWorkers, NoWorkers
-----------------------------------------------------------------------------
(* A try, and the end of a request.                                        *)

LEMMA MapTry ==
    ASSUME TypeOK, NEW r \in Requests,
           BeginChat(r) \/ AddInFlight(r) \/ SendBegin(r) \/ SendEnd(r) \/ RemoveInFlight(r)
    PROVE  Dispatcher!Step(r) \/ UNCHANGED Dispatcher!vars
  <1> USE DEF workerVars, scanVars, Clusters, Created, Dispatcher!cluster
  <1>1. UNCHANGED Clusters
    BY ClusterKept DEF BeginChat, AddInFlight, SendBegin, SendEnd, RemoveInFlight
  <1>2. CASE BeginChat(r)
    <2>1. Dispatcher!Move(r, "idle", "pick")
      BY <1>2, Moves DEF BeginChat, PhaseOf
    <2>2. Dispatcher!Begin(r)
      BY <1>1, <1>2, <2>1 DEF BeginChat, Dispatcher!Begin
    <2> QED
      BY <2>2 DEF Dispatcher!Step
  <1>3. CASE AddInFlight(r)
    <2>1. [q \in Requests |-> PhaseOf(pc[q])]' = [q \in Requests |-> PhaseOf(pc[q])]
      BY <1>3 DEF AddInFlight, Goto, TypeOK, PhaseOf
    <2> QED
      BY <1>1, <1>3, <2>1 DEF AddInFlight, Dispatcher!vars, Dispatcher!requests
  <1>4. CASE SendBegin(r)
    <2>1. Dispatcher!Move(r, "assigned", "calling")
      BY <1>4, Moves DEF SendBegin, PhaseOf
    <2>2. Dispatcher!Call(r)
      BY <1>1, <1>4, <2>1 DEF SendBegin, Dispatcher!Call
    <2> QED
      BY <2>2 DEF Dispatcher!Step
  <1>5. CASE SendEnd(r)
    <2>1. \/ Dispatcher!Move(r, "calling", "answered")
          \/ Dispatcher!Move(r, "calling", "failed")
      BY <1>5, Moves DEF SendEnd, PhaseOf
    <2>2. Dispatcher!Return(r)
      BY <1>1, <1>5, <2>1 DEF SendEnd, Dispatcher!Return
    <2> QED
      BY <2>2 DEF Dispatcher!Step
  <1>6. CASE RemoveInFlight(r) /\ pc[r] = "replied"
    <2>1. [q \in Requests |-> PhaseOf(pc[q])]' = [q \in Requests |-> PhaseOf(pc[q])]
      BY <1>6 DEF RemoveInFlight, Goto, TypeOK, PhaseOf
    <2> QED
      BY <1>1, <1>6, <2>1 DEF RemoveInFlight, Dispatcher!vars, Dispatcher!requests
  <1>7. CASE RemoveInFlight(r) /\ pc[r] = "failed"
    <2>1. NextAttempt(r)
      BY <1>7 DEF RemoveInFlight
    <2>2. Dispatcher!Move(r, "failed", "pick")
      BY <1>7, <2>1, Moves DEF NextAttempt, PhaseOf
    <2>3. Dispatcher!Retry(r)
      BY <1>1, <1>7, <2>1, <2>2 DEF RemoveInFlight, NextAttempt, Dispatcher!Retry
    <2> QED
      BY <2>3 DEF Dispatcher!Step
  <1> QED
    BY <1>2, <1>3, <1>4, <1>5, <1>6, <1>7 DEF RemoveInFlight

LEMMA MapDone ==
    ASSUME TypeOK, UsedCreated, NEW r \in Requests, MarkHealthy(r)
    PROVE  Dispatcher!Step(r)
  <1>1. Dispatcher!Move(r, "answered", "idle")
    BY Moves DEF MarkHealthy, Finish, PhaseOf
  <1>2. on[r] \in Instances /\ life[on[r]] # "new"
    BY DEF MarkHealthy, TypeOK, UsedCreated
  <1>3. life' = [life EXCEPT ![on[r]] = "HEALTHY"] /\ table' = table
    BY DEF MarkHealthy, SetLife
  <1>4. Created' = Created
    BY <1>2, <1>3 DEF Created, TypeOK
  <1>5. Registered' = Registered
    BY <1>3 DEF Registered
  <1>6. Routable' = Routable \cup ({on[r]} \cap Registered)
    BY <1>2, <1>3, <1>5 DEF Routable, Registered, TypeOK
  <1>7. Dispatcher!Done(r)
    BY <1>1, <1>4, <1>5, <1>6
       DEF MarkHealthy, Finish, scanVars, Created, Dispatcher!Done, Dispatcher!Forget
  <1> QED
    BY <1>7 DEF Dispatcher!Step

-----------------------------------------------------------------------------
(* The other actors only change the cluster.                               *)

\* Only a worker that has just been created comes into the pool.
LEMMA PoolStep ==
    ASSUME TypeOK, UNCHANGED vars \/ WorldStep \/ DrainAny \/ HealthStep
    PROVE  Registered' \subseteq Registered \cup (Created' \ Created)
  <1>1. CASE table' = table
    BY <1>1 DEF Registered
  <1>2. ASSUME NEW i \in Instances, Register(i)
        PROVE  Registered' \subseteq Registered \cup (Created' \ Created)
    <2>1. /\ life[i] = "new" /\ life' = [life EXCEPT ![i] = "HEALTHY"]
          /\ table' = [table EXCEPT ![IdOf[i]] = i]
      BY <1>2 DEF Register, SetLife
    <2>2. i \in Created' \ Created
      BY <2>1 DEF Created, TypeOK
    <2>3. Registered' \subseteq Registered \cup {i}
      BY <2>1, IdAssumption DEF Registered, TypeOK
    <2> QED
      BY <2>2, <2>3
  <1>3. ASSUME NEW id \in Ids, RemoveEntry(id)
        PROVE  Registered' \subseteq Registered \cup (Created' \ Created)
    BY <1>3, RemoveEntryFact
  <1>4. CASE UNCHANGED vars
    BY <1>1, <1>4 DEF vars, workerVars
  <1>5. CASE WorldStep
    BY <1>1, <1>2, <1>3, <1>5 DEF WorldStep, Crash, AdminRemove, DestroyContainer,
       DestroyLost, SetStrategy
  <1>6. ASSUME NEW d \in Drainers, ScaleDown(d) \/ AdminDrain(d) \/ DrainStep(d)
        PROVE  Registered' \subseteq Registered \cup (Created' \ Created)
    <2>1. CASE DrainRemove(d)
      <3>1. job[d] \in Instances /\ IdOf[job[d]] \in Ids
        BY <2>1, IdAssumption DEF DrainRemove, EndDrain, TypeOK
      <3> QED
        BY <1>3, <2>1, <3>1 DEF DrainRemove
    <2>2. CASE ~DrainRemove(d)
      BY <1>1, <1>6, <2>2 DEF DrainStep, ScaleDown, AdminDrain, StartDrain, SetDraining,
         DrainIdle, DrainDeadline, SetStopping, Close, SetDead, workerVars
    <2> QED
      BY <2>1, <2>2
  <1>7. CASE HealthStep
    <2>1. CASE RemoveIdleDraining
      BY <1>3, <2>1 DEF RemoveIdleDraining, TypeOK
    <2>2. CASE ~RemoveIdleDraining
      BY <1>1, <1>7, <2>2 DEF HealthStep, CollectIdleDraining, SnapshotHealthy, SkipBusy,
         Ping, ApplyPing, EndOfCheck, workerVars
    <2> QED
      BY <2>1, <2>2
  <1> QED
    BY <1>4, <1>5, <1>6, <1>7 DEF DrainAny

LEMMA MapOthers ==
    ASSUME TypeOK, [Next]_vars, UNCHANGED vars \/ WorldStep \/ DrainAny \/ HealthStep
    PROVE  Dispatcher!Cluster \/ Dispatcher!SetStrategy
  <1>1. UNCHANGED <<pc, on, attempt, how, loads>>
    BY OthersFrame DEF requestVars, scanVars
  <1>2. CASE SetStrategy
    <2>1. UNCHANGED Clusters
      BY <1>2, ClusterKept DEF SetStrategy
    <2>2. strategy' \in Strategies
      BY <1>2 DEF SetStrategy
    <2> QED
      BY <1>1, <2>1, <2>2 DEF Clusters, Created, Dispatcher!SetStrategy,
         Dispatcher!cluster, Dispatcher!requests
  <1>3. CASE strategy' = strategy
    <2>1. Created \subseteq Created' /\ Created' \subseteq Instances
      BY LifeStays DEF Created
    <2>2. Registered' \subseteq Registered \cup (Created' \ Created)
      BY PoolStep
    <2>3. \/ Registered' = Registered
          \/ \A r \in Requests : [q \in Requests |-> PhaseOf(pc[q])][r] # "scan"
      BY TableLocked DEF TableFree, TypeOK, RequestPCs, PhaseOf, Registered
    <2>4. Routable' \subseteq Registered'
      BY DEF Routable
    <2>5. Dispatcher!Cluster
      BY <1>1, <1>3, <2>1, <2>2, <2>3, <2>4
         DEF Created, Dispatcher!Cluster, Dispatcher!requests
    <2> QED
      BY <2>5
  <1>4. SetStrategy \/ strategy' = strategy
    BY DEF WorldStep, Register, Crash, AdminRemove, DestroyContainer, DestroyLost, DrainAny,
       DrainStep, ScaleDown, AdminDrain, StartDrain, SetDraining, DrainIdle, DrainDeadline,
       SetStopping, Close, SetDead, DrainRemove, EndDrain, HealthStep, CollectIdleDraining,
       RemoveIdleDraining, SnapshotHealthy, SkipBusy, Ping, ApplyPing, EndOfCheck, vars,
       workerVars
  <1> QED
    BY <1>2, <1>3, <1>4

LEMMA DispatchInit == Init => Dispatcher!Init
  <1> SUFFICES ASSUME Init
               PROVE  Dispatcher!Init
    OBVIOUS
  <1>1. Registered = {} /\ Routable = {} /\ Created = {}
    BY NoWorkerAssumption, IdAssumption DEF Init, Registered, Routable, Created
  <1>2. [r \in Requests |-> PhaseOf(pc[r])] = [r \in Requests |-> "idle"]
    BY DEF Init, PhaseOf
  <1> QED
    BY <1>1, <1>2 DEF Init, Blank, Created, Dispatcher!Init, Dispatcher!Blank

\* The router implements the dispatcher: for any number of requests, workers and ids,
\* every step of a chat handler, a drain, the health check or the operator is one the
\* dispatcher may take, or changes nothing that it shows.
THEOREM RouterDispatches == Spec => DispatchSpec
  <1>1. ASSUME IInv, [Next]_vars
        PROVE  [Dispatcher!Next]_(Dispatcher!vars)
    <2>1. TypeOK /\ ActiveLedger /\ FoundRegistered /\ UsedCreated
      BY <1>1 DEF IInv
    <2>2. ASSUME NEW r \in Requests, BeginChat(r) \/ RequestStep(r)
          PROVE  Dispatcher!Step(r) \/ UNCHANGED Dispatcher!vars
      BY <2>1, <2>2, MapScan, MapPick, MapNobody, MapTry, MapDone DEF RequestStep
    <2> QED
      BY <1>1, <2>1, <2>2, NextActors, MapOthers DEF ChatAny, Dispatcher!Next
  <1> QED
    BY <1>1, DispatchInit, InductiveInvariant, PTL DEF Spec, DispatchSpec, Dispatcher!Spec
=============================================================================
