--------------------------- MODULE AdmissionProofs ---------------------------
(***************************************************************************)
(* Proofs about Admission, for every number of requests, limit, burst and  *)
(* queue size.  The inductive invariant is the type invariant, the two     *)
(* ledgers and the bound on the slots of free requests.  The last part     *)
(* shows that the controller implements AdmissionService.                  *)
(***************************************************************************)
EXTENDS Admission, FiniteSetTheorems, TLAPS

\* The steps that take a slot, and those that give one back.
Takes(r) == AdmitBurst(r) \/ TryFast(r) \/ TickAdd(r)
Returns(r) == UndoFast(r) \/ TickUndo(r) \/ Release(r)

\* The steps that move a request without touching the concurrency counter.
Moves(r) ==
    \/ Arrive(r) \/ LoadActive(r) \/ SkipFast(r) \/ RejectFull(r)
    \/ PassQueueCheck(r) \/ Enqueue(r) \/ LoadQueueSize(r) \/ PublishEntry(r)
    \/ Tick(r) \/ TickCheck(r) \/ GiveUp(r) \/ Dequeue(r) \/ PublishExit(r)

RequestStep(r) == Takes(r) \/ Returns(r) \/ Moves(r)

FreeAdmitted == {r \in Admitted : tier[r] = "free"}

IInv == TypeOK /\ SlotLedger /\ QueueLedger /\ FreeWithinLimit

-----------------------------------------------------------------------------
\* Next is one of the classes above, by regrouping its disjuncts.
LEMMA NextClasses ==
    ASSUME [Next]_vars
    PROVE  \/ UNCHANGED vars
           \/ UpdateLimits
           \/ \E r \in Requests : RequestStep(r)
  BY DEF Next, AdmitStep, RequestStep, Takes, Returns, Moves, ClientGone, QueueTimeout

\* A limit computed from at most MaxHealthy workers is at most MaxLimit.
LEMMA LimitRange ==
    ASSUME NEW healthy \in 0..MaxHealthy
    PROVE  healthy * PerWorker \in 0..MaxLimit /\ MaxLimit \in Nat
  <1>1. /\ healthy \in Nat /\ MaxHealthy - healthy \in Nat
        /\ PerWorker \in Nat /\ MaxHealthy \in Nat
    BY ParameterAssumption
  <1>2. (MaxHealthy - healthy) * PerWorker \in Nat
    BY <1>1
  <1>3. MaxHealthy * PerWorker = healthy * PerWorker + (MaxHealthy - healthy) * PerWorker
    BY <1>1
  <1> QED
    BY <1>1, <1>2, <1>3 DEF MaxLimit

-----------------------------------------------------------------------------
(* Type correctness.                                                       *)

LEMMA TypeInit == Init => TypeOK
  <1>1. PerWorker \in 0..MaxLimit /\ 0 \in 0..MaxLimit
    <2>1. 1 \in 0..MaxHealthy /\ 1 * PerWorker = PerWorker
      BY ParameterAssumption
    <2> QED
      BY <2>1, LimitRange
  <1> QED
    BY <1>1 DEF Init, TypeOK, PCs, QueuePCs, Tiers

LEMMA TypeStep == TypeOK /\ [Next]_vars => TypeOK'
  <1> SUFFICES ASSUME TypeOK, [Next]_vars
               PROVE  TypeOK'
    OBVIOUS
  <1> USE DEF TypeOK, At, Goto, ForgetLimit, ForgetSeen, LoadLimit, Remember,
              PCs, QueuePCs, LeavingPCs, Tiers
  <1>1. CASE UNCHANGED vars
    BY <1>1 DEF vars
  <1>2. CASE UpdateLimits
    BY <1>2, LimitRange DEF UpdateLimits
  <1>3. ASSUME NEW r \in Requests, RequestStep(r)
        PROVE  TypeOK'
    <2>0. 0 \in 0..MaxLimit
      BY LimitRange, ParameterAssumption
    <2>1. CASE Takes(r)
      BY <2>0, <2>1 DEF Takes, AdmitBurst, TryFast, TickAdd
    <2>2. CASE Returns(r)
      BY <2>2 DEF Returns, UndoFast, TickUndo, Release
    <2>3. CASE Arrive(r) \/ LoadActive(r) \/ SkipFast(r)
      BY <2>0, <2>3 DEF Arrive, LoadActive, SkipFast
    <2>4. CASE RejectFull(r) \/ PassQueueCheck(r) \/ Enqueue(r)
      BY <2>4 DEF RejectFull, PassQueueCheck, Enqueue
    <2>5. CASE LoadQueueSize(r) \/ PublishEntry(r) \/ GiveUp(r)
      BY <2>5 DEF LoadQueueSize, PublishEntry, GiveUp
    <2>6. CASE Tick(r) \/ TickCheck(r)
      BY <2>0, <2>6 DEF Tick, TickCheck
    <2>7. CASE Dequeue(r) \/ PublishExit(r)
      BY <2>7 DEF Dequeue, PublishExit
    <2> QED
      BY <1>3, <2>1, <2>2, <2>3, <2>4, <2>5, <2>6, <2>7 DEF RequestStep, Moves
  <1> QED
    BY <1>1, <1>2, <1>3, NextClasses

\* Every variable of the controller keeps its type, the limits their range, and
\* only requests on their way out of the queue are marked as having won a slot.
THEOREM TypeCorrect == Spec => []TypeOK
  BY TypeInit, TypeStep, PTL DEF Spec

-----------------------------------------------------------------------------
(* The sets the ledgers count are finite, now and after a step.            *)

LEMMA Finite ==
    /\ IsFiniteSet(Owners) /\ IsFiniteSet(Owners')
    /\ IsFiniteSet(Queued) /\ IsFiniteSet(Queued')
    /\ IsFiniteSet(FreeAdmitted) /\ IsFiniteSet(FreeAdmitted')
  <1>1. /\ Owners \in SUBSET Requests /\ Owners' \in SUBSET Requests
        /\ Queued \in SUBSET Requests /\ Queued' \in SUBSET Requests
        /\ FreeAdmitted \in SUBSET Requests /\ FreeAdmitted' \in SUBSET Requests
    BY DEF Owners, Queued, FreeAdmitted, Admitted
  <1> QED
    BY <1>1, RequestsAssumption, FS_Subset

(* The slot ledger: who owns a slot before and after each class of steps.  *)

LEMMA TakesOwner ==
    ASSUME TypeOK, NEW r \in Requests, Takes(r)
    PROVE  r \notin Owners /\ Owners' = Owners \cup {r} /\ active' = active + 1
  <1> USE DEF TypeOK, At, Goto, Owners, Owns, LeavingPCs
  <1>1. CASE AdmitBurst(r)
    BY <1>1 DEF AdmitBurst
  <1>2. CASE TryFast(r)
    BY <1>2 DEF TryFast
  <1>3. CASE TickAdd(r)
    BY <1>3 DEF TickAdd
  <1> QED
    BY <1>1, <1>2, <1>3 DEF Takes

LEMMA ReturnsOwner ==
    ASSUME TypeOK, NEW r \in Requests, Returns(r)
    PROVE  r \in Owners /\ Owners' = Owners \ {r} /\ active' = active - 1
  BY DEF Returns, UndoFast, TickUndo, Release, TypeOK, At, Goto, Owners, Owns,
         LeavingPCs

LEMMA MovesOwner ==
    ASSUME TypeOK, NEW r \in Requests, Moves(r)
    PROVE  Owners' = Owners /\ active' = active
  <1> USE DEF TypeOK, At, Goto, Owners, Owns, LeavingPCs
  <1>1. CASE Arrive(r) \/ LoadActive(r) \/ SkipFast(r) \/ RejectFull(r)
    BY <1>1 DEF Arrive, LoadActive, SkipFast, RejectFull
  <1>2. CASE PassQueueCheck(r) \/ Enqueue(r) \/ LoadQueueSize(r) \/ PublishEntry(r)
    BY <1>2 DEF PassQueueCheck, Enqueue, LoadQueueSize, PublishEntry
  <1>3. CASE Tick(r) \/ TickCheck(r) \/ GiveUp(r) \/ Dequeue(r)
    BY <1>3 DEF Tick, TickCheck, GiveUp, Dequeue
  <1>4. CASE PublishExit(r)
    BY <1>4 DEF PublishExit
  <1> QED
    BY <1>1, <1>2, <1>3, <1>4 DEF Moves

LEMMA SlotStep == TypeOK /\ SlotLedger /\ [Next]_vars => SlotLedger'
  <1> SUFFICES ASSUME TypeOK, SlotLedger, [Next]_vars
               PROVE  active' = Cardinality(Owners')
    BY DEF SlotLedger
  <1>1. active = Cardinality(Owners)
    BY DEF SlotLedger
  <1>2. CASE UNCHANGED vars \/ UpdateLimits
    BY <1>1, <1>2 DEF vars, UpdateLimits, Owners, Owns
  <1>3. ASSUME NEW r \in Requests, RequestStep(r)
        PROVE  active' = Cardinality(Owners')
    <2>1. CASE Takes(r)
      BY <1>1, <2>1, TakesOwner, Finite, FS_AddElement
    <2>2. CASE Returns(r)
      BY <1>1, <2>2, ReturnsOwner, Finite, FS_RemoveElement
    <2>3. CASE Moves(r)
      BY <1>1, <2>3, MovesOwner
    <2> QED
      BY <1>3, <2>1, <2>2, <2>3 DEF RequestStep
  <1> QED
    BY <1>2, <1>3, NextClasses

(* The queue ledger, along the same lines.                                 *)

LEMMA EnqueueQueued ==
    ASSUME TypeOK, NEW r \in Requests, Enqueue(r)
    PROVE  r \notin Queued /\ Queued' = Queued \cup {r} /\ queueSize' = queueSize + 1
  BY DEF Enqueue, TypeOK, At, Goto, Queued, QueuePCs

LEMMA DequeueQueued ==
    ASSUME TypeOK, NEW r \in Requests, Dequeue(r)
    PROVE  r \in Queued /\ Queued' = Queued \ {r} /\ queueSize' = queueSize - 1
  BY DEF Dequeue, TypeOK, At, Goto, Queued, QueuePCs

LEMMA OtherQueued ==
    ASSUME TypeOK, NEW r \in Requests, RequestStep(r), ~Enqueue(r), ~Dequeue(r)
    PROVE  Queued' = Queued /\ queueSize' = queueSize
  <1> USE DEF TypeOK, At, Goto, Queued, QueuePCs
  <1>1. CASE Takes(r)
    BY <1>1 DEF Takes, AdmitBurst, TryFast, TickAdd
  <1>2. CASE Returns(r)
    BY <1>2 DEF Returns, UndoFast, TickUndo, Release
  <1>3. CASE Arrive(r) \/ LoadActive(r) \/ SkipFast(r) \/ RejectFull(r)
    BY <1>3 DEF Arrive, LoadActive, SkipFast, RejectFull
  <1>4. CASE PassQueueCheck(r) \/ LoadQueueSize(r) \/ PublishEntry(r)
    BY <1>4 DEF PassQueueCheck, LoadQueueSize, PublishEntry
  <1>5. CASE Tick(r) \/ TickCheck(r) \/ GiveUp(r) \/ PublishExit(r)
    BY <1>5 DEF Tick, TickCheck, GiveUp, PublishExit
  <1> QED
    BY <1>1, <1>2, <1>3, <1>4, <1>5 DEF RequestStep, Moves

LEMMA QueueStep == TypeOK /\ QueueLedger /\ [Next]_vars => QueueLedger'
  <1> SUFFICES ASSUME TypeOK, QueueLedger, [Next]_vars
               PROVE  queueSize' = Cardinality(Queued')
    BY DEF QueueLedger
  <1>1. queueSize = Cardinality(Queued)
    BY DEF QueueLedger
  <1>2. CASE UNCHANGED vars \/ UpdateLimits
    BY <1>1, <1>2 DEF vars, UpdateLimits, Queued
  <1>3. ASSUME NEW r \in Requests, RequestStep(r)
        PROVE  queueSize' = Cardinality(Queued')
    <2>1. CASE Enqueue(r)
      BY <1>1, <2>1, EnqueueQueued, Finite, FS_AddElement
    <2>2. CASE Dequeue(r)
      BY <1>1, <2>2, DequeueQueued, Finite, FS_RemoveElement
    <2>3. CASE ~Enqueue(r) /\ ~Dequeue(r)
      BY <1>1, <1>3, <2>3, OtherQueued
    <2> QED
      BY <2>1, <2>2, <2>3
  <1> QED
    BY <1>2, <1>3, NextClasses

(* The slots of free requests.  A step that admits a free request has just *)
(* compared the counter with a limit; any other step admits none.          *)

LEMMA FreeAdmission ==
    ASSUME TypeOK, NEW r \in Requests, RequestStep(r)
    PROVE  FreeAdmitted' \subseteq FreeAdmitted \/ active' <= MaxLimit
  <1> USE DEF TypeOK, At, Goto, FreeAdmitted, Admitted, LeavingPCs
  <1>0. MaxLimit \in Nat
    BY LimitRange, ParameterAssumption
  <1>1. CASE AdmitBurst(r)
    BY <1>1 DEF AdmitBurst, HasBurst
  <1>2. CASE TryFast(r) \/ TickAdd(r)
    <2>1. CASE WithinLimit(r)
      <3>1. active' = active + 1 /\ active + 1 <= limit[r] /\ limit[r] \in 0..MaxLimit
        BY <1>2, <2>1 DEF TryFast, TickAdd, WithinLimit
      <3> QED
        BY <1>0, <3>1
    <2>2. CASE ~WithinLimit(r)
      BY <1>2, <2>2 DEF TryFast, TickAdd
    <2> QED
      BY <2>1, <2>2
  <1>3. CASE Returns(r)
    BY <1>3 DEF Returns, UndoFast, TickUndo, Release
  <1>4. CASE Arrive(r) \/ LoadActive(r) \/ SkipFast(r) \/ RejectFull(r)
    BY <1>4 DEF Arrive, LoadActive, SkipFast, RejectFull
  <1>5. CASE PassQueueCheck(r) \/ Enqueue(r) \/ LoadQueueSize(r) \/ PublishEntry(r)
    BY <1>5 DEF PassQueueCheck, Enqueue, LoadQueueSize, PublishEntry
  <1>6. CASE Tick(r) \/ TickCheck(r) \/ GiveUp(r) \/ Dequeue(r)
    BY <1>6 DEF Tick, TickCheck, GiveUp, Dequeue
  <1>7. CASE PublishExit(r)
    BY <1>7 DEF PublishExit
  <1> QED
    BY <1>1, <1>2, <1>3, <1>4, <1>5, <1>6, <1>7 DEF RequestStep, Takes, Moves

LEMMA FreeStep == TypeOK /\ SlotLedger /\ FreeWithinLimit /\ [Next]_vars => FreeWithinLimit'
  <1> SUFFICES ASSUME TypeOK, SlotLedger, FreeWithinLimit, [Next]_vars
               PROVE  Cardinality(FreeAdmitted') <= MaxLimit
    BY DEF FreeWithinLimit, FreeAdmitted
  <1>1. Cardinality(FreeAdmitted) <= MaxLimit /\ MaxLimit \in Nat
    BY LimitRange, ParameterAssumption DEF FreeWithinLimit, FreeAdmitted
  <1>2. ASSUME FreeAdmitted' \subseteq FreeAdmitted
        PROVE  Cardinality(FreeAdmitted') <= MaxLimit
    <2>1. /\ Cardinality(FreeAdmitted') <= Cardinality(FreeAdmitted)
          /\ Cardinality(FreeAdmitted) \in Nat /\ Cardinality(FreeAdmitted') \in Nat
      BY <1>2, Finite, FS_Subset, FS_CardinalityType
    <2> QED
      BY <1>1, <2>1
  <1>3. ASSUME active' <= MaxLimit
        PROVE  Cardinality(FreeAdmitted') <= MaxLimit
    <2>1. FreeAdmitted' \subseteq Owners'
      BY DEF FreeAdmitted, Admitted, Owners, Owns, At
    <2>2. /\ Cardinality(FreeAdmitted') <= Cardinality(Owners')
          /\ Cardinality(Owners') \in Nat /\ Cardinality(FreeAdmitted') \in Nat
      BY <2>1, Finite, FS_Subset, FS_CardinalityType
    <2>3. active' = Cardinality(Owners')
      BY SlotStep DEF SlotLedger
    <2> QED
      BY <1>1, <1>3, <2>2, <2>3
  <1>4. CASE UNCHANGED vars \/ UpdateLimits
    BY <1>2, <1>4 DEF vars, UpdateLimits, FreeAdmitted, Admitted, At
  <1>5. ASSUME NEW r \in Requests, RequestStep(r)
        PROVE  Cardinality(FreeAdmitted') <= MaxLimit
    BY <1>2, <1>3, <1>5, FreeAdmission
  <1> QED
    BY <1>4, <1>5, NextClasses

-----------------------------------------------------------------------------
LEMMA IInvInit == Init => IInv
  <1> SUFFICES ASSUME Init
               PROVE  IInv
    OBVIOUS
  <1>1. Owners = {} /\ Queued = {} /\ FreeAdmitted = {}
    BY DEF Init, Owners, Owns, Queued, QueuePCs, FreeAdmitted, Admitted, At
  <1>2. active = 0 /\ queueSize = 0 /\ MaxLimit \in Nat
    BY LimitRange, ParameterAssumption DEF Init
  <1> QED
    BY <1>1, <1>2, TypeInit, FS_EmptySet
       DEF IInv, SlotLedger, QueueLedger, FreeWithinLimit, FreeAdmitted

LEMMA InductiveInvariant == Spec => []IInv
  <1>1. IInv /\ [Next]_vars => IInv'
    BY TypeStep, SlotStep, QueueStep, FreeStep DEF IInv
  <1> QED
    BY <1>1, IInvInit, PTL DEF Spec

\* The concurrency counter always equals the number of requests that will give
\* a slot back: none of the return paths of Admit leaks or doubles a slot.
THEOREM SlotsAccounted == Spec => []SlotLedger
  <1>1. IInv => SlotLedger
    BY DEF IInv
  <1> QED
    BY <1>1, InductiveInvariant, PTL

\* The queue counter always equals the number of requests in the queue, whichever
\* of the three ways they leave it.
THEOREM QueueAccounted == Spec => []QueueLedger
  <1>1. IInv => QueueLedger
    BY DEF IInv
  <1> QED
    BY <1>1, InductiveInvariant, PTL

\* Free requests never hold more slots than the largest limit, however many
\* elite and pro requests burst past it and however stale the limits compared.
THEOREM FreeBounded == Spec => []FreeWithinLimit
  <1>1. IInv => FreeWithinLimit
    BY DEF IInv
  <1> QED
    BY <1>1, InductiveInvariant, PTL

\* When every request has left Admit and its handler, both counters are back to
\* zero: a burst leaves nothing behind that would shrink the limit for later ones.
THEOREM QuiescentIsEmpty ==
    Spec => []((\A r \in Requests : At(r, "idle")) => active = 0 /\ queueSize = 0)
  <1>1. IInv => ((\A r \in Requests : At(r, "idle")) => active = 0 /\ queueSize = 0)
    <2> SUFFICES ASSUME IInv, \A r \in Requests : At(r, "idle")
                 PROVE  active = 0 /\ queueSize = 0
      OBVIOUS
    <2>1. Owners = {} /\ Queued = {}
      BY DEF IInv, TypeOK, Owners, Owns, Queued, QueuePCs, LeavingPCs, At
    <2> QED
      BY <2>1, FS_EmptySet DEF IInv, SlotLedger, QueueLedger
  <1> QED
    BY <1>1, InductiveInvariant, PTL

-----------------------------------------------------------------------------
(* Refinement: Admission implements AdmissionService.  A step of a request  *)
(* changes the sets of the mapping at that request only, so each step is    *)
(* matched by where it finds the request and where it leaves it.            *)

Asking == {r \in Requests : pc[r] \in {"loadActive", "decide", "fastUndo", "checkQueue"}}
Looked == {r \in Requests : At(r, "decide") /\ HasBurst(r)}
Cleared == {r \in Requests : At(r, "enqueue")}

\* After a step of r a set either holds r or not, and is as before otherwise.
Update(set, new, r) ==
    \/ r \in new /\ new = set \cup {r}
    \/ r \notin new /\ new = set \ {r}

LEMMA OthersKept ==
    ASSUME TypeOK, NEW r \in Requests, RequestStep(r), NEW q \in Requests, q # r
    PROVE  /\ pc'[q] = pc[q] /\ tier'[q] = tier[q] /\ limit'[q] = limit[q]
           /\ seen'[q] = seen[q] /\ (q \in won' <=> q \in won)
  <1> USE DEF TypeOK, Goto, ForgetLimit, ForgetSeen, LoadLimit, Remember
  <1>1. CASE Takes(r)
    BY <1>1 DEF Takes, AdmitBurst, TryFast, TickAdd
  <1>2. CASE Returns(r)
    BY <1>2 DEF Returns, UndoFast, TickUndo, Release
  <1>3. CASE Arrive(r) \/ LoadActive(r) \/ SkipFast(r) \/ RejectFull(r)
    BY <1>3 DEF Arrive, LoadActive, SkipFast, RejectFull
  <1>4. CASE PassQueueCheck(r) \/ Enqueue(r) \/ LoadQueueSize(r) \/ PublishEntry(r)
    BY <1>4 DEF PassQueueCheck, Enqueue, LoadQueueSize, PublishEntry
  <1>5. CASE Tick(r) \/ TickCheck(r) \/ GiveUp(r) \/ Dequeue(r)
    BY <1>5 DEF Tick, TickCheck, GiveUp, Dequeue
  <1>6. CASE PublishExit(r)
    BY <1>6 DEF PublishExit
  <1> QED
    BY <1>1, <1>2, <1>3, <1>4, <1>5, <1>6 DEF RequestStep, Moves

LEMMA SetsUpdate ==
    ASSUME TypeOK, NEW r \in Requests, RequestStep(r)
    PROVE  /\ Update(Asking, Asking', r) /\ Update(Looked, Looked', r)
           /\ Update(Cleared, Cleared', r) /\ Update(Queued, Queued', r)
           /\ Update(Admitted, Admitted', r)
  <1> USE OthersKept
  <1>1. Update(Asking, Asking', r)
    BY DEF Update, Asking
  <1>2. Update(Looked, Looked', r)
    BY DEF Update, Looked, HasBurst, At
  <1>3. Update(Cleared, Cleared', r)
    BY DEF Update, Cleared, At
  <1>4. Update(Queued, Queued', r)
    BY DEF Update, Queued
  <1>5. Update(Admitted, Admitted', r)
    BY DEF Update, Admitted, At, TypeOK
  <1> QED
    BY <1>1, <1>2, <1>3, <1>4, <1>5

\* The module that is instantiated counts with its own copy of Cardinality.
LEMMA SameCount == ASSUME NEW S PROVE Service!Cardinality(S) = Cardinality(S)
  BY DEF Cardinality, Service!Cardinality

\* The slots in use are at most what the counter says.
LEMMA InUseWithinActive ==
    ASSUME SlotLedger
    PROVE  Service!InUse \in Nat /\ Service!InUse <= active /\ active \in Nat
  <1>1. Admitted \subseteq Owners
    BY DEF Admitted, Owners, Owns, At
  <1>2. /\ Cardinality(Admitted) <= Cardinality(Owners)
        /\ Cardinality(Admitted) \in Nat /\ Cardinality(Owners) \in Nat
    BY <1>1, Finite, FS_Subset, FS_CardinalityType
  <1> QED
    BY <1>2, SameCount DEF SlotLedger, Service!InUse

LEMMA MapArrive ==
    ASSUME TypeOK, NEW r \in Requests, Arrive(r)
    PROVE  Service!Ask(r)
  <1>1. RequestStep(r)
    BY DEF RequestStep, Moves
  <1>2. r \notin Asking \cup Cleared \cup Queued \cup Admitted
    BY DEF Arrive, Asking, Cleared, Queued, QueuePCs, Admitted, At, TypeOK, LeavingPCs
  <1>3. r \in Asking' /\ r \notin Looked' \cup Cleared' \cup Queued' \cup Admitted'
    BY DEF Arrive, Asking, Cleared, Looked, Queued, QueuePCs, Admitted, At, Goto, TypeOK, LeavingPCs
  <1>4. r \notin Looked
    BY DEF Arrive, Looked, At
  <1>5. /\ Asking' = Asking \cup {r} /\ Looked' = Looked /\ Cleared' = Cleared
        /\ Queued' = Queued /\ Admitted' = Admitted
    BY <1>1, <1>2, <1>3, <1>4, SetsUpdate DEF Update
  <1> QED
    BY <1>2, <1>5 DEF Arrive, LoadLimit, Service!Ask, Service!Goes, Asking, Looked, Cleared

LEMMA MapLoadActive ==
    ASSUME TypeOK, SlotLedger, NEW r \in Requests, LoadActive(r)
    PROVE  Service!Look(r) \/ UNCHANGED Service!vars
  <1>1. RequestStep(r)
    BY DEF RequestStep, Moves
  <1>2. /\ r \in Asking /\ r \in Asking'
        /\ r \notin Looked \cup Cleared \cup Queued \cup Admitted
        /\ r \notin Cleared' \cup Queued' \cup Admitted'
    BY DEF LoadActive, Asking, Looked, Cleared, Queued, QueuePCs, Admitted, At, Goto,
           TypeOK, LeavingPCs
  <1>3. /\ Asking' = Asking /\ Cleared' = Cleared /\ Queued' = Queued /\ Admitted' = Admitted
        /\ maxActive' = maxActive /\ tier' = tier /\ limit' = limit
    BY <1>1, <1>2, SetsUpdate DEF Update, LoadActive
  <1>4. CASE r \in Looked'
    <2>1. Looked' = Looked \cup {r}
      BY <1>1, <1>4, SetsUpdate DEF Update
    <2>2. tier[r] # "free" /\ active < limit[r] + BurstSlots[tier[r]]
      BY <1>4 DEF LoadActive, Looked, HasBurst, Remember, TypeOK
    <2>3. limit[r] \in Int /\ BurstSlots[tier[r]] \in Int
      BY LimitRange, ParameterAssumption DEF TypeOK, BurstSlots, Tiers
    <2>4. Service!InUse < limit[r] + BurstSlots[tier[r]]
      BY <2>2, <2>3, InUseWithinActive
    <2> QED
      BY <1>2, <1>3, <2>1, <2>2, <2>4 DEF Service!Look, Asking, Looked, Cleared
  <1>5. CASE r \notin Looked'
    <2>1. Looked' = Looked
      BY <1>1, <1>2, <1>5, SetsUpdate DEF Update
    <2> QED
      BY <1>3, <2>1 DEF Service!vars, Asking, Looked, Cleared
  <1> QED
    BY <1>4, <1>5

\* The two ways to a slot without waiting: the burst on an earlier count, the fast
\* path on the increment that came back within the limit.
LEMMA MapGrant ==
    ASSUME TypeOK, SlotLedger, NEW r \in Requests,
           AdmitBurst(r) \/ (TryFast(r) /\ WithinLimit(r) /\ Goto(r, "holding"))
    PROVE  Service!Grant(r)
  <1>1. RequestStep(r)
    BY DEF RequestStep, Takes
  <1>2. /\ r \in Asking /\ r \notin Asking' \cup Looked' \cup Cleared' \cup Queued'
        /\ r \notin Cleared \cup Queued /\ r \in Admitted'
    BY DEF AdmitBurst, TryFast, Asking, Looked, Cleared, Queued, QueuePCs, Admitted, At,
           Goto, TypeOK
  <1>3. /\ Asking' = Asking \ {r} /\ Looked' = Looked \ {r} /\ Cleared' = Cleared
        /\ Queued' = Queued /\ Admitted' = Admitted \cup {r}
    BY <1>1, <1>2, SetsUpdate DEF Update
  <1>4. r \in Looked \/ Service!InUse < limit[r]
    <2>1. CASE AdmitBurst(r)
      BY <2>1 DEF AdmitBurst, Looked
    <2>2. CASE WithinLimit(r)
      <3>1. limit[r] \in Int /\ active + 1 <= limit[r]
        BY <2>2, LimitRange, ParameterAssumption DEF TypeOK, WithinLimit
      <3> QED
        BY <3>1, InUseWithinActive
    <2> QED
      BY <2>1, <2>2
  <1>5. maxActive' = maxActive /\ tier' = tier /\ limit' = [limit EXCEPT ![r] = 0]
    BY DEF AdmitBurst, TryFast, ForgetLimit
  <1> QED
    BY <1>2, <1>3, <1>4, <1>5 DEF Service!Grant, Service!Goes, Asking, Looked, Cleared

\* The steps after which the request goes by no limit any more and is still where it was.
LEMMA MapForget ==
    ASSUME TypeOK, NEW r \in Requests,
           \/ TryFast(r) /\ Goto(r, "fastUndo")
           \/ SkipFast(r)
           \/ TickCheck(r) /\ Goto(r, "waiting") /\ ForgetLimit(r)
           \/ TickAdd(r) /\ Goto(r, "tickUndo") /\ UNCHANGED won
    PROVE  Service!Forget(r)
  <1> DEFINE InFast == (TryFast(r) /\ Goto(r, "fastUndo")) \/ SkipFast(r)
             InTick == \/ TickCheck(r) /\ Goto(r, "waiting")
                       \/ TickAdd(r) /\ Goto(r, "tickUndo") /\ UNCHANGED won
  <1>1. RequestStep(r)
    BY DEF RequestStep, Takes, Moves
  <1>2. /\ r \in (Asking \cup Queued) \ Looked /\ r \notin Looked'
        /\ r \in Asking <=> r \in Asking'
        /\ r \in Queued <=> r \in Queued'
        /\ r \notin Cleared \cup Cleared' \cup Admitted \cup Admitted'
    <2>1. CASE InFast
      BY <2>1 DEF TryFast, SkipFast, Asking, Looked, Cleared, Queued, QueuePCs, Admitted,
             At, Goto, TypeOK, LeavingPCs
    <2>2. CASE InTick
      BY <2>2 DEF TickCheck, TickAdd, Asking, Looked, Cleared, Queued, QueuePCs, Admitted,
             At, Goto, TypeOK, LeavingPCs
    <2> QED
      BY <2>1, <2>2
  <1>3. /\ Asking' = Asking /\ Looked' = Looked /\ Cleared' = Cleared
        /\ Queued' = Queued /\ Admitted' = Admitted
    BY <1>1, <1>2, SetsUpdate DEF Update
  <1>4. maxActive' = maxActive /\ tier' = tier /\ limit' = [limit EXCEPT ![r] = 0]
    BY DEF TryFast, SkipFast, TickCheck, TickAdd, ForgetLimit
  <1> QED
    BY <1>2, <1>3, <1>4 DEF Service!Forget, Service!Goes, Asking, Looked, Cleared

\* The queue check and the entry into the queue, two steps apart.
LEMMA MapQueue ==
    ASSUME TypeOK, QueueLedger, NEW r \in Requests
    PROVE  /\ RejectFull(r) => Service!Refuse(r)
           /\ PassQueueCheck(r) => Service!Clear(r)
           /\ Enqueue(r) => Service!Wait(r)
  <1> USE DEF At, Goto, TypeOK, LeavingPCs, QueuePCs, Asking, Looked, Cleared, Queued, Admitted
  <1>0. RejectFull(r) \/ PassQueueCheck(r) \/ Enqueue(r) => RequestStep(r)
    BY DEF RequestStep, Moves
  <1>1. ASSUME RejectFull(r) PROVE Service!Refuse(r)
    <2>1. /\ r \in Asking \ Looked
          /\ r \notin Asking' \cup Looked' \cup Cleared \cup Cleared'
          /\ r \notin Queued \cup Queued' \cup Admitted \cup Admitted'
      BY <1>1 DEF RejectFull
    <2>2. Service!Cardinality(Queued) >= MaxQueueSize
      BY <1>1, SameCount DEF RejectFull, QueueLedger
    <2>3. /\ Asking' = Asking \ {r} /\ Looked' = Looked /\ Cleared' = Cleared
          /\ Queued' = Queued /\ Admitted' = Admitted
      BY <1>0, <1>1, <2>1, SetsUpdate DEF Update
    <2> QED
      BY <1>1, <2>1, <2>2, <2>3 DEF RejectFull, Service!Refuse
  <1>2. ASSUME PassQueueCheck(r) PROVE Service!Clear(r)
    <2>1. /\ r \in Asking \ Looked /\ r \notin Asking' \cup Looked' \cup Cleared
          /\ r \in Cleared' /\ r \notin Queued \cup Queued' \cup Admitted \cup Admitted'
      BY <1>2 DEF PassQueueCheck
    <2>2. Service!Cardinality(Queued) < MaxQueueSize
      BY <1>2, SameCount DEF PassQueueCheck, QueueLedger
    <2>3. /\ Asking' = Asking \ {r} /\ Looked' = Looked /\ Cleared' = Cleared \cup {r}
          /\ Queued' = Queued /\ Admitted' = Admitted
      BY <1>0, <1>2, <2>1, SetsUpdate DEF Update
    <2> QED
      BY <1>2, <2>1, <2>2, <2>3 DEF PassQueueCheck, Service!Clear
  <1>3. ASSUME Enqueue(r) PROVE Service!Wait(r)
    <2>1. /\ r \in Cleared /\ r \notin Cleared' /\ r \in Queued'
          /\ r \notin Asking \cup Asking' \cup Looked \cup Looked' \cup Admitted \cup Admitted'
      BY <1>3 DEF Enqueue
    <2>2. /\ Asking' = Asking /\ Looked' = Looked /\ Cleared' = Cleared \ {r}
          /\ Queued' = Queued \cup {r} /\ Admitted' = Admitted
      BY <1>0, <1>3, <2>1, SetsUpdate DEF Update
    <2> QED
      BY <1>3, <2>1, <2>2 DEF Enqueue, Service!Wait
  <1> QED
    BY <1>1, <1>2, <1>3

LEMMA MapTick ==
    ASSUME TypeOK, NEW r \in Requests, Tick(r)
    PROVE  Service!Renew(r)
  <1>1. RequestStep(r)
    BY DEF RequestStep, Moves
  <1>2. /\ r \in Queued /\ r \in Queued' /\ r \notin Admitted \cup Admitted'
        /\ r \notin Asking \cup Asking' \cup Looked \cup Looked' \cup Cleared \cup Cleared'
    BY DEF Tick, Asking, Looked, Cleared, Queued, QueuePCs, Admitted, At, Goto, TypeOK,
           LeavingPCs
  <1>3. /\ Asking' = Asking /\ Looked' = Looked /\ Cleared' = Cleared
        /\ Queued' = Queued /\ Admitted' = Admitted
    BY <1>1, <1>2, SetsUpdate DEF Update
  <1> QED
    BY <1>2, <1>3 DEF Tick, LoadLimit, Service!Renew, Service!Goes, Asking, Looked, Cleared

LEMMA MapTickAdd ==
    ASSUME TypeOK, SlotLedger, NEW r \in Requests,
           TickAdd(r), WithinLimit(r), Goto(r, "dequeue"), won' = won \cup {r}
    PROVE  Service!GrantWaiting(r)
  <1>1. RequestStep(r)
    BY DEF RequestStep, Takes
  <1>2. /\ r \in Queued \ Admitted /\ r \in Queued' /\ r \in Admitted'
        /\ r \notin Asking \cup Asking' \cup Looked \cup Looked' \cup Cleared \cup Cleared'
    BY DEF TickAdd, Asking, Looked, Cleared, Queued, QueuePCs, Admitted, At, Goto, TypeOK,
           LeavingPCs
  <1>3. /\ Asking' = Asking /\ Looked' = Looked /\ Cleared' = Cleared
        /\ Queued' = Queued /\ Admitted' = Admitted \cup {r}
    BY <1>1, <1>2, SetsUpdate DEF Update
  <1>4. Service!InUse < limit[r]
    <2>1. limit[r] \in Int /\ active + 1 <= limit[r]
      BY LimitRange, ParameterAssumption DEF TypeOK, WithinLimit
    <2> QED
      BY <2>1, InUseWithinActive
  <1>5. maxActive' = maxActive /\ tier' = tier /\ limit' = [limit EXCEPT ![r] = 0]
    BY DEF TickAdd, ForgetLimit
  <1> QED
    BY <1>2, <1>3, <1>4, <1>5 DEF Service!GrantWaiting, Service!Goes, Asking, Looked, Cleared

LEMMA MapDequeue ==
    ASSUME TypeOK, NEW r \in Requests, Dequeue(r)
    PROVE  Service!Leave(r)
  <1>1. RequestStep(r)
    BY DEF RequestStep, Moves
  <1>2. /\ r \in Queued /\ r \notin Queued'
        /\ r \in Admitted <=> r \in Admitted'
        /\ r \notin Asking \cup Asking' \cup Looked \cup Looked' \cup Cleared \cup Cleared'
    BY DEF Dequeue, Asking, Looked, Cleared, Queued, QueuePCs, Admitted, At, Goto, TypeOK
  <1>3. /\ Asking' = Asking /\ Looked' = Looked /\ Cleared' = Cleared
        /\ Queued' = Queued \ {r} /\ Admitted' = Admitted
    BY <1>1, <1>2, SetsUpdate DEF Update
  <1> QED
    BY <1>2, <1>3 DEF Dequeue, Service!Leave, Asking, Looked, Cleared

LEMMA MapRelease ==
    ASSUME TypeOK, NEW r \in Requests, Release(r)
    PROVE  Service!Release(r)
  <1>1. RequestStep(r)
    BY DEF RequestStep, Returns
  <1>2. /\ r \in Admitted \ Queued /\ r \notin Queued' \cup Admitted'
        /\ r \notin Asking \cup Asking' \cup Looked \cup Looked' \cup Cleared \cup Cleared'
    BY DEF Release, Asking, Looked, Cleared, Queued, QueuePCs, Admitted, At, Goto, TypeOK,
           LeavingPCs
  <1>3. /\ Asking' = Asking /\ Looked' = Looked /\ Cleared' = Cleared
        /\ Queued' = Queued /\ Admitted' = Admitted \ {r}
    BY <1>1, <1>2, SetsUpdate DEF Update
  <1> QED
    BY <1>2, <1>3 DEF Release, Service!Release, Asking, Looked, Cleared

\* What happens behind the controller's promise: undoing an overshoot, publishing the
\* queue length, giving up the wait.
Hidden(r) ==
    \/ UndoFast(r) \/ TickUndo(r) \/ LoadQueueSize(r) \/ PublishEntry(r) \/ GiveUp(r)
    \/ PublishExit(r)
    \/ TickCheck(r) /\ Goto(r, "tickAdd") /\ UNCHANGED limit

LEMMA MapHidden ==
    ASSUME TypeOK, NEW r \in Requests, Hidden(r)
    PROVE  UNCHANGED Service!vars
  <1>1. RequestStep(r)
    BY DEF Hidden, RequestStep, Returns, Moves
  <1>2. /\ r \in Asking <=> r \in Asking'
        /\ r \notin Looked \cup Looked' \cup Cleared \cup Cleared'
        /\ r \in Queued <=> r \in Queued'
        /\ r \in Admitted <=> r \in Admitted'
    <2> USE DEF Asking, Looked, Cleared, Queued, QueuePCs, Admitted, At, Goto, TypeOK, LeavingPCs
    <2>1. CASE UndoFast(r) \/ TickUndo(r) \/ GiveUp(r)
      BY <2>1 DEF UndoFast, TickUndo, GiveUp
    <2>2. CASE LoadQueueSize(r) \/ PublishEntry(r)
      BY <2>2 DEF LoadQueueSize, PublishEntry
    <2>3. CASE PublishExit(r)
      BY <2>3 DEF PublishExit
    <2>4. CASE TickCheck(r) /\ Goto(r, "tickAdd") /\ UNCHANGED limit
      BY <2>4 DEF TickCheck
    <2> QED
      BY <2>1, <2>2, <2>3, <2>4 DEF Hidden
  <1>3. /\ Asking' = Asking /\ Looked' = Looked /\ Cleared' = Cleared
        /\ Queued' = Queued /\ Admitted' = Admitted
    BY <1>1, <1>2, SetsUpdate DEF Update
  <1>4. maxActive' = maxActive /\ tier' = tier /\ limit' = limit
    BY DEF Hidden, UndoFast, TickUndo, LoadQueueSize, PublishEntry, GiveUp, PublishExit, TickCheck
  <1> QED
    BY <1>3, <1>4 DEF Service!vars, Asking, Looked, Cleared

\* The steps that look at a counter and go on in one of two ways, each its own case.
LEMMA Branches ==
    ASSUME NEW r \in Requests
    PROVE  /\ TryFast(r) => \/ TryFast(r) /\ WithinLimit(r) /\ Goto(r, "holding")
                            \/ TryFast(r) /\ Goto(r, "fastUndo")
           /\ TickAdd(r) => \/ TickAdd(r) /\ WithinLimit(r) /\ Goto(r, "dequeue") /\ won' = won \cup {r}
                            \/ TickAdd(r) /\ Goto(r, "tickUndo") /\ UNCHANGED won
           /\ TickCheck(r) => \/ TickCheck(r) /\ Goto(r, "tickAdd") /\ UNCHANGED limit
                              \/ TickCheck(r) /\ Goto(r, "waiting") /\ ForgetLimit(r)
  BY DEF TryFast, TickAdd, TickCheck

LEMMA MapRequestStep ==
    ASSUME IInv, NEW r \in Requests, RequestStep(r)
    PROVE  Service!Step(r) \/ UNCHANGED Service!vars
  <1> USE DEF IInv, Service!Step
  <1>1. CASE Arrive(r) \/ LoadActive(r) \/ AdmitBurst(r)
    BY <1>1, MapArrive, MapLoadActive, MapGrant
  <1>2. CASE TryFast(r)
    BY <1>2, MapGrant, MapForget, Branches
  <1>3. CASE SkipFast(r)
    BY <1>3, MapForget
  <1>4. CASE RejectFull(r) \/ PassQueueCheck(r) \/ Enqueue(r)
    BY <1>4, MapQueue
  <1>5. CASE Tick(r) \/ Dequeue(r) \/ Release(r)
    BY <1>5, MapTick, MapDequeue, MapRelease
  <1>6. CASE TickCheck(r)
    BY <1>6, MapForget, MapHidden, Branches DEF Hidden
  <1>7. CASE TickAdd(r)
    BY <1>7, MapTickAdd, MapForget, Branches
  <1>8. CASE UndoFast(r) \/ TickUndo(r) \/ LoadQueueSize(r) \/ PublishEntry(r) \/ GiveUp(r) \/ PublishExit(r)
    <2>1. Hidden(r)
      BY <1>8 DEF Hidden
    <2> QED
      BY <2>1, MapHidden
  <1> QED
    BY <1>1, <1>2, <1>3, <1>4, <1>5, <1>6, <1>7, <1>8 DEF RequestStep, Takes, Returns, Moves

LEMMA MapStep == IInv /\ [Next]_vars => [Service!Next]_(Service!vars)
  <1> SUFFICES ASSUME IInv, [Next]_vars
               PROVE  [Service!Next]_(Service!vars)
    OBVIOUS
  <1>1. CASE UNCHANGED vars
    BY <1>1 DEF vars, Service!vars, At, HasBurst, Queued, Admitted
  <1>2. CASE UpdateLimits
    <2>1. Service!SetCapacity
      BY <1>2 DEF UpdateLimits, Service!SetCapacity, At, HasBurst, Queued, Admitted
    <2> QED
      BY <2>1 DEF Service!Next
  <1>3. ASSUME NEW r \in Requests, RequestStep(r)
        PROVE  [Service!Next]_(Service!vars)
    BY <1>3, MapRequestStep DEF Service!Next
  <1> QED
    BY <1>1, <1>2, <1>3, NextClasses

LEMMA MapInit == Init => Service!Init
  <1> SUFFICES ASSUME Init
               PROVE  Service!Init
    OBVIOUS
  <1>1. Asking = {} /\ Looked = {} /\ Cleared = {} /\ Queued = {} /\ Admitted = {}
    BY DEF Init, Asking, Looked, Cleared, Queued, QueuePCs, Admitted, At
  <1>2. 1 \in 0..MaxHealthy /\ PerWorker = 1 * PerWorker
    BY ParameterAssumption
  <1>3. PerWorker \in {healthy * PerWorker : healthy \in 0..MaxHealthy}
    BY <1>2
  <1> QED
    BY <1>1, <1>3 DEF Init, Service!Init, Asking, Looked, Cleared, Tiers

\* Admit, with its counters read and written one step at a time, keeps the controller's
\* promise whatever the number of requests: no slot is granted but against the slots in
\* use and a limit in force during the call, or on a burst seen during it; a request is
\* refused only while the queue is full; nobody is granted two slots or queued twice.
THEOREM AdmissionRefines == Spec => ServiceSpec
  <1>1. IInv /\ [Next]_vars => [Service!Next]_(Service!vars)
    BY MapStep
  <1>2. Init => Service!Init
    BY MapInit
  <1> QED
    BY <1>1, <1>2, InductiveInvariant, PTL DEF Spec, ServiceSpec, Service!Spec
=============================================================================
