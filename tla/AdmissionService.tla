-------------------------- MODULE AdmissionService --------------------------
(***************************************************************************)
(* What the admission controller promises its callers, without counters,   *)
(* undo steps or tickers.  A slot is granted against the slots really in   *)
(* use at that moment and a limit that was in force during the call; a     *)
(* burst is granted on a count taken earlier in the call; a request is     *)
(* refused only while the queue is full, and queues on a look at the queue *)
(* that may have aged by the time it joins.                                *)
(***************************************************************************)
EXTENDS Naturals, FiniteSets

CONSTANTS
    Requests, Tiers,
    Burst,       \* slots beyond the limit, by tier
    Capacities,  \* the limits that may be in force
    QueueSize    \* the queue is full from this length on

VARIABLES
    capacity,  \* the limit in force
    tier,      \* the tier of each request
    known,     \* the limit a request goes by, 0 while it goes by none
    asking,    \* requests neither admitted, nor refused, nor queued yet
    looked,    \* asking requests that saw room for a burst
    cleared,   \* requests that saw room in the queue
    queue,     \* requests in the queue
    slots      \* requests that were granted a slot

Init ==
    /\ capacity \in Capacities
    /\ tier \in [Requests -> Tiers]
    /\ known = [r \in Requests |-> 0]
    /\ asking = {} /\ looked = {} /\ cleared = {} /\ queue = {} /\ slots = {}

InUse == Cardinality(slots)
Goes(r, value) == known' = [known EXCEPT ![r] = value]

SetCapacity ==
    /\ capacity' \in Capacities
    /\ UNCHANGED <<tier, known, asking, looked, cleared, queue, slots>>

Ask(r) ==
    /\ r \notin asking \cup cleared \cup queue \cup slots
    /\ \E t \in Tiers : tier' = [tier EXCEPT ![r] = t]
    /\ asking' = asking \cup {r} /\ Goes(r, capacity)
    /\ UNCHANGED <<capacity, looked, cleared, queue, slots>>

Look(r) ==
    /\ r \in asking
    /\ tier[r] # "free"
    /\ InUse < known[r] + Burst[tier[r]]
    /\ looked' = looked \cup {r}
    /\ UNCHANGED <<capacity, tier, known, asking, cleared, queue, slots>>

Grant(r) ==
    /\ r \in asking
    /\ r \in looked \/ InUse < known[r]
    /\ asking' = asking \ {r} /\ looked' = looked \ {r}
    /\ slots' = slots \cup {r} /\ Goes(r, 0)
    /\ UNCHANGED <<capacity, tier, cleared, queue>>

\* The attempt found no slot: its limit is not used again.
Forget(r) ==
    /\ r \in (asking \cup queue) \ looked
    /\ Goes(r, 0)
    /\ UNCHANGED <<capacity, tier, asking, looked, cleared, queue, slots>>

Refuse(r) ==
    /\ r \in asking \ looked
    /\ Cardinality(queue) >= QueueSize
    /\ asking' = asking \ {r}
    /\ UNCHANGED <<capacity, tier, known, looked, cleared, queue, slots>>

Clear(r) ==
    /\ r \in asking \ looked
    /\ Cardinality(queue) < QueueSize
    /\ asking' = asking \ {r} /\ cleared' = cleared \cup {r}
    /\ UNCHANGED <<capacity, tier, known, looked, queue, slots>>

Wait(r) ==
    /\ r \in cleared
    /\ cleared' = cleared \ {r} /\ queue' = queue \cup {r}
    /\ UNCHANGED <<capacity, tier, known, asking, looked, slots>>

Renew(r) ==
    /\ r \in queue \ slots /\ Goes(r, capacity)
    /\ UNCHANGED <<capacity, tier, asking, looked, cleared, queue, slots>>

GrantWaiting(r) ==
    /\ r \in queue \ slots
    /\ InUse < known[r]
    /\ slots' = slots \cup {r} /\ Goes(r, 0)
    /\ UNCHANGED <<capacity, tier, asking, looked, cleared, queue>>

\* With a slot, or with an error: the queue timer or the client's context.
Leave(r) ==
    /\ r \in queue /\ queue' = queue \ {r}
    /\ UNCHANGED <<capacity, tier, known, asking, looked, cleared, slots>>

Release(r) ==
    /\ r \in slots \ queue /\ slots' = slots \ {r}
    /\ UNCHANGED <<capacity, tier, known, asking, looked, cleared, queue>>

Step(r) ==
    \/ Ask(r) \/ Look(r) \/ Grant(r) \/ Forget(r) \/ Refuse(r) \/ Clear(r)
    \/ Wait(r) \/ Renew(r) \/ GrantWaiting(r) \/ Leave(r) \/ Release(r)

Next == SetCapacity \/ \E r \in Requests : Step(r)

vars == <<capacity, tier, known, asking, looked, cleared, queue, slots>>

Spec == Init /\ [][Next]_vars
=============================================================================
