------------------------------ MODULE Dispatch ------------------------------
(***************************************************************************)
(* What the router promises the chat handlers, without counters, lifecycle *)
(* states, in-flight entries, rounds or drain goroutines.  A request goes  *)
(* to a worker that was seen in the pool, healthy and with room, counting  *)
(* the calls really in progress at that moment, and under least-           *)
(* connections with no more of them than any worker it saw; it is refused  *)
(* only if nobody in the pool, or not the one whose turn it was, was seen  *)
(* with room; it is tried a bounded number of times; and a worker that has *)
(* left the pool never returns, even when a late answer makes it healthy.  *)
(***************************************************************************)
EXTENDS Integers, FiniteSets

CONSTANTS Requests, Instances, NoWorker, Strategies, MaxActive, MaxAttempts, Unread, Away

VARIABLES
    seen,      \* the workers there have been
    pool,      \* those that can be routed to
    healthy,   \* those of the pool that requests are given to
    strategy,
    phase,     \* of each request
    worker,    \* the worker of its current try
    tries,     \* how many of its tries have failed
    how, loads \* a choice under way: its strategy, and what was seen of each worker

cluster == <<seen, pool, healthy>>
requests == <<phase, worker, tries, how, loads>>
vars == <<cluster, strategy, requests>>

Blank == [i \in Instances |-> Unread]

Init ==
    /\ seen = {} /\ pool = {} /\ healthy = {}
    /\ strategy = "least"
    /\ phase = [r \in Requests |-> "idle"]
    /\ worker = [r \in Requests |-> NoWorker]
    /\ tries = [r \in Requests |-> 0]
    /\ how = [r \in Requests |-> "none"] /\ loads = [r \in Requests |-> Blank]

\* Workers come, are drained, removed, found dead or alive; the pool waits for those
\* that are choosing.
Cluster ==
    /\ seen \subseteq seen' /\ seen' \subseteq Instances
    /\ pool' \subseteq pool \cup (seen' \ seen)
    /\ pool' = pool \/ \A r \in Requests : phase[r] # "scan"
    /\ healthy' \subseteq pool'
    /\ UNCHANGED <<strategy, requests>>

SetStrategy ==
    /\ strategy' \in Strategies
    /\ UNCHANGED <<cluster, requests>>

Move(r, from, to) == phase[r] = from /\ phase' = [phase EXCEPT ![r] = to]

Begin(r) ==
    /\ Move(r, "idle", "pick")
    /\ UNCHANGED <<cluster, strategy, worker, tries, how, loads>>

-----------------------------------------------------------------------------
(* The choice of a worker.                                                 *)

StartScan(r) ==
    /\ Move(r, "pick", "scan") /\ tries[r] < MaxAttempts
    /\ how' = [how EXCEPT ![r] = strategy]
    /\ UNCHANGED <<cluster, strategy, worker, tries, loads>>

Load(i) == Cardinality({r \in Requests : phase[r] = "calling" /\ worker[r] = i})

Look(r) ==
    /\ phase[r] = "scan"
    /\ \E i \in pool :
          /\ loads[r][i] = Unread
          /\ loads' = [loads EXCEPT ![r][i] = IF i \in healthy THEN Load(i) ELSE Away]
    /\ UNCHANGED <<cluster, strategy, phase, worker, tries, how>>

LookAgain(r) ==
    /\ phase[r] = "scan" /\ how[r] = "roundrobin"
    /\ how' = [how EXCEPT ![r] = "wrapped"] /\ loads' = [loads EXCEPT ![r] = Blank]
    /\ UNCHANGED <<cluster, strategy, phase, worker, tries>>

Found(r) == {i \in pool : loads[r][i] >= 0}
Full(r) == {i \in Found(r) : loads[r][i] >= MaxActive}
SawAll(r) == \A i \in pool : loads[r][i] # Unread

Nobody(r) ==
    \/ SawAll(r) /\ Found(r) = Full(r)
    \/ how[r] \in {"roundrobin", "wrapped"} /\ Full(r) # {}

Decided(r) == how' = [how EXCEPT ![r] = "none"] /\ loads' = [loads EXCEPT ![r] = Blank]

Assign(r) ==
    /\ Move(r, "scan", "assigned") /\ Decided(r)
    /\ \E i \in Found(r) \ Full(r) :
          /\ how[r] = "least" => SawAll(r) /\ \A j \in Found(r) : loads[r][i] <= loads[r][j]
          /\ worker' = [worker EXCEPT ![r] = i]
    /\ UNCHANGED <<cluster, strategy, tries>>

-----------------------------------------------------------------------------
(* A try, and the end of a request.                                        *)

Call(r) ==
    /\ Move(r, "assigned", "calling")
    /\ UNCHANGED <<cluster, strategy, worker, tries, how, loads>>

Return(r) ==
    /\ \E result \in {"answered", "failed"} : Move(r, "calling", result)
    /\ UNCHANGED <<cluster, strategy, worker, tries, how, loads>>

Retry(r) ==
    /\ Move(r, "failed", "pick")
    /\ worker' = [worker EXCEPT ![r] = NoWorker]
    /\ tries' = [tries EXCEPT ![r] = @ + 1]
    /\ UNCHANGED <<cluster, strategy, how, loads>>

Forget(r) ==
    /\ worker' = [worker EXCEPT ![r] = NoWorker]
    /\ tries' = [tries EXCEPT ![r] = 0]

\* The tries are used up.
GiveUp(r) ==
    /\ Move(r, "pick", "idle") /\ tries[r] = MaxAttempts /\ Forget(r)
    /\ UNCHANGED <<cluster, strategy, how, loads>>

Refuse(r) ==
    /\ Move(r, "scan", "idle") /\ Nobody(r) /\ Decided(r) /\ Forget(r)
    /\ UNCHANGED <<cluster, strategy>>

\* A request that has not been tried yet may ask again.
TryLater(r) ==
    /\ Move(r, "scan", "pick") /\ tries[r] = 0 /\ Nobody(r) /\ Decided(r)
    /\ UNCHANGED <<cluster, strategy, worker, tries>>

\* The worker that answered is healthy, if it is still in the pool.
Done(r) ==
    /\ Move(r, "answered", "idle") /\ Forget(r)
    /\ healthy' = healthy \cup ({worker[r]} \cap pool)
    /\ UNCHANGED <<seen, pool, strategy, how, loads>>

Step(r) ==
    \/ Begin(r) \/ StartScan(r) \/ Look(r) \/ LookAgain(r) \/ Assign(r) \/ Call(r)
    \/ Return(r) \/ Retry(r) \/ GiveUp(r) \/ Refuse(r) \/ TryLater(r) \/ Done(r)

Next == Cluster \/ SetStrategy \/ \E r \in Requests : Step(r)

Spec == Init /\ [][Next]_vars
=============================================================================
