----------------------------- MODULE WorkerQueue -----------------------------
(***************************************************************************)
(* One worker process (worker/main.py): gRPC handlers on a thread pool     *)
(* that push their request into a shared priority queue and pop whatever   *)
(* is first in it.  The master (external here: master/lib/worker.go) turns *)
(* tiers into numbers, may stop waiting for a call, and may send the same  *)
(* request again.                                                          *)
(***************************************************************************)
EXTENDS Integers, Sequences, FiniteSets

CONSTANTS
    Calls,     \* gRPC calls that may be open at once
    Ids,       \* request ids; the order of the numbers is the order of the keys
    Threads    \* max_workers of the thread pool

ASSUME CallsAssumption == IsFiniteSet(Calls)
ASSUME IdsAssumption == Ids \subseteq Nat /\ Ids # {}
ASSUME ThreadsAssumption == Threads \in Nat \ {0}

VARIABLES
    pc,        \* position of each call
    id, tier,  \* what each call was sent with
    left,      \* calls whose caller no longer waits for them
    queue,     \* PriorityQueue._queue, in the order heappop returns it
    got        \* the item each handler popped

vars == <<pc, id, tier, left, queue, got>>

Tiers == {"elite", "pro", "free"}

\* Worker.Send: tierToPriority, where higher is better.
TierToPriority == [elite |-> 10000, pro |-> 100, free |-> 50]

\* Mutants of Class: the numbers are not inverted for heapq; they start from 0.
ClassNotInverted(priority) ==
    IF priority >= 1000 THEN 3 ELSE IF priority >= 50 THEN 2 ELSE 1
ClassFromZero(priority) ==
    IF priority >= 1000 THEN 0 ELSE IF priority >= 50 THEN 1 ELSE 2

\* Handle: the class a number stands for, where lower is better.
Class(priority) ==
    IF priority >= 1000 THEN 1 ELSE IF priority >= 50 THEN 2 ELSE 3

Item == [class : 1..3, id : Ids, tier : Tiers]
NoItem == [class |-> 0, id |-> -1, tier |-> "none"]

ItemOf(c) == [class |-> Class(TierToPriority[tier[c]]), id |-> id[c], tier |-> tier[c]]

\* The order of the tuples (priority, request_id, message).
Before(x, y) == x.class < y.class \/ (x.class = y.class /\ x.id <= y.id)

Rank(q, x) == Cardinality({k \in 1..Len(q) : Before(q[k], x)})

\* heappush, on the queue listed in pop order.
Insert(q, x) ==
    SubSeq(q, 1, Rank(q, x)) \o <<x>> \o SubSeq(q, Rank(q, x) + 1, Len(q))

\* What a call that is not open was sent with does not matter.
AnyId == CHOOSE i \in Ids : TRUE

CallPCs == {"idle", "accepted", "push", "pop", "run"}

Init ==
    /\ pc = [c \in Calls |-> "idle"]
    /\ id = [c \in Calls |-> AnyId]
    /\ tier = [c \in Calls |-> "free"]
    /\ left = {} /\ queue = <<>>
    /\ got = [c \in Calls |-> NoItem]

-----------------------------------------------------------------------------
Goto(c, label) == pc' = [pc EXCEPT ![c] = label]
Open == {c \in Calls : pc[c] # "idle"}
OnThread == {c \in Calls : pc[c] \in {"push", "pop", "run"}}
Poppers == {c \in Calls : pc[c] = "pop"}

\* The master sends a request; it has at most one attempt it is waiting for.
Arrive(c) ==
    /\ pc[c] = "idle" /\ Goto(c, "accepted")
    /\ \E i \in Ids : id' = [id EXCEPT ![c] = i]
    /\ \A d \in Open \ left : id[d] # id'[c]
    /\ \E t \in Tiers : tier' = [tier EXCEPT ![c] = t]
    /\ UNCHANGED <<left, queue, got>>

\* The master's deadline passes, or its client goes away: nothing tells the
\* handler, which runs to its end.
Leave(c) ==
    /\ c \in Open \ left /\ left' = left \cup {c}
    /\ UNCHANGED <<pc, id, tier, queue, got>>

\* A thread of the pool takes the call.
Start(c) ==
    /\ pc[c] = "accepted" /\ Cardinality(OnThread) < Threads
    /\ Goto(c, "push")
    /\ UNCHANGED <<id, tier, left, queue, got>>

\* Mutant of Push: a request that is already queued is not queued again.
PushOncePerId(c) ==
    /\ pc[c] = "push" /\ Goto(c, "pop")
    /\ queue' = IF \E k \in 1..Len(queue) : queue[k].id = id[c]
                THEN queue ELSE Insert(queue, ItemOf(c))
    /\ UNCHANGED <<id, tier, left, got>>

Push(c) ==
    /\ pc[c] = "push" /\ Goto(c, "pop")
    /\ queue' = Insert(queue, ItemOf(c))
    /\ UNCHANGED <<id, tier, left, got>>

\* The first item, whoever pushed it.  An empty queue would abort the call with
\* "queue unexpectedly empty": NeverEmptyAtPop says that it cannot happen.
Pop(c) ==
    /\ pc[c] = "pop" /\ queue # <<>> /\ Goto(c, "run")
    /\ got' = [got EXCEPT ![c] = Head(queue)]
    /\ queue' = Tail(queue)
    /\ UNCHANGED <<id, tier, left>>

\* Mutant of Reply: a handler nobody waits for keeps its thread.
ReplyToCaller(c) ==
    /\ pc[c] = "run" /\ c \notin left /\ Goto(c, "idle")
    /\ got' = [got EXCEPT ![c] = NoItem]
    /\ id' = [id EXCEPT ![c] = AnyId] /\ tier' = [tier EXCEPT ![c] = "free"]
    /\ UNCHANGED <<left, queue>>

\* The model runs on the popped message, with the settings of the handler's own
\* tier; its failures are replies like any other.
Reply(c) ==
    /\ pc[c] = "run" /\ Goto(c, "idle")
    /\ got' = [got EXCEPT ![c] = NoItem]
    /\ left' = left \ {c}
    /\ id' = [id EXCEPT ![c] = AnyId] /\ tier' = [tier EXCEPT ![c] = "free"]
    /\ UNCHANGED queue

Handle(c) == Push(c) \/ Pop(c) \/ Reply(c)

Next == \E c \in Calls : Arrive(c) \/ Leave(c) \/ Start(c) \/ Handle(c)

Spec == Init /\ [][Next]_vars

\* Threads run, and the pool serves its work queue in order, so a call that
\* finds a free thread again and again gets one.
Fairness == \A c \in Calls : SF_vars(Start(c)) /\ WF_vars(Handle(c))

FairSpec == Spec /\ Fairness

-----------------------------------------------------------------------------
\* The queue holds whole items, and only open calls are left by their caller.
TypeOK ==
    /\ pc \in [Calls -> CallPCs]
    /\ id \in [Calls -> Ids] /\ tier \in [Calls -> Tiers]
    /\ left \subseteq Open
    /\ queue \in Seq(Item)
    /\ got \in [Calls -> Item \cup {NoItem}]

\* Whatever is left, abandoned or repeated, the queue holds exactly one item for
\* every handler that is about to pop.
QueueLedger == Len(queue) = Cardinality(Poppers)

\* The abort at main.py:92 is unreachable.
NeverEmptyAtPop == Poppers # {} => queue # <<>>

\* No handler takes a request of a lower tier while an elite one is queued.
EliteFirst ==
    [][\A c \in Calls :
          Pop(c) /\ got'[c].tier # "elite"
              => \A k \in 1..Len(queue) : queue[k].tier # "elite"]_vars

\* Every accepted call is answered, on however few threads.
CallsAnswered == \A c \in Calls : pc[c] = "accepted" ~> pc[c] = "idle"

\* The code keeps neither of the last two (README, "Known disagreements").
\* main.py:36: "pro: served first, free: served after".
ProBeforeFree ==
    [][\A c \in Calls :
          Pop(c) /\ got'[c].tier = "free"
              => \A k \in 1..Len(queue) : queue[k].tier # "pro"]_vars

\* master/main.go:9: the answer is sent back "via the requestId": the reply a
\* call carries is the one to its own request.
OwnReply == \A c \in Calls : pc[c] = "run" => got[c].id = id[c]
=============================================================================
