-------------------------- MODULE WorkerQueueProofs --------------------------
(***************************************************************************)
(* Proofs about WorkerQueue, for every number of calls, ids and threads:   *)
(* no handler ever finds the queue empty, so the abort is dead code, and   *)
(* elite requests are popped first.                                        *)
(***************************************************************************)
EXTENDS WorkerQueue, FiniteSetTheorems, SequenceTheorems, TLAPS

IInv == TypeOK /\ QueueLedger

-----------------------------------------------------------------------------
(* The priority queue.                                                     *)

LEMMA ItemOfType ==
    ASSUME TypeOK, NEW c \in Calls
    PROVE  ItemOf(c) \in Item
  BY DEF TypeOK, ItemOf, Item, Class, TierToPriority, Tiers

LEMMA RankRange ==
    ASSUME NEW q \in Seq(Item), NEW x \in Item
    PROVE  Rank(q, x) \in 0..Len(q)
  <1> DEFINE S == {k \in 1..Len(q) : Before(q[k], x)}
  <1>1. Len(q) \in Nat
    OBVIOUS
  <1>2. IsFiniteSet(1..Len(q)) /\ Cardinality(1..Len(q)) = Len(q)
    BY <1>1, FS_Interval
  <1>3. Cardinality(S) <= Len(q) /\ IsFiniteSet(S)
    BY <1>2, FS_Subset
  <1>4. Cardinality(S) \in Nat
    BY <1>3, FS_CardinalityType
  <1> QED
    BY <1>1, <1>3, <1>4 DEF Rank

\* A push makes the queue one longer, whatever the order of its keys.
LEMMA InsertFacts ==
    ASSUME NEW q \in Seq(Item), NEW x \in Item
    PROVE  Insert(q, x) \in Seq(Item) /\ Len(Insert(q, x)) = Len(q) + 1
  <1> DEFINE n == Rank(q, x)
             low == SubSeq(q, 1, n)
             high == SubSeq(q, n + 1, Len(q))
  <1>1. n \in 0..Len(q) /\ Len(q) \in Nat
    BY RankRange
  <1>2. \A k \in 1..Len(q) : q[k] \in Item
    BY ElementOfSeq
  <1>3. low \in Seq(Item) /\ Len(low) = n
    BY <1>1, <1>2, SubSeqProperties
  <1>4. high \in Seq(Item) /\ Len(high) = Len(q) - n
    BY <1>1, <1>2, SubSeqProperties
  <1> HIDE DEF n, low, high
  <1>5. <<x>> \in Seq(Item) /\ Len(<<x>>) = 1
    OBVIOUS
  <1>6. low \o <<x>> \in Seq(Item) /\ Len(low \o <<x>>) = n + 1
    BY <1>3, <1>5, ConcatProperties
  <1>7. (low \o <<x>>) \o high \in Seq(Item) /\ Len((low \o <<x>>) \o high) = Len(q) + 1
    BY <1>1, <1>4, <1>6, ConcatProperties
  <1> QED
    BY <1>7 DEF Insert, n, low, high

\* A downward closed set of positions is an initial segment.
LEMMA InitialSegment ==
    ASSUME NEW L \in Nat, NEW S \in SUBSET (1..L), \A k \in S : \A j \in 1..k : j \in S
    PROVE  S = 1..Cardinality(S)
  <1> DEFINE n == Cardinality(S)
  <1>1. IsFiniteSet(S) /\ n \in Nat
    <2>1. IsFiniteSet(1..L)
      BY FS_Interval
    <2> QED
      BY <2>1, FS_Subset, FS_CardinalityType
  <1>2. IsFiniteSet(1..n) /\ Cardinality(1..n) = n
    BY <1>1, FS_Interval
  <1>3. S \subseteq 1..n
    <2> SUFFICES ASSUME NEW k \in S, k > n PROVE FALSE
      BY <1>1
    <2>1. k \in Nat /\ 1..k \in SUBSET S
      OBVIOUS
    <2>2. Cardinality(1..k) = k
      BY <2>1, FS_Interval
    <2>3. Cardinality(1..k) <= n
      BY <1>1, <2>1, FS_Subset
    <2> QED
      BY <1>1, <2>1, <2>2, <2>3
  <1> QED
    BY <1>2, <1>3, FS_Subset

LEMMA BeforeIsOrder ==
    /\ \A x, y \in Item : Before(x, y) \/ Before(y, x)
    /\ \A x, y, z \in Item : Before(x, y) /\ Before(y, z) => Before(x, z)
  <1>1. \A x \in Item : x.class \in 1..3 /\ x.id \in Nat
    <2> TAKE x \in Item
    <2>1. x.class \in 1..3 /\ x.id \in Ids
      BY DEF Item
    <2> QED
      BY <2>1, IdsAssumption
  <1>2. ASSUME NEW x \in Item, NEW y \in Item, NEW z \in Item, Before(x, y), Before(y, z)
        PROVE  Before(x, z)
    BY <1>1, <1>2 DEF Before
  <1> QED
    BY <1>1, <1>2 DEF Before

Ordered(q) == \A j, k \in 1..Len(q) : j < k => Before(q[j], q[k])

\* heappush, seen as insertion: what pops before the new item stays before it, in
\* order, and the rest comes after it.
LEMMA InsertOrdered ==
    ASSUME NEW q \in Seq(Item), NEW x \in Item, Ordered(q)
    PROVE  /\ Ordered(Insert(q, x))
           /\ \A k \in 1..(Len(q) + 1) :
                Insert(q, x)[k] = x \/ \E j \in 1..Len(q) : Insert(q, x)[k] = q[j]
  <1> DEFINE n == Rank(q, x)
             L == Len(q)
             low == SubSeq(q, 1, n)
             high == SubSeq(q, n + 1, L)
             S == {k \in 1..L : Before(q[k], x)}
             r == Insert(q, x)
  <1>1. n \in 0..L /\ L \in Nat
    BY RankRange
  <1>2. \A k \in 1..L : q[k] \in Item
    BY ElementOfSeq
  <1>3. \A k \in 1..L : Before(q[k], x) <=> k <= n
    <2>1. \A k \in S : \A j \in 1..k : j \in S
      <3> SUFFICES ASSUME NEW k \in S, NEW j \in 1..k, j # k
                   PROVE  Before(q[j], x)
        BY <1>1
      <3>1. j \in 1..L /\ k \in 1..L /\ j < k
        BY <1>1
      <3> QED
        BY <1>2, <3>1, BeforeIsOrder DEF Ordered
    <2>2. S = 1..n
      BY <1>1, <2>1, InitialSegment DEF Rank
    <2> QED
      BY <1>1, <2>2
  <1>4. low \in Seq(Item) /\ Len(low) = n /\ \A k \in 1..n : low[k] = q[k]
    BY <1>1, <1>2, SubSeqProperties
  <1>5. /\ high \in Seq(Item) /\ Len(high) = L - n
        /\ \A k \in 1..(L - n) : high[k] = q[n + k]
    BY <1>1, <1>2, SubSeqProperties
  <1>6. r = (low \o <<x>>) \o high
    BY DEF Insert
  <1> HIDE DEF n, low, high, r
  <1>7. /\ low \o <<x>> \in Seq(Item) /\ Len(low \o <<x>>) = n + 1
        /\ \A k \in 1..n : (low \o <<x>>)[k] = q[k]
        /\ (low \o <<x>>)[n + 1] = x
    <2>1. <<x>> \in Seq(Item) /\ Len(<<x>>) = 1 /\ <<x>>[1] = x
      OBVIOUS
    <2>2. /\ low \o <<x>> \in Seq(Item) /\ Len(low \o <<x>>) = n + 1
          /\ \A i \in 1..(n + 1) :
               (low \o <<x>>)[i] = IF i <= n THEN low[i] ELSE <<x>>[i - n]
      BY <1>1, <1>4, <2>1, ConcatProperties
    <2> QED
      BY <1>1, <1>4, <2>1, <2>2
  <1>8. /\ Len(r) = L + 1
        /\ \A k \in 1..n : r[k] = q[k]
        /\ r[n + 1] = x
        /\ \A k \in (n + 2)..(L + 1) : r[k] = q[k - 1]
    <2>1. /\ Len(r) = L + 1
          /\ \A i \in 1..(L + 1) :
               r[i] = IF i <= n + 1 THEN (low \o <<x>>)[i] ELSE high[i - (n + 1)]
      BY <1>1, <1>5, <1>6, <1>7, ConcatProperties
    <2>2. \A k \in 1..n : r[k] = q[k]
      BY <1>1, <1>7, <2>1
    <2>3. r[n + 1] = x
      BY <1>1, <1>7, <2>1
    <2>4. ASSUME NEW k \in (n + 2)..(L + 1) PROVE r[k] = q[k - 1]
      <3>1. r[k] = high[k - (n + 1)] /\ k - (n + 1) \in 1..(L - n)
        BY <1>1, <2>1
      <3>2. n + (k - (n + 1)) = k - 1
        BY <1>1
      <3> QED
        BY <1>5, <3>1, <3>2
    <2> QED
      BY <2>1, <2>2, <2>3, <2>4
  <1>9. ASSUME NEW j \in 1..(L + 1), NEW k \in 1..(L + 1), j < k
        PROVE  Before(r[j], r[k])
    <2>1. CASE k <= n
      BY <1>1, <1>8, <1>9, <2>1 DEF Ordered
    <2>2. CASE k = n + 1
      BY <1>1, <1>3, <1>8, <1>9, <2>2
    <2>3. CASE k > n + 1
      <3>1. r[k] = q[k - 1] /\ k - 1 \in 1..L /\ k - 1 > n
        BY <1>1, <1>8, <2>3
      <3>2. CASE j <= n
        BY <1>1, <1>8, <1>9, <3>1, <3>2 DEF Ordered
      <3>3. CASE j = n + 1
        BY <1>1, <1>2, <1>3, <1>8, <3>1, <3>3, BeforeIsOrder
      <3>4. CASE j > n + 1
        <4>1. r[j] = q[j - 1] /\ j - 1 \in 1..L /\ j - 1 < k - 1
          BY <1>1, <1>8, <1>9, <3>4
        <4> QED
          BY <3>1, <4>1 DEF Ordered
      <3> QED
        BY <1>1, <3>2, <3>3, <3>4
    <2> QED
      BY <1>1, <2>1, <2>2, <2>3
  <1>10. ASSUME NEW k \in 1..(L + 1)
         PROVE  r[k] = x \/ \E j \in 1..L : r[k] = q[j]
    <2>1. CASE k <= n
      BY <1>1, <1>8, <2>1
    <2>2. CASE k = n + 1
      BY <1>8, <2>2
    <2>3. CASE k > n + 1
      <3>1. r[k] = q[k - 1] /\ k - 1 \in 1..L
        BY <1>1, <1>8, <2>3
      <3> QED
        BY <3>1
    <2> QED
      BY <1>1, <2>1, <2>2, <2>3
  <1> QED
    BY <1>8, <1>9, <1>10 DEF Ordered, r

LEMMA PopFacts ==
    ASSUME NEW q \in Seq(Item), q # <<>>
    PROVE  Head(q) \in Item /\ Tail(q) \in Seq(Item) /\ Len(Tail(q)) = Len(q) - 1
  BY HeadTailProperties, LenProperties

-----------------------------------------------------------------------------
(* The inductive invariant.                                                *)

LEMMA PoppersFinite == IsFiniteSet(Poppers) /\ Cardinality(Poppers) \in Nat
  <1>1. Poppers \subseteq Calls
    BY DEF Poppers
  <1> QED
    BY <1>1, CallsAssumption, FS_Subset, FS_CardinalityType

\* The id of calls that are not open is one of the ids.
LEMMA AnyIdType == AnyId \in Ids
  BY IdsAssumption DEF AnyId

LEMMA InitIInv == Init => IInv
  <1> SUFFICES ASSUME Init PROVE IInv
    OBVIOUS
  <1>1. TypeOK
    BY AnyIdType DEF Init, TypeOK, CallPCs, Tiers, Open
  <1>2. Poppers = {}
    BY DEF Init, Poppers
  <1>3. Cardinality(Poppers) = 0 /\ Len(queue) = 0
    BY <1>2, FS_EmptySet DEF Init
  <1> QED
    BY <1>1, <1>3 DEF IInv, QueueLedger

LEMMA TypeStep == TypeOK /\ [Next]_vars => TypeOK'
  <1> SUFFICES ASSUME TypeOK, [Next]_vars
               PROVE  TypeOK'
    OBVIOUS
  <1> USE DEF TypeOK, Goto, CallPCs, Open
  <1>1. CASE UNCHANGED vars
    BY <1>1 DEF vars
  <1>2. ASSUME NEW c \in Calls, Arrive(c)
        PROVE  TypeOK'
    BY <1>2 DEF Arrive
  <1>3. ASSUME NEW c \in Calls, Leave(c)
        PROVE  TypeOK'
    BY <1>3 DEF Leave
  <1>4. ASSUME NEW c \in Calls, Start(c)
        PROVE  TypeOK'
    BY <1>4 DEF Start
  <1>5. ASSUME NEW c \in Calls, Push(c)
        PROVE  TypeOK'
    <2>1. Insert(queue, ItemOf(c)) \in Seq(Item)
      BY ItemOfType, InsertFacts
    <2> QED
      BY <1>5, <2>1 DEF Push
  <1>6. ASSUME NEW c \in Calls, Pop(c)
        PROVE  TypeOK'
    <2>1. Head(queue) \in Item /\ Tail(queue) \in Seq(Item)
      BY <1>6, PopFacts DEF Pop
    <2> QED
      BY <1>6, <2>1 DEF Pop
  <1>7. ASSUME NEW c \in Calls, Reply(c)
        PROVE  TypeOK'
    BY <1>7, AnyIdType DEF Reply, Tiers
  <1> QED
    BY <1>1, <1>2, <1>3, <1>4, <1>5, <1>6, <1>7 DEF Next, Handle

LEMMA LedgerStep == IInv /\ [Next]_vars => QueueLedger'
  <1> SUFFICES ASSUME IInv, [Next]_vars
               PROVE  QueueLedger'
    OBVIOUS
  <1> USE PoppersFinite DEF IInv, TypeOK, QueueLedger
  <1>1. ASSUME NEW c \in Calls, Push(c)
        PROVE  QueueLedger'
    <2>1. c \notin Poppers /\ Poppers' = Poppers \cup {c}
      BY <1>1 DEF Push, Goto, Poppers
    <2>2. Cardinality(Poppers') = Cardinality(Poppers) + 1
      BY <2>1, FS_AddElement
    <2>3. Len(queue') = Len(queue) + 1
      BY <1>1, ItemOfType, InsertFacts DEF Push
    <2> QED
      BY <2>2, <2>3
  <1>2. ASSUME NEW c \in Calls, Pop(c)
        PROVE  QueueLedger'
    <2>1. c \in Poppers /\ Poppers' = Poppers \ {c}
      BY <1>2 DEF Pop, Goto, Poppers
    <2>2. Cardinality(Poppers') = Cardinality(Poppers) - 1
      BY <2>1, FS_RemoveElement
    <2>3. Len(queue') = Len(queue) - 1
      BY <1>2, PopFacts DEF Pop
    <2> QED
      BY <2>2, <2>3
  <1>3. ASSUME queue' = queue, Poppers' = Poppers
        PROVE  QueueLedger'
    BY <1>3
  <1>4. ASSUME NEW c \in Calls, Arrive(c) \/ Leave(c) \/ Start(c) \/ Reply(c)
        PROVE  queue' = queue /\ Poppers' = Poppers
    BY <1>4 DEF Arrive, Leave, Start, Reply, Goto, Poppers
  <1>5. CASE UNCHANGED vars
    BY <1>3, <1>5 DEF vars, Poppers
  <1> QED
    BY <1>1, <1>2, <1>3, <1>4, <1>5 DEF Next, Handle

LEMMA InductiveInvariant == Spec => []IInv
  <1>1. IInv /\ [Next]_vars => IInv'
    BY TypeStep, LedgerStep DEF IInv
  <1> QED
    BY InitIInv, <1>1, PTL DEF Spec

-----------------------------------------------------------------------------
(* The order of the queue.                                                 *)

\* Items are served in order, and exactly those of elite requests have class 1.
QueueOrdered ==
    /\ Ordered(queue)
    /\ \A k \in 1..Len(queue) : queue[k].class = 1 <=> queue[k].tier = "elite"

LEMMA ItemOfClass ==
    ASSUME TypeOK, NEW c \in Calls
    PROVE  ItemOf(c).class = 1 <=> ItemOf(c).tier = "elite"
  <1>1. tier[c] \in {"elite", "pro", "free"}
    BY DEF TypeOK, Tiers
  <1>2. CASE tier[c] = "elite"
    BY <1>2 DEF ItemOf, Class, TierToPriority
  <1>3. CASE tier[c] = "pro" \/ tier[c] = "free"
    BY <1>3 DEF ItemOf, Class, TierToPriority
  <1> QED
    BY <1>1, <1>2, <1>3

LEMMA OrderStep == TypeOK /\ QueueOrdered /\ [Next]_vars => QueueOrdered'
  <1> SUFFICES ASSUME TypeOK, QueueOrdered, [Next]_vars
               PROVE  QueueOrdered'
    OBVIOUS
  <1>0. queue \in Seq(Item) /\ Len(queue) \in Nat
    BY DEF TypeOK
  <1>1. ASSUME NEW c \in Calls, Push(c)
        PROVE  QueueOrdered'
    <2> DEFINE x == ItemOf(c)
               r == Insert(queue, x)
    <2>1. x \in Item /\ (x.class = 1 <=> x.tier = "elite")
      BY ItemOfType, ItemOfClass
    <2>2. queue' = r
      BY <1>1 DEF Push
    <2>3. Ordered(r) /\ Len(r) = Len(queue) + 1
      BY <1>0, <2>1, InsertOrdered, InsertFacts DEF QueueOrdered
    <2>4. ASSUME NEW k \in 1..Len(r)
          PROVE  r[k].class = 1 <=> r[k].tier = "elite"
      <3>1. r[k] = x \/ \E j \in 1..Len(queue) : r[k] = queue[j]
        BY <1>0, <2>1, <2>3, InsertOrdered DEF QueueOrdered
      <3> HIDE DEF x, r
      <3> QED
        BY <2>1, <3>1 DEF QueueOrdered
    <2> HIDE DEF r
    <2> QED
      BY <2>2, <2>3, <2>4 DEF QueueOrdered, Ordered
  <1>2. ASSUME NEW c \in Calls, Pop(c)
        PROVE  QueueOrdered'
    <2>1. queue' = Tail(queue) /\ queue # <<>>
      BY <1>2 DEF Pop
    <2>2. /\ Len(queue') = Len(queue) - 1
          /\ \A i \in 1..Len(queue') : queue'[i] = queue[i + 1]
      BY <1>0, <2>1, HeadTailProperties
    <2>3. ASSUME NEW j \in 1..Len(queue'), NEW k \in 1..Len(queue'), j < k
          PROVE  Before(queue'[j], queue'[k])
      <3>1. j + 1 \in 1..Len(queue) /\ k + 1 \in 1..Len(queue) /\ j + 1 < k + 1
        BY <1>0, <2>2, <2>3
      <3> QED
        BY <2>2, <3>1 DEF QueueOrdered, Ordered
    <2>4. ASSUME NEW k \in 1..Len(queue')
          PROVE  queue'[k].class = 1 <=> queue'[k].tier = "elite"
      <3>1. k + 1 \in 1..Len(queue)
        BY <1>0, <2>2
      <3> QED
        BY <2>2, <3>1 DEF QueueOrdered
    <2> QED
      BY <2>3, <2>4 DEF QueueOrdered, Ordered
  <1>3. ASSUME queue' = queue
        PROVE  QueueOrdered'
    BY <1>3 DEF QueueOrdered, Ordered
  <1> QED
    BY <1>1, <1>2, <1>3 DEF Next, Handle, vars, Arrive, Leave, Start, Reply

LEMMA AlwaysOrdered == Spec => []QueueOrdered
  <1>1. Init => QueueOrdered
    <2> SUFFICES ASSUME Init PROVE QueueOrdered
      OBVIOUS
    <2>1. queue = <<>> /\ Len(queue) = 0
      BY DEF Init
    <2> QED
      BY <2>1 DEF QueueOrdered, Ordered
  <1> QED
    BY <1>1, OrderStep, InductiveInvariant, PTL DEF Spec, IInv

-----------------------------------------------------------------------------
\* Every variable of a worker keeps its type: a popped item is a whole item.
THEOREM TypeCorrect == Spec => []TypeOK
  BY InductiveInvariant, PTL DEF IInv

\* PriorityQueue.push and pop are balanced: one queued item per handler between
\* the two, however many calls, threads and repeated ids there are.
THEOREM QueueAccounted == Spec => []QueueLedger
  BY InductiveInvariant, PTL DEF IInv

\* Handle never aborts with "queue unexpectedly empty" (main.py:92).
THEOREM AbortUnreachable == Spec => []NeverEmptyAtPop
  <1>1. IInv => NeverEmptyAtPop
    <2> SUFFICES ASSUME IInv, Poppers # {}, queue = <<>>
                 PROVE  FALSE
      BY DEF NeverEmptyAtPop
    <2>1. Cardinality(Poppers) = 0
      BY DEF IInv, QueueLedger
    <2> QED
      BY <2>1, PoppersFinite, FS_EmptySet
  <1> QED
    BY InductiveInvariant, <1>1, PTL

\* Whatever is pushed meanwhile, a handler that pops gets an elite request as long as one
\* is queued (main.py: the classes of Handle, compared first by heapq).
THEOREM EliteServedFirst == Spec => EliteFirst
  <1> DEFINE Step == \A c \in Calls :
                       Pop(c) /\ got'[c].tier # "elite"
                         => \A k \in 1..Len(queue) : queue[k].tier # "elite"
  <1>1. ASSUME TypeOK, QueueOrdered, NEW c \in Calls, Pop(c), got'[c].tier # "elite",
               NEW k \in 1..Len(queue)
        PROVE  queue[k].tier # "elite"
    <2>1. queue \in Seq(Item) /\ queue # <<>> /\ Len(queue) \in Nat /\ 1 \in 1..Len(queue)
      BY <1>1 DEF TypeOK, Pop
    <2>2. got'[c] = queue[1]
      BY <1>1, <2>1 DEF TypeOK, Pop
    <2>3. queue[1].class # 1 /\ queue[1].class \in 1..3 /\ queue[k].class \in 1..3
      <3>1. queue[1] \in Item /\ queue[k] \in Item
        BY <2>1, ElementOfSeq
      <3>2. queue[1].tier # "elite"
        BY <1>1, <2>2
      <3> QED
        BY <1>1, <2>1, <3>1, <3>2 DEF QueueOrdered, Item
    <2>4. k = 1 \/ Before(queue[1], queue[k])
      BY <1>1, <2>1 DEF QueueOrdered, Ordered
    <2>5. queue[k].class # 1
      BY <2>3, <2>4 DEF Before
    <2> QED
      BY <1>1, <2>5 DEF QueueOrdered
  <1>2. TypeOK /\ QueueOrdered => Step
    BY <1>1
  <1> QED
    BY <1>2, InductiveInvariant, AlwaysOrdered, PTL DEF EliteFirst, IInv
=============================================================================
