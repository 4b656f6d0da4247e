-------------------------- MODULE OperationsProofs --------------------------
(***************************************************************************)
(* Proofs about the two components that workers are operated through.      *)
(*                                                                         *)
(* Provisioning, for every set of containers, spawners and handlers, every *)
(* port range and every number of attempts: no container that runs is      *)
(* forgotten without a call for it having failed.                          *)
(*                                                                         *)
(* Console, for every set of workers, every length of the history and the  *)
(* zoom and any number of fetches under way: the cursors stay inside what  *)
(* the console shows, the body shown is the body the next key acts on,     *)
(* AddWorker replaces no handle, and the warnings of the autoscaling tab   *)
(* settle for histories of every length.                                   *)
(***************************************************************************)
EXTENDS Provisioning, Console, FiniteSetTheorems, SequenceTheorems, TLAPS

IInv == TypeOK /\ Accounted

-----------------------------------------------------------------------------
(* The operators.                                                          *)

\* The counter of allocateHostPort stays inside the configured range.
LEMMA AfterType == ASSUME NEW p \in Ports PROVE After(p) \in Ports
  BY PortAssumption DEF After, Ports

LEMMA FirstPort == PortStart \in Ports
  BY PortAssumption DEF Ports

-----------------------------------------------------------------------------
(* Type correctness.                                                       *)

LEMMA InitType == Init => TypeOK
  BY FirstPort, AttemptAssumption DEF Init, TypeOK

\* The steps of create requests.
LEMMA SpawnType ==
    ASSUME TypeOK, NEW s \in Spawners
    PROVE  /\ Spawn(s) => TypeOK'
           /\ AttemptFails(s) => TypeOK'
           /\ \A c \in Containers : AllocatePort(s, c) \/ Accepted(s, c) => TypeOK'
  <1> USE DEF TypeOK, Set, agentVars, masterVars, spawnVars
  <1>1. Spawn(s) => TypeOK'
    BY DEF Spawn
  <1>2. ASSUME AttemptFails(s) PROVE TypeOK'
    <2>1. sp' \in [Spawners -> {"idle", "post", "wait"}]
      BY <1>2 DEF AttemptFails, Fails
    <2>2. tries' \in [Spawners -> 1..MaxAttempts]
      BY <1>2, AttemptAssumption DEF AttemptFails, Fails
    <2> QED
      BY <1>2, <2>1, <2>2 DEF AttemptFails
  <1>3. ASSUME NEW c \in Containers, AllocatePort(s, c) PROVE TypeOK'
    <2>1. PICK p \in Ports : port' = Set(port, c, p) /\ next' = After(p)
      BY <1>3 DEF AllocatePort
    <2>2. next' \in Ports
      BY <2>1, AfterType
    <2> QED
      BY <1>3, <2>1, <2>2 DEF AllocatePort
  <1>4. ASSUME NEW c \in Containers, Accepted(s, c) PROVE TypeOK'
    BY <1>4, AttemptAssumption DEF Accepted
  <1> QED
    BY <1>1, <1>2, <1>3, <1>4

\* The steps of one container.
LEMMA ContainerType ==
    ASSUME TypeOK, NEW c \in Containers,
           \/ StartContainer(c) \/ StartFails(c) \/ PortAnswers(c) \/ PortSilent(c)
           \/ RemoveWorker(c) \/ CallbackStep(c) \/ DestroyStep(c) \/ Listens(c) \/ Exits(c)
    PROVE  TypeOK'
  <1> USE DEF TypeOK, Set, agentVars, masterVars, spawnVars
  <1>1. CASE StartContainer(c) \/ StartFails(c) \/ Listens(c) \/ Exits(c)
    BY <1>1 DEF StartContainer, StartFails, Listens, Exits
  <1>2. CASE PortAnswers(c) \/ PortSilent(c) \/ RemoveWorker(c)
    BY <1>2 DEF PortAnswers, PortSilent, RemoveWorker
  <1>3. CASE CallbackStep(c)
    BY <1>3 DEF CallbackStep, CallbackArrives, CallbackFails
  <1>4. CASE DestroyStep(c)
    BY <1>4 DEF DestroyStep, Destroy, DestroyFails
  <1> QED
    BY <1>1, <1>2, <1>3, <1>4

\* The steps of a registration at the master.
LEMMA HandlerType ==
    ASSUME TypeOK, NEW h \in Handlers, RegisterArrives(h) \/ AdoptStep(h)
    PROVE  TypeOK'
  <1> USE DEF TypeOK, Set, agentVars, masterVars, spawnVars
  <1>1. CASE RegisterArrives(h)
    <2>1. sp' \in [Spawners -> {"idle", "post", "wait"}]
      BY <1>1 DEF RegisterArrives
    <2>2. regTries' \in 1..RegisterAttempts /\ reg' \in {"start", "post", "done"}
          /\ list' \subseteq Containers
      BY <1>1, AttemptAssumption DEF RegisterArrives, Registered
    <2> QED
      BY <1>1, <2>1, <2>2 DEF RegisterArrives
  <1>2. CASE Adopt(h)
    BY <1>2, NoneAssumption DEF Adopt
  <1>3. ASSUME NEW c \in Containers, SkipKnown(h, c) \/ Dial(h, c)
        PROVE  TypeOK'
    BY <1>3 DEF SkipKnown, Dial
  <1> QED
    BY <1>1, <1>2, <1>3 DEF AdoptStep

LEMMA AgentRestartType == TypeOK /\ AgentRestart => TypeOK'
  BY FirstPort, AttemptAssumption
  DEF TypeOK, AgentRestart, masterVars

LEMMA TypeStep == TypeOK /\ [Next]_vars => TypeOK'
  <1> SUFFICES ASSUME TypeOK, [Next]_vars
               PROVE  TypeOK'
    OBVIOUS
  <1>1. CASE ListWorkers
    BY <1>1 DEF TypeOK, ListWorkers, Up, masterVars, spawnVars
  <1>2. CASE RegisterFails
    BY <1>2, AttemptAssumption DEF TypeOK, RegisterFails, Registered, masterVars, spawnVars
  <1>3. CASE Clean
    BY <1>3 DEF TypeOK, Clean, masterVars, spawnVars
  <1>4. CASE UNCHANGED vars
    BY <1>4 DEF TypeOK, vars, agentVars, masterVars, spawnVars
  <1> QED
    BY <1>1, <1>2, <1>3, <1>4, SpawnType, ContainerType, HandlerType, AgentRestartType
    DEF Next, AgentStep, MasterStep, World

\* Every variable keeps its type whatever fails and restarts: in particular the
\* agent's port counter wraps inside its range (DockerManager.allocateHostPort),
\* and no attempt is counted past the last one.
THEOREM TypeCorrect == Spec => []TypeOK
  BY InitType, TypeStep, PTL DEF Spec

-----------------------------------------------------------------------------
(* No container is forgotten.                                              *)

\* What is owed stays owed while nothing it is read from changes.
LEMMA Keeps ==
    ASSUME IInv, UNCHANGED <<table, cb, destroying, reg, list, todo, cur>>,
           Up' \ lost' \subseteq Up \ lost
    PROVE  Accounted'
  BY DEF IInv, Accounted

LEMMA SpawnAccounted ==
    ASSUME IInv, NEW s \in Spawners,
           \/ Spawn(s) \/ AttemptFails(s)
           \/ \E c \in Containers : AllocatePort(s, c) \/ Accepted(s, c)
    PROVE  Accounted'
  <1> USE DEF agentVars, masterVars, spawnVars
  <1>1. CASE Spawn(s) \/ AttemptFails(s)
    BY <1>1, Keeps DEF Spawn, AttemptFails, Up
  <1>2. ASSUME NEW c \in Containers, AllocatePort(s, c) PROVE Accounted'
    <2>1. Up' \subseteq Up
      BY <1>2 DEF AllocatePort, Up, Set, IInv, TypeOK
    <2> QED
      BY <1>2, <2>1, Keeps DEF AllocatePort
  <1>3. ASSUME NEW c \in Containers, Accepted(s, c) PROVE Accounted'
    BY <1>3 DEF Accepted, IInv, Accounted, Up, Set, TypeOK
  <1> QED
    BY <1>1, <1>2, <1>3

\* A container is answered for by its callback from the moment it runs, until the
\* callback makes an entry or the container is lost.
LEMMA ContainerAccounted ==
    ASSUME IInv, NEW c \in Containers,
           \/ StartContainer(c) \/ StartFails(c) \/ PortAnswers(c) \/ PortSilent(c)
           \/ CallbackStep(c) \/ Listens(c) \/ Exits(c)
    PROVE  Accounted'
  <1> USE DEF IInv, TypeOK, Set, agentVars, masterVars, spawnVars
  <1>1. CASE StartContainer(c)
    BY <1>1 DEF StartContainer, Accounted, Up
  <1>2. CASE StartFails(c) \/ Listens(c) \/ Exits(c)
    <2>1. Up' \subseteq Up
      BY <1>2 DEF StartFails, Listens, Exits, Up
    <2> QED
      BY <1>2, <2>1, Keeps DEF StartFails, Listens, Exits
  <1>3. CASE PortAnswers(c) \/ PortSilent(c)
    BY <1>3 DEF PortAnswers, PortSilent, Accounted, Up
  <1>4. CASE CallbackStep(c)
    BY <1>4 DEF CallbackStep, CallbackArrives, CallbackFails, Accounted, Up
  <1> QED
    BY <1>1, <1>2, <1>3, <1>4

\* A worker that is removed from the table has its destroy call under way.
LEMMA RemovalAccounted ==
    ASSUME IInv, NEW c \in Containers, RemoveWorker(c) \/ DestroyStep(c)
    PROVE  Accounted'
  <1> USE DEF IInv, TypeOK, Set, agentVars, masterVars, spawnVars
  <1>1. CASE RemoveWorker(c)
    BY <1>1 DEF RemoveWorker, Accounted, Up
  <1>2. CASE Destroy(c)
    <2>1. Up' = Up \ {c}
      BY <1>2 DEF Destroy, Up
    <2> QED
      BY <1>2, <2>1 DEF Destroy, Accounted
  <1>3. CASE DestroyFails(c)
    BY <1>3 DEF DestroyFails, Accounted, Up
  <1> QED
    BY <1>1, <1>2, <1>3 DEF DestroyStep

\* The workers of a registration pass from the agent's list to the handler's, and
\* from there to the table, unless they are known already or their dial fails.
LEMMA RegistrationAccounted ==
    ASSUME IInv, NEW h \in Handlers, RegisterArrives(h) \/ AdoptStep(h)
    PROVE  Accounted'
  <1> USE DEF IInv, TypeOK, Set, agentVars, masterVars, spawnVars
  <1>1. CASE RegisterArrives(h)
    BY <1>1, NoneAssumption DEF RegisterArrives, Registered, Accounted, Up
  <1>2. CASE Adopt(h)
    BY <1>2, NoneAssumption DEF Adopt, Accounted, Up
  <1>3. ASSUME NEW c \in Containers, SkipKnown(h, c) PROVE Accounted'
    BY <1>3 DEF SkipKnown, Accounted, Up
  <1>4. ASSUME NEW c \in Containers, Dial(h, c) PROVE Accounted'
    BY <1>4, NoneAssumption DEF Dial, Accounted, Up
  <1> QED
    BY <1>1, <1>2, <1>3, <1>4 DEF AdoptStep

\* An agent that restarts is going to list what runs.
LEMMA AgentAccounted ==
    ASSUME IInv, AgentRestart \/ ListWorkers \/ RegisterFails \/ Clean
    PROVE  Accounted'
  <1> USE DEF IInv, TypeOK, masterVars, spawnVars
  <1>1. CASE AgentRestart
    BY <1>1 DEF AgentRestart, Accounted
  <1>2. CASE ListWorkers
    BY <1>2 DEF ListWorkers, Accounted, Up
  <1>3. CASE RegisterFails
    BY <1>3 DEF RegisterFails, Registered, Accounted, Up
  <1>4. CASE Clean
    <2>1. Up' = {}
      BY <1>4 DEF Clean, Up
    <2> QED
      BY <2>1 DEF Accounted
  <1> QED
    BY <1>1, <1>2, <1>3, <1>4

LEMMA AccountedStep == IInv /\ [Next]_vars => Accounted'
  <1> SUFFICES ASSUME IInv, [Next]_vars
               PROVE  Accounted'
    OBVIOUS
  <1>1. CASE UNCHANGED vars
    BY <1>1, Keeps DEF vars, agentVars, masterVars, Up
  <1> QED
    BY <1>1, SpawnAccounted, ContainerAccounted, RemovalAccounted, RegistrationAccounted,
       AgentAccounted
    DEF Next, AgentStep, MasterStep, World

LEMMA InitAccounted == Init => Accounted
  BY DEF Init, Accounted, Up

\* Lost answers, retries, restarts of the agent and removals orphan no container by
\* themselves (CreateWorker and waitAndCallback of the agent, agentRegisterHandler
\* and destroyWorkerOnAgent of the master): one that runs has an entry, or somebody
\* still has to report or destroy it, or its one callback, dial or destroy call has
\* failed.
THEOREM NoneForgotten == Spec => []Accounted
  <1>1. Init => IInv
    BY InitType, InitAccounted DEF IInv
  <1>2. IInv /\ [Next]_vars => IInv'
    BY TypeStep, AccountedStep DEF IInv
  <1> QED
    BY <1>1, <1>2, PTL DEF Spec, IInv

-----------------------------------------------------------------------------
(* The console.                                                            *)

Numbers ==
    /\ MaxHistory \in Nat \ {0} /\ ZoomWindow \in Nat \ {0} /\ ZoomShift \in Nat \ {0}
    /\ DialAttempts \in Nat /\ 0 \notin Workers /\ IsFiniteSet(Workers) /\ Addrs \subseteq Workers

LEMMA ParameterFacts == Numbers
  BY ParameterAssumption DEF Numbers

\* What a fetch brings has a length.
Fetched(f) == f.phase = "read" => Len(f.rows) \in Nat

\* A sequence of fetches, each well formed.
Pending(q) == (\E S : q \in Seq(S)) /\ \A i \in DOMAIN q : Fetched(q[i])

ConsoleTypes ==
    /\ workers \subseteq Workers /\ dial \in [w : Workers \cup {0}, n : Nat]
    /\ Pending(fetches)
    /\ Len(snap.rows) \in Nat /\ selected \in Nat
    /\ histLen \in 0..MaxHistory /\ zoomStart \in Nat \cup {-1}
    /\ vpReady \in BOOLEAN

ConsoleInv ==
    ConsoleTypes /\ CursorsInRange /\ ViewportCurrent /\ AddReplacesNobody

\* The steps that leave the view alone.
Behind == Cluster \/ TryDial \/ Tick \/ (\E i \in 1..MaxFetches : Read(i))
Asks == RefreshKey \/ DrainKey \/ RemoveKey \/ StrategyKey
Types == AddKey \/ (\E a \in Addrs : Enter(a))

LEMMA ConsoleClasses ==
    ASSUME ConsoleNext
    PROVE  \/ Behind \/ Asks \/ Types
           \/ WindowSize \/ Move \/ Zooming
           \/ \E t \in Tabs : SwitchTab(t)
           \/ \E i \in 1..MaxFetches : Deliver(i)
  BY DEF ConsoleNext, Keys, Fetch, Behind, Asks, Types

LEMMA ViewKept ==
    ASSUME Behind \/ Asks \/ Types
    PROVE  UNCHANGED <<snap, selected, tab, zoomStart, histLen, vpReady, shown>>
  <1>1. CASE Behind
    BY <1>1 DEF Behind, Cluster, Join, Leave, Load, DrainGo, TryDial, Tick,
                Read, view
  <1>2. CASE Asks
    BY <1>2 DEF Asks, RefreshKey, DrainKey, RemoveKey, StrategyKey, view
  <1>3. CASE Types
    BY <1>3 DEF Types, AddKey, Enter
  <1> QED
    BY <1>1, <1>2, <1>3

-----------------------------------------------------------------------------
(* The table and the dialing AddWorker.                                    *)

LEMMA TableStep ==
    ASSUME Numbers, ConsoleTypes, AddReplacesNobody, [ConsoleNext]_consoleVars
    PROVE  /\ workers' \subseteq Workers /\ dial' \in [w : Workers \cup {0}, n : Nat]
           /\ AddReplacesNobody'
  <1> DEFINE Safe == /\ workers' \subseteq Workers /\ dial' \in [w : Workers \cup {0}, n : Nat]
                     /\ dial'.w # 0 => dial'.w \notin workers'
  <1> SUFFICES Safe
    BY DEF AddReplacesNobody
  <1>0. /\ workers \subseteq Workers /\ dial \in [w : Workers \cup {0}, n : Nat]
        /\ dial.w # 0 => dial.w \notin workers
    BY DEF ConsoleTypes, AddReplacesNobody
  <1>1. ASSUME NEW w \in Workers, Join(w) \/ Leave(w) \/ DrainGo(w)
        PROVE  Safe
    BY <1>0, <1>1 DEF Join, Leave, DrainGo, LockFree
  <1>2. CASE TryDial
    <2>1. CASE workers' = workers \cup {dial.w} /\ dial' = [w |-> 0, n |-> 0]
      BY <1>0, <1>2, <2>1 DEF TryDial
    <2>2. CASE /\ workers' = workers
               /\ dial' = (IF dial.n > 1 THEN [dial EXCEPT !.n = @ - 1] ELSE [w |-> 0, n |-> 0])
      <3>1. CASE dial.n > 1
        BY <1>0, <2>2, <3>1
      <3>2. CASE ~(dial.n > 1)
        BY <1>0, <2>2, <3>2
      <3> QED
        BY <3>1, <3>2
    <2> QED
      BY <1>2, <2>1, <2>2 DEF TryDial, DialEnds
  <1>3. ASSUME NEW a \in Addrs, Enter(a)
        PROVE  Safe
    <2>1. workers' = workers /\ a \in Workers /\ dial.w = 0
      BY <1>3 DEF Enter, LockFree, Numbers
    <2>2. CASE a \in workers
      BY <1>0, <1>3, <2>1, <2>2 DEF Enter
    <2>3. CASE a \notin workers
      BY <1>0, <1>3, <2>1, <2>3 DEF Enter, Numbers
    <2> QED
      BY <2>2, <2>3
  <1>4. CASE RemoveKey
    BY <1>0, <1>4 DEF RemoveKey, Key, LockFree
  <1>5. ASSUME dial' = dial, workers' = workers
        PROVE  Safe
    BY <1>0, <1>5
  <1>6. CASE UNCHANGED consoleVars
    BY <1>5, <1>6 DEF consoleVars, router
  <1>7. CASE ConsoleNext
    <2>1. CASE Behind
      <3>1. ASSUME NEW w \in Workers, Load(w) PROVE Safe
        BY <1>5, <3>1 DEF Load
      <3>2. CASE Tick \/ \E i \in 1..MaxFetches : Read(i)
        BY <1>5, <3>2 DEF Tick, Read, router
      <3> QED
        BY <1>1, <1>2, <2>1, <3>1, <3>2 DEF Behind, Cluster
    <2>2. CASE Asks
      BY <1>4, <1>5, <2>2 DEF Asks, RefreshKey, DrainKey, StrategyKey, router
    <2>3. CASE Types
      BY <1>3, <1>5, <2>3 DEF Types, AddKey, router
    <2>4. CASE WindowSize \/ Move \/ Zooming
      BY <1>5, <2>4 DEF WindowSize, Move, Zooming, router
    <2>5. CASE \/ \E t \in Tabs : SwitchTab(t)
               \/ \E i \in 1..MaxFetches : Deliver(i)
      BY <1>5, <2>5 DEF SwitchTab, Deliver, router
    <2> QED
      BY <1>7, <2>1, <2>2, <2>3, <2>4, <2>5, ConsoleClasses
  <1> QED
    BY <1>6, <1>7

-----------------------------------------------------------------------------
(* The fetches: whatever is delivered, in whatever order, is a snapshot.   *)

LEMMA PendingAsked ==
    ASSUME NEW q, Pending(q)
    PROVE  Pending(Append(q, [phase |-> "asked"]))
  <1> DEFINE new == [phase |-> "asked"]
  <1>1. PICK S : q \in Seq(S)
    BY DEF Pending
  <1>2. Append(q, new) \in Seq(S \cup {new}) /\ Len(Append(q, new)) = Len(q) + 1
    BY <1>1, SeqMonotonic, AppendProperties, S \subseteq S \cup {new}
  <1>3. \A i \in 1..Len(q) + 1 : Append(q, new)[i] = IF i <= Len(q) THEN q[i] ELSE new
    BY <1>1
  <1>4. Fetched(new)
    BY DEF Fetched
  <1>5. DOMAIN q = 1..Len(q) /\ DOMAIN Append(q, new) = 1..Len(q) + 1 /\ Len(q) \in Nat
    BY <1>1, <1>2, LenProperties
  <1>6. ASSUME NEW i \in DOMAIN Append(q, new) PROVE Fetched(Append(q, new)[i])
    <2> HIDE DEF new
    <2>1. CASE i <= Len(q)
      BY <1>3, <1>5, <2>1 DEF Pending
    <2>2. CASE ~(i <= Len(q))
      BY <1>3, <1>4, <1>5, <2>2
    <2> QED
      BY <2>1, <2>2
  <1> QED
    BY <1>2, <1>6 DEF Pending

LEMMA PendingRead ==
    ASSUME NEW q, Pending(q), NEW i \in DOMAIN q, NEW f, Fetched(f)
    PROVE  Pending([q EXCEPT ![i] = f])
  <1>1. PICK S : q \in Seq(S)
    BY DEF Pending
  <1>2. q \in Seq(S \cup {f}) /\ DOMAIN q = 1..Len(q)
    BY <1>1, SeqMonotonic, LenProperties, S \subseteq S \cup {f}
  <1>3. [q EXCEPT ![i] = f] \in Seq(S \cup {f})
    BY <1>2, ExceptSeq
  <1>4. \A j \in DOMAIN q : [q EXCEPT ![i] = f][j] = IF j = i THEN f ELSE q[j]
    BY <1>2
  <1> QED
    BY <1>3, <1>4 DEF Pending

LEMMA PendingRemove ==
    ASSUME NEW q, Pending(q), NEW i \in DOMAIN q
    PROVE  Pending(RemoveAt(q, i))
  <1>1. PICK S : q \in Seq(S)
    BY DEF Pending
  <1>2. DOMAIN q = 1..Len(q) /\ Len(q) \in Nat /\ i \in 1..Len(q)
    BY <1>1, LenProperties
  <1> DEFINE a == SubSeq(q, 1, i - 1)
             b == SubSeq(q, i + 1, Len(q))
  <1>3. /\ a \in Seq(S) /\ Len(a) = i - 1
        /\ \A j \in 1..i - 1 : a[j] = q[j]
    <2>1. \A j \in 1..i - 1 : q[j] \in S
      BY <1>1, <1>2, ElementOfSeq
    <2>2. 1 \in Int /\ i - 1 \in Int /\ (IF 1 <= i - 1 THEN i - 1 - 1 + 1 ELSE 0) = i - 1
      BY <1>2
    <2>3. /\ a \in Seq(S) /\ Len(a) = IF 1 <= i - 1 THEN i - 1 - 1 + 1 ELSE 0
          /\ \A j \in 1..(i - 1) - 1 + 1 : a[j] = q[1 + j - 1]
      BY <2>1, <2>2, SubSeqProperties
    <2> QED
      BY <1>2, <2>2, <2>3
  <1>4. /\ b \in Seq(S) /\ Len(b) = Len(q) - i
        /\ \A j \in 1..Len(q) - i : b[j] = q[i + j]
    <2>1. \A j \in i + 1..Len(q) : q[j] \in S
      BY <1>1, <1>2, ElementOfSeq
    <2>2. i + 1 \in Int /\ Len(q) \in Int
          /\ (IF i + 1 <= Len(q) THEN Len(q) - (i + 1) + 1 ELSE 0) = Len(q) - i
      BY <1>2
    <2>3. /\ b \in Seq(S) /\ Len(b) = IF i + 1 <= Len(q) THEN Len(q) - (i + 1) + 1 ELSE 0
          /\ \A j \in 1..Len(q) - (i + 1) + 1 : b[j] = q[i + 1 + j - 1]
      BY <2>1, <2>2, SubSeqProperties
    <2> QED
      BY <1>2, <2>2, <2>3
  <1>5. RemoveAt(q, i) = a \o b
    BY DEF RemoveAt
  <1> HIDE DEF a, b
  <1>6. /\ a \o b \in Seq(S) /\ Len(a \o b) = Len(a) + Len(b)
        /\ \A j \in 1..Len(a) + Len(b) : (a \o b)[j] = IF j <= Len(a) THEN a[j] ELSE b[j - Len(a)]
        /\ DOMAIN (a \o b) = 1..Len(a \o b)
    BY <1>3, <1>4, ConcatProperties, LenProperties
  <1>7. ASSUME NEW j \in DOMAIN (a \o b)
        PROVE  Fetched((a \o b)[j])
    <2>1. j \in 1..(i - 1) + (Len(q) - i)
      BY <1>3, <1>4, <1>6
    <2>2. CASE j <= i - 1
      <3>1. (a \o b)[j] = q[j] /\ j \in DOMAIN q
        BY <1>2, <1>3, <1>4, <1>6, <2>1, <2>2
      <3> QED
        BY <3>1 DEF Pending
    <2>3. CASE ~(j <= i - 1)
      <3>1. (a \o b)[j] = b[j - (i - 1)]
        BY <1>3, <1>4, <1>6, <2>1, <2>3
      <3>2. j - (i - 1) \in 1..Len(q) - i /\ i + (j - (i - 1)) = j + 1 /\ j + 1 \in 1..Len(q)
        BY <1>2, <2>1, <2>3
      <3>3. (a \o b)[j] = q[j + 1] /\ j + 1 \in DOMAIN q
        BY <1>2, <1>4, <3>1, <3>2
      <3> QED
        BY <3>3 DEF Pending
    <2> QED
      BY <2>2, <2>3
  <1> QED
    BY <1>5, <1>6, <1>7 DEF Pending

LEMMA RowsFetched ==
    ASSUME Numbers, ConsoleTypes, NEW i \in 1..MaxFetches, Read(i)
    PROVE  Pending(fetches')
  <1> DEFINE sorted == SetToSortSeq(workers, <)
             n == Cardinality(workers)
             rows == [k \in 1..n |-> [w |-> sorted[k], n |-> displayed'[sorted[k]]]]
             new == [phase |-> "read", rows |-> rows, strategy |-> strategy]
  <1>1. fetches' = [fetches EXCEPT ![i] = new] /\ i \in DOMAIN fetches
    BY DEF Read
  <1>2. n \in Nat
    BY FS_Subset, FS_CardinalityType DEF ConsoleTypes, Numbers
  <1> HIDE DEF n, sorted
  <1>3. Len(rows) \in Nat
    <2>1. rows \in [1..n -> {rows[k] : k \in 1..n}]
      OBVIOUS
    <2> HIDE DEF rows
    <2>2. rows \in Seq({rows[k] : k \in 1..n})
      BY <1>2, <2>1, SeqDef
    <2> QED
      BY <2>2, LenProperties
  <1> HIDE DEF rows
  <1>4. Fetched(new)
    BY <1>3 DEF Fetched
  <1> HIDE DEF new
  <1> QED
    BY <1>1, <1>4, PendingRead DEF ConsoleTypes

LEMMA FetchStep ==
    ASSUME Numbers, ConsoleTypes, [ConsoleNext]_consoleVars
    PROVE  Pending(fetches')
  <1>0. Pending(fetches)
    BY DEF ConsoleTypes
  <1>1. ASSUME AskFetch PROVE Pending(fetches')
    BY <1>0, <1>1, PendingAsked DEF AskFetch
  <1>2. ASSUME fetches' = fetches PROVE Pending(fetches')
    BY <1>0, <1>2
  <1>3. ASSUME NEW i \in 1..MaxFetches, Deliver(i) PROVE Pending(fetches')
    BY <1>0, <1>3, PendingRemove DEF Deliver
  <1>4. CASE UNCHANGED consoleVars
    BY <1>2, <1>4 DEF consoleVars
  <1>5. CASE ConsoleNext
    <2>1. CASE Behind
      <3>1. CASE Cluster \/ TryDial
        BY <1>2, <3>1 DEF Cluster, Join, Leave, Load, DrainGo, TryDial
      <3>2. CASE Tick
        BY <1>1, <3>2 DEF Tick
      <3> QED
        BY <2>1, <3>1, <3>2, RowsFetched DEF Behind
    <2>2. CASE Asks
      BY <1>1, <2>2 DEF Asks, RefreshKey, DrainKey, RemoveKey, StrategyKey
    <2>3. CASE Types
      BY <1>1, <1>2, <2>3 DEF Types, AddKey, Enter
    <2>4. CASE WindowSize \/ Move \/ Zooming \/ \E t \in Tabs : SwitchTab(t)
      BY <1>2, <2>4 DEF WindowSize, Move, Zooming, SwitchTab
    <2> QED
      BY <1>3, <1>5, <2>1, <2>2, <2>3, <2>4, ConsoleClasses
  <1> QED
    BY <1>4, <1>5

-----------------------------------------------------------------------------
(* The view.                                                               *)

CursorTypes ==
    /\ Len(snap.rows) \in Nat /\ selected \in Nat
    /\ histLen \in 0..MaxHistory /\ zoomStart \in Nat \cup {-1}
    /\ vpReady \in BOOLEAN

\* A refresh puts both cursors back into what it brought.
LEMMA DeliverCursors ==
    ASSUME Numbers, ConsoleTypes, CursorsInRange, NEW i \in 1..MaxFetches, Deliver(i)
    PROVE  CursorTypes' /\ CursorsInRange'
  <1>1. snap' = [rows |-> fetches[i].rows, strategy |-> fetches[i].strategy]
    BY DEF Deliver, Refresh
  <1>2. Len(snap'.rows) \in Nat
    BY <1>1 DEF Deliver, ConsoleTypes, Pending, Fetched
  <1>3. selected' \in Nat /\ (Len(snap'.rows) > 0 => selected' < Len(snap'.rows))
    <2>1. selected' = Clamp(selected, Len(snap'.rows)) /\ selected \in Nat
      BY DEF Deliver, Refresh, ConsoleTypes
    <2> QED
      BY <1>2, <2>1 DEF Clamp, Larger
  <1>4. histLen' \in 0..MaxHistory /\ histLen' > 0
    <2>1. histLen' = Smaller(histLen + 1, MaxHistory) /\ histLen \in 0..MaxHistory
      BY DEF Deliver, Refresh, ConsoleTypes
    <2> QED
      BY <2>1 DEF Smaller, Numbers
  <1>5. zoomStart' \in Nat \cup {-1} /\ (zoomStart' > 0 => zoomStart' < histLen')
    <2>1. /\ zoomStart' = IF zoomStart >= histLen' THEN Larger(0, histLen' - 1) ELSE zoomStart
          /\ zoomStart \in Nat \cup {-1}
      BY DEF Deliver, Refresh, ConsoleTypes
    <2>2. histLen' \in Int /\ histLen' > 0
      BY <1>4 DEF Numbers
    <2>3. CASE zoomStart >= histLen'
      <3>1. zoomStart' = IF 0 > histLen' - 1 THEN 0 ELSE histLen' - 1
        BY <2>1, <2>3 DEF Larger
      <3>2. \A h \in Int : h > 0 => ~(0 > h - 1) /\ h - 1 \in Nat /\ h - 1 < h
        OBVIOUS
      <3>3. histLen' - 1 \in Nat /\ histLen' - 1 < histLen' /\ zoomStart' = histLen' - 1
        BY <2>2, <3>1, <3>2, Zenon
      <3> QED
        BY <3>3
    <2>4. CASE ~(zoomStart >= histLen')
      <3>1. zoomStart' = zoomStart /\ zoomStart \in Int
        BY <2>1, <2>4
      <3> QED
        BY <2>1, <2>2, <2>4, <3>1
    <2> QED
      BY <2>3, <2>4
  <1>6. vpReady' \in BOOLEAN
    BY DEF Deliver, ConsoleTypes
  <1> QED
    BY <1>2, <1>3, <1>4, <1>5, <1>6 DEF CursorTypes, CursorsInRange

LEMMA KeyCursors ==
    ASSUME Numbers, ConsoleTypes, CursorsInRange, Move \/ Zooming
    PROVE  CursorTypes' /\ CursorsInRange'
  <1>0. snap' = snap /\ histLen' = histLen /\ vpReady' = vpReady
    BY DEF Move, Zooming, KeepsView
  <1>1. CASE Move
    <2>1. /\ zoomStart' = zoomStart
          /\ \/ selected > 0 /\ selected' = selected - 1
             \/ selected < Len(snap.rows) - 1 /\ selected' = selected + 1
      BY <1>1 DEF Move
    <2> DEFINE n == Len(snap.rows)
    <2>2. n \in Nat /\ selected \in Nat /\ (n > 0 => selected < n)
      BY DEF ConsoleTypes, CursorsInRange
    <2>3. selected' \in Nat /\ (n > 0 => selected' < n)
      <3> HIDE DEF n
      <3>1. \/ selected > 0 /\ selected' = selected - 1
            \/ selected < n - 1 /\ selected' = selected + 1
        BY <2>1 DEF n
      <3> QED
        BY <2>2, <3>1
    <2> QED
      BY <1>0, <2>1, <2>2, <2>3 DEF ConsoleTypes, CursorTypes, CursorsInRange
  <1>2. CASE Zooming
    <2>1. selected' = selected /\ (Zoom \/ Shift)
      BY <1>2 DEF Zooming
    <2>2. histLen \in Nat /\ zoomStart \in Nat \cup {-1} /\ (zoomStart > 0 => zoomStart < histLen)
      BY DEF ConsoleTypes, CursorsInRange, Numbers
    <2>3. zoomStart' \in Nat \cup {-1} /\ (zoomStart' > 0 => zoomStart' < histLen)
      BY <2>1, <2>2 DEF Zoom, Shift, Larger, Smaller, Numbers
    <2> QED
      BY <1>0, <2>1, <2>3 DEF ConsoleTypes, CursorTypes, CursorsInRange
  <1> QED
    BY <1>1, <1>2

LEMMA CursorStep ==
    ASSUME Numbers, ConsoleTypes, CursorsInRange, [ConsoleNext]_consoleVars
    PROVE  CursorTypes' /\ CursorsInRange'
  <1>1. ASSUME UNCHANGED <<snap, selected, zoomStart, histLen>>, vpReady' \in BOOLEAN
        PROVE  CursorTypes' /\ CursorsInRange'
    BY <1>1 DEF ConsoleTypes, CursorTypes, CursorsInRange
  <1>2. vpReady \in BOOLEAN
    BY DEF ConsoleTypes
  <1>3. CASE UNCHANGED consoleVars
    BY <1>1, <1>2, <1>3 DEF consoleVars, view
  <1>4. CASE Behind \/ Asks \/ Types
    BY <1>1, <1>2, <1>4, ViewKept
  <1>5. CASE WindowSize \/ \E t \in Tabs : SwitchTab(t)
    BY <1>1, <1>2, <1>5 DEF WindowSize, SwitchTab, KeepsView
  <1> QED
    BY <1>3, <1>4, <1>5, DeliverCursors, KeyCursors, ConsoleClasses

\* Every step that changes what the body shows renders it, after its last change.
LEMMA ViewportStep ==
    ASSUME ViewportCurrent, [ConsoleNext]_consoleVars
    PROVE  ViewportCurrent'
  <1>1. ASSUME UNCHANGED <<snap, selected, tab, zoomStart, histLen, vpReady, shown>>
        PROVE  ViewportCurrent'
    BY <1>1 DEF ViewportCurrent, Body
  <1>2. ASSUME SetContent, vpReady' = vpReady
        PROVE  ViewportCurrent'
    BY <1>2 DEF ViewportCurrent, SetContent, Body
  <1>3. CASE UNCHANGED consoleVars
    BY <1>1, <1>3 DEF consoleVars, view
  <1>4. CASE Behind \/ Asks \/ Types
    BY <1>1, <1>4, ViewKept
  <1>5. CASE WindowSize
    BY <1>5 DEF WindowSize, ViewportCurrent, Body
  <1>6. CASE Move \/ Zooming
    BY <1>2, <1>6 DEF Move, Zooming, KeepsView
  <1>7. ASSUME NEW t \in Tabs, SwitchTab(t)
        PROVE  ViewportCurrent'
    BY <1>7 DEF SwitchTab, KeepsView, ViewportCurrent, Body
  <1>8. ASSUME NEW i \in 1..MaxFetches, Deliver(i)
        PROVE  ViewportCurrent'
    BY <1>2, <1>8 DEF Deliver, Refresh
  <1> QED
    BY <1>3, <1>4, <1>5, <1>6, <1>7, <1>8, ConsoleClasses

-----------------------------------------------------------------------------
LEMMA ConsoleStart == ConsoleInit => ConsoleInv
  <1> SUFFICES ASSUME ConsoleInit
               PROVE  ConsoleInv
    OBVIOUS
  <1>1. Pending(fetches)
    <2>1. fetches = <<[phase |-> "asked"]>> /\ Fetched([phase |-> "asked"])
      BY DEF ConsoleInit, Fetched
    <2> DEFINE f == [phase |-> "asked"]
    <2> HIDE DEF f
    <2>2. fetches = <<f>> /\ Fetched(f)
      BY <2>1 DEF f
    <2>3. <<f>> \in Seq({f}) /\ DOMAIN <<f>> = {1} /\ <<f>>[1] = f
      OBVIOUS
    <2> QED
      BY <2>2, <2>3 DEF Pending
  <1>2. Len(snap.rows) = 0 /\ snap.rows = <<>>
    BY DEF ConsoleInit
  <1>3. /\ workers = {} /\ dial = [w |-> 0, n |-> 0] /\ selected = 0 /\ histLen = 0
        /\ zoomStart = -1 /\ vpReady = FALSE
    BY DEF ConsoleInit
  <1>4. ConsoleTypes
    <2>1. dial \in [w : Workers \cup {0}, n : Nat]
      BY <1>3
    <2>2. 0 \in 0..MaxHistory /\ -1 \in Nat \cup {-1}
      BY ParameterFacts DEF Numbers
    <2> QED
      BY <1>1, <1>2, <1>3, <2>1, <2>2 DEF ConsoleTypes
  <1> QED
    BY <1>2, <1>3, <1>4 DEF ConsoleInv, CursorsInRange, ViewportCurrent, AddReplacesNobody

LEMMA ConsoleStep == ConsoleInv /\ [ConsoleNext]_consoleVars => ConsoleInv'
  <1> SUFFICES ASSUME Numbers, ConsoleInv, [ConsoleNext]_consoleVars
               PROVE  ConsoleInv'
    BY ParameterFacts
  <1>1. ConsoleTypes /\ CursorsInRange /\ ViewportCurrent /\ AddReplacesNobody
    BY DEF ConsoleInv
  <1>2. CursorTypes' /\ CursorsInRange'
    BY <1>1, CursorStep
  <1>3. Pending(fetches)'
    BY <1>1, FetchStep
  <1>4. /\ workers' \subseteq Workers /\ dial' \in [w : Workers \cup {0}, n : Nat]
        /\ AddReplacesNobody'
    BY <1>1, TableStep
  <1> QED
    BY <1>1, <1>2, <1>3, <1>4, ViewportStep DEF ConsoleInv, ConsoleTypes, CursorTypes

LEMMA ConsoleInvariant == ConsoleSpec => []ConsoleInv
  <1>1. ConsoleInit => ConsoleInv
    BY ConsoleStart
  <1>2. ConsoleInv /\ [ConsoleNext]_consoleVars => ConsoleInv'
    BY ConsoleStep
  <1> QED
    BY <1>1, <1>2, PTL DEF ConsoleSpec

\* "d" and "x" index the snapshot inside its rows, and the zoom starts inside the
\* history, however late and in whatever order snapshots arrive.
THEOREM CursorsStayInRange == ConsoleSpec => []CursorsInRange
  <1>1. ConsoleInv => CursorsInRange
    BY DEF ConsoleInv
  <1> QED
    BY <1>1, ConsoleInvariant, PTL

\* What the viewport holds is what the next key acts on, after every message, key and
\* change of the cluster: no handler renders before its last change.
THEOREM ViewportStaysCurrent == ConsoleSpec => []ViewportCurrent
  <1>1. ConsoleInv => ViewportCurrent
    BY DEF ConsoleInv
  <1> QED
    BY <1>1, ConsoleInvariant, PTL

\* AddWorker holds the table's lock from its check to its insertion, through every
\* attempt to dial: the worker it inserts is not in the table.
THEOREM AddNeverReplaces == ConsoleSpec => []AddReplacesNobody
  <1>1. ConsoleInv => AddReplacesNobody
    BY DEF ConsoleInv
  <1> QED
    BY <1>1, ConsoleInvariant, PTL

-----------------------------------------------------------------------------
(* The warnings of the autoscaling tab.                                    *)

Actions == {"up", "down"}

\* The neighbours that differ are counted among the positions up to the last one.
LEMMA TurnsBound ==
    ASSUME NEW s, NEW hi \in Nat \ {0}, Len(s) \in Nat,
           \A i \in 2..Len(s) : i > hi => s[i] = s[i - 1]
    PROVE  Turns(s) \in Nat /\ Turns(s) <= hi - 1
  <1> DEFINE turns == {i \in 2..Len(s) : s[i] # s[i - 1]}
  <1>1. turns \subseteq 2..hi
    OBVIOUS
  <1>2. IsFiniteSet(2..hi) /\ Cardinality(2..hi) = hi - 1
    BY FS_Interval
  <1>3. Turns(s) = Cardinality(turns)
    BY DEF Turns
  <1> HIDE DEF turns
  <1> QED
    BY <1>1, <1>2, <1>3, FS_Subset, FS_CardinalityType

LEMMA TurnsAll ==
    ASSUME NEW s, Len(s) \in Nat \ {0}, \A i \in 2..Len(s) : s[i] # s[i - 1]
    PROVE  Turns(s) = Len(s) - 1
  <1>1. {i \in 2..Len(s) : s[i] # s[i - 1]} = 2..Len(s)
    OBVIOUS
  <1>2. Cardinality(2..Len(s)) = Len(s) - 1
    BY FS_Interval
  <1> QED
    BY <1>1, <1>2 DEF Turns

\* The last n elements of s, or all of them.
LEMMA LatestFacts ==
    ASSUME NEW s \in Seq(Actions), Len(s) >= 1, NEW n \in Nat \ {0},
           NEW m \in Nat, m = IF Len(s) < n THEN Len(s) ELSE n
    PROVE  /\ Len(Latest(s, n)) = m
           /\ \A i \in 1..m : Latest(s, n)[i] = s[Len(s) - m + i]
  <1> DEFINE len == Len(s)
             from == len - m + 1
  <1>1. /\ len \in Nat /\ len >= 1 /\ \A i \in 1..len : s[i] \in Actions
        /\ m = IF len < n THEN len ELSE n
    BY LenProperties, ElementOfSeq
  <1> HIDE DEF len
  <1>2. from \in 1..len /\ from \in Int /\ len \in Int /\ len - from + 1 = m /\ from <= len
    BY <1>1
  <1>3. from = Larger(1, len - n + 1)
    <2>1. CASE len < n
      <3>1. from = 1 /\ 1 > len - n + 1
        BY <1>1, <2>1
      <3>2. Larger(1, len - n + 1) = IF 1 > len - n + 1 THEN 1 ELSE len - n + 1
        BY DEF Larger
      <3> QED
        BY <1>1, <2>1, <3>1, <3>2
    <2>2. CASE ~(len < n)
      <3>0. m = n /\ len \in Int /\ n \in Int /\ len >= n
        BY <1>1, <2>2
      <3>1. from = len - n + 1
        BY <3>0
      <3>2. \A x, y \in Int : x >= y => ~(1 > x - y + 1)
        OBVIOUS
      <3>3. ~(1 > len - n + 1)
        BY <3>0, <3>2, Zenon
      <3> QED
        BY <3>1, <3>3, Zenon DEF Larger
    <2> QED
      BY <2>1, <2>2
  <1>4. Latest(s, n) = SubSeq(s, from, len)
    BY <1>3 DEF Latest, len
  <1> HIDE DEF from
  <1>5. /\ Len(SubSeq(s, from, len)) = IF from <= len THEN len - from + 1 ELSE 0
        /\ \A i \in 1..len - from + 1 : SubSeq(s, from, len)[i] = s[from + i - 1]
    <2>1. \A i \in from..len : s[i] \in Actions
      BY <1>1, <1>2
    <2> QED
      BY <1>1, <1>2, <2>1, SubSeqProperties
  <1>6. \A i \in 1..m : from + i - 1 = len - m + i
    BY <1>1 DEF from
  <1> QED
    BY <1>2, <1>4, <1>5, <1>6 DEF len

\* A run of one action appended to a history.
LEMMA RunFacts ==
    ASSUME NEW n \in Nat, NEW s \in [1..n -> Actions], NEW d \in Actions, NEW k \in Nat,
           NEW run \in [1..k -> {d}]
    PROVE  /\ s \o run \in Seq(Actions) /\ Len(s \o run) = n + k
           /\ \A i \in n + 1..n + k : (s \o run)[i] = d
  <1>1. run \in [1..k -> Actions] /\ \A i \in 1..k : run[i] = d
    OBVIOUS
  <1>2. s \in Seq(Actions) /\ run \in Seq(Actions)
    BY <1>1, SeqDef
  <1>3. Len(s) = n /\ Len(run) = k
    BY <1>1, <1>2, LenProperties
  <1>4. /\ s \o run \in Seq(Actions) /\ Len(s \o run) = Len(s) + Len(run)
        /\ \A i \in 1..Len(s) + Len(run) :
              (s \o run)[i] = IF i <= Len(s) THEN s[i] ELSE run[i - Len(s)]
    BY <1>2, ConcatProperties
  <1>5. ASSUME NEW i \in n + 1..n + k
        PROVE  (s \o run)[i] = d
    <2>1. i \in 1..n + k /\ ~(i <= n) /\ i - n \in 1..k
      OBVIOUS
    <2>2. (s \o run)[i] = run[i - n]
      BY <1>3, <1>4, <2>1
    <2> QED
      BY <1>1, <2>1, <2>2
  <1> QED
    BY <1>3, <1>4, <1>5

LEMMA OscillationEnds ==
    ASSUME NEW n \in Nat, NEW s \in [1..n -> Actions], NEW d \in Actions
    PROVE  ~DetectOscillation(s \o [i \in 1..5 |-> d])
  <1>1. PICK t : t = s \o [i \in 1..5 |-> d]
    OBVIOUS
  <1>2. t \in Seq(Actions) /\ Len(t) = n + 5 /\ \A i \in n + 1..n + 5 : t[i] = d
    <2>1. PICK k \in Nat : k = 5
      OBVIOUS
    <2>2. PICK run : run = [i \in 1..k |-> d]
      OBVIOUS
    <2>3. run \in [1..k -> {d}] /\ t = s \o run
      BY <1>1, <2>1, <2>2
    <2>4. /\ s \o run \in Seq(Actions) /\ Len(s \o run) = n + k
          /\ \A i \in n + 1..n + k : (s \o run)[i] = d
      BY <2>3, RunFacts
    <2> QED
      BY <2>1, <2>3, <2>4
  <1>3. PICK m \in Nat : m = (IF n + 5 < 12 THEN n + 5 ELSE 12) /\ m >= 5 /\ m <= 12
    OBVIOUS
  <1> DEFINE last == Latest(t, 12)
  <1>4. Len(last) = m /\ \A i \in 1..m : last[i] = t[n + 5 - m + i]
    <2>1. 12 \in Nat \ {0} /\ Len(t) >= 1 /\ m = IF Len(t) < 12 THEN Len(t) ELSE 12
      BY <1>2, <1>3
    <2>2. Len(last) = m /\ \A i \in 1..m : last[i] = t[Len(t) - m + i]
      BY <1>2, <2>1, LatestFacts, Zenon
    <2> QED
      BY <1>2, <2>2
  <1> HIDE DEF last
  <1>5. Turns(last) \in Nat /\ Turns(last) <= m - 5
    <2>1. \A i \in m - 4..m : last[i] = d
      <3> TAKE i \in m - 4..m
      <3>1. i \in 1..m /\ n + 5 - m + i \in n + 1..n + 5
        BY <1>3
      <3> QED
        BY <1>2, <1>4, <3>1
    <2>2. \A i \in 2..m : i > m - 4 => last[i] = last[i - 1]
      BY <1>3, <2>1
    <2>3. m - 4 \in Nat \ {0} /\ (m - 4) - 1 = m - 5
      BY <1>3
    <2> QED
      BY <1>4, <2>2, <2>3, TurnsBound
  <1>6. ~(10 * Turns(last) > 7 * (m - 1))
    BY <1>3, <1>5
  <1> QED
    BY <1>1, <1>4, <1>6 DEF DetectOscillation, last

LEMMA OverscalingEnds ==
    ASSUME NEW n \in Nat, NEW s \in [1..n -> Actions], NEW d \in Actions, NEW soon
    PROVE  ~DetectOverscaling(s \o [i \in 1..4 |-> d], soon)
  <1>1. PICK t : t = s \o [i \in 1..4 |-> d]
    OBVIOUS
  <1>2. t \in Seq(Actions) /\ Len(t) = n + 4 /\ \A i \in n + 1..n + 4 : t[i] = d
    <2>1. PICK k \in Nat : k = 4
      OBVIOUS
    <2>2. PICK run : run = [i \in 1..k |-> d]
      OBVIOUS
    <2>3. run \in [1..k -> {d}] /\ t = s \o run
      BY <1>1, <2>1, <2>2
    <2>4. /\ s \o run \in Seq(Actions) /\ Len(s \o run) = n + k
          /\ \A i \in n + 1..n + k : (s \o run)[i] = d
      BY <2>3, RunFacts
    <2> QED
      BY <2>1, <2>3, <2>4
  <1>3. ASSUME NEW i \in (n + 4) - 2..n + 4
        PROVE  t[i] = t[i - 1]
    <2>1. i \in n + 1..n + 4 /\ i - 1 \in n + 1..n + 4
      OBVIOUS
    <2> QED
      BY <1>2, <2>1
  <1> QED
    BY <1>1, <1>2, <1>3 DEF DetectOverscaling

LEMMA AlternationReported ==
    ASSUME NEW n \in Nat, n >= 6, NEW s \in [1..n -> Actions],
           \A i \in 2..n : s[i] # s[i - 1]
    PROVE  DetectOscillation(s) /\ DetectOverscaling(s, 2..n)
  <1>1. s \in Seq(Actions) /\ Len(s) = n
    BY SeqDef, LenProperties
  <1>2. DetectOscillation(s)
    <2>1. PICK m \in Nat : m = (IF n < 12 THEN n ELSE 12) /\ m >= 6 /\ m <= n
      OBVIOUS
    <2> DEFINE last == Latest(s, 12)
    <2>2. Len(last) = m /\ \A i \in 1..m : last[i] = s[n - m + i]
      <3>1. 12 \in Nat \ {0} /\ Len(s) >= 1 /\ m = IF Len(s) < 12 THEN Len(s) ELSE 12
        BY <1>1, <2>1
      <3>2. Len(last) = m /\ \A i \in 1..m : last[i] = s[Len(s) - m + i]
        BY <1>1, <3>1, LatestFacts, Zenon
      <3> QED
        BY <1>1, <3>2
    <2> HIDE DEF last
    <2>3. \A i \in 2..m : last[i] # last[i - 1]
      <3> TAKE i \in 2..m
      <3>1. /\ i \in 1..m /\ i - 1 \in 1..m /\ n - m + i \in 2..n
            /\ n - m + (i - 1) = (n - m + i) - 1
        BY <2>1
      <3> QED
        BY <2>2, <3>1
    <2>4. Turns(last) = m - 1
      <3>1. Len(last) \in Nat \ {0} /\ \A i \in 2..Len(last) : last[i] # last[i - 1]
        BY <2>1, <2>2, <2>3
      <3> QED
        BY <2>2, <3>1, TurnsAll
    <2>5. 10 * (m - 1) > 7 * (m - 1)
      BY <2>1
    <2> QED
      BY <1>1, <2>2, <2>4, <2>5 DEF DetectOscillation, last
  <1>3. \E i \in n - 2..n : s[i] = "down" /\ s[i - 1] = "up" /\ i \in 2..n
    <2>1. /\ n - 2 \in 2..n /\ n - 1 \in 2..n /\ n - 1 \in n - 2..n /\ n - 2 \in n - 2..n
          /\ (n - 1) - 1 = n - 2 /\ {n - 3, n - 2, n - 1} \subseteq 1..n /\ (n - 2) - 1 = n - 3
      OBVIOUS
    <2>2. s[n - 1] # s[n - 2] /\ s[n - 2] # s[n - 3]
      BY <2>1
    <2>3. s[n - 1] \in Actions /\ s[n - 2] \in Actions /\ s[n - 3] \in Actions
      BY <2>1
    <2>4. CASE s[n - 1] = "down"
      BY <2>1, <2>2, <2>3, <2>4 DEF Actions
    <2>5. CASE s[n - 1] = "up"
      BY <2>1, <2>2, <2>3, <2>5 DEF Actions
    <2> QED
      BY <2>3, <2>4, <2>5 DEF Actions
  <1> QED
    BY <1>1, <1>2, <1>3 DEF DetectOverscaling

\* What the autoscaling tab says, for histories of any length: after five actions one
\* way nothing oscillates, after four nothing overscales, and strict alternation is
\* always reported.
THEOREM WarningsAlwaysSettle == \A limit \in Nat : WarningsSettle(limit)
  <1> SUFFICES ASSUME NEW limit \in Nat
               PROVE  WarningsSettle(limit)
    OBVIOUS
  <1>1. ASSUME NEW n \in 0..limit, NEW s \in [1..n -> {"up", "down"}]
        PROVE  /\ \A d \in {"up", "down"} :
                    /\ ~DetectOscillation(s \o [i \in 1..5 |-> d])
                    /\ ~DetectOverscaling(s \o [i \in 1..4 |-> d], 1..(n + 4))
               /\ n >= 6 /\ (\A i \in 2..n : s[i] # s[i - 1]) =>
                    DetectOscillation(s) /\ DetectOverscaling(s, 2..n)
    <2>1. n \in Nat
      OBVIOUS
    <2> QED
      BY <2>1, OscillationEnds, OverscalingEnds, AlternationReported DEF Actions
  <1> QED
    BY <1>1 DEF WarningsSettle

\* Whenever the operator looks at the autoscaling tab, its warnings follow what the
\* autoscaler has done last.
THEOREM WarningsFollow == ConsoleSpec => []WarningsEnd
  <1>1. WarningsEnd
    BY WarningsAlwaysSettle DEF WarningsEnd, SettleUpToTen
  <1> QED
    BY <1>1, PTL
=============================================================================
