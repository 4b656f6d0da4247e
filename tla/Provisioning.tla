---------------------------- MODULE Provisioning ----------------------------
(***************************************************************************)
(* How worker containers come and go between the master and one agent:    *)
(* create requests with retries, the agent's port counter, the ready      *)
(* callback, the registration of the agent with the workers that survived *)
(* it, removal and destruction.  Every HTTP call may fail before or after *)
(* the other side has acted on it, and the agent may restart.             *)
(***************************************************************************)
EXTENDS Naturals, FiniteSets

CONSTANTS
    Containers,         \* worker ids
    Spawners,           \* master goroutines that ask for a worker
    Handlers,           \* master goroutines that serve /agents/register
    NoSpawner, NoContainer,
    PortStart, PortEnd, \* AgentConfig
    MaxAttempts,        \* attempts of a create request
    RegisterAttempts    \* maxAttempts of RegisterWithMaster

ASSUME PortAssumption == PortStart \in Nat /\ PortEnd \in Nat /\ PortStart <= PortEnd
ASSUME AttemptAssumption == MaxAttempts \in Nat \ {0} /\ RegisterAttempts \in Nat \ {0}
ASSUME NoneAssumption == NoSpawner \notin Spawners /\ NoContainer \notin Containers

VARIABLES
    box,        \* a container: "none", "allocated" (it has a port), "running", "serving"
    port, next, \* its host port; DockerManager.next
    cb,         \* waitAndCallback: "none", "polling", "sent"
    for,        \* the create request the agent's answer about a container belongs to
    list,       \* the workers in the agent's registration
    reg, regTries, \* the agent's registration: "start", "post", "done"; its attempt
    table,      \* Router.workers: "none", "STARTING", "HEALTHY" (drains are in Routing)
    destroying, \* destroyWorkerOnAgent calls under way
    sp, tries,  \* create requests: "idle", "post", "wait"; their attempt
    todo, cur,  \* registrations being served: workers left, worker being dialled
    lost        \* containers nobody will report any more (history)

agentVars == <<box, port, next, cb, list, reg, regTries>>
masterVars == <<table, destroying, todo, cur>>
spawnVars == <<for, sp, tries>>
vars == <<agentVars, masterVars, spawnVars, lost>>

Ports == PortStart..PortEnd
Up == {c \in Containers : box[c] \in {"running", "serving"}}
Listening(p) == \E c \in Containers : box[c] = "serving" /\ port[c] = p
Set(f, x, v) == [f EXCEPT ![x] = v]

Init ==
    /\ box = [c \in Containers |-> "none"] /\ port = [c \in Containers |-> PortStart]
    /\ next = PortStart /\ cb = [c \in Containers |-> "none"]
    /\ list = {} /\ reg = "start" /\ regTries = 1
    /\ table = [c \in Containers |-> "none"] /\ destroying = {}
    /\ todo = [h \in Handlers |-> {}] /\ cur = [h \in Handlers |-> NoContainer]
    /\ for = [c \in Containers |-> NoSpawner]
    /\ sp = [s \in Spawners |-> "idle"] /\ tries = [s \in Spawners |-> 1] /\ lost = {}

-----------------------------------------------------------------------------
(* Creating a worker *)

\* fireSpawnRequest, or spawnWorkerWithRetry of the autoscaler.
Spawn(s) ==
    /\ sp[s] = "idle" /\ sp' = Set(sp, s, "post")
    /\ UNCHANGED <<agentVars, masterVars, for, tries, lost>>

\* An attempt fails: refused, timed out, or the answer is an error or gets lost.
Fails(s) ==
    IF tries[s] < MaxAttempts
    THEN sp' = Set(sp, s, "post") /\ tries' = Set(tries, s, tries[s] + 1)
    ELSE sp' = Set(sp, s, "idle") /\ tries' = Set(tries, s, 1)

AttemptFails(s) ==
    /\ sp[s] # "idle" /\ Fails(s)
    /\ for' = [c \in Containers |-> IF for[c] = s THEN NoSpawner ELSE for[c]]
    /\ UNCHANGED <<agentVars, masterVars, lost>>

\* Mutant of After: the counter does not wrap.
AfterUnwrapped(p) == p + 1

\* The port counter after p.
After(p) == IF p + 1 > PortEnd THEN PortStart ELSE p + 1

\* The ports allocateHostPort looks at before p.
Skipped(p) == IF next <= p THEN next..(p - 1) ELSE Ports \ (p..(next - 1))

\* An id nothing refers to any more; the code's ids are never used twice.
Fresh(c) ==
    /\ box[c] = "none" /\ table[c] = "none" /\ cb[c] = "none" /\ for[c] = NoSpawner
    /\ c \notin list \cup destroying /\ \A h \in Handlers : c \notin todo[h] /\ c # cur[h]

\* CreateWorker up to allocateHostPort: the next port nobody listens on.
AllocatePort(s, c) ==
    /\ sp[s] = "post" /\ sp' = Set(sp, s, "wait") /\ Fresh(c)
    /\ \E p \in Ports :
         /\ ~Listening(p) /\ \A q \in Skipped(p) : Listening(q)
         /\ port' = Set(port, c, p) /\ next' = After(p)
    /\ box' = Set(box, c, "allocated") /\ for' = Set(for, c, s)
    /\ UNCHANGED <<cb, list, reg, regTries, masterVars, tries, lost>>

\* Mutant of StartContainer: the callback is for callers that still wait.
StartContainerForCaller(c) ==
    /\ box[c] = "allocated" /\ box' = Set(box, c, "running")
    /\ cb' = Set(cb, c, IF for[c] # NoSpawner THEN "polling" ELSE "none")
    /\ UNCHANGED <<port, next, list, reg, regTries, masterVars, spawnVars, lost>>

\* ContainerCreate and ContainerStart succeed; the handler leaves waitAndCallback
\* behind and answers 202, whether or not anybody still waits for the answer.
StartContainer(c) ==
    /\ box[c] = "allocated" /\ box' = Set(box, c, "running")
    /\ cb' = Set(cb, c, "polling")
    /\ UNCHANGED <<port, next, list, reg, regTries, masterVars, spawnVars, lost>>

\* One of them fails; what was created is removed.
StartFails(c) ==
    /\ box[c] = "allocated" /\ box' = Set(box, c, "none")
    /\ UNCHANGED <<port, next, cb, list, reg, regTries, masterVars, spawnVars, lost>>

\* The answer arrives: NewStartingWorker replaces whatever has the id.
Accepted(s, c) ==
    /\ sp[s] = "wait" /\ for[c] = s /\ box[c] # "allocated"
    /\ table' = Set(table, c, "STARTING") /\ for' = Set(for, c, NoSpawner)
    /\ sp' = Set(sp, s, "idle") /\ tries' = Set(tries, s, 1)
    /\ UNCHANGED <<agentVars, destroying, todo, cur, lost>>

-----------------------------------------------------------------------------
(* The container gets ready *)

\* The worker process listens on its port; Docker restarts one that exits.
Listens(c) ==
    /\ box[c] = "running" /\ ~Listening(port[c]) /\ box' = Set(box, c, "serving")
    /\ UNCHANGED <<port, next, cb, list, reg, regTries, masterVars, spawnVars, lost>>
Exits(c) ==
    /\ box[c] = "serving" /\ box' = Set(box, c, "running")
    /\ UNCHANGED <<port, next, cb, list, reg, regTries, masterVars, spawnVars, lost>>

\* waitForPort connects to whoever listens on the port, or gives up after 100 s.
PortAnswers(c) ==
    /\ cb[c] = "polling" /\ Listening(port[c]) /\ cb' = Set(cb, c, "sent")
    /\ UNCHANGED <<box, port, next, list, reg, regTries, masterVars, spawnVars, lost>>
PortSilent(c) ==
    /\ cb[c] = "polling" /\ ~Listening(port[c])
    /\ cb' = Set(cb, c, "none") /\ lost' = lost \cup {c}
    /\ UNCHANGED <<box, port, next, list, reg, regTries, masterVars, spawnVars>>

\* workerReadyHandler: NewWorker dials the address, the entry replaces any other.
CallbackArrives(c) ==
    /\ cb[c] = "sent" /\ cb' = Set(cb, c, "none") /\ Listening(port[c])
    /\ table' = Set(table, c, "HEALTHY") /\ lost' = lost \ {c}
    /\ UNCHANGED <<box, port, next, list, reg, regTries, destroying, todo, cur, spawnVars>>

\* The callback is sent once: it is lost, or the dial fails.
CallbackFails(c) ==
    /\ cb[c] = "sent" /\ cb' = Set(cb, c, "none") /\ lost' = lost \cup {c}
    /\ UNCHANGED <<box, port, next, list, reg, regTries, masterVars, spawnVars>>

-----------------------------------------------------------------------------
(* Registration of the agent *)

\* ListRunningWorkers, once, before the first attempt.
ListWorkers ==
    /\ reg = "start" /\ reg' = "post" /\ list' = Up
    /\ UNCHANGED <<box, port, next, cb, regTries, masterVars, spawnVars, lost>>

Registered == reg' = "done" /\ list' = {} /\ regTries' = 1

\* agentRegisterHandler: the workers of the request are adopted one by one; without
\* any, a worker is asked for.  The answer may be lost all the same.
RegisterArrives(h) ==
    /\ reg = "post" /\ todo[h] = {} /\ cur[h] = NoContainer
    /\ todo' = Set(todo, h, list)
    /\ IF list = {} THEN \E s \in Spawners : sp[s] = "idle" /\ sp' = Set(sp, s, "post")
       ELSE UNCHANGED sp
    /\ \/ Registered
       \/ regTries < RegisterAttempts /\ regTries' = regTries + 1 /\ UNCHANGED <<reg, list>>
    /\ UNCHANGED <<box, port, next, cb, table, destroying, cur, for, tries, lost>>

\* An attempt the master never sees; after the last one the agent gives up.
RegisterFails ==
    /\ reg = "post"
    /\ IF regTries < RegisterAttempts
       THEN regTries' = regTries + 1 /\ UNCHANGED <<reg, list, lost>>
       ELSE Registered /\ lost' = lost \cup list
    /\ UNCHANGED <<box, port, next, cb, masterVars, spawnVars>>

\* WorkerExists: known workers are skipped, the others dialled.
SkipKnown(h, c) ==
    /\ cur[h] = NoContainer /\ c \in todo[h] /\ table[c] # "none"
    /\ todo' = Set(todo, h, todo[h] \ {c})
    /\ UNCHANGED <<agentVars, table, destroying, cur, spawnVars, lost>>
Dial(h, c) ==
    /\ cur[h] = NoContainer /\ c \in todo[h] /\ table[c] = "none"
    /\ todo' = Set(todo, h, todo[h] \ {c}) /\ cur' = Set(cur, h, c)
    /\ UNCHANGED <<agentVars, table, destroying, spawnVars, lost>>

\* The dial has an outcome; what the table says by now is not looked at.
Adopt(h) ==
    /\ cur[h] # NoContainer /\ cur' = Set(cur, h, NoContainer)
    /\ \/ /\ Listening(port[cur[h]])
          /\ table' = Set(table, cur[h], "HEALTHY") /\ lost' = lost \ {cur[h]}
       \/ lost' = lost \cup {cur[h]} /\ UNCHANGED table
    /\ UNCHANGED <<agentVars, destroying, todo, spawnVars>>

-----------------------------------------------------------------------------
(* Removal, and restarts of the agent *)

\* By the operator, a drain or the health check.
RemoveWorker(c) ==
    /\ table[c] # "none" /\ table' = Set(table, c, "none")
    /\ destroying' = destroying \cup {c}
    /\ UNCHANGED <<agentVars, todo, cur, spawnVars, lost>>

\* DestroyWorker on the agent, and a call that is lost.
Destroy(c) ==
    /\ c \in destroying /\ destroying' = destroying \ {c}
    /\ box' = Set(box, c, IF c \in Up THEN "none" ELSE box[c]) /\ lost' = lost \ {c}
    /\ UNCHANGED <<port, next, cb, list, reg, regTries, table, todo, cur, spawnVars>>
DestroyFails(c) ==
    /\ c \in destroying /\ destroying' = destroying \ {c} /\ lost' = lost \cup {c}
    /\ UNCHANGED <<agentVars, table, todo, cur, spawnVars>>

\* CleanWorkers removes every container of the image, whatever it is doing.
Clean ==
    /\ box' = [c \in Containers |-> IF c \in Up THEN "none" ELSE box[c]]
    /\ lost' = {} /\ Up # {}
    /\ UNCHANGED <<port, next, cb, list, reg, regTries, masterVars, spawnVars>>

\* The agent restarts: its goroutines end, the counter starts again, containers run
\* on.  A container being created is there or not.
AgentRestart ==
    /\ \E S \in SUBSET {c \in Containers : box[c] = "allocated"} :
         box' = [c \in Containers |-> IF c \in S THEN "running"
                                      ELSE IF box[c] = "allocated" THEN "none" ELSE box[c]]
    /\ for' = [c \in Containers |-> NoSpawner]
    /\ cb' = [c \in Containers |-> IF cb[c] = "polling" THEN "none" ELSE cb[c]]
    /\ next' = PortStart /\ list' = {} /\ reg' = "start" /\ regTries' = 1
    /\ UNCHANGED <<port, masterVars, sp, tries, lost>>

CallbackStep(c) == CallbackArrives(c) \/ CallbackFails(c)
DestroyStep(c) == Destroy(c) \/ DestroyFails(c)
AdoptStep(h) == Adopt(h) \/ \E c \in Containers : SkipKnown(h, c) \/ Dial(h, c)
AgentStep ==
    \/ \E c \in Containers : StartContainer(c) \/ StartFails(c) \/ PortAnswers(c) \/ PortSilent(c)
    \/ ListWorkers \/ RegisterFails
MasterStep ==
    \/ \E s \in Spawners : \/ Spawn(s) \/ AttemptFails(s)
                           \/ \E c \in Containers : AllocatePort(s, c) \/ Accepted(s, c)
    \/ \E h \in Handlers : RegisterArrives(h) \/ AdoptStep(h)
    \/ \E c \in Containers : RemoveWorker(c) \/ CallbackStep(c) \/ DestroyStep(c)
World == AgentRestart \/ Clean \/ \E c \in Containers : Listens(c) \/ Exits(c)

Next == AgentStep \/ MasterStep \/ World

Spec == Init /\ [][Next]_vars

\* Goroutines run on: polls and calls end, registrations are served.
Fairness ==
    /\ \A c \in Containers :
         WF_vars(PortAnswers(c) \/ PortSilent(c) \/ CallbackStep(c)) /\ WF_vars(DestroyStep(c))
    /\ \A h \in Handlers : WF_vars(AdoptStep(h))
FairSpec == Spec /\ Fairness

-----------------------------------------------------------------------------
(* Properties *)

\* The port counter wraps inside its range, and no attempt is counted past the last.
TypeOK ==
    /\ box \in [Containers -> {"none", "allocated", "running", "serving"}]
    /\ port \in [Containers -> Ports] /\ next \in Ports
    /\ cb \in [Containers -> {"none", "polling", "sent"}]
    /\ for \in [Containers -> Spawners \cup {NoSpawner}]
    /\ list \subseteq Containers /\ reg \in {"start", "post", "done"}
    /\ regTries \in 1..RegisterAttempts
    /\ table \in [Containers -> {"none", "STARTING", "HEALTHY"}]
    /\ destroying \subseteq Containers /\ lost \subseteq Containers
    /\ sp \in [Spawners -> {"idle", "post", "wait"}] /\ tries \in [Spawners -> 1..MaxAttempts]
    /\ todo \in [Handlers -> SUBSET Containers]
    /\ cur \in [Handlers -> Containers \cup {NoContainer}]

\* Lost answers, retries and restarts orphan no container by themselves: one that
\* runs has an entry at the master, or somebody is still going to report or destroy
\* it, unless the one callback, dial or destroy call for it has failed.
Accounted ==
    \A c \in Up \ lost :
      \/ table[c] # "none" \/ cb[c] # "none" \/ c \in destroying
      \/ reg = "start" \/ c \in list \/ \E h \in Handlers : c \in todo[h] \/ c = cur[h]

\* "Re-adopt any surviving workers the agent reported": once the agent stays
\* registered, a running container is routed to in the end, unless it is lost or goes.
Readopted ==
    \A c \in Containers :
      <>[](reg = "done") => (c \in Up ~> table[c] = "HEALTHY" \/ c \in lost \/ c \notin Up)
=============================================================================
