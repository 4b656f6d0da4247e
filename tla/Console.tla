------------------------------ MODULE Console ------------------------------
(***************************************************************************)
(* The operator console (master/tui) and the commands it gives to the      *)
(* router (lib/admin.go).  The console is one event loop: keys, clock and  *)
(* the results of fetches, which run beside it and are delivered in any    *)
(* order.  The worker table is the router's; agents and the autoscaler     *)
(* change it too, and AddWorker keeps its lock while it dials.             *)
(***************************************************************************)
EXTENDS Integers, Sequences, FiniteSets, SequencesExt

CONSTANTS
    Workers,             \* worker ids, numbers so that a snapshot can be sorted
    Addrs,               \* the workers whose address the operator may type
    Loads,               \* values of Worker.activeRequests
    FloatBelow,          \* <<prev, raw>> with 10 | 7 prev + 3 raw whose float64 sum is below it
    MaxHistory, ZoomWindow, ZoomShift, \* 180, 60 and 10 of model.go
    DialAttempts,        \* maxAttempts of NewWorker
    MaxChanges, MaxFetches \* bounds: changes of the cluster or by command, fetches at once

ASSUME ParameterAssumption ==
    /\ Workers \subseteq Nat /\ IsFiniteSet(Workers) /\ 0 \notin Workers
    /\ Addrs \subseteq Workers
    /\ Loads \subseteq Nat /\ 0 \in Loads
    /\ {MaxHistory, ZoomWindow, ZoomShift, DialAttempts, MaxFetches} \subseteq Nat \ {0}
    /\ MaxChanges \in Nat

VARIABLES
    workers,             \* Router.workers
    active, displayed,   \* activeRequests and displayActive of the handle; 0 where there is none
    strategy,            \* Router.strategy
    draining,            \* workers with a DrainWorker goroutine under way
    dial,                \* AddWorker: [w, n], the worker dialed (0: none) and the attempts left
    fetches,             \* fetchSnapshotCmd under way, oldest first: what was read so far
    snap,                \* model.snap: the rows, sorted by id, and the strategy
    selected, tab, zoomStart, histLen,
    input,               \* inputMode = "add"
    vpReady, shown,      \* the viewport exists; the body it holds
    changes

router == <<workers, active, displayed, strategy, draining, dial>>
view == <<snap, selected, tab, zoomStart, histLen, input, vpReady, shown>>
consoleVars == <<router, fetches, view, changes>>

Tabs == {"workers", "autoscaling", "other"}
Strategies == <<"least_connections", "round_robin", "random">>
Larger(a, b) == IF a > b THEN a ELSE b
Smaller(a, b) == IF a < b THEN a ELSE b

ConsoleInit ==
    /\ workers = {} /\ active = [w \in Workers |-> 0] /\ displayed = [w \in Workers |-> 0]
    /\ strategy = "least_connections" /\ draining = {} /\ dial = [w |-> 0, n |-> 0]
    /\ fetches = <<[phase |-> "asked"]>>
    /\ snap = [rows |-> <<>>, strategy |-> "none"]
    /\ selected = 0 /\ tab = "workers" /\ zoomStart = -1 /\ histLen = 0
    /\ input = FALSE /\ vpReady = FALSE /\ shown = <<>> /\ changes = 0

\* Mutant of LockFree: the dial is made without the table's lock.
LockFreeAlways == TRUE
\* workersM is not held by an AddWorker that dials; neither is the event loop.
LockFree == dial.w = 0

\* Bounds the changes the cluster and the operator make.
Change == changes < MaxChanges /\ changes' = changes + 1

\* A command that ends with fetchSnapshotCmd.
AskFetch == Len(fetches) < MaxFetches /\ fetches' = Append(fetches, [phase |-> "asked"])

-----------------------------------------------------------------------------
(* The cluster *)

\* The counters of a new handle, and of none.
FreshHandle(w) == active' = [active EXCEPT ![w] = 0] /\ displayed' = [displayed EXCEPT ![w] = 0]

\* A worker registers: a fresh handle, with nothing active.
Join(w) ==
    /\ LockFree /\ Change /\ workers' = workers \cup {w} /\ FreshHandle(w)
    /\ UNCHANGED <<strategy, draining, dial, fetches, view>>
\* The autoscaler, a new instance or the health check takes it out.
Leave(w) ==
    /\ LockFree /\ Change /\ w \in workers /\ workers' = workers \ {w} /\ FreshHandle(w)
    /\ UNCHANGED <<strategy, draining, dial, fetches, view>>
Load(w) ==
    /\ Change /\ w \in workers /\ (\E n \in Loads \ {active[w]} : active' = [active EXCEPT ![w] = n])
    /\ UNCHANGED <<workers, displayed, strategy, draining, dial, fetches, view>>

\* DrainWorker's goroutine: stopping, Close and RemoveWorker by id.
DrainGo(w) ==
    /\ LockFree /\ w \in draining /\ draining' = draining \ {w} /\ workers' = workers \ {w} /\ FreshHandle(w)
    /\ UNCHANGED <<strategy, dial, fetches, view, changes>>

\* One attempt of NewWorker: connected, or failed; AddWorker returns after the last.
DialEnds ==
    \/ workers' = workers \cup {dial.w} /\ dial' = [w |-> 0, n |-> 0]
       /\ FreshHandle(dial.w)
    \/ dial' = (IF dial.n > 1 THEN [dial EXCEPT !.n = @ - 1] ELSE [w |-> 0, n |-> 0])
       /\ UNCHANGED <<workers, active, displayed>>
TryDial ==
    /\ dial.w # 0 /\ DialEnds
    /\ UNCHANGED <<strategy, draining, fetches, view, changes>>

-----------------------------------------------------------------------------
(* Fetches *)

\* Mutant of Smooth: rounded up.
SmoothUp(prev, raw) == IF prev = 0 THEN raw ELSE (7 * prev + 3 * raw + 9) \div 10
\* Worker.Snapshot: one step of the moving average, cut down to an integer.
Smooth(prev, raw) ==
    IF prev = 0 THEN raw
    ELSE (7 * prev + 3 * raw) \div 10 - (IF <<prev, raw>> \in FloatBelow THEN 1 ELSE 0)

\* fetchSnapshotCmd: WorkersSnapshot, where the average of every worker in the table
\* advances, and the rest, of which the strategy is modelled.
Read(i) ==
    /\ LockFree /\ i \in DOMAIN fetches /\ fetches[i].phase = "asked"
    /\ displayed' = [w \in Workers |-> IF w \in workers THEN Smooth(displayed[w], active[w])
                                                      ELSE displayed[w]]
    /\ LET Row(w) == [w |-> w, n |-> displayed'[w]]
           rows == [k \in 1..Cardinality(workers) |-> Row(SetToSortSeq(workers, <)[k])]
       IN  fetches' = [fetches EXCEPT ![i] = [phase |-> "read", rows |-> rows, strategy |-> strategy]]
    /\ UNCHANGED <<workers, active, strategy, draining, dial, view, changes>>

\* tickMsg
Tick == LockFree /\ AskFetch /\ UNCHANGED <<router, view, changes>>

-----------------------------------------------------------------------------
(* The view *)

\* renderBody: what the tab shows depends on.
Body(t, sn, sel, zoom, len) ==
    CASE t = "workers" -> <<t, sn.rows, sel>>
      [] t = "autoscaling" -> <<t, zoom, len>>
      [] t = "other" -> <<t, sn>>

\* setVPContent
SetContent == shown' = IF vpReady THEN Body(tab', snap', selected', zoomStart', histLen') ELSE shown

\* WindowSizeMsg: makes the viewport, and renders.
WindowSize ==
    /\ LockFree /\ ~vpReady /\ vpReady' = TRUE
    /\ shown' = Body(tab, snap, selected, zoomStart, histLen)
    /\ UNCHANGED <<router, fetches, snap, selected, tab, zoomStart, histLen, input, changes>>

\* Mutant of Clamp: none at all.
ClampNever(sel, n) == sel
Clamp(sel, n) == IF sel >= n THEN Larger(0, n - 1) ELSE sel

\* Mutant of Refresh: the body is rendered before the cursor moves.
RefreshRendersFirst(i) ==
    /\ snap' = [rows |-> fetches[i].rows, strategy |-> fetches[i].strategy]
    /\ selected' = Clamp(selected, Len(snap'.rows))
    /\ histLen' = Smaller(histLen + 1, MaxHistory)
    /\ zoomStart' = IF zoomStart >= histLen' THEN Larger(0, histLen' - 1) ELSE zoomStart
    /\ shown' = IF vpReady THEN Body(tab, snap', selected, zoomStart', histLen') ELSE shown
\* refreshMsg: the snapshot, the cursor, the history and the zoom, then the body.
Refresh(i) ==
    /\ snap' = [rows |-> fetches[i].rows, strategy |-> fetches[i].strategy]
    /\ selected' = Clamp(selected, Len(snap'.rows))
    /\ histLen' = Smaller(histLen + 1, MaxHistory)
    /\ zoomStart' = IF zoomStart >= histLen' THEN Larger(0, histLen' - 1) ELSE zoomStart
    /\ SetContent
Deliver(i) ==
    /\ LockFree /\ i \in DOMAIN fetches /\ fetches[i].phase = "read"
    /\ UNCHANGED <<router, tab, input, vpReady, changes>> /\ Refresh(i)
    /\ fetches' = RemoveAt(fetches, i)

-----------------------------------------------------------------------------
(* Keys; each is handled at once, before any other message *)

Key == LockFree /\ ~input
KeepsView == UNCHANGED <<snap, histLen, input, vpReady>>

\* "1" to "7": rendered whether the viewport is ready or not.
SwitchTab(t) ==
    /\ Key /\ tab' = t /\ shown' = Body(t, snap, selected, zoomStart, histLen)
    /\ KeepsView /\ UNCHANGED <<selected, zoomStart, router, fetches, changes>>
\* "up", "k" and "down", "j"
Move ==
    /\ Key /\ tab = "workers"
    /\ \/ selected > 0 /\ selected' = selected - 1
       \/ selected < Len(snap.rows) - 1 /\ selected' = selected + 1
    /\ KeepsView /\ UNCHANGED <<tab, zoomStart, router, fetches, changes>> /\ SetContent

\* "left", "h" and "right", "l"
Shift ==
    \/ zoomStart > 0 /\ zoomStart' = Larger(0, zoomStart - ZoomShift)
    \/ zoomStart >= 0 /\ zoomStart' = Smaller(zoomStart + ZoomShift, Larger(0, histLen - 1))
\* "z"
Zoom == zoomStart' = IF zoomStart < 0 THEN Larger(0, histLen - ZoomWindow) ELSE -1
Zooming ==
    /\ Key /\ tab = "autoscaling" /\ (Zoom \/ Shift)
    /\ KeepsView /\ UNCHANGED <<tab, selected, router, fetches, changes>> /\ SetContent

\* "r"
RefreshKey == Key /\ AskFetch /\ UNCHANGED <<router, view, changes>>

\* "d" and "x" on the row under the cursor, which may have left the table.
Selected == snap.rows[selected + 1].w
DrainKey ==
    /\ Key /\ Len(snap.rows) > 0 /\ Change /\ AskFetch
    /\ draining' = IF Selected \in workers THEN draining \cup {Selected} ELSE draining
    /\ UNCHANGED <<workers, active, displayed, strategy, dial, view>>
RemoveKey ==
    /\ Key /\ Len(snap.rows) > 0 /\ Change /\ AskFetch /\ workers' = workers \ {Selected} /\ FreshHandle(Selected)
    /\ UNCHANGED <<strategy, draining, dial, view>>

\* "s": cycleStrategy.
StrategyKey ==
    /\ Key /\ Change /\ AskFetch
    /\ \E k \in 1..3 : strategy = Strategies[k] /\ strategy' = Strategies[(k % 3) + 1]
    /\ UNCHANGED <<workers, active, displayed, draining, dial, view>>

\* "a" and "esc"; the characters typed until "enter" are the address that it takes.
AddKey ==
    /\ LockFree /\ input' = ~input
    /\ UNCHANGED <<snap, selected, tab, zoomStart, histLen, vpReady, shown, router, fetches, changes>>

\* "enter" with an address; an empty one is refused.  AddWorker refuses a known id
\* and else dials, and the fetch asked for reads the table after that.
Enter(a) ==
    /\ LockFree /\ input /\ Change /\ AskFetch /\ input' = FALSE
    /\ dial' = IF a \in workers THEN dial ELSE [w |-> a, n |-> DialAttempts]
    /\ UNCHANGED <<workers, active, displayed, strategy, draining,
                   snap, selected, tab, zoomStart, histLen, vpReady, shown>>

-----------------------------------------------------------------------------
Cluster == \E w \in Workers : Join(w) \/ Leave(w) \/ Load(w) \/ DrainGo(w)
Fetch(i) == Read(i) \/ Deliver(i)
Keys ==
    \/ \E t \in Tabs : SwitchTab(t)
    \/ Move \/ Zooming \/ RefreshKey \/ DrainKey \/ RemoveKey \/ StrategyKey
    \/ AddKey \/ \E a \in Addrs : Enter(a)
ConsoleNext == Cluster \/ TryDial \/ Tick \/ WindowSize \/ Keys \/ \E i \in 1..MaxFetches : Fetch(i)

ConsoleSpec == ConsoleInit /\ [][ConsoleNext]_consoleVars

\* The clock ticks, goroutines run, and every message reaches the event loop.
ConsoleFairness ==
    /\ WF_consoleVars(Tick) /\ WF_consoleVars(TryDial)
    /\ \A i \in 1..MaxFetches : WF_consoleVars(Fetch(i))
    /\ \A w \in Workers : WF_consoleVars(DrainGo(w))
FairConsoleSpec == ConsoleSpec /\ ConsoleFairness

-----------------------------------------------------------------------------
(* The warnings of the autoscaling tab *)

\* The number of neighbours in s that differ.
Turns(s) == Cardinality({i \in 2..Len(s) : s[i] # s[i - 1]})
\* Mutant of Latest: twice the window.
LatestDouble(s, n) == SubSeq(s, Larger(1, Len(s) - 2 * n + 1), Len(s))
Latest(s, n) == SubSeq(s, Larger(1, Len(s) - n + 1), Len(s))
DetectOscillation(s) ==
    LET last == Latest(s, 12)
    IN  Len(s) >= 6 /\ 10 * Turns(last) > 7 * (Len(last) - 1)

\* soon: the actions less than two minutes after the one before.
DetectOverscaling(s, soon) ==
    /\ Len(s) >= 4
    /\ \E i \in (Len(s) - 2)..Len(s) : s[i] = "down" /\ s[i - 1] = "up" /\ i \in soon

-----------------------------------------------------------------------------
(* Properties *)

\* The console's state is well-formed, the cursor and the zoom stay at or above their
\* least values, and only the dialing AddWorker has attempts left.
ConsoleTypeOK ==
    /\ workers \subseteq Workers /\ active \in [Workers -> Loads] /\ displayed \in [Workers -> Nat]
    /\ strategy \in ToSet(Strategies) /\ draining \subseteq Workers
    /\ dial.w \in Workers \cup {0} /\ dial.n \in 0..DialAttempts /\ (dial.w = 0 <=> dial.n = 0)
    /\ Len(fetches) <= MaxFetches
    /\ \A i \in DOMAIN fetches : fetches[i].phase \in {"asked", "read"}
    /\ snap.strategy \in ToSet(Strategies) \cup {"none"} /\ selected \in Nat /\ tab \in Tabs
    /\ zoomStart \in Nat \cup {-1} /\ histLen \in 0..MaxHistory
    /\ input \in BOOLEAN /\ vpReady \in BOOLEAN

\* "d" and "x" index the snapshot without a check, and the graphs start at the zoom:
\* both stay inside whatever refreshes, late ones too, have brought.
CursorsInRange ==
    /\ Len(snap.rows) > 0 => selected < Len(snap.rows)
    /\ zoomStart > 0 => zoomStart < histLen

\* What the viewport holds is the body of the state the next key will act on: the
\* highlighted row is the one "d" and "x" take.
ViewportCurrent == vpReady => shown = Body(tab, snap, selected, zoomStart, histLen)

\* AddWorker checks the id, dials for seconds and inserts: nobody registers that
\* worker in between, so no handle is replaced.
AddReplacesNobody == dial.w # 0 => dial.w \notin workers

\* Refreshes pass each other and may show an older table after a newer one; when the
\* cluster and the operator stop, the console shows the table as it is, every count
\* at most three below the real one and never above it.
FinallyCurrent ==
    <>[](/\ snap.strategy = strategy
         /\ [k \in DOMAIN snap.rows |-> snap.rows[k].w] = SetToSortSeq(workers, <)
         /\ \A k \in DOMAIN snap.rows :
              snap.rows[k].n \in (active[snap.rows[k].w] - 3)..active[snap.rows[k].w])

\* What the autoscaling tab says of every history of up to n actions and what follows
\* it: after five actions one way nothing oscillates, after four nothing overscales;
\* strict alternation is always reported.
WarningsSettle(limit) ==
    \A n \in 0..limit : \A s \in [1..n -> {"up", "down"}] :
      /\ \A d \in {"up", "down"} :
           /\ ~DetectOscillation(s \o [i \in 1..5 |-> d])
           /\ ~DetectOverscaling(s \o [i \in 1..4 |-> d], 1..(n + 4))
      /\ n >= 6 /\ (\A i \in 2..n : s[i] # s[i - 1]) =>
           DetectOscillation(s) /\ DetectOverscaling(s, 2..n)
SettleUpToTen == WarningsSettle(10)

\* Whenever the operator looks at the autoscaling tab, whatever the autoscaler has
\* done before: a warning goes out when it settles and is there while it alternates.
WarningsEnd == tab = "autoscaling" => SettleUpToTen
=============================================================================
