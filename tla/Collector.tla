------------------------------ MODULE Collector ------------------------------
(***************************************************************************)
(* The collector: cmd/collector, internal/costing and the informer store   *)
(* of internal/kube.                                                       *)
(*                                                                         *)
(* A collector process runs three goroutines under one errgroup: the       *)
(* informers' initial sync, the collection loop and the observability      *)
(* listener.  The loop waits for the sync, then runs a cycle at once and   *)
(* one per tick: it takes the last whole window that ended a scrape lag    *)
(* ago, lists nodes and namespaces from the informer cache, queries the    *)
(* usage of each namespace, and upserts one fact row per container in a    *)
(* transaction.  Processes are incarnations of the Deployment's only       *)
(* replica, or one more that an operator runs beside it.                   *)
(*                                                                         *)
(* Time is counted in units; a window is named by its end, a fact row by   *)
(* its window and container.  Usage, cost and attribution are left out:    *)
(* the properties tell apart which windows are recorded for whom.          *)
(***************************************************************************)
EXTENDS Integers, FiniteSets

CONSTANTS
  Procs,        \* incarnations of the collector
  Namespaces,
  Nodes,
  Containers,   \* billable containers of scheduled pods
  NsOf,         \* the namespace of a container
  NodeOf,       \* the node its pod is bound to
  Catalogue,    \* the nodes that the pricing catalogue has a rate for
  Overlap,      \* two processes may run at a time
  Churn,        \* bound: the containers that come and go
  IntervalOf,   \* the COLLECTOR_INTERVAL a process was started with
  Lag,          \* scrapeLag
  StartTimes,   \* bound: when the clock starts
  LastTime,     \* bound: the clock stops here
  DayLen,       \* how long a day is
  CycleTime,    \* a cycle takes at most this long
  DownTime,     \* the next process collects within this time of the last end
  Faults        \* what the environment may do, see below

AllFaults ==
  { "statement_fails",  \* a statement or a COMMIT returns an error
    "query_fails",      \* Prometheus fails or times out on a namespace
    "sync_timeout",     \* the informers do not sync in time
    "bind_fails",       \* the observability listener cannot listen
    "drain_expires",    \* a handler of the listener outlasts Shutdown's 5 s
    "sigterm",
    "crash" }

ASSUME ClusterAssumption ==
  /\ NsOf \in [ Containers -> Namespaces ] /\ NodeOf \in [ Containers -> Nodes ]
  /\ Catalogue \subseteq Nodes /\ Churn \subseteq Containers
  /\ Overlap \in BOOLEAN
ASSUME TimeAssumption ==
  /\ IntervalOf \in [ Procs -> Nat \ {0} ] /\ Lag \in Nat /\ LastTime \in Nat
  /\ StartTimes \subseteq 0 .. LastTime
  /\ \A t \in StartTimes, p \in Procs : IntervalOf[p] + Lag <= t
  /\ CycleTime \in Nat /\ DownTime \in Nat
  /\ \A p \in Procs : CycleTime + DownTime <= IntervalOf[p]
ASSUME DayAssumption == DayLen \in Nat \ {0}
ASSUME CollectorFaultAssumption == Faults \subseteq AllFaults

VARIABLES
  now,        \* the clock
  alive,      \* the containers that exist
  facts,      \* container_allocations
  ended,      \* when a process last ended, or the clock started
  pc,         \* where the loop goroutine, and with it the process, is
  informers,  \* the goroutine that runs Store.Start
  server,     \* the goroutine that runs the listener
  sig,        \* SIGTERM was received
  err,        \* a goroutine returned an error
  next,       \* when the ticker fires next
  tick,       \* its channel holds a tick
  began,      \* when the current cycle began
  win,        \* the window of the current cycle, or of the last one
  done,       \* the last window whose cycle was not cut off
  rates,      \* nodeRates: the nodes this cycle has priced
  ahead,      \* the namespaces this cycle has not finished
  failed,     \* Result.NamespaceErrors
  got,        \* Result.Allocations
  outcome,    \* the outcome that ObserveCycle was given for win
  steady      \* the containers that have existed since the cycle began

procVars  == << pc, informers, server, sig, err >>
clockVars == << next, tick, began >>
cycleVars == << win, done, rates, ahead, failed, got, outcome, steady >>
vars == << now, alive, facts, ended, procVars, clockVars, cycleVars >>

-----------------------------------------------------------------------------
(* Values                                                                  *)

NoWindow == 0
NoTicker == 0
InCycle == { "listing", "fanout", "writing" }
Live    == { "waiting", "select", "stopped" } \cup InCycle
Ended   == { "exited", "dead" }

\* A mutant of Cancelled: the goroutines run under an errgroup without a
\* context, which only collects their errors.
CancelledBySignal(p) == sig[p]

\* gctx: the errgroup's context, a child of the signal context.
Cancelled(p) == sig[p] \/ err[p]

\* A mutant of AlignedWindow: the last interval, wherever it begins.
UnalignedWindow(p, t) == t

\* The end of the last whole window at or before t.
AlignedWindow(p, t) == (t \div IntervalOf[p]) * IntervalOf[p]

\* p's row of window w for container c.
Row(p, w, c) == [ start |-> w - IntervalOf[p], end |-> w, container |-> c ]

Rows(p) == { Row(p, win[p], c) : c \in got[p] }

\* A mutant of Upsert: the window is deleted and inserted again.
UpsertReplacingWindow(p) ==
  { r \in facts : r.start # win[p] - IntervalOf[p] } \cup Rows(p)

\* ON CONFLICT (window_start, pod_id, container_name) DO UPDATE.
Upsert(p) ==
  { r \in facts : \A s \in Rows(p) :
                    r.start # s.start \/ r.container # s.container } \cup Rows(p)

-----------------------------------------------------------------------------
Init ==
  /\ now \in StartTimes
  /\ alive = Containers
  /\ facts = {}
  /\ ended = now
  /\ pc = [ p \in Procs |-> "off" ]
  /\ informers = [ p \in Procs |-> "listing" ]
  /\ server = [ p \in Procs |-> "listening" ]
  /\ sig = [ p \in Procs |-> FALSE ]
  /\ err = [ p \in Procs |-> FALSE ]
  /\ next = [ p \in Procs |-> NoTicker ]
  /\ tick = [ p \in Procs |-> FALSE ]
  /\ began = [ p \in Procs |-> 0 ]
  /\ win = [ p \in Procs |-> NoWindow ]
  /\ done = [ p \in Procs |-> NoWindow ]
  /\ rates = [ p \in Procs |-> {} ]
  /\ ahead = [ p \in Procs |-> {} ]
  /\ failed = [ p \in Procs |-> {} ]
  /\ got = [ p \in Procs |-> {} ]
  /\ outcome = [ p \in Procs |-> "none" ]
  /\ steady = [ p \in Procs |-> {} ]

-----------------------------------------------------------------------------
(* The clock and the cluster                                               *)

\* A goroutine whose select has a ready case runs, and a process whose loop
\* has returned ends, long before a unit passes.
Ready(p) ==
  \/ pc[p] = "select" /\ (tick[p] \/ Cancelled(p))
  \/ pc[p] = "waiting" /\ (informers[p] # "listing" \/ Cancelled(p))
  \/ pc[p] = "stopped"

\* Nobody collects, and a process that will has yet to begin.
Down ==
  /\ \E p \in Procs : pc[p] \in { "off", "waiting" }
  /\ \A p \in Procs : pc[p] \in Ended \cup { "off", "waiting" }

\* The ticker drops a tick that finds its channel full.
Tick ==
  /\ now < LastTime
  /\ \A p \in Procs : ~Ready(p)
  /\ \A p \in Procs : pc[p] \in InCycle => now < began[p] + CycleTime
  /\ Down => now < ended + DownTime
  /\ now' = now + 1
  /\ LET fires(p) == pc[p] \in Live /\ next[p] = now + 1 IN
       /\ tick' = [ p \in Procs |-> tick[p] \/ fires(p) ]
       /\ next' = [ p \in Procs |->
                      IF fires(p) THEN next[p] + IntervalOf[p] ELSE next[p] ]
  /\ UNCHANGED << alive, facts, ended, procVars, began, cycleVars >>

PodAppears ==
  /\ \E c \in Churn \ alive : alive' = alive \cup {c}
  /\ UNCHANGED << now, facts, ended, procVars, clockVars, cycleVars >>

PodDisappears ==
  /\ \E c \in Churn \cap alive :
       /\ alive' = alive \ {c}
       /\ steady' = [ p \in Procs |-> steady[p] \ {c} ]
  /\ UNCHANGED << now, facts, ended, procVars, clockVars,
                  win, done, rates, ahead, failed, got, outcome >>

-----------------------------------------------------------------------------
(* The process and its other goroutines                                    *)

Goto(p, label) == pc' = [ pc EXCEPT ![p] = label ]

\* The Result of a cycle goes out of scope.
Forget(p) ==
  /\ rates' = [ rates EXCEPT ![p] = {} ]
  /\ ahead' = [ ahead EXCEPT ![p] = {} ]
  /\ failed' = [ failed EXCEPT ![p] = {} ]
  /\ got' = [ got EXCEPT ![p] = {} ]

\* The process is gone, and its memory with it.
End(p, how) ==
  /\ Goto(p, how)
  /\ ended' = now
  /\ next' = [ next EXCEPT ![p] = NoTicker ]
  /\ tick' = [ tick EXCEPT ![p] = FALSE ]
  /\ began' = [ began EXCEPT ![p] = 0 ]
  /\ outcome' = [ outcome EXCEPT ![p] = "none" ]
  /\ steady' = [ steady EXCEPT ![p] = {} ]
  /\ Forget(p)

\* run: everything up to the errgroup.  Building the pool connects to nothing.
\* The Deployment has one replica and recreates it; an operator may start one
\* more.
Start(p) ==
  /\ pc[p] = "off"
  /\ Overlap \/ \A q \in Procs : pc[q] \in { "off" } \cup Ended
  /\ Goto(p, "waiting")
  /\ UNCHANGED << now, alive, facts, ended, informers, server, sig, err,
                  clockVars, cycleVars >>

Sync(p) ==
  /\ pc[p] \in Live /\ informers[p] = "listing" /\ ~Cancelled(p)
  /\ informers' = [ informers EXCEPT ![p] = "synced" ]
  /\ UNCHANGED << now, alive, facts, ended, pc, server, sig, err,
                  clockVars, cycleVars >>

\* Store.Start returns nil when it is told to stop, and its caller closes the
\* synced channel all the same.
SyncAborted(p) ==
  /\ pc[p] \in Live /\ informers[p] = "listing" /\ Cancelled(p)
  /\ informers' = [ informers EXCEPT ![p] = "aborted" ]
  /\ UNCHANGED << now, alive, facts, ended, pc, server, sig, err,
                  clockVars, cycleVars >>

SyncTimesOut(p) ==
  /\ "sync_timeout" \in Faults
  /\ pc[p] \in Live /\ informers[p] = "listing" /\ ~Cancelled(p)
  /\ informers' = [ informers EXCEPT ![p] = "timed out" ]
  /\ err' = [ err EXCEPT ![p] = TRUE ]
  /\ UNCHANGED << now, alive, facts, ended, pc, server, sig, clockVars, cycleVars >>

\* Shutdown drains on a context of its own, for 5 s; when a handler outlasts
\* them its error is the goroutine's.
ServerStops(p) ==
  /\ pc[p] \in Live /\ server[p] = "listening" /\ Cancelled(p)
  /\ \/ server' = [ server EXCEPT ![p] = "closed" ] /\ UNCHANGED err
     \/ /\ "drain_expires" \in Faults
        /\ server' = [ server EXCEPT ![p] = "undrained" ]
        /\ err' = [ err EXCEPT ![p] = TRUE ]
  /\ UNCHANGED << now, alive, facts, ended, pc, informers, sig,
                  clockVars, cycleVars >>

\* select takes either case when the context is cancelled as well.
ServerFails(p) ==
  /\ "bind_fails" \in Faults
  /\ pc[p] \in Live /\ server[p] = "listening"
  /\ server' = [ server EXCEPT ![p] = "failed" ]
  /\ err' = [ err EXCEPT ![p] = TRUE ]
  /\ UNCHANGED << now, alive, facts, ended, pc, informers, sig,
                  clockVars, cycleVars >>

Sigterm(p) ==
  /\ "sigterm" \in Faults
  /\ pc[p] \in Live /\ ~sig[p]
  /\ sig' = [ sig EXCEPT ![p] = TRUE ]
  /\ UNCHANGED << now, alive, facts, ended, pc, informers, server, err,
                  clockVars, cycleVars >>

\* g.Wait returns; err is the exit code.
Exit(p) ==
  /\ pc[p] = "stopped" /\ informers[p] # "listing" /\ server[p] # "listening"
  /\ End(p, "exited")
  /\ UNCHANGED << now, alive, facts, informers, server, sig, err, win, done >>

\* SIGKILL or OOM.  A COMMIT the server has received takes effect.
Crash(p) ==
  /\ "crash" \in Faults
  /\ pc[p] \in Live
  /\ End(p, "dead")
  /\ \/ UNCHANGED facts
     \/ pc[p] = "writing" /\ facts' = Upsert(p)
  /\ UNCHANGED << now, alive, informers, server, sig, err, win, done >>

-----------------------------------------------------------------------------
(* The collection loop                                                     *)

\* runCycle, up to Collect.
BeginCycle(p) ==
  /\ Goto(p, "listing")
  /\ began' = [ began EXCEPT ![p] = now ]
  /\ win' = [ win EXCEPT ![p] = AlignedWindow(p, now - Lag) ]
  /\ outcome' = [ outcome EXCEPT ![p] = "none" ]
  /\ steady' = [ steady EXCEPT ![p] = alive ]

\* A mutant of EnterLoop: the first cycle waits for the first tick.
EnterLoopAndWait(p) ==
  /\ pc[p] = "waiting" /\ informers[p] \in { "synced", "aborted" }
  /\ next' = [ next EXCEPT ![p] = now + IntervalOf[p] ]
  /\ Goto(p, "select")
  /\ UNCHANGED << now, alive, facts, ended, informers, server, sig, err,
                  tick, began, cycleVars >>

\* The synced channel is closed: start the ticker and collect at once.
EnterLoop(p) ==
  /\ pc[p] = "waiting" /\ informers[p] \in { "synced", "aborted" }
  /\ next' = [ next EXCEPT ![p] = now + IntervalOf[p] ]
  /\ BeginCycle(p)
  /\ UNCHANGED << now, alive, facts, ended, informers, server, sig, err,
                  tick, done, rates, ahead, failed, got >>

StopBeforeFirst(p) ==
  /\ pc[p] = "waiting" /\ Cancelled(p)
  /\ Goto(p, "stopped")
  /\ UNCHANGED << now, alive, facts, ended, informers, server, sig, err,
                  clockVars, cycleVars >>

\* select takes any ready case: a tick may be taken on a cancelled context.
TakeTick(p) ==
  /\ pc[p] = "select" /\ tick[p]
  /\ tick' = [ tick EXCEPT ![p] = FALSE ]
  /\ BeginCycle(p)
  /\ UNCHANGED << now, alive, facts, ended, informers, server, sig, err,
                  next, done, rates, ahead, failed, got >>

StopLoop(p) ==
  /\ pc[p] = "select" /\ Cancelled(p)
  /\ Goto(p, "stopped")
  /\ UNCHANGED << now, alive, facts, ended, informers, server, sig, err,
                  clockVars, cycleVars >>

-----------------------------------------------------------------------------
(* One cycle                                                               *)

\* What a lister shows of S: all of it once the informers have synced, maybe
\* none of it before, and never an error.
Cached(p, S) == IF informers[p] = "synced" THEN {S} ELSE { {}, S }

\* Price the nodes, list the namespaces.
ListInventory(p) ==
  /\ pc[p] = "listing"
  /\ \E N \in Cached(p, Nodes), M \in Cached(p, Namespaces) :
       /\ rates' = [ rates EXCEPT ![p] = N \cap Catalogue ]
       /\ ahead' = [ ahead EXCEPT ![p] = M ]
  /\ Goto(p, "fanout")
  /\ UNCHANGED << now, alive, facts, ended, informers, server, sig, err,
                  clockVars, win, done, failed, got, outcome, steady >>

Pods(n) == { c \in alive : NsOf[c] = n }

\* collectNamespace: a namespace without pods is not queried; a query fails on
\* a cancelled context.  Containers on a node without a rate are skipped.
CollectNamespace(p, n) ==
  /\ pc[p] = "fanout" /\ n \in ahead[p]
  /\ \E C \in Cached(p, Pods(n)) :
       /\ C = {} \/ ~Cancelled(p)
       /\ got' = [ got EXCEPT ![p] = @ \cup { c \in C : NodeOf[c] \in rates[p] } ]
  /\ ahead' = [ ahead EXCEPT ![p] = @ \ {n} ]
  /\ UNCHANGED << now, alive, facts, ended, procVars, clockVars,
                  win, done, rates, failed, outcome, steady >>

\* An error is recorded under the namespace and the others go on.
NamespaceFails(p, n) ==
  /\ pc[p] = "fanout" /\ n \in ahead[p]
  /\ "query_fails" \in Faults \/ Cancelled(p)
  /\ \E C \in Cached(p, Pods(n)) : C # {}
  /\ failed' = [ failed EXCEPT ![p] = @ \cup {n} ]
  /\ ahead' = [ ahead EXCEPT ![p] = @ \ {n} ]
  /\ UNCHANGED << now, alive, facts, ended, procVars, clockVars,
                  win, done, rates, got, outcome, steady >>

\* A mutant of Collected: what has been collected is used in any case.
CollectedUnchecked(p) ==
  /\ pc[p] = "fanout" /\ ahead[p] = {}
  /\ Goto(p, "writing")
  /\ UNCHANGED << now, alive, facts, ended, informers, server, sig, err,
                  clockVars, cycleVars >>

\* The barrier, and the check of the context behind it.
Collected(p) ==
  /\ pc[p] = "fanout" /\ ahead[p] = {}
  /\ \/ ~Cancelled(p) /\ Goto(p, "writing") /\ UNCHANGED << rates, ahead, failed, got >>
     \/ Cancelled(p) /\ Goto(p, "select") /\ Forget(p)
  /\ UNCHANGED << now, alive, facts, ended, informers, server, sig, err,
                  clockVars, win, done, outcome, steady >>

\* A mutant of Outcome: an outcome that no alert knows.
OutcomeByAnotherName(p) == IF failed[p] = {} THEN "success" ELSE "degraded"

\* A mutant of Outcome: only errors of the whole cycle count.
OutcomeIgnoringNamespaces(p) == "success"

Outcome(p) == IF failed[p] = {} THEN "success" ELSE "partial"

\* A mutant of Report: sleep for an interval after each cycle, with no ticker.
ReportAndSleep(p, o) ==
  /\ outcome' = [ outcome EXCEPT ![p] = o ]
  /\ done' = [ done EXCEPT ![p] = win[p] ]
  /\ next' = [ next EXCEPT ![p] = now + IntervalOf[p] ]
  /\ tick' = [ tick EXCEPT ![p] = FALSE ]
  /\ Goto(p, "select")
  /\ Forget(p)

\* ObserveCycle, and back to the select.
Report(p, o) ==
  /\ outcome' = [ outcome EXCEPT ![p] = o ]
  /\ done' = [ done EXCEPT ![p] = win[p] ]
  /\ UNCHANGED << next, tick >>
  /\ Goto(p, "select")
  /\ Forget(p)

\* writer.write: nothing at all, or every row of the window in a transaction.
Write(p) ==
  /\ pc[p] = "writing"
  /\ got[p] = {} \/ ~Cancelled(p)
  /\ facts' = Upsert(p)
  /\ Report(p, Outcome(p))
  /\ UNCHANGED << now, alive, ended, informers, server, sig, err, began,
                  win, steady >>

\* A mutant of WriteFails: runCycle returns the error, and the loop with it.
WriteFailsStopsLoop(p) ==
  /\ pc[p] = "writing" /\ got[p] # {}
  /\ "statement_fails" \in Faults \/ Cancelled(p)
  /\ Goto(p, "stopped")
  /\ err' = [ err EXCEPT ![p] = TRUE ]
  /\ outcome' = [ outcome EXCEPT ![p] = "failed" ]
  /\ Forget(p)
  /\ UNCHANGED << now, alive, facts, ended, informers, server, sig,
                  clockVars, win, done, steady >>

\* A COMMIT that reports an error may have taken effect.
WriteFails(p) ==
  /\ pc[p] = "writing" /\ got[p] # {}
  /\ "statement_fails" \in Faults \/ Cancelled(p)
  /\ facts' \in { facts, Upsert(p) }
  /\ Report(p, "failed")
  /\ UNCHANGED << now, alive, ended, informers, server, sig, err, began,
                  win, steady >>

-----------------------------------------------------------------------------
LoopStep(p) ==
  \/ EnterLoop(p)
  \/ StopBeforeFirst(p)
  \/ TakeTick(p)
  \/ StopLoop(p)
  \/ ListInventory(p)
  \/ \E n \in Namespaces : CollectNamespace(p, n) \/ NamespaceFails(p, n)
  \/ Collected(p)
  \/ Write(p)
  \/ WriteFails(p)
  \/ Exit(p)

Others(p) == Sync(p) \/ SyncAborted(p) \/ SyncTimesOut(p)
Listener(p) == ServerStops(p) \/ ServerFails(p)

Next ==
  \/ Tick
  \/ PodAppears
  \/ PodDisappears
  \/ \E p \in Procs : \/ Start(p) \/ LoopStep(p) \/ Others(p) \/ Listener(p)
                      \/ Sigterm(p) \/ Crash(p)

Spec == Init /\ [][Next]_vars

\* Every goroutine keeps running; a query and a statement return or fail.  The
\* listener is fair only in its shutdown, for it need not fail.
FairSpec ==
  /\ Spec
  /\ WF_vars(Tick)
  /\ \A p \in Procs :
       WF_vars(LoopStep(p)) /\ WF_vars(Others(p)) /\ WF_vars(ServerStops(p))

-----------------------------------------------------------------------------
(* Properties                                                              *)

\* Every variable has the shape the code gives it.
CollectorTypeOK ==
  /\ now \in 0 .. LastTime /\ ended \in 0 .. LastTime
  /\ alive \subseteq Containers
  /\ facts \subseteq [ start: Nat, end: Nat, container: Containers ]
  /\ pc \in [ Procs -> { "off" } \cup Live \cup Ended ]
  /\ informers \in [ Procs -> { "listing", "synced", "aborted", "timed out" } ]
  /\ server \in [ Procs -> { "listening", "closed", "undrained", "failed" } ]
  /\ sig \in [ Procs -> BOOLEAN ] /\ err \in [ Procs -> BOOLEAN ]
  /\ next \in [ Procs -> Nat ] /\ tick \in [ Procs -> BOOLEAN ]
  /\ began \in [ Procs -> 0 .. LastTime ]
  /\ win \in [ Procs -> Nat ] /\ done \in [ Procs -> Nat ]
  /\ rates \in [ Procs -> SUBSET Nodes ]
  /\ ahead \in [ Procs -> SUBSET Namespaces ]
  /\ failed \in [ Procs -> SUBSET Namespaces ]
  /\ got \in [ Procs -> SUBSET Containers ]
  /\ outcome \in [ Procs -> { "none", "success", "partial", "failed" } ]
  /\ steady \in [ Procs -> SUBSET Containers ]

\* AlignedWindow and the upsert together: whatever restarts, overlaps and
\* repeats there are, no moment of a container is recorded by two fact rows,
\* for "the overlapping minutes are counted TWICE".
NoMinuteCountedTwice ==
  \A r, s \in facts :
    r.container = s.container /\ r.start < s.end /\ s.start < r.end => r = s

\* A lister over an unsynced informer returns an empty list and no error, and a
\* stopping process closes the synced channel without a sync: still no cycle
\* over an unsynced cache is recorded or counted.
UnsyncedNeverCounts ==
  \A p \in Procs : outcome[p] # "none" => informers[p] = "synced"

\* "Last success has to mean success": after a cycle that moves the timestamp
\* the table holds the window of every container that was there throughout
\* the cycle on a node with a rate.
SuccessMeansMeasured ==
  \A p \in Procs :
    outcome[p] = "success" =>
      \A c \in steady[p] : NodeOf[c] \in Catalogue => Row(p, win[p], c) \in facts

\* The ticker does not drift as a sleep would: while cycles take less than an
\* interval, a process collects one window after the other and skips none.
ConsecutiveWindows ==
  [][ \A p \in Procs :
        win[p] # NoWindow /\ win'[p] # win[p] => win'[p] = win[p] + IntervalOf[p]
    ]_vars

\* The window that the end of q costs: the one whose cycle it cuts off, or else
\* the one that would have come next.
AtRisk(q) == IF done[q] = win[q] THEN win[q] + IntervalOf[q] ELSE win[q]

\* "A restart costs one window of data rather than two": whenever a process
\* was stopped or killed, the first window of the next one follows the window
\* that this end has cost.  Each end costs one of its own: a process that
\* ended before its first cycle has no window to count from.
RestartCostsOneWindow ==
  [][ \A p \in Procs :
        /\ win[p] = NoWindow /\ win'[p] # NoWindow
        /\ \E q \in Procs : win[q] # NoWindow
        /\ \A q \in Procs : pc[q] \in Ended => win[q] # NoWindow
        => \E q \in Procs :
             win[q] # NoWindow /\ win'[p] <= AtRisk(q) + IntervalOf[q]
    ]_vars

\* SIGTERM ends the process, wherever its goroutines are: before the sync, in
\* the select, in a query or in a transaction.  So does the first of the three
\* goroutines that fails: the others are not left running without it.
StopsWhenCancelled == \A p \in Procs : sig[p] \/ err[p] ~> pc[p] \in Ended

\* "A failed cycle must not stop the loop": an interval later there is another,
\* unless the process is stopped, or the clock of the model is.
FailedCycleIsFollowed ==
  \A p \in Procs :
    outcome[p] = "failed" /\ now + IntervalOf[p] <= LastTime
      ~> pc[p] \in InCycle \/ sig[p] \/ pc[p] = "dead" \/ server[p] = "failed"

-----------------------------------------------------------------------------
(* The collector implements the feed of the rollup                         *)

DayOf(t) == t \div DayLen

WindowsPerDay ==
  CHOOSE k \in 1 .. DayLen : \A p \in Procs : DayLen = k * IntervalOf[p]

\* The rows of container c whose windows start on day d.
RowsOf(d, c) == { r \in facts : r.container = c /\ DayOf(r.start) = d }

\* The facts by the day their window starts in, as the rollup groups them.
PerDayAndContainer ==
  [ d \in 0 .. DayOf(LastTime) |-> [ c \in Containers |-> Cardinality(RowsOf(d, c)) ] ]

Feed == INSTANCE FactFeed WITH
  Dims <- Containers, Days <- 0 .. DayOf(LastTime), PerDay <- WindowsPerDay,
  today <- DayOf(now), facts <- PerDayAndContainer

\* The collector is the environment that the rollup is checked and proved in:
\* facts are only ever added, a whole window in one step, none later than the
\* day after theirs, and no day has more windows than it has room for.
ImplementsFactFeed == Feed!Spec

=============================================================================
