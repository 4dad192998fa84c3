--------------------------- MODULE CollectorProofs ---------------------------
(***************************************************************************)
(* Proofs about the collector, for every cluster, every number of          *)
(* processes, whether they overlap or not, and every fault.  What a        *)
(* restart costs is of processes that run one after the other.             *)
(***************************************************************************)
EXTENDS Collector, FiniteSetTheorems, TLAPS

-----------------------------------------------------------------------------
(* The window clock                                                        *)

\* The whole part of a quotient, and what it says of the dividend.
LEMMA Quotient ==
  ASSUME NEW t \in Nat, NEW i \in Nat \ {0}
  PROVE  /\ t \div i \in Nat
         /\ t = i * (t \div i) + (t % i)
         /\ t % i \in 0 .. (i - 1)
  BY SMT

\* An aligned window is a multiple of the interval, and from the first
\* interval on there is one.
LEMMA Aligned ==
  ASSUME NEW p \in Procs, NEW t \in Nat, IntervalOf[p] <= t
  PROVE  /\ AlignedWindow(p, t) \in Nat
         /\ IntervalOf[p] <= AlignedWindow(p, t)
         /\ \E k \in Nat : AlignedWindow(p, t) = k * IntervalOf[p]
<1> DEFINE i == IntervalOf[p]
           k == t \div i
<1>1. i \in Nat \ {0}
  BY TimeAssumption
<1>2. k \in Nat /\ t = i * k + (t % i) /\ t % i \in 0 .. (i - 1)
  BY <1>1, Quotient
<1>3. k # 0
  BY <1>1, <1>2
<1>4. PICK d \in Nat : k = d + 1
  <2> HIDE DEF k
  <2>1. k - 1 \in Nat /\ k = (k - 1) + 1
    BY <1>2, <1>3
  <2> QED
    BY <2>1
<1>5. k * i >= i /\ k * i \in Nat
  <2> HIDE DEF k, i
  <2>1. d * i \in Nat
    BY <1>1
  <2>2. k * i = d * i + i
    BY <1>1, <1>4
  <2> QED
    BY <1>1, <2>1, <2>2
<1> QED
  BY <1>1, <1>2, <1>5 DEF AlignedWindow

\* Two windows of one interval that share a moment are one window.
LEMMA NoPartialOverlap ==
  ASSUME NEW i \in Nat \ {0}, NEW j \in Nat, NEW k \in Nat,
         j * i - i < k * i, k * i - i < j * i
  PROVE  j = k
<1>1. ASSUME j > k PROVE FALSE
  <2>1. PICK d \in Nat : j = k + 1 + d
    BY <1>1
  <2>2. j * i = k * i + i + d * i
    BY <2>1
  <2>3. d * i \in Nat
    OBVIOUS
  <2> QED
    BY <2>2, <2>3
<1>2. ASSUME k > j PROVE FALSE
  <2>1. PICK d \in Nat : k = j + 1 + d
    BY <1>2
  <2>2. k * i = j * i + i + d * i
    BY <2>1
  <2>3. d * i \in Nat
    OBVIOUS
  <2> QED
    BY <2>2, <2>3
<1> QED
  BY <1>1, <1>2

-----------------------------------------------------------------------------
(* Type correctness                                                        *)

\* There has been time for a whole window, and a cycle has taken one.
ClockInv ==
  /\ \A p \in Procs : IntervalOf[p] + Lag <= now
  /\ \A p \in Procs : pc[p] \in InCycle => IntervalOf[p] <= win[p]

TypeInv == CollectorTypeOK /\ ClockInv

\* The clock and the intervals are numbers, and one interval has passed.
LEMMA Numbers ==
  ASSUME TypeInv, NEW p \in Procs
  PROVE  /\ now \in Nat /\ Lag \in Nat /\ LastTime \in Nat
         /\ IntervalOf[p] \in Nat \ {0}
         /\ IntervalOf[p] + Lag <= now
<1>1. now \in 0 .. LastTime
  BY Zenon DEF TypeInv, CollectorTypeOK
<1>2. Lag \in Nat /\ LastTime \in Nat /\ IntervalOf[p] \in Nat \ {0}
  BY TimeAssumption
<1>3. IntervalOf[p] + Lag <= now
  BY DEF TypeInv, ClockInv
<1> QED
  BY <1>1, <1>2, <1>3

\* What a process upserts are fact rows, and so is what they leave.
LEMMA UpsertType ==
  ASSUME TypeInv, NEW p \in Procs, pc[p] \in InCycle
  PROVE  Upsert(p) \subseteq [ start: Nat, end: Nat, container: Containers ]
<1>1. win[p] \in Nat /\ IntervalOf[p] \in Nat /\ IntervalOf[p] <= win[p]
  BY TimeAssumption DEF TypeInv, CollectorTypeOK, ClockInv
<1>2. win[p] - IntervalOf[p] \in Nat
  BY <1>1
<1>3. got[p] \subseteq Containers
  BY DEF TypeInv, CollectorTypeOK
<1>4. Rows(p) \subseteq [ start: Nat, end: Nat, container: Containers ]
  BY <1>1, <1>2, <1>3 DEF Rows, Row
<1> QED
  BY <1>4 DEF Upsert, TypeInv, CollectorTypeOK

LEMMA InitType == Init => TypeInv
<1> SUFFICES ASSUME Init PROVE TypeInv
  OBVIOUS
<1>1. CollectorTypeOK
  BY TimeAssumption DEF Init, CollectorTypeOK, Live, NoTicker, NoWindow
<1>2. ClockInv
  BY TimeAssumption DEF Init, ClockInv, InCycle
<1> QED
  BY <1>1, <1>2 DEF TypeInv

\* A cycle begins with an aligned window.
LEMMA BeginCycleType ==
  ASSUME TypeInv, NEW p \in Procs, BeginCycle(p), UNCHANGED now
  PROVE  /\ pc' \in [ Procs -> { "off" } \cup Live \cup Ended ]
         /\ began' \in [ Procs -> 0 .. LastTime ]
         /\ win' \in [ Procs -> Nat ]
         /\ outcome' \in [ Procs -> { "none", "success", "partial", "failed" } ]
         /\ steady' \in [ Procs -> SUBSET Containers ]
         /\ ClockInv'
<1>1. now - Lag \in Nat /\ IntervalOf[p] <= now - Lag
  BY Numbers
<1>2. AlignedWindow(p, now - Lag) \in Nat /\ IntervalOf[p] <= AlignedWindow(p, now - Lag)
  BY <1>1, Aligned
<1>3. win' \in [ Procs -> Nat ]
  BY <1>2 DEF BeginCycle, TypeInv, CollectorTypeOK
<1>4. ClockInv'
  BY <1>2 DEF BeginCycle, Goto, TypeInv, CollectorTypeOK, ClockInv
<1> QED
  BY <1>3, <1>4 DEF BeginCycle, Goto, TypeInv, CollectorTypeOK, Live, InCycle

\* The end of a process leaves its variables well typed.
LEMMA EndType ==
  ASSUME TypeInv, NEW p \in Procs, NEW how \in Ended, End(p, how),
         UNCHANGED << now, alive, informers, server, sig, err, win, done >>,
         facts' \subseteq [ start: Nat, end: Nat, container: Containers ]
  PROVE  TypeInv'
<1>1. CollectorTypeOK'
  <2>1. pc' \in [ Procs -> { "off" } \cup Live \cup Ended ]
    BY DEF End, Goto, TypeInv, CollectorTypeOK
  <2>2. /\ next' \in [ Procs -> Nat ] /\ tick' \in [ Procs -> BOOLEAN ]
        /\ began' \in [ Procs -> 0 .. LastTime ]
        /\ ended' \in 0 .. LastTime
    <3>1. ended' \in 0 .. LastTime
      BY Zenon DEF End, TypeInv, CollectorTypeOK
    <3>2. 0 \in 0 .. LastTime
      BY TimeAssumption
    <3>3. began' \in [ Procs -> 0 .. LastTime ]
      BY <3>2 DEF End, TypeInv, CollectorTypeOK
    <3> QED
      BY <3>1, <3>3 DEF End, TypeInv, CollectorTypeOK, NoTicker
  <2>3. /\ outcome' \in [ Procs -> { "none", "success", "partial", "failed" } ]
        /\ steady' \in [ Procs -> SUBSET Containers ]
    BY DEF End, TypeInv, CollectorTypeOK
  <2>4. /\ rates' \in [ Procs -> SUBSET Nodes ]
        /\ ahead' \in [ Procs -> SUBSET Namespaces ]
        /\ failed' \in [ Procs -> SUBSET Namespaces ]
        /\ got' \in [ Procs -> SUBSET Containers ]
    BY DEF End, Forget, TypeInv, CollectorTypeOK
  <2> QED
    BY <2>1, <2>2, <2>3, <2>4 DEF TypeInv, CollectorTypeOK
<1>2. ClockInv'
  BY DEF End, Goto, TypeInv, CollectorTypeOK, ClockInv, InCycle, Ended
<1> QED
  BY <1>1, <1>2 DEF TypeInv

\* The clock and the cluster.
LEMMA WorldType ==
  ASSUME TypeInv, Tick \/ PodAppears \/ PodDisappears
  PROVE  TypeInv'
<1>1. CASE Tick
  <2>1. now \in 0 .. LastTime /\ now < LastTime /\ now' = now + 1
    BY <1>1, Zenon DEF Tick, TypeInv, CollectorTypeOK
  <2>2. now' \in 0 .. LastTime
    BY <2>1, TimeAssumption
  <2>3. \A p \in Procs : next[p] \in Nat /\ IntervalOf[p] \in Nat /\ tick[p] \in BOOLEAN
    BY TimeAssumption DEF TypeInv, CollectorTypeOK
  <2>4. next' \in [ Procs -> Nat ]
    BY <1>1, <2>3 DEF Tick
  <2>5. tick' \in [ Procs -> BOOLEAN ]
    BY <1>1, <2>3, Zenon DEF Tick
  <2>6. UNCHANGED << alive, facts, ended, procVars, began, cycleVars >>
    BY <1>1, Zenon DEF Tick
  <2>7. CollectorTypeOK'
    BY <2>2, <2>4, <2>5, <2>6 DEF TypeInv, CollectorTypeOK, procVars, cycleVars
  <2>8. ClockInv'
    <3>1. \A p \in Procs : IntervalOf[p] + Lag <= now' 
      BY <2>1, Numbers
    <3> QED
      BY <3>1, <2>6 DEF TypeInv, ClockInv, procVars, cycleVars
  <2> QED
    BY <2>7, <2>8 DEF TypeInv
<1>2. CASE PodAppears
  <2>1. alive' \subseteq Containers
    BY <1>2, ClusterAssumption DEF PodAppears, TypeInv, CollectorTypeOK
  <2> QED
    BY <1>2, <2>1 DEF PodAppears, TypeInv, CollectorTypeOK, ClockInv,
                      procVars, clockVars, cycleVars
<1>3. CASE PodDisappears
  BY <1>3 DEF PodDisappears, TypeInv, CollectorTypeOK, ClockInv, procVars, clockVars
<1> QED
  BY <1>1, <1>2, <1>3

\* A process and its goroutines beside the loop.
LEMMA ProcessType ==
  ASSUME TypeInv, NEW p \in Procs,
         \/ Start(p) \/ Others(p) \/ Listener(p) \/ Sigterm(p) \/ Crash(p) \/ Exit(p)
  PROVE  TypeInv'
<1> USE DEF clockVars, cycleVars
<1>1. CASE Start(p)
  BY <1>1 DEF TypeInv, CollectorTypeOK, ClockInv, Start, Goto, Live, InCycle
<1>2. CASE Sync(p)
  BY <1>2 DEF TypeInv, CollectorTypeOK, ClockInv, Sync
<1>3. CASE SyncAborted(p)
  BY <1>3 DEF TypeInv, CollectorTypeOK, ClockInv, SyncAborted
<1>4. CASE SyncTimesOut(p)
  BY <1>4 DEF TypeInv, CollectorTypeOK, ClockInv, SyncTimesOut
<1>5. CASE ServerStops(p)
  BY <1>5 DEF TypeInv, CollectorTypeOK, ClockInv, ServerStops
<1>6. CASE ServerFails(p)
  BY <1>6 DEF TypeInv, CollectorTypeOK, ClockInv, ServerFails
<1>7. CASE Sigterm(p)
  BY <1>7 DEF TypeInv, CollectorTypeOK, ClockInv, Sigterm
<1>8. CASE Crash(p)
  <2>1. facts' \subseteq [ start: Nat, end: Nat, container: Containers ]
    BY <1>8, UpsertType DEF Crash, TypeInv, CollectorTypeOK, InCycle
  <2> QED
    BY <1>8, <2>1, EndType DEF Crash, Ended
<1>9. CASE Exit(p)
  <2>1. facts' \subseteq [ start: Nat, end: Nat, container: Containers ]
    BY <1>9 DEF Exit, TypeInv, CollectorTypeOK
  <2> QED
    BY <1>9, <2>1, EndType DEF Exit, Ended
<1> QED
  BY <1>1, <1>2, <1>3, <1>4, <1>5, <1>6, <1>7, <1>8, <1>9 DEF Others, Listener

\* The loop, up to and between the cycles.
LEMMA LoopType ==
  ASSUME TypeInv, NEW p \in Procs,
         EnterLoop(p) \/ StopBeforeFirst(p) \/ TakeTick(p) \/ StopLoop(p)
  PROVE  TypeInv'
<1> USE DEF clockVars, cycleVars
<1>1. CASE EnterLoop(p)
  <2>1. next' = [ next EXCEPT ![p] = now + IntervalOf[p] ]
    BY <1>1 DEF EnterLoop
  <2>2. next \in [ Procs -> Nat ]
    BY DEF TypeInv, CollectorTypeOK
  <2>3. next' \in [ Procs -> Nat ]
    BY <2>1, <2>2, Numbers
  <2> QED
    BY <1>1, <2>3, BeginCycleType DEF EnterLoop, TypeInv, CollectorTypeOK
<1>2. CASE StopBeforeFirst(p)
  BY <1>2 DEF TypeInv, CollectorTypeOK, ClockInv, StopBeforeFirst, Goto, Live, InCycle
<1>3. CASE TakeTick(p)
  BY <1>3, BeginCycleType DEF TakeTick, TypeInv, CollectorTypeOK
<1>4. CASE StopLoop(p)
  BY <1>4 DEF TypeInv, CollectorTypeOK, ClockInv, StopLoop, Goto, Live, InCycle
<1> QED
  BY <1>1, <1>2, <1>3, <1>4

\* A cycle's report.
LEMMA ReportType ==
  ASSUME TypeInv, NEW p \in Procs, pc[p] \in InCycle,
         NEW o \in { "success", "partial", "failed" }, Report(p, o),
         facts' \subseteq [ start: Nat, end: Nat, container: Containers ],
         UNCHANGED << now, alive, ended, informers, server, sig, err, began, win, steady >>
  PROVE  TypeInv'
  BY DEF Report, Forget, Goto, TypeInv, CollectorTypeOK, ClockInv, Live, InCycle

\* A cycle.
LEMMA CycleType ==
  ASSUME TypeInv, NEW p \in Procs,
         \/ ListInventory(p)
         \/ \E n \in Namespaces : CollectNamespace(p, n) \/ NamespaceFails(p, n)
         \/ Collected(p) \/ Write(p) \/ WriteFails(p)
  PROVE  TypeInv'
<1> USE DEF clockVars, cycleVars
<1>1. CASE ListInventory(p)
  <2>1. PICK N \in Cached(p, Nodes), M \in Cached(p, Namespaces) :
          /\ rates' = [ rates EXCEPT ![p] = N \cap Catalogue ]
          /\ ahead' = [ ahead EXCEPT ![p] = M ]
    BY <1>1, Zenon DEF ListInventory
  <2>2. N \subseteq Nodes /\ M \subseteq Namespaces
    BY DEF Cached
  <2>3. rates' \in [ Procs -> SUBSET Nodes ] /\ ahead' \in [ Procs -> SUBSET Namespaces ]
    BY <2>1, <2>2 DEF TypeInv, CollectorTypeOK
  <2> QED
    BY <1>1, <2>3 DEF ListInventory, TypeInv, CollectorTypeOK, ClockInv, Goto, Live, InCycle
<1>2. ASSUME NEW n \in Namespaces, CollectNamespace(p, n) PROVE TypeInv'
  <2>1. PICK C \in Cached(p, Pods(n)) :
          got' = [ got EXCEPT ![p] = @ \cup { c \in C : NodeOf[c] \in rates[p] } ]
    BY <1>2, Zenon DEF CollectNamespace
  <2>2. C \subseteq Containers
    BY DEF Cached, Pods, TypeInv, CollectorTypeOK
  <2>3. got' \in [ Procs -> SUBSET Containers ]
    BY <2>1, <2>2 DEF TypeInv, CollectorTypeOK
  <2> QED
    BY <1>2, <2>3 DEF CollectNamespace, TypeInv, CollectorTypeOK, ClockInv, procVars
<1>3. ASSUME NEW n \in Namespaces, NamespaceFails(p, n) PROVE TypeInv'
  BY <1>3 DEF NamespaceFails, TypeInv, CollectorTypeOK, ClockInv, procVars
<1>4. CASE Collected(p)
  <2>1. UNCHANGED << rates, ahead, failed, got >> \/ Forget(p)
    BY <1>4 DEF Collected
  <2>2. pc' \in [ Procs -> { "off" } \cup Live \cup Ended ] /\ ClockInv'
    BY <1>4 DEF Collected, TypeInv, CollectorTypeOK, ClockInv, Goto, Live, InCycle
  <2> QED
    BY <1>4, <2>1, <2>2 DEF Collected, Forget, TypeInv, CollectorTypeOK
<1>5. CASE Write(p)
  <2>1. facts' \subseteq [ start: Nat, end: Nat, container: Containers ]
    BY <1>5, UpsertType DEF Write, InCycle
  <2>2. Outcome(p) \in { "success", "partial", "failed" }
    BY DEF Outcome
  <2> QED
    BY <1>5, <2>1, <2>2, ReportType DEF Write, InCycle
<1>6. CASE WriteFails(p)
  <2>1. facts' \subseteq [ start: Nat, end: Nat, container: Containers ]
    BY <1>6, UpsertType DEF WriteFails, InCycle, TypeInv, CollectorTypeOK
  <2> QED
    BY <1>6, <2>1, ReportType DEF WriteFails, InCycle
<1> QED
  BY <1>1, <1>2, <1>3, <1>4, <1>5, <1>6

LEMMA NextType == TypeInv /\ [Next]_vars => TypeInv'
<1> SUFFICES ASSUME TypeInv, [Next]_vars PROVE TypeInv'
  OBVIOUS
<1>1. CASE UNCHANGED vars
  BY <1>1 DEF TypeInv, CollectorTypeOK, ClockInv, vars, procVars, clockVars, cycleVars
<1>2. CASE Next
  BY <1>2, WorldType, ProcessType, LoopType, CycleType DEF Next, LoopStep
<1> QED
  BY <1>1, <1>2

\* Every variable of the collector keeps its type; a fact row, in particular,
\* never starts before time does.
THEOREM CollectorTypeCorrect == Spec => []CollectorTypeOK
<1>1. Spec => []TypeInv
  BY InitType, NextType, PTL DEF Spec
<1> QED
  BY <1>1, PTL DEF TypeInv
-----------------------------------------------------------------------------
(* No cycle over a cache that is not full                                  *)

\* A sync that was cut off or timed out has ended the context for good, and
\* the loop is entered only when the sync is over.
SyncInv ==
  \A p \in Procs :
    /\ informers[p] \in { "aborted", "timed out" } => Cancelled(p)
    /\ pc[p] \in InCycle \cup {"select"} => informers[p] # "listing"
    /\ pc[p] = "writing" => informers[p] = "synced"
    /\ outcome[p] # "none" => informers[p] = "synced"

LEMMA InitSync == Init => SyncInv
  BY DEF Init, SyncInv, InCycle

LEMMA NextSync == TypeInv /\ SyncInv /\ [Next]_vars => SyncInv'
<1> SUFFICES ASSUME TypeInv, SyncInv, [Next]_vars PROVE SyncInv'
  OBVIOUS
<1> USE DEF procVars, clockVars, cycleVars
<1>0. /\ pc \in [ Procs -> { "off" } \cup Live \cup Ended ]
      /\ informers \in [ Procs -> { "listing", "synced", "aborted", "timed out" } ]
      /\ sig \in [ Procs -> BOOLEAN ] /\ err \in [ Procs -> BOOLEAN ]
      /\ outcome \in [ Procs -> { "none", "success", "partial", "failed" } ]
  BY DEF TypeInv, CollectorTypeOK
<1>1. CASE UNCHANGED vars
  BY <1>1 DEF vars, SyncInv, Cancelled
<1>2. CASE Tick
  BY <1>2, Zenon DEF Tick, SyncInv, Cancelled
<1>3. CASE PodAppears
  BY <1>3 DEF PodAppears, SyncInv, Cancelled
<1>4. CASE PodDisappears
  BY <1>4 DEF PodDisappears, SyncInv, Cancelled
<1>5. ASSUME NEW p \in Procs, Start(p) PROVE SyncInv'
  BY <1>0, <1>5 DEF Start, Goto, SyncInv, Cancelled, InCycle
<1>6. ASSUME NEW p \in Procs, Sync(p) PROVE SyncInv'
  BY <1>0, <1>6 DEF Sync, SyncInv, Cancelled
<1>7. ASSUME NEW p \in Procs, SyncAborted(p) PROVE SyncInv'
  BY <1>0, <1>7 DEF SyncAborted, SyncInv, Cancelled, InCycle
<1>8. ASSUME NEW p \in Procs, SyncTimesOut(p) PROVE SyncInv'
  BY <1>0, <1>8 DEF SyncTimesOut, SyncInv, Cancelled, InCycle
<1>9. ASSUME NEW p \in Procs, ServerStops(p) PROVE SyncInv'
  BY <1>0, <1>9 DEF ServerStops, SyncInv, Cancelled
<1>10. ASSUME NEW p \in Procs, ServerFails(p) PROVE SyncInv'
  BY <1>0, <1>10 DEF ServerFails, SyncInv, Cancelled
<1>11. ASSUME NEW p \in Procs, Sigterm(p) PROVE SyncInv'
  BY <1>0, <1>11 DEF Sigterm, SyncInv, Cancelled
<1>12. ASSUME NEW p \in Procs, Crash(p) \/ Exit(p) PROVE SyncInv'
  <2>1. End(p, "exited") \/ End(p, "dead")
    BY <1>12 DEF Crash, Exit
  <2>2. UNCHANGED << informers, sig, err >>
    BY <1>12 DEF Crash, Exit
  <2> QED
    BY <1>0, <2>1, <2>2 DEF End, Goto, SyncInv, Cancelled, InCycle
<1>13. ASSUME NEW p \in Procs, EnterLoop(p) \/ TakeTick(p) PROVE SyncInv'
  <2>1. BeginCycle(p) /\ UNCHANGED << informers, sig, err >>
    BY <1>13 DEF EnterLoop, TakeTick
  <2>2. informers[p] # "listing"
    BY <1>0, <1>13 DEF EnterLoop, TakeTick, SyncInv
  <2> QED
    BY <1>0, <2>1, <2>2 DEF BeginCycle, Goto, SyncInv, Cancelled, InCycle
<1>14. ASSUME NEW p \in Procs, StopBeforeFirst(p) \/ StopLoop(p) PROVE SyncInv'
  BY <1>0, <1>14 DEF StopBeforeFirst, StopLoop, Goto, SyncInv, Cancelled, InCycle
<1>15. ASSUME NEW p \in Procs, ListInventory(p) PROVE SyncInv'
  BY <1>0, <1>15 DEF ListInventory, Goto, SyncInv, Cancelled, InCycle
<1>16. ASSUME NEW p \in Procs, NEW n \in Namespaces,
              CollectNamespace(p, n) \/ NamespaceFails(p, n)
       PROVE  SyncInv'
  BY <1>16 DEF CollectNamespace, NamespaceFails, SyncInv, Cancelled
<1>17. ASSUME NEW p \in Procs, Collected(p) PROVE SyncInv'
  <2>1. UNCHANGED << informers, sig, err, outcome >>
    BY <1>17 DEF Collected
  <2>2. CASE ~Cancelled(p) /\ Goto(p, "writing")
    <3>1. informers[p] = "synced"
      BY <1>0, <1>17, <2>2 DEF Collected, SyncInv, InCycle
    <3> QED
      BY <1>0, <2>1, <2>2, <3>1 DEF Goto, SyncInv, Cancelled, InCycle
  <2>3. CASE Goto(p, "select")
    <3>1. informers[p] # "listing"
      BY <1>17 DEF Collected, SyncInv, InCycle
    <3> QED
      BY <1>0, <2>1, <2>3, <3>1 DEF Goto, SyncInv, Cancelled, InCycle
  <2> QED
    BY <1>17, <2>2, <2>3 DEF Collected
<1>18. ASSUME NEW p \in Procs, Write(p) \/ WriteFails(p) PROVE SyncInv'
  <2>1. UNCHANGED << informers, sig, err >> /\ pc[p] = "writing"
    BY <1>18 DEF Write, WriteFails
  <2>2. PICK o : Report(p, o)
    BY <1>18 DEF Write, WriteFails
  <2>3. pc' = [ pc EXCEPT ![p] = "select" ] /\ outcome' = [ outcome EXCEPT ![p] = o ]
    BY <2>2 DEF Report, Goto
  <2> QED
    BY <1>0, <2>1, <2>3 DEF SyncInv, Cancelled, InCycle
<1> QED
  BY <1>1, <1>2, <1>3, <1>4, <1>5, <1>6, <1>7, <1>8, <1>9, <1>10, <1>11, <1>12,
     <1>13, <1>14, <1>15, <1>16, <1>17, <1>18
     DEF Next, LoopStep, Others, Listener

\* Whatever closes the synced channel, no cycle over a cache that has not
\* synced is recorded or counted.
THEOREM UnsyncedNotCounted == Spec => []UnsyncedNeverCounts
<1>1. SyncInv => UnsyncedNeverCounts
  BY DEF SyncInv, UnsyncedNeverCounts
<1> QED
  BY <1>1, InitType, NextType, InitSync, NextSync, PTL DEF Spec
-----------------------------------------------------------------------------
(* One interval                                                            *)

\* The processes are all started with one COLLECTOR_INTERVAL.
EqualIntervals == \A p, q \in Procs : IntervalOf[p] = IntervalOf[q]

\* w is the end of a whole window of p.
WholeWindow(p, w) == \E k \in Nat : w = k * IntervalOf[p]

\* Every cycle's window is whole, and so is that of every fact row.
WindowInv ==
  /\ \A p \in Procs : WholeWindow(p, win[p])
  /\ \A r \in facts : \E p \in Procs :
       WholeWindow(p, r.end) /\ r.start = r.end - IntervalOf[p]

\* Steps that write nothing and begin no cycle.
LEMMA WindowKept == ASSUME WindowInv, UNCHANGED << win, facts >> PROVE WindowInv'
  BY DEF WindowInv, WholeWindow

\* A step that leaves the facts or upserts the current window of p.
LEMMA WindowUpserted ==
  ASSUME WindowInv, NEW p \in Procs, UNCHANGED win, facts' \in { facts, Upsert(p) }
  PROVE  WindowInv'
<1>1. \A r \in Rows(p) : WholeWindow(p, r.end) /\ r.start = r.end - IntervalOf[p]
  BY DEF WindowInv, Rows, Row
<1>2. \A r \in facts' : r \in facts \/ r \in Rows(p)
  BY DEF Upsert
<1> QED
  BY <1>1, <1>2 DEF WindowInv, WholeWindow

\* A cycle that begins takes a whole window.
LEMMA WindowBegun ==
  ASSUME TypeInv, WindowInv, NEW p \in Procs, BeginCycle(p), UNCHANGED facts
  PROVE  WindowInv'
<1>1. now - Lag \in Nat /\ IntervalOf[p] <= now - Lag
  BY Numbers
<1>2. WholeWindow(p, AlignedWindow(p, now - Lag))
  BY <1>1, Aligned DEF WholeWindow
<1>3. win' = [ win EXCEPT ![p] = AlignedWindow(p, now - Lag) ] /\ win \in [ Procs -> Nat ]
  BY DEF BeginCycle, TypeInv, CollectorTypeOK
<1>4. \A q \in Procs : WholeWindow(q, win'[q])
  BY <1>2, <1>3 DEF WindowInv
<1> QED
  BY <1>4 DEF WindowInv, WholeWindow

LEMMA InitWindow == Init => WindowInv
<1> SUFFICES ASSUME Init PROVE WindowInv
  OBVIOUS
<1>1. \A p \in Procs : 0 = 0 * IntervalOf[p]
  BY TimeAssumption
<1> QED
  BY <1>1 DEF Init, WindowInv, WholeWindow, NoWindow

LEMMA NextWindow == TypeInv /\ WindowInv /\ [Next]_vars => WindowInv'
<1> SUFFICES ASSUME TypeInv, WindowInv, [Next]_vars PROVE WindowInv'
  OBVIOUS
<1> USE DEF procVars, clockVars, cycleVars
<1>1. CASE UNCHANGED vars
  BY <1>1, WindowKept DEF vars
<1>2. CASE Tick
  <2>1. UNCHANGED << win, facts >>
    BY <1>2, Zenon DEF Tick
  <2> QED
    BY <2>1, WindowKept
<1>3. CASE PodAppears \/ PodDisappears
  BY <1>3, WindowKept DEF PodAppears, PodDisappears
<1>4. ASSUME NEW p \in Procs, \/ Start(p) \/ Others(p) \/ Listener(p)
                               \/ Sigterm(p) \/ Exit(p)
      PROVE  WindowInv'
  <2>1. UNCHANGED << win, facts >>
    BY <1>4 DEF Start, Others, Sync, SyncAborted, SyncTimesOut, Listener,
                ServerStops, ServerFails, Sigterm, Exit
  <2> QED
    BY <2>1, WindowKept
<1>5. ASSUME NEW p \in Procs, Crash(p) \/ Write(p) \/ WriteFails(p)
      PROVE  WindowInv'
  <2>1. UNCHANGED win /\ facts' \in { facts, Upsert(p) }
    BY <1>5 DEF Crash, Write, WriteFails
  <2> QED
    BY <2>1, WindowUpserted
<1>6. ASSUME NEW p \in Procs, EnterLoop(p) \/ TakeTick(p) PROVE WindowInv'
  BY <1>6, WindowBegun DEF EnterLoop, TakeTick
<1>7. ASSUME NEW p \in Procs,
             \/ StopBeforeFirst(p) \/ StopLoop(p) \/ ListInventory(p) \/ Collected(p)
             \/ \E n \in Namespaces : CollectNamespace(p, n) \/ NamespaceFails(p, n)
      PROVE  WindowInv'
  <2>1. UNCHANGED << win, facts >>
    BY <1>7 DEF StopBeforeFirst, StopLoop, ListInventory, Collected,
                CollectNamespace, NamespaceFails
  <2> QED
    BY <2>1, WindowKept
<1> QED
  BY <1>1, <1>2, <1>3, <1>4, <1>5, <1>6, <1>7 DEF Next, LoopStep

\* Rows over whole windows of one length that share a moment have one window,
\* and a container has one row of it.
LEMMA WholeWindowsDisjoint ==
  ASSUME TypeInv, WindowInv, EqualIntervals
  PROVE  NoMinuteCountedTwice
<1> SUFFICES ASSUME NEW r \in facts, NEW s \in facts, r.container = s.container,
                    r.start < s.end, s.start < r.end
             PROVE  r = s
  BY DEF NoMinuteCountedTwice
<1>1. PICK p \in Procs, q \in Procs :
        /\ WholeWindow(p, r.end) /\ r.start = r.end - IntervalOf[p]
        /\ WholeWindow(q, s.end) /\ s.start = s.end - IntervalOf[q]
  BY DEF WindowInv
<1> DEFINE i == IntervalOf[p]
<1>2. i \in Nat \ {0} /\ IntervalOf[q] = i
  BY TimeAssumption DEF EqualIntervals
<1> HIDE DEF i
<1>3. PICK j \in Nat, k \in Nat : r.end = j * i /\ s.end = k * i
  BY <1>1, <1>2 DEF WholeWindow, i
<1>4. r.start = j * i - i /\ s.start = k * i - i
  BY <1>1, <1>2, <1>3 DEF i
<1>5. j = k
  BY <1>2, <1>3, <1>4, NoPartialOverlap
<1>6. /\ r \in [ start: Nat, end: Nat, container: Containers ]
      /\ s \in [ start: Nat, end: Nat, container: Containers ]
  BY DEF TypeInv, CollectorTypeOK
<1> QED
  BY <1>3, <1>4, <1>5, <1>6

\* As long as the interval is not changed, restarts, overlapping processes,
\* lost answers and repeated cycles leave no moment of a container counted
\* twice.
THEOREM NoneCountedTwice ==
  ASSUME EqualIntervals
  PROVE  Spec => []NoMinuteCountedTwice
<1>1. TypeInv /\ WindowInv => NoMinuteCountedTwice
  BY EqualIntervals, WholeWindowsDisjoint
<1> QED
  BY <1>1, InitType, NextType, InitWindow, NextWindow, PTL DEF Spec
-----------------------------------------------------------------------------
(* A success has measured                                                  *)

\* What p has found out about container c, that it is to measure: its
\* namespace is still ahead or has failed, or its usage is in the result.
Accounted(p, c) == NsOf[c] \in ahead[p] \cup failed[p] \/ c \in got[p]

\* From the listing to the write a cycle over a full cache accounts for every
\* container that has been there from its beginning; after a success it is in
\* the table.
MeasureInvOf(p) ==
  /\ pc[p] \in InCycle => steady[p] \subseteq alive /\ outcome[p] = "none"
  /\ pc[p] = "writing" => ahead[p] = {}
  /\ pc[p] \in { "fanout", "writing" } /\ informers[p] = "synced" =>
       /\ rates[p] = Nodes \cap Catalogue
       /\ \A c \in steady[p] : NodeOf[c] \in Catalogue => Accounted(p, c)
  /\ outcome[p] = "success" =>
       \A c \in steady[p] : NodeOf[c] \in Catalogue => Row(p, win[p], c) \in facts

MeasureInv == \A p \in Procs : MeasureInvOf(p)

LEMMA InitMeasure == Init => MeasureInv
  BY DEF Init, MeasureInv, MeasureInvOf, InCycle

\* With one interval an upsert replaces a row by that row.
LEMMA UpsertKeeps ==
  ASSUME TypeInv, EqualIntervals, NEW p \in Procs, NEW q \in Procs, NEW c \in Containers,
         Row(p, win[p], c) \in facts
  PROVE  Row(p, win[p], c) \in Upsert(q)
<1> DEFINE r == Row(p, win[p], c)
<1>1. IntervalOf[p] \in Nat /\ IntervalOf[q] = IntervalOf[p] /\ win[p] \in Nat /\ win[q] \in Nat
  BY TimeAssumption DEF EqualIntervals, TypeInv, CollectorTypeOK
<1>2. ASSUME NEW s \in Rows(q), s.start = r.start, s.container = r.container
      PROVE  s = r
  <2>1. PICK b \in got[q] : s = Row(q, win[q], b)
    BY DEF Rows
  <2>2. b = c /\ win[q] - IntervalOf[q] = win[p] - IntervalOf[p]
    BY <1>2, <2>1 DEF Row
  <2>3. win[q] = win[p]
    BY <1>1, <2>2
  <2> QED
    BY <1>1, <2>1, <2>2, <2>3 DEF Row
<1>3. CASE \E s \in Rows(q) : s.start = r.start /\ s.container = r.container
  BY <1>2, <1>3 DEF Upsert
<1>4. CASE \A s \in Rows(q) : s.start # r.start \/ s.container # r.container
  BY <1>4 DEF Upsert
<1> QED
  BY <1>3, <1>4

\* What a step of another process leaves as it is.
ProcKept(q) ==
  /\ pc'[q] = pc[q] /\ informers'[q] = informers[q] /\ win'[q] = win[q]
  /\ rates'[q] = rates[q] /\ ahead'[q] = ahead[q] /\ failed'[q] = failed[q]
  /\ got'[q] = got[q] /\ outcome'[q] = outcome[q] /\ steady'[q] = steady[q]

\* A step of p leaves alone what the others have measured.
LEMMA MeasureStep ==
  ASSUME TypeInv, MeasureInv, EqualIntervals, NEW p \in Procs,
         \A q \in Procs \ {p} : ProcKept(q),
         facts' \in { facts, Upsert(p) }, alive' = alive, MeasureInvOf(p)'
  PROVE  MeasureInv'
<1> SUFFICES ASSUME NEW q \in Procs \ {p} PROVE MeasureInvOf(q)'
  BY DEF MeasureInv
<1>1. MeasureInvOf(q) /\ ProcKept(q)
  BY DEF MeasureInv
<1>2. ASSUME NEW c \in Containers, Row(q, win[q], c) \in facts
      PROVE  Row(q, win[q], c) \in facts'
  BY <1>2, UpsertKeeps
<1>3. steady[q] \subseteq Containers
  BY DEF TypeInv, CollectorTypeOK
<1>4. \A c : Row(q, win[q], c)' = Row(q, win[q], c)
  BY <1>1 DEF ProcKept, Row
<1> QED
  BY <1>1, <1>2, <1>3, <1>4 DEF MeasureInvOf, ProcKept, Accounted

\* The clock and the cluster take nothing from what has been measured.
LEMMA WorldMeasure ==
  ASSUME TypeInv, MeasureInv, Tick \/ PodAppears \/ PodDisappears
  PROVE  MeasureInv'
<1> USE DEF MeasureInv, MeasureInvOf, Accounted, Row
<1>1. CASE Tick
  <2>1. UNCHANGED << alive, facts, procVars, cycleVars >>
    BY <1>1, Zenon DEF Tick
  <2> QED
    BY <2>1 DEF procVars, cycleVars
<1>2. CASE PodAppears
  BY <1>2 DEF PodAppears, procVars, cycleVars
<1>3. CASE PodDisappears
  <2>1. PICK c \in Churn \cap alive :
          /\ alive' = alive \ {c}
          /\ steady' = [ p \in Procs |-> steady[p] \ {c} ]
    BY <1>3 DEF PodDisappears
  <2>2. UNCHANGED << facts, pc, informers, win, rates, ahead, failed, got, outcome >>
    BY <1>3 DEF PodDisappears, procVars
  <2> QED
    BY <2>1, <2>2
<1> QED
  BY <1>1, <1>2, <1>3

\* Outside a cycle, and at its beginning, there is nothing to account for.
LEMMA NoCycleMeasure ==
  ASSUME TypeInv, SyncInv, MeasureInv, EqualIntervals, NEW p \in Procs,
         \/ Start(p) \/ Others(p) \/ Listener(p) \/ Sigterm(p) \/ Crash(p) \/ Exit(p)
         \/ EnterLoop(p) \/ StopBeforeFirst(p) \/ TakeTick(p) \/ StopLoop(p)
  PROVE  MeasureInv'
<1> USE DEF cycleVars, clockVars
<1>0. /\ pc \in [ Procs -> { "off" } \cup Live \cup Ended ]
      /\ informers \in [ Procs -> { "listing", "synced", "aborted", "timed out" } ]
      /\ win \in [ Procs -> Nat ]
      /\ rates \in [ Procs -> SUBSET Nodes ]
      /\ ahead \in [ Procs -> SUBSET Namespaces ]
      /\ failed \in [ Procs -> SUBSET Namespaces ]
      /\ got \in [ Procs -> SUBSET Containers ]
      /\ outcome \in [ Procs -> { "none", "success", "partial", "failed" } ]
      /\ steady \in [ Procs -> SUBSET Containers ]
  BY DEF TypeInv, CollectorTypeOK
<1>1. MeasureInvOf(p)
  BY DEF MeasureInv
<1>2. CASE Start(p) \/ StopBeforeFirst(p) \/ StopLoop(p)
  <2>1. UNCHANGED << alive, facts, informers, cycleVars >>
    BY <1>2 DEF Start, StopBeforeFirst, StopLoop
  <2>2. \/ pc' = [ pc EXCEPT ![p] = "waiting" ]
        \/ pc' = [ pc EXCEPT ![p] = "stopped" ]
    BY <1>2 DEF Start, StopBeforeFirst, StopLoop, Goto
  <2>3. \A q \in Procs \ {p} : ProcKept(q)
    BY <1>0, <2>1, <2>2 DEF ProcKept
  <2>4. MeasureInvOf(p)'
    BY <1>0, <1>1, <2>1, <2>2 DEF MeasureInvOf, InCycle, Row
  <2> QED
    BY <2>1, <2>3, <2>4, MeasureStep
<1>3. CASE Others(p)
  <2>1. UNCHANGED << alive, facts, pc, cycleVars >>
    BY <1>3 DEF Others, Sync, SyncAborted, SyncTimesOut
  <2>2. informers[p] = "listing" /\ \E i : informers' = [ informers EXCEPT ![p] = i ]
    BY <1>3 DEF Others, Sync, SyncAborted, SyncTimesOut
  <2>3. \A q \in Procs \ {p} : ProcKept(q)
    BY <1>0, <2>1, <2>2 DEF ProcKept
  <2>4. pc[p] \notin InCycle
    BY <2>2 DEF SyncInv
  <2>5. MeasureInvOf(p)'
    BY <1>1, <2>1, <2>4 DEF MeasureInvOf, InCycle, Row
  <2> QED
    BY <2>1, <2>3, <2>5, MeasureStep
<1>4. CASE Listener(p) \/ Sigterm(p)
  <2>1. UNCHANGED << alive, facts, pc, informers, cycleVars >>
    BY <1>4 DEF Listener, ServerStops, ServerFails, Sigterm
  <2>2. \A q \in Procs : ProcKept(q)
    BY <2>1 DEF ProcKept
  <2>3. MeasureInvOf(p)'
    BY <1>1, <2>1 DEF MeasureInvOf, Accounted, Row
  <2> QED
    BY <2>1, <2>2, <2>3, MeasureStep
<1>5. CASE Crash(p) \/ Exit(p)
  <2>1. (\E how \in Ended : End(p, how)) /\ UNCHANGED << alive, informers, win >>
    BY <1>5 DEF Crash, Exit, Ended
  <2>2. facts' \in { facts, Upsert(p) }
    BY <1>5 DEF Crash, Exit
  <2>3. \A q \in Procs \ {p} : ProcKept(q)
    BY <1>0, <2>1 DEF ProcKept, End, Forget, Goto
  <2>4. pc'[p] \in Ended /\ outcome'[p] = "none"
    BY <1>0, <2>1 DEF End, Goto
  <2>5. MeasureInvOf(p)'
    BY <2>4 DEF MeasureInvOf, InCycle, Ended
  <2> QED
    BY <2>1, <2>2, <2>3, <2>5, MeasureStep
<1>6. CASE EnterLoop(p) \/ TakeTick(p)
  <2>1. BeginCycle(p) /\ UNCHANGED << alive, facts, informers, rates, ahead, failed, got >>
    BY <1>6 DEF EnterLoop, TakeTick
  <2>2. \A q \in Procs \ {p} : ProcKept(q)
    BY <1>0, <2>1 DEF ProcKept, BeginCycle, Goto
  <2>3. pc'[p] = "listing" /\ outcome'[p] = "none" /\ steady'[p] = alive'
    BY <1>0, <2>1 DEF BeginCycle, Goto
  <2>4. MeasureInvOf(p)'
    BY <2>3 DEF MeasureInvOf
  <2> QED
    BY <2>1, <2>2, <2>4, MeasureStep
<1> QED
  BY <1>2, <1>3, <1>4, <1>5, <1>6

\* In a cycle each step moves a namespace from ahead to got or to failed, or
\* all of got into the table.
LEMMA CycleMeasure ==
  ASSUME TypeInv, SyncInv, MeasureInv, EqualIntervals, NEW p \in Procs,
         \/ ListInventory(p)
         \/ \E n \in Namespaces : CollectNamespace(p, n) \/ NamespaceFails(p, n)
         \/ Collected(p) \/ Write(p) \/ WriteFails(p)
  PROVE  MeasureInv'
<1> USE DEF cycleVars, clockVars, procVars
<1>0. /\ pc \in [ Procs -> { "off" } \cup Live \cup Ended ]
      /\ rates \in [ Procs -> SUBSET Nodes ]
      /\ ahead \in [ Procs -> SUBSET Namespaces ]
      /\ failed \in [ Procs -> SUBSET Namespaces ]
      /\ got \in [ Procs -> SUBSET Containers ]
      /\ outcome \in [ Procs -> { "none", "success", "partial", "failed" } ]
  BY DEF TypeInv, CollectorTypeOK
<1>1. MeasureInvOf(p) /\ steady[p] \subseteq Containers
  BY DEF MeasureInv, TypeInv, CollectorTypeOK
<1>2. CASE ListInventory(p)
  <2>1. PICK N \in Cached(p, Nodes), M \in Cached(p, Namespaces) :
          /\ rates' = [ rates EXCEPT ![p] = N \cap Catalogue ]
          /\ ahead' = [ ahead EXCEPT ![p] = M ]
    BY <1>2, Zenon DEF ListInventory
  <2>2. /\ pc[p] = "listing" /\ pc' = [ pc EXCEPT ![p] = "fanout" ]
        /\ UNCHANGED << alive, facts, informers, win, failed, got, outcome, steady >>
    BY <1>2 DEF ListInventory, Goto
  <2>3. \A q \in Procs \ {p} : ProcKept(q)
    BY <1>0, <2>1, <2>2 DEF ProcKept
  <2>4. informers[p] = "synced" => N = Nodes /\ M = Namespaces
    BY DEF Cached
  <2>5. \A c \in steady[p] : NsOf[c] \in Namespaces
    BY <1>1, ClusterAssumption
  <2>6. MeasureInvOf(p)'
    BY <1>0, <1>1, <2>1, <2>2, <2>4, <2>5 DEF MeasureInvOf, Accounted, InCycle
  <2> QED
    BY <2>2, <2>3, <2>6, MeasureStep
<1>3. ASSUME NEW n \in Namespaces, CollectNamespace(p, n) PROVE MeasureInv'
  <2>1. PICK C \in Cached(p, Pods(n)) :
          got' = [ got EXCEPT ![p] = @ \cup { c \in C : NodeOf[c] \in rates[p] } ]
    BY <1>3, Zenon DEF CollectNamespace
  <2>2. /\ pc[p] = "fanout" /\ ahead' = [ ahead EXCEPT ![p] = @ \ {n} ]
        /\ UNCHANGED << alive, facts, pc, informers, win, rates, failed, outcome, steady >>
    BY <1>3 DEF CollectNamespace
  <2>3. \A q \in Procs \ {p} : ProcKept(q)
    BY <1>0, <2>1, <2>2 DEF ProcKept
  <2>4. ASSUME informers[p] = "synced", NEW c \in steady[p], NodeOf[c] \in Catalogue
        PROVE  Accounted(p, c)'
    <3>1. CASE NsOf[c] = n
      <4>1. c \in C
        BY <1>1, <2>1, <2>2, <2>4, <3>1 DEF Cached, Pods, MeasureInvOf, InCycle
      <4>2. NodeOf[c] \in rates[p]
        BY <1>1, <2>2, <2>4, ClusterAssumption DEF MeasureInvOf
      <4> QED
        BY <1>0, <2>1, <4>1, <4>2 DEF Accounted
    <3>2. CASE NsOf[c] # n
      BY <1>0, <1>1, <2>1, <2>2, <2>4, <3>2 DEF MeasureInvOf, Accounted
    <3> QED
      BY <3>1, <3>2
  <2>5. MeasureInvOf(p)'
    BY <1>1, <2>2, <2>4 DEF MeasureInvOf, InCycle
  <2> QED
    BY <2>2, <2>3, <2>5, MeasureStep
<1>4. ASSUME NEW n \in Namespaces, NamespaceFails(p, n) PROVE MeasureInv'
  <2>1. /\ pc[p] = "fanout" /\ ahead' = [ ahead EXCEPT ![p] = @ \ {n} ]
        /\ failed' = [ failed EXCEPT ![p] = @ \cup {n} ]
        /\ UNCHANGED << alive, facts, pc, informers, win, rates, got, outcome, steady >>
    BY <1>4 DEF NamespaceFails
  <2>2. \A q \in Procs \ {p} : ProcKept(q)
    BY <1>0, <2>1 DEF ProcKept
  <2>3. \A c : Accounted(p, c) => Accounted(p, c)'
    BY <1>0, <2>1 DEF Accounted
  <2>4. MeasureInvOf(p)'
    BY <1>1, <2>1, <2>3 DEF MeasureInvOf, InCycle
  <2> QED
    BY <2>1, <2>2, <2>4, MeasureStep
<1>5. CASE Collected(p)
  <2>1. /\ pc[p] = "fanout" /\ ahead[p] = {}
        /\ UNCHANGED << alive, facts, informers, win, outcome, steady >>
    BY <1>5 DEF Collected
  <2>2. CASE Goto(p, "writing") /\ UNCHANGED << rates, ahead, failed, got >>
    <3>1. \A q \in Procs \ {p} : ProcKept(q)
      BY <1>0, <2>1, <2>2 DEF ProcKept, Goto
    <3>2. MeasureInvOf(p)'
      BY <1>0, <1>1, <2>1, <2>2 DEF MeasureInvOf, Accounted, InCycle, Goto
    <3> QED
      BY <2>1, <3>1, <3>2, MeasureStep
  <2>3. CASE Goto(p, "select") /\ Forget(p)
    <3>1. \A q \in Procs \ {p} : ProcKept(q)
      BY <1>0, <2>1, <2>3 DEF ProcKept, Goto, Forget
    <3>2. pc'[p] = "select" /\ outcome'[p] = "none"
      BY <1>0, <1>1, <2>1, <2>3 DEF MeasureInvOf, InCycle, Goto
    <3>3. MeasureInvOf(p)'
      BY <3>2 DEF MeasureInvOf, InCycle
    <3> QED
      BY <2>1, <3>1, <3>3, MeasureStep
  <2> QED
    BY <1>5, <2>2, <2>3 DEF Collected
<1>6. CASE Write(p) \/ WriteFails(p)
  <2>1. /\ pc[p] = "writing" /\ facts' \in { facts, Upsert(p) }
        /\ UNCHANGED << alive, informers, win, steady >>
    BY <1>6 DEF Write, WriteFails
  <2>2. PICK o : Report(p, o) /\ (o = "success" => failed[p] = {} /\ facts' = Upsert(p))
    BY <1>6 DEF Write, WriteFails, Outcome
  <2>3. \A q \in Procs \ {p} : ProcKept(q)
    BY <1>0, <2>1, <2>2 DEF ProcKept, Report, Forget, Goto
  <2>4. pc'[p] = "select" /\ outcome'[p] = o
    BY <1>0, <2>2 DEF Report, Goto
  <2>5. ASSUME o = "success", NEW c \in steady[p], NodeOf[c] \in Catalogue
        PROVE  Row(p, win[p], c) \in facts'
    <3>1. c \in got[p]
      BY <1>1, <2>1, <2>2, <2>5 DEF MeasureInvOf, Accounted, SyncInv
    <3> QED
      BY <2>2, <2>5, <3>1 DEF Upsert, Rows
  <2>6. MeasureInvOf(p)'
    BY <2>1, <2>4, <2>5 DEF MeasureInvOf, InCycle, Row
  <2> QED
    BY <2>1, <2>3, <2>6, MeasureStep
<1> QED
  BY <1>2, <1>3, <1>4, <1>5, <1>6

LEMMA NextMeasure ==
  ASSUME EqualIntervals
  PROVE  TypeInv /\ SyncInv /\ MeasureInv /\ [Next]_vars => MeasureInv'
<1> SUFFICES ASSUME TypeInv, SyncInv, MeasureInv, [Next]_vars PROVE MeasureInv'
  OBVIOUS
<1>1. CASE UNCHANGED vars
  BY <1>1 DEF vars, procVars, cycleVars, MeasureInv, MeasureInvOf, Accounted, Row
<1>2. CASE Next
  BY <1>2, EqualIntervals, WorldMeasure, NoCycleMeasure, CycleMeasure DEF Next, LoopStep
<1> QED
  BY <1>1, <1>2

\* After a cycle that moves the last-success timestamp the table holds the
\* window of every container that was there throughout the cycle on a node
\* with a rate, and whatever other processes write, it stays there.
THEOREM SuccessHasMeasured ==
  ASSUME EqualIntervals
  PROVE  Spec => []SuccessMeansMeasured
<1>1. MeasureInv => SuccessMeansMeasured
  BY DEF MeasureInv, MeasureInvOf, SuccessMeansMeasured
<1>2. TypeInv /\ SyncInv /\ MeasureInv /\ [Next]_vars => MeasureInv'
  BY EqualIntervals, NextMeasure
<1> QED
  BY <1>1, <1>2, InitType, NextType, InitSync, NextSync, InitMeasure, PTL DEF Spec

-----------------------------------------------------------------------------
(* The steps, as the clock sees them                                       *)

\* q keeps its place and its times.
Same(q) ==
  /\ pc'[q] = pc[q] /\ next'[q] = next[q] /\ tick'[q] = tick[q]
  /\ began'[q] = began[q] /\ win'[q] = win[q] /\ done'[q] = done[q]
  /\ Cancelled(q) => Cancelled(q)'

\* p moves on, with the same window, and reports on it or not.
Moves(p) ==
  /\ next'[p] = next[p] /\ tick'[p] = tick[p]
  /\ began'[p] = began[p] /\ win'[p] = win[p] /\ ended' = ended
  /\ Cancelled(p) => Cancelled(p)'
  /\ \/ pc[p] \in InCycle /\ pc'[p] \in InCycle /\ done'[p] = done[p]
     \/ pc[p] \in InCycle /\ pc'[p] = "select" /\ done'[p] = win[p]
     \/ pc[p] \in InCycle /\ pc'[p] = "select" /\ done'[p] = done[p] /\ Cancelled(p)
     \/ pc[p] = "select" /\ pc'[p] = "stopped" /\ done'[p] = done[p] /\ Cancelled(p)
     \/ pc[p] = "waiting" /\ pc'[p] = "stopped" /\ done'[p] = done[p]
     \/ /\ pc[p] = "off" /\ pc'[p] = "waiting" /\ done'[p] = done[p]
        /\ Overlap \/ \A q \in Procs : pc[q] \in { "off" } \cup Ended

\* p ends, and its ticker with it.
Ends(p) ==
  /\ pc[p] \in Live /\ pc'[p] \in Ended /\ ended' = now
  /\ win'[p] = win[p] /\ done'[p] = done[p]

\* p begins a cycle.
Begins(p) ==
  /\ pc'[p] = "listing" /\ began'[p] = now /\ win'[p] = AlignedWindow(p, now - Lag)
  /\ done'[p] = done[p] /\ tick'[p] = FALSE /\ ended' = ended
  /\ \/ pc[p] = "waiting" /\ next'[p] = now + IntervalOf[p] /\ tick[p] = FALSE
     \/ pc[p] = "select" /\ next'[p] = next[p] /\ tick[p] = TRUE

\* A step of p, while the clock stands.
StepOf(p) ==
  /\ now' = now /\ \A q \in Procs \ {p} : Same(q)
  /\ Moves(p) \/ Ends(p) \/ Begins(p)

\* A process that waits has no tick yet.
NoTickYet ==
  \A p \in Procs : pc[p] \in { "off", "waiting" } => next[p] = NoTicker /\ tick[p] = FALSE

\* Nothing that the clock could see.
NoStep == now' = now /\ ended' = ended /\ \A q \in Procs : Same(q)

LEMMA LoopSteps ==
  ASSUME TypeInv, NoTickYet, NEW p \in Procs, LoopStep(p) \/ Start(p) \/ Crash(p)
  PROVE  StepOf(p) \/ NoStep
<1> USE DEF clockVars, cycleVars, procVars
<1>0. /\ pc \in [ Procs -> { "off" } \cup Live \cup Ended ]
      /\ next \in [ Procs -> Nat ] /\ tick \in [ Procs -> BOOLEAN ]
      /\ began \in [ Procs -> 0 .. LastTime ]
      /\ win \in [ Procs -> Nat ] /\ done \in [ Procs -> Nat ]
  BY DEF TypeInv, CollectorTypeOK
<1>1. CASE Start(p) \/ StopBeforeFirst(p) \/ StopLoop(p)
  <2>1. /\ UNCHANGED << now, ended, next, tick, began, win, done, sig, err >>
        /\ \E l : pc' = [ pc EXCEPT ![p] = l ]
    BY <1>1 DEF Start, StopBeforeFirst, StopLoop, Goto
  <2>2. \A q \in Procs \ {p} : Same(q)
    BY <1>0, <2>1 DEF Same, Cancelled
  <2>3. Moves(p)
    BY <1>0, <1>1, <2>1 DEF Moves, Start, StopBeforeFirst, StopLoop, Goto, Cancelled
  <2> QED
    BY <2>1, <2>2, <2>3 DEF StepOf
<1>2. CASE Exit(p) \/ Crash(p)
  <2>1. /\ pc[p] \in Live /\ UNCHANGED << now, win, done, sig, err >>
        /\ \E how \in Ended : End(p, how)
    BY <1>2 DEF Exit, Crash, Live, Ended
  <2>2. \A q \in Procs \ {p} : Same(q)
    BY <1>0, <2>1 DEF Same, Cancelled, End, Goto
  <2>3. Ends(p)
    BY <1>0, <2>1 DEF Ends, End, Goto
  <2> QED
    BY <2>1, <2>2, <2>3 DEF StepOf
<1>3. CASE EnterLoop(p) \/ TakeTick(p)
  <2>1. UNCHANGED << now, ended, done, sig, err >> /\ BeginCycle(p)
    BY <1>3 DEF EnterLoop, TakeTick
  <2>2. \/ pc[p] = "waiting" /\ next' = [ next EXCEPT ![p] = now + IntervalOf[p] ]
           /\ tick' = tick
        \/ pc[p] = "select" /\ next' = next /\ tick[p] /\ tick' = [ tick EXCEPT ![p] = FALSE ]
    BY <1>3 DEF EnterLoop, TakeTick
  <2>3. \A q \in Procs \ {p} : Same(q)
    BY <1>0, <2>1, <2>2 DEF Same, Cancelled, BeginCycle, Goto
  <2>4. /\ pc'[p] = "listing" /\ began'[p] = now /\ win'[p] = AlignedWindow(p, now - Lag)
        /\ done'[p] = done[p] /\ ended' = ended
    BY <1>0, <2>1 DEF BeginCycle, Goto
  <2>5. \/ pc[p] = "waiting" /\ next'[p] = now + IntervalOf[p] /\ tick[p] = FALSE
           /\ tick'[p] = FALSE
        \/ pc[p] = "select" /\ next'[p] = next[p] /\ tick[p] = TRUE /\ tick'[p] = FALSE
    <3>1. pc[p] = "waiting" => tick[p] = FALSE
      BY DEF NoTickYet
    <3>2. tick[p] \in BOOLEAN
      BY <1>0
    <3> QED
      BY <1>0, <2>2, <3>1, <3>2, Zenon
  <2>6. Begins(p)
    BY <2>4, <2>5, Zenon DEF Begins
  <2> QED
    BY <2>1, <2>3, <2>6 DEF StepOf
<1>4. CASE ListInventory(p) \/ \E n \in Namespaces : CollectNamespace(p, n) \/ NamespaceFails(p, n)
  <2>1. /\ UNCHANGED << now, ended, next, tick, began, win, done, sig, err >>
        /\ pc[p] \in InCycle
        /\ pc' = pc \/ pc' = [ pc EXCEPT ![p] = "fanout" ]
    BY <1>4 DEF ListInventory, CollectNamespace, NamespaceFails, Goto, InCycle
  <2>2. \A q \in Procs \ {p} : Same(q)
    BY <1>0, <2>1 DEF Same, Cancelled
  <2>3. Moves(p)
    BY <1>0, <2>1 DEF Moves, Cancelled, InCycle
  <2> QED
    BY <2>1, <2>2, <2>3 DEF StepOf
<1>5. CASE Collected(p)
  <2>1. /\ UNCHANGED << now, ended, next, tick, began, win, done, sig, err >>
        /\ pc[p] \in InCycle
        /\ \/ pc' = [ pc EXCEPT ![p] = "writing" ]
           \/ Cancelled(p) /\ pc' = [ pc EXCEPT ![p] = "select" ]
    BY <1>5 DEF Collected, Goto, InCycle
  <2>2. \A q \in Procs \ {p} : Same(q)
    BY <1>0, <2>1 DEF Same, Cancelled
  <2>3. Moves(p)
    BY <1>0, <2>1 DEF Moves, Cancelled, InCycle
  <2> QED
    BY <2>1, <2>2, <2>3 DEF StepOf
<1>6. CASE Write(p) \/ WriteFails(p)
  <2>1. /\ UNCHANGED << now, ended, next, tick, began, win, sig, err >>
        /\ pc[p] \in InCycle
        /\ done' = [ done EXCEPT ![p] = win[p] ]
        /\ pc' = [ pc EXCEPT ![p] = "select" ]
    BY <1>6 DEF Write, WriteFails, Report, Goto, InCycle
  <2>2. \A q \in Procs \ {p} : Same(q)
    BY <1>0, <2>1 DEF Same, Cancelled
  <2>3. Moves(p)
    BY <1>0, <2>1 DEF Moves, Cancelled, InCycle
  <2> QED
    BY <2>1, <2>2, <2>3 DEF StepOf
<1> QED
  BY <1>1, <1>2, <1>3, <1>4, <1>5, <1>6 DEF LoopStep

\* Every step is one of the clock, or of a process, or nothing to the clock.
LEMMA Steps ==
  ASSUME TypeInv, NoTickYet, [Next]_vars
  PROVE  Tick \/ NoStep \/ \E p \in Procs : StepOf(p)
<1> USE DEF clockVars, cycleVars, procVars
<1>1. CASE UNCHANGED vars \/ PodAppears \/ PodDisappears
  BY <1>1 DEF vars, PodAppears, PodDisappears, NoStep, Same, Cancelled
<1>2. ASSUME NEW p \in Procs, Others(p) \/ Listener(p) \/ Sigterm(p)
      PROVE  NoStep
  <2>1. /\ UNCHANGED << now, ended, pc, next, tick, began, win, done >>
        /\ sig' = sig \/ sig' = [ sig EXCEPT ![p] = TRUE ]
        /\ err' = err \/ err' = [ err EXCEPT ![p] = TRUE ]
    BY <1>2 DEF Others, Sync, SyncAborted, SyncTimesOut, Listener, ServerStops,
                ServerFails, Sigterm
  <2>2. sig \in [ Procs -> BOOLEAN ] /\ err \in [ Procs -> BOOLEAN ]
    BY DEF TypeInv, CollectorTypeOK
  <2>3. \A q \in Procs : Cancelled(q) => Cancelled(q)'
    BY <2>1, <2>2 DEF Cancelled
  <2> QED
    BY <2>1, <2>3 DEF NoStep, Same
<1> QED
  BY <1>1, <1>2, LoopSteps DEF Next

-----------------------------------------------------------------------------
(* The ticker keeps pace with the windows                                  *)

Running == InCycle \cup { "select" }

\* A quotient and a remainder are determined by the dividend.
LEMMA QuotientUnique ==
  ASSUME NEW i \in Nat \ {0}, NEW k \in Nat, NEW m \in Nat,
         NEW r \in 0 .. (i - 1), NEW s \in 0 .. (i - 1), i * k + r = i * m + s
  PROVE  k = m
<1>1. ASSUME m > k PROVE FALSE
  <2>1. PICK d \in Nat : m = k + 1 + d
    BY <1>1
  <2>2. i * m = i * k + i + i * d /\ i * d \in Nat /\ i * k \in Nat
    BY <2>1
  <2> QED
    BY <2>2
<1>2. ASSUME k > m PROVE FALSE
  <2>1. PICK d \in Nat : k = m + 1 + d
    BY <1>2
  <2>2. i * k = i * m + i + i * d /\ i * d \in Nat /\ i * m \in Nat
    BY <2>1
  <2> QED
    BY <2>2
<1> QED
  BY <1>1, <1>2

LEMMA Distributes ==
  ASSUME NEW i \in Nat, NEW k \in Nat
  PROVE  i * (k + 1) = i * k + i /\ (k + 1) * i = k * i + i
  OBVIOUS

\* An interval later is a window later.
LEMMA NextWindowAligned ==
  ASSUME NEW p \in Procs, NEW t \in Nat
  PROVE  AlignedWindow(p, t + IntervalOf[p]) = AlignedWindow(p, t) + IntervalOf[p]
<1> DEFINE i == IntervalOf[p]
           n == t + i
           k == t \div i
           m == n \div i
           r == t % i
           s == n % i
<1>1. i \in Nat \ {0}
  BY TimeAssumption
<1> HIDE DEF i
<1>2. k \in Nat /\ t = i * k + r /\ r \in 0 .. (i - 1)
  BY <1>1, Quotient
<1>3. n \in Nat
  BY <1>1
<1>4. m \in Nat /\ n = i * m + s /\ s \in 0 .. (i - 1)
  <2> HIDE DEF n
  <2> QED
    BY <1>1, <1>3, Quotient
<1>5. n = t + i
  OBVIOUS
<1> HIDE DEF k, m, r, s, n
<1>6. i * (k + 1) + r = i * m + s
  <2>1. i * (k + 1) = i * k + i /\ i * k \in Nat
    BY <1>1, <1>2, Distributes
  <2> QED
    BY <1>1, <1>2, <1>4, <1>5, <2>1
<1>7. k + 1 = m
  <2>1. k + 1 \in Nat
    BY <1>2
  <2> QED
    BY <1>1, <1>2, <1>4, <1>6, <2>1, QuotientUnique
<1>8. m * i = k * i + i
  BY <1>1, <1>2, <1>7, Distributes
<1> QED
  BY <1>8 DEF AlignedWindow, i, k, m, n

\* A process that has begun a cycle has the window that was due when it began,
\* and the next tick comes one interval after that; it is in its channel from
\* then on, and taken before more time passes.
ClockOf(p) ==
  /\ pc[p] \in { "off", "waiting" } =>
       win[p] = NoWindow /\ next[p] = NoTicker /\ tick[p] = FALSE
  /\ pc[p] \in Running =>
       /\ IntervalOf[p] + Lag <= began[p] /\ began[p] <= now
       /\ win[p] = AlignedWindow(p, began[p] - Lag)
       /\ \/ /\ tick[p] = FALSE /\ now < began[p] + IntervalOf[p]
             /\ next[p] = began[p] + IntervalOf[p]
          \/ /\ tick[p] = TRUE /\ now = began[p] + IntervalOf[p]
             /\ next[p] = began[p] + 2 * IntervalOf[p]
  /\ pc[p] \in InCycle => now <= began[p] + CycleTime

Ticking == \A p \in Procs : ClockOf(p)

LEMMA InitTicking == Init => Ticking
  BY DEF Init, Ticking, ClockOf, Running, InCycle

LEMMA TickingNoTickYet == Ticking => NoTickYet
  BY DEF Ticking, ClockOf, NoTickYet

\* The numbers that the clock works with.
LEMMA ClockNumbers ==
  ASSUME TypeInv, NEW p \in Procs
  PROVE  /\ now \in Nat /\ Lag \in Nat /\ CycleTime \in Nat /\ DownTime \in Nat
         /\ IntervalOf[p] \in Nat \ {0} /\ CycleTime + DownTime <= IntervalOf[p]
         /\ next[p] \in Nat /\ tick[p] \in BOOLEAN /\ began[p] \in Nat
         /\ win[p] \in Nat /\ done[p] \in Nat /\ ended \in Nat
         /\ IntervalOf[p] + Lag <= now
<1>1. now \in Nat /\ ended \in Nat
  <2>1. now \in 0 .. LastTime /\ ended \in 0 .. LastTime
    BY Zenon DEF TypeInv, CollectorTypeOK
  <2> QED
    BY <2>1, TimeAssumption
<1>2. next[p] \in Nat /\ tick[p] \in BOOLEAN /\ began[p] \in 0 .. LastTime /\ win[p] \in Nat /\ done[p] \in Nat
  BY DEF TypeInv, CollectorTypeOK
<1>3. began[p] \in Nat
  BY <1>2, TimeAssumption
<1> QED
  BY <1>1, <1>2, <1>3, Numbers, TimeAssumption

LEMMA TickTicking ==
  ASSUME TypeInv, Ticking, Tick, NEW p \in Procs
  PROVE  ClockOf(p)'
<1> DEFINE i == IntervalOf[p]
           fires == pc[p] \in Live /\ next[p] = now + 1
<1>1. now' = now + 1 /\ UNCHANGED << pc, began, win >>
  BY Zenon DEF Tick, procVars, cycleVars
<1>2. /\ tick'[p] = (tick[p] \/ fires)
      /\ next'[p] = IF fires THEN next[p] + i ELSE next[p]
  BY DEF Tick
<1>3. ClockOf(p)
  BY DEF Ticking
<1>4. pc[p] \in InCycle => now < began[p] + CycleTime
  BY Zenon DEF Tick
<1>5. pc[p] = "select" => tick[p] = FALSE
  BY ClockNumbers DEF Tick, Ready
<1>6. pc[p] \in Running => pc[p] \in Live
  BY DEF Running, InCycle, Live
<1>7. /\ now \in Nat /\ CycleTime \in Nat /\ i \in Nat \ {0} /\ CycleTime <= i
      /\ next[p] \in Nat /\ began[p] \in Nat /\ DownTime \in Nat
  BY ClockNumbers
<1>8. CASE pc[p] \in { "off", "waiting" }
  <2>1. next[p] = 0 /\ ~fires /\ tick[p] = FALSE
    BY <1>3, <1>7, <1>8 DEF ClockOf, NoTicker
  <2> QED
    BY <1>1, <1>2, <1>3, <1>8, <2>1 DEF ClockOf, Running, InCycle
<1>9. CASE pc[p] \in Running
  <2> DEFINE b == began[p]
  <2>1. /\ i + Lag <= b /\ b <= now /\ win[p] = AlignedWindow(p, b - Lag)
        /\ \/ tick[p] = FALSE /\ now < b + i /\ next[p] = b + i
           \/ tick[p] = TRUE /\ now = b + i /\ next[p] = b + 2 * i
    BY <1>3, <1>9, Zenon DEF ClockOf
  <2>2. pc[p] \in InCycle \/ pc[p] = "select"
    BY <1>9 DEF Running
  <2>3. tick[p] = FALSE /\ now < b + i /\ next[p] = b + i
    <3> HIDE DEF b, i
    <3>1. CASE pc[p] \in InCycle
      BY <1>4, <1>7, <2>1, <3>1 DEF b
    <3> QED
      BY <1>5, <2>1, <2>2, <3>1
  <2>4. fires <=> now + 1 = b + i
    BY <1>6, <1>9, <2>3
  <2>5. \/ tick'[p] = FALSE /\ now + 1 < b + i /\ next'[p] = b + i
        \/ tick'[p] = TRUE /\ now + 1 = b + i /\ next'[p] = b + 2 * i
    <3>1. CASE fires
      <4>1. next'[p] = (b + i) + i /\ tick'[p] = TRUE
        BY <1>2, <2>3, <3>1
      <4> QED
        BY <1>7, <2>4, <3>1, <4>1
    <3>2. CASE ~fires
      <4>1. next'[p] = b + i /\ tick'[p] = FALSE
        BY <1>2, <2>3, <3>2
      <4>2. now + 1 # b + i
        BY <2>4, <3>2
      <4>3. now + 1 < b + i
        <5> HIDE DEF b, i
        <5> QED
          BY <1>7, <2>3, <4>2 DEF b
      <4> QED
        BY <4>1, <4>3
    <3> QED
      BY <3>1, <3>2
  <2>6. pc[p] \in InCycle => now + 1 <= b + CycleTime
    BY <1>4, <1>7
  <2>7. pc[p] \notin { "off", "waiting" }
    BY <1>9 DEF Running, InCycle
  <2>8. b <= now + 1
    BY <1>7, <2>1
  <2> QED
    BY <1>1, <2>1, <2>5, <2>6, <2>7, <2>8, Zenon DEF ClockOf
<1>10. CASE pc[p] \notin { "off", "waiting" } \cup Running
  BY <1>1, <1>10 DEF ClockOf, Running
<1> QED
  BY <1>8, <1>9, <1>10

\* A cycle begins on the tick, or when the ticker starts.
LEMMA BeginsTicking ==
  ASSUME TypeInv, Ticking, NEW p \in Procs, Begins(p), now' = now
  PROVE  ClockOf(p)'
<1> DEFINE i == IntervalOf[p]
<1>1. /\ now \in Nat /\ CycleTime \in Nat /\ i \in Nat \ {0} /\ began[p] \in Nat
      /\ i + Lag <= now
  BY ClockNumbers
<1>2. next'[p] = now + i
  <2>1. CASE pc[p] = "waiting" /\ next'[p] = now + i
    BY <2>1
  <2>2. CASE pc[p] = "select" /\ next'[p] = next[p] /\ tick[p] = TRUE
    <3>1. now = began[p] + i /\ next[p] = began[p] + 2 * i
      BY <2>2 DEF Ticking, ClockOf, Running
    <3> QED
      BY <1>1, <2>2, <3>1
  <2> QED
    BY <2>1, <2>2, Zenon DEF Begins
<1>3. /\ pc'[p] = "listing" /\ began'[p] = now /\ win'[p] = AlignedWindow(p, now - Lag)
      /\ tick'[p] = FALSE
  BY Zenon DEF Begins
<1>4. now <= now /\ now < now + i /\ now <= now + CycleTime
  BY <1>1
<1>5. pc'[p] \notin { "off", "waiting" }
  BY <1>3
<1> QED
  BY <1>1, <1>2, <1>3, <1>4, <1>5, Zenon DEF ClockOf

LEMMA NextTicking == TypeInv /\ Ticking /\ [Next]_vars => Ticking'
<1> SUFFICES ASSUME TypeInv, Ticking, [Next]_vars, NEW p \in Procs
             PROVE  ClockOf(p)'
  BY DEF Ticking
<1>1. ClockOf(p)
  BY DEF Ticking
<1>2. CASE Tick
  BY <1>2, TickTicking
<1>3. ASSUME Same(p), now' = now PROVE ClockOf(p)'
  BY <1>1, <1>3 DEF Same, ClockOf
<1>4. ASSUME StepOf(p) PROVE ClockOf(p)'
  <2>1. CASE Moves(p)
    <3>1. /\ now' = now /\ next'[p] = next[p] /\ tick'[p] = tick[p]
          /\ began'[p] = began[p] /\ win'[p] = win[p]
      BY <1>4, <2>1, Zenon DEF StepOf, Moves
    <3>2. \/ pc[p] \in InCycle /\ pc'[p] \in Running
          \/ pc[p] \in { "select", "waiting" } /\ pc'[p] = "stopped"
          \/ pc[p] = "off" /\ pc'[p] = "waiting"
      BY <2>1 DEF Moves, Running
    <3> QED
      BY <1>1, <3>1, <3>2 DEF ClockOf, Running, InCycle
  <2>2. CASE Ends(p)
    BY <2>2 DEF Ends, ClockOf, Ended, Running, InCycle
  <2>3. CASE Begins(p)
    BY <1>4, <2>3, BeginsTicking DEF StepOf
  <2> QED
    BY <1>4, <2>1, <2>2, <2>3 DEF StepOf
<1>5. ASSUME NEW q \in Procs, StepOf(q) PROVE ClockOf(p)'
  <2>1. CASE q = p
    BY <1>4, <1>5, <2>1
  <2>2. CASE q # p
    BY <1>3, <1>5, <2>2 DEF StepOf
  <2> QED
    BY <2>1, <2>2
<1> QED
  BY <1>2, <1>3, <1>5, Steps, TickingNoTickYet DEF NoStep

\* While a cycle and a restart together fit into an interval, a process skips
\* no window: each of its cycles takes the window after the one before.
THEOREM NoWindowSkipped == Spec => ConsecutiveWindows
<1>1. ASSUME TypeInv, Ticking, [Next]_vars, NEW p \in Procs,
             win[p] # NoWindow, win'[p] # win[p]
      PROVE  win'[p] = win[p] + IntervalOf[p]
  <2>1. Begins(p) /\ now' = now
    <3>1. CASE Tick
      BY <1>1, <3>1, Zenon DEF Tick, cycleVars
    <3>2. CASE NoStep
      BY <1>1, <3>2 DEF NoStep, Same
    <3>3. ASSUME NEW q \in Procs, StepOf(q) PROVE Begins(p) /\ now' = now
      BY <1>1, <3>3 DEF StepOf, Same, Moves, Ends
    <3> QED
      BY <1>1, <3>1, <3>2, <3>3, Steps, TickingNoTickYet
  <2>2. ClockOf(p)
    BY <1>1 DEF Ticking
  <2>3. pc[p] = "select" /\ tick[p] = TRUE
    BY <1>1, <2>1, <2>2 DEF Begins, ClockOf
  <2>4. /\ now = began[p] + IntervalOf[p] /\ IntervalOf[p] + Lag <= began[p]
        /\ win[p] = AlignedWindow(p, began[p] - Lag)
    BY <2>2, <2>3 DEF ClockOf, Running
  <2>5. /\ IntervalOf[p] \in Nat \ {0} /\ began[p] \in Nat /\ Lag \in Nat
    BY <1>1, ClockNumbers
  <2>6. began[p] - Lag \in Nat /\ now - Lag = (began[p] - Lag) + IntervalOf[p]
    BY <2>4, <2>5
  <2>7. win'[p] = AlignedWindow(p, now - Lag)
    BY <2>1 DEF Begins
  <2> QED
    BY <2>4, <2>6, <2>7, NextWindowAligned
<1>2. TypeInv /\ Ticking /\ [Next]_vars =>
        (\A p \in Procs : win[p] # NoWindow /\ win'[p] # win[p] => win'[p] = win[p] + IntervalOf[p])
  BY <1>1
<1> QED
  BY <1>2, InitType, NextType, InitTicking, NextTicking, PTL DEF Spec, ConsecutiveWindows

-----------------------------------------------------------------------------
(* What a restart costs                                                    *)

\* Less than an interval has passed since the last whole window.
LEMMA AlignedBounds ==
  ASSUME NEW p \in Procs, NEW t \in Nat
  PROVE  AlignedWindow(p, t) <= t /\ t < AlignedWindow(p, t) + IntervalOf[p]
<1> DEFINE i == IntervalOf[p]
           k == t \div i
           r == t % i
<1>1. i \in Nat \ {0}
  BY TimeAssumption
<1> HIDE DEF i
<1>2. k \in Nat /\ t = i * k + r /\ r \in 0 .. (i - 1)
  BY <1>1, Quotient
<1> HIDE DEF k, r
<1>3. i * k = k * i /\ i * k \in Nat
  BY <1>1, <1>2
<1>4. k * i <= t /\ t < k * i + i
  BY <1>1, <1>2, <1>3
<1> QED
  BY <1>4 DEF AlignedWindow, i, k

\* Of two multiples less than two apart, the larger is the next one at most.
LEMMA MultipleBelow ==
  ASSUME NEW i \in Nat \ {0}, NEW j \in Nat, NEW k \in Nat, j * i < k * i + 2 * i
  PROVE  j * i <= k * i + i
<1>1. ASSUME j > k + 1 PROVE FALSE
  <2>1. PICK d \in Nat : j = k + 2 + d
    BY <1>1
  <2>2. j * i = k * i + 2 * i + d * i /\ d * i \in Nat /\ k * i \in Nat
    BY <2>1
  <2> QED
    BY <2>2
<1>2. CASE j = k + 1
  BY <1>2
<1>3. ASSUME j < k + 1 PROVE j * i <= k * i + i
  <2>1. PICK d \in Nat : k = j + d
    BY <1>3
  <2>2. k * i = j * i + d * i /\ d * i \in Nat /\ j * i \in Nat
    BY <2>1
  <2> QED
    BY <2>2
<1> QED
  BY <1>1, <1>2, <1>3

\* A process that collects at t, if it is within DownTime of now, or of the
\* last end, takes the window after the one that the end of q costs, or an
\* earlier one.
InTime(q) == now + DownTime < AtRisk(q) + 2 * IntervalOf[q] + Lag
OnTime(q) == ended + DownTime < AtRisk(q) + 2 * IntervalOf[q] + Lag

\* A process in a cycle, or waiting for the tick after a cycle that was not cut
\* off, may be stopped or killed now.
LEMMA RunningInTime ==
  TypeInv /\ Ticking =>
    \A q \in Procs :
      pc[q] \in InCycle \/ (pc[q] = "select" /\ done[q] = win[q]) => InTime(q)
<1> SUFFICES ASSUME TypeInv, Ticking, NEW q \in Procs,
                    pc[q] \in InCycle \/ (pc[q] = "select" /\ done[q] = win[q])
             PROVE  InTime(q)
  OBVIOUS
<1> DEFINE i == IntervalOf[q]
           b == began[q]
<1>1. /\ now \in Nat /\ Lag \in Nat /\ CycleTime \in Nat /\ DownTime \in Nat
      /\ i \in Nat \ {0} /\ CycleTime + DownTime <= i /\ b \in Nat /\ win[q] \in Nat
  BY ClockNumbers
<1>2. /\ i + Lag <= b /\ win[q] = AlignedWindow(q, b - Lag) /\ now <= b + i
      /\ pc[q] \in InCycle => now <= b + CycleTime
  <2> HIDE DEF i, b
  <2>1. ClockOf(q) /\ pc[q] \in Running
    BY DEF Ticking, Running
  <2>2. /\ i + Lag <= b /\ win[q] = AlignedWindow(q, b - Lag)
        /\ now < b + i \/ now = b + i
    BY <2>1, Zenon DEF ClockOf, i, b
  <2>3. pc[q] \in InCycle => now <= b + CycleTime
    BY <2>1, Zenon DEF ClockOf, b
  <2> QED
    BY <1>1, <2>2, <2>3
<1>3. b - Lag \in Nat
  BY <1>1, <1>2
<1>4. b - Lag < win[q] + i
  BY <1>2, <1>3, AlignedBounds
<1>5. AtRisk(q) = win[q] + i \/ (AtRisk(q) = win[q] /\ done[q] # win[q])
  BY DEF AtRisk
<1> HIDE DEF i, b
<1>6. now + DownTime < AtRisk(q) + 2 * i + Lag
  <2>1. CASE pc[q] \in InCycle
    <3>1. now + DownTime <= b + i
      BY <1>1, <1>2, <2>1
    <3>2. AtRisk(q) = win[q] + i \/ AtRisk(q) = win[q]
      BY <1>5
    <3> QED
      BY <1>1, <1>2, <1>4, <3>1, <3>2
  <2>2. CASE done[q] = win[q]
    <3>1. AtRisk(q) = win[q] + i
      BY <1>5, <2>2
    <3> QED
      BY <1>1, <1>2, <1>4, <3>1
  <2> QED
    BY <2>1, <2>2
<1> QED
  BY <1>6 DEF InTime, i

\* One process at a time; how long nobody has collected; whoever is to stop
\* does so in time; and the last end, if it is the end of a process that has
\* collected, was in time.
Alone == \A p, q \in Procs : pc[p] \in Live /\ pc[q] \in Live => p = q

DownBound == Down => now <= ended + DownTime

StopsInTime ==
  \A q \in Procs :
    pc[q] \in { "select", "stopped" } /\ win[q] # NoWindow =>
      InTime(q) /\ (pc[q] = "select" /\ done[q] # win[q] => Cancelled(q))

Covered(q) ==
  win[q] # NoWindow /\ (pc[q] \in Live \/ (pc[q] \in Ended /\ OnTime(q)))

LastEndCovered ==
  /\ \E q \in Procs : win[q] # NoWindow
  /\ \A q \in Procs : pc[q] \in Ended => win[q] # NoWindow
  => \E q \in Procs : Covered(q)

RestartInv == Alone /\ DownBound /\ StopsInTime /\ LastEndCovered

LEMMA InitRestart == Init => RestartInv
<1> SUFFICES ASSUME Init PROVE RestartInv
  OBVIOUS
<1>1. now \in Nat /\ DownTime \in Nat /\ ended = now
  BY TimeAssumption DEF Init
<1>2. DownBound
  BY <1>1 DEF DownBound
<1>3. \A p \in Procs : pc[p] = "off" /\ win[p] = NoWindow
  BY DEF Init
<1>4. Alone /\ StopsInTime /\ LastEndCovered
  BY <1>3 DEF Alone, StopsInTime, LastEndCovered, Live, InCycle
<1> QED
  BY <1>2, <1>4 DEF RestartInv

\* A step begins with nobody else and adds at most one.
LEMMA NextAlone ==
  ASSUME TypeInv, Alone, Overlap = FALSE, NEW p \in Procs, StepOf(p)
  PROVE  Alone'
<1>1. \A q \in Procs \ {p} : pc'[q] = pc[q]
  BY DEF StepOf, Same
<1>2. pc'[p] \in Live => pc[p] \in Live \/ \A q \in Procs : pc[q] \in { "off" } \cup Ended
  BY DEF StepOf, Moves, Ends, Begins, Live, Ended, InCycle
<1>3. \A q \in Procs : pc[q] \in { "off" } \cup Ended => pc[q] \notin Live
  BY DEF Live, Ended, InCycle
<1> QED
  BY <1>1, <1>2, <1>3, Zenon DEF Alone

LEMMA NextDown ==
  ASSUME TypeInv, DownBound, NEW p \in Procs, StepOf(p)
  PROVE  DownBound'
<1> SUFFICES ASSUME Down' PROVE now' <= ended' + DownTime
  BY DEF DownBound
<1>1. now \in Nat /\ ended \in Nat /\ DownTime \in Nat /\ now' = now
  BY ClockNumbers DEF StepOf
<1>2. \A q \in Procs : pc'[q] \in Ended \cup { "off", "waiting" }
  BY DEF Down
<1>3. CASE Ends(p)
  BY <1>1, <1>3 DEF Ends
<1>4. CASE Moves(p)
  <2>1. pc[p] = "off" /\ ended' = ended
    BY <1>2, <1>4 DEF Moves, Ended, InCycle
  <2>2. \A q \in Procs : pc[q] \in Ended \cup { "off", "waiting" }
    BY <1>2, <2>1 DEF StepOf, Same
  <2>3. Down
    BY <2>1, <2>2 DEF Down
  <2> QED
    BY <1>1, <2>1, <2>3 DEF DownBound
<1>5. CASE Begins(p)
  BY <1>2, <1>5 DEF Begins, Ended
<1> QED
  BY <1>3, <1>4, <1>5 DEF StepOf

LEMMA NextStops ==
  ASSUME TypeInv, Ticking, StopsInTime, NEW p \in Procs, StepOf(p),
         (\A q \in Procs : pc[q] \in InCycle \/ (pc[q] = "select" /\ done[q] = win[q])
                             => InTime(q))'
  PROVE  StopsInTime'
<1> SUFFICES ASSUME NEW q \in Procs, pc'[q] \in { "select", "stopped" }, win'[q] # NoWindow
             PROVE  InTime(q)' /\ (pc'[q] = "select" /\ done'[q] # win'[q] => Cancelled(q)')
  BY DEF StopsInTime
<1>1. now' = now
  BY DEF StepOf
<1>2. ASSUME InTime(q), win'[q] = win[q], done'[q] = done[q] PROVE InTime(q)'
  BY <1>1, <1>2 DEF InTime, AtRisk
<1>3. CASE q # p
  <2>1. Same(q)
    BY <1>3 DEF StepOf
  <2> QED
    BY <1>2, <2>1 DEF Same, StopsInTime
<1>4. CASE q = p
  <2>1. Moves(p)
    BY <1>4 DEF StepOf, Ends, Begins, Ended
  <2>2. CASE pc[p] \in InCycle /\ pc'[p] = "select" /\ done'[p] = win[p]
    BY <1>4, <2>1, <2>2 DEF Moves
  <2>3. CASE pc[p] \in InCycle /\ pc'[p] = "select" /\ done'[p] = done[p] /\ Cancelled(p)
    <3>1. InTime(p)
      BY <2>3, RunningInTime
    <3> QED
      BY <1>2, <1>4, <2>1, <2>3, <3>1 DEF Moves
  <2>4. CASE pc[p] = "select" /\ pc'[p] = "stopped" /\ done'[p] = done[p]
    BY <1>2, <1>4, <2>1, <2>4 DEF Moves, StopsInTime
  <2>5. pc[p] # "waiting"
    BY <1>4, <2>1 DEF Moves, Ticking, ClockOf
  <2> QED
    BY <1>4, <2>1, <2>2, <2>3, <2>4, <2>5 DEF Moves, InCycle
<1> QED
  BY <1>3, <1>4
LEMMA NextCovered ==
  ASSUME TypeInv, TypeInv', Ticking, StopsInTime, LastEndCovered, NEW p \in Procs, StepOf(p)
  PROVE  LastEndCovered'
<1> SUFFICES ASSUME \E q \in Procs : win'[q] # NoWindow,
                    \A q \in Procs : pc'[q] \in Ended => win'[q] # NoWindow
             PROVE  (\E q \in Procs : Covered(q))'
  BY DEF LastEndCovered
<1>1. CASE Ends(p)
  <2>1. win[p] # NoWindow /\ win'[p] = win[p] /\ done'[p] = done[p] /\ ended' = now /\ pc'[p] \in Ended
    BY <1>1 DEF Ends
  <2>2. InTime(p)
    <3>1. pc[p] \in InCycle \cup { "select", "stopped" }
      BY <1>1, <2>1 DEF Ends, Live, Ticking, ClockOf
    <3> QED
      BY <2>1, <3>1, RunningInTime DEF StopsInTime
  <2>3. Covered(p)'
    BY <2>1, <2>2 DEF Covered, InTime, OnTime, AtRisk
  <2> QED
    BY <2>3
<1>2. CASE Begins(p)
  <2>1. pc'[p] \in Live /\ win'[p] # NoWindow
    BY <1>2, TimeAssumption DEF Begins, Live, InCycle, TypeInv, ClockInv, NoWindow
  <2>2. Covered(p)'
    BY <2>1 DEF Covered
  <2> QED
    BY <2>2
<1>3. CASE Moves(p)
  <2>1. /\ win'[p] = win[p] /\ ended' = ended
        /\ pc'[p] \in Live /\ pc[p] \notin Ended
    BY <1>3 DEF Moves, Live, InCycle, Ended
  <2>2. \A q \in Procs \ {p} : Same(q)
    BY DEF StepOf
  <2>3. /\ \E q \in Procs : win[q] # NoWindow
        /\ \A q \in Procs : pc[q] \in Ended => win[q] # NoWindow
    BY <2>1, <2>2 DEF Same
  <2>4. PICK q \in Procs : Covered(q)
    BY <2>3 DEF LastEndCovered
  <2>5. Covered(q)'
    <3>1. CASE q = p
      BY <2>1, <2>4, <3>1 DEF Covered
    <3>2. CASE q # p
      BY <2>1, <2>2, <2>4, <3>2 DEF Covered, Same, OnTime, AtRisk
    <3> QED
      BY <3>1, <3>2
  <2> QED
    BY <2>5
<1> QED
  BY <1>1, <1>2, <1>3 DEF StepOf

LEMMA TickRestart ==
  ASSUME TypeInv, Ticking, RestartInv, Tick,
         (\A q \in Procs : pc[q] \in InCycle \/ (pc[q] = "select" /\ done[q] = win[q])
                             => InTime(q))'
  PROVE  RestartInv'
<1>1. now' = now + 1 /\ UNCHANGED << pc, win, done, ended >>
  BY Zenon DEF Tick, procVars, cycleVars
<1>2. Alone' /\ LastEndCovered'
  BY <1>1 DEF RestartInv, Alone, LastEndCovered, Covered, OnTime, AtRisk
<1>3. DownBound'
  <2>1. Down' => Down
    BY <1>1 DEF Down
  <2>2. Down => now < ended + DownTime
    BY Zenon DEF Tick
  <2>3. \A p \in Procs : now \in Nat /\ ended \in Nat /\ DownTime \in Nat
    BY ClockNumbers
  <2>4. Down => \E p \in Procs : TRUE
    BY DEF Down
  <2> QED
    BY <1>1, <2>1, <2>2, <2>3, <2>4 DEF DownBound
<1>4. StopsInTime'
  <2> SUFFICES ASSUME NEW q \in Procs, pc'[q] \in { "select", "stopped" }, win'[q] # NoWindow
               PROVE  InTime(q)' /\ (pc'[q] = "select" /\ done'[q] # win'[q] => Cancelled(q)')
    BY DEF StopsInTime
  <2>1. ~Ready(q)
    BY Zenon DEF Tick
  <2>2. pc[q] = "select" /\ ~Cancelled(q)
    BY <1>1, <2>1 DEF Ready
  <2>3. done[q] = win[q]
    BY <1>1, <2>2 DEF RestartInv, StopsInTime
  <2> QED
    BY <1>1, <2>2, <2>3
<1> QED
  BY <1>2, <1>3, <1>4 DEF RestartInv

LEMMA NextRestart ==
  ASSUME Overlap = FALSE
  PROVE  TypeInv /\ Ticking /\ RestartInv /\ [Next]_vars => RestartInv'
<1> SUFFICES ASSUME TypeInv, Ticking, RestartInv, [Next]_vars PROVE RestartInv'
  OBVIOUS
<1>1. TypeInv' /\ Ticking'
  BY NextType, NextTicking
<1>2. (TypeInv /\ Ticking =>
         \A q \in Procs : pc[q] \in InCycle \/ (pc[q] = "select" /\ done[q] = win[q])
                            => InTime(q))'
  BY RunningInTime, PTL
<1>3. (\A q \in Procs : pc[q] \in InCycle \/ (pc[q] = "select" /\ done[q] = win[q])
                          => InTime(q))'
  BY <1>1, <1>2
<1>4. CASE Tick
  BY <1>3, <1>4, TickRestart
<1>5. CASE NoStep
  <2>1. /\ now' = now /\ ended' = ended
        /\ \A q \in Procs : /\ pc'[q] = pc[q] /\ win'[q] = win[q] /\ done'[q] = done[q]
                            /\ Cancelled(q) => Cancelled(q)'
    BY <1>5 DEF NoStep, Same
  <2>2. Alone'
    BY <2>1 DEF RestartInv, Alone
  <2>3. DownBound'
    BY <2>1 DEF RestartInv, DownBound, Down
  <2>4. StopsInTime'
    BY <2>1 DEF RestartInv, StopsInTime, InTime, AtRisk
  <2>5. LastEndCovered'
    BY <2>1 DEF RestartInv, LastEndCovered, Covered, OnTime, AtRisk
  <2> QED
    BY <2>2, <2>3, <2>4, <2>5 DEF RestartInv
<1>6. ASSUME NEW p \in Procs, StepOf(p) PROVE RestartInv'
  <2>1. Alone'
    BY <1>6, Overlap = FALSE, NextAlone DEF RestartInv
  <2>2. DownBound'
    BY <1>6, NextDown DEF RestartInv
  <2>3. StopsInTime'
    BY <1>3, <1>6, NextStops DEF RestartInv
  <2>4. LastEndCovered'
    BY <1>1, <1>6, NextCovered DEF RestartInv
  <2> QED
    BY <2>1, <2>2, <2>3, <2>4 DEF RestartInv
<1> QED
  BY <1>4, <1>5, <1>6, Steps, TickingNoTickYet

\* With one process at a time and one interval, and with a cycle and a restart
\* that together fit into it, each end of a process costs one window: however
\* it was stopped or killed, and however often, the first window of the next
\* one comes right after.
THEOREM RestartLosesOne ==
  ASSUME Overlap = FALSE, EqualIntervals
  PROVE  Spec => RestartCostsOneWindow
<1> DEFINE Step == \A p \in Procs :
        /\ win[p] = NoWindow /\ win'[p] # NoWindow
        /\ \E q \in Procs : win[q] # NoWindow
        /\ \A q \in Procs : pc[q] \in Ended => win[q] # NoWindow
        => \E q \in Procs :
             win[q] # NoWindow /\ win'[p] <= AtRisk(q) + IntervalOf[q]
<1>1. ASSUME TypeInv, Ticking, WindowInv, RestartInv, [Next]_vars, NEW p \in Procs,
             win[p] = NoWindow, win'[p] # NoWindow,
             \E q \in Procs : win[q] # NoWindow,
             \A q \in Procs : pc[q] \in Ended => win[q] # NoWindow
      PROVE  \E q \in Procs :
               win[q] # NoWindow /\ win'[p] <= AtRisk(q) + IntervalOf[q]
  <2>1. Begins(p) /\ now' = now
    <3>1. CASE Tick
      BY <1>1, <3>1, Zenon DEF Tick, cycleVars
    <3>2. CASE NoStep
      BY <1>1, <3>2 DEF NoStep, Same
    <3>3. ASSUME NEW q \in Procs, StepOf(q) PROVE Begins(p) /\ now' = now
      BY <1>1, <3>3 DEF StepOf, Same, Moves, Ends
    <3> QED
      BY <1>1, <3>1, <3>2, <3>3, Steps, TickingNoTickYet
  <2>2. PICK q \in Procs : Covered(q)
    BY <1>1, Zenon DEF RestartInv, LastEndCovered
  <2>3. pc[p] \in Live
    BY <2>1 DEF Begins, Live
  <2>4. \A o \in Procs : pc[o] \in Live => o = p
    BY <1>1, <2>3 DEF RestartInv, Alone
  <2>5. win[q] # NoWindow /\ OnTime(q)
    BY <1>1, <2>2, <2>4 DEF Covered
  <2>6. pc[p] = "waiting"
    <3>1. pc[p] # "select"
      <4>1. ClockOf(p) /\ IntervalOf[p] \in Nat \ {0} /\ began[p] \in Nat /\ Lag \in Nat
        BY <1>1, ClockNumbers DEF Ticking
      <4>2. ASSUME pc[p] = "select" PROVE FALSE
        <5>1. began[p] - Lag \in Nat /\ IntervalOf[p] <= began[p] - Lag
              /\ win[p] = AlignedWindow(p, began[p] - Lag)
          BY <4>1, <4>2 DEF ClockOf, Running
        <5>2. IntervalOf[p] <= win[p]
          BY <5>1, Aligned
        <5> QED
          BY <1>1, <4>1, <5>2 DEF NoWindow
      <4> QED
        BY <4>2
    <3> QED
      BY <2>1, <3>1 DEF Begins
  <2>7. now <= ended + DownTime
    <3>1. \A o \in Procs : pc[o] \in Ended \cup { "off", "waiting" }
      <4>1. \A o \in Procs : pc[o] \in { "off" } \cup Live \cup Ended
        BY <1>1 DEF TypeInv, CollectorTypeOK
      <4> QED
        BY <2>4, <2>6, <4>1
    <3>2. Down
      BY <2>6, <3>1 DEF Down
    <3> QED
      BY <1>1, <3>2 DEF RestartInv, DownBound
  <2> DEFINE i == IntervalOf[q]
             w == AlignedWindow(p, now - Lag)
  <2>8. /\ now \in Nat /\ ended \in Nat /\ DownTime \in Nat /\ Lag \in Nat
        /\ i \in Nat \ {0} /\ IntervalOf[p] = i /\ i + Lag <= now
        /\ win[q] \in Nat
    BY <1>1, ClockNumbers, EqualIntervals DEF EqualIntervals
  <2>9. now - Lag \in Nat /\ IntervalOf[p] <= now - Lag
    BY <2>8
  <2>10. PICK j \in Nat : w = j * i
    BY <2>8, <2>9, Aligned
  <2>11. PICK k \in Nat : AtRisk(q) = k * i
    <3>1. PICK l \in Nat : win[q] = l * i
      BY <1>1 DEF WindowInv, WholeWindow
    <3>2. (l + 1) * i = l * i + i /\ l + 1 \in Nat
      <4> HIDE DEF i
      <4> QED
        BY <2>8, Distributes
    <3>3. AtRisk(q) = l * i \/ AtRisk(q) = l * i + i
      BY <3>1 DEF AtRisk
    <3> QED
      BY <3>2, <3>3
  <2>12. w <= now - Lag
    BY <2>9, AlignedBounds
  <2>13. now + 0 < AtRisk(q) + 2 * i + Lag
    <3>1. ended + DownTime < AtRisk(q) + 2 * i + Lag
      BY <2>5 DEF OnTime
    <3>2. AtRisk(q) \in Nat
      <4>1. AtRisk(q) = win[q] \/ AtRisk(q) = win[q] + i
        BY DEF AtRisk
      <4> HIDE DEF i
      <4> QED
        BY <2>8, <4>1
    <3> HIDE DEF i
    <3> QED
      BY <2>7, <2>8, <3>1, <3>2
  <2>14. win'[p] = w
    BY <2>1 DEF Begins
  <2>15. w <= AtRisk(q) + i
    <3> HIDE DEF i, w
    <3>1. k * i \in Nat /\ j * i \in Nat
      BY <2>8
    <3>2. j * i < k * i + 2 * i
      BY <2>8, <2>10, <2>11, <2>12, <2>13, <3>1
    <3>3. j * i <= k * i + i
      BY <2>8, <3>2, MultipleBelow
    <3> QED
      BY <2>10, <2>11, <3>3
  <2> QED
    BY <2>5, <2>14, <2>15
<1>2. TypeInv /\ Ticking /\ WindowInv /\ RestartInv /\ [Next]_vars => Step
  BY <1>1
<1>3. TypeInv /\ Ticking /\ RestartInv /\ [Next]_vars => RestartInv'
  BY Overlap = FALSE, NextRestart
<1> QED
  BY <1>2, <1>3, InitType, NextType, InitTicking, NextTicking, InitWindow, NextWindow,
     InitRestart, PTL DEF Spec, RestartCostsOneWindow

-----------------------------------------------------------------------------
(* The feed of the rollup                                                  *)

\* A day is a whole number of intervals, and a window is recorded within a day
\* of its end.
WholeDays ==
  \A p \in Procs :
    /\ \E k \in 1 .. DayLen : DayLen = k * IntervalOf[p]
    /\ CycleTime + Lag + IntervalOf[p] <= DayLen

\* Later times are on later days, and the next moment on this day or the next.
LEMMA QuotientGrows ==
  ASSUME NEW i \in Nat \ {0}, NEW a \in Nat, NEW b \in Nat, a <= b
  PROVE  a \div i <= b \div i
<1> DEFINE k == a \div i
           m == b \div i
           r == a % i
           s == b % i
<1>1. /\ k \in Nat /\ a = i * k + r /\ r \in 0 .. (i - 1)
      /\ m \in Nat /\ b = i * m + s /\ s \in 0 .. (i - 1)
  BY Quotient
<1> HIDE DEF k, m, r, s
<1>2. ASSUME k > m PROVE FALSE
  <2>1. PICK d \in Nat : k = m + 1 + d
    BY <1>1, <1>2
  <2>2. i * k = i * m + i + i * d /\ i * d \in Nat /\ i * m \in Nat
    BY <1>1, <2>1
  <2> QED
    BY <1>1, <2>2
<1>3. k <= m
  BY <1>1, <1>2
<1> QED
  BY <1>3 DEF k, m

LEMMA QuotientOf ==
  ASSUME NEW i \in Nat \ {0}, NEW k \in Nat, NEW r \in 0 .. (i - 1), NEW t \in Nat,
         t = i * k + r
  PROVE  t \div i = k
<1>1. t \div i \in Nat /\ t = i * (t \div i) + (t % i) /\ t % i \in 0 .. (i - 1)
  BY Quotient
<1> DEFINE m == t \div i
           s == t % i
<1> HIDE DEF m, s
<1>2. m \in Nat /\ i * k + r = i * m + s /\ s \in 0 .. (i - 1)
  BY <1>1 DEF m, s
<1>3. k = m
  BY <1>2, QuotientUnique
<1> QED
  BY <1>3 DEF m

LEMMA QuotientNext ==
  ASSUME NEW i \in Nat \ {0}, NEW t \in Nat
  PROVE  (t + 1) \div i \in { t \div i, (t \div i) + 1 }
<1> DEFINE k == t \div i
           r == t % i
           n == t + 1
<1>1. k \in Nat /\ t = i * k + r /\ r \in 0 .. (i - 1) /\ n \in Nat
  <2>1. k \in Nat /\ t = i * k + r /\ r \in 0 .. (i - 1)
    BY Quotient
  <2>2. n \in Nat
    OBVIOUS
  <2> QED
    BY <2>1, <2>2
<1> HIDE DEF k, r
<1>2. CASE r + 1 <= i - 1
  <2>1. r + 1 \in 0 .. (i - 1) /\ n = i * k + (r + 1)
    <3>1. i * k \in Nat
      BY <1>1
    <3> QED
      BY <1>1, <1>2, <3>1
  <2> HIDE DEF n
  <2>2. n \div i = k
    BY <1>1, <2>1, QuotientOf
  <2> QED
    BY <2>2 DEF n, k
<1>3. CASE r + 1 = i
  <2>1. n = i * (k + 1) + 0 /\ k + 1 \in Nat /\ 0 \in 0 .. (i - 1)
    <3>1. i * (k + 1) = i * k + i /\ i * k \in Nat
      BY <1>1, Distributes
    <3> QED
      BY <1>1, <1>3, <3>1
  <2> HIDE DEF n
  <2>2. n \div i = k + 1
    BY <1>1, <2>1, QuotientOf
  <2> QED
    BY <2>2 DEF n, k
<1> QED
  BY <1>1, <1>2, <1>3

\* A factor may be cancelled from an inequality.
LEMMA Cancels ==
  ASSUME NEW i \in Nat \ {0}, NEW a \in Nat, NEW b \in Nat, a * i < b * i
  PROVE  a < b
<1>1. ASSUME a >= b PROVE FALSE
  <2>1. PICK d \in Nat : a = b + d
    BY <1>1
  <2>2. a * i = b * i + d * i /\ d * i \in Nat /\ b * i \in Nat
    BY <2>1
  <2> QED
    BY <2>2
<1> QED
  BY <1>1

\* The multiples of i that lie on day d, with k of them to a day of D.
LEMMA SlotOfDay ==
  ASSUME NEW i \in Nat \ {0}, NEW k \in Nat \ {0}, NEW D \in Nat \ {0}, D = k * i,
         NEW m \in Nat, NEW d \in Nat, (m * i) \div D = d
  PROVE  d * k <= m /\ m < d * k + k
<1> DEFINE t == m * i
           r == t % D
<1>1. t \in Nat
  OBVIOUS
<1>2. t = D * d + r /\ r \in 0 .. (D - 1)
  <2> HIDE DEF t
  <2> QED
    BY <1>1, Quotient DEF t
<1> HIDE DEF r
<1>3. D * d = (d * k) * i
  <2>1. D * d = (k * i) * d
    OBVIOUS
  <2>2. (k * i) * d = (d * k) * i
    OBVIOUS
  <2> QED
    BY <2>1, <2>2
<1>4. d * k \in Nat /\ (d * k) * i \in Nat /\ m * i \in Nat
  OBVIOUS
<1>5. (d * k + k) * i = (d * k) * i + D
  <2> DEFINE e == d * k
  <2>1. e \in Nat
    OBVIOUS
  <2> HIDE DEF e
  <2>2. (e + k) * i = e * i + k * i
    BY <2>1
  <2> QED
    BY <2>2 DEF e
<1>6. (d * k) * i <= m * i /\ m * i < (d * k + k) * i
  BY <1>2, <1>3, <1>4, <1>5
<1>7. m < d * k + k
  <2>1. d * k + k \in Nat
    BY <1>4
  <2> QED
    BY <1>6, <2>1, Cancels
<1>8. ASSUME m < d * k PROVE FALSE
  <2>1. PICK c \in Nat : d * k = m + 1 + c
    BY <1>4, <1>8
  <2>2. (m + 1 + c) * i = m * i + i + c * i /\ c * i \in Nat
    OBVIOUS
  <2> QED
    BY <1>4, <1>6, <2>1, <2>2
<1> QED
  BY <1>4, <1>7, <1>8

\* One number of windows per day serves for all processes.
LEMMA PerDayOfAll ==
  ASSUME EqualIntervals, WholeDays, NEW p \in Procs
  PROVE  WindowsPerDay \in 1 .. DayLen /\ DayLen = WindowsPerDay * IntervalOf[p]
<1>1. PICK k \in 1 .. DayLen : DayLen = k * IntervalOf[p]
  BY DEF WholeDays
<1>2. \A q \in Procs : IntervalOf[q] = IntervalOf[p]
  BY DEF EqualIntervals
<1>3. \A q \in Procs : DayLen = k * IntervalOf[q]
  BY <1>1, <1>2
<1>4. \E n \in 1 .. DayLen : \A q \in Procs : DayLen = n * IntervalOf[q]
  BY <1>3
<1>5. WindowsPerDay \in 1 .. DayLen /\ \A q \in Procs : DayLen = WindowsPerDay * IntervalOf[q]
  BY <1>4, Zenon DEF WindowsPerDay
<1> QED
  BY <1>5

\* With one interval a fact row is known by the slot its window starts in.
LEMMA RowSlot ==
  ASSUME TypeInv, WindowInv, EqualIntervals, NEW p \in Procs, NEW r \in facts
  PROVE  /\ r.start \in Nat /\ r.end = r.start + IntervalOf[p]
         /\ \E m \in Nat : r.start = m * IntervalOf[p]
<1> DEFINE i == IntervalOf[p]
<1>1. PICK q \in Procs : WholeWindow(q, r.end) /\ r.start = r.end - IntervalOf[q]
  BY DEF WindowInv
<1>2. i \in Nat \ {0} /\ IntervalOf[q] = i
  BY TimeAssumption DEF EqualIntervals
<1>3. r.start \in Nat /\ r.end \in Nat
  BY DEF TypeInv, CollectorTypeOK
<1>4. PICK k \in Nat : r.end = k * i
  BY <1>1, <1>2 DEF WholeWindow
<1> HIDE DEF i
<1>5. k # 0
  BY <1>1, <1>2, <1>3, <1>4
<1>6. PICK m \in Nat : k = m + 1
  <2>1. k - 1 \in Nat /\ k = (k - 1) + 1
    BY <1>5
  <2> QED
    BY <2>1
<1>7. k * i = m * i + i /\ m * i \in Nat
  BY <1>2, <1>6, Distributes
<1> QED
  BY <1>1, <1>2, <1>3, <1>4, <1>7 DEF i

\* A container has no more rows on a day than the day has windows, and one
\* fewer as long as one of its windows has none.
LEMMA RoomForRows ==
  ASSUME TypeInv, WindowInv, EqualIntervals, WholeDays, NEW p \in Procs,
         NEW c \in Containers, NEW m0 \in Nat, NEW d \in Nat,
         (m0 * IntervalOf[p]) \div DayLen = d,
         \A r \in RowsOf(d, c) : r.start # m0 * IntervalOf[p]
  PROVE  /\ IsFiniteSet(RowsOf(d, c))
         /\ Cardinality(RowsOf(d, c)) \in Nat
         /\ Cardinality(RowsOf(d, c)) < WindowsPerDay
<1> DEFINE i == IntervalOf[p]
           k == WindowsPerDay
           S == RowsOf(d, c)
           slot(r) == CHOOSE m \in Nat : r.start = m * i
           f == [ r \in S |-> slot(r) ]
           a == d * k
           b == d * k + k - 1
           M == a .. b
           T == M \ {m0}
<1>1. /\ i \in Nat \ {0} /\ k \in Nat \ {0} /\ DayLen \in Nat \ {0} /\ DayLen = k * i
  BY TimeAssumption, DayAssumption, PerDayOfAll
<1>2. a \in Nat /\ b \in Int /\ a <= b /\ b - a + 1 = k
  BY <1>1
<1>3. ASSUME NEW m \in Nat, (m * i) \div DayLen = d PROVE m \in M
  <2>1. d * k <= m /\ m < d * k + k
    <3> HIDE DEF i, k
    <3> QED
      BY <1>1, <1>3, SlotOfDay
  <2> QED
    BY <1>1, <1>2, <2>1
<1>4. ASSUME NEW r \in S
      PROVE  /\ r \in [ start: Nat, end: Nat, container: Containers ]
             /\ r.container = c /\ r.end = r.start + i
             /\ slot(r) \in T /\ r.start = slot(r) * i
  <2>1. r \in facts /\ r.container = c /\ DayOf(r.start) = d
    BY DEF RowsOf
  <2>2. r \in [ start: Nat, end: Nat, container: Containers ]
    BY <2>1 DEF TypeInv, CollectorTypeOK
  <2>3. r.end = r.start + i /\ \E m \in Nat : r.start = m * i
    BY <2>1, RowSlot
  <2>4. slot(r) \in Nat /\ r.start = slot(r) * i
    BY <2>3, Zenon
  <2>5. slot(r) # m0
    BY <2>4
  <2> HIDE DEF slot
  <2>6. (slot(r) * i) \div DayLen = d
    BY <2>1, <2>4 DEF DayOf
  <2>7. slot(r) \in M
    BY <1>3, <2>4, <2>6
  <2> QED
    BY <2>1, <2>2, <2>3, <2>4, <2>5, <2>7
<1>5. f \in Injection(S, T)
  <2>1. f \in [ S -> T ]
    BY <1>4
  <2>2. ASSUME NEW r \in S, NEW s \in S, f[r] = f[s] PROVE r = s
    <3>1. slot(r) = slot(s)
      BY <2>2
    <3> HIDE DEF slot, S, i
    <3>2. r.start = s.start
      BY <1>4, <3>1
    <3>3. r.end = s.end /\ r.container = s.container
      BY <1>4, <3>2
    <3> QED
      BY <1>4, <3>2, <3>3
  <2> HIDE DEF f, S, T
  <2> QED
    BY <2>1, <2>2 DEF Injection, IsInjective
<1>6. IsFiniteSet(M) /\ Cardinality(M) = k
  <2> HIDE DEF a, b
  <2> QED
    BY <1>2, FS_Interval
<1>7. m0 \in M
  BY <1>3
<1>8. IsFiniteSet(T) /\ Cardinality(T) = k - 1
  <2> HIDE DEF M, k
  <2> QED
    BY <1>6, <1>7, FS_RemoveElement
<1>9. IsFiniteSet(S) /\ Cardinality(S) <= Cardinality(T)
  <2> HIDE DEF f, S, T
  <2> QED
    BY <1>5, <1>8, FS_Injection
<1>10. Cardinality(S) \in Nat
  <2> HIDE DEF S
  <2> QED
    BY <1>9, FS_CardinalityType
<1>11. Cardinality(S) < k
  <2> HIDE DEF S, T, k
  <2> QED
    BY <1>1, <1>8, <1>9, <1>10
<1> QED
  BY <1>9, <1>10, <1>11

\* With one interval an upsert adds rows and takes none away.
LEMMA UpsertAdds ==
  ASSUME TypeInv, WindowInv, EqualIntervals, NEW p \in Procs, pc[p] \in InCycle
  PROVE  Upsert(p) = facts \cup Rows(p)
<1> DEFINE i == IntervalOf[p]
<1>1. win[p] \in Nat /\ i \in Nat /\ i <= win[p]
  BY TimeAssumption DEF TypeInv, CollectorTypeOK, ClockInv
<1>2. ASSUME NEW r \in facts, NEW s \in Rows(p), r.start = s.start, r.container = s.container
      PROVE  r = s
  <2>1. PICK c \in got[p] : s = Row(p, win[p], c)
    BY DEF Rows
  <2>2. s.start = win[p] - i /\ s.end = win[p] /\ s.container = c
        /\ s = [ start |-> win[p] - i, end |-> win[p], container |-> c ]
    BY <2>1 DEF Row
  <2>3. r.end = r.start + i /\ r \in [ start: Nat, end: Nat, container: Containers ]
    BY RowSlot DEF TypeInv, CollectorTypeOK
  <2>4. r.end = win[p]
    <3> HIDE DEF i
    <3> QED
      BY <1>1, <1>2, <2>2, <2>3
  <2> HIDE DEF i
  <2> QED
    BY <1>2, <2>2, <2>3, <2>4
<1> QED
  BY <1>2 DEF Upsert

\* The window of a cycle is in its slot and lies on this day or the one before.
LEMMA WindowDay ==
  ASSUME TypeInv, Ticking, EqualIntervals, WholeDays, NEW p \in Procs, pc[p] \in InCycle
  PROVE  /\ win[p] - IntervalOf[p] \in Nat
         /\ \E m \in Nat : win[p] - IntervalOf[p] = m * IntervalOf[p]
         /\ DayOf(win[p] - IntervalOf[p]) \in { DayOf(now), DayOf(now) - 1 } \cap 0 .. DayOf(LastTime)
<1> DEFINE i == IntervalOf[p]
           k == WindowsPerDay
           b == began[p]
           w == win[p]
           D == DayLen
           today == DayOf(now)
<1>1. /\ i \in Nat \ {0} /\ k \in Nat \ {0} /\ D \in Nat \ {0} /\ D = k * i
      /\ now \in Nat /\ Lag \in Nat /\ CycleTime \in Nat /\ b \in Nat /\ w \in Nat
      /\ CycleTime + Lag + i <= D
  BY DayAssumption, PerDayOfAll, ClockNumbers DEF WholeDays
<1>2. now \in 0 .. LastTime /\ LastTime \in Nat
  BY TimeAssumption, Zenon DEF TypeInv, CollectorTypeOK
<1>3. /\ i + Lag <= b /\ b <= now /\ w = AlignedWindow(p, b - Lag)
      /\ now <= b + CycleTime
  BY Zenon DEF Ticking, ClockOf, Running
<1>4. b - Lag \in Nat /\ i <= b - Lag
  BY <1>1, <1>3
<1>5. /\ i <= w /\ w <= b - Lag /\ b - Lag < w + i
  BY <1>3, <1>4, Aligned, AlignedBounds
<1>6. PICK n \in Nat : w = n * i
  BY <1>3, <1>4, Aligned
<1> HIDE DEF i, k, b, w, D
<1>7. n # 0
  BY <1>1, <1>5, <1>6
<1>8. PICK m \in Nat : n = m + 1
  <2>1. n - 1 \in Nat /\ n = (n - 1) + 1
    BY <1>7
  <2> QED
    BY <2>1
<1>9. w - i = m * i /\ m * i \in Nat
  <2>1. w = m * i + i /\ m * i \in Nat
    BY <1>1, <1>6, <1>8, Distributes
  <2> QED
    BY <1>1, <2>1
<1> DEFINE s == w - i
<1>10. s \in Nat /\ s <= now /\ now <= LastTime
  BY <1>1, <1>2, <1>3, <1>5, <1>9
<1>11. today \in Nat /\ now = D * today + (now % D) /\ now % D \in 0 .. (D - 1)
  BY <1>1, Quotient DEF DayOf, D
<1>12. DayOf(s) \in Nat /\ DayOf(LastTime) \in Nat
  <2> HIDE DEF s
  <2> QED
    BY <1>1, <1>2, <1>10, Quotient DEF DayOf, D
<1>13. DayOf(s) <= today /\ today <= DayOf(LastTime)
  <2> HIDE DEF s
  <2> QED
    BY <1>1, <1>2, <1>10, QuotientGrows DEF DayOf, D
<1>14. today <= DayOf(s) + 1
  <2>1. CASE today = 0
    <3> HIDE DEF today, s
    <3> QED
      BY <1>12, <2>1
  <2>2. CASE today # 0
    <3> HIDE DEF today, s
    <3>1. PICK e \in Nat : today = e + 1
      <4>1. today - 1 \in Nat /\ today = (today - 1) + 1
        BY <1>11, <2>2
      <4> QED
        BY <4>1
    <3>2. D * today = D * e + D /\ D * e \in Nat
      BY <1>1, <3>1, Distributes
    <3>3. D * e < w
      BY <1>1, <1>3, <1>5, <1>11, <3>2
    <3>4. D * e = (e * k) * i /\ e * k \in Nat
      BY <1>1
    <3>5. (e * k) * i < n * i
      BY <1>6, <3>3, <3>4
    <3>6. e * k < n
      BY <1>1, <3>4, <3>5, Cancels
    <3>7. PICK c \in Nat : m = e * k + c
      <4> DEFINE x == e * k
      <4>1. x \in Nat /\ x < n
        BY <3>4, <3>6
      <4> HIDE DEF x
      <4>2. m - x \in Nat /\ m = x + (m - x)
        BY <1>8, <4>1
      <4> QED
        BY <4>2 DEF x
    <3>8. D * e <= s
      <4> DEFINE x == e * k
      <4>1. x \in Nat
        BY <3>4
      <4> HIDE DEF x
      <4>2. (x + c) * i = x * i + c * i /\ c * i \in Nat /\ x * i \in Nat
        BY <1>1, <4>1
      <4>3. m * i = x * i + c * i /\ D * e = x * i
        BY <3>4, <3>7, <4>2 DEF x
      <4> QED
        BY <1>9, <4>2, <4>3 DEF s
    <3>9. (D * e) \div D = e
      <4> DEFINE t == D * e
      <4>1. t \in Nat /\ t = D * e + 0 /\ 0 \in 0 .. (D - 1)
        BY <1>1, <3>2
      <4> HIDE DEF t
      <4>2. t \div D = e
        BY <1>1, <4>1, QuotientOf
      <4> QED
        BY <4>2 DEF t
    <3>10. e <= DayOf(s)
      <4>1. (D * e) \div D <= s \div D
        BY <1>1, <1>10, <3>2, <3>8, QuotientGrows
      <4> QED
        BY <3>9, <4>1 DEF DayOf, D
    <3> QED
      BY <1>12, <3>1, <3>10
  <2> QED
    BY <2>1, <2>2
<1>15. DayOf(s) \in { today, today - 1 } \cap 0 .. DayOf(LastTime)
  <2> HIDE DEF s, today
  <2> QED
    BY <1>11, <1>12, <1>13, <1>14
<1> QED
  BY <1>9, <1>15 DEF s, w, i

\* Only a process that writes touches the facts, and only by its upsert.
LEMMA FactsStep ==
  ASSUME TypeInv, [Next]_vars
  PROVE  \/ facts' = facts /\ now' \in { now, now + 1 } /\ now' \in 0 .. LastTime
         \/ /\ now' = now
            /\ \E p \in Procs : pc[p] \in InCycle /\ facts' = Upsert(p)
<1> USE DEF procVars, clockVars, cycleVars
<1>1. now' \in 0 .. LastTime
  <2>1. TypeInv'
    BY NextType
  <2> QED
    BY <2>1, Zenon DEF TypeInv, CollectorTypeOK
<1>2. CASE Tick
  BY <1>1, <1>2, Zenon DEF Tick
<1>3. CASE UNCHANGED vars \/ PodAppears \/ PodDisappears
  BY <1>1, <1>3 DEF vars, PodAppears, PodDisappears
<1>4. ASSUME NEW p \in Procs,
             \/ Start(p) \/ Others(p) \/ Listener(p) \/ Sigterm(p) \/ Exit(p)
             \/ EnterLoop(p) \/ StopBeforeFirst(p) \/ TakeTick(p) \/ StopLoop(p)
             \/ ListInventory(p) \/ Collected(p)
             \/ \E n \in Namespaces : CollectNamespace(p, n) \/ NamespaceFails(p, n)
      PROVE  facts' = facts /\ now' = now
  BY <1>4 DEF Start, Others, Sync, SyncAborted, SyncTimesOut, Listener, ServerStops,
     ServerFails, Sigterm, Exit, EnterLoop, StopBeforeFirst, TakeTick, StopLoop,
     ListInventory, Collected, CollectNamespace, NamespaceFails
<1>5. ASSUME NEW p \in Procs, Write(p) \/ WriteFails(p) \/ Crash(p)
      PROVE  /\ now' = now
             /\ facts' = facts \/ (pc[p] \in InCycle /\ facts' = Upsert(p))
  BY <1>5 DEF Write, WriteFails, Crash, InCycle
<1> QED
  BY <1>1, <1>2, <1>3, <1>4, <1>5 DEF Next, LoopStep

\* The rows of a day and container after the upsert of p.
LEMMA RowsAdded ==
  ASSUME TypeInv, WindowInv, EqualIntervals, NEW p \in Procs, pc[p] \in InCycle,
         facts' = Upsert(p), NEW d, NEW c \in Containers
  PROVE  RowsOf(d, c)' =
           IF c \in got[p] /\ DayOf(win[p] - IntervalOf[p]) = d
             THEN RowsOf(d, c) \cup { Row(p, win[p], c) } ELSE RowsOf(d, c)
<1>1. facts' = facts \cup Rows(p)
  BY UpsertAdds
<1>2. \A r \in Rows(p) :
        r.container = c => c \in got[p] /\ r = Row(p, win[p], c)
  BY DEF Rows, Row
<1>3. c \in got[p] => Row(p, win[p], c) \in Rows(p)
  BY DEF Rows
<1>4. Row(p, win[p], c).container = c /\ Row(p, win[p], c).start = win[p] - IntervalOf[p]
  BY DEF Row
<1>5. RowsOf(d, c)' = { r \in facts' : r.container = c /\ DayOf(r.start) = d }
  BY DEF RowsOf, DayOf
<1> DEFINE n == Row(p, win[p], c)
<1> HIDE DEF n
<1>6. \A r : r \in RowsOf(d, c)' <=>
        \/ r \in RowsOf(d, c)
        \/ c \in got[p] /\ DayOf(win[p] - IntervalOf[p]) = d /\ r = n
  BY <1>1, <1>2, <1>3, <1>4, <1>5 DEF RowsOf, n
<1> QED
  BY <1>6 DEF n

\* What the rollup sees of the facts follows from the facts.
LEMMA ShownFollows == facts' = facts => PerDayAndContainer' = PerDayAndContainer
  BY DEF PerDayAndContainer, RowsOf, DayOf

LEMMA InitFeed == Init => Feed!Init
<1> SUFFICES ASSUME Init PROVE Feed!Init
  OBVIOUS
<1>1. now \in 0 .. LastTime /\ LastTime \in Nat
  BY TimeAssumption DEF Init
<1>2. DayOf(now) \in 0 .. DayOf(LastTime)
  BY <1>1, DayAssumption, Quotient, QuotientGrows DEF DayOf
<1>3. \A d, c : RowsOf(d, c) = {}
  BY DEF Init, RowsOf
<1>4. Cardinality({}) = 0
  BY FS_EmptySet
<1>5. PerDayAndContainer = [ d \in 0 .. DayOf(LastTime) |-> [ c \in Containers |-> 0 ] ]
  BY <1>3, <1>4 DEF PerDayAndContainer
<1> QED
  BY <1>2, <1>5 DEF Feed!Init
LEMMA NextFeed ==
  ASSUME EqualIntervals, WholeDays
  PROVE  TypeInv /\ Ticking /\ WindowInv /\ [Next]_vars =>
           [Feed!NextDay \/ Feed!CollectorWrites]_<< DayOf(now), PerDayAndContainer >>
<1> SUFFICES ASSUME TypeInv, Ticking, WindowInv, [Next]_vars
             PROVE  [Feed!NextDay \/ Feed!CollectorWrites]_<< DayOf(now), PerDayAndContainer >>
  OBVIOUS
<1> DEFINE shown == PerDayAndContainer
           days == 0 .. DayOf(LastTime)
<1>1. CASE facts' = facts /\ now' \in { now, now + 1 } /\ now' \in 0 .. LastTime
  <2>1. shown' = shown
    BY <1>1, ShownFollows
  <2>2. CASE DayOf(now)' = DayOf(now)
    BY <2>1, <2>2
  <2>3. CASE DayOf(now)' # DayOf(now)
    <3>1. now \in Nat /\ LastTime \in Nat /\ DayLen \in Nat \ {0}
      <4>1. now \in 0 .. LastTime
        BY Zenon DEF TypeInv, CollectorTypeOK
      <4> QED
        BY <4>1, TimeAssumption, DayAssumption
    <3>2. now' = now + 1
      BY <1>1, <2>3 DEF DayOf
    <3>3. DayOf(now)' = DayOf(now) + 1
      BY <2>3, <3>1, <3>2, QuotientNext DEF DayOf
    <3>4. DayOf(now)' \in days
      <4>1. DayOf(now)' = now' \div DayLen
        BY DEF DayOf
      <4>2. now' \in Nat /\ now' <= LastTime
        BY <1>1, <3>1
      <4> DEFINE n == now'
      <4> HIDE DEF n
      <4>3. n \div DayLen \in Nat /\ LastTime \div DayLen \in Nat
            /\ n \div DayLen <= LastTime \div DayLen
        BY <3>1, <4>2, Quotient, QuotientGrows DEF n
      <4> QED
        BY <4>1, <4>3 DEF n, DayOf
    <3> QED
      BY <2>1, <3>3, <3>4 DEF Feed!NextDay
  <2> QED
    BY <2>2, <2>3
<1>2. ASSUME now' = now, NEW p \in Procs, pc[p] \in InCycle, facts' = Upsert(p)
      PROVE  [Feed!NextDay \/ Feed!CollectorWrites]_<< DayOf(now), PerDayAndContainer >>
  <2> DEFINE i == IntervalOf[p]
             d0 == DayOf(win[p] - i)
             G == { c \in got[p] : Row(p, win[p], c) \notin facts }
  <2>1. DayOf(now)' = DayOf(now)
    BY <1>2 DEF DayOf
  <2>2. got[p] \subseteq Containers
    BY DEF TypeInv, CollectorTypeOK
  <2>3. CASE G = {}
    <3>1. Rows(p) \subseteq facts
      BY <2>3 DEF Rows
    <3>2. facts' = facts
      BY <1>2, <3>1, UpsertAdds
    <3> QED
      BY <2>1, <3>2, ShownFollows
  <2>4. CASE G # {}
    <3>1. /\ win[p] - i \in Nat /\ \E m \in Nat : win[p] - i = m * i
          /\ d0 \in { DayOf(now), DayOf(now) - 1 } \cap days
      BY <1>2, WindowDay
    <3>2. PICK m \in Nat : win[p] - i = m * i
      BY <3>1
    <3>3. G \in (SUBSET Containers) \ {{}}
      BY <2>2, <2>4
    <3>4. d0 \in Nat
      BY <3>1
    <3>5. ASSUME NEW c \in G
          PROVE  /\ IsFiniteSet(RowsOf(d0, c)) /\ Cardinality(RowsOf(d0, c)) \in Nat
                 /\ Cardinality(RowsOf(d0, c)) < WindowsPerDay
                 /\ Row(p, win[p], c) \notin RowsOf(d0, c)
      <4>1. c \in Containers /\ Row(p, win[p], c) \notin facts
        BY <3>3
      <4>2. ASSUME NEW r \in RowsOf(d0, c), r.start = m * i PROVE FALSE
        <5>1. r \in facts /\ r.container = c
          BY DEF RowsOf
        <5>2. r.end = r.start + i /\ r \in [ start: Nat, end: Nat, container: Containers ]
          BY <5>1, RowSlot DEF TypeInv, CollectorTypeOK
        <5>3. r.start = win[p] - i
          BY <3>2, <4>2
        <5>4. win[p] \in Nat /\ i \in Nat
          BY ClockNumbers
        <5>5. r.end = win[p]
          <6> HIDE DEF i
          <6> QED
            BY <5>2, <5>3, <5>4
        <5>6. r = [ start |-> win[p] - i, end |-> win[p], container |-> c ]
          <6> HIDE DEF i
          <6> QED
            BY <5>1, <5>2, <5>3, <5>5
        <5> QED
          BY <4>1, <5>1, <5>6 DEF Row
      <4>3. (m * i) \div DayLen = d0
        BY <3>2 DEF DayOf
      <4> HIDE DEF d0
      <4>4. /\ IsFiniteSet(RowsOf(d0, c)) /\ Cardinality(RowsOf(d0, c)) \in Nat
            /\ Cardinality(RowsOf(d0, c)) < WindowsPerDay
        BY <3>4, <4>1, <4>2, <4>3, RoomForRows
      <4> QED
        BY <4>1, <4>4 DEF RowsOf
    <3>6. ASSUME NEW d \in days, NEW c \in Containers
          PROVE  Cardinality(RowsOf(d, c)') =
                   IF d = d0 /\ c \in G THEN Cardinality(RowsOf(d, c)) + 1
                   ELSE Cardinality(RowsOf(d, c))
      <4>1. RowsOf(d, c)' =
              IF c \in got[p] /\ d0 = d
                THEN RowsOf(d, c) \cup { Row(p, win[p], c) } ELSE RowsOf(d, c)
        BY <1>2, RowsAdded
      <4>2. CASE d = d0 /\ c \in G
        <5>1. RowsOf(d, c)' = RowsOf(d, c) \cup { Row(p, win[p], c) }
          BY <4>1, <4>2
        <5> QED
          BY <3>5, <4>2, <5>1, FS_AddElement
      <4>3. CASE ~(d = d0 /\ c \in G)
        <5>1. ASSUME c \in got[p], d0 = d PROVE Row(p, win[p], c) \in RowsOf(d, c)
          BY <4>3, <5>1 DEF RowsOf, Row
        <5>2. RowsOf(d, c)' = RowsOf(d, c)
          BY <4>1, <5>1
        <5> QED
          BY <4>3, <5>2
      <4> QED
        BY <4>2, <4>3
    <3>7. shown' = [ d \in days |-> [ c \in Containers |-> Cardinality(RowsOf(d, c)') ] ]
      BY DEF PerDayAndContainer, DayOf
    <3>8. shown = [ d \in days |-> [ c \in Containers |-> Cardinality(RowsOf(d, c)) ] ]
      BY DEF PerDayAndContainer
    <3> HIDE DEF d0, G, days
    <3>9. shown' = [ shown EXCEPT ![d0] =
                       [ c \in Containers |-> IF c \in G THEN @[c] + 1 ELSE @[c] ] ]
      <4>1. shown' = [ d \in days |-> [ c \in Containers |->
                         IF d = d0 /\ c \in G THEN shown[d][c] + 1 ELSE shown[d][c] ] ]
        BY <3>6, <3>7, <3>8
      <4>2. shown = [ d \in days |-> shown[d] ] /\ \A d \in days : shown[d] = [ c \in Containers |-> shown[d][c] ]
        BY <3>8
      <4> HIDE DEF shown
      <4> QED
        BY <4>1, <4>2
    <3>10. \A c \in G : shown[d0][c] < WindowsPerDay
      BY <3>1, <3>3, <3>5, <3>8
    <3>11. Feed!CollectorWrites
      BY <2>1, <3>1, <3>3, <3>9, <3>10 DEF Feed!CollectorWrites, days
    <3> QED
      BY <3>11
  <2> QED
    BY <2>3, <2>4
<1> QED
  BY <1>1, <1>2, FactsStep

\* With one interval, which divides the day, the collector implements the feed
\* that the rollup reads: whatever overlaps, restarts and repeats there are, a
\* step adds one window of today or yesterday for some containers, none of which
\* had it, and takes nothing away.
THEOREM CollectorFeedsRollup ==
  ASSUME EqualIntervals, WholeDays
  PROVE  Spec => ImplementsFactFeed
<1>1. TypeInv /\ Ticking /\ WindowInv /\ [Next]_vars =>
        [Feed!NextDay \/ Feed!CollectorWrites]_<< DayOf(now), PerDayAndContainer >>
  BY EqualIntervals, WholeDays, NextFeed
<1> QED
  BY <1>1, InitType, NextType, InitTicking, NextTicking, InitWindow, NextWindow, InitFeed, PTL
     DEF Spec, ImplementsFactFeed, Feed!Spec

=============================================================================
