-------------------------------- MODULE Advice --------------------------------
(***************************************************************************)
(* The recommendation engine: internal/recommend, on the statistics that   *)
(* ContainerStats of internal/store/postgres makes of the fact rows.       *)
(*                                                                         *)
(* The rows here are those of one container of one workload: a row for     *)
(* each pod and window.  CPU is in millicores and memory in MiB; prices    *)
(* are whole amounts for a millicore or a MiB for an hour, so nothing is   *)
(* rounded but the percentile and the proposals.  Texts are left out.      *)
(***************************************************************************)
EXTENDS Integers, FiniteSets

CONSTANTS
  MinWindows, MinObservation, IdleObservation   \* in rows, and in windows

ASSUME AdviceAssumption ==
  MinWindows \in Nat /\ MinObservation \in Nat /\ IdleObservation \in Nat

\* DefaultThresholds, which the API uses.  Ratios are in hundredths.
HeadroomFactor      == 120
RightSizeMax        == 50
MinSavingRatio      == 10
IdleCPU             == 1
IdleMemory          == 4
MinReplicasToKeep   == 2
OverReplicationMax  == 30
MinimumMemory       == 16
Coverage            == 90
HoursPerMonth       == 730

-----------------------------------------------------------------------------
(* The statistics: one row of ContainerStats' result                       *)

Greatest(S) == CHOOSE x \in S : \A y \in S : x >= y
Smallest(S) == CHOOSE x \in S : \A y \in S : x <= y

\* The value that stands k places after the smallest, in column c of the rows S.
Ranked(S, c, k) ==
  CHOOSE v \in { r[c] : r \in S } :
    /\ Cardinality({ r \in S : r[c] < v }) <= k
    /\ k < Cardinality({ r \in S : r[c] <= v })

\* The rows in which column c was measured: no peak is not a peak of zero.
Measured(rows, c) == { r \in rows : r[c] > 0 }

\* x hundredths as the cast to bigint rounds them: halves to the even number.
Hundredths(x) ==
  LET q == x \div 100
  IN IF 2 * (x % 100) > 100 \/ (2 * (x % 100) = 100 /\ q % 2 = 1) THEN q + 1 ELSE q

\* percentile_cont(0.95), which interpolates between two rows, as a bigint.
P95(rows, c) ==
  LET S  == Measured(rows, c)
      at == 95 * (Cardinality(S) - 1)
      lo == Ranked(S, c, at \div 100)
      hi == Ranked(S, c, (at + 99) \div 100)
  IN IF S = {} THEN 0 ELSE Hundredths(100 * lo + (at % 100) * (hi - lo))

\* A mutant of Replicas: a pod counts once for each of its rows.
ReplicasAsRows(rows) == Cardinality(rows)

\* count(DISTINCT pod_name).
Replicas(rows) == Cardinality({ r.pod : r \in rows })

Stats(rows) ==
  LET latest == CHOOSE r \in rows : \A q \in rows : q.w <= r.w IN
  [ kind      |-> latest.kind,
    replicas  |-> Replicas(rows),
    windows   |-> Cardinality(rows),
    duration  |-> Greatest({ r.w : r \in rows }) + 1 - Smallest({ r.w : r \in rows }),
    covered   |-> 100 * Cardinality(Measured(rows, "peakMem")) >= Coverage * Cardinality(rows),
    cpu       |-> Greatest({ r.cpu : r \in rows }),
    mem       |-> Greatest({ r.mem : r \in rows }),
    cpuP95    |-> P95(rows, "peakCPU"),
    memP95    |-> P95(rows, "peakMem"),
    cpuMax    |-> Greatest({ r.peakCPU : r \in rows }),
    memMax    |-> Greatest({ r.peakMem : r \in rows }),
    cpuPrice  |-> latest.cpuPrice,
    memPrice  |-> latest.memPrice ]

-----------------------------------------------------------------------------
(* The rules: each is a set of at most one recommendation                  *)

\* What a recommendation says: Keep where it does not touch a resource.
Keep == -1
Advise(kind, cpu, mem, replicas, saving) ==
  [ kind |-> kind, cpu |-> cpu, mem |-> mem, replicas |-> replicas, saving |-> saving ]

AtLeast(a, b) == IF a < b THEN b ELSE a
AtMost(a, b)  == IF a > b THEN b ELSE a
CeilDiv(a, b) == (a + b - 1) \div b

\* A mutant of WithHeadroom: the proposal is the percentile.
WithoutHeadroom(p95) == p95

WithHeadroom(p95) == CeilDiv(p95 * HeadroomFactor, 100)

ProposedCPU(s)    == AtLeast(WithHeadroom(s.cpuP95), 1)
ProposedMemory(s) == AtLeast(WithHeadroom(s.memP95), MinimumMemory)

MonthlyCostOf(s, cpu, mem) == HoursPerMonth * (cpu * s.cpuPrice + mem * s.memPrice)

\* ratio(used, requested) < limit, where something is requested.
Below(used, requested, limit) == requested > 0 /\ 100 * used < limit * requested

Requests(s) == s.cpu > 0 \/ s.mem > 0

SetRequests(s) ==
  IF ~ Requests(s) /\ (s.cpuP95 # 0 \/ s.memP95 # 0)
  THEN { Advise("set_requests", ProposedCPU(s), ProposedMemory(s), Keep, 0) } ELSE {}

IdleAdvice(s) ==
  IF /\ Requests(s) /\ s.covered /\ s.duration >= IdleObservation
     /\ s.cpuMax <= IdleCPU /\ s.memMax <= IdleMemory
  THEN { Advise("idle", Keep, Keep, 0, s.replicas * MonthlyCostOf(s, s.cpu, s.mem)) } ELSE {}

\* A side that is not oversized is left alone, and no proposal is a raise.
RightSize(s) ==
  LET cpuOver == Below(s.cpuP95, s.cpu, RightSizeMax)
      memOver == Below(s.memP95, s.mem, RightSizeMax)
      cpu     == IF cpuOver THEN AtMost(ProposedCPU(s), s.cpu) ELSE s.cpu
      mem     == IF memOver THEN AtMost(ProposedMemory(s), s.mem) ELSE s.mem
      saving  == s.replicas * MonthlyCostOf(s, s.cpu - cpu, s.mem - mem)
      current == s.replicas * MonthlyCostOf(s, s.cpu, s.mem)
  IN IF /\ s.covered /\ (cpuOver \/ memOver)
        /\ current > 0 => 100 * saving >= MinSavingRatio * current
     THEN { Advise("right_size", IF cpuOver THEN cpu ELSE Keep,
                   IF memOver THEN mem ELSE Keep, Keep, saving) } ELSE {}

UnderRequested(s) ==
  LET cpuUnder == s.cpu > 0 /\ s.cpuP95 > s.cpu
      memUnder == s.mem > 0 /\ s.memP95 > s.mem
      cpu      == IF cpuUnder THEN ProposedCPU(s) ELSE s.cpu
      mem      == IF memUnder THEN ProposedMemory(s) ELSE s.mem
  IN IF s.covered /\ (cpuUnder \/ memUnder)
     THEN { Advise("under_requested", IF cpuUnder THEN cpu ELSE Keep,
                   IF memUnder THEN mem ELSE Keep, Keep,
                   - s.replicas * MonthlyCostOf(s, cpu - s.cpu, mem - s.mem)) } ELSE {}

\* replicaCountIsTunable: not a DaemonSet, a Job or a bare Pod.
Tunable == { "Deployment", "ReplicaSet", "StatefulSet", "ReplicationController" }

\* Twice the share below which a replica counts as lightly used.
PerReplicaCapacity(s) == (2 * OverReplicationMax * s.cpu) \div 100

OverReplicated(s) ==
  LET capacity == PerReplicaCapacity(s)
      needed   == IF capacity > 0 THEN CeilDiv(s.cpuP95 * s.replicas, capacity) ELSE 0
      proposed == AtLeast(needed, MinReplicasToKeep)
  IN IF /\ s.kind \in Tunable /\ s.replicas > MinReplicasToKeep /\ s.cpu > 0 /\ s.covered
        /\ 100 * s.cpuP95 <= OverReplicationMax * s.cpu /\ proposed < s.replicas
     THEN { Advise("over_replicated", Keep, Keep, proposed,
                   (s.replicas - proposed) * MonthlyCostOf(s, s.cpu, s.mem)) } ELSE {}

\* analyseContainer: without requests nothing else is said, and what is idle is
\* not also to be made smaller.
Analyse(s) ==
  IF s.windows < MinWindows \/ s.duration < MinObservation THEN {}
  ELSE IF SetRequests(s) # {} THEN SetRequests(s)
  ELSE (IF IdleAdvice(s) # {} THEN IdleAdvice(s) ELSE RightSize(s))
       \cup UnderRequested(s) \cup OverReplicated(s)

-----------------------------------------------------------------------------
(* Properties                                                              *)

\* All of the peaks but the one in twenty above the percentile fit into a
\* proposal with the headroom to spare.
Fits(S, c, proposal) ==
  100 * Cardinality({ r \in S : HeadroomFactor * r[c] > 100 * proposal })
    <= 5 * (Cardinality(S) - 1) + 99

\* Whatever the windows measured, advice to size a container leaves the
\* headroom above its recorded peaks, or what is requested now if that is less;
\* shrinking never raises and growing always does; no resource is both shrunk
\* and grown; and the replicas that are kept carry the peaks of all of them at
\* no more than twice the utilisation that made them look idle.
AdviceIsSafe(rows) ==
  LET s == Stats(rows) advice == Analyse(s) IN
  /\ \A a \in advice :
       /\ a.kind # "idle" /\ a.cpu # Keep =>
            Fits(Measured(rows, "peakCPU"), "peakCPU", a.cpu) \/ (a.kind = "right_size" /\ a.cpu = s.cpu)
       /\ a.mem # Keep =>
            Fits(Measured(rows, "peakMem"), "peakMem", a.mem) \/ (a.kind = "right_size" /\ a.mem = s.mem)
       /\ a.kind = "right_size" => a.cpu <= s.cpu /\ a.mem <= s.mem
       /\ a.kind = "under_requested" => (a.cpu # Keep => a.cpu > s.cpu) /\ (a.mem # Keep => a.mem > s.mem)
       /\ a.kind = "over_replicated" =>
            /\ 2 <= a.replicas /\ a.replicas < s.replicas /\ s.kind \in Tunable
            /\ 100 * s.cpuP95 * s.replicas <= 2 * OverReplicationMax * s.cpu * a.replicas
  /\ \A a, b \in advice :
       a.kind = "right_size" /\ b.kind = "under_requested"
         => (a.cpu = Keep \/ b.cpu = Keep) /\ (a.mem = Keep \/ b.mem = Keep)

\* The pods ran through all the windows with the same requests.
Steady(rows) ==
  /\ \A r, q \in rows : r.cpu = q.cpu /\ r.mem = q.mem
  /\ Cardinality(rows) = Cardinality({ r.pod : r \in rows }) * Cardinality({ r.w : r \in rows })

\* No recommendation saves more than the workload costs in a month at the price
\* of today, as long as the same pods ran all the time: each pod counts once,
\* however many rows it has.
SavingIsSpent(rows) ==
  LET s == Stats(rows) IN
  Steady(rows) => \A a \in Analyse(s) :
    a.saving <= Cardinality({ r.pod : r \in rows }) * MonthlyCostOf(s, s.cpu, s.mem)
=============================================================================
