------------------------------ MODULE MCFigures ------------------------------
(* The pure parts of the program, over bounded inputs: TLC takes one input   *)
(* after another.                                                            *)
EXTENDS Advice, Catalogue, Settings, Reports

VARIABLE input

None == [ kind |-> "none" ]
Take(kind, x) == input' = [ kind |-> kind, of |-> x ]

-----------------------------------------------------------------------------
(* Three windows of a container.  Its pods run all the time, or take turns;  *)
(* in some inputs a part of the windows was not measured.                    *)

RowsMC(kind, pods, turns, cpu, mem, price, cpuPeaks, memPeaks) ==
  { [ pod |-> x[1], w |-> x[2], kind |-> kind, cpu |-> cpu, mem |-> mem,
      peakCPU |-> cpuPeaks[x[2]], peakMem |-> memPeaks[x[2]], cpuPrice |-> price, memPrice |-> price ]
    : x \in { y \in (1 .. pods) \X (1 .. 3) : turns => y[1] % 3 = y[2] % 3 } }

TakeRows ==
  \E kind \in { "Deployment", "DaemonSet" }, pods \in { 1, 3, 6 }, turns \in BOOLEAN,
     cpu \in { 0, 10, 100 }, mem \in { 0, 20, 64 }, price \in { 0, 2 },
     cpuPeaks \in [ 1 .. 3 -> { 0, 2, 60 } ], memPeaks \in [ 1 .. 3 -> { 0, 3, 50 } ] :
    /\ kind = "DaemonSet" \/ turns \/ price = 0 => pods = 6
    /\ ~ (kind = "DaemonSet" /\ (turns \/ price = 0))
    /\ 0 \in { memPeaks[w] : w \in 1 .. 3 } => cpuPeaks[1] = 2 /\ cpu = 100
    /\ Take("rows", RowsMC(kind, pods, turns, cpu, mem, price, cpuPeaks, memPeaks))

-----------------------------------------------------------------------------
(* A list with two regions, the second being the default or there being none *)

\* No region is the empty name.
ASSUME NoRegionAssumption == NoRegion \notin { "a", "b" }

Entries ==
  { [ vcpu |-> 2, gib |-> 8, hourly |-> h, spot |-> s, cpuRate |-> x, memRate |-> y ]
    : h \in { Blank, White, 0, 96 }, s \in { Blank, 29 }, x \in { Blank, 7 }, y \in { Blank, 0, 3 } }
Priced == [ vcpu |-> 4, gib |-> 16, hourly |-> 200, spot |-> 77, cpuRate |-> Blank, memRate |-> Blank ]
Refused == { [ Priced EXCEPT !.vcpu = 0 ], [ Priced EXCEPT !.hourly = Bad ] }

TakePrice ==
  \E mine \in { {} } \cup { { e } : e \in Entries \cup Refused },
     common \in { {}, { Priced } },
     fallback \in { {}, { [ Priced EXCEPT !.vcpu = 1, !.spot = Blank, !.hourly = 33 ] } },
     default \in { NoRegion, "b" }, region \in { NoRegion, "a", "b", "c" }, type \in { NoType, "m" },
     spot \in BOOLEAN, share \in { 0, 37, 100 }, cpu \in { 333, 1000 } :
    LET TypesOf(S) == [ t \in { x \in {"m"} : S # {} } |-> CHOOSE e \in S : TRUE ] IN
    /\ type = NoType => region = "a" /\ share = 37
    /\ Take("price",
         [ list |-> [ version |-> 1, currency |-> "USD", cpuShare |-> share, memShare |-> 100 - share,
                      regions |-> [ r \in { "a", "b" } |-> TypesOf(IF r = "a" THEN mine ELSE common) ],
                      default |-> default, fallback |-> fallback ],
           node |-> [ region |-> region, type |-> type, spot |-> spot ],
           windows |-> IF spot THEN 12 ELSE 7, cpu |-> cpu, mem |-> 300 ])

-----------------------------------------------------------------------------
(* Two or three mistakes at once, some of which are repaired                 *)

Mistakes ==
  { << "APP_ENV", Text("staging") >>, << "DB_MAX_OPEN_CONNS", Garbled >>, << "DB_MAX_OPEN_CONNS", Text(0) >>,
    << "DB_MIN_IDLE_CONNS", Text(30) >>, << "KUBE_QPS", Garbled >>, << "KUBE_QPS", Text(0) >>,
    << "KUBE_BURST", Garbled >>, << "API_KEYS", Text({ 8 }) >>, << "COLLECTOR_INTERVAL", Text(0) >>,
    << "API_HTTP_ADDR", Text(":8081") >>, << "PROMETHEUS_TIMEOUT", Text(0) >>, << "LOG_LEVEL", Text("loud") >>,
    << "COLLECTOR_HTTP_ADDR", Text(":8080") >> }
Repairs ==
  { << "APP_ENV", Text("production") >>, << "DB_MAX_OPEN_CONNS", Text(3) >>, << "DB_MIN_IDLE_CONNS", Text(1) >>,
    << "KUBE_QPS", Text(200) >>, << "KUBE_BURST", Text(60) >>, << "API_KEYS", Text({ 20 }) >>,
    << "COLLECTOR_INTERVAL", Text(60) >>, << "PROMETHEUS_TIMEOUT", Text(5) >>, << "LOG_LEVEL", Text("info") >>,
    << "DATABASE_URL", Text("postgres://") >>, << "COLLECTOR_HTTP_ADDR", Text(":8082") >> }

\* As a function: the second of two texts for a variable is dropped.
Env(S) == [ v \in { x[1] : x \in S } |-> (CHOOSE x \in S : x[1] = v)[2] ]

TakeSettings ==
  \E a, b, c \in Mistakes, r, s \in Repairs : Take("settings", [ env |-> Env({ a, b, c }), repair |-> Env({ r, s }) ])

-----------------------------------------------------------------------------
(* Rows of four days of two hours                                            *)

Fact(id, at, ns, team, pod, cost, waste, estimated) ==
  [ id |-> id, at |-> at, dims |-> [ namespace |-> ns, team |-> team, workload |-> ns, pod |-> pod ],
    cost |-> cost, waste |-> waste, windows |-> 1, estimated |-> estimated ]

FactsMC ==
  { Fact(1, 0, 1, 1, 1, 5, 1, FALSE), Fact(2, 2, 1, 1, 2, 1, 0, TRUE), Fact(3, 3, 2, 1, 3, 7, 2, FALSE),
    Fact(4, 5, 2, 2, 4, 1, 1, FALSE), Fact(5, 5, 1, 2, 1, 1, 0, FALSE), Fact(6, 6, 3, 2, 5, 9, 0, TRUE) }

\* The days from some on have not been rolled up, or the first or the fourth row
\* was written, or written again with another cost, after they were.
RolledMC(facts) ==
  { { r \in facts : r.at < 2 * day /\ r.id # late } : day \in { 1, 2, 4 }, late \in { 0, 4 } }
  \cup { { IF r.id = 1 THEN [ r EXCEPT !.cost = 3 ] ELSE r : r \in facts } }

QueryMC(from, to, groupBy, interval, limit, filter) ==
  [ from |-> from, to |-> to, groupBy |-> groupBy, interval |-> interval, limit |-> limit,
    filter |-> filter, sort |-> IF limit = 4 THEN "waste" ELSE "cost", descending |-> limit # 4,
    estimatedOnly |-> limit = 4 /\ interval \in { "hour", "week" } ]

TakeReport ==
  \E facts \in SUBSET FactsMC, from \in 2 .. 5, to \in 4 .. 8, groupBy \in DOMAIN GroupBy,
     interval \in { "hour", "day", "week", "month" }, limit \in { 1, 2, 4 },
     filter \in { << >>, [ team |-> 1 ] } : \E rolled \in RolledMC(facts) :
    /\ interval = "hour" \/ groupBy = "pod" => rolled = facts
    /\ interval = "month" => limit = 2 /\ filter = << >>
    /\ Take("report", [ facts |-> facts, rolled |-> rolled,
                        p |-> QueryMC(from, to, groupBy, interval, limit, filter) ])

-----------------------------------------------------------------------------

Done == input # None /\ input' = None

Init == input = None
Next ==
  \/ input = None /\ (TakeRows \/ TakePrice \/ TakeSettings \/ TakeReport)
  \/ Done
Spec == Init /\ [][Next]_input

\* Advice to size or to scale a container keeps the headroom above what its
\* windows measured, and no two recommendations pull a resource both ways.
AdviceKeepsHeadroom == input.kind = "rows" => AdviceIsSafe(input.of)

\* No recommendation saves more than the container costs.
SavingsWithinSpend == input.kind = "rows" => SavingIsSpent(input.of)

\* The pods of a node cost together what the price list says of the node.
NodeCostsAsStated ==
  input.kind = "price" =>
    WholeNodeCosts(input.of.list, input.of.node, input.of.windows, input.of.cpu, input.of.mem)

\* One refused start names everything that is wrong.
OneRestartRevealsAll == input.kind = "settings" => RepairReveals(input.of.env, input.of.repair)

\* The summary, the trend and the comparison agree, but for the facts that the
\* rollup has not read.
ReportsAgree == input.kind = "report" => FiguresAgree(input.of.facts, input.of.rolled, input.of.p)

=============================================================================
