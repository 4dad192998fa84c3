-------------------------------- MODULE Reports --------------------------------
(***************************************************************************)
(* The cost figures of the API: the summary and the trend, of              *)
(* report_repo.go and rollup_repo.go in internal/store/postgres, and the   *)
(* comparison and the totals that internal/httpapi makes of them.          *)
(*                                                                         *)
(* The summary reads the fact rows.  A trend reads them, or the daily      *)
(* rollup when its buckets are no finer than a day and its groups are no   *)
(* finer than the rollup's.  The rollup is what the job has made of each   *)
(* day when it last processed it: it has no row of a day that was never    *)
(* processed, and does not know what was written to a day since.           *)
(*                                                                         *)
(* Time is in hours and a day has DayHours; weeks and months are counted   *)
(* in days from time 0, every month with as many.  A row has the values of *)
(* its columns, numbers in the order that the database sorts them, and     *)
(* whole amounts of money and of waste.                                    *)
(***************************************************************************)
EXTENDS Integers, FiniteSetsExt, SequencesExt

CONSTANTS
  DayHours, WeekDays, MonthDays,
  MaxHourlySpan,   \* how long a trend by the hour may be
  MaxSpan          \* maxRangeDays

ASSUME ReportsAssumption ==
  /\ DayHours \in Nat \ {0} /\ WeekDays \in Nat \ {0} /\ MonthDays \in Nat \ {0}
  /\ MaxHourlySpan \in Nat /\ MaxSpan \in Nat

\* groupByColumns: the ones that matter differ in how many columns they have,
\* and in whether the rollup has them.
GroupBy ==
  [ namespace |-> << "namespace" >>, team |-> << "team" >>,
    workload |-> << "namespace", "workload" >>, pod |-> << "namespace", "pod" >> ]

-----------------------------------------------------------------------------
(* Rows, groups and sums                                                   *)

SumOf(F(_), S) == MapThenSumSet(F, S)
Cost(r)    == r.cost
Waste(r)   == r.waste
Windows(r) == r.windows

\* filterColumns and Filters.values: each given filter is an equality.
Matches(r, filter) == \A c \in DOMAIN filter : r.dims[c] = filter[c]

GroupOf(r, cols) == [ i \in DOMAIN cols |-> r.dims[cols[i]] ]
GroupsOf(S, cols) == { GroupOf(r, cols) : r \in S }
In(S, cols, g) == { r \in S : GroupOf(r, cols) = g }

\* The order of ORDER BY on the columns of two groups.
Sooner(g, h) ==
  \E i \in DOMAIN g : g[i] < h[i] /\ \A j \in 1 .. i - 1 : g[j] = h[j]

TotalCost(S)  == SumOf(Cost, S)
TotalWaste(S) == SumOf(Waste, S)

SortKey(sort, S) == IF sort = "waste" THEN TotalWaste(S) ELSE TotalCost(S)

\* ORDER BY key direction, columns LIMIT n.
TopBy(S, cols, sort, descending, n) ==
  LET KeyOf(g) == SortKey(sort, In(S, cols, g))
      Earlier(g, h) == \/ IF descending THEN KeyOf(g) > KeyOf(h) ELSE KeyOf(g) < KeyOf(h)
                       \/ KeyOf(g) = KeyOf(h) /\ Sooner(g, h)
  IN { g \in GroupsOf(S, cols) : Cardinality({ h \in GroupsOf(S, cols) : Earlier(h, g) }) < n }

-----------------------------------------------------------------------------
(* Parameters that the handlers accept                                     *)

RangeAccepted(p) == p.from < p.to /\ p.to - p.from <= MaxSpan

TrendAccepted(p) ==
  RangeAccepted(p) /\ (p.interval = "hour" => p.to - p.from <= MaxHourlySpan)

-----------------------------------------------------------------------------
(* The summary                                                             *)

\* CostSummary's WHERE.
Selected(facts, p) ==
  { r \in facts : p.from <= r.at /\ r.at < p.to /\ Matches(r, p.filter)
                  /\ (p.estimatedOnly => r.estimated) }

CostSummary(facts, p) ==
  LET S == Selected(facts, p) cols == GroupBy[p.groupBy] IN
  { [ group |-> g, cost |-> TotalCost(In(S, cols, g)), waste |-> TotalWaste(In(S, cols, g)),
      estimated |-> \E r \in In(S, cols, g) : r.estimated ]
    : g \in TopBy(S, cols, p.sort, p.descending, p.limit) }

\* totals: a full page may be the whole or not.
Truncated(summary, p) == Cardinality(summary) >= p.limit

-----------------------------------------------------------------------------
(* The trend                                                               *)

DayOf(t) == t \div DayHours
Kept == { "namespace", "team", "workload" }
DimsOf(r) == [ c \in Kept |-> r.dims[c] ]

\* The facts of r's day and of its combination of the columns that are kept.
SameRow(S, r) == { q \in S : DayOf(q.at) = DayOf(r.at) /\ DimsOf(q) = DimsOf(r) }

\* What RollupDay makes of them.
RowOf(S, r) ==
  [ at |-> DayOf(r.at) * DayHours, dims |-> DimsOf(r), cost |-> TotalCost(SameRow(S, r)),
    waste |-> TotalWaste(SameRow(S, r)), windows |-> Cardinality(SameRow(S, r)),
    estimated |-> \E q \in SameRow(S, r) : q.estimated ]

\* The rollup, when S are the facts that RollupDay read, each day's when it was
\* last processed.
Daily(S) == { RowOf(S, r) : r \in S }

\* A mutant of TopGroups: without DESC the cheapest lead.
TopGroupsAscending(S, cols, n) == TopBy(S, cols, "cost", FALSE, n)

\* topGroups: the most expensive ones over the whole range.
TopGroups(S, cols, n) == TopBy(S, cols, "cost", TRUE, n)

\* intervalTrunc: where the bucket begins that a time falls into.
BucketOf(interval, t) ==
  LET FirstOf(days) == (DayOf(t) \div days) * days * DayHours IN
  CASE interval = "hour"  -> t
    [] interval = "day"   -> FirstOf(1)
    [] interval = "week"  -> FirstOf(WeekDays)
    [] interval = "month" -> FirstOf(MonthDays)

\* What scanTrend makes of the rows S.
SeriesOf(S, cols, n, interval) ==
  { LET T == In(S, cols, g) IN
    [ group |-> g, cost |-> TotalCost(T),
      points |-> { LET U == { r \in T : BucketOf(interval, r.at) = b } IN
                   [ at |-> b, cost |-> TotalCost(U), waste |-> TotalWaste(U),
                     windows |-> SumOf(Windows, U) ]
                   : b \in { BucketOf(interval, r.at) : r \in T } } ]
    : g \in TopGroups(S, cols, n) }

\* from and to are cut to their days.
InDays(r, p) == DayOf(p.from) <= DayOf(r.at) /\ DayOf(r.at) < DayOf(p.to)

TrendFromRollup(daily, p) ==
  LET S == { r \in daily : InDays(r, p) /\ Matches(r, p.filter) /\ (p.estimatedOnly => r.estimated) }
  IN SeriesOf(S, GroupBy[p.groupBy], p.limit, p.interval)

TrendFromFacts(facts, p) == SeriesOf(Selected(facts, p), GroupBy[p.groupBy], p.limit, p.interval)

FromFacts(p) == p.interval = "hour" \/ p.groupBy = "pod"

\* rolled are the facts that the rollup was made of.
Trend(facts, rolled, p) ==
  IF FromFacts(p) THEN TrendFromFacts(facts, p) ELSE TrendFromRollup(Daily(rolled), p)

\* comparePreviousPeriod: the period as long as this one that comes before it.
Previous(p) == [ p EXCEPT !.from = 2 * p.from - p.to, !.to = p.from ]

TotalOf(series) == SumOf(Cost, series)
WindowsOf(series) == SumOf(LAMBDA s : SumOf(Windows, s.points), series)

\* The coverage check: the ratio of the counts is from 0.8 to 1.25.
AsMany(n, m) == 10 * n >= 8 * m /\ 100 * n <= 125 * m

\* The note is in the result too.
Compare(facts, rolled, p) ==
  LET now == Trend(facts, rolled, p) before == Trend(facts, rolled, Previous(p)) IN
  [ current |-> TotalOf(now), previous |-> TotalOf(before),
    comparable |-> /\ TotalOf(before) > 0 /\ WindowsOf(before) > 0
                   /\ WindowsOf(now) > 0 => AsMany(WindowsOf(before), WindowsOf(now)) ]

-----------------------------------------------------------------------------
(* Properties                                                              *)

WholeDays(p) == p.from % DayHours = 0 /\ p.to % DayHours = 0
Both(p)      == [ p EXCEPT !.from = 2 * p.from - p.to ]

\* The facts that a trend charges for: those of the table, or those that the
\* rollup was made of.  A daily row is estimated when one of its facts is.
Charged(facts, rolled, p) ==
  IF FromFacts(p) THEN Selected(facts, p)
  ELSE { r \in rolled : InDays(r, p) /\ Matches(r, p.filter)
                        /\ (p.estimatedOnly => \E q \in SameRow(rolled, r) : q.estimated) }

\* Every fact in the range has been rolled up as it is, and nothing else has.
UpToDate(facts, rolled, p) ==
  \A r \in facts \cup rolled : p.from <= r.at /\ r.at < p.to => (r \in facts <=> r \in rolled)

\* A summary that does not call itself truncated has all of the money in its
\* range.
SummaryIsWhole(facts, p) ==
  LET summary == CostSummary(facts, p) IN
  RangeAccepted(p) /\ ~ Truncated(summary, p) => SumOf(Cost, summary) = TotalCost(Selected(facts, p))

\* "The trend disagrees with the summary" is answerable, whichever days have been
\* processed.  A trend is the series of the facts it charges for, although it
\* may have been made of their daily sums; where one of its groups has a row in
\* the summary, the two differ by the facts that only one of them has, and on
\* whole days that are rolled up as they are, unless only estimated rows are
\* asked for, there are none; then both are led by the same groups.
TrendIsExplained(facts, rolled, p) ==
  LET summary  == CostSummary(facts, p)
      trend    == Trend(facts, rolled, p)
      cols     == GroupBy[p.groupBy]
      selected == Selected(facts, p)
      charged  == Charged(facts, rolled, p)
  IN TrendAccepted(p) =>
       /\ trend = SeriesOf(charged, cols, p.limit, p.interval)
       /\ \A s \in trend, r \in summary : s.group = r.group =>
            s.cost - r.cost =   TotalCost(In(charged \ selected, cols, s.group))
                              - TotalCost(In(selected \ charged, cols, s.group))
       /\ (FromFacts(p) \/ (WholeDays(p) /\ ~ p.estimatedOnly /\ UpToDate(facts, rolled, p))) =>
            charged = selected
       /\ charged = selected /\ p.sort = "cost" /\ p.descending =>
            { s.group : s \in trend } = { r.group : r \in summary }

\* Where every group fits, a comparison splits what it charges for in two: no
\* fact is in neither of the periods, or in both.
ComparisonSplits(facts, rolled, p) ==
  LET c == Compare(facts, rolled, p) charged == Charged(facts, rolled, Both(p)) IN
  TrendAccepted(p) /\ Cardinality(GroupsOf(charged, GroupBy[p.groupBy])) <= p.limit =>
    c.current + c.previous = TotalCost(charged)

\* What the dashboard draws beside each other adds up.
FiguresAgree(facts, rolled, p) ==
  SummaryIsWhole(facts, p) /\ TrendIsExplained(facts, rolled, p) /\ ComparisonSplits(facts, rolled, p)

=============================================================================
