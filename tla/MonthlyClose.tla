----------------------------- MODULE MonthlyClose -----------------------------
(***************************************************************************)
(* The monthly statements: RunMonth, GenerateMonth, FinaliseMonth and the  *)
(* triggers of monthly_reports, composed with the rollup job that runs     *)
(* them.  A job whose range is done and whose flags name a month generates *)
(* the month's statements from the daily rollup, in one transaction, and   *)
(* with -close freezes them in a second one.                               *)
(*                                                                         *)
(* A statement is represented by the set of rollup rows it sums: its cost, *)
(* its days_with_data and its window_count are functions of that set.  No  *)
(* row at all means that there is no statement.                            *)
(***************************************************************************)
EXTENDS RollupJob

CONSTANTS
  NsOf, TeamOf,  \* the namespace and the team of a dimension tuple
  NoTeam,        \* the empty team label
  Cluster,       \* the cluster's name
  Operator       \* what an operator does with SQL

OperatorActs == { "unfinalise", "update", "delete" }

ASSUME OperatorAssumption == Operator \subseteq OperatorActs

VARIABLES
  stated,   \* monthly_reports: the rows each statement sums
  final,    \* the statements whose finalised_at is set
  mpc,      \* where RunMonth's control is
  pending   \* the uncommitted upsert: keys and rows

monthVars == << stated, final, mpc, pending >>
mvars     == << vars, monthVars >>

-----------------------------------------------------------------------------
Months == { MonthOf(d) : d \in Days }

Namespaces == { NsOf[g] : g \in Dims }
Teams      == { TeamOf[g] : g \in Dims } \ {NoTeam}
Scopes ==
  { << "cluster", Cluster >> } \cup ({"namespace"} \X Namespaces)
                               \cup ({"team"} \X Teams)

\* The unique key (cluster_name, period_month, scope_kind, scope_value).
Keys == [ month: Months, scope: Scopes ]
Statement == [ key: Keys, rows: SUBSET Row ]

\* A mutant of InScope: HAVING asks for a team at every scope.
InScopeHavingTeam(r, s) ==
  /\ \/ s[1] = "cluster"
     \/ s[1] = "namespace" /\ NsOf[r.dim] = s[2]
     \/ s[1] = "team"      /\ TeamOf[r.dim] = s[2]
  /\ s[1] # "cluster" => TeamOf[r.dim] # NoTeam

InScope(r, s) ==
  \/ s[1] = "cluster"
  \/ s[1] = "namespace" /\ NsOf[r.dim] = s[2]
  \/ s[1] = "team"      /\ TeamOf[r.dim] = s[2]

\* GROUPING SETS over the month's daily rows.  A scope without rows produces
\* no group, and HAVING drops the group of the empty team.
Scoped(k) == { r \in daily : MonthOf(r.day) = k.month /\ InScope(r, k.scope) }

KeysOf(m) == { k \in Keys : k.month = m }

\* The rows the upsert writes: ON CONFLICT DO UPDATE ... WHERE finalised_at IS
\* NULL passes over a finalised statement.
Upsert(m) ==
  { [ key |-> k, rows |-> Scoped(k) ] :
      k \in { h \in KeysOf(m) : Scoped(h) # {} /\ h \notin final } }

Locked(j) == { w.key : w \in pending[j] }
LockedByOthers(j) == UNION { Locked(k) : k \in Jobs \ {j} }

\* What monthly_reports holds once the statements of W are upserted.
Apply(W) ==
  [ k \in Keys |-> IF \E w \in W : w.key = k
                   THEN (CHOOSE w \in W : w.key = k).rows ELSE stated[k] ]

\* A mutant of IsComplete: the last day of the month counts as its end.
IsCompleteOnLastDay(m) == today >= FinalDay(m)

IsComplete(m) == today > FinalDay(m)

\* A mutant of TriggerAllows: no trigger on UPDATE.
TriggerAllowsAlways(k, stillFinal) == TRUE

\* The BEFORE UPDATE trigger: a finalised row is only ever un-finalised.
TriggerAllows(k, stillFinal) == ~(k \in final /\ stillFinal)

\* The BEFORE DELETE trigger.
TriggerAllowsDelete(k) == k \notin final

-----------------------------------------------------------------------------
MonthInit ==
  /\ Init
  /\ stated = [ k \in Keys |-> {} ]
  /\ final = {}
  /\ mpc = [ j \in Jobs |-> "none" ]
  /\ pending = [ j \in Jobs |-> {} ]

HasMonth(j) == opts[j].month # NoMonth
InMonth(j, label) == pc[j] = "ranged" /\ HasMonth(j) /\ mpc[j] = label
GotoMonth(j, label) == mpc' = [ mpc EXCEPT ![j] = label ]

\* GenerateMonth's INSERT ... SELECT, one statement, not yet committed.  Its
\* rows are locked; it waits for the rows another transaction has locked.
GenerateMonth(j) ==
  /\ InMonth(j, "none") /\ ~cancelled[j]
  /\ LET m == opts[j].month IN
       /\ LockedByOthers(j) \cap KeysOf(m) = {}
       /\ \A w \in Upsert(m) : TriggerAllows(w.key, w.key \in final)
       /\ pending' = [ pending EXCEPT ![j] = Upsert(m) ]
  /\ GotoMonth(j, "generated")
  /\ UNCHANGED << vars, stated, final >>

\* GenerateMonth's count of the finalised statements it skipped, which is only
\* reported, and the COMMIT.
CommitMonth(j) ==
  /\ InMonth(j, "generated") /\ ~cancelled[j]
  /\ stated' = Apply(pending[j])
  /\ GotoMonth(j, IF opts[j].close THEN "closing" ELSE "closed")
  /\ pending' = [ pending EXCEPT ![j] = {} ]
  /\ UNCHANGED << vars, final >>

\* A mutant of Provisional: a statement is closed for every scope there could
\* be, whether or not it was generated.
ProvisionalOfEveryScope(m) == KeysOf(m) \ final

Provisional(m) == { k \in KeysOf(m) : stated[k] # {} /\ k \notin final }

\* FinaliseMonth: one UPDATE of every provisional statement of the month.
FinaliseMonth(j) ==
  /\ InMonth(j, "closing") /\ ~cancelled[j]
  /\ LET m == opts[j].month IN
       /\ IsComplete(m)
       /\ LockedByOthers(j) \cap Provisional(m) = {}
       /\ final' = final \cup Provisional(m)
  /\ GotoMonth(j, "closed")
  /\ UNCHANGED << vars, stated, pending >>

\* The completeness guard of FinaliseMonth.
RefuseFinalise(j) ==
  /\ InMonth(j, "closing") /\ ~IsComplete(opts[j].month)
  /\ MonthFails(j)
  /\ UNCHANGED monthVars

\* What the server may have done with the statement in flight of a job that
\* saw it fail, or died: nothing, or all of it.
InFlight(j) ==
  \/ UNCHANGED << stated, final >>
  \/ InMonth(j, "generated") /\ stated' = Apply(pending[j]) /\ UNCHANGED final
  \/ /\ InMonth(j, "closing") /\ IsComplete(opts[j].month)
     /\ LockedByOthers(j) \cap Provisional(opts[j].month) = {}
     /\ final' = final \cup Provisional(opts[j].month)
     /\ UNCHANGED stated

\* A mutant of RunMonthFails: main does not look at RunMonth's error.
RunMonthErrorDropped(j) ==
  /\ \E l \in { "none", "generated", "closing" } : InMonth(j, l)
  /\ "statement_fails" \in Faults \/ cancelled[j]
  /\ Finish(j)
  /\ pending' = [ pending EXCEPT ![j] = {} ]
  /\ UNCHANGED << stated, final, mpc >>

\* A statement of RunMonth fails or is cancelled.
RunMonthFails(j) ==
  /\ \E l \in { "none", "generated", "closing" } : InMonth(j, l)
  /\ "statement_fails" \in Faults \/ cancelled[j]
  /\ MonthFails(j)
  /\ InFlight(j)
  /\ pending' = [ pending EXCEPT ![j] = {} ]
  /\ UNCHANGED mpc

\* The job dies, in RunMonth or before.
CrashJob(j) ==
  /\ Crash(j)
  /\ InFlight(j)
  /\ pending' = [ pending EXCEPT ![j] = {} ]
  /\ UNCHANGED mpc

FinishRun(j) ==
  /\ ~HasMonth(j) \/ mpc[j] = "closed"
  /\ Finish(j)
  /\ UNCHANGED monthVars

-----------------------------------------------------------------------------
(* An operator with SQL, whom the triggers are for                         *)

AnyLocked == UNION { Locked(j) : j \in Jobs }

UnFinalise(k) ==
  /\ "unfinalise" \in Operator
  /\ k \in final \ AnyLocked /\ TriggerAllows(k, FALSE)
  /\ final' = final \ {k}
  /\ UNCHANGED << vars, stated, mpc, pending >>

\* UPDATE of a figure: the statement now says something else.
OperatorUpdates(k) ==
  /\ "update" \in Operator
  /\ stated[k] # {} /\ k \notin AnyLocked /\ TriggerAllows(k, k \in final)
  /\ \E R \in SUBSET Scoped(k) : R # {} /\ stated' = [ stated EXCEPT ![k] = R ]
  /\ UNCHANGED << vars, final, mpc, pending >>

OperatorDeletes(k) ==
  /\ "delete" \in Operator
  /\ stated[k] # {} /\ k \notin AnyLocked /\ TriggerAllowsDelete(k)
  /\ stated' = [ stated EXCEPT ![k] = {} ]
  /\ final' = final \ {k}
  /\ UNCHANGED << vars, mpc, pending >>

-----------------------------------------------------------------------------
MonthStep(j) ==
  \/ GenerateMonth(j)
  \/ CommitMonth(j)
  \/ FinaliseMonth(j)
  \/ RefuseFinalise(j)
  \/ RunMonthFails(j)
  \/ FinishRun(j)

RangeOrOutside(j) ==
  /\ RangeStep(j) \/ Outside(j)
  /\ UNCHANGED monthVars

MonthNext ==
  \/ Environment /\ UNCHANGED monthVars
  \/ \E j \in Jobs : RangeOrOutside(j) \/ MonthStep(j) \/ CrashJob(j)
  \/ \E k \in Keys : UnFinalise(k) \/ OperatorUpdates(k) \/ OperatorDeletes(k)

MonthSpec == MonthInit /\ [][MonthNext]_mvars

-----------------------------------------------------------------------------
(* Properties                                                              *)

\* The new variables have the shape the code and the schema give them.
MonthTypeOK ==
  /\ stated \in [ Keys -> SUBSET Row ]
  /\ final \subseteq { k \in Keys : stated[k] # {} }
  /\ mpc \in [ Jobs -> { "none", "generated", "closing", "closed" } ]
  /\ pending \in [ Jobs -> SUBSET Statement ]

\* "A finalised statement is never rewritten": as long as it is not
\* un-finalised, no regeneration, no retry, no crash, no second job that runs
\* because the lock session died and no UPDATE or DELETE by hand changes or
\* removes it.
FinalisedNeverRewritten ==
  [][ \A k \in final :
        stated'[k] # {} /\ (k \in final' => stated'[k] = stated[k]) ]_mvars

\* "A statement closed mid-month is missing days AND frozen": no statement is
\* frozen before its month has ended, whichever clock day the close runs on.
FrozenMonthsHaveEnded ==
  \A k \in final, d \in Days : MonthOf(d) = k.month => d < today

FactsInScope(k) ==
  { x \in Days \X Dims : /\ MonthOf(x[1]) = k.month
                         /\ facts[x[1]][x[2]] > 0
                         /\ InScope([ dim |-> x[2] ], k.scope) }

\* A frozen statement is the right number: it sums every fact the month has,
\* of its scope, and each of them once.  Rolling the month up, generating,
\* and freezing are separate transactions, and the collector is still writing
\* the month's last window after its last midnight.
FrozenStatementsMatchFacts ==
  \A k \in final :
    /\ { << r.day, r.dim, r.windows >> : r \in stated[k] }
         = { << x[1], x[2], facts[x[1]][x[2]] >> : x \in FactsInScope(k) }
    /\ Cardinality(stated[k]) = Cardinality(FactsInScope(k))

\* "A cluster statement might not equal the sum of its namespace statements":
\* one pass with GROUPING SETS "makes that inconsistency impossible".
StatementsAddUp ==
  \A m \in Months :
    LET cluster == stated[[ month |-> m, scope |-> << "cluster", Cluster >> ]]
        of(kind) == UNION { stated[k] : k \in { h \in KeysOf(m) : h.scope[1] = kind } }
    IN  of("namespace") = cluster /\ of("team") \subseteq cluster

\* What a month still has open: a statement that is not frozen, or a scope
\* with facts that has no frozen statement.
LeftOpen(m) ==
  { k \in KeysOf(m) \ final : stated[k] # {} \/ FactsInScope(k) # {} }

\* A close that got the lock and exits 0 has closed the month: the month had
\* ended, every scope that has facts in it has its statement, none of them is
\* provisional, and nothing that runs later opens one again.  Of a close that
\* found the lock held, and exits 0 as well, this says nothing.
CloseLeavesNothingOpen ==
  \A j \in Jobs :
    code[j] = "ok" /\ HasMonth(j) /\ opts[j].close =>
      IsComplete(opts[j].month) /\ LeftOpen(opts[j].month) = {}

==============================================================================
