-------------------------- MODULE MonthlyCloseProofs --------------------------
(***************************************************************************)
(* Proofs about the monthly statements: closing months does not disturb    *)
(* what is proved of the rollup; a finalised statement is never rewritten, *)
(* whichever faults happen and whatever the operator does; and, as long as *)
(* months are closed as deployed, the statements add up, the frozen ones   *)
(* sum the facts of their month, and a close that exits 0 closed it.       *)
(***************************************************************************)
EXTENDS MonthlyClose, RollupDaysProofs, FiniteSetTheorems

-----------------------------------------------------------------------------
(* The composed system is a rollup                                         *)

LEMMA MonthNextRefines == ASSUME [MonthNext]_mvars PROVE [Next]_vars
<1>1. CASE UNCHANGED mvars
  BY <1>1 DEF mvars
<1>2. CASE Environment /\ UNCHANGED monthVars
  BY <1>2 DEF Next
<1>3. ASSUME NEW j \in Jobs, RangeOrOutside(j) \/ CrashJob(j) PROVE [Next]_vars
  BY <1>3 DEF RangeOrOutside, CrashJob, Next
<1>4. ASSUME NEW j \in Jobs, GenerateMonth(j) \/ CommitMonth(j) \/ FinaliseMonth(j)
      PROVE  [Next]_vars
  BY <1>4 DEF GenerateMonth, CommitMonth, FinaliseMonth
<1>5. ASSUME NEW j \in Jobs, RefuseFinalise(j) \/ RunMonthFails(j) \/ FinishRun(j)
      PROVE  [Next]_vars
  BY <1>5 DEF RefuseFinalise, RunMonthFails, FinishRun, Next
<1>6. ASSUME NEW k \in Keys, UnFinalise(k) \/ OperatorUpdates(k) \/ OperatorDeletes(k)
      PROVE  [Next]_vars
  BY <1>6 DEF UnFinalise, OperatorUpdates, OperatorDeletes
<1> QED
  BY <1>1, <1>2, <1>3, <1>4, <1>5, <1>6 DEF MonthNext, MonthStep

\* Every behaviour of the jobs that also close months is, on the rollup's
\* variables, a behaviour of the rollup: what is proved of the rollup holds of
\* the composition.
THEOREM MonthlyCloseRefinesRollup == MonthSpec => Spec
<1>1. MonthInit => Init
  BY DEF MonthInit
<1>2. [MonthNext]_mvars => [Next]_vars
  BY MonthNextRefines
<1> QED
  BY <1>1, <1>2, PTL DEF MonthSpec, Spec

-----------------------------------------------------------------------------
(* Finalised statements                                                    *)

\* The row locks of an upsert: none of its statements becomes final before it
\* commits, and only a generating job holds any.
LocksKept ==
  /\ \A j \in Jobs : Locked(j) \cap final = {}
  /\ \A j \in Jobs : mpc[j] # "generated" => pending[j] = {}

MonthInv == TypeInv /\ MonthTypeOK /\ LocksKept

LEMMA UpsertType ==
  ASSUME daily \subseteq Row, NEW m
  PROVE  /\ Upsert(m) \subseteq Statement
         /\ \A w \in Upsert(m) : w.key \notin final
<1>1. \A k \in Keys : Scoped(k) \subseteq Row
  BY DEF Scoped
<1> QED
  BY <1>1 DEF Upsert, Statement, KeysOf

\* Committing an upsert writes statements, and not those it did not lock.
LEMMA ApplyType ==
  ASSUME stated \in [ Keys -> SUBSET Row ], NEW W \in SUBSET Statement
  PROVE  /\ Apply(W) \in [ Keys -> SUBSET Row ]
         /\ \A k \in Keys : (\A w \in W : w.key # k) => Apply(W)[k] = stated[k]
<1>1. ASSUME NEW k \in Keys, \E w \in W : w.key = k
      PROVE  (CHOOSE w \in W : w.key = k).rows \in SUBSET Row
  <2>1. (CHOOSE w \in W : w.key = k) \in W
    BY <1>1
  <2> QED
    BY <2>1 DEF Statement
<1> QED
  BY <1>1 DEF Apply

\* The frozen statements are untouched and stay statements.
Kept == \A k \in final : stated'[k] # {} /\ stated'[k] = stated[k]

LEMMA ApplyKeeps ==
  ASSUME MonthInv, NEW j \in Jobs, stated' = Apply(pending[j])
  PROVE  Kept /\ stated' \in [ Keys -> SUBSET Row ]
<1>1. pending[j] \in SUBSET Statement /\ stated \in [ Keys -> SUBSET Row ]
      /\ \A k \in final : k \in Keys /\ stated[k] # {}
  BY DEF MonthInv, MonthTypeOK
<1>2. \A k \in final : \A w \in pending[j] : w.key # k
  BY DEF MonthInv, LocksKept, Locked
<1> QED
  BY <1>1, <1>2, ApplyType DEF Kept

\* Freezing a month that no other job has locked.
LEMMA FreezeKeeps ==
  ASSUME MonthInv, NEW j \in Jobs, NEW m, mpc[j] = "closing",
         LockedByOthers(j) \cap Provisional(m) = {},
         final' = final \cup Provisional(m), UNCHANGED stated
  PROVE  /\ final' \subseteq { k \in Keys : stated'[k] # {} }
         /\ \A i \in Jobs : Locked(i) \cap final' = {}
<1>1. Locked(j) = {}
  BY DEF MonthInv, LocksKept, Locked
<1>2. \A i \in Jobs \ {j} : Locked(i) \subseteq LockedByOthers(j)
  BY DEF LockedByOthers
<1>3. \A i \in Jobs : Locked(i) \cap Provisional(m) = {}
  BY <1>1, <1>2
<1>4. Provisional(m) \subseteq { k \in Keys : stated[k] # {} }
  BY DEF Provisional, KeysOf
<1> QED
  BY <1>3, <1>4 DEF MonthInv, MonthTypeOK, LocksKept

\* The invariant's parts that the month's own variables decide.
StatementsKept == MonthTypeOK' /\ LocksKept' /\ Kept

LEMMA UntouchedKept ==
  ASSUME MonthInv, UNCHANGED monthVars PROVE StatementsKept
  BY DEF MonthInv, MonthTypeOK, LocksKept, Locked, Kept, StatementsKept, monthVars

LEMMA GenerateKept ==
  ASSUME MonthInv, NEW j \in Jobs, GenerateMonth(j) PROVE StatementsKept
<1> USE DEF GotoMonth
<1>1. /\ pending \in [ Jobs -> SUBSET Statement ]
      /\ mpc \in [ Jobs -> { "none", "generated", "closing", "closed" } ]
      /\ daily \subseteq Row
  BY DEF MonthInv, MonthTypeOK, TypeInv, TypeOK
<1> DEFINE W == Upsert(opts[j].month)
<1>2. W \in SUBSET Statement /\ \A w \in W : w.key \notin final
  BY <1>1, UpsertType
<1>3. /\ pending' = [ pending EXCEPT ![j] = W ] /\ UNCHANGED << stated, final >>
      /\ mpc' = [ mpc EXCEPT ![j] = "generated" ]
  BY DEF GenerateMonth
<1> HIDE DEF W
<1>4. pending' \in [ Jobs -> SUBSET Statement ]
  BY <1>1, <1>2, <1>3
<1>5. MonthTypeOK'
  BY <1>1, <1>3, <1>4 DEF MonthInv, MonthTypeOK
<1>6. \A i \in Jobs : Locked(i)' \cap final = {}
  BY <1>1, <1>2, <1>3 DEF MonthInv, LocksKept, Locked
<1>7. \A i \in Jobs : mpc'[i] # "generated" => pending'[i] = {}
  BY <1>1, <1>3 DEF MonthInv, LocksKept
<1>8. Kept
  BY <1>3 DEF Kept, MonthInv, MonthTypeOK
<1> QED
  BY <1>3, <1>5, <1>6, <1>7, <1>8 DEF LocksKept, Locked, StatementsKept

\* A job's upsert is over: its locks are gone, whatever the outcome was.
LEMMA EndedKept ==
  ASSUME MonthInv, NEW j \in Jobs,
         pending' = [ pending EXCEPT ![j] = {} ],
         mpc' = mpc \/ \E l \in { "closing", "closed" } : mpc' = [ mpc EXCEPT ![j] = l ],
         \/ UNCHANGED << stated, final >>
         \/ stated' = Apply(pending[j]) /\ UNCHANGED final
         \/ /\ mpc[j] = "closing"
            /\ LockedByOthers(j) \cap Provisional(opts[j].month) = {}
            /\ final' = final \cup Provisional(opts[j].month)
            /\ UNCHANGED stated
  PROVE  StatementsKept
<1>1. /\ pending \in [ Jobs -> SUBSET Statement ]
      /\ mpc \in [ Jobs -> { "none", "generated", "closing", "closed" } ]
      /\ stated \in [ Keys -> SUBSET Row ]
      /\ final \subseteq { k \in Keys : stated[k] # {} }
  BY DEF MonthInv, MonthTypeOK
<1>2. /\ pending' \in [ Jobs -> SUBSET Statement ]
      /\ mpc' \in [ Jobs -> { "none", "generated", "closing", "closed" } ]
      /\ \A i \in Jobs : pending'[i] = IF i = j THEN {} ELSE pending[i]
      /\ \A i \in Jobs \ {j} : mpc'[i] = mpc[i]
  BY <1>1
<1>3. /\ stated' \in [ Keys -> SUBSET Row ] /\ Kept
      /\ final' \subseteq { k \in Keys : stated'[k] # {} }
      /\ \A i \in Jobs : Locked(i) \cap final' = {}
  <2>1. CASE UNCHANGED << stated, final >>
    BY <1>1, <2>1 DEF Kept, MonthInv, LocksKept
  <2>2. CASE stated' = Apply(pending[j]) /\ UNCHANGED final
    BY <1>1, <2>2, ApplyKeeps DEF Kept, MonthInv, LocksKept
  <2>3. CASE /\ mpc[j] = "closing"
             /\ LockedByOthers(j) \cap Provisional(opts[j].month) = {}
             /\ final' = final \cup Provisional(opts[j].month)
             /\ UNCHANGED stated
    BY <1>1, <2>3, FreezeKeeps DEF Kept
  <2> QED
    BY <2>1, <2>2, <2>3
<1>4. \A i \in Jobs : Locked(i)' \subseteq Locked(i)
  BY <1>2 DEF Locked
<1>5. \A i \in Jobs : mpc'[i] # "generated" => pending'[i] = {}
  BY <1>2 DEF MonthInv, LocksKept
<1>6. LocksKept'
  BY <1>3, <1>4, <1>5 DEF LocksKept
<1> QED
  BY <1>2, <1>3, <1>6 DEF MonthTypeOK, StatementsKept

LEMMA OperatorKept ==
  ASSUME MonthInv, NEW k \in Keys,
         UnFinalise(k) \/ OperatorUpdates(k) \/ OperatorDeletes(k)
  PROVE  StatementsKept
<1>1. /\ stated \in [ Keys -> SUBSET Row ] /\ daily \subseteq Row
      /\ final \subseteq { h \in Keys : stated[h] # {} }
  BY DEF MonthInv, MonthTypeOK, TypeInv, TypeOK
<1>2. UNCHANGED << mpc, pending >>
  BY DEF UnFinalise, OperatorUpdates, OperatorDeletes
<1>3. /\ stated' \in [ Keys -> SUBSET Row ] /\ Kept /\ final' \subseteq final
      /\ final' \subseteq { h \in Keys : stated'[h] # {} }
  <2>1. CASE UnFinalise(k)
    BY <1>1, <2>1 DEF UnFinalise, Kept
  <2>2. CASE OperatorUpdates(k)
    <3>1. PICK R \in SUBSET Scoped(k) : stated' = [ stated EXCEPT ![k] = R ]
      BY <2>2 DEF OperatorUpdates
    <3>2. R \in SUBSET Row
      BY <1>1 DEF Scoped
    <3>3. k \notin final /\ UNCHANGED final
      BY <2>2 DEF OperatorUpdates, TriggerAllows
    <3> QED
      BY <1>1, <3>1, <3>2, <3>3 DEF Kept
  <2>3. CASE OperatorDeletes(k)
    <3>1. k \notin final /\ final' = final \ {k} /\ stated' = [ stated EXCEPT ![k] = {} ]
      BY <2>3 DEF OperatorDeletes, TriggerAllowsDelete
    <3> QED
      BY <1>1, <3>1 DEF Kept
  <2> QED
    BY <2>1, <2>2, <2>3
<1> QED
  BY <1>2, <1>3 DEF MonthInv, MonthTypeOK, LocksKept, Locked, StatementsKept

LEMMA NextKept == ASSUME MonthInv, [MonthNext]_mvars PROVE StatementsKept
<1>1. CASE UNCHANGED monthVars
  BY <1>1, UntouchedKept
<1>2. ASSUME NEW j \in Jobs, GenerateMonth(j) PROVE StatementsKept
  BY <1>2, GenerateKept
<1>3. ASSUME NEW j \in Jobs, CommitMonth(j) PROVE StatementsKept
  BY <1>3, EndedKept DEF CommitMonth, GotoMonth
<1>4. ASSUME NEW j \in Jobs, FinaliseMonth(j) PROVE StatementsKept
  <2>1. mpc[j] = "closing" /\ pending[j] = {}
    BY <1>4 DEF FinaliseMonth, InMonth, MonthInv, LocksKept
  <2>2. pending' = [ pending EXCEPT ![j] = {} ]
    BY <1>4, <2>1 DEF FinaliseMonth, MonthInv, MonthTypeOK
  <2> QED
    BY <1>4, <2>1, <2>2, EndedKept DEF FinaliseMonth, GotoMonth
<1>5. ASSUME NEW j \in Jobs, RunMonthFails(j) \/ CrashJob(j) PROVE StatementsKept
  <2>1. InFlight(j) /\ pending' = [ pending EXCEPT ![j] = {} ] /\ UNCHANGED mpc
    BY <1>5 DEF RunMonthFails, CrashJob
  <2> QED
    BY <2>1, EndedKept DEF InFlight, InMonth
<1>6. ASSUME NEW k \in Keys, UnFinalise(k) \/ OperatorUpdates(k) \/ OperatorDeletes(k)
      PROVE  StatementsKept
  BY <1>6, OperatorKept
<1> QED
  BY <1>1, <1>2, <1>3, <1>4, <1>5, <1>6
     DEF MonthNext, MonthStep, RangeOrOutside, RefuseFinalise, FinishRun, mvars

LEMMA InitMonth == MonthInit => MonthInv
<1> SUFFICES ASSUME MonthInit PROVE MonthInv
  OBVIOUS
<1>1. TypeInv
  BY InitType DEF MonthInit
<1>2. MonthTypeOK /\ LocksKept
  BY DEF MonthInit, MonthTypeOK, LocksKept, Locked
<1> QED
  BY <1>1, <1>2 DEF MonthInv

LEMMA NextMonthInv == MonthInv /\ [MonthNext]_mvars => MonthInv'
<1> SUFFICES ASSUME MonthInv, [MonthNext]_mvars PROVE MonthInv'
  OBVIOUS
<1>1. TypeInv'
  BY MonthNextRefines, NextType DEF MonthInv
<1>2. MonthTypeOK' /\ LocksKept'
  BY NextKept DEF StatementsKept
<1> QED
  BY <1>1, <1>2 DEF MonthInv

\* The statements have the shape the schema gives them; in particular only a
\* statement that exists is ever final.
THEOREM MonthTypeCorrect == MonthSpec => []MonthTypeOK
<1>1. MonthInv => MonthTypeOK
  BY DEF MonthInv
<1> QED
  BY <1>1, InitMonth, NextMonthInv, PTL DEF MonthSpec

\* No step of any job, at any point of any crash or retry, with or without the
\* advisory lock, and no UPDATE or DELETE by hand changes or removes a
\* finalised statement.
THEOREM FinalisedKept == MonthSpec => FinalisedNeverRewritten
<1>1. MonthInv /\ [MonthNext]_mvars =>
        [ \A k \in final :
            stated'[k] # {} /\ (k \in final' => stated'[k] = stated[k]) ]_mvars
  BY NextKept DEF StatementsKept, Kept
<1> QED
  BY <1>1, InitMonth, NextMonthInv, PTL DEF MonthSpec, FinalisedNeverRewritten

-----------------------------------------------------------------------------
(* The completeness guard                                                  *)

\* A day is no later than the last day of its month.
LEMMA DayInMonth == ASSUME NEW d \in Nat PROVE d <= FinalDay(MonthOf(d))
  BY BoundAssumption DEF FinalDay, MonthOf

\* The clock does not go back.
LEMMA TodayGrows ==
  ASSUME TypeInv, [Next]_vars
  PROVE  today \in Nat /\ today' \in Nat /\ today <= today'
<1>1. today \in Nat /\ today' \in Nat
  BY NextType, BoundAssumption DEF TypeInv, TypeOK, Days
<1>2. CASE NextDay
  BY <1>1, <1>2 DEF NextDay
<1>3. CASE UNCHANGED today
  BY <1>1, <1>3
<1>4. CASE CollectorWrites \/ RelabelFact \/ UNCHANGED vars
  BY <1>3, <1>4 DEF CollectorWrites, RelabelFact, vars, envVars
<1>5. CASE \E j \in Jobs : RangeStep(j)
  BY <1>3, <1>5 DEF envVars, RangeStep, Invoke, TakeLock, LockIsHeld, LockFails, Plan,
       PlanFails, BeginDay, DeleteDay, InsertDay, CountDay, CommitDay, DayFails,
       StopCancelled, EndRange, Release
<1>6. CASE \E j \in Jobs : Finish(j) \/ MonthFails(j) \/ Outside(j) \/ Crash(j)
  BY <1>3, <1>6 DEF envVars, Finish, MonthFails, Outside, Sigterm, OrphanCommits,
       LoseLockSession, Crash
<1> QED
  BY <1>2, <1>4, <1>5, <1>6 DEF Next, Environment

\* Only a month that IsComplete is frozen, and the clock does not go back.
LEMMA NextFrozen ==
  ASSUME MonthInv, FrozenMonthsHaveEnded, [MonthNext]_mvars
  PROVE  FrozenMonthsHaveEnded'
<1>1. today \in Int /\ today' \in Int
  BY NextMonthInv DEF MonthInv, TypeInv, TypeOK, Days
<1>2. today <= today'
  BY MonthNextRefines, TodayGrows DEF MonthInv
<1>3. \A k \in final' \ final : IsComplete(k.month)
  BY DEF MonthNext, MonthStep, RangeOrOutside, GenerateMonth, CommitMonth, FinaliseMonth,
         RefuseFinalise, RunMonthFails, FinishRun, CrashJob, InFlight, Provisional, KeysOf,
         UnFinalise, OperatorUpdates, OperatorDeletes, mvars, monthVars
<1>4. SUFFICES ASSUME NEW k \in final', NEW d \in Days, MonthOf(d) = k.month
               PROVE  d < today'
  BY DEF FrozenMonthsHaveEnded
<1>5. d \in Nat
  BY DEF Days
<1>6. CASE k \in final
  BY <1>1, <1>2, <1>4, <1>5, <1>6 DEF FrozenMonthsHaveEnded
<1>7. CASE k \notin final
  <2>1. today > FinalDay(MonthOf(d))
    BY <1>3, <1>4, <1>7 DEF IsComplete
  <2>2. d <= FinalDay(MonthOf(d)) /\ FinalDay(MonthOf(d)) \in Int
    BY <1>5, DayInMonth, MonthOfType, BoundAssumption DEF FinalDay
  <2> HIDE DEF FinalDay
  <2> QED
    BY <1>1, <1>2, <1>5, <2>1, <2>2
<1> QED
  BY <1>6, <1>7

\* No statement is frozen while its month still runs, whoever closes it and
\* for months of any length.
THEOREM FrozenHaveEnded == MonthSpec => []FrozenMonthsHaveEnded
<1>1. MonthInit => FrozenMonthsHaveEnded
  BY DEF MonthInit, FrozenMonthsHaveEnded
<1>2. MonthInv /\ FrozenMonthsHaveEnded /\ [MonthNext]_mvars => FrozenMonthsHaveEnded'
  BY NextFrozen
<1> QED
  BY <1>1, <1>2, InitMonth, NextMonthInv, PTL DEF MonthSpec

-----------------------------------------------------------------------------
(* Figures that no longer change                                           *)

\* The last window of month m has been collected.
Settled(m) == FinalDay(m) + 1 < today

\* The rollup shows every fact of day d, and of month m.
Current(d) ==
  \A g \in Dims : facts[d][g] > 0 =>
    \E r \in daily : r.day = d /\ r.dim = g /\ r.windows = facts[d][g]

MonthCurrent(m) == \A d \in Days : MonthOf(d) = m => Current(d)

\* The rollup has a row for the day and the tuple of r.
Listed(r) == \E s \in daily : s.day = r.day /\ s.dim = r.dim

\* A window is collected by the end of the next day.
LEMMA FactsSettle ==
  ASSUME NoLateCommit, LabelsKept, DayInv, [Next]_vars, NEW d \in Days, d + 1 < today
  PROVE  facts'[d] = facts[d]
<1>1. facts \in [ Days -> [ Dims -> Nat ] ] /\ today \in Nat
  BY TodayGrows DEF DayInv, TypeInv, TypeOK
<1>2. CASE CollectorWrites
  <2>1. PICK e \in { today, today - 1 } \cap FactDays, G \in (SUBSET Dims) \ {{}} :
          /\ \A h \in G : facts[e][h] < MaxWindows
          /\ facts' = [ facts EXCEPT ![e] =
                          [ h \in Dims |-> IF h \in G THEN @[h] + 1 ELSE @[h] ] ]
          /\ UNCHANGED << today, daily, lock, pc, jobVars, loopVars, txVars >>
    BY <1>2, Zenon DEF CollectorWrites
  <2>2. e # d
    BY <1>1, <2>1 DEF Days
  <2> QED
    BY <1>1, <2>1, <2>2
<1>3. CASE UNCHANGED facts
  BY <1>3
<1> QED
  BY <1>2, <1>3, VisibleSteps

\* A transaction that replaces a day replaces no row by a smaller one, and
\* leaves the rows of other days.
LEMMA CommitCovers ==
  ASSUME TableInv, NEW j \in Jobs, pc[j] = "committing", daily' = Committed(j),
         NEW r \in daily
  PROVE  \E s \in daily' : s.day = r.day /\ s.dim = r.dim /\ s.windows >= r.windows
<1>1. r.windows \in Nat
  BY DEF TableInv, DayInv, TypeInv, TypeOK, Row
<1>2. gone[j] = RowsOf(day[j]) /\ \A s \in ins[j] : s.day = day[j]
  BY DEF TableInv, DayInv, TxReplacesDay, ReplacesDay, AfterDelete
<1>3. CASE r.day = day[j]
  <2>1. r \in RowsOf(day[j])
    BY <1>3 DEF RowsOf
  <2>2. PICK s \in ins[j] : s.dim = r.dim /\ s.windows >= r.windows
    BY <2>1 DEF TableInv, Growing, AfterInsert
  <2> QED
    BY <1>2, <1>3, <2>2 DEF Committed
<1>4. CASE r.day # day[j]
  BY <1>1, <1>2, <1>4 DEF Committed, RowsOf
<1> QED
  BY <1>3, <1>4

\* What the rollup lists it goes on listing.
LEMMA ListedStays ==
  ASSUME NoLateCommit, LabelsKept, TableInv, [Next]_vars, NEW r, Listed(r)
  PROVE  Listed(r)'
<1>1. PICK s \in daily : s.day = r.day /\ s.dim = r.dim
  BY DEF Listed
<1>2. CASE UNCHANGED daily
  BY <1>1, <1>2 DEF Listed
<1>3. ASSUME NEW j \in Jobs, pc[j] = "committing", daily' = Committed(j)
      PROVE  Listed(r)'
  <2>1. \E t \in daily' : t.day = s.day /\ t.dim = s.dim
    BY <1>1, <1>3, CommitCovers
  <2> QED
    BY <1>1, <2>1 DEF Listed
<1>4. CASE CollectorWrites
  BY <1>2, <1>4 DEF CollectorWrites
<1> QED
  BY <1>2, <1>3, <1>4, VisibleSteps DEF TableInv

\* A day that is current when its facts are settled stays so: a transaction
\* that rewrites it has inserted rows that cover them, and that they back.
LEMMA CurrentStays ==
  ASSUME NoLateCommit, LabelsKept, TableInv, TableInv', [Next]_vars,
         NEW d \in Days, d + 1 < today, Current(d)
  PROVE  Current(d)'
<1>1. facts'[d] = facts[d]
  BY FactsSettle DEF TableInv
<1>2. CASE UNCHANGED daily
  BY <1>1, <1>2 DEF Current
<1>3. ASSUME NEW j \in Jobs, pc[j] = "committing", daily' = Committed(j)
      PROVE  Current(d)'
  <2>1. SUFFICES ASSUME NEW g \in Dims, facts[d][g] > 0
                 PROVE  \E s \in daily' : s.day = d /\ s.dim = g /\ s.windows = facts[d][g]
    BY <1>1 DEF Current
  <2>2. PICK r \in daily : r.day = d /\ r.dim = g /\ r.windows = facts[d][g]
    BY <2>1 DEF Current
  <2>3. PICK s \in daily' : s.day = d /\ s.dim = g /\ s.windows >= facts[d][g]
    BY <1>3, <2>2, CommitCovers
  <2>4. s.windows <= facts[d][g] /\ s.windows \in Nat /\ facts[d][g] \in Nat
    BY <1>1, <2>3 DEF TableInv, Growing, Backed, DayInv, TypeInv, TypeOK, Row
  <2> QED
    BY <2>3, <2>4
<1>4. CASE CollectorWrites
  BY <1>2, <1>4 DEF CollectorWrites
<1> QED
  BY <1>2, <1>3, <1>4, VisibleSteps DEF TableInv

-----------------------------------------------------------------------------
(* Months                                                                  *)

LEMMA LastDays ==
  ASSUME NEW L \in Nat \ {0}, NEW d \in Nat
  PROVE  /\ ((d - 1) \div L) \in Int /\ (((d - 1) \div L) * L) \in Int
         /\ (((d - 1) \div L) * L) + 1 <= d
         /\ d <= (((d - 1) \div L) * L) + L
         /\ (d - 1) % L >= 1 => (((d - 1) \div L) * L) + 2 <= d
  OBVIOUS

LEMMA MonthBounds ==
  ASSUME NEW d \in Nat
  PROVE  /\ MonthOf(d) \in Int /\ FinalDay(MonthOf(d)) \in Int /\ FirstDay(MonthOf(d)) \in Int
         /\ FirstDay(MonthOf(d)) <= d /\ d <= FinalDay(MonthOf(d))
         /\ FirstDay(MonthOf(d)) <= FinalDay(MonthOf(d))
<1> DEFINE q == (d - 1) \div MonthLen
<1>1. /\ q \in Int /\ (q * MonthLen) \in Int /\ (q * MonthLen) + 1 <= d
      /\ d <= (q * MonthLen) + MonthLen /\ MonthLen \in Nat \ {0}
  BY BoundAssumption, LastDays
<1>2. MonthOf(d) = q + 1
  BY DEF MonthOf
<1> HIDE DEF q
<1>3. (q + 1) * MonthLen = (q * MonthLen) + MonthLen /\ ((q + 1) - 1) * MonthLen = q * MonthLen
  BY <1>1
<1> QED
  BY <1>1, <1>2, <1>3 DEF FinalDay, FirstDay

\* The month before is settled from the second day of a month on.
LEMMA LastMonthSettled ==
  ASSUME today \in Nat, today >= 1, (today - 1) % MonthLen >= 1
  PROVE  Settled(MonthOf(today) - 1) /\ MonthOf(today) - 1 \in Nat
<1> DEFINE q == (today - 1) \div MonthLen
<1>1. /\ q \in Int /\ (q * MonthLen) \in Int /\ (q * MonthLen) + 2 <= today
      /\ MonthLen \in Nat \ {0}
  BY BoundAssumption, LastDays
<1>2. q >= 0
  BY <1>1
<1>3. MonthOf(today) - 1 = q
  BY <1>1 DEF MonthOf
<1> HIDE DEF q
<1> QED
  BY <1>1, <1>2, <1>3 DEF Settled, FinalDay

LEMMA SettledDays ==
  ASSUME TypeInv, NEW d \in Days, Settled(MonthOf(d)) PROVE d + 1 < today
<1>1. d \in Nat /\ today \in Nat
  BY BoundAssumption DEF Days, TypeInv, TypeOK
<1>2. d <= FinalDay(MonthOf(d)) /\ FinalDay(MonthOf(d)) \in Int
  BY <1>1, MonthBounds
<1> DEFINE f == FinalDay(MonthOf(d))
<1>3. f + 1 < today
  BY DEF Settled
<1> HIDE DEF f
<1>4. d <= f /\ f \in Int
  BY <1>2 DEF f
<1> QED
  BY <1>1, <1>3, <1>4

LEMMA SettledStays ==
  ASSUME TypeInv, [Next]_vars, NEW m \in Int, Settled(m) PROVE Settled(m)'
<1>1. FinalDay(m) \in Int
  BY BoundAssumption DEF FinalDay
<1> QED
  BY <1>1, TodayGrows DEF Settled

LEMMA MonthCurrentStays ==
  ASSUME NoLateCommit, LabelsKept, TableInv, TableInv', [Next]_vars,
         NEW m, Settled(m), MonthCurrent(m)
  PROVE  MonthCurrent(m)'
<1>1. SUFFICES ASSUME NEW d \in Days, MonthOf(d) = m PROVE Current(d)'
  BY DEF MonthCurrent, MonthOf
<1>2. d + 1 < today
  BY <1>1, SettledDays DEF TableInv, DayInv
<1> QED
  BY <1>1, <1>2, CurrentStays DEF MonthCurrent

-----------------------------------------------------------------------------
(* What a statement should say                                             *)

\* rows are the facts of statement k, each of them once.
Exact(rows, k) ==
  /\ \A r \in rows : /\ MonthOf(r.day) = k.month /\ InScope(r, k.scope)
                     /\ r.windows = facts[r.day][r.dim]
  /\ \A x \in FactsInScope(k) : \E r \in rows : r.day = x[1] /\ r.dim = x[2]
  /\ \A r, s \in rows : r.day = s.day /\ r.dim = s.dim => r = s

\* The rows of a statement are, or were, rows of the rollup.
KnownRows(rows, k) ==
  \A r \in rows : MonthOf(r.day) = k.month /\ InScope(r, k.scope) /\ Listed(r)

Ready(f, m) == \A k \in KeysOf(m) : Exact(f[k], k)

\* The scope of a row is that of its tuple.
LEMMA ScopeOfTuple ==
  ASSUME NEW r, NEW s PROVE InScope([ dim |-> r.dim ], s) <=> InScope(r, s)
  BY DEF InScope

LEMMA FactsOf ==
  ASSUME NEW k, NEW d \in Days, NEW g \in Dims
  PROVE  << d, g >> \in FactsInScope(k) <=>
           MonthOf(d) = k.month /\ facts[d][g] > 0 /\ InScope([ dim |-> g ], k.scope)
  BY DEF FactsInScope

\* Of a month whose rollup is current, the rows that are summed are the facts.
LEMMA ScopedExact ==
  ASSUME TableInv, NEW k, MonthCurrent(k.month)
  PROVE  Exact(Scoped(k), k)
<1>1. /\ \A r \in daily : r.day \in Days /\ r.dim \in Dims /\ r.windows \in Nat \ {0}
      /\ facts \in [ Days -> [ Dims -> Nat ] ]
  BY DEF TableInv, DayInv, TypeInv, TypeOK, Row
<1>2. ASSUME NEW r \in Scoped(k)
      PROVE  /\ MonthOf(r.day) = k.month /\ InScope(r, k.scope)
             /\ r.windows = facts[r.day][r.dim]
  <2>1. r \in daily /\ MonthOf(r.day) = k.month /\ InScope(r, k.scope)
    BY <1>2 DEF Scoped
  <2>2. r.windows <= facts[r.day][r.dim] /\ facts[r.day][r.dim] \in Nat
    BY <1>1, <2>1 DEF TableInv, Growing, Backed
  <2>3. facts[r.day][r.dim] > 0
    BY <1>1, <2>1, <2>2
  <2>4. PICK s \in daily : s.day = r.day /\ s.dim = r.dim /\ s.windows = facts[r.day][r.dim]
    BY <1>1, <2>1, <2>3 DEF MonthCurrent, Current
  <2>5. s = r
    BY <2>1, <2>4 DEF TableInv, DayInv, OneProjectionPerDay
  <2> QED
    BY <2>1, <2>4, <2>5
<1>3. ASSUME NEW x \in FactsInScope(k)
      PROVE  \E r \in Scoped(k) : r.day = x[1] /\ r.dim = x[2]
  <2>1. /\ x[1] \in Days /\ x[2] \in Dims /\ MonthOf(x[1]) = k.month
        /\ facts[x[1]][x[2]] > 0 /\ InScope([ dim |-> x[2] ], k.scope)
    BY <1>3 DEF FactsInScope
  <2>2. PICK r \in daily : r.day = x[1] /\ r.dim = x[2]
    BY <2>1 DEF MonthCurrent, Current
  <2>3. InScope(r, k.scope)
    BY <2>1, <2>2, ScopeOfTuple
  <2> QED
    BY <2>1, <2>2, <2>3 DEF Scoped
<1>4. \A r, s \in Scoped(k) : r.day = s.day /\ r.dim = s.dim => r = s
  BY DEF Scoped, TableInv, DayInv, OneProjectionPerDay
<1> QED
  BY <1>2, <1>3, <1>4 DEF Exact

\* Of a listed row the facts say something, and its scope is summed.
LEMMA ListedCounts ==
  ASSUME TableInv, NEW rows, NEW k, KnownRows(rows, k), rows # {}
  PROVE  Scoped(k) # {} /\ FactsInScope(k) # {}
<1>1. PICK r \in rows : MonthOf(r.day) = k.month /\ InScope(r, k.scope) /\ Listed(r)
  BY DEF KnownRows
<1>2. PICK s \in daily : s.day = r.day /\ s.dim = r.dim
  BY <1>1 DEF Listed
<1>3. InScope(s, k.scope)
  BY <1>1, <1>2, ScopeOfTuple
<1>4. /\ s.day \in Days /\ s.dim \in Dims /\ s.windows \in Nat \ {0}
      /\ facts \in [ Days -> [ Dims -> Nat ] ]
  BY DEF TableInv, DayInv, TypeInv, TypeOK, Row
<1>5. facts[s.day][s.dim] > 0
  BY <1>4 DEF TableInv, Growing, Backed
<1>6. << s.day, s.dim >> \in FactsInScope(k)
  BY <1>1, <1>2, <1>3, <1>4, <1>5, FactsOf, ScopeOfTuple
<1> QED
  BY <1>1, <1>2, <1>3, <1>6 DEF Scoped

\* A statement without rows is right only when nothing is in its scope.
LEMMA EmptyExact ==
  ASSUME NEW k, Exact({}, k) PROVE FactsInScope(k) = {}
  BY DEF Exact

LEMMA NothingExact ==
  ASSUME NEW k, FactsInScope(k) = {} PROVE Exact({}, k)
  BY DEF Exact

\* What is right of a settled month stays right.
LEMMA ExactStays ==
  ASSUME NoLateCommit, LabelsKept, DayInv, [Next]_vars, NEW k, Settled(k.month),
         NEW rows \in SUBSET Row, Exact(rows, k)
  PROVE  Exact(rows, k)'
<1>1. ASSUME NEW d \in Days, MonthOf(d) = k.month PROVE facts'[d] = facts[d]
  <2>1. d + 1 < today
    BY <1>1, SettledDays DEF DayInv
  <2> QED
    BY <2>1, FactsSettle
<1>2. \A r \in rows : r.day \in Days
  BY DEF Row
<1>3. FactsInScope(k)' = FactsInScope(k)
  <2>1. \A x \in Days \X Dims : x[1] \in Days
    OBVIOUS
  <2>2. \A x \in Days \X Dims : MonthOf(x[1]) = k.month => facts'[x[1]] = facts[x[1]]
    BY <1>1, <2>1
  <2> QED
    BY <2>2 DEF FactsInScope, MonthOf, InScope
<1>4. \A r \in rows : r.windows = facts'[r.day][r.dim]
  BY <1>1, <1>2 DEF Exact
<1>5. \A r \in rows : MonthOf(r.day) = k.month /\ InScope(r, k.scope)
  BY DEF Exact
<1>6. \A x \in FactsInScope(k) : \E r \in rows : r.day = x[1] /\ r.dim = x[2]
  BY DEF Exact
<1>7. \A r, s \in rows : r.day = s.day /\ r.dim = s.dim => r = s
  BY DEF Exact
<1> QED
  BY <1>3, <1>4, <1>5, <1>6, <1>7 DEF Exact, MonthOf, InScope

LEMMA KnownStays ==
  ASSUME NoLateCommit, LabelsKept, TableInv, [Next]_vars, NEW rows, NEW k, KnownRows(rows, k)
  PROVE  KnownRows(rows, k)'
<1>1. \A r \in rows : Listed(r)'
  BY ListedStays DEF KnownRows
<1> QED
  BY <1>1 DEF KnownRows, MonthOf, InScope

\* Month m is closed: every scope that has facts has a statement, it is right,
\* and it is frozen.
Sealed(m) ==
  /\ Settled(m) /\ MonthCurrent(m) /\ Ready(stated, m)
  /\ \A k \in KeysOf(m) : stated[k] # {} => k \in final

\* The statements f of month m add up.
MonthAddsUp(f, m) ==
  LET cluster == f[[ month |-> m, scope |-> << "cluster", Cluster >> ]]
      of(kind) == UNION { f[k] : k \in { h \in KeysOf(m) : h.scope[1] = kind } }
  IN  of("namespace") = cluster /\ of("team") \subseteq cluster

AddsUp(f) == \A m \in Months : MonthAddsUp(f, m)

ClusterKey(m) == [ month |-> m, scope |-> << "cluster", Cluster >> ]

LEMMA AddsUpPointwise ==
  ASSUME NEW f, NEW m \in Months
  PROVE  MonthAddsUp(f, m) <=>
           /\ \A k \in KeysOf(m) : k.scope[1] \in { "namespace", "team" } => f[k] \subseteq f[ClusterKey(m)]
           /\ \A r \in f[ClusterKey(m)] : \E k \in KeysOf(m) : k.scope[1] = "namespace" /\ r \in f[k]
<1> DEFINE of(kind) == UNION { f[k] : k \in { h \in KeysOf(m) : h.scope[1] = kind } }
           cluster == f[ClusterKey(m)]
<1>1. MonthAddsUp(f, m) <=> of("namespace") = cluster /\ of("team") \subseteq cluster
  BY DEF MonthAddsUp, ClusterKey
<1>2. ASSUME NEW kind
      PROVE  \A r : r \in of(kind) <=> \E k \in KeysOf(m) : k.scope[1] = kind /\ r \in f[k]
  OBVIOUS
<1> HIDE DEF of, cluster
<1>3. of("namespace") = cluster <=> /\ \A r \in of("namespace") : r \in cluster
                                    /\ \A r \in cluster : r \in of("namespace")
  OBVIOUS
<1>4. of("team") \subseteq cluster <=> \A r \in of("team") : r \in cluster
  OBVIOUS
<1> QED
  BY <1>1, <1>2, <1>3, <1>4 DEF cluster

\* Statements that agree add up alike.
LEMMA AddsUpSame ==
  ASSUME NEW f, NEW g, NEW m \in Months, \A k \in KeysOf(m) : f[k] = g[k], MonthAddsUp(g, m)
  PROVE  MonthAddsUp(f, m)
<1>1. ClusterKey(m) \in KeysOf(m)
  BY DEF ClusterKey, KeysOf, Keys, Scopes
<1> QED
  BY <1>1, AddsUpPointwise

\* The sums over one table add up.
LEMMA ScopedAddsUp ==
  ASSUME daily \subseteq Row, NEW f, NEW m \in Months, \A k \in KeysOf(m) : f[k] = Scoped(k)
  PROVE  MonthAddsUp(f, m)
<1>1. ClusterKey(m) \in KeysOf(m)
  BY DEF ClusterKey, KeysOf, Keys, Scopes
<1>2. f[ClusterKey(m)] = { r \in daily : MonthOf(r.day) = m }
  BY <1>1 DEF ClusterKey, Scoped, InScope
<1>3. \A k \in KeysOf(m) : f[k] \subseteq f[ClusterKey(m)]
  BY <1>2 DEF Scoped, KeysOf
<1>4. ASSUME NEW r \in f[ClusterKey(m)]
      PROVE  \E k \in KeysOf(m) : k.scope[1] = "namespace" /\ r \in f[k]
  <2> DEFINE k == [ month |-> m, scope |-> << "namespace", NsOf[r.dim] >> ]
  <2>1. r \in daily /\ MonthOf(r.day) = m /\ r.dim \in Dims
    BY <1>2, <1>4 DEF Row
  <2>2. NsOf[r.dim] \in Namespaces
    BY <2>1 DEF Namespaces
  <2>3. k \in KeysOf(m) /\ k.scope[1] = "namespace"
    BY <2>2 DEF KeysOf, Keys, Scopes
  <2>4. r \in Scoped(k)
    BY <2>1 DEF Scoped, InScope
  <2> QED
    BY <2>3, <2>4
<1> QED
  BY <1>3, <1>4, AddsUpPointwise

\* What a committed upsert of month m makes of a statement.
LEMMA ApplyUpsert ==
  ASSUME NEW m, NEW k \in Keys
  PROVE  Apply(Upsert(m))[k] =
           IF k.month = m /\ k \notin final /\ Scoped(k) # {} THEN Scoped(k) ELSE stated[k]
<1> DEFINE W == Upsert(m)
           u == [ key |-> k, rows |-> Scoped(k) ]
<1>1. \A w \in W : w.key = k => /\ w = u
                                /\ k.month = m /\ k \notin final /\ Scoped(k) # {}
  BY DEF Upsert, KeysOf
<1>2. k.month = m /\ k \notin final /\ Scoped(k) # {} => u \in W /\ u.key = k
  BY DEF Upsert, KeysOf
<1>3. u.rows = Scoped(k)
  OBVIOUS
<1>4. Apply(W)[k] = IF \E w \in W : w.key = k THEN (CHOOSE w \in W : w.key = k).rows ELSE stated[k]
  BY DEF Apply
<1> HIDE DEF W, u
<1>5. CASE k.month = m /\ k \notin final /\ Scoped(k) # {}
  <2>1. (CHOOSE w \in W : w.key = k) = u
    BY <1>1, <1>2, <1>5
  <2> QED
    BY <1>2, <1>3, <1>4, <1>5, <2>1 DEF W
<1>6. CASE ~(k.month = m /\ k \notin final /\ Scoped(k) # {})
  BY <1>1, <1>4, <1>6 DEF W
<1> QED
  BY <1>5, <1>6

\* A closed month has nothing left to generate.
LEMMA SealedGeneratesNothing ==
  ASSUME TableInv, NEW m, Sealed(m), NEW k \in KeysOf(m), k \notin final
  PROVE  stated[k] = {} /\ FactsInScope(k) = {} /\ Scoped(k) = {}
<1>1. stated[k] = {} /\ Exact(stated[k], k) /\ k.month = m
  BY DEF Sealed, Ready, KeysOf
<1>2. FactsInScope(k) = {}
  BY <1>1, EmptyExact
<1>3. Exact(Scoped(k), k)
  BY <1>1, ScopedExact DEF Sealed
<1>4. Scoped(k) = {}
  <2>1. KnownRows(Scoped(k), k)
    BY DEF KnownRows, Scoped, Listed
  <2> QED
    BY <1>2, <2>1, ListedCounts
<1> QED
  BY <1>1, <1>2, <1>4

\* What is known of the statements.
StatedInv ==
  /\ \A k \in Keys : KnownRows(stated[k], k)
  /\ \A k \in final : Sealed(k.month)
  /\ AddsUp(stated)

\* One upsert generates every scope from the same table.
LEMMA UpsertAddsUp ==
  ASSUME TableInv, MonthTypeOK, StatedInv, NEW n
  PROVE  AddsUp(Apply(Upsert(n)))
<1>1. SUFFICES ASSUME NEW m \in Months PROVE MonthAddsUp(Apply(Upsert(n)), m)
  BY DEF AddsUp
<1>2. daily \subseteq Row
  BY DEF TableInv, DayInv, TypeInv, TypeOK
<1>3. \A k \in KeysOf(m) : k \in Keys /\ k.month = m
  BY DEF KeysOf
<1>4. CASE m # n \/ \E k \in final : k.month = m
  <2>1. ASSUME NEW k \in KeysOf(m) PROVE Apply(Upsert(n))[k] = stated[k]
    <3>1. CASE m # n \/ k \in final
      BY <1>3, <3>1, ApplyUpsert
    <3>2. CASE m = n /\ k \notin final
      <4>1. Sealed(m)
        BY <1>4, <3>2 DEF StatedInv
      <4> QED
        BY <1>3, <3>2, <4>1, SealedGeneratesNothing, ApplyUpsert
    <3> QED
      BY <3>1, <3>2
  <2>2. MonthAddsUp(stated, m)
    BY DEF StatedInv, AddsUp
  <2> DEFINE f == Apply(Upsert(n))
  <2>3. \A k \in KeysOf(m) : f[k] = stated[k]
    BY <2>1
  <2> HIDE DEF f
  <2>4. MonthAddsUp(f, m)
    BY <2>2, <2>3, AddsUpSame
  <2> QED
    BY <2>4 DEF f
<1>5. CASE m = n /\ \A k \in final : k.month # m
  <2>1. ASSUME NEW k \in KeysOf(m) PROVE Apply(Upsert(n))[k] = Scoped(k)
    <3>1. k \in Keys /\ k.month = n /\ k \notin final
      BY <1>3, <1>5
    <3>2. CASE Scoped(k) # {}
      BY <3>1, <3>2, ApplyUpsert
    <3>3. CASE Scoped(k) = {}
      <4>1. stated[k] = {}
        BY <3>1, <3>3, ListedCounts DEF StatedInv
      <4> QED
        BY <3>1, <3>3, <4>1, ApplyUpsert
    <3> QED
      BY <3>2, <3>3
  <2> DEFINE f == Apply(Upsert(n))
  <2>2. \A k \in KeysOf(m) : f[k] = Scoped(k)
    BY <2>1
  <2> HIDE DEF f
  <2>3. MonthAddsUp(f, m)
    BY <1>2, <2>2, ScopedAddsUp
  <2> QED
    BY <2>3 DEF f
<1> QED
  BY <1>4, <1>5

\* Of a month whose rollup is current, the upsert makes every statement right.
LEMMA UpsertReady ==
  ASSUME TableInv, MonthTypeOK, StatedInv, NEW m, MonthCurrent(m)
  PROVE  Ready(Apply(Upsert(m)), m)
<1>1. SUFFICES ASSUME NEW k \in KeysOf(m) PROVE Exact(Apply(Upsert(m))[k], k)
  BY DEF Ready
<1>2. k \in Keys /\ k.month = m
  BY DEF KeysOf
<1>3. Exact(Scoped(k), k)
  BY <1>2, ScopedExact
<1>4. CASE k \in final
  BY <1>2, <1>4, ApplyUpsert DEF StatedInv, Sealed, Ready
<1>5. CASE k \notin final /\ Scoped(k) # {}
  BY <1>2, <1>3, <1>5, ApplyUpsert
<1>6. CASE k \notin final /\ Scoped(k) = {}
  <2>1. stated[k] = {}
    BY <1>2, <1>6, ListedCounts DEF StatedInv
  <2> QED
    BY <1>2, <1>3, <1>6, <2>1, ApplyUpsert
<1> QED
  BY <1>4, <1>5, <1>6

-----------------------------------------------------------------------------
(* The scheduled close                                                     *)

\* What the theorems below assume: months are closed by the CronJob only,
\* which starts on the second day of a month and does not outlive the day;
\* statements do not fail, although jobs may be stopped and may die; the lock
\* session lives, no COMMIT arrives late, facts keep their tuples; and nobody
\* edits the statements by hand.
ClosedByCron == Scheduled /\ \A o \in Invocations : ~o.close
NothingFails == "statement_fails" \notin Faults
NotByHand    == Operator = {}

Regular ==
  /\ SessionKept /\ NoLateCommit /\ LabelsKept
  /\ ClosedByCron /\ NothingFails /\ NotByHand

\* How far a job is says what it was.
LEMMA PcMoves ==
  ASSUME TypeInv, [Next]_vars, NEW k \in Jobs
  PROVE  /\ pc[k] = "idle" => pc'[k] = "idle" \/ Invoke(k)
         /\ pc[k] \in Ended => pc'[k] \in Ended
         /\ pc'[k] \in { "idle", "locking", "planning" } => pc[k] \in { "idle", "locking", "planning" }
         /\ pc'[k] = "ranged" => pc[k] \in { "loop", "ranged" }
         /\ opts'[k] = opts[k] \/ Plan(k)
<1> USE DEF Goto, Stop
<1>0. pc \in [ Jobs -> PCs ] /\ TypeOK
  BY DEF TypeInv, TypeOK
<1>1. CASE Environment \/ UNCHANGED vars
  BY <1>1 DEF Environment, NextDay, CollectorWrites, RelabelFact, vars, jobVars
<1>2. ASSUME NEW j \in Jobs \ {k},
             RangeStep(j) \/ Finish(j) \/ MonthFails(j) \/ Outside(j) \/ Crash(j)
      PROVE  UNCHANGED << pc[k], opts[k] >>
  <2>1. UNCHANGED pc[k]
    BY <1>2, OthersFramed
  <2>2. UNCHANGED opts \/ Plan(j)
    BY <1>2 DEF RangeStep, Invoke, TakeLock, LockIsHeld, LockFails, PlanFails,
         BeginDay, DeleteDay, InsertDay, CountDay, CommitDay, DayFails, StopCancelled,
         EndRange, Release, Finish, MonthFails, Outside, Sigterm, OrphanCommits,
         LoseLockSession, Crash, jobVars
  <2>3. Plan(j) => opts'[k] = opts[k]
    BY <1>0 DEF Plan, TypeOK
  <2> QED
    BY <2>1, <2>2, <2>3
<1>3. CASE Invoke(k) \/ TakeLock(k) \/ LockIsHeld(k) \/ LockFails(k) \/ Plan(k) \/ PlanFails(k)
  BY <1>0, <1>3 DEF Invoke, TakeLock, LockIsHeld, LockFails, Plan, PlanFails, Ended, jobVars
<1>4. CASE BeginDay(k) \/ DeleteDay(k) \/ InsertDay(k) \/ CountDay(k) \/ CommitDay(k) \/ DayFails(k)
  BY <1>0, <1>4 DEF BeginDay, DeleteDay, InsertDay, CountDay, CommitDay, DayFails, Ended,
       InTx, jobVars
<1>5. CASE StopCancelled(k) \/ EndRange(k) \/ Release(k) \/ Finish(k) \/ MonthFails(k)
  BY <1>0, <1>5 DEF StopCancelled, EndRange, Release, Finish, MonthFails, Ended, jobVars
<1>6. CASE Outside(k) \/ Crash(k)
  BY <1>0, <1>6 DEF Outside, Sigterm, OrphanCommits, LoseLockSession, Crash, Ended, Holding,
       InTx, jobVars
<1>7. CASE RangeStep(k)
  BY <1>3, <1>4, <1>5, <1>7 DEF RangeStep
<1> QED
  BY <1>1, <1>2, <1>5, <1>6, <1>7 DEF Next

\* While the CronJob's close runs, the month before is settled; its flags say
\* so from its planning on.
OnTime(j) ==
  /\ opts[j].prev /\ pc[j] \notin { "idle" } \cup Ended => Settled(MonthOf(today) - 1)
  /\ opts[j].close => /\ HasMonth(j) /\ Settled(opts[j].month)
                      /\ pc[j] \notin { "idle", "locking", "planning" }

LEMMA Positive ==
  ASSUME NEW n \in Int, NEW L \in Nat, NEW t \in Nat, t >= 1, t <= n * L PROVE n >= 1
<1>1. SUFFICES ASSUME n <= 0 PROVE FALSE
  OBVIOUS
<1>2. n * L <= 0
  BY <1>1
<1>3. n * L \in Int
  OBVIOUS
<1> QED
  BY <1>2, <1>3

\* What planning makes of the flags.
LEMMA PlanResolves ==
  ASSUME Regular, TypeInv, NEW j \in Jobs, OnTime(j), Plan(j), opts'[j].close
  PROVE  /\ opts'[j].prev /\ opts'[j].all = opts[j].all
         /\ opts'[j].month = MonthOf(today) - 1
         /\ Settled(MonthOf(today) - 1) /\ MonthOf(today) - 1 \in Nat
         /\ pc'[j] \in { "loop", "exiting" }
         /\ pc'[j] = "loop" => todo'[j] = { d \in Asked(opts'[j]) : HasFacts(d) }
<1>1. /\ opts \in [ Jobs -> [ all: BOOLEAN, prev: BOOLEAN, month: Int,
                         close: BOOLEAN, from: Days \cup {NoDay},
                         to: Days \cup {NoDay} ] ]
      /\ pc \in [ Jobs -> PCs ] /\ today \in Nat /\ today >= 1
      /\ days \in [ Jobs -> SUBSET Days ] /\ todo \in [ Jobs -> SUBSET Days ]
  BY BoundAssumption DEF TypeInv, TypeOK, Days
<1>2. opts'[j] = Resolve(opts[j]) /\ pc[j] = "planning"
  BY <1>1 DEF Plan
<1>3. opts[j].prev
  BY <1>2 DEF Resolve, OnTime
<1>4. Settled(MonthOf(today) - 1)
  BY <1>2, <1>3 DEF OnTime, Ended
<1>5. MonthOf(today) - 1 \in Nat
  <2>1. MonthOf(today) \in Int /\ today <= FinalDay(MonthOf(today))
    BY <1>1, MonthBounds
  <2> DEFINE n == MonthOf(today)
  <2>2. n \in Int /\ today <= n * MonthLen
    BY <2>1 DEF FinalDay
  <2> HIDE DEF n
  <2>3. n >= 1
    BY <1>1, <2>2, BoundAssumption, Positive
  <2> QED
    BY <2>2, <2>3 DEF n
<1>6. /\ opts'[j].prev /\ opts'[j].all = opts[j].all /\ opts'[j].month = MonthOf(today) - 1
  <2> DEFINE n == MonthOf(today) - 1
  <2>1. opts'[j] = [ opts[j] EXCEPT !.month = n, !.close = TRUE ]
    BY <1>2, <1>3 DEF Resolve
  <2> HIDE DEF n
  <2>2. opts'[j].prev = opts[j].prev /\ opts'[j].all = opts[j].all /\ opts'[j].month = n
    BY <1>1, <2>1
  <2> QED
    BY <1>3, <2>2 DEF n
<1>7. /\ pc'[j] \in { "loop", "exiting" }
      /\ pc'[j] = "loop" => todo'[j] = { d \in Asked(opts'[j]) : HasFacts(d) }
  <2> DEFINE listed == { d \in Asked(Resolve(opts[j])) : HasFacts(d) }
  <2>1. \/ pc' = [ pc EXCEPT ![j] = "exiting" ]
        \/ /\ pc' = [ pc EXCEPT ![j] = "loop" ]
           /\ days' = [ days EXCEPT ![j] = listed ]
           /\ todo' = [ todo EXCEPT ![j] = days'[j] ]
    BY DEF Plan, Goto, Stop
  <2>2. listed = { d \in Asked(opts'[j]) : HasFacts(d) }
    BY <1>2
  <2> HIDE DEF listed
  <2> QED
    BY <1>1, <2>1, <2>2
<1> QED
  BY <1>4, <1>5, <1>6, <1>7

LEMMA NextOnTime ==
  ASSUME Regular, TypeInv, [Next]_vars, NEW j \in Jobs, OnTime(j)
  PROVE  OnTime(j)'
<1>0. /\ today \in Nat /\ today' \in Nat
      /\ opts \in [ Jobs -> [ all: BOOLEAN, prev: BOOLEAN, month: Int,
                         close: BOOLEAN, from: Days \cup {NoDay},
                         to: Days \cup {NoDay} ] ]
      /\ today >= 1
  BY TodayGrows DEF TypeInv, TypeOK, Days
<1>1. CASE Plan(j)
  <2>1. UNCHANGED today
    BY <1>1 DEF Plan, envVars
  <2>2. opts'[j].prev => opts[j].prev
    BY <1>0, <1>1 DEF Plan, Resolve
  <2>3. pc[j] = "planning"
    BY <1>1 DEF Plan
  <2>4. opts'[j].prev => Settled(MonthOf(today) - 1)
    BY <2>2, <2>3 DEF OnTime, Ended
  <2>5. opts'[j].close => /\ opts'[j].month = MonthOf(today) - 1
                          /\ Settled(MonthOf(today) - 1) /\ MonthOf(today) - 1 \in Nat
                          /\ pc'[j] \in { "loop", "exiting" }
    BY <1>1, PlanResolves
  <2>6. opts'[j].close => HasMonth(j)' /\ Settled(opts'[j].month)
    BY <2>5 DEF HasMonth, NoMonth
  <2>7. \A m : Settled(m)' = Settled(m)
    BY <2>1 DEF Settled, FinalDay
  <2>8. MonthOf(today)' = MonthOf(today)
    BY <2>1
  <2> QED
    BY <2>4, <2>5, <2>6, <2>7, <2>8 DEF OnTime
<1>2. CASE opts'[j] = opts[j] /\ ~NextDay
  <2>1. UNCHANGED today
    BY <1>2 DEF Next, Environment, CollectorWrites, RelabelFact, vars, envVars,
         RangeStep, Invoke, TakeLock, LockIsHeld, LockFails, Plan, PlanFails,
         BeginDay, DeleteDay, InsertDay, CountDay, CommitDay, DayFails, StopCancelled,
         EndRange, Release, Finish, MonthFails, Outside, Sigterm, OrphanCommits,
         LoseLockSession, Crash
  <2>2. \A m : Settled(m)' = Settled(m)
    BY <2>1 DEF Settled, FinalDay
  <2>3. MonthOf(today)' = MonthOf(today)
    BY <2>1
  <2>4. ASSUME opts[j].prev, pc'[j] \notin { "idle" } \cup Ended
        PROVE  Settled(MonthOf(today) - 1)
    <3>1. CASE pc[j] \notin { "idle" } \cup Ended
      BY <2>4, <3>1 DEF OnTime
    <3>2. CASE Invoke(j)
      <4>1. (today - 1) % MonthLen >= 1
        BY <2>4, <3>2 DEF Invoke, Due, Regular, ClosedByCron
      <4> QED
        BY <1>0, <4>1, LastMonthSettled
    <3> QED
      BY <2>4, <3>1, <3>2, PcMoves
  <2>5. ASSUME opts[j].close
        PROVE  /\ HasMonth(j) /\ Settled(opts[j].month)
               /\ pc'[j] \notin { "idle", "locking", "planning" }
    BY <2>5, PcMoves DEF OnTime
  <2> QED
    BY <1>2, <2>2, <2>3, <2>4, <2>5 DEF OnTime, HasMonth
<1>3. CASE NextDay
  <2>1. UNCHANGED << pc, opts >>
    BY <1>3 DEF NextDay, jobVars
  <2>2. opts[j].prev => pc[j] \in { "idle" } \cup Ended
    BY <1>3 DEF NextDay, WithinDeadline, FromCron, Regular, ClosedByCron
  <2>3. \A m \in Int : Settled(m) => Settled(m)'
    BY SettledStays
  <2>4. opts[j].month \in Int
    BY <1>0
  <2> QED
    BY <2>1, <2>2, <2>3, <2>4 DEF OnTime, HasMonth
<1> QED
  BY <1>1, <1>2, <1>3, PcMoves

\* The close works its month off: a day of the month is current, or ahead, or
\* in hand; and what is inserted for the one in hand are the facts.
Rolling(j) ==
  opts[j].close =>
    /\ pc[j] \in { "loop", "ranged" } \cup InTx =>
         \A d \in Days : MonthOf(d) = opts[j].month =>
           Current(d) \/ d \in todo[j] \/ (pc[j] \in InTx /\ d = day[j])
    /\ pc[j] \in AfterInsert /\ MonthOf(day[j]) = opts[j].month =>
         \A g \in Dims : facts[day[j]][g] > 0 =>
           \E r \in ins[j] : r.dim = g /\ r.windows = facts[day[j]][g]
    /\ pc[j] = "ranged" => todo[j] = {}

\* A settled month lies in the range of the close.
LEMMA MonthAsked ==
  ASSUME TypeInv, NEW o, o.all \in BOOLEAN, o.month # NoMonth, Settled(o.month),
         NEW d \in Days, MonthOf(d) = o.month
  PROVE  d \in Asked(o)
<1>1. d \in Nat /\ d >= 1 /\ today \in Nat
  BY BoundAssumption DEF Days, TypeInv, TypeOK
<1>2. d + 1 < today
  BY SettledDays
<1>3. FirstDay(o.month) <= d /\ d <= FinalDay(o.month)
  BY <1>1, MonthBounds
<1> HIDE DEF FirstDay, FinalDay
<1>4. CASE o.all
  <2>1. ResolveRange(o) = << 1, today >>
    BY <1>4 DEF ResolveRange
  <2> QED
    BY <1>1, <1>2, <2>1 DEF Asked
<1>5. CASE ~o.all
  <2>1. ResolveRange(o) = << FirstDay(o.month), FinalDay(o.month) >>
    BY <1>5 DEF ResolveRange
  <2> QED
    BY <1>3, <2>1 DEF Asked
<1> QED
  BY <1>4, <1>5

\* The other jobs and the collector leave the close's work alone.
LEMMA FrameRolling ==
  ASSUME Regular, TableInv, TableInv', [Next]_vars, NEW j \in Jobs, OnTime(j), Rolling(j),
         UNCHANGED << pc[j], opts[j], todo[j], day[j], ins[j] >>
  PROVE  Rolling(j)'
<1>1. SUFFICES ASSUME opts[j].close PROVE Rolling(j)'
  BY DEF Rolling
<1>2. \A d \in Days : MonthOf(d) = opts[j].month => d + 1 < today
  BY <1>1, SettledDays DEF OnTime, TableInv, DayInv
<1>3. \A d \in Days : MonthOf(d) = opts[j].month => facts'[d] = facts[d] /\ (Current(d) => Current(d)')
  BY <1>2, FactsSettle, CurrentStays DEF Regular, TableInv
<1>4. pc[j] \in AfterInsert => day[j] \in Days
  BY DEF TableInv, DayInv, TypeInv, TxHasDay, InTx, AfterInsert
<1>5. \A d \in Days : MonthOf(d)' = MonthOf(d)
  BY DEF MonthOf
<1> HIDE DEF MonthOf, Current
<1>6. pc'[j] \in { "loop", "ranged" } \cup InTx =>
         \A d \in Days : MonthOf(d) = opts'[j].month =>
           Current(d)' \/ d \in todo'[j] \/ (pc'[j] \in InTx /\ d = day'[j])
  BY <1>1, <1>3 DEF Rolling
<1>7. pc'[j] \in AfterInsert /\ MonthOf(day[j]) = opts[j].month =>
         \A g \in Dims : facts'[day[j]][g] > 0 =>
           \E r \in ins'[j] : r.dim = g /\ r.windows = facts'[day[j]][g]
  BY <1>1, <1>3, <1>4 DEF Rolling
<1>8. pc'[j] = "ranged" => todo'[j] = {}
  BY <1>1 DEF Rolling
<1> QED
  BY <1>6, <1>7, <1>8 DEF Rolling

\* The steps of the close itself.
LEMMA StepRolling ==
  ASSUME Regular, TableInv, TableInv', [Next]_vars, NEW j \in Jobs, OnTime(j), OnTime(j)', Rolling(j),
         Plan(j) \/ BeginDay(j) \/ DeleteDay(j) \/ InsertDay(j) \/ CountDay(j) \/ CommitDay(j)
         \/ EndRange(j)
  PROVE  Rolling(j)'
<1>0. /\ pc \in [ Jobs -> PCs ] /\ day \in [ Jobs -> Days \cup {NoDay} ]
      /\ todo \in [ Jobs -> SUBSET Days ] /\ ins \in [ Jobs -> SUBSET Row ]
      /\ facts \in [ Days -> [ Dims -> Nat ] ] /\ TypeInv /\ TypeInv'
      /\ opts' \in [ Jobs -> [ all: BOOLEAN, prev: BOOLEAN, month: Int,
                         close: BOOLEAN, from: Days \cup {NoDay},
                         to: Days \cup {NoDay} ] ]
  BY DEF TableInv, DayInv, TypeInv, TypeOK
<1>1. UNCHANGED facts
  BY DEF Plan, BeginDay, DeleteDay, InsertDay, CountDay, CommitDay, EndRange, envVars
<1>2. CASE Plan(j)
  <2>1. SUFFICES ASSUME opts'[j].close PROVE Rolling(j)'
    BY DEF Rolling
  <2>2. /\ pc'[j] \in { "loop", "exiting" }
        /\ pc'[j] = "loop" => todo'[j] = { d \in Asked(opts'[j]) : HasFacts(d) }
    BY <1>0, <1>2, <2>1, PlanResolves
  <2>3. opts'[j].all \in BOOLEAN
    BY <1>0
  <2>4. opts'[j].month = MonthOf(today) - 1 /\ Settled(MonthOf(today) - 1)
        /\ MonthOf(today) - 1 \in Nat
    BY <1>0, <1>2, <2>1, PlanResolves
  <2>5. opts'[j].month # NoMonth /\ Settled(opts'[j].month)
    BY <2>4 DEF NoMonth
  <2>6. ASSUME NEW d \in Days, MonthOf(d) = opts'[j].month, pc'[j] = "loop"
        PROVE  Current(d)' \/ d \in todo'[j]
    <3>1. CASE HasFacts(d)
      <4> DEFINE o == opts'[j]
      <4>1. o.all \in BOOLEAN /\ o.month # NoMonth /\ Settled(o.month) /\ MonthOf(d) = o.month
        BY <2>3, <2>5, <2>6
      <4> HIDE DEF o
      <4>2. d \in Asked(o)
        BY <1>0, <4>1, MonthAsked
      <4> QED
        BY <2>2, <2>6, <3>1, <4>2 DEF o
    <3>2. CASE ~HasFacts(d)
      BY <1>0, <1>1, <3>2 DEF HasFacts, Current
    <3> QED
      BY <3>1, <3>2
  <2> QED
    BY <2>2, <2>6 DEF Rolling, InTx, AfterInsert, MonthOf
<1>3. SUFFICES ASSUME ~Plan(j), opts[j].close PROVE Rolling(j)'
  <2>1. UNCHANGED opts \/ Plan(j)
    BY DEF BeginDay, DeleteDay, InsertDay, CountDay, CommitDay, EndRange, jobVars
  <2> QED
    BY <1>2, <1>3, <2>1 DEF Rolling
<1>4. opts' = opts
  BY <1>3 DEF BeginDay, DeleteDay, InsertDay, CountDay, CommitDay, EndRange, jobVars
<1>5. \A d \in Days : MonthOf(d) = opts[j].month => (Current(d) => Current(d)')
  <2>1. \A d \in Days : MonthOf(d) = opts[j].month => d + 1 < today
    BY <1>3, SettledDays DEF OnTime, TableInv, DayInv
  <2> QED
    BY <2>1, CurrentStays DEF Regular
<1>6. \A d : MonthOf(d)' = MonthOf(d)
  BY DEF MonthOf
<1>7. CASE BeginDay(j)
  <2>1. PICK e \in todo[j] : /\ day' = [ day EXCEPT ![j] = e ]
                             /\ todo' = [ todo EXCEPT ![j] = @ \ {e} ]
    BY <1>7 DEF BeginDay
  <2>2. pc[j] = "loop" /\ pc'[j] = "deleting" /\ day'[j] = e /\ todo'[j] = todo[j] \ {e}
    BY <1>0, <1>7, <2>1 DEF BeginDay, Goto
  <2>3. \A d \in Days : MonthOf(d) = opts[j].month => Current(d) \/ d \in todo[j]
    BY <1>3, <2>2 DEF Rolling, InTx
  <2> QED
    BY <1>4, <1>5, <2>2, <2>3 DEF Rolling, InTx, AfterInsert, MonthOf
<1>8. CASE DeleteDay(j) \/ CountDay(j)
  <2>1. /\ UNCHANGED << day, todo, ins >> /\ pc[j] \in InTx /\ pc'[j] \in InTx
        /\ pc'[j] \in AfterInsert => pc[j] \in AfterInsert
    BY <1>0, <1>8 DEF DeleteDay, CountDay, Goto, loopVars, txVars, InTx, AfterInsert
  <2>2. pc'[j] # "ranged"
    BY <2>1 DEF InTx
  <2>3. \A d \in Days : MonthOf(d) = opts[j].month => Current(d) \/ d \in todo[j] \/ d = day[j]
    BY <1>3, <2>1 DEF Rolling
  <2>4. pc[j] \in AfterInsert /\ MonthOf(day[j]) = opts[j].month =>
         \A g \in Dims : facts[day[j]][g] > 0 =>
           \E r \in ins[j] : r.dim = g /\ r.windows = facts[day[j]][g]
    BY <1>3 DEF Rolling
  <2> QED
    BY <1>1, <1>4, <1>5, <2>1, <2>2, <2>3, <2>4 DEF Rolling, MonthOf
<1>9. CASE InsertDay(j)
  <2>1. /\ UNCHANGED << day, todo >> /\ pc[j] \in InTx /\ pc'[j] \in InTx
        /\ pc'[j] # "ranged" /\ ins'[j] = Projection(day[j], j)
    BY <1>0, <1>9 DEF InsertDay, Goto, loopVars, InTx
  <2>2. \A d \in Days : MonthOf(d) = opts[j].month => Current(d) \/ d \in todo[j] \/ d = day[j]
    BY <1>3, <2>1 DEF Rolling
  <2>3. ASSUME NEW g \in Dims, facts[day[j]][g] > 0
        PROVE  \E r \in ins'[j] : r.dim = g /\ r.windows = facts[day[j]][g]
    <3> DEFINE r == [ day |-> day[j], dim |-> g, windows |-> facts[day[j]][g], by |-> j ]
    <3>1. r \in ins'[j]
      BY <2>1, <2>3 DEF Projection
    <3>2. r.dim = g /\ r.windows = facts[day[j]][g]
      OBVIOUS
    <3> QED
      BY <3>1, <3>2
  <2> QED
    BY <1>1, <1>4, <1>5, <2>1, <2>2, <2>3 DEF Rolling, MonthOf
<1>10. CASE CommitDay(j)
  <2>1. /\ UNCHANGED todo /\ pc[j] = "committing" /\ pc'[j] = "loop"
        /\ daily' = Committed(j)
    BY <1>0, <1>10 DEF CommitDay, Goto, loopVars
  <2>2. \A r \in ins[j] : r \in daily' /\ r.day = day[j]
    BY <2>1 DEF Committed, TableInv, DayInv, TxReplacesDay, ReplacesDay
  <2>3. ASSUME NEW e \in Days, e = day[j], MonthOf(e) = opts[j].month PROVE Current(e)'
    BY <1>1, <1>3, <2>1, <2>2, <2>3 DEF Rolling, AfterInsert, Current
  <2>4. \A d \in Days : MonthOf(d) = opts[j].month => Current(d) \/ d \in todo[j] \/ d = day[j]
    BY <1>3, <2>1 DEF Rolling, InTx
  <2>5. \A d \in Days : MonthOf(d) = opts[j].month => Current(d)' \/ d \in todo[j]
    BY <1>5, <2>3, <2>4
  <2> QED
    BY <1>4, <2>1, <2>5 DEF Rolling, InTx, AfterInsert, MonthOf
<1>11. CASE EndRange(j)
  <2>1. /\ UNCHANGED << todo, day, ins >> /\ pc[j] = "loop" /\ pc'[j] = "ranged" /\ todo[j] = {}
    BY <1>0, <1>11 DEF EndRange, Goto, loopVars, txVars
  <2>2. \A d \in Days : MonthOf(d) = opts[j].month => Current(d)
    BY <1>3, <2>1 DEF Rolling, InTx
  <2> QED
    BY <1>4, <1>5, <2>1, <2>2 DEF Rolling, InTx, AfterInsert, MonthOf
<1> QED
  BY <1>3, <1>7, <1>8, <1>9, <1>10, <1>11

LEMMA NextRolling ==
  ASSUME Regular, TableInv, TableInv', [Next]_vars, NEW j \in Jobs, OnTime(j), OnTime(j)', Rolling(j)
  PROVE  Rolling(j)'
<1> USE DEF Goto, Stop
<1>0. TypeInv /\ TypeOK /\ pc \in [ Jobs -> PCs ] /\ NoOrphan
  BY DEF TableInv, DayInv, TypeInv, TypeOK
<1>1. CASE Environment \/ UNCHANGED vars
  <2>1. UNCHANGED << pc[j], opts[j], todo[j], day[j], ins[j] >>
    BY <1>1 DEF Environment, NextDay, CollectorWrites, RelabelFact, vars, jobVars, loopVars, txVars
  <2> QED
    BY <2>1, FrameRolling
<1>2. ASSUME NEW i \in Jobs \ {j},
             RangeStep(i) \/ Finish(i) \/ MonthFails(i) \/ Outside(i) \/ Crash(i)
      PROVE  Rolling(j)'
  <2>1. UNCHANGED << pc[j], todo[j], day[j], ins[j] >>
    BY <1>0, <1>2, OthersFramed
  <2>2. opts'[j] = opts[j]
    <3>1. opts'[j] = opts[j] \/ Plan(j)
      BY <1>0, PcMoves
    <3>2. Plan(j) => pc'[j] # pc[j]
      BY <1>0 DEF Plan
    <3> QED
      BY <2>1, <3>1, <3>2
  <2> QED
    BY <2>1, <2>2, FrameRolling
<1>3. ASSUME \/ Plan(j) \/ BeginDay(j) \/ DeleteDay(j) \/ InsertDay(j) \/ CountDay(j)
             \/ CommitDay(j) \/ EndRange(j)
      PROVE  Rolling(j)'
  BY <1>3, StepRolling
<1>4. ASSUME Sigterm(j) PROVE Rolling(j)'
  <2>1. UNCHANGED << pc[j], opts[j], todo[j], day[j], ins[j] >>
    BY <1>4 DEF Sigterm, loopVars, txVars
  <2> QED
    BY <2>1, FrameRolling
<1>5. ASSUME \/ Invoke(j) \/ TakeLock(j) \/ LockIsHeld(j) \/ LockFails(j) \/ PlanFails(j)
             \/ DayFails(j) \/ StopCancelled(j) \/ Release(j) \/ Finish(j) \/ MonthFails(j)
             \/ Crash(j)
      PROVE  Rolling(j)'
  <2>1. pc'[j] \notin { "loop", "ranged" } \cup InTx
    BY <1>0, <1>5 DEF Invoke, TakeLock, LockIsHeld, LockFails, PlanFails, DayFails,
         StopCancelled, Release, Finish, MonthFails, Crash, Regular, NothingFails,
         NoLateCommit, InTx
  <2> QED
    BY <2>1 DEF Rolling, AfterInsert, InTx
<1>6. ~OrphanCommits(j) /\ ~LoseLockSession(j)
  BY <1>0 DEF OrphanCommits, LoseLockSession, NoOrphan, Regular, SessionKept
<1> QED
  BY <1>1, <1>2, <1>3, <1>4, <1>5, <1>6 DEF Next, RangeStep, Outside

-----------------------------------------------------------------------------
(* RunMonth follows the range                                              *)

Late == { "ranged", "exiting", "done", "dead" }

\* Where RunMonth's control is, and where the job's.
Phase(j) ==
  /\ mpc[j] # "none" => HasMonth(j) /\ pc[j] \in Late
  /\ pending[j] # {} => pc[j] = "ranged"
  /\ mpc[j] = "closing" => opts[j].close
  /\ code[j] = "ok" => /\ pc[j] \in Late \ {"ranged"}
                       /\ HasMonth(j) => mpc[j] = "closed"

\* Past its range a job only ends, with the flags it has; it exits 0 by its
\* last lines only.
LEMMA LateStays ==
  ASSUME TypeInv, NoOrphan, [Next]_vars, NEW k \in Jobs
  PROVE  /\ pc[k] \in Late => pc'[k] \in Late /\ opts'[k] = opts[k]
         /\ pc[k] \in Late \ {"ranged"} => pc'[k] \in Late \ {"ranged"}
         /\ code'[k] = "ok" => code[k] = "ok" \/ Finish(k)
<1> USE DEF Goto, Stop
<1>0. pc \in [ Jobs -> PCs ] /\ code \in [ Jobs -> { "none", "held", "ok", "error" } ]
  BY DEF TypeInv, TypeOK
<1>1. CASE Environment \/ UNCHANGED vars
  BY <1>1 DEF Environment, NextDay, CollectorWrites, RelabelFact, vars, jobVars
<1>2. ASSUME NEW j \in Jobs \ {k},
             RangeStep(j) \/ Finish(j) \/ MonthFails(j) \/ Outside(j) \/ Crash(j)
      PROVE  UNCHANGED << pc[k], code[k] >>
  BY <1>2, OthersFramed
<1>3. CASE Invoke(k) \/ TakeLock(k) \/ LockIsHeld(k) \/ LockFails(k) \/ Plan(k) \/ PlanFails(k)
  BY <1>0, <1>3 DEF Invoke, TakeLock, LockIsHeld, LockFails, Plan, PlanFails, Late, jobVars
<1>4. CASE BeginDay(k) \/ DeleteDay(k) \/ InsertDay(k) \/ CountDay(k) \/ CommitDay(k) \/ DayFails(k)
  BY <1>0, <1>4 DEF BeginDay, DeleteDay, InsertDay, CountDay, CommitDay, DayFails, Late,
       InTx, jobVars
<1>5. CASE StopCancelled(k) \/ EndRange(k) \/ Release(k) \/ Finish(k) \/ MonthFails(k)
  BY <1>0, <1>5 DEF StopCancelled, EndRange, Release, Finish, MonthFails, Late, jobVars
<1>6. CASE Outside(k) \/ Crash(k)
  BY <1>0, <1>6 DEF Outside, Sigterm, OrphanCommits, LoseLockSession, Crash, Late, Holding,
       InTx, jobVars, NoOrphan
<1>7. CASE RangeStep(k)
  BY <1>3, <1>4, <1>5, <1>7 DEF RangeStep
<1>8. pc[k] \in Late => opts'[k] = opts[k]
  BY PcMoves DEF Plan, Late
<1> QED
  BY <1>1, <1>2, <1>5, <1>6, <1>7, <1>8 DEF Next

LEMMA NextPhase ==
  ASSUME NoLateCommit, NotByHand, MonthInv, NoOrphan, [MonthNext]_mvars, NEW k \in Jobs, Phase(k)
  PROVE  Phase(k)'
<1> USE DEF Goto, Stop, GotoMonth
<1>0. /\ TypeInv /\ pc \in [ Jobs -> PCs ] /\ code \in [ Jobs -> { "none", "held", "ok", "error" } ]
      /\ mpc \in [ Jobs -> { "none", "generated", "closing", "closed" } ]
      /\ pending \in [ Jobs -> SUBSET Statement ] /\ [Next]_vars
      /\ mpc[k] # "generated" => pending[k] = {}
  BY MonthNextRefines DEF MonthInv, MonthTypeOK, LocksKept, TypeInv, TypeOK
<1>1. /\ pc[k] \in Late => pc'[k] \in Late /\ opts'[k] = opts[k]
      /\ pc[k] \in Late \ {"ranged"} => pc'[k] \in Late \ {"ranged"}
      /\ code'[k] = "ok" => code[k] = "ok" \/ Finish(k)
  BY <1>0, LateStays
<1>2. CASE GenerateMonth(k) \/ CommitMonth(k) \/ FinaliseMonth(k)
  <2>1. UNCHANGED << pc, code, opts >>
    BY <1>2 DEF GenerateMonth, CommitMonth, FinaliseMonth, vars, jobVars
  <2>2. pc[k] = "ranged" /\ HasMonth(k)
    BY <1>2 DEF GenerateMonth, CommitMonth, FinaliseMonth, InMonth
  <2>3. code[k] # "ok"
    BY <2>2 DEF Phase
  <2>4. mpc'[k] = "closing" => opts[k].close
    BY <1>0, <1>2 DEF GenerateMonth, CommitMonth, FinaliseMonth
  <2> QED
    BY <2>1, <2>2, <2>3, <2>4 DEF Phase, HasMonth, Late
<1>3. CASE RunMonthFails(k) \/ CrashJob(k)
  <2>1. pending'[k] = {} /\ mpc'[k] = mpc[k]
    BY <1>0, <1>3 DEF RunMonthFails, CrashJob
  <2>2. code'[k] = "ok" => code[k] = "ok"
    BY <1>0, <1>3 DEF RunMonthFails, CrashJob, MonthFails, Crash, jobVars
  <2> QED
    BY <1>1, <2>1, <2>2 DEF Phase, HasMonth
<1>4. CASE FinishRun(k)
  <2>1. mpc'[k] = mpc[k] /\ pending'[k] = pending[k] /\ pc'[k] = "exiting" /\ pc[k] = "ranged"
    BY <1>0, <1>4 DEF FinishRun, Finish, monthVars
  <2>2. ~HasMonth(k) \/ mpc[k] = "closed"
    BY <1>4 DEF FinishRun
  <2>3. pending[k] = {}
    BY <1>0, <2>2 DEF Phase
  <2> QED
    BY <1>1, <2>1, <2>2, <2>3 DEF Phase, HasMonth, Late
<1>5. CASE RefuseFinalise(k)
  <2>1. mpc'[k] = mpc[k] /\ pending'[k] = {} /\ code'[k] = "error"
    BY <1>0, <1>5 DEF RefuseFinalise, InMonth, MonthFails, monthVars
  <2> QED
    BY <1>1, <2>1 DEF Phase, HasMonth
<1>6. ASSUME mpc'[k] = mpc[k], pending'[k] = pending[k], ~Finish(k), pc[k] = "ranged" => pc'[k] = "ranged"
      PROVE  Phase(k)'
  BY <1>1, <1>6 DEF Phase, HasMonth
<1>7. CASE RangeOrOutside(k)
  <2>1. UNCHANGED << mpc, pending >> /\ ~Finish(k) /\ (pc[k] = "ranged" => pc'[k] = "ranged")
    BY <1>0, <1>7 DEF RangeOrOutside, monthVars, RangeStep, Invoke, TakeLock, LockIsHeld,
       LockFails, Plan, PlanFails, BeginDay, DeleteDay, InsertDay, CountDay, CommitDay,
       DayFails, StopCancelled, EndRange, Release, Outside, Sigterm, OrphanCommits,
       LoseLockSession, Finish, InTx
  <2> QED
    BY <1>6, <2>1
<1>8. CASE UNCHANGED mvars \/ (Environment /\ UNCHANGED monthVars)
  <2>1. UNCHANGED << mpc, pending, pc >>
    BY <1>8 DEF mvars, vars, monthVars, Environment, NextDay, CollectorWrites, RelabelFact
  <2> QED
    BY <1>0, <1>6, <2>1 DEF Finish
<1>9. ASSUME NEW j \in Jobs \ {k}, RangeOrOutside(j) \/ MonthStep(j) \/ CrashJob(j)
      PROVE  Phase(k)'
  <2>1. UNCHANGED << mpc[k], pending[k] >>
    BY <1>0, <1>9 DEF RangeOrOutside, CrashJob, MonthStep, GenerateMonth, CommitMonth,
       FinaliseMonth, RefuseFinalise, RunMonthFails, FinishRun, monthVars
  <2>2. \/ UNCHANGED pc
        \/ RangeStep(j) \/ Finish(j) \/ MonthFails(j) \/ Outside(j) \/ Crash(j)
    BY <1>9 DEF RangeOrOutside, CrashJob, MonthStep, GenerateMonth, CommitMonth,
       FinaliseMonth, RefuseFinalise, RunMonthFails, FinishRun, vars
  <2>3. UNCHANGED pc[k]
    BY <1>0, <1>9, <2>2, OthersFramed
  <2>4. ~Finish(k)
    BY <1>0, <2>3 DEF Finish
  <2> QED
    BY <1>6, <2>1, <2>3, <2>4
<1>10. ~ \E h \in Keys : UnFinalise(h) \/ OperatorUpdates(h) \/ OperatorDeletes(h)
  BY DEF NotByHand, UnFinalise, OperatorUpdates, OperatorDeletes
<1> QED
  BY <1>2, <1>3, <1>4, <1>5, <1>7, <1>8, <1>9, <1>10 DEF MonthNext, MonthStep

-----------------------------------------------------------------------------
(* The statements                                                          *)

\* What an upsert will commit, and has committed: the statements that add up,
\* and for a close the right ones.
Stating(j) ==
  /\ \A w \in pending[j] : w.rows # {} /\ KnownRows(w.rows, w.key)
  /\ pc[j] = "ranged" /\ mpc[j] = "generated" =>
       /\ AddsUp(Apply(pending[j]))
       /\ opts[j].close => Ready(Apply(pending[j]), opts[j].month)
  /\ pc[j] = "ranged" /\ mpc[j] = "closing" => Ready(stated, opts[j].month)
  /\ mpc[j] = "closed" /\ opts[j].close => Sealed(opts[j].month)

\* Statements f that are right of a settled month stay right.
LEMMA ReadyStays ==
  ASSUME NoLateCommit, LabelsKept, DayInv, [Next]_vars, NEW m, Settled(m),
         NEW f \in [ Keys -> SUBSET Row ], Ready(f, m)
  PROVE  Ready(f, m)'
<1>1. ASSUME NEW k \in KeysOf(m) PROVE Exact(f[k], k)'
  <2> DEFINE rows == f[k]
  <2>1. rows \in SUBSET Row /\ k.month = m /\ Exact(rows, k)
    BY DEF KeysOf, Ready
  <2> HIDE DEF rows
  <2>2. Exact(rows, k)'
    BY <2>1, ExactStays
  <2> QED
    BY <2>2 DEF rows
<1> QED
  BY <1>1 DEF Ready, KeysOf, Keys, Months, MonthOf, Scopes, Namespaces, Teams

\* A month whose statements are all right and frozen stays closed.
LEMMA SealedBy ==
  ASSUME NoLateCommit, LabelsKept, TableInv, TableInv', MonthTypeOK, [Next]_vars,
         NEW m \in Int, Settled(m), MonthCurrent(m), Ready(stated, m),
         \A k \in KeysOf(m) : stated'[k] = stated[k] /\ (stated[k] # {} => k \in final')
  PROVE  Sealed(m)'
<1>1. Settled(m)' /\ MonthCurrent(m)'
  BY SettledStays, MonthCurrentStays DEF TableInv, DayInv
<1>2. ASSUME NEW f, f = stated PROVE Ready(stated, m)'
  <2>1. f \in [ Keys -> SUBSET Row ] /\ Ready(f, m)
    BY <1>2 DEF MonthTypeOK
  <2>2. Ready(f, m)'
    BY <2>1, ReadyStays DEF TableInv
  <2>3. \A k \in KeysOf(m) : stated'[k] = f[k]
    BY <1>2
  <2>4. \A k \in KeysOf(m) : Exact(f[k], k)'
    BY <2>2 DEF Ready, KeysOf, Keys, Months, MonthOf, Scopes, Namespaces, Teams
  <2>5. ASSUME NEW k \in KeysOf(m) PROVE Exact(stated[k], k)'
    BY <2>3, <2>4, <2>5 DEF Exact
  <2> QED
    BY <2>5 DEF Ready, KeysOf, Keys, Months, MonthOf, Scopes, Namespaces, Teams
<1>3. Ready(stated, m)'
  BY <1>2
<1>4. \A k \in KeysOf(m) : stated'[k] # {} => k \in final'
  OBVIOUS
<1> QED
  BY <1>1, <1>3, <1>4 DEF Sealed, KeysOf, Keys, Months, MonthOf, Scopes, Namespaces, Teams

LEMMA SealedStays ==
  ASSUME NoLateCommit, LabelsKept, TableInv, TableInv', MonthTypeOK, [Next]_vars,
         NEW m \in Int, Sealed(m),
         \A k \in KeysOf(m) : stated'[k] = stated[k] /\ (k \in final => k \in final')
  PROVE  Sealed(m)'
BY SealedBy DEF Sealed

\* A row an upsert writes is not one of a closed month.
LEMMA PendingSpares ==
  ASSUME TableInv, MonthInv, NEW j \in Jobs, Stating(j), NEW m, Sealed(m), NEW w \in pending[j]
  PROVE  w.key.month # m
<1>1. SUFFICES ASSUME w.key.month = m PROVE FALSE
  OBVIOUS
<1>2. w.key \in Keys /\ w.key \notin final
  BY DEF MonthInv, MonthTypeOK, Statement, LocksKept, Locked
<1>3. w.key \in KeysOf(m)
  BY <1>1, <1>2 DEF KeysOf
<1>4. Scoped(w.key) = {}
  BY <1>2, <1>3, SealedGeneratesNothing
<1>5. Scoped(w.key) # {}
  BY ListedCounts DEF Stating
<1> QED
  BY <1>4, <1>5

\* The rows of a statement after an upsert.
LEMMA ApplyRows ==
  ASSUME NEW W, NEW k \in Keys
  PROVE  Apply(W)[k] = stated[k] \/ \E w \in W : w.key = k /\ Apply(W)[k] = w.rows
<1>1. ASSUME \E w \in W : w.key = k
      PROVE  LET u == CHOOSE w \in W : w.key = k IN u \in W /\ u.key = k
  BY <1>1
<1> QED
  BY <1>1 DEF Apply

\* What the statement in flight of a job does to the statements.
Outcome(i) ==
  \/ UNCHANGED << stated, final >>
  \/ InMonth(i, "generated") /\ stated' = Apply(pending[i]) /\ UNCHANGED final
  \/ /\ InMonth(i, "closing")
     /\ final' = final \cup Provisional(opts[i].month)
     /\ UNCHANGED stated

\* What a close freezes is complete.
LEMMA FreezeSeals ==
  ASSUME Regular, TableInv, TableInv', MonthInv, [Next]_vars, NEW i \in Jobs,
         OnTime(i), Rolling(i), Phase(i), Stating(i), InMonth(i, "closing"),
         final' = final \cup Provisional(opts[i].month), UNCHANGED stated
  PROVE  Sealed(opts[i].month)'
<1> DEFINE m == opts[i].month
<1>1. m \in Int
  BY DEF TableInv, DayInv, TypeInv, TypeOK
<1>2. pc[i] = "ranged" /\ mpc[i] = "closing" /\ opts[i].close
  BY DEF InMonth, Phase
<1>3. Settled(m) /\ Ready(stated, m)
  BY <1>2 DEF OnTime, Stating
<1>4. MonthCurrent(m)
  BY <1>2 DEF Rolling, MonthCurrent, InTx
<1>5. \A k \in KeysOf(m) : stated'[k] = stated[k] /\ (stated[k] # {} => k \in final')
  BY DEF Provisional
<1>6. opts'[i] = opts[i]
  BY <1>2, LateStays DEF Late, TableInv, DayInv
<1> HIDE DEF m
<1>7. ASSUME NEW n \in Int, n = m PROVE Sealed(n)'
  BY <1>3, <1>4, <1>5, <1>7, SealedBy DEF Regular, MonthInv
<1> QED
  BY <1>1, <1>6, <1>7 DEF m, Sealed, Settled, FinalDay, MonthCurrent, Ready, KeysOf

LEMMA OutcomeSealed ==
  ASSUME Regular, TableInv, TableInv', MonthInv, [Next]_vars, NEW i \in Jobs,
         Stating(i), Outcome(i), NEW m \in Int, Sealed(m)
  PROVE  Sealed(m)'
<1>1. stated \in [ Keys -> SUBSET Row ] /\ pending[i] \in SUBSET Statement
  BY DEF MonthInv, MonthTypeOK
<1>2. ASSUME NEW k \in KeysOf(m) PROVE stated'[k] = stated[k]
  <2>1. k \in Keys /\ k.month = m
    BY DEF KeysOf
  <2>2. \A w \in pending[i] : w.key # k
    BY <2>1, PendingSpares
  <2>3. Apply(pending[i])[k] = stated[k]
    BY <1>1, <2>1, <2>2, ApplyType
  <2> QED
    BY <2>3 DEF Outcome
<1>3. final \subseteq final'
  BY DEF Outcome
<1> QED
  BY <1>2, <1>3, SealedStays DEF Regular, MonthInv

LEMMA AddsUpCommitted ==
  ASSUME NEW f, AddsUp(f), stated' = f PROVE AddsUp(stated)'
  BY DEF AddsUp, MonthAddsUp, KeysOf, Keys, Months, MonthOf, Scopes, Namespaces, Teams

\* Whatever becomes of a statement in flight, the statements are in order.
LEMMA OutcomeStated ==
  ASSUME Regular, TableInv, TableInv', MonthInv, StatedInv, [Next]_vars, NEW i \in Jobs,
         OnTime(i), Rolling(i), Phase(i), Stating(i), Outcome(i)
  PROVE  StatedInv'
<1>1. ASSUME NEW k \in Keys PROVE KnownRows(stated[k], k)'
  <2>1. ASSUME NEW rows, KnownRows(rows, k), stated'[k] = rows PROVE KnownRows(stated[k], k)'
    <3>1. KnownRows(rows, k)'
      BY <2>1, KnownStays DEF Regular
    <3> QED
      BY <2>1, <3>1 DEF KnownRows
  <2>2. KnownRows(stated[k], k)
    BY DEF StatedInv
  <2>3. \A w \in pending[i] : KnownRows(w.rows, w.key)
    BY DEF Stating
  <2>4. CASE stated'[k] = stated[k]
    BY <2>1, <2>2, <2>4
  <2>5. CASE stated'[k] # stated[k]
    <3>1. stated' = Apply(pending[i])
      BY <2>5 DEF Outcome
    <3>2. PICK w \in pending[i] : w.key = k /\ stated'[k] = w.rows
      BY <2>5, <3>1, ApplyRows
    <3>3. KnownRows(w.rows, k)
      BY <2>3, <3>2
    <3> QED
      BY <2>1, <3>2, <3>3
  <2> QED
    BY <2>4, <2>5
<1>2. ASSUME NEW k \in final' PROVE Sealed(k.month)'
  <2>1. k \in Keys /\ \A m \in Months : m \in Int
    <3>1. final' \subseteq Keys
      BY DEF Outcome, Provisional, KeysOf, MonthInv, MonthTypeOK
    <3>2. \A d \in Days : MonthOf(d) \in Int
      BY MonthOfType DEF Days
    <3> QED
      BY <3>1, <3>2 DEF Months
  <2>2. k.month \in Int
    BY <2>1 DEF Keys
  <2>3. CASE k \in final
    <3>1. Sealed(k.month)
      BY <2>3 DEF StatedInv
    <3> QED
      BY <2>2, <3>1, OutcomeSealed
  <2>4. CASE k \notin final
    <3>1. /\ InMonth(i, "closing") /\ UNCHANGED stated
          /\ final' = final \cup Provisional(opts[i].month)
      BY <2>4 DEF Outcome
    <3>2. k.month = opts[i].month
      BY <2>4, <3>1 DEF Provisional, KeysOf
    <3>3. Sealed(opts[i].month)'
      BY <3>1, FreezeSeals
    <3>4. opts'[i] = opts[i]
      BY <3>1, LateStays DEF Late, InMonth, TableInv, DayInv
    <3> QED
      BY <3>2, <3>3, <3>4 DEF Sealed, Settled, FinalDay, MonthCurrent, Ready, KeysOf
  <2> QED
    BY <2>3, <2>4
<1>3. AddsUp(stated)'
  <2>1. AddsUp(stated)
    BY DEF StatedInv
  <2>2. CASE UNCHANGED stated
    BY <2>1, <2>2, AddsUpCommitted
  <2>3. CASE InMonth(i, "generated") /\ stated' = Apply(pending[i])
    <3>1. AddsUp(Apply(pending[i]))
      BY <2>3 DEF Stating, InMonth
    <3> QED
      BY <2>3, <3>1, AddsUpCommitted
  <2> QED
    BY <2>2, <2>3 DEF Outcome
<1> QED
  BY <1>1, <1>2, <1>3 DEF StatedInv, Keys, Months, MonthOf, Scopes, Namespaces, Teams

\* A step that is none of RunMonth's of job j, or ends it.
LEMMA FrameStating ==
  ASSUME Regular, TableInv, TableInv', MonthInv, [Next]_vars, NEW j \in Jobs,
         OnTime(j), Phase(j), Stating(j), mpc'[j] = mpc[j],
         pending'[j] = pending[j] \/ pending'[j] = {},
         pc'[j] = "ranged" => pending'[j] = pending[j] /\ UNCHANGED stated,
         \A m \in Int : Sealed(m) => Sealed(m)'
  PROVE  Stating(j)'
<1>0. /\ opts[j].month \in Int /\ stated \in [ Keys -> SUBSET Row ]
      /\ pending[j] \in SUBSET Statement /\ TypeInv /\ NoOrphan /\ DayInv
  BY DEF TableInv, DayInv, TypeInv, TypeOK, MonthInv, MonthTypeOK
<1>1. mpc[j] # "none" => opts'[j] = opts[j] /\ pc[j] \in Late
  BY <1>0, LateStays DEF Phase
<1>2. \A w \in pending'[j] : w.rows # {} /\ KnownRows(w.rows, w.key)'
  BY KnownStays DEF Stating, Regular
<1>3. ASSUME pc'[j] = "ranged", mpc[j] # "none" PROVE pc[j] = "ranged"
  BY <1>0, <1>1, <1>3, PcMoves DEF Late
<1>4. ASSUME pc'[j] = "ranged", mpc[j] = "generated"
      PROVE  AddsUp(Apply(pending[j]))' /\ (opts'[j].close => Ready(Apply(pending[j]), opts[j].month)')
  <2>1. pc[j] = "ranged" /\ UNCHANGED << stated, pending[j], opts[j] >>
    BY <1>1, <1>3, <1>4
  <2> DEFINE f == Apply(pending[j])
             n == opts[j].month
  <2>2. f \in [ Keys -> SUBSET Row ] /\ AddsUp(f) /\ (opts[j].close => Settled(n) /\ Ready(f, n))
    BY <1>0, <1>4, <2>1, ApplyType DEF Stating, OnTime
  <2>3. f' = f
    BY <2>1 DEF Apply, Keys, Months, MonthOf, Scopes, Namespaces, Teams
  <2>4. n' = n
    BY <2>1
  <2> HIDE DEF f, n
  <2>5. opts[j].close => \A h, m : h = f /\ m = n => Ready(h, m)'
    BY <1>0, <2>2, ReadyStays DEF Regular
  <2>6. opts[j].close => Ready(f, n)'
    BY <2>3, <2>4, <2>5 DEF Ready, KeysOf, Exact
  <2>7. AddsUp(f)'
    BY <2>2, <2>3 DEF AddsUp, MonthAddsUp, KeysOf, Keys, Months, MonthOf, Scopes, Namespaces, Teams
  <2> QED
    BY <2>1, <2>6, <2>7 DEF f, n
<1>5. ASSUME pc'[j] = "ranged", mpc[j] = "closing"
      PROVE  Ready(stated, opts[j].month)'
  <2>1. pc[j] = "ranged" /\ UNCHANGED << stated, opts[j] >>
    BY <1>1, <1>3, <1>5
  <2> DEFINE n == opts[j].month
  <2>2. Settled(n) /\ Ready(stated, n) /\ n' = n
    BY <1>5, <2>1 DEF Stating, OnTime, Phase
  <2> HIDE DEF n
  <2>5. \A h, m : h = stated /\ m = n => Ready(h, m)'
    BY <1>0, <2>2, ReadyStays DEF Regular
  <2>6. Ready(stated, n)'
    BY <2>1, <2>2, <2>5 DEF Ready, KeysOf, Exact
  <2> QED
    BY <2>6 DEF n
<1>6. ASSUME mpc[j] = "closed", opts'[j].close PROVE Sealed(opts[j].month)'
  <2>1. opts'[j] = opts[j]
    BY <1>1, <1>6
  <2> DEFINE n == opts[j].month
  <2>2. n \in Int /\ Sealed(n) /\ n' = n
    BY <1>0, <1>6, <2>1 DEF Stating
  <2> HIDE DEF n
  <2>3. \A m : m = n => Sealed(m)'
    BY <2>2
  <2>4. Sealed(n)'
    BY <2>2, <2>3 DEF Sealed, Settled, FinalDay, MonthCurrent, Ready, KeysOf
  <2> QED
    BY <2>4 DEF n
<1> QED
  BY <1>2, <1>4, <1>5, <1>6 DEF Stating

\* The steps of RunMonth.
LEMMA GenerateStating ==
  ASSUME Regular, TableInv, MonthInv, StatedInv, [Next]_vars, NEW j \in Jobs,
         OnTime(j), Rolling(j), GenerateMonth(j)
  PROVE  Stating(j)'
<1> DEFINE m == opts[j].month
           W == Upsert(m)
<1>0. /\ pending' = [ pending EXCEPT ![j] = W ] /\ mpc' = [ mpc EXCEPT ![j] = "generated" ]
      /\ UNCHANGED << vars, stated, final >> /\ InMonth(j, "none")
  BY DEF GenerateMonth, GotoMonth
<1>1. pending'[j] = W /\ mpc'[j] = "generated" /\ UNCHANGED << pc, opts, daily, facts, stated >>
  BY <1>0 DEF MonthInv, MonthTypeOK, vars, envVars, jobVars
<1>2. ASSUME NEW w \in W PROVE w.rows # {} /\ KnownRows(w.rows, w.key)
  <2>1. PICK k \in KeysOf(m) : w = [ key |-> k, rows |-> Scoped(k) ] /\ Scoped(k) # {}
    BY <1>2 DEF Upsert
  <2>2. w.key = k /\ w.rows = Scoped(k)
    BY <2>1
  <2> QED
    BY <2>1, <2>2 DEF KnownRows, Scoped, Listed
<1>3. AddsUp(Apply(W))
  BY UpsertAddsUp DEF MonthInv
<1>4. opts[j].close => MonthCurrent(m)
  BY <1>0 DEF Rolling, MonthCurrent, InTx, InMonth
<1>5. opts[j].close => Ready(Apply(W), m)
  BY <1>4, UpsertReady DEF MonthInv
<1>6. m' = m
  BY <1>1
<1> HIDE DEF m, W
<1> DEFINE f == Apply(W)
<1>7. Apply(pending[j])' = f
  BY <1>1 DEF Apply, Keys, Months, MonthOf, Scopes, Namespaces, Teams
<1>8. AddsUp(f) /\ (opts[j].close => Ready(f, m))
  BY <1>3, <1>5
<1> HIDE DEF f
<1>9. \A w \in pending'[j] : w.rows # {} /\ KnownRows(w.rows, w.key)'
  BY <1>1, <1>2 DEF KnownRows, Listed, MonthOf, InScope
<1>10. AddsUp(Apply(pending[j]))'
  BY <1>7, <1>8 DEF AddsUp, MonthAddsUp, KeysOf, Keys, Months, MonthOf, Scopes, Namespaces, Teams
<1>11. opts'[j].close => Ready(Apply(pending[j]), m)'
  BY <1>1, <1>6, <1>7, <1>8
     DEF Ready, Exact, FactsInScope, InScope, KeysOf, Keys, Months, MonthOf, Scopes, Namespaces, Teams
<1> QED
  BY <1>1, <1>9, <1>10, <1>11 DEF Stating, m

LEMMA CommitStating ==
  ASSUME Regular, TableInv, MonthInv, StatedInv, [Next]_vars, NEW j \in Jobs,
         OnTime(j), Stating(j), CommitMonth(j)
  PROVE  Stating(j)'
<1> DEFINE n == opts[j].month
           f == Apply(pending[j])
<1>1. /\ pending'[j] = {} /\ mpc'[j] = (IF opts[j].close THEN "closing" ELSE "closed")
      /\ UNCHANGED << pc, opts, facts >> /\ stated' = f
      /\ pc[j] = "ranged" /\ mpc[j] = "generated"
  BY DEF CommitMonth, GotoMonth, InMonth, MonthInv, MonthTypeOK, vars, envVars, jobVars
<1>2. (opts[j].close => Ready(f, n)) /\ n' = n
  BY <1>1 DEF Stating
<1> HIDE DEF n, f
<1>3. opts[j].close => Ready(stated, n)'
  BY <1>1, <1>2
     DEF Ready, Exact, FactsInScope, InScope, KeysOf, Keys, Months, MonthOf, Scopes, Namespaces, Teams
<1> QED
  BY <1>1, <1>3 DEF Stating, n

LEMMA FinaliseStating ==
  ASSUME Regular, TableInv, TableInv', MonthInv, [Next]_vars, NEW j \in Jobs,
         OnTime(j), Rolling(j), Phase(j), Stating(j), FinaliseMonth(j)
  PROVE  Stating(j)'
<1>1. /\ InMonth(j, "closing") /\ final' = final \cup Provisional(opts[j].month)
      /\ UNCHANGED << stated, pending >> /\ pending[j] = {} /\ mpc'[j] = "closed"
  BY DEF FinaliseMonth, InMonth, GotoMonth, MonthInv, MonthTypeOK, LocksKept
<1>2. Sealed(opts[j].month)'
  BY <1>1, FreezeSeals
<1> QED
  BY <1>1, <1>2 DEF Stating

\* The rollup backs the statements, and each job is where its flags and the
\* statements say.
CloseInv ==
  /\ TableInv /\ MonthInv /\ StatedInv
  /\ \A j \in Jobs : OnTime(j) /\ Rolling(j) /\ Phase(j) /\ Stating(j)

LEMMA NextClose == ASSUME Regular, CloseInv, [MonthNext]_mvars PROVE CloseInv'
<1> USE DEF CloseInv
<1>0. /\ [Next]_vars /\ NoOrphan /\ TypeInv /\ pc \in [ Jobs -> PCs ]
      /\ pending \in [ Jobs -> SUBSET Statement ]
      /\ mpc \in [ Jobs -> { "none", "generated", "closing", "closed" } ]
  BY MonthNextRefines DEF TableInv, DayInv, MonthInv, MonthTypeOK, TypeInv, TypeOK
<1>1. TableInv' /\ MonthInv'
  <2>1. DayInv'
    BY <1>0, NextDayInv DEF Regular, TableInv
  <2>2. Growing'
    BY <1>0, <2>1, NextGrowing DEF Regular, TableInv
  <2> QED
    BY <2>1, <2>2, NextMonthInv DEF TableInv
<1>2. ASSUME NEW j \in Jobs PROVE OnTime(j)' /\ Rolling(j)' /\ Phase(j)'
  <2>1. OnTime(j)'
    BY <1>0, NextOnTime
  <2>2. Rolling(j)'
    BY <1>0, <1>1, <2>1, NextRolling
  <2>3. Phase(j)'
    BY <1>0, NextPhase DEF Regular
  <2> QED
    BY <2>1, <2>2, <2>3
<1>3. ASSUME NEW i \in Jobs, Outcome(i),
             \A j \in Jobs : Stating(j)' \/
               /\ mpc'[j] = mpc[j]
               /\ pending'[j] = pending[j] \/ pending'[j] = {}
               /\ pc'[j] = "ranged" => pending'[j] = pending[j] /\ UNCHANGED stated
      PROVE  CloseInv'
  <2>1. \A m \in Int : Sealed(m) => Sealed(m)'
    BY <1>0, <1>1, <1>3, OutcomeSealed
  <2>2. StatedInv'
    BY <1>0, <1>1, <1>3, OutcomeStated
  <2>3. ASSUME NEW j \in Jobs PROVE Stating(j)'
    BY <1>0, <1>1, <1>3, <2>1, FrameStating
  <2> QED
    BY <1>1, <1>2, <2>2, <2>3

\* While job i is in RunMonth, no other job is past its range.
<1>4. ASSUME NEW i \in Jobs, pc[i] = "ranged", NEW j \in Jobs \ {i} PROVE pc[j] # "ranged"
  BY <1>4 DEF TableInv, DayInv, LockOwned, Holding
<1>5. ASSUME NEW i \in Jobs, GenerateMonth(i) PROVE CloseInv'
  <2>1. Outcome(i) /\ Stating(i)'
    BY <1>0, <1>5, GenerateStating DEF GenerateMonth, Outcome
  <2>2. \A j \in Jobs \ {i} : UNCHANGED << mpc[j], pending[j] >>
    BY <1>0, <1>5 DEF GenerateMonth, GotoMonth
  <2>3. UNCHANGED stated
    BY <1>5 DEF GenerateMonth
  <2> QED
    BY <1>3, <2>1, <2>2, <2>3
<1>6. ASSUME NEW i \in Jobs, CommitMonth(i) \/ FinaliseMonth(i) PROVE CloseInv'
  <2>1. Outcome(i) /\ Stating(i)'
    BY <1>0, <1>1, <1>6, CommitStating, FinaliseStating DEF CommitMonth, FinaliseMonth, Outcome
  <2>2. \A j \in Jobs \ {i} : UNCHANGED << mpc[j], pending[j] >>
    BY <1>0, <1>6 DEF CommitMonth, FinaliseMonth, GotoMonth
  <2>3. UNCHANGED pc /\ pc[i] = "ranged"
    BY <1>6 DEF CommitMonth, FinaliseMonth, InMonth, vars
  <2>4. \A j \in Jobs \ {i} : pc'[j] # "ranged"
    BY <1>4, <2>3
  <2> QED
    BY <1>3, <2>1, <2>2, <2>4
<1>7. ASSUME NEW i \in Jobs, RunMonthFails(i) \/ CrashJob(i) PROVE CloseInv'
  <2>1. InFlight(i) /\ pending' = [ pending EXCEPT ![i] = {} ] /\ UNCHANGED mpc
    BY <1>7 DEF RunMonthFails, CrashJob
  <2>2. Outcome(i)
    BY <2>1 DEF InFlight, Outcome
  <2>3. pc'[i] # "ranged"
    BY <1>0, <1>7 DEF RunMonthFails, CrashJob, MonthFails, Crash, Goto, Stop
  <2>4. \A j \in Jobs \ {i} : pc'[j] = pc[j]
    BY <1>0, <1>7, OthersFramed DEF RunMonthFails, CrashJob
  <2>5. UNCHANGED stated \/ pc[i] = "ranged"
    BY <2>1 DEF InFlight, InMonth
  <2>6. \A j \in Jobs \ {i} : pending'[j] = pending[j]
    BY <1>0, <2>1
  <2>7. pending'[i] = {}
    BY <1>0, <2>1
  <2> QED
    BY <1>3, <1>4, <2>1, <2>2, <2>3, <2>4, <2>5, <2>6, <2>7
<1>8. ASSUME UNCHANGED monthVars PROVE CloseInv'
  <2>1. CASE Jobs = {}
    <3>1. \A k \in Keys : stated'[k] = {}
      BY <1>8, <2>1 DEF MonthInv, MonthTypeOK, Row, monthVars
    <3>2. final' = {}
      BY <1>8, <3>1 DEF MonthInv, MonthTypeOK, monthVars
    <3>3. AddsUp(stated)'
      BY <1>8, AddsUpCommitted DEF StatedInv, monthVars
    <3>4. StatedInv'
      BY <3>1, <3>2, <3>3
         DEF StatedInv, KnownRows, Keys, Months, MonthOf, Scopes, Namespaces, Teams
    <3> QED
      BY <1>1, <2>1, <3>4
  <2>2. ASSUME NEW i \in Jobs PROVE CloseInv'
    BY <1>3, <1>8 DEF Outcome, monthVars
  <2> QED
    BY <2>1, <2>2
<1>9. ~ \E h \in Keys : UnFinalise(h) \/ OperatorUpdates(h) \/ OperatorDeletes(h)
  BY DEF Regular, NotByHand, UnFinalise, OperatorUpdates, OperatorDeletes
<1> QED
  BY <1>5, <1>6, <1>7, <1>8, <1>9
     DEF MonthNext, MonthStep, RangeOrOutside, RefuseFinalise, FinishRun, mvars

LEMMA InitClose == ASSUME Regular, MonthInit PROVE CloseInv
<1>1. Init /\ MonthInv
  BY InitMonth DEF MonthInit
<1>2. TableInv
  BY <1>1, InitDay, InitGrowing DEF TableInv
<1>3. /\ stated = [ k \in Keys |-> {} ] /\ final = {}
      /\ mpc = [ j \in Jobs |-> "none" ] /\ pending = [ j \in Jobs |-> {} ]
      /\ pc = [ j \in Jobs |-> "idle" ] /\ code = [ j \in Jobs |-> "none" ]
  BY DEF MonthInit, Init
<1>4. \A m \in Months : MonthAddsUp(stated, m)
  <2>1. ASSUME NEW m \in Months PROVE ClusterKey(m) \in KeysOf(m)
    BY DEF ClusterKey, KeysOf, Keys, Scopes
  <2>2. \A k \in Keys : stated[k] = {}
    BY <1>3
  <2> QED
    BY <2>1, <2>2, AddsUpPointwise DEF KeysOf
<1>5. StatedInv
  BY <1>3, <1>4 DEF StatedInv, KnownRows, AddsUp
<1>6. ASSUME NEW j \in Jobs PROVE ~opts[j].close
  BY <1>1 DEF Init, Regular, ClosedByCron
<1>7. ASSUME NEW j \in Jobs PROVE OnTime(j) /\ Rolling(j) /\ Phase(j) /\ Stating(j)
  BY <1>3, <1>6 DEF OnTime, Rolling, Phase, Stating
<1> QED
  BY <1>1, <1>2, <1>5, <1>7 DEF CloseInv

\* The invariant of the close.
LEMMA CloseInvariant == ASSUME Regular PROVE MonthSpec => []CloseInv
<1>1. MonthInit => CloseInv
  BY InitClose
<1>2. CloseInv /\ [MonthNext]_mvars => CloseInv'
  BY NextClose
<1> QED
  BY <1>1, <1>2, PTL DEF MonthSpec

\* A cluster statement is the sum of its namespace statements, and no team's
\* has a row that it lacks: month by month, before, during and after every
\* interrupted or repeated run.  The danger is a frozen statement that a later
\* generation passes over while it rewrites the others; a month is frozen when
\* its rollup has every fact, so a later generation changes nothing.
THEOREM StatementsAlwaysAddUp ==
  ASSUME Regular PROVE MonthSpec => []StatementsAddUp
<1>1. CloseInv => StatementsAddUp
  BY DEF CloseInv, StatedInv, AddsUp, MonthAddsUp, StatementsAddUp
<1> QED
  BY <1>1, CloseInvariant, PTL

\* A close that got the lock and exits 0 closed its month, for good: however
\* many jobs regenerate it afterwards, each scope with facts has a statement
\* and no statement is provisional.
THEOREM CloseThatRanClosed ==
  ASSUME Regular PROVE MonthSpec => []CloseLeavesNothingOpen
<1>1. CloseInv => CloseLeavesNothingOpen
  <2>1. SUFFICES ASSUME CloseInv, NEW j \in Jobs, code[j] = "ok", HasMonth(j), opts[j].close
                 PROVE  IsComplete(opts[j].month) /\ LeftOpen(opts[j].month) = {}
    BY DEF CloseLeavesNothingOpen
  <2>2. Sealed(opts[j].month)
    BY <2>1 DEF CloseInv, Phase, Stating
  <2>3. opts[j].month \in Int /\ today \in Nat
    BY <2>1, BoundAssumption DEF CloseInv, MonthInv, TypeInv, TypeOK, Days
  <2>4. ASSUME NEW k \in KeysOf(opts[j].month) \ final
        PROVE  stated[k] = {} /\ FactsInScope(k) = {}
    <3>1. stated[k] = {} /\ Exact(stated[k], k)
      BY <2>2, <2>4 DEF Sealed, Ready
    <3> QED
      BY <3>1, EmptyExact
  <2>5. IsComplete(opts[j].month)
    <3> DEFINE e == FinalDay(opts[j].month)
    <3>1. e \in Int
      BY <2>3, BoundAssumption DEF FinalDay
    <3>2. e + 1 < today
      BY <2>2 DEF Sealed, Settled
    <3> HIDE DEF e
    <3>3. today > e
      BY <2>3, <3>1, <3>2
    <3> QED
      BY <3>3 DEF e, IsComplete
  <2> QED
    BY <2>4, <2>5 DEF LeftOpen
<1> QED
  BY <1>1, CloseInvariant, PTL

\* A row for each fact, and a fact for each row.
LEMMA ExactCounts ==
  ASSUME IsFiniteSet(Dims), TypeInv, NEW k, NEW rows \in SUBSET Row, Exact(rows, k)
  PROVE  /\ { << r.day, r.dim, r.windows >> : r \in rows }
              = { << x[1], x[2], facts[x[1]][x[2]] >> : x \in FactsInScope(k) }
         /\ Cardinality(rows) = Cardinality(FactsInScope(k))
<1> DEFINE F == FactsInScope(k)
<1>1. F \subseteq Days \X Dims
  BY DEF FactsInScope
<1>2. ASSUME NEW r \in rows
      PROVE  /\ << r.day, r.dim >> \in F /\ r.windows = facts[r.day][r.dim]
  <2>1. r.day \in Days /\ r.dim \in Dims /\ r.windows \in Nat \ {0}
    BY DEF Row
  <2>2. MonthOf(r.day) = k.month /\ InScope(r, k.scope) /\ r.windows = facts[r.day][r.dim]
    BY DEF Exact
  <2>3. facts[r.day][r.dim] > 0
    BY <2>1, <2>2
  <2>4. InScope([ dim |-> r.dim ], k.scope)
    BY <2>2, ScopeOfTuple
  <2> QED
    BY <2>1, <2>2, <2>3, <2>4, FactsOf
<1>3. \A x \in F : \E r \in rows : r.day = x[1] /\ r.dim = x[2]
  BY DEF Exact
<1>4. \A r, s \in rows : r.day = s.day /\ r.dim = s.dim => r = s
  BY DEF Exact
<1> HIDE DEF F
<1> DEFINE A == { << r.day, r.dim, r.windows >> : r \in rows }
           B == { << x[1], x[2], facts[x[1]][x[2]] >> : x \in F }
<1>5. A \subseteq B
  <2>1. ASSUME NEW r \in rows PROVE << r.day, r.dim, r.windows >> \in B
    <3> DEFINE x == << r.day, r.dim >>
    <3>1. x \in F /\ x[1] = r.day /\ x[2] = r.dim /\ r.windows = facts[x[1]][x[2]]
      BY <1>2
    <3> QED
      BY <3>1
  <2> QED
    BY <2>1
<1>6. B \subseteq A
  <2>1. ASSUME NEW x \in F PROVE << x[1], x[2], facts[x[1]][x[2]] >> \in A
    <3>1. PICK r \in rows : r.day = x[1] /\ r.dim = x[2]
      BY <1>3
    <3> QED
      BY <1>2, <3>1
  <2> QED
    BY <2>1
<1>7. Cardinality(rows) = Cardinality(F)
  <2> DEFINE f == [ x \in F |-> CHOOSE r \in rows : r.day = x[1] /\ r.dim = x[2] ]
  <2>1. \A x \in F : f[x] \in rows /\ f[x].day = x[1] /\ f[x].dim = x[2]
    BY <1>3
  <2>2. f \in [ F -> rows ]
    BY <2>1
  <2> HIDE DEF f
  <2>3. \A x, y \in F : f[x] = f[y] => x = y
    BY <1>1, <2>1
  <2>4. \A r \in rows : \E x \in F : f[x] = r
    <3>1. ASSUME NEW r \in rows PROVE f[<< r.day, r.dim >>] = r
      BY <1>2, <1>4, <2>1
    <3> QED
      BY <1>2, <3>1
  <2>5. f \in Bijection(F, rows)
    BY <2>2, <2>3, <2>4 DEF Bijection, Injection, Surjection, IsInjective
  <2>6. IsFiniteSet(F)
    <3>1. IsFiniteSet(Days)
      BY FS_Interval, BoundAssumption DEF Days
    <3> QED
      BY <1>1, <3>1, FS_Product, FS_Subset
  <2> QED
    BY <2>5, <2>6, FS_Bijection DEF ExistsBijection
<1> QED
  BY <1>5, <1>6, <1>7 DEF F

\* A frozen statement sums every fact the month has of its scope, and each of
\* them once, although rolling up, generating and freezing are separate
\* transactions, with signals and crashes between them, and the collector is
\* still writing while they run.
THEOREM FrozenStatementsAreRight ==
  ASSUME Regular, IsFiniteSet(Dims) PROVE MonthSpec => []FrozenStatementsMatchFacts
<1>1. CloseInv => FrozenStatementsMatchFacts
  <2>1. SUFFICES ASSUME CloseInv, NEW k \in final
                 PROVE  /\ { << r.day, r.dim, r.windows >> : r \in stated[k] }
                             = { << x[1], x[2], facts[x[1]][x[2]] >> : x \in FactsInScope(k) }
                        /\ Cardinality(stated[k]) = Cardinality(FactsInScope(k))
    BY DEF FrozenStatementsMatchFacts
  <2>2. k \in Keys /\ stated[k] \in SUBSET Row /\ TypeInv
    BY <2>1 DEF CloseInv, MonthInv, MonthTypeOK
  <2>3. Exact(stated[k], k)
    BY <2>1, <2>2 DEF CloseInv, StatedInv, Sealed, Ready, KeysOf
  <2> QED
    BY <2>2, <2>3, ExactCounts
<1> QED
  BY <1>1, CloseInvariant, PTL
==============================================================================
