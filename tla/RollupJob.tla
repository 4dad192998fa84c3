------------------------------ MODULE RollupJob ------------------------------
(***************************************************************************)
(* The daily rollup: cmd/rollup, internal/rollup and the rollup repository *)
(* of internal/store/postgres.                                             *)
(*                                                                         *)
(* Invocations of the batch job (a CronJob's pods, an operator's shell)    *)
(* compete for one Postgres advisory lock.  The one that gets it lists the *)
(* UTC days that have fact rows and rewrites each day of the table         *)
(* container_allocations_daily in a transaction of its own: DELETE, then   *)
(* INSERT ... SELECT, then a diagnostic count, then COMMIT.  Transactions  *)
(* run at READ COMMITTED, so every statement takes its own snapshot of     *)
(* what is committed, and the collector keeps writing facts meanwhile.     *)
(*                                                                         *)
(* A fact row is abstracted to the day and the dimension tuple it is       *)
(* grouped under; a rollup row to its day, its dimension tuple and its     *)
(* window_count, which stands for every additive measure of the row.       *)
(***************************************************************************)
EXTENDS Integers, FiniteSetsExt

CONSTANTS
  Jobs,         \* invocations of the batch job
  NoJob,        \* nobody holds the lock
  Dims,         \* the dimension tuples of the GROUP BY
  LastDay,      \* bound: the clock stops at this day
  FactDays,     \* bound: the days the collector records facts for
  MonthLen,     \* days in a month
  MaxWindows,   \* bound: fact rows per day and dimension tuple
  Invocations,  \* the flags a job may be started with
  Scheduled,    \* CronJobs keep to their schedules and deadlines
  Faults        \* what the environment may do, see below

Days == 1 .. LastDay
NoMonth == -1
NoDay == 0

AllFaults ==
  { "statement_fails",    \* a statement, or a COMMIT, returns an error
    "sigterm",            \* SIGTERM: node drain, delete job, deadline
    "crash",              \* SIGKILL, OOM
    "orphan_commit",      \* the server commits after the crashed client's
                          \*   lock session has already ended
    "lock_session_lost",  \* Postgres ends the pinned, idle lock session
    "relabel" }           \* a recorded fact is attributed to another tuple

Options == [ all: BOOLEAN, prev: BOOLEAN, month: Nat \cup {NoMonth},
             close: BOOLEAN, from: Days \cup {NoDay}, to: Days \cup {NoDay} ]

ASSUME JobAssumption == NoJob \notin Jobs
ASSUME BoundAssumption ==
  /\ LastDay \in Nat /\ MonthLen \in Nat \ {0} /\ MaxWindows \in Nat
  /\ FactDays \subseteq Days /\ Scheduled \in BOOLEAN
ASSUME InvocationAssumption == Invocations \subseteq Options
ASSUME FaultAssumption == Faults \subseteq AllFaults

VARIABLES
  today,      \* the current UTC day
  facts,      \* container_allocations: fact rows per day and tuple
  daily,      \* container_allocations_daily, the committed rows
  lock,       \* the session holding advisory lock 8314001
  pc,         \* where each job's control is
  opts,       \* its flags
  cancelled,  \* its signal context is done
  code,       \* its outcome
  days,       \* what DaysWithFacts returned
  todo,       \* the days of that list still ahead
  failures,   \* RangeResult.Failures
  day,        \* the day of the current transaction
  snap,       \* the rows the DELETE's snapshot saw
  gone,       \* the rows the open transaction has deleted (and locked)
  ins         \* the rows it has inserted

envVars  == << today, facts >>
jobVars  == << opts, cancelled, code >>
loopVars == << days, todo, failures >>
txVars   == << day, snap, gone, ins >>
vars     == << envVars, daily, lock, pc, jobVars, loopVars, txVars >>

-----------------------------------------------------------------------------
(* Values                                                                  *)

Row  == [ day: Days, dim: Dims, windows: Nat \ {0}, by: Jobs ]
Zero == [ g \in Dims |-> 0 ]
InTx     == { "deleting", "inserting", "counting", "committing" }
Holding  == { "planning", "loop", "ranged", "exiting" } \cup InTx
Ended    == { "done", "dead" }
PCs      == { "idle", "locking", "orphan" } \cup Holding \cup Ended

HasFacts(d) == \E g \in Dims : facts[d][g] > 0

\* A mutant of Projection: a closed day, which counts the windows of the next
\* day too.
ProjectionOfClosedDay(d, j) ==
  { [ day |-> d, dim |-> g, windows |-> facts[d][g] + facts[d + 1][g], by |-> j ] :
      g \in { h \in Dims : facts[d][h] > 0 /\ d + 1 \in Days } }

\* A mutant of Projection: the day is truncated in a time zone behind UTC.
ProjectionInSessionTimeZone(d, j) ==
  { [ day |-> d - 1, dim |-> g, windows |-> facts[d][g], by |-> j ] :
      g \in { h \in Dims : facts[d][h] > 0 } }

\* rollupSelect: one row per tuple that has fact rows in the half-open day.
\* `by` names the transaction that wrote the row; the table has an identity
\* column and no unique index on (day, dimensions).
Projection(d, j) ==
  { [ day |-> d, dim |-> g, windows |-> facts[d][g], by |-> j ] :
      g \in { h \in Dims : facts[d][h] > 0 } }

RowsOf(d) == { r \in daily : r.day = d }

MonthOf(d)  == (d - 1) \div MonthLen + 1
FirstDay(m) == (m - 1) * MonthLen + 1
FinalDay(m) == m * MonthLen

\* -close-previous-month is rewritten to -month <previous> -close.
Resolve(o) ==
  IF o.prev THEN [ o EXCEPT !.month = MonthOf(today) - 1, !.close = TRUE ]
            ELSE o

\* A mutant of ResolveRange: Next() minus one taken twice.
ResolveRangeShort(o) ==
  IF o.all THEN << 1, today >>
  ELSE IF o.month # NoMonth THEN << FirstDay(o.month), FinalDay(o.month) - 1 >>
  ELSE << today - 1, today - 1 >>

\* resolveRange: -all, then -month, then -from/-to, then yesterday.
ResolveRange(o) ==
  IF o.all THEN << 1, today >>
  ELSE IF o.month # NoMonth THEN << FirstDay(o.month), FinalDay(o.month) >>
  ELSE IF o.from # NoDay THEN << o.from, IF o.to = NoDay THEN o.from ELSE o.to >>
  ELSE << today - 1, today - 1 >>

\* -to without -from, and RollupRange's reversed range.
BadRange(o) ==
  \/ ~o.all /\ o.month = NoMonth /\ o.from = NoDay /\ o.to # NoDay
  \/ ResolveRange(o)[2] < ResolveRange(o)[1]

Asked(o) == { d \in Days : ResolveRange(o)[1] <= d /\ d <= ResolveRange(o)[2] }

-----------------------------------------------------------------------------
Init ==
  /\ today = 1
  /\ facts = [ d \in Days |-> Zero ]
  /\ daily = {}
  /\ lock = NoJob
  /\ pc = [ j \in Jobs |-> "idle" ]
  /\ opts \in [ Jobs -> Invocations ]
  /\ cancelled = [ j \in Jobs |-> FALSE ]
  /\ code = [ j \in Jobs |-> "none" ]
  /\ days = [ j \in Jobs |-> {} ]
  /\ todo = [ j \in Jobs |-> {} ]
  /\ failures = [ j \in Jobs |-> {} ]
  /\ day = [ j \in Jobs |-> NoDay ]
  /\ snap = [ j \in Jobs |-> {} ]
  /\ gone = [ j \in Jobs |-> {} ]
  /\ ins = [ j \in Jobs |-> {} ]

-----------------------------------------------------------------------------
(* The rest of the system                                                  *)

\* The jobs of the two CronJobs: no flags, or -close-previous-month.
FromCron(o) ==
  o.prev \/ ~(o.all \/ o.month # NoMonth \/ o.from # NoDay \/ o.to # NoDay)

\* The CronJob of the monthly close runs on the second day of a month, and
\* activeDeadlineSeconds ends a job it started hours before the day does.
Due(o) == Scheduled /\ o.prev => (today - 1) % MonthLen >= 1
WithinDeadline ==
  Scheduled => \A j \in Jobs : FromCron(opts[j]) => pc[j] \in { "idle" } \cup Ended

NextDay ==
  /\ today < LastDay
  /\ WithinDeadline
  /\ today' = today + 1
  /\ UNCHANGED << facts, daily, lock, pc, jobVars, loopVars, txVars >>

\* One collection window commits: the allocations of the containers it saw.
\* The last window of a day is collected after midnight, since the collector
\* waits for the scrape lag before it queries a window.
CollectorWrites ==
  \E d \in { today, today - 1 } \cap FactDays, G \in (SUBSET Dims) \ {{}} :
    /\ \A g \in G : facts[d][g] < MaxWindows
    /\ facts' = [ facts EXCEPT ![d] =
                    [ g \in Dims |-> IF g \in G THEN @[g] + 1 ELSE @[g] ] ]
    /\ UNCHANGED << today, daily, lock, pc, jobVars, loopVars, txVars >>

\* A fact row moves to another tuple: a window collected again after its
\* namespace's labels changed, or an operator correcting a mislabelled fact.
RelabelFact ==
  /\ "relabel" \in Faults
  /\ \E d \in Days, g, h \in Dims :
       /\ g # h /\ facts[d][g] > 0 /\ facts[d][h] < MaxWindows
       /\ facts' = [ facts EXCEPT ![d][g] = @ - 1, ![d][h] = @ + 1 ]
  /\ UNCHANGED << today, daily, lock, pc, jobVars, loopVars, txVars >>

-----------------------------------------------------------------------------
(* Starting, locking, planning                                             *)

Goto(j, label) == pc' = [ pc EXCEPT ![j] = label ]

Stop(j, outcome) ==
  /\ Goto(j, "exiting")
  /\ code' = [ code EXCEPT ![j] = outcome ]

\* main: configuration, pool and ping succeed.
Invoke(j) ==
  /\ pc[j] = "idle" /\ Due(opts[j])
  /\ Goto(j, "locking")
  /\ UNCHANGED << envVars, daily, lock, jobVars, loopVars, txVars >>

\* A mutant of TakeLock: what pg_try_advisory_lock returned is not looked at.
TakeLockUnchecked(j) ==
  /\ pc[j] = "locking" /\ ~cancelled[j]
  /\ lock' = IF lock = NoJob THEN j ELSE lock
  /\ Goto(j, "planning")
  /\ UNCHANGED << envVars, daily, jobVars, loopVars, txVars >>

TakeLock(j) ==
  /\ pc[j] = "locking" /\ lock = NoJob /\ ~cancelled[j]
  /\ lock' = j
  /\ Goto(j, "planning")
  /\ UNCHANGED << envVars, daily, jobVars, loopVars, txVars >>

\* ErrLockHeld: exit 0.
LockIsHeld(j) ==
  /\ pc[j] = "locking" /\ lock # NoJob /\ ~cancelled[j]
  /\ Goto(j, "done")
  /\ code' = [ code EXCEPT ![j] = "held" ]
  /\ UNCHANGED << envVars, daily, lock, opts, cancelled, loopVars, txVars >>

\* resolveRange, then DaysWithFacts: a day without facts is not touched.
Plan(j) ==
  /\ pc[j] = "planning" /\ ~cancelled[j]
  /\ LET o == Resolve(opts[j]) IN
       /\ opts' = [ opts EXCEPT ![j] = o ]
       /\ \/ /\ BadRange(o)
             /\ Stop(j, "error")
             /\ UNCHANGED << days, todo >>
          \/ /\ ~BadRange(o)
             /\ Goto(j, "loop")
             /\ days' = [ days EXCEPT ![j] = { d \in Asked(o) : HasFacts(d) } ]
             /\ todo' = [ todo EXCEPT ![j] = days'[j] ]
             /\ UNCHANGED code
  /\ UNCHANGED << envVars, daily, lock, cancelled, failures, txVars >>

\* The ping or the lock statement fails or is cancelled.  A connection whose
\* statement was cut off is closed, and its session's locks with it.
LockFails(j) ==
  /\ pc[j] = "locking"
  /\ "statement_fails" \in Faults \/ cancelled[j]
  /\ Goto(j, "done")
  /\ code' = [ code EXCEPT ![j] = "error" ]
  /\ UNCHANGED << envVars, daily, lock, opts, cancelled, loopVars, txVars >>

\* DaysWithFacts fails or is cancelled.
PlanFails(j) ==
  /\ pc[j] = "planning"
  /\ "statement_fails" \in Faults \/ cancelled[j]
  /\ Stop(j, "error")
  /\ UNCHANGED << envVars, daily, lock, opts, cancelled, loopVars, txVars >>

-----------------------------------------------------------------------------
(* RollupRange: one transaction per day, oldest first                      *)

\* BEGIN, and the snapshot of the DELETE.
BeginDay(j) ==
  /\ pc[j] = "loop" /\ ~cancelled[j]
  /\ \E d \in todo[j] :
       /\ \A e \in todo[j] : d <= e
       /\ day' = [ day EXCEPT ![j] = d ]
       /\ snap' = [ snap EXCEPT ![j] = RowsOf(d) ]
       /\ todo' = [ todo EXCEPT ![j] = @ \ {d} ]
  /\ Goto(j, "deleting")
  /\ UNCHANGED << envVars, daily, lock, jobVars, days, failures,
                  gone, ins >>

\* A mutant of DeleteDay: the DELETE commits on its own.
DeleteDayAutocommit(j) ==
  /\ pc[j] = "deleting" /\ ~cancelled[j]
  /\ daily' = daily \ snap[j]
  /\ Goto(j, "inserting")
  /\ UNCHANGED << envVars, lock, jobVars, loopVars, day, snap, gone, ins >>

\* A row another open transaction has deleted is locked: the DELETE waits for
\* that transaction.  Afterwards it deletes what is left of its own snapshot;
\* rows committed since that snapshot are not in it.
DeleteDay(j) ==
  /\ pc[j] = "deleting" /\ ~cancelled[j]
  /\ \A k \in Jobs \ {j} : gone[k] \cap snap[j] = {}
  /\ gone' = [ gone EXCEPT ![j] = snap[j] \cap daily ]
  /\ Goto(j, "inserting")
  /\ UNCHANGED << envVars, daily, lock, jobVars, loopVars,
                  day, snap, ins >>

InsertDay(j) ==
  /\ pc[j] = "inserting" /\ ~cancelled[j]
  /\ ins' = [ ins EXCEPT ![j] = Projection(day[j], j) ]
  /\ Goto(j, "counting")
  /\ UNCHANGED << envVars, daily, lock, jobVars, loopVars,
                  day, snap, gone >>

\* A diagnostic count(*) of the day's fact rows, which is only reported.
CountDay(j) ==
  /\ pc[j] = "counting" /\ ~cancelled[j]
  /\ Goto(j, "committing")
  /\ UNCHANGED << envVars, daily, lock, jobVars, loopVars, txVars >>

\* A mutant of Committed: an insert that replaces nothing.
CommittedWithoutDelete(j) == daily \cup ins[j]

Committed(j) == (daily \ gone[j]) \cup ins[j]

\* The deferred Rollback, or the end of the committed transaction.
EndTx(j) ==
  /\ day' = [ day EXCEPT ![j] = NoDay ]
  /\ snap' = [ snap EXCEPT ![j] = {} ]
  /\ gone' = [ gone EXCEPT ![j] = {} ]
  /\ ins' = [ ins EXCEPT ![j] = {} ]

CommitDay(j) ==
  /\ pc[j] = "committing" /\ ~cancelled[j]
  /\ daily' = Committed(j)
  /\ EndTx(j)
  /\ Goto(j, "loop")
  /\ UNCHANGED << envVars, lock, jobVars, loopVars >>

\* A mutant of DayFails: the error is logged and not recorded.
DayFailsUnrecorded(j) ==
  /\ pc[j] \in InTx /\ "statement_fails" \in Faults
  /\ EndTx(j)
  /\ Goto(j, "loop")
  /\ UNCHANGED << envVars, daily, lock, jobVars, loopVars >>

\* A statement fails.  An error is recorded and the run goes on; a cancelled
\* context ends the run.  A failed COMMIT may have taken effect.
DayFails(j) ==
  /\ pc[j] \in InTx
  /\ "statement_fails" \in Faults \/ cancelled[j]
  /\ \/ UNCHANGED daily
     \/ pc[j] = "committing" /\ daily' = Committed(j)
  /\ EndTx(j)
  /\ \/ /\ "statement_fails" \in Faults
        /\ failures' = [ failures EXCEPT ![j] = @ \cup {day[j]} ]
        /\ Goto(j, "loop")
        /\ UNCHANGED code
     \/ /\ cancelled[j]
        /\ Stop(j, "error")
        /\ UNCHANGED failures
  /\ UNCHANGED << envVars, lock, opts, cancelled, days, todo >>

StopCancelled(j) ==
  /\ pc[j] = "loop" /\ todo[j] # {} /\ cancelled[j]
  /\ Stop(j, "error")
  /\ UNCHANGED << envVars, daily, lock, opts, cancelled, loopVars, txVars >>

EndRange(j) ==
  /\ pc[j] = "loop" /\ todo[j] = {}
  /\ Goto(j, "ranged")
  /\ UNCHANGED << envVars, daily, lock, jobVars, loopVars, txVars >>

-----------------------------------------------------------------------------
(* Ending                                                                  *)

\* main's last lines: a partial run exits non-zero.
Finish(j) ==
  /\ pc[j] = "ranged"
  /\ Stop(j, IF failures[j] = {} THEN "ok" ELSE "error")
  /\ UNCHANGED << envVars, daily, lock, opts, cancelled, loopVars, txVars >>

\* RunMonth, which follows the range, returned an error.
MonthFails(j) ==
  /\ pc[j] = "ranged"
  /\ Stop(j, "error")
  /\ UNCHANGED << envVars, daily, lock, opts, cancelled, loopVars, txVars >>

\* A mutant of Release: the unlock runs on the job's own context.
ReleaseOnJobContext(j) ==
  /\ pc[j] = "exiting"
  /\ lock' = IF lock = j /\ ~cancelled[j] THEN NoJob ELSE lock
  /\ Goto(j, "done")
  /\ UNCHANGED << envVars, daily, jobVars, loopVars, txVars >>

\* The deferred Release, on a background context, and db.Close behind it.
Release(j) ==
  /\ pc[j] = "exiting"
  /\ lock' = IF lock = j THEN NoJob ELSE lock
  /\ Goto(j, "done")
  /\ UNCHANGED << envVars, daily, jobVars, loopVars, txVars >>

\* A statement that starts on a cancelled context fails.  One in flight may
\* still complete, which is the signal arriving after it; a COMMIT in flight
\* may complete and report an error, which is a branch of DayFails.
Sigterm(j) ==
  /\ "sigterm" \in Faults
  /\ pc[j] \in Holding \cup {"locking"} /\ ~cancelled[j]
  /\ cancelled' = [ cancelled EXCEPT ![j] = TRUE ]
  /\ UNCHANGED << envVars, daily, lock, pc, opts, code, loopVars, txVars >>

\* The process dies: Postgres ends its sessions, which frees the lock and
\* rolls the open transaction back, unless its COMMIT was already received.
Crash(j) ==
  /\ "crash" \in Faults
  /\ pc[j] \in Holding \cup {"locking"}
  /\ lock' = IF lock = j THEN NoJob ELSE lock
  /\ \/ /\ UNCHANGED daily /\ EndTx(j) /\ Goto(j, "dead")
     \/ /\ pc[j] = "committing"
        /\ daily' = Committed(j) /\ EndTx(j) /\ Goto(j, "dead")
     \/ /\ pc[j] = "committing" /\ "orphan_commit" \in Faults
        /\ Goto(j, "orphan") /\ UNCHANGED << daily, txVars >>
  /\ UNCHANGED << envVars, jobVars, loopVars >>

\* The server reaches the COMMIT of a client that is gone.
OrphanCommits(j) ==
  /\ pc[j] = "orphan"
  /\ daily' = Committed(j)
  /\ EndTx(j)
  /\ Goto(j, "dead")
  /\ UNCHANGED << envVars, lock, jobVars, loopVars >>

\* The pinned session ends although the job runs on: nothing looks at it
\* again before Release.
LoseLockSession(j) ==
  /\ "lock_session_lost" \in Faults
  /\ lock = j
  /\ lock' = NoJob
  /\ UNCHANGED << envVars, daily, pc, jobVars, loopVars, txVars >>

-----------------------------------------------------------------------------
RangeStep(j) ==
  \/ Invoke(j)
  \/ TakeLock(j)
  \/ LockIsHeld(j)
  \/ LockFails(j)
  \/ Plan(j)
  \/ PlanFails(j)
  \/ BeginDay(j)
  \/ DeleteDay(j)
  \/ InsertDay(j)
  \/ CountDay(j)
  \/ CommitDay(j)
  \/ DayFails(j)
  \/ StopCancelled(j)
  \/ EndRange(j)
  \/ Release(j)

Outside(j) ==
  \/ Sigterm(j)
  \/ OrphanCommits(j)
  \/ LoseLockSession(j)

Environment == NextDay \/ CollectorWrites \/ RelabelFact

Next ==
  \/ Environment
  \/ \E j \in Jobs : \/ RangeStep(j) \/ Finish(j) \/ MonthFails(j)
                    \/ Outside(j) \/ Crash(j)

Spec == Init /\ [][Next]_vars

\* A statement returns or fails, and a job whose statement hangs is killed by
\* the CronJob's activeDeadlineSeconds: a running job keeps taking steps.
FairSpec ==
  /\ Spec
  /\ \A j \in Jobs : WF_vars(RangeStep(j) \/ Finish(j))

-----------------------------------------------------------------------------
(* The inductive invariant of the proofs, which the runs check first       *)

\* Control and lock agree: only the holder is past TryAdvisoryLock.
LockOwned == \A j \in Jobs : pc[j] \in Holding => lock = j

\* An open transaction has a day, and a job between transactions has none.
TxHasDay ==
  \A j \in Jobs : pc[j] \in InTx \cup {"orphan"} => day[j] \in Days

AfterDelete == { "inserting", "counting", "committing" }
AfterInsert == { "counting", "committing" }

\* The rows j's transaction saw, deleted and inserted are, after each of its
\* statements, the whole committed day and one projection of it.
ReplacesDay(j) ==
  /\ snap[j] = IF pc[j] \in InTx THEN RowsOf(day[j]) ELSE {}
  /\ gone[j] = IF pc[j] \in AfterDelete THEN RowsOf(day[j]) ELSE {}
  /\ pc[j] \notin AfterInsert => ins[j] = {}
  /\ \A r \in ins[j] : r.day = day[j] /\ r.by = j
  /\ \A r, s \in ins[j] : r.dim = s.dim => r = s

-----------------------------------------------------------------------------
(* Properties                                                              *)

\* Every variable has the shape the code gives it.
TypeOK ==
  /\ today \in Days \cup {1}
  /\ facts \in [ Days -> [ Dims -> Nat ] ]
  /\ daily \subseteq Row
  /\ lock \in Jobs \cup {NoJob}
  /\ pc \in [ Jobs -> PCs ]
  /\ opts \in [ Jobs -> [ all: BOOLEAN, prev: BOOLEAN, month: Int,
                         close: BOOLEAN, from: Days \cup {NoDay},
                         to: Days \cup {NoDay} ] ]
  /\ cancelled \in [ Jobs -> BOOLEAN ]
  /\ code \in [ Jobs -> { "none", "held", "ok", "error" } ]
  /\ days \in [ Jobs -> SUBSET Days ]
  /\ todo \in [ Jobs -> SUBSET Days ]
  /\ failures \in [ Jobs -> SUBSET Days ]
  /\ day \in [ Jobs -> Days \cup {NoDay} ]
  /\ snap \in [ Jobs -> SUBSET Row ]
  /\ gone \in [ Jobs -> SUBSET Row ]
  /\ ins \in [ Jobs -> SUBSET Row ]

\* LockRollup "guards the daily rollup and monthly report writer": at most one
\* job is past TryAdvisoryLock and short of Release, whatever the others'
\* signals, crashes and failed statements do.
LockExcludes ==
  \A j, k \in Jobs : pc[j] \in Holding /\ pc[k] \in Holding => j = k

\* The DELETE and the INSERT of one day's transaction bracket the whole day, as
\* it was committed when the transaction began: nobody commits to a day that
\* another job is rewriting, although no row or table lock keeps them from it.
TxReplacesDay == \A j \in Jobs : ReplacesDay(j)

\* A day of the rollup is the output of one transaction, and holds one row per
\* dimension tuple.  The table has no unique index that would say so: two
\* rewrites of a day that overlap leave both their outputs, and every total
\* over the day doubles.
OneProjectionPerDay ==
  \A r, s \in daily :
    r.day = s.day => r.by = s.by /\ (r.dim = s.dim => r = s)

\* RollupDay's DELETE and INSERT are one step for a reader: "readers see the
\* old rows or the new ones, never neither".  A day that has rows keeps having
\* rows, whoever rewrites it and however the rewrite ends.
DayNeverVanishes ==
  [][ \A d \in Days : RowsOf(d) # {} => RowsOf(d)' # {} ]_vars

\* A run that exits 0 has left rows for every day it listed, and a run that
\* reached the end of its range names in Failures every day it listed that
\* has none: "a partial run reports exactly what is missing".
NoDayGoesMissing ==
  \A j \in Jobs :
    pc[j] = "ranged" \/ code[j] = "ok" =>
      \A d \in days[j] : RowsOf(d) # {} \/ (d \in failures[j] /\ code[j] # "ok")

\* What a reader's sum over the rollup returns.
Windows(rows) == MapThenSumSet(LAMBDA r : r.windows, rows)

Shown == [ d \in Days |-> [ g \in Dims |->
             Windows({ r \in daily : r.day = d /\ r.dim = g }) ] ]

Table == INSTANCE DailyTable WITH shown <- Shown

\* The rollup implements the table its readers are promised: every step of
\* the job is invisible to them, or replaces one day by a whole projection
\* that is no older than the one they saw.
ImplementsDailyTable == Table!Spec

\* The lock never stays held behind a job that ended: a leaked lock would make
\* every later run exit 0 without doing anything.
LockIsReleased == \A j \in Jobs : lock = j ~> lock # j

=============================================================================
