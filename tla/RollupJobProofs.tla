--------------------------- MODULE RollupJobProofs ---------------------------
(***************************************************************************)
(* Proofs about the daily rollup, for every set of jobs and tuples, every  *)
(* number of days and every choice of invocations.                         *)
(***************************************************************************)
EXTENDS RollupJob, TLAPS

-----------------------------------------------------------------------------
(* Type correctness                                                        *)

TypeInv == TypeOK /\ TxHasDay

\* A month number is an integer.
LEMMA MonthOfType == ASSUME NEW d \in Int PROVE MonthOf(d) \in Int
  BY BoundAssumption DEF MonthOf

\* The flags a job runs with keep their shape when -close-previous-month is
\* rewritten to -month and -close.
LEMMA ResolveType ==
  ASSUME today \in Int,
         NEW o \in [ all: BOOLEAN, prev: BOOLEAN, month: Int, close: BOOLEAN,
                     from: Days \cup {NoDay}, to: Days \cup {NoDay} ]
  PROVE  Resolve(o) \in [ all: BOOLEAN, prev: BOOLEAN, month: Int, close: BOOLEAN,
                          from: Days \cup {NoDay}, to: Days \cup {NoDay} ]
<1>1. MonthOf(today) - 1 \in Int
  BY MonthOfType
<1> QED
  BY <1>1 DEF Resolve

\* What a transaction aggregates is a set of rows of the table.
LEMMA ProjectionType ==
  ASSUME facts \in [ Days -> [ Dims -> Nat ] ], NEW d \in Days, NEW j \in Jobs
  PROVE  Projection(d, j) \subseteq Row
  BY DEF Projection, Row

\* The rollup and what an open transaction makes of it hold rows of the table.
LEMMA CommittedType ==
  ASSUME TypeOK, NEW j \in Jobs
  PROVE  Committed(j) \subseteq Row
  BY DEF TypeOK, Committed

LEMMA InitType == Init => TypeInv
<1> SUFFICES ASSUME Init PROVE TypeInv
  OBVIOUS
<1>1. \A o \in Invocations : o \in [ all: BOOLEAN, prev: BOOLEAN, month: Int,
        close: BOOLEAN, from: Days \cup {NoDay}, to: Days \cup {NoDay} ]
  BY InvocationAssumption DEF Options, NoMonth
<1>2. opts \in [ Jobs -> [ all: BOOLEAN, prev: BOOLEAN, month: Int,
        close: BOOLEAN, from: Days \cup {NoDay}, to: Days \cup {NoDay} ] ]
  BY <1>1 DEF Init
<1>3. TypeOK
  BY <1>2 DEF Init, TypeOK, Zero, PCs
<1>4. TxHasDay
  BY DEF Init, TxHasDay, InTx
<1> QED
  BY <1>3, <1>4 DEF TypeInv

\* Ending a transaction leaves its variables well typed.
LEMMA EndTxType ==
  ASSUME TypeOK, NEW j \in Jobs, EndTx(j)
  PROVE  /\ day' \in [ Jobs -> Days \cup {NoDay} ]
         /\ snap' \in [ Jobs -> SUBSET Row ]
         /\ gone' \in [ Jobs -> SUBSET Row ]
         /\ ins' \in [ Jobs -> SUBSET Row ]
         /\ \A k \in Jobs \ {j} : day'[k] = day[k]
  BY DEF TypeOK, EndTx, NoDay

\* The clock, the collector and a relabelled fact.
LEMMA EnvironmentType == ASSUME TypeInv, Environment PROVE TypeInv'
<1> USE DEF TypeInv, TypeOK, TxHasDay
<1>1. CASE NextDay
  BY <1>1, BoundAssumption DEF NextDay, Days, jobVars, loopVars, txVars
<1>2. CASE CollectorWrites
  <2>1. facts' \in [ Days -> [ Dims -> Nat ] ]
    <3>1. PICK d \in { today, today - 1 } \cap FactDays, G \in (SUBSET Dims) \ {{}} :
            /\ \A g \in G : facts[d][g] < MaxWindows
            /\ facts' = [ facts EXCEPT ![d] =
                            [ g \in Dims |-> IF g \in G THEN @[g] + 1 ELSE @[g] ] ]
            /\ UNCHANGED << today, daily, lock, pc, jobVars, loopVars, txVars >>
      BY <1>2, Zenon DEF CollectorWrites
    <3>2. d \in Days
      BY BoundAssumption
    <3> QED
      BY <3>1, <3>2
  <2> QED
    BY <1>2, <2>1 DEF CollectorWrites, jobVars, loopVars, txVars
<1>3. CASE RelabelFact
  <2>1. facts' \in [ Days -> [ Dims -> Nat ] ]
    BY <1>3 DEF RelabelFact
  <2> QED
    BY <1>3, <2>1 DEF RelabelFact, jobVars, loopVars, txVars
<1> QED
  BY <1>1, <1>2, <1>3 DEF Environment

\* One step of a job's range.
LEMMA RangeStepType ==
  ASSUME TypeInv, NEW j \in Jobs, RangeStep(j) PROVE TypeInv'
<1> USE DEF TypeInv, TypeOK, TxHasDay, Goto, Stop,
            envVars, jobVars, loopVars, txVars, PCs, Holding, InTx, Ended
<1>1. CASE Invoke(j)
  BY <1>1 DEF Invoke
<1>2. CASE TakeLock(j)
  BY <1>2 DEF TakeLock
<1>3. CASE LockIsHeld(j)
  BY <1>3 DEF LockIsHeld
<1>4. CASE LockFails(j)
  BY <1>4 DEF LockFails
<1>5. CASE Plan(j)
  <2>1. today \in Int
    BY DEF Days
  <2>2. opts' \in [ Jobs -> [ all: BOOLEAN, prev: BOOLEAN, month: Int,
          close: BOOLEAN, from: Days \cup {NoDay}, to: Days \cup {NoDay} ] ]
    <3>1. Resolve(opts[j]) \in [ all: BOOLEAN, prev: BOOLEAN, month: Int,
            close: BOOLEAN, from: Days \cup {NoDay}, to: Days \cup {NoDay} ]
      BY <2>1, ResolveType
    <3> QED
      BY <1>5, <3>1 DEF Plan
  <2>3. days' \in [ Jobs -> SUBSET Days ] /\ todo' \in [ Jobs -> SUBSET Days ]
    <3> DEFINE listed == { d \in Asked(Resolve(opts[j])) : HasFacts(d) }
    <3>1. listed \in SUBSET Days
      BY DEF Asked
    <3>2. \/ days' = days /\ todo' = todo
          \/ /\ days' = [ days EXCEPT ![j] = listed ]
             /\ todo' = [ todo EXCEPT ![j] = days'[j] ]
      BY <1>5 DEF Plan
    <3> HIDE DEF listed
    <3> QED
      BY <3>1, <3>2
  <2> QED
    BY <1>5, <2>2, <2>3 DEF Plan
<1>6. CASE PlanFails(j)
  BY <1>6 DEF PlanFails
<1>7. CASE BeginDay(j)
  BY <1>7 DEF BeginDay, RowsOf
<1>8. CASE DeleteDay(j)
  BY <1>8 DEF DeleteDay
<1>9. CASE InsertDay(j)
  <2>1. Projection(day[j], j) \subseteq Row
    BY <1>9, ProjectionType DEF InsertDay
  <2> QED
    BY <1>9, <2>1 DEF InsertDay
<1>10. CASE CountDay(j)
  BY <1>10 DEF CountDay, txVars
<1>11. CASE CommitDay(j)
  BY <1>11, EndTxType, CommittedType DEF CommitDay
<1>12. CASE DayFails(j)
  <2>1. daily' \subseteq Row
    BY <1>12, CommittedType DEF DayFails
  <2>2. failures' \in [ Jobs -> SUBSET Days ]
    <3>1. day[j] \in Days
      BY <1>12 DEF DayFails
    <3>2. failures' = failures \/ failures' = [ failures EXCEPT ![j] = @ \cup {day[j]} ]
      BY <1>12 DEF DayFails
    <3> DEFINE failed == failures[j] \cup {day[j]}
    <3>3. failed \in SUBSET Days
      BY <3>1
    <3>4. failures' = failures \/ failures' = [ failures EXCEPT ![j] = failed ]
      BY <3>2
    <3> HIDE DEF failed
    <3> QED
      BY <3>3, <3>4
  <2>3. pc' \in [ Jobs -> PCs ] /\ code' \in [ Jobs -> { "none", "held", "ok", "error" } ]
    BY <1>12 DEF DayFails
  <2>4. TxHasDay'
    <3>1. pc' = [ pc EXCEPT ![j] = "loop" ] \/ pc' = [ pc EXCEPT ![j] = "exiting" ]
      BY <1>12 DEF DayFails
    <3>2. EndTx(j)
      BY <1>12 DEF DayFails
    <3>3. \A k \in Jobs \ {j} : day'[k] = day[k] /\ pc'[k] = pc[k]
      BY <3>1, <3>2, EndTxType
    <3>4. pc'[j] \notin InTx \cup {"orphan"}
      BY <3>1
    <3> QED
      BY <3>3, <3>4
  <2>5. UNCHANGED << today, facts, lock, opts, cancelled, days, todo >> /\ EndTx(j)
    BY <1>12 DEF DayFails
  <2> QED
    BY <2>1, <2>2, <2>3, <2>4, <2>5, EndTxType
<1>13. CASE StopCancelled(j)
  BY <1>13 DEF StopCancelled
<1>14. CASE EndRange(j)
  BY <1>14 DEF EndRange
<1>15. CASE Release(j)
  BY <1>15 DEF Release
<1> QED
  BY <1>1, <1>2, <1>3, <1>4, <1>5, <1>6, <1>7, <1>8, <1>9, <1>10, <1>11,
     <1>12, <1>13, <1>14, <1>15 DEF RangeStep

\* The end of a run, a signal, a crash, a lost session.
LEMMA OtherStepType ==
  ASSUME TypeInv, NEW j \in Jobs,
         Finish(j) \/ MonthFails(j) \/ Outside(j) \/ Crash(j)
  PROVE  TypeInv'
<1> USE DEF TypeInv, TypeOK, TxHasDay, Goto, Stop,
            envVars, jobVars, loopVars, txVars, PCs, Holding, InTx, Ended
<1>1. CASE Finish(j)
  BY <1>1 DEF Finish
<1>2. CASE MonthFails(j)
  BY <1>2 DEF MonthFails
<1>3. CASE Sigterm(j)
  BY <1>3 DEF Sigterm
<1>4. CASE OrphanCommits(j)
  BY <1>4, EndTxType, CommittedType DEF OrphanCommits
<1>5. CASE LoseLockSession(j)
  BY <1>5 DEF LoseLockSession
<1>6. CASE Crash(j)
  BY <1>6, EndTxType, CommittedType DEF Crash
<1> QED
  BY <1>1, <1>2, <1>3, <1>4, <1>5, <1>6 DEF Outside

LEMMA NextType == TypeInv /\ [Next]_vars => TypeInv'
<1> SUFFICES ASSUME TypeInv, [Next]_vars PROVE TypeInv'
  OBVIOUS
<1>1. CASE Environment
  BY <1>1, EnvironmentType
<1>2. CASE \E j \in Jobs : RangeStep(j)
  BY <1>2, RangeStepType
<1>3. CASE \E j \in Jobs : Finish(j) \/ MonthFails(j) \/ Outside(j) \/ Crash(j)
  BY <1>3, OtherStepType
<1>4. CASE UNCHANGED vars
  BY <1>4 DEF TypeInv, TypeOK, TxHasDay, vars, envVars, jobVars, loopVars, txVars
<1> QED
  BY <1>1, <1>2, <1>3, <1>4 DEF Next

\* Every variable keeps the shape the code gives it, whatever the environment
\* does to the jobs.
THEOREM TypeCorrect == Spec => []TypeOK
<1>1. TypeInv => TypeOK
  BY DEF TypeInv
<1> QED
  BY InitType, NextType, <1>1, PTL DEF Spec

-----------------------------------------------------------------------------
(* Mutual exclusion                                                        *)

\* Postgres does not end the idle session that holds the advisory lock.
SessionKept == "lock_session_lost" \notin Faults

\* A job that keeps out of the critical section, or moves within it, without
\* touching the lock.
LEMMA LockUntouched ==
  ASSUME LockOwned, NEW j \in Jobs, UNCHANGED lock,
         \A k \in Jobs \ {j} : pc'[k] = pc[k],
         pc'[j] \in Holding => pc[j] \in Holding
  PROVE  LockOwned'
  BY DEF LockOwned

\* A job that leaves the critical section and frees the lock if it has it.
LEMMA LockFreed ==
  ASSUME LockOwned, NEW j \in Jobs,
         lock' = IF lock = j THEN NoJob ELSE lock,
         \A k \in Jobs \ {j} : pc'[k] = pc[k],
         pc'[j] \notin Holding
  PROVE  LockOwned'
  BY DEF LockOwned

LEMMA NextLock ==
  ASSUME SessionKept, TypeOK, LockOwned, [Next]_vars
  PROVE  LockOwned'
<1> USE DEF Goto, Stop
<1>0. pc \in [ Jobs -> PCs ]
  BY DEF TypeOK
<1>1. CASE Environment \/ UNCHANGED vars
  BY <1>1 DEF Environment, NextDay, CollectorWrites, RelabelFact, vars, LockOwned
<1>2. ASSUME NEW j \in Jobs, TakeLock(j) PROVE LockOwned'
  BY <1>0, <1>2, JobAssumption DEF TakeLock, LockOwned
<1>3. ASSUME NEW j \in Jobs, Invoke(j) \/ LockIsHeld(j) \/ LockFails(j)
      PROVE  LockOwned'
  BY <1>0, <1>3, LockUntouched
     DEF Invoke, LockIsHeld, LockFails, Holding, InTx
<1>4. ASSUME NEW j \in Jobs, Plan(j) \/ PlanFails(j) \/ StopCancelled(j) \/ EndRange(j)
      PROVE  LockOwned'
  <2>1. pc[j] \in Holding /\ UNCHANGED lock
    BY <1>4 DEF Plan, PlanFails, StopCancelled, EndRange, Holding
  <2>2. \A k \in Jobs \ {j} : pc'[k] = pc[k]
    BY <1>0, <1>4 DEF Plan, PlanFails, StopCancelled, EndRange
  <2> QED
    BY <2>1, <2>2, LockUntouched
<1>5. ASSUME NEW j \in Jobs,
             \/ BeginDay(j) \/ DeleteDay(j) \/ InsertDay(j)
             \/ CountDay(j) \/ CommitDay(j) \/ DayFails(j)
      PROVE  LockOwned'
  <2>1. pc[j] \in Holding /\ UNCHANGED lock
    BY <1>5 DEF BeginDay, DeleteDay, InsertDay, CountDay, CommitDay, DayFails,
                Holding, InTx
  <2>2. \A k \in Jobs \ {j} : pc'[k] = pc[k]
    BY <1>0, <1>5 DEF BeginDay, DeleteDay, InsertDay, CountDay, CommitDay, DayFails, txVars
  <2> QED
    BY <2>1, <2>2, LockUntouched
<1>6. ASSUME NEW j \in Jobs, Finish(j) \/ MonthFails(j) PROVE LockOwned'
  BY <1>0, <1>6, LockUntouched DEF Finish, MonthFails, Holding
<1>7. ASSUME NEW j \in Jobs, Release(j) PROVE LockOwned'
  BY <1>0, <1>7, LockFreed DEF Release, Holding, InTx
<1>8. ASSUME NEW j \in Jobs, Sigterm(j) \/ OrphanCommits(j) PROVE LockOwned'
  BY <1>0, <1>8, LockUntouched DEF Sigterm, OrphanCommits, Holding, InTx
<1>9. ASSUME NEW j \in Jobs, LoseLockSession(j) PROVE LockOwned'
  BY <1>9 DEF LoseLockSession, SessionKept
<1>10. ASSUME NEW j \in Jobs, Crash(j) PROVE LockOwned'
  BY <1>0, <1>10, LockFreed DEF Crash, Holding, InTx
<1> QED
  BY <1>1, <1>2, <1>3, <1>4, <1>5, <1>6, <1>7, <1>8, <1>9, <1>10
     DEF Next, RangeStep, Outside

LEMMA InitLock == Init => LockOwned
  BY DEF Init, LockOwned, Holding, InTx

LEMMA OwnedExcludes == LockOwned => LockExcludes
  BY DEF LockOwned, LockExcludes

\* At most one job is past TryAdvisoryLock and short of Release, for any
\* number of jobs and whatever signals, crashes and failures they meet, as
\* long as the session that holds the lock lives.
THEOREM MutualExclusion == ASSUME SessionKept PROVE Spec => []LockExcludes
<1>1. TypeInv => TypeOK
  BY DEF TypeInv
<1>2. TypeInv /\ LockOwned /\ [Next]_vars => LockOwned'
  BY <1>1, NextLock
<1> QED
  BY <1>2, InitType, NextType, InitLock, OwnedExcludes, PTL DEF Spec

-----------------------------------------------------------------------------
(* One projection per day                                                  *)

\* The server does not commit for a client that is already gone.
NoLateCommit == "orphan_commit" \notin Faults

NoOrphan == \A j \in Jobs : pc[j] # "orphan"

DayInv == TypeInv /\ LockOwned /\ NoOrphan /\ TxReplacesDay /\ OneProjectionPerDay

\* While one job is past the lock, no other has an open transaction.
LEMMA SoleTx ==
  ASSUME LockOwned, NEW j \in Jobs, pc[j] \in Holding, NEW k \in Jobs \ {j}
  PROVE  pc[k] \notin InTx
  BY DEF LockOwned, Holding

\* A job without a transaction does not notice what is committed.
LEMMA IdleTx ==
  ASSUME NEW k \in Jobs, pc'[k] \notin InTx,
         snap'[k] = {}, gone'[k] = {}, ins'[k] = {}
  PROVE  ReplacesDay(k)'
  BY DEF ReplacesDay, InTx, AfterDelete, AfterInsert

\* A step that leaves the table and k's transaction alone.
LEMMA FrameTx ==
  ASSUME NEW k \in Jobs, ReplacesDay(k), UNCHANGED daily,
         UNCHANGED << pc[k], day[k], snap[k], gone[k], ins[k] >>
  PROVE  ReplacesDay(k)'
  BY DEF ReplacesDay, RowsOf

\* k has no transaction and keeps none, whatever happens to the table.
LEMMA OutsideTx ==
  ASSUME NEW k \in Jobs, ReplacesDay(k), pc[k] \notin InTx, pc'[k] \notin InTx,
         UNCHANGED << snap[k], gone[k], ins[k] >>
  PROVE  ReplacesDay(k)'
<1>1. snap[k] = {} /\ gone[k] = {} /\ ins[k] = {}
  BY DEF ReplacesDay, InTx, AfterDelete, AfterInsert
<1> QED
  BY <1>1, IdleTx

\* One row per tuple: what GROUP BY gives.
LEMMA ProjectionUnique ==
  ASSUME NEW d, NEW j
  PROVE  /\ \A r \in Projection(d, j) : r.day = d /\ r.by = j
         /\ \A r, s \in Projection(d, j) : r.dim = s.dim => r = s
  BY DEF Projection

\* The committed transaction replaces its whole day by one projection.
LEMMA CommitKeepsOneProjection ==
  ASSUME NEW j \in Jobs, ReplacesDay(j), pc[j] = "committing",
         OneProjectionPerDay, daily' = Committed(j)
  PROVE  OneProjectionPerDay'
<1>1. gone[j] = RowsOf(day[j])
  BY DEF ReplacesDay, AfterDelete
<1>2. SUFFICES ASSUME NEW r \in daily', NEW s \in daily', r.day = s.day
               PROVE  r.by = s.by /\ (r.dim = s.dim => r = s)
  BY DEF OneProjectionPerDay
<1>3. \A x \in daily' : \/ /\ x \in daily
                            /\ x.day # day[j]
                         \/ /\ x \in ins[j]
                            /\ x.day = day[j]
                            /\ x.by = j
  BY <1>1 DEF Committed, RowsOf, ReplacesDay
<1>4. CASE r \in daily /\ s \in daily
  BY <1>2, <1>4 DEF OneProjectionPerDay
<1>5. CASE r \in ins[j] /\ s \in ins[j]
  BY <1>2, <1>5 DEF ReplacesDay
<1> QED
  BY <1>2, <1>3, <1>4, <1>5

\* What EndTx leaves of j's transaction and of the others'.
LEMMA EndTxClears ==
  ASSUME TypeOK, NEW j \in Jobs, EndTx(j)
  PROVE  /\ snap'[j] = {} /\ gone'[j] = {} /\ ins'[j] = {}
         /\ \A k \in Jobs \ {j} :
              UNCHANGED << day[k], snap[k], gone[k], ins[k] >>
  BY DEF TypeOK, EndTx

\* A step of j that may end j's transaction, and does nothing else to the
\* transactions.
LEMMA TxEnds ==
  ASSUME DayInv, NEW j \in Jobs, pc[j] \in Holding, pc'[j] \notin InTx, EndTx(j),
         \A k \in Jobs \ {j} : pc'[k] = pc[k]
  PROVE  TxReplacesDay'
<1>1. ReplacesDay(j)'
  BY EndTxClears, IdleTx DEF DayInv, TypeInv
<1>2. ASSUME NEW k \in Jobs \ {j} PROVE ReplacesDay(k)'
  <2>1. pc[k] \notin InTx
    BY SoleTx DEF DayInv
  <2>2. UNCHANGED << snap[k], gone[k], ins[k] >>
    BY EndTxClears DEF DayInv, TypeInv
  <2> QED
    BY <2>1, <2>2, OutsideTx DEF DayInv, TxReplacesDay
<1> QED
  BY <1>1, <1>2 DEF TxReplacesDay

\* A step that leaves the table and every transaction alone, and begins or
\* ends none.
LEMMA TxUntouched ==
  ASSUME DayInv, UNCHANGED daily, UNCHANGED txVars,
         \A k \in Jobs : pc'[k] = pc[k] \/ (pc[k] \notin InTx /\ pc'[k] \notin InTx)
  PROVE  TxReplacesDay' /\ OneProjectionPerDay'
<1>1. OneProjectionPerDay'
  BY DEF DayInv, OneProjectionPerDay
<1>2. ASSUME NEW k \in Jobs PROVE ReplacesDay(k)'
  <2>1. ReplacesDay(k) /\ UNCHANGED << day[k], snap[k], gone[k], ins[k] >>
    BY DEF DayInv, TxReplacesDay, txVars
  <2>2. CASE pc'[k] = pc[k]
    BY <2>1, <2>2, FrameTx
  <2>3. CASE pc[k] \notin InTx /\ pc'[k] \notin InTx
    BY <2>1, <2>3, OutsideTx
  <2> QED
    BY <2>2, <2>3
<1> QED
  BY <1>1, <1>2 DEF TxReplacesDay

\* A statement of j's transaction touches j's transaction only.
LEMMA TxAdvances ==
  ASSUME DayInv, NEW j \in Jobs, UNCHANGED daily, ReplacesDay(j)',
         \A k \in Jobs \ {j} :
           UNCHANGED << pc[k], day[k], snap[k], gone[k], ins[k] >>
  PROVE  TxReplacesDay' /\ OneProjectionPerDay'
<1>1. \A k \in Jobs \ {j} : ReplacesDay(k)'
  BY FrameTx DEF DayInv, TxReplacesDay
<1> QED
  BY <1>1 DEF TxReplacesDay, OneProjectionPerDay, DayInv

\* BEGIN and the four statements of RollupDay.
LEMMA StatementTx ==
  ASSUME DayInv, NEW j \in Jobs,
         BeginDay(j) \/ DeleteDay(j) \/ InsertDay(j) \/ CountDay(j)
  PROVE  TxReplacesDay' /\ OneProjectionPerDay'
<1> USE DEF Goto
<1>1. /\ pc \in [ Jobs -> PCs ] /\ day \in [ Jobs -> Days \cup {NoDay} ]
      /\ snap \in [ Jobs -> SUBSET Row ] /\ gone \in [ Jobs -> SUBSET Row ]
      /\ ins \in [ Jobs -> SUBSET Row ]
  BY DEF DayInv, TypeInv, TypeOK
<1>2. ReplacesDay(j)
  BY DEF DayInv, TxReplacesDay
<1>3. UNCHANGED daily
  BY DEF BeginDay, DeleteDay, InsertDay, CountDay, txVars
<1>4. \A k \in Jobs \ {j} : UNCHANGED << pc[k], day[k], snap[k], gone[k], ins[k] >>
  BY <1>1 DEF BeginDay, DeleteDay, InsertDay, CountDay, txVars
<1>5. CASE BeginDay(j)
  <2>1. gone[j] = {} /\ ins[j] = {}
    BY <1>2, <1>5 DEF BeginDay, ReplacesDay, AfterDelete, AfterInsert
  <2>2. snap'[j] = RowsOf(day'[j]) /\ pc'[j] = "deleting"
    BY <1>1, <1>5 DEF BeginDay
  <2>3. ReplacesDay(j)'
    BY <1>3, <1>5, <2>1, <2>2
       DEF BeginDay, ReplacesDay, RowsOf, InTx, AfterDelete, AfterInsert
  <2> QED
    BY <1>3, <1>4, <2>3, TxAdvances
<1>6. CASE DeleteDay(j)
  <2>1. snap[j] = RowsOf(day[j]) /\ ins[j] = {}
    BY <1>2, <1>6 DEF DeleteDay, ReplacesDay, InTx, AfterInsert
  <2>2. gone'[j] = RowsOf(day[j])
    BY <1>1, <1>6, <2>1 DEF DeleteDay, RowsOf
  <2>3. ReplacesDay(j)'
    BY <1>1, <1>3, <1>6, <2>1, <2>2
       DEF DeleteDay, ReplacesDay, RowsOf, InTx, AfterDelete, AfterInsert
  <2> QED
    BY <1>3, <1>4, <2>3, TxAdvances
<1>7. CASE InsertDay(j)
  <2>1. snap[j] = RowsOf(day[j]) /\ gone[j] = RowsOf(day[j])
    BY <1>2, <1>7 DEF InsertDay, ReplacesDay, InTx, AfterDelete
  <2>2. /\ \A r \in ins'[j] : r.day = day[j] /\ r.by = j
        /\ \A r, s \in ins'[j] : r.dim = s.dim => r = s
    BY <1>1, <1>7, ProjectionUnique DEF InsertDay
  <2>3. ReplacesDay(j)'
    BY <1>1, <1>3, <1>7, <2>1, <2>2
       DEF InsertDay, ReplacesDay, RowsOf, InTx, AfterDelete, AfterInsert
  <2> QED
    BY <1>3, <1>4, <2>3, TxAdvances
<1>8. CASE CountDay(j)
  <2>1. ReplacesDay(j)'
    BY <1>1, <1>2, <1>3, <1>8
       DEF CountDay, txVars, ReplacesDay, RowsOf, InTx, AfterDelete, AfterInsert
  <2> QED
    BY <1>3, <1>4, <2>1, TxAdvances
<1> QED
  BY <1>5, <1>6, <1>7, <1>8

\* COMMIT, a failed statement, a crash.
LEMMA EndingTx ==
  ASSUME NoLateCommit, DayInv, NEW j \in Jobs, CommitDay(j) \/ DayFails(j) \/ Crash(j)
  PROVE  TxReplacesDay' /\ OneProjectionPerDay'
<1> USE DEF Goto, Stop
<1>1. pc \in [ Jobs -> PCs ]
  BY DEF DayInv, TypeInv, TypeOK
<1>2. \A k \in Jobs \ {j} : pc'[k] = pc[k]
  BY <1>1 DEF CommitDay, DayFails, Crash
<1>3. pc'[j] \notin InTx /\ EndTx(j)
  BY <1>1 DEF CommitDay, DayFails, Crash, InTx, NoLateCommit
<1>4. OneProjectionPerDay'
  <2>1. CASE UNCHANGED daily
    BY <2>1 DEF DayInv, OneProjectionPerDay
  <2>2. CASE pc[j] = "committing" /\ daily' = Committed(j)
    BY <2>2, CommitKeepsOneProjection DEF DayInv, TxReplacesDay
  <2> QED
    BY <2>1, <2>2 DEF CommitDay, DayFails, Crash, NoLateCommit
<1>5. CASE pc[j] \in Holding
  BY <1>2, <1>3, <1>4, <1>5, TxEnds
<1>6. CASE pc[j] \notin Holding
  <2>1. Crash(j) /\ pc[j] = "locking"
    BY <1>6 DEF CommitDay, DayFails, Crash, Holding, InTx
  <2>2. UNCHANGED daily
    BY <2>1 DEF Crash
  <2>3. ReplacesDay(j)'
    BY <1>3, EndTxClears, IdleTx DEF DayInv, TypeInv
  <2>4. \A k \in Jobs \ {j} : UNCHANGED << pc[k], day[k], snap[k], gone[k], ins[k] >>
    BY <1>2, <1>3, EndTxClears DEF DayInv, TypeInv
  <2> QED
    BY <2>2, <2>3, <2>4, TxAdvances
<1> QED
  BY <1>5, <1>6

\* The steps between transactions.
LEMMA BetweenTx ==
  ASSUME DayInv, NEW j \in Jobs,
         \/ Invoke(j) \/ TakeLock(j) \/ LockIsHeld(j) \/ LockFails(j)
         \/ Plan(j) \/ PlanFails(j) \/ StopCancelled(j) \/ EndRange(j)
         \/ Finish(j) \/ MonthFails(j) \/ Release(j)
         \/ Sigterm(j) \/ LoseLockSession(j)
  PROVE  TxReplacesDay' /\ OneProjectionPerDay'
<1> USE DEF Goto, Stop
<1>1. pc \in [ Jobs -> PCs ]
  BY DEF DayInv, TypeInv, TypeOK
<1>2. UNCHANGED daily /\ UNCHANGED txVars
  BY DEF Invoke, TakeLock, LockIsHeld, LockFails, Plan, PlanFails, StopCancelled,
         EndRange, Finish, MonthFails, Release, Sigterm, LoseLockSession
<1>3. \A k \in Jobs : pc'[k] = pc[k] \/ (pc[k] \notin InTx /\ pc'[k] \notin InTx)
  BY <1>1 DEF Invoke, TakeLock, LockIsHeld, LockFails, Plan, PlanFails, StopCancelled,
         EndRange, Finish, MonthFails, Release, Sigterm, LoseLockSession, InTx
<1> QED
  BY <1>2, <1>3, TxUntouched

\* Without a late COMMIT nothing is ever waiting for one.
LEMMA NextNoOrphan ==
  ASSUME NoLateCommit, TypeOK, NoOrphan, [Next]_vars
  PROVE  NoOrphan'
<1> USE DEF Goto, Stop
<1>1. pc \in [ Jobs -> PCs ]
  BY DEF TypeOK
<1>2. CASE Environment \/ UNCHANGED vars
  BY <1>2 DEF Environment, NextDay, CollectorWrites, RelabelFact, vars, NoOrphan
<1>3. ASSUME NEW j \in Jobs, RangeStep(j) PROVE NoOrphan'
  BY <1>1, <1>3 DEF RangeStep, Invoke, TakeLock, LockIsHeld, LockFails, Plan, PlanFails,
       BeginDay, DeleteDay, InsertDay, CountDay, CommitDay, DayFails, StopCancelled,
       EndRange, Release, NoOrphan
<1>4. ASSUME NEW j \in Jobs, Finish(j) \/ MonthFails(j) \/ Outside(j) \/ Crash(j)
      PROVE  NoOrphan'
  BY <1>1, <1>4 DEF Finish, MonthFails, Outside, Sigterm, OrphanCommits,
       LoseLockSession, Crash, NoLateCommit, NoOrphan
<1> QED
  BY <1>2, <1>3, <1>4 DEF Next

LEMMA InitDay == Init => DayInv
<1> SUFFICES ASSUME Init PROVE DayInv
  OBVIOUS
<1>1. TypeInv /\ LockOwned
  BY InitType, InitLock
<1>2. NoOrphan /\ OneProjectionPerDay
  BY DEF Init, NoOrphan, OneProjectionPerDay
<1>3. TxReplacesDay
  BY DEF Init, TxReplacesDay, ReplacesDay, InTx, AfterDelete, AfterInsert
<1> QED
  BY <1>1, <1>2, <1>3 DEF DayInv

LEMMA NextDayInv ==
  ASSUME SessionKept, NoLateCommit, DayInv, [Next]_vars
  PROVE  DayInv'
<1>1. TypeInv'
  BY NextType DEF DayInv
<1>2. LockOwned'
  BY NextLock DEF DayInv, TypeInv
<1>3. NoOrphan'
  BY NextNoOrphan DEF DayInv, TypeInv
<1>4. TxReplacesDay' /\ OneProjectionPerDay'
  <2>1. CASE Environment \/ UNCHANGED vars
    <3>1. UNCHANGED daily /\ UNCHANGED txVars /\ UNCHANGED pc
      BY <2>1 DEF Environment, NextDay, CollectorWrites, RelabelFact, vars
    <3> QED
      BY <3>1, TxUntouched
  <2>2. ASSUME NEW j \in Jobs,
               BeginDay(j) \/ DeleteDay(j) \/ InsertDay(j) \/ CountDay(j)
        PROVE  TxReplacesDay' /\ OneProjectionPerDay'
    BY <2>2, StatementTx
  <2>3. ASSUME NEW j \in Jobs, CommitDay(j) \/ DayFails(j) \/ Crash(j)
        PROVE  TxReplacesDay' /\ OneProjectionPerDay'
    BY <2>3, EndingTx
  <2>4. ASSUME NEW j \in Jobs,
               \/ Invoke(j) \/ TakeLock(j) \/ LockIsHeld(j) \/ LockFails(j)
               \/ Plan(j) \/ PlanFails(j) \/ StopCancelled(j) \/ EndRange(j)
               \/ Finish(j) \/ MonthFails(j) \/ Release(j)
               \/ Sigterm(j) \/ LoseLockSession(j)
        PROVE  TxReplacesDay' /\ OneProjectionPerDay'
    BY <2>4, BetweenTx
  <2>5. ASSUME NEW j \in Jobs, OrphanCommits(j) PROVE FALSE
    BY <2>5 DEF OrphanCommits, DayInv, NoOrphan
  <2> QED
    BY <2>1, <2>2, <2>3, <2>4, <2>5 DEF Next, RangeStep, Outside
<1> QED
  BY <1>1, <1>2, <1>3, <1>4 DEF DayInv

\* Every committed day is one transaction's projection with one row per tuple,
\* so that no total over the rollup counts a fact twice: for any number of
\* jobs, days and tuples and through failures, signals and crashes, as long as
\* the lock's session lives and no client dies between sending its COMMIT and
\* the server carrying it out.
THEOREM OneProjection ==
  ASSUME SessionKept, NoLateCommit PROVE Spec => []OneProjectionPerDay
<1>1. DayInv /\ [Next]_vars => DayInv'
  BY NextDayInv
<1>2. DayInv => OneProjectionPerDay
  BY DEF DayInv
<1> QED
  BY <1>1, <1>2, InitDay, PTL DEF Spec

\* Under the same assumptions, an open transaction has deleted the whole
\* committed day, and what it inserted is one projection of that day.
THEOREM WholeDayReplaced ==
  ASSUME SessionKept, NoLateCommit PROVE Spec => []TxReplacesDay
<1>1. DayInv /\ [Next]_vars => DayInv'
  BY NextDayInv
<1>2. DayInv => TxReplacesDay
  BY DEF DayInv
<1> QED
  BY <1>1, <1>2, InitDay, PTL DEF Spec
=============================================================================
