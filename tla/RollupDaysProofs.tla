--------------------------- MODULE RollupDaysProofs ---------------------------
(***************************************************************************)
(* Proofs of what the rollup's readers see.  No day is ever lost: that     *)
(* needs no assumption about the environment, and holds even when the lock *)
(* session is lost and when the server commits for a client that is gone.  *)
(* And the rollup implements DailyTable, under named assumptions.          *)
(***************************************************************************)
EXTENDS RollupJobProofs

-----------------------------------------------------------------------------
(* A day that has rows keeps having rows                                   *)

\* The days of a job have facts, its transaction touches the rows of its day
\* only, and once it has inserted it has inserted something.
Present(j) ==
  /\ \A d \in todo[j] : HasFacts(d)
  /\ pc[j] \in InTx \cup {"orphan"} => HasFacts(day[j])
  /\ pc[j] \notin InTx \cup {"orphan"} => snap[j] = {} /\ gone[j] = {} /\ ins[j] = {}
  /\ \A r \in snap[j] \cup gone[j] \cup ins[j] : r.day = day[j]
  /\ pc[j] \in AfterInsert \cup {"orphan"} => ins[j] # {}

AllPresent == \A j \in Jobs : Present(j)

\* Facts are added, and a relabelled one stays on its day.
LEMMA FactsStay ==
  ASSUME TypeInv, [Next]_vars, NEW d \in Days, HasFacts(d)
  PROVE  HasFacts(d)'
<1>1. PICK g \in Dims : facts[d][g] > 0
  BY DEF HasFacts
<1>2. facts \in [ Days -> [ Dims -> Nat ] ]
  BY DEF TypeInv, TypeOK
<1>3. CASE UNCHANGED facts
  BY <1>3 DEF HasFacts
<1>4. CASE CollectorWrites
  <2>1. PICK e \in { today, today - 1 } \cap FactDays, G \in (SUBSET Dims) \ {{}} :
          /\ \A h \in G : facts[e][h] < MaxWindows
          /\ facts' = [ facts EXCEPT ![e] =
                          [ h \in Dims |-> IF h \in G THEN @[h] + 1 ELSE @[h] ] ]
          /\ UNCHANGED << today, daily, lock, pc, jobVars, loopVars, txVars >>
    BY <1>4, Zenon DEF CollectorWrites
  <2>2. facts'[d][g] >= facts[d][g]
    BY <1>2, <2>1
  <2> QED
    BY <1>1, <1>2, <2>1, <2>2 DEF HasFacts
<1>5. CASE RelabelFact
  <2>1. PICK e \in Days, g1 \in Dims, h1 \in Dims :
          /\ g1 # h1 /\ facts[e][g1] > 0 /\ facts[e][h1] < MaxWindows
          /\ facts' = [ facts EXCEPT ![e][g1] = @ - 1, ![e][h1] = @ + 1 ]
    BY <1>5 DEF RelabelFact
  <2>2. CASE e = d
    <3>1. facts'[d][h1] = facts[d][h1] + 1
      BY <1>2, <2>1, <2>2
    <3> QED
      BY <1>2, <3>1 DEF HasFacts
  <2>3. CASE e # d
    BY <1>1, <1>2, <2>1, <2>3 DEF HasFacts
  <2> QED
    BY <2>2, <2>3
<1>6. CASE UNCHANGED vars \/ NextDay \/ \E j \in Jobs : RangeStep(j)
  BY <1>3, <1>6 DEF vars, envVars, NextDay, RangeStep, Invoke, TakeLock, LockIsHeld,
       LockFails, Plan, PlanFails, BeginDay, DeleteDay, InsertDay, CountDay, CommitDay,
       DayFails, StopCancelled, EndRange, Release
<1>7. CASE \E j \in Jobs : Finish(j) \/ MonthFails(j) \/ Outside(j) \/ Crash(j)
  BY <1>3, <1>7 DEF envVars, Finish, MonthFails, Outside, Sigterm, OrphanCommits,
       LoseLockSession, Crash
<1> QED
  BY <1>4, <1>5, <1>6, <1>7 DEF Next, Environment

\* A step that leaves k's list and transaction alone.
LEMMA FramePresent ==
  ASSUME TypeInv, [Next]_vars, NEW k \in Jobs, Present(k),
         UNCHANGED << todo[k], day[k], snap[k], gone[k], ins[k] >>,
         pc'[k] = pc[k] \/ (/\ pc[k] \notin InTx \cup {"orphan"}
                             /\ pc'[k] \notin InTx \cup {"orphan"})
  PROVE  Present(k)'
<1>1. todo[k] \subseteq Days /\ (pc[k] \in InTx \cup {"orphan"} => day[k] \in Days)
  BY DEF TypeInv, TypeOK, TxHasDay
<1>2. /\ \A d \in todo'[k] : HasFacts(d)'
      /\ pc'[k] \in InTx \cup {"orphan"} => HasFacts(day[k])'
  BY <1>1, FactsStay DEF Present
<1>3. pc'[k] \in AfterInsert \cup {"orphan"} => ins'[k] # {}
  BY DEF Present, AfterInsert, InTx
<1> QED
  BY <1>2, <1>3 DEF Present

\* A job whose transaction is over.
LEMMA EndedPresent ==
  ASSUME TypeInv, [Next]_vars, NEW j \in Jobs, Present(j), EndTx(j),
         UNCHANGED todo, pc'[j] \notin InTx \cup {"orphan"}
  PROVE  Present(j)'
<1>1. todo[j] \subseteq Days
  BY DEF TypeInv, TypeOK
<1>2. snap'[j] = {} /\ gone'[j] = {} /\ ins'[j] = {}
  BY EndTxClears DEF TypeInv
<1>3. \A d \in todo'[j] : HasFacts(d)'
  BY <1>1, FactsStay DEF Present
<1> QED
  BY <1>2, <1>3 DEF Present, AfterInsert, InTx

\* What a step of j leaves of the others.
LEMMA OthersFramed ==
  ASSUME TypeInv, NEW j \in Jobs,
         RangeStep(j) \/ Finish(j) \/ MonthFails(j) \/ Outside(j) \/ Crash(j),
         NEW k \in Jobs \ {j}
  PROVE  UNCHANGED << pc[k], days[k], todo[k], failures[k], code[k], day[k], snap[k],
                      gone[k], ins[k] >>
<1> USE DEF TypeInv, TypeOK, Goto, Stop, jobVars, loopVars, txVars
<1>1. CASE Invoke(j) \/ TakeLock(j) \/ LockIsHeld(j) \/ LockFails(j) \/ Release(j)
  BY <1>1 DEF Invoke, TakeLock, LockIsHeld, LockFails, Release
<1>2. CASE Plan(j)
  BY <1>2 DEF Plan
<1>3. CASE PlanFails(j) \/ StopCancelled(j) \/ EndRange(j) \/ Finish(j) \/ MonthFails(j)
  BY <1>3 DEF PlanFails, StopCancelled, EndRange, Finish, MonthFails
<1>4. CASE BeginDay(j) \/ DeleteDay(j) \/ InsertDay(j) \/ CountDay(j)
  BY <1>4 DEF BeginDay, DeleteDay, InsertDay, CountDay, txVars
<1>5. CASE CommitDay(j)
  BY <1>5, EndTxClears DEF CommitDay
<1>6. CASE DayFails(j)
  BY <1>6, EndTxClears DEF DayFails
<1>7. CASE Sigterm(j) \/ LoseLockSession(j)
  BY <1>7 DEF Sigterm, LoseLockSession
<1>8. CASE OrphanCommits(j)
  BY <1>8, EndTxClears DEF OrphanCommits
<1>9. CASE Crash(j)
  <2>1. EndTx(j) \/ UNCHANGED txVars
    BY <1>9 DEF Crash
  <2>2. UNCHANGED << day[k], snap[k], gone[k], ins[k] >>
    BY <2>1, EndTxClears
  <2> QED
    BY <1>9, <2>2 DEF Crash
<1> QED
  BY <1>1, <1>2, <1>3, <1>4, <1>5, <1>6, <1>7, <1>8, <1>9 DEF RangeStep, Outside

\* What the statements of j's own transaction make of it.
LEMMA StatementPresent ==
  ASSUME TypeInv, [Next]_vars, NEW j \in Jobs, Present(j),
         BeginDay(j) \/ DeleteDay(j) \/ InsertDay(j) \/ CountDay(j)
  PROVE  Present(j)'
<1> USE DEF Goto
<1>0. /\ pc \in [ Jobs -> PCs ] /\ day \in [ Jobs -> Days \cup {NoDay} ]
      /\ todo \in [ Jobs -> SUBSET Days ]
      /\ snap \in [ Jobs -> SUBSET Row ] /\ gone \in [ Jobs -> SUBSET Row ]
      /\ ins \in [ Jobs -> SUBSET Row ] /\ TxHasDay
  BY DEF TypeInv, TypeOK
<1>1. \A d \in todo[j] : d \in Days /\ HasFacts(d)
  BY <1>0 DEF Present
<1>2. CASE BeginDay(j)
  <2>1. PICK d \in todo[j] : /\ day' = [ day EXCEPT ![j] = d ]
                             /\ snap' = [ snap EXCEPT ![j] = RowsOf(d) ]
                             /\ todo' = [ todo EXCEPT ![j] = @ \ {d} ]
    BY <1>2 DEF BeginDay
  <2>2. HasFacts(day[j])' /\ \A e \in todo'[j] : HasFacts(e)'
    BY <1>0, <1>1, <2>1, FactsStay
  <2>3. pc'[j] = "deleting" /\ gone'[j] = gone[j] /\ ins'[j] = ins[j]
    BY <1>0, <1>2 DEF BeginDay
  <2>4. gone[j] = {} /\ ins[j] = {}
    BY <1>2 DEF BeginDay, Present, InTx
  <2> QED
    BY <1>0, <2>1, <2>2, <2>3, <2>4 DEF Present, RowsOf, AfterInsert, InTx
<1>3. CASE DeleteDay(j) \/ CountDay(j)
  <2>1. UNCHANGED << todo, day, snap, ins >>
    BY <1>3 DEF DeleteDay, CountDay, txVars, loopVars
  <2>2. gone'[j] \subseteq snap[j] \cup gone[j]
    BY <1>0, <1>3 DEF DeleteDay, CountDay, txVars
  <2>3. /\ pc[j] \in InTx /\ pc'[j] \in InTx
        /\ pc'[j] \in AfterInsert \cup {"orphan"} => pc[j] \in AfterInsert
    BY <1>0, <1>3 DEF DeleteDay, CountDay, txVars, InTx, AfterInsert
  <2>4. HasFacts(day[j])' /\ \A e \in todo'[j] : HasFacts(e)'
    BY <1>0, <1>1, <2>1, <2>3, FactsStay DEF Present, TxHasDay
  <2> QED
    BY <2>1, <2>2, <2>3, <2>4 DEF Present
<1>4. CASE InsertDay(j)
  <2>1. UNCHANGED << todo, day, snap, gone >> /\ pc[j] \in InTx
    BY <1>4 DEF InsertDay, InTx, loopVars
  <2>2. HasFacts(day[j])' /\ \A e \in todo'[j] : HasFacts(e)'
    BY <1>0, <1>1, <2>1, FactsStay DEF Present, TxHasDay
  <2>3. ins'[j] = Projection(day[j], j) /\ pc'[j] = "counting"
    BY <1>0, <1>4 DEF InsertDay
  <2>4. ins'[j] # {}
    BY <2>1, <2>3 DEF Present, HasFacts, Projection
  <2>5. \A r \in ins'[j] : r.day = day[j]
    BY <2>3, ProjectionUnique
  <2>6. pc'[j] \in InTx
    BY <2>3 DEF InTx
  <2> QED
    BY <2>1, <2>2, <2>4, <2>5, <2>6 DEF Present
<1> QED
  BY <1>2, <1>3, <1>4

\* Planning lists days that have facts.
LEMMA PlanPresent ==
  ASSUME TypeInv, [Next]_vars, NEW j \in Jobs, Present(j), Plan(j)
  PROVE  Present(j)'
<1> USE DEF Goto, Stop
<1>1. pc \in [ Jobs -> PCs ] /\ todo \in [ Jobs -> SUBSET Days ] /\ days \in [ Jobs -> SUBSET Days ]
  BY DEF TypeInv, TypeOK
<1>2. pc[j] \notin InTx \cup {"orphan"} /\ pc'[j] \notin InTx \cup {"orphan"}
  BY <1>1 DEF Plan, InTx
<1>3. UNCHANGED << day, snap, gone, ins, facts >>
  BY DEF Plan, txVars, envVars
<1> DEFINE listed == { d \in Asked(Resolve(opts[j])) : HasFacts(d) }
<1>4. \/ todo' = todo
      \/ /\ days' = [ days EXCEPT ![j] = listed ]
         /\ todo' = [ todo EXCEPT ![j] = days'[j] ]
  BY DEF Plan
<1>5. \A d \in todo'[j] : HasFacts(d)
  <2>1. \A d \in listed : HasFacts(d)
    OBVIOUS
  <2> HIDE DEF listed
  <2> QED
    BY <1>1, <1>4, <2>1 DEF Present
<1>6. \A d \in todo'[j] : HasFacts(d)'
  BY <1>3, <1>5 DEF HasFacts
<1> QED
  BY <1>2, <1>3, <1>6 DEF Present, AfterInsert, InTx

LEMMA NextPresent == ASSUME TypeInv, AllPresent, [Next]_vars PROVE AllPresent'
<1> USE DEF Goto, Stop
<1>0. pc \in [ Jobs -> PCs ] /\ TypeOK
  BY DEF TypeInv, TypeOK
<1>1. CASE Environment \/ UNCHANGED vars
  <2>1. UNCHANGED << pc, todo, day, snap, gone, ins >>
    BY <1>1 DEF Environment, NextDay, CollectorWrites, RelabelFact, vars, loopVars, txVars
  <2> QED
    BY <2>1, FramePresent DEF AllPresent
<1>2. ASSUME NEW j \in Jobs,
             RangeStep(j) \/ Finish(j) \/ MonthFails(j) \/ Outside(j) \/ Crash(j)
      PROVE  AllPresent'
  <2>1. ASSUME NEW k \in Jobs \ {j} PROVE Present(k)'
    BY <1>2, <2>1, OthersFramed, FramePresent DEF AllPresent
  <2>2. Present(j)
    BY DEF AllPresent
  <2>3. ASSUME BeginDay(j) \/ DeleteDay(j) \/ InsertDay(j) \/ CountDay(j)
        PROVE  Present(j)'
    BY <2>2, <2>3, StatementPresent
  <2>4. ASSUME Plan(j) PROVE Present(j)'
    BY <2>2, <2>4, PlanPresent
  <2>5. ASSUME CommitDay(j) \/ DayFails(j) \/ OrphanCommits(j) PROVE Present(j)'
    <3>1. EndTx(j) /\ UNCHANGED todo
      BY <2>5 DEF CommitDay, DayFails, OrphanCommits, loopVars
    <3>2. pc'[j] \notin InTx \cup {"orphan"}
      BY <1>0, <2>5 DEF CommitDay, DayFails, OrphanCommits, InTx
    <3> QED
      BY <2>2, <3>1, <3>2, EndedPresent
  <2>6. ASSUME Crash(j) PROVE Present(j)'
    <3>1. CASE EndTx(j) /\ pc' = [ pc EXCEPT ![j] = "dead" ]
      <4>1. UNCHANGED todo /\ pc'[j] \notin InTx \cup {"orphan"}
        BY <1>0, <2>6, <3>1 DEF Crash, loopVars, InTx
      <4> QED
        BY <2>2, <3>1, <4>1, EndedPresent
    <3>2. CASE /\ pc[j] = "committing" /\ pc' = [ pc EXCEPT ![j] = "orphan" ]
               /\ UNCHANGED << daily, txVars >>
      <4>1. UNCHANGED << todo, day, snap, gone, ins, facts >> /\ pc'[j] = "orphan"
        BY <1>0, <2>6, <3>2 DEF Crash, loopVars, txVars, envVars
      <4>2. \A d \in Days : HasFacts(d) = HasFacts(d)'
        BY <4>1 DEF HasFacts
      <4>3. todo[j] \subseteq Days /\ day[j] \in Days
        BY <3>2 DEF TypeInv, TypeOK, TxHasDay, InTx
      <4> QED
        BY <2>2, <3>2, <4>1, <4>2, <4>3 DEF Present, InTx, AfterInsert
    <3> QED
      BY <2>6, <3>1, <3>2 DEF Crash
  <2>7. ASSUME \/ Invoke(j) \/ TakeLock(j) \/ LockIsHeld(j) \/ LockFails(j)
               \/ PlanFails(j) \/ StopCancelled(j) \/ EndRange(j) \/ Finish(j)
               \/ MonthFails(j) \/ Release(j) \/ Sigterm(j) \/ LoseLockSession(j)
        PROVE  Present(j)'
    <3>1. UNCHANGED << todo, day, snap, gone, ins >>
      BY <2>7 DEF Invoke, TakeLock, LockIsHeld, LockFails, PlanFails, StopCancelled,
           EndRange, Finish, MonthFails, Release, Sigterm, LoseLockSession,
           loopVars, txVars
    <3>2. \/ pc'[j] = pc[j]
          \/ pc[j] \notin InTx \cup {"orphan"} /\ pc'[j] \notin InTx \cup {"orphan"}
      BY <1>0, <2>7 DEF Invoke, TakeLock, LockIsHeld, LockFails, PlanFails, StopCancelled,
           EndRange, Finish, MonthFails, Release, Sigterm, LoseLockSession, InTx
    <3> QED
      BY <2>2, <3>1, <3>2, FramePresent
  <2>8. Present(j)'
    BY <1>2, <2>3, <2>4, <2>5, <2>6, <2>7 DEF RangeStep, Outside
  <2> QED
    BY <2>1, <2>8 DEF AllPresent
<1> QED
  BY <1>1, <1>2 DEF Next

LEMMA InitPresent == Init => AllPresent
  BY DEF Init, AllPresent, Present, InTx, AfterInsert

\* A transaction that commits leaves rows for its day, and takes none from
\* another day.
LEMMA CommitLeavesRows ==
  ASSUME NEW j \in Jobs, Present(j), pc[j] \in { "committing", "orphan" },
         daily' = Committed(j)
  PROVE  /\ \E r \in daily' : r.day = day[j]
         /\ \A d \in Days : RowsOf(d) # {} => RowsOf(d)' # {}
<1>1. PICK r \in ins[j] : r.day = day[j]
  BY DEF Present, AfterInsert
<1>2. r \in daily'
  BY DEF Committed
<1>3. RowsOf(r.day)' # {}
  BY <1>1, <1>2 DEF RowsOf
<1>4. ASSUME NEW d \in Days, RowsOf(d) # {}, d # day[j] PROVE RowsOf(d)' # {}
  <2>1. PICK x \in daily : x.day = d
    BY <1>4 DEF RowsOf
  <2>2. x \in daily'
    BY <1>4, <2>1 DEF Committed, Present
  <2> QED
    BY <2>1, <2>2 DEF RowsOf
<1> QED
  BY <1>1, <1>2, <1>3, <1>4

\* A step changes the rollup by a commit or not at all.
LEMMA OnlyCommitsWrite ==
  ASSUME [Next]_vars
  PROVE  \/ UNCHANGED daily
         \/ \E j \in Jobs : pc[j] \in { "committing", "orphan" } /\ daily' = Committed(j)
<1>1. CASE Environment \/ UNCHANGED vars
  BY <1>1 DEF Environment, NextDay, CollectorWrites, RelabelFact, vars
<1>2. CASE \E j \in Jobs : RangeStep(j)
  BY <1>2 DEF RangeStep, Invoke, TakeLock, LockIsHeld, LockFails, Plan, PlanFails,
       BeginDay, DeleteDay, InsertDay, CountDay, CommitDay, DayFails, StopCancelled,
       EndRange, Release
<1>3. CASE \E j \in Jobs : Finish(j) \/ MonthFails(j) \/ Outside(j) \/ Crash(j)
  BY <1>3 DEF Finish, MonthFails, Outside, Sigterm, OrphanCommits, LoseLockSession, Crash
<1> QED
  BY <1>1, <1>2, <1>3 DEF Next

LEMMA RowsStay ==
  ASSUME AllPresent, [Next]_vars, NEW d \in Days, RowsOf(d) # {}
  PROVE  RowsOf(d)' # {}
<1>1. CASE UNCHANGED daily
  BY <1>1 DEF RowsOf
<1>2. ASSUME NEW j \in Jobs, pc[j] \in { "committing", "orphan" }, daily' = Committed(j)
      PROVE  RowsOf(d)' # {}
  BY <1>2, CommitLeavesRows DEF AllPresent
<1> QED
  BY <1>1, <1>2, OnlyCommitsWrite

\* A reader never finds a day empty that it has seen with rows, even while two
\* jobs rewrite it at once because a lock session was lost.
THEOREM DayStays == Spec => DayNeverVanishes
<1>1. TypeInv /\ AllPresent /\ [Next]_vars =>
        [ \A d \in Days : RowsOf(d) # {} => RowsOf(d)' # {} ]_vars
  BY RowsStay
<1>2. TypeInv /\ AllPresent /\ [Next]_vars => AllPresent'
  BY NextPresent
<1> QED
  BY <1>1, <1>2, InitType, NextType, InitPresent, PTL DEF Spec, DayNeverVanishes

-----------------------------------------------------------------------------
(* A run accounts for every day it listed                                  *)

Ranging == { "loop", "ranged" } \cup InTx

\* Each listed day is ahead, in hand, in the rollup or among the failures.
Accounted(j) ==
  /\ pc[j] \in Ranging \/ code[j] = "ok" =>
       \A d \in days[j] : \/ d \in todo[j]
                          \/ pc[j] \in InTx /\ d = day[j]
                          \/ RowsOf(d) # {}
                          \/ d \in failures[j]
  /\ pc[j] = "ranged" => todo[j] = {}
  /\ code[j] = "ok" => /\ todo[j] = {} /\ failures[j] = {}
                       /\ pc[j] \in { "exiting", "done", "dead" }

AllAccounted == \A j \in Jobs : Accounted(j)

\* A step that leaves k's list alone, and does not take it into its range.
LEMMA FrameAccounted ==
  ASSUME TypeInv, AllPresent, [Next]_vars, NEW k \in Jobs, Accounted(k),
         UNCHANGED << days[k], todo[k], failures[k] >>,
         code'[k] = "ok" => code[k] = "ok",
         \/ pc'[k] = pc[k] /\ (pc[k] \in InTx => day'[k] = day[k])
         \/ pc[k] \in InTx /\ pc'[k] \in InTx /\ day'[k] = day[k]
         \/ pc'[k] \notin Ranging
            /\ (code'[k] = "ok" => pc'[k] \in { "exiting", "done", "dead" })
  PROVE  Accounted(k)'
<1>1. days[k] \subseteq Days
  BY DEF TypeInv, TypeOK
<1>2. \A d \in days[k] : RowsOf(d) # {} => RowsOf(d)' # {}
  BY <1>1, RowsStay
<1>3. (pc[k] \in Ranging \/ code[k] = "ok")' => pc[k] \in Ranging \/ code[k] = "ok"
  BY DEF Ranging
<1>4. (pc[k] = "ranged")' => todo'[k] = {}
  BY DEF Accounted, Ranging, InTx
<1>5. (code[k] = "ok")' => /\ todo'[k] = {} /\ failures'[k] = {}
                           /\ pc'[k] \in { "exiting", "done", "dead" }
  BY DEF Accounted, InTx
<1>6. ASSUME pc'[k] \in Ranging \/ code'[k] = "ok", NEW d \in days[k]
      PROVE  \/ d \in todo'[k]
             \/ pc'[k] \in InTx /\ d = day'[k]
             \/ RowsOf(d)' # {}
             \/ d \in failures'[k]
  <2>1. \/ d \in todo[k] \/ (pc[k] \in InTx /\ d = day[k])
        \/ RowsOf(d) # {} \/ d \in failures[k]
    BY <1>3, <1>6 DEF Accounted
  <2>2. CASE pc[k] \in InTx /\ d = day[k]
    <3>1. code[k] # "ok"
      BY <2>2 DEF Accounted, InTx
    <3> QED
      BY <1>6, <2>2, <3>1 DEF Ranging
  <2> QED
    BY <1>2, <2>1, <2>2
<1> QED
  BY <1>4, <1>5, <1>6 DEF Accounted

\* The steps of j that move a day along its list.
LEMMA ListAccounted ==
  ASSUME TypeInv, AllPresent, [Next]_vars, NEW j \in Jobs, Accounted(j),
         Plan(j) \/ BeginDay(j) \/ CommitDay(j) \/ DayFails(j) \/ EndRange(j) \/ Finish(j)
  PROVE  Accounted(j)'
<1> USE DEF Goto, Stop
<1>0. /\ pc \in [ Jobs -> PCs ] /\ code \in [ Jobs -> { "none", "held", "ok", "error" } ]
      /\ day \in [ Jobs -> Days \cup {NoDay} ] /\ days \in [ Jobs -> SUBSET Days ]
      /\ todo \in [ Jobs -> SUBSET Days ] /\ failures \in [ Jobs -> SUBSET Days ]
  BY DEF TypeInv, TypeOK
<1>1. \A d \in days[j] : RowsOf(d) # {} => RowsOf(d)' # {}
  BY <1>0, RowsStay
<1>2. CASE Plan(j)
  <2>1. code[j] # "ok"
    BY <1>2 DEF Plan, Accounted
  <2>2. CASE pc' = [ pc EXCEPT ![j] = "exiting" ] /\ code' = [ code EXCEPT ![j] = "error" ]
    BY <1>0, <2>2 DEF Accounted, Ranging, InTx
  <2>3. CASE pc' = [ pc EXCEPT ![j] = "loop" ] /\ days'[j] = todo'[j] /\ UNCHANGED code
    BY <1>0, <2>1, <2>3 DEF Accounted
  <2> DEFINE listed == { d \in Asked(Resolve(opts[j])) : HasFacts(d) }
  <2>4. \/ pc' = [ pc EXCEPT ![j] = "exiting" ] /\ code' = [ code EXCEPT ![j] = "error" ]
        \/ /\ pc' = [ pc EXCEPT ![j] = "loop" ] /\ UNCHANGED code
           /\ days' = [ days EXCEPT ![j] = listed ]
           /\ todo' = [ todo EXCEPT ![j] = days'[j] ]
    BY <1>2 DEF Plan
  <2> HIDE DEF listed
  <2> QED
    BY <1>0, <2>2, <2>3, <2>4
<1>3. CASE BeginDay(j)
  <2>1. code[j] # "ok" /\ pc[j] \notin InTx /\ pc[j] \in Ranging
    BY <1>3 DEF BeginDay, Accounted, InTx, Ranging
  <2>2. PICK d \in todo[j] : /\ day' = [ day EXCEPT ![j] = d ]
                             /\ todo' = [ todo EXCEPT ![j] = @ \ {d} ]
    BY <1>3 DEF BeginDay
  <2>3. pc'[j] = "deleting" /\ UNCHANGED << days, failures, code, daily >>
    BY <1>0, <1>3 DEF BeginDay, jobVars
  <2>4. day'[j] = d /\ todo'[j] = todo[j] \ {d}
    BY <1>0, <2>2
  <2>5. \A e \in days[j] : \/ e \in todo'[j] \/ e = day'[j]
                           \/ RowsOf(e) # {} \/ e \in failures[j]
    BY <2>1, <2>4 DEF Accounted
  <2> QED
    BY <1>1, <2>1, <2>3, <2>5 DEF Accounted, InTx
<1>4. CASE CommitDay(j)
  <2>1. code[j] # "ok" /\ pc[j] \in Ranging /\ pc[j] = "committing"
    BY <1>4 DEF CommitDay, Accounted, Ranging, InTx
  <2>2. pc'[j] = "loop" /\ UNCHANGED << days, todo, failures, code >>
    BY <1>0, <1>4 DEF CommitDay, loopVars, jobVars
  <2>3. \E r \in daily' : r.day = day[j]
    BY <1>4, <2>1, CommitLeavesRows DEF CommitDay, AllPresent
  <2>4. \A d \in days[j] : d \in todo[j] \/ RowsOf(d)' # {} \/ d \in failures[j]
    BY <1>1, <2>1, <2>3 DEF Accounted, RowsOf
  <2> QED
    BY <2>1, <2>2, <2>4 DEF Accounted
<1>5. CASE DayFails(j)
  <2>1. code[j] # "ok" /\ pc[j] \in Ranging /\ pc[j] \in InTx
    BY <1>5 DEF DayFails, Accounted, Ranging, InTx
  <2>2. UNCHANGED << days, todo >>
    BY <1>5 DEF DayFails
  <2>3. CASE pc'[j] = "exiting" /\ code'[j] = "error"
    BY <2>3 DEF Accounted, Ranging, InTx
  <2>4. CASE /\ failures' = [ failures EXCEPT ![j] = @ \cup {day[j]} ]
             /\ pc'[j] = "loop" /\ UNCHANGED code
    <3>1. failures'[j] = failures[j] \cup {day[j]}
      BY <1>0, <2>4
    <3>2. \A d \in days[j] : d \in todo[j] \/ RowsOf(d)' # {} \/ d \in failures'[j]
      BY <1>1, <2>1, <3>1 DEF Accounted
    <3> QED
      BY <2>1, <2>2, <2>4, <3>2 DEF Accounted
  <2> QED
    BY <1>0, <1>5, <2>3, <2>4 DEF DayFails
<1>6. CASE EndRange(j)
  <2>1. code[j] # "ok" /\ pc[j] \in Ranging /\ pc[j] \notin InTx /\ todo[j] = {}
    BY <1>6 DEF EndRange, Accounted, Ranging, InTx
  <2>2. pc'[j] = "ranged" /\ UNCHANGED << days, todo, failures, code >>
    BY <1>0, <1>6 DEF EndRange, loopVars, jobVars
  <2> QED
    BY <1>1, <2>1, <2>2 DEF Accounted
<1>7. CASE Finish(j)
  <2>1. todo[j] = {} /\ pc[j] \in Ranging /\ pc[j] \notin InTx
    BY <1>7 DEF Finish, Accounted, Ranging, InTx
  <2>2. /\ pc'[j] = "exiting" /\ UNCHANGED << days, todo, failures >>
        /\ code'[j] = IF failures[j] = {} THEN "ok" ELSE "error"
    BY <1>0, <1>7 DEF Finish, loopVars
  <2> QED
    BY <1>1, <2>1, <2>2 DEF Accounted, Ranging, InTx
<1> QED
  BY <1>2, <1>3, <1>4, <1>5, <1>6, <1>7

LEMMA NextAccounted ==
  ASSUME TypeInv, AllPresent, AllAccounted, [Next]_vars PROVE AllAccounted'
<1> USE DEF Goto, Stop
<1>0. /\ pc \in [ Jobs -> PCs ] /\ code \in [ Jobs -> { "none", "held", "ok", "error" } ]
      /\ \A k \in Jobs : Accounted(k)
  BY DEF TypeInv, TypeOK, AllAccounted
<1>1. CASE Environment \/ UNCHANGED vars
  <2>1. UNCHANGED << pc, code, days, todo, failures, day >>
    BY <1>1 DEF Environment, NextDay, CollectorWrites, RelabelFact, vars, jobVars,
         loopVars, txVars
  <2> QED
    BY <1>0, <2>1, FrameAccounted DEF AllAccounted
<1>2. ASSUME NEW j \in Jobs,
             RangeStep(j) \/ Finish(j) \/ MonthFails(j) \/ Outside(j) \/ Crash(j)
      PROVE  AllAccounted'
  <2>1. ASSUME NEW k \in Jobs \ {j} PROVE Accounted(k)'
    BY <1>0, <1>2, OthersFramed, FrameAccounted
  <2>2. ASSUME \/ Plan(j) \/ BeginDay(j) \/ CommitDay(j) \/ DayFails(j)
               \/ EndRange(j) \/ Finish(j)
        PROVE  Accounted(j)'
    BY <1>0, <2>2, ListAccounted
  <2>3. ASSUME \/ Invoke(j) \/ TakeLock(j) \/ LockIsHeld(j) \/ LockFails(j)
               \/ PlanFails(j) \/ StopCancelled(j) \/ MonthFails(j) \/ Release(j)
               \/ OrphanCommits(j) \/ Crash(j)
        PROVE  Accounted(j)'
    <3>1. UNCHANGED << days[j], todo[j], failures[j] >>
      BY <2>3 DEF Invoke, TakeLock, LockIsHeld, LockFails, PlanFails, StopCancelled,
           MonthFails, Release, OrphanCommits, Crash, loopVars
    <3>2. /\ pc'[j] \notin Ranging
          /\ code'[j] = "ok" => code[j] = "ok" /\ pc'[j] \in { "exiting", "done", "dead" }
      BY <1>0, <2>3 DEF Invoke, TakeLock, LockIsHeld, LockFails, PlanFails,
           StopCancelled, MonthFails, Release, OrphanCommits, Crash, jobVars, Ranging,
           InTx, Accounted
    <3> QED
      BY <1>0, <3>1, <3>2, FrameAccounted
  <2>4. ASSUME DeleteDay(j) \/ InsertDay(j) \/ CountDay(j) PROVE Accounted(j)'
    <3>1. UNCHANGED << days, todo, failures, code, day >>
      BY <2>4 DEF DeleteDay, InsertDay, CountDay, txVars, loopVars, jobVars
    <3>2. pc[j] \in InTx /\ pc'[j] \in InTx
      BY <1>0, <2>4 DEF DeleteDay, InsertDay, CountDay, txVars, InTx
    <3> QED
      BY <1>0, <3>1, <3>2, FrameAccounted
  <2>5. ASSUME Sigterm(j) \/ LoseLockSession(j) PROVE Accounted(j)'
    <3>1. UNCHANGED << days, todo, failures, code, day, pc >>
      BY <2>5 DEF Sigterm, LoseLockSession, loopVars, jobVars, txVars
    <3> QED
      BY <1>0, <3>1, FrameAccounted
  <2> QED
    BY <1>2, <2>1, <2>2, <2>3, <2>4, <2>5 DEF RangeStep, Outside, AllAccounted
<1> QED
  BY <1>1, <1>2 DEF Next

LEMMA InitAccounted == Init => AllAccounted
  BY DEF Init, AllAccounted, Accounted, Ranging, InTx

LEMMA AccountedMissesNone == AllAccounted => NoDayGoesMissing
  BY DEF AllAccounted, Accounted, NoDayGoesMissing, Ranging, InTx

\* A run that exits 0 left rows for every day it listed, and one that came to
\* the end of its range names every listed day that has none.
THEOREM NoDayMissing == Spec => []NoDayGoesMissing
<1>1. TypeInv /\ AllPresent /\ [Next]_vars => AllPresent'
  BY NextPresent
<1>2. TypeInv /\ AllPresent /\ AllAccounted /\ [Next]_vars => AllAccounted'
  BY NextAccounted
<1> QED
  BY <1>1, <1>2, InitType, NextType, InitPresent, InitAccounted, AccountedMissesNone,
     PTL DEF Spec

-----------------------------------------------------------------------------
(* The table that readers are promised                                     *)

\* The sum of no row, and of one row.
LEMMA WindowsOfNone == Windows({}) = 0
<1> DEFINE f == CHOOSE f : f = [ s \in SUBSET {} |->
                  IF s = {} THEN 0 ELSE (CHOOSE x \in s : TRUE).windows + f[s \ {CHOOSE x \in s : TRUE}] ]
           zero == [ s \in SUBSET {} |-> 0 ]
<1>1. Windows({}) = f[{}]
  BY DEF Windows, MapThenSumSet, MapThenFoldSet
<1>2. zero = [ s \in SUBSET {} |->
        IF s = {} THEN 0 ELSE (CHOOSE x \in s : TRUE).windows + zero[s \ {CHOOSE x \in s : TRUE}] ]
  OBVIOUS
<1>3. f = [ s \in SUBSET {} |->
        IF s = {} THEN 0 ELSE (CHOOSE x \in s : TRUE).windows + f[s \ {CHOOSE x \in s : TRUE}] ]
  BY <1>2
<1> HIDE DEF f
<1> QED
  BY <1>1, <1>3

LEMMA WindowsOfOne == ASSUME NEW r, r.windows \in Nat PROVE Windows({r}) = r.windows
<1> DEFINE f == CHOOSE f : f = [ s \in SUBSET {r} |->
                  IF s = {} THEN 0 ELSE (CHOOSE x \in s : TRUE).windows + f[s \ {CHOOSE x \in s : TRUE}] ]
           sum == [ s \in SUBSET {r} |-> IF s = {} THEN 0 ELSE r.windows ]
<1>1. Windows({r}) = f[{r}]
  BY DEF Windows, MapThenSumSet, MapThenFoldSet
<1>2. ASSUME NEW s \in SUBSET {r}
      PROVE  sum[s] = IF s = {} THEN 0 ELSE (CHOOSE x \in s : TRUE).windows + sum[s \ {CHOOSE x \in s : TRUE}]
  <2>1. CASE s = {}
    BY <2>1
  <2>2. CASE s # {}
    <3>1. (CHOOSE x \in s : TRUE) = r
      BY <2>2
    <3>2. s \ {r} = {} /\ {} \in SUBSET {r}
      BY <2>2
    <3> QED
      BY <2>2, <3>1, <3>2
  <2> QED
    BY <2>1, <2>2
<1>3. sum = [ s \in SUBSET {r} |->
        IF s = {} THEN 0 ELSE (CHOOSE x \in s : TRUE).windows + sum[s \ {CHOOSE x \in s : TRUE}] ]
  BY <1>2
<1>4. f = [ s \in SUBSET {r} |->
        IF s = {} THEN 0 ELSE (CHOOSE x \in s : TRUE).windows + f[s \ {CHOOSE x \in s : TRUE}] ]
  BY <1>3
<1> HIDE DEF f
<1>5. (CHOOSE x \in {r} : TRUE) = r /\ {r} \ {r} = {}
  OBVIOUS
<1>6. f[{}] = 0
  BY <1>4
<1>7. f[{r}] = r.windows + f[{}]
  BY <1>4, <1>5
<1> QED
  BY <1>1, <1>6, <1>7

\* A day and tuple with one row shows that row, one without shows nothing.
LEMMA ShownIs ==
  ASSUME TypeOK, OneProjectionPerDay, NEW d \in Days, NEW g \in Dims
  PROVE  /\ Shown[d][g] \in Nat
         /\ (\A r \in daily : ~(r.day = d /\ r.dim = g)) => Shown[d][g] = 0
         /\ \A r \in daily : r.day = d /\ r.dim = g => Shown[d][g] = r.windows
<1> DEFINE rows == { r \in daily : r.day = d /\ r.dim = g }
<1>1. Shown[d][g] = Windows(rows)
  BY DEF Shown
<1>2. CASE rows = {}
  <2>1. Windows(rows) = 0
    BY <1>2, WindowsOfNone
  <2> QED
    BY <1>1, <1>2, <2>1
<1>3. ASSUME NEW r \in rows PROVE Windows(rows) = r.windows /\ r.windows \in Nat
  <2>1. rows = {r}
    BY <1>3 DEF OneProjectionPerDay
  <2>2. r.windows \in Nat
    BY <1>3 DEF TypeOK, Row
  <2> HIDE DEF rows
  <2> QED
    BY <2>1, <2>2, WindowsOfOne
<1>4. \A r \in daily : r.day = d /\ r.dim = g => r \in rows
  OBVIOUS
<1>5. rows # {} => \E r \in rows : TRUE
  OBVIOUS
<1>6. (\A r \in daily : ~(r.day = d /\ r.dim = g)) => rows = {}
  OBVIOUS
<1> HIDE DEF rows
<1> QED
  BY <1>1, <1>2, <1>3, <1>4, <1>5, <1>6, WindowsOfNone

ShowsRows ==
  \A d \in Days, g \in Dims :
    /\ Shown[d][g] \in Nat
    /\ (\A r \in daily : ~(r.day = d /\ r.dim = g)) => Shown[d][g] = 0
    /\ \A r \in daily : r.day = d /\ r.dim = g => Shown[d][g] = r.windows

LEMMA RowsShown == TypeOK /\ OneProjectionPerDay => ShowsRows
  BY ShownIs DEF ShowsRows

\* Facts are not attributed to another tuple once they are recorded.
LabelsKept == "relabel" \notin Faults

\* What rows r may show of the facts.
Backed(rows) == \A r \in rows : r.windows <= facts[r.day][r.dim]

\* No row shows more than the facts, and a day that is being rewritten will
\* show no less than it does.
Growing ==
  /\ Backed(daily)
  /\ \A j \in Jobs : Backed(ins[j])
  /\ \A j \in Jobs : pc[j] \in AfterInsert =>
       \A r \in RowsOf(day[j]) : \E s \in ins[j] : s.dim = r.dim /\ s.windows >= r.windows

TableInv == DayInv /\ Growing

\* Facts are only added.
LEMMA FactsGrow ==
  ASSUME LabelsKept, TypeInv, [Next]_vars
  PROVE  \A d \in Days, g \in Dims : facts'[d][g] >= facts[d][g]
<1>2. facts \in [ Days -> [ Dims -> Nat ] ]
  BY DEF TypeInv, TypeOK
<1>3. CASE UNCHANGED facts
  BY <1>2, <1>3
<1>4. CASE CollectorWrites
  <2>1. PICK e \in { today, today - 1 } \cap FactDays, G \in (SUBSET Dims) \ {{}} :
          /\ \A h \in G : facts[e][h] < MaxWindows
          /\ facts' = [ facts EXCEPT ![e] =
                          [ h \in Dims |-> IF h \in G THEN @[h] + 1 ELSE @[h] ] ]
          /\ UNCHANGED << today, daily, lock, pc, jobVars, loopVars, txVars >>
    BY <1>4, Zenon DEF CollectorWrites
  <2> QED
    BY <1>2, <2>1
<1>5. CASE RelabelFact
  BY <1>5 DEF RelabelFact, LabelsKept
<1>6. CASE UNCHANGED vars \/ NextDay \/ \E j \in Jobs : RangeStep(j)
  BY <1>3, <1>6 DEF vars, envVars, NextDay, RangeStep, Invoke, TakeLock, LockIsHeld,
       LockFails, Plan, PlanFails, BeginDay, DeleteDay, InsertDay, CountDay, CommitDay,
       DayFails, StopCancelled, EndRange, Release
<1>7. CASE \E j \in Jobs : Finish(j) \/ MonthFails(j) \/ Outside(j) \/ Crash(j)
  BY <1>3, <1>7 DEF envVars, Finish, MonthFails, Outside, Sigterm, OrphanCommits,
       LoseLockSession, Crash
<1> QED
  BY <1>4, <1>5, <1>6, <1>7 DEF Next, Environment

\* Rows that are backed stay so while facts are added.
LEMMA BackedStays ==
  ASSUME LabelsKept, TypeInv, [Next]_vars, NEW rows \in SUBSET Row, Backed(rows)
  PROVE  Backed(rows)'
<1>1. \A r \in rows : /\ r.day \in Days /\ r.dim \in Dims /\ r.windows \in Nat
                      /\ facts[r.day][r.dim] \in Nat /\ facts'[r.day][r.dim] \in Nat
  BY NextType DEF Row, TypeInv, TypeOK
<1>2. \A r \in rows : facts'[r.day][r.dim] >= facts[r.day][r.dim]
  BY <1>1, FactsGrow
<1> QED
  BY <1>1, <1>2 DEF Backed

\* What a day's projection shows is backed, and covers what is backed.
LEMMA ProjectionBacked ==
  ASSUME TypeOK, NEW d \in Days, NEW j
  PROVE  /\ Backed(Projection(d, j))
         /\ Backed(daily) => \A r \in RowsOf(d) :
              \E s \in Projection(d, j) : s.dim = r.dim /\ s.windows >= r.windows
<1>1. \A g \in Dims : facts[d][g] \in Nat
  BY DEF TypeOK
<1>2. Backed(Projection(d, j))
  BY <1>1 DEF Backed, Projection
<1>3. ASSUME Backed(daily), NEW r \in RowsOf(d)
      PROVE  \E s \in Projection(d, j) : s.dim = r.dim /\ s.windows >= r.windows
  <2>1. /\ r.windows \in Nat \ {0} /\ r.dim \in Dims /\ r.day = d
        /\ r.windows <= facts[d][r.dim]
    BY <1>3 DEF Backed, RowsOf, TypeOK, Row
  <2> DEFINE s == [ day |-> d, dim |-> r.dim, windows |-> facts[d][r.dim], by |-> j ]
  <2>2. s \in Projection(d, j)
    BY <1>1, <2>1 DEF Projection
  <2> QED
    BY <1>1, <2>1, <2>2
<1> QED
  BY <1>2, <1>3

\* What a step makes of k's inserted rows and of the day they are for.
LEMMA InsertedRows ==
  ASSUME NoLateCommit, DayInv, [Next]_vars, NEW k \in Jobs
  PROVE  \/ ins'[k] = {} /\ pc'[k] \notin AfterInsert
         \/ /\ UNCHANGED << ins[k], day[k], daily >>
            /\ pc'[k] \in AfterInsert => pc[k] \in AfterInsert
         \/ InsertDay(k)
<1> USE DEF Goto, Stop
<1>0. TypeInv /\ TypeOK /\ pc \in [ Jobs -> PCs ]
  BY DEF DayInv, TypeInv, TypeOK
<1>1. CASE Environment \/ UNCHANGED vars
  BY <1>1 DEF Environment, NextDay, CollectorWrites, RelabelFact, vars, txVars
<1>2. ASSUME NEW j \in Jobs \ {k},
             RangeStep(j) \/ Finish(j) \/ MonthFails(j) \/ Outside(j) \/ Crash(j)
      PROVE  \/ ins'[k] = {} /\ pc'[k] \notin AfterInsert
             \/ /\ UNCHANGED << ins[k], day[k], daily >>
                /\ pc'[k] \in AfterInsert => pc[k] \in AfterInsert
  <2>1. UNCHANGED << pc[k], day[k], ins[k] >>
    BY <1>0, <1>2, OthersFramed
  <2>2. CASE UNCHANGED daily
    BY <2>1, <2>2
  <2>3. CASE daily' # daily
    <3>1. pc[j] \in Holding
      BY <1>2, <2>3 DEF RangeStep, Invoke, TakeLock, LockIsHeld, LockFails, Plan,
           PlanFails, BeginDay, DeleteDay, InsertDay, CountDay, CommitDay, DayFails,
           StopCancelled, EndRange, Release, Finish, MonthFails, Outside, Sigterm,
           OrphanCommits, LoseLockSession, Crash, DayInv, NoOrphan, Holding, InTx
    <3>2. pc[k] \notin InTx
      BY <3>1, SoleTx DEF DayInv
    <3>3. pc[k] \notin AfterInsert
      BY <3>2 DEF AfterInsert, InTx
    <3>4. ins[k] = {}
      BY <3>3 DEF DayInv, TxReplacesDay, ReplacesDay
    <3> QED
      BY <2>1, <3>3, <3>4
  <2> QED
    BY <2>2, <2>3
<1>3. ASSUME EndTx(k), pc'[k] \notin AfterInsert PROVE ins'[k] = {} /\ pc'[k] \notin AfterInsert
  BY <1>0, <1>3, EndTxClears
<1>4. ASSUME CommitDay(k) \/ DayFails(k) \/ Crash(k)
      PROVE  EndTx(k) /\ pc'[k] \notin AfterInsert
  BY <1>0, <1>4 DEF CommitDay, DayFails, Crash, NoLateCommit, AfterInsert
<1>5. ASSUME \/ Invoke(k) \/ TakeLock(k) \/ LockIsHeld(k) \/ LockFails(k)
             \/ Plan(k) \/ PlanFails(k) \/ StopCancelled(k) \/ EndRange(k)
             \/ Finish(k) \/ MonthFails(k) \/ Release(k)
             \/ Sigterm(k) \/ LoseLockSession(k) \/ CountDay(k)
      PROVE  /\ UNCHANGED << ins[k], day[k], daily >>
             /\ pc'[k] \in AfterInsert => pc[k] \in AfterInsert
  BY <1>0, <1>5 DEF Invoke, TakeLock, LockIsHeld, LockFails, Plan, PlanFails,
       StopCancelled, EndRange, Finish, MonthFails, Release, Sigterm, LoseLockSession,
       CountDay, txVars, AfterInsert
<1>6. ASSUME BeginDay(k) \/ DeleteDay(k) PROVE ins'[k] = {} /\ pc'[k] \notin AfterInsert
  <2>1. pc[k] \notin AfterInsert /\ pc'[k] \notin AfterInsert /\ ins' = ins
    BY <1>0, <1>6 DEF BeginDay, DeleteDay, AfterInsert
  <2> QED
    BY <2>1 DEF DayInv, TxReplacesDay, ReplacesDay
<1>7. ~OrphanCommits(k)
  BY DEF OrphanCommits, DayInv, NoOrphan
<1>8. ASSUME RangeStep(k) \/ Finish(k) \/ MonthFails(k) \/ Outside(k) \/ Crash(k)
      PROVE  \/ ins'[k] = {} /\ pc'[k] \notin AfterInsert
             \/ /\ UNCHANGED << ins[k], day[k], daily >>
                /\ pc'[k] \in AfterInsert => pc[k] \in AfterInsert
             \/ InsertDay(k)
  BY <1>3, <1>4, <1>5, <1>6, <1>7, <1>8 DEF RangeStep, Outside
<1> QED
  BY <1>1, <1>2, <1>8 DEF Next

LEMMA NextGrowing ==
  ASSUME NoLateCommit, LabelsKept, DayInv, Growing, [Next]_vars
  PROVE  Growing'
<1>0. TypeInv /\ TypeOK
  BY DEF DayInv, TypeInv
<1>1. daily \in SUBSET Row /\ \A k \in Jobs : ins[k] \in SUBSET Row
  BY <1>0 DEF TypeOK
<1>2. Backed(daily)'
  <2>1. PICK rows \in SUBSET Row : daily' = rows /\ Backed(rows)
    <3>1. CASE UNCHANGED daily
      BY <1>1, <3>1 DEF Growing
    <3>2. ASSUME NEW j \in Jobs, daily' = Committed(j)
          PROVE  \E rows \in SUBSET Row : daily' = rows /\ Backed(rows)
      <4>1. Backed(Committed(j)) /\ Committed(j) \in SUBSET Row
        BY <1>1 DEF Growing, Backed, Committed
      <4> QED
        BY <3>2, <4>1
    <3> QED
      BY <3>1, <3>2, OnlyCommitsWrite
  <2>2. Backed(rows)'
    BY <1>0, <2>1, BackedStays
  <2> QED
    BY <2>1, <2>2 DEF Backed
<1>3. ASSUME NEW k \in Jobs
      PROVE  /\ Backed(ins[k])'
             /\ pc'[k] \in AfterInsert => \A r \in RowsOf(day[k])' :
                  \E s \in ins'[k] : s.dim = r.dim /\ s.windows >= r.windows
  <2>1. CASE ins'[k] = {} /\ pc'[k] \notin AfterInsert
    BY <2>1 DEF Backed
  <2>2. CASE /\ UNCHANGED << ins[k], day[k], daily >>
             /\ pc'[k] \in AfterInsert => pc[k] \in AfterInsert
    <3>1. Backed(ins[k])'
      <4>1. PICK rows \in SUBSET Row : ins[k] = rows /\ Backed(rows)
        BY <1>1 DEF Growing
      <4>2. Backed(rows)'
        BY <1>0, <4>1, BackedStays
      <4> QED
        BY <2>2, <4>1, <4>2 DEF Backed
    <3>2. RowsOf(day[k])' = RowsOf(day[k])
      BY <2>2 DEF RowsOf
    <3> QED
      BY <2>2, <3>1, <3>2 DEF Growing
  <2>3. CASE InsertDay(k)
    <3>1. day[k] \in Days
      BY <1>0, <2>3 DEF InsertDay, TypeInv, TxHasDay, InTx
    <3>2. ins'[k] = Projection(day[k], k) /\ UNCHANGED << day, daily, facts >>
      BY <1>0, <2>3 DEF InsertDay, envVars, TypeOK
    <3>3. RowsOf(day[k])' = RowsOf(day[k])
      BY <3>2 DEF RowsOf
    <3>4. Backed(ins[k])'
      BY <1>0, <3>1, <3>2, ProjectionBacked DEF Backed
    <3> QED
      BY <1>0, <3>1, <3>2, <3>3, <3>4, ProjectionBacked DEF Growing
  <2> QED
    BY <2>1, <2>2, <2>3, InsertedRows
<1> QED
  BY <1>2, <1>3 DEF Growing

LEMMA InitGrowing == Init => Growing
  BY DEF Init, Growing, Backed, AfterInsert

\* The other days' rows are none of a transaction's business.
LEMMA OtherDaysShown ==
  ASSUME NEW j \in Jobs, ReplacesDay(j), pc[j] = "committing", daily' = Committed(j),
         NEW d \in Days, d # day[j]
  PROVE  Shown'[d] = Shown[d]
<1>1. \A r \in gone[j] \cup ins[j] : r.day = day[j]
  BY DEF ReplacesDay, AfterDelete, RowsOf
<1>2. \A r : r.day = d => (r \in daily' <=> r \in daily)
  BY <1>1 DEF Committed
<1>3. \A g \in Dims : { r \in daily' : r.day = d /\ r.dim = g } = { r \in daily : r.day = d /\ r.dim = g }
  BY <1>2
<1>4. \A g \in Dims : Windows({ r \in daily' : r.day = d /\ r.dim = g })
                        = Windows({ r \in daily : r.day = d /\ r.dim = g })
  BY <1>3
<1>5. Shown' = [ e \in Days |-> [ g \in Dims |->
                  Windows({ r \in daily' : r.day = e /\ r.dim = g }) ] ]
  BY DEF Shown
<1> QED
  BY <1>4, <1>5 DEF Shown

\* A commit replaces its day by a projection that covers the old one.
LEMMA CommitReplaces ==
  ASSUME TableInv, TableInv', NEW j \in Jobs, pc[j] = "committing", daily' = Committed(j),
         UNCHANGED facts
  PROVE  Table!Replace(day[j]) /\ day[j] \in Days
<1>1. /\ ReplacesDay(j) /\ TypeOK /\ OneProjectionPerDay
      /\ TypeOK' /\ OneProjectionPerDay'
  BY DEF TableInv, DayInv, TypeInv, TxReplacesDay
<1>2. day[j] \in Days
  BY DEF TableInv, DayInv, TypeInv, TxHasDay, InTx
<1>3. ins[j] \subseteq daily' /\ Backed(daily)'
  BY DEF Committed, TableInv, Growing
<1>4. ASSUME NEW g \in Dims
      PROVE  /\ Shown[day[j]][g] \in Nat
             /\ (\A r \in daily : ~(r.day = day[j] /\ r.dim = g)) => Shown[day[j]][g] = 0
             /\ \A r \in daily : r.day = day[j] /\ r.dim = g => Shown[day[j]][g] = r.windows
  BY <1>1, <1>2, ShownIs
<1> DEFINE d == day[j]
<1>5. ASSUME NEW g \in Dims
      PROVE  /\ Shown'[d][g] \in Nat
             /\ (\A r \in daily' : ~(r.day = d /\ r.dim = g)) => Shown'[d][g] = 0
             /\ \A r \in daily' : r.day = d /\ r.dim = g => Shown'[d][g] = r.windows
  <2>1. (TypeOK /\ OneProjectionPerDay => ShowsRows)'
    BY RowsShown, PTL
  <2> QED
    BY <1>1, <1>2, <2>1 DEF ShowsRows
<1>6. ASSUME NEW g \in Dims PROVE Shown'[d][g] >= Shown[d][g]
  <2>1. CASE \A r \in daily : ~(r.day = day[j] /\ r.dim = g)
    BY <1>4, <1>5, <2>1
  <2>2. ASSUME NEW r \in daily, r.day = day[j], r.dim = g PROVE Shown'[d][g] >= Shown[d][g]
    <3>1. PICK s \in ins[j] : s.dim = g /\ s.windows >= r.windows
      BY <2>2 DEF TableInv, Growing, RowsOf, AfterInsert
    <3>2. s \in daily' /\ s.day = d
      BY <1>1, <1>3, <3>1 DEF ReplacesDay
    <3> QED
      BY <1>4, <1>5, <2>2, <3>1, <3>2
  <2> QED
    BY <2>1, <2>2
<1>7. ASSUME NEW g \in Dims PROVE facts[d][g] >= Shown'[d][g]
  <2>1. facts[d][g] \in Nat /\ facts' = facts
    BY <1>1, <1>2 DEF TypeOK
  <2>2. \A r \in daily' : r.day = d /\ r.dim = g => r.windows <= facts[d][g] /\ r.windows \in Nat
    BY <1>1, <1>3, <2>1 DEF Backed, TypeOK, Row
  <2> QED
    BY <1>5, <2>1, <2>2
<1>8. \A e \in Days \ {d} : Shown'[e] = Shown[e]
  BY <1>1, OtherDaysShown
<1> QED
  BY <1>2, <1>6, <1>7, <1>8 DEF Table!Replace, Table!Covers

\* A collected window is facts recorded for one day.
LEMMA WindowRecords ==
  ASSUME TypeInv, CollectorWrites PROVE \E d \in Days : Table!RecordFacts(d)
<1>1. PICK e \in { today, today - 1 } \cap FactDays, G \in (SUBSET Dims) \ {{}} :
        /\ \A h \in G : facts[e][h] < MaxWindows
        /\ facts' = [ facts EXCEPT ![e] =
                        [ h \in Dims |-> IF h \in G THEN @[h] + 1 ELSE @[h] ] ]
        /\ UNCHANGED << today, daily, lock, pc, jobVars, loopVars, txVars >>
  BY Zenon DEF CollectorWrites
<1>2. facts \in [ Days -> [ Dims -> Nat ] ] /\ e \in Days
  BY BoundAssumption DEF TypeInv, TypeOK
<1>3. PICK h \in G : h \in Dims
  OBVIOUS
<1>4. facts'[e][h] = facts[e][h] + 1 /\ facts[e][h] \in Nat
  BY <1>1, <1>2, <1>3
<1>5. facts'[e] # facts[e]
  BY <1>4
<1>6. \A g \in Dims : facts'[e][g] >= facts[e][g]
  BY <1>1, <1>2
<1>7. \A d \in Days \ {e} : facts'[d] = facts[d]
  BY <1>1, <1>2
<1>8. UNCHANGED Shown
  BY <1>1 DEF Shown
<1> QED
  BY <1>2, <1>5, <1>6, <1>7, <1>8 DEF Table!RecordFacts, Table!Covers

\* A step writes facts, or commits a day, or is invisible.
LEMMA VisibleSteps ==
  ASSUME NoLateCommit, LabelsKept, DayInv, [Next]_vars
  PROVE  \/ CollectorWrites
         \/ UNCHANGED << facts, daily >>
         \/ UNCHANGED facts /\ \E j \in Jobs : pc[j] = "committing" /\ daily' = Committed(j)
<1>1. CASE UNCHANGED vars \/ NextDay \/ RelabelFact
  BY <1>1 DEF vars, envVars, NextDay, RelabelFact, LabelsKept
<1>2. CASE \E j \in Jobs : RangeStep(j)
  BY <1>2 DEF envVars, RangeStep, Invoke, TakeLock, LockIsHeld, LockFails, Plan, PlanFails,
       BeginDay, DeleteDay, InsertDay, CountDay, CommitDay, DayFails, StopCancelled,
       EndRange, Release
<1>3. CASE \E j \in Jobs : Finish(j) \/ MonthFails(j) \/ Outside(j) \/ Crash(j)
  BY <1>3 DEF envVars, Finish, MonthFails, Outside, Sigterm, OrphanCommits,
       LoseLockSession, Crash, DayInv, NoOrphan
<1> QED
  BY <1>1, <1>2, <1>3 DEF Next, Environment

LEMMA StepRefinesTable ==
  ASSUME NoLateCommit, LabelsKept, TableInv, TableInv', [Next]_vars
  PROVE  [Table!Next]_(Table!vars)
<1>1. DayInv /\ TypeInv
  BY DEF TableInv, DayInv
<1>2. CASE CollectorWrites
  BY <1>1, <1>2, WindowRecords DEF Table!Next
<1>3. CASE UNCHANGED << facts, daily >>
  BY <1>3 DEF Table!vars, Shown
<1>4. ASSUME UNCHANGED facts, NEW j \in Jobs, pc[j] = "committing", daily' = Committed(j)
      PROVE  [Table!Next]_(Table!vars)
  BY <1>4, CommitReplaces DEF Table!Next
<1> QED
  BY <1>1, <1>2, <1>3, <1>4, VisibleSteps

LEMMA InitRefinesTable == Init => Table!Init
<1> SUFFICES ASSUME Init PROVE Table!Init
  OBVIOUS
<1>1. daily = {} /\ facts = [ d \in Days |-> Zero ]
  BY DEF Init
<1>2. \A d \in Days, g \in Dims : { r \in daily : r.day = d /\ r.dim = g } = {}
  BY <1>1
<1>3. \A d \in Days, g \in Dims : Windows({ r \in daily : r.day = d /\ r.dim = g }) = 0
  BY <1>2, WindowsOfNone
<1>4. Shown = [ d \in Days |-> [ g \in Dims |-> 0 ] ]
  BY <1>3 DEF Shown
<1> QED
  BY <1>1, <1>4 DEF Table!Init, Table!Nothing, Zero

\* The rollup implements the table that its readers are promised, for any
\* number of jobs, days and tuples, and through failures, signals and crashes:
\* a day is replaced as a whole, by a projection that shows no less than the
\* one before and no more than the facts.  The lock's session must live, no
\* COMMIT may arrive after its client is gone, and a recorded fact must keep
\* its tuple.
THEOREM RollupIsDailyTable ==
  ASSUME SessionKept, NoLateCommit, LabelsKept PROVE Spec => ImplementsDailyTable
<1>1. TableInv /\ [Next]_vars => TableInv'
  BY NextDayInv, NextGrowing DEF TableInv
<1>2. Init => TableInv
  BY InitDay, InitGrowing DEF TableInv
<1>3. TableInv /\ TableInv' /\ [Next]_vars => [Table!Next]_(Table!vars)
  BY StepRefinesTable
<1> QED
  BY <1>1, <1>2, <1>3, InitRefinesTable, PTL DEF Spec, ImplementsDailyTable, Table!Spec
=============================================================================
