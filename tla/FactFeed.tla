------------------------------ MODULE FactFeed -------------------------------
(***************************************************************************)
(* What the rollup relies on of the collector: fact rows are added whole   *)
(* windows at a time, are never taken away, and belong to the current day  *)
(* or the one before it.  It is the environment of RollupJob, stated for   *)
(* the collector to implement.                                             *)
(***************************************************************************)
EXTENDS Integers

CONSTANTS
  Dims,     \* what rows are counted by
  Days,
  PerDay    \* how many windows a day has

VARIABLES
  today,
  facts     \* fact rows per day and dimension

Init ==
  /\ today \in Days
  /\ facts = [ d \in Days |-> [ g \in Dims |-> 0 ] ]

NextDay ==
  /\ today + 1 \in Days
  /\ today' = today + 1
  /\ UNCHANGED facts

CollectorWrites ==
  \E d \in { today, today - 1 } \cap Days, G \in (SUBSET Dims) \ {{}} :
    /\ \A g \in G : facts[d][g] < PerDay
    /\ facts' = [ facts EXCEPT ![d] =
                    [ g \in Dims |-> IF g \in G THEN @[g] + 1 ELSE @[g] ] ]
    /\ UNCHANGED today

Spec == Init /\ [][NextDay \/ CollectorWrites]_<< today, facts >>

=============================================================================
