------------------------------ MODULE DailyTable ------------------------------
(***************************************************************************)
(* What the daily rollup promises its readers (trends, monthly statements):*)
(* for every UTC day and dimension tuple they see one figure, a day is     *)
(* replaced as a whole, and it is replaced by a projection of the facts    *)
(* that is no older than the one it replaces.  Facts are only added.       *)
(***************************************************************************)
EXTENDS Naturals

CONSTANTS Days, Dims

VARIABLES
  facts,   \* fact rows per day and tuple
  shown    \* the window_count a reader's sum over the rollup returns

vars == << facts, shown >>

\* p is at least q at every tuple.
Covers(p, q) == \A g \in Dims : p[g] >= q[g]

Nothing == [ g \in Dims |-> 0 ]

Init ==
  /\ facts = [ d \in Days |-> Nothing ]
  /\ shown = [ d \in Days |-> Nothing ]

RecordFacts(d) ==
  /\ facts'[d] # facts[d] /\ Covers(facts'[d], facts[d])
  /\ \A e \in Days \ {d} : facts'[e] = facts[e]
  /\ UNCHANGED shown

\* A rewrite of day d becomes visible.
Replace(d) ==
  /\ Covers(shown'[d], shown[d]) /\ Covers(facts[d], shown'[d])
  /\ \A e \in Days \ {d} : shown'[e] = shown[e]
  /\ UNCHANGED facts

Next == \E d \in Days : RecordFacts(d) \/ Replace(d)

Spec == Init /\ [][Next]_vars
=============================================================================
