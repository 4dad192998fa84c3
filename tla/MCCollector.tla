----------------------------- MODULE MCCollector -----------------------------
(* Instances of Collector for TLC. *)
EXTENDS Collector, TLC

CONSTANTS p1, p2, n1, n2, m1, m2, c1, c2

\* A container in each of two namespaces, on a node of its own.
NsOfMC   == ( c1 :> n1 @@ c2 :> n2 )
NodeOfMC == ( c1 :> m1 @@ c2 :> m2 )

\* One container is enough where only the cycles matter.
NsOfOne   == ( c1 :> n1 )
NodeOfOne == ( c1 :> m1 )

EveryTwo  == [ p \in Procs |-> 2 ]
CycleFaults == { "statement_fails", "query_fails", "sync_timeout", "bind_fails", "drain_expires" }
ClockFaults == { "statement_fails", "sync_timeout", "sigterm", "crash" }
AtFour == {4}
AtFive == {5}
=============================================================================
