---------------------------- MODULE MCApiRequests ----------------------------
(* Instances of ApiRequests for TLC.                                         *)
EXTENDS ApiRequests, TLC

CONSTANTS k1, k2, c1, c2, usd, eur

\* A pod in each of two clusters.
ClusterOfMC == ( 1 :> c1 @@ 2 :> c2 )

\* Ranges that new windows still fall into: with both ends, or one of them.
PinnedMC  == { << 0, 3 >>, << 1, Absent >>, << Absent, 3 >> }
CataloguesMC == ( c1 :> {usd} @@ c2 :> { usd, eur } )

\* One cluster whose catalogue is given another currency.
ClusterOfOne  == ( 1 :> c1 @@ 2 :> c1 )
CataloguesOne == ( c1 :> { usd, eur } )
SeedFleetsOne == { c1 :> usd }
NoRanges == {}
\* The table is empty, or has the rows of the first window.
SeedRowsMC == { {}, { [ w |-> 1, id |-> 1 ], [ w |-> 1, id |-> 2 ] } }
SeedFleetsMC == { c1 :> usd @@ c2 :> usd, c1 :> usd @@ c2 :> Unset }

KeySetsMC == { {}, {k2} }
=============================================================================
