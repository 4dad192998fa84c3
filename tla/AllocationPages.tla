--------------------------- MODULE AllocationPages ---------------------------
(***************************************************************************)
(* Listing the fact rows: GET /api/v1/allocations of internal/httpapi and  *)
(* Allocations of internal/store/postgres/allocations_page.go.             *)
(*                                                                         *)
(* A client pages through the rows of a range, newest first, by handing    *)
(* back the cursor of the previous page, while collectors go on writing    *)
(* and clusters register.  Each page is a request of its own: the range is *)
(* evaluated, the fleet is read to refuse a sum over several currencies,   *)
(* and then the rows are read, in another statement.                       *)
(*                                                                         *)
(* A row is known by its key: its window and the identity of pod and       *)
(* container that breaks ties.  Of the other columns only the money is     *)
(* kept, as the currency it was priced in: the table has no column for it, *)
(* and the clusters table has one for the whole of a cluster.              *)
(***************************************************************************)
EXTENDS Clock, FiniteSets

CONSTANTS
  Ids,          \* (pod_id, container_name), in the order of the index
  Clusters,
  ClusterOf,    \* the cluster a pod belongs to
  Currencies,
  Catalogues,   \* the currencies of the catalogues a cluster's collector is given
  MaxPage,      \* maxPageSize
  DefaultSpan,  \* defaultRangeHours
  MaxSpan,      \* maxRangeDays
  FirstWindow, LastWindow,  \* bound: the windows that rows are written for
  Absent,       \* a parameter that a request leaves out
  Pinned,       \* the ranges that a client may give: << from, to >>
  SeedRows, SeedFleets   \* bound: the tables when the listing begins

Windows == FirstWindow .. LastWindow
Row     == [ w : Windows, id : Ids ]
Times   == Int \cup {Absent}
NoRange == << Absent, Absent >>
Unset   == "unset"
AnyCluster == "any"

ASSUME ListingAssumption ==
  /\ Ids \subseteq Nat /\ IsFiniteSet(Clusters) /\ FirstWindow \in Int /\ LastWindow \in Int
  /\ ClusterOf \in [ Ids -> Clusters ] /\ AnyCluster \notin Clusters
  /\ Unset \notin Currencies /\ Catalogues \in [ Clusters -> SUBSET Currencies ]
  /\ MaxPage \in Nat \ {0} /\ DefaultSpan \in Nat /\ MaxSpan \in Nat
  /\ Absent \notin Int /\ Pinned \subseteq Times \X Times
  /\ SeedRows \subseteq SUBSET Row /\ SeedFleets \subseteq [ Clusters -> Currencies \cup {Unset} ]

VARIABLES
  rows,     \* container_allocations
  money,    \* the currency that each of them was priced in
  fleet,    \* clusters: the currency of each that has registered
  at,       \* what the client, or the handler of its request, is doing
  given,    \* the range it gives with each request, or NoRange
  scope,    \* the cluster it asks for
  range,    \* from and to of the request under way, or of the last
  cursor,   \* the key it hands back, in a set: none for the first page
  page,     \* the rows of the last page
  listed,   \* those of the pages before it
  mixed,    \* history: the currencies of the last page, when it was read
  due       \* history: the rows that were there at the first page and in the
            \* range of each request since

dataVars   == << rows, money, fleet >>
clientVars == << given, scope, range, cursor >>
pageVars   == << page, listed, mixed, due >>
listingVars == << dataVars, at, clientVars, pageVars >>

-----------------------------------------------------------------------------
(* Values                                                                  *)

\* The comparison of the two keys, row-wise.
Before(a, b) == a.w < b.w \/ (a.w = b.w /\ a.id < b.id)

InRange(S, from, to) == { r \in S : from <= r.w /\ r.w < to }

\* A mutant of Matching: the cursor's own row is asked for again.
MatchingFromCursor ==
  { r \in InRange(rows, range[1], range[2]) :
      /\ scope = AnyCluster \/ ClusterOf[r.id] = scope
      /\ \A c \in cursor : ~ Before(c, r) }

\* A mutant of Matching: the cursor is a time, without the columns that break ties.
MatchingByWindow ==
  { r \in InRange(rows, range[1], range[2]) :
      /\ scope = AnyCluster \/ ClusterOf[r.id] = scope
      /\ \A c \in cursor : r.w < c.w }

\* What WHERE selects.
Matching ==
  { r \in InRange(rows, range[1], range[2]) :
      /\ scope = AnyCluster \/ ClusterOf[r.id] = scope
      /\ \A c \in cursor : Before(r, c) }

\* What ORDER BY ... DESC LIMIT n keeps of S.
IsTop(T, S, n) ==
  \/ T = S /\ Cardinality(S) <= n
  \/ T # S /\ T \subseteq S /\ Cardinality(T) = n
     /\ \A a \in T, b \in S \ T : Before(b, a)

\* timeRangeDefault at time t: from and to as given, or by default.
RangeAt(g, t) ==
  LET to == IF g[2] = Absent THEN t ELSE g[2]
  IN  << IF g[1] = Absent THEN to - DefaultSpan ELSE g[1], to >>

\* A range that was given is neither empty nor too long.
Accepted(g, r) == g # NoRange => r[1] < r[2] /\ r[2] - r[1] <= MaxSpan

\* The rows that are in the table when the listing begins were priced in
\* their cluster's currency.
ListingInit ==
  /\ rows \in SeedRows /\ at = "idle" /\ cursor = {}
  /\ fleet \in SeedFleets
  /\ money = [ r \in rows |-> fleet[ClusterOf[r.id]] ]
  /\ \A r \in rows : r.w < FirstTime /\ fleet[ClusterOf[r.id]] # Unset
  /\ given = NoRange /\ range = NoRange /\ scope = AnyCluster
  /\ page = {} /\ listed = {} /\ mixed = {} /\ due = {}

-----------------------------------------------------------------------------
(* The environment                                                         *)

\* writer.write of a collector whose catalogue is in the currency u: in one
\* transaction, UpsertCluster sets its cluster's currency, whatever it was, and
\* the rows of a past window are inserted; a row that is there gets the new
\* cost.  A cycle without rows writes nothing, and registers nobody.
CollectorWrites(c, u, S) ==
  /\ S # {} /\ u \in Catalogues[c]
  /\ \A r \in S : r.w < now /\ ClusterOf[r.id] = c
  /\ \A r, q \in S : r.w = q.w
  /\ rows' = rows \cup S
  /\ money' = [ r \in rows' |-> IF r \in S THEN u ELSE money[r] ]
  /\ fleet' = [ fleet EXCEPT ![c] = u ]
  /\ UNCHANGED << now, at, clientVars, pageVars >>

-----------------------------------------------------------------------------
(* The client and the handler of its request                               *)

\* A listing begins: the client chooses what to ask for.
Choose(r, s) ==
  /\ at = "idle" /\ at' = "asking" /\ given' = r /\ scope' = s
  /\ UNCHANGED << now, dataVars, range, cursor, pageVars >>

\* allocationsParams: what the client leaves out of the range is filled in at
\* the time of THIS request, so that a range it accepted for one page may have
\* become too long at the next.
Ask ==
  /\ at = "asking"
  /\ range' = RangeAt(given, now)
  /\ at' = IF Accepted(given, range') THEN "guarding" ELSE "refused"
  /\ due' = IF cursor = {} THEN due ELSE InRange(due, range'[1], range'[2])
  /\ UNCHANGED << now, dataVars, given, scope, cursor, page, listed, mixed >>

\* APIKeyAuth turns the request away before its handler sees it.
TurnedAway ==
  /\ at = "asking" /\ at' = "refused"
  /\ UNCHANGED << now, dataVars, clientVars, pageVars >>

\* distinctCurrencies of the fleet are at most one.
Aggregatable(f) == Cardinality({ f[c] : c \in Clusters } \ {Unset}) <= 1

\* guardCurrency: a listing that is scoped to a cluster needs no guard.
Guard ==
  /\ at = "guarding"
  /\ at' = IF scope # AnyCluster \/ Aggregatable(fleet) THEN "reading" ELSE "refused"
  /\ UNCHANGED << now, dataVars, clientVars, pageVars >>

\* Allocations: one row more than a page is read to see whether it is the last
\* page; if not, the cursor names the last row that is returned.
ReadPage(n) ==
  /\ at = "reading"
  /\ \E T \in SUBSET Matching :
       /\ IsTop(T, Matching, n) /\ page' = T /\ listed' = listed \cup page
       /\ mixed' = { money[r] : r \in T }
       /\ due' = IF cursor = {} THEN Matching ELSE due
       /\ \/ T = Matching /\ at' = "done" /\ UNCHANGED cursor
          \/ /\ T # Matching /\ at' = "asking"
             /\ \E c \in T :
               /\ \A r \in T : ~ Before(r, c)
               /\ cursor' = {c}
  /\ UNCHANGED << now, dataVars, given, scope, range >>

\* A statement fails: the client asks for the same page again.
RequestFails ==
  /\ at \in { "guarding", "reading" } /\ at' = "asking"
  /\ UNCHANGED << now, dataVars, clientVars, pageVars >>

Handling ==
  \/ \E r \in Pinned \cup {NoRange}, s \in Clusters \cup {AnyCluster} : Choose(r, s)
  \/ Guard \/ RequestFails \/ \E n \in 1 .. MaxPage : ReadPage(n)
Writing == \E c \in Clusters, u \in Currencies, S \in SUBSET Row : CollectorWrites(c, u, S)

ListingSpec ==
  /\ now = FirstTime /\ ListingInit
  /\ [][ Handling \/ Ask \/ TurnedAway \/ Writing \/ (Tick /\ UNCHANGED listingVars) ]_<< now, listingVars >>

-----------------------------------------------------------------------------
(* Properties                                                              *)

ListingTypeOK ==
  /\ now \in FirstTime .. LastTime /\ rows \subseteq Row /\ money \in [ rows -> Currencies ]
  /\ fleet \in [ Clusters -> Currencies \cup {Unset} ]
  /\ at \in { "idle", "asking", "guarding", "reading", "done", "refused" }
  /\ given \in Times \X Times /\ range \in (Int \X Int) \cup {NoRange}
  /\ scope \in Clusters \cup {AnyCluster}
  /\ cursor \subseteq Row /\ page \subseteq Row /\ listed \subseteq Row
  /\ mixed \subseteq Currencies /\ due \subseteq Row

\* However the table grows meanwhile, a page has only rows that come after
\* every row of the pages before it, in the order of the listing: none is
\* listed twice.
ListedOnce == \A a \in page, b \in listed : Before(a, b)

\* A row that was there when the first page was read, and that has been in the
\* range of every request since, is in the listing when it ends.
NothingMissed == at = "done" => due \subseteq (page \cup listed)

\* "No single response returns money in more than one currency", because no
\* response carries a per-row currency.
OneCurrency == Cardinality(mixed) <= 1
=============================================================================
