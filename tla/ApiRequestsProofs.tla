--------------------------- MODULE ApiRequestsProofs ---------------------------
(***************************************************************************)
(* Proofs about the requests of the API.                                   *)
(*                                                                         *)
(* The rate limiter implements one token bucket per client: for any        *)
(* clients, any rate and burst, and any TTL in which a bucket refills,     *)
(* forgetting idle clients cannot be told from never forgetting them.      *)
(*                                                                         *)
(* Listing the fact rows page by page, for any tables, any page size and   *)
(* any writes meanwhile, lists no row twice and leaves out none that was   *)
(* there from the beginning.                                               *)
(*                                                                         *)
(* The requests of the API are a run of the limiter and a run of the       *)
(* listing, so that what is proved of either holds of both together; and   *)
(* Retry-After tells a client the truth.                                   *)
(***************************************************************************)
EXTENDS ApiRequests, FiniteSetTheorems, TLAPS

-----------------------------------------------------------------------------
(* Arithmetic                                                              *)

LEMMA FullBucket == Full \in Nat /\ Full >= Den /\ Den \in Nat \ {0} /\ Num \in Nat \ {0}
<1>1. \A b, d \in Nat \ {0} : b * d \in Nat /\ b * d >= d
  OBVIOUS
<1> QED
  BY <1>1, LimiterAssumption DEF Full

\* One more unit of time is Num more units of tokens.
LEMMA OneMoreTick ==
  ASSUME NEW t \in Int, NEW u \in Int
  PROVE  /\ Num * (t + 1 - u) = Num * (t - u) + Num
         /\ Num * (t - u) \in Int
BY LimiterAssumption

\* A bucket that nobody asked for longer than the TTL is full again.
LEMMA RefilledInTTL ==
  ASSUME NEW d \in Int, d > TTL
  PROVE  Num * d >= Full /\ Num * d \in Int
<1>1. \A n, t \in Nat, e \in Int : e > t => n * e >= n * t
  OBVIOUS
<1>2. Num * d >= Num * TTL
  BY <1>1, LimiterAssumption
<1>3. Num * TTL \in Int /\ Num * d \in Int /\ Full <= Num * TTL
  BY LimiterAssumption DEF Full
<1> QED
  BY <1>2, <1>3, FullBucket

-----------------------------------------------------------------------------
(* The invariant                                                           *)

\* A limiter was asked no earlier than it last let a request through.
LimiterInv ==
  /\ now \in Int /\ lastSweep \in Int /\ known \subseteq Keys
  /\ tokens \in [ Keys -> 0 .. Full ]
  /\ last \in [ Keys -> Int ] /\ lastSeen \in [ Keys -> Int ]
  /\ \A k \in known : last[k] <= lastSeen[k] /\ lastSeen[k] <= now

LEMMA AccruedType ==
  ASSUME LimiterInv, NEW k \in known
  PROVE  /\ Accrued(k) \in Nat /\ Accrued(k) <= Full
         /\ Num * (now - last[k]) \in Nat
<1>1. \A d \in Nat : Num * d \in Nat
  BY LimiterAssumption
<1>2. now - last[k] \in Nat /\ tokens[k] \in 0 .. Full
  BY DEF LimiterInv
<1>3. Num * (now - last[k]) \in Nat
  BY <1>1, <1>2
<1> QED
  BY <1>2, <1>3, FullBucket DEF Accrued, Least

\* What the limiter holds for k when it is asked, and what it would hold for
\* those it forgets.
LEMMA SweptAreFull ==
  ASSUME LimiterInv, NEW k \in known \ Kept
  PROVE  Accrued(k) = Full
<1>1. now - lastSeen[k] > TTL
  BY Zenon DEF Kept, Idle
<1>2. now - last[k] \in Int /\ now - last[k] > TTL
  BY <1>1, LimiterAssumption DEF LimiterInv
<1>3. Num * (now - last[k]) >= Full /\ Num * (now - last[k]) \in Int
  BY <1>2, RefilledInTTL
<1>4. tokens[k] \in 0 .. Full
  BY DEF LimiterInv
<1> QED
  BY <1>3, <1>4, FullBucket DEF Accrued, Least

LEMMA KeptKnown == Kept \subseteq known
BY DEF Kept

LEMMA HeldIsLevel ==
  ASSUME LimiterInv, NEW k \in Keys
  PROVE  (IF k \in Kept THEN Accrued(k) ELSE Full) = Level[k]
<1>1. CASE k \in Kept
  BY <1>1, KeptKnown DEF Level
<1>2. CASE k \notin Kept /\ k \in known
  BY <1>2, SweptAreFull DEF Level
<1>3. CASE k \notin Kept /\ k \notin known
  BY <1>3 DEF Level
<1> QED
  BY <1>1, <1>2, <1>3

LEMMA LevelType == ASSUME LimiterInv PROVE Level \in [ Keys -> 0 .. Full ]
<1>1. ASSUME NEW k \in Keys
      PROVE  (IF k \in known THEN Accrued(k) ELSE Full) \in 0 .. Full
  BY AccruedType, FullBucket
<1> QED
  BY <1>1 DEF Level

LEMMA TickKeeps == ASSUME LimiterInv, Tick, UNCHANGED limiterVars PROVE LimiterInv'
<1>1. now' = now + 1
  BY DEF Tick
<1>2. UNCHANGED << known, tokens, last, lastSeen, lastSweep >>
  BY DEF limiterVars
<1> QED
  BY <1>1, <1>2 DEF LimiterInv

LEMMA RequestKeeps == ASSUME LimiterInv, NEW k \in Keys, Request(k) PROVE LimiterInv'
<1> DEFINE held == IF k \in Kept THEN Accrued(k) ELSE Full
<1>1. held \in 0 .. Full
  BY AccruedType, KeptKnown, FullBucket
<1>2. /\ known' = Kept \cup {k} /\ now' = now
      /\ lastSweep' = IF now - lastSweep > TTL THEN now ELSE lastSweep
      /\ lastSeen' = [ lastSeen EXCEPT ![k] = now ]
      /\ \/ /\ held >= Den
            /\ tokens' = [ tokens EXCEPT ![k] = held - Den ] /\ last' = [ last EXCEPT ![k] = now ]
         \/ ~ (held >= Den) /\ UNCHANGED << tokens, last >>
  BY Zenon DEF Request
<1> HIDE DEF held
<1>3. CASE ~ (held >= Den)
  <2>1. k \in Kept
    BY <1>3, FullBucket DEF held
  <2> QED
    BY <1>2, <1>3, <2>1, KeptKnown DEF LimiterInv
<1>4. CASE held >= Den
  <2>1. held - Den \in 0 .. Full
    BY <1>1, <1>4, FullBucket
  <2> QED
    BY <1>2, <1>4, <2>1, KeptKnown DEF LimiterInv
<1> QED
  BY <1>3, <1>4

-----------------------------------------------------------------------------
(* The refinement                                                          *)

LEMMA TickRefills ==
  ASSUME LimiterInv, Tick, UNCHANGED limiterVars
  PROVE  Level' = [ k \in Keys |-> Least(Full, Level[k] + Num) ]
<1>1. now' = now + 1
  BY DEF Tick
<1>2. known' = known /\ tokens' = tokens /\ last' = last
  BY DEF limiterVars
<1>3. ASSUME NEW k \in Keys
      PROVE  (IF k \in known THEN Accrued(k)' ELSE Full) = Least(Full, Level[k] + Num)
  <2>1. CASE k \in known
    <3> DEFINE a == Num * (now - last[k])
    <3>1. Accrued(k)' = Least(Full, tokens[k] + Num * (now + 1 - last[k]))
      <4>1. now \in Int /\ last[k] \in Int /\ tokens[k] \in Int
        BY FullBucket DEF LimiterInv
      <4> QED
        BY <1>1, <1>2, <4>1 DEF Accrued, Least
    <3>2. Num * (now + 1 - last[k]) = a + Num /\ a \in Int
      BY OneMoreTick DEF LimiterInv
    <3>3. Level[k] = Least(Full, tokens[k] + a)
      BY <2>1 DEF Level, Accrued
    <3>4. tokens[k] \in 0 .. Full
      BY DEF LimiterInv
    <3> HIDE DEF a
    <3> QED
      BY <2>1, <3>1, <3>2, <3>3, <3>4, FullBucket, LimiterAssumption DEF Least
  <2>2. CASE k \notin known
    BY <2>2, FullBucket, LimiterAssumption DEF Level, Least
  <2> QED
    BY <2>1, <2>2
<1> QED
  BY <1>2, <1>3 DEF Level

LEMMA RequestTakesToken ==
  ASSUME LimiterInv, NEW k \in Keys, Request(k)
  PROVE  \/ /\ Level[k] >= Den /\ verdict' = "allowed"
            /\ Level' = [ Level EXCEPT ![k] = @ - Den ]
         \/ Level[k] < Den /\ verdict' = "limited" /\ UNCHANGED Level
<1> DEFINE held == IF k \in Kept THEN Accrued(k) ELSE Full
<1>1. held = Level[k] /\ held \in 0 .. Full
  BY HeldIsLevel, LevelType
<1>2. /\ known' = Kept \cup {k} /\ now' = now
      /\ \/ /\ held >= Den /\ verdict' = "allowed"
            /\ tokens' = [ tokens EXCEPT ![k] = held - Den ] /\ last' = [ last EXCEPT ![k] = now ]
         \/ ~ (held >= Den) /\ verdict' = "limited" /\ UNCHANGED << tokens, last >>
  BY Zenon DEF Request
<1>3. ASSUME NEW j \in Keys, j # k PROVE Level'[j] = Level[j]
  <2>1. (j \in known') <=> (j \in Kept)
    BY <1>2, <1>3
  <2>2. tokens'[j] = tokens[j] /\ last'[j] = last[j]
    BY <1>2, <1>3 DEF LimiterInv
  <2>3. Accrued(j)' = Accrued(j)
    BY <1>2, <2>2 DEF Accrued
  <2>4. Level'[j] = IF j \in Kept THEN Accrued(j) ELSE Full
    BY <2>1, <2>3 DEF Level
  <2> QED
    BY <2>4, HeldIsLevel
<1>4. k \in known' /\ Level'[k] = Accrued(k)'
  BY <1>2 DEF Level
<1>5. Level \in [ Keys -> 0 .. Full ] /\ DOMAIN Level' = Keys /\ Level' = [ j \in Keys |-> Level'[j] ]
  BY LevelType DEF Level
<1> HIDE DEF held
<1>6. CASE held >= Den
  <2>1. tokens'[k] = held - Den /\ last'[k] = now
    BY <1>2, <1>6 DEF LimiterInv
  <2>2. Accrued(k)' = Least(Full, held - Den + Num * (now - now))
    BY <1>2, <2>1 DEF Accrued
  <2>3. Num * (now - now) = 0
    BY LimiterAssumption DEF LimiterInv
  <2>4. Level'[k] = held - Den
    BY <1>1, <1>4, <1>6, <2>2, <2>3, FullBucket DEF Least
  <2>5. Level' = [ Level EXCEPT ![k] = @ - Den ]
    BY <1>1, <1>3, <1>5, <2>4
  <2> QED
    BY <1>1, <1>2, <1>6, <2>5
<1>7. CASE ~ (held >= Den)
  <2>1. k \in Kept
    BY <1>7, FullBucket DEF held
  <2>2. Accrued(k)' = Accrued(k)
    BY <1>2, <1>7 DEF Accrued
  <2>3. Level'[k] = Level[k]
    BY <1>4, <2>1, <2>2, KeptKnown DEF Level
  <2>4. Level' = Level
    BY <1>3, <1>5, <2>3
  <2>5. Level[k] < Den
    BY <1>1, <1>7, FullBucket
  <2> QED
    BY <1>2, <1>7, <2>4, <2>5
<1> QED
  BY <1>6, <1>7

\* The steps of the limiter, whoever takes them, are steps of the buckets.
LEMMA LimiterStep ==
  ASSUME LimiterInv,
         [ (Tick /\ UNCHANGED limiterVars) \/ (\E k \in Keys : Request(k)) ]_<< now, limiterVars >>
  PROVE  LimiterInv' /\ [ Buckets!Next ]_<< now, Level, verdict >>
<1>1. CASE Tick /\ UNCHANGED limiterVars
  <2>1. LimiterInv' /\ UNCHANGED verdict
    BY <1>1, TickKeeps DEF limiterVars
  <2>2. Buckets!Refill
    BY <1>1, <2>1, TickRefills DEF Buckets!Refill, Buckets!Tick, Tick, Buckets!Full, Full,
      Buckets!Least, Least
  <2> QED
    BY <2>1, <2>2 DEF Buckets!Next
<1>2. ASSUME NEW k \in Keys, Request(k) PROVE LimiterInv' /\ Buckets!Next
  <2>1. LimiterInv' /\ UNCHANGED now
    BY <1>2, RequestKeeps DEF Request
  <2>2. Buckets!Request(k)
    BY <1>2, <2>1, RequestTakesToken DEF Buckets!Request
  <2> QED
    BY <2>1, <2>2 DEF Buckets!Next
<1>3. CASE UNCHANGED << now, limiterVars >>
  <2>1. UNCHANGED << now, known, tokens, last, lastSeen, lastSweep, verdict >>
    BY <1>3 DEF limiterVars
  <2>2. LimiterInv'
    BY <2>1 DEF LimiterInv
  <2>3. Level' = Level
    BY <2>1 DEF Level, Accrued
  <2> QED
    BY <2>1, <2>2, <2>3
<1> QED
  BY <1>1, <1>2, <1>3

LEMMA LimiterStart ==
  ASSUME now = FirstTime, LimiterInit PROVE LimiterInv /\ Buckets!Init
<1>1. LimiterInv
  BY FullBucket, LimiterAssumption, ClockAssumption DEF LimiterInit, LimiterInv, Never
<1>2. Level = [ k \in Keys |-> Full ]
  BY DEF LimiterInit, Level
<1> QED
  BY <1>1, <1>2 DEF LimiterInit, Buckets!Init, Buckets!Full, Full

\* The limiter with its map, its sweep and its lazily made buckets implements
\* a bucket per client for ever, as the comment on sweep promises, whenever a
\* bucket refills within the TTL.
THEOREM LimiterRefinesBuckets == LimiterSpec => LimiterIsBuckets
<1> DEFINE N == (Tick /\ UNCHANGED limiterVars) \/ (\E k \in Keys : Request(k))
<1>1. now = FirstTime /\ LimiterInit => LimiterInv /\ Buckets!Init
  BY LimiterStart
<1>2. LimiterInv /\ [N]_<< now, limiterVars >> =>
        LimiterInv' /\ [ Buckets!Next ]_<< now, Level, verdict >>
  BY LimiterStep
<1> QED
  BY <1>1, <1>2, PTL DEF LimiterSpec, LimiterIsBuckets, Buckets!Spec

-----------------------------------------------------------------------------
(* Types                                                                   *)

LEMMA LimiterTypeStep ==
  ASSUME RateLimiterTypeOK, LimiterInv,
         [ (Tick /\ UNCHANGED limiterVars) \/ (\E k \in Keys : Request(k)) ]_<< now, limiterVars >>
  PROVE  RateLimiterTypeOK'
<1>1. CASE Tick /\ UNCHANGED limiterVars
  BY <1>1, ClockAssumption DEF RateLimiterTypeOK, Tick, limiterVars
<1>2. ASSUME NEW k \in Keys, Request(k) PROVE RateLimiterTypeOK'
  <2>1. LimiterInv'
    BY <1>2, RequestKeeps
  <2>2. now' = now /\ lastSeen' = [ lastSeen EXCEPT ![k] = now ]
    BY <1>2 DEF Request
  <2>3. last' = last \/ last' = [ last EXCEPT ![k] = now ]
    BY <1>2, Zenon DEF Request
  <2>4. verdict' \in { "allowed", "limited" }
    BY <1>2, Zenon DEF Request
  <2> QED
    BY <2>1, <2>2, <2>3, <2>4, ClockAssumption DEF RateLimiterTypeOK, LimiterInv
<1>3. CASE UNCHANGED << now, limiterVars >>
  BY <1>3 DEF RateLimiterTypeOK, limiterVars
<1> QED
  BY <1>1, <1>2, <1>3

\* Every variable of the limiter keeps its type, and no time it remembers is
\* before it started or after now.
THEOREM LimiterTypeCorrect == LimiterSpec => []RateLimiterTypeOK
<1> DEFINE N == (Tick /\ UNCHANGED limiterVars) \/ (\E k \in Keys : Request(k))
<1>1. now = FirstTime /\ LimiterInit => LimiterInv
  BY LimiterStart
<1>2. now = FirstTime /\ LimiterInit => RateLimiterTypeOK
  BY FullBucket, LimiterAssumption, ClockAssumption DEF LimiterInit, RateLimiterTypeOK, Never
<1>3. LimiterInv /\ [N]_<< now, limiterVars >> => LimiterInv'
  BY LimiterStep
<1>4. RateLimiterTypeOK /\ LimiterInv /\ [N]_<< now, limiterVars >> => RateLimiterTypeOK'
  BY LimiterTypeStep
<1> QED
  BY <1>1, <1>2, <1>3, <1>4, PTL DEF LimiterSpec

-----------------------------------------------------------------------------
(* The order of the listing                                                *)

\* The key that the cursor is made of is a total order of the rows.
LEMMA KeyOrder ==
  /\ \A a \in Row : ~ Before(a, a)
  /\ \A a, b \in Row : Before(a, b) => ~ Before(b, a)
  /\ \A a, b \in Row : a # b /\ ~ Before(a, b) => Before(b, a)
  /\ \A a, b, c \in Row : Before(a, b) /\ Before(b, c) => Before(a, c)
<1>1. \A a \in Row : a.w \in Int /\ a.id \in Int
  <2>1. Windows \subseteq Int /\ Ids \subseteq Int
    BY ListingAssumption DEF Windows
  <2>2. \A a \in Row : a.w \in Windows /\ a.id \in Ids
    BY DEF Row
  <2> QED
    BY <2>1, <2>2
<1>2. \A a, b \in Row : a.w = b.w /\ a.id = b.id => a = b
  BY DEF Row
<1> QED
  BY <1>1, <1>2 DEF Before

-----------------------------------------------------------------------------
(* The invariants                                                          *)

TableInv ==
  /\ rows \subseteq Row /\ page \subseteq rows /\ listed \subseteq rows /\ due \subseteq rows

\* Everything listed so far comes no later in the order than the cursor.
CursorInv ==
  /\ cursor = {} \/ \E c \in Row : cursor = {c}
  /\ at = "idle" => cursor = {}
  /\ cursor = {} /\ at # "done" => page = {} /\ listed = {} /\ due = {}
  /\ at # "done" => \A c \in cursor, r \in page \cup listed : r # c => Before(c, r)
  /\ ListedOnce

\* What is due is either listed or still to come after the cursor.
DueInv ==
  /\ at # "done" => \A r \in due : r \in page \cup listed \/ \A c \in cursor : Before(r, c)
  /\ \A r \in due : scope = AnyCluster \/ ClusterOf[r.id] = scope
  /\ at \in { "guarding", "reading" } => due \subseteq InRange(due, range[1], range[2])
  /\ NothingMissed

ListingInv == TableInv /\ CursorInv /\ DueInv

LEMMA ListingStart == ASSUME ListingInit PROVE ListingInv
<1>1. TableInv
  BY ListingAssumption DEF ListingInit, TableInv
<1>2. CursorInv /\ DueInv
  BY DEF ListingInit, CursorInv, DueInv, ListedOnce, NothingMissed
<1> QED
  BY <1>1, <1>2 DEF ListingInv

\* A collector's transaction leaves the client and its pages alone.
LEMMA TablesGrow ==
  ASSUME ListingInv, NEW c \in Clusters, NEW u \in Currencies, NEW S \in SUBSET Row,
         CollectorWrites(c, u, S)
  PROVE  ListingInv'
<1>1. UNCHANGED << at, given, scope, range, cursor, page, listed, due >> /\ rows' = rows \cup S
  BY DEF CollectorWrites, clientVars, pageVars
<1>2. TableInv'
  BY <1>1 DEF ListingInv, TableInv
<1>3. CursorInv' /\ DueInv'
  BY <1>1 DEF ListingInv, CursorInv, DueInv, ListedOnce, NothingMissed, InRange
<1> QED
  BY <1>2, <1>3 DEF ListingInv

LEMMA Asking ==
  ASSUME ListingInv,
         Ask \/ TurnedAway \/ Guard \/ RequestFails
           \/ (\E r \in Pinned \cup {NoRange}, s \in Clusters \cup {AnyCluster} : Choose(r, s))
  PROVE  ListingInv'
<1>1. CASE Ask
  <2>1. /\ UNCHANGED << rows, scope, cursor, page, listed >>
        /\ at = "asking" /\ at' \in { "guarding", "refused" }
        /\ due' = IF cursor = {} THEN due ELSE InRange(due, range'[1], range'[2])
    BY <1>1, Zenon DEF Ask, dataVars
  <2>2. due' \subseteq due
    BY <2>1 DEF InRange
  <2>3. due' \subseteq InRange(due', range'[1], range'[2])
    BY <2>1 DEF InRange, ListingInv, CursorInv
  <2>4. TableInv'
    BY <2>1, <2>2 DEF ListingInv, TableInv
  <2>5. CursorInv'
    BY <2>1, <2>2 DEF ListingInv, CursorInv, ListedOnce
  <2>6. DueInv'
    BY <2>1, <2>2, <2>3 DEF ListingInv, DueInv, NothingMissed
  <2> QED
    BY <2>4, <2>5, <2>6 DEF ListingInv
<1>2. CASE TurnedAway \/ RequestFails
  <2>1. /\ UNCHANGED << rows, scope, range, cursor, page, listed, due >>
        /\ at \notin { "idle", "done" } /\ at' \in { "asking", "refused" }
    BY <1>2 DEF TurnedAway, RequestFails, dataVars, clientVars, pageVars
  <2> QED
    BY <2>1 DEF ListingInv, TableInv, CursorInv, DueInv, ListedOnce, NothingMissed,
      InRange
<1>3. CASE Guard
  <2>1. /\ UNCHANGED << rows, scope, range, cursor, page, listed, due >>
        /\ at = "guarding" /\ at' \in { "reading", "refused" }
    BY <1>3, Zenon DEF Guard, dataVars, clientVars, pageVars
  <2> QED
    BY <2>1 DEF ListingInv, TableInv, CursorInv, DueInv, ListedOnce, NothingMissed, InRange
<1>4. CASE \E r \in Pinned \cup {NoRange}, s \in Clusters \cup {AnyCluster} : Choose(r, s)
  <2>1. /\ UNCHANGED << rows, range, cursor, page, listed, due >>
        /\ at = "idle" /\ at' = "asking"
    BY <1>4 DEF Choose, dataVars, pageVars
  <2>2. page = {} /\ listed = {} /\ due = {} /\ cursor = {}
    BY <2>1 DEF ListingInv, CursorInv
  <2> QED
    BY <2>1, <2>2 DEF ListingInv, TableInv, CursorInv, DueInv, ListedOnce,
      NothingMissed
<1> QED
  BY <1>1, <1>2, <1>3, <1>4

-----------------------------------------------------------------------------
(* A page                                                                  *)

LEMMA MatchingIsNext ==
  ASSUME ListingInv, at = "reading"
  PROVE  /\ Matching \subseteq rows
         /\ \A r \in Matching, b \in page \cup listed : Before(r, b)
<1>1. Matching \subseteq rows
  BY DEF Matching, InRange
<1>2. ASSUME NEW r \in Matching, NEW b \in page \cup listed PROVE Before(r, b)
  <2>1. cursor # {}
    BY <1>2 DEF ListingInv, CursorInv
  <2>2. PICK c \in Row : cursor = {c}
    BY <2>1 DEF ListingInv, CursorInv
  <2>3. Before(r, c)
    BY <1>2, <2>2 DEF Matching
  <2>4. b = c \/ Before(c, b)
    BY <1>2, <2>2 DEF ListingInv, CursorInv
  <2>5. r \in Row /\ b \in Row
    BY <1>1, <1>2 DEF ListingInv, TableInv
  <2> QED
    BY <2>2, <2>3, <2>4, <2>5, KeyOrder
<1> QED
  BY <1>1, <1>2

LEMMA Reading == ASSUME ListingInv, NEW n \in 1 .. MaxPage, ReadPage(n) PROVE ListingInv'
<1>1. PICK T \in SUBSET Matching :
        /\ IsTop(T, Matching, n) /\ page' = T /\ listed' = listed \cup page
        /\ due' = IF cursor = {} THEN Matching ELSE due
        /\ \/ T = Matching /\ at' = "done" /\ UNCHANGED cursor
           \/ /\ T # Matching /\ at' = "asking"
              /\ \E c \in T : (\A r \in T : ~ Before(r, c)) /\ cursor' = {c}
  BY Zenon DEF ReadPage
<1>2. at = "reading" /\ UNCHANGED << rows, scope, range >>
  BY DEF ReadPage, dataVars
<1>3. Matching \subseteq rows /\ rows \subseteq Row
  BY <1>2, MatchingIsNext DEF ListingInv, TableInv
<1>4. \A r \in Matching, b \in page \cup listed : Before(r, b)
  BY <1>2, MatchingIsNext
<1>5. TableInv'
  BY <1>1, <1>2, <1>3 DEF ListingInv, TableInv
<1>6. ListedOnce'
  BY <1>1, <1>4 DEF ListedOnce
<1>7. \A r \in due' : scope = AnyCluster \/ ClusterOf[r.id] = scope
  BY <1>1 DEF ListingInv, DueInv, Matching
<1>8. \A r \in due' : r \in page \cup listed \/ r \in Matching
  <2>1. CASE cursor = {}
    BY <1>1, <2>1
  <2>2. CASE cursor # {}
    <3>1. ASSUME NEW r \in due, \A c \in cursor : Before(r, c) PROVE r \in Matching
      BY <1>2, <3>1 DEF ListingInv, TableInv, DueInv, InRange, Matching
    <3> QED
      BY <1>1, <1>2, <2>2, <3>1 DEF ListingInv, DueInv
  <2> QED
    BY <2>1, <2>2
<1>9. CASE T = Matching /\ at' = "done" /\ cursor' = cursor
  <2>1. CursorInv'
    BY <1>6, <1>9 DEF ListingInv, CursorInv
  <2>2. DueInv'
    BY <1>1, <1>2, <1>7, <1>8, <1>9 DEF DueInv, NothingMissed
  <2> QED
    BY <1>5, <2>1, <2>2 DEF ListingInv
<1>10. ASSUME T # Matching, at' = "asking", NEW c \in T, \A r \in T : ~ Before(r, c),
              cursor' = {c}
       PROVE  ListingInv'
  <2>1. \A r \in Matching \ T : Before(r, c)
    BY <1>1, <1>10 DEF IsTop
  <2>2. \A r \in T : r # c => Before(c, r)
    BY <1>1, <1>3, <1>10, KeyOrder
  <2>3. \A r \in page \cup listed : Before(c, r)
    BY <1>1, <1>4, <1>10
  <2>4. CursorInv'
    BY <1>1, <1>3, <1>6, <1>10, <2>2, <2>3 DEF CursorInv
  <2>5. DueInv'
    BY <1>1, <1>2, <1>7, <1>8, <1>10, <2>1 DEF DueInv, NothingMissed
  <2> QED
    BY <1>5, <2>4, <2>5 DEF ListingInv
<1> QED
  BY <1>1, <1>9, <1>10

-----------------------------------------------------------------------------
(* The listing                                                             *)

LEMMA ListingStep ==
  ASSUME ListingInv,
         [ Handling \/ Ask \/ TurnedAway \/ Writing \/ (Tick /\ UNCHANGED listingVars)
         ]_<< now, listingVars >>
  PROVE  ListingInv'
<1>1. CASE Handling \/ Ask \/ TurnedAway
  BY <1>1, Asking, Reading DEF Handling
<1>2. CASE Writing
  BY <1>2, TablesGrow DEF Writing
<1>3. CASE UNCHANGED listingVars
  <2>1. UNCHANGED << rows, at, scope, range, cursor, page, listed, due >>
    BY <1>3 DEF listingVars, dataVars, clientVars, pageVars
  <2> QED
    BY <2>1 DEF ListingInv, TableInv, CursorInv, DueInv, ListedOnce, NothingMissed,
      InRange
<1> QED
  BY <1>1, <1>2, <1>3

LEMMA ListingInvariant == ListingSpec => []ListingInv
<1>1. now = FirstTime /\ ListingInit => ListingInv
  BY ListingStart
<1> QED
  BY <1>1, ListingStep, PTL DEF ListingSpec

\* Whatever is written between two requests, no row is on two pages.
THEOREM EachRowOnce == ListingSpec => []ListedOnce
<1>1. ListingInv => ListedOnce
  BY DEF ListingInv, CursorInv
<1> QED
  BY <1>1, ListingInvariant, PTL

\* When the last page has been read, every row that the first request could
\* have listed, and that stayed in range, has been.
THEOREM NoRowLeftOut == ListingSpec => []NothingMissed
<1>1. ListingInv => NothingMissed
  BY DEF ListingInv, DueInv
<1> QED
  BY <1>1, ListingInvariant, PTL

-----------------------------------------------------------------------------
(* Types                                                                   *)

LEMMA ListingTypeStep ==
  ASSUME ListingTypeOK,
         [ Handling \/ Ask \/ TurnedAway \/ Writing \/ (Tick /\ UNCHANGED listingVars)
         ]_<< now, listingVars >>
  PROVE  ListingTypeOK'
<1>1. CASE Ask
  <2>1. RangeAt(given, now) \in Int \X Int
    BY ListingAssumption, ClockAssumption DEF ListingTypeOK, RangeAt, Times
  <2>2. /\ UNCHANGED << now, dataVars, given, scope, cursor, page, listed, mixed >>
        /\ range' = RangeAt(given, now) /\ at' \in { "guarding", "refused" }
        /\ due' \subseteq due
    BY <1>1 DEF Ask, InRange
  <2> QED
    BY <2>1, <2>2 DEF ListingTypeOK, dataVars
<1>2. CASE TurnedAway \/ Guard \/ RequestFails
  BY <1>2 DEF TurnedAway, Guard, RequestFails, ListingTypeOK, dataVars, clientVars, pageVars
<1>3. ASSUME NEW r \in Pinned \cup {NoRange}, NEW s \in Clusters \cup {AnyCluster}, Choose(r, s)
      PROVE  ListingTypeOK'
  BY <1>3, ListingAssumption DEF Choose, ListingTypeOK, NoRange, Times, dataVars, pageVars
<1>4. ASSUME NEW n \in 1 .. MaxPage, ReadPage(n) PROVE ListingTypeOK'
  <2>1. UNCHANGED << now, rows, money, fleet, given, scope, range >>
    BY <1>4 DEF ReadPage, dataVars
  <2>2. PICK T \in SUBSET Matching :
          /\ page' = T /\ listed' = listed \cup page /\ mixed' = { money[r] : r \in T }
          /\ due' = IF cursor = {} THEN Matching ELSE due
          /\ \/ at' = "done" /\ UNCHANGED cursor
             \/ at' = "asking" /\ \E c \in T : cursor' = {c}
    BY <1>4, Zenon DEF ReadPage
  <2>3. Matching \subseteq rows /\ rows \subseteq Row
    BY DEF Matching, InRange, ListingTypeOK
  <2>4. mixed' \subseteq Currencies
    BY <2>2, <2>3 DEF ListingTypeOK
  <2> QED
    BY <2>1, <2>2, <2>3, <2>4 DEF ListingTypeOK
<1>5. ASSUME NEW c \in Clusters, NEW u \in Currencies, NEW S \in SUBSET Row,
             CollectorWrites(c, u, S)
      PROVE  ListingTypeOK'
  <2>1. /\ UNCHANGED << now, at, given, scope, range, cursor, page, listed, mixed, due >>
        /\ rows' = rows \cup S /\ fleet' = [ fleet EXCEPT ![c] = u ]
        /\ money' = [ r \in rows' |-> IF r \in S THEN u ELSE money[r] ]
    BY <1>5 DEF CollectorWrites, clientVars, pageVars
  <2>2. money' \in [ rows' -> Currencies ]
    BY <2>1 DEF ListingTypeOK
  <2> QED
    BY <2>1, <2>2 DEF ListingTypeOK
<1>6. CASE UNCHANGED listingVars /\ (Tick \/ UNCHANGED now)
  BY <1>6, ClockAssumption
    DEF ListingTypeOK, Tick, listingVars, dataVars, clientVars, pageVars
<1> QED
  BY <1>1, <1>2, <1>3, <1>4, <1>5, <1>6 DEF Handling, Writing

\* Every variable of the listing keeps its type.
THEOREM ListingTypeCorrect == ListingSpec => []ListingTypeOK
<1>1. now = FirstTime /\ ListingInit => ListingTypeOK
  <2> SUFFICES ASSUME now = FirstTime, ListingInit PROVE ListingTypeOK
    OBVIOUS
  <2>1. rows \subseteq Row /\ fleet \in [ Clusters -> Currencies \cup {Unset} ]
    BY ListingAssumption DEF ListingInit
  <2>2. \A r \in rows : fleet[ClusterOf[r.id]] \in Currencies
    BY <2>1, ListingAssumption DEF ListingInit, Row
  <2>3. money \in [ rows -> Currencies ]
    BY <2>2 DEF ListingInit
  <2> QED
    BY <2>1, <2>3, ClockAssumption DEF ListingInit, ListingTypeOK, NoRange, Times
<1> QED
  BY <1>1, ListingTypeStep, PTL DEF ListingSpec

-----------------------------------------------------------------------------
(* The composition                                                         *)

LEMMA HandlingTakesNoTime == Handling \/ Writing => UNCHANGED now
BY DEF Handling, Writing, Choose, Guard, RequestFails, ReadPage, CollectorWrites

LEMMA RequestsStepLimiter ==
  ASSUME [Next]_vars
  PROVE  [ (Tick /\ UNCHANGED limiterVars) \/ (\E k \in Keys : Request(k)) ]_<< now, limiterVars >>
<1>1. AskForPage \/ OtherRequest => \E k \in Keys : Request(k)
  BY RequestAssumption DEF AskForPage, OtherRequest
<1>2. Handle \/ Write => UNCHANGED << now, limiterVars >>
  BY HandlingTakesNoTime DEF Handle, Write
<1>3. Later => Tick /\ UNCHANGED limiterVars
  BY DEF Later
<1>4. UNCHANGED vars => UNCHANGED << now, limiterVars >>
  BY DEF vars
<1> QED
  BY <1>1, <1>2, <1>3, <1>4 DEF Next

LEMMA RequestsStepListing ==
  ASSUME [Next]_vars
  PROVE  [ Handling \/ Ask \/ TurnedAway \/ Writing \/ (Tick /\ UNCHANGED listingVars)
         ]_<< now, listingVars >>
<1>1. AskForPage => Ask \/ TurnedAway \/ UNCHANGED << now, listingVars >>
  BY DEF AskForPage, Request
<1>2. OtherRequest => UNCHANGED << now, listingVars >>
  BY DEF OtherRequest, Request
<1>3. Handle \/ Write => Handling \/ Writing
  BY DEF Handle, Write
<1>4. Later => Tick /\ UNCHANGED listingVars
  BY DEF Later
<1>5. UNCHANGED vars => UNCHANGED << now, listingVars >>
  BY DEF vars
<1> QED
  BY <1>1, <1>2, <1>3, <1>4, <1>5 DEF Next

LEMMA RequestsAreLimited == Spec => LimiterSpec
<1>1. Init => now = FirstTime /\ LimiterInit
  BY DEF Init
<1> QED
  BY <1>1, RequestsStepLimiter, PTL DEF Spec, LimiterSpec

LEMMA RequestsAreListing == Spec => ListingSpec
<1>1. Init => now = FirstTime /\ ListingInit
  BY DEF Init
<1> QED
  BY <1>1, RequestsStepListing, PTL DEF Spec, ListingSpec

\* Among all requests of the API, the limiter is one bucket for each client.
THEOREM ApiLimiterIsBuckets == Spec => LimiterIsBuckets
BY RequestsAreLimited, LimiterRefinesBuckets, PTL

\* With the limiter, the API keys and the handler in a row, a listing has each
\* row once ...
THEOREM ApiListsOnce == Spec => []ListedOnce
BY RequestsAreListing, EachRowOnce, PTL

\* ... and leaves none out.
THEOREM ApiMissesNothing == Spec => []NothingMissed
BY RequestsAreListing, NoRowLeftOut, PTL

-----------------------------------------------------------------------------
(* Retry-After                                                             *)

\* In the seconds that the header says at least one token accrues.
LEMMA WaitIsLongEnough == RetryAfter \in Nat /\ Num * RetryAfter >= Den
<1>1. CASE Num < Den
  <2>1. \A n, d \in Nat \ {0} : d \div n \in Nat /\ n * (d \div n + 1) >= d
    <3> SUFFICES ASSUME NEW n \in Nat \ {0}, NEW d \in Nat \ {0}
                 PROVE  d \div n \in Nat /\ n * (d \div n + 1) >= d
      OBVIOUS
    <3>1. d = n * (d \div n) + (d % n) /\ d % n \in 0 .. (n - 1) /\ d \div n \in Nat
      OBVIOUS
    <3>2. n * (d \div n + 1) = n * (d \div n) + n
      BY <3>1
    <3> QED
      BY <3>1, <3>2
  <2> QED
    BY <1>1, <2>1, LimiterAssumption DEF RetryAfter
<1>2. CASE ~ (Num < Den)
  BY <1>2, LimiterAssumption DEF RetryAfter
<1> QED
  BY <1>1, <1>2

\* A client that was refused has a token, or will have accrued one when it may
\* ask again.
WaitInv ==
  /\ LimiterInv /\ notBefore \in Int /\ denied \in {0, 1}
  /\ denied = 1 =>
       Level[Client] >= Den \/ Level[Client] + Num * (notBefore - now) >= Den

LEMMA WaitStep == ASSUME WaitInv, [Next]_vars PROVE WaitInv'
<1> DEFINE lv == Level[Client]
<1>1. LimiterInv'
  BY RequestsStepLimiter, LimiterStep DEF WaitInv
<1>2. lv \in 0 .. Full /\ lv' \in 0 .. Full /\ now \in Int /\ now' \in Int /\ Client \in Keys
  <2>1. (LimiterInv => Level \in [ Keys -> 0 .. Full ])'
    BY LevelType, PTL
  <2>2. Level \in [ Keys -> 0 .. Full ] /\ Level' \in [ Keys -> 0 .. Full ]
    BY <1>1, <2>1, LevelType DEF WaitInv
  <2>3. now \in Int /\ now' \in Int /\ Client \in Keys
    BY <1>1, RequestAssumption DEF WaitInv, LimiterInv
  <2> QED
    BY <2>2, <2>3
<1>3. \A d \in Int : Num * d \in Int
  BY FullBucket
<1>4. CASE AskForPage
  <2>1. Request(Client) /\ now >= notBefore /\ now' = now
    BY <1>4 DEF AskForPage, Request
  <2>2. CASE verdict' = "limited"
    <3>1. lv < Den /\ lv' = lv
      BY <2>1, <2>2, RequestTakesToken, RequestAssumption DEF WaitInv
    <3>2. notBefore' = now + RetryAfter /\ denied' = denied + 1
      BY <1>4, <2>2 DEF AskForPage
    <3>3. denied = 0
      <4>1. Num * (notBefore - now) <= 0
        <5>1. \A n \in Nat, d \in Int : d <= 0 => n * d <= 0
          OBVIOUS
        <5> QED
          BY <2>1, <5>1, FullBucket, <1>2 DEF WaitInv
      <4> QED
        BY <1>2, <1>3, <3>1, <4>1, FullBucket DEF WaitInv
    <3>4. notBefore' - now' = RetryAfter
      BY <1>2, <2>1, <3>2, WaitIsLongEnough
    <3>5. lv' + Num * (notBefore' - now') >= Den
      BY <1>2, <1>3, <3>4, WaitIsLongEnough, FullBucket
    <3> QED
      BY <1>1, <1>2, <3>2, <3>3, <3>5, WaitIsLongEnough DEF WaitInv
  <2>3. CASE verdict' = "allowed"
    BY <1>1, <1>4, <2>3 DEF AskForPage, WaitInv
  <2> QED
    BY <1>4, <2>2, <2>3 DEF AskForPage
<1>5. CASE UNCHANGED << denied, notBefore, now >> /\ lv' = lv
  BY <1>1, <1>5 DEF WaitInv
<1>6. CASE OtherRequest
  <2>1. PICK k \in Keys \ {Client} : Request(k)
    BY <1>6 DEF OtherRequest
  <2>2. lv' = lv
    BY <1>2, <2>1, RequestTakesToken, LevelType DEF WaitInv
  <2>3. UNCHANGED << denied, notBefore >> /\ UNCHANGED now
    BY <1>6, <2>1, Zenon DEF OtherRequest, Request
  <2> QED
    BY <1>5, <2>2, <2>3
<1>7. CASE Handle \/ Write \/ UNCHANGED vars
  <2>1. UNCHANGED << denied, notBefore, now, limiterVars >>
    BY <1>7, HandlingTakesNoTime DEF Handle, Write, vars
  <2>2. UNCHANGED << now, known, tokens, last >>
    BY <2>1 DEF limiterVars
  <2>3. Level' = Level
    BY <2>2 DEF Level, Accrued
  <2> QED
    BY <1>5, <2>1, <2>3
<1>8. CASE Later
  <2>1. now' = now + 1 /\ UNCHANGED << denied, notBefore, limiterVars >> /\ Tick
    BY <1>8 DEF Later, Tick
  <2>2. lv' = Least(Full, lv + Num)
    BY <1>2, <2>1, TickRefills DEF WaitInv
  <2>3. Num * (notBefore - now) = Num * (notBefore' - now') + Num
    BY <1>2, <2>1, LimiterAssumption DEF WaitInv
  <2>4. notBefore - now \in Int /\ notBefore' - now' \in Int /\ notBefore' \in Int
    BY <1>2, <2>1 DEF WaitInv
  <2>5. CASE denied = 1
    <3>1. lv >= Den \/ lv + Num * (notBefore - now) >= Den
      BY <2>5 DEF WaitInv
    <3>2. lv' >= Den \/ lv' + Num * (notBefore' - now') >= Den
      BY <1>2, <1>3, <2>2, <2>3, <2>4, <3>1, FullBucket DEF Least
    <3> QED
      BY <1>1, <2>1, <2>4, <2>5, <3>2 DEF WaitInv
  <2>6. CASE denied # 1
    BY <1>1, <2>1, <2>4, <2>6 DEF WaitInv
  <2> QED
    BY <2>5, <2>6
<1> QED
  BY <1>4, <1>6, <1>7, <1>8 DEF Next

\* Whoever waits as long as Retry-After says gets through, at any rate, burst
\* and number of other clients: two 429s in a row cannot happen.
THEOREM RetryAfterSuffices == Spec => []RetryAfterIsEnough
<1>1. Init => WaitInv
  BY LimiterStart, ClockAssumption DEF Init, WaitInv
<1>2. WaitInv => RetryAfterIsEnough
  BY DEF WaitInv, RetryAfterIsEnough
<1> QED
  BY <1>1, <1>2, WaitStep, PTL DEF Spec
================================================================================
