---------------------------- MODULE FiguresProofs ----------------------------
(***************************************************************************)
(* Proofs about the figures and the advice, for every input of the shape   *)
(* that the code gives them: any number of rows, entries and variables,    *)
(* where the run takes a few.                                              *)
(***************************************************************************)
EXTENDS MCFigures, FiniteSetTheorems, WellFoundedInduction, TLAPS

-----------------------------------------------------------------------------
(* Settings: one refused start reveals everything                          *)

\* What Validate says of a variable depends on its value and on the values of
\* the variables linked to it.
LEMMA ValidateIsLocal ==
  ASSUME NEW c, NEW d, NEW v \in Validate(d), c[v] = d[v],
         \A u : << u, v >> \in Linked => c[u] = d[u]
  PROVE  v \in Validate(c)
<1>1. CASE v \in BadText(d) \cup BadTime(d)
  BY <1>1 DEF BadText, BadTime, Validate
<1>2. CASE v \in BadAccess(d)
  BY <1>2 DEF BadAccess, Validate, Linked, IsProduction
<1>3. CASE v \in BadPool(d)
  BY <1>3 DEF BadPool, Validate, Linked
<1>4. CASE v \in BadKube(d)
  BY <1>4 DEF BadKube, Validate, Linked
<1>5. CASE v \in BadCluster(d)
  BY <1>5 DEF BadCluster, Validate, Linked, IsProduction
<1>6. CASE v \in BadCollector(d)
  BY <1>6 DEF BadCollector, Validate, Linked
<1> QED
  BY <1>1, <1>2, <1>3, <1>4, <1>5, <1>6 DEF Validate

\* Validate speaks of variables that there are.
LEMMA ValidateNames == ASSUME NEW c PROVE Validate(c) \subseteq Variables
  BY DEF Validate, BadText, BadTime, BadAccess, BadPool, BadKube, BadCluster, BadCollector,
     Timeouts, Variables, Defaults

\* Whatever the environment was and whatever of it is repaired.
THEOREM EveryRepairReveals == ASSUME NEW env, NEW repair PROVE RepairReveals(env, repair)
<1> DEFINE after == [ v \in DOMAIN env \cup DOMAIN repair |->
                        IF v \in DOMAIN repair THEN repair[v] ELSE env[v] ]
<1> SUFFICES ASSUME DOMAIN repair \subseteq Reported(env), NEW v \in Reported(after),
                    v \notin Reported(env), \A u \in DOMAIN repair : << u, v >> \notin Linked
             PROVE  FALSE
  BY DEF RepairReveals
<1>1. v \notin DOMAIN repair
  OBVIOUS
<1>2. \A u : u \notin DOMAIN repair => /\ u \in DOMAIN after <=> u \in DOMAIN env
                                       /\ u \in DOMAIN env => after[u] = env[u]
  OBVIOUS
<1> HIDE DEF after
<1>3. v \notin Unread(after)
  BY <1>1, <1>2 DEF Reported, Unread
<1>4. v \in Validate(Loaded(after))
  BY <1>3 DEF Reported
<1>5. \A u \in Variables : u \notin DOMAIN repair => Loaded(after)[u] = Loaded(env)[u]
  BY <1>2 DEF Loaded, Read
<1>6. \A u : << u, v >> \in Linked => u \in Variables
  BY DEF Linked, Variables, Defaults
<1>7. v \in Validate(Loaded(env))
  BY <1>1, <1>4, <1>5, <1>6, ValidateIsLocal, ValidateNames
<1> QED
  BY <1>7 DEF Reported

-----------------------------------------------------------------------------
(* Induction over finite sets, by a smallest counterexample                *)

\* Of finitely many sets one has none of the others within it.
LEMMA Least ==
  ASSUME NEW S, IsFiniteSet(S)
  PROVE  \A T \in SUBSET SUBSET S :
           T # {} => \E s \in T : \A t \in T : t \subseteq s => t = s
<1> SUFFICES ASSUME NEW T \in SUBSET SUBSET S, T # {}
             PROVE  \E s \in T : \A t \in T : t \subseteq s => t = s
  OBVIOUS
<1>1. IsWellFoundedOn(StrictSubsetOrdering(S), FiniteSubsetsOf(S))
  BY FS_StrictSubsetOrderingWellFounded
<1>2. T \subseteq FiniteSubsetsOf(S)
  BY FS_Subset DEF FiniteSubsetsOf
<1>3. PICK s \in T : \A t \in T : ~ (<< t, s >> \in StrictSubsetOrdering(S))
  BY <1>1, <1>2, WFMin
<1> QED
  BY <1>3 DEF StrictSubsetOrdering

\* A finite set of integers has a greatest and a smallest element.
LEMMA Extremes ==
  ASSUME NEW S, IsFiniteSet(S)
  PROVE  S \subseteq Int /\ S # {} => \E lo, hi \in S : \A x \in S : lo <= x /\ x <= hi
<1> DEFINE T == { s \in SUBSET S :
                    s # {} /\ ~ \E lo, hi \in s : \A x \in s : lo <= x /\ x <= hi }
<1>0. T # {} => \E s \in T : \A t \in T : t \subseteq s => t = s
  <2>1. T \in SUBSET SUBSET S
    OBVIOUS
  <2> HIDE DEF T
  <2> QED
    BY <2>1, Least
<1> SUFFICES ASSUME S \subseteq Int, T # {} PROVE FALSE
  OBVIOUS
<1>1. PICK s \in T : \A t \in T : t \subseteq s => t = s
  BY <1>0
<1>2. PICK x : x \in s
  BY <1>1
<1>3. CASE s \ {x} = {}
  BY <1>1, <1>2, <1>3
<1>4. CASE s \ {x} # {}
  <2>1. s \ {x} \notin T
    BY <1>1, <1>2
  <2>2. PICK lo, hi \in s \ {x} : \A y \in s \ {x} : lo <= y /\ y <= hi
    BY <1>1, <1>4, <2>1
  <2>3. x \in Int /\ lo \in Int /\ hi \in Int /\ \A y \in s : y \in Int
    BY <1>1, <1>2
  <2>4. PICK a \in {lo, x} : a <= lo /\ a <= x
    BY <2>3
  <2>5. PICK b \in {hi, x} : hi <= b /\ x <= b
    BY <2>3
  <2>6. a \in s /\ b \in s
    BY <1>2, <2>2
  <2>7. ASSUME NEW y \in s PROVE a <= y /\ y <= b
    <3>1. y = x \/ (lo <= y /\ y <= hi)
      BY <2>2
    <3>2. y \in Int /\ a \in Int /\ b \in Int
      BY <2>3
    <3>3. a <= x /\ a <= lo /\ x <= b /\ hi <= b
      BY <2>4, <2>5
    <3> HIDE DEF T
    <3> QED
      BY <2>3, <3>1, <3>2, <3>3
  <2> QED
    BY <1>1, <2>6, <2>7
<1> QED
  BY <1>3, <1>4

LEMMA GreatestIs ==
  ASSUME NEW S, S \subseteq Int, IsFiniteSet(S), S # {}
  PROVE  Greatest(S) \in S /\ \A x \in S : x <= Greatest(S)
<1>1. \E x \in S : \A y \in S : x >= y
  BY Extremes
<1>2. Greatest(S) \in S /\ \A y \in S : Greatest(S) >= y
  BY <1>1 DEF Greatest
<1> QED
  BY <1>2

LEMMA SmallestIs ==
  ASSUME NEW S, S \subseteq Int, IsFiniteSet(S), S # {}
  PROVE  Smallest(S) \in S /\ \A x \in S : Smallest(S) <= x
  BY Extremes DEF Smallest

-----------------------------------------------------------------------------
(* The percentile                                                          *)

\* A column of the rows S has natural numbers.
Column(S, c) == \A r \in S : r[c] \in Nat

\* The values of a column of finitely many rows are finitely many.
LEMMA ColumnIsFinite ==
  ASSUME NEW S, IsFiniteSet(S), NEW c PROVE IsFiniteSet({ r[c] : r \in S })
<1> DEFINE f == [ r \in S |-> r[c] ]
<1>1. f \in Surjection(S, { r[c] : r \in S })
  BY DEF Surjection
<1> QED
  BY <1>1, FS_Surjection

\* There is a value k places after the smallest.
LEMMA RankedIs ==
  ASSUME NEW S, IsFiniteSet(S), NEW c, Column(S, c), NEW k \in Nat, k < Cardinality(S)
  PROVE  /\ Ranked(S, c, k) \in { r[c] : r \in S }
         /\ Cardinality({ r \in S : r[c] < Ranked(S, c, k) }) <= k
         /\ k < Cardinality({ r \in S : r[c] <= Ranked(S, c, k) })
<1> DEFINE V == { r[c] : r \in S }
           W == { v \in V : k < Cardinality({ r \in S : r[c] <= v }) }
<1>1. V \subseteq Int /\ IsFiniteSet(V) /\ V # {} /\ W \subseteq V
  <2>1. S # {}
    BY FS_EmptySet
  <2> QED
    BY <2>1, ColumnIsFinite DEF Column
<1>2. PICK top \in V : \A x \in V : x <= top
  BY <1>1, Extremes
<1>3. top \in W
  <2>1. { r \in S : r[c] <= top } = S
    BY <1>2
  <2> QED
    BY <1>2, <2>1
<1>4. IsFiniteSet(W) /\ W \subseteq Int /\ W # {}
  BY <1>1, <1>3, FS_Subset
<1>5. PICK v \in W : \A x \in W : v <= x
  <2> HIDE DEF W
  <2> QED
    BY <1>4, Extremes
<1> DEFINE below == { u \in V : u < v }
<1>6. Cardinality({ r \in S : r[c] < v }) <= k
  <2>1. CASE below = {}
    <3>1. { r \in S : r[c] < v } = {}
      BY <2>1
    <3>2. Cardinality({ r \in S : r[c] < v }) = 0
      BY <3>1, FS_EmptySet
    <3> QED
      BY <3>2
  <2>2. CASE below # {}
    <3>1. IsFiniteSet(below) /\ below \subseteq Int
      BY <1>1, FS_Subset
    <3>2. PICK u \in below : \A x \in below : x <= u
      <4> HIDE DEF below
      <4> QED
        BY <2>2, <3>1, Extremes
    <3>3. u \in V /\ u < v /\ u \in Int /\ v \in Int
      BY <1>1, <3>2
    <3>4. ~ (k < Cardinality({ r \in S : r[c] <= u }))
      BY <1>1, <1>5, <3>3
    <3>5. \A r \in S : r[c] \in Int /\ r[c] \in V
      BY DEF Column
    <3>6. { r \in S : r[c] < v } = { r \in S : r[c] <= u }
      BY <3>2, <3>3, <3>5
    <3>7. Cardinality({ r \in S : r[c] <= u }) \in Nat
      BY FS_Subset, FS_CardinalityType
    <3> QED
      BY <3>4, <3>6, <3>7
  <2> QED
    BY <2>1, <2>2
<1>7. \E x \in V : /\ Cardinality({ r \in S : r[c] < x }) <= k
                   /\ k < Cardinality({ r \in S : r[c] <= x })
  BY <1>5, <1>6
<1> QED
  BY <1>7 DEF Ranked

\* A later rank has no smaller value.
LEMMA RankedGrows ==
  ASSUME NEW S, IsFiniteSet(S), NEW c, Column(S, c), NEW j \in Nat, NEW k \in Nat,
         j <= k, k < Cardinality(S)
  PROVE  Ranked(S, c, j) <= Ranked(S, c, k)
<1> DEFINE x == Ranked(S, c, j) y == Ranked(S, c, k)
           low == { r \in S : r[c] <= y } under == { r \in S : r[c] < x }
<1>1. Cardinality(S) \in Nat
  BY FS_CardinalityType
<1>2. /\ x \in Nat /\ Cardinality(under) <= j
      /\ y \in Nat /\ k < Cardinality(low)
  <2>1. /\ x \in { r[c] : r \in S } /\ Cardinality(under) <= j
    <3>1. j < Cardinality(S)
      BY <1>1
    <3> QED
      BY <3>1, RankedIs
  <2>2. /\ y \in { r[c] : r \in S } /\ k < Cardinality(low)
    BY <1>1, RankedIs
  <2> HIDE DEF x, y, under, low
  <2> QED
    BY <2>1, <2>2 DEF Column
<1> HIDE DEF x, y
<1>3. SUFFICES ASSUME y < x PROVE FALSE
  BY <1>2 DEF x, y
<1>4. low \subseteq under
  BY <1>2, <1>3 DEF Column
<1>5. /\ IsFiniteSet(under) /\ Cardinality(under) \in Nat
      /\ Cardinality(low) \in Nat /\ Cardinality(low) <= Cardinality(under)
  <2>1. under \subseteq S /\ low \subseteq S
    OBVIOUS
  <2> HIDE DEF under, low
  <2>2. IsFiniteSet(under) /\ IsFiniteSet(low)
    BY <2>1, FS_Subset
  <2> QED
    BY <1>4, <2>2, FS_Subset, FS_CardinalityType
<1> HIDE DEF under, low
<1> QED
  BY <1>2, <1>5

\* Rounding never takes a value below the whole number it starts from.
LEMMA HundredthsKeepWhole ==
  ASSUME NEW lo \in Nat, NEW g \in Nat
  PROVE  Hundredths(100 * lo + g) \in Nat /\ lo <= Hundredths(100 * lo + g)
<1> DEFINE q == (100 * lo + g) \div 100
<1>1. q \in Nat /\ lo <= q
  OBVIOUS
<1>2. Hundredths(100 * lo + g) \in {q, q + 1}
  BY DEF Hundredths
<1> HIDE DEF q
<1> QED
  BY <1>1, <1>2

\* No more of the measured rows than one in twenty, rounded up, are above the
\* percentile, however the column is distributed.
LEMMA FewAboveP95 ==
  ASSUME NEW rows, IsFiniteSet(rows), NEW c, Column(rows, c)
  PROVE  LET S == Measured(rows, c) IN
         /\ P95(rows, c) \in Nat
         /\ IsFiniteSet(S) /\ Cardinality(S) \in Nat
         /\ Cardinality({ r \in S : r[c] > P95(rows, c) }) \in Nat
         /\ 100 * Cardinality({ r \in S : r[c] > P95(rows, c) }) <= 5 * (Cardinality(S) - 1) + 99
<1> DEFINE S == Measured(rows, c)
           n == Cardinality(S)
           p == P95(rows, c)
           above == { r \in S : r[c] > p }
<1>1. IsFiniteSet(S) /\ n \in Nat /\ Column(S, c)
  <2>1. IsFiniteSet(S)
    BY FS_Subset DEF Measured
  <2> QED
    BY <2>1, FS_CardinalityType DEF Column, Measured
<1>2. IsFiniteSet(above) /\ Cardinality(above) \in Nat
  BY <1>1, FS_Subset, FS_CardinalityType
<1>3. CASE S = {}
  <2>1. above = {} /\ n = 0 /\ Cardinality(above) = 0
    BY <1>3, FS_EmptySet
  <2>2. p = 0
    BY <1>3 DEF P95
  <2> HIDE DEF n, p, above
  <2>3. p \in Nat /\ 100 * Cardinality(above) <= 5 * (n - 1) + 99
    BY <2>1, <2>2
  <2> QED
    BY <1>1, <1>2, <2>3 DEF n, p, above
<1>4. CASE S # {}
  <2> DEFINE at == 95 * (n - 1)
             j == at \div 100
             k == (at + 99) \div 100
             lo == Ranked(S, c, j)
             hi == Ranked(S, c, k)
             low == { r \in S : r[c] <= lo }
             up  == { r \in S : r[c] > lo }
  <2>1. n > 0
    BY <1>1, <1>4, FS_EmptySet
  <2>2. p = Hundredths(100 * lo + (at % 100) * (hi - lo))
    BY <1>4 DEF P95
  <2>3. /\ j \in Nat /\ k \in Nat /\ j <= k /\ k < n
        /\ 100 * (n - 1 - j) <= 5 * (n - 1) + 99
        /\ at % 100 \in Nat
    <3> HIDE DEF n
    <3> QED
      BY <1>1, <2>1
  <2>4. /\ lo \in { r[c] : r \in S } /\ j < Cardinality(low)
        /\ hi \in { r[c] : r \in S } /\ lo <= hi
    <3>1. j < n
      <4> HIDE DEF n, j, k
      <4> QED
        BY <1>1, <2>3
    <3> HIDE DEF j, k, at
    <3> QED
      BY <1>1, <2>3, <3>1, RankedIs, RankedGrows
  <2>5. lo \in Nat /\ hi \in Nat
    <3> HIDE DEF lo, hi
    <3> QED
      BY <1>1, <2>4 DEF Column
  <2>6. p \in Nat /\ lo <= p
    <3> DEFINE f == at % 100
    <3>1. f * (hi - lo) \in Nat
      <4> HIDE DEF f, hi, lo
      <4> QED
        BY <2>3, <2>4, <2>5 DEF f
    <3> HIDE DEF p, lo
    <3> DEFINE g == (at % 100) * (hi - lo)
    <3>2. g \in Nat /\ p = Hundredths(100 * lo + g)
      BY <2>2, <3>1
    <3> HIDE DEF g
    <3> QED
      BY <2>5, <3>2, HundredthsKeepWhole
  <2>7. /\ Cardinality(up) = n - Cardinality(low)
        /\ Cardinality(low) \in Nat /\ Cardinality(up) \in Nat
    <3>1. up = S \ low /\ low \subseteq S /\ S \cap low = low
      <4> HIDE DEF lo
      <4> QED
        BY <1>1, <2>5 DEF Column
    <3> HIDE DEF low, up, S
    <3>2. IsFiniteSet(low) /\ IsFiniteSet(up)
      BY <1>1, <3>1, FS_Subset
    <3>3. Cardinality(S \ low) = Cardinality(S) - Cardinality(S \cap low)
      BY <1>1, FS_Difference
    <3> QED
      BY <3>1, <3>2, <3>3, FS_CardinalityType
  <2>8. Cardinality(above) <= Cardinality(up)
    <3>1. above \subseteq up /\ up \subseteq S
      <4> HIDE DEF lo, p
      <4> QED
        BY <1>1, <2>5, <2>6 DEF Column
    <3> HIDE DEF above, up
    <3> QED
      BY <1>1, <3>1, FS_Subset
  <2>9. 100 * Cardinality(above) <= 5 * (n - 1) + 99
    <3> HIDE DEF n, j, k, lo, hi, low, up, above
    <3> QED
      BY <1>1, <1>2, <2>3, <2>4, <2>7, <2>8
  <2> QED
    BY <1>1, <1>2, <2>6, <2>9
<1> QED
  BY <1>3, <1>4

\* A proposal with headroom above the percentile fits what was measured.
LEMMA HeadroomFits ==
  ASSUME NEW rows, IsFiniteSet(rows), NEW c, Column(rows, c),
         NEW m \in Nat, HeadroomFactor * P95(rows, c) <= 100 * m
  PROVE  Fits(Measured(rows, c), c, m)
<1> DEFINE S == Measured(rows, c)
           p == P95(rows, c)
           above == { r \in S : r[c] > p }
           short == { r \in S : HeadroomFactor * r[c] > 100 * m }
<1>1. /\ p \in Nat /\ IsFiniteSet(S) /\ Cardinality(S) \in Nat
      /\ Cardinality(above) \in Nat
      /\ 100 * Cardinality(above) <= 5 * (Cardinality(S) - 1) + 99
  BY FewAboveP95
<1>2. short \subseteq above /\ above \subseteq S
  <2>1. \A r \in S : r[c] \in Nat
    BY DEF Measured, Column
  <2> HIDE DEF p, S
  <2> QED
    BY <1>1, <2>1 DEF HeadroomFactor, p
<1>3. Cardinality(short) \in Nat /\ Cardinality(short) <= Cardinality(above)
  <2> HIDE DEF short, above
  <2>1. IsFiniteSet(above)
    BY <1>1, <1>2, FS_Subset
  <2> QED
    BY <1>2, <2>1, FS_Subset, FS_CardinalityType
<1>4. 100 * Cardinality(short) <= 5 * (Cardinality(S) - 1) + 99
  <2> HIDE DEF short, above, S
  <2> QED
    BY <1>1, <1>3
<1> QED
  BY <1>4 DEF Fits

-----------------------------------------------------------------------------
(* The advice                                                              *)

\* The rows of a container, as the fact table holds them.
ContainerRows(rows) ==
  /\ IsFiniteSet(rows) /\ rows # {}
  /\ \A r \in rows :
       /\ r.w \in Int /\ r.cpu \in Nat /\ r.mem \in Nat
       /\ r.peakCPU \in Nat /\ r.peakMem \in Nat /\ r.cpuPrice \in Nat /\ r.memPrice \in Nat

\* What the rules look at.
StatsOK(s) ==
  /\ s.replicas \in Nat /\ s.cpu \in Nat /\ s.mem \in Nat
  /\ s.cpuP95 \in Nat /\ s.memP95 \in Nat /\ s.cpuPrice \in Nat /\ s.memPrice \in Nat

LEMMA RowColumns ==
  ASSUME NEW rows, ContainerRows(rows)
  PROVE  /\ IsFiniteSet(rows)
         /\ Column(rows, "cpu") /\ Column(rows, "mem")
         /\ Column(rows, "peakCPU") /\ Column(rows, "peakMem")
  BY DEF ContainerRows, Column

LEMMA GreatestOfColumn ==
  ASSUME NEW rows, IsFiniteSet(rows), rows # {}, NEW c, Column(rows, c)
  PROVE  Greatest({ r[c] : r \in rows }) \in Nat
<1> DEFINE V == { r[c] : r \in rows }
<1>1. V \subseteq Int /\ V # {} /\ IsFiniteSet(V)
  BY ColumnIsFinite DEF Column
<1>2. Greatest(V) \in V
  <2> HIDE DEF V
  <2> QED
    BY <1>1, GreatestIs
<1> QED
  BY <1>2 DEF Column

\* What ContainerStats makes of the rows is in range.
LEMMA StatsAreOK ==
  ASSUME NEW rows, ContainerRows(rows)
  PROVE  /\ StatsOK(Stats(rows))
         /\ Stats(rows).cpuP95 = P95(rows, "peakCPU")
         /\ Stats(rows).memP95 = P95(rows, "peakMem")
         /\ Stats(rows).replicas = Cardinality({ r.pod : r \in rows })
<1>1. IsFiniteSet(rows) /\ rows # {}
  BY DEF ContainerRows
<1>2. \E r \in rows : \A q \in rows : q.w <= r.w
  <2> DEFINE V == { r["w"] : r \in rows }
  <2>1. V \subseteq Int /\ V # {} /\ IsFiniteSet(V)
    BY <1>1, ColumnIsFinite DEF ContainerRows
  <2>2. \E hi \in V : \A x \in V : x <= hi
    <3> HIDE DEF V
    <3> QED
      BY <2>1, Extremes
  <2> QED
    BY <2>2
<1> DEFINE latest == CHOOSE r \in rows : \A q \in rows : q.w <= r.w
<1>3. latest \in rows
  BY <1>2
<1>4. latest.cpuPrice \in Nat /\ latest.memPrice \in Nat
  <2> HIDE DEF latest
  <2> QED
    BY <1>3 DEF ContainerRows
<1>5. IsFiniteSet({ r.pod : r \in rows }) /\ Cardinality({ r.pod : r \in rows }) \in Nat
  <2>1. IsFiniteSet({ r["pod"] : r \in rows })
    BY <1>1, ColumnIsFinite
  <2> QED
    BY <2>1, FS_CardinalityType
<1>6. P95(rows, "peakCPU") \in Nat /\ P95(rows, "peakMem") \in Nat
  BY FewAboveP95, RowColumns
<1>7. Greatest({ r.cpu : r \in rows }) \in Nat /\ Greatest({ r.mem : r \in rows }) \in Nat
  BY <1>1, GreatestOfColumn, RowColumns
<1>8. /\ Stats(rows).replicas = Cardinality({ r.pod : r \in rows })
      /\ Stats(rows).cpu = Greatest({ r.cpu : r \in rows })
      /\ Stats(rows).mem = Greatest({ r.mem : r \in rows })
      /\ Stats(rows).cpuP95 = P95(rows, "peakCPU")
      /\ Stats(rows).memP95 = P95(rows, "peakMem")
      /\ Stats(rows).cpuPrice = latest.cpuPrice
      /\ Stats(rows).memPrice = latest.memPrice
  BY DEF Stats, Replicas
<1> HIDE DEF latest
<1> QED
  BY <1>4, <1>5, <1>6, <1>7, <1>8 DEF StatsOK

\* The proposals stay above the percentile.
LEMMA ProposalsKeepHeadroom ==
  ASSUME NEW p \in Nat, NEW least \in Nat
  PROVE  /\ AtLeast(WithHeadroom(p), least) \in Nat
         /\ HeadroomFactor * p <= 100 * AtLeast(WithHeadroom(p), least)
         /\ AtLeast(WithHeadroom(p), least) >= least
         /\ AtLeast(WithHeadroom(p), least) >= p
<1> DEFINE q == (p * 120 + 99) \div 100
<1>1. q \in Nat /\ 120 * p <= 100 * q /\ q >= p
  OBVIOUS
<1>2. WithHeadroom(p) = q
  <2>1. (p * 120 + 100 - 1) = p * 120 + 99
    OBVIOUS
  <2> QED
    BY <2>1 DEF WithHeadroom, CeilDiv, HeadroomFactor
<1> HIDE DEF q
<1> QED
  BY <1>1, <1>2 DEF AtLeast, HeadroomFactor

LEMMA TimesGrows ==
  ASSUME NEW x \in Nat, NEW y \in Nat, NEW n \in Nat, x <= y
  PROVE  n * x \in Nat /\ n * y \in Nat /\ n * x <= n * y
OBVIOUS

\* A smaller reservation costs no more.
LEMMA CostGrows ==
  ASSUME NEW s, StatsOK(s), NEW a \in Nat, NEW b \in Nat, a <= s.cpu, b <= s.mem,
         NEW n \in Nat, n <= s.replicas
  PROVE  /\ MonthlyCostOf(s, a, b) \in Nat
         /\ n * MonthlyCostOf(s, a, b) \in Nat
         /\ n * MonthlyCostOf(s, a, b) <= s.replicas * MonthlyCostOf(s, s.cpu, s.mem)
<1> DEFINE x == MonthlyCostOf(s, a, b) y == MonthlyCostOf(s, s.cpu, s.mem)
<1>1. /\ s.replicas \in Nat /\ s.cpu \in Nat /\ s.mem \in Nat
      /\ s.cpuPrice \in Nat /\ s.memPrice \in Nat
  BY DEF StatsOK
<1>2. /\ a * s.cpuPrice \in Nat /\ s.cpu * s.cpuPrice \in Nat
      /\ a * s.cpuPrice <= s.cpu * s.cpuPrice
      /\ b * s.memPrice \in Nat /\ s.mem * s.memPrice \in Nat
      /\ b * s.memPrice <= s.mem * s.memPrice
  BY <1>1
<1>3. x \in Nat /\ y \in Nat /\ x <= y
  BY <1>2 DEF MonthlyCostOf, HoursPerMonth
<1> HIDE DEF x, y
<1>4. n * x \in Nat /\ n * x <= n * y /\ n * y <= s.replicas * y
  BY <1>1, <1>3
<1>5. n * y \in Nat /\ s.replicas * y \in Nat
  BY <1>1, <1>3
<1> QED
  BY <1>3, <1>4, <1>5 DEF x, y

\* Each rule, and what it may say.
LEMMA SetRequestsSays ==
  ASSUME NEW s, StatsOK(s), NEW a \in SetRequests(s)
  PROVE  /\ a = Advise("set_requests", ProposedCPU(s), ProposedMemory(s), Keep, 0)
  BY DEF SetRequests

\* What each rule says when it speaks.
LEMMA IdleSays ==
  ASSUME NEW s, NEW a \in IdleAdvice(s)
  PROVE  a = Advise("idle", Keep, Keep, 0, s.replicas * MonthlyCostOf(s, s.cpu, s.mem))
  BY DEF IdleAdvice

LEMMA RightSizeSays ==
  ASSUME NEW s, NEW a \in RightSize(s)
  PROVE  \E cpu, mem :
           /\ cpu = IF Below(s.cpuP95, s.cpu, RightSizeMax) THEN AtMost(ProposedCPU(s), s.cpu) ELSE s.cpu
           /\ mem = IF Below(s.memP95, s.mem, RightSizeMax) THEN AtMost(ProposedMemory(s), s.mem) ELSE s.mem
           /\ a = Advise("right_size", IF Below(s.cpuP95, s.cpu, RightSizeMax) THEN cpu ELSE Keep,
                         IF Below(s.memP95, s.mem, RightSizeMax) THEN mem ELSE Keep, Keep,
                         s.replicas * MonthlyCostOf(s, s.cpu - cpu, s.mem - mem))
  BY DEF RightSize

LEMMA UnderRequestedSays ==
  ASSUME NEW s, NEW a \in UnderRequested(s)
  PROVE  \E cpu, mem :
           /\ cpu = IF s.cpu > 0 /\ s.cpuP95 > s.cpu THEN ProposedCPU(s) ELSE s.cpu
           /\ mem = IF s.mem > 0 /\ s.memP95 > s.mem THEN ProposedMemory(s) ELSE s.mem
           /\ a = Advise("under_requested", IF s.cpu > 0 /\ s.cpuP95 > s.cpu THEN cpu ELSE Keep,
                         IF s.mem > 0 /\ s.memP95 > s.mem THEN mem ELSE Keep, Keep,
                         - s.replicas * MonthlyCostOf(s, cpu - s.cpu, mem - s.mem))
  BY DEF UnderRequested

\* No proposal is below its percentile with headroom.
LEMMA Proposals ==
  ASSUME NEW s, StatsOK(s)
  PROVE  /\ ProposedCPU(s) \in Nat /\ HeadroomFactor * s.cpuP95 <= 100 * ProposedCPU(s)
         /\ ProposedCPU(s) >= 1 /\ ProposedCPU(s) >= s.cpuP95
         /\ ProposedMemory(s) \in Nat /\ HeadroomFactor * s.memP95 <= 100 * ProposedMemory(s)
         /\ ProposedMemory(s) >= 1 /\ ProposedMemory(s) >= s.memP95
<1>1. s.cpuP95 \in Nat /\ s.memP95 \in Nat
  BY DEF StatsOK
<1>2. /\ ProposedCPU(s) \in Nat /\ HeadroomFactor * s.cpuP95 <= 100 * ProposedCPU(s)
      /\ ProposedCPU(s) >= 1 /\ ProposedCPU(s) >= s.cpuP95
  BY <1>1, ProposalsKeepHeadroom DEF ProposedCPU
<1>3. /\ ProposedMemory(s) \in Nat /\ HeadroomFactor * s.memP95 <= 100 * ProposedMemory(s)
      /\ ProposedMemory(s) >= 16 /\ ProposedMemory(s) >= s.memP95
  BY <1>1, ProposalsKeepHeadroom DEF ProposedMemory, MinimumMemory
<1> QED
  BY <1>2, <1>3

\* What the replica rule proposes is enough for the measured use of all of them.
LEMMA OverReplicatedSays ==
  ASSUME NEW s, StatsOK(s), NEW a \in OverReplicated(s)
  PROVE  \E n \in Nat :
           /\ a = Advise("over_replicated", Keep, Keep, n,
                         (s.replicas - n) * MonthlyCostOf(s, s.cpu, s.mem))
           /\ 2 <= n /\ n < s.replicas /\ s.kind \in Tunable
           /\ 100 * s.cpuP95 * s.replicas <= 2 * OverReplicationMax * s.cpu * n
<1> DEFINE capacity == PerReplicaCapacity(s)
           use      == s.cpuP95 * s.replicas
           needed   == IF capacity > 0 THEN CeilDiv(use, capacity) ELSE 0
           n        == AtLeast(needed, MinReplicasToKeep)
<1>1. /\ s.kind \in Tunable /\ s.cpu > 0 /\ 100 * s.cpuP95 <= 30 * s.cpu /\ n < s.replicas
      /\ a = Advise("over_replicated", Keep, Keep, n,
                    (s.replicas - n) * MonthlyCostOf(s, s.cpu, s.mem))
  BY DEF OverReplicated, OverReplicationMax
<1>2. s.cpu \in Nat /\ s.cpuP95 \in Nat /\ s.replicas \in Nat
  BY DEF StatsOK
<1>3. /\ capacity = (60 * s.cpu) \div 100 /\ capacity \in Nat
      /\ 100 * capacity <= 60 * s.cpu
      /\ capacity = 0 => s.cpu <= 1
  BY <1>2 DEF PerReplicaCapacity, OverReplicationMax
<1> HIDE DEF capacity
<1>4. use \in Nat
  BY <1>2
<1>5. needed \in Nat /\ (capacity > 0 => use <= needed * capacity)
  <2> HIDE DEF use
  <2>1. CASE capacity = 0
    BY <1>3, <2>1
  <2>2. CASE capacity > 0
    <3>1. needed = (use + capacity - 1) \div capacity
      BY <2>2 DEF CeilDiv
    <3> HIDE DEF needed
    <3> QED
      BY <1>3, <1>4, <2>2, <3>1
  <2> QED
    BY <1>3, <2>1, <2>2
<1> HIDE DEF needed
<1>6. n \in Nat /\ 2 <= n /\ needed <= n
  BY <1>5 DEF AtLeast, MinReplicasToKeep
<1> HIDE DEF n
<1>7. 100 * use <= 60 * (s.cpu * n)
  <2>1. CASE capacity = 0
    <3>1. s.cpuP95 = 0
      BY <1>1, <1>2, <1>3, <2>1
    <3>2. use = 0 /\ s.cpu * n \in Nat
      BY <1>2, <1>6, <3>1
    <3> HIDE DEF use
    <3> QED
      BY <3>2
  <2>2. CASE capacity > 0
    <3> HIDE DEF use
    <3>1. needed * capacity <= n * capacity
      BY <1>3, <1>5, <1>6
    <3>2. n * (100 * capacity) <= n * (60 * s.cpu)
      BY <1>2, <1>3, <1>6
    <3>3. n * (100 * capacity) = 100 * (n * capacity) /\ n * (60 * s.cpu) = 60 * (s.cpu * n)
      BY <1>2, <1>3, <1>6
    <3>4. n * capacity \in Nat /\ s.cpu * n \in Nat /\ needed * capacity \in Nat
      BY <1>2, <1>3, <1>5, <1>6
    <3> QED
      BY <1>4, <1>5, <2>2, <3>1, <3>2, <3>3, <3>4
  <2> QED
    BY <1>3, <2>1, <2>2
<1>8. /\ 100 * s.cpuP95 * s.replicas = 100 * use
      /\ 2 * OverReplicationMax * s.cpu * n = 60 * (s.cpu * n)
  BY <1>2, <1>6 DEF OverReplicationMax
<1> QED
  BY <1>1, <1>6, <1>7, <1>8

\* The advice is one of the rules'.
LEMMA AdviceComesFromRules ==
  ASSUME NEW s
  PROVE  Analyse(s) \subseteq SetRequests(s) \cup IdleAdvice(s) \cup RightSize(s)
                              \cup UnderRequested(s) \cup OverReplicated(s)
  BY DEF Analyse

\* No rule says that it saves more than the container costs in a month.
LEMMA NothingSavesMore ==
  ASSUME NEW s, StatsOK(s), NEW a \in Analyse(s)
  PROVE  a.saving <= s.replicas * MonthlyCostOf(s, s.cpu, s.mem)
<1> DEFINE spent == s.replicas * MonthlyCostOf(s, s.cpu, s.mem)
<1>1. s.replicas \in Nat /\ s.cpu \in Nat /\ s.mem \in Nat /\ s.cpuP95 \in Nat /\ s.memP95 \in Nat
  BY DEF StatsOK
<1>2. spent \in Nat /\ MonthlyCostOf(s, s.cpu, s.mem) \in Nat
  BY <1>1, CostGrows
<1>3. CASE a \in SetRequests(s)
  BY <1>2, <1>3, SetRequestsSays DEF Advise
<1>4. CASE a \in IdleAdvice(s)
  BY <1>2, <1>4, IdleSays DEF Advise
<1>5. CASE a \in RightSize(s)
  <2>1. PICK cpu, mem :
          /\ cpu = IF Below(s.cpuP95, s.cpu, RightSizeMax) THEN AtMost(ProposedCPU(s), s.cpu) ELSE s.cpu
          /\ mem = IF Below(s.memP95, s.mem, RightSizeMax) THEN AtMost(ProposedMemory(s), s.mem) ELSE s.mem
          /\ a.saving = s.replicas * MonthlyCostOf(s, s.cpu - cpu, s.mem - mem)
    BY <1>5, RightSizeSays DEF Advise
  <2>2. cpu \in Nat /\ cpu <= s.cpu /\ mem \in Nat /\ mem <= s.mem
    BY <1>1, <2>1, Proposals DEF AtMost
  <2>3. s.cpu - cpu \in Nat /\ s.cpu - cpu <= s.cpu /\ s.mem - mem \in Nat /\ s.mem - mem <= s.mem
    BY <1>1, <2>2
  <2> QED
    BY <1>1, <2>1, <2>3, CostGrows
<1>6. CASE a \in UnderRequested(s)
  <2>1. PICK cpu, mem :
          /\ cpu = IF s.cpu > 0 /\ s.cpuP95 > s.cpu THEN ProposedCPU(s) ELSE s.cpu
          /\ mem = IF s.mem > 0 /\ s.memP95 > s.mem THEN ProposedMemory(s) ELSE s.mem
          /\ a.saving = - s.replicas * MonthlyCostOf(s, cpu - s.cpu, mem - s.mem)
    BY <1>6, UnderRequestedSays DEF Advise
  <2>2. cpu - s.cpu \in Nat /\ mem - s.mem \in Nat
    BY <1>1, <2>1, Proposals
  <2> DEFINE x == cpu - s.cpu y == mem - s.mem cost == MonthlyCostOf(s, x, y)
  <2>3. cost \in Nat
    <3> HIDE DEF x, y
    <3>1. x * s.cpuPrice \in Nat /\ y * s.memPrice \in Nat
      BY <2>2 DEF StatsOK, x, y
    <3> QED
      BY <3>1 DEF MonthlyCostOf, HoursPerMonth
  <2> HIDE DEF cost
  <2>4. - s.replicas * cost <= 0 /\ - s.replicas * cost \in Int
    BY <1>1, <2>3
  <2> QED
    BY <1>2, <2>1, <2>4 DEF cost
<1>7. CASE a \in OverReplicated(s)
  <2>1. PICK n \in Nat : /\ n < s.replicas
                         /\ a.saving = (s.replicas - n) * MonthlyCostOf(s, s.cpu, s.mem)
    BY <1>7, OverReplicatedSays DEF Advise
  <2>2. s.replicas - n \in Nat /\ s.replicas - n <= s.replicas
    BY <1>1, <2>1
  <2> QED
    BY <1>1, <2>1, <2>2, CostGrows
<1> QED
  BY <1>3, <1>4, <1>5, <1>6, <1>7, AdviceComesFromRules

\* No recommendation saves more than the container costs, whatever its rows.
THEOREM SavingSpent == ASSUME NEW rows, ContainerRows(rows) PROVE SavingIsSpent(rows)
  BY StatsAreOK, NothingSavesMore DEF SavingIsSpent

\* Advice keeps the headroom above what was measured and pulls no resource both
\* ways, whatever the rows of the container.
THEOREM AdviceSafe == ASSUME NEW rows, ContainerRows(rows) PROVE AdviceIsSafe(rows)
<1> DEFINE s == Stats(rows)
<1>1. /\ StatsOK(s) /\ s.cpuP95 = P95(rows, "peakCPU") /\ s.memP95 = P95(rows, "peakMem")
      /\ s.cpu \in Nat /\ s.mem \in Nat /\ s.cpuP95 \in Nat /\ s.memP95 \in Nat
  BY StatsAreOK DEF StatsOK
<1> HIDE DEF s
<1>2. /\ Fits(Measured(rows, "peakCPU"), "peakCPU", ProposedCPU(s))
      /\ Fits(Measured(rows, "peakMem"), "peakMem", ProposedMemory(s))
  BY <1>1, Proposals, HeadroomFits, RowColumns
<1> DEFINE FitsCPU(a) ==
             a.kind # "idle" /\ a.cpu # Keep =>
               Fits(Measured(rows, "peakCPU"), "peakCPU", a.cpu) \/ (a.kind = "right_size" /\ a.cpu = s.cpu)
           FitsMem(a) ==
             a.mem # Keep =>
               Fits(Measured(rows, "peakMem"), "peakMem", a.mem) \/ (a.kind = "right_size" /\ a.mem = s.mem)
           Shrinks(a) == a.kind = "right_size" => a.cpu <= s.cpu /\ a.mem <= s.mem
           Grows(a) == a.kind = "under_requested" =>
             (a.cpu # Keep => a.cpu > s.cpu) /\ (a.mem # Keep => a.mem > s.mem)
           Carries(a) == a.kind = "over_replicated" =>
             /\ 2 <= a.replicas /\ a.replicas < s.replicas /\ s.kind \in Tunable
             /\ 100 * s.cpuP95 * s.replicas <= 2 * OverReplicationMax * s.cpu * a.replicas
<1>3. ASSUME NEW a \in Analyse(s)
      PROVE  /\ FitsCPU(a) /\ FitsMem(a) /\ Shrinks(a) /\ Grows(a) /\ Carries(a)
             /\ a.kind = "right_size" =>
                  /\ a.cpu # Keep => 100 * s.cpuP95 < 50 * s.cpu
                  /\ a.mem # Keep => 100 * s.memP95 < 50 * s.mem
             /\ a.kind = "under_requested" =>
                  (a.cpu # Keep => s.cpuP95 > s.cpu) /\ (a.mem # Keep => s.memP95 > s.mem)
  <2>1. CASE a \in SetRequests(s)
    BY <1>1, <1>2, <2>1, SetRequestsSays DEF Advise
  <2>2. CASE a \in IdleAdvice(s)
    BY <1>1, <2>2, IdleSays DEF Advise
  <2>3. CASE a \in RightSize(s)
    <3>1. PICK cpu, mem :
            /\ cpu = IF Below(s.cpuP95, s.cpu, RightSizeMax) THEN AtMost(ProposedCPU(s), s.cpu) ELSE s.cpu
            /\ mem = IF Below(s.memP95, s.mem, RightSizeMax) THEN AtMost(ProposedMemory(s), s.mem) ELSE s.mem
            /\ a.kind = "right_size"
            /\ a.cpu = IF Below(s.cpuP95, s.cpu, RightSizeMax) THEN cpu ELSE Keep
            /\ a.mem = IF Below(s.memP95, s.mem, RightSizeMax) THEN mem ELSE Keep
      BY <2>3, RightSizeSays DEF Advise
    <3>2. cpu = s.cpu \/ cpu = ProposedCPU(s)
      BY <3>1 DEF AtMost
    <3>3. mem = s.mem \/ mem = ProposedMemory(s)
      BY <3>1 DEF AtMost
    <3>4. cpu <= s.cpu /\ mem <= s.mem
      BY <1>1, <3>1, Proposals DEF AtMost
    <3> QED
      BY <1>1, <1>2, <3>1, <3>2, <3>3, <3>4 DEF Below, RightSizeMax, Keep
  <2>4. CASE a \in UnderRequested(s)
    <3>1. PICK cpu, mem :
            /\ cpu = IF s.cpu > 0 /\ s.cpuP95 > s.cpu THEN ProposedCPU(s) ELSE s.cpu
            /\ mem = IF s.mem > 0 /\ s.memP95 > s.mem THEN ProposedMemory(s) ELSE s.mem
            /\ a.kind = "under_requested"
            /\ a.cpu = IF s.cpu > 0 /\ s.cpuP95 > s.cpu THEN cpu ELSE Keep
            /\ a.mem = IF s.mem > 0 /\ s.memP95 > s.mem THEN mem ELSE Keep
      BY <2>4, UnderRequestedSays DEF Advise
    <3>2. /\ ProposedCPU(s) \in Nat /\ ProposedCPU(s) >= s.cpuP95
          /\ ProposedMemory(s) \in Nat /\ ProposedMemory(s) >= s.memP95
      BY <1>1, Proposals
    <3> QED
      BY <1>1, <1>2, <3>1, <3>2 DEF Keep
  <2>5. CASE a \in OverReplicated(s)
    <3>1. PICK n \in Nat :
            /\ a.kind = "over_replicated" /\ a.cpu = Keep /\ a.mem = Keep /\ a.replicas = n
            /\ 2 <= n /\ n < s.replicas /\ s.kind \in Tunable
            /\ 100 * s.cpuP95 * s.replicas <= 2 * OverReplicationMax * s.cpu * n
      BY <1>1, <2>5, OverReplicatedSays DEF Advise
    <3> QED
      BY <3>1
  <2> QED
    BY <2>1, <2>2, <2>3, <2>4, <2>5, AdviceComesFromRules
<1>4. ASSUME NEW a \in Analyse(s), NEW b \in Analyse(s),
             a.kind = "right_size", b.kind = "under_requested"
      PROVE  (a.cpu = Keep \/ b.cpu = Keep) /\ (a.mem = Keep \/ b.mem = Keep)
  BY <1>1, <1>3, <1>4
<1> QED
  BY <1>3, <1>4 DEF AdviceIsSafe, s

-----------------------------------------------------------------------------
(* The price of a node                                                     *)

\* Dividing rounds to the nearest.
LEMMA DivRoundIs ==
  ASSUME NEW a \in Int, NEW b \in Nat \ {0}
  PROVE  /\ DivRound(a, b) \in Int
         /\ 2 * (b * DivRound(a, b)) <= 2 * a + b
         /\ 2 * (b * DivRound(a, b)) > 2 * a - b
<1> DEFINE m == 2 * a + b d == 2 * b q == m \div d
<1>1. m \in Int /\ d \in Nat /\ d > 0
  OBVIOUS
<1> HIDE DEF m, d
<1>2. q \in Int /\ d * q <= m /\ m < d * q + d
  BY <1>1
<1> HIDE DEF q
<1>3. d * q = 2 * (b * q)
  BY <1>2 DEF d
<1>4. b * q \in Int
  BY <1>2
<1>5. 2 * (b * q) <= 2 * a + b /\ 2 * (b * q) > 2 * a - b
  BY <1>2, <1>3, <1>4 DEF d, m
<1> QED
  BY <1>2, <1>5 DEF DivRound, q, d, m

\* A resource of a node, split between two pods and charged in k windows, costs
\* its rate but for half a digit for each of the charges.
LEMMA SplitCosts ==
  ASSUME NEW part \in Int, NEW unit \in Nat \ {0}, NEW size \in Nat, NEW rate \in Nat,
         NEW k \in Nat \ {0}
  PROVE  LET a == DivRound((part * size) * rate, unit * k)
             b == DivRound(((unit - part) * size) * rate, unit * k)
         IN /\ a \in Int /\ b \in Int
            /\ k * a + k * b <= size * rate + k
            /\ k * a + k * b >= size * rate - k
<1> DEFINE x == (part * size) * rate
           y == ((unit - part) * size) * rate
           d == unit * k
           a == DivRound(x, d) b == DivRound(y, d)
           w == size * rate
<1>1. x \in Int /\ y \in Int /\ d \in Nat \ {0} /\ w \in Nat
  OBVIOUS
<1>2. x + y = unit * w
  <2>1. x = part * w
    OBVIOUS
  <2>2. y = (unit - part) * w
    OBVIOUS
  <2> HIDE DEF w, x, y
  <2>3. part * w + (unit - part) * w = unit * w
    BY <1>1
  <2> QED
    BY <2>1, <2>2, <2>3
<1> HIDE DEF x, y, w, d
<1>3. /\ a \in Int /\ 2 * (d * a) <= 2 * x + d /\ 2 * (d * a) > 2 * x - d
      /\ b \in Int /\ 2 * (d * b) <= 2 * y + d /\ 2 * (d * b) > 2 * y - d
  BY <1>1, DivRoundIs
<1> HIDE DEF a, b
<1> DEFINE t == k * a + k * b
<1>4. t \in Int /\ d * a + d * b = unit * t /\ unit * k = d
  <2>1. d * a = unit * (k * a) /\ d * b = unit * (k * b)
    BY <1>3 DEF d
  <2> QED
    BY <1>3, <2>1 DEF d
<1> HIDE DEF t
<1>5. unit * t <= unit * w + d /\ unit * t >= unit * w - d
  <2>1. d * a \in Int /\ d * b \in Int /\ unit * t \in Int /\ unit * w \in Int
    BY <1>1, <1>3, <1>4
  <2> QED
    BY <1>1, <1>2, <1>3, <1>4, <2>1
<1>6. unit * t <= unit * (w + k) /\ unit * t >= unit * (w - k)
  BY <1>1, <1>4, <1>5
<1>7. \A u, v \in Int : unit * u <= unit * v => u <= v
  OBVIOUS
<1>8. t <= w + k /\ t >= w - k
  BY <1>1, <1>4, <1>6, <1>7
<1> QED
  BY <1>3, <1>8 DEF a, b, t, x, y, d, w

\* A price list as the loader reads it: prices are numbers or one of the texts
\* that are none, no region has the empty name, and there is one fallback or none.
EntryShape(e) ==
  /\ e.vcpu \in Int /\ e.gib \in Int
  /\ e.hourly \in Int /\ e.spot \in Int /\ e.cpuRate \in Int /\ e.memRate \in Int

ListShape(c) ==
  /\ c.cpuShare \in Int /\ c.memShare \in Int
  /\ NoRegion \notin DOMAIN c.regions
  /\ \A r \in DOMAIN c.regions : \A t \in DOMAIN c.regions[r] : EntryShape(c.regions[r][t])
  /\ \A e, f \in c.fallback : e = f
  /\ \A e \in c.fallback : EntryShape(e)

\* The entry of a node, if there is one.
Fitting(c, n) ==
  IF n.type = NoType THEN {}
  ELSE IF EntryIn(c, n.region, n.type) # {} THEN EntryIn(c, n.region, n.type)
  ELSE EntryIn(c, c.default, n.type)

\* The entry of a node is the one of its region, or of the default one.
LEMMA LookupFinds ==
  ASSUME NEW c, ListShape(c), NEW n
  PROVE  Lookup(c, IF n.region = NoRegion THEN c.default ELSE n.region, n.type) = Fitting(c, n)
<1>1. CASE n.region = NoRegion
  <2>1. EntryIn(c, n.region, n.type) = {}
    BY <1>1 DEF EntryIn, ListShape
  <2> QED
    BY <1>1, <2>1 DEF Lookup, Fitting
<1>2. CASE n.region # NoRegion
  BY <1>2 DEF Lookup, Fitting
<1> QED
  BY <1>1, <1>2

LEMMA FittingIs ==
  ASSUME NEW c, ListShape(c), Accepted(c), NEW n
  PROVE  /\ \A e, f \in Fitting(c, n) : e = f
         /\ \A e \in Fitting(c, n) \cup c.fallback : EntryShape(e) /\ EntryAccepted(e)
<1>1. \A r, t : \A e \in EntryIn(c, r, t) : EntryShape(e) /\ EntryAccepted(e)
  <2>1. \A r \in DOMAIN c.regions : \A t \in DOMAIN c.regions[r] :
          EntryShape(c.regions[r][t]) /\ EntryAccepted(c.regions[r][t])
    BY Zenon DEF ListShape, Accepted
  <2> QED
    BY <2>1 DEF EntryIn
<1>2. \A r, t : \A e, f \in EntryIn(c, r, t) : e = f
  BY DEF EntryIn
<1>3. \A e \in c.fallback : EntryShape(e) /\ EntryAccepted(e)
  BY DEF ListShape, Accepted
<1> QED
  BY <1>1, <1>2, <1>3 DEF Fitting

LEMMA ValueType == ASSUME NEW x \in Int PROVE Value(x) \in Nat
  BY DEF Value

\* Rates that are derived from a price give it back, but for half a digit for
\* each core and each GiB.
LEMMA DerivedRates ==
  ASSUME NEW c, ListShape(c), Accepted(c), NEW e, EntryShape(e), EntryAccepted(e),
         NEW price \in Nat, NEW source
  PROVE  LET r == DeriveRates(c, e, price, source)
             back == e.vcpu * r.cpuRate + e.gib * r.memRate
         IN /\ r.cpuRate \in Nat /\ r.memRate \in Nat
            /\ 2 * back <= 2 * price + e.vcpu + e.gib
            /\ 2 * back >= 2 * price - e.vcpu - e.gib
<1> DEFINE V == e.vcpu G == e.gib
           x == price * c.cpuShare y == price * c.memShare
           a == DivRound(x, 100 * V) b == DivRound(y, 100 * G)
<1>1. V \in Nat \ {0} /\ G \in Nat \ {0}
  BY DEF EntryShape, EntryAccepted
<1>2. c.cpuShare \in Nat /\ c.memShare \in Nat /\ c.cpuShare + c.memShare = 100
  <2>1. c.cpuShare \in Int /\ c.memShare \in Int
    BY Zenon DEF ListShape
  <2>2. c.cpuShare >= 0 /\ c.memShare >= 0 /\ c.cpuShare + c.memShare = 100
    BY Zenon DEF Accepted
  <2> QED
    BY <2>1, <2>2
<1>3. x \in Nat /\ x \in Int /\ y \in Nat /\ y \in Int /\ x + y = 100 * price
  <2>1. ASSUME NEW u \in Nat, NEW v \in Nat, u + v = 100
        PROVE  price * u \in Nat /\ price * v \in Nat /\ price * u + price * v = 100 * price
    <3>1. price * u + price * v = price * (u + v)
      OBVIOUS
    <3> QED
      BY <2>1, <3>1
  <2>2. x \in Nat /\ y \in Nat /\ x + y = 100 * price
    BY <1>2, <2>1, Zenon
  <2> HIDE DEF x, y
  <2> QED
    BY <2>2
<1> HIDE DEF V, G, x, y
<1>4. 100 * V \in Nat \ {0} /\ 100 * G \in Nat \ {0}
  BY <1>1
<1>5. /\ a \in Int /\ 2 * ((100 * V) * a) <= 2 * x + 100 * V /\ 2 * ((100 * V) * a) > 2 * x - 100 * V
      /\ b \in Int /\ 2 * ((100 * G) * b) <= 2 * y + 100 * G /\ 2 * ((100 * G) * b) > 2 * y - 100 * G
  BY <1>3, <1>4, DivRoundIs, Zenon
<1> HIDE DEF a, b
<1> DEFINE p == V * a q == G * b
<1>6. p \in Int /\ q \in Int /\ (100 * V) * a = 100 * p /\ (100 * G) * b = 100 * q
  BY <1>1, <1>5
<1>7. a >= 0 /\ b >= 0
  <2>1. ASSUME a < 0 PROVE FALSE
    <3>1. V * a <= - V
      BY <1>1, <1>5, <2>1
    <3> HIDE DEF p
    <3> QED
      BY <1>1, <1>3, <1>5, <1>6, <3>1 DEF p
  <2>2. ASSUME b < 0 PROVE FALSE
    <3>1. G * b <= - G
      BY <1>1, <1>5, <2>2
    <3> HIDE DEF q
    <3> QED
      BY <1>1, <1>3, <1>5, <1>6, <3>1 DEF q
  <2> QED
    BY <1>5, <2>1, <2>2
<1> HIDE DEF p, q
<1>8. 2 * (p + q) <= 2 * price + V + G /\ 2 * (p + q) >= 2 * price - V - G
  BY <1>1, <1>3, <1>5, <1>6
<1> QED
  BY <1>5, <1>7, <1>8 DEF DeriveRates, a, b, p, q, V, G, x, y

\* The rates of an entry give back the price stated for it, but for half a digit
\* for each core and each GiB.
GivesBack(r, s) ==
  /\ r.cpuRate \in Nat /\ r.memRate \in Nat /\ s.price \in Nat
  /\ EntryShape(s.e) /\ EntryAccepted(s.e)
  /\ 2 * (s.e.vcpu * r.cpuRate + s.e.gib * r.memRate) <= 2 * s.price + s.e.vcpu + s.e.gib
  /\ 2 * (s.e.vcpu * r.cpuRate + s.e.gib * r.memRate) >= 2 * s.price - s.e.vcpu - s.e.gib

\* What RatesFor and the list say of a node agree.
LEMMA RatesAsStated ==
  ASSUME NEW c, ListShape(c), Accepted(c), NEW n
  PROVE  /\ RatesFor(c, n) = {} <=> Stated(c, n) = {}
         /\ \A r \in RatesFor(c, n), s \in Stated(c, n) : GivesBack(r, s)
<1> DEFINE fits == Fitting(c, n)
           e == CHOOSE x \in (IF fits # {} THEN fits ELSE c.fallback) : TRUE
<1>1. RatesFor(c, n) = IF fits = {} THEN FallbackRates(c) ELSE { RatesOf(c, x, n) : x \in fits }
  BY LookupFinds DEF RatesFor
<1>2. Stated(c, n) =
        IF fits \cup c.fallback = {} THEN {}
        ELSE IF fits # {} /\ Explicit(e)
          THEN { [ e |-> e, price |-> e.vcpu * Value(e.cpuRate) + e.gib * Value(e.memRate) ] }
        ELSE { [ e |-> e, price |-> IF fits # {} /\ n.spot /\ Value(e.spot) > 0
                                    THEN Value(e.spot) ELSE Value(e.hourly) ] }
  BY Zenon DEF Stated, Fitting
<1>3. /\ \A x, y \in fits : x = y
      /\ \A x, y \in c.fallback : x = y
      /\ \A x \in fits \cup c.fallback : EntryShape(x) /\ EntryAccepted(x)
  BY FittingIs DEF ListShape
<1> HIDE DEF fits
<1>4. CASE fits \cup c.fallback = {}
  BY <1>1, <1>2, <1>4 DEF FallbackRates
<1>5. CASE fits # {}
  <2>1. e \in fits /\ fits = {e}
    BY <1>3, <1>5
  <2> HIDE DEF e
  <2>2. RatesFor(c, n) = { RatesOf(c, e, n) }
    BY <1>1, <1>5, <2>1
  <2>3. /\ EntryShape(e) /\ EntryAccepted(e)
        /\ Value(e.cpuRate) \in Nat /\ Value(e.memRate) \in Nat
        /\ Value(e.hourly) \in Nat /\ Value(e.spot) \in Nat
        /\ e.vcpu \in Nat /\ e.gib \in Nat
    BY <1>3, <2>1, ValueType DEF EntryShape, EntryAccepted
  <2> DEFINE r == RatesOf(c, e, n)
  <2>6. RatesFor(c, n) = { r }
    BY <2>2
  <2> DEFINE
    hourly == IF n.spot /\ Value(e.spot) # 0 THEN Value(e.spot) ELSE Value(e.hourly)
  <2>4. CASE Explicit(e)
    <3> DEFINE price == e.vcpu * Value(e.cpuRate) + e.gib * Value(e.memRate)
    <3>1. Stated(c, n) = { [ e |-> e, price |-> price ] }
      BY <1>2, <1>5, <2>4
    <3>2. r.cpuRate = Value(e.cpuRate) /\ r.memRate = Value(e.memRate)
      BY <2>4 DEF RatesOf
    <3>3. price \in Nat /\ price = e.vcpu * r.cpuRate + e.gib * r.memRate
      <4> HIDE DEF r
      <4> QED
        BY <2>3, <3>2
    <3> HIDE DEF price, r
    <3>4. 2 * price <= 2 * price + e.vcpu + e.gib /\ 2 * price >= 2 * price - e.vcpu - e.gib
      BY <2>3, <3>3
    <3>5. /\ r.cpuRate \in Nat /\ r.memRate \in Nat
          /\ 2 * (e.vcpu * r.cpuRate + e.gib * r.memRate) <= 2 * price + e.vcpu + e.gib
          /\ 2 * (e.vcpu * r.cpuRate + e.gib * r.memRate) >= 2 * price - e.vcpu - e.gib
      BY <2>3, <3>2, <3>3, <3>4
    <3>6. GivesBack(r, [ e |-> e, price |-> price ])
      BY <2>3, <3>3, <3>5 DEF GivesBack
    <3> QED
      BY <2>6, <3>1, <3>6
  <2>5. CASE ~ Explicit(e)
    <3>1. hourly \in Nat
      BY <2>3
    <3>2. Stated(c, n) = { [ e |-> e, price |-> hourly ] }
      <4>1. Value(e.spot) > 0 <=> Value(e.spot) # 0
        BY <2>3
      <4> QED
        BY <1>2, <1>5, <2>5, <4>1
    <3> HIDE DEF hourly
    <3>3. r = DeriveRates(c, e, hourly, "catalogue")
      BY <2>5 DEF RatesOf, hourly
    <3> HIDE DEF r
    <3>4. /\ r.cpuRate \in Nat /\ r.memRate \in Nat
          /\ 2 * (e.vcpu * r.cpuRate + e.gib * r.memRate) <= 2 * hourly + e.vcpu + e.gib
          /\ 2 * (e.vcpu * r.cpuRate + e.gib * r.memRate) >= 2 * hourly - e.vcpu - e.gib
      BY <2>3, <3>1, <3>3, DerivedRates, Zenon
    <3>5. GivesBack(r, [ e |-> e, price |-> hourly ])
      BY <2>3, <3>1, <3>4 DEF GivesBack
    <3> QED
      BY <2>6, <3>2, <3>5
  <2> QED
    BY <2>4, <2>5
<1>6. CASE fits = {} /\ c.fallback # {}
  <2>1. e \in c.fallback /\ c.fallback = {e}
    BY <1>3, <1>6
  <2> HIDE DEF e
  <2> DEFINE price == Value(e.hourly)
  <2>2. RatesFor(c, n) = { DeriveRates(c, e, price, "fallback") }
    BY <1>1, <1>6, <2>1 DEF FallbackRates
  <2>3. Stated(c, n) = { [ e |-> e, price |-> price ] }
    BY <1>2, <1>6
  <2>4. EntryShape(e) /\ EntryAccepted(e) /\ price \in Nat
    BY <1>3, <2>1, ValueType DEF EntryShape
  <2> DEFINE r == DeriveRates(c, e, price, "fallback")
  <2> HIDE DEF price
  <2>5. /\ r.cpuRate \in Nat /\ r.memRate \in Nat
        /\ 2 * (e.vcpu * r.cpuRate + e.gib * r.memRate) <= 2 * price + e.vcpu + e.gib
        /\ 2 * (e.vcpu * r.cpuRate + e.gib * r.memRate) >= 2 * price - e.vcpu - e.gib
    BY <2>4, DerivedRates, Zenon
  <2>6. RatesFor(c, n) = { r }
    BY <2>2
  <2> HIDE DEF r
  <2>7. GivesBack(r, [ e |-> e, price |-> price ])
    BY <2>4, <2>5 DEF GivesBack
  <2> QED
    BY <2>3, <2>6, <2>7
<1> QED
  BY <1>4, <1>5, <1>6

\* Two reservations that fill a node cost together what the list says of it, but
\* for the rounding, whatever the list, the node and the split.
THEOREM NodesCostAsStated ==
  ASSUME NEW c, ListShape(c), NEW n, NEW k \in Nat \ {0}, NEW cpu \in Int, NEW mem \in Int
  PROVE  WholeNodeCosts(c, n, k, cpu, mem)
<1> SUFFICES ASSUME Accepted(c), NEW r \in RatesFor(c, n), NEW s \in Stated(c, n)
             PROVE  LET first  == CostOf(r, cpu * s.e.vcpu, mem * s.e.gib, k)
                        second == CostOf(r, (1000 - cpu) * s.e.vcpu, (1024 - mem) * s.e.gib, k)
                    IN 2 * Abs(k * (first + second) - s.price) <= s.e.vcpu + s.e.gib + 4 * k
  BY RatesAsStated DEF WholeNodeCosts
<1> DEFINE V == s.e.vcpu G == s.e.gib p == s.price
           core == 1000 gib == 1024
           a1 == DivRound((cpu * V) * r.cpuRate, core * k)
           a2 == DivRound(((core - cpu) * V) * r.cpuRate, core * k)
           b1 == DivRound((mem * G) * r.memRate, gib * k)
           b2 == DivRound(((gib - mem) * G) * r.memRate, gib * k)
           x == V * r.cpuRate y == G * r.memRate
<1>1. /\ r.cpuRate \in Nat /\ r.memRate \in Nat /\ V \in Nat /\ G \in Nat /\ p \in Nat
      /\ 2 * (x + y) <= 2 * p + V + G /\ 2 * (x + y) >= 2 * p - V - G
  BY RatesAsStated DEF GivesBack, EntryShape, EntryAccepted
<1>2. /\ a1 \in Int /\ a2 \in Int /\ k * a1 + k * a2 <= x + k /\ k * a1 + k * a2 >= x - k
  <2>1. core \in Nat \ {0} /\ V \in Nat /\ r.cpuRate \in Nat
    BY <1>1
  <2> HIDE DEF V, core
  <2> QED
    BY <2>1, SplitCosts, Zenon
<1>3. /\ b1 \in Int /\ b2 \in Int /\ k * b1 + k * b2 <= y + k /\ k * b1 + k * b2 >= y - k
  <2>1. gib \in Nat \ {0} /\ G \in Nat /\ r.memRate \in Nat
    BY <1>1
  <2> HIDE DEF G, gib
  <2> QED
    BY <2>1, SplitCosts, Zenon
<1>4. x \in Nat /\ y \in Nat
  <2> HIDE DEF V, G
  <2> QED
    BY <1>1
<1> HIDE DEF V, G, p, a1, a2, b1, b2, x, y
<1> DEFINE total == (a1 + b1) + (a2 + b2)
           A == k * a1 + k * a2 B == k * b1 + k * b2
<1>5. k * total = A + B /\ A \in Int /\ B \in Int
  BY <1>2, <1>3
<1> HIDE DEF total, A, B
<1>6. 2 * Abs(k * total - p) <= V + G + 4 * k
  <2>1. 2 * (A + B) <= 2 * p + V + G + 4 * k /\ 2 * (A + B) >= 2 * p - V - G - 4 * k
    BY <1>1, <1>2, <1>3, <1>4, <1>5 DEF A, B
  <2> QED
    BY <1>1, <1>5, <2>1 DEF Abs
<1> QED
  BY <1>6 DEF CostOf, total, a1, a2, b1, b2, V, G, p
==============================================================================
