---------------------------- MODULE ReportsProofs ----------------------------
(***************************************************************************)
(* Proofs that the figures of the API agree, for every set of fact rows    *)
(* and every query, and the theorems about all of the inputs.              *)
(***************************************************************************)
EXTENDS FiguresProofs

-----------------------------------------------------------------------------
(* Sums over a column of finitely many rows                                *)

\* What SumOf makes of Cost, Waste and Windows.
ColumnSum(c, S) == MapThenSumSet(LAMBDA r : r[c], S)

Pick(s) == CHOOSE x \in s : TRUE

\* The function that a fold over S is defined by.
Adds(c, S, g) ==
  g = [ s \in SUBSET S |-> IF s = {} THEN 0 ELSE Pick(s)[c] + g[s \ {Pick(s)}] ]

\* A fold has one result.
LEMMA AddsUnique ==
  ASSUME NEW c, NEW S, NEW R, NEW g, NEW h, IsFiniteSet(S), S \subseteq R,
         Adds(c, S, g), Adds(c, R, h)
  PROVE  \A s \in SUBSET S : g[s] = h[s]
<1> DEFINE T == { s \in SUBSET S : g[s] # h[s] }
<1> SUFFICES ASSUME T # {} PROVE FALSE
  OBVIOUS
<1>1. PICK s \in T : \A t \in T : t \subseteq s => t = s
  <2>1. T \in SUBSET SUBSET S
    OBVIOUS
  <2> HIDE DEF T
  <2> QED
    BY <2>1, Least
<1>2. /\ g[s] = IF s = {} THEN 0 ELSE Pick(s)[c] + g[s \ {Pick(s)}]
      /\ h[s] = IF s = {} THEN 0 ELSE Pick(s)[c] + h[s \ {Pick(s)}]
  BY DEF Adds
<1>3. s # {} => Pick(s) \in s
  BY DEF Pick
<1>4. s # {} => g[s \ {Pick(s)}] = h[s \ {Pick(s)}]
  BY <1>1, <1>3
<1> QED
  BY <1>2, <1>4

\* A fold over a finite set has a result.
LEMMA AddsExists ==
  ASSUME NEW c, NEW S, IsFiniteSet(S)
  PROVE  \E g : Adds(c, S, g)
<1> DEFINE T == { s \in SUBSET S : ~ \E g : Adds(c, s, g) }
<1> SUFFICES ASSUME T # {} PROVE FALSE
  OBVIOUS
<1>1. PICK s \in T : \A t \in T : t \subseteq s => t = s
  <2>1. T \in SUBSET SUBSET S
    OBVIOUS
  <2> HIDE DEF T
  <2> QED
    BY <2>1, Least
<1> DEFINE Of(t) == CHOOSE g : Adds(c, t, g)
           value == IF s = {} THEN 0 ELSE Pick(s)[c] + Of(s \ {Pick(s)})[s \ {Pick(s)}]
           new == [ t \in SUBSET s |-> IF t = s THEN value ELSE Of(t)[t] ]
<1>2. \A t \in SUBSET s : t # s => Adds(c, t, Of(t))
  BY <1>1
<1>3. \A t \in SUBSET s : t # {} => Pick(t) \in t
  BY DEF Pick
<1> HIDE DEF Of
<1>4. ASSUME NEW t \in SUBSET s
      PROVE  new[t] = IF t = {} THEN 0 ELSE Pick(t)[c] + new[t \ {Pick(t)}]
  <2>1. CASE t = {} /\ t # s
    BY <1>2, <2>1 DEF Adds
  <2>2. CASE t = s
    BY <1>3, <2>2
  <2>3. CASE t # {} /\ t # s
    <3> DEFINE u == t \ {Pick(t)}
    <3>1. u \in SUBSET t /\ u \in SUBSET s /\ u # s
      BY <1>3, <2>3
    <3>2. Of(t)[t] = Pick(t)[c] + Of(t)[u]
      BY <1>2, <2>3 DEF Adds
    <3>3. IsFiniteSet(u)
      BY <3>1, FS_Subset
    <3>4. Of(u)[u] = Of(t)[u]
      BY <1>2, <2>3, <3>1, <3>3, AddsUnique
    <3> QED
      BY <2>3, <3>1, <3>2, <3>4
  <2> QED
    BY <2>1, <2>2, <2>3
<1>5. Adds(c, s, new)
  BY <1>4 DEF Adds
<1> QED
  BY <1>1, <1>5

\* A sum is the fold's result, over whatever set the fold is defined.
LEMMA SumAdds ==
  ASSUME NEW c, NEW S, IsFiniteSet(S), NEW R, IsFiniteSet(R), S \subseteq R, NEW g, Adds(c, R, g)
  PROVE  ColumnSum(c, S) = g[S]
<1> DEFINE f == CHOOSE f : f = [ s \in SUBSET S |->
                  IF s = {} THEN 0 ELSE (CHOOSE x \in s : TRUE)[c] + f[s \ {CHOOSE x \in s : TRUE}] ]
<1>1. ColumnSum(c, S) = f[S]
  BY DEF ColumnSum, MapThenSumSet, MapThenFoldSet
<1>2. \E h : Adds(c, S, h)
  BY AddsExists
<1>3. Adds(c, S, f)
  BY <1>2 DEF Adds, Pick
<1> HIDE DEF f
<1> QED
  BY <1>1, <1>3, AddsUnique

LEMMA SumEmpty == ASSUME NEW c PROVE ColumnSum(c, {}) = 0
<1>1. IsFiniteSet({})
  BY FS_EmptySet
<1>2. PICK g : Adds(c, {}, g)
  BY <1>1, AddsExists
<1>3. g[{}] = 0
  BY <1>2 DEF Adds
<1>4. ColumnSum(c, {}) = g[{}]
  <2> DEFINE none == {}
  <2>1. IsFiniteSet(none) /\ none \subseteq none /\ Adds(c, none, g)
    BY <1>1, <1>2
  <2> HIDE DEF none
  <2>2. ColumnSum(c, none) = g[none]
    BY <2>1, SumAdds
  <2> QED
    BY <2>2 DEF none
<1> QED
  BY <1>3, <1>4

\* One row at a time, in the order that the fold takes them.
LEMMA SumPick ==
  ASSUME NEW c, NEW S, IsFiniteSet(S), S # {}
  PROVE  Pick(S) \in S /\ ColumnSum(c, S) = Pick(S)[c] + ColumnSum(c, S \ {Pick(S)})
<1>1. Pick(S) \in S
  BY DEF Pick
<1>2. PICK g : Adds(c, S, g)
  BY AddsExists
<1>3. IsFiniteSet(S \ {Pick(S)})
  BY FS_Subset
<1>4. ColumnSum(c, S) = g[S] /\ ColumnSum(c, S \ {Pick(S)}) = g[S \ {Pick(S)}]
  BY <1>2, <1>3, SumAdds
<1> QED
  BY <1>1, <1>2, <1>4 DEF Adds

Integral(c, S) == \A r \in S : r[c] \in Int

LEMMA SumType ==
  ASSUME NEW c, NEW S, IsFiniteSet(S), Integral(c, S) PROVE ColumnSum(c, S) \in Int
<1> DEFINE T == { s \in SUBSET S : ColumnSum(c, s) \notin Int }
<1> SUFFICES ASSUME T # {} PROVE FALSE
  OBVIOUS
<1>1. PICK s \in T : \A t \in T : t \subseteq s => t = s
  <2>1. T \in SUBSET SUBSET S
    OBVIOUS
  <2> HIDE DEF T
  <2> QED
    BY <2>1, Least
<1>2. s # {}
  BY <1>1, SumEmpty
<1>3. Pick(s) \in s /\ ColumnSum(c, s) = Pick(s)[c] + ColumnSum(c, s \ {Pick(s)})
  BY <1>1, <1>2, FS_Subset, SumPick
<1>4. ColumnSum(c, s \ {Pick(s)}) \in Int
  BY <1>1, <1>3
<1>5. Pick(s)[c] \in Int
  BY <1>1, <1>3 DEF Integral
<1> QED
  BY <1>1, <1>3, <1>4, <1>5

\* One row at a time, in any order.
LEMMA SumTake ==
  ASSUME NEW c, NEW S, IsFiniteSet(S), Integral(c, S), NEW x \in S
  PROVE  ColumnSum(c, S) = x[c] + ColumnSum(c, S \ {x})
<1> DEFINE Takes(s) == \A y \in s : ColumnSum(c, s) = y[c] + ColumnSum(c, s \ {y})
           T == { s \in SUBSET S : ~ Takes(s) }
<1> SUFFICES ASSUME T # {} PROVE FALSE
  OBVIOUS
<1>1. PICK s \in T : \A t \in T : t \subseteq s => t = s
  <2>1. T \in SUBSET SUBSET S
    OBVIOUS
  <2> HIDE DEF T
  <2> QED
    BY <2>1, Least
<1>2. PICK y \in s : ColumnSum(c, s) # y[c] + ColumnSum(c, s \ {y})
  BY <1>1
<1> DEFINE z == Pick(s)
<1>3. z \in s /\ ColumnSum(c, s) = z[c] + ColumnSum(c, s \ {z})
  BY <1>1, <1>2, FS_Subset, SumPick
<1>4. y # z
  BY <1>2, <1>3
<1>5. \A u \in s : Takes(s \ {u})
  BY <1>1
<1> HIDE DEF z
<1>6. /\ ColumnSum(c, s \ {z}) = y[c] + ColumnSum(c, (s \ {z}) \ {y})
      /\ ColumnSum(c, s \ {y}) = z[c] + ColumnSum(c, (s \ {y}) \ {z})
  BY <1>2, <1>3, <1>4, <1>5
<1>7. (s \ {z}) \ {y} = (s \ {y}) \ {z}
  OBVIOUS
<1>8. /\ y[c] \in Int /\ z[c] \in Int
      /\ ColumnSum(c, (s \ {z}) \ {y}) \in Int
  <2>1. IsFiniteSet((s \ {z}) \ {y})
    BY <1>1, FS_Subset
  <2>2. Integral(c, (s \ {z}) \ {y})
    BY <1>1 DEF Integral
  <2> QED
    BY <1>1, <1>2, <1>3, <2>1, <2>2, SumType DEF Integral
<1> DEFINE rest == ColumnSum(c, (s \ {z}) \ {y})
<1>9. /\ ColumnSum(c, s \ {z}) = y[c] + rest /\ ColumnSum(c, s \ {y}) = z[c] + rest
      /\ rest \in Int
  BY <1>6, <1>7, <1>8
<1> HIDE DEF rest
<1>10. ColumnSum(c, s) = y[c] + ColumnSum(c, s \ {y})
  BY <1>3, <1>8, <1>9
<1> QED
  BY <1>2, <1>10

\* Sums of two sets that share nothing.
LEMMA SumUnion ==
  ASSUME NEW c, NEW A, NEW B, IsFiniteSet(A), IsFiniteSet(B), A \cap B = {},
         Integral(c, A), Integral(c, B)
  PROVE  ColumnSum(c, A \cup B) = ColumnSum(c, A) + ColumnSum(c, B)
<1> DEFINE T == { a \in SUBSET A : ColumnSum(c, a \cup B) # ColumnSum(c, a) + ColumnSum(c, B) }
<1> SUFFICES ASSUME T # {} PROVE FALSE
  OBVIOUS
<1>1. PICK s \in T : \A t \in T : t \subseteq s => t = s
  <2>1. T \in SUBSET SUBSET A
    OBVIOUS
  <2> HIDE DEF T
  <2> QED
    BY <2>1, Least
<1>2. /\ IsFiniteSet(s) /\ Integral(c, s)
      /\ IsFiniteSet(s \cup B) /\ Integral(c, s \cup B) /\ ColumnSum(c, B) \in Int
  BY <1>1, FS_Subset, FS_Union, SumType DEF Integral
<1>3. s # {}
  <2>1. CASE s = {}
    <3>1. {} \cup B = B
      OBVIOUS
    <3> QED
      BY <1>1, <1>2, <2>1, <3>1, SumEmpty
  <2> QED
    BY <2>1
<1>4. PICK x : x \in s
  BY <1>3
<1>5. ColumnSum(c, s) = x[c] + ColumnSum(c, s \ {x})
  BY <1>2, <1>4, SumTake
<1>6. ColumnSum(c, s \cup B) = x[c] + ColumnSum(c, (s \ {x}) \cup B)
  <2>1. x \in s \cup B /\ (s \cup B) \ {x} = (s \ {x}) \cup B
    BY <1>1, <1>4
  <2> QED
    BY <1>2, <2>1, SumTake
<1>7. ColumnSum(c, (s \ {x}) \cup B) = ColumnSum(c, s \ {x}) + ColumnSum(c, B)
  BY <1>1, <1>4
<1>8. x[c] \in Int /\ ColumnSum(c, s \ {x}) \in Int
  <2>1. IsFiniteSet(s \ {x}) /\ Integral(c, s \ {x})
    BY <1>2, FS_Subset DEF Integral
  <2> QED
    BY <1>2, <1>4, <2>1, SumType DEF Integral
<1> QED
  BY <1>1, <1>2, <1>5, <1>6, <1>7, <1>8

\* Ones add up to how many there are.
LEMMA SumOnes ==
  ASSUME NEW c, NEW S, IsFiniteSet(S), \A r \in S : r[c] = 1
  PROVE  ColumnSum(c, S) = Cardinality(S)
<1> DEFINE T == { s \in SUBSET S : ColumnSum(c, s) # Cardinality(s) }
<1> SUFFICES ASSUME T # {} PROVE FALSE
  OBVIOUS
<1>1. PICK s \in T : \A t \in T : t \subseteq s => t = s
  <2>1. T \in SUBSET SUBSET S
    OBVIOUS
  <2> HIDE DEF T
  <2> QED
    BY <2>1, Least
<1>2. s # {}
  BY <1>1, SumEmpty, FS_EmptySet
<1>3. PICK x : x \in s
  BY <1>2
<1>4. IsFiniteSet(s)
  BY <1>1, FS_Subset
<1>5. ColumnSum(c, s) = x[c] + ColumnSum(c, s \ {x})
  BY <1>1, <1>3, <1>4, SumTake DEF Integral
<1>6. ColumnSum(c, s \ {x}) = Cardinality(s \ {x})
  BY <1>1, <1>3
<1>7. Cardinality(s \ {x}) = Cardinality(s) - 1 /\ Cardinality(s) \in Nat
  BY <1>3, <1>4, FS_RemoveElement, FS_CardinalityType
<1> QED
  BY <1>1, <1>3, <1>5, <1>6, <1>7

\* Rows that each stand for a part of S, no two for the same row of it, add up
\* to what S adds up to.
LEMMA Regroup ==
  ASSUME NEW c, NEW d, NEW S, IsFiniteSet(S), Integral(c, S),
         NEW Q, IsFiniteSet(Q), NEW part,
         \A q \in Q : part[q] \subseteq S /\ q[d] = ColumnSum(c, part[q]),
         \A q, r \in Q : q # r => part[q] \cap part[r] = {},
         \A x \in S : \E q \in Q : x \in part[q]
  PROVE  ColumnSum(d, Q) = ColumnSum(c, S)
<1> DEFINE Under(s) == { x \in S : \E q \in s : x \in part[q] }
           T == { s \in SUBSET Q : ColumnSum(d, s) # ColumnSum(c, Under(s)) }
<1>0. ASSUME NEW s \in SUBSET Q PROVE IsFiniteSet(Under(s)) /\ Integral(c, Under(s))
  BY FS_Subset DEF Integral
<1>1. T = {}
  <2> SUFFICES ASSUME T # {} PROVE FALSE
    OBVIOUS
  <2>1. PICK s \in T : \A t \in T : t \subseteq s => t = s
    <3>1. T \in SUBSET SUBSET Q
      OBVIOUS
    <3> HIDE DEF T
    <3> QED
      BY <3>1, Least
  <2>2. CASE s = {}
    <3>1. Under({}) = {}
      OBVIOUS
    <3> QED
      BY <2>1, <2>2, <3>1, SumEmpty
  <2>3. CASE s # {}
    <3>1. PICK q : q \in s
      BY <2>3
    <3>2. \A r \in s : r[d] \in Int
      <4> SUFFICES ASSUME NEW r \in s PROVE r[d] \in Int
        OBVIOUS
      <4>1. IsFiniteSet(part[r]) /\ Integral(c, part[r])
        BY <2>1, FS_Subset DEF Integral
      <4> QED
        BY <2>1, <4>1, SumType
    <3>3. IsFiniteSet(s) /\ Integral(d, s)
      BY <2>1, <3>2, FS_Subset DEF Integral
    <3>4. ColumnSum(d, s) = q[d] + ColumnSum(d, s \ {q})
      BY <3>1, <3>3, SumTake
    <3>5. ColumnSum(d, s \ {q}) = ColumnSum(c, Under(s \ {q}))
      BY <2>1, <3>1
    <3>6. Under(s) = part[q] \cup Under(s \ {q}) /\ part[q] \cap Under(s \ {q}) = {}
      BY <2>1, <3>1
    <3>7. IsFiniteSet(part[q]) /\ Integral(c, part[q])
      BY <2>1, <3>1, FS_Subset DEF Integral
    <3>8. IsFiniteSet(Under(s \ {q})) /\ Integral(c, Under(s \ {q}))
      BY <1>0, <2>1
    <3> HIDE DEF Under
    <3>9. ColumnSum(c, Under(s)) = ColumnSum(c, part[q]) + ColumnSum(c, Under(s \ {q}))
      <4> DEFINE one == part[q] rest == Under(s \ {q})
      <4>1. /\ Under(s) = one \cup rest /\ one \cap rest = {}
            /\ IsFiniteSet(one) /\ Integral(c, one) /\ IsFiniteSet(rest) /\ Integral(c, rest)
        BY <3>6, <3>7, <3>8
      <4> HIDE DEF one, rest
      <4>2. ColumnSum(c, one \cup rest) = ColumnSum(c, one) + ColumnSum(c, rest)
        BY <4>1, SumUnion
      <4>3. ColumnSum(c, Under(s)) = ColumnSum(c, one) + ColumnSum(c, rest)
        BY <4>1, <4>2
      <4> QED
        BY <4>3 DEF one, rest
    <3> QED
      BY <2>1, <3>1, <3>4, <3>5, <3>9
  <2> QED
    BY <2>2, <2>3
<1>2. ColumnSum(d, Q) = ColumnSum(c, Under(Q))
  BY <1>1
<1>3. Under(Q) = S
  OBVIOUS
<1> QED
  BY <1>2, <1>3

-----------------------------------------------------------------------------
(* The reports                                                             *)

Columns == { "namespace", "team", "workload", "pod" }

\* The rows of the fact table: one for each pod, container and window.
FactRows(S) ==
  IsFiniteSet(S) /\ S \subseteq [ id : Int, at : Int, dims : [ Columns -> Int ], cost : Int, waste : Int,
                                  windows : { 1 }, estimated : BOOLEAN ]

\* What the handlers parse: a filter has no pod column.
Queries ==
  [ from : Int, to : Int, groupBy : DOMAIN GroupBy, interval : { "hour", "day", "week", "month" },
    limit : Nat \ {0},
    filter : UNION { [ C -> Int ] : C \in SUBSET Kept }, sort : { "cost", "waste" },
    descending : BOOLEAN, estimatedOnly : BOOLEAN ]

LEMMA TotalsAre ==
  ASSUME NEW S PROVE TotalCost(S) = ColumnSum("cost", S) /\ TotalWaste(S) = ColumnSum("waste", S)
  BY DEF TotalCost, TotalWaste, SumOf, Cost, Waste, ColumnSum

\* A group is a tuple of numbers, as long as the columns that are asked for.
Tuples(n) == [ 1 .. n -> Int ]

\* The order of the columns is a strict one.
LEMMA SoonerIsStrict ==
  ASSUME NEW n \in Nat
  PROVE  /\ \A g \in Tuples(n) : ~ Sooner(g, g)
         /\ \A g, h, k \in Tuples(n) : Sooner(g, h) /\ Sooner(h, k) => Sooner(g, k)
<1>1. \A g \in Tuples(n) : ~ Sooner(g, g)
  BY DEF Sooner, Tuples
<1>2. ASSUME NEW g \in Tuples(n), NEW h \in Tuples(n), NEW k \in Tuples(n),
             Sooner(g, h), Sooner(h, k)
      PROVE  Sooner(g, k)
  <2>0. \A i \in 1 .. n : g[i] \in Int /\ h[i] \in Int /\ k[i] \in Int
    BY DEF Tuples
  <2>1. PICK i \in 1 .. n : g[i] < h[i] /\ \A j \in 1 .. i - 1 : g[j] = h[j]
    BY <1>2 DEF Sooner, Tuples
  <2>2. PICK j \in 1 .. n : h[j] < k[j] /\ \A l \in 1 .. j - 1 : h[l] = k[l]
    BY <1>2 DEF Sooner, Tuples
  <2>3. CASE i <= j
    <3>1. g[i] < k[i]
      <4>1. h[i] = k[i] \/ i = j
        BY <2>2, <2>3
      <4> QED
        BY <2>0, <2>1, <2>2, <4>1
    <3>2. \A l \in 1 .. i - 1 : g[l] = k[l]
      BY <2>1, <2>2, <2>3
    <3> QED
      BY <3>1, <3>2 DEF Sooner, Tuples
  <2>4. CASE j < i
    <3>1. g[j] < k[j]
      <4>1. g[j] = h[j]
        BY <2>1, <2>4
      <4> QED
        BY <2>0, <2>2, <4>1
    <3>2. \A l \in 1 .. j - 1 : g[l] = k[l]
      BY <2>1, <2>2, <2>4
    <3> QED
      BY <3>1, <3>2 DEF Sooner, Tuples
  <2> QED
    BY <2>3, <2>4
<1> QED
  BY <1>1, <1>2

Strict(G, Before) ==
  /\ \A g \in G : << g, g >> \notin Before
  /\ \A g, h, k \in G : << g, h >> \in Before /\ << h, k >> \in Before => << g, k >> \in Before

FirstOf(G, Before, n) == { g \in G : Cardinality({ h \in G : << h, g >> \in Before }) < n }

\* The first n of a strict order: fewer than n of them are all that there are,
\* and so are they when there are no more than n.
LEMMA FirstFew ==
  ASSUME NEW G, IsFiniteSet(G), NEW Before, NEW n \in Nat, Strict(G, Before),
         Cardinality(FirstOf(G, Before, n)) < n \/ Cardinality(G) <= n
  PROVE  FirstOf(G, Before, n) = G
<1> USE DEF Strict, FirstOf
<1> DEFINE first == FirstOf(G, Before, n)
           Pred(g) == { h \in G : << h, g >> \in Before }
           left == G \ first
           T == { Pred(g) : g \in left }
<1> SUFFICES ASSUME left # {} PROVE FALSE
  OBVIOUS
<1>1. PICK s \in T : \A t \in T : t \subseteq s => t = s
  <2>1. T \in SUBSET SUBSET G /\ T # {}
    <3>1. ASSUME NEW t \in T PROVE t \in SUBSET G
      <4>1. PICK g \in left : t = Pred(g)
        OBVIOUS
      <4> QED
        BY <4>1
    <3>2. T # {}
      <4> HIDE DEF Pred, left
      <4> QED
        OBVIOUS
    <3> HIDE DEF T
    <3> QED
      BY <3>1, <3>2
  <2> HIDE DEF T
  <2> QED
    BY <2>1, Least
<1>2. PICK g \in left : s = Pred(g)
  BY <1>1
<1>3. ~ (Cardinality(Pred(g)) < n)
  BY <1>2
<1>4. Pred(g) \subseteq first
  <2> SUFFICES ASSUME NEW h \in Pred(g), h \notin first PROVE FALSE
    OBVIOUS
  <2>1. h \in left /\ Pred(h) \subseteq Pred(g) /\ h \notin Pred(h)
    BY <1>2
  <2>2. Pred(h) \in T
    <3> HIDE DEF Pred
    <3> QED
      BY <2>1
  <2> QED
    BY <1>1, <1>2, <2>1, <2>2
<1>5. /\ IsFiniteSet(first) /\ IsFiniteSet(Pred(g)) /\ Cardinality(Pred(g)) <= Cardinality(first)
      /\ Cardinality(Pred(g)) \in Nat /\ Cardinality(first) \in Nat /\ Cardinality(G) \in Nat
  <2>1. first \subseteq G /\ Pred(g) \subseteq G
    OBVIOUS
  <2> HIDE DEF Pred
  <2> QED
    BY <1>4, <2>1, FS_Subset, FS_CardinalityType
<1>6. Cardinality(Pred(g)) < Cardinality(G)
  <2>1. Pred(g) \subseteq G \ {g}
    BY <1>2
  <2>2. g \in G
    BY <1>2
  <2>3. IsFiniteSet(G \ {g}) /\ Cardinality(G \ {g}) = Cardinality(G) - 1
    BY <2>2, FS_RemoveElement
  <2> HIDE DEF Pred
  <2>4. Cardinality(Pred(g)) <= Cardinality(G \ {g})
    BY <2>1, <2>3, FS_Subset
  <2> QED
    BY <1>5, <2>3, <2>4
<1> HIDE DEF Pred
<1> QED
  BY <1>3, <1>5, <1>6

\* The rows that an order is made of.
LEMMA FactsType ==
  ASSUME NEW facts, FactRows(facts), NEW S, S \subseteq facts
  PROVE  /\ IsFiniteSet(S) /\ FactRows(S)
         /\ Integral("cost", S) /\ Integral("waste", S) /\ Integral("windows", S)
         /\ TotalCost(S) \in Int /\ TotalWaste(S) \in Int
<1>1. IsFiniteSet(S) /\ FactRows(S)
  BY FS_Subset DEF FactRows
<1>2. Integral("cost", S) /\ Integral("waste", S) /\ Integral("windows", S)
  BY DEF FactRows, Integral
<1> QED
  BY <1>1, <1>2, SumType, TotalsAre

\* The groups of finitely many rows are finitely many tuples.
LEMMA GroupsType ==
  ASSUME NEW S, FactRows(S), NEW k \in DOMAIN GroupBy
  PROVE  /\ IsFiniteSet(GroupsOf(S, GroupBy[k]))
         /\ \E n \in Nat : GroupsOf(S, GroupBy[k]) \subseteq Tuples(n)
<1> DEFINE cols == GroupBy[k]
           f == [ r \in S |-> GroupOf(r, cols) ]
<1>1. f \in Surjection(S, GroupsOf(S, cols))
  <2> HIDE DEF cols
  <2> QED
    BY DEF Surjection, GroupsOf
<1>2. IsFiniteSet(GroupsOf(S, cols))
  BY <1>1, FS_Surjection DEF FactRows
<1>3. PICK n \in Nat : DOMAIN cols = 1 .. n /\ \A i \in 1 .. n : cols[i] \in Columns
  <2>1. cols \in { << "namespace" >>, << "team" >>, << "namespace", "workload" >>, << "namespace", "pod" >> }
    BY DEF GroupBy
  <2>2. CASE cols \in { << "namespace" >>, << "team" >> }
    <3>1. DOMAIN cols = 1 .. 1 /\ \A i \in 1 .. 1 : cols[i] \in Columns
      BY <2>2 DEF Columns
    <3> QED
      BY <3>1
  <2>3. CASE cols \in { << "namespace", "workload" >>, << "namespace", "pod" >> }
    <3>1. DOMAIN cols = 1 .. 2 /\ \A i \in 1 .. 2 : cols[i] \in Columns
      BY <2>3 DEF Columns
    <3> QED
      BY <3>1
  <2> QED
    BY <2>1, <2>2, <2>3
<1> HIDE DEF cols
<1>4. ASSUME NEW r \in S PROVE GroupOf(r, cols) \in Tuples(n)
  <2>1. \A c \in Columns : r.dims[c] \in Int
    BY DEF FactRows
  <2> QED
    BY <1>3, <2>1 DEF GroupOf, Tuples
<1>5. GroupsOf(S, cols) \subseteq Tuples(n)
  BY <1>4 DEF GroupsOf
<1> QED
  BY <1>2, <1>5 DEF cols

\* A page of groups that is not full, or that has room for all, has them all.
LEMMA TopIsAll ==
  ASSUME NEW facts, FactRows(facts), NEW S, S \subseteq facts, NEW k \in DOMAIN GroupBy,
         NEW sort, NEW descending \in BOOLEAN, NEW n \in Nat,
         LET cols == GroupBy[k] top == TopBy(S, cols, sort, descending, n) IN
         Cardinality(top) < n \/ Cardinality(GroupsOf(S, cols)) <= n
  PROVE  TopBy(S, GroupBy[k], sort, descending, n) = GroupsOf(S, GroupBy[k])
<1> DEFINE cols == GroupBy[k]
           G == GroupsOf(S, cols)
           top == TopBy(S, cols, sort, descending, n)
           KeyOf(g) == SortKey(sort, In(S, cols, g))
           Higher(g, h) == IF descending THEN KeyOf(g) > KeyOf(h) ELSE KeyOf(g) < KeyOf(h)
           Earlier(g, h) == Higher(g, h) \/ (KeyOf(g) = KeyOf(h) /\ Sooner(g, h))
           Before == { x \in G \X G : Earlier(x[1], x[2]) }
<1>1. IsFiniteSet(G) /\ FactRows(S)
  BY FactsType, GroupsType
<1>2. PICK m \in Nat : G \subseteq Tuples(m)
  BY <1>1, GroupsType
<1>3. \A g : KeyOf(g) \in Int
  <2> SUFFICES ASSUME NEW g PROVE KeyOf(g) \in Int
    OBVIOUS
  <2>1. In(S, cols, g) \subseteq facts
    BY DEF In
  <2> QED
    BY <2>1, FactsType DEF SortKey
<1>4. top = { g \in G : Cardinality({ h \in G : Earlier(h, g) }) < n }
  BY DEF TopBy
<1>5. \A g, h \in G : << g, h >> \in Before <=> Earlier(g, h)
  OBVIOUS
<1> HIDE DEF G, Before, top, KeyOf
<1>6. \A g \in G : << g, g >> \notin Before
  BY <1>2, <1>3, <1>5, SoonerIsStrict
<1>7. ASSUME NEW g \in G, NEW h \in G, NEW l \in G, << g, h >> \in Before, << h, l >> \in Before
      PROVE  << g, l >> \in Before
  <2>1. Earlier(g, h) /\ Earlier(h, l)
    BY <1>5, <1>7
  <2>2. Sooner(g, h) /\ Sooner(h, l) => Sooner(g, l)
    BY <1>2, SoonerIsStrict
  <2>3. KeyOf(g) \in Int /\ KeyOf(h) \in Int /\ KeyOf(l) \in Int
    BY <1>3
  <2>4. Earlier(g, l)
    BY <2>1, <2>2, <2>3
  <2> QED
    BY <1>5, <2>4
<1>8. top = { g \in G : Cardinality({ h \in G : << h, g >> \in Before }) < n }
  <2>1. \A g \in G : { h \in G : Earlier(h, g) } = { h \in G : << h, g >> \in Before }
    BY <1>5
  <2> HIDE DEF Earlier
  <2> QED
    BY <1>4, <2>1
<1>9. Cardinality(top) < n \/ Cardinality(G) <= n
  BY DEF G, top
<1> HIDE DEF Earlier
<1>10. top = G
  <2>1. Strict(G, Before) /\ top = FirstOf(G, Before, n)
    BY <1>6, <1>7, <1>8 DEF Strict, FirstOf
  <2> QED
    BY <1>1, <1>9, <2>1, FirstFew
<1> QED
  BY <1>10 DEF G, top

-----------------------------------------------------------------------------
(* Rows of a report, one for each group                                    *)

\* One row for each of the groups, with what the facts S in it cost.
Page(Q, groups, S, cols) ==
  /\ { q.group : q \in Q } = groups
  /\ \A q, r \in Q : q.group = r.group => q = r
  /\ \A q \in Q : q.cost = TotalCost(In(S, cols, q.group))

\* A page has as many rows as groups.
LEMMA PageSize ==
  ASSUME NEW Q, NEW G, NEW S, NEW cols, IsFiniteSet(G), Page(Q, G, S, cols)
  PROVE  IsFiniteSet(Q) /\ Cardinality(Q) = Cardinality(G)
<1> DEFINE f == [ q \in Q |-> q.group ]
<1>1. f \in [ Q -> G ]
  BY DEF Page
<1>2. \A q, r \in Q : f[q] = f[r] => q = r
  BY DEF Page
<1>3. \A g \in G : \E q \in Q : f[q] = g
  BY DEF Page
<1> HIDE DEF f
<1>4. f \in Injection(Q, G) /\ f \in Surjection(Q, G)
  BY <1>1, <1>2, <1>3 DEF Injection, Surjection, IsInjective
<1> QED
  BY <1>4, FS_Injection

\* A page with all of the groups has all of the money.
LEMMA PageAddsUp ==
  ASSUME NEW facts, FactRows(facts), NEW S, S \subseteq facts, NEW k \in DOMAIN GroupBy,
         NEW Q, Page(Q, GroupsOf(S, GroupBy[k]), S, GroupBy[k])
  PROVE  SumOf(Cost, Q) = TotalCost(S)
<1> DEFINE cols == GroupBy[k]
           part == [ q \in Q |-> In(S, cols, q.group) ]
<1>1. IsFiniteSet(S) /\ FactRows(S) /\ Integral("cost", S)
  BY FactsType
<1>2. IsFiniteSet(GroupsOf(S, cols))
  BY <1>1, GroupsType
<1>3. IsFiniteSet(Q)
  <2> HIDE DEF cols
  <2> QED
    BY <1>2, PageSize DEF cols
<1> HIDE DEF cols
<1>4. \A q \in Q : part[q] \subseteq S /\ q.cost = ColumnSum("cost", part[q])
  BY TotalsAre DEF Page, In, cols
<1>5. \A q, r \in Q : q # r => part[q] \cap part[r] = {}
  <2>1. \A q, r \in Q : q # r => q.group # r.group
    BY DEF Page
  <2> QED
    BY <2>1 DEF In
<1>6. \A x \in S : \E q \in Q : x \in part[q]
  <2> SUFFICES ASSUME NEW x \in S PROVE \E q \in Q : x \in part[q]
    OBVIOUS
  <2>1. GroupOf(x, cols) \in GroupsOf(S, cols)
    BY DEF GroupsOf
  <2>2. PICK q \in Q : q.group = GroupOf(x, cols)
    BY <2>1 DEF Page, cols
  <2> QED
    BY <2>2 DEF In
<1> HIDE DEF part
<1> DEFINE c == "cost"
<1>7. \A q \in Q : part[q] \subseteq S /\ q[c] = ColumnSum(c, part[q])
  BY <1>4
<1>8. IsFiniteSet(S) /\ Integral(c, S)
  BY <1>1
<1>9. ColumnSum(c, Q) = ColumnSum(c, S)
  <2> HIDE DEF c
  <2> QED
    BY <1>3, <1>5, <1>6, <1>7, <1>8, Regroup
<1> QED
  BY <1>9, TotalsAre DEF TotalCost

\* The summary is a page, and so is a trend.
LEMMA SummaryIsPage ==
  ASSUME NEW facts, NEW p
  PROVE  LET S == Selected(facts, p) cols == GroupBy[p.groupBy] IN
         Page(CostSummary(facts, p), TopBy(S, cols, p.sort, p.descending, p.limit), S, cols)
<1> DEFINE S == Selected(facts, p)
           cols == GroupBy[p.groupBy]
           top == TopBy(S, cols, p.sort, p.descending, p.limit)
           row(g) == [ group |-> g, cost |-> TotalCost(In(S, cols, g)),
                       waste |-> TotalWaste(In(S, cols, g)),
                       estimated |-> \E r \in In(S, cols, g) : r.estimated ]
<1>1. CostSummary(facts, p) = { row(g) : g \in top }
  BY DEF CostSummary
<1>2. \A g : row(g).group = g /\ row(g).cost = TotalCost(In(S, cols, row(g).group))
  OBVIOUS
<1> HIDE DEF S, cols, top, row
<1>3. Page({ row(g) : g \in top }, top, S, cols)
  BY <1>2 DEF Page
<1> QED
  BY <1>1, <1>3 DEF S, cols, top

LEMMA SeriesIsPage ==
  ASSUME NEW S, NEW cols, NEW n, NEW interval
  PROVE  Page(SeriesOf(S, cols, n, interval), TopGroups(S, cols, n), S, cols)
<1> DEFINE top == TopGroups(S, cols, n)
           Bucket(r) == BucketOf(interval, r.at)
           T(g) == In(S, cols, g)
           U(g, b) == { r \in T(g) : Bucket(r) = b }
           row(g) == [ group |-> g, cost |-> TotalCost(T(g)),
                       points |-> { [ at |-> b, cost |-> TotalCost(U(g, b)), waste |-> TotalWaste(U(g, b)),
                                      windows |-> SumOf(Windows, U(g, b)) ] : b \in { Bucket(r) : r \in T(g) } } ]
<1>1. SeriesOf(S, cols, n, interval) = { row(g) : g \in top }
  BY DEF SeriesOf
<1>2. \A g : row(g).group = g /\ row(g).cost = TotalCost(In(S, cols, row(g).group))
  OBVIOUS
<1> HIDE DEF top, row
<1>3. Page({ row(g) : g \in top }, top, S, cols)
  BY <1>2 DEF Page
<1> QED
  BY <1>1, <1>3 DEF top

-----------------------------------------------------------------------------
(* The daily rows of the facts                                             *)

\* The facts that a set of daily rows has been added up from.
Behind(facts, R) == { r \in facts : RowOf(facts, r) \in R }

LEMMA DailyIs == ASSUME NEW facts PROVE Daily(facts) = { RowOf(facts, r) : r \in facts }
  BY DEF Daily

LEMMA DayType == ASSUME NEW t \in Int PROVE DayOf(t) \in Int
  BY ReportsAssumption DEF DayOf

\* The day of a time, and how days are in order.
LEMMA DayIs ==
  ASSUME NEW t \in Int
  PROVE  DayOf(DayOf(t) * DayHours) = DayOf(t)
<1>1. DayHours \in Int /\ DayHours > 0
  BY ReportsAssumption
<1>2. t = DayHours * (t \div DayHours) + (t % DayHours) /\ t % DayHours \in 0 .. DayHours - 1
  BY <1>1
<1> QED
  BY <1>1, <1>2 DEF DayOf

\* Days are in the order of their times.
LEMMA DayMonotone ==
  ASSUME NEW t \in Int, NEW u \in Int, t <= u PROVE DayOf(t) <= DayOf(u)
<1>1. DayHours \in Int /\ DayHours > 0
  BY ReportsAssumption
<1>2. t = DayHours * (t \div DayHours) + (t % DayHours) /\ t % DayHours \in 0 .. DayHours - 1
  BY <1>1
<1>3. u = DayHours * (u \div DayHours) + (u % DayHours) /\ u % DayHours \in 0 .. DayHours - 1
  BY <1>1
<1> QED
  BY <1>1, <1>2, <1>3 DEF DayOf

LEMMA DayOrder ==
  ASSUME NEW t \in Int, NEW u \in Int, u % DayHours = 0
  PROVE  (u <= t <=> DayOf(u) <= DayOf(t)) /\ (t < u <=> DayOf(t) < DayOf(u))
<1>1. DayHours \in Int /\ DayHours > 0
  BY ReportsAssumption
<1>2. t = DayHours * (t \div DayHours) + (t % DayHours) /\ t % DayHours \in 0 .. DayHours - 1
  BY <1>1
<1>3. u = DayHours * (u \div DayHours) + (u % DayHours)
  BY <1>1
<1> QED
  BY <1>1, <1>2, <1>3 DEF DayOf

\* Two facts are behind the same row when they are of one day and tuple.
LEMMA SameRowIs ==
  ASSUME NEW facts, FactRows(facts), NEW r \in facts, NEW q \in facts
  PROVE  q \in SameRow(facts, r) <=> RowOf(facts, q) = RowOf(facts, r)
<1>1. r.at \in Int /\ q.at \in Int
  BY DEF FactRows
<1>2. ASSUME q \in SameRow(facts, r) PROVE RowOf(facts, q) = RowOf(facts, r)
  <2>1. SameRow(facts, q) = SameRow(facts, r)
    BY <1>2 DEF SameRow
  <2> QED
    BY <1>2, <2>1 DEF RowOf, SameRow
<1>3. ASSUME RowOf(facts, q) = RowOf(facts, r) PROVE q \in SameRow(facts, r)
  <2>1. DayOf(q.at) * DayHours = DayOf(r.at) * DayHours /\ DimsOf(q) = DimsOf(r)
    BY <1>3 DEF RowOf
  <2>2. DayOf(q.at) = DayOf(r.at)
    BY <1>1, <2>1, DayIs
  <2> QED
    BY <2>1, <2>2 DEF SameRow
<1> QED
  BY <1>2, <1>3

\* Whichever of the daily rows are taken, they add up to the facts behind them.
LEMMA DailyAddsUp ==
  ASSUME NEW facts, FactRows(facts), NEW R, R \subseteq Daily(facts)
  PROVE  /\ TotalCost(R) = TotalCost(Behind(facts, R))
         /\ TotalWaste(R) = TotalWaste(Behind(facts, R))
         /\ SumOf(Windows, R) = SumOf(Windows, Behind(facts, R))
<1> DEFINE S == Behind(facts, R)
           f == [ r \in S |-> RowOf(facts, r) ]
           part == [ d \in R |-> { r \in facts : RowOf(facts, r) = d } ]
<1>1. /\ IsFiniteSet(S) /\ S \subseteq facts
      /\ Integral("cost", S) /\ Integral("waste", S) /\ Integral("windows", S)
  <2>1. S \subseteq facts
    BY DEF Behind
  <2> QED
    BY <2>1, FactsType
<1>2. IsFiniteSet(R)
  <2>1. f \in Surjection(S, R)
    BY DailyIs DEF Surjection, Behind
  <2> HIDE DEF f
  <2> QED
    BY <1>1, <2>1, FS_Surjection
<1>3. ASSUME NEW d \in R
      PROVE  /\ part[d] \subseteq S
             /\ d.cost = ColumnSum("cost", part[d])
             /\ d.waste = ColumnSum("waste", part[d])
             /\ d.windows = ColumnSum("windows", part[d])
  <2>1. PICK r \in facts : d = RowOf(facts, r)
    BY DailyIs
  <2>2. part[d] = SameRow(facts, r)
    <3>1. SameRow(facts, r) \subseteq facts
      BY DEF SameRow
    <3> QED
      BY <2>1, <3>1, SameRowIs
  <2>3. d.cost = TotalCost(part[d]) /\ d.waste = TotalWaste(part[d]) /\ d.windows = Cardinality(part[d])
    BY <2>1, <2>2 DEF RowOf
  <2>4. part[d] \subseteq S
    BY DEF Behind
  <2>5. ColumnSum("windows", part[d]) = Cardinality(part[d])
    <3> DEFINE c == "windows" Q == part[d]
    <3>1. IsFiniteSet(Q) /\ \A x \in Q : x[c] = 1
      BY <1>1, <2>4, FS_Subset DEF FactRows
    <3> HIDE DEF c, Q
    <3>2. ColumnSum(c, Q) = Cardinality(Q)
      BY <3>1, SumOnes
    <3> QED
      BY <3>2 DEF c, Q
  <2> HIDE DEF part
  <2> QED
    BY <2>3, <2>4, <2>5, TotalsAre
<1>4. \A d, e \in R : d # e => part[d] \cap part[e] = {}
  OBVIOUS
<1>5. \A x \in S : \E d \in R : x \in part[d]
  BY DEF Behind
<1> HIDE DEF S, part
<1>6. ASSUME NEW c, Integral(c, S), \A d \in R : d[c] = ColumnSum(c, part[d])
      PROVE  ColumnSum(c, R) = ColumnSum(c, S)
  <2>1. \A d \in R : part[d] \subseteq S /\ d[c] = ColumnSum(c, part[d])
    BY <1>3, <1>6
  <2> QED
    BY <1>1, <1>2, <1>4, <1>5, <1>6, <2>1, Regroup
<1>7. /\ SumOf(Windows, R) = ColumnSum("windows", R)
      /\ SumOf(Windows, S) = ColumnSum("windows", S)
  BY DEF SumOf, Windows, ColumnSum
<1>8. \A c \in { "cost", "waste", "windows" } : ColumnSum(c, R) = ColumnSum(c, S)
  BY <1>1, <1>3, <1>6
<1> QED
  BY <1>7, <1>8, TotalsAre DEF S

\* The columns of a group that the rollup has.
LEMMA KeptColumns ==
  ASSUME NEW k \in DOMAIN GroupBy, k # "pod"
  PROVE  \A i \in DOMAIN GroupBy[k] : GroupBy[k][i] \in Kept
<1> DEFINE cols == GroupBy[k]
<1>1. cols \in { << "namespace" >>, << "team" >>, << "namespace", "workload" >> }
  BY DEF GroupBy
<1>2. CASE cols \in { << "namespace" >>, << "team" >> }
  <2>1. DOMAIN cols = 1 .. 1 /\ \A i \in 1 .. 1 : cols[i] \in Kept
    BY <1>2 DEF Kept
  <2> QED
    BY <2>1
<1>3. CASE cols = << "namespace", "workload" >>
  <2>1. DOMAIN cols = 1 .. 2 /\ \A i \in 1 .. 2 : cols[i] \in Kept
    BY <1>3 DEF Kept
  <2> QED
    BY <2>1
<1> QED
  BY <1>1, <1>2, <1>3

\* The rollup's trend is the series of the facts that it was made of.
LEMMA RollupTrendIs ==
  ASSUME NEW table, NEW facts, FactRows(facts), NEW p \in Queries, ~ FromFacts(p)
  PROVE  TrendFromRollup(Daily(facts), p) =
           SeriesOf(Charged(table, facts, p), GroupBy[p.groupBy], p.limit, p.interval)
<1> DEFINE cols == GroupBy[p.groupBy]
           S == Charged(table, facts, p)
           D == { r \in Daily(facts) : InDays(r, p) /\ Matches(r, p.filter)
                                       /\ (p.estimatedOnly => r.estimated) }
           n == p.limit
           Row(r) == RowOf(facts, r)
<1>1. /\ TrendFromRollup(Daily(facts), p) = SeriesOf(D, cols, n, p.interval)
      /\ S = { r \in facts : InDays(r, p) /\ Matches(r, p.filter)
                 /\ (p.estimatedOnly => \E q \in SameRow(facts, r) : q.estimated) }
      /\ p.interval \in { "day", "week", "month" }
  BY DEF TrendFromRollup, Charged, FromFacts, Queries
<1>2. \A i \in DOMAIN cols : cols[i] \in Kept
  BY KeptColumns DEF FromFacts, Queries
<1>3. \A r \in facts : /\ r.at \in Int /\ Row(r).at = DayOf(r.at) * DayHours
                       /\ \A c \in Kept : Row(r).dims[c] = r.dims[c]
                       /\ Row(r).estimated = \E q \in SameRow(facts, r) : q.estimated
  BY DEF FactRows, RowOf, DimsOf
<1>4. \A r \in facts : DayOf(Row(r).at) = DayOf(r.at) /\ (Row(r) \in D <=> r \in S)
  <2> SUFFICES ASSUME NEW r \in facts
               PROVE  DayOf(Row(r).at) = DayOf(r.at) /\ (Row(r) \in D <=> r \in S)
    OBVIOUS
  <2>1. Row(r) \in Daily(facts)
    BY DailyIs
  <2>2. DayOf(Row(r).at) = DayOf(r.at)
    BY <1>3, DayIs
  <2>3. Matches(Row(r), p.filter) <=> Matches(r, p.filter)
    <3>1. DOMAIN p.filter \subseteq Kept
      BY DEF Queries
    <3> QED
      BY <1>3, <3>1 DEF Matches
  <2>4. InDays(Row(r), p) <=> InDays(r, p)
    BY <2>2 DEF InDays
  <2>5. Row(r).estimated <=> \E q \in SameRow(facts, r) : q.estimated
    BY <1>3
  <2> HIDE DEF Row, S
  <2> QED
    BY <1>1, <2>1, <2>2, <2>3, <2>4, <2>5
<1>5. D \subseteq Daily(facts) /\ S \subseteq facts
  BY <1>1
<1>6. \A d \in D : \E r \in S : d = Row(r)
  BY <1>4, <1>5, DailyIs
<1> HIDE DEF D, S
<1>7. \A r \in facts : GroupOf(Row(r), cols) = GroupOf(r, cols)
  BY <1>2, <1>3 DEF GroupOf
<1> HIDE DEF cols, Row
<1>8. GroupsOf(D, cols) = GroupsOf(S, cols)
  <2>1. ASSUME NEW g \in GroupsOf(D, cols) PROVE g \in GroupsOf(S, cols)
    <3>1. PICK d \in D : g = GroupOf(d, cols)
      BY DEF GroupsOf
    <3> QED
      BY <1>5, <1>6, <1>7, <3>1 DEF GroupsOf
  <2>2. ASSUME NEW g \in GroupsOf(S, cols) PROVE g \in GroupsOf(D, cols)
    <3>1. PICK r \in S : g = GroupOf(r, cols)
      BY DEF GroupsOf
    <3> QED
      BY <1>4, <1>5, <1>7, <3>1 DEF GroupsOf
  <2> QED
    BY <2>1, <2>2
<1> DEFINE TD(g) == In(D, cols, g) TS(g) == In(S, cols, g)
           Bucket(r) == BucketOf(p.interval, r.at)
           UD(g, b) == { r \in TD(g) : Bucket(r) = b }
           US(g, b) == { r \in TS(g) : Bucket(r) = b }
<1>9. \A r \in facts : \A g : Row(r) \in TD(g) <=> r \in TS(g)
  BY <1>4, <1>7 DEF In
<1>10. \A r \in facts : Bucket(Row(r)) = Bucket(r)
  <2> SUFFICES ASSUME NEW r \in facts PROVE Bucket(Row(r)) = Bucket(r)
    OBVIOUS
  <2>1. DayOf(Row(r).at) = DayOf(r.at)
    BY <1>4
  <2> QED
    BY <1>1, <2>1 DEF BucketOf
<1>11. \A g : TD(g) \subseteq D /\ TS(g) \subseteq S
  BY DEF In
<1> HIDE DEF TD, TS, Bucket
<1>12. \A g : TotalCost(TD(g)) = TotalCost(TS(g))
  <2> SUFFICES ASSUME NEW g PROVE TotalCost(TD(g)) = TotalCost(TS(g))
    OBVIOUS
  <2>1. Behind(facts, TD(g)) = TS(g)
    BY <1>5, <1>9, <1>11 DEF Behind, Row
  <2>2. TD(g) \subseteq Daily(facts)
    BY <1>5, <1>11
  <2> QED
    BY <2>1, <2>2, DailyAddsUp
<1>13. ASSUME NEW g, NEW b
       PROVE  /\ TotalCost(UD(g, b)) = TotalCost(US(g, b))
              /\ TotalWaste(UD(g, b)) = TotalWaste(US(g, b))
              /\ SumOf(Windows, UD(g, b)) = SumOf(Windows, US(g, b))
  <2>1. \A r \in facts : Row(r) \in UD(g, b) <=> r \in US(g, b)
    BY <1>9, <1>10
  <2>2. US(g, b) \subseteq facts /\ UD(g, b) \subseteq Daily(facts)
    BY <1>5, <1>11
  <2> HIDE DEF UD, US
  <2>3. Behind(facts, UD(g, b)) = US(g, b)
    BY <2>1, <2>2 DEF Behind, Row
  <2> DEFINE R == UD(g, b)
  <2>4. R \subseteq Daily(facts) /\ Behind(facts, R) = US(g, b)
    BY <2>2, <2>3
  <2> HIDE DEF R
  <2>5. /\ TotalCost(R) = TotalCost(Behind(facts, R))
        /\ TotalWaste(R) = TotalWaste(Behind(facts, R))
        /\ SumOf(Windows, R) = SumOf(Windows, Behind(facts, R))
    BY <2>4, DailyAddsUp
  <2> QED
    BY <2>4, <2>5 DEF R
<1>14. \A g : { Bucket(r) : r \in TD(g) } = { Bucket(r) : r \in TS(g) }
  <2> SUFFICES ASSUME NEW g PROVE { Bucket(r) : r \in TD(g) } = { Bucket(r) : r \in TS(g) }
    OBVIOUS
  <2>1. ASSUME NEW d \in TD(g) PROVE \E r \in TS(g) : Bucket(d) = Bucket(r)
    <3>1. PICK r \in S : d = Row(r)
      BY <1>6, <1>11
    <3> QED
      BY <1>5, <1>9, <1>10, <3>1
  <2>2. ASSUME NEW r \in TS(g) PROVE \E d \in TD(g) : Bucket(d) = Bucket(r)
    <3>1. r \in facts
      BY <1>5, <1>11
    <3> QED
      BY <1>9, <1>10, <3>1
  <2> QED
    BY <2>1, <2>2
<1>15. TopGroups(D, cols, n) = TopGroups(S, cols, n)
  <2>1. \A g : SortKey("cost", In(D, cols, g)) = SortKey("cost", In(S, cols, g))
    BY <1>12 DEF SortKey, TD, TS
  <2> DEFINE KD(g) == SortKey("cost", In(D, cols, g)) KS(g) == SortKey("cost", In(S, cols, g))
             ED(g, h) == KD(g) > KD(h) \/ (KD(g) = KD(h) /\ Sooner(g, h))
             ES(g, h) == KS(g) > KS(h) \/ (KS(g) = KS(h) /\ Sooner(g, h))
  <2>2. /\ TopGroups(D, cols, n) = { g \in GroupsOf(D, cols) :
              Cardinality({ h \in GroupsOf(D, cols) : ED(h, g) }) < n }
        /\ TopGroups(S, cols, n) = { g \in GroupsOf(S, cols) :
              Cardinality({ h \in GroupsOf(S, cols) : ES(h, g) }) < n }
    BY DEF TopGroups, TopBy
  <2>3. \A g, h : ED(g, h) <=> ES(g, h)
    BY <2>1
  <2> HIDE DEF ED, ES
  <2> DEFINE G == GroupsOf(S, cols)
  <2> HIDE DEF G
  <2>4. \A g : { h \in G : ED(h, g) } = { h \in G : ES(h, g) }
    BY <2>3
  <2> QED
    BY <1>8, <2>2, <2>4 DEF G
<1> DEFINE PD(g, b) == [ at |-> b, cost |-> TotalCost(UD(g, b)), waste |-> TotalWaste(UD(g, b)),
                         windows |-> SumOf(Windows, UD(g, b)) ]
           PS(g, b) == [ at |-> b, cost |-> TotalCost(US(g, b)), waste |-> TotalWaste(US(g, b)),
                         windows |-> SumOf(Windows, US(g, b)) ]
           RD(g) == [ group |-> g, cost |-> TotalCost(TD(g)),
                      points |-> { PD(g, b) : b \in { Bucket(r) : r \in TD(g) } } ]
           RS(g) == [ group |-> g, cost |-> TotalCost(TS(g)),
                      points |-> { PS(g, b) : b \in { Bucket(r) : r \in TS(g) } } ]
<1>16. /\ SeriesOf(D, cols, n, p.interval) = { RD(g) : g \in TopGroups(D, cols, n) }
       /\ SeriesOf(S, cols, n, p.interval) = { RS(g) : g \in TopGroups(S, cols, n) }
  BY DEF SeriesOf, TD, TS, Bucket
<1>17. \A g, b : PD(g, b) = PS(g, b)
  <2> HIDE DEF UD, US
  <2> QED
    BY <1>13
<1> HIDE DEF PD, PS
<1>18. \A g : RD(g) = RS(g)
  BY <1>12, <1>14, <1>17
<1> HIDE DEF RD, RS
<1> QED
  BY <1>1, <1>15, <1>16, <1>18 DEF S, cols

\* A summary that does not call itself truncated has all of the money.
LEMMA SummaryAddsUp ==
  ASSUME NEW facts, FactRows(facts), NEW p \in Queries, ~ Truncated(CostSummary(facts, p), p)
  PROVE  SumOf(Cost, CostSummary(facts, p)) = TotalCost(Selected(facts, p))
<1> DEFINE S == Selected(facts, p)
           k == p.groupBy
           cols == GroupBy[k]
           Q == CostSummary(facts, p)
           top == TopBy(S, cols, p.sort, p.descending, p.limit)
           G == GroupsOf(S, cols)
<1>1. Page(Q, top, S, cols)
  BY SummaryIsPage
<1>2. S \subseteq facts /\ k \in DOMAIN GroupBy /\ p.limit \in Nat /\ p.descending \in BOOLEAN
  BY DEF Selected, Queries
<1>3. FactRows(S)
  BY <1>2, FactsType
<1>4. IsFiniteSet(G) /\ top \subseteq G
  BY <1>2, <1>3, GroupsType DEF TopBy
<1>5. IsFiniteSet(top) /\ Cardinality(Q) = Cardinality(top) /\ Cardinality(top) \in Nat
  <2>1. IsFiniteSet(top)
    BY <1>4, FS_Subset
  <2> HIDE DEF Q, top, S, cols
  <2> QED
    BY <1>1, <2>1, PageSize, FS_CardinalityType
<1>6. Cardinality(top) < p.limit
  BY <1>2, <1>5 DEF Truncated
<1>7. top = G
  <2> DEFINE sort == p.sort descending == p.descending n == p.limit
  <2>1. descending \in BOOLEAN /\ n \in Nat /\ Cardinality(TopBy(S, cols, sort, descending, n)) < n
    BY <1>2, <1>6
  <2> HIDE DEF sort, descending, n, S, k
  <2>2. TopBy(S, GroupBy[k], sort, descending, n) = GroupsOf(S, GroupBy[k])
    BY <1>2, <2>1, TopIsAll
  <2> QED
    BY <2>2 DEF sort, descending, n, S, k
<1>8. Page(Q, GroupsOf(S, GroupBy[k]), S, GroupBy[k])
  BY <1>1, <1>7
<1> HIDE DEF Q, S, k, cols
<1>9. SumOf(Cost, Q) = TotalCost(S)
  BY <1>2, <1>8, PageAddsUp
<1> QED
  BY <1>9 DEF Q, S

\* Where every group fits, so has a trend.
LEMMA TrendAddsUp ==
  ASSUME NEW S, FactRows(S), NEW k \in DOMAIN GroupBy, NEW n \in Nat, NEW interval,
         Cardinality(GroupsOf(S, GroupBy[k])) <= n
  PROVE  TotalOf(SeriesOf(S, GroupBy[k], n, interval)) = TotalCost(S)
<1> DEFINE Q == SeriesOf(S, GroupBy[k], n, interval)
<1>1. TopGroups(S, GroupBy[k], n) = GroupsOf(S, GroupBy[k])
  <2> DEFINE sort == "cost" descending == TRUE
  <2>1. descending \in BOOLEAN /\ S \subseteq S
    OBVIOUS
  <2> HIDE DEF sort, descending
  <2>2. TopBy(S, GroupBy[k], sort, descending, n) = GroupsOf(S, GroupBy[k])
    BY <2>1, TopIsAll
  <2> QED
    BY <2>2 DEF sort, descending, TopGroups
<1>2. Page(Q, GroupsOf(S, GroupBy[k]), S, GroupBy[k])
  BY <1>1, SeriesIsPage
<1> HIDE DEF Q
<1>3. SumOf(Cost, Q) = TotalCost(S)
  <2>1. S \subseteq S
    OBVIOUS
  <2> QED
    BY <1>2, <2>1, PageAddsUp
<1> QED
  BY <1>3 DEF TotalOf, Q

\* What a trend charges for are rows of one of the tables.
LEMMA ChargedType ==
  ASSUME NEW facts, FactRows(facts), NEW rolled, FactRows(rolled), NEW p
  PROVE  /\ FactRows(Charged(facts, rolled, p)) /\ FactRows(Selected(facts, p))
         /\ Charged(facts, rolled, p) \subseteq facts \cup rolled
<1>1. Selected(facts, p) \subseteq facts
  BY DEF Selected
<1>2. Charged(facts, rolled, p) \subseteq facts \/ Charged(facts, rolled, p) \subseteq rolled
  BY <1>1 DEF Charged
<1> QED
  BY <1>1, <1>2, FactsType

\* Whatever the rollup has processed, a trend is a series of facts.
LEMMA TrendIs ==
  ASSUME NEW facts, NEW rolled, FactRows(rolled), NEW p \in Queries
  PROVE  Trend(facts, rolled, p) =
           SeriesOf(Charged(facts, rolled, p), GroupBy[p.groupBy], p.limit, p.interval)
<1>1. CASE FromFacts(p)
  BY <1>1 DEF Trend, Charged, TrendFromFacts
<1>2. CASE ~ FromFacts(p)
  BY <1>2, RollupTrendIs DEF Trend
<1> QED
  BY <1>1, <1>2

\* Two sums differ by what only one of them has.
LEMMA SumsDiffer ==
  ASSUME NEW A, FactRows(A), NEW B, FactRows(B)
  PROVE  TotalCost(A) - TotalCost(B) = TotalCost(A \ B) - TotalCost(B \ A)
<1> DEFINE c == "cost" one == A \ B two == B \ A same == A \cap B
<1>1. /\ IsFiniteSet(one) /\ IsFiniteSet(two) /\ IsFiniteSet(same)
      /\ Integral(c, one) /\ Integral(c, two) /\ Integral(c, same)
  <2>1. one \subseteq A /\ two \subseteq B /\ same \subseteq A
    OBVIOUS
  <2> HIDE DEF one, two, same
  <2> QED
    BY <2>1, FactsType
<1>2. A = same \cup one /\ same \cap one = {} /\ B = same \cup two /\ same \cap two = {}
  OBVIOUS
<1> HIDE DEF c, one, two, same
<1>3. /\ ColumnSum(c, A) = ColumnSum(c, same) + ColumnSum(c, one)
      /\ ColumnSum(c, B) = ColumnSum(c, same) + ColumnSum(c, two)
  BY <1>1, <1>2, SumUnion
<1>4. ColumnSum(c, same) \in Int /\ ColumnSum(c, one) \in Int /\ ColumnSum(c, two) \in Int
  BY <1>1, SumType
<1>5. ColumnSum(c, A) - ColumnSum(c, B) = ColumnSum(c, one) - ColumnSum(c, two)
  BY <1>3, <1>4
<1> QED
  BY <1>5, TotalsAre DEF c, one, two

\* On whole days that were rolled up as they are, both tables have the same rows.
LEMMA UpToDateIs ==
  ASSUME NEW facts, FactRows(facts), NEW rolled, FactRows(rolled), NEW p \in Queries,
         WholeDays(p), ~ p.estimatedOnly, UpToDate(facts, rolled, p)
  PROVE  Charged(facts, rolled, p) = Selected(facts, p)
<1>1. CASE FromFacts(p)
  BY <1>1 DEF Charged
<1>2. CASE ~ FromFacts(p)
  <2> DEFINE S == Selected(facts, p) C == Charged(facts, rolled, p) u == p.from v == p.to
  <2>1. /\ S = { r \in facts : u <= r.at /\ r.at < v /\ Matches(r, p.filter) }
        /\ C = { r \in rolled : InDays(r, p) /\ Matches(r, p.filter) }
    BY <1>2 DEF Selected, Charged
  <2>2. \A r \in facts \cup rolled : u <= r.at /\ r.at < v <=> InDays(r, p)
    <3> SUFFICES ASSUME NEW r \in facts \cup rolled
                 PROVE  u <= r.at /\ r.at < v <=> InDays(r, p)
      OBVIOUS
    <3> DEFINE t == r.at
    <3>1. t \in Int /\ u \in Int /\ v \in Int /\ u % DayHours = 0 /\ v % DayHours = 0
      BY DEF WholeDays, Queries, FactRows
    <3> HIDE DEF t, u, v
    <3>2. u <= t <=> DayOf(u) <= DayOf(t)
      BY <3>1, DayOrder
    <3>3. t < v <=> DayOf(t) < DayOf(v)
      BY <3>1, DayOrder
    <3> QED
      BY <3>2, <3>3 DEF t, u, v, InDays
  <2>3. \A r \in facts \cup rolled : u <= r.at /\ r.at < v => (r \in facts <=> r \in rolled)
    BY DEF UpToDate
  <2> HIDE DEF S, C, u, v
  <2>4. S = C
    BY <2>1, <2>2, <2>3
  <2> QED
    BY <2>4 DEF S, C
<1> QED
  BY <1>1, <1>2

\* A comparison has each row in one of its periods.
LEMMA PeriodsSplit ==
  ASSUME NEW facts, FactRows(facts), NEW rolled, FactRows(rolled), NEW p \in Queries,
         TrendAccepted(p)
  PROVE  ComparisonSplits(facts, rolled, p)
<1> DEFINE before == Previous(p)
           both == Both(p)
           A == Charged(facts, rolled, p)
           B == Charged(facts, rolled, before)
           C == Charged(facts, rolled, both)
           k == p.groupBy
           n == p.limit
           from == 2 * p.from - p.to
<1>1. p.from \in Int /\ p.to \in Int /\ from \in Int /\ p.from < p.to /\ from < p.from
  BY DEF Queries, TrendAccepted, RangeAccepted
<1> HIDE DEF from
<1>2. /\ before \in Queries /\ before.from = from /\ before.to = p.from
      /\ \A c \in { "groupBy", "interval", "limit", "filter", "estimatedOnly" } : before[c] = p[c]
  <2>1. before = [ p EXCEPT !.from = from, !.to = p.from ]
    BY DEF Previous, from
  <2> HIDE DEF before
  <2> QED
    BY <1>1, <2>1 DEF Queries
<1>3. /\ both.from = from /\ both.to = p.to
      /\ \A c \in { "groupBy", "interval", "limit", "filter", "estimatedOnly" } : both[c] = p[c]
  <2>1. both = [ p EXCEPT !.from = from ]
    BY DEF Both, from
  <2> HIDE DEF both
  <2> QED
    BY <2>1 DEF Queries
<1>4. (FromFacts(before) <=> FromFacts(p)) /\ (FromFacts(both) <=> FromFacts(p))
  BY <1>2, <1>3 DEF FromFacts
<1>5. k \in DOMAIN GroupBy /\ n \in Nat
  BY DEF Queries
<1> HIDE DEF before, both
<1>6. C = A \cup B /\ A \cap B = {}
  <2>1. CASE FromFacts(p)
    <3>1. /\ A = Selected(facts, p) /\ B = Selected(facts, before) /\ C = Selected(facts, both)
      BY <1>4, <2>1 DEF Charged
    <3>2. \A r \in facts : r.at \in Int
      BY DEF FactRows
    <3>3. \A r \in facts : /\ Matches(r, before.filter) <=> Matches(r, p.filter)
                           /\ Matches(r, both.filter) <=> Matches(r, p.filter)
      BY <1>2, <1>3
    <3>4. ASSUME NEW r \in facts
          PROVE  (r \in C <=> (r \in A \/ r \in B)) /\ ~ (r \in A /\ r \in B)
      BY <1>1, <1>2, <1>3, <3>1, <3>2, <3>3 DEF Selected
    <3>5. A \subseteq facts /\ B \subseteq facts /\ C \subseteq facts
      BY <3>1 DEF Selected
    <3> HIDE DEF A, B, C
    <3> QED
      BY <3>4, <3>5
  <2>2. CASE ~ FromFacts(p)
    <3> DEFINE Days(q) == { r \in rolled : InDays(r, q) }
               Rest(q) == { r \in rolled : Matches(r, q.filter)
                              /\ (q.estimatedOnly => \E x \in SameRow(rolled, r) : x.estimated) }
    <3>1. /\ A = Days(p) \cap Rest(p) /\ B = Days(before) \cap Rest(before)
          /\ C = Days(both) \cap Rest(both)
      BY <1>4, <2>2 DEF Charged
    <3>2. Rest(before) = Rest(p) /\ Rest(both) = Rest(p)
      BY <1>2, <1>3
    <3>3. Days(both) = Days(p) \cup Days(before) /\ Days(p) \cap Days(before) = {}
      <4>1. DayOf(from) <= DayOf(p.from) /\ DayOf(p.from) <= DayOf(p.to)
        BY <1>1, DayMonotone
      <4>2. DayOf(from) \in Int /\ DayOf(p.from) \in Int /\ DayOf(p.to) \in Int
        BY <1>1, DayType
      <4>3. \A r \in rolled : DayOf(r.at) \in Int
        BY DayType DEF FactRows
      <4> QED
        BY <1>2, <1>3, <4>1, <4>2, <4>3 DEF InDays
    <3> HIDE DEF A, B, C, Days, Rest
    <3> QED
      BY <3>1, <3>2, <3>3
  <2> QED
    BY <2>1, <2>2
<1>7. FactRows(A) /\ FactRows(B) /\ FactRows(C)
  BY ChargedType
<1>8. /\ Compare(facts, rolled, p).current = TotalOf(SeriesOf(A, GroupBy[k], n, p.interval))
      /\ Compare(facts, rolled, p).previous = TotalOf(SeriesOf(B, GroupBy[k], n, p.interval))
  <2>1. Trend(facts, rolled, p) = SeriesOf(A, GroupBy[k], n, p.interval)
    BY TrendIs
  <2>2. Trend(facts, rolled, before) = SeriesOf(B, GroupBy[k], n, p.interval)
    <3>1. /\ before.groupBy = k /\ before.limit = n /\ before.interval = p.interval
      BY <1>2
    <3> QED
      BY <1>2, <3>1, TrendIs
  <2> QED
    BY <2>1, <2>2 DEF Compare, before
<1> HIDE DEF A, B, C, k, n
<1>9. SUFFICES ASSUME Cardinality(GroupsOf(C, GroupBy[k])) <= n
               PROVE  Compare(facts, rolled, p).current + Compare(facts, rolled, p).previous
                        = TotalCost(C)
  BY DEF ComparisonSplits, C, k, n, both
<1>10. /\ Cardinality(GroupsOf(A, GroupBy[k])) <= n
       /\ Cardinality(GroupsOf(B, GroupBy[k])) <= n
  <2> DEFINE GA == GroupsOf(A, GroupBy[k]) GB == GroupsOf(B, GroupBy[k]) GC == GroupsOf(C, GroupBy[k])
  <2>1. IsFiniteSet(GC)
    BY <1>5, <1>7, GroupsType
  <2>2. GA \subseteq GC /\ GB \subseteq GC /\ Cardinality(GC) <= n
    BY <1>6, <1>9 DEF GroupsOf
  <2> HIDE DEF GA, GB, GC
  <2>3. /\ Cardinality(GA) <= Cardinality(GC) /\ Cardinality(GB) <= Cardinality(GC)
        /\ Cardinality(GA) \in Nat /\ Cardinality(GB) \in Nat /\ Cardinality(GC) \in Nat
    BY <2>1, <2>2, FS_Subset, FS_CardinalityType
  <2>4. Cardinality(GA) <= n /\ Cardinality(GB) <= n
    BY <1>5, <2>2, <2>3
  <2> QED
    BY <2>4 DEF GA, GB
<1>11. /\ Compare(facts, rolled, p).current = TotalCost(A)
       /\ Compare(facts, rolled, p).previous = TotalCost(B)
  BY <1>5, <1>7, <1>8, <1>10, TrendAddsUp
<1>12. TotalCost(C) = TotalCost(A) + TotalCost(B)
  <2> DEFINE c == "cost"
  <2>1. IsFiniteSet(A) /\ Integral(c, A) /\ IsFiniteSet(B) /\ Integral(c, B)
    BY <1>7, FactsType
  <2> HIDE DEF c
  <2>2. ColumnSum(c, A \cup B) = ColumnSum(c, A) + ColumnSum(c, B)
    BY <1>6, <2>1, SumUnion
  <2> QED
    BY <1>6, <2>2, TotalsAre DEF c
<1> QED
  BY <1>11, <1>12

\* The trend and the summary, from whatever the rollup has processed.
LEMMA TrendExplained ==
  ASSUME NEW facts, FactRows(facts), NEW rolled, FactRows(rolled), NEW p \in Queries
  PROVE  TrendIsExplained(facts, rolled, p)
<1> DEFINE summary == CostSummary(facts, p)
           trend == Trend(facts, rolled, p)
           cols == GroupBy[p.groupBy]
           S == Selected(facts, p)
           C == Charged(facts, rolled, p)
           top == TopBy(S, cols, p.sort, p.descending, p.limit)
<1>1. trend = SeriesOf(C, cols, p.limit, p.interval)
  BY TrendIs
<1>2. Page(trend, TopGroups(C, cols, p.limit), C, cols) /\ Page(summary, top, S, cols)
  BY <1>1, SeriesIsPage, SummaryIsPage
<1>3. FactRows(S) /\ FactRows(C)
  BY ChargedType
<1>4. (FromFacts(p) \/ (WholeDays(p) /\ ~ p.estimatedOnly /\ UpToDate(facts, rolled, p))) => C = S
  BY UpToDateIs DEF Charged
<1>5. C = S /\ p.sort = "cost" /\ p.descending => TopGroups(C, cols, p.limit) = top
  BY DEF TopGroups, Queries
<1> HIDE DEF summary, trend, cols, S, C, top
<1>6. ASSUME NEW s \in trend, NEW r \in summary, s.group = r.group
      PROVE  s.cost - r.cost =
               TotalCost(In(C \ S, cols, s.group)) - TotalCost(In(S \ C, cols, s.group))
  <2> DEFINE a == In(C, cols, s.group) b == In(S, cols, s.group)
  <2>1. s.cost = TotalCost(a) /\ r.cost = TotalCost(b)
    BY <1>2, <1>6 DEF Page
  <2>2. FactRows(a) /\ FactRows(b)
    <3>1. a \subseteq C /\ b \subseteq S
      BY DEF In
    <3> HIDE DEF a, b
    <3> QED
      BY <1>3, <3>1, FactsType
  <2>3. In(C \ S, cols, s.group) = a \ b /\ In(S \ C, cols, s.group) = b \ a
    BY DEF In
  <2> HIDE DEF a, b
  <2> QED
    BY <2>1, <2>2, <2>3, SumsDiffer
<1>7. C = S /\ p.sort = "cost" /\ p.descending =>
        { s.group : s \in trend } = { r.group : r \in summary }
  BY <1>2, <1>5 DEF Page
<1> QED
  BY <1>1, <1>4, <1>6, <1>7 DEF TrendIsExplained, summary, trend, cols, S, C

\* A summary has all of its range, a trend from either table differs from it by
\* the facts that only one of them has, and a comparison splits what it charges
\* for: for every query that the handlers can make, every finite set of fact rows
\* and every finite set that the rollup was made of, whether it is up to date.
THEOREM FiguresAlwaysAgree ==
  ASSUME NEW facts, FactRows(facts), NEW rolled, FactRows(rolled), NEW p \in Queries
  PROVE  FiguresAgree(facts, rolled, p)
<1>1. SummaryIsWhole(facts, p)
  BY SummaryAddsUp DEF SummaryIsWhole
<1>2. TrendIsExplained(facts, rolled, p)
  BY TrendExplained
<1>3. ComparisonSplits(facts, rolled, p)
  <2>1. CASE TrendAccepted(p)
    BY <2>1, PeriodsSplit
  <2>2. CASE ~ TrendAccepted(p)
    BY <2>2 DEF ComparisonSplits
  <2> QED
    BY <2>1, <2>2
<1> QED
  BY <1>1, <1>2, <1>3 DEF FiguresAgree

-----------------------------------------------------------------------------
(* The inputs of the runs                                                  *)

InputOK ==
  /\ input.kind = "rows" => ContainerRows(input.of)
  /\ input.kind = "price" => /\ ListShape(input.of.list) /\ input.of.windows \in Nat \ {0}
                             /\ input.of.cpu \in Int /\ input.of.mem \in Int
  /\ input.kind = "report" => /\ FactRows(input.of.facts) /\ FactRows(input.of.rolled)
                              /\ input.of.p \in Queries

\* The rows of a container, of any of the runs' inputs.
LEMMA TakenRows == ASSUME TakeRows PROVE InputOK'
<1>1. PICK kind \in { "Deployment", "DaemonSet" }, pods \in { 1, 3, 6 }, turns \in BOOLEAN,
           cpu \in { 0, 10, 100 }, mem \in { 0, 20, 64 }, price \in { 0, 2 },
           cpuPeaks \in [ 1 .. 3 -> { 0, 2, 60 } ], memPeaks \in [ 1 .. 3 -> { 0, 3, 50 } ] :
        /\ kind = "DaemonSet" \/ turns \/ price = 0 => pods = 6
        /\ ~ (kind = "DaemonSet" /\ (turns \/ price = 0))
        /\ 0 \in { memPeaks[w] : w \in 1 .. 3 } => cpuPeaks[1] = 2 /\ cpu = 100
        /\ Take("rows", RowsMC(kind, pods, turns, cpu, mem, price, cpuPeaks, memPeaks))
  BY Zenon DEF TakeRows
<1> DEFINE rows == RowsMC(kind, pods, turns, cpu, mem, price, cpuPeaks, memPeaks)
           X == { y \in (1 .. pods) \X (1 .. 3) : turns => y[1] % 3 = y[2] % 3 }
           row(x) == [ pod |-> x[1], w |-> x[2], kind |-> kind, cpu |-> cpu, mem |-> mem,
                       peakCPU |-> cpuPeaks[x[2]], peakMem |-> memPeaks[x[2]],
                       cpuPrice |-> price, memPrice |-> price ]
           f == [ x \in X |-> row(x) ]
<1>2. rows = { row(x) : x \in X }
  BY DEF RowsMC
<1>3. IsFiniteSet(X)
  <2>1. IsFiniteSet((1 .. pods) \X (1 .. 3))
    <3> DEFINE one == 1 three == 3
    <3>1. one \in Int /\ three \in Int /\ pods \in Int
      OBVIOUS
    <3> HIDE DEF one, three
    <3>2. IsFiniteSet(one .. pods) /\ IsFiniteSet(one .. three)
      BY <3>1, FS_Interval, Zenon
    <3>3. IsFiniteSet((one .. pods) \X (one .. three))
      BY <3>2, FS_Product, Zenon
    <3> QED
      BY <3>3 DEF one, three
  <2> DEFINE Y == (1 .. pods) \X (1 .. 3)
  <2>2. X \in SUBSET Y
    OBVIOUS
  <2> HIDE DEF X, Y
  <2> QED
    BY <2>1, <2>2, FS_Subset DEF Y
<1>4. << 1, 1 >> \in X
  <2>1. 1 \in 1 .. pods /\ 1 \in 1 .. 3
    OBVIOUS
  <2> QED
    BY <2>1
<1>5. \A x \in X : x[2] \in 1 .. 3
  OBVIOUS
<1>6. \A x \in X : /\ row(x).w \in Int /\ row(x).cpu \in Nat /\ row(x).mem \in Nat
                   /\ row(x).peakCPU \in Nat /\ row(x).peakMem \in Nat
                   /\ row(x).cpuPrice \in Nat /\ row(x).memPrice \in Nat
  BY <1>5
<1> HIDE DEF X, rows, row
<1>7. IsFiniteSet(rows)
  <2>1. f \in Surjection(X, rows)
    BY <1>2 DEF Surjection
  <2> HIDE DEF f
  <2> QED
    BY <1>3, <2>1, FS_Surjection
<1>8. ContainerRows(rows)
  BY <1>2, <1>4, <1>6, <1>7 DEF ContainerRows
<1>9. input'.kind = "rows" /\ input'.of = rows
  BY <1>1 DEF Take, rows
<1> QED
  BY <1>8, <1>9 DEF InputOK

\* The lists and the queries of the inputs.
LEMMA TakenPrice == ASSUME TakePrice PROVE InputOK'
<1> DEFINE TypesOf(S) == [ t \in { x \in {"m"} : S # {} } |-> CHOOSE e \in S : TRUE ]
<1>1. PICK mine \in { {} } \cup { { e } : e \in Entries \cup Refused }, common \in { {}, { Priced } },
           fallback \in { {}, { [ Priced EXCEPT !.vcpu = 1, !.spot = Blank, !.hourly = 33 ] } },
           default \in { NoRegion, "b" }, region \in { NoRegion, "a", "b", "c" }, type \in { NoType, "m" },
           spot \in BOOLEAN, share \in { 0, 37, 100 }, cpu \in { 333, 1000 } :
         /\ type = NoType => region = "a" /\ share = 37
         /\ Take("price",
           [ list |-> [ version |-> 1, currency |-> "USD", cpuShare |-> share, memShare |-> 100 - share,
                        regions |-> [ r \in { "a", "b" } |-> TypesOf(IF r = "a" THEN mine ELSE common) ],
                        default |-> default, fallback |-> fallback ],
             node |-> [ region |-> region, type |-> type, spot |-> spot ],
             windows |-> IF spot THEN 12 ELSE 7, cpu |-> cpu, mem |-> 300 ])
  BY Zenon DEF TakePrice
<1> DEFINE regions == [ r \in { "a", "b" } |-> TypesOf(IF r = "a" THEN mine ELSE common) ]
           list == [ version |-> 1, currency |-> "USD", cpuShare |-> share, memShare |-> 100 - share,
                     regions |-> regions, default |-> default, fallback |-> fallback ]
<1>2. EntryShape(Priced) /\ EntryShape([ Priced EXCEPT !.vcpu = 1, !.spot = Blank, !.hourly = 33 ])
  BY DEF EntryShape, Priced, Blank
<1>3. \A e \in Entries \cup Refused : EntryShape(e)
  BY DEF EntryShape, Entries, Refused, Priced, Blank, White, Bad
<1>4. \A e \in mine \cup common \cup fallback : EntryShape(e)
  BY <1>2, <1>3
<1>5. \A e, f \in fallback : e = f
  OBVIOUS
<1>6. ASSUME NEW r \in { "a", "b" }, NEW t \in DOMAIN regions[r] PROVE EntryShape(regions[r][t])
  <2> DEFINE S == IF r = "a" THEN mine ELSE common
  <2>1. S # {} /\ regions[r][t] = CHOOSE e \in S : TRUE
    BY <1>6
  <2>2. regions[r][t] \in mine \cup common
    BY <2>1
  <2> QED
    BY <1>4, <2>2
<1>7. ListShape(list)
  <2>1. list.cpuShare \in Int /\ list.memShare \in Int
    OBVIOUS
  <2>2. list.regions = regions /\ DOMAIN regions = { "a", "b" } /\ list.fallback = fallback
    OBVIOUS
  <2> HIDE DEF list, regions
  <2> QED
    BY <1>4, <1>5, <1>6, <2>1, <2>2, NoRegionAssumption DEF ListShape
<1>8. /\ input'.kind = "price" /\ input'.of.list = list /\ input'.of.windows \in { 7, 12 }
      /\ input'.of.cpu = cpu /\ input'.of.mem = 300
  BY <1>1 DEF Take
<1> HIDE DEF list
<1> QED
  BY <1>7, <1>8 DEF InputOK

LEMMA TakenReport == ASSUME TakeReport PROVE InputOK'
<1>1. PICK facts \in SUBSET FactsMC, from \in 2 .. 5, to \in 4 .. 8, groupBy \in DOMAIN GroupBy,
           interval \in { "hour", "day", "week", "month" }, limit \in { 1, 2, 4 },
           filter \in { << >>, [ team |-> 1 ] } : \E rolled \in RolledMC(facts) :
         /\ interval = "hour" \/ groupBy = "pod" => rolled = facts
         /\ interval = "month" => limit = 2 /\ filter = << >>
         /\ Take("report", [ facts |-> facts, rolled |-> rolled,
                             p |-> QueryMC(from, to, groupBy, interval, limit, filter) ])
  BY Zenon DEF TakeReport
<1> DEFINE p == QueryMC(from, to, groupBy, interval, limit, filter)
<1>0. PICK rolled \in RolledMC(facts) :
         Take("report", [ facts |-> facts, rolled |-> rolled, p |-> p ])
  BY <1>1
<1>2. FactRows(facts)
  <2>1. IsFiniteSet(FactsMC)
    <3> DEFINE S1 == { Fact(1, 0, 1, 1, 1, 5, 1, FALSE) }
               S2 == S1 \cup { Fact(2, 2, 1, 1, 2, 1, 0, TRUE) }
               S3 == S2 \cup { Fact(3, 3, 2, 1, 3, 7, 2, FALSE) }
               S4 == S3 \cup { Fact(4, 5, 2, 2, 4, 1, 1, FALSE) }
               S5 == S4 \cup { Fact(5, 5, 1, 2, 1, 1, 0, FALSE) }
               S6 == S5 \cup { Fact(6, 6, 3, 2, 5, 9, 0, TRUE) }
    <3>0. FactsMC = S6
      BY DEF FactsMC
    <3>1. IsFiniteSet(S1)
      BY FS_Singleton
    <3> HIDE DEF S1
    <3>2. IsFiniteSet(S2)
      BY <3>1, FS_AddElement
    <3> HIDE DEF S2
    <3>3. IsFiniteSet(S3)
      BY <3>2, FS_AddElement
    <3> HIDE DEF S3
    <3>4. IsFiniteSet(S4)
      BY <3>3, FS_AddElement
    <3> HIDE DEF S4
    <3>5. IsFiniteSet(S5)
      BY <3>4, FS_AddElement
    <3> HIDE DEF S5
    <3>6. IsFiniteSet(S6)
      BY <3>5, FS_AddElement
    <3> QED
      BY <3>0, <3>6
  <2>2. \A r \in FactsMC : r \in [ id : Int, at : Int, dims : [ Columns -> Int ], cost : Int, waste : Int,
                                   windows : { 1 }, estimated : BOOLEAN ]
    <3> DEFINE Shape == [ id : Int, at : Int, dims : [ Columns -> Int ], cost : Int, waste : Int,
                          windows : { 1 }, estimated : BOOLEAN ]
    <3>1. /\ Fact(1, 0, 1, 1, 1, 5, 1, FALSE) \in Shape
          /\ Fact(2, 2, 1, 1, 2, 1, 0, TRUE) \in Shape
          /\ Fact(3, 3, 2, 1, 3, 7, 2, FALSE) \in Shape
          /\ Fact(4, 5, 2, 2, 4, 1, 1, FALSE) \in Shape
          /\ Fact(5, 5, 1, 2, 1, 1, 0, FALSE) \in Shape
          /\ Fact(6, 6, 3, 2, 5, 9, 0, TRUE) \in Shape
      BY DEF Fact, Columns
    <3> HIDE DEF Shape
    <3>2. \A r \in FactsMC : r \in Shape
      BY <3>1, Zenon DEF FactsMC
    <3> QED
      BY <3>2 DEF Shape
  <2>3. facts \in SUBSET FactsMC
    OBVIOUS
  <2> HIDE DEF FactsMC
  <2>4. IsFiniteSet(facts)
    BY <2>1, <2>3, FS_Subset
  <2> QED
    BY <2>2, <2>3, <2>4 DEF FactRows
<1>3. p \in Queries
  <2>1. filter \in UNION { [ C -> Int ] : C \in SUBSET Kept }
    <3>1. CASE filter = << >>
      <4>1. filter \in [ {} -> Int ] /\ {} \in SUBSET Kept
        BY <3>1
      <4> QED
        BY <4>1
    <3>2. CASE filter = [ team |-> 1 ]
      <4>1. filter \in [ { "team" } -> Int ] /\ { "team" } \in SUBSET Kept
        BY <3>2 DEF Kept
      <4> QED
        BY <4>1
    <3> QED
      BY <3>1, <3>2
  <2>2. /\ from \in Int /\ to \in Int /\ limit \in Nat
        /\ (IF limit = 4 THEN "waste" ELSE "cost") \in { "cost", "waste" }
    OBVIOUS
  <2>3. (limit # 4) \in BOOLEAN /\ (limit = 4 /\ interval \in { "hour", "week" }) \in BOOLEAN
    BY Zenon
  <2> QED
    BY <2>1, <2>2, <2>3 DEF Queries, QueryMC
<1>4. FactRows(rolled)
  <2> DEFINE new(r) == IF r.id = 1 THEN [ r EXCEPT !.cost = 3 ] ELSE r
             f == [ r \in facts |-> new(r) ]
             image == { new(r) : r \in facts }
  <2>1. CASE rolled \subseteq facts
    BY <1>2, <2>1, FactsType
  <2>2. CASE rolled = image
    <3>1. IsFiniteSet(image)
      <4>1. f \in Surjection(facts, image)
        BY DEF Surjection
      <4> HIDE DEF f, image
      <4> QED
        BY <1>2, <4>1, FS_Surjection DEF FactRows
    <3>2. \A r \in facts : new(r) \in [ id : Int, at : Int, dims : [ Columns -> Int ], cost : Int,
                                        waste : Int, windows : { 1 }, estimated : BOOLEAN ]
      BY <1>2 DEF FactRows
    <3> HIDE DEF new
    <3> QED
      BY <2>2, <3>1, <3>2 DEF FactRows
  <2> QED
    BY <2>1, <2>2 DEF RolledMC
<1>5. /\ input'.kind = "report" /\ input'.of.facts = facts /\ input'.of.rolled = rolled
      /\ input'.of.p = p
  BY <1>0 DEF Take
<1> HIDE DEF p
<1> QED
  BY <1>2, <1>3, <1>4, <1>5 DEF InputOK

\* Every input that TLC takes has the shape that the theorems are about.
LEMMA InputsOK == Spec => []InputOK
<1>1. Init => InputOK
  BY DEF Init, None, InputOK
<1>2. InputOK /\ [Next]_input => InputOK'
  <2> SUFFICES ASSUME InputOK, [Next]_input PROVE InputOK'
    OBVIOUS
  <2>1. CASE TakeRows
    BY <2>1, TakenRows
  <2>2. CASE TakePrice
    BY <2>2, TakenPrice
  <2>3. CASE TakeReport
    BY <2>3, TakenReport
  <2>4. CASE TakeSettings
    <3>1. input'.kind = "settings"
      BY <2>4 DEF TakeSettings, Take
    <3> QED
      BY <3>1 DEF InputOK
  <2>5. CASE Done
    BY <2>5 DEF Done, None, InputOK
  <2>6. CASE UNCHANGED input
    BY <2>6 DEF InputOK
  <2> QED
    BY <2>1, <2>2, <2>3, <2>4, <2>5, <2>6 DEF Next
<1> QED
  BY <1>1, <1>2, PTL DEF Spec

\* Advice keeps the headroom above what was measured, whichever rows are taken.
THEOREM HeadroomKept == Spec => []AdviceKeepsHeadroom
<1>1. InputOK => AdviceKeepsHeadroom
  BY AdviceSafe DEF InputOK, AdviceKeepsHeadroom
<1> QED
  BY <1>1, InputsOK, PTL

\* No recommendation saves more than the container costs.
THEOREM SpendBoundsSavings == Spec => []SavingsWithinSpend
<1>1. InputOK => SavingsWithinSpend
  BY SavingSpent DEF InputOK, SavingsWithinSpend
<1> QED
  BY <1>1, InputsOK, PTL

\* The pods of a node cost together what the list says of the node.
THEOREM StatedPricesCharged == Spec => []NodeCostsAsStated
<1>1. InputOK => NodeCostsAsStated
  BY NodesCostAsStated DEF InputOK, NodeCostsAsStated
<1> QED
  BY <1>1, InputsOK, PTL

\* One refused start names everything that is wrong.
THEOREM OneRestartEnough == Spec => []OneRestartRevealsAll
<1>1. OneRestartRevealsAll
  BY EveryRepairReveals DEF OneRestartRevealsAll
<1> QED
  BY <1>1, PTL

\* The summary, the trend and the comparison agree, but for the facts that the
\* rollup has not read.
THEOREM ReportsAreOne == Spec => []ReportsAgree
<1>1. InputOK => ReportsAgree
  BY FiguresAlwaysAgree DEF InputOK, ReportsAgree
<1> QED
  BY <1>1, InputsOK, PTL
==============================================================================
