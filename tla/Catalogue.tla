------------------------------ MODULE Catalogue ------------------------------
(***************************************************************************)
(* The price list: internal/pricing.                                       *)
(*                                                                         *)
(* LoadCatalogue refuses a list that it cannot price from; RatesFor finds  *)
(* the entry of a node and derives the rates of a core and of a GiB for an *)
(* hour; Cost multiplies a reservation by them.  Money is in units of      *)
(* ratePrecision, the last digit that a rate keeps, and each division      *)
(* rounds to it.  Shares of the split are in hundredths.                   *)
(***************************************************************************)
EXTENDS Integers, FiniteSets

CONSTANTS NoRegion, NoType

\* The texts of a price in the file that matter: what is not there, what is
\* only white space, and what is no decimal or is negative.  Any other is its
\* number of units.
Blank == -1
White == -2
Bad   == -3
Value(raw) == IF raw >= 0 THEN raw ELSE 0

-----------------------------------------------------------------------------
(* Loading                                                                 *)

\* hasExplicitRates, which looks at the texts.
Explicit(e) == e.cpuRate # Blank /\ e.memRate # Blank

\* parse, and the checks of normalise on one entry.
EntryAccepted(e) ==
  /\ Bad \notin { e.hourly, e.spot, e.cpuRate, e.memRate }
  /\ e.hourly # Blank \/ Explicit(e)
  /\ e.vcpu > 0 /\ e.gib > 0

\* normalise: the whole list is good, or LoadCatalogue returns an error and the
\* collector does not start.
Accepted(c) ==
  /\ c.version = 1 /\ c.currency # ""
  /\ c.cpuShare >= 0 /\ c.memShare >= 0 /\ c.cpuShare + c.memShare = 100
  /\ DOMAIN c.regions # {}
  /\ c.default # NoRegion => c.default \in DOMAIN c.regions
  /\ \A r \in DOMAIN c.regions : \A t \in DOMAIN c.regions[r] : EntryAccepted(c.regions[r][t])
  /\ \A e \in c.fallback : EntryAccepted(e)

-----------------------------------------------------------------------------
(* The rates of a node: none is ErrNoPrice                                 *)

EntryIn(c, region, type) ==
  IF region \in DOMAIN c.regions /\ type \in DOMAIN c.regions[region]
  THEN { c.regions[region][type] } ELSE {}

\* lookup: the node's own region, then the default one.
Lookup(c, region, type) ==
  IF type = NoType THEN {}
  ELSE IF EntryIn(c, region, type) # {} THEN EntryIn(c, region, type)
  ELSE EntryIn(c, c.default, type)

\* decimal.DivRound, of amounts that are not negative.
DivRound(a, b) == (2 * a + b) \div (2 * b)

\* A mutant of DeriveRates: the node's price is not split.
DeriveWithoutSplit(c, e, hourly, source) ==
  [ hourly |-> hourly, source |-> source,
    cpuRate |-> DivRound(hourly, e.vcpu), memRate |-> DivRound(hourly, e.gib) ]

\* deriveRates.
DeriveRates(c, e, hourly, source) ==
  [ hourly |-> hourly, source |-> source,
    cpuRate |-> DivRound(hourly * c.cpuShare, 100 * e.vcpu),
    memRate |-> DivRound(hourly * c.memShare, 100 * e.gib) ]

\* A spot price takes the place of the hourly one, but not of explicit rates.
RatesOf(c, e, n) ==
  LET hourly == IF n.spot /\ Value(e.spot) # 0 THEN Value(e.spot) ELSE Value(e.hourly) IN
  IF Explicit(e)
  THEN [ hourly |-> hourly, source |-> "explicit",
         cpuRate |-> Value(e.cpuRate), memRate |-> Value(e.memRate) ]
  ELSE DeriveRates(c, e, hourly, "catalogue")

\* fallbackRates: the price of the fallback is always derived from its hourly.
FallbackRates(c) == { DeriveRates(c, e, Value(e.hourly), "fallback") : e \in c.fallback }

RatesFor(c, n) ==
  LET found == Lookup(c, IF n.region = NoRegion THEN c.default ELSE n.region, n.type) IN
  IF found = {} THEN FallbackRates(c) ELSE { RatesOf(c, e, n) : e \in found }

\* Cost: of reserving millicores and MiB for one of k windows of an hour.
CostOf(rates, millicores, mib, k) ==
  DivRound(millicores * rates.cpuRate, 1000 * k) + DivRound(mib * rates.memRate, 1024 * k)

-----------------------------------------------------------------------------
(* Properties                                                              *)

\* What the list says the node costs in an hour: nothing, or one amount.  The
\* more specific statement wins: the node's region over the default region over
\* the fallback; rates of its own over a spot price over the hourly price.
Stated(c, n) ==
  LET own == EntryIn(c, n.region, n.type)
      def == EntryIn(c, c.default, n.type)
      fits == IF n.type = NoType THEN {} ELSE IF own # {} THEN own ELSE def
      e   == CHOOSE x \in (IF fits # {} THEN fits ELSE c.fallback) : TRUE
  IN IF fits \cup c.fallback = {} THEN {}
     ELSE IF fits # {} /\ Explicit(e)
       THEN { [ e |-> e, price |-> e.vcpu * Value(e.cpuRate) + e.gib * Value(e.memRate) ] }
     ELSE { [ e |-> e, price |-> IF fits # {} /\ n.spot /\ Value(e.spot) > 0
                                 THEN Value(e.spot) ELSE Value(e.hourly) ] }

Abs(x) == IF x < 0 THEN -x ELSE x

\* The rates of every list that is accepted are such that two pods that share a
\* whole node out between them, in whatever proportion, cost what the list says
\* of the node when the windows of an hour are summed: nothing is lost or counted
\* twice in looking the entry up, splitting its price and multiplying it back,
\* but for the last digit of each rate and of each cost.  A node is left without
\* a rate only when the list says nothing of it.
WholeNodeCosts(c, n, k, cpu, mem) ==
  Accepted(c) =>
    /\ RatesFor(c, n) = {} <=> Stated(c, n) = {}
    /\ \A r \in RatesFor(c, n), s \in Stated(c, n) :
         LET first  == CostOf(r, cpu * s.e.vcpu, mem * s.e.gib, k)
             second == CostOf(r, (1000 - cpu) * s.e.vcpu, (1024 - mem) * s.e.gib, k)
         IN 2 * Abs(k * (first + second) - s.price) <= s.e.vcpu + s.e.gib + 4 * k
=============================================================================
