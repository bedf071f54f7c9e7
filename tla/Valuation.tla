----------------------------- MODULE Valuation ------------------------------
(***************************************************************************)
(* internal/valuation: bear, base and bull values and the confidence in    *)
(* them, from the comparables and the median price per ping of the         *)
(* statistics.  A comparable is [id, score, areaSim, distance, zoneMatch]; *)
(* its score is in 1/10000, areaSim in per cent, distance in metres.       *)
(***************************************************************************)
EXTENDS Statistics

CONSTANT MinimumRequired  \* of the configuration; 0 stands for 3

ASSUME MinimumAssumption == MinimumRequired \in Nat

Required == IF MinimumRequired = 0 THEN 3 ELSE MinimumRequired

\* extractPrices: comparables carry no price, so each stands for the median
\* moved by up to 5 per cent with its score; in 1/100000.
ExtractPrices(comparables, median) ==
    IF median <= 0 THEN <<>>
    ELSE [i \in DOMAIN comparables |-> median * (95000 + comparables[i].score)]

\* Sums are compared with count times the bound, as the averages are.
Sum(comparables, field) == Total([i \in DOMAIN comparables |-> comparables[i][field]])

Zoning(comparables) ==
    Total([i \in DOMAIN comparables |-> IF comparables[i].zoneMatch THEN 100 ELSE 0])

\* Mutation: MEDIUM is for zonings that do not reach the bound of HIGH.
ConfidenceDisjoint(comparables) ==
    LET n == Len(comparables)
        atLeast(sum, bound) == sum >= n * bound
        area == Sum(comparables, "areaSim")
    IN  IF n < Required THEN "INSUFFICIENT"
        ELSE IF /\ n >= 5
                /\ atLeast(Zoning(comparables), 80) /\ atLeast(area, 80)
                /\ atLeast(Sum(comparables, "score"), 7000)
        THEN "HIGH"
        ELSE IF atLeast(Zoning(comparables), 50) /\ ~atLeast(Zoning(comparables), 80)
                /\ atLeast(area, 60)
        THEN "MEDIUM"
        ELSE "LOW"

Confidence(comparables) ==
    LET n == Len(comparables)
        atLeast(sum, bound) == sum >= n * bound
        area == Sum(comparables, "areaSim")
    IN  IF n < Required THEN "INSUFFICIENT"
        ELSE IF /\ n >= 5
                /\ atLeast(Zoning(comparables), 80) /\ atLeast(area, 80)
                /\ Sum(comparables, "distance") < n * 500
                /\ atLeast(Sum(comparables, "score"), 7000)
        THEN "HIGH"
        ELSE IF n >= 3 /\ atLeast(Zoning(comparables), 50) /\ atLeast(area, 60)
        THEN "MEDIUM"
        ELSE "LOW"

IdsOf(comparables) == [i \in DOMAIN comparables |-> comparables[i].id]

\* generateValuationHash: the parameters and the ids, in their order.
QueryHash(params, comparables) == <<params, IdsOf(comparables)>>

InsufficientData(params, comparables) ==
    [bear |-> 0, base |-> 0, bull |-> 0, confidence |-> "INSUFFICIENT",
     status |-> "INSUFFICIENT_DATA", ids |-> IdsOf(comparables),
     hash |-> QueryHash(params, comparables)]

\* Mutation: the prices keep the order of the comparables.
ValuateUnsorted(params, comparables, median) ==
    LET prices == ExtractPrices(comparables, median)
        at(p) == Percentile(prices, p) \div 10000000
    IN  IF Len(comparables) < Required \/ prices = <<>>
        THEN InsufficientData(params, comparables)
        ELSE [bear |-> at(25), base |-> at(50), bull |-> at(75),
              confidence |-> Confidence(comparables), status |-> "COMPLETED",
              ids |-> IdsOf(comparables), hash |-> QueryHash(params, comparables)]

\* Valuate: quartiles of the extracted prices, cast to int64.
Valuate(params, comparables, median) ==
    LET prices == Sorted(ExtractPrices(comparables, median))
        at(p) == Percentile(prices, p) \div 10000000
    IN  IF Len(comparables) < Required \/ prices = <<>>
        THEN InsufficientData(params, comparables)
        ELSE [bear |-> at(25), base |-> at(50), bull |-> at(75),
              confidence |-> Confidence(comparables), status |-> "COMPLETED",
              ids |-> IdsOf(comparables), hash |-> QueryHash(params, comparables)]
=============================================================================
