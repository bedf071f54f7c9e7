---------------------------- MODULE Comparables -----------------------------
(***************************************************************************)
(* internal/comparable: which transactions FindComparables returns for a   *)
(* target, and in which order.  A transaction is [id, section, area, zone, *)
(* use, age]; section stands for the county, district and section; zone is *)
(* the urban zoning, use the land use category, age the months since the   *)
(* transaction.  Scores are in 1/10000.  An area exactly AreaPct away is   *)
(* in or out as floating point rounds: instances have none.                *)
(*                                                                         *)
(* sort.Slice is not stable: candidates of equal score come in any order,  *)
(* so a result is one of a set.  The distance is a constant in the code    *)
(* and so is the road access, which always matches.                        *)
(***************************************************************************)
EXTENDS Arrays, SequencesExt

CONSTANTS
    AreaPct,     \* AreaSimilarityPct
    Minimum,     \* MinimumRequiredComparables
    IQRK,        \* in halves
    Weight,      \* [area, zone, use, road, distance], the area's in per cent
    TimeScore,   \* [0..MaxAge -> Nat]: falls with the age
    SearchLimit  \* at most so many candidates are fetched: 100

ASSUME TimeScoreFalls ==
    /\ DOMAIN TimeScore \subseteq Nat /\ \A a \in DOMAIN TimeScore : TimeScore[a] \in Nat
    /\ \A a, b \in DOMAIN TimeScore : a < b => TimeScore[a] >= TimeScore[b]

ASSUME ConfigAssumption ==
    /\ Weight \in [area : Nat \ {0}, zone : Nat, use : Nat, road : Nat, distance : Nat]
    /\ {AreaPct, Minimum, IQRK, SearchLimit} \subseteq Nat

\* txRepo.Search: the section's transactions, the latest first, then by id.
Search(target, stored) ==
    LET same == {t \in stored : t.section = target.section}
        rank(t) == Cardinality({u \in same : \/ u.age < t.age
                                             \/ u.age = t.age /\ u.id < t.id})
    IN  {t \in same : rank(t) < SearchLimit}

Known(target, c) == target.area > 0 /\ c.area > 0

Distance(a, b) == IF a > b THEN a - b ELSE b - a

\* Not itself, and within AreaPct of its area when both areas are known.
FilterCandidates(target, found) ==
    {c \in found : /\ c.id # target.id
                   /\ c.section = target.section
                   /\ Known(target, c)
                      => 100 * Distance(c.area, target.area) <= AreaPct * target.area}

\* In per cent; 0 when an area is not known.
AreaSimilarity(target, c) ==
    IF Known(target, c) THEN 100 - (100 * Distance(c.area, target.area)) \div target.area
    ELSE 0

\* Mutation: the zoning is compared the wrong way round.
TotalScoreOtherZone(target, c) ==
    AreaSimilarity(target, c) * Weight.area + TimeScore[c.age] + Weight.road
    + (IF Known(target, c) THEN Weight.distance ELSE 0)
    + (IF target.zone # c.zone THEN Weight.zone ELSE 0)
    + (IF target.use = c.use THEN Weight.use ELSE 0)

TotalScore(target, c) ==
    AreaSimilarity(target, c) * Weight.area + TimeScore[c.age] + Weight.road
    + (IF Known(target, c) THEN Weight.distance ELSE 0)
    + (IF target.zone = c.zone THEN Weight.zone ELSE 0)
    + (IF target.use = c.use THEN Weight.use ELSE 0)

Score(target, c) ==
    [id |-> c.id, score |-> TotalScore(target, c), areaSim |-> AreaSimilarity(target, c),
     distance |-> IF Known(target, c) THEN 100 ELSE 0, zoneMatch |-> target.zone = c.zone]

\* The orders a sort by descending score may leave.
ScoreCandidates(target, filtered) ==
    {s \in SetToSeqs({Score(target, c) : c \in filtered}) :
        \A i \in 1..(Len(s) - 1) : s[i].score >= s[i + 1].score}

\* percentile of this package: the value at the rank rounded down, no
\* interpolation.  s is in descending order.
PercentileDown(s, p) == s[Len(s) - ((Len(s) - 1) * p) \div 100].score

\* Mutation: the values on the bounds are dropped, and few may be left.
RemoveOutliersStrict(s) ==
    LET q1 == PercentileDown(s, 25)
        q3 == PercentileDown(s, 75)
    IN  IF Len(s) <= Minimum THEN s
        ELSE Keep(s, {i \in DOMAIN s : /\ 2 * s[i].score > 2 * q1 - IQRK * (q3 - q1)
                                       /\ 2 * s[i].score < 2 * q3 + IQRK * (q3 - q1)})

\* Bounds included; as they were when less than three would be left.
RemoveOutliers(s) ==
    LET q1 == PercentileDown(s, 25)
        q3 == PercentileDown(s, 75)
        kept == Keep(s, {i \in DOMAIN s : /\ 2 * s[i].score >= 2 * q1 - IQRK * (q3 - q1)
                                         /\ 2 * s[i].score <= 2 * q3 + IQRK * (q3 - q1)})
    IN  IF Len(s) <= Minimum \/ Len(kept) < 3 THEN s ELSE kept

\* The results there may be; none is the error "insufficient comparables".
FindComparables(target, stored) ==
    LET filtered == FilterCandidates(target, Search(target, stored))
    IN  IF Cardinality(filtered) < Minimum THEN {}
        ELSE {RemoveOutliers(s) : s \in ScoreCandidates(target, filtered)}
=============================================================================
