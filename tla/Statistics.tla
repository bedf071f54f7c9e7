----------------------------- MODULE Statistics -----------------------------
(***************************************************************************)
(* internal/statistics: percentiles and outliers of a sample, and the      *)
(* statistics of internal/service beside them.  A sample is a sequence of  *)
(* integers; results are exact, in hundredths, so that a cast to int64 is  *)
(* a division.                                                             *)
(***************************************************************************)
EXTENDS Arrays, FiniteSetsExt

\* Linear interpolation between the two values next to the rank; the rank is
\* p * (n - 1) hundredths.
Percentile(sorted, p) ==
    LET rank   == p * (Len(sorted) - 1)
        lower  == rank \div 100 + 1
        weight == rank % 100
    IN  IF sorted = <<>> THEN 0
        ELSE IF weight = 0 THEN 100 * sorted[lower]
        ELSE sorted[lower] * (100 - weight) + sorted[lower + 1] * weight

\* calculatePriceStatistics casts every figure but the mean to int64, which
\* cuts off the fractions; calculateAreaStatistics keeps them.
Summary(values, fraction) ==
    LET s == Sorted(values)
        at(p) == Percentile(s, p) \div fraction
    IN  [count |-> Len(s), min |-> at(0), p10 |-> at(10), p25 |-> at(25),
         median |-> at(50), p75 |-> at(75), p90 |-> at(90), max |-> at(100),
         mean |-> IF s = <<>> THEN 0 ELSE (100 * Total(s)) \div Len(s)]

\* Mutation: rounded, not cut off.
PriceStatisticsRounded(values) ==
    LET s == Summary(values, 1)
    IN  [k \in DOMAIN s |-> IF k \in {"count", "mean"} THEN s[k] ELSE (s[k] + 50) \div 100]

PriceStatistics(values) == Summary(values, 100)
AreaStatistics(values) == Summary(values, 1)

----------------------------------------------------------------------------
Abs(n) == IF n < 0 THEN -n ELSE n

\* Bounds are in units of 1/10000, values in units.
Outside(values, lower, upper) ==
    {i \in DOMAIN values : 10000 * values[i] < lower \/ 10000 * values[i] > upper}

\* detectOutliersIQR: the configured IQRK is not read, 1.5 is.
OutliersIQR(values) ==
    LET q1 == Percentile(Sorted(values), 25)
        q3 == Percentile(Sorted(values), 75)
    IN  Outside(values, 100 * q1 - 150 * (q3 - q1), 100 * q3 + 150 * (q3 - q1))

OutliersP10P90(values) ==
    Outside(values, 100 * Percentile(Sorted(values), 10),
                    100 * Percentile(Sorted(values), 90))

\* Mutation: the deviations are not sorted.
OutliersMADUnsorted(values) ==
    LET median == Percentile(Sorted(values), 50)
        mad == Percentile([i \in DOMAIN values |-> Abs(100 * values[i] - median)], 50)
    IN  Outside(values, 100 * median - 3 * mad, 100 * median + 3 * mad)

OutliersMAD(values) ==
    LET median == Percentile(Sorted(values), 50)
        mad == Percentile(Sorted([i \in DOMAIN values |-> Abs(100 * values[i] - median)]), 50)
    IN  Outside(values, 100 * median - 3 * mad, 100 * median + 3 * mad)

\* Less than four values have no outliers; an unknown method is IQR.
DetectOutliers(values, method) ==
    IF Len(values) < 4 THEN {}
    ELSE CASE method = "P10_P90" -> OutliersP10P90(values)
           [] method = "MAD" -> OutliersMAD(values)
           [] OTHER -> OutliersIQR(values)

\* CalculateStatistics: an error, modelled by {}, for no transactions.  A
\* transaction is [section, unit, total, land, building]; a price per ping is
\* 3.306 times the unit price (3.305785 in the code), here in thousandths.
PricesPerPing(txns) == [i \in DOMAIN txns |-> txns[i].unit * 3306]

CalculateStatistics(txns, method) ==
    {[pricePerPing |-> Summary(PricesPerPing(txns), 100000),
      total        |-> PriceStatistics([i \in DOMAIN txns |-> txns[i].total]),
      unit         |-> PriceStatistics([i \in DOMAIN txns |-> txns[i].unit]),
      land         |-> AreaStatistics([i \in DOMAIN txns |-> txns[i].land]),
      building     |-> AreaStatistics([i \in DOMAIN txns |-> txns[i].building]),
      outliers     |-> DetectOutliers(PricesPerPing(txns), method)] :
     t \in {txns} \ {<<>>}}

----------------------------------------------------------------------------
(* internal/service: GetTransactionStatistics asks the database instead *)

\* percentile_cont(p) of PostgreSQL, in hundredths; 0 stands for its NULL.
PercentileCont(values, p) ==
    LET n == Len(values)
        at(v) == Cardinality({i \in DOMAIN values : values[i] < v})
        \* the value of rank r, counted from 0
        ranked(r) == CHOOSE v \in Range(values) :
                        at(v) <= r /\ r < at(v) + Cardinality({i \in DOMAIN values : values[i] = v})
        r == p * (n - 1)
        low == ranked(r \div 100)
    IN  IF n = 0 THEN 0
        ELSE 100 * low + (r % 100) * (ranked((r + 99) \div 100) - low)

\* The rows WHERE section = $3: a section that is not given is NULL, which no
\* row equals.
OfSection(txns, section) ==
    Keep(txns, {i \in DOMAIN txns : section # "" /\ txns[i].section = section})

\* The same figures stand for the price per ping, the total price and the
\* unit price; p10 and p90 are derived from the extremes.
ServiceStatistics(txns, section) ==
    LET found  == OfSection(txns, section)
        totals == [i \in DOMAIN found |-> found[i].total]
        price(p) == PercentileCont(totals, p) \div 100
        least  == IF totals = <<>> THEN 0 ELSE Min(Range(totals))
        most   == IF totals = <<>> THEN 0 ELSE Max(Range(totals))
    IN  [count |-> Len(totals), min |-> least, p10 |-> (least * 11) \div 10,
         p25 |-> price(25), median |-> price(50), p75 |-> price(75),
         p90 |-> (most * 9) \div 10, max |-> most]
=============================================================================
