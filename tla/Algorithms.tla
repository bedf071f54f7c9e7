----------------------------- MODULE Algorithms -----------------------------
(***************************************************************************)
(* The computations of the import and of the engines: each behavior takes  *)
(* one input, computes, and stops.  The inputs are constants, so that what *)
(* is proved of the results holds for all inputs of these types.           *)
(***************************************************************************)
EXTENDS Rows, Comparables, Valuation, Statistics

CONSTANTS
    Runes,         \* what texts consist of
    DateCells,     \* cells with a date
    CsvRows,       \* rows of a file, as ParseCSV gives them
    FileCounties,  \* the counties of file names, Blank when there is none
    Headers,       \* the header line of a file
    Files,         \* the records that follow it
    Samples,       \* the transactions of a section
    Target,        \* the parcel to find comparables for
    Markets,       \* the transactions that are stored
    Gradings,      \* sequences of comparables
    Comparable,    \* what may take the place of one of them
    Medians,       \* median prices per ping
    Params         \* the parameters of a valuation

Texts == Seq(Runes)
DateCell == [form : STRING, y : Nat, m : Nat, d : Nat]
NumberCell == [kind : {"blank", "text", "number", "ping"}, v : Int]
AreaCells == [sqm : Seq(NumberCell), ping : Seq(NumberCell)]

CsvRow == [county : Texts, district : Texts, section : Texts, land_number : Texts,
           address : [section : Texts, land_number : Texts], id : Texts, date : DateCell,
           total : NumberCell, unit : NumberCell, parkingPrice : NumberCell,
           land : [LandColumns -> NumberCell], building : AreaCells, parking : AreaCells,
           otherAreas : SUBSET NumberCell, unitPing : BOOLEAN, age : NumberCell]

Txn == [section : STRING, unit : Nat, total : Nat, land : Nat, building : Nat]

Parcel == [id : Nat, section : STRING, area : Nat, zone : STRING, use : STRING,
           age : DOMAIN TimeScore]

Graded == {g \in [id : Nat, score : Nat, areaSim : Nat, distance : Nat, zoneMatch : BOOLEAN] :
              g.score <= 10000}

\* The first column is the only one that gives a district or a county.
ASSUME FileAssumption ==
    /\ Headers \in Seq(STRING)
    /\ {i \in DOMAIN Headers : NormalizeHeader(Headers[i]) \in {"district", "county"}} = {1}
    /\ Files \subseteq Seq({r \in Seq(Texts) : r # <<>>})

ASSUME RuneAssumption == {"a", "z", "duan", "english"} \subseteq Runes

ASSUME RowAssumption ==
    DateCells \subseteq DateCell /\ CsvRows \subseteq CsvRow /\ FileCounties \subseteq Texts

\* Transactions are stored under ids of their own.
ASSUME MarketAssumption ==
    /\ Target \in Parcel /\ Target.area > 0
    /\ \A stored \in Markets : /\ stored \subseteq Parcel /\ IsFiniteSet(stored)
                               /\ \A c, d \in stored : c.id = d.id => c = d

ASSUME SampleAssumption ==
    /\ Samples \subseteq Seq(Txn) /\ Gradings \subseteq Seq(Graded) /\ Comparable \subseteq Graded
    /\ Medians \subseteq Nat

Inputs == [kind : {"date"}, cell : DateCells]
    \cup [kind : {"row"}, row : CsvRows, county : FileCounties]
    \cup [kind : {"file"}, records : Files]
    \cup [kind : {"sample"}, txns : Samples, method : {"IQR", "P10_P90", "MAD"}]
    \cup [kind : {"target"}, stored : Markets]
    \cup [kind : {"valuation"}, comparables : Gradings, median : Medians]

VARIABLES
    input,   \* what is computed from, tagged with the computation
    output   \* what it gave; of kind "none" before

vars == <<input, output>>

----------------------------------------------------------------------------
None == [kind |-> "none"]

Init == input \in Inputs /\ output = None

Asked(kind) == output = None /\ input.kind = kind /\ UNCHANGED input

ReadDate == Asked("date") /\ output' = [kind |-> "date", days |-> ParseROCDate(input.cell)]

ReadRow ==
    /\ Asked("row")
    /\ LET row == EnrichRow(input.row, input.county)
       IN  output' = [kind |-> "row", transactions |-> Transactions(row), parcels |-> Parcels(row)]

ReadFile == Asked("file") /\ output' = [kind |-> "file", rows |-> ParseCSV(Headers, input.records)]

Summarise ==
    /\ Asked("sample")
    /\ \E r \in CalculateStatistics(input.txns, input.method) :
          output' = [kind |-> "sample", engine |-> r,
                     service |-> ServiceStatistics(input.txns, "here")]

\* The engines in their order: comparables, statistics of them, valuation.
Appraise ==
    /\ Asked("target")
    /\ \E found \in FindComparables(Target, input.stored), median \in Medians :
          output' = [kind |-> "target", found |-> found, median |-> median,
                     valuation |-> Valuate(Params, found, median)]

Value == /\ Asked("valuation")
         /\ output' = [kind |-> "valuation",
                       valuation |-> Valuate(Params, input.comparables, input.median)]

Next == ReadDate \/ ReadRow \/ ReadFile \/ Summarise \/ Appraise \/ Value

Spec == Init /\ [][Next]_vars

----------------------------------------------------------------------------
(* Properties *)

\* A date cell is read as one day of the calendar or not at all: of the year
\* it gives, in either era, with its month and day.
DateIsTheOneWritten ==
    output.kind = "date" =>
        \A t \in output.days :
            /\ t[2] = input.cell.m /\ t[3] = input.cell.d /\ t[3] <= DaysIn(t[1], t[2])
            /\ t[1] \in {input.cell.y, input.cell.y + 1911}

\* What the validator lets through the tables take, so one row does not fail
\* the COPY of all: but for a price per sqm below 1 (never validated), an
\* area that four decimals round to zero or that has too many digits, and an
\* age that does not fit 32 bits.
AcceptedIsStorable ==
    output.kind = "row" =>
        /\ \A t \in output.transactions :
              \/ TransactionRowAccepted(t)
              \/ t.unit = 0 \/ t.age >= IntLimit
              \/ \E v \in {t.land, t.building} : v \in 1..4 \/ v >= AreaLimit - 5
              \/ t.parking >= AreaLimit \div 100 - 5
        /\ \A p \in output.parcels : \/ ParcelRowAccepted(p)
                                     \/ p.area \in 1..4 \/ p.area >= AreaLimit - 5

\* The columns that are read for the transaction's land or for the parcel's,
\* but not for both, are blank, as in every file with the ministry's headers.
SharedArea(row) ==
    \A k \in LandColumns \ {"land_area_sqm", "land_area_ping"} : row.land[k].kind = "blank"

\* search_parcels and search_transactions meet on the land: a transaction is
\* stored under the names its parcel is stored under, whenever the file gives
\* the district, and the land's area in columns both are read from.
TransactionHasItsParcel ==
    output.kind = "row" =>
        \A t \in output.transactions :
            input.row.district # Blank /\ SharedArea(input.row) =>
                \E p \in output.parcels :
                    \A k \in {"county", "district", "section", "land_number"} : p[k] = t[k]

\* Only a blank record and the English header are skipped: any other record
\* of the file gives a row, in its place.
RecordsAreKept ==
    output.kind = "file" =>
        LET filled == {i \in DOMAIN input.records :
                          /\ input.records[i][1] # English
                          /\ \E j \in DOMAIN input.records[i] : input.records[i][j] # Blank}
            kept == Keep(input.records, filled)
        IN  output.rows = [i \in DOMAIN kept |-> ParseRecord(Headers, kept[i])]

\* The figures of a sample are ordered, and no method calls more than half of
\* a sample outliers.
StatisticsAreOrdered ==
    output.kind = "sample" =>
        /\ \A k \in {"pricePerPing", "total", "unit", "land", "building"} :
              LET s == output.engine[k]
              IN  /\ s.min <= s.p10 /\ s.p10 <= s.p25 /\ s.p25 <= s.median
                  /\ s.median <= s.p75 /\ s.p75 <= s.p90 /\ s.p90 <= s.max
        /\ 2 * Cardinality(output.engine.outliers) <= Len(input.txns)

\* get_transaction_statistics, which asks the database, and the engine agree
\* on the totals of a section, but for p10 and p90, which the service derives
\* from the extremes.
StatisticsAgree ==
    output.kind = "sample" =>
        LET here == OfSection(input.txns, "here")
            own  == PriceStatistics([i \in DOMAIN here |-> here[i].total])
        IN  here # <<>> => \A k \in {"count", "min", "p25", "median", "p75", "max"} :
                               output.service[k] = own[k]

\* A candidate that is nowhere worse than another one, and more similar in
\* area, is ranked above it when both are returned.
BetterRanksHigher ==
    output.kind = "target" =>
        \A i, j \in DOMAIN output.found :
            LET c == CHOOSE t \in input.stored : t.id = output.found[i].id
                d == CHOOSE t \in input.stored : t.id = output.found[j].id
            IN  /\ c.area > 0 /\ c.age <= d.age
                /\ AreaSimilarity(Target, c) > AreaSimilarity(Target, d)
                /\ d.zone = Target.zone => c.zone = Target.zone
                /\ d.use = Target.use => c.use = Target.use
                => i < j

\* Dropping outliers leaves three of any market with enough comparables, or as
\* many as FindComparables asks for; so Valuate, which asks for its own number,
\* completes with what it is given when that is three, and else just when as
\* many happen to be left.
ComparablesSuffice ==
    output.kind = "target" =>
        /\ Len(output.found) >= 3 \/ Len(output.found) >= Minimum
        /\ output.median > 0 =>
              (output.valuation.status = "COMPLETED" <=> Len(output.found) >= Required)

\* Bear, base and bull are in this order, and within 5 per cent (and the
\* cast's unit) of the median they are derived from.
ValuesAreOrdered ==
    \A v \in IF output.kind = "valuation" THEN {output.valuation} ELSE {} :
        v.status = "COMPLETED" =>
            /\ v.bear <= v.base /\ v.base <= v.bull
            /\ 95 * input.median <= 100 * (v.bear + 1) /\ 100 * v.bull <= 105 * input.median

Level == [INSUFFICIENT |-> 0, LOW |-> 1, MEDIUM |-> 2, HIGH |-> 3]

\* A comparable in place of one that is nowhere better never lowers the
\* confidence.
ConfidenceNeverFalls ==
    output.kind = "valuation" =>
        \A i \in DOMAIN input.comparables, q \in Comparable :
            LET c == input.comparables[i]
            IN  /\ q.score >= c.score /\ q.areaSim >= c.areaSim /\ q.distance <= c.distance
                /\ c.zoneMatch => q.zoneMatch
                => Level[Confidence(input.comparables)]
                       <= Level[Confidence([input.comparables EXCEPT ![i] = q])]
=============================================================================
