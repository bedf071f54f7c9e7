-------------------------- MODULE AlgorithmsProofs --------------------------
(***************************************************************************)
(* Theorems about Algorithms: what the import and the engines compute from *)
(* any inputs of the types the module states.                              *)
(***************************************************************************)
EXTENDS Algorithms, ArraysProofs

----------------------------------------------------------------------------
(* Every output is computed from the input *)

RowOutput(row) == [kind |-> "row", transactions |-> Transactions(row), parcels |-> Parcels(row)]

SampleOutput(figures, txns) ==
    [kind |-> "sample", engine |-> figures, service |-> ServiceStatistics(txns, "here")]

TargetOutput(found, median) ==
    [kind |-> "target", found |-> found, median |-> median,
     valuation |-> Valuate(Params, found, median)]

\* The inductive invariant.
OutputIsComputed ==
    /\ input \in Inputs
    /\ \/ output = None
       \/ /\ input.kind = "date"
          /\ output = [kind |-> "date", days |-> ParseROCDate(input.cell)]
       \/ /\ input.kind = "row"
          /\ output = RowOutput(EnrichRow(input.row, input.county))
       \/ /\ input.kind = "file"
          /\ output = [kind |-> "file", rows |-> ParseCSV(Headers, input.records)]
       \/ /\ input.kind = "sample"
          /\ \E r \in CalculateStatistics(input.txns, input.method) :
                output = SampleOutput(r, input.txns)
       \/ /\ input.kind = "target"
          /\ \E found \in FindComparables(Target, input.stored), median \in Medians :
                output = TargetOutput(found, median)
       \/ /\ input.kind = "valuation"
          /\ output = [kind |-> "valuation",
                       valuation |-> Valuate(Params, input.comparables, input.median)]

\* The output is what the code computes from the input, or nothing yet.
THEOREM OutputInvariant == Spec => []OutputIsComputed
  <1>1. Init => OutputIsComputed
    BY DEF Init, OutputIsComputed
  <1>2. OutputIsComputed /\ [Next]_vars => OutputIsComputed'
    <2> SUFFICES ASSUME OutputIsComputed, [Next]_vars PROVE OutputIsComputed'
      OBVIOUS
    <2> USE DEF Asked
    <2>1. CASE ReadDate
      BY <2>1 DEF ReadDate, OutputIsComputed
    <2>2. CASE ReadRow
      BY <2>2 DEF ReadRow, OutputIsComputed, RowOutput
    <2>3. CASE ReadFile
      BY <2>3 DEF ReadFile, OutputIsComputed
    <2>4. CASE Summarise
      BY <2>4 DEF Summarise, OutputIsComputed, SampleOutput
    <2>5. CASE Appraise
      BY <2>5 DEF Appraise, OutputIsComputed, TargetOutput
    <2>6. CASE Value
      BY <2>6 DEF Value, OutputIsComputed
    <2>7. CASE UNCHANGED vars
      BY <2>7 DEF vars, OutputIsComputed
    <2> QED
      BY <2>1, <2>2, <2>3, <2>4, <2>5, <2>6, <2>7 DEF Next
  <1> QED
    BY <1>1, <1>2, PTL DEF Spec

----------------------------------------------------------------------------
(* Dates *)

\* Any cell is read as a day that exists, with its month and day, of the year
\* it gives in one of the eras.
THEOREM DatesAreWritten ==
    ASSUME NEW c \in DateCell, NEW t \in ParseROCDate(c)
    PROVE  /\ t[2] = c.m /\ t[3] = c.d /\ t[3] <= DaysIn(t[1], t[2])
           /\ t[1] \in {c.y, c.y + 1911}
  <1>1. PICK y \in {c.y, c.y + 1911} : t \in ValidateDate(y, c.m, c.d)
    BY DEF ParseROCDate, RocToAD
  <1>2. y \in Nat
    BY DEF DateCell
  <1>3. /\ c.m \in 1..12 /\ c.d \in 1..31 /\ t = TimeDate(y, c.m, c.d)
        /\ t[2] = c.m /\ t[3] = c.d
    BY <1>1 DEF ValidateDate
  <1>4. DaysIn(y, c.m) \in 28..31
    BY DEF DaysIn
  <1>5. CASE c.d <= DaysIn(y, c.m)
    BY <1>1, <1>3, <1>5 DEF TimeDate
  <1>6. CASE ~(c.d <= DaysIn(y, c.m))
    BY <1>3, <1>6 DEF TimeDate
  <1> QED
    BY <1>5, <1>6

\* The run's property, from the lemma.
THEOREM DatesCorrect == Spec => []DateIsTheOneWritten
  <1>1. OutputIsComputed => DateIsTheOneWritten
    <2> SUFFICES ASSUME OutputIsComputed, output.kind = "date",
                        NEW t \in output.days
                 PROVE  /\ t[2] = input.cell.m /\ t[3] = input.cell.d
                        /\ t[3] <= DaysIn(t[1], t[2])
                        /\ t[1] \in {input.cell.y, input.cell.y + 1911}
      BY DEF DateIsTheOneWritten
    <2>1. input.cell \in DateCell /\ t \in ParseROCDate(input.cell)
      BY RowAssumption DEF OutputIsComputed, None, RowOutput, SampleOutput, TargetOutput, Inputs
    <2> QED
      BY <2>1, DatesAreWritten
  <1> QED
    BY <1>1, OutputInvariant, PTL

----------------------------------------------------------------------------
(* Rows *)

\* The greatest of some numbers up to n.
LEMMA MaxProperties ==
    ASSUME NEW n \in Nat, NEW T \in SUBSET (0..n), T # {}
    PROVE  Max(T) \in T /\ \A k \in T : k <= Max(T)
  <1>1. PICK m \in T : \A k \in T : k <= m
    BY GreatestElement
  <1>2. \A k \in T : m >= k
    BY <1>1
  <1>3. Max(T) \in T /\ \A k \in T : Max(T) >= k
    BY <1>2 DEF Max
  <1> QED
    BY <1>3

\* The least of some natural numbers.
LEMMA MinProperties ==
    ASSUME NEW T \in SUBSET Nat, T # {}
    PROVE  Min(T) \in T /\ \A k \in T : Min(T) <= k
  <1>1. PICK m \in T : \A k \in T : m <= k
    BY LeastElement
  <1> QED
    BY <1>1 DEF Min

\* A text that is cut to n bytes has n characters at most.
LEMMA TruncateFits ==
    ASSUME NEW t \in Texts, NEW n \in Nat
    PROVE  Truncate(t, n) \in Texts /\ Len(Truncate(t, n)) <= n
  <1> DEFINE T == {i \in 0..Len(t) : Size(SubSeq(t, 1, i)) <= n}
             m == Max(T)
  <1>1. t \in Seq(Runes) /\ Len(t) \in Nat /\ \A i \in 1..Len(t) : t[i] \in Runes
    BY DEF Texts
  <1>2. ASSUME NEW i \in 0..Len(t)
        PROVE  /\ SubSeq(t, 1, i) \in Seq(Runes) /\ Len(SubSeq(t, 1, i)) = i
               /\ Size(SubSeq(t, 1, i)) >= i /\ Size(SubSeq(t, 1, i)) \in Int
               /\ i = 0 => Size(SubSeq(t, 1, i)) = 0
    <2> DEFINE u == SubSeq(t, 1, i)
               b == [j \in DOMAIN u |-> Bytes(u[j])]
    <2>1. u \in Seq(Runes) /\ Len(u) = i
      BY <1>1, SubSeqProperties
    <2>2. DOMAIN u = 1..i
      BY <2>1
    <2> HIDE DEF u
    <2>3. b \in Seq(Int) /\ Len(b) = i /\ \A j \in 1..i : b[j] >= 1
      BY <2>2 DEF Bytes
    <2>4. i = 0 => b = <<>>
      BY <2>3
    <2> HIDE DEF b
    <2>5. Total(b) >= i /\ Total(b) \in Int /\ (i = 0 => Total(b) = 0)
      BY <2>3, <2>4, TotalOfPositive, TotalType
    <2> QED
      BY <2>1, <2>5 DEF Size, u, b
  <1>3. T \in SUBSET (0..Len(t)) /\ 0 \in T
    BY <1>1, <1>2
  <1>4. m \in T
    BY <1>1, <1>3, MaxProperties
  <1>5. Truncate(t, n) = SubSeq(t, 1, m)
    BY DEF Truncate
  <1> HIDE DEF m
  <1> QED
    BY <1>2, <1>4, <1>5 DEF Texts

\* The first cell that is not blank is one of the cells.
LEMMA AreaType ==
    ASSUME NEW row \in CsvRow, NEW area \in AreaCells
    PROVE  ResolveArea(row, area) \subseteq Int
  <1> DEFINE filled(cells) == {i \in DOMAIN cells : cells[i].kind # "blank"}
  <1>1. ASSUME NEW cells \in Seq(NumberCell), \E i \in DOMAIN cells : cells[i].kind # "blank"
        PROVE  cells[Min(filled(cells))] \in NumberCell
    <2>1. filled(cells) \in SUBSET Nat /\ filled(cells) # {}
      BY <1>1
    <2>2. Min(filled(cells)) \in filled(cells)
      BY <2>1, MinProperties
    <2> HIDE DEF NumberCell
    <2> QED
      BY <2>2
  <1>2. ASSUME NEW c \in NumberCell
        PROVE  ParseArea(c) \subseteq Int /\ \A v \in ParseArea(c) : ToSqm(v) \in Int
    BY DEF ParseArea, ToSqm, NumberCell
  <1>3. area.sqm \in Seq(NumberCell) /\ area.ping \in Seq(NumberCell)
    BY DEF AreaCells
  <1>4. CASE \E i \in DOMAIN area.sqm : area.sqm[i].kind # "blank"
    <2> DEFINE c == area.sqm[Min(filled(area.sqm))]
    <2>1. c \in NumberCell
      BY <1>1, <1>3, <1>4
    <2>2. ResolveArea(row, area) = IF c.kind = "ping" \/ row.unitPing
                                   THEN {ToSqm(v) : v \in ParseArea(c)} ELSE ParseArea(c)
      BY <1>4 DEF ResolveArea
    <2> HIDE DEF c
    <2> QED
      BY <1>2, <2>1, <2>2
  <1>5. CASE /\ ~ \E i \in DOMAIN area.sqm : area.sqm[i].kind # "blank"
             /\ \E i \in DOMAIN area.ping : area.ping[i].kind # "blank"
    <2> DEFINE c == area.ping[Min(filled(area.ping))]
    <2>1. c \in NumberCell
      BY <1>1, <1>3, <1>5
    <2>2. ResolveArea(row, area) = {ToSqm(v) : v \in ParseArea(c)}
      BY <1>5 DEF ResolveArea
    <2> HIDE DEF c
    <2> QED
      BY <1>2, <2>1, <2>2
  <1>6. CASE /\ ~ \E i \in DOMAIN area.sqm : area.sqm[i].kind # "blank"
             /\ ~ \E i \in DOMAIN area.ping : area.ping[i].kind # "blank"
    BY <1>6 DEF ResolveArea
  <1> QED
    BY <1>4, <1>5, <1>6

\* The columns of the land hold cells, whichever are read.
LEMMA LandType ==
    ASSUME NEW row \in CsvRow
    PROVE  /\ \A k \in LandColumns : row.land[k] \in NumberCell
           /\ LandCells(row) \in AreaCells /\ ParcelCells(row) \in AreaCells
  <1>1. row.land \in [LandColumns -> NumberCell]
    BY DEF CsvRow
  <1>2. \A k \in LandColumns : row.land[k] \in NumberCell
    BY <1>1
  <1> HIDE DEF NumberCell
  <1>3. LandCells(row) \in AreaCells
    BY <1>2 DEF LandCells, AreaCells, LandColumns
  <1>4. ParcelCells(row) \in AreaCells
    BY <1>2 DEF ParcelCells, AreaCells, LandColumns
  <1> QED
    BY <1>2, <1>3, <1>4

\* An area is read from the one column of each unit that is filled.
LEMMA ResolvesTheOnly ==
    ASSUME NEW row, NEW area \in AreaCells, NEW i \in DOMAIN area.sqm, NEW j \in DOMAIN area.ping,
           \A k \in DOMAIN area.sqm : k # i => area.sqm[k].kind = "blank",
           \A k \in DOMAIN area.ping : k # j => area.ping[k].kind = "blank"
    PROVE  ResolveArea(row, area) =
              IF area.sqm[i].kind # "blank"
              THEN IF area.sqm[i].kind = "ping" \/ row.unitPing
                   THEN {ToSqm(v) : v \in ParseArea(area.sqm[i])} ELSE ParseArea(area.sqm[i])
              ELSE IF area.ping[j].kind # "blank"
              THEN {ToSqm(v) : v \in ParseArea(area.ping[j])}
              ELSE {0}
  <1> DEFINE filled(cells) == {k \in DOMAIN cells : cells[k].kind # "blank"}
  <1>1. i \in Nat /\ j \in Nat
    BY DEF AreaCells
  <1>2. \A n \in Nat : Min({n}) = n
    BY MinProperties
  <1>3. CASE area.sqm[i].kind # "blank"
    <2>1. filled(area.sqm) = {i}
      BY <1>3
    <2>2. Min(filled(area.sqm)) = i
      BY <1>1, <1>2, <2>1
    <2> QED
      BY <1>3, <2>2 DEF ResolveArea
  <1>4. CASE area.sqm[i].kind = "blank" /\ area.ping[j].kind # "blank"
    <2>1. filled(area.ping) = {j}
      BY <1>4
    <2>2. Min(filled(area.ping)) = j
      BY <1>1, <1>2, <2>1
    <2>3. ~ \E k \in DOMAIN area.sqm : area.sqm[k].kind # "blank"
      BY <1>4
    <2> QED
      BY <1>4, <2>2, <2>3 DEF ResolveArea
  <1>5. CASE area.sqm[i].kind = "blank" /\ area.ping[j].kind = "blank"
    <2>1. /\ ~ \E k \in DOMAIN area.sqm : area.sqm[k].kind # "blank"
          /\ ~ \E k \in DOMAIN area.ping : area.ping[k].kind # "blank"
      BY <1>5
    <2> QED
      BY <1>5, <2>1 DEF ResolveArea
  <1> QED
    BY <1>3, <1>4, <1>5

\* The transaction's land and the parcel have one area when the file gives it
\* in columns both are read from.
LEMMA SharedAreaResolved ==
    ASSUME NEW row \in CsvRow, SharedArea(row)
    PROVE  ResolveArea(row, LandCells(row)) = ResolveArea(row, ParcelCells(row))
  <1> DEFINE l == LandCells(row)
             p == ParcelCells(row)
  <1>1. l \in AreaCells /\ p \in AreaCells
    BY LandType
  <1>2. /\ DOMAIN l.sqm = 1..2 /\ DOMAIN l.ping = 1..2
        /\ l.sqm[1] = row.land["land_area_sqm"] /\ l.sqm[2] = row.land["land_area"]
        /\ l.ping[1] = row.land["land_area_ping"] /\ l.ping[2] = row.land["land_area_ping_sqm"]
    BY DEF LandCells
  <1>3. /\ DOMAIN p.sqm = 1..3 /\ DOMAIN p.ping = 1..3
        /\ p.sqm[1] = row.land["area_sqm"] /\ p.sqm[2] = row.land["area"]
        /\ p.sqm[3] = row.land["land_area_sqm"]
        /\ p.ping[1] = row.land["area_ping"] /\ p.ping[2] = row.land["land_area_ping"]
        /\ p.ping[3] = row.land["area_ping_sqm"]
    BY DEF ParcelCells
  <1>4. /\ row.land["land_area"].kind = "blank" /\ row.land["land_area_ping_sqm"].kind = "blank"
        /\ row.land["area_sqm"].kind = "blank" /\ row.land["area"].kind = "blank"
        /\ row.land["area_ping"].kind = "blank" /\ row.land["area_ping_sqm"].kind = "blank"
    BY DEF SharedArea, LandColumns
  <1> HIDE DEF l, p
  <1>5. /\ \A k \in DOMAIN l.sqm : k # 1 => l.sqm[k].kind = "blank"
        /\ \A k \in DOMAIN l.ping : k # 1 => l.ping[k].kind = "blank"
    BY <1>2, <1>4
  <1>6. /\ \A k \in DOMAIN p.sqm : k # 3 => p.sqm[k].kind = "blank"
        /\ \A k \in DOMAIN p.ping : k # 2 => p.ping[k].kind = "blank"
    BY <1>3, <1>4
  <1> DEFINE x == row.land["land_area_sqm"]
             y == row.land["land_area_ping"]
             resolved == IF x.kind # "blank"
                         THEN IF x.kind = "ping" \/ row.unitPing
                              THEN {ToSqm(v) : v \in ParseArea(x)} ELSE ParseArea(x)
                         ELSE IF y.kind # "blank" THEN {ToSqm(v) : v \in ParseArea(y)} ELSE {0}
  <1>7. ResolveArea(row, l) = resolved
    BY <1>1, <1>2, <1>5, ResolvesTheOnly
  <1>8. ResolveArea(row, p) = resolved
    BY <1>1, <1>3, <1>6, ResolvesTheOnly
  <1> QED
    BY <1>7, <1>8 DEF l, p

\* enrichRows fills in texts and leaves the other columns.
LEMMA EnrichRowType ==
    ASSUME NEW row \in CsvRow, NEW county \in Texts
    PROVE  /\ EnrichRow(row, county) \in CsvRow
           /\ EnrichRow(row, county).district = row.district
           /\ EnrichRow(row, county).section = Or(row.section, row.address.section)
           /\ EnrichRow(row, county).address = row.address
           /\ EnrichRow(row, county).land = row.land
  <1>1. \A t, u \in Texts : Or(t, u) \in Texts
    BY DEF Or
  <1>2. /\ row.county \in Texts /\ row.section \in Texts /\ row.land_number \in Texts
        /\ row.address.section \in Texts /\ row.address.land_number \in Texts
    BY DEF CsvRow
  <1> DEFINE c == Or(row.county, county)
             s == Or(row.section, row.address.section)
             l == Or(row.land_number, row.address.land_number)
  <1>3. c \in Texts /\ s \in Texts /\ l \in Texts
    BY <1>1, <1>2
  <1>4. EnrichRow(row, county) = [row EXCEPT !.county = c, !.section = s, !.land_number = l]
    BY DEF EnrichRow, CsvRow
  <1> HIDE DEF c, s, l, Texts
  <1>5. [row EXCEPT !.county = c, !.section = s, !.land_number = l] \in CsvRow
    BY <1>3 DEF CsvRow
  <1>6. /\ [row EXCEPT !.county = c, !.section = s, !.land_number = l].district = row.district
        /\ [row EXCEPT !.county = c, !.section = s, !.land_number = l].section = s
        /\ [row EXCEPT !.county = c, !.section = s, !.land_number = l].address = row.address
        /\ [row EXCEPT !.county = c, !.section = s, !.land_number = l].land = row.land
    BY DEF CsvRow
  <1> QED
    BY <1>4, <1>5, <1>6 DEF s

\* What normalize makes of a row: cut texts, and figures of whole numbers.
LEMMA NormalizedTransaction ==
    ASSUME NEW row \in CsvRow, NEW t \in NormalizeTransaction(row)
    PROVE  LET section  == Or(row.section, row.address.section)
               district == DistrictOf(row, section)
           IN  /\ t.county = Truncate(row.county, 20) /\ t.district = Truncate(district, 20)
               /\ t.section = Truncate(section, 50)
               /\ t.land_number = Truncate(row.land_number, 50)
               /\ t.transaction_id = Truncate(row.id, 50)
               /\ t.total \in Nat /\ t.unit \in Nat /\ t.age \in Nat
               /\ t.land \in ResolveArea(row, LandCells(row)) /\ t.land \in Int
               /\ t.building \in Int /\ t.parking \in Int
               /\ row.county # Blank
  <1> DEFINE section  == Or(row.section, row.address.section)
             district == DistrictOf(row, section)
             A == ParseROCDate(row.date)
             B == ParsePrice(row.total)
             C == ParsePrice(row.unit)
             D == ResolveArea(row, LandCells(row))
             E == ResolveArea(row, row.building)
             F == ResolveArea(row, row.parking)
             G == ResolveParking(row.parkingPrice)
             H == ResolveAge(row.age)
             record(r) == [county |-> Truncate(row.county, 20),
                           district |-> Truncate(district, 20),
                           section |-> Truncate(section, 50),
                           land_number |-> Truncate(row.land_number, 50),
                           transaction_id |-> Truncate(row.id, 50),
                           date |-> r[1], total |-> r[2], unit |-> r[3], land |-> r[4],
                           building |-> r[5], parking |-> r[6], parkingPrice |-> r[7],
                           age |-> r[8]]
  <1>1. /\ row.total \in NumberCell /\ row.unit \in NumberCell /\ row.age \in NumberCell
        /\ LandCells(row) \in AreaCells /\ row.building \in AreaCells /\ row.parking \in AreaCells
    BY LandType DEF CsvRow
  <1>2. B \subseteq Nat /\ C \subseteq Nat /\ H \subseteq Nat
    BY <1>1 DEF ParsePrice, ResolveAge, NumberCell
  <1>3. D \subseteq Int /\ E \subseteq Int /\ F \subseteq Int
    BY <1>1, AreaType
  <1>4. NormalizeTransaction(row) =
           {record(r) : r \in IF row.county = Blank \/ district = Blank THEN {}
                              ELSE A \X B \X C \X D \X E \X F \X G \X H}
    BY DEF NormalizeTransaction
  <1> HIDE DEF section, district, A, B, C, D, E, F, G, H
  <1>5. row.county # Blank /\ \E r \in A \X B \X C \X D \X E \X F \X G \X H : t = record(r)
    BY <1>4
  <1>6. PICK r \in A \X B \X C \X D \X E \X F \X G \X H : t = record(r)
    BY <1>5
  <1>7. r[2] \in B /\ r[3] \in C /\ r[4] \in D /\ r[5] \in E /\ r[6] \in F /\ r[8] \in H
    OBVIOUS
  <1> QED
    BY <1>2, <1>3, <1>5, <1>6, <1>7 DEF section, district, D

\* The district is a text, whichever column it comes from.
LEMMA DistrictType ==
    ASSUME NEW row \in CsvRow, NEW section \in Texts
    PROVE  DistrictOf(row, section) \in Texts
  <1>1. ASSUME NEW t \in Texts PROVE BeforeDuan(t) \in Texts
    <2> DEFINE at == {i \in 2..Len(t) : t[i] = "duan"}
    <2>1. t \in Seq(Runes) /\ at \in SUBSET Nat
      BY DEF Texts
    <2>2. at # {} => Min(at) \in at
      BY <2>1, MinProperties
    <2>3. at # {} => Min(at) - 1 \in 1..Len(t)
      BY <2>1, <2>2
    <2>4. \A n \in 1..Len(t) : SubSeq(t, 1, n) \in Texts
      BY <2>1 DEF Texts
    <2>5. BeforeDuan(t) = IF at = {} \/ t[1] = "duan" THEN Blank ELSE SubSeq(t, 1, Min(at) - 1)
      BY DEF BeforeDuan
    <2>6. Blank \in Texts
      BY DEF Blank, Texts
    <2> HIDE DEF at
    <2> QED
      BY <2>3, <2>4, <2>5, <2>6
  <1>2. FirstDistrictForCounty(row.county) \in Texts
    <2>1. "z" \in Runes
      BY RuneAssumption
    <2>2. <<"z", "z", "z">> \in Seq(Runes) /\ <<>> \in Seq(Runes)
      BY <2>1
    <2> QED
      BY <2>2 DEF FirstDistrictForCounty, Blank, Texts
  <1>3. row.district \in Texts /\ row.address.section \in Texts
    BY DEF CsvRow
  <1>4. BeforeDuan(row.address.section) \in Texts /\ BeforeDuan(section) \in Texts
    BY <1>1, <1>3
  <1> QED
    BY <1>2, <1>3, <1>4 DEF DistrictOf, Or

\* NUMERIC(12,4) and NUMERIC(10,4) take what is neither too small nor too large.
LEMMA NumericFits ==
    ASSUME NEW v \in Int, v >= 0, NEW w \in Numeric(v)
    PROVE  /\ w \in Int /\ w >= 0
           /\ v \notin 1..4 => w > 0
           /\ ~(v >= AreaLimit - 5) => w * 10 < AreaLimit
           /\ ~(v >= AreaLimit \div 100 - 5) => w * 1000 < AreaLimit
  <1>1. v # 0 /\ w = (v + 5) \div 10
    BY DEF Numeric
  <1>2. w \in Int /\ w >= 0 /\ 10 * w <= v + 5 /\ (v >= 5 => w > 0)
    BY <1>1
  <1>3. 100 * (AreaLimit \div 100) <= AreaLimit /\ AreaLimit \div 100 \in Int
    BY LimitAssumption
  <1> QED
    BY <1>1, <1>2, <1>3, LimitAssumption

\* An age below 2^31 keeps its value in 32 bits.
LEMMA AgeFits ==
    ASSUME NEW n \in Nat, ~(n >= IntLimit), NEW w \in Int4(n)
    PROVE  w >= 0
  <1>1. n > 0 /\ w = ((n + IntLimit) % (2 * IntLimit)) - IntLimit
    BY DEF Int4
  <1>2. n + IntLimit \in 0..2 * IntLimit - 1
    BY LimitAssumption
  <1>3. (n + IntLimit) % (2 * IntLimit) = n + IntLimit
    BY <1>2, LimitAssumption
  <1> QED
    BY <1>1, <1>3, LimitAssumption

\* A row that passes the validator fits the columns of its table, but for
\* what the validator does not look at.
THEOREM TransactionsFit ==
    ASSUME NEW row \in CsvRow, NEW t \in Transactions(row)
    PROVE  \/ TransactionRowAccepted(t)
           \/ t.unit = 0 \/ t.age >= IntLimit
           \/ \E v \in {t.land, t.building} : v \in 1..4 \/ v >= AreaLimit - 5
           \/ t.parking >= AreaLimit \div 100 - 5
  <1> DEFINE section  == Or(row.section, row.address.section)
             district == DistrictOf(row, section)
  <1>1. t \in NormalizeTransaction(row) /\ TransactionErrors(t) = {}
    BY DEF Transactions, HasBlockingErrors
  <1>2. /\ t.county = Truncate(row.county, 20) /\ t.district = Truncate(district, 20)
        /\ t.section = Truncate(section, 50)
        /\ t.land_number = Truncate(row.land_number, 50)
        /\ t.transaction_id = Truncate(row.id, 50)
        /\ t.total \in Nat /\ t.unit \in Nat /\ t.age \in Nat
        /\ t.land \in Int /\ t.building \in Int /\ t.parking \in Int
    BY <1>1, NormalizedTransaction
  <1>3. t.total > 0 /\ t.land > 0 /\ t.building >= 0 /\ t.parking >= 0
    <2>1. /\ "total" \notin TransactionErrors(t) /\ "land" \notin TransactionErrors(t)
          /\ "building" \notin TransactionErrors(t) /\ "parking" \notin TransactionErrors(t)
      BY <1>1
    <2>2. ~(t.total <= 0) /\ ~(t.land <= 0) /\ ~(t.building < 0) /\ ~(t.parking < 0)
      BY <2>1 DEF TransactionErrors
    <2> QED
      BY <1>2, <2>2
  <1>4. /\ row.county \in Texts /\ row.land_number \in Texts /\ row.id \in Texts
        /\ row.section \in Texts /\ row.address.section \in Texts
    BY DEF CsvRow
  <1>5. section \in Texts
    BY <1>4 DEF Or
  <1>6. district \in Texts
    BY <1>5, DistrictType
  <1>7. /\ Chars(t.county, 20) /\ Chars(t.district, 20) /\ Chars(t.section, 50)
        /\ Chars(t.land_number, 50) /\ Chars(t.transaction_id, 50)
    BY <1>2, <1>4, <1>5, <1>6, TruncateFits DEF Chars
  <1> SUFFICES ASSUME t.unit # 0, ~(t.age >= IntLimit),
                      \A v \in {t.land, t.building} : v \notin 1..4 /\ ~(v >= AreaLimit - 5),
                      ~(t.parking >= AreaLimit \div 100 - 5)
               PROVE  TransactionRowAccepted(t)
    OBVIOUS
  <1>8. \A w \in Numeric(t.land) : w > 0 /\ w * 10 < AreaLimit
    BY <1>2, <1>3, NumericFits
  <1>9. \A w \in Numeric(t.building) : w > 0 /\ w * 10 < AreaLimit
    BY <1>2, <1>3, NumericFits
  <1>10. \A w \in Numeric(t.parking) : w >= 0 /\ w * 1000 < AreaLimit
    BY <1>2, <1>3, NumericFits
  <1>11. \A w \in Int4(t.age) : w >= 0
    BY <1>2, AgeFits
  <1>12. t.unit > 0
    BY <1>2
  <1> QED
    BY <1>3, <1>7, <1>8, <1>9, <1>10, <1>11, <1>12 DEF TransactionRowAccepted

\* What normalize makes of a parcel: cut texts and an area of whole numbers.
LEMMA NormalizedParcel ==
    ASSUME NEW row \in CsvRow, NEW p \in NormalizeParcel(row)
    PROVE  /\ p.county = Truncate(row.county, 20) /\ p.district = Truncate(row.district, 20)
           /\ p.section = Truncate(row.section, 50)
           /\ p.land_number = Truncate(row.land_number, 50)
           /\ p.area \in Int /\ p.area > 0
  <1> DEFINE spare == UNION {Range(a.sqm) \cup Range(a.ping) : a \in {row.building, row.parking}}
             cells == {row.land[k] : k \in LandColumns} \cup row.otherAreas \cup spare
             pings == {ToSqm(c.v) : c \in {x \in cells : x.kind = "ping"}}
  <1>1. spare \subseteq NumberCell
    <2>1. \A a \in {row.building, row.parking} : a \in AreaCells
      BY DEF CsvRow
    <2> HIDE DEF NumberCell
    <2>2. \A a \in AreaCells : Range(a.sqm) \subseteq NumberCell /\ Range(a.ping) \subseteq NumberCell
      BY DEF AreaCells, Range
    <2> QED
      BY <2>1, <2>2
  <1>2. cells \subseteq NumberCell
    BY <1>1, LandType DEF CsvRow
  <1> HIDE DEF cells
  <1>3. pings \subseteq Int
    <2>1. \A c \in NumberCell : ToSqm(c.v) \in Int
      BY DEF NumberCell, ToSqm
    <2> QED
      BY <1>2, <2>1
  <1>4. ParcelAreas(row) = UNION {IF v = 0 /\ pings # {} THEN pings ELSE {v} :
                                  v \in ResolveArea(row, ParcelCells(row))}
    BY DEF ParcelAreas, cells
  <1> HIDE DEF pings
  <1>5. ResolveArea(row, ParcelCells(row)) \subseteq Int
    BY LandType, AreaType
  <1>6. ParcelAreas(row) \subseteq Int
    BY <1>3, <1>4, <1>5
  <1> QED
    BY <1>6 DEF NormalizeParcel

\* A parcel that passes the validator fits the columns of its table, but for
\* an area that is too small or too large.
THEOREM ParcelsFit ==
    ASSUME NEW row \in CsvRow, NEW p \in Parcels(row)
    PROVE  ParcelRowAccepted(p) \/ p.area \in 1..4 \/ p.area >= AreaLimit - 5
  <1>1. p \in NormalizeParcel(row)
    BY DEF Parcels
  <1>2. /\ p.county = Truncate(row.county, 20) /\ p.district = Truncate(row.district, 20)
        /\ p.section = Truncate(row.section, 50)
        /\ p.land_number = Truncate(row.land_number, 50)
        /\ p.area \in Int /\ p.area > 0
    BY <1>1, NormalizedParcel
  <1>3. /\ row.county \in Texts /\ row.district \in Texts
        /\ row.section \in Texts /\ row.land_number \in Texts
    BY DEF CsvRow
  <1>4. /\ Chars(p.county, 20) /\ Chars(p.district, 20)
        /\ Chars(p.section, 50) /\ Chars(p.land_number, 50)
    BY <1>2, <1>3, TruncateFits DEF Chars
  <1>5. ASSUME p.area \notin 1..4, ~(p.area >= AreaLimit - 5), NEW w \in Numeric(p.area)
        PROVE  w > 0 /\ w * 10 < AreaLimit
    BY <1>2, <1>5, NumericFits
  <1> QED
    BY <1>4, <1>5 DEF ParcelRowAccepted

\* A row whose district is given, and its area in shared columns, yields with
\* each transaction the parcel it is on.
THEOREM ParcelOfTransaction ==
    ASSUME NEW row \in CsvRow, NEW county \in Texts, row.district # Blank, SharedArea(row),
           NEW t \in Transactions(EnrichRow(row, county))
    PROVE  \E p \in Parcels(EnrichRow(row, county)) :
              \A k \in {"county", "district", "section", "land_number"} : p[k] = t[k]
  <1> DEFINE r == EnrichRow(row, county)
             section  == Or(r.section, r.address.section)
             district == DistrictOf(r, section)
             p == [county |-> Truncate(r.county, 20), district |-> Truncate(r.district, 20),
                   section |-> Truncate(r.section, 50),
                   land_number |-> Truncate(r.land_number, 50), area |-> t.land]
  <1>1. /\ r \in CsvRow /\ r.district = row.district /\ r.address = row.address
        /\ r.section = Or(row.section, row.address.section) /\ SharedArea(r)
    BY EnrichRowType DEF SharedArea
  <1>2. district = r.district
    BY <1>1 DEF DistrictOf, Or
  <1>3. section = r.section
    BY <1>1 DEF Or
  <1> HIDE DEF r, section, district
  <1>4. t \in NormalizeTransaction(r) /\ TransactionErrors(t) = {}
    BY DEF Transactions, HasBlockingErrors, r
  <1>5. /\ t.county = Truncate(r.county, 20) /\ t.district = Truncate(district, 20)
        /\ t.section = Truncate(section, 50) /\ t.land_number = Truncate(r.land_number, 50)
        /\ t.land \in ResolveArea(r, ParcelCells(r)) /\ t.land \in Int /\ r.county # Blank
    BY <1>1, <1>4, NormalizedTransaction, SharedAreaResolved DEF section, district
  <1>6. /\ "land" \notin TransactionErrors(t) /\ "county" \notin TransactionErrors(t)
        /\ "district" \notin TransactionErrors(t)
    BY <1>4
  <1>7. ~(t.land <= 0) /\ t.county # Blank /\ t.district # Blank
    BY <1>6 DEF TransactionErrors
  <1>8. t.land \in ParcelAreas(r)
    <2>1. t.land # 0
      BY <1>5, <1>7
    <2> DEFINE cells == {r.land[k] : k \in LandColumns} \cup r.otherAreas
                        \cup UNION {Range(a.sqm) \cup Range(a.ping) : a \in {r.building, r.parking}}
               pings == {ToSqm(c.v) : c \in {x \in cells : x.kind = "ping"}}
    <2>2. ParcelAreas(r) = UNION {IF v = 0 /\ pings # {} THEN pings ELSE {v} :
                                  v \in ResolveArea(r, ParcelCells(r))}
      BY DEF ParcelAreas
    <2> HIDE DEF pings
    <2>3. {t.land} \in {IF v = 0 /\ pings # {} THEN pings ELSE {v} :
                        v \in ResolveArea(r, ParcelCells(r))}
      BY <1>5, <2>1
    <2> QED
      BY <2>2, <2>3
  <1>9. p \in NormalizeParcel(r)
    <2>1. t.land > 0 /\ r.district # Blank
      BY <1>1, <1>5, <1>7
    <2> QED
      BY <1>5, <1>8, <2>1 DEF NormalizeParcel
  <1>10. p.county = t.county /\ p.district = t.district /\ p.section = t.section
         /\ p.land_number = t.land_number /\ p.area = t.land
    BY <1>2, <1>3, <1>5
  <1> HIDE DEF p
  <1>11. ParcelErrors(p) = {}
    BY <1>7, <1>10 DEF ParcelErrors
  <1>12. p \in Parcels(r)
    BY <1>4, <1>9, <1>11 DEF Parcels, HasBlockingErrors
  <1> QED
    BY <1>10, <1>12 DEF r

\* What the input of a row and its output are.
LEMMA RowComputed ==
    ASSUME OutputIsComputed, output.kind = "row"
    PROVE  /\ input.row \in CsvRow /\ input.county \in Texts
           /\ output.transactions = Transactions(EnrichRow(input.row, input.county))
           /\ output.parcels = Parcels(EnrichRow(input.row, input.county))
  BY RowAssumption DEF OutputIsComputed, None, RowOutput, SampleOutput, TargetOutput, Inputs

\* The run's property of the tables, from the two lemmas.
THEOREM AcceptedFits == Spec => []AcceptedIsStorable
  <1>1. OutputIsComputed => AcceptedIsStorable
    <2> SUFFICES ASSUME OutputIsComputed, output.kind = "row" PROVE AcceptedIsStorable
      BY DEF AcceptedIsStorable
    <2> DEFINE r == EnrichRow(input.row, input.county)
    <2>1. r \in CsvRow /\ output.transactions = Transactions(r) /\ output.parcels = Parcels(r)
      BY RowComputed, EnrichRowType
    <2> HIDE DEF r
    <2>2. \A t \in Transactions(r) :
             \/ TransactionRowAccepted(t)
             \/ t.unit = 0 \/ t.age >= IntLimit
             \/ \E v \in {t.land, t.building} : v \in 1..4 \/ v >= AreaLimit - 5
             \/ t.parking >= AreaLimit \div 100 - 5
      BY <2>1, TransactionsFit
    <2>3. \A p \in Parcels(r) : \/ ParcelRowAccepted(p)
                                \/ p.area \in 1..4 \/ p.area >= AreaLimit - 5
      BY <2>1, ParcelsFit
    <2> QED
      BY <2>1, <2>2, <2>3 DEF AcceptedIsStorable
  <1> QED
    BY <1>1, OutputInvariant, PTL

\* The run's property of a transaction and its parcel, from the lemma.
THEOREM ParcelsAreThere == Spec => []TransactionHasItsParcel
  <1>1. OutputIsComputed => TransactionHasItsParcel
    BY RowComputed, ParcelOfTransaction DEF TransactionHasItsParcel
  <1> QED
    BY <1>1, OutputInvariant, PTL

----------------------------------------------------------------------------
(* Files *)

\* A record that is not empty is skipped when its cells are blank or its first
\* cell repeats the header.
LEMMA SkippedRecords ==
    ASSUME NEW r \in Seq(Texts), r # <<>>
    PROVE  ~Skipped(ParseRecord(Headers, r), r)
              <=> r[1] # English /\ \E j \in DOMAIN r : r[j] # Blank
  <1> DEFINE code(i) == NormalizeHeader(Headers[i])
             column(k) == Max({i \in DOMAIN Headers : code(i) = k})
             codes == {code(i) : i \in DOMAIN Headers}
             row == [k \in codes |-> IF column(k) \in DOMAIN r THEN r[column(k)] ELSE Blank]
             surplus == {n \in DOMAIN Extra : Len(Headers) + n \in DOMAIN r}
             extras == {Extra[n] : n \in surplus}
             parsed == [k \in DOMAIN row \cup extras
                        |-> IF k \in DOMAIN row THEN row[k]
                            ELSE r[Len(Headers) + CHOOSE n \in surplus : Extra[n] = k]]
  <1>1. ParseRecord(Headers, r) = parsed
    BY DEF ParseRecord
  <1>2. "district" \notin extras /\ "county" \notin extras
    BY DEF Extra
  <1>3. 1 \in DOMAIN r
    OBVIOUS
  <1>4. /\ 1 \in DOMAIN Headers /\ code(1) \in {"district", "county"}
        /\ \A i \in DOMAIN Headers : code(i) \in {"district", "county"} => i = 1
    <2>1. {i \in DOMAIN Headers : code(i) \in {"district", "county"}} = {1}
      BY FileAssumption
    <2> QED
      BY <2>1
  <1> HIDE DEF code
  <1>5. column(code(1)) = 1
    <2>1. {i \in DOMAIN Headers : code(i) = code(1)} = {1}
      BY <1>4
    <2>2. {1} \in SUBSET (0..1) /\ {1} # {}
      OBVIOUS
    <2>3. Max({1}) \in {1}
      BY <2>2, MaxProperties
    <2> QED
      BY <2>1, <2>3
  <1> HIDE DEF column, extras
  <1>6. /\ code(1) \in DOMAIN parsed /\ parsed[code(1)] = r[1]
        /\ \A k \in {"district", "county"} \cap DOMAIN parsed : k = code(1)
    <2>1. code(1) \in codes /\ DOMAIN row = codes /\ row[code(1)] = r[1]
      BY <1>3, <1>4, <1>5
    <2>2. \A k \in {"district", "county"} \cap codes : k = code(1)
      BY <1>4
    <2>3. DOMAIN parsed = codes \cup extras
      OBVIOUS
    <2> HIDE DEF codes, row
    <2>4. \A k \in codes : parsed[k] = row[k]
      BY <2>1
    <2> QED
      BY <1>2, <2>1, <2>2, <2>3, <2>4
  <1> HIDE DEF parsed
  <1>7. (\E k \in {"district", "county"} \cap DOMAIN parsed : parsed[k] = English)
           <=> r[1] = English
    BY <1>4, <1>6
  <1> QED
    BY <1>1, <1>7 DEF Skipped

\* Every record that is not skipped gives a row, and the rows keep the order
\* of the records.
THEOREM RowsOfRecords ==
    ASSUME NEW records \in Files
    PROVE  LET filled == {i \in DOMAIN records : /\ records[i][1] # English
                                                 /\ \E j \in DOMAIN records[i] : records[i][j] # Blank}
               kept == Keep(records, filled)
           IN  ParseCSV(Headers, records) = [i \in DOMAIN kept |-> ParseRecord(Headers, kept[i])]
  <1> DEFINE filled == {i \in DOMAIN records :
                          /\ records[i][1] # English
                          /\ \E j \in DOMAIN records[i] : records[i][j] # Blank}
             rows == [i \in DOMAIN records |-> ParseRecord(Headers, records[i])]
             R == {r \in Seq(Texts) : r # <<>>}
             N == Cardinality(filled)
             kept == Keep(records, filled)
  <1>1. records \in Seq(R)
    BY FileAssumption
  <1>2. ASSUME NEW i \in DOMAIN records
        PROVE  ~Skipped(rows[i], records[i]) <=> i \in filled
    <2>1. records[i] \in R
      BY <1>1
    <2>2. rows[i] = ParseRecord(Headers, records[i])
      OBVIOUS
    <2> QED
      BY <2>1, <2>2, SkippedRecords
  <1>3. ParseCSV(Headers, records) = Keep(rows, filled)
    <2>1. {i \in DOMAIN records : ~Skipped(rows[i], records[i])} = filled
      BY <1>2
    <2> QED
      BY <2>1 DEF ParseCSV
  <1>4. filled \in SUBSET DOMAIN records
    OBVIOUS
  <1>5. \A n \in 1..N : Nth(filled, n) \in DOMAIN records
    <2>1. \A n \in 1..Cardinality(filled) : Nth(filled, n) \in filled
      <3> HIDE DEF filled
      <3> QED
        BY <1>1, <1>4, NthProperties
    <2> QED
      BY <1>4, <2>1
  <1> HIDE DEF filled, R
  <1>6. Keep(rows, filled) = [n \in 1..N |-> ParseRecord(Headers, kept[n])]
    BY <1>5 DEF Keep
  <1>7. DOMAIN kept = 1..N
    BY DEF Keep
  <1> HIDE DEF rows, kept
  <1> QED
    BY <1>3, <1>6, <1>7 DEF kept, filled

\* The run's property of the files, from the theorem.
THEOREM RecordsGiveRows == Spec => []RecordsAreKept
  <1>1. OutputIsComputed => RecordsAreKept
    <2> SUFFICES ASSUME OutputIsComputed, output.kind = "file" PROVE RecordsAreKept
      BY DEF RecordsAreKept
    <2>1. input.records \in Files /\ output.rows = ParseCSV(Headers, input.records)
      BY DEF OutputIsComputed, None, RowOutput, SampleOutput, TargetOutput, Inputs
    <2> QED
      BY <2>1, RowsOfRecords DEF RecordsAreKept
  <1> QED
    BY <1>1, OutputInvariant, PTL

----------------------------------------------------------------------------
(* Percentiles *)

\* What a sorted sample is.
Ascending(s) == s \in Seq(Int) /\ \A n, m \in 1..Len(s) : n <= m => s[n] <= s[m]

\* The position at or below the rank of a percentile, and how far above it is.
Below(s, p) == (p * (Len(s) - 1)) \div 100 + 1
Above(s, p) == (p * (Len(s) - 1)) % 100

\* A percentile lies between the two values next to its rank.
LEMMA PercentileBetween ==
    ASSUME NEW s, Ascending(s), s # <<>>, NEW p \in Nat, p <= 100
    PROVE  /\ Percentile(s, p) \in Int
           /\ Below(s, p) \in 1..Len(s) /\ Above(s, p) \in Nat /\ Above(s, p) <= 99
           /\ 100 * s[Below(s, p)] <= Percentile(s, p)
           /\ Above(s, p) = 0 => Percentile(s, p) = 100 * s[Below(s, p)]
           /\ Above(s, p) # 0 =>
                 /\ Below(s, p) + 1 \in 1..Len(s)
                 /\ Percentile(s, p) <= 100 * s[Below(s, p) + 1]
                 /\ Percentile(s, p) = s[Below(s, p)] * (100 - Above(s, p))
                                       + s[Below(s, p) + 1] * Above(s, p)
  <1> DEFINE n == Len(s) - 1
             rank == p * n
             low == Below(s, p)
             w == Above(s, p)
  <1>1. n \in Nat /\ \A i \in 1..Len(s) : s[i] \in Int
    BY DEF Ascending
  <1>2. rank \in 0..(100 * n)
    BY <1>1
  <1>3. low = rank \div 100 + 1 /\ w = rank % 100
    BY DEF Below, Above
  <1>4. /\ low \in 1..Len(s) /\ w \in Nat /\ w <= 99
        /\ w # 0 => low + 1 \in 1..Len(s)
    <2> HIDE DEF rank, low, w
    <2> QED
      BY <1>1, <1>2, <1>3
  <1>5. Percentile(s, p) = IF w = 0 THEN 100 * s[low] ELSE s[low] * (100 - w) + s[low + 1] * w
    BY DEF Percentile, Below, Above
  <1>6. CASE w = 0
    <2> HIDE DEF low, w
    <2>1. Percentile(s, p) = 100 * s[low] /\ s[low] \in Int
      BY <1>1, <1>4, <1>5, <1>6
    <2> QED
      BY <1>4, <1>6, <2>1 DEF low, w
  <1>7. CASE w # 0
    <2> DEFINE a == s[low]
               b == s[low + 1]
               d == b - a
    <2> HIDE DEF low, w
    <2>1. a \in Int /\ b \in Int /\ a <= b
      BY <1>1, <1>4, <1>7 DEF Ascending
    <2>2. Percentile(s, p) = a * (100 - w) + b * w
      BY <1>5, <1>7
    <2> HIDE DEF a, b
    <2>3. d * w >= 0 /\ d * (100 - w) >= 0 /\ d * w \in Int
      BY <1>4, <2>1
    <2>4. Percentile(s, p) = 100 * a + d * w /\ Percentile(s, p) = 100 * b - d * (100 - w)
      BY <1>4, <2>1, <2>2
    <2>5. 100 * a <= Percentile(s, p) /\ Percentile(s, p) <= 100 * b /\ Percentile(s, p) \in Int
      BY <1>4, <2>1, <2>3, <2>4
    <2> QED
      BY <1>4, <1>5, <1>7, <2>5 DEF low, w, a, b
  <1> QED
    BY <1>6, <1>7

\* The figure is a number.
LEMMA PercentileType ==
    ASSUME NEW s, Ascending(s), s # <<>>, NEW p \in Nat, p <= 100
    PROVE  Percentile(s, p) \in Int
  <1>1. /\ Percentile(s, p) \in Int
        /\ Below(s, p) \in 1..Len(s) /\ Above(s, p) \in Nat /\ Above(s, p) <= 99
    BY PercentileBetween
  <1> QED
    BY <1>1

\* A higher percentile is not less.
LEMMA PercentileRises ==
    ASSUME NEW s, Ascending(s), s # <<>>, NEW p \in Nat, NEW q \in Nat, p <= q, q <= 100
    PROVE  Percentile(s, p) <= Percentile(s, q)
  <1> DEFINE n == Len(s) - 1
             i == Below(s, p)
             j == Below(s, q)
             v == Above(s, p)
             w == Above(s, q)
  <1>1. n \in Nat /\ \A k \in 1..Len(s) : s[k] \in Int
    BY DEF Ascending
  <1>2. /\ Percentile(s, p) \in Int /\ i \in 1..Len(s) /\ v \in Nat /\ v <= 99
        /\ v = 0 => Percentile(s, p) = 100 * s[i]
        /\ v # 0 => /\ i + 1 \in 1..Len(s) /\ Percentile(s, p) <= 100 * s[i + 1]
                    /\ Percentile(s, p) = s[i] * (100 - v) + s[i + 1] * v
    BY PercentileBetween
  <1>3. /\ Percentile(s, q) \in Int /\ j \in 1..Len(s) /\ w \in Nat /\ w <= 99
        /\ 100 * s[j] <= Percentile(s, q)
        /\ w # 0 => /\ j + 1 \in 1..Len(s)
                    /\ Percentile(s, q) = s[j] * (100 - w) + s[j + 1] * w
    BY PercentileBetween
  <1>4. i <= j /\ (i = j => v <= w)
    <2>1. p * n <= q * n /\ p * n \in Nat /\ q * n \in Nat
      <3> HIDE DEF n
      <3>1. (q - p) * n \in Nat /\ p * n \in Nat /\ q * n \in Nat
        BY <1>1
      <3>2. q * n = p * n + (q - p) * n
        BY <1>1
      <3> QED
        BY <3>1, <3>2
    <2> DEFINE a == p * n
               b == q * n
    <2>2. i = a \div 100 + 1 /\ j = b \div 100 + 1 /\ v = a % 100 /\ w = b % 100
      BY DEF Below, Above
    <2> HIDE DEF a, b, i, j, v, w, n
    <2>3. a <= b /\ a \in Nat /\ b \in Nat
      BY <2>1 DEF a, b
    <2> QED
      BY <2>2, <2>3
  <1> HIDE DEF i, j, v, w, n
  <1>5. CASE i = j
    <2>1. CASE v = 0
      BY <1>2, <1>3, <1>5, <2>1
    <2>2. CASE v # 0
      <3> DEFINE lo == s[i]
                 hi == s[i + 1]
      <3>1. v \in Nat /\ w \in Nat /\ v <= w /\ v # 0 /\ w # 0
        BY <1>2, <1>3, <1>4, <1>5, <2>2
      <3>2. lo \in Int /\ hi \in Int /\ lo <= hi
        BY <1>1, <1>2, <2>2 DEF Ascending
      <3>3. /\ Percentile(s, p) = lo * (100 - v) + hi * v
            /\ Percentile(s, q) = lo * (100 - w) + hi * w
        BY <1>2, <1>3, <1>5, <2>2, <3>1
      <3> HIDE DEF lo, hi
      <3>4. (hi - lo) * (w - v) >= 0
        BY <3>1, <3>2
      <3>5. Percentile(s, q) = Percentile(s, p) + (hi - lo) * (w - v)
        BY <3>1, <3>2, <3>3
      <3> QED
        BY <1>2, <1>3, <3>1, <3>2, <3>4, <3>5
    <2> QED
      BY <2>1, <2>2
  <1>6. CASE i < j
    <2>1. CASE v = 0
      <3>1. s[i] <= s[j] /\ s[i] \in Int /\ s[j] \in Int
        BY <1>1, <1>2, <1>3, <1>6 DEF Ascending
      <3> QED
        BY <1>2, <1>3, <2>1, <3>1
    <2>2. CASE v # 0
      <3>1. s[i + 1] <= s[j] /\ s[i + 1] \in Int /\ s[j] \in Int
        BY <1>1, <1>2, <1>3, <1>6, <2>2 DEF Ascending
      <3> QED
        BY <1>2, <1>3, <2>2, <3>1, SMTT(30)
    <2> QED
      BY <2>1, <2>2
  <1>7. i \in Int /\ j \in Int
    BY <1>2, <1>3
  <1> QED
    BY <1>4, <1>5, <1>6, <1>7

\* A sorted sample ascends.
LEMMA SortedAscends ==
    ASSUME NEW s \in Seq(Int)
    PROVE  Ascending(Sorted(s)) /\ Len(Sorted(s)) = Len(s) /\ (Sorted(s) = <<>> <=> s = <<>>)
  BY SortedProperties DEF Ascending

\* The figures of a sample are in order, whatever is cut off.
LEMMA SummaryRises ==
    ASSUME NEW values \in Seq(Int), values # <<>>, NEW fraction \in {1, 100, 100000}
    PROVE  LET s == Summary(values, fraction)
           IN  /\ s.min <= s.p10 /\ s.p10 <= s.p25 /\ s.p25 <= s.median
               /\ s.median <= s.p75 /\ s.p75 <= s.p90 /\ s.p90 <= s.max
  <1> DEFINE s == Sorted(values)
             at(p) == Percentile(s, p) \div fraction
  <1>1. Ascending(s) /\ s # <<>>
    BY SortedAscends
  <1> HIDE DEF s
  <1>2. ASSUME NEW p \in Nat, p <= 100 PROVE Percentile(s, p) \in Int
    BY <1>1, <1>2, PercentileType
  <1>3. ASSUME NEW p \in Nat, NEW q \in Nat, p <= q, q <= 100 PROVE at(p) <= at(q)
    <2>1. Percentile(s, p) <= Percentile(s, q) /\ Percentile(s, p) \in Int /\ Percentile(s, q) \in Int
      BY <1>1, <1>2, <1>3, PercentileRises
    <2> QED
      BY <2>1
  <1> HIDE DEF at
  <1>4. /\ at(0) <= at(10) /\ at(10) <= at(25) /\ at(25) <= at(50)
        /\ at(50) <= at(75) /\ at(75) <= at(90) /\ at(90) <= at(100)
    BY <1>3
  <1> QED
    BY <1>4 DEF Summary, s, at

----------------------------------------------------------------------------
(* Outliers *)

\* The bounds of Outside lie at values of the sample, or beyond them: so many
\* values, at most, are outside.
LEMMA OutsideCount ==
    ASSUME NEW values \in Seq(Int), NEW lower \in Int, NEW upper \in Int,
           NEW a \in 0..Len(values), NEW b \in 0..Len(values)
    PROVE  /\ a < Len(values) => 10000 * Sorted(values)[a + 1] >= lower
           /\ b > 0 => 10000 * Sorted(values)[b] <= upper
           => Cardinality(Outside(values, lower, upper)) <= a + (Len(values) - b)
  <1> DEFINE N == Len(values)
             low == {i \in 1..N : 10000 * values[i] < lower}
             in == {i \in 1..N : 10000 * values[i] <= upper}
  <1>1. SUFFICES ASSUME a < N => 10000 * Sorted(values)[a + 1] >= lower,
                         b > 0 => 10000 * Sorted(values)[b] <= upper
                  PROVE  Cardinality(Outside(values, lower, upper)) <= a + (N - b)
    OBVIOUS
  <1>2. N \in Nat /\ \A i \in 1..N : values[i] \in Int
    OBVIOUS
  <1>3. IsFiniteSet(1..N) /\ Cardinality(1..N) = N
    <2> HIDE DEF N
    <2> QED
      BY <1>2, UpTo
  <1>4. /\ low \in SUBSET (1..N) /\ in \in SUBSET (1..N)
        /\ \A i \in low, j \in 1..N : values[j] <= values[i] => j \in low
        /\ \A i \in in, j \in 1..N : values[j] <= values[i] => j \in in
    <2>1. ASSUME NEW i \in 1..N, NEW j \in 1..N, values[j] <= values[i]
          PROVE  /\ 10000 * values[j] <= 10000 * values[i]
                 /\ 10000 * values[j] \in Int /\ 10000 * values[i] \in Int
      <3>1. values[i] \in Int /\ values[j] \in Int
        BY <1>2
      <3> QED
        BY <2>1, <3>1
    <2>2. ASSUME NEW i \in 1..N, NEW j \in 1..N, values[j] <= values[i]
          PROVE  /\ 10000 * values[i] < lower => 10000 * values[j] < lower
                 /\ 10000 * values[i] <= upper => 10000 * values[j] <= upper
      BY <2>1, <2>2, SMTT(30)
    <2> QED
      BY <2>2
  <1>5. Cardinality(low) \in 0..a
    <2>1. /\ Cardinality(low) \in 0..N
          /\ \A n \in 1..N : \E i \in 1..N :
                Sorted(values)[n] = values[i] /\ (i \in low <=> n <= Cardinality(low))
      <3> HIDE DEF low
      <3>1. low \in SUBSET (1..N) /\ \A i \in low, j \in 1..N : values[j] <= values[i] => j \in low
        BY <1>4
      <3> QED
        BY <3>1, DownwardSets
    <2>2. CASE Cardinality(low) > a
      <3>1. a + 1 \in 1..N /\ a + 1 <= Cardinality(low)
        BY <1>2, <2>1, <2>2
      <3>2. PICK i \in 1..N : Sorted(values)[a + 1] = values[i] /\ i \in low
        BY <2>1, <3>1
      <3> QED
        BY <1>1, <1>2, <3>1, <3>2
    <2> QED
      BY <2>1, <2>2
  <1>6. Cardinality(in) \in b..N
    <2>1. /\ Cardinality(in) \in 0..N
          /\ \A n \in 1..N : \E i \in 1..N :
                Sorted(values)[n] = values[i] /\ (i \in in <=> n <= Cardinality(in))
      <3> HIDE DEF in
      <3>1. in \in SUBSET (1..N) /\ \A i \in in, j \in 1..N : values[j] <= values[i] => j \in in
        BY <1>4
      <3> QED
        BY <3>1, DownwardSets
    <2>2. CASE Cardinality(in) < b
      <3>1. b \in 1..N /\ ~(b <= Cardinality(in))
        BY <1>2, <2>1, <2>2
      <3>2. PICK i \in 1..N : Sorted(values)[b] = values[i] /\ i \notin in
        BY <2>1, <3>1
      <3> QED
        BY <1>1, <1>2, <3>1, <3>2
    <2> QED
      BY <2>1, <2>2
  <1>7. Outside(values, lower, upper) = low \cup ((1..N) \ in)
    BY <1>2 DEF Outside
  <1> HIDE DEF low, in, N
  <1>8. IsFiniteSet(low)
    BY <1>3, <1>4, FS_Subset
  <1>9. IsFiniteSet((1..N) \ in) /\ Cardinality((1..N) \ in) = N - Cardinality(in)
    <2>1. (1..N) \cap in = in /\ IsFiniteSet(1..N) /\ Cardinality(1..N) = N
      BY <1>3, <1>4
    <2>2. /\ IsFiniteSet((1..N) \ in)
          /\ Cardinality((1..N) \ in) = Cardinality(1..N) - Cardinality((1..N) \cap in)
      BY <2>1, FS_Difference
    <2> QED
      BY <2>1, <2>2
  <1>10. Cardinality(low \cup ((1..N) \ in)) <= Cardinality(low) + (N - Cardinality(in))
    <2>1. /\ Cardinality(low \cup ((1..N) \ in))
               = Cardinality(low) + Cardinality((1..N) \ in)
                    - Cardinality(low \cap ((1..N) \ in))
          /\ Cardinality(low \cap ((1..N) \ in)) \in Nat
      <3>1. IsFiniteSet(low \cap ((1..N) \ in))
        BY <1>8, FS_Intersection
      <3> QED
        BY <1>8, <1>9, <3>1, FS_Union, FS_CardinalityType
    <2> QED
      BY <1>2, <1>5, <1>6, <1>9, <2>1
  <1>11. Cardinality(low \cup ((1..N) \ in)) \in Nat
    BY <1>8, <1>9, FS_Union, FS_CardinalityType
  <1> QED
    BY <1>2, <1>5, <1>6, <1>7, <1>10, <1>11 DEF N

\* What is outside can be counted.
LEMMA OutsideFinite ==
    ASSUME NEW values \in Seq(Int), NEW lower, NEW upper
    PROVE  Cardinality(Outside(values, lower, upper)) \in Nat
  <1>1. DOMAIN values = 1..Len(values) /\ Len(values) \in Nat
    OBVIOUS
  <1>2. IsFiniteSet(1..Len(values))
    BY <1>1, UpTo
  <1>3. Outside(values, lower, upper) \in SUBSET (1..Len(values))
    BY <1>1 DEF Outside
  <1> QED
    BY <1>2, <1>3, FS_Subset, FS_CardinalityType

\* Quartiles that are 1.5 times their distance away: the value at the lower
\* quartile's position is never outside, so at most a quarter lies below.
LEMMA OutliersIQRCount ==
    ASSUME NEW values \in Seq(Int), Len(values) >= 4
    PROVE  2 * Cardinality(OutliersIQR(values)) <= Len(values)
  <1> DEFINE N == Len(values)
             s == Sorted(values)
             q1 == Percentile(s, 25)
             q3 == Percentile(s, 75)
             k == N \div 4
             b == Below(s, 75)
             l == Below(s, 25)
             w == Above(s, 25)
             lower == 100 * q1 - 150 * (q3 - q1)
             upper == 100 * q3 + 150 * (q3 - q1)
  <1>1. Ascending(s) /\ Len(s) = N /\ s # <<>> /\ N \in Nat /\ N >= 4
    BY SortedAscends
  <1>2. OutliersIQR(values) = Outside(values, lower, upper)
    BY DEF OutliersIQR
  <1>3. /\ l = (25 * (N - 1)) \div 100 + 1 /\ w = (25 * (N - 1)) % 100
        /\ b = (75 * (N - 1)) \div 100 + 1
    BY <1>1 DEF Below, Above
  <1> HIDE DEF N, s
  <1>4. /\ q1 \in Int /\ l \in 1..N /\ 100 * s[l] <= q1
        /\ w = 0 => q1 = 100 * s[l]
        /\ w # 0 => /\ l + 1 \in 1..N
                    /\ q1 <= 100 * s[l + 1]
                    /\ q1 = s[l] * (100 - w) + s[l + 1] * w
    <2>1. /\ q1 \in Int /\ l \in 1..Len(s) /\ 100 * s[l] <= q1
          /\ w = 0 => q1 = 100 * s[l]
          /\ w # 0 => /\ l + 1 \in 1..Len(s)
                      /\ q1 <= 100 * s[l + 1]
                      /\ q1 = s[l] * (100 - w) + s[l + 1] * w
      <3>1. Ascending(s) /\ s # <<>> /\ 25 \in Nat /\ 25 <= 100
        BY <1>1
      <3> QED
        BY <3>1, PercentileBetween
    <2> QED
      BY <1>1, <2>1
  <1>5. q3 \in Int /\ 100 * s[b] <= q3
    <2>1. Ascending(s) /\ s # <<>> /\ 75 \in Nat /\ 75 <= 100
      BY <1>1
    <2> QED
      BY <2>1, PercentileBetween
  <1> HIDE DEF l, w, b
  <1>6. /\ k \in Nat /\ k >= 1 /\ b \in 1..N /\ 2 * (k + (N - b)) <= N
        /\ \/ l = k /\ w = 75
           \/ l = k + 1 /\ w = 0
           \/ l = k + 1 /\ w \in {25, 50} /\ l + 1 <= b
    <2>1. \E m \in {0, 1, 2, 3} : N = 4 * k + m /\ k \in Nat
      BY <1>1
    <2> HIDE DEF k
    <2>2. PICK m \in {0, 1, 2, 3} : N = 4 * k + m /\ k \in Nat
      BY <2>1
    <2>3. CASE m = 0
      BY <1>1, <1>3, <2>2, <2>3
    <2>4. CASE m = 1
      BY <1>1, <1>3, <2>2, <2>4
    <2>5. CASE m = 2
      BY <1>1, <1>3, <2>2, <2>5
    <2>6. CASE m = 3
      BY <1>1, <1>3, <2>2, <2>6
    <2> QED
      BY <2>3, <2>4, <2>5, <2>6
  <1>7. q1 <= q3
    BY <1>1, PercentileRises
  <1>8. \A i \in 1..N : s[i] \in Int
    BY <1>1 DEF Ascending
  <1> HIDE DEF k, q1, q3
  <1>9. 10000 * s[k + 1] >= lower /\ k + 1 \in 1..N
    <2>1. CASE l = k /\ w = 75
      <3>1. q1 <= 100 * s[k + 1] /\ s[k + 1] \in Int /\ k + 1 \in 1..N
        BY <1>4, <1>8, <2>1
      <3>2. q1 \in Int /\ q3 \in Int /\ q1 <= q3
        BY <1>4, <1>5, <1>7
      <3> QED
        BY <3>1, <3>2
    <2>2. CASE l = k + 1 /\ w = 0
      <3>1. q1 <= 100 * s[k + 1] /\ s[k + 1] \in Int /\ k + 1 \in 1..N
        BY <1>4, <1>8, <2>2
      <3>2. q1 \in Int /\ q3 \in Int /\ q1 <= q3
        BY <1>4, <1>5, <1>7
      <3> QED
        BY <3>1, <3>2
    <2>3. CASE l = k + 1 /\ w \in {25, 50} /\ l + 1 <= b
      <3> DEFINE x == s[l]
                 y == s[l + 1]
                 z == s[b]
      <3>1. x \in Int /\ y \in Int /\ z \in Int /\ x <= y /\ y <= z
        <4>1. l + 1 \in 1..N /\ l <= l + 1
          BY <1>1, <1>4, <2>3
        <4> QED
          BY <1>1, <1>6, <1>4, <1>8, <2>3, <4>1 DEF Ascending
      <3>2. q1 = x * (100 - w) + y * w /\ 100 * z <= q3
        BY <1>4, <1>5, <2>3
      <3> HIDE DEF x, y, z
      <3>3. 10000 * x >= lower
        <4>1. CASE w = 25
          BY <1>4, <1>5, <3>1, <3>2, <4>1
        <4>2. CASE w = 50
          BY <1>4, <1>5, <3>1, <3>2, <4>2
        <4> QED
          BY <2>3, <4>1, <4>2
      <3> QED
        BY <1>4, <2>3, <3>3 DEF x
    <2> QED
      BY <1>6, <2>1, <2>2, <2>3
  <1>10. 10000 * s[b] <= upper
    <2>1. s[b] \in Int
      BY <1>6, <1>8
    <2> QED
      BY <1>4, <1>5, <1>7, <2>1
  <1>11. lower \in Int /\ upper \in Int
    BY <1>4, <1>5
  <1> HIDE DEF lower, upper
  <1>12. Cardinality(Outside(values, lower, upper)) <= k + (N - b)
    <2>1. /\ k \in 0..Len(values) /\ b \in 0..Len(values)
          /\ 10000 * Sorted(values)[k + 1] >= lower /\ 10000 * Sorted(values)[b] <= upper
      BY <1>1, <1>6, <1>9, <1>10 DEF N, s
    <2> QED
      BY <1>11, <2>1, OutsideCount DEF N
  <1>13. Cardinality(Outside(values, lower, upper)) \in Nat
    BY OutsideFinite
  <1> QED
    BY <1>1, <1>2, <1>6, <1>12, <1>13 DEF N

\* The bounds of the second method are percentiles of the sample.
LEMMA OutliersP10P90Count ==
    ASSUME NEW values \in Seq(Int), Len(values) >= 4
    PROVE  2 * Cardinality(OutliersP10P90(values)) <= Len(values)
  <1> DEFINE N == Len(values)
             s == Sorted(values)
             p10 == Percentile(s, 10)
             p90 == Percentile(s, 90)
             l == Below(s, 10)
             b == Below(s, 90)
  <1>1. Ascending(s) /\ Len(s) = N /\ s # <<>> /\ N \in Nat /\ N >= 4
    BY SortedAscends
  <1>2. OutliersP10P90(values) = Outside(values, 100 * p10, 100 * p90)
    BY DEF OutliersP10P90
  <1>3. l = (10 * (N - 1)) \div 100 + 1 /\ b = (90 * (N - 1)) \div 100 + 1
    BY <1>1 DEF Below
  <1> HIDE DEF N, s
  <1>4. /\ p10 \in Int /\ l \in 1..N
        /\ l < N => p10 <= 100 * s[l + 1]
    <2>1. /\ p10 \in Int /\ l \in 1..Len(s)
          /\ Above(s, 10) = 0 => p10 = 100 * s[l]
          /\ Above(s, 10) # 0 => p10 <= 100 * s[l + 1]
      <3>1. Ascending(s) /\ s # <<>> /\ 10 \in Nat /\ 10 <= 100
        BY <1>1
      <3> QED
        BY <3>1, PercentileBetween
    <2>2. l \in 1..N
      BY <1>1, <2>1
    <2> HIDE DEF l
    <2>3. CASE Above(s, 10) = 0 /\ l < N
      <3>1. l + 1 \in 1..Len(s) /\ l \in 1..Len(s) /\ l <= l + 1
        BY <1>1, <2>2, <2>3
      <3>2. s[l] \in Int /\ s[l + 1] \in Int /\ s[l] <= s[l + 1]
        BY <1>1, <3>1 DEF Ascending
      <3>3. p10 <= 100 * s[l]
        BY <2>1, <2>3, <3>2
      <3> QED
        BY <2>1, <2>2, <3>2, <3>3, SMTT(30)
    <2> QED
      BY <2>1, <2>2, <2>3
  <1>5. p90 \in Int /\ 100 * s[b] <= p90 /\ b \in 1..N
    <2>1. Ascending(s) /\ s # <<>> /\ 90 \in Nat /\ 90 <= 100
      BY <1>1
    <2>2. p90 \in Int /\ 100 * s[b] <= p90 /\ b \in 1..Len(s)
      BY <2>1, PercentileBetween
    <2> QED
      BY <1>1, <2>2
  <1> HIDE DEF l, b, p10, p90
  <1>6. 2 * (l + (N - b)) <= N /\ l \in 0..N /\ b \in 0..N
    BY <1>1, <1>3, <1>4, <1>5
  <1>7. l < N => 10000 * s[l + 1] >= 100 * p10
    <2>1. l < N => s[l + 1] \in Int
      BY <1>1, <1>4 DEF Ascending
    <2> QED
      BY <1>4, <2>1
  <1>8. 10000 * s[b] <= 100 * p90
    <2>1. s[b] \in Int
      BY <1>1, <1>5 DEF Ascending
    <2> QED
      BY <1>5, <2>1
  <1> DEFINE lower == 100 * p10
             upper == 100 * p90
  <1>9. lower \in Int /\ upper \in Int
    BY <1>4, <1>5
  <1>10. /\ l \in 0..Len(values) /\ b \in 0..Len(values)
         /\ l < Len(values) => 10000 * Sorted(values)[l + 1] >= lower
         /\ 10000 * Sorted(values)[b] <= upper
    BY <1>6, <1>7, <1>8 DEF N, s
  <1>11. OutliersP10P90(values) = Outside(values, lower, upper)
    BY <1>2
  <1> HIDE DEF lower, upper
  <1>12. Cardinality(Outside(values, lower, upper)) <= l + (N - b)
    BY <1>9, <1>10, OutsideCount DEF N
  <1>13. Cardinality(Outside(values, lower, upper)) \in Nat
    BY OutsideFinite
  <1> QED
    BY <1>1, <1>6, <1>11, <1>12, <1>13 DEF N

\* At least half of the deviations are up to their median.
LEMMA OutliersMADCount ==
    ASSUME NEW values \in Seq(Int), Len(values) >= 4
    PROVE  2 * Cardinality(OutliersMAD(values)) <= Len(values)
  <1> DEFINE N == Len(values)
             median == Percentile(Sorted(values), 50)
             dev == [i \in 1..N |-> Abs(100 * values[i] - median)]
             s == Sorted(dev)
             mad == Percentile(s, 50)
             b == Below(s, 50)
             near == {i \in 1..N : 100 * dev[i] <= 3 * mad}
  <1>1. /\ N \in Nat /\ N >= 4 /\ DOMAIN values = 1..N
        /\ \A i \in 1..N : values[i] \in Int
    OBVIOUS
  <1>2. median \in Int
    <2>1. Ascending(Sorted(values)) /\ Sorted(values) # <<>>
      BY <1>1, SortedAscends
    <2> QED
      BY <2>1, PercentileType
  <1>3. OutliersMAD(values) = Outside(values, 100 * median - 3 * mad, 100 * median + 3 * mad)
    <2>1. [i \in DOMAIN values |-> Abs(100 * values[i] - median)] = dev
      BY <1>1
    <2> QED
      BY <2>1 DEF OutliersMAD
  <1> HIDE DEF N, median
  <1>4. dev \in Seq(Int) /\ Len(dev) = N /\ \A i \in 1..N : dev[i] \in Nat
    <2>1. \A i \in 1..N : Abs(100 * values[i] - median) \in Nat
      BY <1>1, <1>2 DEF Abs
    <2>2. \A i \in 1..N : Abs(100 * values[i] - median) \in Int
      BY <2>1
    <2> QED
      BY <1>1, <2>1, <2>2
  <1>5. \A i \in 1..N : dev[i] = Abs(100 * values[i] - median)
    OBVIOUS
  <1> HIDE DEF dev
  <1>6. Ascending(s) /\ Len(s) = N /\ s # <<>> /\ s \in Seq(Int)
    BY <1>1, <1>4, SortedAscends, SortedProperties
  <1>7. b = (50 * (N - 1)) \div 100 + 1
    BY <1>6 DEF Below
  <1> HIDE DEF s
  <1>8. mad \in Int /\ b \in 1..N /\ 100 * s[b] <= mad
    <2>1. Ascending(s) /\ s # <<>> /\ 50 \in Nat /\ 50 <= 100
      BY <1>6
    <2>2. mad \in Int /\ 100 * s[b] <= mad /\ b \in 1..Len(s)
      BY <2>1, PercentileBetween
    <2> QED
      BY <1>6, <2>2
  <1> HIDE DEF b, mad
  <1>9. /\ near \in SUBSET (1..N)
        /\ \A i \in near, j \in 1..N : dev[j] <= dev[i] => j \in near
    <2>1. ASSUME NEW i \in 1..N, NEW j \in 1..N, dev[j] <= dev[i], 100 * dev[i] <= 3 * mad
          PROVE  100 * dev[j] <= 3 * mad
      <3>1. dev[i] \in Int /\ dev[j] \in Int
        BY <1>4
      <3> QED
        BY <1>8, <2>1, <3>1
    <2> QED
      BY <2>1
  <1>10. Cardinality(near) \in b..N
    <2>1. /\ Cardinality(near) \in 0..N
          /\ \A n \in 1..N : \E i \in 1..N : s[n] = dev[i] /\ (i \in near <=> n <= Cardinality(near))
      <3> HIDE DEF near
      <3>1. near \in SUBSET (1..Len(dev))
            /\ \A i \in near, j \in 1..Len(dev) : dev[j] <= dev[i] => j \in near
        BY <1>4, <1>9
      <3>2. /\ Cardinality(near) \in 0..Len(dev)
            /\ \A n \in 1..Len(dev) : \E i \in 1..Len(dev) :
                  Sorted(dev)[n] = dev[i] /\ (i \in near <=> n <= Cardinality(near))
        BY <1>4, <3>1, DownwardSets
      <3> QED
        BY <1>4, <3>2 DEF s
    <2>2. PICK i \in 1..N : s[b] = dev[i] /\ (i \in near <=> b <= Cardinality(near))
      BY <1>8, <2>1
    <2>3. 100 * dev[i] <= 3 * mad
      BY <1>4, <1>8, <2>2
    <2>4. i \in near
      BY <2>3
    <2> QED
      BY <1>1, <1>8, <2>1, <2>2, <2>4
  <1>11. OutliersMAD(values) = (1..N) \ near
    <2>1. ASSUME NEW i \in 1..N
          PROVE  i \in near <=> ~(\/ 10000 * values[i] < 100 * median - 3 * mad
                                  \/ 10000 * values[i] > 100 * median + 3 * mad)
      <3>1. i \in near <=> 100 * dev[i] <= 3 * mad
        OBVIOUS
      <3>2. values[i] \in Int /\ dev[i] = Abs(100 * values[i] - median)
        BY <1>1, <1>5
      <3> DEFINE v == values[i]
                 e == dev[i]
      <3>3. v \in Int /\ median \in Int /\ mad \in Int
            /\ (e = 100 * v - median \/ e = -(100 * v - median)) /\ e >= 0
        <4>1. dev[i] >= 0
          BY <1>4
        <4> QED
          BY <1>2, <1>8, <3>2, <4>1 DEF Abs
      <3> HIDE DEF v, e
      <3>4. 100 * e <= 3 * mad <=> ~(\/ 10000 * v < 100 * median - 3 * mad
                                    \/ 10000 * v > 100 * median + 3 * mad)
        BY <3>3
      <3> QED
        BY <3>1, <3>4 DEF v, e
    <2>2. Outside(values, 100 * median - 3 * mad, 100 * median + 3 * mad)
             = {i \in 1..N : \/ 10000 * values[i] < 100 * median - 3 * mad
                             \/ 10000 * values[i] > 100 * median + 3 * mad}
      BY <1>1 DEF Outside
    <2> HIDE DEF near
    <2> QED
      BY <1>3, <2>1, <2>2
  <1> HIDE DEF near
  <1>12. Cardinality((1..N) \ near) = N - Cardinality(near)
    <2>1. IsFiniteSet(1..N) /\ Cardinality(1..N) = N
      BY <1>1, UpTo
    <2>2. (1..N) \cap near = near
      BY <1>9
    <2>3. Cardinality((1..N) \ near) = Cardinality(1..N) - Cardinality((1..N) \cap near)
      BY <2>1, FS_Difference
    <2> QED
      BY <2>1, <2>2, <2>3
  <1>13. 2 * (N - Cardinality(near)) <= N
    BY <1>1, <1>7, <1>8, <1>10
  <1> QED
    BY <1>11, <1>12, <1>13 DEF N

\* No method calls more than half of a sample outliers.
THEOREM OutliersFew ==
    ASSUME NEW values \in Seq(Int), NEW method
    PROVE  2 * Cardinality(DetectOutliers(values, method)) <= Len(values)
  <1>1. CASE Len(values) < 4
    <2>1. Cardinality(DetectOutliers(values, method)) = 0
      BY <1>1, FS_EmptySet DEF DetectOutliers
    <2> QED
      BY <2>1
  <1>2. CASE Len(values) >= 4
    <2>1. DetectOutliers(values, method)
             \in {OutliersIQR(values), OutliersP10P90(values), OutliersMAD(values)}
      BY <1>2 DEF DetectOutliers
    <2> QED
      BY <1>2, <2>1, OutliersIQRCount, OutliersP10P90Count, OutliersMADCount
  <1> QED
    BY <1>1, <1>2

\* The numbers of a transaction.
LEMMA TxnFields ==
    ASSUME NEW t \in Txn
    PROVE  t.unit \in Nat /\ t.total \in Nat /\ t.land \in Nat /\ t.building \in Nat
  BY DEF Txn

\* A sample is a column of the transactions.
IsColumn(g, txns) == \/ g = PricesPerPing(txns)
                     \/ g = [i \in DOMAIN txns |-> txns[i].total]
                     \/ g = [i \in DOMAIN txns |-> txns[i].unit]
                     \/ g = [i \in DOMAIN txns |-> txns[i].land]
                     \/ g = [i \in DOMAIN txns |-> txns[i].building]

LEMMA ColumnsOfNumbers ==
    ASSUME NEW txns \in Seq(Txn), NEW g, IsColumn(g, txns)
    PROVE  g \in Seq(Int) /\ Len(g) = Len(txns)
  <1>1. \A i \in DOMAIN txns : txns[i] \in Txn
    OBVIOUS
  <1>2. \A i \in DOMAIN txns : /\ txns[i].unit \in Int /\ txns[i].total \in Int
                              /\ txns[i].land \in Int /\ txns[i].building \in Int
    BY <1>1, TxnFields
  <1>3. \A i \in DOMAIN txns : txns[i].unit * 3306 \in Int
    BY <1>2
  <1>4. DOMAIN txns = 1..Len(txns) /\ Len(txns) \in Nat
    OBVIOUS
  <1>5. DOMAIN g = DOMAIN txns /\ \A i \in DOMAIN txns : g[i] \in Int
    <2>1. DOMAIN g = DOMAIN txns
      BY DEF IsColumn, PricesPerPing
    <2>2. ASSUME NEW i \in DOMAIN txns PROVE g[i] \in Int
      <3>1. \/ g[i] = txns[i].unit * 3306 \/ g[i] = txns[i].total \/ g[i] = txns[i].unit
            \/ g[i] = txns[i].land \/ g[i] = txns[i].building
        BY DEF IsColumn, PricesPerPing
      <3> QED
        BY <1>2, <1>3, <3>1
    <2> QED
      BY <2>1, <2>2
  <1>6. g = [i \in 1..Len(txns) |-> g[i]]
    BY <1>4 DEF IsColumn, PricesPerPing
  <1> DEFINE n == Len(txns)
  <1>7. n \in Nat /\ g = [i \in 1..n |-> g[i]] /\ \A i \in 1..n : g[i] \in Int
    BY <1>4, <1>5, <1>6
  <1> HIDE DEF n
  <1>8. g \in Seq(Int) /\ Len(g) = n
    BY <1>7
  <1> QED
    BY <1>8 DEF n

InOrder(s) == /\ s.min <= s.p10 /\ s.p10 <= s.p25 /\ s.p25 <= s.median
              /\ s.median <= s.p75 /\ s.p75 <= s.p90 /\ s.p90 <= s.max

\* What is put out for a sample.
LEMMA SampleComputed ==
    ASSUME OutputIsComputed, output.kind = "sample"
    PROVE  /\ input.txns \in Samples
           /\ output.engine \in CalculateStatistics(input.txns, input.method)
           /\ output.service = ServiceStatistics(input.txns, "here")
  <1>1. input \in [kind : {"sample"}, txns : Samples, method : {"IQR", "P10_P90", "MAD"}]
        /\ \E r \in CalculateStatistics(input.txns, input.method) :
              output = SampleOutput(r, input.txns)
    BY DEF OutputIsComputed, None, RowOutput, SampleOutput, TargetOutput, Inputs
  <1> QED
    BY <1>1 DEF SampleOutput

\* The figures and the outliers of any sample.
THEOREM FiguresOfSample ==
    ASSUME NEW txns \in Seq(Txn), NEW method, NEW r \in CalculateStatistics(txns, method)
    PROVE  /\ InOrder(r.pricePerPing) /\ InOrder(r.total) /\ InOrder(r.unit)
           /\ InOrder(r.land) /\ InOrder(r.building)
           /\ 2 * Cardinality(r.outliers) <= Len(txns)
  <1> DEFINE prices == PricesPerPing(txns)
             totals == [i \in DOMAIN txns |-> txns[i].total]
             units == [i \in DOMAIN txns |-> txns[i].unit]
             lands == [i \in DOMAIN txns |-> txns[i].land]
             buildings == [i \in DOMAIN txns |-> txns[i].building]
  <1>1. txns # <<>>
    BY DEF CalculateStatistics
  <1>2. /\ IsColumn(prices, txns) /\ IsColumn(totals, txns) /\ IsColumn(units, txns)
        /\ IsColumn(lands, txns) /\ IsColumn(buildings, txns)
    BY DEF IsColumn
  <1>3. r = [pricePerPing |-> Summary(prices, 100000), total |-> Summary(totals, 100),
             unit |-> Summary(units, 100), land |-> Summary(lands, 1),
             building |-> Summary(buildings, 1), outliers |-> DetectOutliers(prices, method)]
    BY SMTT(30) DEF CalculateStatistics, PriceStatistics, AreaStatistics
  <1> HIDE DEF prices, totals, units, lands, buildings
  <1>4. ASSUME NEW g, IsColumn(g, txns), NEW fraction \in {1, 100, 100000}
        PROVE  InOrder(Summary(g, fraction))
    <2>1. g \in Seq(Int) /\ Len(g) = Len(txns)
      BY <1>4, ColumnsOfNumbers
    <2>2. g # <<>>
      BY <1>1, <2>1
    <2> QED
      BY <2>1, <2>2, SummaryRises DEF InOrder
  <1>5. 2 * Cardinality(DetectOutliers(prices, method)) <= Len(txns)
    <2>1. prices \in Seq(Int) /\ Len(prices) = Len(txns)
      BY <1>2, ColumnsOfNumbers
    <2> QED
      BY <2>1, OutliersFew
  <1>6. /\ r.pricePerPing = Summary(prices, 100000) /\ r.total = Summary(totals, 100)
        /\ r.unit = Summary(units, 100) /\ r.land = Summary(lands, 1)
        /\ r.building = Summary(buildings, 1) /\ r.outliers = DetectOutliers(prices, method)
    BY <1>3
  <1> QED
    BY <1>2, <1>4, <1>5, <1>6

\* The run's property, from the theorem.
THEOREM FiguresAreOrdered == Spec => []StatisticsAreOrdered
  <1>1. OutputIsComputed => StatisticsAreOrdered
    <2> SUFFICES ASSUME OutputIsComputed, output.kind = "sample" PROVE StatisticsAreOrdered
      BY DEF StatisticsAreOrdered
    <2>1. /\ input.txns \in Samples
          /\ output.engine \in CalculateStatistics(input.txns, input.method)
      BY SampleComputed
    <2>2. input.txns \in Seq(Txn)
      BY <2>1, SampleAssumption
    <2> QED
      BY <2>1, <2>2, FiguresOfSample DEF StatisticsAreOrdered, InOrder
  <1> QED
    BY <1>1, OutputInvariant, PTL

----------------------------------------------------------------------------
(* The database and the engine *)

\* The value of rank r, as percentile_cont finds it.
RankedValue(values, r) ==
    CHOOSE v \in Range(values) :
        /\ Cardinality({i \in DOMAIN values : values[i] < v}) <= r
        /\ r < Cardinality({i \in DOMAIN values : values[i] < v})
               + Cardinality({i \in DOMAIN values : values[i] = v})

\* It is the one at that place of the sorted sample.
LEMMA RankedIsSorted ==
    ASSUME NEW values \in Seq(Int), NEW r \in 0..(Len(values) - 1)
    PROVE  RankedValue(values, r) = Sorted(values)[r + 1]
  <1> DEFINE N == Len(values)
             x == Sorted(values)[r + 1]
             less(v) == {i \in 1..N : values[i] < v}
             same(v) == {i \in 1..N : values[i] = v}
             upTo(v) == {i \in 1..N : values[i] <= v}
  <1>1. N \in Nat /\ DOMAIN values = 1..N /\ r + 1 \in 1..N /\ \A i \in 1..N : values[i] \in Int
    OBVIOUS
  <1>2. Range(values) \subseteq Int /\ \A i \in 1..N : values[i] \in Range(values)
    BY <1>1 DEF Range
  <1>3. x \in Range(values) /\ x \in Int
    <2>1. PICK at \in Bijection(1..N, 1..N) : \A n \in 1..N : Sorted(values)[n] = values[at[n]]
      BY SortedProperties
    <2>2. at[r + 1] \in 1..N
      BY <1>1, <2>1 DEF Bijection, Injection
    <2> QED
      BY <1>1, <1>2, <2>1, <2>2
  <1> HIDE DEF N, x
  <1>4. ASSUME NEW v \in Int
        PROVE  /\ Cardinality(less(v)) \in Nat /\ Cardinality(upTo(v)) \in Nat
               /\ x < v <=> r + 1 <= Cardinality(less(v))
               /\ x <= v <=> r + 1 <= Cardinality(upTo(v))
    <2>1. /\ less(v) \in SUBSET (1..N)
          /\ \A i \in less(v), j \in 1..N : values[j] <= values[i] => j \in less(v)
      BY <1>1
    <2>2. /\ upTo(v) \in SUBSET (1..N)
          /\ \A i \in upTo(v), j \in 1..N : values[j] <= values[i] => j \in upTo(v)
      BY <1>1
    <2>3. \A i \in 1..N : (i \in less(v) <=> values[i] < v) /\ (i \in upTo(v) <=> values[i] <= v)
      OBVIOUS
    <2> DEFINE l == less(v)
               u == upTo(v)
    <2> HIDE DEF less, upTo, l, u
    <2>4. Cardinality(l) \in Nat /\ (x < v <=> r + 1 <= Cardinality(l))
      <3>1. /\ Cardinality(l) \in Nat
            /\ \E i \in 1..N : x = values[i] /\ (i \in l <=> r + 1 <= Cardinality(l))
        <4>1. l \in SUBSET (1..Len(values))
              /\ \A i \in l, j \in 1..Len(values) : values[j] <= values[i] => j \in l
          BY <2>1 DEF l, N
        <4>2. r + 1 \in 1..Len(values)
          BY <1>1 DEF N
        <4>3. /\ Cardinality(l) \in 0..Len(values)
              /\ \A n \in 1..Len(values) : \E i \in 1..Len(values) :
                    Sorted(values)[n] = values[i] /\ (i \in l <=> n <= Cardinality(l))
          BY <4>1, DownwardSets
        <4> QED
          BY <4>2, <4>3 DEF N, x
      <3> QED
        BY <2>3, <3>1 DEF l
    <2>5. Cardinality(u) \in Nat /\ (x <= v <=> r + 1 <= Cardinality(u))
      <3>1. /\ Cardinality(u) \in Nat
            /\ \E i \in 1..N : x = values[i] /\ (i \in u <=> r + 1 <= Cardinality(u))
        <4>1. u \in SUBSET (1..Len(values))
              /\ \A i \in u, j \in 1..Len(values) : values[j] <= values[i] => j \in u
          BY <2>2 DEF u, N
        <4>2. r + 1 \in 1..Len(values)
          BY <1>1 DEF N
        <4>3. /\ Cardinality(u) \in 0..Len(values)
              /\ \A n \in 1..Len(values) : \E i \in 1..Len(values) :
                    Sorted(values)[n] = values[i] /\ (i \in u <=> n <= Cardinality(u))
          BY <4>1, DownwardSets
        <4> QED
          BY <4>2, <4>3 DEF N, x
      <3> QED
        BY <2>3, <3>1 DEF u
    <2> QED
      BY <2>4, <2>5 DEF l, u
  <1>5. ASSUME NEW v \in Int
        PROVE  /\ Cardinality(upTo(v)) = Cardinality(less(v)) + Cardinality(same(v))
               /\ Cardinality(same(v)) \in Nat
    <2>1. IsFiniteSet(1..N)
      BY <1>1, UpTo
    <2>2. less(v) \in SUBSET (1..N) /\ same(v) \in SUBSET (1..N)
      OBVIOUS
    <2>3. upTo(v) = less(v) \cup same(v) /\ less(v) \cap same(v) = {}
      BY <1>1
    <2> HIDE DEF less, same, upTo
    <2>4. IsFiniteSet(less(v)) /\ IsFiniteSet(same(v))
      BY <2>1, <2>2, FS_Subset
    <2>5. Cardinality(less(v) \cup same(v))
             = Cardinality(less(v)) + Cardinality(same(v)) - Cardinality(less(v) \cap same(v))
      BY <2>4, FS_Union
    <2>6. Cardinality(less(v) \cap same(v)) = 0
      BY <2>3, FS_EmptySet
    <2>7. Cardinality(less(v)) \in Nat /\ Cardinality(same(v)) \in Nat
      BY <2>4, FS_CardinalityType
    <2> QED
      BY <2>3, <2>5, <2>6, <2>7
  <1> HIDE DEF less, same, upTo
  <1>6. ASSUME NEW v \in Range(values)
        PROVE  /\ Cardinality(less(v)) <= r /\ r < Cardinality(less(v)) + Cardinality(same(v))
               <=> v = x
    <2>1. v \in Int
      BY <1>2
    <2>2. r \in Int /\ x \in Int /\ (v = x <=> x <= v /\ ~(x < v))
      BY <1>3, <2>1
    <2>3. /\ Cardinality(less(v)) \in Nat /\ Cardinality(same(v)) \in Nat
          /\ x < v <=> r + 1 <= Cardinality(less(v))
          /\ x <= v <=> r + 1 <= Cardinality(less(v)) + Cardinality(same(v))
      BY <1>4, <1>5, <2>1
    <2> QED
      BY <2>2, <2>3
  <1>7. RankedValue(values, r)
           = CHOOSE v \in Range(values) :
                /\ Cardinality(less(v)) <= r
                /\ r < Cardinality(less(v)) + Cardinality(same(v))
    BY <1>1 DEF RankedValue, less, same
  <1>8. RankedValue(values, r) = x
    BY <1>3, <1>6, <1>7
  <1> QED
    BY <1>8 DEF x

\* percentile_cont and the engine's percentile are the same.
THEOREM PercentilesAgree ==
    ASSUME NEW values \in Seq(Int), values # <<>>, NEW p \in Nat, p <= 100
    PROVE  PercentileCont(values, p) = Percentile(Sorted(values), p)
  <1> DEFINE s == Sorted(values)
             n == Len(values) - 1
             rank == p * n
             low == rank \div 100
             up == (rank + 99) \div 100
             w == rank % 100
  <1>1. n \in Nat /\ Len(s) = Len(values) /\ Ascending(s) /\ s # <<>>
    BY SortedAscends
  <1>2. PercentileCont(values, p)
           = 100 * RankedValue(values, low) + w * (RankedValue(values, up) - RankedValue(values, low))
    BY <1>1 DEF PercentileCont, RankedValue
  <1>3. Percentile(s, p) = IF w = 0 THEN 100 * s[low + 1]
                           ELSE s[low + 1] * (100 - w) + s[low + 2] * w
    <2>1. (rank \div 100 + 1) + 1 = rank \div 100 + 2
      <3>1. rank \in Nat
        BY <1>1
      <3> HIDE DEF rank
      <3> QED
        BY <3>1
    <2> QED
      BY <1>1, <2>1 DEF Percentile
  <1>4. rank \in 0..(100 * n)
    BY <1>1
  <1> HIDE DEF rank, s
  <1>5. /\ low \in 0..n /\ up \in 0..n /\ w \in Nat
        /\ w = 0 => up = low
        /\ w # 0 => up = low + 1
    BY <1>1, <1>4
  <1>6. RankedValue(values, low) = s[low + 1] /\ RankedValue(values, up) = s[up + 1]
    BY <1>5, RankedIsSorted DEF s
  <1>7. s[low + 1] \in Int /\ s[up + 1] \in Int
    <2>1. low + 1 \in 1..Len(s) /\ up + 1 \in 1..Len(s)
      BY <1>1, <1>5
    <2> QED
      BY <1>1, <2>1 DEF Ascending
  <1> DEFINE a == s[low + 1]
             b == s[up + 1]
  <1>8. PercentileCont(values, p) = 100 * a + w * (b - a)
    BY <1>2, <1>6
  <1>9. Percentile(s, p) = IF w = 0 THEN 100 * a ELSE a * (100 - w) + b * w
    <2>1. w # 0 => low + 2 = up + 1
      BY <1>5
    <2> QED
      BY <1>3, <2>1
  <1>10. a \in Int /\ b \in Int
    BY <1>7
  <1> HIDE DEF a, b, w, low, up
  <1>11. 100 * a + w * (b - a) = a * (100 - w) + b * w /\ (w = 0 => w * (b - a) = 0)
    BY <1>5, <1>10
  <1>12. PercentileCont(values, p) = Percentile(s, p)
    BY <1>5, <1>8, <1>9, <1>10, <1>11
  <1> QED
    BY <1>12 DEF s

\* The least and the greatest value are the ends of the sorted sample.
LEMMA ExtremesAgree ==
    ASSUME NEW values \in Seq(Int), values # <<>>
    PROVE  /\ Sorted(values)[1] \in Int /\ Sorted(values)[Len(values)] \in Int
           /\ Percentile(Sorted(values), 0) = 100 * Sorted(values)[1]
           /\ Percentile(Sorted(values), 100) = 100 * Sorted(values)[Len(values)]
           /\ Min(Range(values)) = Sorted(values)[1]
           /\ Max(Range(values)) = Sorted(values)[Len(values)]
  <1> DEFINE s == Sorted(values)
             N == Len(values)
  <1>1. /\ N \in Nat /\ N >= 1 /\ DOMAIN values = 1..N /\ \A i \in 1..N : values[i] \in Int
        /\ 1 \in 1..N /\ N \in 1..N
    OBVIOUS
  <1>2. /\ Len(s) = N /\ s # <<>> /\ \A i \in 1..N : s[i] \in Int
        /\ \A n, m \in 1..N : n <= m => s[n] <= s[m]
    BY SortedAscends DEF Ascending
  <1>3. PICK at \in Bijection(1..N, 1..N) : \A n \in 1..N : s[n] = values[at[n]]
    BY SortedProperties
  <1>4. /\ \A n \in 1..N : at[n] \in 1..N
        /\ \A i \in 1..N : \E n \in 1..N : at[n] = i
    BY DEF Bijection, Injection, Surjection
  <1>5. Percentile(s, 0) = 100 * s[1] /\ Percentile(s, 100) = 100 * s[N]
    <2>1. /\ (0 * (N - 1)) \div 100 + 1 = 1 /\ (0 * (N - 1)) % 100 = 0
          /\ (100 * (N - 1)) \div 100 + 1 = N /\ (100 * (N - 1)) % 100 = 0
      <3> HIDE DEF N
      <3> QED
        BY <1>1
    <2> QED
      BY <1>2, <2>1 DEF Percentile
  <1> HIDE DEF s, N
  <1>6. Range(values) = {values[i] : i \in 1..N}
    BY <1>1 DEF Range
  <1>7. /\ s[1] \in Range(values) /\ s[N] \in Range(values)
    BY <1>1, <1>3, <1>4, <1>6
  <1>8. \A v \in Range(values) : v \in Int /\ s[1] <= v /\ v <= s[N]
    <2>1. ASSUME NEW i \in 1..N PROVE values[i] \in Int /\ s[1] <= values[i] /\ values[i] <= s[N]
      <3>1. PICK n \in 1..N : at[n] = i
        BY <1>4
      <3>2. s[n] = values[i] /\ 1 <= n /\ n <= N
        BY <1>1, <1>3, <3>1
      <3> QED
        BY <1>1, <1>2, <3>2
    <2> QED
      BY <1>6, <2>1
  <1>9. s[1] \in Int /\ s[N] \in Int
    BY <1>1, <1>2
  <1>10. Min(Range(values)) = s[1]
    BY <1>7, <1>8, <1>9 DEF Min
  <1>11. Max(Range(values)) = s[N]
    BY <1>7, <1>8, <1>9 DEF Max
  <1> QED
    BY <1>5, <1>9, <1>10, <1>11 DEF s, N

\* The service's figures of a section are the engine's.
THEOREM ServiceAgrees ==
    ASSUME NEW txns \in Seq(Txn), NEW section, OfSection(txns, section) # <<>>
    PROVE  LET found   == OfSection(txns, section)
               service == ServiceStatistics(txns, section)
               own     == PriceStatistics([i \in DOMAIN found |-> found[i].total])
           IN  /\ service.count = own.count /\ service.min = own.min /\ service.p25 = own.p25
               /\ service.median = own.median /\ service.p75 = own.p75 /\ service.max = own.max
  <1> DEFINE found == OfSection(txns, section)
             totals == [i \in DOMAIN found |-> found[i].total]
             s == Sorted(totals)
  <1>1. found \in Seq(Txn)
    <2> DEFINE K == {i \in DOMAIN txns : section # "" /\ txns[i].section = section}
    <2>1. found = Keep(txns, K) /\ K \in SUBSET DOMAIN txns
      BY DEF OfSection
    <2> HIDE DEF K, found
    <2> QED
      BY <2>1, KeepProperties
  <1>2. IsColumn(totals, found)
    BY DEF IsColumn
  <1>3. found # <<>>
    OBVIOUS
  <1>4. /\ ServiceStatistics(txns, section).count = Len(totals)
        /\ ServiceStatistics(txns, section).min = IF totals = <<>> THEN 0 ELSE Min(Range(totals))
        /\ ServiceStatistics(txns, section).p25 = PercentileCont(totals, 25) \div 100
        /\ ServiceStatistics(txns, section).median = PercentileCont(totals, 50) \div 100
        /\ ServiceStatistics(txns, section).p75 = PercentileCont(totals, 75) \div 100
        /\ ServiceStatistics(txns, section).max = IF totals = <<>> THEN 0 ELSE Max(Range(totals))
    BY DEF ServiceStatistics
  <1> HIDE DEF found
  <1>5. PriceStatistics([i \in DOMAIN OfSection(txns, section) |-> OfSection(txns, section)[i].total])
           = PriceStatistics(totals)
    BY DEF found
  <1> HIDE DEF totals
  <1>6. totals \in Seq(Int) /\ Len(totals) = Len(found) /\ totals # <<>>
    BY <1>1, <1>2, <1>3, ColumnsOfNumbers
  <1>7. /\ PriceStatistics(totals).count = Len(s)
        /\ PriceStatistics(totals).min = Percentile(s, 0) \div 100
        /\ PriceStatistics(totals).p25 = Percentile(s, 25) \div 100
        /\ PriceStatistics(totals).median = Percentile(s, 50) \div 100
        /\ PriceStatistics(totals).p75 = Percentile(s, 75) \div 100
        /\ PriceStatistics(totals).max = Percentile(s, 100) \div 100
    BY DEF PriceStatistics, Summary
  <1>8. /\ PercentileCont(totals, 25) = Percentile(s, 25)
        /\ PercentileCont(totals, 50) = Percentile(s, 50)
        /\ PercentileCont(totals, 75) = Percentile(s, 75)
    BY <1>6, PercentilesAgree
  <1>9. Len(s) = Len(totals)
    BY <1>6, SortedAscends
  <1>10. /\ Percentile(s, 0) \div 100 = Min(Range(totals))
         /\ Percentile(s, 100) \div 100 = Max(Range(totals))
    <2>1. /\ Min(Range(totals)) \in Int /\ Percentile(s, 0) = 100 * Min(Range(totals))
          /\ Max(Range(totals)) \in Int /\ Percentile(s, 100) = 100 * Max(Range(totals))
      BY <1>6, ExtremesAgree
    <2> HIDE DEF s
    <2> QED
      BY <2>1
  <1> HIDE DEF s
  <1> QED
    BY <1>4, <1>5, <1>6, <1>7, <1>8, <1>9, <1>10

\* The run's property, from the theorem.
THEOREM EngineAndServiceAgree == Spec => []StatisticsAgree
  <1>1. OutputIsComputed => StatisticsAgree
    <2> SUFFICES ASSUME OutputIsComputed, output.kind = "sample",
                        OfSection(input.txns, "here") # <<>>
                 PROVE  LET here == OfSection(input.txns, "here")
                            own  == PriceStatistics([i \in DOMAIN here |-> here[i].total])
                        IN  \A k \in {"count", "min", "p25", "median", "p75", "max"} :
                               output.service[k] = own[k]
      BY DEF StatisticsAgree
    <2>1. /\ input.txns \in Samples
          /\ output.service = ServiceStatistics(input.txns, "here")
      BY SampleComputed
    <2>2. input.txns \in Seq(Txn)
      BY <2>1, SampleAssumption
    <2> QED
      BY <2>1, <2>2, ServiceAgrees
  <1> QED
    BY <1>1, OutputInvariant, PTL

----------------------------------------------------------------------------
(* Valuations *)

\* The figures of a graded comparable.
LEMMA GradedFields ==
    ASSUME NEW g \in Graded
    PROVE  /\ g.score \in Nat /\ g.score <= 10000 /\ g.areaSim \in Nat /\ g.distance \in Nat
           /\ g.zoneMatch \in BOOLEAN
  BY DEF Graded

\* A percentile lies between any bounds of the sample.
LEMMA PercentileBounded ==
    ASSUME NEW values \in Seq(Int), values # <<>>, NEW lo \in Int, NEW hi \in Int,
           \A i \in DOMAIN values : lo <= values[i] /\ values[i] <= hi,
           NEW p \in Nat, p <= 100
    PROVE  /\ Percentile(Sorted(values), p) \in Int
           /\ 100 * lo <= Percentile(Sorted(values), p)
           /\ Percentile(Sorted(values), p) <= 100 * hi
  <1> DEFINE s == Sorted(values)
             N == Len(values)
  <1>1. Ascending(s) /\ Len(s) = N /\ s # <<>>
    BY SortedAscends
  <1>2. PICK at \in Bijection(1..N, 1..N) : \A n \in 1..N : s[n] = values[at[n]]
    BY SortedProperties
  <1>3. \A n \in 1..N : lo <= s[n] /\ s[n] <= hi /\ s[n] \in Int
    <2>1. \A n \in 1..N : at[n] \in DOMAIN values
      BY <1>2 DEF Bijection, Injection
    <2>2. \A n \in 1..N : s[n] \in Int
      BY <1>1 DEF Ascending
    <2> QED
      BY <1>2, <2>1, <2>2
  <1> HIDE DEF s, N
  <1>4. /\ Percentile(s, p) \in Int /\ Below(s, p) \in 1..N
        /\ 100 * s[Below(s, p)] <= Percentile(s, p)
        /\ \/ Percentile(s, p) = 100 * s[Below(s, p)]
           \/ /\ Below(s, p) + 1 \in 1..N
              /\ Percentile(s, p) <= 100 * s[Below(s, p) + 1]
    <2>1. /\ Percentile(s, p) \in Int /\ Below(s, p) \in 1..Len(s)
          /\ 100 * s[Below(s, p)] <= Percentile(s, p)
          /\ Above(s, p) = 0 => Percentile(s, p) = 100 * s[Below(s, p)]
          /\ Above(s, p) # 0 => /\ Below(s, p) + 1 \in 1..Len(s)
                                /\ Percentile(s, p) <= 100 * s[Below(s, p) + 1]
      BY <1>1, PercentileBetween
    <2> QED
      BY <1>1, <2>1
  <1> DEFINE l == Below(s, p)
             x == s[l]
             y == s[l + 1]
  <1> HIDE DEF l
  <1>5. x \in Int /\ lo <= x /\ x <= hi /\ 100 * x <= Percentile(s, p) /\ Percentile(s, p) \in Int
    BY <1>3, <1>4 DEF l
  <1>6. \/ Percentile(s, p) = 100 * x
        \/ y \in Int /\ y <= hi /\ Percentile(s, p) <= 100 * y
    BY <1>3, <1>4 DEF l
  <1> HIDE DEF x, y
  <1>7. 100 * lo <= Percentile(s, p) /\ Percentile(s, p) <= 100 * hi
    BY <1>5, <1>6
  <1> QED
    BY <1>5, <1>7 DEF s

\* What a valuation that is completed says.
THEOREM ValuationIsOrdered ==
    ASSUME NEW params, NEW comparables \in Seq(Graded), NEW median \in Nat,
           Valuate(params, comparables, median).status = "COMPLETED"
    PROVE  LET v == Valuate(params, comparables, median)
           IN  /\ v.bear <= v.base /\ v.base <= v.bull
               /\ 95 * median <= 100 * (v.bear + 1) /\ 100 * v.bull <= 105 * median
  <1> DEFINE values == ExtractPrices(comparables, median)
             s == Sorted(values)
             at(p) == Percentile(s, p) \div 10000000
  <1>1. /\ s # <<>>
        /\ Valuate(params, comparables, median).bear = at(25)
        /\ Valuate(params, comparables, median).base = at(50)
        /\ Valuate(params, comparables, median).bull = at(75)
    BY DEF Valuate, InsufficientData
  <1>2. median > 0 /\ values = [i \in DOMAIN comparables |-> median * (95000 + comparables[i].score)]
    <2>1. CASE median <= 0
      <3>1. values = <<>>
        BY <2>1 DEF ExtractPrices
      <3>2. <<>> \in Seq(Int)
        OBVIOUS
      <3>3. Sorted(<<>>) = <<>>
        BY <3>2, SortedAscends
      <3> QED
        BY <1>1, <3>1, <3>3
    <2>2. CASE median > 0
      BY <2>2 DEF ExtractPrices
    <2> QED
      BY <2>1, <2>2
  <1>3. ASSUME NEW i \in DOMAIN comparables
        PROVE  /\ median * (95000 + comparables[i].score) \in Int
               /\ 95000 * median <= median * (95000 + comparables[i].score)
               /\ median * (95000 + comparables[i].score) <= 105000 * median
    <2> DEFINE c == comparables[i].score
    <2>1. comparables[i] \in Graded
      OBVIOUS
    <2>2. c \in Nat /\ c <= 10000
      BY <2>1, GradedFields
    <2> HIDE DEF c
    <2>3. median * c \in Nat /\ median * (10000 - c) \in Nat
      BY <2>2
    <2>4. median * (95000 + c) = 95000 * median + median * c
      BY <2>2
    <2>5. median * (95000 + c) = 105000 * median - median * (10000 - c)
      BY <2>2
    <2>6. /\ median * (95000 + c) \in Int
          /\ 95000 * median <= median * (95000 + c) /\ median * (95000 + c) <= 105000 * median
      BY <2>3, <2>4, <2>5
    <2> QED
      BY <2>6 DEF c
  <1>4. /\ values \in Seq(Int)
        /\ \A i \in DOMAIN values : 95000 * median <= values[i] /\ values[i] <= 105000 * median
    <2>1. DOMAIN comparables = 1..Len(comparables) /\ Len(comparables) \in Nat
      OBVIOUS
    <2>2. DOMAIN values = DOMAIN comparables
      BY <1>2
    <2>3. \A i \in DOMAIN comparables :
             values[i] \in Int /\ 95000 * median <= values[i] /\ values[i] <= 105000 * median
      BY <1>2, <1>3
    <2>4. values = [i \in 1..Len(comparables) |-> values[i]]
      BY <1>2, <2>1
    <2> HIDE DEF values
    <2>5. values \in Seq(Int)
      BY <2>1, <2>2, <2>3, <2>4
    <2> QED
      BY <2>2, <2>3, <2>5
  <1> HIDE DEF values
  <1>5. Ascending(s) /\ values # <<>>
    BY <1>1, <1>4, SortedAscends
  <1>6. Percentile(s, 25) <= Percentile(s, 50) /\ Percentile(s, 50) <= Percentile(s, 75)
    BY <1>1, <1>5, PercentileRises
  <1>7. 95000 * median \in Int /\ 105000 * median \in Int
    OBVIOUS
  <1>8. ASSUME NEW p \in Nat, p <= 100
        PROVE  /\ Percentile(s, p) \in Int
               /\ 100 * (95000 * median) <= Percentile(s, p)
               /\ Percentile(s, p) <= 100 * (105000 * median)
    <2> DEFINE lo == 95000 * median
               hi == 105000 * median
    <2>1. lo \in Int /\ hi \in Int /\ \A i \in DOMAIN values : lo <= values[i] /\ values[i] <= hi
      BY <1>4, <1>7
    <2> HIDE DEF lo, hi
    <2>2. /\ Percentile(s, p) \in Int /\ 100 * lo <= Percentile(s, p)
          /\ Percentile(s, p) <= 100 * hi
      <3>1. values \in Seq(Int) /\ values # <<>> /\ p <= 100
        BY <1>4, <1>5, <1>8
      <3> QED
        BY <2>1, <3>1, PercentileBounded
    <2> QED
      BY <2>2 DEF lo, hi
  <1> DEFINE bear == Percentile(s, 25)
             base == Percentile(s, 50)
             bull == Percentile(s, 75)
  <1>9. /\ bear \in Int /\ base \in Int /\ bull \in Int /\ bear <= base /\ base <= bull
        /\ 100 * (95000 * median) <= bear /\ bull <= 100 * (105000 * median)
    BY <1>6, <1>8
  <1> HIDE DEF bear, base, bull, s
  <1>10. /\ bear \div 10000000 <= base \div 10000000 /\ base \div 10000000 <= bull \div 10000000
         /\ 95 * median <= 100 * (bear \div 10000000 + 1)
         /\ 100 * (bull \div 10000000) <= 105 * median
    BY <1>9
  <1> QED
    BY <1>1, <1>10 DEF bear, base, bull

\* What is put out for a valuation.
LEMMA ValuationComputed ==
    ASSUME OutputIsComputed, output.kind = "valuation"
    PROVE  /\ input.comparables \in Gradings /\ input.median \in Medians
           /\ output.valuation = Valuate(Params, input.comparables, input.median)
  <1>1. input \in [kind : {"valuation"}, comparables : Gradings, median : Medians]
        /\ output = [kind |-> "valuation",
                     valuation |-> Valuate(Params, input.comparables, input.median)]
    BY DEF OutputIsComputed, None, RowOutput, SampleOutput, TargetOutput, Inputs
  <1> QED
    BY <1>1

\* The run's property, from the theorem.
THEOREM ValuesInOrder == Spec => []ValuesAreOrdered
  <1>1. OutputIsComputed => ValuesAreOrdered
    <2> SUFFICES ASSUME OutputIsComputed, output.kind = "valuation",
                        output.valuation.status = "COMPLETED"
                 PROVE  LET v == output.valuation
                        IN  /\ v.bear <= v.base /\ v.base <= v.bull
                            /\ 95 * input.median <= 100 * (v.bear + 1)
                            /\ 100 * v.bull <= 105 * input.median
      BY DEF ValuesAreOrdered
    <2>1. /\ input.comparables \in Gradings /\ input.median \in Medians
          /\ output.valuation = Valuate(Params, input.comparables, input.median)
      BY ValuationComputed
    <2>2. input.comparables \in Seq(Graded) /\ input.median \in Nat
      BY <2>1, SampleAssumption
    <2> QED
      BY <2>1, <2>2, ValuationIsOrdered
  <1> QED
    BY <1>1, OutputInvariant, PTL

\* The sums over comparables of which one is replaced by a better one.
LEMMA BetterSums ==
    ASSUME NEW c \in Seq(Graded), NEW i \in DOMAIN c, NEW q \in Graded,
           q.score >= c[i].score, q.areaSim >= c[i].areaSim, q.distance <= c[i].distance,
           c[i].zoneMatch => q.zoneMatch,
           NEW d, d = [c EXCEPT ![i] = q]
    PROVE  /\ Len(d) = Len(c)
           /\ Sum(c, "areaSim") \in Int /\ Sum(d, "areaSim") \in Int
           /\ Sum(c, "areaSim") <= Sum(d, "areaSim")
           /\ Sum(c, "score") \in Int /\ Sum(d, "score") \in Int
           /\ Sum(c, "score") <= Sum(d, "score")
           /\ Sum(c, "distance") \in Int /\ Sum(d, "distance") \in Int
           /\ Sum(d, "distance") <= Sum(c, "distance")
           /\ Zoning(c) \in Int /\ Zoning(d) \in Int /\ Zoning(c) <= Zoning(d)
  <1> DEFINE N == Len(c)
             zone(g) == IF g.zoneMatch THEN 100 ELSE 0
  <1>1. /\ N \in Nat /\ DOMAIN c = 1..N /\ DOMAIN d = 1..N /\ d \in Seq(Graded) /\ Len(d) = N
        /\ \A j \in 1..N : c[j] \in Graded /\ d[j] \in Graded
        /\ \A j \in 1..N : j # i => d[j] = c[j]
        /\ d[i] = q
    OBVIOUS
  <1>2. ASSUME NEW j \in 1..N
        PROVE  /\ c[j].areaSim \in Int /\ d[j].areaSim \in Int /\ c[j].areaSim <= d[j].areaSim
               /\ c[j].score \in Int /\ d[j].score \in Int /\ c[j].score <= d[j].score
               /\ c[j].distance \in Int /\ d[j].distance \in Int /\ d[j].distance <= c[j].distance
               /\ zone(c[j]) \in Int /\ zone(d[j]) \in Int /\ zone(c[j]) <= zone(d[j])
    <2>1. /\ c[j].areaSim \in Int /\ d[j].areaSim \in Int
          /\ c[j].score \in Int /\ d[j].score \in Int
          /\ c[j].distance \in Int /\ d[j].distance \in Int
      BY <1>1, GradedFields
    <2>2. /\ c[j].areaSim <= d[j].areaSim /\ c[j].score <= d[j].score
          /\ d[j].distance <= c[j].distance /\ (c[j].zoneMatch => d[j].zoneMatch)
      <3>1. CASE j = i
        BY <1>1, <3>1
      <3>2. CASE j # i
        BY <1>1, <2>1, <3>2
      <3> QED
        BY <3>1, <3>2
    <2> QED
      BY <2>1, <2>2
  <1> DEFINE area(e) == [j \in 1..N |-> e[j].areaSim]
             score(e) == [j \in 1..N |-> e[j].score]
             dist(e) == [j \in 1..N |-> e[j].distance]
             zones(e) == [j \in 1..N |-> zone(e[j])]
  <1>3. \A e \in {c, d} : /\ Sum(e, "areaSim") = Total(area(e)) /\ Sum(e, "score") = Total(score(e))
                          /\ Sum(e, "distance") = Total(dist(e)) /\ Zoning(e) = Total(zones(e))
    BY <1>1 DEF Sum, Zoning
  <1> HIDE DEF zone, N
  <1>4. /\ area(c) \in Seq(Int) /\ area(d) \in Seq(Int) /\ score(c) \in Seq(Int) /\ score(d) \in Seq(Int)
        /\ dist(c) \in Seq(Int) /\ dist(d) \in Seq(Int) /\ zones(c) \in Seq(Int) /\ zones(d) \in Seq(Int)
    <2>1. N \in Nat
      BY <1>1
    <2>2. area(c) \in [1..N -> Int] /\ area(d) \in [1..N -> Int]
      BY <1>2
    <2>3. score(c) \in [1..N -> Int] /\ score(d) \in [1..N -> Int]
      BY <1>2
    <2>4. dist(c) \in [1..N -> Int] /\ dist(d) \in [1..N -> Int]
      BY <1>2
    <2>5. zones(c) \in [1..N -> Int] /\ zones(d) \in [1..N -> Int]
      BY <1>2
    <2>6. \A f \in [1..N -> Int] : f \in Seq(Int)
      BY <2>1
    <2> HIDE DEF area, score, dist, zones
    <2> QED
      BY <2>2, <2>3, <2>4, <2>5, <2>6
  <1>5. /\ Len(area(c)) = N /\ Len(area(d)) = N /\ \A j \in 1..N : area(c)[j] <= area(d)[j]
        /\ Len(score(c)) = N /\ Len(score(d)) = N /\ \A j \in 1..N : score(c)[j] <= score(d)[j]
        /\ Len(dist(c)) = N /\ Len(dist(d)) = N /\ \A j \in 1..N : dist(d)[j] <= dist(c)[j]
        /\ Len(zones(c)) = N /\ Len(zones(d)) = N /\ \A j \in 1..N : zones(c)[j] <= zones(d)[j]
    BY <1>1, <1>2
  <1> HIDE DEF area, score, dist, zones
  <1>6. /\ Total(area(c)) <= Total(area(d)) /\ Total(score(c)) <= Total(score(d))
        /\ Total(dist(d)) <= Total(dist(c)) /\ Total(zones(c)) <= Total(zones(d))
    BY <1>4, <1>5, TotalMonotone
  <1>7. /\ Total(area(c)) \in Int /\ Total(area(d)) \in Int
        /\ Total(score(c)) \in Int /\ Total(score(d)) \in Int
        /\ Total(dist(d)) \in Int /\ Total(dist(c)) \in Int
        /\ Total(zones(c)) \in Int /\ Total(zones(d)) \in Int
    BY <1>4, TotalType
  <1> QED
    BY <1>1, <1>3, <1>6, <1>7 DEF N

\* Each level asks for sums that a better comparable can only bring closer.
THEOREM ConfidenceRises ==
    ASSUME NEW c \in Seq(Graded), NEW i \in DOMAIN c, NEW q \in Graded,
           q.score >= c[i].score, q.areaSim >= c[i].areaSim, q.distance <= c[i].distance,
           c[i].zoneMatch => q.zoneMatch
    PROVE  Level[Confidence(c)] <= Level[Confidence([c EXCEPT ![i] = q])]
  <1> DEFINE d == [c EXCEPT ![i] = q]
             n == Len(c)
             high(e) == /\ n >= 5 /\ Zoning(e) >= n * 80 /\ Sum(e, "areaSim") >= n * 80
                        /\ Sum(e, "distance") < n * 500 /\ Sum(e, "score") >= n * 7000
             medium(e) == n >= 3 /\ Zoning(e) >= n * 50 /\ Sum(e, "areaSim") >= n * 60
  <1>1. /\ Len(d) = n /\ n \in Nat
        /\ Sum(c, "areaSim") \in Int /\ Sum(d, "areaSim") \in Int
        /\ Sum(c, "areaSim") <= Sum(d, "areaSim")
        /\ Sum(c, "score") \in Int /\ Sum(d, "score") \in Int
        /\ Sum(c, "score") <= Sum(d, "score")
        /\ Sum(c, "distance") \in Int /\ Sum(d, "distance") \in Int
        /\ Sum(d, "distance") <= Sum(c, "distance")
        /\ Zoning(c) \in Int /\ Zoning(d) \in Int /\ Zoning(c) <= Zoning(d)
    BY BetterSums
  <1>2. ASSUME NEW e, Len(e) = n
        PROVE  Confidence(e) = IF n < Required THEN "INSUFFICIENT"
                               ELSE IF high(e) THEN "HIGH"
                               ELSE IF medium(e) THEN "MEDIUM" ELSE "LOW"
    <2> HIDE DEF n
    <2> QED
      BY <1>2 DEF Confidence
  <1> HIDE DEF d, n
  <1>3. (high(c) => high(d)) /\ (medium(c) => medium(d))
    BY <1>1, SMTT(30)
  <1> HIDE DEF high, medium
  <1>4. /\ Level["INSUFFICIENT"] = 0 /\ Level["LOW"] = 1
        /\ Level["MEDIUM"] = 2 /\ Level["HIGH"] = 3
    BY DEF Level
  <1>5. Level[Confidence(c)] <= Level[Confidence(d)]
    <2>1. Len(c) = n /\ Len(d) = n
      BY <1>1 DEF n
    <2> QED
      BY <1>2, <1>3, <1>4, <2>1
  <1> QED
    BY <1>5 DEF d

\* The run's property, from the theorem.
THEOREM ConfidenceIsMonotone == Spec => []ConfidenceNeverFalls
  <1>1. OutputIsComputed => ConfidenceNeverFalls
    <2> SUFFICES ASSUME OutputIsComputed, output.kind = "valuation",
                        NEW i \in DOMAIN input.comparables, NEW q \in Comparable,
                        q.score >= input.comparables[i].score,
                        q.areaSim >= input.comparables[i].areaSim,
                        q.distance <= input.comparables[i].distance,
                        input.comparables[i].zoneMatch => q.zoneMatch
                 PROVE  Level[Confidence(input.comparables)]
                           <= Level[Confidence([input.comparables EXCEPT ![i] = q])]
      BY DEF ConfidenceNeverFalls
    <2>1. input.comparables \in Gradings
      BY ValuationComputed
    <2>2. input.comparables \in Seq(Graded) /\ q \in Graded
      BY <2>1, SampleAssumption
    <2> QED
      BY <2>2, ConfidenceRises
  <1> QED
    BY <1>1, OutputInvariant, PTL

----------------------------------------------------------------------------
(* Comparables *)

Filtered(stored) == FilterCandidates(Target, Search(Target, stored))

Scored(stored) == {Score(Target, c) : c \in Filtered(stored)}

\* The scores of the candidates: one for each, under its id.
LEMMA ScoresOfCandidates ==
    ASSUME NEW stored \in Markets
    PROVE  /\ Filtered(stored) \subseteq stored
           /\ IsFiniteSet(Filtered(stored)) /\ IsFiniteSet(Scored(stored))
           /\ Cardinality(Scored(stored)) = Cardinality(Filtered(stored))
           /\ \A x \in Scored(stored) :
                 LET c == CHOOSE t \in stored : t.id = x.id
                 IN  c \in Parcel /\ x = Score(Target, c)
  <1> DEFINE F == Filtered(stored)
             S == Scored(stored)
             g == [c \in F |-> Score(Target, c)]
  <1>1. F \subseteq stored
    BY DEF Filtered, FilterCandidates, Search
  <1>2. /\ stored \subseteq Parcel /\ IsFiniteSet(stored)
        /\ \A c, d \in stored : c.id = d.id => c = d
    BY MarketAssumption
  <1>3. IsFiniteSet(F)
    BY <1>1, <1>2, FS_Subset
  <1>4. \A c : Score(Target, c).id = c.id
    BY DEF Score
  <1>5. S = {Score(Target, c) : c \in F}
    BY DEF Scored
  <1> HIDE DEF F, S
  <1>6. /\ g \in [F -> S]
        /\ \A c, d \in F : g[c] = g[d] => c = d
        /\ \A x \in S : \E c \in F : g[c] = x
    BY <1>1, <1>2, <1>4, <1>5
  <1> HIDE DEF g
  <1>7. ExistsBijection(F, S)
    BY <1>6, Fun_IsBij DEF ExistsBijection
  <1>8. IsFiniteSet(S) /\ Cardinality(S) = Cardinality(F)
    BY <1>3, <1>7, FS_Bijection
  <1>9. ASSUME NEW x \in S
        PROVE  LET c == CHOOSE t \in stored : t.id = x.id
               IN  c \in Parcel /\ x = Score(Target, c)
    <2>1. PICK b \in F : x = Score(Target, b)
      BY <1>5
    <2>2. b \in stored /\ b.id = x.id
      BY <1>1, <1>4, <2>1
    <2> DEFINE c == CHOOSE t \in stored : t.id = x.id
    <2>3. c \in stored /\ c.id = x.id
      BY <2>2
    <2> HIDE DEF c
    <2>4. c = b /\ c \in Parcel
      BY <1>2, <2>2, <2>3
    <2> QED
      BY <2>1, <2>4 DEF c
  <1> QED
    BY <1>1, <1>3, <1>8, <1>9 DEF F, S

\* A sort leaves a sequence of all the scores, none above a greater one.
LEMMA ScoresInOrder ==
    ASSUME NEW stored \in Markets, NEW s \in ScoreCandidates(Target, Filtered(stored)),
           \A x \in Scored(stored) : x.score \in Int
    PROVE  /\ s \in Seq(Scored(stored)) /\ Len(s) = Cardinality(Filtered(stored))
           /\ \A i, j \in 1..Len(s) : i <= j => s[i].score >= s[j].score
  <1> DEFINE S == Scored(stored)
             N == Cardinality(S)
  <1>1. N \in Nat /\ N = Cardinality(Filtered(stored))
    BY ScoresOfCandidates, FS_CardinalityType
  <1>2. s \in [1..N -> S] /\ \A i \in 1..(Len(s) - 1) : s[i].score >= s[i + 1].score
    BY DEF ScoreCandidates, SetToSeqs, Scored
  <1> HIDE DEF S, N
  <1>3. s \in Seq(S) /\ Len(s) = N
    BY <1>1, <1>2
  <1>4. \A i \in 1..N : s[i].score \in Int
    BY <1>2 DEF S
  <1>5. ASSUME NEW i \in 1..N
        PROVE  \A j \in 1..N : i <= j => s[i].score >= s[j].score
    <2> DEFINE T == {k \in 0..N : i <= k /\ k # 0 => s[i].score >= s[k].score}
    <2>1. 0 \in T
      BY <1>1
    <2>2. ASSUME NEW k \in 1..N, k - 1 \in T PROVE k \in T
      <3>1. CASE k <= i
        BY <1>1, <1>4, <3>1
      <3>2. CASE k > i
        <4>1. k - 1 \in 1..N /\ i <= k - 1 /\ (k - 1) + 1 = k /\ k - 1 \in 1..(Len(s) - 1)
          BY <1>1, <1>3, <3>2
        <4>2. s[i].score >= s[k - 1].score /\ s[k - 1].score >= s[k].score
          BY <1>2, <2>2, <4>1
        <4>3. s[i].score \in Int /\ s[k - 1].score \in Int /\ s[k].score \in Int
          BY <1>4, <4>1
        <4> QED
          BY <1>1, <4>2, <4>3
      <3> QED
        BY <1>1, <3>1, <3>2
    <2>3. ASSUME NEW j \in 1..N, i <= j PROVE s[i].score >= s[j].score
      <3>1. j \in Nat /\ \A k \in 1..j : k \in 1..N
        BY <1>1
      <3> HIDE DEF T
      <3>2. j \in T
        BY <2>1, <2>2, <3>1, Induction
      <3> QED
        BY <1>1, <2>3, <3>2 DEF T
    <2> QED
      BY <2>3
  <1> QED
    BY <1>1, <1>3, <1>5 DEF S, N

\* Outliers are dropped, the order of the others stays, and three are left.
LEMMA OutliersDropped ==
    ASSUME NEW X, NEW s \in Seq(X)
    PROVE  \E K \in SUBSET DOMAIN s :
              /\ RemoveOutliers(s) = s \/ (RemoveOutliers(s) = Keep(s, K) /\ Len(Keep(s, K)) >= 3)
  <1> DEFINE q1 == PercentileDown(s, 25)
             q3 == PercentileDown(s, 75)
             K == {i \in DOMAIN s : /\ 2 * s[i].score >= 2 * q1 - IQRK * (q3 - q1)
                                    /\ 2 * s[i].score <= 2 * q3 + IQRK * (q3 - q1)}
  <1>1. RemoveOutliers(s) = IF Len(s) <= Minimum \/ Len(Keep(s, K)) < 3 THEN s ELSE Keep(s, K)
    BY DEF RemoveOutliers
  <1>2. K \in SUBSET DOMAIN s
    OBVIOUS
  <1> HIDE DEF K
  <1>3. Len(Keep(s, K)) \in Nat
    BY <1>2, KeepProperties
  <1> QED
    BY <1>1, <1>2, <1>3

\* What is found are scores of candidates in descending order, three of them
\* or all.
THEOREM FoundInOrder ==
    ASSUME NEW stored \in Markets, NEW found \in FindComparables(Target, stored),
           \A x \in Scored(stored) : x.score \in Int
    PROVE  /\ found \in Seq(Scored(stored))
           /\ Len(found) >= 3 \/ (Len(found) = Cardinality(Filtered(stored)) /\ Len(found) >= Minimum)
           /\ \A i, j \in DOMAIN found : i <= j => found[i].score >= found[j].score
  <1> DEFINE F == Filtered(stored)
             S == Scored(stored)
  <1>1. PICK s \in ScoreCandidates(Target, F) : found = RemoveOutliers(s) /\ ~(Cardinality(F) < Minimum)
    BY DEF FindComparables, Filtered
  <1>2. Cardinality(F) >= Minimum
    <2>1. Cardinality(F) \in Nat /\ Minimum \in Nat
      BY ScoresOfCandidates, FS_CardinalityType, ConfigAssumption
    <2> QED
      BY <1>1, <2>1
  <1> HIDE DEF F
  <1>3. /\ s \in Seq(S) /\ Len(s) = Cardinality(F)
        /\ \A i, j \in 1..Len(s) : i <= j => s[i].score >= s[j].score
    BY ScoresInOrder DEF F
  <1> HIDE DEF S
  <1>4. PICK K \in SUBSET DOMAIN s :
           found = s \/ (found = Keep(s, K) /\ Len(Keep(s, K)) >= 3)
    BY <1>1, <1>3, OutliersDropped
  <1>5. CASE found = s
    BY <1>2, <1>3, <1>5 DEF F, S
  <1>6. CASE found = Keep(s, K) /\ Len(Keep(s, K)) >= 3
    <2> DEFINE N == Cardinality(K)
    <2>1. DOMAIN s = 1..Len(s) /\ Len(s) \in Nat
      BY <1>3
    <2>2. /\ found \in Seq(S) /\ Len(found) = N /\ \A n \in 1..N : found[n] = s[Nth(K, n)]
      BY <1>3, <1>6, KeepProperties
    <2>3. /\ N \in 0..Len(s) /\ \A n \in 1..N : Nth(K, n) \in K
          /\ \A n, m \in 1..N : n < m => Nth(K, n) < Nth(K, m)
      BY <2>1, NthProperties
    <2> HIDE DEF N
    <2>4. ASSUME NEW i \in 1..N, NEW j \in 1..N, i <= j PROVE found[i].score >= found[j].score
      <3>1. Nth(K, i) \in 1..Len(s) /\ Nth(K, j) \in 1..Len(s)
        BY <2>1, <2>3
      <3>2. Nth(K, i) <= Nth(K, j)
        BY <2>1, <2>3, <2>4, <3>1
      <3> QED
        BY <1>3, <2>2, <3>1, <3>2
    <2>5. DOMAIN found = 1..N
      BY <2>2
    <2> QED
      BY <1>6, <2>2, <2>4, <2>5 DEF S
  <1> QED
    BY <1>4, <1>5, <1>6

\* Scores are numbers, and a better candidate has a greater one.
LEMMA ScoreType ==
    ASSUME NEW c \in Parcel
    PROVE  /\ AreaSimilarity(Target, c) \in Int /\ TimeScore[c.age] \in Nat
           /\ TotalScore(Target, c) \in Int
  <1>1. /\ c.area \in Nat /\ c.age \in DOMAIN TimeScore /\ Target.area \in Nat /\ Target.area > 0
    BY MarketAssumption DEF Parcel
  <1>2. TimeScore[c.age] \in Nat
    BY <1>1, TimeScoreFalls
  <1>3. AreaSimilarity(Target, c) \in Int
    <2>1. Distance(c.area, Target.area) \in Int
      BY <1>1 DEF Distance
    <2>2. (100 * Distance(c.area, Target.area)) \div Target.area \in Int
      BY <1>1, <2>1
    <2> QED
      BY <2>2 DEF AreaSimilarity
  <1>4. /\ Weight.area \in Int /\ Weight.zone \in Int /\ Weight.use \in Int
        /\ Weight.road \in Int /\ Weight.distance \in Int
    BY ConfigAssumption
  <1>5. AreaSimilarity(Target, c) * Weight.area \in Int
    BY <1>3, <1>4
  <1> QED
    BY <1>2, <1>3, <1>4, <1>5 DEF TotalScore

LEMMA BetterScores ==
    ASSUME NEW c \in Parcel, NEW d \in Parcel,
           c.area > 0, c.age <= d.age,
           AreaSimilarity(Target, c) > AreaSimilarity(Target, d),
           d.zone = Target.zone => c.zone = Target.zone,
           d.use = Target.use => c.use = Target.use
    PROVE  TotalScore(Target, c) > TotalScore(Target, d)
  <1> DEFINE part(p) == (IF Known(Target, p) THEN Weight.distance ELSE 0)
                        + (IF Target.zone = p.zone THEN Weight.zone ELSE 0)
                        + (IF Target.use = p.use THEN Weight.use ELSE 0)
             sim(p) == AreaSimilarity(Target, p)
             fresh(p) == TimeScore[p.age]
  <1>1. /\ sim(c) \in Int /\ sim(d) \in Int /\ fresh(c) \in Int /\ fresh(d) \in Int
    BY ScoreType
  <1>2. /\ Weight.area \in Int /\ Weight.area >= 1 /\ Weight.zone \in Nat /\ Weight.use \in Nat
        /\ Weight.road \in Int /\ Weight.distance \in Nat
    BY ConfigAssumption
  <1>3. fresh(c) >= fresh(d)
    <2>1. c.age \in DOMAIN TimeScore /\ d.age \in DOMAIN TimeScore /\ c.age \in Nat /\ d.age \in Nat
      BY TimeScoreFalls DEF Parcel
    <2>2. CASE c.age = d.age
      BY <1>1, <2>2
    <2>3. CASE c.age < d.age
      BY <2>1, <2>3, TimeScoreFalls
    <2> QED
      BY <2>1, <2>2, <2>3
  <1>4. part(c) \in Int /\ part(d) \in Int /\ part(c) >= part(d)
    <2>1. Known(Target, c)
      BY MarketAssumption DEF Known
    <2> QED
      BY <1>2, <2>1
  <1>5. sim(c) * Weight.area \in Int /\ sim(d) * Weight.area \in Int
    BY <1>1, <1>2
  <1>6. sim(c) * Weight.area > sim(d) * Weight.area
    <2> DEFINE a == sim(c) - sim(d)
    <2>1. a \in Int /\ a > 0 /\ sim(c) = sim(d) + a
      BY <1>1
    <2> HIDE DEF a, sim
    <2>2. (sim(d) + a) * Weight.area = sim(d) * Weight.area + a * Weight.area
      BY <1>1, <1>2, <2>1
    <2>3. a * Weight.area \in Int /\ a * Weight.area > 0
      BY <1>2, <2>1
    <2> QED
      BY <1>5, <2>1, <2>2, <2>3
  <1>7. \A p : TotalScore(Target, p) = sim(p) * Weight.area + fresh(p) + Weight.road
                                       + (IF Known(Target, p) THEN Weight.distance ELSE 0)
                                       + (IF Target.zone = p.zone THEN Weight.zone ELSE 0)
                                       + (IF Target.use = p.use THEN Weight.use ELSE 0)
    BY DEF TotalScore
  <1>8. /\ TotalScore(Target, c) = sim(c) * Weight.area + fresh(c) + Weight.road + part(c)
        /\ TotalScore(Target, d) = sim(d) * Weight.area + fresh(d) + Weight.road + part(d)
    <2> HIDE DEF sim, fresh
    <2> QED
      BY <1>1, <1>2, <1>5, <1>7
  <1> HIDE DEF sim, fresh, part
  <1> QED
    BY <1>1, <1>2, <1>3, <1>4, <1>5, <1>6, <1>8

LEMMA ScoresAreNumbers ==
    ASSUME NEW stored \in Markets, NEW x \in Scored(stored)
    PROVE  x.score \in Int
  <1>1. PICK c \in Filtered(stored) : x = Score(Target, c)
    BY DEF Scored
  <1>2. c \in Parcel
    BY MarketAssumption, ScoresOfCandidates
  <1>3. x.score = TotalScore(Target, c)
    BY <1>1 DEF Score
  <1> QED
    BY <1>2, <1>3, ScoreType

\* What the engines gave for a target.
LEMMA TargetComputed ==
    ASSUME OutputIsComputed, output.kind = "target"
    PROVE  /\ input.stored \in Markets
           /\ output.found \in FindComparables(Target, input.stored)
           /\ output.median \in Medians
           /\ output.valuation = Valuate(Params, output.found, output.median)
  <1>1. input \in [kind : {"target"}, stored : Markets]
        /\ \E found \in FindComparables(Target, input.stored), median \in Medians :
              output = TargetOutput(found, median)
    BY DEF OutputIsComputed, None, RowOutput, SampleOutput, TargetOutput, Inputs
  <1> QED
    BY <1>1 DEF TargetOutput

\* The order of the scores is the order of what is found.
THEOREM BetterIsFirst == Spec => []BetterRanksHigher
  <1>1. OutputIsComputed => BetterRanksHigher
    <2> SUFFICES ASSUME OutputIsComputed, output.kind = "target",
                        NEW i \in DOMAIN output.found, NEW j \in DOMAIN output.found
                 PROVE  LET c == CHOOSE t \in input.stored : t.id = output.found[i].id
                            d == CHOOSE t \in input.stored : t.id = output.found[j].id
                        IN  /\ c.area > 0 /\ c.age <= d.age
                            /\ AreaSimilarity(Target, c) > AreaSimilarity(Target, d)
                            /\ d.zone = Target.zone => c.zone = Target.zone
                            /\ d.use = Target.use => c.use = Target.use
                            => i < j
      BY DEF BetterRanksHigher
    <2> DEFINE c == CHOOSE t \in input.stored : t.id = output.found[i].id
               d == CHOOSE t \in input.stored : t.id = output.found[j].id
    <2>1. /\ input.stored \in Markets
          /\ output.found \in FindComparables(Target, input.stored)
      BY TargetComputed
    <2>2. \A x \in Scored(input.stored) : x.score \in Int
      BY <2>1, ScoresAreNumbers
    <2>3. /\ output.found \in Seq(Scored(input.stored))
          /\ \A n, m \in DOMAIN output.found : n <= m => output.found[n].score >= output.found[m].score
      BY <2>1, <2>2, FoundInOrder
    <2>4. output.found[i] \in Scored(input.stored) /\ output.found[j] \in Scored(input.stored)
      BY <2>3
    <2>5. \A x \in Scored(input.stored) :
             LET t == CHOOSE t \in input.stored : t.id = x.id
             IN  t \in Parcel /\ x = Score(Target, t)
      BY <2>1, ScoresOfCandidates
    <2>6. /\ c \in Parcel /\ output.found[i] = Score(Target, c)
          /\ d \in Parcel /\ output.found[j] = Score(Target, d)
      BY <2>4, <2>5
    <2> HIDE DEF c, d
    <2>7. /\ output.found[i].score = TotalScore(Target, c)
          /\ output.found[j].score = TotalScore(Target, d)
      BY <2>6 DEF Score
    <2>8. ASSUME c.area > 0, c.age <= d.age,
                 AreaSimilarity(Target, c) > AreaSimilarity(Target, d),
                 d.zone = Target.zone => c.zone = Target.zone,
                 d.use = Target.use => c.use = Target.use
          PROVE  i < j
      <3>1. TotalScore(Target, c) > TotalScore(Target, d)
        BY <2>6, <2>8, BetterScores
      <3>2. TotalScore(Target, c) \in Int /\ TotalScore(Target, d) \in Int
        BY <2>6, ScoreType
      <3>3. ~(j <= i)
        BY <2>3, <2>7, <3>1, <3>2
      <3>4. i \in Int /\ j \in Int
        BY <2>3
      <3> QED
        BY <3>3, <3>4
    <2> QED
      BY <2>8 DEF c, d
  <1> QED
    BY <1>1, OutputInvariant, PTL

\* With a positive median a valuation is completed when there are comparables,
\* and as many as it requires.
THEOREM EnoughIsCompleted ==
    ASSUME NEW X, NEW c \in Seq(X), NEW m \in Nat, m > 0
    PROVE  Valuate(Params, c, m).status = "COMPLETED" <=> Len(c) >= Required
  <1> DEFINE prices == ExtractPrices(c, m)
             sorted == Sorted(prices)
  <1>1. DOMAIN prices = 1..Len(c) /\ Len(c) \in Nat
    BY DEF ExtractPrices
  <1>2. DOMAIN sorted = DOMAIN prices
    BY DEF Sorted
  <1> HIDE DEF prices
  <1> HIDE DEF sorted
  <1>3. Required \in Nat /\ Required >= 1
    BY MinimumAssumption DEF Required
  <1>4. Valuate(Params, c, m).status =
           IF Len(c) < Required \/ sorted = <<>> THEN "INSUFFICIENT_DATA" ELSE "COMPLETED"
    BY DEF Valuate, InsufficientData, sorted, prices
  <1>5. CASE Len(c) >= Required
    <2>1. 1 \in 1..Len(c)
      BY <1>1, <1>3, <1>5
    <2>2. sorted # <<>>
      BY <1>1, <1>2, <2>1
    <2>3. ~(Len(c) < Required)
      BY <1>1, <1>3, <1>5
    <2> QED
      BY <1>4, <1>5, <2>2, <2>3
  <1>6. CASE ~(Len(c) >= Required)
    <2>1. Len(c) < Required
      BY <1>1, <1>3, <1>6
    <2> QED
      BY <1>4, <1>6, <2>1
  <1> QED
    BY <1>5, <1>6

\* Whatever outliers are dropped, three comparables are left or as many as were
\* asked for, and they decide whether the valuation is completed.
THEOREM EnoughIsFound == Spec => []ComparablesSuffice
  <1>1. OutputIsComputed => ComparablesSuffice
    <2> SUFFICES ASSUME OutputIsComputed, output.kind = "target" PROVE ComparablesSuffice
      BY DEF ComparablesSuffice
    <2>1. /\ input.stored \in Markets /\ output.median \in Nat
          /\ output.found \in FindComparables(Target, input.stored)
          /\ output.valuation = Valuate(Params, output.found, output.median)
      BY TargetComputed, SampleAssumption
    <2>2. \A x \in Scored(input.stored) : x.score \in Int
      BY <2>1, ScoresAreNumbers
    <2>3. /\ output.found \in Seq(Scored(input.stored))
          /\ Len(output.found) >= 3 \/ Len(output.found) >= Minimum
      BY <2>1, <2>2, FoundInOrder
    <2>4. output.median > 0 =>
             (output.valuation.status = "COMPLETED" <=> Len(output.found) >= Required)
      BY <2>1, <2>3, EnoughIsCompleted
    <2> QED
      BY <2>3, <2>4 DEF ComparablesSuffice
  <1> QED
    BY <1>1, OutputInvariant, PTL
=============================================================================
