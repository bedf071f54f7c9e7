-------------------------------- MODULE Rows --------------------------------
(***************************************************************************)
(* From a record of an official CSV file to a row of the tables: ParseCSV, *)
(* enrichRows, NormalizeTransaction, NormalizeParcel, the validator, and   *)
(* the constraints of the tables.                                          *)
(*                                                                         *)
(* A function that may fail is the set of its results: empty when it       *)
(* returns an error, and of more than one element when the result depends  *)
(* on the order in which Go walks a map.                                   *)
(*                                                                         *)
(* A text is a sequence of runes: "a" has one byte, "z" three, and "duan"  *)
(* is the three-byte rune that ends the name of a section.  A number cell  *)
(* is [kind, v]; v counts tenths of a dollar in a price, 1/100000 sqm in   *)
(* an area and years in an age.                                            *)
(***************************************************************************)
EXTENDS Arrays, FiniteSetsExt

CONSTANTS
    Counties,   \* the counties firstDistrictForCounty and the file names know
    Today,      \* the validator's clock, a day <<y, m, d>>
    IntLimit,   \* one more than the largest INTEGER: 2^31
    AreaLimit   \* a NUMERIC(12,4) is below this, in 1/100000 sqm: 10^13; a
                \* NUMERIC(10,4) below a hundredth of it

ASSUME LimitAssumption == IntLimit \in Nat \ {0} /\ AreaLimit \in Nat \ {0}

Blank == <<>>

----------------------------------------------------------------------------
(* internal/parser: the records of a file *)

\* FieldMapCNToEN, of the aliases the normalizer's keys have; an unknown
\* header stands for itself.
FieldMap == [town |-> "district", place |-> "section", plate |-> "section",
             sectionName |-> "section", landNo |-> "land_number",
             address |-> "parcel_address", city |-> "county"]

NormalizeHeader(h) == IF h \in DOMAIN FieldMap THEN FieldMap[h] ELSE h

Extra == <<"extra_1", "extra_2">>

\* A row of ParseCSV: of the columns with one code the last one counts, blank
\* or not; missing cells are blank, surplus ones are kept as extras.
ParseRecord(headers, record) ==
    LET code(i) == NormalizeHeader(headers[i])
        column(k) == Max({i \in DOMAIN headers : code(i) = k})
        row == [k \in {code(i) : i \in DOMAIN headers}
                |-> IF column(k) \in DOMAIN record THEN record[column(k)] ELSE Blank]
        surplus == {n \in DOMAIN Extra : Len(headers) + n \in DOMAIN record}
    IN  [k \in DOMAIN row \cup {Extra[n] : n \in surplus}
         |-> IF k \in DOMAIN row THEN row[k]
             ELSE record[Len(headers) + CHOOSE n \in surplus : Extra[n] = k]]

\* The second line of the ministry's files repeats the header in English.
English == <<"english">>

\* Mutation: one blank cell is enough.
SkippedSomeBlank(row, record) ==
    \/ \E i \in DOMAIN record : record[i] = Blank
    \/ \E k \in {"district", "county"} \cap DOMAIN row : row[k] = English

Skipped(row, record) ==
    \/ \A i \in DOMAIN record : record[i] = Blank
    \/ \E k \in {"district", "county"} \cap DOMAIN row : row[k] = English

ParseCSV(headers, records) ==
    LET rows == [i \in DOMAIN records |-> ParseRecord(headers, records[i])]
    IN  Keep(rows, {i \in DOMAIN records : ~Skipped(rows[i], records[i])})

----------------------------------------------------------------------------
(* internal/parser: dates, prices and areas *)

Leap(y) == y % 4 = 0 /\ (y % 100 # 0 \/ y % 400 = 0)

DaysIn(y, m) == CASE m = 2 -> IF Leap(y) THEN 29 ELSE 28
                  [] m \in {4, 6, 9, 11} -> 30
                  [] OTHER -> 31

\* time.Date carries the days a month has not into the next one.
TimeDate(y, m, d) == IF d <= DaysIn(y, m) THEN <<y, m, d>>
                     ELSE IF m = 12 THEN <<y + 1, 1, d - 31>>
                     ELSE <<y, m + 1, d - DaysIn(y, m)>>

\* Mutation: the carried date is taken.
ValidateDateCarried(y, m, d) ==
    IF m \in 1..12 /\ d \in 1..31 THEN {TimeDate(y, m, d)} ELSE {}

ValidateDate(y, m, d) ==
    IF m \in 1..12 /\ d \in 1..31
    THEN {t \in {TimeDate(y, m, d)} : t[2] = m /\ t[3] = d}
    ELSE {}

RocToAD(y) == IF y < 1000 THEN y + 1911 ELSE y

\* A cell is [form, y, m, d]: "digits8" is always Gregorian, the two shorter
\* strings of digits, the one with the runes for year, month and day, and the
\* one with separators go through RocToAD.
ParseROCDate(c) ==
    CASE c.form = "digits8" -> ValidateDate(c.y, c.m, c.d)
      [] c.form \in {"digits7", "digits6", "nyr", "separated"} ->
            ValidateDate(RocToAD(c.y), c.m, c.d)
      [] OTHER -> {}

\* "0.5" is a positive price and becomes 0.
ParsePrice(c) == {v \div 10 : v \in {x \in {c.v} : c.kind = "number" /\ x > 0}}

ParseArea(c) == {x \in {c.v} : c.kind # "text"}

----------------------------------------------------------------------------
(* internal/importpipeline: what is filled in before normalize *)

Or(t, u) == IF t = Blank THEN u ELSE t

\* Mutation: the section is left for the normalizer to find.
EnrichRowNoSection(row, county) ==
    [row EXCEPT !.county = Or(@, county), !.land_number = Or(@, row.address.land_number)]

\* countyFromFilename, of the file in the zip or of the download URL, then
\* the section and land number of the address.
EnrichRow(row, county) ==
    [row EXCEPT !.county = Or(@, county),
                !.section = Or(@, row.address.section),
                !.land_number = Or(@, row.address.land_number)]

----------------------------------------------------------------------------
(* internal/normalizer *)

Bytes(r) == IF r = "a" THEN 1 ELSE 3

Size(t) == Total([i \in DOMAIN t |-> Bytes(t[i])])

\* The longest prefix of whole runes that has n bytes at most.
Truncate(t, n) ==
    SubSeq(t, 1, Max({i \in 0..Len(t) : Size(SubSeq(t, 1, i)) <= n}))

\* What precedes the rune that ends a section's name, when anything does.
BeforeDuan(t) ==
    LET at == {i \in 2..Len(t) : t[i] = "duan"}
    IN  IF at = {} \/ t[1] = "duan" THEN Blank ELSE SubSeq(t, 1, Min(at) - 1)

FirstDistrictForCounty(county) == IF county \in Counties THEN <<"z", "z", "z">> ELSE Blank

DistrictOf(row, section) ==
    Or(row.district, Or(BeforeDuan(row.address.section),
                        Or(BeforeDuan(section), FirstDistrictForCounty(row.county))))

ToSqm(ping) == (ping * 3306) \div 1000

\* The columns of the land a transaction is of, and those of a parcel; the
\* ministry's headers stand for land_area_sqm alone.
LandColumns == {"land_area_sqm", "land_area", "land_area_ping", "land_area_ping_sqm",
                "area_sqm", "area", "area_ping", "area_ping_sqm"}

LandCells(row) ==
    [sqm  |-> <<row.land["land_area_sqm"], row.land["land_area"]>>,
     ping |-> <<row.land["land_area_ping"], row.land["land_area_ping_sqm"]>>]

ParcelCells(row) ==
    [sqm  |-> <<row.land["area_sqm"], row.land["area"], row.land["land_area_sqm"]>>,
     ping |-> <<row.land["area_ping"], row.land["land_area_ping"], row.land["area_ping_sqm"]>>]

\* The first cell of the sqm columns that is not blank, taken for ping when it
\* says so or another column does; else the first of the ping columns.
ResolveArea(row, area) ==
    LET first(cells) == Min({i \in DOMAIN cells : cells[i].kind # "blank"})
        some(cells) == \E i \in DOMAIN cells : cells[i].kind # "blank"
        sqm == area.sqm[first(area.sqm)]
    IN  IF some(area.sqm)
        THEN IF sqm.kind = "ping" \/ row.unitPing
             THEN {ToSqm(v) : v \in ParseArea(sqm)} ELSE ParseArea(sqm)
        ELSE IF some(area.ping)
        THEN {ToSqm(v) : v \in ParseArea(area.ping[first(area.ping)])}
        ELSE {0}

\* A parking price of "" or "0" is none.
ResolveParking(c) == IF c.kind = "blank" \/ (c.kind = "number" /\ c.v = 0)
                     THEN {0} ELSE ParsePrice(c)

ResolveAge(c) == IF c.kind = "blank" THEN {0}
                 ELSE {v \in {c.v} : c.kind = "number" /\ v >= 0}

\* A row without an id gets a uuid, which Blank stands for.
NormalizeTransaction(row) ==
    LET section  == Or(row.section, row.address.section)
        district == DistrictOf(row, section)
    IN  {[county |-> Truncate(row.county, 20), district |-> Truncate(district, 20),
          section |-> Truncate(section, 50), land_number |-> Truncate(row.land_number, 50),
          transaction_id |-> Truncate(row.id, 50),
          date |-> r[1], total |-> r[2], unit |-> r[3], land |-> r[4],
          building |-> r[5], parking |-> r[6], parkingPrice |-> r[7], age |-> r[8]] :
         r \in IF row.county = Blank \/ district = Blank THEN {}
               ELSE ParseROCDate(row.date) \X ParsePrice(row.total) \X ParsePrice(row.unit)
                    \X ResolveArea(row, LandCells(row)) \X ResolveArea(row, row.building)
                    \X ResolveArea(row, row.parking) \X ResolveParking(row.parkingPrice)
                    \X ResolveAge(row.age)}

\* Without an area of its own the parcel takes one from any column whose name
\* has "area" and whose value is in ping.
ParcelAreas(row) ==
    LET cells == {row.land[k] : k \in LandColumns} \cup row.otherAreas
                 \cup UNION {Range(a.sqm) \cup Range(a.ping) : a \in {row.building, row.parking}}
        pings == {ToSqm(c.v) : c \in {x \in cells : x.kind = "ping"}}
    IN  UNION {IF v = 0 /\ pings # {} THEN pings ELSE {v} :
               v \in ResolveArea(row, ParcelCells(row))}

NormalizeParcel(row) ==
    {[county |-> Truncate(row.county, 20), district |-> Truncate(row.district, 20),
      section |-> Truncate(row.section, 50), land_number |-> Truncate(row.land_number, 50),
      area |-> v] :
     v \in {x \in ParcelAreas(row) :
                x > 0 /\ row.county # Blank /\ row.district # Blank}}

----------------------------------------------------------------------------
(* internal/validator: the issues of level "error" *)

MinDate == <<1990, 1, 1>>

After(a, b) == \/ a[1] > b[1]
               \/ a[1] = b[1] /\ a[2] > b[2]
               \/ a[1] = b[1] /\ a[2] = b[2] /\ a[3] > b[3]

\* Mutation: only a negative price is an error.
TransactionErrorsNegative(t) ==
    {f \in {"county", "district"} : t[f] = Blank}
    \cup {f \in {"land"} : t[f] <= 0}
    \cup {f \in {"total", "building", "parking", "parkingPrice", "age"} : t[f] < 0}
    \cup {f \in {"date"} : After(t.date, Today) \/ After(MinDate, t.date)}

\* ValidateTransaction.  The id and the hash are never blank after normalize.
TransactionErrors(t) ==
    {f \in {"county", "district"} : t[f] = Blank}
    \cup {f \in {"total", "land"} : t[f] <= 0}
    \cup {f \in {"building", "parking", "parkingPrice", "age"} : t[f] < 0}
    \cup {f \in {"date"} : After(t.date, Today) \/ After(MinDate, t.date)}
    \cup {f \in {"unit"} : t.unit > 0 /\ t.total <= 0}

ParcelErrors(p) == {f \in {"county", "district"} : p[f] = Blank}
                   \cup {f \in {"area"} : p.area <= 0}

HasBlockingErrors(errors) == errors # {}

----------------------------------------------------------------------------
(* internal/repository and migration 000001: what the tables accept *)

\* numericFromFloat64: zero is NULL; else NUMERIC(12,4), rounded half up.
Numeric(v) == IF v = 0 THEN {} ELSE {(v + 5) \div 10}

\* An int is put into 32 bits without a check, and is NULL unless positive.
Int4(n) == IF n <= 0 THEN {} ELSE {((n + IntLimit) % (2 * IntLimit)) - IntLimit}

Chars(t, n) == Len(t) <= n

TransactionRowAccepted(t) ==
    /\ Chars(t.county, 20) /\ Chars(t.district, 20)
    /\ Chars(t.section, 50) /\ Chars(t.land_number, 50) /\ Chars(t.transaction_id, 50)
    /\ t.total > 0 /\ t.unit > 0
    /\ \A v \in Numeric(t.land) \cup Numeric(t.building) : v > 0 /\ v * 10 < AreaLimit
    /\ \A v \in Numeric(t.parking) : v >= 0 /\ v * 1000 < AreaLimit
    /\ \A n \in Int4(t.age) : n >= 0

ParcelRowAccepted(p) ==
    /\ Chars(p.county, 20) /\ Chars(p.district, 20)
    /\ Chars(p.section, 50) /\ Chars(p.land_number, 50)
    /\ \A v \in Numeric(p.area) : v > 0 /\ v * 10 < AreaLimit

----------------------------------------------------------------------------
\* The rows normalize and validate let through, of a row of the file.
Transactions(row) ==
    {t \in NormalizeTransaction(row) : ~HasBlockingErrors(TransactionErrors(t))}

Parcels(row) == IF NormalizeTransaction(row) = {} THEN {}
                ELSE {p \in NormalizeParcel(row) : ~HasBlockingErrors(ParcelErrors(p))}
=============================================================================
