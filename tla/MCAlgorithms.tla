---------------------------- MODULE MCAlgorithms ----------------------------
(***************************************************************************)
(* Bounded inputs for Algorithms.                                          *)
(***************************************************************************)
EXTENDS Algorithms

MCCounties == {<<"z">>}
MCToday == <<2024, 2, 29>>
MCWeight == [area |-> 30, zone |-> 1500, use |-> 1000, road |-> 1000, distance |-> 1637]
MCTimeScore == [age \in 0..2 |-> 1500 - 70 * age]

----------------------------------------------------------------------------
(* Inputs *)

Num(v) == [kind |-> "number", v |-> v]
Cell(kind) == [kind |-> kind, v |-> 0]
NoArea == [sqm |-> <<>>, ping |-> <<>>]

Land(column, cell) ==
    [k \in LandColumns |-> IF k = column THEN cell ELSE Cell("blank")]

Z(n) == [i \in 1..n |-> "z"]
Name == <<"z", "duan">>

Plain == [county |-> Z(1), district |-> Z(2), section |-> Name, land_number |-> <<"a">>,
          address |-> [section |-> Blank, land_number |-> Blank], id |-> <<"a">>,
          date |-> [form |-> "digits7", y |-> 113, m |-> 1, d |-> 31],
          total |-> Num(1000), unit |-> Num(10), parkingPrice |-> Cell("blank"),
          land |-> Land("land_area_sqm", Num(100)), building |-> NoArea, parking |-> NoArea,
          otherAreas |-> {}, unitPing |-> FALSE, age |-> Cell("blank")]

Places == {[Plain EXCEPT !.county = c, !.district = d, !.section = s, !.land_number = n,
                         !.address = [section |-> a, land_number |-> b]] :
           c \in {Blank, Z(1), Z(8)}, d \in {Blank, Z(2), Z(8)}, s \in {Blank, Name, <<"a">>},
           n \in {Blank, <<"a">>}, a \in {Blank, Name}, b \in {Blank, <<"a", "a">>}}

Amounts == {Cell("blank"), Cell("text"), Num(0), Num(5), Num(10), Num(99)}

Prices == {[Plain EXCEPT !.total = t, !.unit = u, !.parkingPrice = k] :
           t \in Amounts, u \in Amounts, k \in Amounts}

Sizes == {Cell("blank"), Cell("text"), [kind |-> "ping", v |-> 20], Num(-10), Num(0), Num(4),
          Num(5), Num(994), Num(99500), Num(100000)}

AreaColumns == {NoArea} \cup {[sqm |-> s, ping |-> p] : s \in {<<c>> : c \in Sizes}
                                                           \cup {<<Cell("blank"), Num(7)>>},
                                                       p \in {<<>>, <<Num(10)>>}}

Lands == UNION {{Land(k, c), [Land(k, c) EXCEPT !["land_area_ping"] = Num(10)],
                 [Land(k, c) EXCEPT !["area"] = Num(7)]} : k \in LandColumns, c \in Sizes}

Areas == {[Plain EXCEPT !.land = l, !.building = b, !.unitPing = u] :
          l \in Lands, b \in AreaColumns, u \in BOOLEAN}
         \cup {[Plain EXCEPT !.land = l, !.parking = k, !.otherAreas = o] :
               l \in {Land("land_area", c) : c \in Sizes}, k \in AreaColumns,
               o \in {{}, {[kind |-> "ping", v |-> 20]}}}

Ages == {[Plain EXCEPT !.age = a] : a \in {Cell("text")} \cup {Num(v) : v \in -1..17}}

MCDateCells == [form : {"digits8", "digits7", "digits6", "nyr", "separated", "other"},
          y : {78, 79, 80, 113, 189, 999, 1000, 1900, 1990, 2000, 2023, 2024},
          m : {0, 1, 2, 4, 12, 13}, d : {0, 1, 28, 29, 30, 31, 32}]

MCCsvRows == Places \cup Prices \cup Areas \cup Ages
MCFileCounties == {Blank, Z(1)}

\* Two records of up to four cells under three headers, two of them of one code.
MCHeaders == <<"town", "place", "sectionName">>
MCRecords == {r \in SeqOf({Blank, <<"a">>, English}, 4) : Len(r) >= 2}
MCFiles == {<<r, s>> : r \in MCRecords, s \in MCRecords}

Sale(v) == [section |-> IF v = 2 THEN "other" ELSE "here", unit |-> v, total |-> 3 * v,
            land |-> v, building |-> v]
MCSamples == {[i \in DOMAIN s |-> Sale(s[i])] : s \in SeqOf({1, 2, 4, 9}, 5)}

MCTarget == [id |-> 0, section |-> "here", area |-> 100, zone |-> "residential",
             use |-> "build", age |-> 0]
Features == {[section |-> "here", area |-> 95, zone |-> "residential", use |-> "build"],
             [section |-> "here", area |-> 80, zone |-> "farm", use |-> "build"],
             [section |-> "here", area |-> 120, zone |-> "residential", use |-> "farm"],
             [section |-> "here", area |-> 0, zone |-> "farm", use |-> "farm"],
             [section |-> "here", area |-> 200, zone |-> "residential", use |-> "build"],
             [section |-> "there", area |-> 100, zone |-> "residential", use |-> "build"]}

Candidate(i, f) == [id |-> i, section |-> f.section, area |-> f.area, zone |-> f.zone,
                    use |-> f.use, age |-> IF i <= 4 THEN 0 ELSE 2]
MCMarkets == {{MCTarget} \cup {Candidate(i, g[i]) : i \in 1..5} : g \in [1..5 -> Features]}

Quality == {[score |-> 9000, areaSim |-> 90, zoneMatch |-> TRUE],
            [score |-> 6000, areaSim |-> 65, zoneMatch |-> TRUE],
            [score |-> 3000, areaSim |-> 0, zoneMatch |-> FALSE]}
Grade(i, q) == [id |-> i, score |-> q.score, areaSim |-> q.areaSim, zoneMatch |-> q.zoneMatch,
                distance |-> 100]
MCGradings == {[i \in DOMAIN s |-> Grade(i, s[i])] : s \in SeqOf(Quality, 5)}

MCComparable == {Grade(0, q) : q \in Quality}

MCParams == [target |-> MCTarget.id]
=============================================================================
