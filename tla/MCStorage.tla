----------------------------- MODULE MCStorage ------------------------------
(***************************************************************************)
(* What is stored beside the imports.  The five parts share no state but   *)
(* the rows imports publish, so each behavior exercises one of them.       *)
(***************************************************************************)
EXTENDS ValuationStore, RawArchive, RoadAccess, GisSource, Queries, TLC

VARIABLE part

vars == <<part, vvars, avars, rvars, gvars, qvars>>

CONSTANTS p1, p2, p3, b1, i1, t1, t2, s1, s2, c1, c2, c3, f1, f2, e1, e2, x, y

\* Two valuations of one query, one of no comparables (whose values are 0,
\* which the table refuses), one alone, and a batch of comparables.
MCKindOf == p1 :> "persist" @@ p3 :> "persist" @@ p2 :> "persist" @@ i1 :> "insert" @@ b1 :> "batch"
MCIds == p1 :> <<t1, t2>> @@ p3 :> <<>> @@ p2 :> <<t2>> @@ i1 :> <<t2>> @@ b1 :> <<t2, t1>>
MCHashOf == p1 :> "h" @@ p3 :> "m" @@ p2 :> "h" @@ i1 :> "k" @@ b1 :> "none"
MCSnapshotOf == t1 :> s1 @@ t2 :> s2

\* The third caller expects the file f1.
MCExpected == c1 :> NoFile @@ c2 :> NoFile @@ c3 :> f1

\* Both engines are asked for x, one of them for y too.
MCAsked == e1 :> <<x, y>> @@ e2 :> <<x>>

MCRows == {[kind |-> "transaction", id |-> i, rank |-> i \div 2] : i \in 1..4}
              \cup {[kind |-> "parcel", id |-> i, rank |-> i \div 2] : i \in 1..3}
MCDefaultLimit == [kind \in {"transaction", "parcel"} |-> IF kind = "parcel" THEN 2 ELSE 1]

Init == /\ part \in {"valuations", "archive", "roads", "gis", "queries"}
        /\ StoreInit /\ ArchiveInit /\ RoadInit /\ GisInit /\ QueriesInit

Next ==
    \/ part = "valuations" /\ StoreNext /\ UNCHANGED <<part, avars, rvars, gvars, qvars>>
    \/ part = "archive" /\ ArchiveNext /\ UNCHANGED <<part, vvars, rvars, gvars, qvars>>
    \/ part = "roads" /\ RoadNext /\ UNCHANGED <<part, vvars, avars, gvars, qvars>>
    \/ part = "gis" /\ GisNext /\ UNCHANGED <<part, vvars, avars, rvars, qvars>>
    \/ part = "queries" /\ QueriesNext /\ UNCHANGED <<part, vvars, avars, rvars, gvars>>

Spec == Init /\ [][Next]_vars
=============================================================================
