----------------------------- MODULE RoadAccess -----------------------------
(***************************************************************************)
(* RoadAccessEngine: DetermineRoadAccess of one parcel, and of several one *)
(* after the other, while roads are imported and deleted.                  *)
(*                                                                         *)
(* The search for nearby roads ignores the parcel's box: it returns the    *)
(* roads stored, the last created first; and the distance to each of them  *)
(* is the placeholder 0.  So the parcel is adjacent to the first of them,  *)
(* which is any one of those created last.                                 *)
(***************************************************************************)
EXTENDS Integers, Sequences, FiniteSets

CONSTANTS
    Engines,     \* callers of the engine
    Asked,       \* [Engines -> Seq(parcels)]: what each asks for, in order
    Roads,       \* road segments
    NoRoad,      \* road_id NULL
    NoEngine,    \* the creator of a record that is not there
    MaxBatches   \* bound: batches of roads

ParcelsAsked == UNION {{Asked[e][i] : i \in DOMAIN Asked[e]} : e \in Engines}

ASSUME RoadAssumption ==
    /\ Asked \in [Engines -> Seq(ParcelsAsked)]
    /\ NoRoad \notin Roads /\ NoEngine \notin Engines

VARIABLES
    created,   \* [Roads -> Nat]: when it was created, 0 if it is not stored
    now,       \* batches of roads inserted so far
    records,   \* parcel_road_access of a parcel: [by, road, type]
    engines,   \* [Engines -> [parcel: index, read: what findBestRoad gave]]
    answers,   \* <<engine, parcel, road, type>> returned
    removed    \* <<engine, parcel>> of records deleted since

rvars == <<created, now, records, engines, answers, removed>>

NoRecord == [by |-> NoEngine, road |-> NoRoad, type |-> "none"]
NotRead == [road |-> NoRoad, type |-> "none"]

RoadInit ==
    /\ created = [r \in Roads |-> 0] /\ now = 0
    /\ records = [p \in ParcelsAsked |-> NoRecord]
    /\ engines = [e \in Engines |-> [parcel |-> 1, read |-> NotRead]]
    /\ answers = {} /\ removed = {}

Stored == {r \in Roads : created[r] > 0}

\* RoadSegmentRepository.Create, or one chunk of BatchInsert.
InsertRoads(S) ==
    /\ S # {} /\ S \cap Stored = {} /\ now < MaxBatches
    /\ now' = now + 1
    /\ created' = [r \in Roads |-> IF r \in S THEN now + 1 ELSE created[r]]
    /\ UNCHANGED <<records, engines, answers, removed>>

\* DELETE of a road: its records stay, ON DELETE SET NULL.
DeleteRoad(r) ==
    /\ r \in Stored
    /\ created' = [created EXCEPT ![r] = 0]
    /\ records' = [p \in DOMAIN records |->
                      IF records[p].road = r THEN [records[p] EXCEPT !.road = NoRoad]
                      ELSE records[p]]
    /\ UNCHANGED <<now, engines, answers, removed>>

----------------------------------------------------------------------------
Busy(e) == engines[e].parcel <= Len(Asked[e])
Current(e) == Asked[e][engines[e].parcel]

\* findNearbyRoads and findBestRoad: ORDER BY created_at DESC, the first wins.
Best == {r \in Stored : \A s \in Stored : created[s] <= created[r]}

ReadRoads(e) ==
    /\ Busy(e) /\ engines[e].read = NotRead
    /\ \E read \in IF Stored = {} THEN {[road |-> NoRoad, type |-> "NO_ROAD_DETECTED"]}
                   ELSE {[road |-> r, type |-> "ROAD_ADJACENT"] : r \in Best} :
          engines' = [engines EXCEPT ![e].read = read]
    /\ UNCHANGED <<created, now, records, answers, removed>>

Following(e) == engines' = [engines EXCEPT ![e] = [parcel |-> @.parcel + 1, read |-> NotRead]]

\* Mutation: ON CONFLICT (parcel_id, algorithm_version) DO UPDATE.
CreateOrReplace(e) ==
    /\ Busy(e) /\ engines[e].read # NotRead
    /\ engines[e].read.road \in Stored \cup {NoRoad}
    /\ LET read == engines[e].read
       IN  /\ records' = [records EXCEPT ![Current(e)] =
                             [by |-> e, road |-> read.road, type |-> read.type]]
           /\ answers' = answers \cup {<<e, Current(e), read.type>>}
    /\ Following(e)
    /\ UNCHANGED <<created, now, removed>>

\* createAccessRecord: UNIQUE (parcel_id, algorithm_version) lets the first
\* answer stand, and the road must still be there.
CreateRecord(e) ==
    /\ Busy(e) /\ engines[e].read # NotRead
    /\ records[Current(e)] = NoRecord /\ engines[e].read.road \in Stored \cup {NoRoad}
    /\ LET read == engines[e].read
       IN  /\ records' = [records EXCEPT ![Current(e)] =
                             [by |-> e, road |-> read.road, type |-> read.type]]
           /\ answers' = answers \cup {<<e, Current(e), read.type>>}
    /\ Following(e)
    /\ UNCHANGED <<created, now, removed>>

\* An error of any of the three steps (a record or no road any more in the
\* last one): DetermineBatchRoadAccess goes on with the next parcel.
SkipParcel(e) == Busy(e) /\ Following(e) /\ UNCHANGED <<created, now, records, answers, removed>>

\* ParcelRoadAccessRepository.Delete.
DeleteRecord(p) ==
    /\ records[p] # NoRecord
    /\ removed' = removed \cup {<<records[p].by, p>>}
    /\ records' = [records EXCEPT ![p] = NoRecord]
    /\ UNCHANGED <<created, now, engines, answers>>

RoadNext ==
    \/ \E S \in SUBSET Roads : InsertRoads(S)
    \/ \E r \in Roads : DeleteRoad(r)
    \/ \E e \in Engines : ReadRoads(e) \/ CreateRecord(e) \/ SkipParcel(e)
    \/ \E p \in ParcelsAsked : DeleteRecord(p)

RoadSpec == RoadInit /\ [][RoadNext]_rvars

----------------------------------------------------------------------------
\* What the engine has answered for a parcel is on record, under that type,
\* until the record is deleted: a later or concurrent determination does not
\* replace it.  And a record never names a road that is gone.
AnswersAreRecorded ==
    /\ \A a \in answers : <<a[1], a[2]>> \in removed
                             \/ (records[a[2]].by = a[1] /\ records[a[2]].type = a[3])
    /\ \A p \in DOMAIN records : records[p].road \in Stored \cup {NoRoad}
=============================================================================
