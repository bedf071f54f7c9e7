--------------------------- MODULE SnapshotStatus ---------------------------
(***************************************************************************)
(* The life of a dataset_snapshot row (internal/domain/snapshot.go): the   *)
(* statuses and the edges UpdateStatus consults before it writes one.      *)
(***************************************************************************)

Status == {"PENDING", "IMPORTING", "LOCKED", "FAILED"}

\* No row with this id: GetByID finds nothing.
Absent == "ABSENT"

ValidTransitions == [PENDING   |-> {"IMPORTING"},
                     IMPORTING |-> {"LOCKED", "FAILED"}]

Terminal == {"LOCKED", "FAILED"}

CanTransition(from, to) ==
    /\ from \notin Terminal
    /\ from \in DOMAIN ValidTransitions
    /\ to \in ValidTransitions[from]
=============================================================================
