------------------------- MODULE SnapshotRepository -------------------------
(***************************************************************************)
(* internal/repository/snapshot.go on one row of dataset_snapshot, called  *)
(* by several clients at once, with the trigger of migration 000002 and    *)
(* the foreign key of import_batch.  Each SQL statement is one step (a     *)
(* statement that meets a locked row waits and then reads the new one).    *)
(* UpdateStatus is two: it reads the status and checks CanTransition, and  *)
(* later writes the new status whatever the row says by then.              *)
(***************************************************************************)
EXTENDS SnapshotStatus

CONSTANTS Clients, NoTarget

ASSUME TargetAssumption == NoTarget \notin Status

\* The row was there and is deleted: ids are never used twice.
Gone == "GONE"

VARIABLES status,     \* of the row; Absent before Create
          started,    \* import_started_at IS NOT NULL
          completed,  \* import_completed_at IS NOT NULL
          batches,    \* an import_batch row refers to the snapshot
          target      \* what each client's UpdateStatus is about to write

vars == <<status, started, completed, batches, target>>

Exists == status \notin {Absent, Gone}

Init == /\ status = Absent
        /\ started = FALSE /\ completed = FALSE /\ batches = FALSE
        /\ target = [c \in Clients |-> NoTarget]

Idle(c) == target[c] = NoTarget

\* Create; every caller asks for PENDING.
Create(c) == /\ Idle(c) /\ status = Absent
             /\ status' = "PENDING"
             /\ UNCHANGED <<started, completed, batches, target>>

\* Mutation: the target is not checked against the state machine.
ReadStatusUnchecked(c, to) ==
    /\ Idle(c) /\ Exists
    /\ target' = [target EXCEPT ![c] = to]
    /\ UNCHANGED <<status, started, completed, batches>>

\* UpdateStatus, first half: GetSnapshotByID and CanTransition.  When the
\* check fails it returns an error and nothing has happened.
ReadStatus(c, to) ==
    /\ Idle(c) /\ Exists
    /\ CanTransition(status, to)
    /\ target' = [target EXCEPT ![c] = to]
    /\ UNCHANGED <<status, started, completed, batches>>

\* Mutation: the trigger of migration 000002 is missing.
WriteStatusNoTrigger(c) ==
    /\ ~Idle(c)
    /\ IF Exists
       THEN /\ status' = target[c]
            /\ started' = (started \/ target[c] = "IMPORTING")
            /\ completed' = (completed \/ target[c] = "LOCKED")
       ELSE UNCHANGED <<status, started, completed>>
    /\ target' = [target EXCEPT ![c] = NoTarget]
    /\ UNCHANGED batches

\* UpdateStatus, second half: UPDATE ... WHERE id = $1.  The trigger raises
\* an error on a LOCKED row; a deleted row is not found.
WriteStatus(c) ==
    /\ ~Idle(c)
    /\ IF Exists /\ status # "LOCKED"
       THEN /\ status' = target[c]
            /\ started' = (started \/ target[c] = "IMPORTING")
            /\ completed' = (completed \/ target[c] = "LOCKED")
       ELSE UNCHANGED <<status, started, completed>>
    /\ target' = [target EXCEPT ![c] = NoTarget]
    /\ UNCHANGED batches

\* Mutation: the statement does not ask for IMPORTING.
LockAnything(c) == /\ Idle(c) /\ Exists /\ status # "LOCKED"
                   /\ status' = "LOCKED" /\ completed' = TRUE
                   /\ UNCHANGED <<started, batches, target>>

\* Lock: one statement, which asks for the status it needs.
Lock(c) == /\ Idle(c) /\ status = "IMPORTING"
           /\ status' = "LOCKED" /\ completed' = TRUE
           /\ UNCHANGED <<started, batches, target>>

\* Delete: refused by the trigger when LOCKED, by ON DELETE RESTRICT when
\* an import_batch refers to the row.
Delete(c) == /\ Idle(c) /\ Exists
             /\ status # "LOCKED" /\ ~batches
             /\ status' = Gone
             /\ UNCHANGED <<started, completed, batches, target>>

\* INSERT INTO import_batch, which needs the row.
AttachBatch(c) == /\ Idle(c) /\ Exists
                  /\ batches' = TRUE
                  /\ UNCHANGED <<status, started, completed, target>>

\* A client's server dies, or its connection, before the second half.
Crash(c) == /\ ~Idle(c)
            /\ target' = [target EXCEPT ![c] = NoTarget]
            /\ UNCHANGED <<status, started, completed, batches>>

Next == \E c \in Clients :
            \/ Create(c) \/ WriteStatus(c) \/ Lock(c) \/ Delete(c)
            \/ AttachBatch(c) \/ Crash(c)
            \/ \E to \in Status : ReadStatus(c, to)

Spec == Init /\ [][Next]_vars

----------------------------------------------------------------------------
\* Every variable keeps to its range, and a write under way is one that
\* CanTransition allowed from some status.
TypeOK == /\ status \in Status \cup {Absent, Gone}
          /\ {started, completed, batches} \subseteq BOOLEAN
          /\ target \in [Clients -> {"IMPORTING", "LOCKED", "FAILED", NoTarget}]

\* SPEC P2: a LOCKED row stays as it is, also under an UpdateStatus that
\* checked the row before it was LOCKED.
LockedIsFinal ==
    [][status = "LOCKED" => UNCHANGED <<status, started, completed>>]_vars

\* IsStale sorts the LOCKED snapshots by import_completed_at: the column is
\* set exactly when the row is LOCKED, and a row that got past PENDING has
\* its import_started_at, whichever clients wrote the two.
TimestampsTellStatus ==
    /\ completed <=> status = "LOCKED"
    /\ status \in {"IMPORTING", "LOCKED", "FAILED"} => started

\* internal/domain/snapshot.go:36: "LOCKED and FAILED are terminal."  Only
\* Delete may take a FAILED row further.
FailedIsTerminal ==
    [][status = "FAILED" => status' \in {"FAILED", Gone}]_vars
=============================================================================
