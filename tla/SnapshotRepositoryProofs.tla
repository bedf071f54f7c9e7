---------------------- MODULE SnapshotRepositoryProofs ----------------------
(***************************************************************************)
(* Theorems about SnapshotRepository for every number of clients.          *)
(***************************************************************************)
EXTENDS SnapshotRepository, TLAPS

\* An UpdateStatus that is about to write LOCKED or FAILED has read
\* IMPORTING, and import_started_at is never cleared.
TargetsWereImporting ==
    \A c \in Clients : target[c] \in {"LOCKED", "FAILED"} => started

\* The inductive invariant.
IInv == TypeOK /\ TimestampsTellStatus /\ TargetsWereImporting

USE DEF Status, Absent, Gone

\* The edges of the state machine, spelled out.
LEMMA Edges ==
    ASSUME NEW from, NEW to, CanTransition(from, to)
    PROVE  \/ from = "PENDING" /\ to = "IMPORTING"
           \/ from = "IMPORTING" /\ to \in {"LOCKED", "FAILED"}
  BY DEF CanTransition, ValidTransitions

\* Every step preserves the invariant.
LEMMA NextKeepsIInv == IInv /\ [Next]_vars => IInv'
  <1> SUFFICES ASSUME IInv, [Next]_vars PROVE IInv'
    OBVIOUS
  <1> USE TargetAssumption
      DEF IInv, TypeOK, TimestampsTellStatus, TargetsWereImporting,
          Exists, Idle
  <1>1. ASSUME NEW c \in Clients, Create(c) PROVE IInv'
    BY <1>1 DEF Create
  <1>2. ASSUME NEW c \in Clients, NEW to \in Status, ReadStatus(c, to) PROVE IInv'
    <2>1. \/ status = "PENDING" /\ to = "IMPORTING"
          \/ status = "IMPORTING" /\ to \in {"LOCKED", "FAILED"}
      BY <1>2, Edges DEF ReadStatus
    <2> QED
      BY <1>2, <2>1 DEF ReadStatus
  <1>3. ASSUME NEW c \in Clients, WriteStatus(c) PROVE IInv'
    <2>1. CASE Exists /\ status # "LOCKED"
      BY <1>3, <2>1 DEF WriteStatus
    <2>2. CASE ~(Exists /\ status # "LOCKED")
      BY <1>3, <2>2 DEF WriteStatus
    <2> QED
      BY <2>1, <2>2
  <1>4. ASSUME NEW c \in Clients, Lock(c) PROVE IInv'
    BY <1>4 DEF Lock
  <1>5. ASSUME NEW c \in Clients, Delete(c) PROVE IInv'
    BY <1>5 DEF Delete
  <1>6. ASSUME NEW c \in Clients, AttachBatch(c) PROVE IInv'
    BY <1>6 DEF AttachBatch
  <1>7. ASSUME NEW c \in Clients, Crash(c) PROVE IInv'
    BY <1>7 DEF Crash
  <1>8. CASE UNCHANGED vars
    BY <1>8 DEF vars
  <1> QED
    BY <1>1, <1>2, <1>3, <1>4, <1>5, <1>6, <1>7, <1>8 DEF Next

\* The strengthened invariant holds in every reachable state.
THEOREM Invariant == Spec => []IInv
  <1>1. Init => IInv
    BY TargetAssumption
    DEF Init, IInv, TypeOK, TimestampsTellStatus, TargetsWereImporting
  <1> QED
    BY <1>1, NextKeepsIInv, PTL DEF Spec

\* Every variable keeps to its range: whatever a client is about to write,
\* CanTransition allowed it.
THEOREM TypeCorrect == Spec => []TypeOK
  <1>1. IInv => TypeOK
    BY DEF IInv
  <1> QED
    BY <1>1, Invariant, PTL

\* import_completed_at tells LOCKED rows from the others, for any clients.
THEOREM Timestamps == Spec => []TimestampsTellStatus
  <1>1. IInv => TimestampsTellStatus
    BY DEF IInv
  <1> QED
    BY <1>1, Invariant, PTL

\* A LOCKED row stays as it is, whatever late writes arrive.
THEOREM LockedStays == Spec => LockedIsFinal
  <1>1. ASSUME [Next]_vars
        PROVE  [status = "LOCKED" => UNCHANGED <<status, started, completed>>]_vars
    BY <1>1
    DEF Next, Create, ReadStatus, WriteStatus, Lock, Delete, AttachBatch, Crash, Exists
  <1> QED
    BY <1>1, PTL DEF Spec, LockedIsFinal
=============================================================================
