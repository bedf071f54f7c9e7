--------------------------- MODULE ValuationStore ---------------------------
(***************************************************************************)
(* The tables valuation_result and comparable_result: their repositories,  *)
(* the artifact locks (migration 000004) and the foreign keys that protect *)
(* what they refer to, and GetProvenanceByValuation, which reads them one  *)
(* query at a time.                                                        *)
(*                                                                         *)
(* A call inserts a valuation with its comparables (PersistValuation), a   *)
(* valuation alone (Insert) or comparables alone (BatchInsert).  Each      *)
(* refers to transactions of any snapshot.  Nothing in the program deletes *)
(* a transaction: an operator does, against the locks.  Transactions of    *)
(* the Published snapshots come with a pipeline's COMMIT, their snapshot   *)
(* LOCKED; the others are inserted first and locked later.                 *)
(***************************************************************************)
EXTENDS Integers, Sequences, FiniteSets

CONSTANTS
    Calls,      \* calls of the two repositories
    KindOf,     \* [Calls -> {"persist", "insert", "batch"}]
    Ids,        \* [Calls -> Seq(Txns)]: the comparables, best first
    HashOf,     \* [Calls -> ...]: query_hash
    Storable,   \* calls whose values the CHECKs accept (all > 0)
    Txns,       \* transactions
    SnapshotOf, \* [Txns -> ...]: their snapshots
    Published,  \* snapshots an import commits with their rows
    Nothing     \* no transaction, no call

ASSUME StoreAssumption ==
    /\ Ids \in [Calls -> Seq(Txns)] /\ KindOf \in [Calls -> {"persist", "insert", "batch"}]
    /\ Nothing \notin Txns \cup Calls

VARIABLES
    stored,      \* transactions committed
    locked,      \* snapshots with status LOCKED
    deleting,    \* the transaction a DELETE has passed the trigger for
    stage,       \* [Calls -> {"idle", "valuation", "comparables", "done", "failed"}]
    next,        \* [Calls -> Nat]: the comparable to insert next
    valuations,  \* calls whose valuation is committed
    comparables, \* <<call, position>> of the comparables committed
    reader       \* a call of GetProvenanceByValuation; failed: one of its queries did

vvars == <<stored, locked, deleting, stage, next, valuations, comparables, reader>>

NoReader == [of |-> Nothing, next |-> 0, found |-> FALSE, failed |-> FALSE, status |-> "none"]

StoreInit ==
    /\ stored = {} /\ locked = {} /\ deleting = Nothing
    /\ stage = [c \in Calls |-> "idle"] /\ next = [c \in Calls |-> 1]
    /\ valuations = {} /\ comparables = {} /\ reader = NoReader

RowsOf(s) == {t \in Txns : SnapshotOf[t] = s}

----------------------------------------------------------------------------
(* Imports and deletes *)

\* COMMIT of an import: the rows and the LOCKED snapshot appear together.
Publish(s) ==
    /\ s \in Published \ locked
    /\ stored' = stored \cup RowsOf(s) /\ locked' = locked \cup {s}
    /\ UNCHANGED <<deleting, stage, next, valuations, comparables, reader>>

\* TransactionRepository.BatchInsert and SnapshotRepository.Lock on their own:
\* no trigger guards an INSERT.
InsertTxn(t) ==
    /\ SnapshotOf[t] \notin Published /\ t \notin stored
    /\ stored' = stored \cup {t}
    /\ UNCHANGED <<locked, deleting, stage, next, valuations, comparables, reader>>

LockSnapshot(s) ==
    /\ s \notin Published \cup locked
    /\ locked' = locked \cup {s}
    /\ UNCHANGED <<stored, deleting, stage, next, valuations, comparables, reader>>

\* Transactions that open database transactions refer to.
Open == {c \in Calls : KindOf[c] = "persist" /\ stage[c] = "comparables"}
Held == UNION {{Ids[c][i] : i \in 1..(next[c] - 1)} : c \in Open}

\* Mutation: no trg_transaction_lock.
DeleteTxnUnguarded(t) ==
    /\ deleting = Nothing /\ t \in stored /\ t \notin Held
    /\ deleting' = t
    /\ UNCHANGED <<stored, locked, stage, next, valuations, comparables, reader>>

\* DELETE: the row is locked, which waits for those that refer to it, then
\* trg_transaction_lock reads the status of its snapshot.
DeleteTxn(t) ==
    /\ deleting = Nothing /\ t \in stored /\ t \notin Held
    /\ SnapshotOf[t] \notin locked
    /\ deleting' = t
    /\ UNCHANGED <<stored, locked, stage, next, valuations, comparables, reader>>

Referred == {Ids[p[1]][p[2]] : p \in comparables}

\* Mutation: candidate_transaction_id has no foreign key.
FinishDeleteUnchecked ==
    /\ deleting # Nothing
    /\ stored' = stored \ {deleting}
    /\ deleting' = Nothing
    /\ UNCHANGED <<locked, stage, next, valuations, comparables, reader>>

\* The row goes, unless comparable_result refers to it: ON DELETE RESTRICT.
FinishDelete ==
    /\ deleting # Nothing
    /\ stored' = IF deleting \in Referred THEN stored ELSE stored \ {deleting}
    /\ deleting' = Nothing
    /\ UNCHANGED <<locked, stage, next, valuations, comparables, reader>>

----------------------------------------------------------------------------
(* The repositories *)

Goto(c, s) == stage' = [stage EXCEPT ![c] = s]

\* UNIQUE (query_hash): an INSERT waits for an open transaction that holds
\* the hash, and fails when it is taken.
HashHeld(c) == \E d \in Open : HashOf[d] = HashOf[c]
HashTaken(c) == \E d \in valuations : HashOf[d] = HashOf[c]

Accepted(c) == c \in Storable /\ ~HashTaken(c)

\* InsertValuationResult: of PersistValuation inside its transaction, where
\* what is inserted stays unseen; of Insert on its own.
InsertValuation(c) ==
    /\ stage[c] = "idle" /\ KindOf[c] # "batch" /\ ~HashHeld(c)
    /\ IF ~Accepted(c) THEN Goto(c, "failed")
       ELSE Goto(c, IF KindOf[c] = "persist" THEN "comparables" ELSE "done")
    /\ valuations' = IF Accepted(c) /\ KindOf[c] = "insert" THEN valuations \cup {c} ELSE valuations
    /\ UNCHANGED <<stored, locked, deleting, next, comparables, reader>>

StartBatch(c) ==
    /\ stage[c] = "idle" /\ KindOf[c] = "batch"
    /\ Goto(c, "comparables")
    /\ UNCHANGED <<stored, locked, deleting, next, valuations, comparables, reader>>

\* Mutation: PersistValuation inserts its comparables with r.queries.
InsertComparableOnPool(c) ==
    /\ stage[c] = "comparables" /\ next[c] <= Len(Ids[c]) /\ Ids[c][next[c]] # deleting
    /\ IF Ids[c][next[c]] \in stored
       THEN /\ next' = [next EXCEPT ![c] = @ + 1] /\ UNCHANGED stage
            /\ comparables' = comparables \cup {<<c, next[c]>>}
       ELSE Goto(c, "failed") /\ UNCHANGED <<next, comparables>>
    /\ UNCHANGED <<stored, locked, deleting, valuations, reader>>

\* InsertComparableResult refers to a transaction that is stored: it waits
\* for a DELETE of the row and fails when it is gone, which rolls a
\* PersistValuation back and leaves what a BatchInsert has inserted.
InsertComparable(c) ==
    /\ stage[c] = "comparables" /\ next[c] <= Len(Ids[c]) /\ Ids[c][next[c]] # deleting
    /\ IF Ids[c][next[c]] \in stored
       THEN /\ next' = [next EXCEPT ![c] = @ + 1] /\ UNCHANGED stage
            /\ comparables' = IF KindOf[c] = "batch" THEN comparables \cup {<<c, next[c]>>}
                              ELSE comparables
       ELSE Goto(c, "failed") /\ UNCHANGED <<next, comparables>>
    /\ UNCHANGED <<stored, locked, deleting, valuations, reader>>

\* COMMIT of BeginFunc, whose answer may be lost; a BatchInsert has nothing to
\* commit.
Finish(c) ==
    /\ stage[c] = "comparables" /\ next[c] > Len(Ids[c])
    /\ Goto(c, "done") \/ (c \in Open /\ Goto(c, "failed"))
    /\ IF KindOf[c] = "persist"
       THEN /\ valuations' = valuations \cup {c}
            /\ comparables' = comparables \cup {<<c, i>> : i \in DOMAIN Ids[c]}
       ELSE UNCHANGED <<valuations, comparables>>
    /\ UNCHANGED <<stored, locked, deleting, next, reader>>

\* The context ends, the connection breaks or the server is killed.
Interrupt(c) ==
    /\ stage[c] = "comparables"
    /\ Goto(c, "failed")
    /\ UNCHANGED <<stored, locked, deleting, next, valuations, comparables, reader>>

----------------------------------------------------------------------------
(* GetProvenanceByValuation *)

\* getValuationResult; the snapshot and the parcel it joins are never deleted
\* while a valuation refers to them.
ReadValuation(c) ==
    /\ reader.of = Nothing /\ c \in valuations
    /\ reader' = [NoReader EXCEPT !.of = c, !.next = 1]
    /\ UNCHANGED <<stored, locked, deleting, stage, next, valuations, comparables>>

Reading == reader.of # Nothing /\ reader.status = "none"

\* GetProvenanceByTransaction: first the transaction, then its snapshot.
ReadTxn ==
    /\ Reading /\ ~reader.found /\ reader.next <= Len(Ids[reader.of])
    /\ reader' = IF Ids[reader.of][reader.next] \in stored
                 THEN [reader EXCEPT !.found = TRUE]
                 ELSE [reader EXCEPT !.status = "DATA_NOT_AVAILABLE"]
    /\ UNCHANGED <<stored, locked, deleting, stage, next, valuations, comparables>>

ReadSnapshot ==
    /\ Reading /\ reader.found
    /\ reader' = [reader EXCEPT !.found = FALSE, !.next = @ + 1]
    /\ UNCHANGED <<stored, locked, deleting, stage, next, valuations, comparables>>

\* The query for the transaction or for its snapshot fails: a timeout, a broken
\* connection, a cancelled context.  The answer is that of a missing row.
ReadFails ==
    /\ Reading /\ (reader.found \/ reader.next <= Len(Ids[reader.of]))
    /\ reader' = [reader EXCEPT !.status = "DATA_NOT_AVAILABLE", !.failed = TRUE]
    /\ UNCHANGED <<stored, locked, deleting, stage, next, valuations, comparables>>

AllRead ==
    /\ Reading /\ reader.next > Len(Ids[reader.of])
    /\ reader' = [reader EXCEPT !.status = "AVAILABLE"]
    /\ UNCHANGED <<stored, locked, deleting, stage, next, valuations, comparables>>

CloseReader == /\ reader.status # "none" /\ reader' = NoReader
               /\ UNCHANGED <<stored, locked, deleting, stage, next, valuations, comparables>>

StoreNext ==
    \/ \E s \in {SnapshotOf[t] : t \in Txns} : Publish(s) \/ LockSnapshot(s)
    \/ \E t \in Txns : InsertTxn(t) \/ DeleteTxn(t)
    \/ FinishDelete
    \/ \E c \in Calls : \/ InsertValuation(c) \/ StartBatch(c) \/ InsertComparable(c)
                        \/ Finish(c) \/ Interrupt(c) \/ ReadValuation(c)
    \/ ReadTxn \/ ReadSnapshot \/ ReadFails \/ AllRead \/ CloseReader

StoreSpec == StoreInit /\ [][StoreNext]_vvars

----------------------------------------------------------------------------
\* PersistValuation is atomic: its comparables are in the table when its
\* valuation is, none of them before or without it, and its query hash is its
\* own.
ValuationIsWhole ==
    \A c \in Calls : KindOf[c] = "persist" =>
        /\ {p \in comparables : p[1] = c} = IF c \in valuations THEN {c} \X DOMAIN Ids[c] ELSE {}
        /\ c \in valuations => \A d \in valuations \ {c} : HashOf[d] # HashOf[c]

\* The transactions of a valuation that was persisted with its comparables
\* stay as long as it does, whatever is deleted while it is inserted or read.
\* So its provenance is called not available only because a query failed, and
\* who asks again can get it.
ProvenanceIsAvailable ==
    /\ reader.status = "DATA_NOT_AVAILABLE" => KindOf[reader.of] # "persist" \/ reader.failed
    /\ \A c \in valuations : KindOf[c] = "persist" =>
          \A i \in DOMAIN Ids[c] : Ids[c][i] \in stored

\* A row an import has published is there for good, even while its snapshot
\* is being published: no DELETE ever reads the status of the snapshot before
\* the row and its LOCKED snapshot are committed.
PublishedRowsStay ==
    \A s \in Published \cap locked : RowsOf(s) \subseteq stored
=============================================================================
