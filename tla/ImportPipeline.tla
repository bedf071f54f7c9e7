--------------------------- MODULE ImportPipeline ---------------------------
(***************************************************************************)
(* internal/importpipeline: ImportFromSource, run concurrently by the      *)
(* servers that share one PostgreSQL database.                             *)
(*                                                                         *)
(* Every run imports one file under a snapshot id of its own (the          *)
(* scheduler draws a fresh uuid for each), so a run and its snapshot have  *)
(* the same name here.  A run goes through the stages of pc; the database  *)
(* is what the other runs and the readers see.  importData works inside    *)
(* one transaction: what it has inserted so far is in staged and held, and *)
(* reaches txns, parcels and batches with the COMMIT only.                 *)
(*                                                                         *)
(* A file stands for its bytes and for their SHA-256.  A row of a file     *)
(* stands for its columns and for their source_record_hash; what the       *)
(* normalizer and the validator make of it is given by the constants.      *)
(***************************************************************************)
EXTENDS Integers, Sequences, FiniteSets, SnapshotStatus

CONSTANTS
    Runs,         \* calls of ImportFromSource, and their snapshots
    Files,        \* the files that may be imported
    Row,          \* the distinct rows of those files
    Rows,         \* [Files -> Seq(Row)]: the rows of a file, in its order
    Zipped,       \* the files that are zip archives (the others are CSV)
    TxnKey,       \* [Row -> ...]: county|district|section|land|transaction_id
    Unnumbered,   \* TxnKey of a row without a serial: a new uuid every time
    Rejected,     \* TxnKey of a row normalize or validate drops
    ParcelKeys,   \* county|district|section|land_number of a parcel
    ParcelOf,     \* [Row -> ...]: the parcel a row yields
    NoParcel,     \* ParcelOf of a row that yields none
    Storable,     \* the rows whose numbers the columns' CHECKs accept
    Configs,      \* PipelineConfigs: [local, expected]
    Remote,       \* local of a run that downloads its file
    NoChecksum,   \* expected of a run without ExpectedChecksum
    NoFile,       \* nothing downloaded yet
    NoRun,        \* owner of a parcel that is not on record
    MaxRetries,   \* Config.MaxRetries
    ChunkSize     \* batchInsertSize

ASSUME DataAssumption ==
    /\ Rows \in [Files -> Seq(Row)]
    /\ Zipped \subseteq Files
    /\ ParcelOf \in [Row -> ParcelKeys \cup {NoParcel}]
    /\ NoParcel \notin ParcelKeys
    /\ Storable \subseteq Row

ASSUME RunAssumption ==
    /\ Configs \subseteq [local    : Files \cup {Remote},
                         expected : Files \cup {NoChecksum}]
    /\ Remote \notin Files /\ NoChecksum \notin Files /\ NoFile \notin Files
    /\ NoRun \notin Runs

ASSUME NumberAssumption == MaxRetries \in Nat /\ ChunkSize \in Nat \ {0}

VARIABLES
    config,    \* the PipelineConfig of each run
    pc,        \* the stage each run is at
    attempts,  \* downloads each run has tried
    file,      \* the file each run works on
    status,    \* dataset_snapshot.status of each run's snapshot
    batches,   \* the snapshots with an import_batch row
    txns,      \* rows of table transaction, by position in the file
    parcels,   \* table parcel: which snapshot each row came with
    staged,    \* transactions inserted and not committed
    seen,      \* parcel keys whose INSERT has been executed
    held       \* parcel keys inserted and not committed

db == <<status, batches, txns, parcels>>
tx == <<staged, seen, held>>
vars == <<config, pc, attempts, file, db, tx>>

InTransaction == {"txns", "parcels", "lock", "commit"}
Active == {"init", "download", "verify", "parse", "mark", "begin"}
             \cup InTransaction
Ended == {"locked", "failed", "crashed"}

SameChecksum(q, r) == /\ q # r
                      /\ config[r].expected # NoChecksum
                      /\ config[q].expected = config[r].expected

\* A run may find its snapshot already created.
Init == /\ config \in [Runs -> Configs]
        /\ pc = [r \in Runs |-> "init"]
        /\ attempts = [r \in Runs |-> 0]
        /\ file = [r \in Runs |-> NoFile]
        /\ status \in [Runs -> {Absent, "PENDING"}]
        /\ \A q, r \in Runs : SameChecksum(q, r) => Absent \in {status[q], status[r]}
        /\ batches = {}
        /\ txns = [r \in Runs |-> {}]
        /\ parcels = [k \in ParcelKeys |-> NoRun]
        /\ staged = [r \in Runs |-> {}]
        /\ seen = [r \in Runs |-> {}]
        /\ held = [r \in Runs |-> {}]

----------------------------------------------------------------------------
\* What the stages before the database compute from a file.

\* parse goes by the suffix of the path: a local zip keeps its .zip, a
\* download is written to <tmp>/import_<snapshot id> and is read as CSV,
\* whatever it holds.  The rows a zip read as CSV yields all fail to
\* normalize, which leaves none.
Parsed(local, f) == IF local = Remote /\ f \in Zipped THEN <<>> ELSE Rows[f]

\* A path that ends in .zip must open as a zip and hold at least one row.
ParseFails(local, f) == local # Remote /\ (f \notin Zipped \/ Rows[f] = <<>>)

\* normalize, validate and deduplicate: the first of the rows with one key.
FirstTxns(s) ==
    {i \in DOMAIN s :
        /\ TxnKey[s[i]] # Rejected
        /\ \A j \in 1..(i - 1) : TxnKey[s[j]] = TxnKey[s[i]]
                                    => TxnKey[s[i]] = Unnumbered}

FirstParcels(s) ==
    {i \in DOMAIN s :
        /\ ParcelOf[s[i]] # NoParcel
        /\ \A j \in 1..(i - 1) : ParcelOf[s[j]] # ParcelOf[s[i]]}

KeysOf(s) == {ParcelOf[s[i]] : i \in FirstParcels(s)}

Data(r) == Parsed(config[r].local, file[r])
Key(r, i) == ParcelOf[Data(r)[i]]

----------------------------------------------------------------------------
At(r, stage) == pc[r] = stage

Goto(r, stage) == pc' = [pc EXCEPT ![r] = stage]

\* The deferred Rollback: nothing of the open transaction remains.
Rollback(r) == /\ staged' = [staged EXCEPT ![r] = {}]
               /\ seen' = [seen EXCEPT ![r] = {}]
               /\ held' = [held EXCEPT ![r] = {}]

\* Mutation: no deferred Rollback; the transaction stays open.
EndWithoutRollback(r, how) == /\ Goto(r, how)
                              /\ UNCHANGED <<config, attempts, file, db, tx>>

\* ImportFromSource returns an error; the snapshot row is left as it is.
End(r, how) == /\ Goto(r, how)
               /\ Rollback(r)
               /\ UNCHANGED <<config, attempts, file, db>>

\* A statement the server has applied may still be answered by an error
\* (the connection breaks): the run then ends, the effect stays.
GotoOrLoseReply(r, stage) == \E s \in {stage, "failed"} : Goto(r, s)

\* initSnapshot.  UNIQUE (source, source_version, file_sha256) refuses a
\* second snapshot for one expected checksum; without a checksum the column
\* holds the hash of the snapshot id, which no other row has.

\* Mutation: every row gets the fallback hash of its snapshot id.
DuplicateNever(r) == FALSE

Duplicate(r) == \E q \in Runs : SameChecksum(q, r) /\ status[q] # Absent

InitSnapshot(r) ==
    /\ At(r, "init")
    /\ \/ status[r] # Absent /\ Goto(r, "download") /\ UNCHANGED status
       \/ /\ status[r] = Absent /\ ~Duplicate(r)
          /\ status' = [status EXCEPT ![r] = "PENDING"]
          /\ GotoOrLoseReply(r, "download")
       \/ /\ status[r] = Absent /\ Duplicate(r)
          /\ Goto(r, "failed") /\ UNCHANGED status
    /\ UNCHANGED <<config, attempts, file, batches, txns, parcels, tx>>

\* download: a local file is used where it lies.
UseLocalFile(r) ==
    /\ At(r, "download") /\ config[r].local # Remote
    /\ file' = [file EXCEPT ![r] = config[r].local]
    /\ Goto(r, "verify")
    /\ UNCHANGED <<config, attempts, db, tx>>

\* ... anything else is fetched, MaxRetries + 1 times at most.
Download(r) ==
    /\ At(r, "download") /\ config[r].local = Remote /\ attempts[r] <= MaxRetries
    /\ attempts' = [attempts EXCEPT ![r] = @ + 1]
    /\ \E f \in Files : file' = [file EXCEPT ![r] = f]
    /\ Goto(r, "verify")
    /\ UNCHANGED <<config, db, tx>>

\* Mutation: the loop has no bound.
DownloadFailsUnbounded(r) ==
    /\ At(r, "download") /\ config[r].local = Remote
    /\ attempts' = [attempts EXCEPT ![r] = @ + 1]
    /\ UNCHANGED <<config, pc, file, db, tx>>

DownloadFails(r) ==
    /\ At(r, "download") /\ config[r].local = Remote /\ attempts[r] <= MaxRetries
    /\ attempts' = [attempts EXCEPT ![r] = @ + 1]
    /\ Goto(r, IF attempts[r] = MaxRetries THEN "failed" ELSE "download")
    /\ UNCHANGED <<config, file, db, tx>>

VerifyChecksum(r) ==
    /\ At(r, "verify")
    /\ Goto(r, IF config[r].expected \in {NoChecksum, file[r]} THEN "parse"
               ELSE "failed")
    /\ UNCHANGED <<config, attempts, file, db, tx>>

\* parse, enrichRows, normalize and validate, which touch nothing shared.
Parse(r) ==
    /\ At(r, "parse")
    /\ Goto(r, IF ParseFails(config[r].local, file[r]) THEN "failed" ELSE "mark")
    /\ UNCHANGED <<config, attempts, file, db, tx>>

\* UpdateStatus(IMPORTING), in a transaction of its own, and deduplicate.
MarkImporting(r) ==
    /\ At(r, "mark")
    /\ IF CanTransition(status[r], "IMPORTING")
       THEN /\ status' = [status EXCEPT ![r] = "IMPORTING"]
            /\ GotoOrLoseReply(r, "begin")
       ELSE Goto(r, "failed") /\ UNCHANGED status
    /\ UNCHANGED <<config, attempts, file, batches, txns, parcels, tx>>

----------------------------------------------------------------------------
\* importData.

\* BEGIN, and the import_batch row (visible to others from the COMMIT on).
Begin(r) == /\ At(r, "begin")
            /\ Goto(r, "txns")
            /\ UNCHANGED <<config, attempts, file, db, tx>>

\* The next ChunkSize transactions of the deduplicated list.
TxnsTodo(r) == FirstTxns(Data(r)) \ staged[r]
Chunk(r) == {i \in TxnsTodo(r) :
                Cardinality({j \in TxnsTodo(r) : j <= i}) <= ChunkSize}

\* A COPY fails as a whole on one row that a CHECK or UNIQUE (snapshot_id,
\* source_record_hash) refuses.
Refused(r, chunk) ==
    \E i \in chunk : \/ Data(r)[i] \notin Storable
                     \/ \E j \in chunk \cup staged[r] :
                            j # i /\ Data(r)[j] = Data(r)[i]

\* Mutation: the repository is built on the pool, not on the transaction.
CopyTxnsOnPool(r) ==
    /\ At(r, "txns") /\ TxnsTodo(r) # {}
    /\ ~Refused(r, Chunk(r))
    /\ staged' = [staged EXCEPT ![r] = @ \cup Chunk(r)]
    /\ txns' = [txns EXCEPT ![r] = @ \cup Chunk(r)]
    /\ UNCHANGED <<config, pc, attempts, file, status, batches, parcels, seen, held>>

CopyTxns(r) ==
    /\ At(r, "txns") /\ TxnsTodo(r) # {}
    /\ ~Refused(r, Chunk(r))
    /\ staged' = [staged EXCEPT ![r] = @ \cup Chunk(r)]
    /\ UNCHANGED <<config, pc, attempts, file, db, seen, held>>

CopyRefused(r) ==
    /\ At(r, "txns") /\ TxnsTodo(r) # {}
    /\ Refused(r, Chunk(r))
    /\ End(r, "failed")

\* Mutation: the loop ends before a last, short chunk.
TxnsDoneEarly(r) ==
    /\ At(r, "txns") /\ Cardinality(TxnsTodo(r)) < ChunkSize
    /\ Goto(r, "parcels")
    /\ UNCHANGED <<config, attempts, file, db, tx>>

TxnsDone(r) ==
    /\ At(r, "txns") /\ TxnsTodo(r) = {}
    /\ Goto(r, "parcels")
    /\ UNCHANGED <<config, attempts, file, db, tx>>

\* The parcel whose INSERT comes next: at most one, the first in the file.
ParcelsTodo(r) == {i \in FirstParcels(Data(r)) : Key(r, i) \notin seen[r]}
NextParcel(r, i) == /\ i \in ParcelsTodo(r)
                    /\ \A j \in ParcelsTodo(r) : i <= j

\* INSERT ... ON CONFLICT DO NOTHING waits for an open transaction that has
\* inserted the same key.
WaitsFor(r, q) ==
    /\ q # r /\ At(r, "parcels")
    /\ \E i \in ParcelsTodo(r) : NextParcel(r, i) /\ Key(r, i) \in held[q]

\* Mutation: ON CONFLICT ... DO UPDATE takes the row over.
InsertParcelUpsert(r) ==
    /\ At(r, "parcels")
    /\ \A q \in Runs : ~WaitsFor(r, q)
    /\ \E i \in ParcelsTodo(r) :
          /\ NextParcel(r, i)
          /\ Data(r)[i] \in Storable
          /\ seen' = [seen EXCEPT ![r] = @ \cup {Key(r, i)}]
          /\ held' = [held EXCEPT ![r] = @ \cup {Key(r, i)}]
    /\ UNCHANGED <<config, pc, attempts, file, db, staged>>

InsertParcel(r) ==
    /\ At(r, "parcels")
    /\ \A q \in Runs : ~WaitsFor(r, q)
    /\ \E i \in ParcelsTodo(r) :
          /\ NextParcel(r, i)
          /\ Data(r)[i] \in Storable
          /\ seen' = [seen EXCEPT ![r] = @ \cup {Key(r, i)}]
          /\ held' = IF parcels[Key(r, i)] = NoRun
                     THEN [held EXCEPT ![r] = @ \cup {Key(r, i)}]
                     ELSE held
    /\ UNCHANGED <<config, pc, attempts, file, db, staged>>

ParcelRefused(r) ==
    /\ At(r, "parcels")
    /\ \E i \in ParcelsTodo(r) : NextParcel(r, i) /\ Data(r)[i] \notin Storable
    /\ End(r, "failed")

ParcelsDone(r) ==
    /\ At(r, "parcels") /\ ParcelsTodo(r) = {}
    /\ Goto(r, "lock")
    /\ UNCHANGED <<config, attempts, file, db, tx>>

\* PostgreSQL breaks a cycle of waiting transactions by aborting one of them.
\* A run waits for one other at most, so in a set where each waits for one
\* of the set and is waited for, every member is on a cycle.
Deadlocked(r) ==
    \E C \in SUBSET Runs :
        /\ r \in C
        /\ \A q \in C : /\ \E p \in C : WaitsFor(q, p)
                        /\ \E p \in C : WaitsFor(p, q)

DeadlockVictim(r) == Deadlocked(r) /\ End(r, "failed")

\* snapshotRepo.Lock updates the row WHERE status = 'IMPORTING', still inside
\* the transaction.
\* Mutation: the lock is taken through the pool, as lockSnapshot does.
LockSnapshotOnPool(r) ==
    /\ At(r, "lock")
    /\ status' = [status EXCEPT ![r] = "LOCKED"]
    /\ Goto(r, "commit")
    /\ UNCHANGED <<config, attempts, file, batches, txns, parcels, tx>>

LockSnapshot(r) ==
    /\ At(r, "lock")
    /\ IF status[r] = "IMPORTING"
       THEN Goto(r, "commit") /\ UNCHANGED <<config, attempts, file, db, tx>>
       ELSE End(r, "failed")

\* COMMIT: everything at once.
Commit(r) ==
    /\ At(r, "commit")
    /\ status' = [status EXCEPT ![r] = "LOCKED"]
    /\ batches' = batches \cup {r}
    /\ txns' = [txns EXCEPT ![r] = staged[r]]
    /\ parcels' = [k \in ParcelKeys |-> IF k \in held[r] THEN r ELSE parcels[k]]
    /\ Rollback(r)
    /\ GotoOrLoseReply(r, "locked")
    /\ UNCHANGED <<config, attempts, file>>

----------------------------------------------------------------------------
\* Any call may fail (a lost connection, a full disk, the 30 minutes of the
\* scheduler's context) and the server may be killed, at any stage.
Break(r) == /\ pc[r] \in Active
            /\ \E how \in {"failed", "crashed"} : End(r, how)

Step(r) == \/ InitSnapshot(r) \/ UseLocalFile(r) \/ Download(r)
           \/ DownloadFails(r) \/ VerifyChecksum(r) \/ Parse(r)
           \/ MarkImporting(r) \/ Begin(r) \/ CopyTxns(r) \/ CopyRefused(r)
           \/ TxnsDone(r) \/ InsertParcel(r) \/ ParcelRefused(r)
           \/ ParcelsDone(r) \/ DeadlockVictim(r) \/ LockSnapshot(r)
           \/ Commit(r)

Terminated == (\A r \in Runs : pc[r] \in Ended) /\ UNCHANGED vars

Next == (\E r \in Runs : Step(r) \/ Break(r)) \/ Terminated

Spec == Init /\ [][Next]_vars

\* A goroutine that can run does, and the database answers; nothing obliges
\* a call to fail or a server to die.
FairSpec == Spec /\ \A r \in Runs : WF_vars(Step(r))

----------------------------------------------------------------------------
\* Every variable keeps to its range, and a run downloads MaxRetries + 1
\* times at most (download, pipeline.go).
TypeOK ==
    /\ config \in [Runs -> Configs]
    /\ pc \in [Runs -> Active \cup Ended]
    /\ attempts \in [Runs -> 0..(MaxRetries + 1)]
    /\ file \in [Runs -> Files \cup {NoFile}]
    /\ status \in [Runs -> Status \cup {Absent}]
    /\ batches \subseteq Runs
    /\ txns \in [Runs -> SUBSET Nat]
    /\ parcels \in [ParcelKeys -> Runs \cup {NoRun}]
    /\ staged \in [Runs -> SUBSET Nat]
    /\ seen \in [Runs -> SUBSET ParcelKeys]
    /\ held \in [Runs -> SUBSET ParcelKeys]

\* importData, "If any step fails, ROLLBACK ensures no partial data remains":
\* whatever failed or crashed, and wherever it did, no row of an import
\* batch, of a transaction or of a parcel belongs to a snapshot that is not
\* LOCKED.
NothingUnpublished ==
    \A r \in Runs : status[r] # "LOCKED" =>
        /\ r \notin batches
        /\ txns[r] = {}
        /\ \A k \in ParcelKeys : parcels[k] # r

\* A LOCKED snapshot holds every transaction parse and deduplicate left of
\* its file, and every parcel of the file is on record, whichever other
\* imports inserted, waited, aborted or were killed in between.
LockedIsComplete ==
    \A r \in Runs : status[r] = "LOCKED" =>
        /\ file[r] # NoFile
        /\ r \in batches
        /\ txns[r] = FirstTxns(Data(r))
        /\ \A k \in KeysOf(Data(r)) : parcels[k] # NoRun

\* verifyChecksum and UNIQUE (source, source_version, file_sha256): a LOCKED
\* snapshot created for a checksum holds the file of that checksum, and is
\* the only one (DATA_MODEL.md: "Immutable snapshot deduplication").
ChecksumIdentifiesSnapshot ==
    \A r \in Runs : status[r] = "LOCKED" /\ config[r].expected # NoChecksum =>
        /\ file[r] = config[r].expected
        /\ \A q \in Runs : SameChecksum(q, r) => status[q] # "LOCKED"

\* SPEC P2: once LOCKED, a snapshot keeps its status, its transactions and
\* exactly the parcels that came with it, through every later import.
LockedIsImmutable ==
    [][\A r \in Runs : status[r] = "LOCKED" =>
          /\ status'[r] = "LOCKED"
          /\ txns'[r] = txns[r]
          /\ \A k \in ParcelKeys : parcels'[k] = r <=> parcels[k] = r]_vars

\* Every call of ImportFromSource returns, unless its server dies first:
\* neither the retries nor the waits for another import's parcels go on for
\* ever.
EveryRunEnds == \A r \in Runs : <>(pc[r] \in Ended)

\* Readers see an import as one step (DatasetPublication).
Phase == [r \in Runs |-> IF status[r] = Absent THEN "none"
                         ELSE IF status[r] = "LOCKED" THEN "published"
                         ELSE "open"]

Contents == {[txns    |-> FirstTxns(Parsed(c.local, f)),
              parcels |-> KeysOf(Parsed(c.local, f))] : c \in Configs, f \in Files}

Publication == INSTANCE DatasetPublication
                   WITH Snapshots <- Runs, Content <- Contents, NoOne <- NoRun,
                        phase <- Phase, dataset <- txns, owner <- parcels

\* The pipeline, with its stages, its transaction and its failures, does
\* nothing that DatasetPublication does not allow.
ImplementsPublication == Publication!Spec

\* pipeline.go:318 of parse: "Supports both single CSV and lvr_landcsv.zip":
\* a LOCKED snapshot holds the transactions of the file itself, zip or CSV.
LockedHoldsItsFile ==
    \A r \in Runs : status[r] = "LOCKED" => txns[r] = FirstTxns(Rows[file[r]])

\* pipeline.go:521: deduplicate "removes duplicates based on
\* source_record_hash within the same snapshot", so that no two rows handed
\* to BatchInsert have one hash.
NoHashTwice ==
    \A r \in Runs : At(r, "txns") =>
        \A i, j \in FirstTxns(Data(r)) : Data(r)[i] = Data(r)[j] => i = j
=============================================================================
