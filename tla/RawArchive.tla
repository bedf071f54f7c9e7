----------------------------- MODULE RawArchive -----------------------------
(***************************************************************************)
(* SnapshotService.CreateFromDownloadWithChecksum: download a file, verify *)
(* it, archive it under the id of the snapshot it is going to be, create   *)
(* the snapshot and its import_batch.  Calls run concurrently, all for one *)
(* source and version, and a new call may repeat one that failed.          *)
(*                                                                         *)
(* Every call draws a fresh uuid, so a call, its snapshot and its archive  *)
(* directory have one name: that the directory already exists (archive.go  *)
(* and the second lookup in snapshot.go) cannot happen.  A file stands for *)
(* its bytes and for their SHA-256.                                        *)
(***************************************************************************)
EXTENDS Integers, FiniteSets

CONSTANTS
    Creators,    \* calls of CreateFromDownloadWithChecksum
    Files,       \* what the URL may answer with
    Expected,    \* [Creators -> Files \cup {NoFile}]: expectedSHA256
    MaxRetries,  \* HTTPDownloader.MaxRetries
    NoFile       \* no file, no checksum, no row

ASSUME ArchiveAssumption ==
    NoFile \notin Files /\ Expected \in [Creators -> Files \cup {NoFile}]

VARIABLES
    at,        \* [Creators -> the step each call is at]
    tries,     \* downloads tried
    tmp,       \* the file each call has downloaded
    building,  \* source_snapshot/<id>.tmp
    archive,   \* source_snapshot/<id>
    snapshot,  \* dataset_snapshot rows, by id: their file_sha256
    batches,   \* ids with an import_batch
    result,    \* the id each call returned; the call's own by default
    lost,      \* calls whose INSERT was applied and answered by an error
    kept       \* calls whose last os.RemoveAll failed

avars == <<at, tries, tmp, building, archive, snapshot, batches, result, lost, kept>>

ArchiveInit ==
    /\ at = [c \in Creators |-> "download"] /\ tries = [c \in Creators |-> 0]
    /\ tmp = [c \in Creators |-> NoFile] /\ building = tmp /\ archive = tmp /\ snapshot = tmp
    /\ batches = {} /\ result = [c \in Creators |-> c] /\ lost = {} /\ kept = {}

Step(c, from, to) == at[c] = from /\ at' = [at EXCEPT ![c] = to]

\* HTTPDownloader.Download overwrites the temporary file at every try.
Download(c, f) ==
    /\ Step(c, "download", IF Expected[c] \in {NoFile, f} THEN "lookup" ELSE "failed")
    /\ tmp' = [tmp EXCEPT ![c] = f]
    /\ UNCHANGED <<tries, building, archive, snapshot, batches, result, lost, kept>>

\* A network error, a status that is not 2xx or a body cut short: the file
\* is removed and the download tried again.
DownloadFails(c) ==
    /\ Step(c, "download", IF tries[c] + 1 < MaxRetries THEN "download" ELSE "failed")
    /\ tries' = [tries EXCEPT ![c] = @ + 1]
    /\ UNCHANGED <<tmp, building, archive, snapshot, batches, result, lost, kept>>

\* findBySourceSHA: LIMIT 1 of the rows with this hash.
Found(c) == {d \in Creators : snapshot[d] = tmp[c]}

Lookup(c) ==
    /\ Found(c) = {} /\ Step(c, "lookup", "store")
    /\ UNCHANGED <<tries, tmp, building, archive, snapshot, batches, result, lost, kept>>

\* The snapshot that is there is returned, whatever became of its archive
\* and of its import_batch.
ReturnExisting(c, d) ==
    /\ d \in Found(c) /\ at[c] \in {"lookup", "relookup"}
    /\ at' = [at EXCEPT ![c] = "returned"] /\ result' = [result EXCEPT ![c] = d]
    /\ UNCHANGED <<tries, tmp, building, archive, snapshot, batches, lost, kept>>

\* StoreRawArchive: the files are written in <id>.tmp, which is renamed.
Build(c) ==
    /\ Step(c, "store", "rename")
    /\ building' = [building EXCEPT ![c] = tmp[c]]
    /\ UNCHANGED <<tries, tmp, archive, snapshot, batches, result, lost, kept>>

Rename(c) ==
    /\ Step(c, "rename", "insert")
    /\ archive' = [archive EXCEPT ![c] = building[c]]
    /\ building' = [building EXCEPT ![c] = NoFile]
    /\ UNCHANGED <<tries, tmp, snapshot, batches, result, lost, kept>>

\* Mutation: the table has no UNIQUE (source, source_version, file_sha256).
InsertAnother(c) ==
    /\ Step(c, "insert", "batch")
    /\ snapshot' = [snapshot EXCEPT ![c] = tmp[c]]
    /\ UNCHANGED <<tries, tmp, building, archive, batches, result, lost, kept>>

\* createSnapshotWithID; UNIQUE refuses a second row for one file.
Insert(c) ==
    /\ Found(c) = {} /\ Step(c, "insert", "batch")
    /\ snapshot' = [snapshot EXCEPT ![c] = tmp[c]]
    /\ UNCHANGED <<tries, tmp, building, archive, batches, result, lost, kept>>

\* os.RemoveAll, whose error is ignored: something of the directory stays.
RemoveArchive(c) ==
    \/ archive' = [archive EXCEPT ![c] = NoFile] /\ kept' = kept \ {c}
    \/ archive' = archive /\ kept' = kept \cup {c}

\* The unique violation: the archive of this call is removed again.
Duplicate(c) ==
    /\ Found(c) # {} /\ Step(c, "insert", "relookup")
    /\ RemoveArchive(c)
    /\ UNCHANGED <<tries, tmp, building, snapshot, batches, result, lost>>

\* Any other error of the INSERT removes the archive too; the row is there
\* when it was only the answer that got lost.
InsertFails(c, applied) ==
    /\ applied => Found(c) = {}
    /\ Step(c, "insert", "failed")
    /\ RemoveArchive(c)
    /\ snapshot' = IF applied THEN [snapshot EXCEPT ![c] = tmp[c]] ELSE snapshot
    /\ lost' = IF applied THEN lost \cup {c} ELSE lost
    /\ UNCHANGED <<tries, tmp, building, batches, result>>

CreateBatch(c) ==
    /\ Step(c, "batch", "returned")
    /\ batches' = batches \cup {c}
    /\ UNCHANGED <<tries, tmp, building, archive, snapshot, result, lost, kept>>

\* The lookup after the violation fails too: the archive is removed once more.
RelookupFails(c) ==
    /\ Step(c, "relookup", "failed")
    /\ RemoveArchive(c)
    /\ UNCHANGED <<tries, tmp, building, snapshot, batches, result, lost>>

\* A write to the disk or the rename fails: the deferred RemoveAll clears
\* <id>.tmp, and its error is ignored as well.
StoreFails(c) ==
    /\ at[c] \in {"store", "rename"}
    /\ at' = [at EXCEPT ![c] = "failed"]
    /\ \/ building' = [building EXCEPT ![c] = NoFile] /\ kept' = kept
       \/ building' = [building EXCEPT ![c] = tmp[c]] /\ kept' = kept \cup {c}
    /\ UNCHANGED <<tries, tmp, archive, snapshot, batches, result, lost>>

\* Mutation: what failed is cleaned up, the archive included.
FailCleansUp(c) ==
    /\ at[c] \in {"lookup", "batch"}
    /\ at' = [at EXCEPT ![c] = "failed"]
    /\ archive' = [archive EXCEPT ![c] = NoFile]
    /\ UNCHANGED <<tries, tmp, building, snapshot, batches, result, lost, kept>>

\* The first lookup or the last INSERT fails, and nothing is undone.
Fail(c) ==
    /\ at[c] \in {"lookup", "batch"}
    /\ at' = [at EXCEPT ![c] = "failed"]
    /\ UNCHANGED <<tries, tmp, building, archive, snapshot, batches, result, lost, kept>>

Crash(c) ==
    /\ at[c] \notin {"returned", "failed", "crashed"}
    /\ at' = [at EXCEPT ![c] = "crashed"]
    /\ UNCHANGED <<tries, tmp, building, archive, snapshot, batches, result, lost, kept>>

ArchiveNext ==
    \E c \in Creators :
        \/ \E f \in Files : Download(c, f)
        \/ DownloadFails(c) \/ Lookup(c) \/ Build(c) \/ Rename(c) \/ Insert(c) \/ Duplicate(c)
        \/ \E d \in Creators : ReturnExisting(c, d)
        \/ \E applied \in BOOLEAN : InsertFails(c, applied)
        \/ RelookupFails(c) \/ StoreFails(c) \/ CreateBatch(c) \/ Fail(c) \/ Crash(c)

ArchiveSpec == ArchiveInit /\ [][ArchiveNext]_avars

----------------------------------------------------------------------------
\* The raw file of every snapshot is in the archive under its id, complete,
\* whoever failed or crashed and when, but for an INSERT whose answer was
\* lost: its archive is removed while its row is there.  And only a crash, or
\* a RemoveAll that failed, leaves an archive, or a part of one, that has no
\* snapshot.
ArchivesMatchSnapshots ==
    \A c \in Creators :
        /\ snapshot[c] # NoFile => archive[c] = snapshot[c] \/ c \in lost
        /\ at[c] \in {"returned", "failed"} /\ c \notin kept =>
              building[c] = NoFile /\ archive[c] \in {NoFile, snapshot[c]}

\* Calls that return for one file return one snapshot, and it is of the
\* file they downloaded and, where they gave a checksum, expected.
OneSnapshotPerFile ==
    \A c, d \in Creators : at[c] = "returned" /\ at[d] = "returned" =>
        /\ tmp[c] = tmp[d] <=> result[c] = result[d]
        /\ snapshot[result[c]] = tmp[c] /\ Expected[c] \in {NoFile, tmp[c]}
=============================================================================
