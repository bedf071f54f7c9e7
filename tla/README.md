# tw-prop-mcp in TLA+

TLA+ models of the server behind Taiwan's real-price registration data
(`cmd/`, `internal/`, `migrations/`) and of the stateful parts of its web frontend: what is modelled,
what TLC checks on small instances, what TLAPS proves for all instances, and what is left.

1. [The system](#1-the-system) — the inventory
2. [Modules](#2-modules) — which module models what, and how
3. [Runs](#3-runs) — questions, bounds, fairness
4. [Proofs](#4-proofs) — theorems and their arguments
5. [Findings](#5-findings) — where the code and its own words disagree
6. [Plan](#6-plan) — what is done, and what could follow
7. [Not modelled](#7-not-modelled) — and why

To check: `tlc -workers 2 -config <cfg> <module>` and `tlapm <module>.tla`, in
this directory; `PROJECT.json` lists the runs, the theorems, the source lines of
every definition, and for every property a mutation of the model that breaks it.

## 1. The system

```
 POST /admin/import   trigger_data_refresh   ticker, start-up
          \                   |                   /
           v                  v                  v
        +------------ scheduler.Scheduler ------------+   one per replica:
        |  mu sync.Mutex   progress ImportProgress    |   mutex and progress
        +----------------------+----------------------+   are NOT shared
                               v
        importpipeline.ImportPipeline.ImportFromSource    one object per call
          download -> verify -> parse -> normalize -> validate
          -> UpdateStatus(IMPORTING) -> deduplicate
          -> BEGIN; batch; COPY txns; INSERT parcels; Lock; COMMIT
                               v
        PostgreSQL: dataset_snapshot, import_batch, transaction, parcel,
                    valuation_result, comparable_result, *_version
                    + triggers (000002, 000003, 000004)      shared by replicas
                               ^
        MCP query tools: transactions, parcels, comparables, valuation, GIS
                               ^   MCP over HTTP
        frontend: mcpApi (session), useAppState, DataFreshnessBar, map loaders
```

For each component: its state; its operations; how it interacts; what is hard;
what makes it correct.

**Import pipeline** (`internal/importpipeline/pipeline.go`).
State: the stage of a run, the downloaded file, the open SQL transaction.
Operations: `ImportFromSource` and its stages. It writes every table of the
archive through the repositories and is called by the scheduler and the CLI.
Hard: the replicas' imports overlap; every statement may fail or be applied
although its reply is lost; the process may die anywhere; two imports wait for
each other's parcels. Correct: a snapshot becomes visible complete or not at
all, stays as it is, and every run ends.

**Snapshot repository** (`internal/repository/snapshot.go`, `internal/domain/snapshot.go`,
`migrations/000002`). State: one row per snapshot. Operations: `Create`,
`UpdateStatus`, `Lock`, `Delete`, `GetByID`, `List`. Hard: `UpdateStatus` decides
on the status it has read and writes later. Correct: a LOCKED row is final, and its
timestamps tell the truth (`IsStale` sorts by them). That no `import_batch` is left
without its snapshot is the foreign key's doing, and no property of the code.

**Scheduler** (`internal/scheduler/scheduler.go`). State: a mutex and a progress
record per process. Operations: `CheckAndRefresh`, `ForceRefresh`,
`ImportLocalZip`, `GetProgress`, `IsStale`, `Start`. Hard: `TryLock` and `Lock`
are mixed; the progress record is written by many early returns; replicas share
the database and nothing else. Correct: one import at a time per server, the
progress told is the progress made, no import of what has just been imported,
every call returns.

**Freshness rule** (`IsStale`, `isReleaseWindow`). No state but the clock and
`import_completed_at`. Hard: the calendar, releases that come late, imports that
fail. Correct: a release does not wait for its readers longer than promised.

**Transaction and parcel repositories** (`internal/repository/transaction.go`,
`parcel.go`). `BatchInsert` in chunks (COPY; INSERT ... ON CONFLICT DO NOTHING).
The searches page with ORDER BY, LIMIT and OFFSET while imports commit.
Hard: the last chunk, one bad row among many, two transactions on one key, and
rows that move between two pages. Correct: a client that pages to the end misses
no row that was there when it began.

**MCP server, freshness tools, admin endpoints** (`internal/mcp`). State: the
uploaded file in the temporary directory; counters. Hard: two uploads of one
file name; an answer "started" from a check made outside the lock. Correct: an
upload imports the bytes it was sent.

**Downloader, raw archive, snapshot service** (`internal/downloader`). State: the
archive directory and a row for each archive. Operations: `Download`,
`CreateFromDownloadWithChecksum`, `StoreRawArchive`. Hard: look up, then rename, then
INSERT; a crash or a lost answer between file system and database; cleanups whose errors
are ignored. Correct: one snapshot per file, and its archive is there.

**Artifact locks** (`migrations/000003`, `000004`). Triggers that refuse changes to
versions and to rows of a LOCKED snapshot. Hard: the trigger reads another
table's row without locking it; INSERTs are not guarded.

**Valuation persistence** (`internal/repository/valuation_result.go`,
`comparable_result.go`). State: two tables that refer to transactions.
Operations: `PersistValuation` (one transaction), `Insert`, `BatchInsert`. Hard:
deletes and duplicate queries meanwhile, an answer lost after COMMIT, a query that
fails while the provenance is read. Correct: a valuation is stored whole, once per
query, and what its provenance refers to stays.

**Parser, normalizer, validator** (`internal/parser`, `normalizer`, `validator`).
Pure functions from bytes to rows, with numeric and calendar edges. Hard: the two
eras, what a CHECK refuses of what the validator passed (one row fails the COPY of
all), and rows skipped as blank. Correct: what is let through can be stored, and
no record is dropped silently.

**Comparable, statistics, valuation, provenance** (`internal/comparable`,
`statistics`, `valuation`, `provenance`). Pure algorithms; determinism (SPEC P1)
and numeric edges (percentiles, empty samples, ties, unstable sorts) are what
matters. Correct: figures, ranks, values and confidence are ordered as they must be.

**Query services and tools** (`internal/service`, `internal/mcp/*_tools.go`).
Stateless reads, but for the road access engine, which records what it finds. Hard:
two engines on one parcel, a road deleted between reading and recording it.
Correct: what was answered is what is on record.

**GIS** (`internal/gis`). State: one cache file per source. Hard: concurrent readers and
writers of it, a write that fails half way or is killed, bodies that are errors. Correct: what is
answered from the cache is what the source sent. **Configuration**
(`internal/config`, `cmd`): start-up.

**Frontend** (`frontend/src`). State: one MCP session per page with a memoised
connect (`mcpApi.ts`); search results, the parcel chosen and filters
(`useAppState.ts`); a polling bar (`DataFreshnessBar.tsx`); a memoised script
loader under a retry loop (`googleMapsLoader.ts`). Hard: answers that arrive late
or out of order, timeouts racing connects, a memoised failure. Correct: what is
shown belongs to what was asked last; every refresh the bar waits for ends.

Not everything has a caller yet. Only tests call `SnapshotService`, the comparable, statistics and valuation
engines, the repositories of valuations, `ProvenanceService`, the road access engine and `GISDownloader`, and only
tests set `ExpectedChecksum`; the MCP tools for comparables and valuations answer placeholders. The modules say how these
parts behave when they are called as their tests call them, by several callers at once where the server would.

## 2. Modules

| module | models | extends / instantiates |
|---|---|---|
| `SnapshotStatus` | the state machine of `domain/snapshot.go` | |
| `SnapshotRepository` | the repository's calls on one row, several clients | `SnapshotStatus` |
| `ImportPipeline` | concurrent `ImportFromSource` on one database | `SnapshotStatus`; `DatasetPublication` by refinement |
| `DatasetPublication` | abstract: what an import promises to readers | |
| `MCImportPipeline` | five small files for TLC | `ImportPipeline` |
| `Scheduler` | mutex, progress and calls of several servers | |
| `MCScheduler` | two servers, four calls | `Scheduler` |
| `Freshness` | the rule against the ministry's calendar | |
| `Rows` | headers, cells and rows: parser, normalizer, validator, what the tables accept | |
| `Arrays` | sums, sorts and filters of slices | |
| `Statistics`, `Comparables`, `Valuation` | the three engines, as operators | `Arrays`; `Valuation` uses `Statistics` |
| `Algorithms` | a computation of any of these on any input | `Rows`, the engines |
| `MCAlgorithms` | bounded inputs for TLC | `Algorithms` |
| `ValuationStore` | valuations, comparables, provenance beside imports and deletes | |
| `RawArchive` | concurrent `CreateFromDownloadWithChecksum` | |
| `RoadAccess` | the road access engine beside imports and deletes of roads | |
| `GisSource` | `downloadWithCache` and its file | |
| `Queries` | a client that pages while imports commit | |
| `MCStorage` | the five above for TLC | all five |
| `McpSession` | the page's one client, its connects, calls and resets | |
| `AppState` | searches, loads, filters, chosen rows and explanations, answers in any order | |
| `RefreshBar` | the bar, its polls, and the server as it sees it | |
| `MapsLoader` | the memoised script promise under the retry loop | |
| `MCPage` | the four above for TLC | all four |
| `...Proofs` | the theorems about each; `PageProofs` about `McpSession` and `AppState`, `StorageProofs` about the five parts of `MCStorage`, `ArraysProofs` the lemmas about slices | the modules and `TLAPS` |

### ImportPipeline

| state | code |
|---|---|
| `config[r]` | `PipelineConfig`: a local path or a URL, `ExpectedChecksum` |
| `pc[r]` | the stage; `"failed"` is a returned error, `"crashed"` a dead process |
| `attempts`, `file` | the loop variable of `download`, the file it yields |
| `status` | `dataset_snapshot.status`, as others see it |
| `batches`, `txns`, `parcels` | committed rows of the three tables |
| `staged`, `seen`, `held` | what the run's open transaction has done |

Actions are the stages in the code's order. `importData` is split at its SQL
statements: `Begin`, `CopyTxns` (one chunk), `InsertParcel` (one row),
`LockSnapshot`, `Commit`; a failure at any of them ends in `Rollback` (the
deferred `tx.Rollback`). `MarkImporting` merges the read and the write of
`UpdateStatus`, because a snapshot id belongs to one run; `SnapshotRepository`
splits them. `WaitsFor`, `Deadlocked` and `DeadlockVictim` are PostgreSQL's: an
INSERT that meets an uncommitted row of another transaction waits for it, and a
cycle is broken by aborting a member. The verdicts of normalize and validate on a
row are constants (`TxnKey`, `ParcelOf`, `Storable`), as is the parser's on a file.

### SnapshotRepository

Every SQL statement is a step; `UpdateStatus` is `ReadStatus` (GetByID and
`CanTransition`) and `WriteStatus` (UPDATE by id, as the trigger lets it).
`Crash` loses a client between the two. `Gone` is a deleted row.

### Scheduler

A call is a goroutine with a stage in `pc`. `mutex[s]` is the call that holds
`Scheduler.mu`; `progress[s]` the record pollers read; `startedBy` stands for
`StartedAt`, named by the call that set it. An import is one step: it commits
(`ImportCommits`, which all servers see in `freshBy`), or fails; and it may commit
and yet be answered by an error (`Finish`). `guessed` are the checks that read
"stale" off a query error, which the code treats as stale. `Age` is time passing;
`Restart` kills a server. The stages "downloading" and "importing" are one:
nothing happens between them, and the URL that discovery gives is a constant, so
`AutoDiscoverLatestURL` does not fail.

### Freshness

Time is counted in ticks of `RefreshInterval` (6 h, four a day), relative to now,
which makes the model finite: `age` of the latest import (exact up to the
threshold), `lag` of the oldest release not imported. `Tick` moves the calendar
and lets a release come out up to `MaxDelay` after its day begins; `Check` is a
`CheckAndRefresh` that finds the data fresh, imports, or fails.

### Rows, Statistics, Comparables, Valuation

No variables: every definition is a function of its arguments. `Rows` follows a
record of the file through `ParseRecord`, `EnrichRow`, `NormalizeTransaction`,
`NormalizeParcel` and the validator's errors to `TransactionRowAccepted` and
`ParcelRowAccepted`, which are the conversions and CHECKs of the tables. A cell is a
record of what the code reads off it (year, month and day; a number or none), not a
string. Numbers are integers; amounts with decimals are counted in the smallest unit
the column keeps, and `IntLimit` and `AreaLimit` stand for 2^31 and NUMERIC's digits.
The engines' floating point is exact integer arithmetic in units named at each
definition: percentiles are interpolated with their denominators, and comparisons
never depend on rounding. Where the code's sort is not stable,
`FindComparables` is the set of all results. A row has one cell for each of the eight columns the two normalizers
read a land area from (`LandColumns`): the transaction's four (`LandCells`) and the parcel's six (`ParcelCells`), of which two
are shared. `Arrays` defines sums by a recursive function
and sorts and filters by counting: the element at a place is the one with so many before it,
which is what a proof can use. `Algorithms` takes one input in `Init` and computes one output
in `Next`, one action for each computation; its inputs are constants with the types the code
gives them (`FileAssumption`, `RowAssumption`, `MarketAssumption`, `SampleAssumption`), which
`MCAlgorithms` bounds and the proofs leave open.

### ValuationStore, RawArchive, RoadAccess, GisSource, Queries

| module | state | code |
|---|---|---|
| `ValuationStore` | `stored`, `locked`, `deleting` | transactions, LOCKED snapshots, a DELETE between its trigger and its end |
| | `stage`, `next`, `valuations`, `comparables` | calls of the two repositories and the committed rows |
| | `reader` | `GetProvenanceByValuation`, a query at a time, each of which may fail (`failed`: history) |
| `RawArchive` | `at`, `tries`, `tmp` | calls, `HTTPDownloader`, the temporary file |
| | `building`, `archive`, `snapshot`, `batches` | `<id>.tmp`, `<id>`, and the rows of both tables |
| | `lost` | history: INSERTs applied and answered by an error |
| | `kept` | history: calls whose `os.RemoveAll` failed, which nobody notices |
| `RoadAccess` | `created`, `records`, `engines` | roads stored, `parcel_road_access`, what each caller has read |
| | `answers`, `removed` | history: what was returned, records deleted since |
| `GisSource` | `cache`, `request` | the file (`Part`: the beginning of a body; `Mixed`: pieces of two), the calls |
| | `damaged` | history: the last write failed, was killed or overlapped another |
| | `doubtful` of a request | history: the file was damaged or written under its read, or could not be read after a 304 |
| `Queries` | `imported`, `client` | rows committed, a client with its offset |

Each SQL statement, rename or file operation is a step, as is each way it fails;
statements inside one database transaction are seen by others at its COMMIT. The
waits of foreign keys and UNIQUE indexes are guards (`Held`, `HashHeld`). `RawArchive`
gives a call, its snapshot and its directory one name, because each call draws a
fresh uuid. `Best` of `RoadAccess` is the code's order: the last road created.

### McpSession, AppState, RefreshBar, MapsLoader

`client`, `connecting`, `refreshing`, `selected` and their like are the variables of those names in
the TypeScript; `connection`, `searches` and `loads` number the promises that are made, so that
an answer can be told from a later one's. One step is what JavaScript runs between
two awaits. A late answer is an action that stays enabled; a lost one is an action
that never has to happen. `RefreshBar` sees the server through its answers and
`record`, which `Scheduler` explains: `Begin` and `End` leave open what `Scheduler` decides. One record
stands for the server: of two replicas, each with its own, a poll may be answered by the one that does not import;
`RefreshEnds` is about the record polls are answered, whosever it is.

`McpSession` has callers, not calls: each calls `callMCPTool` again and again, as clicks and `withRetry` do, also after
`Disconnect`, which is `disconnectMCP` when `App` is unmounted. `orphaned` counts the connections that were thrown
away while they were being opened.

`view` of `AppState` tells, for each slice of the state, the parcel it is about. `Leftovers` are the four slices a load
empties in no case: the chosen transaction, the chosen comparable, and the two explanations (the hook's, which a load sets if it
gets one, and the one `App` keeps of its own and prefers). `lookups` are the calls of `loadTransaction` and `explainValuation`, `filters`
those of `applyFilters`. `late` is a history variable: the leftovers of earlier parcels, and the slices an answer to an earlier
call has replaced. Panels that hide their list while it is loading are not modelled, so a row may be chosen at more times than
in the browser.

## 3. Runs

| run | question | result |
|---|---|---|
| `import_pipeline` | does every interleaving, failure and crash of two imports keep the promise to readers, and do the runs end? | holds |
| `downloaded_zip` | does a LOCKED snapshot hold its file's transactions? | violated |
| `repeated_hash` | are two rows of one hash merged before the COPY? | violated |
| `snapshot_repository` | what do four clients do to one row? | holds |
| `failed_terminal` | is FAILED terminal? | violated |
| `scheduler` | mutual exclusion, honest progress, no redundant import, every call returns | holds |
| `started_at` | does `StartedAt` belong to the import that runs? | violated |
| `freshness` | how long may a release wait? | holds |
| `delayed_release` | is a delayed release caught within a day? | violated |
| `algorithms` | do parser, normalizer, validator and engines let through, keep and order what they must? | holds |
| `storage` | does what is stored beside the imports stay whole, single and readable? | holds |
| `page` | is what the page shows what was asked for last, and does it ever hang? | holds |

**Bounds.** *import_pipeline*: two runs, because every interaction (one checksum,
one parcel, a wait, a cycle of waits) is between two imports and the replicas are
two; five files: `market` and `again` name the parcels p1, p2 in opposite orders
(deadlock), `again` repeats a transaction (deduplicate) and is a zip, `broken` has a
row a CHECK refuses, `blank` is an empty zip, `twice` has two equal rows without a serial;
`MaxRetries = 1` makes first, middle and last try differ; `ChunkSize = 2` gives a full
and a short chunk for the three transactions of `market`. *snapshot_repository*: four
clients, one more than the three statuses an `UpdateStatus` may be about to write.
*scheduler*: server A refreshes by ticker and by force and has a URL, B has a
ticker, no URL, and uploads: all kinds of calls meet on a server and both servers
on the database; calls repeat without bound. *freshness*: months of 28, 30
and 31 days (29 adds nothing to the distance of windows that these do not
frame), releases up to three days late (the grace of `isReleaseWindow`), up to two
failures in a row; `FreshnessDays = 10`, the default. *delayed_release*: releases up to one day late.
*algorithms*: dates of both eras with every month and the days around its end, and today
as the limit; numbers around zero and around `IntLimit = 8` and `AreaLimit = 100000`, where a
column's CHECK or width begins to refuse; files of up to a few records, blank and English
ones among them; samples of up to five values, which is what it takes for the quartiles, the
median and an outlier to be different values; `Minimum = 3` comparables (the default) of
at most `SearchLimit = 5` candidates, so that the rule that drops outliers meets the minimum, and `MinimumRequired = 4`
of the valuation (as in `config_test.go:128`), so that three that are left are enough for one engine and too few for the other;
a land area in a column of the transaction's alone, of the parcel's alone, of both, or in none.
*storage*: five calls (two PersistValuations of one query, one with values the
table refuses, an Insert, a BatchInsert) on two transactions, one of a published snapshot;
three creators of two files, one with a checksum, because the third can find what the first
left and the second failed on; a provenance reader whose queries may fail; two engines that are asked for one parcel, with two roads in
three batches (create, delete, create again); two GIS requests and two
versions; seven rows, some of them of one rank, and
limits of 0, 1, 2 and one above `MaxLimit = 3`.
*page*: two callers on three connections (one that is thrown away while it is opened, its successor, and one more), three
searches, two loads of different parcels (an earlier and a later one; the first parcel is a given one, as their names mean nothing),
the filters of one load and one lookup under way at a time, each answered any number of times; of the dependents
all, some or none come together (`Outcomes`); two refreshes (the second meets the first one's record), two mounts.
`SelectResult`, where the two halves of `AppState` meet, has a part of its own (`app`) with one search and one load.
The parts of *storage* and of *page* share no state, so each behaviour exercises one of
them (`part`, chosen in `Init`): their product would multiply states and show nothing more.

**Deadlock** is checked, except on `SnapshotRepository`, where a deleted snapshot
ends the behaviour, and on *algorithms*, *storage* and *page*, which stop when
their input is computed or their callers have ended. In `ImportPipeline` the stop after the last run is the action
`Terminated`.

**Fairness.** *import_pipeline*: weak fairness of each run's own next step — Go
schedules a goroutine that can run, the database answers a statement or breaks the
connection, and PostgreSQL breaks cycles of waits. Nothing is assumed of `Break`:
no failure has to happen, so `EveryRunEnds` says that retries and waits end by
themselves. *scheduler*: weak fairness of every call's steps, where an import
ends because of `EveryRunEnds` and of its context of 30 minutes; and strong
fairness of `EnterForce`, because a `sync.Mutex` enters starvation mode after a
millisecond and hands over to the waiter before any `TryLock` can succeed. With
weak fairness instead, `EveryCallReturns` fails: ticks could overtake a
`ForceRefresh` for ever. `Request` and `Age` are not fair: nobody must call.
*page*: weak fairness of what the browser itself does — a timer fires (`Timeout`, `Poll`,
`Reload`, the steps of a mount), code that can run runs (`Send`), a script element ends in its
callback or in `onerror` (`ScriptEnds`) — and strong fairness of an answer to one of the polls that are sent without end.
The network owes a tool call nothing: `EveryCallEnds` rests on its time limit alone. The server need not start or end an
import: `RefreshEnds` says only that the bar does not wait on a record that is final.

## 4. Proofs

For every value of the constants, from the constants' assumptions only. The assumptions say what the code's types
and configuration guarantee, and TLC evaluates them in the runs. Those that are more than a type:
- `ConfigAssumption`: the area's weight is not zero, as by default; the configuration asks for one
  positive weight, whichever. With weight zero a more similar area gains nothing.
- `FileAssumption`: one column, the first, gives the district, as in the ministry's files.
- `RowsAssumption` (an id is one row's), `GisAssumption`, `RoadAssumption`, `ArchiveAssumption`, `StoreAssumption`,
  `NoConnectionAssumption`: what stands for "none" or for a broken body is told from the real ones.

`Refinement` needs nothing about `DatasetPublication` but its definitions.

**ImportPipelineProofs.** `Invariant`: `Spec => []IInv`. `NothingUnpublished`,
`LockedIsComplete` and `ChecksumIdentifiesSnapshot` are not inductive alone: they do not say
why a COMMIT publishes the right thing. `IInv` adds
- `TransactionScope`: outside the transaction nothing is staged or held, and inside
  it the run's snapshot is IMPORTING;
- `InsertedInOrder`: past a loop, its list has been inserted as a whole (all
  transactions past "txns", all parcels past "parcels");
- `OneInsertPerParcel`: what is held was executed by this run, is held by no other
  run and is not on record, and what was executed is held or on record — the wait of `WaitsFor` is
  what keeps it;
- `LockedHasEnded`, `ChecksumScope`: a LOCKED snapshot's run is over; two snapshots of one checksum are
  never both on record; past "verify" a run has the file of its checksum.

There is one lemma per action; actions that only move `pc`, and actions that roll
back, share `MoveKeepsIInv` and `EndKeepsIInv`. `LockedStaysAsItIs` and `Refinement` rest on
`OnlyCommitPublishes` (no other step touches a LOCKED status, a committed
transaction or a parcel) and `CommitPublishes` (a COMMIT maps to `Publish` of the
file's contents): every other step maps to `Open` or a stutter.

**SnapshotRepositoryProofs.** `TimestampsTellStatus` needs `TargetsWereImporting`: a client about
to write LOCKED or FAILED read a row whose `import_started_at` was set, and that
column is never cleared. `LockedStays` is an action property: the trigger's guard in
`WriteStatus` and the status asked for by `Lock`.

**SchedulerProofs.** `ProgressFollowsHolder` needs to know which stages each kind of
call reaches (`StagesOfKind`) and that mutexes are held by calls of their own server
(`MutexIsLocal`). `NoImportTwice`: the freshness read under the mutex stays true until
the call's own commit, because only this server could make `freshBy` this server.

**FreshnessProofs.** `Bounded`: `LagFollowsAge` relates the lag to the age — a release not
imported came after the latest import, so `lag <= age`; past the threshold each
tick costs a failed import. The bound holds for every `FreshnessDays`, delay and
number of failures. `WindowImport` follows from the same invariant.

**StorageProofs.** Five components that share no state, each with an inductive invariant of its own.

*RawArchive*: `ArchivesMatchSnapshots` and `OneSnapshotPerFile` need what is on disk at each
step of a call: nothing under `<id>` before its rename, the downloaded file between the
rename and the INSERT, and a row only past it; `Insert` meets no row of its file, so
rows of one file are one row. A call whose archive is still there after its INSERT was refused is in `kept`.

*RoadAccess*: `AnswersAreRecorded` needs that a record that is there names its engine
(`RecordsHaveEngines`): a record is made for a parcel that has none, so each earlier
answer for the parcel has been removed by then.

*ValuationStore*: one invariant for three theorems. `LockedWhenStored`: a row of a
published snapshot is never there without its LOCKED snapshot, so no DELETE passes the
trigger for it. `HashesApart`: of the calls that have or hold a hash, no two share it —
holding is what `HashHeld` waits for. `ReferencesHold`: what an open transaction refers
to is stored and not being deleted, what is committed is stored. With `TogetherOrNot`,
`ReaderFollows` and `OnlyFailuresHide` (what a reader does not find, a failed query hid) this carries
`ValuationIsWhole` and `ProvenanceIsAvailable`.

*GisSource*: `CacheHoldsAnAnswer` speaks of the file and of answers, and needs what the calls hold in between
(`CallsHoldBodies`, `FileIsWhole`): a call that has received something has a whole body; as long as the file is not
damaged one call writes at a time, and the file is whole when none does; a read that is not doubtful is one of such a file,
which nobody has opened to write since; and a file that was once there stays, so that a conditional request has something to
fall back on. A failed, killed or overlapping write damages the file until a later one empties it.

*Queries*: `PagingMissesNothing` is about the end of paging. `NothingIsPassed` says why it comes out: a row
the client has not got yet has at least as many rows before it as the client has skipped. An import only adds to
them; a page of `limit` rows either has the row or leaves that many more before it (`PositionCounts`: where
the order tells rows apart, a row stands behind exactly the rows before it). An empty page ends the reading only
when no position is left.

**ArraysProofs.** The prover cannot instantiate an induction theorem, whose parameter is an operator. So each
induction here is one on the *least counterexample*: a nonempty set of naturals has a least element
(`LeastElement`, from the well-foundedness of `<`), hence a set that contains 0 and each successor
has every number (`Induction`). From these: `Total` is the last partial sum, is monotone and adds to a positive
number only positive ones; `RanksCount` (in a finite ordered set the numbers of elements up to each one are
1 to its size, each once) gives `SortedProperties` — a permutation in ascending order — and `NthProperties`, on which
`Keep` rests.

**AlgorithmsProofs.** The inductive invariant `OutputIsComputed` says that an output is what the operators compute from
an input of the constants; the ten properties of the run are then facts about operators, for rows, files and samples of any size.
- `DatesCorrect`: a carried date has another month or day, and `ValidateDate` refuses it.
- `AcceptedFits`: `Truncate` keeps the widths whatever the runes (a rune has one byte at least), the validator's bounds
  imply the CHECKs up to the rounding of `Numeric` and the wrap of `Int4`, which are the exceptions the property names.
- `ParcelsAreThere`: both normalizers truncate the same cells, and, where only the shared columns give a land area, an area
  above zero that a transaction has is one of the parcel's (`ResolvesTheOnly`, `SharedAreaResolved`).
- `RecordsGiveRows`: by `FileAssumption` the English header is told by the first cell, so what is skipped depends on
  the record only.
- `FiguresAreOrdered`: `PercentileRises` (interpolation between neighbours of a sorted slice never falls as p grows) and
  `OutliersFew`. For the latter `OutsideCount` bounds the values outside an interval by the places outside the places
  its bounds come from; for the MAD at least half of the deviations are at most their median.
- `EngineAndServiceAgree`: `PercentilesAgree`, that percentile_cont over a bag of values, which ranks ties together, picks
  the elements the engine's sort has at the same places.
- `ValuesInOrder`: percentiles of the derived prices stay between 95 and 105 per cent of the median, and a division
  that rounds down keeps order.
- `ConfidenceIsMonotone`: the sums of each level's bounds only rise (`BetterSums`).
- `BetterIsFirst`, `EnoughIsFound`: what is found is a descending sequence of scores, whichever order the unstable sort leaves
  equal ones in, of which outlier removal drops some but leaves three or all (`FoundInOrder`). No assumption is made of the
  two minima: what is left may be too few for the valuation, which then says so and does so in no other case (`EnoughIsCompleted`).

**PageProofs.** `SessionsAreAccounted` counts what it cannot see directly: connections that are open *or may yet
open* are at most the orphaned ones and the one the page holds; connecting happens when it
holds none, and what throws a connection away orphans it only while it is being opened. `SearchShowsTheLatest` is inductive
with the types; `ShownIsSelected` needs what each stage of the last load has answered for (`LastLoadIsSelected`), and that a
lookup made since that load, from a list it has answered, is of its parcel (`LookupsAreOfTheirLoads`); an answer to anything
earlier puts its slice into `late`.

**Model-checked only**: `EveryRunEnds`, `EveryCallReturns`, `PageNeverHangs` (liveness under fairness is out of this
prover's reach), and that the violated claims are violated. Every invariant and every action property of the passing
runs is a theorem.

## 5. Findings

Each of the first five is a run TLC ends with a counterexample.

1. `downloaded_zip` — the downloaded file has no `.zip` suffix, is parsed as CSV,
   yields no row, and an empty snapshot is LOCKED; the discovered URL is a zip, so
   this is the default path of `CheckAndRefresh`.
2. `repeated_hash` — deduplicate's key has a fresh uuid for rows without a serial; two
   equal rows make the whole import fail on UNIQUE (snapshot_id, source_record_hash).
3. `failed_terminal` — `UpdateStatus` writes by id only, so LOCKED can replace FAILED.
4. `started_at` — after a failed import, the next reports the failed one's `StartedAt`.
5. `delayed_release` — the window's first check imports the old release and makes
   the data "fresh"; a release that comes later waits for the next window.

Found while modelling, not the subject of a run of their own (`PROJECT.json` quotes the lines):

6. `service/transaction.go:319` — p10 and p90 of a section are 1.1 times its minimum and 0.9
   times its maximum; `StatisticsAgree` leaves them out and shows that the rest agrees.
7. `db/transaction.sql.go:77` — without a section, which the tool calls optional,
   `get_transaction_statistics` compares with NULL and answers zeros (`OfSection`).
8. `service/road_access.go:83` — radius and box are ignored, the distance is the placeholder 0:
   every parcel is adjacent to the road created last (`Best`).
9. `valuation/engine.go:133` — a result for insufficient data has values of 0, which the CHECKs
   of `valuation_result` refuse (the call `p3` of *storage*).
10. `valuation/engine.go:90` — the base value is a plain median of scores applied to the section's
    median, not a weighted median of prices (`ExtractPrices`).
11. `createRetryableLoader.ts:20` — every retry is given the first failure, because the
    promise is kept (`LoadRejected`).
12. `mcpApi.ts:60` — a connect that ends after a reset, or after `disconnectMCP` at the unmount,
    overwrites the newer client, whose session stays open; `SessionsAreAccounted` bounds this.
13. `gis/importer.go:59` — a cache file is the answer for ever, also one that a failed, killed or overlapping
    write left; the error of `os.WriteFile` is ignored, and that of the read after a 304.
14. `downloader/snapshot.go:175` — a lost answer to the INSERT removes the archive of a
    snapshot that is there.
15. `mcp/server.go:258` — two uploads of one file name share a path in `TempDir`.
16. `DataFreshnessBar.tsx:81` — the bar takes the record of an earlier import, or of a check that
    found the data fresh, for the end of its own refresh; one that is never written it polls for ever.
17. `provenance/service.go:98` — any error of a query, a timeout included, is answered DATA_NOT_AVAILABLE, as if the
    row were missing (`ReadFails`); `ProvenanceIsAvailable` shows that nothing else is, for a persisted valuation.
18. `repository/parcel.go:397` — the order of `search_parcels` has ties as soon as a parcel is imported a second time,
    beside "Same snapshot + params + algorithm + config → same output" (`README.md:17`): pages may repeat a row and miss one.
19. `comparable/engine.go:295` — with `minimum_required_comparables` above 3 outlier removal can leave
    fewer comparables than valuation asks for, and a market that had enough is answered INSUFFICIENT_DATA: the run
    *algorithms* reaches this, and `ComparablesSuffice` says what remains.
20. `useAppState.ts:474` — `loadParcel`, as `App` calls it, clears neither the chosen transaction nor the chosen
    comparable, and `App` prefers an explanation asked for once to every later one (`Leftovers`).
21. `useAppState.ts:492` — nothing tells the answers of an earlier `loadParcel`, `applyFilters` or `loadTransaction` from those
    of the last: whichever comes last is shown (`late`).

Besides: a failed import leaves its snapshot PENDING or IMPORTING for ever (`FAILED` is never written by
the pipeline); `import_batch.status` stays RUNNING; `snapshot_locked_total` is counted before the
COMMIT; triggers of 000004 guard neither INSERT nor the race between their SELECT
and another session's lock; the county `countyFromFilename` reads off the
default download URL's last path element comes from a letter of "Download", not of a county's file.

## 6. Plan

Done: `ImportPipeline` with `DatasetPublication`, `SnapshotRepository`, `Scheduler`, `Freshness`; the
page (`McpSession`, `AppState`, `RefreshBar`, `MapsLoader`); what is stored beside the imports
(`RawArchive`, `ValuationStore`, `RoadAccess`, `GisSource`, `Queries`); the algorithms (`Rows`, `Statistics`,
`Comparables`, `Valuation`, `Algorithms`); and the proofs of section 4, which cover every invariant and action
property that a run checks.

What could follow, in this order:

1. The upload of `POST /admin/import` as a module of its own with `Scheduler`: the path two
   uploads share, and the `os.Remove` that follows each of them (finding 15).
2. `RefreshBar` composed with `Scheduler`, in place of `Begin` and `End`.
3. A specification of the promise behind `Queries` and `ValuationStore` (a reader's snapshot of what was committed), which both
   refine.
4. The version tables of 000003, once the program changes them.

## 7. Not modelled

- Rendering and layout of the frontend (`App.tsx`, `MapView.tsx`, `mapService.ts`, styles).
- GIS: parsing GeoJSON, geometry and coordinate transforms (floating point and PostGIS,
  which TLC cannot evaluate), and the import of cadastral and road files, which inserts
  what those give. Geometry columns of parcels and roads with them.
- Character encodings, the BOM and the unpacking of a zip: bytes in, records out.
- The path of an uploaded file and its removal (hazard at `server.go:258`).
- The tools, resources and prompts besides the searches: argument checks, one query and
  formatting, no state of their own. Free-text columns and the validator's warnings, which stop nothing.
- The version tables of 000003 and the triggers of 000004 on other tables than
  `transaction`: the same function on rows the program never changes.
- Metrics, logs and traces; generated sqlc code beyond the statements the modelled operations
  run; deployment manifests beyond the number of replicas.
- Of the page's state: layers, filter values and error texts; the flags `parcelLoading` and `transactionsLoading`; `clearSearchResults`
  (which does what `clearSearch` does) and `selectParcel`, which nothing calls; the handlers
  `_onSelectTransaction` and `_onSelectComparable` that `ParcelInspector` is given and does not use.
- Time inside a context (30 minutes, HTTP timeouts) appears as a failure at any step,
  never as a clock; only `Freshness` counts time.
