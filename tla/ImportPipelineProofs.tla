------------------------ MODULE ImportPipelineProofs ------------------------
(***************************************************************************)
(* Theorems about ImportPipeline for every number of runs, every set of    *)
(* files and rows, and every chunk size.                                   *)
(***************************************************************************)
EXTENDS ImportPipeline, TLAPS

\* A run has its file from "verify" on, and one of the expected checksum
\* from "parse" on.
HasFile == {"verify", "parse", "mark", "begin"} \cup InTransaction
Verified == HasFile \ {"verify"}

\* Between transactions a run holds nothing back from the others; from
\* "begin" on its snapshot is IMPORTING, which nobody else can change.
TransactionScope ==
    \A r \in Runs :
        /\ pc[r] \in HasFile => file[r] \in Files
        /\ pc[r] \in {"begin"} \cup InTransaction => status[r] = "IMPORTING"
        /\ pc[r] \notin InTransaction =>
              staged[r] = {} /\ seen[r] = {} /\ held[r] = {}

\* What a transaction has inserted is what it was given, and all of it once
\* the stage is over.
InsertedInOrder ==
    \A r \in Runs : pc[r] \in InTransaction =>
        /\ staged[r] \subseteq FirstTxns(Data(r))
        /\ seen[r] \subseteq KeysOf(Data(r))
        /\ held[r] \subseteq seen[r]
        /\ pc[r] # "txns" => staged[r] = FirstTxns(Data(r))
        /\ pc[r] \in {"lock", "commit"} => seen[r] = KeysOf(Data(r))

\* A parcel key has one open insert at most, and none once it is on record;
\* a key that was skipped is on record.
OneInsertPerParcel ==
    \A r \in Runs :
        /\ \A k \in held[r] : parcels[k] = NoRun
        /\ \A k \in seen[r] \ held[r] : parcels[k] # NoRun
        /\ \A q \in Runs : q # r => held[q] \cap held[r] = {}

\* A LOCKED snapshot's run is over, so that its file stays what it is.
LockedHasEnded == \A r \in Runs : status[r] = "LOCKED" => pc[r] \in Ended

\* One snapshot per expected checksum, and one verified file.
ChecksumScope ==
    \A r \in Runs :
        /\ pc[r] \in Verified => config[r].expected \in {NoChecksum, file[r]}
        /\ \A q \in Runs : SameChecksum(q, r) => Absent \in {status[q], status[r]}

\* The inductive invariant.
IInv == /\ TypeOK
        /\ TransactionScope
        /\ InsertedInOrder
        /\ OneInsertPerParcel
        /\ LockedHasEnded
        /\ ChecksumScope
        /\ NothingUnpublished
        /\ LockedIsComplete
        /\ ChecksumIdentifiesSnapshot

\* The sets of stages are expanded everywhere.
USE DEF Active, Ended, InTransaction, HasFile, Verified

----------------------------------------------------------------------------
\* What parse hands over is a sequence of rows.
LEMMA ParsedType ==
    ASSUME NEW c \in Configs, NEW f \in Files
    PROVE  Parsed(c.local, f) \in Seq(Row)
  BY DataAssumption, RunAssumption DEF Parsed

\* deduplicate keeps positions of the file.
LEMMA FirstTxnsType ==
    ASSUME NEW s \in Seq(Row)
    PROVE  FirstTxns(s) \subseteq Nat
  BY DEF FirstTxns

\* The parcels of a file have keys.
LEMMA KeysType ==
    ASSUME NEW s \in Seq(Row)
    PROVE  /\ KeysOf(s) \subseteq ParcelKeys
           /\ \A i \in FirstParcels(s) : ParcelOf[s[i]] \in KeysOf(s)
  BY DataAssumption DEF KeysOf, FirstParcels

\* The same three facts about the file of a run.
LEMMA DataType ==
    ASSUME TypeOK, NEW r \in Runs, file[r] \in Files
    PROVE  /\ Data(r) \in Seq(Row)
           /\ FirstTxns(Data(r)) \subseteq Nat
           /\ KeysOf(Data(r)) \subseteq ParcelKeys
           /\ \A i \in FirstParcels(Data(r)) : Key(r, i) \in KeysOf(Data(r))
  <1>1. config[r] \in Configs
    BY DEF TypeOK
  <1>2. Data(r) \in Seq(Row)
    BY <1>1, ParsedType DEF Data
  <1> QED
    BY <1>2, FirstTxnsType, KeysType DEF Key

\* The initial states.
LEMMA InitIInv == Init => IInv
  <1> SUFFICES ASSUME Init PROVE IInv
    OBVIOUS
  <1>1. TypeOK
    BY NumberAssumption DEF Init, TypeOK, Status, Absent
  <1>2. TransactionScope /\ InsertedInOrder /\ OneInsertPerParcel
    BY DEF Init, TransactionScope, InsertedInOrder, OneInsertPerParcel
  <1>3. \A r \in Runs : status[r] # "LOCKED"
    BY DEF Init, Absent
  <1>4. ChecksumScope
    BY DEF Init, ChecksumScope
  <1>5. NothingUnpublished
    BY RunAssumption DEF Init, NothingUnpublished
  <1> QED
    BY <1>1, <1>2, <1>3, <1>4, <1>5
    DEF IInv, LockedHasEnded, LockedIsComplete, ChecksumIdentifiesSnapshot

----------------------------------------------------------------------------
\* A run that moves from one stage to the next, and changes nothing shared.
\* What it must know by then is what IInv says of the new stage.
LEMMA MoveKeepsIInv ==
    ASSUME IInv, NEW r \in Runs, NEW s \in Active \cup {"failed"},
           pc[r] \in Active, Goto(r, s), UNCHANGED <<config, db, tx>>,
           attempts' \in [Runs -> 0..(MaxRetries + 1)],
           UNCHANGED file,
           s \in HasFile => file[r] \in Files,
           s \in Verified => config[r].expected \in {NoChecksum, file[r]},
           s \in {"begin"} \cup InTransaction => status[r] = "IMPORTING",
           pc[r] \in InTransaction => s \in InTransaction,
           s \in {"parcels", "lock", "commit"} => staged[r] = FirstTxns(Data(r)),
           s \in {"lock", "commit"} => seen[r] = KeysOf(Data(r))
    PROVE  IInv'
  <1> USE DEF IInv, Goto, db, tx
  <1>0. /\ pc \in [Runs -> Active \cup Ended]
        /\ status[r] # "LOCKED"
        /\ \A q \in Runs : pc'[q] = IF q = r THEN s ELSE pc[q]
    BY DEF TypeOK, LockedHasEnded
  <1>1. TypeOK'
    BY DEF TypeOK
  <1>2. TransactionScope'
    BY <1>0 DEF TransactionScope
  <1>3. InsertedInOrder'
    BY <1>0 DEF InsertedInOrder, TransactionScope, Data
  <1>4. OneInsertPerParcel'
    BY DEF OneInsertPerParcel
  <1>5. LockedHasEnded'
    BY <1>0 DEF LockedHasEnded
  <1>6. ChecksumScope'
    BY <1>0 DEF ChecksumScope, SameChecksum
  <1>7. NothingUnpublished' /\ LockedIsComplete' /\ ChecksumIdentifiesSnapshot'
    BY DEF NothingUnpublished, LockedIsComplete, Data,
           ChecksumIdentifiesSnapshot, SameChecksum
  <1> QED
    BY <1>1, <1>2, <1>3, <1>4, <1>5, <1>6, <1>7

\* A run that ends, with the Rollback of whatever it had inserted.
LEMMA EndKeepsIInv ==
    ASSUME IInv, NEW r \in Runs, NEW how \in {"failed", "crashed"},
           pc[r] \in Active, End(r, how)
    PROVE  IInv'
  <1> USE DEF IInv, End, Goto, Rollback, db
  <1>0. /\ pc \in [Runs -> Active \cup Ended]
        /\ staged \in [Runs -> SUBSET Nat]
        /\ seen \in [Runs -> SUBSET ParcelKeys]
        /\ held \in [Runs -> SUBSET ParcelKeys]
    BY DEF TypeOK
  <1>1. /\ pc'[r] = how
        /\ staged'[r] = {} /\ seen'[r] = {} /\ held'[r] = {}
        /\ \A q \in Runs \ {r} :
              /\ pc'[q] = pc[q]
              /\ staged'[q] = staged[q] /\ seen'[q] = seen[q] /\ held'[q] = held[q]
    BY <1>0
  <1>2. TypeOK'
    BY DEF TypeOK
  <1>3. TransactionScope'
    BY <1>1 DEF TransactionScope
  <1>4. InsertedInOrder'
    BY <1>1 DEF InsertedInOrder, Data
  <1>5. OneInsertPerParcel'
    BY <1>1 DEF OneInsertPerParcel
  <1>6. LockedHasEnded'
    BY <1>1 DEF LockedHasEnded
  <1>7. ChecksumScope'
    BY <1>1 DEF ChecksumScope, SameChecksum
  <1>8. NothingUnpublished' /\ LockedIsComplete' /\ ChecksumIdentifiesSnapshot'
    BY DEF NothingUnpublished, LockedIsComplete, Data,
           ChecksumIdentifiesSnapshot, SameChecksum
  <1> QED
    BY <1>2, <1>3, <1>4, <1>5, <1>6, <1>7, <1>8

\* initSnapshot: the snapshot of a checksum is created when no other one of
\* that checksum exists.
LEMMA InitSnapshotKeepsIInv ==
    ASSUME IInv, NEW r \in Runs, InitSnapshot(r)
    PROVE  IInv'
  <1> USE DEF IInv, InitSnapshot, At, Goto, GotoOrLoseReply, tx
  <1>0. /\ pc \in [Runs -> Active \cup Ended]
        /\ status \in [Runs -> Status \cup {Absent}]
        /\ pc[r] = "init" /\ pc'[r] \in {"download", "failed"}
        /\ status[r] # "LOCKED" /\ status'[r] # "LOCKED"
        /\ \A q \in Runs \ {r} : pc'[q] = pc[q] /\ status'[q] = status[q]
    BY DEF TypeOK, LockedHasEnded
  <1>1. TypeOK'
    BY DEF TypeOK, Status
  <1>2. TransactionScope'
    BY <1>0 DEF TransactionScope
  <1>3. InsertedInOrder'
    BY <1>0 DEF InsertedInOrder, Data
  <1>4. OneInsertPerParcel'
    BY DEF OneInsertPerParcel
  <1>5. LockedHasEnded'
    BY <1>0 DEF LockedHasEnded
  <1>6. ChecksumScope'
    <2>1. \A q \in Runs : pc'[q] \in Verified => config'[q].expected \in {NoChecksum, file'[q]}
      BY <1>0 DEF ChecksumScope
    <2>2. CASE UNCHANGED status
      BY <2>1, <2>2 DEF ChecksumScope, SameChecksum
    <2>3. CASE \A q \in Runs : SameChecksum(q, r) => status[q] = Absent
      BY <2>1, <2>3, <1>0 DEF ChecksumScope, SameChecksum
    <2> QED
      BY <2>2, <2>3 DEF Duplicate
  <1>7. NothingUnpublished'
    BY <1>0 DEF NothingUnpublished
  <1>8. LockedIsComplete'
    BY <1>0 DEF LockedIsComplete, Data
  <1>9. ChecksumIdentifiesSnapshot'
    BY <1>0 DEF ChecksumIdentifiesSnapshot, SameChecksum
  <1> QED
    BY <1>1, <1>2, <1>3, <1>4, <1>5, <1>6, <1>7, <1>8, <1>9

\* UseLocalFile and Download give a run its file, when no other part of the
\* state depends on it yet.
LEMMA FetchKeepsIInv ==
    ASSUME IInv, NEW r \in Runs, NEW f \in Files,
           At(r, "download"), Goto(r, "verify"),
           file' = [file EXCEPT ![r] = f],
           attempts' \in [Runs -> 0..(MaxRetries + 1)],
           UNCHANGED <<config, db, tx>>
    PROVE  IInv'
  <1> USE DEF IInv, At, Goto, db, tx
  <1>0. /\ pc \in [Runs -> Active \cup Ended]
        /\ file \in [Runs -> Files \cup {NoFile}]
        /\ pc'[r] = "verify" /\ file'[r] = f /\ status[r] # "LOCKED"
        /\ \A q \in Runs \ {r} : pc'[q] = pc[q] /\ file'[q] = file[q]
    BY DEF TypeOK, LockedHasEnded
  <1>1. TypeOK'
    BY DEF TypeOK
  <1>2. TransactionScope'
    BY <1>0 DEF TransactionScope
  <1>3. InsertedInOrder'
    BY <1>0 DEF InsertedInOrder, Data
  <1>4. OneInsertPerParcel'
    BY DEF OneInsertPerParcel
  <1>5. LockedHasEnded'
    BY <1>0 DEF LockedHasEnded
  <1>6. ChecksumScope'
    BY <1>0 DEF ChecksumScope, SameChecksum
  <1>7. NothingUnpublished'
    BY DEF NothingUnpublished
  <1>8. LockedIsComplete'
    BY <1>0 DEF LockedIsComplete, Data
  <1>9. ChecksumIdentifiesSnapshot'
    BY <1>0 DEF ChecksumIdentifiesSnapshot, SameChecksum
  <1> QED
    BY <1>1, <1>2, <1>3, <1>4, <1>5, <1>6, <1>7, <1>8, <1>9

\* UpdateStatus(IMPORTING).
LEMMA MarkImportingKeepsIInv ==
    ASSUME IInv, NEW r \in Runs, MarkImporting(r),
           CanTransition(status[r], "IMPORTING")
    PROVE  IInv'
  <1> USE DEF IInv, MarkImporting, At, Goto, GotoOrLoseReply, tx
  <1>0. /\ pc \in [Runs -> Active \cup Ended]
        /\ status \in [Runs -> Status \cup {Absent}]
        /\ pc[r] = "mark" /\ pc'[r] \in {"begin", "failed"}
        /\ status[r] # Absent /\ status'[r] = "IMPORTING"
        /\ \A q \in Runs \ {r} : pc'[q] = pc[q] /\ status'[q] = status[q]
    BY DEF TypeOK, CanTransition, ValidTransitions, Absent
  <1>1. TypeOK'
    BY DEF TypeOK, Status
  <1>2. TransactionScope'
    BY <1>0 DEF TransactionScope
  <1>3. InsertedInOrder'
    BY <1>0 DEF InsertedInOrder, Data
  <1>4. OneInsertPerParcel'
    BY DEF OneInsertPerParcel
  <1>5. LockedHasEnded'
    BY <1>0 DEF LockedHasEnded
  <1>6. ChecksumScope'
    BY <1>0 DEF ChecksumScope, SameChecksum
  <1>7. NothingUnpublished'
    BY <1>0 DEF NothingUnpublished, LockedHasEnded
  <1>8. LockedIsComplete'
    BY <1>0 DEF LockedIsComplete, Data
  <1>9. ChecksumIdentifiesSnapshot'
    BY <1>0 DEF ChecksumIdentifiesSnapshot, SameChecksum
  <1> QED
    BY <1>1, <1>2, <1>3, <1>4, <1>5, <1>6, <1>7, <1>8, <1>9

\* BatchInsert adds rows the file has to what the transaction holds.
LEMMA CopyTxnsKeepsIInv ==
    ASSUME IInv, NEW r \in Runs, CopyTxns(r)
    PROVE  IInv'
  <1> USE DEF IInv, CopyTxns, At, db
  <1>0. /\ staged \in [Runs -> SUBSET Nat]
        /\ staged'[r] \subseteq FirstTxns(Data(r))
        /\ \A q \in Runs \ {r} : staged'[q] = staged[q]
    BY DEF TypeOK, InsertedInOrder, Chunk, TxnsTodo
  <1>1. TypeOK'
    <2>1. staged'[r] \subseteq Nat
      BY <1>0, DataType DEF TransactionScope
    <2> QED
      BY <2>1 DEF TypeOK
  <1>2. TransactionScope'
    BY <1>0 DEF TransactionScope
  <1>3. InsertedInOrder'
    BY <1>0 DEF InsertedInOrder, Data
  <1>4. OneInsertPerParcel' /\ LockedHasEnded'
    BY DEF OneInsertPerParcel, LockedHasEnded
  <1>5. ChecksumScope' /\ ChecksumIdentifiesSnapshot'
    BY DEF ChecksumScope, ChecksumIdentifiesSnapshot, SameChecksum
  <1>6. NothingUnpublished' /\ LockedIsComplete'
    BY DEF NothingUnpublished, LockedIsComplete, Data
  <1> QED
    BY <1>1, <1>2, <1>3, <1>4, <1>5, <1>6

\* INSERT ... ON CONFLICT DO NOTHING: the key is on record already, or it is
\* nobody else's open insert, since the statement would have waited.
LEMMA InsertParcelKeepsIInv ==
    ASSUME IInv, NEW r \in Runs, InsertParcel(r)
    PROVE  IInv'
  <1> USE DEF IInv, At, db
  <1>1. PICK i \in ParcelsTodo(r) :
           /\ NextParcel(r, i)
           /\ seen' = [seen EXCEPT ![r] = @ \cup {Key(r, i)}]
           /\ held' = IF parcels[Key(r, i)] = NoRun
                      THEN [held EXCEPT ![r] = @ \cup {Key(r, i)}]
                      ELSE held
    BY DEF InsertParcel
  <1> DEFINE k == Key(r, i)
  <1>2. /\ pc[r] = "parcels"
        /\ UNCHANGED <<config, pc, attempts, file, db, staged>>
        /\ \A q \in Runs : ~WaitsFor(r, q)
    BY DEF InsertParcel
  <1>3. k \in KeysOf(Data(r)) /\ k \in ParcelKeys
    BY <1>1, <1>2, DataType DEF ParcelsTodo, TransactionScope
  <1>4. \A q \in Runs \ {r} : k \notin held[q]
    BY <1>1, <1>2 DEF WaitsFor
  <1>5. /\ seen \in [Runs -> SUBSET ParcelKeys] /\ held \in [Runs -> SUBSET ParcelKeys]
        /\ seen'[r] = seen[r] \cup {k}
        /\ held'[r] = IF parcels[k] = NoRun THEN held[r] \cup {k} ELSE held[r]
        /\ \A q \in Runs \ {r} : seen'[q] = seen[q] /\ held'[q] = held[q]
    BY <1>1 DEF TypeOK
  <1> HIDE DEF k
  <1>6. TypeOK'
    <2>1. /\ seen' = [seen EXCEPT ![r] = @ \cup {k}]
          /\ held' = [held EXCEPT ![r] = @ \cup {k}] \/ held' = held
      BY <1>1 DEF k
    <2> QED
      BY <2>1, <1>2, <1>3 DEF TypeOK
  <1>7. TransactionScope'
    BY <1>2, <1>5 DEF TransactionScope
  <1>8. InsertedInOrder'
    BY <1>2, <1>3, <1>5 DEF InsertedInOrder, Data
  <1>9. OneInsertPerParcel'
    BY <1>2, <1>4, <1>5 DEF OneInsertPerParcel
  <1>10. LockedHasEnded' /\ ChecksumScope' /\ ChecksumIdentifiesSnapshot'
    BY <1>2 DEF LockedHasEnded, ChecksumScope, ChecksumIdentifiesSnapshot,
                SameChecksum
  <1>11. NothingUnpublished' /\ LockedIsComplete'
    BY <1>2 DEF NothingUnpublished, LockedIsComplete, Data
  <1> QED
    BY <1>6, <1>7, <1>8, <1>9, <1>10, <1>11

\* COMMIT: what was staged is published, whole; the keys of the file that
\* were not inserted are on record already.
LEMMA CommitKeepsIInv ==
    ASSUME IInv, NEW r \in Runs, Commit(r)
    PROVE  IInv'
  <1> USE DEF IInv, Commit, At, Goto, GotoOrLoseReply, Rollback
  <1>0. /\ pc \in [Runs -> Active \cup Ended]
        /\ status \in [Runs -> Status \cup {Absent}]
        /\ txns \in [Runs -> SUBSET Nat]
        /\ staged \in [Runs -> SUBSET Nat]
        /\ seen \in [Runs -> SUBSET ParcelKeys]
        /\ held \in [Runs -> SUBSET ParcelKeys]
    BY DEF TypeOK
  <1>1. /\ pc[r] = "commit" /\ status[r] = "IMPORTING" /\ file[r] \in Files
        /\ staged[r] = FirstTxns(Data(r))
        /\ seen[r] = KeysOf(Data(r))
        /\ UNCHANGED <<config, attempts, file>>
    BY DEF TransactionScope, InsertedInOrder
  <1>2. /\ pc'[r] \in {"locked", "failed"} /\ status'[r] = "LOCKED"
        /\ batches' = batches \cup {r} /\ txns'[r] = staged[r]
        /\ staged'[r] = {} /\ seen'[r] = {} /\ held'[r] = {}
        /\ \A q \in Runs \ {r} :
              /\ pc'[q] = pc[q] /\ status'[q] = status[q] /\ txns'[q] = txns[q]
              /\ staged'[q] = staged[q] /\ seen'[q] = seen[q] /\ held'[q] = held[q]
    BY <1>0, <1>1
  <1>3. \A k \in ParcelKeys :
           parcels'[k] = IF k \in held[r] THEN r ELSE parcels[k]
    OBVIOUS
  <1>4. r # NoRun
    BY RunAssumption
  <1>5. TypeOK'
    BY <1>0 DEF TypeOK, Status
  <1>6. TransactionScope'
    BY <1>1, <1>2 DEF TransactionScope
  <1>7. InsertedInOrder'
    BY <1>1, <1>2 DEF InsertedInOrder, Data
  <1>8. OneInsertPerParcel'
    BY <1>0, <1>2, <1>3, <1>4 DEF OneInsertPerParcel
  <1>9. LockedHasEnded'
    BY <1>1, <1>2 DEF LockedHasEnded
  <1>10. ChecksumScope'
    BY <1>1, <1>2 DEF ChecksumScope, SameChecksum, Absent
  <1>11. NothingUnpublished'
    BY <1>1, <1>2, <1>3 DEF NothingUnpublished
  <1>12. LockedIsComplete'
    <2>1. file[r] # NoFile
      BY <1>1, RunAssumption
    <2>2. KeysOf(Data(r)) \subseteq ParcelKeys
      BY <1>1, DataType
    <2>3. \A k \in KeysOf(Data(r)) : parcels'[k] # NoRun
      BY <1>1, <1>3, <1>4, <2>2 DEF OneInsertPerParcel
    <2>4. \A k \in ParcelKeys : parcels[k] # NoRun => parcels'[k] # NoRun
      BY <1>3, <1>4
    <2>5. \A q \in Runs : Data(q)' = Data(q) /\ file'[q] = file[q]
      BY <1>1 DEF Data
    <2>6. ASSUME NEW q \in Runs \ {r}, status[q] = "LOCKED"
          PROVE  /\ file[q] # NoFile /\ q \in batches
                 /\ txns[q] = FirstTxns(Data(q))
                 /\ \A k \in KeysOf(Data(q)) : parcels[k] # NoRun
                 /\ KeysOf(Data(q)) \subseteq ParcelKeys
      BY <2>6, DataType DEF LockedIsComplete, TypeOK
    <2> HIDE DEF IInv, Commit
    <2>7. ASSUME NEW q \in Runs \ {r}, status'[q] = "LOCKED"
          PROVE  /\ file[q] # NoFile /\ q \in batches'
                 /\ txns'[q] = FirstTxns(Data(q))
                 /\ \A k \in KeysOf(Data(q)) : parcels'[k] # NoRun
      <3>1. status[q] = "LOCKED" /\ txns'[q] = txns[q]
        BY <1>2, <2>7
      <3> QED
        BY <1>2, <2>4, <2>6, <3>1
    <2>8. /\ file[r] # NoFile /\ r \in batches'
          /\ txns'[r] = FirstTxns(Data(r))
          /\ \A k \in KeysOf(Data(r)) : parcels'[k] # NoRun
      BY <1>1, <1>2, <2>1, <2>3
    <2> QED
      BY <2>5, <2>7, <2>8 DEF LockedIsComplete, KeysOf, FirstTxns
  <1>13. ChecksumIdentifiesSnapshot'
    BY <1>1, <1>2 DEF ChecksumIdentifiesSnapshot, ChecksumScope, SameChecksum, Absent
  <1> QED
    BY <1>5, <1>6, <1>7, <1>8, <1>9, <1>10, <1>11, <1>12, <1>13

----------------------------------------------------------------------------
\* Every step preserves the invariant.
LEMMA NextKeepsIInv == IInv /\ [Next]_vars => IInv'
  <1> SUFFICES ASSUME IInv, [Next]_vars PROVE IInv'
    OBVIOUS
  <1>1. ASSUME NEW r \in Runs, Step(r) \/ Break(r)
        PROVE  IInv'
    <2> USE DEF At
    <2>0. TypeOK /\ TransactionScope /\ InsertedInOrder /\ ChecksumScope
      BY DEF IInv
    <2>t. attempts \in [Runs -> 0..(MaxRetries + 1)]
      BY <2>0 DEF TypeOK
    <2>n. attempts[r] <= MaxRetries =>
             [attempts EXCEPT ![r] = @ + 1] \in [Runs -> 0..(MaxRetries + 1)]
      BY <2>t, NumberAssumption
    <2>1. CASE InitSnapshot(r)
      BY <2>1, InitSnapshotKeepsIInv
    <2>2. CASE UseLocalFile(r)
      <3>1. config[r].local \in Files
        BY <2>0, <2>2, RunAssumption DEF UseLocalFile, TypeOK
      <3> QED
        BY <2>2, <2>t, <3>1, FetchKeepsIInv DEF UseLocalFile
    <2>3. CASE Download(r)
      BY <2>3, <2>n, FetchKeepsIInv DEF Download
    <2>4. CASE DownloadFails(r)
      BY <2>4, <2>n, MoveKeepsIInv DEF DownloadFails
    <2>5. CASE VerifyChecksum(r)
      BY <2>0, <2>5, <2>t, MoveKeepsIInv DEF VerifyChecksum, TransactionScope
    <2>6. CASE Parse(r)
      BY <2>0, <2>6, <2>t, MoveKeepsIInv DEF Parse, TransactionScope, ChecksumScope
    <2>7. CASE MarkImporting(r)
      <3>1. CASE CanTransition(status[r], "IMPORTING")
        BY <2>7, <3>1, MarkImportingKeepsIInv
      <3>2. CASE ~CanTransition(status[r], "IMPORTING")
        BY <2>7, <3>2, <2>t, MoveKeepsIInv DEF MarkImporting, db
      <3> QED
        BY <3>1, <3>2
    <2>8. CASE Begin(r)
      BY <2>0, <2>8, <2>t, MoveKeepsIInv DEF Begin, TransactionScope, ChecksumScope
    <2>9. CASE CopyTxns(r)
      BY <2>9, CopyTxnsKeepsIInv
    <2>10. CASE CopyRefused(r)
      BY <2>10, EndKeepsIInv DEF CopyRefused
    <2>11. CASE TxnsDone(r)
      <3>1. staged[r] = FirstTxns(Data(r))
        BY <2>0, <2>11 DEF TxnsDone, TxnsTodo, InsertedInOrder
      <3> QED
        BY <2>0, <2>11, <2>t, <3>1, MoveKeepsIInv
        DEF TxnsDone, TransactionScope, ChecksumScope
    <2>12. CASE InsertParcel(r)
      BY <2>12, InsertParcelKeepsIInv
    <2>13. CASE ParcelRefused(r)
      BY <2>13, EndKeepsIInv DEF ParcelRefused
    <2>14. CASE ParcelsDone(r)
      <3>1. seen[r] = KeysOf(Data(r))
        BY <2>0, <2>14 DEF ParcelsDone, ParcelsTodo, InsertedInOrder, KeysOf, Key
      <3>2. staged[r] = FirstTxns(Data(r))
        BY <2>0, <2>14 DEF ParcelsDone, InsertedInOrder
      <3> QED
        BY <2>0, <2>14, <2>t, <3>1, <3>2, MoveKeepsIInv
        DEF ParcelsDone, TransactionScope, ChecksumScope
    <2>15. CASE DeadlockVictim(r)
      <3>1. pc[r] = "parcels"
        BY <2>15 DEF DeadlockVictim, Deadlocked, WaitsFor
      <3> QED
        BY <2>15, <3>1, EndKeepsIInv DEF DeadlockVictim
    <2>16. CASE LockSnapshot(r)
      <3>1. CASE Goto(r, "commit") /\ UNCHANGED <<config, attempts, file, db, tx>>
        BY <2>0, <2>16, <2>t, <3>1, MoveKeepsIInv
        DEF LockSnapshot, TransactionScope, InsertedInOrder, ChecksumScope
      <3>2. CASE End(r, "failed")
        BY <2>16, <3>2, EndKeepsIInv DEF LockSnapshot
      <3> QED
        BY <2>16, <3>1, <3>2 DEF LockSnapshot
    <2>17. CASE Commit(r)
      BY <2>17, CommitKeepsIInv
    <2>18. CASE Break(r)
      BY <2>18, EndKeepsIInv DEF Break
    <2> QED
      BY <1>1, <2>1, <2>2, <2>3, <2>4, <2>5, <2>6, <2>7, <2>8, <2>9, <2>10, <2>11,
         <2>12, <2>13, <2>14, <2>15, <2>16, <2>17, <2>18 DEF Step
  <1>2. CASE UNCHANGED vars
    BY <1>2
    DEF vars, db, tx, IInv, TypeOK, TransactionScope, InsertedInOrder, Data,
        OneInsertPerParcel, LockedHasEnded, ChecksumScope, SameChecksum,
        NothingUnpublished, LockedIsComplete, ChecksumIdentifiesSnapshot
  <1> QED
    BY <1>1, <1>2 DEF Next, Terminated

\* The strengthened invariant holds in every reachable state.
THEOREM Invariant == Spec => []IInv
  BY InitIInv, NextKeepsIInv, PTL DEF Spec

\* Every variable keeps to its range; a run downloads MaxRetries + 1 times
\* at most.
THEOREM TypeCorrect == Spec => []TypeOK
  <1>1. IInv => TypeOK
    BY DEF IInv
  <1> QED
    BY <1>1, Invariant, PTL

\* Whatever fails, wherever: no partial import is ever on record.
THEOREM NoPartialImport == Spec => []NothingUnpublished
  <1>1. IInv => NothingUnpublished
    BY DEF IInv
  <1> QED
    BY <1>1, Invariant, PTL

\* A LOCKED snapshot has every transaction and every parcel of its file.
THEOREM Completeness == Spec => []LockedIsComplete
  <1>1. IInv => LockedIsComplete
    BY DEF IInv
  <1> QED
    BY <1>1, Invariant, PTL

\* One LOCKED snapshot per expected checksum, with the file of that checksum.
THEOREM ChecksumsIdentify == Spec => []ChecksumIdentifiesSnapshot
  <1>1. IInv => ChecksumIdentifiesSnapshot
    BY DEF IInv
  <1> QED
    BY <1>1, Invariant, PTL

----------------------------------------------------------------------------
\* No step but its Commit touches what readers see, apart from a snapshot
\* that is created or marked IMPORTING.
LEMMA OnlyCommitPublishes ==
    ASSUME IInv, NEW r \in Runs, Step(r) \/ Break(r), ~Commit(r)
    PROVE  /\ UNCHANGED <<batches, txns, parcels>>
           /\ \/ UNCHANGED status
              \/ /\ status[r] = Absent /\ status' = [status EXCEPT ![r] = "PENDING"]
              \/ /\ status[r] = "PENDING" /\ status' = [status EXCEPT ![r] = "IMPORTING"]
  <1> USE DEF db, tx, End
  <1>1. CASE InitSnapshot(r)
    BY <1>1 DEF InitSnapshot
  <1>2. CASE MarkImporting(r)
    <2>1. CanTransition(status[r], "IMPORTING") => status[r] = "PENDING"
      BY DEF CanTransition, ValidTransitions, Terminal
    <2> QED
      BY <1>2, <2>1 DEF MarkImporting
  <1>3. CASE \/ UseLocalFile(r) \/ Download(r) \/ DownloadFails(r)
             \/ VerifyChecksum(r) \/ Parse(r) \/ Begin(r) \/ TxnsDone(r)
             \/ ParcelsDone(r) \/ CopyTxns(r) \/ InsertParcel(r)
    BY <1>3 DEF UseLocalFile, Download, DownloadFails, VerifyChecksum, Parse,
                Begin, TxnsDone, ParcelsDone, CopyTxns, InsertParcel
  <1>4. CASE \/ CopyRefused(r) \/ ParcelRefused(r) \/ DeadlockVictim(r)
             \/ LockSnapshot(r) \/ Break(r)
    BY <1>4 DEF CopyRefused, ParcelRefused, DeadlockVictim, LockSnapshot, Break
  <1> QED
    BY <1>1, <1>2, <1>3, <1>4 DEF Step

\* What Commit changes, in terms of the state before it.
LEMMA CommitPublishes ==
    ASSUME IInv, NEW r \in Runs, Commit(r)
    PROVE  /\ status[r] = "IMPORTING"
           /\ status' = [status EXCEPT ![r] = "LOCKED"]
           /\ txns' = [txns EXCEPT ![r] = FirstTxns(Data(r))]
           /\ parcels' = [k \in ParcelKeys |->
                 IF k \in KeysOf(Data(r)) /\ parcels[k] = NoRun THEN r
                 ELSE parcels[k]]
  <1>1. /\ pc[r] = "commit" /\ status[r] = "IMPORTING"
        /\ staged[r] = FirstTxns(Data(r)) /\ seen[r] = KeysOf(Data(r))
        /\ held[r] \subseteq seen[r]
    BY DEF IInv, Commit, At, TransactionScope, InsertedInOrder
  <1>2. \A k \in ParcelKeys :
           k \in held[r] <=> k \in KeysOf(Data(r)) /\ parcels[k] = NoRun
    BY <1>1 DEF IInv, OneInsertPerParcel
  <1> QED
    BY <1>1, <1>2 DEF Commit

\* Once LOCKED, a snapshot keeps its status, its transactions and its parcels.
THEOREM LockedStaysAsItIs == Spec => LockedIsImmutable
  <1> DEFINE Kept == \A r \in Runs : status[r] = "LOCKED" =>
                        /\ status'[r] = "LOCKED"
                        /\ txns'[r] = txns[r]
                        /\ \A k \in ParcelKeys : parcels'[k] = r <=> parcels[k] = r
  <1>1. ASSUME IInv, [Next]_vars PROVE [Kept]_vars
    <2>0. /\ status \in [Runs -> Status \cup {Absent}]
          /\ txns \in [Runs -> SUBSET Nat]
          /\ NoRun \notin Runs
      BY <1>1, RunAssumption DEF IInv, TypeOK
    <2>1. ASSUME NEW r \in Runs, Step(r) \/ Break(r), ~Commit(r) PROVE Kept
      BY <1>1, <2>0, <2>1, OnlyCommitPublishes DEF Absent
    <2>2. ASSUME NEW r \in Runs, Commit(r) PROVE Kept
      BY <1>1, <2>0, <2>2, CommitPublishes
    <2> QED
      BY <1>1, <2>1, <2>2 DEF Next, Terminated
  <1> QED
    BY <1>1, Invariant, PTL DEF Spec, LockedIsImmutable

----------------------------------------------------------------------------
\* The pipeline implements DatasetPublication: Commit is its Publish, the
\* creation of the snapshot row its Open, and every other step a stutter.

LEMMA InitRefines == Init => Publication!Init
  <1> SUFFICES ASSUME Init PROVE Publication!Init
    OBVIOUS
  <1>1. Phase \in [Runs -> {"none", "open"}]
    BY DEF Init, Phase, Absent
  <1> QED
    BY <1>1 DEF Init, Publication!Init

LEMMA NextRefines == IInv /\ [Next]_vars => [Publication!Next]_(Publication!vars)
  <1> SUFFICES ASSUME IInv, [Next]_vars
               PROVE  Publication!Next \/ UNCHANGED Publication!vars
    OBVIOUS
  <1>0. status \in [Runs -> Status \cup {Absent}]
    BY DEF IInv, TypeOK
  <1>1. ASSUME NEW r \in Runs, Step(r) \/ Break(r), ~Commit(r)
        PROVE  Publication!Next \/ UNCHANGED Publication!vars
    <2>1. CASE UNCHANGED status
      BY <1>1, <2>1, OnlyCommitPublishes DEF Publication!vars, Phase
    <2>2. CASE status[r] = Absent /\ status' = [status EXCEPT ![r] = "PENDING"]
      <3>1. Phase[r] = "none" /\ Phase' = [Phase EXCEPT ![r] = "open"]
        BY <1>0, <2>2 DEF Phase, Absent
      <3> QED
        BY <1>1, <3>1, OnlyCommitPublishes DEF Publication!Next, Publication!Open
    <2>3. CASE status[r] = "PENDING" /\ status' = [status EXCEPT ![r] = "IMPORTING"]
      <3>1. UNCHANGED Phase
        BY <1>0, <2>3 DEF Phase, Absent
      <3> QED
        BY <1>1, <3>1, OnlyCommitPublishes DEF Publication!vars
    <2> QED
      BY <1>1, <2>1, <2>2, <2>3, OnlyCommitPublishes
  <1>2. ASSUME NEW r \in Runs, Commit(r)
        PROVE  Publication!Next
    <2> DEFINE c == [txns    |-> FirstTxns(Data(r)), parcels |-> KeysOf(Data(r))]
    <2>1. c \in Contents
      <3>1. config[r] \in Configs /\ file[r] \in Files
        BY <1>2 DEF IInv, TypeOK, TransactionScope, Commit, At
      <3> QED
        BY <3>1 DEF Contents, Data
    <2>2. Phase[r] = "open" /\ Phase' = [Phase EXCEPT ![r] = "published"]
      BY <1>0, <1>2, CommitPublishes DEF Phase, Absent
    <2>3. Publication!Publish(r, c)
      BY <1>2, <2>2, CommitPublishes DEF Publication!Publish
    <2> QED
      BY <2>1, <2>3 DEF Publication!Next
  <1>3. CASE UNCHANGED vars
    BY <1>3 DEF vars, db, Publication!vars, Phase
  <1> QED
    BY <1>1, <1>2, <1>3 DEF Next, Terminated

\* Every behaviour of the pipeline is one of DatasetPublication.
THEOREM Refinement == Spec => ImplementsPublication
  BY InitRefines, NextRefines, Invariant, PTL
  DEF Spec, ImplementsPublication, Publication!Spec
=============================================================================
