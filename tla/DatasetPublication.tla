------------------------- MODULE DatasetPublication -------------------------
(***************************************************************************)
(* What an import promises to the readers of the database, without its     *)
(* stages, its transaction or its failures: a snapshot is opened, and then *)
(* either stays open for ever or is published in ONE step, with all of     *)
(* its transactions and with every parcel its file names on record.  The   *)
(* parcel table is shared by all snapshots: the first snapshot to publish  *)
(* a parcel owns its row, and the row never changes hands.                 *)
(***************************************************************************)
CONSTANTS Snapshots,    \* ids of snapshots
          ParcelKeys,   \* (county, district, section, land_number)
          Content,      \* what a file may hold: [txns, parcels]
          NoOne         \* no snapshot: the owner of a parcel not on record

VARIABLES phase,    \* "none", "open" or "published", for each snapshot
          dataset,  \* the transactions readers find under each snapshot
          owner     \* the snapshot each parcel row came with

vars == <<phase, dataset, owner>>

Init == /\ phase \in [Snapshots -> {"none", "open"}]
        /\ dataset = [s \in Snapshots |-> {}]
        /\ owner = [k \in ParcelKeys |-> NoOne]

Open(s) == /\ phase[s] = "none"
           /\ phase' = [phase EXCEPT ![s] = "open"]
           /\ UNCHANGED <<dataset, owner>>

Publish(s, c) ==
    /\ phase[s] = "open"
    /\ phase' = [phase EXCEPT ![s] = "published"]
    /\ dataset' = [dataset EXCEPT ![s] = c.txns]
    /\ owner' = [k \in ParcelKeys |->
                    IF k \in c.parcels /\ owner[k] = NoOne THEN s ELSE owner[k]]

Next == \E s \in Snapshots : Open(s) \/ \E c \in Content : Publish(s, c)

Spec == Init /\ [][Next]_vars
=============================================================================
