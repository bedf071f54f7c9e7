------------------------------ MODULE Queries -------------------------------
(***************************************************************************)
(* The readers: a client of search_transactions or search_parcels reads    *)
(* page by page while imports commit.  An imported row is [kind, id, rank];*)
(* rank is what ORDER BY starts with: the date of a transaction, later     *)
(* ones first, or the section and land number of a parcel.  All rows are   *)
(* of one county and district, and match the other filters.                *)
(*                                                                         *)
(* Transactions of one date are sorted by id.  Parcels of one land number  *)
(* (it has one for each source version) come in any order, which may be    *)
(* another one for each query.                                             *)
(***************************************************************************)
EXTENDS Integers, SequencesExt

CONSTANTS
    AllRows,       \* all rows there will ever be
    Limits,        \* the limits clients ask for
    DefaultLimit,  \* [kind -> Nat]: 50 and 100
    MaxLimit       \* 1000

\* Every id is the primary key of one row.
ASSUME RowsAssumption ==
    /\ IsFiniteSet(AllRows)
    /\ AllRows \subseteq [kind : {"transaction", "parcel"}, id : Nat, rank : Int]
    /\ \A r, s \in AllRows : r.kind = s.kind /\ r.id = s.id => r = s

ASSUME LimitsAssumption ==
    /\ Limits \subseteq Int /\ MaxLimit \in Nat \ {0}
    /\ DefaultLimit \in [{"transaction", "parcel"} -> Nat \ {0}]

VARIABLES
    imported, \* the rows of committed imports
    client    \* the client that pages: what it asks for and what it got

qvars == <<imported, client>>

NoClient == [kind |-> "none", limit |-> 0, offset |-> 0, seen |-> {}, start |-> {},
             done |-> TRUE]

QueriesInit == imported = {} /\ client = NoClient

\* COMMIT of an import: its rows appear at once.
Import(S) == /\ S # {} /\ S \cap imported = {}
             /\ imported' = imported \cup S
             /\ UNCHANGED client

----------------------------------------------------------------------------
\* A limit that is not positive is the default, one above the most is the
\* most; a negative offset is 0.
Clamp(kind, limit) == IF limit <= 0 THEN DefaultLimit[kind]
                      ELSE IF limit > MaxLimit THEN MaxLimit ELSE limit

\* Mutation: the id is not part of the order.
BeforeByRank(a, b) == a.rank < b.rank

\* a must come before b.
Before(a, b) == a.rank < b.rank \/ (a.kind = "transaction" /\ a.rank = b.rank /\ a.id < b.id)

\* The pages a query may return: ORDER BY, OFFSET, LIMIT.
Pages(kind, offset, limit) ==
    LET found == {r \in imported : r.kind = kind}
        orders == {s \in SetToSeqs(found) :
                      \A i, j \in DOMAIN s : Before(s[i], s[j]) => i < j}
    IN  {{s[i] : i \in {n \in DOMAIN s : offset < n /\ n <= offset + limit}} : s \in orders}

\* Start is what was stored when the client began to read.
StartReading(kind, limit) ==
    /\ client.done
    /\ client' = [kind |-> kind, limit |-> limit, offset |-> 0, seen |-> {},
                  start |-> {r \in imported : r.kind = kind}, done |-> FALSE]
    /\ UNCHANGED imported

\* The client asks for the page after the rows it got, until it gets none.
ReadPage ==
    /\ ~client.done
    /\ \E page \in Pages(client.kind, client.offset, Clamp(client.kind, client.limit)) :
          client' = [client EXCEPT !.seen = @ \cup page, !.offset = @ + Cardinality(page),
                                   !.done = page = {}]
    /\ UNCHANGED imported

QueriesNext ==
    \/ \E S \in SUBSET AllRows : Import(S)
    \/ \E limit \in Limits : StartReading("transaction", limit) \/ StartReading("parcel", limit)
    \/ ReadPage

QueriesSpec == QueriesInit /\ [][QueriesNext]_qvars

----------------------------------------------------------------------------
\* A client that pages to the end has got every row that was there when it
\* began, whatever was imported in between: new rows may push rows it has seen
\* into its next page, but never a row past it.  Of parcels this holds as long
\* as no land number is stored twice: two rows of one land number have no
\* order between them, and either may be missed.
PagingMissesNothing ==
    /\ client.done
    /\ client.kind = "parcel" =>
          \A r, s \in imported : r.kind = "parcel" /\ s.kind = "parcel" /\ r.rank = s.rank => r = s
    => client.start \subseteq client.seen
=============================================================================
