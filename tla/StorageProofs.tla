--------------------------- MODULE StorageProofs ----------------------------
(***************************************************************************)
(* Theorems about what is stored beside the imports: the cache of the GIS  *)
(* sources, the pages of the readers, the raw archive, valuations, and the *)
(* road access records; for any calls, files, rows, parcels and roads.     *)
(* The components share no state, and each has its own inductive           *)
(* invariant.                                                              *)
(***************************************************************************)
EXTENDS GisSource, Queries, RawArchive, ValuationStore, RoadAccess, ArraysProofs

----------------------------------------------------------------------------
(* GisSource: any calls, versions and tries *)

Bodies == Versions \cup {Part, Mixed, Absent}

\* A call of downloadWithCache.
GisCall == [at : {"start", "reading", "ask", "sent", "received", "writing", "answered",
                  "failed", "killed"},
            tries : Nat, body : Bodies, since : BOOLEAN, doubtful : BOOLEAN]

GisTypes == cache \in Bodies /\ damaged \in BOOLEAN /\ request \in [Requests -> GisCall]

\* A call holds a whole body from its arrival on, and a file that is there
\* stays.
CallsHoldBodies ==
    \A r \in Requests :
        /\ At(r, "received") \/ At(r, "writing") => request[r].body \in Versions
        /\ At(r, "answered") => request[r].doubtful \/ request[r].body \in Versions
        /\ request[r].since \/ At(r, "reading") => cache # Absent

\* As long as the file is not damaged one call writes it at a time, and it is
\* whole when none does; what is read without doubt is such a file.
FileIsWhole ==
    /\ ~damaged => \A r, s \in Writing : r = s
    /\ ~damaged /\ Writing = {} => cache \in Versions \cup {Absent}
    /\ \A r \in Requests : At(r, "reading") /\ ~request[r].doubtful =>
          ~damaged /\ Writing = {} /\ cache \in Versions

\* The inductive invariant.
GInv == GisTypes /\ CallsHoldBodies /\ FileIsWhole

\* A call's stage, body and condition change, and those of no other call.
LEMMA SetIsLocal ==
    ASSUME GisTypes, NEW r \in Requests, NEW rec, Set(r, rec)
    PROVE  /\ request'[r] = rec
           /\ \A s \in Requests : s # r => request'[s] = request[s]
  BY DEF GisTypes, Set

\* A call that does not write leaves the file to the others.
LEMMA QuietKeepsGInv ==
    ASSUME GInv, NEW r \in Requests, NEW rec \in GisCall, Set(r, rec),
           UNCHANGED <<cache, damaged>>,
           ~At(r, "writing"), rec.at # "writing",
           rec.at = "received" => rec.body \in Versions,
           rec.at = "answered" => rec.doubtful \/ rec.body \in Versions,
           rec.since \/ rec.at = "reading" => cache # Absent,
           rec.at = "reading" => rec.doubtful = (damaged \/ Writing # {})
    PROVE  GInv'
  <1>1. /\ request'[r] = rec
        /\ \A s \in Requests : s # r => request'[s] = request[s]
    BY SetIsLocal DEF GInv
  <1>2. Writing' = Writing
    BY <1>1 DEF Writing, At
  <1>3. GisTypes'
    BY DEF GInv, GisTypes, Set
  <1>4. CallsHoldBodies'
    BY <1>1 DEF GInv, CallsHoldBodies, At
  <1>5. At(r, "reading")' /\ ~rec.doubtful => ~damaged /\ Writing = {} /\ cache \in Versions
    BY <1>1 DEF GInv, FileIsWhole, At
  <1>6. FileIsWhole'
    BY <1>1, <1>2, <1>5 DEF GInv, FileIsWhole, At
  <1> QED
    BY <1>3, <1>4, <1>6 DEF GInv

\* A call opens the file to read it.
LEMMA OpenToReadKeepsGInv ==
    ASSUME GInv, NEW r \in Requests, OpenToRead(r), ~At(r, "writing"), cache # Absent
    PROVE  GInv'
  <1> DEFINE rec == [request[r] EXCEPT !.at = "reading", !.doubtful = damaged \/ Writing # {}]
  <1>1. Set(r, rec) /\ UNCHANGED <<cache, damaged>>
    BY DEF OpenToRead
  <1>2. /\ rec \in GisCall /\ rec.at = "reading" /\ rec.doubtful = (damaged \/ Writing # {})
    BY DEF GInv, GisTypes, GisCall
  <1> HIDE DEF rec
  <1> QED
    BY <1>1, <1>2, QuietKeepsGInv

\* Reading, asking and receiving.
LEMMA QuietSteps ==
    ASSUME GInv, NEW r \in Requests,
           \/ ReadCache(r) \/ FinishRead(r) \/ CannotRead(r)
           \/ Ask(r) \/ NotModified(r) \/ Receive(r)
    PROVE  GInv'
  <1>1. /\ request[r] \in GisCall /\ request[r].tries + 1 \in Nat /\ cache \in Bodies
        /\ request[r].since \/ At(r, "reading") => cache # Absent
        /\ At(r, "reading") /\ ~request[r].doubtful => cache \in Versions
    BY DEF GInv, GisTypes, GisCall, CallsHoldBodies, FileIsWhole
  <1>2. CASE ReadCache(r)
    <2>1. CASE cache # Absent
      BY <1>2, <2>1, OpenToReadKeepsGInv DEF ReadCache, At
    <2>2. CASE cache = Absent
      <3> DEFINE rec == [request[r] EXCEPT !.at = "ask"]
      <3>1. Set(r, rec) /\ UNCHANGED <<cache, damaged>> /\ ~At(r, "writing")
        BY <1>2, <2>2 DEF ReadCache, At
      <3>2. rec \in GisCall /\ rec.at = "ask" /\ rec.since = request[r].since
        BY <1>1 DEF GisCall
      <3> HIDE DEF rec
      <3> QED
        BY <1>1, <3>1, <3>2, QuietKeepsGInv
    <2> QED
      BY <2>1, <2>2
  <1>3. CASE FinishRead(r)
    <2>1. PICK body \in {cache} \cup (IF request[r].doubtful THEN {Part, Mixed} ELSE {}) :
             Set(r, [request[r] EXCEPT !.at = "answered", !.body = body])
      BY <1>3 DEF FinishRead
    <2> DEFINE rec == [request[r] EXCEPT !.at = "answered", !.body = body]
    <2>2. Set(r, rec) /\ UNCHANGED <<cache, damaged>> /\ ~At(r, "writing") /\ At(r, "reading")
      BY <1>3, <2>1 DEF FinishRead, At
    <2>3. body \in Bodies /\ (request[r].doubtful \/ body \in Versions)
      BY <1>1, <2>1, <2>2 DEF Bodies
    <2>4. /\ rec \in GisCall /\ rec.at = "answered" /\ rec.since = request[r].since
          /\ rec.body = body /\ rec.doubtful = request[r].doubtful
      BY <1>1, <2>3 DEF GisCall
    <2> HIDE DEF rec
    <2> QED
      BY <1>1, <2>2, <2>3, <2>4, QuietKeepsGInv
  <1>4. CASE CannotRead(r)
    <2>1. CASE request[r].since
      <3> DEFINE rec == [request[r] EXCEPT !.at = "answered", !.body = Part, !.doubtful = TRUE]
      <3>1. Set(r, rec) /\ UNCHANGED <<cache, damaged>> /\ ~At(r, "writing")
        BY <1>4, <2>1 DEF CannotRead, At
      <3>2. /\ rec \in GisCall /\ rec.at = "answered" /\ rec.doubtful
            /\ rec.since = request[r].since
        BY <1>1 DEF GisCall, Bodies
      <3> HIDE DEF rec
      <3> QED
        BY <1>1, <3>1, <3>2, QuietKeepsGInv
    <2>2. CASE ~request[r].since
      <3> DEFINE rec == [request[r] EXCEPT !.at = "ask", !.doubtful = FALSE]
      <3>1. Set(r, rec) /\ UNCHANGED <<cache, damaged>> /\ ~At(r, "writing")
        BY <1>4, <2>2 DEF CannotRead, At
      <3>2. rec \in GisCall /\ rec.at = "ask" /\ rec.since = request[r].since
        BY <1>1 DEF GisCall
      <3> HIDE DEF rec
      <3> QED
        BY <1>1, <3>1, <3>2, QuietKeepsGInv
    <2> QED
      BY <2>1, <2>2
  <1>5. CASE Ask(r)
    <2> DEFINE rec == [request[r] EXCEPT !.at = "sent", !.since = cache # Absent]
    <2>1. Set(r, rec) /\ UNCHANGED <<cache, damaged>> /\ ~At(r, "writing")
      BY <1>5 DEF Ask, At
    <2>2. rec \in GisCall /\ rec.at = "sent" /\ rec.since = (cache # Absent)
      BY <1>1 DEF GisCall
    <2> HIDE DEF rec
    <2> QED
      BY <1>1, <2>1, <2>2, QuietKeepsGInv
  <1>6. CASE NotModified(r)
    BY <1>1, <1>6, OpenToReadKeepsGInv DEF NotModified, At
  <1>7. CASE Receive(r)
    <2>1. PICK body \in Versions \cup {ErrorPage, Part} :
             IF body \in Versions
             THEN /\ At(r, "sent")
                  /\ Set(r, [request[r] EXCEPT !.at = "received", !.body = body])
                  /\ UNCHANGED <<cache, damaged>>
             ELSE Retry(r)
      BY <1>7 DEF Receive
    <2>2. CASE body \in Versions
      <3> DEFINE rec == [request[r] EXCEPT !.at = "received", !.body = body]
      <3>1. Set(r, rec) /\ UNCHANGED <<cache, damaged>> /\ ~At(r, "writing")
        BY <2>1, <2>2 DEF At
      <3>2. /\ rec \in GisCall /\ rec.at = "received" /\ rec.since = request[r].since
            /\ rec.body \in Versions
        BY <1>1, <2>2 DEF GisCall, Bodies
      <3> HIDE DEF rec
      <3> QED
        BY <1>1, <3>1, <3>2, QuietKeepsGInv
    <2>3. CASE body \notin Versions
      <3>1. Retry(r)
        BY <2>1, <2>3
      <3>2. PICK to \in {"failed", "ask"} : Set(r, [request[r] EXCEPT !.at = to, !.tries = @ + 1])
        BY <3>1 DEF Retry
      <3> DEFINE rec == [request[r] EXCEPT !.at = to, !.tries = @ + 1]
      <3>3. Set(r, rec) /\ UNCHANGED <<cache, damaged>> /\ ~At(r, "writing")
        BY <3>1, <3>2 DEF Retry, At
      <3>4. rec \in GisCall /\ rec.at \in {"failed", "ask"} /\ rec.since = request[r].since
        BY <1>1 DEF GisCall
      <3> HIDE DEF rec
      <3> QED
        BY <1>1, <3>3, <3>4, QuietKeepsGInv
    <2> QED
      BY <2>2, <2>3
  <1> QED
    BY <1>2, <1>3, <1>4, <1>5, <1>6, <1>7

\* A call empties the file: whoever reads it is in doubt.
LEMMA OpenKeepsGInv ==
    ASSUME GInv, NEW r \in Requests, OpenCache(r)
    PROVE  GInv'
  <1> DEFINE rec(q) == [request[q] EXCEPT !.at = IF q = r THEN "writing" ELSE @,
                                          !.doubtful = @ \/ At(q, "reading")]
  <1>1. At(r, "received") /\ cache' = Part /\ damaged' = (Writing # {})
    BY DEF OpenCache
  <1>2. \A q \in Requests :
           /\ rec(q) \in GisCall /\ rec(q).body = request[q].body
           /\ rec(q).since = request[q].since
           /\ rec(q).doubtful = (request[q].doubtful \/ At(q, "reading"))
           /\ rec(q).at = IF q = r THEN "writing" ELSE request[q].at
    BY DEF GInv, GisTypes, GisCall
  <1>3. request' = [q \in Requests |-> rec(q)]
    BY DEF OpenCache
  <1> HIDE DEF rec
  <1>4. \A q \in Requests : request'[q] = rec(q)
    BY <1>3
  <1>5. GisTypes'
    BY <1>1, <1>2, <1>3 DEF GisTypes, Bodies
  <1>6. Writing' = Writing \cup {r}
    BY <1>2, <1>4 DEF Writing, At
  <1>7. CallsHoldBodies'
    BY <1>1, <1>2, <1>4, GisAssumption DEF GInv, CallsHoldBodies, At
  <1>8. FileIsWhole'
    <2>1. ~damaged' => Writing' = {r}
      BY <1>1, <1>6
    <2>2. \A q \in Requests : At(q, "reading")' => request'[q].doubtful
      BY <1>1, <1>2, <1>4 DEF At
    <2>3. Writing' # {}
      BY <1>6
    <2>4. ~damaged' => \A q, s \in Writing' : q = s
      BY <2>1
    <2>5. ~damaged' /\ Writing' = {} => cache' \in Versions \cup {Absent}
      BY <2>3
    <2>6. \A q \in Requests : At(q, "reading")' /\ ~request'[q].doubtful =>
             ~damaged' /\ Writing' = {} /\ cache' \in Versions
      BY <2>2
    <2> QED
      BY <2>4, <2>5, <2>6 DEF FileIsWhole
  <1> QED
    BY <1>5, <1>7, <1>8 DEF GInv

\* A write ends, well or not, or its call is killed.
LEMMA EndOfWriteKeepsGInv ==
    ASSUME GInv, NEW r \in Requests, At(r, "writing"),
           WriteCache(r) \/ CannotWrite(r) \/ Kill(r)
    PROVE  GInv'
  <1>1. /\ request[r] \in GisCall /\ request[r].body \in Versions
        /\ cache \in Bodies /\ damaged \in BOOLEAN /\ r \in Writing
    BY DEF GInv, GisTypes, CallsHoldBodies, Writing
  <1>2. PICK to \in {"answered", "killed"} : Set(r, [request[r] EXCEPT !.at = to])
    BY DEF WriteCache, CannotWrite, Kill
  <1> DEFINE rec == [request[r] EXCEPT !.at = to]
  <1>3. /\ rec \in GisCall /\ rec.at = to /\ rec.body = request[r].body
        /\ rec.since = request[r].since
    BY <1>1 DEF GisCall
  <1>4. Set(r, rec)
    BY <1>2
  <1> HIDE DEF rec
  <1>5. /\ request'[r] = rec
        /\ \A s \in Requests : s # r => request'[s] = request[s]
    BY <1>4, SetIsLocal DEF GInv
  <1>6. /\ cache' \in {cache, Mixed, request[r].body} /\ damaged' \in BOOLEAN
        /\ ~damaged' => ~damaged /\ cache' = request[r].body
    <2>1. CASE WriteCache(r)
      <3>1. damaged' = damaged /\ cache' \in {request[r].body, Mixed}
        BY <2>1 DEF WriteCache
      <3>2. ~damaged => cache' = request[r].body
        BY <2>1 DEF WriteCache
      <3> QED
        BY <1>1, <3>1, <3>2
    <2>2. CASE CannotWrite(r)
      BY <2>2 DEF CannotWrite, At
    <2>3. CASE Kill(r)
      <3>1. cache' = cache /\ damaged' \in BOOLEAN /\ damaged'
        BY <2>3 DEF Kill
      <3> QED
        BY <3>1
    <2> QED
      BY <2>1, <2>2, <2>3
  <1>7. GisTypes'
    BY <1>1, <1>3, <1>4, <1>6 DEF GInv, GisTypes, Set, Bodies
  <1>8. CallsHoldBodies'
    BY <1>1, <1>3, <1>5, <1>6, GisAssumption DEF GInv, CallsHoldBodies, At
  <1>9. Writing' \subseteq Writing
    BY <1>3, <1>5 DEF Writing, At
  <1>10. FileIsWhole'
    <2>1. \A q \in Requests : At(q, "reading")' /\ ~request'[q].doubtful => FALSE
      BY <1>1, <1>3, <1>5 DEF GInv, FileIsWhole, At
    <2>2. ~damaged' => cache' \in Versions /\ \A q, s \in Writing' : q = s
      BY <1>1, <1>6, <1>9 DEF GInv, GisTypes, FileIsWhole
    <2> QED
      BY <2>1, <2>2 DEF FileIsWhole
  <1> QED
    BY <1>7, <1>8, <1>10 DEF GInv

\* A call fails to open the file, or is killed before it writes.
LEMMA OtherEndsKeepGInv ==
    ASSUME GInv, NEW r \in Requests, ~At(r, "writing"), CannotWrite(r) \/ Kill(r)
    PROVE  GInv'
  <1>1. /\ request[r] \in GisCall /\ damaged \in BOOLEAN
        /\ request[r].since => cache # Absent
        /\ At(r, "received") => request[r].body \in Versions
    BY DEF GInv, GisTypes, CallsHoldBodies
  <1>2. PICK to \in {"answered", "killed"} :
           /\ Set(r, [request[r] EXCEPT !.at = to])
           /\ to = "answered" => At(r, "received")
    BY DEF CannotWrite, Kill
  <1> DEFINE rec == [request[r] EXCEPT !.at = to]
  <1>3. /\ rec \in GisCall /\ rec.at = to /\ rec.body = request[r].body
        /\ rec.since = request[r].since
    BY <1>1 DEF GisCall
  <1>4. Set(r, rec) /\ UNCHANGED <<cache, damaged>>
    BY <1>1, <1>2 DEF CannotWrite, Kill
  <1> HIDE DEF rec
  <1> QED
    BY <1>1, <1>2, <1>3, <1>4, QuietKeepsGInv

\* The inductive invariant holds, whatever fails, is killed or overlaps.
THEOREM GisInvariant == GisSpec => []GInv
  <1>1. GisInit => GInv
    <2> SUFFICES ASSUME GisInit PROVE GInv
      OBVIOUS
    <2>1. GisTypes
      BY DEF GisInit, GisTypes, GisCall, Bodies
    <2> QED
      BY <2>1 DEF GisInit, GInv, CallsHoldBodies, FileIsWhole, Writing, At
  <1>2. GInv /\ [GisNext]_gvars => GInv'
    <2> SUFFICES ASSUME GInv, [GisNext]_gvars PROVE GInv'
      OBVIOUS
    <2>1. CASE GisNext
      BY <2>1, QuietSteps, OpenKeepsGInv, EndOfWriteKeepsGInv, OtherEndsKeepGInv
      DEF GisNext, WriteCache
    <2>2. CASE UNCHANGED gvars
      BY <2>2 DEF gvars, GInv, GisTypes, CallsHoldBodies, FileIsWhole, Writing, At
    <2> QED
      BY <2>1, <2>2
  <1> QED
    BY <1>1, <1>2, PTL DEF GisSpec

\* What is kept and answered is a body the source sent whole, where no write
\* and no read is in the way.
THEOREM CacheIsWhole == GisSpec => []CacheHoldsAnAnswer
  <1>1. GInv => CacheHoldsAnAnswer
    BY DEF GInv, CallsHoldBodies, FileIsWhole, CacheHoldsAnAnswer
  <1> QED
    BY <1>1, GisInvariant, PTL

----------------------------------------------------------------------------
(* Queries: any rows, limits and clients *)

Kinds == {"transaction", "parcel"}

QueryTypes ==
    /\ imported \in SUBSET AllRows
    /\ \/ client = NoClient
       \/ /\ client.kind \in Kinds /\ client.limit \in Limits /\ client.offset \in Nat
          /\ client = [kind |-> client.kind, limit |-> client.limit, offset |-> client.offset,
                       seen |-> client.seen, start |-> client.start, done |-> client.done]
          /\ client.done \in BOOLEAN

\* What the client's queries find.
OfKind == {r \in imported : r.kind = client.kind}

\* Rows the order tells apart: all transactions, and parcels of which no land
\* number is stored twice.
Apart == client.kind = "parcel" =>
            \A r, s \in imported : r.kind = "parcel" /\ s.kind = "parcel" /\ r.rank = s.rank => r = s

Earlier(D, r) == {q \in D : Before(q, r)}

\* A row that is still to come has as many rows before it as the client has
\* skipped: it is on no page that was passed over.
NothingIsPassed ==
    client # NoClient =>
        /\ client.start \subseteq OfKind
        /\ Apart => \A r \in client.start :
              \/ r \in client.seen
              \/ ~client.done /\ Cardinality(Earlier(OfKind, r)) >= client.offset

\* The inductive invariant.
QInv == QueryTypes /\ NothingIsPassed

\* A sequence of all elements of a set, each once.
LEMMA SequenceOfAll ==
    ASSUME NEW D, IsFiniteSet(D), NEW s \in SetToSeqs(D)
    PROVE  /\ DOMAIN s = 1..Cardinality(D) /\ Cardinality(D) \in Nat
           /\ \A i \in DOMAIN s : s[i] \in D
           /\ \A i, j \in DOMAIN s : s[i] = s[j] => i = j
           /\ \A r \in D : \E i \in DOMAIN s : s[i] = r
  <1> DEFINE N == Cardinality(D)
  <1>1. N \in Nat
    BY FS_CardinalityType
  <1>2. s \in [1..N -> D] /\ \A i, j \in 1..N : i # j => s[i] # s[j]
    BY DEF SetToSeqs
  <1>3. IsFiniteSet(1..N) /\ Cardinality(1..N) = N
    BY <1>1, UpTo
  <1> HIDE DEF N
  <1>4. s \in Injection(1..N, D)
    BY <1>2 DEF Injection, IsInjective
  <1>5. s \in Surjection(1..N, D)
    BY <1>3, <1>4, FS_Injection DEF N
  <1>6. \A r \in D : \E i \in 1..N : s[i] = r
    BY <1>5 DEF Surjection
  <1> QED
    BY <1>1, <1>2, <1>6 DEF N

\* Where the order tells all rows apart a row stands behind the rows that
\* must come before it, and behind no other.
LEMMA PositionCounts ==
    ASSUME NEW D, IsFiniteSet(D), NEW s \in SetToSeqs(D),
           \A i, j \in DOMAIN s : Before(s[i], s[j]) => i < j,
           \A q, r \in D : Before(q, r) \/ Before(r, q) \/ q = r,
           NEW i \in DOMAIN s
    PROVE  Cardinality(Earlier(D, s[i])) = i - 1
  <1> DEFINE E == Earlier(D, s[i])
             f == [j \in 1..(i - 1) |-> s[j]]
  <1>1. /\ DOMAIN s = 1..Cardinality(D) /\ Cardinality(D) \in Nat
        /\ \A j \in DOMAIN s : s[j] \in D
        /\ \A j, k \in DOMAIN s : s[j] = s[k] => j = k
        /\ \A r \in D : \E j \in DOMAIN s : s[j] = r
    BY SequenceOfAll
  <1>2. i \in Nat /\ i - 1 \in Nat /\ \A j \in 1..(i - 1) : j \in DOMAIN s /\ j < i
    BY <1>1
  <1>3. ASSUME NEW j \in 1..(i - 1) PROVE s[j] \in E
    <2>1. s[j] \in D /\ s[i] \in D /\ ~(Before(s[i], s[j]))
      BY <1>1, <1>2
    <2>2. s[j] # s[i]
      BY <1>1, <1>2
    <2> QED
      BY <2>1, <2>2 DEF Earlier
  <1>4. ASSUME NEW q \in E PROVE \E j \in 1..(i - 1) : s[j] = q
    <2>1. q \in D /\ Before(q, s[i])
      BY DEF Earlier
    <2>2. PICK j \in DOMAIN s : s[j] = q
      BY <1>1, <2>1
    <2>3. j < i
      BY <2>1, <2>2
    <2> QED
      BY <1>1, <1>2, <2>2, <2>3
  <1> HIDE DEF E
  <1>5. /\ f \in [1..(i - 1) -> E]
        /\ \A j, k \in 1..(i - 1) : f[j] = f[k] => j = k
        /\ \A q \in E : \E j \in 1..(i - 1) : f[j] = q
    BY <1>1, <1>2, <1>3, <1>4
  <1> HIDE DEF f
  <1>6. ExistsBijection(1..(i - 1), E)
    BY <1>5, Fun_IsBij DEF ExistsBijection
  <1>7. IsFiniteSet(1..(i - 1)) /\ Cardinality(1..(i - 1)) = i - 1
    BY <1>2, UpTo
  <1>8. Cardinality(E) = i - 1
    BY <1>6, <1>7, FS_Bijection
  <1> QED
    BY <1>8 DEF E

\* A page has no more rows than were asked for, and none only when the rows
\* are at an end.
LEMMA PageSize ==
    ASSUME NEW D, IsFiniteSet(D), NEW s \in SetToSeqs(D), NEW o \in Nat, NEW l \in Nat \ {0},
           NEW page, page = {s[i] : i \in {n \in DOMAIN s : o < n /\ n <= o + l}}
    PROVE  /\ Cardinality(page) \in Nat /\ Cardinality(page) <= l
           /\ page = {} => \A i \in DOMAIN s : i <= o
  <1> DEFINE W == {n \in DOMAIN s : o < n /\ n <= o + l}
             f == [n \in W |-> s[n]]
  <1>1. /\ DOMAIN s = 1..Cardinality(D) /\ Cardinality(D) \in Nat
    BY SequenceOfAll
  <1>2. IsFiniteSet((o + 1)..(o + l)) /\ Cardinality((o + 1)..(o + l)) = l
    <2>1. o + 1 \in Int /\ o + l \in Int /\ ~(o + 1 > o + l) /\ (o + l) - (o + 1) + 1 = l
      OBVIOUS
    <2>2. /\ IsFiniteSet((o + 1)..(o + l))
          /\ Cardinality((o + 1)..(o + l)) =
                IF o + 1 > o + l THEN 0 ELSE (o + l) - (o + 1) + 1
      BY <2>1, FS_Interval
    <2> QED
      BY <2>1, <2>2
  <1>3. W \in SUBSET ((o + 1)..(o + l))
    BY <1>1
  <1>4. page = {s[i] : i \in W}
    OBVIOUS
  <1>5. page = {} => \A i \in DOMAIN s : i <= o
    <2> SUFFICES ASSUME page = {}, NEW i \in DOMAIN s, ~(i <= o) PROVE FALSE
      OBVIOUS
    <2>1. o + 1 \in W
      BY <1>1
    <2> QED
      BY <1>4, <2>1
  <1> HIDE DEF W
  <1>6. IsFiniteSet(W) /\ Cardinality(W) <= l
    BY <1>2, <1>3, FS_Subset
  <1>7. f \in Surjection(W, page)
    BY <1>4 DEF Surjection
  <1> HIDE DEF f
  <1>8. IsFiniteSet(page) /\ Cardinality(page) <= Cardinality(W)
    BY <1>6, <1>7, FS_Surjection
  <1>9. Cardinality(page) \in Nat /\ Cardinality(W) \in Nat
    BY <1>6, <1>8, FS_CardinalityType
  <1> QED
    BY <1>5, <1>6, <1>8, <1>9

\* What a query finds is finite, and the order tells its rows apart when it
\* should.
LEMMA FoundRows ==
    ASSUME QueryTypes, client.kind \in Kinds
    PROVE  /\ OfKind \subseteq AllRows /\ IsFiniteSet(OfKind)
           /\ \A r : IsFiniteSet(Earlier(OfKind, r)) /\ Cardinality(Earlier(OfKind, r)) \in Nat
           /\ Apart => \A q, r \in OfKind : Before(q, r) \/ Before(r, q) \/ q = r
  <1>1. OfKind \subseteq AllRows
    BY DEF QueryTypes, OfKind
  <1>2. IsFiniteSet(OfKind)
    BY <1>1, RowsAssumption, FS_Subset
  <1>3. ASSUME NEW r
        PROVE  IsFiniteSet(Earlier(OfKind, r)) /\ Cardinality(Earlier(OfKind, r)) \in Nat
    <2>1. Earlier(OfKind, r) \in SUBSET OfKind
      BY DEF Earlier
    <2>2. IsFiniteSet(Earlier(OfKind, r))
      BY <1>2, <2>1, FS_Subset
    <2> QED
      BY <2>2, FS_CardinalityType
  <1>4. ASSUME Apart, NEW q \in OfKind, NEW r \in OfKind, q # r
        PROVE  Before(q, r) \/ Before(r, q)
    <2>1. /\ q.kind = client.kind /\ r.kind = client.kind /\ q \in imported /\ r \in imported
          /\ q \in AllRows /\ r \in AllRows
      BY <1>1 DEF OfKind
    <2>2. q.id \in Nat /\ r.id \in Nat /\ q.rank \in Int /\ r.rank \in Int
      BY <2>1, RowsAssumption
    <2>3. CASE q.kind = "parcel"
      <3>1. q.rank # r.rank
        BY <1>4, <2>1, <2>3 DEF Apart
      <3> QED
        BY <2>2, <3>1 DEF Before
    <2>4. CASE q.kind = "transaction"
      <3>1. q.id # r.id
        BY <1>4, <2>1, RowsAssumption
      <3> QED
        BY <2>1, <2>2, <2>4, <3>1 DEF Before
    <2> QED
      BY <2>1, <2>3, <2>4 DEF Kinds
  <1> QED
    BY <1>1, <1>2, <1>3, <1>4

\* New rows put no row nearer to the front.
LEMMA ImportKeepsQInv == ASSUME QInv, NEW S \in SUBSET AllRows, Import(S) PROVE QInv'
  <1>1. QueryTypes'
    BY DEF QInv, QueryTypes, Import
  <1>2. client' = client /\ imported \subseteq imported'
    BY DEF Import
  <1>3. ASSUME client # NoClient
        PROVE  NothingIsPassed'
    <2>1. client.kind \in Kinds /\ client.offset \in Nat
      BY <1>3 DEF QInv, QueryTypes
    <2>2. OfKind \subseteq OfKind' /\ (Apart' => Apart)
      BY <1>2 DEF OfKind, Apart
    <2>3. ASSUME NEW r PROVE Cardinality(Earlier(OfKind, r)) <= Cardinality(Earlier(OfKind', r))
      <3>1. Earlier(OfKind, r) \in SUBSET Earlier(OfKind', r)
        BY <2>2 DEF Earlier
      <3>2. OfKind' \subseteq AllRows
        BY <1>1 DEF QueryTypes, OfKind
      <3>3. IsFiniteSet(Earlier(OfKind', r))
        <4>1. Earlier(OfKind', r) \in SUBSET AllRows
          BY <3>2 DEF Earlier
        <4> QED
          BY <4>1, RowsAssumption, FS_Subset
      <3> QED
        BY <3>1, <3>3, FS_Subset
    <2>4. \A r : /\ Cardinality(Earlier(OfKind, r)) \in Nat
                 /\ Cardinality(Earlier(OfKind', r)) \in Nat
      <3>1. \A r : Cardinality(Earlier(OfKind, r)) \in Nat
        BY <2>1, FoundRows DEF QInv
      <3>2. ASSUME NEW r PROVE Cardinality(Earlier(OfKind', r)) \in Nat
        <4>1. Earlier(OfKind', r) \in SUBSET AllRows
          BY <1>1 DEF QueryTypes, OfKind, Earlier
        <4>2. IsFiniteSet(Earlier(OfKind', r))
          BY <4>1, RowsAssumption, FS_Subset
        <4> QED
          BY <4>2, FS_CardinalityType
      <3> QED
        BY <3>1, <3>2
    <2>5. client.start \subseteq OfKind'
      BY <1>3, <2>2 DEF QInv, NothingIsPassed
    <2>6. ASSUME Apart', NEW r \in client.start, r \notin client.seen
          PROVE  ~client.done /\ Cardinality(Earlier(OfKind', r)) >= client.offset
      <3>1. ~client.done /\ Cardinality(Earlier(OfKind, r)) >= client.offset
        BY <1>3, <2>2, <2>6 DEF QInv, NothingIsPassed
      <3> QED
        BY <2>1, <2>3, <2>4, <3>1
    <2>7. /\ NothingIsPassed' =
                (client' # NoClient =>
                    /\ client'.start \subseteq OfKind'
                    /\ Apart' => \A r \in client'.start :
                          \/ r \in client'.seen
                          \/ ~client'.done /\ Cardinality(Earlier(OfKind', r)) >= client'.offset)
      BY DEF NothingIsPassed, Earlier, Before
    <2> QED
      BY <1>2, <2>5, <2>6, <2>7
  <1>4. client = NoClient => NothingIsPassed'
    BY <1>2 DEF NothingIsPassed, NoClient
  <1> QED
    BY <1>1, <1>3, <1>4 DEF QInv

\* Nothing is skipped yet.
LEMMA StartKeepsQInv ==
    ASSUME QInv, NEW kind \in Kinds, NEW limit \in Limits, StartReading(kind, limit)
    PROVE  QInv'
  <1>1. client' = [kind |-> kind, limit |-> limit, offset |-> 0, seen |-> {},
                   start |-> {r \in imported : r.kind = kind}, done |-> FALSE]
        /\ imported' = imported
    BY DEF StartReading
  <1>2. QueryTypes'
    BY <1>1 DEF QInv, QueryTypes
  <1>3. OfKind' = client'.start /\ client'.kind \in Kinds /\ client'.offset = 0 /\ ~client'.done
    BY <1>1 DEF OfKind
  <1>4. \A r : Cardinality(Earlier(OfKind', r)) >= client'.offset
    <2>1. OfKind' \subseteq AllRows
      BY <1>2 DEF QueryTypes, OfKind
    <2> SUFFICES ASSUME NEW r PROVE Cardinality(Earlier(OfKind', r)) >= 0
      BY <1>3
    <2>2. Earlier(OfKind', r) \in SUBSET AllRows
      BY <2>1 DEF Earlier
    <2>3. IsFiniteSet(Earlier(OfKind', r))
      BY <2>2, RowsAssumption, FS_Subset
    <2> QED
      BY <2>3, FS_CardinalityType
  <1>5. NothingIsPassed' =
           (client' # NoClient =>
               /\ client'.start \subseteq OfKind'
               /\ Apart' => \A r \in client'.start :
                     \/ r \in client'.seen
                     \/ ~client'.done /\ Cardinality(Earlier(OfKind', r)) >= client'.offset)
    BY DEF NothingIsPassed, Earlier, Before
  <1> QED
    BY <1>2, <1>3, <1>4, <1>5 DEF QInv

\* A row the client is still to get is on the page it gets or behind it.
LEMMA ReadKeepsQInv == ASSUME QInv, ReadPage PROVE QInv'
  <1> DEFINE l == Clamp(client.kind, client.limit)
  <1>1. client # NoClient /\ ~client.done
    BY DEF ReadPage, NoClient
  <1>2. /\ client.kind \in Kinds /\ client.limit \in Limits /\ client.offset \in Nat
        /\ client = [kind |-> client.kind, limit |-> client.limit, offset |-> client.offset,
                     seen |-> client.seen, start |-> client.start, done |-> client.done]
    BY <1>1 DEF QInv, QueryTypes
  <1>3. l \in Nat \ {0}
    BY <1>2, LimitsAssumption DEF Clamp, Kinds
  <1> HIDE DEF l
  <1>4. PICK page \in Pages(client.kind, client.offset, l) :
           /\ client' = [client EXCEPT !.seen = @ \cup page, !.offset = @ + Cardinality(page),
                                       !.done = page = {}]
           /\ imported' = imported
    BY DEF ReadPage, l
  <1>5. PICK s \in SetToSeqs(OfKind) :
           /\ \A i, j \in DOMAIN s : Before(s[i], s[j]) => i < j
           /\ page = {s[i] : i \in {n \in DOMAIN s : client.offset < n /\ n <= client.offset + l}}
    BY <1>4 DEF Pages, OfKind
  <1>6. /\ OfKind \subseteq AllRows /\ IsFiniteSet(OfKind)
        /\ \A r : Cardinality(Earlier(OfKind, r)) \in Nat
        /\ Apart => \A q, r \in OfKind : Before(q, r) \/ Before(r, q) \/ q = r
    BY <1>2, FoundRows DEF QInv
  <1>7. /\ Cardinality(page) \in Nat /\ Cardinality(page) <= l
        /\ page = {} => \A i \in DOMAIN s : i <= client.offset
    BY <1>2, <1>3, <1>5, <1>6, PageSize
  <1>8. /\ client'.kind = client.kind /\ client'.limit = client.limit
        /\ client'.offset = client.offset + Cardinality(page)
        /\ client'.seen = client.seen \cup page /\ client'.start = client.start
        /\ client'.done = (page = {})
        /\ client' = [kind |-> client'.kind, limit |-> client'.limit, offset |-> client'.offset,
                      seen |-> client'.seen, start |-> client'.start, done |-> client'.done]
    BY <1>2, <1>4
  <1>9. QueryTypes'
    <2>1. client'.offset \in Nat /\ client'.done \in BOOLEAN
      BY <1>2, <1>7, <1>8
    <2>2. imported' \in SUBSET AllRows
      BY <1>4 DEF QInv, QueryTypes
    <2> QED
      BY <1>2, <1>8, <2>1, <2>2 DEF QueryTypes
  <1>10. OfKind' = OfKind /\ Apart' = Apart
    BY <1>4, <1>8 DEF OfKind, Apart
  <1>11. ASSUME Apart, NEW r \in client.start, r \notin client'.seen
         PROVE  page # {} /\ Cardinality(Earlier(OfKind, r)) >= client'.offset
    <2>1. /\ r \in OfKind /\ r \notin client.seen /\ r \notin page
          /\ Cardinality(Earlier(OfKind, r)) >= client.offset
      BY <1>1, <1>8, <1>11 DEF QInv, NothingIsPassed
    <2>2. PICK i \in DOMAIN s : s[i] = r
      BY <1>6, <2>1, SequenceOfAll
    <2>3. i \in Nat
      BY <1>6, SequenceOfAll
    <2>4. Cardinality(Earlier(OfKind, r)) = i - 1
      BY <1>5, <1>6, <1>11, <2>2, PositionCounts
    <2>5. i > client.offset
      BY <1>2, <2>1, <2>3, <2>4
    <2>6. i > client.offset + l
      BY <1>2, <1>3, <1>5, <2>1, <2>2, <2>3, <2>5
    <2>7. page # {}
      BY <1>2, <1>7, <2>3, <2>5
    <2> QED
      BY <1>2, <1>3, <1>7, <1>8, <2>3, <2>4, <2>6, <2>7
  <1>12. client.start \subseteq OfKind
    BY <1>1 DEF QInv, NothingIsPassed
  <1>13. NothingIsPassed' =
           (client' # NoClient =>
               /\ client'.start \subseteq OfKind'
               /\ Apart' => \A r \in client'.start :
                     \/ r \in client'.seen
                     \/ ~client'.done /\ Cardinality(Earlier(OfKind', r)) >= client'.offset)
    BY DEF NothingIsPassed, Earlier, Before
  <1>14. NothingIsPassed'
    <2> HIDE DEF l
    <2> QED
      BY <1>8, <1>10, <1>11, <1>12, <1>13
  <1> QED
    BY <1>9, <1>14 DEF QInv

\* The inductive invariant holds.
THEOREM QueriesInvariant == QueriesSpec => []QInv
  <1>1. QueriesInit => QInv
    BY DEF QueriesInit, QInv, QueryTypes, NothingIsPassed
  <1>2. QInv /\ [QueriesNext]_qvars => QInv'
    <2> SUFFICES ASSUME QInv, [QueriesNext]_qvars PROVE QInv'
      OBVIOUS
    <2>1. CASE \E S \in SUBSET AllRows : Import(S)
      BY <2>1, ImportKeepsQInv
    <2>2. CASE \E limit \in Limits : StartReading("transaction", limit) \/ StartReading("parcel", limit)
      <3>1. "transaction" \in Kinds /\ "parcel" \in Kinds
        BY DEF Kinds
      <3> QED
        BY <2>2, <3>1, StartKeepsQInv
    <2>3. CASE ReadPage
      BY <2>3, ReadKeepsQInv
    <2>4. CASE UNCHANGED qvars
      BY <2>4 DEF qvars, QInv, QueryTypes, NothingIsPassed, OfKind, Apart, Earlier, Before
    <2> QED
      BY <2>1, <2>2, <2>3, <2>4 DEF QueriesNext
  <1> QED
    BY <1>1, <1>2, PTL DEF QueriesSpec

\* A client that pages to the end misses nothing.
THEOREM PagesMissNothing == QueriesSpec => []PagingMissesNothing
  <1>1. QInv => PagingMissesNothing
    <2>1. client = NoClient => client.start = {}
      BY DEF NoClient
    <2> QED
      BY <2>1 DEF QInv, NothingIsPassed, Apart, PagingMissesNothing
  <1> QED
    BY <1>1, QueriesInvariant, PTL

----------------------------------------------------------------------------
(* RawArchive: any callers, files and checksums *)

Stages == {"download", "lookup", "store", "rename", "insert", "relookup", "batch",
           "returned", "failed", "crashed"}

ArchiveTypes ==
    /\ at \in [Creators -> Stages]
    /\ {tmp, building, archive, snapshot} \subseteq [Creators -> Files \cup {NoFile}]
    /\ result \in [Creators -> Creators]

\* What a call has on disk and in the table at each stage.
DiskFollowsStage ==
    \A c \in Creators :
        /\ at[c] \in {"download", "lookup", "store"} =>
              building[c] = NoFile /\ archive[c] = NoFile /\ snapshot[c] = NoFile
        /\ at[c] = "relookup" =>
              /\ building[c] = NoFile /\ snapshot[c] = NoFile
              /\ archive[c] = NoFile \/ c \in kept
        /\ at[c] = "rename" =>
              building[c] = tmp[c] /\ archive[c] = NoFile /\ snapshot[c] = NoFile
        /\ at[c] = "insert" =>
              building[c] = NoFile /\ archive[c] = tmp[c] /\ snapshot[c] = NoFile
        /\ at[c] = "batch" =>
              building[c] = NoFile /\ archive[c] = tmp[c] /\ snapshot[c] = tmp[c]

\* Past the download a call has the file it expected, and as long as it has
\* not returned its result is its own.
FileIsExpected ==
    \A c \in Creators :
        /\ at[c] \notin {"download", "failed", "crashed"} =>
              tmp[c] \in Files /\ Expected[c] \in {NoFile, tmp[c]}
        /\ at[c] # "returned" => result[c] = c
        /\ at[c] = "returned" => snapshot[result[c]] = tmp[c]

\* UNIQUE (source, source_version, file_sha256).
SnapshotsDiffer ==
    \A c, d \in Creators : snapshot[c] = snapshot[d] /\ snapshot[c] # NoFile => c = d

\* The inductive invariant.
AInv == /\ ArchiveTypes /\ DiskFollowsStage /\ FileIsExpected /\ SnapshotsDiffer
        /\ ArchivesMatchSnapshots

USE ArchiveAssumption

\* The initial states.
LEMMA InitAInv == ArchiveInit => AInv
  BY DEF ArchiveInit, AInv, ArchiveTypes, Stages, DiskFollowsStage, FileIsExpected,
         SnapshotsDiffer, ArchivesMatchSnapshots

\* The steps before the row is inserted, and the last one, leave all
\* snapshots as they are.
LEMMA OtherStepsKeepAInv ==
    ASSUME AInv, NEW c \in Creators,
           \/ \E f \in Files : Download(c, f)
           \/ DownloadFails(c) \/ Lookup(c) \/ Build(c) \/ Rename(c) \/ Duplicate(c)
           \/ \E d \in Creators : ReturnExisting(c, d)
           \/ RelookupFails(c) \/ StoreFails(c) \/ CreateBatch(c) \/ Fail(c) \/ Crash(c)
    PROVE  AInv'
  <1> USE DEF AInv, ArchiveTypes, Stages, DiskFollowsStage, FileIsExpected,
              SnapshotsDiffer, ArchivesMatchSnapshots, Step, Found
  <1>1. ASSUME NEW f \in Files, Download(c, f) PROVE AInv'
    BY <1>1 DEF Download
  <1>2. CASE DownloadFails(c)
    BY <1>2 DEF DownloadFails
  <1>3. CASE Lookup(c)
    BY <1>3 DEF Lookup
  <1>4. CASE Build(c)
    BY <1>4 DEF Build
  <1>5. CASE Rename(c)
    BY <1>5 DEF Rename
  <1>6. CASE Duplicate(c)
    BY <1>6 DEF Duplicate, RemoveArchive
  <1>7. ASSUME NEW d \in Creators, ReturnExisting(c, d) PROVE AInv'
    BY <1>7 DEF ReturnExisting
  <1>8. CASE CreateBatch(c)
    BY <1>8 DEF CreateBatch
  <1>9. CASE Fail(c)
    BY <1>9 DEF Fail
  <1>10. CASE Crash(c)
    BY <1>10 DEF Crash
  <1>11. CASE RelookupFails(c)
    BY <1>11 DEF RelookupFails, RemoveArchive
  <1>12. CASE StoreFails(c)
    BY <1>12 DEF StoreFails
  <1> QED
    BY <1>1, <1>2, <1>3, <1>4, <1>5, <1>6, <1>7, <1>8, <1>9, <1>10, <1>11, <1>12

\* An INSERT that is applied adds the only row of its file.
LEMMA InsertKeepsAInv ==
    ASSUME AInv, NEW c \in Creators,
           Insert(c) \/ \E applied \in BOOLEAN : InsertFails(c, applied)
    PROVE  AInv'
  <1> USE DEF AInv, ArchiveTypes, Stages, DiskFollowsStage, FileIsExpected,
              SnapshotsDiffer, ArchivesMatchSnapshots, Step
  <1>1. Found(c) = {} => \A d \in Creators : snapshot[d] # tmp[c]
    BY DEF Found
  <1>2. CASE Insert(c)
    BY <1>1, <1>2 DEF Insert
  <1>3. CASE InsertFails(c, TRUE)
    BY <1>1, <1>3 DEF InsertFails, RemoveArchive
  <1>4. CASE InsertFails(c, FALSE)
    BY <1>4 DEF InsertFails, RemoveArchive
  <1> QED
    BY <1>2, <1>3, <1>4

\* The strengthened invariant holds in every reachable state.
THEOREM ArchiveInvariant == ArchiveSpec => []AInv
  <1>1. AInv /\ [ArchiveNext]_avars => AInv'
    <2> SUFFICES ASSUME AInv, [ArchiveNext]_avars PROVE AInv'
      OBVIOUS
    <2>1. CASE ArchiveNext
      BY <2>1, OtherStepsKeepAInv, InsertKeepsAInv DEF ArchiveNext
    <2>2. CASE UNCHANGED avars
      BY <2>2 DEF avars, AInv, ArchiveTypes, DiskFollowsStage, FileIsExpected,
                  SnapshotsDiffer, ArchivesMatchSnapshots
    <2> QED
      BY <2>1, <2>2
  <1> QED
    BY <1>1, InitAInv, PTL DEF ArchiveSpec

\* The raw file of every snapshot is in the archive, and only a crash or a
\* RemoveAll that failed leaves an archive without a snapshot.
THEOREM ArchivesMatch == ArchiveSpec => []ArchivesMatchSnapshots
  <1>1. AInv => ArchivesMatchSnapshots
    BY DEF AInv
  <1> QED
    BY <1>1, ArchiveInvariant, PTL

\* Calls for one file return one snapshot, of the file they expected.
THEOREM OneSnapshot == ArchiveSpec => []OneSnapshotPerFile
  <1>1. AInv => OneSnapshotPerFile
    BY DEF AInv, ArchiveTypes, FileIsExpected, SnapshotsDiffer, OneSnapshotPerFile
  <1> QED
    BY <1>1, ArchiveInvariant, PTL

----------------------------------------------------------------------------
(* ValuationStore: any calls, transactions and snapshots *)

\* What the variables hold.
StoreTypes ==
    /\ stored \in SUBSET Txns /\ deleting \in Txns \cup {Nothing}
    /\ stage \in [Calls -> {"idle", "comparables", "done", "failed"}]
    /\ next \in [Calls -> Nat \ {0}]
    /\ valuations \in SUBSET Calls
    /\ \A p \in comparables : p \in Calls \X (Nat \ {0}) /\ p[2] <= Len(Ids[p[1]])
    /\ reader \in [of : Calls \cup {Nothing}, next : Nat, found : BOOLEAN, failed : BOOLEAN,
                   status : {"none", "AVAILABLE", "DATA_NOT_AVAILABLE"}]

\* A row of a published snapshot is there with its LOCKED snapshot, so that
\* no DELETE passes the trigger for it.
LockedWhenStored ==
    /\ \A t \in stored : SnapshotOf[t] \in Published => SnapshotOf[t] \in locked
    /\ deleting # Nothing => SnapshotOf[deleting] \notin Published

\* A committed valuation's call is over, and nobody else has or is about to
\* have its hash.
HashesApart ==
    /\ \A c \in valuations : stage[c] \in {"done", "failed"}
    /\ \A c \in valuations \cup Open : \A d \in valuations \cup Open :
          HashOf[c] = HashOf[d] => c = d

\* Comparables of a PersistValuation are there with its valuation.
TogetherOrNot ==
    \A c \in Calls : KindOf[c] = "persist" =>
        /\ \A p \in comparables : p[1] = c => c \in valuations
        /\ c \in valuations => \A i \in 1..Len(Ids[c]) : <<c, i>> \in comparables

\* What is referred to is stored, and what an open transaction refers to is
\* not being deleted either.
ReferencesHold ==
    /\ \A c \in Calls : stage[c] = "idle" => next[c] = 1
    /\ \A p \in comparables : Ids[p[1]][p[2]] \in stored
    /\ \A c \in Open : \A i \in 1..(next[c] - 1) :
          i <= Len(Ids[c]) => Ids[c][i] \in stored /\ Ids[c][i] # deleting

\* What is read is a valuation that is there, from its first comparable on.
ReaderFollows ==
    reader.of # Nothing => reader.of \in valuations /\ reader.next > 0

\* A reader of a persisted valuation whose queries succeed finds every row.
OnlyFailuresHide ==
    reader.status = "DATA_NOT_AVAILABLE" => KindOf[reader.of] # "persist" \/ reader.failed

\* The inductive invariant.
VInv == /\ StoreTypes /\ LockedWhenStored /\ HashesApart /\ TogetherOrNot
        /\ ReferencesHold /\ ReaderFollows
        /\ PublishedRowsStay /\ OnlyFailuresHide

USE StoreAssumption

\* The initial states.
LEMMA InitVInv == StoreInit => VInv
  BY DEF StoreInit, VInv, StoreTypes, LockedWhenStored, HashesApart, TogetherOrNot,
         ReferencesHold, ReaderFollows, PublishedRowsStay, OnlyFailuresHide, NoReader, Open

\* Imports and inserts add rows.
LEMMA RowsKeepVInv ==
    ASSUME VInv, NEW s, NEW t \in Txns, Publish(s) \/ LockSnapshot(s) \/ InsertTxn(t)
    PROVE  VInv'
  <1>1. /\ stored \subseteq stored' /\ stored' \in SUBSET Txns /\ locked \subseteq locked'
        /\ UNCHANGED <<deleting, stage, next, valuations, comparables, reader>>
    BY DEF Publish, LockSnapshot, InsertTxn, RowsOf, VInv, StoreTypes
  <1>2. LockedWhenStored' /\ PublishedRowsStay'
    BY <1>1 DEF Publish, LockSnapshot, InsertTxn, RowsOf, VInv, LockedWhenStored, PublishedRowsStay
  <1>3. (StoreTypes /\ HashesApart /\ TogetherOrNot /\ ReaderFollows /\ OnlyFailuresHide)'
    BY <1>1 DEF VInv, StoreTypes, HashesApart, TogetherOrNot, ReaderFollows, Open,
                OnlyFailuresHide
  <1>4. ReferencesHold'
    BY <1>1 DEF VInv, ReferencesHold, Open
  <1> QED
    BY <1>2, <1>3, <1>4 DEF VInv

\* A DELETE passes the trigger for a row that nothing open refers to, and its
\* row goes if nothing committed does.
LEMMA DeletesKeepVInv ==
    ASSUME VInv, NEW t \in Txns, DeleteTxn(t) \/ FinishDelete
    PROVE  VInv'
  <1>1. /\ UNCHANGED <<locked, stage, next, valuations, comparables, reader>>
        /\ stored' \in SUBSET Txns /\ deleting' \in Txns \cup {Nothing}
    BY DEF DeleteTxn, FinishDelete, VInv, StoreTypes
  <1>2. LockedWhenStored' /\ PublishedRowsStay'
    BY <1>1 DEF DeleteTxn, FinishDelete, RowsOf, VInv, StoreTypes, LockedWhenStored,
                PublishedRowsStay
  <1>3. (StoreTypes /\ HashesApart /\ TogetherOrNot /\ ReaderFollows /\ OnlyFailuresHide)'
    BY <1>1 DEF VInv, StoreTypes, HashesApart, TogetherOrNot, ReaderFollows, Open,
                OnlyFailuresHide
  <1>4. ReferencesHold'
    <2>1. CASE DeleteTxn(t)
      <3>1. stored' = stored /\ deleting' = t /\ t \notin Held
        BY <2>1 DEF DeleteTxn
      <3>2. ASSUME NEW c \in Open, NEW i \in 1..(next[c] - 1) PROVE Ids[c][i] # t
        BY <3>1, <3>2 DEF Held
      <3> QED
        BY <1>1, <3>1, <3>2 DEF VInv, ReferencesHold, Open
    <2>2. CASE FinishDelete
      <3>1. /\ deleting' = Nothing /\ \A x \in stored : x # deleting => x \in stored'
            /\ deleting \in Referred => stored' = stored
        BY <2>2 DEF FinishDelete
      <3>2. \A p \in comparables : Ids[p[1]][p[2]] \in stored'
        BY <3>1 DEF VInv, ReferencesHold, Referred
      <3>3. ASSUME NEW c \in Open, NEW i \in 1..(next[c] - 1), i <= Len(Ids[c])
            PROVE  Ids[c][i] \in stored' /\ Ids[c][i] # Nothing
        BY <3>1, <3>3 DEF VInv, StoreTypes, ReferencesHold
      <3> QED
        BY <1>1, <3>1, <3>2, <3>3 DEF VInv, ReferencesHold, Open
    <2> QED
      BY <2>1, <2>2
  <1> QED
    BY <1>2, <1>3, <1>4 DEF VInv

\* A valuation is inserted when no other call has or holds its hash.
LEMMA InsertValuationKeepsVInv ==
    ASSUME VInv, NEW c \in Calls, InsertValuation(c)
    PROVE  VInv'
  <1>1. /\ UNCHANGED <<stored, locked, deleting, next, comparables, reader>>
        /\ stage[c] = "idle" /\ KindOf[c] # "batch"
    BY DEF InsertValuation
  <1>2. StoreTypes'
    BY <1>1 DEF InsertValuation, Goto, VInv, StoreTypes
  <1>3. c \notin valuations /\ c \notin Open
    BY <1>1 DEF VInv, HashesApart, Open
  <1>4. \A d \in Calls : d # c => (d \in Open' <=> d \in Open) /\ stage'[d] = stage[d]
    BY <1>1 DEF InsertValuation, Goto, Open, VInv, StoreTypes
  <1>5. /\ valuations \subseteq valuations' /\ valuations' \subseteq valuations \cup {c}
        /\ c \in valuations' => KindOf[c] = "insert" /\ stage'[c] = "done" /\ c \notin Open'
        /\ c \in valuations' \cup Open' => ~HashHeld(c) /\ ~HashTaken(c)
    BY <1>1, <1>3 DEF InsertValuation, Goto, Accepted, Open, VInv, StoreTypes
  <1>6. HashesApart'
    <2>1. ASSUME NEW d \in valuations' PROVE stage'[d] \in {"done", "failed"}
      <3>1. d = c => stage'[d] = "done"
        BY <2>1, <1>5
      <3>2. d # c => d \in valuations /\ d \in Calls
        BY <2>1, <1>2, <1>5 DEF StoreTypes
      <3> QED
        BY <3>1, <3>2, <1>4 DEF VInv, HashesApart
    <2>2. \A d \in valuations' \cup Open' : d # c => d \in valuations \cup Open
      BY <1>4, <1>5 DEF Open
    <2>3. c \in valuations' \cup Open' => \A d \in valuations \cup Open : HashOf[d] # HashOf[c]
      BY <1>5 DEF HashHeld, HashTaken
    <2>4. \A d, f \in valuations' \cup Open' : HashOf[d] = HashOf[f] => d = f
      BY <2>2, <2>3 DEF VInv, HashesApart
    <2> QED
      BY <2>1, <2>4 DEF HashesApart
  <1>7. TogetherOrNot'
    <2>1. \A d \in Calls : KindOf[d] = "persist" => (d \in valuations' <=> d \in valuations)
      BY <1>5
    <2> QED
      BY <1>1, <2>1 DEF VInv, TogetherOrNot
  <1>8. ReferencesHold'
    <2>1. next[c] = 1
      BY <1>1 DEF VInv, ReferencesHold
    <2>2. \A d \in Calls : stage'[d] = "idle" => next[d] = 1
      BY <2>1, <1>4 DEF VInv, ReferencesHold
    <2>3. ASSUME NEW d \in Open', NEW i \in 1..(next[d] - 1), i <= Len(Ids[d])
          PROVE  Ids[d][i] \in stored /\ Ids[d][i] # deleting
      <3>1. d \in Calls /\ d # c /\ d \in Open
        BY <2>1, <2>3, <1>4 DEF Open
      <3> QED
        BY <3>1, <2>3 DEF VInv, ReferencesHold
    <2> QED
      BY <1>1, <2>2, <2>3 DEF VInv, ReferencesHold
  <1>9. (LockedWhenStored /\ ReaderFollows /\ PublishedRowsStay /\ OnlyFailuresHide)'
    BY <1>1, <1>5 DEF VInv, LockedWhenStored, ReaderFollows, PublishedRowsStay,
                      OnlyFailuresHide, RowsOf
  <1> QED
    BY <1>2, <1>6, <1>7, <1>8, <1>9 DEF VInv

\* A batch starts, or a call is interrupted.
LEMMA StagesKeepVInv ==
    ASSUME VInv, NEW c \in Calls, StartBatch(c) \/ Interrupt(c)
    PROVE  VInv'
  <1>1. /\ UNCHANGED <<stored, locked, deleting, next, valuations, comparables, reader>>
        /\ stage[c] \in {"idle", "comparables"} /\ Open' \subseteq Open
        /\ stage'[c] # "idle" /\ \A d \in Calls : d # c => stage'[d] = stage[d]
    BY DEF StartBatch, Interrupt, Goto, Open, VInv, StoreTypes
  <1>2. StoreTypes'
    BY <1>1 DEF StartBatch, Interrupt, Goto, VInv, StoreTypes
  <1>3. c \notin valuations
    BY <1>1 DEF VInv, HashesApart
  <1>4. HashesApart'
    BY <1>1, <1>2, <1>3 DEF VInv, HashesApart, StoreTypes
  <1>5. TogetherOrNot' /\ LockedWhenStored' /\ PublishedRowsStay' /\ OnlyFailuresHide'
    BY <1>1 DEF VInv, TogetherOrNot, LockedWhenStored, PublishedRowsStay, OnlyFailuresHide,
                RowsOf
  <1>6. ReferencesHold' /\ ReaderFollows'
    BY <1>1 DEF VInv, ReferencesHold, ReaderFollows
  <1> QED
    BY <1>2, <1>4, <1>5, <1>6 DEF VInv

\* A comparable is inserted when its transaction is stored and not being
\* deleted.
LEMMA InsertComparableKeepsVInv ==
    ASSUME VInv, NEW c \in Calls, InsertComparable(c)
    PROVE  VInv'
  <1>1. /\ UNCHANGED <<stored, locked, deleting, valuations, reader>>
        /\ stage[c] = "comparables" /\ next[c] \in Nat \ {0} /\ next[c] <= Len(Ids[c])
        /\ Ids[c][next[c]] # deleting
    BY DEF InsertComparable, VInv, StoreTypes
  <1>2. CASE Ids[c][next[c]] \notin stored
    <2>1. /\ UNCHANGED <<next, comparables>>
          /\ stage' = [stage EXCEPT ![c] = "failed"]
      BY <1>2 DEF InsertComparable, Goto
    <2>2. StoreTypes' /\ c \notin valuations /\ Open' \subseteq Open
      BY <1>1, <2>1 DEF VInv, StoreTypes, HashesApart, Open
    <2>3. HashesApart'
      BY <1>1, <2>1, <2>2 DEF VInv, HashesApart, StoreTypes
    <2>4. TogetherOrNot' /\ LockedWhenStored' /\ PublishedRowsStay' /\ OnlyFailuresHide'
      BY <1>1, <2>1 DEF VInv, TogetherOrNot, LockedWhenStored, PublishedRowsStay,
                        OnlyFailuresHide, RowsOf
    <2>5. ReferencesHold' /\ ReaderFollows'
      BY <1>1, <2>1, <2>2 DEF VInv, StoreTypes, ReferencesHold, ReaderFollows
    <2> QED
      BY <2>2, <2>3, <2>4, <2>5 DEF VInv
  <1>3. CASE Ids[c][next[c]] \in stored
    <2>1. /\ stage' = stage /\ Open' = Open
          /\ next' = [next EXCEPT ![c] = next[c] + 1]
          /\ comparables' = IF KindOf[c] = "batch" THEN comparables \cup {<<c, next[c]>>}
                            ELSE comparables
      BY <1>3 DEF InsertComparable, Open
    <2>2. StoreTypes'
      BY <1>1, <2>1 DEF VInv, StoreTypes
    <2>3. HashesApart' /\ LockedWhenStored' /\ PublishedRowsStay' /\ OnlyFailuresHide'
      BY <1>1, <2>1 DEF VInv, HashesApart, LockedWhenStored, PublishedRowsStay,
                        OnlyFailuresHide, RowsOf
    <2>4. TogetherOrNot' /\ ReaderFollows'
      BY <1>1, <2>1 DEF VInv, TogetherOrNot, ReaderFollows
    <2>5. ReferencesHold'
      <3>1. \A p \in comparables' : Ids[p[1]][p[2]] \in stored
        BY <1>3, <2>1 DEF VInv, ReferencesHold
      <3>2. ASSUME NEW d \in Open, NEW i \in 1..(next'[d] - 1), i <= Len(Ids[d])
            PROVE  Ids[d][i] \in stored /\ Ids[d][i] # deleting
        <4>1. CASE d = c /\ i = next[c]
          BY <1>1, <1>3, <4>1
        <4>2. CASE ~(d = c /\ i = next[c])
          <5>1. d \in Calls /\ i \in 1..(next[d] - 1)
            BY <1>1, <2>1, <3>2, <4>2 DEF VInv, StoreTypes, Open
          <5> QED
            BY <3>2, <5>1 DEF VInv, ReferencesHold
        <4> QED
          BY <4>1, <4>2
      <3>3. \A d \in Calls : stage[d] = "idle" => next'[d] = 1
        BY <1>1, <2>1 DEF VInv, StoreTypes, ReferencesHold
      <3> QED
        BY <1>1, <2>1, <3>1, <3>2, <3>3 DEF ReferencesHold
    <2> QED
      BY <2>2, <2>3, <2>4, <2>5 DEF VInv
  <1> QED
    BY <1>2, <1>3

\* COMMIT: the valuation and all its comparables, which refer to what is
\* stored and stays.
LEMMA FinishKeepsVInv ==
    ASSUME VInv, NEW c \in Calls, Finish(c)
    PROVE  VInv'
  <1>1. /\ UNCHANGED <<stored, locked, deleting, next, reader>>
        /\ stage[c] = "comparables" /\ next[c] > Len(Ids[c])
        /\ stage' \in [Calls -> {"idle", "comparables", "done", "failed"}]
        /\ stage'[c] \in {"done", "failed"}
        /\ \A d \in Calls : d # c => stage'[d] = stage[d]
    <2>1. stage' = [stage EXCEPT ![c] = "done"] \/ stage' = [stage EXCEPT ![c] = "failed"]
      BY DEF Finish, Goto
    <2>2. /\ UNCHANGED <<stored, locked, deleting, next, reader>>
          /\ stage[c] = "comparables" /\ next[c] > Len(Ids[c])
      BY DEF Finish
    <2>3. stage \in [Calls -> {"idle", "comparables", "done", "failed"}]
      BY DEF VInv, StoreTypes
    <2> QED
      BY <2>1, <2>2, <2>3
  <1>2. Open' \subseteq Open /\ c \notin Open' /\ c \notin valuations
    BY <1>1 DEF Open, VInv, HashesApart
  <1>3. Ids[c] \in Seq(Txns) /\ Len(Ids[c]) \in Nat /\ DOMAIN Ids[c] = 1..Len(Ids[c])
    OBVIOUS
  <1>4. CASE KindOf[c] = "persist"
    <2>1. /\ valuations' = valuations \cup {c} /\ c \in Open
          /\ comparables' = comparables \cup {<<c, i>> : i \in 1..Len(Ids[c])}
      BY <1>1, <1>3, <1>4 DEF Finish, Open
    <2>2. \A p \in comparables' : p \in comparables
                                  \/ \E i \in 1..Len(Ids[c]) : p = <<c, i>>
      BY <2>1
    <2>3. StoreTypes'
      <3>1. \A p \in comparables' : p \in Calls \X (Nat \ {0}) /\ p[2] <= Len(Ids[p[1]])
        BY <1>3, <2>2 DEF VInv, StoreTypes
      <3> QED
        BY <1>1, <2>1, <3>1 DEF VInv, StoreTypes
    <2>4. HashesApart'
      <3>1. \A d \in valuations' : stage'[d] \in {"done", "failed"}
        BY <1>1, <2>1 DEF VInv, StoreTypes, HashesApart
      <3>2. valuations' \cup Open' \subseteq valuations \cup Open
        BY <1>2, <2>1
      <3> QED
        BY <3>1, <3>2 DEF VInv, HashesApart
    <2>5. TogetherOrNot'
      BY <1>2, <2>1, <2>2 DEF VInv, TogetherOrNot
    <2>6. ReferencesHold'
      <3>1. ASSUME NEW i \in 1..Len(Ids[c]) PROVE Ids[c][i] \in stored
        <4>1. next[c] \in Nat /\ Len(Ids[c]) \in Nat
          BY <1>3 DEF VInv, StoreTypes
        <4>2. i \in 1..(next[c] - 1) /\ i <= Len(Ids[c])
          BY <1>1, <4>1
        <4> QED
          BY <2>1, <4>2 DEF VInv, ReferencesHold
      <3>2. \A p \in comparables' : Ids[p[1]][p[2]] \in stored
        BY <2>2, <3>1 DEF VInv, ReferencesHold
      <3> QED
        BY <1>1, <1>2, <3>2 DEF VInv, ReferencesHold
    <2>7. (LockedWhenStored /\ PublishedRowsStay /\ OnlyFailuresHide /\ ReaderFollows)'
      BY <1>1, <2>1 DEF VInv, LockedWhenStored, PublishedRowsStay, OnlyFailuresHide,
                        ReaderFollows, RowsOf
    <2> QED
      BY <2>3, <2>4, <2>5, <2>6, <2>7 DEF VInv
  <1>5. CASE KindOf[c] # "persist"
    <2>1. UNCHANGED <<valuations, comparables>>
      BY <1>5 DEF Finish
    <2>2. StoreTypes'
      BY <1>1, <2>1 DEF VInv, StoreTypes
    <2>3. HashesApart'
      BY <1>1, <1>2, <2>1 DEF VInv, StoreTypes, HashesApart
    <2>4. (TogetherOrNot /\ LockedWhenStored /\ PublishedRowsStay /\ OnlyFailuresHide)'
      BY <1>1, <2>1 DEF VInv, TogetherOrNot, LockedWhenStored, PublishedRowsStay,
                        OnlyFailuresHide, RowsOf
    <2>5. ReferencesHold' /\ ReaderFollows'
      BY <1>1, <1>2, <2>1 DEF VInv, ReferencesHold, ReaderFollows
    <2> QED
      BY <2>2, <2>3, <2>4, <2>5 DEF VInv
  <1> QED
    BY <1>4, <1>5

\* A reader of a valuation finds the transactions of its comparables.
LEMMA ReaderKeepsVInv ==
    ASSUME VInv, \/ \E c \in Calls : ReadValuation(c)
                 \/ ReadTxn \/ ReadSnapshot \/ ReadFails \/ AllRead \/ CloseReader
    PROVE  VInv'
  <1>1. /\ UNCHANGED <<stored, locked, deleting, stage, next, valuations, comparables>>
        /\ Open' = Open
    BY DEF ReadValuation, ReadTxn, ReadSnapshot, ReadFails, AllRead, CloseReader, Open
  <1>2. (LockedWhenStored /\ HashesApart /\ TogetherOrNot /\ ReferencesHold /\ PublishedRowsStay)'
    BY <1>1 DEF VInv, LockedWhenStored, HashesApart, TogetherOrNot, ReferencesHold,
                PublishedRowsStay, RowsOf
  <1>3. StoreTypes' /\ ReaderFollows'
    <2> DEFINE Reader == [of : Calls \cup {Nothing}, next : Nat, found : BOOLEAN,
                          failed : BOOLEAN, status : {"none", "AVAILABLE", "DATA_NOT_AVAILABLE"}]
    <2>1. reader \in Reader /\ reader.next + 1 \in Nat
      BY DEF VInv, StoreTypes
    <2>2. CASE \E c \in Calls : ReadValuation(c)
      <3>1. PICK c \in valuations : reader' = [NoReader EXCEPT !.of = c, !.next = 1]
        BY <2>2 DEF ReadValuation
      <3>2. c \in Calls /\ [NoReader EXCEPT !.of = c, !.next = 1] \in Reader
        BY DEF NoReader, VInv, StoreTypes
      <3>3. reader' \in Reader /\ reader'.of = c /\ reader'.next = 1
        BY <3>1, <3>2 DEF NoReader
      <3> QED
        BY <1>1, <3>3 DEF VInv, StoreTypes, ReaderFollows
    <2>3. CASE ReadTxn \/ ReadFails \/ AllRead
      <3>1. /\ reader' \in Reader /\ reader'.of = reader.of /\ reader'.next = reader.next
        BY <2>1, <2>3 DEF ReadTxn, ReadFails, AllRead
      <3> QED
        BY <1>1, <3>1 DEF VInv, StoreTypes, ReaderFollows
    <2>4. CASE ReadSnapshot
      <3>1. /\ reader' \in Reader /\ reader'.of = reader.of /\ reader'.next = reader.next + 1
        BY <2>1, <2>4 DEF ReadSnapshot
      <3> QED
        BY <1>1, <2>1, <3>1 DEF VInv, StoreTypes, ReaderFollows
    <2>5. CASE CloseReader
      <3>1. reader' \in Reader /\ reader'.of = Nothing
        BY <2>5 DEF CloseReader, NoReader
      <3> QED
        BY <1>1, <3>1 DEF VInv, StoreTypes, ReaderFollows
    <2> QED
      BY <2>2, <2>3, <2>4, <2>5
  <1>4. CASE ReadTxn
    <2>1. /\ reader.of \in valuations /\ reader.next \in 1..Len(Ids[reader.of])
          /\ reader'.of = reader.of /\ reader.of \in Calls /\ reader.status = "none"
          /\ Ids[reader.of][reader.next] \in stored => reader'.status = "none"
      BY <1>4 DEF ReadTxn, Reading, VInv, StoreTypes, ReaderFollows
    <2>2. KindOf[reader.of] = "persist" => Ids[reader.of][reader.next] \in stored
      <3> DEFINE p == <<reader.of, reader.next>>
      <3>1. KindOf[reader.of] = "persist" => p \in comparables
        BY <2>1 DEF VInv, TogetherOrNot
      <3> QED
        BY <3>1 DEF VInv, ReferencesHold
    <2> QED
      BY <1>2, <1>3, <2>1, <2>2 DEF VInv, OnlyFailuresHide
  <1>5. CASE ~ReadTxn
    <2> DEFINE same == /\ reader'.of = reader.of /\ reader'.status = reader.status
                       /\ reader'.failed = reader.failed
    <2>1. reader \in [of : Calls \cup {Nothing}, next : Nat, found : BOOLEAN, failed : BOOLEAN,
                      status : {"none", "AVAILABLE", "DATA_NOT_AVAILABLE"}]
      BY DEF VInv, StoreTypes
    <2>2. reader'.status # "DATA_NOT_AVAILABLE" \/ reader'.failed \/ same
      <3>1. CASE \E c \in Calls : ReadValuation(c)
        BY <3>1 DEF ReadValuation, NoReader
      <3>2. CASE ReadSnapshot \/ ReadFails
        BY <2>1, <3>2 DEF ReadSnapshot, ReadFails
      <3>3. CASE AllRead \/ CloseReader
        BY <2>1, <3>3 DEF AllRead, CloseReader, NoReader
      <3> QED
        BY <1>5, <3>1, <3>2, <3>3
    <2>3. OnlyFailuresHide'
      BY <2>2 DEF VInv, OnlyFailuresHide
    <2> QED
      BY <1>2, <1>3, <2>3 DEF VInv
  <1> QED
    BY <1>4, <1>5

\* The strengthened invariant holds in every reachable state.
THEOREM StoreInvariant == StoreSpec => []VInv
  <1>1. VInv /\ [StoreNext]_vvars => VInv'
    <2> SUFFICES ASSUME VInv, [StoreNext]_vvars PROVE VInv'
      OBVIOUS
    <2>1. ASSUME NEW s, NEW t \in Txns, Publish(s) \/ LockSnapshot(s) PROVE VInv'
      BY <2>1, RowsKeepVInv
    <2>2. ASSUME NEW t \in Txns, InsertTxn(t) \/ DeleteTxn(t) PROVE VInv'
      BY <2>2, RowsKeepVInv, DeletesKeepVInv
    <2>3. ASSUME FinishDelete PROVE VInv'
      <3>1. deleting \in Txns
        BY <2>3 DEF FinishDelete, VInv, StoreTypes
      <3> QED
        BY <2>3, <3>1, DeletesKeepVInv
    <2>4. ASSUME NEW c \in Calls,
                 \/ InsertValuation(c) \/ StartBatch(c) \/ InsertComparable(c)
                 \/ Finish(c) \/ Interrupt(c) \/ ReadValuation(c)
          PROVE VInv'
      BY <2>4, InsertValuationKeepsVInv, StagesKeepVInv, InsertComparableKeepsVInv,
         FinishKeepsVInv, ReaderKeepsVInv
    <2>5. ASSUME ReadTxn \/ ReadSnapshot \/ ReadFails \/ AllRead \/ CloseReader PROVE VInv'
      BY <2>5, ReaderKeepsVInv
    <2>6. CASE UNCHANGED vvars
      BY <2>6 DEF vvars, VInv, StoreTypes, LockedWhenStored, HashesApart, TogetherOrNot,
                  ReferencesHold, ReaderFollows, PublishedRowsStay, OnlyFailuresHide,
                  Open, RowsOf
    <2> QED
      BY <2>1, <2>2, <2>3, <2>4, <2>5, <2>6 DEF StoreNext
  <1> QED
    BY <1>1, InitVInv, PTL DEF StoreSpec

\* A row that an import has published is there for good.
THEOREM PublishedStays == StoreSpec => []PublishedRowsStay
  <1>1. VInv => PublishedRowsStay
    BY DEF VInv
  <1> QED
    BY <1>1, StoreInvariant, PTL

\* The comparables of a valuation are there when it is, and never without it;
\* nobody shares its query hash.
THEOREM Whole == StoreSpec => []ValuationIsWhole
  <1>1. VInv => ValuationIsWhole
    <2> SUFFICES ASSUME VInv, NEW c \in Calls, KindOf[c] = "persist"
                 PROVE  /\ {p \in comparables : p[1] = c} =
                              IF c \in valuations THEN {c} \X DOMAIN Ids[c] ELSE {}
                        /\ c \in valuations =>
                              \A d \in valuations \ {c} : HashOf[d] # HashOf[c]
      BY DEF ValuationIsWhole
    <2>1. DOMAIN Ids[c] = 1..Len(Ids[c]) /\ Len(Ids[c]) \in Nat
      OBVIOUS
    <2>2. ASSUME NEW p \in comparables, p[1] = c PROVE p \in {c} \X (1..Len(Ids[c]))
      BY <2>2 DEF VInv, StoreTypes
    <2>3. c \in valuations => {c} \X (1..Len(Ids[c])) \subseteq comparables
      BY DEF VInv, TogetherOrNot
    <2>4. c \notin valuations => {p \in comparables : p[1] = c} = {}
      BY DEF VInv, TogetherOrNot
    <2>5. c \in valuations => {p \in comparables : p[1] = c} = {c} \X (1..Len(Ids[c]))
      BY <2>2, <2>3
    <2>6. c \in valuations => \A d \in valuations \ {c} : HashOf[d] # HashOf[c]
      BY DEF VInv, HashesApart
    <2> QED
      BY <2>1, <2>4, <2>5, <2>6
  <1> QED
    BY <1>1, StoreInvariant, PTL

\* What a persisted valuation rests on stays with it, and only a failing query
\* makes its provenance unavailable.
THEOREM ProvenanceStays == StoreSpec => []ProvenanceIsAvailable
  <1>1. VInv => ProvenanceIsAvailable
    <2> SUFFICES ASSUME VInv PROVE ProvenanceIsAvailable
      OBVIOUS
    <2>1. ASSUME NEW c \in valuations, KindOf[c] = "persist", NEW i \in DOMAIN Ids[c]
          PROVE  Ids[c][i] \in stored
      <3> DEFINE p == <<c, i>>
      <3>1. c \in Calls /\ i \in 1..Len(Ids[c])
        BY <2>1 DEF VInv, StoreTypes
      <3>2. p \in comparables
        BY <2>1, <3>1 DEF VInv, TogetherOrNot
      <3> QED
        BY <3>2 DEF VInv, ReferencesHold
    <2> QED
      BY <2>1 DEF VInv, OnlyFailuresHide, ProvenanceIsAvailable
  <1> QED
    BY <1>1, StoreInvariant, PTL

----------------------------------------------------------------------------
(* RoadAccess: any engines, parcels and roads *)

\* What an engine can have read, and what can be on record.
RoadTypes ==
    /\ created \in [Roads -> Nat] /\ now \in Nat
    /\ records \in [ParcelsAsked -> [by : Engines \cup {NoEngine}, road : Roads \cup {NoRoad},
                                     type : {"none", "ROAD_ADJACENT", "NO_ROAD_DETECTED"}]]
    /\ engines \in [Engines -> [parcel : Nat \ {0},
                                read : [road : Roads \cup {NoRoad},
                                        type : {"none", "ROAD_ADJACENT", "NO_ROAD_DETECTED"}]]]
    /\ answers \in SUBSET (Engines \X ParcelsAsked \X {"none", "ROAD_ADJACENT", "NO_ROAD_DETECTED"})

\* A record that is there has its engine.
RecordsHaveEngines == \A p \in ParcelsAsked : records[p] # NoRecord => records[p].by \in Engines

\* The inductive invariant.
RInv == RoadTypes /\ RecordsHaveEngines /\ AnswersAreRecorded

USE RoadAssumption

\* The parcel an engine is at is one it was asked for.
LEMMA CurrentIsAsked ==
    ASSUME RoadTypes, NEW e \in Engines, Busy(e)
    PROVE  Current(e) \in ParcelsAsked
  <1>1. engines[e].parcel \in 1..Len(Asked[e]) /\ Asked[e] \in Seq(ParcelsAsked)
    BY DEF RoadTypes, Busy
  <1> QED
    BY <1>1 DEF Current

\* The initial states.
LEMMA InitRInv == RoadInit => RInv
  BY DEF RoadInit, RInv, RoadTypes, RecordsHaveEngines, AnswersAreRecorded, NoRecord,
         NotRead, Stored

\* Batches of roads add to what is stored.
LEMMA InsertKeepsRInv == ASSUME RInv, NEW S \in SUBSET Roads, InsertRoads(S) PROVE RInv'
  BY DEF InsertRoads, RInv, RoadTypes, RecordsHaveEngines, AnswersAreRecorded, NoRecord, Stored

\* Taking the road out of a record leaves its other fields.
LEMMA WithoutRoad ==
    ASSUME NEW A, NEW R, NEW T, NEW x \in [by : A, road : R, type : T], NoRoad \in R
    PROVE  /\ [x EXCEPT !.road = NoRoad] \in [by : A, road : R, type : T]
           /\ [x EXCEPT !.road = NoRoad].by = x.by /\ [x EXCEPT !.road = NoRoad].type = x.type
           /\ [x EXCEPT !.road = NoRoad].road = NoRoad
  OBVIOUS

\* A road takes its name out of the records, and nothing else.
LEMMA DeleteRoadKeepsRInv == ASSUME RInv, NEW r \in Roads, DeleteRoad(r) PROVE RInv'
  <1> DEFINE T == {"none", "ROAD_ADJACENT", "NO_ROAD_DETECTED"}
             Record == [by : Engines \cup {NoEngine}, road : Roads \cup {NoRoad}, type : T]
             new(p) == IF records[p].road = r THEN [records[p] EXCEPT !.road = NoRoad]
                       ELSE records[p]
  <1>1. records \in [ParcelsAsked -> Record] /\ DOMAIN records = ParcelsAsked
    BY DEF RInv, RoadTypes
  <1>2. ASSUME NEW p \in ParcelsAsked
        PROVE  /\ new(p) \in Record /\ new(p).by = records[p].by
               /\ new(p).type = records[p].type /\ new(p).road # r
               /\ new(p).road \in {records[p].road, NoRoad}
    <2>1. records[p] \in Record
      BY <1>1
    <2>2. r # NoRoad
      OBVIOUS
    <2> HIDE DEF T
    <2> QED
      BY <2>1, <2>2, WithoutRoad
  <1>3. records' = [p \in ParcelsAsked |-> new(p)]
    BY <1>1 DEF DeleteRoad
  <1> HIDE DEF new
  <1>4. created' \in [Roads -> Nat] /\ Stored' = Stored \ {r}
    BY DEF DeleteRoad, RInv, RoadTypes, Stored
  <1>5. RoadTypes'
    BY <1>2, <1>3, <1>4 DEF DeleteRoad, RInv, RoadTypes
  <1>6. ASSUME NEW p \in ParcelsAsked
        PROVE  /\ records'[p].by = records[p].by /\ records'[p].type = records[p].type
               /\ records'[p].road # r /\ records'[p].road \in {records[p].road, NoRoad}
    BY <1>2, <1>3
  <1>7. RecordsHaveEngines'
    BY <1>6, <1>1, <1>5 DEF RInv, RoadTypes, RecordsHaveEngines, NoRecord
  <1>8. AnswersAreRecorded'
    <2>1. \A a \in answers : a[2] \in ParcelsAsked
      BY DEF RInv, RoadTypes
    <2>2. answers' = answers /\ removed' = removed /\ DOMAIN records' = ParcelsAsked
      BY <1>3 DEF DeleteRoad
    <2> QED
      BY <1>1, <1>4, <1>6, <2>1, <2>2 DEF RInv, AnswersAreRecorded
  <1> QED
    BY <1>5, <1>7, <1>8 DEF RInv

\* An engine reads, or goes on with the next parcel.
LEMMA EngineKeepsRInv ==
    ASSUME RInv, NEW e \in Engines, ReadRoads(e) \/ SkipParcel(e)
    PROVE  RInv'
  <1> USE DEF RInv, RoadTypes
  <1>1. UNCHANGED <<created, now, records, answers, removed>>
    BY DEF ReadRoads, SkipParcel
  <1>2. CASE ReadRoads(e)
    <2>1. PICK read \in IF Stored = {} THEN {[road |-> NoRoad, type |-> "NO_ROAD_DETECTED"]}
                       ELSE {[road |-> r, type |-> "ROAD_ADJACENT"] : r \in Best} :
             engines' = [engines EXCEPT ![e].read = read]
      BY <1>2 DEF ReadRoads
    <2>2. read \in [road : Roads \cup {NoRoad}, type : {"ROAD_ADJACENT", "NO_ROAD_DETECTED"}]
      BY <2>1 DEF Best, Stored
    <2> DEFINE new == [engines[e] EXCEPT !.read = read]
    <2>3. engines[e] \in [parcel : Nat \ {0},
                          read : [road : Roads \cup {NoRoad},
                                  type : {"none", "ROAD_ADJACENT", "NO_ROAD_DETECTED"}]]
      OBVIOUS
    <2>4. new \in [parcel : Nat \ {0},
                   read : [road : Roads \cup {NoRoad},
                           type : {"none", "ROAD_ADJACENT", "NO_ROAD_DETECTED"}]]
      BY <2>2, <2>3
    <2>5. engines' = [engines EXCEPT ![e] = new]
      BY <2>1
    <2> HIDE DEF new
    <2>6. RoadTypes'
      BY <1>1, <2>4, <2>5
    <2> QED
      BY <1>1, <2>6 DEF Stored, AnswersAreRecorded, RecordsHaveEngines
  <1>3. CASE SkipParcel(e)
    <2>1. RoadTypes'
      BY <1>1, <1>3 DEF SkipParcel, Following, NotRead
    <2> QED
      BY <1>1, <2>1 DEF Stored, AnswersAreRecorded, RecordsHaveEngines
  <1> QED
    BY <1>2, <1>3

\* A record is made for a parcel that has none, so earlier answers for the
\* parcel have been removed.
LEMMA CreateKeepsRInv == ASSUME RInv, NEW e \in Engines, CreateRecord(e) PROVE RInv'
  <1> USE DEF RInv, RoadTypes
  <1> DEFINE p == Current(e)
             made == [by |-> e, road |-> engines[e].read.road, type |-> engines[e].read.type]
  <1>1. p \in ParcelsAsked
    BY CurrentIsAsked DEF CreateRecord
  <1>2. /\ records[p] = NoRecord /\ records' = [records EXCEPT ![p] = made]
        /\ answers' = answers \cup {<<e, p, made.type>>}
        /\ made.road \in Stored \cup {NoRoad}
        /\ UNCHANGED <<created, now, removed>>
    BY DEF CreateRecord
  <1>3. engines' \in [Engines -> [parcel : Nat \ {0},
                                  read : [road : Roads \cup {NoRoad},
                                          type : {"none", "ROAD_ADJACENT", "NO_ROAD_DETECTED"}]]]
    BY DEF CreateRecord, Following, NotRead
  <1>4. RoadTypes' /\ RecordsHaveEngines'
    BY <1>1, <1>2, <1>3 DEF RecordsHaveEngines
  <1>5. ASSUME NEW a \in answers, a[2] = p PROVE <<a[1], a[2]>> \in removed
    BY <1>2, <1>5 DEF AnswersAreRecorded, NoRecord
  <1>6. AnswersAreRecorded'
    BY <1>1, <1>2, <1>5 DEF AnswersAreRecorded, Stored
  <1> QED
    BY <1>4, <1>6

\* A record that is deleted is accounted for in removed.
LEMMA DeleteRecordKeepsRInv == ASSUME RInv, NEW p \in ParcelsAsked, DeleteRecord(p) PROVE RInv'
  BY DEF DeleteRecord, RInv, RoadTypes, RecordsHaveEngines, AnswersAreRecorded, NoRecord, Stored

\* The strengthened invariant holds in every reachable state.
THEOREM RoadInvariant == RoadSpec => []RInv
  <1>1. RInv /\ [RoadNext]_rvars => RInv'
    <2> SUFFICES ASSUME RInv, [RoadNext]_rvars PROVE RInv'
      OBVIOUS
    <2>1. CASE RoadNext
      BY <2>1, InsertKeepsRInv, DeleteRoadKeepsRInv, EngineKeepsRInv, CreateKeepsRInv,
         DeleteRecordKeepsRInv DEF RoadNext
    <2>2. CASE UNCHANGED rvars
      BY <2>2 DEF rvars, RInv, RoadTypes, RecordsHaveEngines, AnswersAreRecorded, Stored
    <2> QED
      BY <2>1, <2>2
  <1> QED
    BY <1>1, InitRInv, PTL DEF RoadSpec

\* An answer stays on record until it is deleted, and no record names a road
\* that is gone.
THEOREM AnswersStay == RoadSpec => []AnswersAreRecorded
  <1>1. RInv => AnswersAreRecorded
    BY DEF RInv
  <1> QED
    BY <1>1, RoadInvariant, PTL
=============================================================================
