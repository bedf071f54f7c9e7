----------------------------- MODULE PageProofs -----------------------------
(***************************************************************************)
(* Theorems about the page's MCP session and its state: for any number of  *)
(* calls, connections, searches, retries and loads.                        *)
(***************************************************************************)
EXTENDS McpSession, AppState, FiniteSetTheorems, TLAPS

----------------------------------------------------------------------------
(* The session *)

\* Connections that are open or may yet be.
Live == {n \in Made : connection[n] \in {"opening", "open"}}

\* One the page holds, if it holds one.
HeldByPage == IF client = NoConnection /\ connecting = NoConnection THEN 0 ELSE 1

\* The inductive invariant: the page holds a client or a promise, the client
\* is open, and what else may be or become open is counted already.
SessionInv ==
    /\ connection \in Seq({"opening", "open", "failed", "closed"})
    /\ orphaned \in Nat
    /\ client = NoConnection \/ connecting = NoConnection
    /\ client # NoConnection => client \in Made /\ connection[client] = "open"
    /\ Cardinality(Live) <= orphaned + HeldByPage

\* Connections are finitely many.
LEMMA LiveIsFinite ==
    ASSUME SessionInv
    PROVE  /\ IsFiniteSet(Live) /\ Cardinality(Live) \in Nat
           /\ Made = 1..Len(connection) /\ Len(connection) \in Nat
  <1>1. Made = 1..Len(connection) /\ Len(connection) \in Nat
    BY DEF SessionInv, Made
  <1>2. IsFiniteSet(Made)
    BY <1>1, FS_Interval
  <1>3. Live \in SUBSET Made
    BY DEF Live
  <1> QED
    BY <1>1, <1>2, <1>3, FS_Subset, FS_CardinalityType

\* The initial states.
LEMMA InitSessionInv == SessionInit => SessionInv
  <1> SUFFICES ASSUME SessionInit PROVE SessionInv
    OBVIOUS
  <1>1. Live = {}
    BY DEF SessionInit, Live, Made
  <1> QED
    BY <1>1, FS_EmptySet DEF SessionInit, SessionInv, HeldByPage

\* A new connection comes when the page holds none.
LEMMA ConnectKeepsSessionInv ==
    ASSUME SessionInv, client = NoConnection, connecting = NoConnection, Connect,
           UNCHANGED <<client, orphaned>>
    PROVE  SessionInv'
  <1>1. Made = 1..Len(connection) /\ Len(connection) \in Nat /\ IsFiniteSet(Live)
        /\ Cardinality(Live) \in Nat
    BY LiveIsFinite
  <1>2. /\ connection' \in Seq({"opening", "open", "failed", "closed"})
        /\ Made' = 1..(Len(connection) + 1)
        /\ \A n \in Made : connection'[n] = connection[n]
    BY <1>1 DEF Connect, SessionInv, Made
  <1>3. Live' \in SUBSET (Live \cup {Len(connection) + 1})
    BY <1>1, <1>2 DEF Live
  <1>4. Cardinality(Live') <= Cardinality(Live) + 1 /\ Cardinality(Live') \in Nat
    <2> DEFINE new == Len(connection) + 1
               more == Live \cup {new}
    <2>1. IsFiniteSet(more) /\ Cardinality(more) \in {Cardinality(Live), Cardinality(Live) + 1}
      <3> HIDE DEF new
      <3>1. /\ IsFiniteSet(more)
            /\ Cardinality(more) = IF new \in Live THEN Cardinality(Live) ELSE Cardinality(Live) + 1
        BY <1>1, FS_AddElement
      <3> QED
        BY <3>1
    <2> HIDE DEF more
    <2>2. Live' \in SUBSET more
      BY <1>3 DEF more
    <2>3. IsFiniteSet(Live') /\ Cardinality(Live') <= Cardinality(more)
      BY <2>1, <2>2, FS_Subset
    <2>4. Cardinality(Live') \in Nat
      BY <2>3, FS_CardinalityType
    <2> QED
      BY <1>1, <2>1, <2>3, <2>4
  <1>5. HeldByPage' = 1 /\ HeldByPage = 0
    BY <1>1, NoConnectionAssumption DEF HeldByPage, Connect
  <1> QED
    BY <1>1, <1>2, <1>4, <1>5 DEF SessionInv

\* resetClient closes the page's client, or forgets what is being opened.
LEMMA ResetKeepsSessionInv == ASSUME SessionInv, ResetClient PROVE SessionInv'
  <1>1. /\ Made = 1..Len(connection) /\ Len(connection) \in Nat
        /\ IsFiniteSet(Live) /\ Cardinality(Live) \in Nat
    BY LiveIsFinite
  <1>2. connection' = [n \in 1..Len(connection) |-> IF n = client THEN "closed" ELSE connection[n]]
    BY <1>1 DEF ResetClient
  <1>3. connection' \in Seq({"opening", "open", "failed", "closed"}) /\ Made' = Made
    BY <1>1, <1>2 DEF SessionInv, Made
  <1>4. Live' = Live \ {client}
    BY <1>1, <1>2, <1>3 DEF Live
  <1>5. HeldByPage' = 0 /\ client' = NoConnection
    BY DEF ResetClient, HeldByPage
  <1>6. CASE client # NoConnection
    <2>1. client \in Live /\ HeldByPage = 1 /\ orphaned' = orphaned
      BY <1>6 DEF SessionInv, Live, HeldByPage, ResetClient
    <2>2. Cardinality(Live') = Cardinality(Live) - 1
      BY <1>1, <1>4, <2>1, FS_RemoveElement
    <2> QED
      BY <1>1, <1>3, <1>5, <2>1, <2>2 DEF SessionInv
  <1>7. CASE client = NoConnection
    <2>1. Live' = Live
      BY <1>1, <1>4, <1>7, NoConnectionAssumption DEF Live
    <2>2. orphaned' = orphaned + HeldByPage
      BY <1>7 DEF ResetClient, HeldByPage
    <2> QED
      BY <1>1, <1>3, <1>5, <2>1, <2>2 DEF SessionInv, HeldByPage
  <1> QED
    BY <1>6, <1>7

\* A connection opens: it was counted while it was being opened.
LEMMA ConnectedKeepsSessionInv ==
    ASSUME SessionInv, NEW n \in Made, Connected(n)
    PROVE  SessionInv'
  <1>1. /\ Made = 1..Len(connection) /\ Len(connection) \in Nat
        /\ IsFiniteSet(Live) /\ Cardinality(Live) \in Nat
    BY LiveIsFinite
  <1>2. /\ connection' = [connection EXCEPT ![n] = "open"] /\ connection[n] = "opening"
        /\ client' = n /\ connecting' = NoConnection /\ orphaned' = orphaned
    BY DEF Connected
  <1>3. /\ connection' \in Seq({"opening", "open", "failed", "closed"}) /\ Made' = Made
        /\ connection'[n] = "open"
    BY <1>1, <1>2 DEF SessionInv, Made
  <1>4. Live' = Live
    BY <1>1, <1>2, <1>3 DEF Live, SessionInv
  <1>5. HeldByPage' = 1 /\ HeldByPage \in {0, 1}
    BY <1>1, <1>2, NoConnectionAssumption DEF HeldByPage
  <1> QED
    BY <1>1, <1>2, <1>3, <1>4, <1>5 DEF SessionInv

\* A connection fails: there is one less, and the client is another one.
LEMMA ConnectFailsKeepsSessionInv ==
    ASSUME SessionInv, NEW n \in Made, ConnectFails(n)
    PROVE  SessionInv'
  <1>1. Made = 1..Len(connection) /\ Len(connection) \in Nat /\ IsFiniteSet(Live)
        /\ Cardinality(Live) \in Nat
    BY LiveIsFinite
  <1>2. connection' = [connection EXCEPT ![n] = "failed"] /\ connection[n] = "opening"
        /\ UNCHANGED <<client, orphaned>> /\ connecting' = NoConnection
    BY DEF ConnectFails
  <1>3. connection' \in Seq({"opening", "open", "failed", "closed"}) /\ Made' = Made
    BY <1>1, <1>2 DEF SessionInv, Made
  <1>4. Live' = Live \ {n} /\ n \in Live
    BY <1>1, <1>2, <1>3 DEF Live, SessionInv
  <1>5. Cardinality(Live') = Cardinality(Live) - 1
    BY <1>1, <1>4, FS_RemoveElement
  <1>6. client' # NoConnection => client' \in Made' /\ connection'[client'] = "open"
    BY <1>1, <1>2, <1>3 DEF SessionInv
  <1> QED
    BY <1>1, <1>2, <1>3, <1>5, <1>6 DEF SessionInv, HeldByPage

\* The strengthened invariant holds in every reachable state.
THEOREM SessionInvariant == SessionSpec => []SessionInv
  <1>1. SessionInv /\ [SessionNext]_svars => SessionInv'
    <2> SUFFICES ASSUME SessionInv, [SessionNext]_svars PROVE SessionInv'
      OBVIOUS
    <2>1. ASSUME UNCHANGED <<client, connecting, connection, orphaned>> PROVE SessionInv'
      <3>1. Live' = Live /\ HeldByPage' = HeldByPage /\ connection' = connection /\ orphaned' = orphaned
        BY <2>1 DEF Live, Made, HeldByPage
      <3> QED
        BY <2>1, <3>1 DEF SessionInv, Made
    <2>2. ASSUME NEW k \in Callers, GetClient(k) PROVE SessionInv'
      <3>1. CASE client = NoConnection /\ connecting = NoConnection /\ Connect
        BY <2>2, <3>1, ConnectKeepsSessionInv DEF GetClient
      <3> QED
        BY <2>1, <2>2, <3>1 DEF GetClient
    <2>3. ASSUME NEW k \in Callers,
                 \/ Rejected(k) \/ Send(k) \/ Answer(k) \/ SessionError(k)
                 \/ ClosedUnder(k) \/ Timeout(k)
          PROVE SessionInv'
      BY <2>1, <2>3, ResetKeepsSessionInv
         DEF Rejected, Send, Answer, SessionError, ClosedUnder, Timeout
    <2>4. ASSUME NEW n \in Made, Connected(n) \/ ConnectFails(n) PROVE SessionInv'
      BY <2>4, ConnectedKeepsSessionInv, ConnectFailsKeepsSessionInv
    <2>5. ASSUME Disconnect PROVE SessionInv'
      BY <2>5, ResetKeepsSessionInv DEF Disconnect
    <2> QED
      BY <2>1, <2>2, <2>3, <2>4, <2>5 DEF SessionNext, svars
  <1> QED
    BY <1>1, InitSessionInv, PTL DEF SessionSpec

\* However calls, failures, time limits and unmounts interleave, the page has
\* one open session, and one more for each it forgot while it was being opened.
THEOREM SessionsAccounted == SessionSpec => []SessionsAreAccounted
  <1>1. SessionInv => SessionsAreAccounted
    <2> SUFFICES ASSUME SessionInv PROVE SessionsAreAccounted
      OBVIOUS
    <2>1. IsFiniteSet(Live) /\ Cardinality(Live) \in Nat
      BY LiveIsFinite
    <2>2. Open \in SUBSET Live
      BY DEF Live, Open
    <2>3. Cardinality(Open) <= Cardinality(Live) /\ Cardinality(Open) \in Nat
      BY <2>1, <2>2, FS_Subset, FS_CardinalityType
    <2>4. Cardinality(Live) <= orphaned + HeldByPage /\ orphaned \in Nat /\ HeldByPage \in {0, 1}
      BY DEF SessionInv, HeldByPage
    <2>5. Cardinality(Open) <= 1 + orphaned
      BY <2>1, <2>3, <2>4
    <2> QED
      BY <2>5 DEF SessionsAreAccounted
  <1> QED
    BY <1>1, SessionInvariant, PTL

----------------------------------------------------------------------------
(* The search box and the parcel *)

\* Searches and loads by number, and what they are waiting for.
AppTypes ==
    /\ searches \in Seq([at : {"ended", "waiting", "shown"}, tries : Nat])
    /\ loading \in BOOLEAN /\ results \in 0..Len(searches)
    /\ loads \in Seq([parcel : Parcels, at : {"info", "geometry", "context", "dependents",
                                              "explanation", "done", "failed"}])
    /\ filters \subseteq 0..Len(loads)

\* A slice is of the parcel selected, or is known not to be.
Fits(s) == s \in late \/ view[s] \in {selected, None}

\* Slices the last load has answered for when it has come to this stage; what
\* no load replaces is known to be old from its start on.
Answered(stage) ==
    CASE stage \in {"explanation", "done"} -> Slices
      [] stage = "dependents" -> Leftovers \cup {"parcel"}
      [] OTHER -> Leftovers

\* The last load is of the parcel selected, and what it has answered for fits.
LastLoadIsSelected ==
    /\ loads = <<>> => selected = None
    /\ loads # <<>> =>
          /\ loads[Last].parcel = selected
          /\ \A s \in Answered(loads[Last].at) : Fits(s)

\* What was asked for since the last load is of the parcel selected.
IsOfItsLoad(l) ==
    /\ l.slice \in Leftovers /\ l.from \in 0..Last
    /\ loads # <<>> /\ l.from = Last => l.of \in {selected, None}

LookupsAreOfTheirLoads == \A l \in lookups : IsOfItsLoad(l)

\* The inductive invariant.
AppInv ==
    AppTypes /\ SearchShowsTheLatest /\ LastLoadIsSelected /\ LookupsAreOfTheirLoads

\* Sequences over a set: the empty one, and the elements of any.
LEMMA ElementsOfSeq ==
    ASSUME NEW S
    PROVE  <<>> \in Seq(S) /\ \A s \in Seq(S) : \A n \in DOMAIN s : s[n] \in S
  OBVIOUS

\* The initial states.
LEMMA InitAppInv == AppInit => AppInv
  <1> SUFFICES ASSUME AppInit PROVE AppInv
    OBVIOUS
  <1>1. searches = <<>> /\ loads = <<>> /\ loading = FALSE /\ results = 0
        /\ filters = {} /\ lookups = {} /\ selected = None
    BY DEF AppInit
  <1>2. AppTypes
    <2>1. results \in 0..Len(searches)
      BY <1>1
    <2> QED
      BY <1>1, <2>1, ElementsOfSeq DEF AppTypes
  <1>3. SearchShowsTheLatest /\ LastLoadIsSelected /\ LookupsAreOfTheirLoads
    BY <1>1 DEF SearchShowsTheLatest, LastLoadIsSelected, LookupsAreOfTheirLoads
  <1> QED
    BY <1>2, <1>3 DEF AppInv

\* Steps of the search box: an answer is shown when its search is the newest.
LEMMA SearchKeepsAppInv == ASSUME AppInv, SearchNext, UNCHANGED loadvars PROVE AppInv'
  <1> DEFINE Search == [at : {"ended", "waiting", "shown"}, tries : Nat]
  <1>1. /\ searches \in Seq(Search) /\ loading \in BOOLEAN /\ results \in 0..Len(searches)
        /\ Len(searches) \in Nat /\ DOMAIN searches = 1..Len(searches)
    BY DEF AppInv, AppTypes
  <1>2. LastLoadIsSelected' /\ LookupsAreOfTheirLoads'
    BY DEF AppInv, LastLoadIsSelected, LookupsAreOfTheirLoads, IsOfItsLoad, Last, Fits, loadvars
  <1>3. ASSUME NEW stage \in {"ended", "waiting"}, SearchStarts(stage),
               results' \in {0, results}, loading' = (stage = "waiting")
        PROVE  AppInv'
    <2>1. /\ searches' = Append(searches, [at |-> stage, tries |-> 0])
          /\ [at |-> stage, tries |-> 0] \in Search
      BY <1>3 DEF SearchStarts
    <2>2. /\ searches' \in Seq(Search) /\ Len(searches') = Len(searches) + 1
          /\ \A n \in 1..Len(searches) : searches'[n] = searches[n]
          /\ searches'[Len(searches) + 1] = [at |-> stage, tries |-> 0]
      BY <1>1, <2>1
    <2>3. AppTypes'
      BY <1>1, <1>3, <2>2 DEF AppInv, AppTypes, loadvars
    <2>4. /\ searches' # <<>> /\ searches'[Len(searches')].at = stage
          /\ \A n \in 1..Len(searches) : searches'[n].at = searches[n].at
      BY <1>1, <2>2
    <2>5. (loading <=> searches # <<>> /\ Waiting(Len(searches)))'
      BY <1>3, <2>4 DEF Waiting
    <2>6. (results # 0 => \A n \in results + 1 .. Len(searches) : searches[n].at # "shown")'
      <3>1. ASSUME results' # 0, NEW n \in results' + 1 .. Len(searches')
            PROVE  searches'[n].at # "shown"
        <4>0. results' = results /\ results \in Nat /\ Len(searches') = Len(searches) + 1
          BY <1>1, <1>3, <2>2, <3>1
        <4>1. results' = results /\ n \in 1..(Len(searches) + 1)
          BY <1>1, <3>1, <4>0
        <4>2. CASE n = Len(searches) + 1
          BY <1>3, <2>2, <2>4, <4>2
        <4>3. CASE n # Len(searches) + 1
          <5>1. n \in results + 1 .. Len(searches) /\ n \in 1..Len(searches)
            BY <1>1, <3>1, <4>0, <4>1, <4>3
          <5> QED
            BY <2>4, <3>1, <4>1, <5>1 DEF AppInv, SearchShowsTheLatest
        <4> QED
          BY <4>2, <4>3
      <3> QED
        BY <3>1
    <2> QED
      BY <1>2, <2>3, <2>5, <2>6 DEF AppInv, SearchShowsTheLatest
  <1>4. CASE SearchBlank \/ SearchIncomplete \/ SearchFull
    BY <1>3, <1>4 DEF SearchBlank, SearchIncomplete, SearchFull
  <1>6. ASSUME NEW n \in DOMAIN searches, Waiting(n), NEW x \in Search,
               searches' = [searches EXCEPT ![n] = x], loading' \in BOOLEAN,
               \/ x.at = "waiting" /\ UNCHANGED <<loading, results>>
               \/ /\ x.at = "ended" /\ UNCHANGED results
                  /\ loading' = (loading /\ ~Current(n))
               \/ x.at = "shown" /\ Current(n) /\ loading' = FALSE /\ results' = n
        PROVE  AppInv'
    <2>1. /\ searches' \in Seq(Search) /\ Len(searches') = Len(searches)
          /\ \A m \in 1..Len(searches) : searches'[m] = IF m = n THEN x ELSE searches[m]
          /\ n \in 1..Len(searches) /\ searches[n].at = "waiting"
      BY <1>1, <1>6 DEF Waiting
    <2>2. AppTypes'
      BY <1>1, <1>6, <2>1 DEF AppInv, AppTypes, loadvars, Current
    <2>3. (loading <=> searches # <<>> /\ Waiting(Len(searches)))'
      BY <1>1, <1>6, <2>1 DEF AppInv, SearchShowsTheLatest, Waiting, Current
    <2>4. (results # 0 => \A m \in results + 1 .. Len(searches) : searches[m].at # "shown")'
      BY <1>1, <1>6, <2>1 DEF AppInv, SearchShowsTheLatest, Current
    <2> QED
      BY <1>2, <2>2, <2>3, <2>4 DEF AppInv, SearchShowsTheLatest
  <1>7. ASSUME NEW n \in DOMAIN searches, Retry(n) \/ SearchAnswers(n) \/ SearchFails(n)
        PROVE  AppInv'
    <2>0. searches[n] \in Search /\ Waiting(n)
      <3>1. Waiting(n)
        BY <1>7 DEF Retry, SearchAnswers, SearchFails
      <3> HIDE DEF Search
      <3> QED
        BY <1>1, <1>7, <3>1, ElementsOfSeq
    <2>1. CASE Retry(n)
      <3> DEFINE x == [searches[n] EXCEPT !.tries = searches[n].tries + 1]
      <3>1. x \in Search /\ x.at = "waiting"
        BY <2>0 DEF Waiting
      <3>2. searches' = [searches EXCEPT ![n] = x] /\ UNCHANGED <<loading, results>>
        BY <2>1 DEF Retry
      <3> HIDE DEF x
      <3> QED
        BY <1>1, <1>6, <1>7, <2>0, <3>1, <3>2
    <2>2. ASSUME NEW stage \in {"ended", "shown"}, SearchEnds(n, stage)
          PROVE  \E x \in Search : x.at = stage /\ searches' = [searches EXCEPT ![n] = x]
      <3> DEFINE x == [searches[n] EXCEPT !.at = stage]
      <3>1. x \in Search /\ x.at = stage
        BY <2>0
      <3>2. searches' = [searches EXCEPT ![n] = x]
        BY <2>2 DEF SearchEnds
      <3> QED
        BY <3>1, <3>2
    <2>3. CASE SearchAnswers(n)
      <3>1. CASE Current(n)
        <4>1. PICK x \in Search : x.at = "shown" /\ searches' = [searches EXCEPT ![n] = x]
          BY <2>2, <2>3, <3>1 DEF SearchAnswers
        <4> QED
          BY <1>6, <2>0, <2>3, <3>1, <4>1 DEF SearchAnswers
      <3>2. CASE ~Current(n)
        <4>1. PICK x \in Search : x.at = "ended" /\ searches' = [searches EXCEPT ![n] = x]
          BY <2>2, <2>3, <3>2 DEF SearchAnswers
        <4> QED
          BY <1>1, <1>6, <2>0, <2>3, <3>2, <4>1 DEF SearchAnswers
      <3> QED
        BY <3>1, <3>2
    <2>4. CASE SearchFails(n)
      <3>1. PICK x \in Search : x.at = "ended" /\ searches' = [searches EXCEPT ![n] = x]
        BY <2>2, <2>4 DEF SearchFails
      <3> QED
        BY <1>1, <1>6, <2>0, <2>4, <3>1 DEF SearchFails
    <2> QED
      BY <1>7, <2>1, <2>3, <2>4
  <1> QED
    BY <1>4, <1>7 DEF SearchNext

\* A slice that fits still does when an answer is shown, and one that is
\* answered for by the last load, or since, does from then on.
LEMMA ShowKeepsFits ==
    ASSUME NEW n, NEW values, Show(values, n), selected' = selected,
           n = Last => \A s \in DOMAIN values : values[s] \in {selected, None},
           NEW s \in Slices, Fits(s) \/ s \in DOMAIN values
    PROVE  Fits(s)'
  <1>1. view'[s] = IF s \in DOMAIN values THEN values[s] ELSE view[s]
    BY DEF Show
  <1>2. CASE n = Last
    <2>1. late' = late \ DOMAIN values
      BY <1>2 DEF Show
    <2>2. CASE s \in DOMAIN values
      BY <1>1, <1>2, <2>2 DEF Fits
    <2>3. CASE s \notin DOMAIN values
      BY <1>1, <2>1, <2>3 DEF Fits
    <2> QED
      BY <2>2, <2>3
  <1>3. CASE n # Last
    <2>1. late' = late \cup DOMAIN values
      BY <1>3 DEF Show
    <2>2. CASE s \in DOMAIN values
      BY <2>1, <2>2 DEF Fits
    <2>3. CASE s \notin DOMAIN values
      BY <1>1, <2>1, <2>3 DEF Fits
    <2> QED
      BY <2>2, <2>3
  <1> QED
    BY <1>2, <1>3

\* What the stages answer for: no slice is forgotten, and nothing but the
\* parcel and its dependents is answered for by a load alone.
LEMMA AnsweredBy ==
    /\ \A stage : Leftovers \subseteq Answered(stage) /\ Answered(stage) \subseteq Slices
    /\ \A stage \in {"info", "geometry", "context", "failed"} : Answered(stage) = Leftovers
    /\ Answered("dependents") = Leftovers \cup {"parcel"}
    /\ \A stage \in {"explanation", "done"} : Answered(stage) = Slices
  BY DEF Answered, Slices

Stages == {"info", "geometry", "context", "dependents", "explanation", "done", "failed"}

\* A load goes on: if it is the last one, all it has answered for must fit.
LEMMA StageKeepsAppInv ==
    ASSUME AppInv, NEW n \in DOMAIN loads, NEW stage \in Stages, LoadStage(n, stage),
           UNCHANGED <<selected, filters, lookups, searchvars>>,
           \A s \in Slices : Fits(s) => Fits(s)',
           n = Last => \A s \in Answered(stage) : Fits(s)'
    PROVE  AppInv'
  <1> DEFINE Load == [parcel : Parcels, at : Stages]
             x == [loads[n] EXCEPT !.at = stage]
  <1>1. /\ loads \in Seq(Load) /\ Len(loads) \in Nat /\ DOMAIN loads = 1..Len(loads)
        /\ n \in 1..Len(loads)
    BY DEF AppInv, AppTypes, Stages
  <1>2. loads[n] \in Load
    <2> HIDE DEF Load
    <2> QED
      BY <1>1, ElementsOfSeq
  <1>3. x \in Load /\ x.at = stage /\ x.parcel = loads[n].parcel
    BY <1>2
  <1>4. loads' = [loads EXCEPT ![n] = x]
    BY DEF LoadStage
  <1> HIDE DEF x, Load
  <1>5. /\ loads' \in Seq(Load) /\ Len(loads') = Len(loads) /\ DOMAIN loads' = 1..Len(loads)
        /\ \A m \in 1..Len(loads) : loads'[m] = IF m = n THEN x ELSE loads[m]
        /\ loads # <<>> /\ loads' # <<>> /\ Last' = Last /\ Last \in 1..Len(loads)
    BY <1>1, <1>3, <1>4 DEF Last
  <1>6. AppTypes'
    BY <1>5 DEF AppInv, AppTypes, searchvars, Load, Stages
  <1>7. loads'[Last].parcel = selected' /\ loads[Last].parcel = selected
    BY <1>3, <1>5 DEF AppInv, LastLoadIsSelected
  <1>8. \A s \in Answered(loads'[Last].at) : Fits(s)'
    <2>1. CASE n = Last
      BY <1>3, <1>5, <2>1
    <2>2. CASE n # Last
      BY <1>5, <2>2, AnsweredBy DEF AppInv, LastLoadIsSelected
    <2> QED
      BY <2>1, <2>2
  <1>9. LastLoadIsSelected' /\ LookupsAreOfTheirLoads'
    <2>1. LookupsAreOfTheirLoads'
      BY <1>5 DEF AppInv, LookupsAreOfTheirLoads, IsOfItsLoad
    <2>2. \A s \in Answered(loads'[Last'].at) : Fits(s)'
      BY <1>5, <1>8
    <2> QED
      BY <1>5, <1>7, <2>1, <2>2 DEF LastLoadIsSelected
  <1>10. SearchShowsTheLatest'
    BY DEF AppInv, SearchShowsTheLatest, Waiting, searchvars
  <1> QED
    BY <1>6, <1>9, <1>10 DEF AppInv

\* Another parcel is chosen: what no load replaces is old from now on.
LEMMA LoadParcelKeeps ==
    ASSUME AppInv, NEW p \in Parcels, LoadParcel(p), AppTypes', SearchShowsTheLatest'
    PROVE  AppInv'
  <1> DEFINE x == [parcel |-> p, at |-> "info"]
             Load == [parcel : Parcels, at : Stages]
  <1>1. loads \in Seq(Load) /\ Len(loads) \in Nat
    BY DEF AppInv, AppTypes, Stages
  <1>2. loads' = Append(loads, x) /\ x \in Load /\ x.at = "info" /\ x.parcel = p
    BY DEF LoadParcel, Stages
  <1> HIDE DEF x, Load
  <1>3. Last' = Last + 1 /\ loads'[Last'] = x /\ loads' # <<>>
    BY <1>1, <1>2 DEF Last
  <1>4. selected' = p /\ late' = Leftovers /\ UNCHANGED <<view, filters, lookups>>
    BY DEF LoadParcel
  <1>5. \A s \in Answered(loads'[Last'].at) : Fits(s)'
    BY <1>2, <1>3, <1>4, AnsweredBy DEF Fits
  <1>6. LookupsAreOfTheirLoads'
    <2>1. Last \in Nat
      BY <1>1 DEF Last
    <2> QED
      BY <1>3, <1>4, <2>1 DEF AppInv, LookupsAreOfTheirLoads, IsOfItsLoad
  <1> QED
    BY <1>2, <1>3, <1>4, <1>5, <1>6 DEF AppInv, LastLoadIsSelected

\* Filters, selections and lookups leave the loads as they are.
LEMMA AsideKeepsAppInv ==
    ASSUME AppInv, UNCHANGED <<selected, loads, searchvars>>,
           filters' \subseteq 0..Len(loads),
           loads # <<>> => \A s \in Slices : Fits(s) => Fits(s)',
           \A l \in lookups' : l \in lookups \/ IsOfItsLoad(l)
    PROVE  AppInv'
  <1>1. AppTypes'
    BY DEF AppInv, AppTypes, searchvars
  <1>2. SearchShowsTheLatest'
    BY DEF AppInv, SearchShowsTheLatest, Waiting, searchvars
  <1>3. loads' = loads /\ selected' = selected /\ Last' = Last
    BY DEF Last
  <1>4. loads' # <<>> => \A s \in Answered(loads'[Last'].at) : Fits(s)'
    BY <1>3, AnsweredBy DEF AppInv, LastLoadIsSelected
  <1>5. LookupsAreOfTheirLoads'
    BY <1>3 DEF AppInv, LookupsAreOfTheirLoads, IsOfItsLoad
  <1>6. LastLoadIsSelected'
    BY <1>3, <1>4 DEF AppInv, LastLoadIsSelected
  <1> QED
    BY <1>1, <1>2, <1>5, <1>6 DEF AppInv

\* What is shown under the number of the last load is of its parcel.
LEMMA FromIsSelected ==
    ASSUME AppInv, NEW s \in Slices
    PROVE  /\ From(s) \in 0..Last
           /\ loads # <<>> /\ From(s) = Last => view[s] \in {selected, None}
  <1>1. Len(loads) \in Nat /\ (loads # <<>> => Last > 0) /\ Last = Len(loads)
    BY DEF AppInv, AppTypes, Last
  <1>2. CASE s \notin late /\ Last > 0 /\ loads[Last].at \in {"explanation", "done"}
    <2>1. From(s) = Last /\ loads # <<>> /\ s \in Answered(loads[Last].at)
      BY <1>1, <1>2, AnsweredBy DEF From
    <2> QED
      BY <1>1, <1>2, <2>1 DEF AppInv, LastLoadIsSelected, Fits
  <1>3. CASE ~(s \notin late /\ Last > 0 /\ loads[Last].at \in {"explanation", "done"})
    BY <1>1, <1>3 DEF From
  <1> QED
    BY <1>2, <1>3

\* Steps of the loads, and of what is selected and asked for beside them.
LEMMA LoadKeepsAppInv == ASSUME AppInv, LoadNext, UNCHANGED searchvars PROVE AppInv'
  <1>1. Len(loads) \in Nat /\ DOMAIN loads = 1..Len(loads) /\ Last = Len(loads)
        /\ (loads # <<>> => Last > 0)
    BY DEF AppInv, AppTypes, Last
  <1>2. loads # <<>> => loads[Last].parcel = selected
    BY DEF AppInv, LastLoadIsSelected
  <1>3. ASSUME NEW n \in DOMAIN loads, LoadAnswers(n) \/ LoadFails(n) PROVE AppInv'
    <2>1. PICK stage \in {"geometry", "context", "failed"} : LoadStage(n, stage)
      BY <1>3 DEF LoadAnswers, LoadFails, Following
    <2>2. UNCHANGED <<selected, view, late, filters, lookups>>
      BY <1>3 DEF LoadAnswers, LoadFails
    <2>3. \A s \in Slices : Fits(s) => Fits(s)'
      BY <2>2 DEF Fits
    <2>4. n = Last => \A s \in Answered(stage) : Fits(s)'
      BY <1>1, <1>3, <2>3, AnsweredBy DEF AppInv, LastLoadIsSelected
    <2> QED
      BY <1>3, <2>1, <2>2, <2>3, <2>4, StageKeepsAppInv DEF Stages
  <1>4. ASSUME NEW n \in DOMAIN loads, NEW stage \in Stages, NEW values,
               LoadStage(n, stage), Show(values, n), UNCHANGED <<selected, filters, lookups>>,
               \A s \in DOMAIN values : values[s] \in {loads[n].parcel, None},
               Answered(stage) \subseteq Answered(loads[n].at) \cup DOMAIN values
        PROVE  AppInv'
    <2>1. n = Last => \A s \in DOMAIN values : values[s] \in {selected, None}
      BY <1>1, <1>2, <1>4
    <2>2. \A s \in Slices : Fits(s) \/ s \in DOMAIN values => Fits(s)'
      BY <1>4, <2>1, ShowKeepsFits
    <2>3. n = Last => \A s \in Answered(stage) : Fits(s)'
      BY <1>1, <1>4, <2>2, AnsweredBy DEF AppInv, LastLoadIsSelected
    <2> QED
      BY <1>4, <2>2, <2>3, StageKeepsAppInv
  <1>5. ASSUME NEW n \in DOMAIN loads, ShowParcel(n) PROVE AppInv'
    <2> DEFINE values == [s \in {"parcel"} |-> loads[n].parcel]
    <2>1. /\ Show(values, n) /\ LoadStage(n, "dependents") /\ "dependents" \in Stages
          /\ UNCHANGED <<selected, filters, lookups>> /\ loads[n].at = "context"
      BY <1>5 DEF ShowParcel, Stages
    <2>2. DOMAIN values = {"parcel"} /\ \A s \in DOMAIN values : values[s] = loads[n].parcel
      OBVIOUS
    <2> HIDE DEF values
    <2>3. Answered("dependents") \subseteq Answered(loads[n].at) \cup DOMAIN values
      BY <2>1, <2>2, AnsweredBy
    <2> QED
      BY <1>4, <1>5, <2>1, <2>2, <2>3
  <1>6. ASSUME NEW n \in DOMAIN loads, ShowDependents(n) PROVE AppInv'
    <2>1. PICK ok \in Outcomes :
             /\ Show([d \in Dependents |-> IF d \in ok THEN loads[n].parcel ELSE None], n)
             /\ LoadStage(n, IF "valuation" \in ok THEN "explanation" ELSE "done")
      BY <1>6 DEF ShowDependents
    <2> DEFINE values == [d \in Dependents |-> IF d \in ok THEN loads[n].parcel ELSE None]
    <2>2. PICK stage \in {"explanation", "done"} : LoadStage(n, stage)
      BY <2>1
    <2>3. DOMAIN values = Dependents /\ \A s \in DOMAIN values : values[s] \in {loads[n].parcel, None}
      OBVIOUS
    <2>4. Show(values, n)
      BY <2>1
    <2> HIDE DEF values
    <2>5. UNCHANGED <<selected, filters, lookups>> /\ loads[n].at = "dependents"
      BY <1>6 DEF ShowDependents
    <2>6. Answered(stage) \subseteq Answered(loads[n].at) \cup DOMAIN values
      BY <2>3, <2>5, AnsweredBy DEF Slices
    <2> QED
      BY <1>4, <1>6, <2>2, <2>3, <2>4, <2>5, <2>6 DEF Stages
  <1>7. ASSUME NEW n \in DOMAIN loads, ShowExplanation(n) PROVE AppInv'
    <2> DEFINE values == [s \in {"explanation"} |-> loads[n].parcel]
    <2>1. /\ LoadStage(n, "done") /\ "done" \in Stages /\ loads[n].at = "explanation"
          /\ UNCHANGED <<selected, filters, lookups>>
          /\ Show(values, n) \/ UNCHANGED <<view, late>>
      BY <1>7 DEF ShowExplanation, Stages
    <2>2. DOMAIN values = {"explanation"} /\ \A s \in DOMAIN values : values[s] = loads[n].parcel
      OBVIOUS
    <2> HIDE DEF values
    <2>3. Answered("done") = Answered(loads[n].at)
      BY <2>1, AnsweredBy
    <2>4. CASE Show(values, n)
      BY <1>4, <1>7, <2>1, <2>2, <2>3, <2>4
    <2>5. CASE UNCHANGED <<view, late>>
      <3>1. \A s \in Slices : Fits(s) => Fits(s)'
        BY <2>1, <2>5 DEF Fits
      <3>2. n = Last => \A s \in Answered("done") : Fits(s)'
        BY <1>1, <1>7, <2>3, <3>1, AnsweredBy DEF AppInv, LastLoadIsSelected
      <3> QED
        BY <1>7, <2>1, <3>1, <3>2, StageKeepsAppInv
    <2> QED
      BY <2>1, <2>4, <2>5
  <1>8. CASE ApplyFilters
    <2>1. UNCHANGED <<selected, view, loads, lookups, late>> /\ filters' = filters \cup {Last}
      BY <1>8 DEF ApplyFilters
    <2>2. filters' \subseteq 0..Len(loads)
      <3>1. Last \in 0..Len(loads)
        BY <1>1
      <3>2. filters \subseteq 0..Len(loads)
        BY DEF AppInv, AppTypes
      <3> QED
        BY <2>1, <3>1, <3>2
    <2>3. \A s \in Slices : Fits(s) => Fits(s)'
      BY <2>1 DEF Fits
    <2> QED
      BY <2>1, <2>2, <2>3, AsideKeepsAppInv
  <1>9. ASSUME NEW n, NEW values, Show(values, n), UNCHANGED <<selected, loads, filters>>,
               loads # <<>> /\ n = Last => \A s \in DOMAIN values : values[s] \in {selected, None},
               \A l \in lookups' : l \in lookups \/ IsOfItsLoad(l)
        PROVE  AppInv'
    <2>1. loads # <<>> => \A s \in Slices : Fits(s) => Fits(s)'
      BY <1>9, ShowKeepsFits
    <2>2. filters' \subseteq 0..Len(loads)
      BY <1>9 DEF AppInv, AppTypes
    <2> QED
      BY <1>9, <2>1, <2>2, AsideKeepsAppInv
  <1>10. ASSUME NEW n \in filters, FiltersApplied(n) PROVE AppInv'
    <2>1. PICK changed \in {{"transactions"}, {"transactions", "statistics"}} :
             Show([s \in changed |-> loads[n].parcel], n)
      BY <1>10 DEF FiltersApplied
    <2> DEFINE values == [s \in changed |-> loads[n].parcel]
    <2>2. Show(values, n) /\ \A s \in DOMAIN values : values[s] = loads[n].parcel
      BY <2>1
    <2> HIDE DEF values
    <2>3. UNCHANGED <<selected, loads, filters, lookups>>
      BY <1>10 DEF FiltersApplied
    <2> QED
      BY <1>2, <1>9, <2>2, <2>3
  <1>11. CASE SelectTransaction
    <2> DEFINE values == [s \in {"transaction"} |-> view["transactions"]]
               from == From("transactions")
    <2>1. /\ Show(values, from) /\ \A s \in DOMAIN values : values[s] = view["transactions"]
          /\ UNCHANGED <<selected, loads, filters>>
          /\ lookups' = lookups \cup
                {[slice |-> "transaction", of |-> view["transactions"], from |-> from]}
      BY <1>11 DEF SelectTransaction, Lookup
    <2>2. from \in 0..Last /\ (loads # <<>> /\ from = Last => view["transactions"] \in {selected, None})
      BY FromIsSelected, DependentsAssumption DEF Slices
    <2> HIDE DEF values, from
    <2> QED
      BY <1>9, <2>1, <2>2 DEF Leftovers, IsOfItsLoad
  <1>12. CASE SelectComparable
    <2> DEFINE values == [s \in {"comparable", "transaction"} |->
                             IF s = "comparable" THEN view["comparables"] ELSE None]
               from == From("comparables")
    <2>1. /\ Show(values, from) /\ \A s \in DOMAIN values : values[s] \in {view["comparables"], None}
          /\ UNCHANGED <<selected, loads, filters, lookups>>
      BY <1>12 DEF SelectComparable
    <2>2. loads # <<>> /\ from = Last => view["comparables"] \in {selected, None}
      BY FromIsSelected, DependentsAssumption DEF Slices
    <2> HIDE DEF values, from
    <2> QED
      BY <1>9, <2>1, <2>2
  <1>13. CASE AskExplanation
    <2> DEFINE from == From("valuation")
    <2>1. /\ UNCHANGED <<selected, view, loads, filters, late>>
          /\ lookups' = lookups \cup
                {[slice |-> "explained", of |-> view["valuation"], from |-> from]}
      BY <1>13 DEF AskExplanation, Lookup
    <2>2. from \in 0..Last /\ (loads # <<>> /\ from = Last => view["valuation"] \in {selected, None})
      BY FromIsSelected, DependentsAssumption DEF Slices
    <2>3. \A s \in Slices : Fits(s) => Fits(s)'
      BY <2>1 DEF Fits
    <2>4. filters' \subseteq 0..Len(loads)
      BY <2>1 DEF AppInv, AppTypes
    <2> HIDE DEF from
    <2> QED
      BY <2>1, <2>2, <2>3, <2>4, AsideKeepsAppInv DEF Leftovers, IsOfItsLoad
  <1>14. ASSUME NEW l \in lookups, LookupAnswers(l) PROVE AppInv'
    <2> DEFINE values == [s \in {l.slice} |-> l.of]
    <2>1. /\ Show(values, l.from) /\ \A s \in DOMAIN values : values[s] = l.of
          /\ UNCHANGED <<selected, loads, filters, lookups>>
      BY <1>14 DEF LookupAnswers
    <2>2. loads # <<>> /\ l.from = Last => l.of \in {selected, None}
      BY <1>14 DEF AppInv, LookupsAreOfTheirLoads, IsOfItsLoad
    <2> HIDE DEF values
    <2> QED
      BY <1>9, <2>1, <2>2
  <1> QED
    BY <1>3, <1>5, <1>6, <1>7, <1>8, <1>10, <1>11, <1>12, <1>13, <1>14 DEF LoadNext

\* A result is selected: its parcel is loaded and the search box is emptied.
LEMMA SelectResultKeepsAppInv ==
    ASSUME AppInv, NEW p \in Parcels, SelectResult(p)
    PROVE  AppInv'
  <1>1. /\ searches \in Seq([at : {"ended", "waiting", "shown"}, tries : Nat])
        /\ Len(searches) \in Nat /\ loads \in Seq([parcel : Parcels, at : Stages])
        /\ Len(loads) \in Nat
    BY DEF AppInv, AppTypes, Stages
  <1>2. results' = 0 /\ UNCHANGED <<searches, loading, filters>>
    BY DEF SelectResult, ClearSearch, LoadParcel
  <1>3. SearchShowsTheLatest'
    BY <1>2 DEF AppInv, SearchShowsTheLatest, Waiting
  <1>4. /\ loads' \in Seq([parcel : Parcels, at : Stages]) /\ Len(loads') = Len(loads) + 1
    <2> DEFINE x == [parcel |-> p, at |-> "info"]
    <2>1. loads' = Append(loads, x) /\ x \in [parcel : Parcels, at : Stages]
      BY DEF SelectResult, LoadParcel, Stages
    <2> HIDE DEF x
    <2> QED
      BY <1>1, <2>1
  <1>5. AppTypes'
    <2>1. filters' \subseteq 0..Len(loads')
      BY <1>1, <1>2, <1>4 DEF AppInv, AppTypes
    <2> QED
      BY <1>1, <1>2, <1>4, <2>1 DEF AppInv, AppTypes, Stages
  <1> QED
    BY <1>3, <1>5, LoadParcelKeeps DEF SelectResult

\* The strengthened invariant holds in every reachable state.
THEOREM AppInvariant == AppSpec => []AppInv
  <1>1. AppInv /\ [AppNext]_<<searchvars, loadvars>> => AppInv'
    <2> SUFFICES ASSUME AppInv, [AppNext]_<<searchvars, loadvars>> PROVE AppInv'
      OBVIOUS
    <2>1. CASE AppNext
      BY <2>1, SearchKeepsAppInv, LoadKeepsAppInv, SelectResultKeepsAppInv DEF AppNext
    <2>2. CASE UNCHANGED <<searchvars, loadvars>>
      BY <2>2 DEF searchvars, loadvars, AppInv, AppTypes, SearchShowsTheLatest, Waiting,
                  LastLoadIsSelected, LookupsAreOfTheirLoads, IsOfItsLoad, Last, Fits
    <2> QED
      BY <2>1, <2>2
  <1> QED
    BY <1>1, InitAppInv, PTL DEF AppSpec

\* However searches overtake one another, the newest one has the last word.
THEOREM NewestSearchWins == AppSpec => []SearchShowsTheLatest
  <1>1. AppInv => SearchShowsTheLatest
    BY DEF AppInv
  <1> QED
    BY <1>1, AppInvariant, PTL

\* Parcels chosen one after the other are shown whole.
THEOREM ParcelsAreWhole == AppSpec => []ShownIsSelected
  <1>1. AppInv => ShownIsSelected
    BY AnsweredBy DEF AppInv, LastLoadIsSelected, ShownIsSelected, Fits
  <1> QED
    BY <1>1, AppInvariant, PTL
=============================================================================
