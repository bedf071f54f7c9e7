\* Each part ends when its callers have ended.
SPECIFICATION Spec
CONSTANTS
    p1 = p1
    p2 = p2
    p3 = p3
    i1 = i1
    b1 = b1
    t1 = t1
    t2 = t2
    s1 = s1
    s2 = s2
    c1 = c1
    c2 = c2
    c3 = c3
    f1 = f1
    f2 = f2
    e1 = e1
    e2 = e2
    x = x
    y = y
    Calls = {p1, p2, p3, i1, b1}
    KindOf <- MCKindOf
    Ids <- MCIds
    HashOf <- MCHashOf
    Storable = {p1, p2, i1}
    Txns = {t1, t2}
    SnapshotOf <- MCSnapshotOf
    Published = {s1}
    Nothing = Nothing
    Creators = {c1, c2, c3}
    Files = {f1, f2}
    Expected <- MCExpected
    MaxRetries = 2
    NoFile = NoFile
    Engines = {e1, e2}
    Asked <- MCAsked
    Roads = {r1, r2}
    NoRoad = NoRoad
    NoEngine = NoEngine
    MaxBatches = 3
    Requests = {q1, q2}
    Versions = {v1, v2}
    ErrorPage = ErrorPage
    Part = Part
    Mixed = Mixed
    Absent = Absent
    Retries = 1
    AllRows <- MCRows
    Limits = {0, 1, 2, 9}
    DefaultLimit <- MCDefaultLimit
    MaxLimit = 3
INVARIANTS
    ValuationIsWhole
    ProvenanceIsAvailable
    PublishedRowsStay
    ArchivesMatchSnapshots
    OneSnapshotPerFile
    AnswersAreRecorded
    CacheHoldsAnAnswer
    PagingMissesNothing
CHECK_DEADLOCK FALSE
