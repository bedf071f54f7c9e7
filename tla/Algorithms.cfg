\* Each behavior computes once and stops.
SPECIFICATION Spec
CONSTANTS
    Counties <- MCCounties
    Today <- MCToday
    IntLimit = 8
    AreaLimit = 100000
    AreaPct = 30
    Minimum = 3
    IQRK = 3
    Weight <- MCWeight
    TimeScore <- MCTimeScore
    SearchLimit = 5
    MinimumRequired = 4
    Runes = {"a", "z", "duan", "english"}
    DateCells <- MCDateCells
    CsvRows <- MCCsvRows
    FileCounties <- MCFileCounties
    Headers <- MCHeaders
    Files <- MCFiles
    Samples <- MCSamples
    Target <- MCTarget
    Markets <- MCMarkets
    Gradings <- MCGradings
    Comparable <- MCComparable
    Medians = {0, 20, 100}
    Params <- MCParams
INVARIANTS
    DateIsTheOneWritten
    AcceptedIsStorable
    TransactionHasItsParcel
    RecordsAreKept
    StatisticsAreOrdered
    StatisticsAgree
    BetterRanksHigher
    ComparablesSuffice
    ValuesAreOrdered
    ConfidenceNeverFalls
CHECK_DEADLOCK FALSE
