\* Two servers, four calls made again and again.
SPECIFICATION FairSpec
CONSTANTS
    A = A
    B = B
    tickA = tickA
    forceA = forceA
    zipB = zipB
    tickB = tickB
    Servers = {A, B}
    Calls = {tickA, forceA, tickB, zipB}
    ServerOf <- MCServerOf
    KindOf <- MCKindOf
    Enabled = {A, B}
    HasUrl = {A}
    NoCall = NoCall
    NoServer = NoServer
INVARIANTS
    TypeOK
    ProgressFollowsHolder
    OneImportPerServer
    NoRedundantRefresh
PROPERTIES
    EveryCallReturns
