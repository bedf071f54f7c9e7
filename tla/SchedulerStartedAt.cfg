\* A refresh after one that failed.
SPECIFICATION Spec
CONSTANTS
    A = A
    B = B
    tickA = tickA
    forceA = forceA
    zipB = zipB
    tickB = tickB
    Servers = {A, B}
    Calls = {tickA, forceA, tickB, zipB}
    ServerOf <- MCServerOf
    KindOf <- MCKindOf
    Enabled = {A, B}
    HasUrl = {A}
    NoCall = NoCall
    NoServer = NoServer
INVARIANT StartedAtIsCurrent
