\* Four clients on one snapshot row.
SPECIFICATION Spec
CONSTANTS
    Clients = {c1, c2, c3, c4}
    NoTarget = NoTarget
INVARIANTS
    TypeOK
    TimestampsTellStatus
PROPERTIES
    LockedIsFinal
CHECK_DEADLOCK FALSE
