\* An UpdateStatus that read the row before another client FAILED it.
SPECIFICATION Spec
CONSTANTS
    Clients = {c1, c2}
    NoTarget = NoTarget
PROPERTY
    FailedIsTerminal
CHECK_DEADLOCK FALSE
