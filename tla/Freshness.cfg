\* Months of 28 to 31 days, releases up to three days late, imports that fail.
SPECIFICATION Spec
CONSTANTS
    FreshnessDays = 10
    MonthLengths = {28, 30, 31}
    MaxDelay = 12
    MaxFailures = 2
INVARIANTS
    LagIsBounded
    WindowHasItsImport
