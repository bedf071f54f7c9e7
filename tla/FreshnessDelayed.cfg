\* Releases up to one day late; no import fails.
SPECIFICATION Spec
CONSTANTS
    FreshnessDays = 10
    MonthLengths = {30}
    MaxDelay = 4
    MaxFailures = 0
INVARIANT
    DelayedReleaseIsCaught
