----------------------------- MODULE Freshness ------------------------------
(***************************************************************************)
(* Does the freshness rule of the scheduler (IsStale and isReleaseWindow)  *)
(* bring the ministry's releases into the database in time?  Time goes by  *)
(* in ticks of RefreshInterval, four to a day; at every tick the scheduler *)
(* checks once, and imports what the ministry offers if the rule says so.  *)
(* The ministry publishes a release on day 1, 11 or 21, or later.          *)
(*                                                                         *)
(* Times are kept relative to now, which makes the model finite: age is    *)
(* the time since import_completed_at, lag the time since the first        *)
(* release that readers do not have was published.                         *)
(***************************************************************************)
EXTENDS Integers

CONSTANTS
    FreshnessDays,  \* Config.FreshnessDays
    MonthLengths,   \* lengths a month may have
    MaxDelay,       \* ticks after 00:00 of its day a release may come
    MaxFailures     \* imports that fail in a row

ASSUME CalendarAssumption ==
    /\ FreshnessDays \in Nat
    /\ MonthLengths \subseteq 28..31
    /\ MaxDelay \in 0..(7 * 4) /\ MaxFailures \in Nat

\* No LOCKED snapshot; no release awaited.
Never == -1

TicksPerDay == 4
Threshold == FreshnessDays * TicksPerDay
ReleaseDays == {1, 11, 21}

VARIABLES
    month,     \* length of the current month
    day,       \* day of the month
    tick,      \* tick of the day
    checked,   \* this tick's check is done
    age,       \* ticks since the latest import, up to Threshold + 1
    due,       \* ticks until the awaited release is published
    lag,       \* ticks since a release was published that is not imported
    failures   \* imports failed in a row

vars == <<month, day, tick, checked, age, due, lag, failures>>
calendar == <<month, day, tick>>

Init == /\ month \in MonthLengths
        /\ day = 1 /\ tick = 0
        /\ checked = FALSE
        /\ age = Never
        /\ due = Never
        /\ lag = 1
        /\ failures = 0

----------------------------------------------------------------------------
\* isReleaseWindow: 1-3, 11-13, 21-23.
WindowDays(d) == d..(d + 2)
IsReleaseWindow == \E d \in ReleaseDays : day \in WindowDays(d)

\* Ticks since 00:00 of the first day of the current window.
SinceWindowStart ==
    LET first == CHOOSE d \in ReleaseDays : day \in WindowDays(d)
    IN  (day - first) * TicksPerDay + tick

\* Mutation: the age is not looked at.
TooOldNever == FALSE

TooOld == age > Threshold

\* Mutation: the release windows are not looked at.
IsStaleByAgeOnly == age = Never \/ TooOld

\* IsStale.  A snapshot imported before the window started is stale.
IsStale == \/ age = Never
           \/ TooOld
           \/ IsReleaseWindow /\ age > SinceWindowStart

----------------------------------------------------------------------------
Capped(n) == IF n > Threshold + 1 THEN Threshold + 1 ELSE n

\* The next tick.  On a release day the ministry fixes its delay.
Tick ==
    LET midnight == tick = TicksPerDay - 1
        turn     == midnight /\ day = month
        today    == IF turn THEN 1 ELSE IF midnight THEN day + 1 ELSE day
    IN  /\ checked
        /\ checked' = FALSE
        /\ tick' = (tick + 1) % TicksPerDay
        /\ day' = today
        /\ IF turn THEN month' \in MonthLengths ELSE UNCHANGED month
        /\ age' = IF age = Never THEN Never ELSE Capped(age + 1)
        /\ LET start == midnight /\ today \in ReleaseDays
               left  == IF due = Never THEN {Never} ELSE {due - 1}
           IN  \E t \in IF start THEN 0..MaxDelay ELSE left :
                  /\ due' = IF t = 0 THEN Never ELSE t
                  /\ lag' = IF lag > 0 THEN lag + 1 ELSE IF t = 0 THEN 1 ELSE 0
        /\ UNCHANGED failures

\* CheckAndRefresh: fresh, imported, or stale still because the import failed.
Check ==
    /\ ~checked /\ checked' = TRUE
    /\ UNCHANGED <<calendar, due>>
    /\ \/ ~IsStale /\ UNCHANGED <<age, lag, failures>>
       \/ IsStale /\ age' = 0 /\ lag' = 0 /\ failures' = 0
       \/ /\ IsStale /\ failures < MaxFailures
          /\ failures' = failures + 1
          /\ UNCHANGED <<age, lag>>

Next == Tick \/ Check

Spec == Init /\ [][Next]_vars

----------------------------------------------------------------------------
\* A release never waits longer for its readers than FreshnessDays, one tick
\* and the imports that failed, however late it was and whatever the months.
\* (Without TooOld a late release would wait for the next window only.)
LagIsBounded == lag <= Threshold + 1 + MaxFailures

\* Within a release window, once the tick's check is done, readers have a
\* snapshot imported in this window, unless the latest import failed.
WindowHasItsImport ==
    checked /\ IsReleaseWindow /\ failures = 0 => age \in 0..SinceWindowStart

\* scheduler.go:33: "Interval 6h so that delayed release (next working day)
\* is caught within hours, not missed by a single daily fetch": no release
\* that is out for a day is still not imported, if no import fails.
DelayedReleaseIsCaught == lag <= TicksPerDay
=============================================================================
