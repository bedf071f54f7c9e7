-------------------------- MODULE FreshnessProofs ---------------------------
(***************************************************************************)
(* Theorems about Freshness for any FreshnessDays, any delay of a release  *)
(* and any number of failures.                                             *)
(***************************************************************************)
EXTENDS Freshness, TLAPS

\* What the arithmetic needs to know of the variables.
Ranges == /\ day \in Nat /\ tick \in 0..(TicksPerDay - 1)
          /\ checked \in BOOLEAN
          /\ age \in (0..(Threshold + 1)) \cup {Never}
          /\ lag \in Nat
          /\ due \in Nat \cup {Never}
          /\ failures \in 0..MaxFailures

\* A release that is awaited came out after the latest import; once the data
\* are too old (or there are none), every check imports or fails.
LagFollowsAge ==
    LET tries == IF checked THEN failures ELSE failures + 1
    IN  /\ age = Never => lag <= tries
        /\ age \in 0..Threshold => lag <= age
        /\ age = Threshold + 1 => lag <= Threshold + tries

\* The inductive invariant.
IInv == Ranges /\ LagFollowsAge /\ WindowHasItsImport

USE DEF TicksPerDay, Never, calendar

\* The threshold is a whole number of ticks.
LEMMA ThresholdType == Threshold \in Nat
  BY CalendarAssumption DEF Threshold

\* A window has started before it is asked about.
LEMMA WindowStarted ==
    ASSUME Ranges, IsReleaseWindow
    PROVE  SinceWindowStart \in Nat
  <1> DEFINE first == CHOOSE d \in ReleaseDays : day \in WindowDays(d)
  <1>1. first \in ReleaseDays /\ day \in WindowDays(first)
    BY DEF IsReleaseWindow
  <1>2. SinceWindowStart = (day - first) * TicksPerDay + tick
    BY DEF SinceWindowStart
  <1> HIDE DEF first
  <1>3. first \in Nat /\ first <= day
    BY <1>1 DEF ReleaseDays, WindowDays, Ranges
  <1> QED
    BY <1>2, <1>3 DEF Ranges

\* A tick makes the awaited release a tick older, and so the latest import.
LEMMA TickKeepsIInv ==
    ASSUME IInv, Tick
    PROVE  IInv'
  <1>1. /\ checked /\ checked' = FALSE
        /\ age' = IF age = Never THEN Never ELSE Capped(age + 1)
        /\ lag' \in {0, 1, lag + 1} /\ (lag' = lag + 1 \/ lag = 0)
        /\ failures' = failures
    BY DEF Tick, IInv, Ranges
  <1>2. Ranges'
    <2>1. day' \in Nat
      BY DEF Tick, IInv, Ranges
    <2>2. tick' \in 0..(TicksPerDay - 1)
      BY DEF Tick, IInv, Ranges
    <2>3. age' \in (0..(Threshold + 1)) \cup {Never}
      BY <1>1, ThresholdType DEF IInv, Ranges, Capped
    <2>4. due' \in Nat \cup {Never}
      BY CalendarAssumption DEF Tick, IInv, Ranges
    <2>5. checked' \in BOOLEAN
      BY <1>1
    <2>6. lag' \in Nat /\ failures' \in 0..MaxFailures
      BY <1>1 DEF IInv, Ranges
    <2> QED
      BY <2>1, <2>2, <2>3, <2>4, <2>5, <2>6 DEF Ranges
  <1>3. LagFollowsAge'
    BY <1>1, ThresholdType, CalendarAssumption DEF IInv, Ranges, LagFollowsAge, Capped
  <1>4. WindowHasItsImport'
    BY <1>1 DEF WindowHasItsImport
  <1> QED
    BY <1>2, <1>3, <1>4 DEF IInv

\* A check leaves fresh data alone, imports, or adds to the failures.
LEMMA CheckKeepsIInv ==
    ASSUME IInv, Check
    PROVE  IInv'
  <1> USE ThresholdType, CalendarAssumption
  <1>0. /\ ~checked /\ checked' /\ UNCHANGED <<calendar, due>>
        /\ IsReleaseWindow' = IsReleaseWindow
        /\ SinceWindowStart' = SinceWindowStart
    BY DEF Check, IsReleaseWindow, SinceWindowStart
  <1>1. CASE ~IsStale /\ UNCHANGED <<age, lag, failures>>
    <2>1. Ranges'
      BY <1>0, <1>1 DEF IInv, Ranges
    <2>2. LagFollowsAge'
      BY <1>0, <1>1 DEF IInv, Ranges, LagFollowsAge, IsStale, TooOld
    <2>3. WindowHasItsImport'
      BY <1>0, <1>1, WindowStarted DEF IInv, Ranges, WindowHasItsImport, IsStale
    <2> QED
      BY <2>1, <2>2, <2>3 DEF IInv
  <1>2. CASE age' = 0 /\ lag' = 0 /\ failures' = 0
    <2>1. Ranges' /\ LagFollowsAge'
      BY <1>0, <1>2 DEF IInv, Ranges, LagFollowsAge
    <2>2. WindowHasItsImport'
      BY <1>0, <1>2, WindowStarted DEF IInv, WindowHasItsImport
    <2> QED
      BY <2>1, <2>2 DEF IInv
  <1>3. CASE /\ failures < MaxFailures /\ failures' = failures + 1
             /\ UNCHANGED <<age, lag>>
    BY <1>0, <1>3 DEF IInv, Ranges, LagFollowsAge, WindowHasItsImport
  <1> QED
    BY <1>1, <1>2, <1>3 DEF Check

\* The strengthened invariant holds in every reachable state.
THEOREM Invariant == Spec => []IInv
  <1>1. ASSUME Init PROVE IInv
    <2>1. checked \in BOOLEAN /\ ~checked
      BY <1>1 DEF Init
    <2>2. Ranges
      BY <1>1, <2>1, CalendarAssumption, ThresholdType DEF Init, Ranges
    <2>3. LagFollowsAge
      BY <1>1, <2>1, ThresholdType DEF Init, LagFollowsAge
    <2> QED
      BY <2>1, <2>2, <2>3 DEF IInv, WindowHasItsImport
  <1>2. IInv /\ [Next]_vars => IInv'
    <2>1. ASSUME IInv, UNCHANGED vars PROVE IInv'
      BY <2>1 DEF vars, IInv, Ranges, LagFollowsAge, WindowHasItsImport,
                  IsReleaseWindow, SinceWindowStart
    <2> QED
      BY <2>1, TickKeepsIInv, CheckKeepsIInv DEF Next
  <1> QED
    BY <1>1, <1>2, PTL DEF Spec

\* No release waits longer than FreshnessDays, a tick and the failed imports.
THEOREM Bounded == Spec => []LagIsBounded
  <1>1. IInv => LagIsBounded
    BY ThresholdType, CalendarAssumption DEF IInv, Ranges, LagFollowsAge, LagIsBounded
  <1> QED
    BY <1>1, Invariant, PTL

\* In a window, a check that does not fail leaves an import of the window.
THEOREM WindowImport == Spec => []WindowHasItsImport
  <1>1. IInv => WindowHasItsImport
    BY DEF IInv
  <1> QED
    BY <1>1, Invariant, PTL
=============================================================================
