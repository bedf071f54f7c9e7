------------------------------- MODULE MCPage -------------------------------
(***************************************************************************)
(* The page in the browser.  Its parts share no state, so each behavior    *)
(* exercises one of them.  The two halves of AppState meet in SelectResult *)
(* only, which a part of few steps shows; apart from it each half is run   *)
(* with what SelectResult does to it, at any time.                         *)
(*                                                                         *)
(* Bounds of "selection": the first parcel is a given one and the second   *)
(* another, since their names mean nothing; and one lookup and the filters *)
(* of one load are on their way, to be answered any number of times.       *)
(***************************************************************************)
EXTENDS FiniteSets, McpSession, AppState, RefreshBar, MapsLoader

VARIABLE part

vars == <<part, svars, searchvars, loadvars, bvars, mvars>>

Init == /\ part \in {"session", "app", "search", "selection", "refresh", "map"}
        /\ SessionInit /\ AppInit /\ BarInit /\ MapsInit

FirstIsGiven == loads'[1].parcel = CHOOSE p \in Parcels : TRUE

Next ==
    \/ part = "session" /\ SessionNext /\ UNCHANGED <<part, searchvars, loadvars, bvars, mvars>>
    \/ /\ part = "app" /\ AppNext
       /\ Len(searches') <= 1 /\ Len(loads') <= 1 /\ filters' = {} /\ lookups' = {}
       /\ UNCHANGED <<part, svars, bvars, mvars>>
    \/ part = "search" /\ SearchNext /\ UNCHANGED <<part, svars, loadvars, bvars, mvars>>
    \/ part = "search" /\ ClearSearch /\ UNCHANGED <<part, svars, loadvars, bvars, mvars>>
    \/ /\ part = "selection" /\ (\E p \in Parcels \ {selected} : LoadParcel(p)) /\ FirstIsGiven
       /\ UNCHANGED <<part, svars, searchvars, bvars, mvars>>
    \/ /\ part = "selection" /\ LoadNext
       /\ Cardinality(filters') <= 1 /\ Cardinality(lookups') <= 1
       /\ UNCHANGED <<part, svars, searchvars, bvars, mvars>>
    \/ part = "refresh" /\ BarNext /\ UNCHANGED <<part, svars, searchvars, loadvars, mvars>>
    \/ part = "map" /\ MapsNext /\ UNCHANGED <<part, svars, searchvars, loadvars, bvars>>

Spec == Init /\ [][Next]_vars

\* In the parts a behavior does not exercise none of these is ever enabled.
FairSpec == Spec /\ SessionFairness /\ BarFairness /\ MapsFairness

\* No call hangs and no button stays disabled for a reason that has passed.
PageNeverHangs == EveryCallEnds /\ RefreshEnds /\ MapEnds
=============================================================================
