------------------------------ MODULE AppState ------------------------------
(***************************************************************************)
(* frontend/src/hooks/useAppState.ts as App.tsx uses it: the search box,   *)
(* the parcel chosen from its results and all that is shown of it.  Every  *)
(* answer may be late: a search, a load, the filters and the lookup of a   *)
(* transaction may be started again while earlier ones wait for theirs.    *)
(*                                                                         *)
(* What the page shows is told by where it came from: results by the       *)
(* number of their search, all else by the parcel it is about.             *)
(***************************************************************************)
EXTENDS Integers, Sequences

CONSTANTS
    Parcels,
    Dependents,    \* what is loaded after the parcel
    Outcomes,      \* which of these may come together: in the code any may
    MaxRetries,    \* maxRetries of withRetry
    MaxSearches,   \* bound: searches
    MaxLoads,      \* bound: parcels chosen
    None           \* null, or no rows

\* What no load replaces: selectedTransaction, selectedComparable,
\* valuationExplanation (which is set, never emptied), and the explanation App
\* keeps of its own and shows in place of that one.
Leftovers == {"transaction", "comparable", "explanation", "explained"}

\* "parcel" stands for selectedParcel, parcelInfo and mapContext, set together.
Slices == {"parcel"} \cup Dependents \cup Leftovers

ASSUME DependentsAssumption ==
    /\ {"transactions", "statistics", "comparables", "valuation"} \subseteq Dependents
    /\ Dependents \cap (Leftovers \cup {"parcel"}) = {}
    /\ Outcomes \subseteq SUBSET Dependents

VARIABLES
    searches,      \* the searches by searchSeqRef: [at, tries]
    loading,       \* searchLoading
    results,       \* the search searchResults come from, 0 for none
    selected,      \* selectedParcelIdentity
    view,          \* [Slices -> the parcel what is shown there is about]
    loads,         \* the runs of loadParcel: [parcel, at]
    filters,       \* the loads since which applyFilters was called, and before the next
    lookups,       \* calls for one transaction or explanation: [slice, of, from]
    late           \* slices of Leftovers the last load found, and those to which an
                   \* answer to an earlier call came after its own

searchvars == <<searches, loading, results>>
loadvars == <<selected, view, loads, filters, lookups, late>>

AppInit ==
    /\ searches = <<>> /\ loading = FALSE /\ results = 0
    /\ selected = None /\ view = [s \in Slices |-> None]
    /\ loads = <<>> /\ filters = {} /\ lookups = {} /\ late = {}

----------------------------------------------------------------------------
(* The search box *)

Current(n) == n = Len(searches)

SearchStarts(stage) ==
    /\ Len(searches) < MaxSearches
    /\ searches' = Append(searches, [at |-> stage, tries |-> 0])

\* Nothing but blanks: the results go, and with them any earlier search.
SearchBlank == SearchStarts("ended") /\ loading' = FALSE /\ results' = 0

\* Without county and district the loading flag is set and cleared at once.
SearchIncomplete == SearchStarts("ended") /\ loading' = FALSE /\ UNCHANGED results

SearchFull == SearchStarts("waiting") /\ loading' = TRUE /\ UNCHANGED results

Waiting(n) == searches[n].at = "waiting"

\* withRetry: an error that may pass is tried again, at most MaxRetries
\* times, even for a search that a newer one has overtaken.
Retry(n) ==
    /\ Waiting(n) /\ searches[n].tries < MaxRetries
    /\ searches' = [searches EXCEPT ![n].tries = @ + 1]
    /\ UNCHANGED <<loading, results>>

SearchEnds(n, stage) == searches' = [searches EXCEPT ![n].at = stage]

\* Mutation: a late answer is shown.
SearchAnswersLate(n) ==
    /\ Waiting(n)
    /\ SearchEnds(n, "shown") /\ loading' = FALSE /\ results' = n

\* "Stale check - ignore if user has issued a newer search".
SearchAnswers(n) ==
    /\ Waiting(n)
    /\ IF Current(n)
       THEN SearchEnds(n, "shown") /\ loading' = FALSE /\ results' = n
       ELSE SearchEnds(n, "ended") /\ UNCHANGED <<loading, results>>

\* A time limit, an error that does not pass, or one too many.
SearchFails(n) ==
    /\ Waiting(n)
    /\ SearchEnds(n, "ended")
    /\ loading' = (loading /\ ~Current(n)) /\ UNCHANGED results

\* A search under way stays so, and shows its results later.
ClearSearch == results' = 0 /\ UNCHANGED <<searches, loading>>

SearchNext ==
    \/ SearchBlank \/ SearchIncomplete \/ SearchFull
    \/ \E n \in DOMAIN searches : Retry(n) \/ SearchAnswers(n) \/ SearchFails(n)

----------------------------------------------------------------------------
(* The parcel and what depends on it *)

Last == Len(loads)

\* setState with an answer to a call made since load n, and before the next.
Show(values, n) ==
    /\ view' = [s \in Slices |-> IF s \in DOMAIN values THEN values[s] ELSE view[s]]
    /\ late' = IF n = Last THEN late \ DOMAIN values ELSE late \cup DOMAIN values

LoadStage(n, stage) == loads' = [loads EXCEPT ![n].at = stage]

\* loadParcel has no number to tell its answers by, and empties nothing: what
\* is in view stays until the answers are there.
LoadParcel(p) ==
    /\ Last < MaxLoads
    /\ selected' = p
    /\ loads' = Append(loads, [parcel |-> p, at |-> "info"])
    /\ late' = Leftovers
    /\ UNCHANGED <<view, filters, lookups>>

Following == [info |-> "geometry", geometry |-> "context"]

\* The three calls, each within withRetry; nothing is shown before the third.
LoadAnswers(n) ==
    /\ loads[n].at \in {"info", "geometry"}
    /\ LoadStage(n, Following[loads[n].at])
    /\ UNCHANGED <<selected, view, filters, lookups, late>>

\* The old parcel stays in view under the new one's name.
LoadFails(n) ==
    /\ loads[n].at \in {"info", "geometry", "context"}
    /\ LoadStage(n, "failed")
    /\ UNCHANGED <<selected, view, filters, lookups, late>>

ShowParcel(n) ==
    /\ loads[n].at = "context"
    /\ Show([s \in {"parcel"} |-> loads[n].parcel], n)
    /\ LoadStage(n, "dependents")
    /\ UNCHANGED <<selected, filters, lookups>>

\* Mutation: what could not be loaded stays as it was.
ShowDependentsLoaded(n) ==
    /\ loads[n].at = "dependents"
    /\ \E ok \in Outcomes :
          /\ Show([d \in Dependents |-> IF d \in ok THEN loads[n].parcel ELSE view[d]], n)
          /\ LoadStage(n, IF "valuation" \in ok THEN "explanation" ELSE "done")
    /\ UNCHANGED <<selected, filters, lookups>>

\* Promise.allSettled: what could not be loaded is emptied.
ShowDependents(n) ==
    /\ loads[n].at = "dependents"
    /\ \E ok \in Outcomes :
          /\ Show([d \in Dependents |-> IF d \in ok THEN loads[n].parcel ELSE None], n)
          /\ LoadStage(n, IF "valuation" \in ok THEN "explanation" ELSE "done")
    /\ UNCHANGED <<selected, filters, lookups>>

\* The explanation is asked for after a valuation only; without an answer the
\* earlier one stays.
ShowExplanation(n) ==
    /\ loads[n].at = "explanation"
    /\ Show([s \in {"explanation"} |-> loads[n].parcel], n) \/ UNCHANGED <<view, late>>
    /\ LoadStage(n, "done")
    /\ UNCHANGED <<selected, filters, lookups>>

ApplyFilters ==
    /\ selected # None
    /\ filters' = filters \cup {Last}
    /\ UNCHANGED <<selected, view, loads, lookups, late>>

\* The transactions of the parcel that was selected when they were asked for,
\* and their statistics when they come along; on an error those in view stay.
\* Filters may be applied again and again, so one answer is not the last.
FiltersApplied(n) ==
    /\ \E changed \in {{"transactions"}, {"transactions", "statistics"}} :
          Show([s \in changed |-> loads[n].parcel], n)
    /\ UNCHANGED <<selected, loads, filters, lookups>>

\* The load whose answer is in view, as a number: the last one, or an earlier.
From(s) == IF s \notin late /\ Last > 0 /\ loads[Last].at \in {"explanation", "done"}
           THEN Last ELSE 0

Lookup(slice, of, from) ==
    lookups' = lookups \cup {[slice |-> slice, of |-> of, from |-> from]}

\* A row of the list is selected, and loadTransaction asks for it in full.
SelectTransaction ==
    /\ view["transactions"] # None
    /\ Show([s \in {"transaction"} |-> view["transactions"]], From("transactions"))
    /\ Lookup("transaction", view["transactions"], From("transactions"))
    /\ UNCHANGED <<selected, loads, filters>>

SelectComparable ==
    /\ view["comparables"] # None
    /\ Show([s \in {"comparable", "transaction"} |->
                IF s = "comparable" THEN view["comparables"] ELSE None], From("comparables"))
    /\ UNCHANGED <<selected, loads, filters, lookups>>

\* The button of the valuation panel.
AskExplanation ==
    /\ view["valuation"] # None
    /\ Lookup("explained", view["valuation"], From("valuation"))
    /\ UNCHANGED <<selected, view, loads, filters, late>>

\* Neither answer is told from one that came too late; an error changes
\* nothing here.
LookupAnswers(l) ==
    /\ Show([s \in {l.slice} |-> l.of], l.from)
    /\ UNCHANGED <<selected, loads, filters, lookups>>

LoadNext ==
    \/ \E n \in DOMAIN loads : \/ LoadAnswers(n) \/ LoadFails(n) \/ ShowParcel(n)
                               \/ ShowDependents(n) \/ ShowExplanation(n)
    \/ ApplyFilters \/ SelectTransaction \/ SelectComparable \/ AskExplanation
    \/ \E n \in filters : FiltersApplied(n)
    \/ \E l \in lookups : LookupAnswers(l)

\* handleSelectResult of App: loadParcel, then clearSearch.
SelectResult(p) == results # 0 /\ LoadParcel(p) /\ ClearSearch

AppNext == \/ SearchNext /\ UNCHANGED loadvars
           \/ LoadNext /\ UNCHANGED searchvars
           \/ \E p \in Parcels : SelectResult(p)

AppSpec == AppInit /\ [][AppNext]_<<searchvars, loadvars>>

----------------------------------------------------------------------------
\* Clicking rapidly in the search box does no harm: the page is loading just
\* while the newest search is under way, and never shows the results of a
\* search after those of a newer one.
SearchShowsTheLatest ==
    /\ loading <=> searches # <<>> /\ Waiting(Len(searches))
    /\ results # 0 => \A n \in results + 1 .. Len(searches) : searches[n].at # "shown"

\* When the parcel selected last is loaded, however many were selected before
\* and whatever failed, all that is in view is of it, or empty: but for what no
\* load replaces, and for what an answer to an earlier call has replaced since.
ShownIsSelected ==
    loads # <<>> /\ loads[Last].at = "done" =>
        \A s \in Slices : s \in late \/ view[s] \in {selected, None}
=============================================================================
