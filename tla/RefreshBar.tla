----------------------------- MODULE RefreshBar -----------------------------
(***************************************************************************)
(* The bar of frontend/src/components/DataFreshnessBar.tsx, which starts a *)
(* refresh or an upload and polls the server's progress record until it is *)
(* final, and of the server as much as the bar sees: the tool              *)
(* trigger_data_refresh, POST /admin/import and the record of the module   *)
(* Scheduler.                                                              *)
(*                                                                         *)
(* One record stands for the server.  The deployment has two replicas with *)
(* a record each, and a poll may be answered by the one that imports       *)
(* nothing; RefreshEnds speaks of the record that the polls are answered.  *)
(***************************************************************************)
EXTENDS Integers

CONSTANT
    MaxRefreshes   \* bound: refreshes and uploads asked for

VARIABLES
    refreshing,  \* the state of that name: the buttons are disabled, polls run
    asked,       \* refreshes and uploads asked for
    triggers,    \* of these, the requests that are not answered yet
    polls,       \* the records in the answers to polls that are on their way
    reloading,   \* the page reloads in 1.5 s
    record,      \* the server's progress record
    pending      \* goroutines the server has started and that have not begun

bvars == <<refreshing, asked, triggers, polls, reloading, record, pending>>

\* "unset" is the zero record, and that of a server without scheduler.
Final == {"done", "error"}
Records == {"unset", "running"} \cup Final

BarInit ==
    /\ refreshing = FALSE /\ asked = 0 /\ triggers = 0 /\ polls = {}
    /\ reloading = FALSE /\ record \in Records /\ pending = 0

\* handleRefresh and handleZipUpload: the buttons are disabled meanwhile.
Refresh ==
    /\ ~refreshing /\ asked < MaxRefreshes
    /\ refreshing' = TRUE /\ asked' = asked + 1 /\ triggers' = triggers + 1
    /\ UNCHANGED <<polls, reloading, record, pending>>

\* "started": the goroutine begins later, or waits for the mutex.
ServerStarts ==
    /\ triggers > 0
    /\ triggers' = triggers - 1 /\ pending' = pending + 1
    /\ UNCHANGED <<refreshing, asked, polls, reloading, record>>

\* The data are fresh: an answer without an error, on which nothing follows.
ServerNeedNotStart ==
    /\ triggers > 0
    /\ triggers' = triggers - 1
    /\ UNCHANGED <<refreshing, asked, polls, reloading, record, pending>>

\* An error answer, or none in time: what it started may run all the same.
TriggerFails ==
    /\ triggers > 0
    /\ refreshing' = FALSE /\ triggers' = triggers - 1
    /\ pending' \in {pending, pending + 1}
    /\ UNCHANGED <<asked, polls, reloading, record>>

\* A goroutine that finds the scheduler disabled, busy or the data fresh by
\* now changes nothing; another one imports.
Begin ==
    /\ pending > 0
    /\ pending' = pending - 1
    /\ record' \in {record, "running"}
    /\ UNCHANGED <<refreshing, asked, triggers, polls, reloading>>

\* An import ends.  A check that finds the data fresh tells percent 100 too,
\* so the bar takes its record for that of an import.
End ==
    /\ record = "running"
    /\ record' \in Final
    /\ UNCHANGED <<refreshing, asked, triggers, polls, reloading, pending>>

\* Every 2 s while refreshing; an earlier poll may still be on its way.
Poll ==
    /\ refreshing
    /\ polls' = polls \cup {record}
    /\ UNCHANGED <<refreshing, asked, triggers, reloading, record, pending>>

\* Neither the tool nor /admin/progress answers: fetchProgress gives null.
PollFails(p) ==
    /\ polls' = polls \ {p}
    /\ UNCHANGED <<refreshing, asked, triggers, reloading, record, pending>>

\* "done" (percent 100, not running, no error) reloads the page, an error
\* only ends the polling, and any other record is shown.
PollAnswers(p) ==
    /\ polls' = polls \ {p}
    /\ refreshing' = (refreshing /\ p \notin Final)
    /\ reloading' = (reloading \/ p = "done")
    /\ UNCHANGED <<asked, triggers, record, pending>>

\* The page forgets everything but what the server knows.
Reload ==
    /\ reloading
    /\ refreshing' = FALSE /\ triggers' = 0 /\ polls' = {} /\ reloading' = FALSE
    /\ pending' \in pending..(pending + triggers)
    /\ UNCHANGED <<asked, record>>

BarNext ==
    \/ Refresh \/ ServerStarts \/ ServerNeedNotStart \/ TriggerFails \/ Begin \/ End
    \/ Poll \/ Reload
    \/ \E p \in polls : PollFails(p) \/ PollAnswers(p)

\* Timers fire, and of the polls sent without end some are answered.
BarFairness ==
    /\ WF_bvars(Poll) /\ WF_bvars(Reload)
    /\ \A p \in Records : SF_bvars(p \in polls /\ PollAnswers(p))

----------------------------------------------------------------------------
\* The buttons come back: the bar does not wait on a record that is final.
RefreshEnds == []<>(~refreshing \/ record \notin Final)
=============================================================================
