----------------------------- MODULE Scheduler ------------------------------
(***************************************************************************)
(* internal/scheduler: the servers that share the database each have one   *)
(* Scheduler, a mutex that lets one import run at a time, and a progress   *)
(* record the frontend polls.  A call is a goroutine that enters           *)
(*   - "check": CheckAndRefresh, from the startup check, the ticker or the *)
(*     tool trigger_data_refresh;                                          *)
(*   - "force": ForceRefresh, from trigger_data_refresh with force;        *)
(*   - "zip":   ImportLocalZip, from POST /admin/import;                   *)
(* it may be made again once it has returned.  What an import does to the  *)
(* database is ImportPipeline's business; here it fails, or succeeds and   *)
(* makes the data fresh (IsStale finds the new LOCKED snapshot), until a   *)
(* release or old age makes them stale.                                    *)
(***************************************************************************)
EXTENDS Integers

CONSTANTS
    Servers,
    Calls,
    ServerOf,   \* [Calls -> Servers]
    KindOf,     \* [Calls -> {"check", "force", "zip"}]
    Enabled,    \* the servers with AUTO_REFRESH_ENABLED
    HasUrl,     \* the servers with DATA_IMPORT_URL or AUTO_DISCOVER
    NoCall,     \* nobody
    NoServer    \* the data are stale

ASSUME CallAssumption ==
    /\ ServerOf \in [Calls -> Servers]
    /\ KindOf \in [Calls -> {"check", "force", "zip"}]
    /\ Enabled \subseteq Servers /\ HasUrl \subseteq Servers
    /\ NoCall \notin Calls /\ NoServer \notin Servers

VARIABLES
    pc,        \* where each call is
    mutex,     \* Scheduler.mu of each server: the call that holds it
    progress,  \* Scheduler.progress of each server
    freshBy,   \* the server whose import made the data fresh
    guessed    \* the calls that take the data for stale on a query error

vars == <<pc, mutex, progress, freshBy, guessed>>

\* Stages at which a call holds the mutex; "release" is the deferred Unlock.
Working == {"checking", "discovering", "importing", "imported", "stat"}
Holding == Working \cup {"release"}

\* startedBy stands for StartedAt: the call at whose start it was set.
Progress == [running   : BOOLEAN,
             stage     : {"", "idle", "checking", "discovering", "importing", "done"},
             startedBy : Calls \cup {NoCall},
             error     : BOOLEAN]

ZeroProgress == [running |-> FALSE, stage |-> "", startedBy |-> NoCall,
                 error |-> FALSE]

Init == /\ pc = [c \in Calls |-> "idle"]
        /\ mutex = [s \in Servers |-> NoCall]
        /\ progress = [s \in Servers |-> ZeroProgress]
        /\ freshBy = NoServer
        /\ guessed = {}

----------------------------------------------------------------------------
Goto(c, stage) == pc' = [pc EXCEPT ![c] = stage]

\* setProgress: StartedAt is set when it is nil and kept otherwise, and
\* cleared when the import is over.
SetProgress(c, run, stage) ==
    progress' = [progress EXCEPT ![ServerOf[c]] =
        [running   |-> run,
         stage     |-> stage,
         startedBy |-> IF ~run THEN NoCall
                       ELSE IF @.startedBy = NoCall THEN c ELSE @.startedBy,
         error     |-> FALSE]]

\* setProgressError: not running any more; stage and StartedAt stay.
SetProgressError(c) ==
    progress' = [progress EXCEPT ![ServerOf[c]].running = FALSE,
                                 ![ServerOf[c]].error = TRUE]

Free(c) == mutex[ServerOf[c]] = NoCall
Take(c) == mutex' = [mutex EXCEPT ![ServerOf[c]] = c]

\* A tick, a tool call or an upload.  A disabled scheduler starts no ticker
\* and its CheckAndRefresh and ForceRefresh return at once.
Request(c) ==
    /\ pc[c] = "idle"
    /\ KindOf[c] = "zip" \/ ServerOf[c] \in Enabled
    /\ Goto(c, "requested")
    /\ UNCHANGED <<mutex, progress, freshBy, guessed>>

\* Mutation: freshness is read before the lock is tried, and not again.
FindStaleUnlocked(c) ==
    /\ pc[c] = "checking"
    /\ SetProgress(c, TRUE, "discovering")
    /\ Goto(c, "discovering")
    /\ UNCHANGED <<mutex, freshBy, guessed>>

\* TryLock fails: CheckAndRefresh and ImportLocalZip give up.
GiveUp(c) ==
    /\ pc[c] = "requested" /\ KindOf[c] # "force" /\ ~Free(c)
    /\ Goto(c, "idle")
    /\ UNCHANGED <<mutex, progress, freshBy, guessed>>

EnterCheck(c) ==
    /\ pc[c] = "requested" /\ KindOf[c] = "check" /\ Free(c)
    /\ Take(c)
    /\ SetProgress(c, TRUE, "checking")
    /\ Goto(c, "checking")
    /\ UNCHANGED <<freshBy, guessed>>

\* ForceRefresh waits in Lock for as long as it takes.
EnterForce(c) ==
    /\ pc[c] = "requested" /\ KindOf[c] = "force" /\ Free(c)
    /\ Take(c)
    /\ SetProgress(c, TRUE, "discovering")
    /\ Goto(c, "discovering")
    /\ UNCHANGED <<freshBy, guessed>>

\* Mutation: an upload takes no lock.
EnterZipUnlocked(c) ==
    /\ pc[c] = "requested" /\ KindOf[c] = "zip"
    /\ Goto(c, "stat")
    /\ UNCHANGED <<mutex, progress, freshBy, guessed>>

EnterZip(c) ==
    /\ pc[c] = "requested" /\ KindOf[c] = "zip" /\ Free(c)
    /\ Take(c)
    /\ Goto(c, "stat")
    /\ UNCHANGED <<progress, freshBy, guessed>>

\* ImportLocalZip: os.Stat, before any progress is told.  Another upload of
\* that name may have removed the file.
StatZip(c) ==
    /\ pc[c] = "stat"
    /\ \/ SetProgress(c, TRUE, "importing") /\ Goto(c, "importing")
       \/ Goto(c, "release") /\ UNCHANGED progress
    /\ UNCHANGED <<mutex, freshBy, guessed>>

\* IsStale under the mutex.  A query error counts as stale.
FindFresh(c) ==
    /\ pc[c] = "checking" /\ freshBy # NoServer
    /\ SetProgress(c, FALSE, "idle")
    /\ Goto(c, "release")
    /\ UNCHANGED <<mutex, freshBy, guessed>>

FindStale(c) ==
    /\ pc[c] = "checking"
    /\ \/ freshBy = NoServer /\ UNCHANGED guessed
       \/ guessed' = guessed \cup {c}
    /\ SetProgress(c, TRUE, "discovering")
    /\ Goto(c, "discovering")
    /\ UNCHANGED <<mutex, freshBy>>

\* The configured URL, or the one AutoDiscoverLatestURL gives.  Nothing
\* happens between the stages "downloading" and "importing", which are one.
Discover(c) ==
    /\ pc[c] = "discovering"
    /\ IF ServerOf[c] \in HasUrl
       THEN SetProgress(c, TRUE, "importing") /\ Goto(c, "importing")
       ELSE SetProgressError(c) /\ Goto(c, "release")
    /\ UNCHANGED <<mutex, freshBy, guessed>>

\* ImportFromSource: the COMMIT is seen by all servers before the call that
\* made it has told its progress.
ImportCommits(c) ==
    /\ pc[c] = "importing"
    /\ freshBy' = ServerOf[c]
    /\ Goto(c, "imported")
    /\ UNCHANGED <<mutex, progress, guessed>>

\* Mutations: the error is returned and not told to the pollers; the error
\* path forgets to unlock; the progress record has a stage of its own.
ImportFailsUntold(c) ==
    /\ pc[c] = "importing"
    /\ Goto(c, "release")
    /\ UNCHANGED <<mutex, progress, freshBy, guessed>>

ImportFailsLocked(c) ==
    /\ pc[c] = "importing"
    /\ SetProgressError(c)
    /\ Goto(c, "idle")
    /\ UNCHANGED <<mutex, freshBy, guessed>>

ImportFailsStaged(c) ==
    /\ pc[c] = "importing"
    /\ SetProgress(c, FALSE, "failed")
    /\ Goto(c, "release")
    /\ UNCHANGED <<mutex, freshBy, guessed>>

ImportFails(c) ==
    /\ pc[c] = "importing"
    /\ SetProgressError(c)
    /\ Goto(c, "release")
    /\ UNCHANGED <<mutex, freshBy, guessed>>

\* ... and may be answered by an error all the same.
Finish(c) ==
    /\ pc[c] = "imported"
    /\ SetProgress(c, FALSE, "done") \/ SetProgressError(c)
    /\ Goto(c, "release")
    /\ UNCHANGED <<mutex, freshBy, guessed>>

Release(c) ==
    /\ pc[c] = "release"
    /\ mutex' = [mutex EXCEPT ![ServerOf[c]] = NoCall]
    /\ guessed' = guessed \ {c}
    /\ Goto(c, "idle")
    /\ UNCHANGED <<progress, freshBy>>

\* The data age: a release of the ministry, or FreshnessDays have passed.
Age == /\ freshBy # NoServer
       /\ freshBy' = NoServer
       /\ UNCHANGED <<pc, mutex, progress, guessed>>

\* A server is killed and restarted: its Scheduler is new.
Restart(s) ==
    /\ pc' = [c \in Calls |-> IF ServerOf[c] = s THEN "idle" ELSE pc[c]]
    /\ mutex' = [mutex EXCEPT ![s] = NoCall]
    /\ progress' = [progress EXCEPT ![s] = ZeroProgress]
    /\ guessed' = {c \in guessed : ServerOf[c] # s}
    /\ UNCHANGED freshBy

Run(c) == \/ GiveUp(c) \/ EnterCheck(c) \/ EnterZip(c) \/ StatZip(c)
          \/ FindFresh(c) \/ FindStale(c) \/ Discover(c) \/ ImportCommits(c)
          \/ ImportFails(c) \/ Finish(c) \/ Release(c)

Next == \/ \E c \in Calls : Request(c) \/ EnterForce(c) \/ Run(c)
        \/ Age
        \/ \E s \in Servers : Restart(s)

Spec == Init /\ [][Next]_vars

\* A goroutine that can run does; an import ends (ImportPipeline's
\* EveryRunEnds, and the 30 minutes of the context); a sync.Mutex in its
\* starvation mode hands over to a goroutine that has waited for 1 ms, before
\* any TryLock.
Fairness == \A c \in Calls : WF_vars(Run(c)) /\ SF_vars(EnterForce(c))

FairSpec == Spec /\ Fairness

----------------------------------------------------------------------------
\* Every variable keeps to its range.
TypeOK == /\ pc \in [Calls -> {"idle", "requested"} \cup Holding]
          /\ mutex \in [Servers -> Calls \cup {NoCall}]
          /\ progress \in [Servers -> Progress]
          /\ freshBy \in Servers \cup {NoServer}
          /\ guessed \subseteq Calls

\* What get_import_progress tells is what the call that holds the mutex is
\* doing: "running" with its stage while it works, and never "running" once
\* it has finished, failed or released, so that no poller waits for an import
\* that is over.
ProgressFollowsHolder ==
    \A s \in Servers :
        LET c == mutex[s]
        IN  IF c # NoCall /\ pc[c] \in Working \ {"stat"}
            THEN /\ progress[s].running
                 /\ progress[s].stage = IF pc[c] = "imported" THEN "importing"
                                        ELSE pc[c]
            ELSE ~progress[s].running

\* A server works on one import at a time: whatever the mix of ticks, tool
\* calls and uploads, a call past the lock is the one that holds the mutex.
OneImportPerServer ==
    \A c \in Calls : pc[c] \in Holding <=> mutex[ServerOf[c]] = c

\* CheckAndRefresh reads freshness under the mutex, so a server does not
\* import again what another of its calls has just imported (a query error
\* apart): two triggers and a tick make one import.
NoRedundantRefresh ==
    \A c \in Calls :
        /\ KindOf[c] = "check" /\ c \notin guessed
        /\ pc[c] \in {"discovering", "importing"}
        => freshBy # ServerOf[c]

\* Every call returns, a ForceRefresh that waits for the mutex too.
EveryCallReturns == \A c \in Calls : pc[c] # "idle" ~> pc[c] = "idle"

\* scheduler.go:91: "ImportProgress tracks current import": while an import
\* runs, StartedAt is the time at which this import, not an earlier one, took
\* the mutex.
StartedAtIsCurrent ==
    \A s \in Servers : progress[s].running => progress[s].startedBy = mutex[s]
=============================================================================
