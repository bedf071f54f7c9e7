----------------------------- MODULE MapsLoader -----------------------------
(***************************************************************************)
(* The map of the page when MAP_PROVIDER is "google": useGoogleMaps, which *)
(* each mount of the map runs, loadGoogleMapsWithRetry, and the promise    *)
(* loadGoogleMaps keeps for ever, a rejected one included.                 *)
(***************************************************************************)
EXTENDS Integers

CONSTANTS
    Mounts,      \* runs of the effect of useGoogleMaps
    MapRetries   \* maxRetries

VARIABLES
    promise,   \* loadPromise: "null", "pending", "resolved", "rejected"
    mount      \* [Mounts -> [at, tries]]

mvars == <<promise, mount>>

MapsInit == promise = "null" /\ mount = [m \in Mounts |-> [at |-> "idle", tries |-> 0]]

MountTo(m, stage, tries) == mount' = [mount EXCEPT ![m] = [at |-> stage, tries |-> tries]]

\* One attempt: the script is asked for by the first of all attempts only.
Load(m) ==
    /\ mount[m].at \in {"idle", "backoff"}
    /\ MountTo(m, "loading", mount[m].tries)
    /\ promise' = IF promise = "null" THEN "pending" ELSE promise

\* callback initGoogleMaps, or onerror.
ScriptEnds == promise = "pending" /\ promise' \in {"resolved", "rejected"} /\ UNCHANGED mount

Loaded(m) ==
    /\ mount[m].at = "loading" /\ promise = "resolved"
    /\ MountTo(m, "loaded", mount[m].tries) /\ UNCHANGED promise

LoadRejected(m) ==
    /\ mount[m].at = "loading" /\ promise = "rejected"
    /\ IF mount[m].tries < MapRetries THEN MountTo(m, "backoff", mount[m].tries + 1)
                                      ELSE MountTo(m, "error", mount[m].tries)
    /\ UNCHANGED promise

\* A map that is unmounted ignores the end of its load.
Unmount(m) ==
    /\ mount[m].at \notin {"idle", "cancelled"}
    /\ MountTo(m, "cancelled", mount[m].tries) /\ UNCHANGED promise

LoadStep(m) == Load(m) \/ Loaded(m) \/ LoadRejected(m)

MapsNext == ScriptEnds \/ \E m \in Mounts : LoadStep(m) \/ Unmount(m)

\* The browser runs the script or reports an error; timers fire.
MapsFairness ==
    WF_mvars(ScriptEnds) /\ \A m \in Mounts : WF_mvars(mount[m].at # "idle" /\ LoadStep(m))

----------------------------------------------------------------------------
\* A map that is shown is loaded in the end or says that it cannot be.
MapEnds ==
    \A m \in Mounts : mount[m].at = "loading" ~> mount[m].at \in {"loaded", "error", "cancelled"}
=============================================================================
