----------------------------- MODULE GisSource ------------------------------
(***************************************************************************)
(* GISDownloader.downloadWithCache: what the source answered is kept in a  *)
(* file, and every later call answers from that file.                      *)
(*                                                                         *)
(* A body is a version of what the source publishes.  os.WriteFile empties *)
(* the file and then writes it, and os.ReadFile takes its time: each of    *)
(* the two is a pair of steps, between which other calls read and write,   *)
(* and each may fail half way.                                             *)
(***************************************************************************)
EXTENDS Integers, Sequences, FiniteSets

CONSTANTS
    Requests,    \* calls of downloadWithCache, for one cache key
    Versions,    \* bodies the source answers with
    ErrorPage,   \* the body of an answer that is not 200
    Part,        \* the beginning of a body, perhaps nothing of it
    Mixed,       \* pieces of several bodies
    Absent,      \* no file
    Retries      \* maxRetries

\* What is no body the source published is told from one, and a file from none.
ASSUME GisAssumption ==
    /\ {ErrorPage, Part, Mixed, Absent} \cap Versions = {}
    /\ Absent \notin {Part, Mixed}

VARIABLES
    cache,    \* the cache file
    request,  \* [Requests -> [at, tries, body, since, doubtful]]
    damaged   \* a write of the file failed, was killed or overlapped another

gvars == <<cache, request, damaged>>

GisInit ==
    /\ cache = Absent /\ damaged = FALSE
    /\ request = [r \in Requests |-> [at |-> "start", tries |-> 0, body |-> Absent,
                                      since |-> FALSE, doubtful |-> FALSE]]

At(r, stage) == request[r].at = stage
Set(r, rec) == request' = [request EXCEPT ![r] = rec]

Writing == {r \in Requests : At(r, "writing")}

\* os.ReadFile opens the file: what it gives is doubtful when the file is
\* damaged, or written before the read has ended.
OpenToRead(r) ==
    /\ Set(r, [request[r] EXCEPT !.at = "reading", !.doubtful = damaged \/ Writing # {}])
    /\ UNCHANGED <<cache, damaged>>

\* A file that is there is the answer, whatever is in it.
ReadCache(r) ==
    /\ At(r, "start")
    /\ IF cache # Absent THEN OpenToRead(r)
       ELSE Set(r, [request[r] EXCEPT !.at = "ask"]) /\ UNCHANGED <<cache, damaged>>

FinishRead(r) ==
    /\ At(r, "reading")
    /\ \E body \in {cache} \cup (IF request[r].doubtful THEN {Part, Mixed} ELSE {}) :
          Set(r, [request[r] EXCEPT !.at = "answered", !.body = body])
    /\ UNCHANGED <<cache, damaged>>

\* The file cannot be read: the source is asked, unless its 304 was the reason
\* to read, where the error is ignored and what was read is the answer.
CannotRead(r) ==
    /\ At(r, "reading")
    /\ Set(r, IF request[r].since
              THEN [request[r] EXCEPT !.at = "answered", !.body = Part, !.doubtful = TRUE]
              ELSE [request[r] EXCEPT !.at = "ask", !.doubtful = FALSE])
    /\ UNCHANGED <<cache, damaged>>

\* A file that is there by now makes the request conditional.
Ask(r) ==
    /\ At(r, "ask")
    /\ Set(r, [request[r] EXCEPT !.at = "sent", !.since = cache # Absent])
    /\ UNCHANGED <<cache, damaged>>

\* 304, which a source answers to conditional requests only: the file.
NotModified(r) == At(r, "sent") /\ request[r].since /\ OpenToRead(r)

\* The next try, after a pause in which the context may end.
Retry(r) ==
    /\ At(r, "sent")
    /\ \E to \in {"failed"} \cup (IF request[r].tries < Retries THEN {"ask"} ELSE {}) :
          Set(r, [request[r] EXCEPT !.at = to, !.tries = @ + 1])
    /\ UNCHANGED <<cache, damaged>>

\* Mutation: the status is not looked at.
ReceiveAnything(r) ==
    \E body \in Versions \cup {ErrorPage} :
       /\ At(r, "sent")
       /\ Set(r, [request[r] EXCEPT !.at = "received", !.body = body])
       /\ UNCHANGED <<cache, damaged>>

\* An answer 200 that is read to its end; any other one, and a body cut
\* short, is tried again.
Receive(r) ==
    \E body \in Versions \cup {ErrorPage, Part} :
       IF body \in Versions
       THEN /\ At(r, "sent")
            /\ Set(r, [request[r] EXCEPT !.at = "received", !.body = body])
            /\ UNCHANGED <<cache, damaged>>
       ELSE Retry(r)

\* os.WriteFile empties the file, with what was wrong with it, also under
\* those that read it.
OpenCache(r) ==
    /\ At(r, "received")
    /\ cache' = Part /\ damaged' = (Writing # {})
    /\ request' = [q \in Requests |->
          [request[q] EXCEPT !.at = IF q = r THEN "writing" ELSE @,
                             !.doubtful = @ \/ At(q, "reading")]]

\* Where another write overlapped, the pieces of both may stay.
WriteCache(r) ==
    /\ At(r, "writing")
    /\ cache' \in {request[r].body} \cup (IF damaged THEN {Mixed} ELSE {})
    /\ Set(r, [request[r] EXCEPT !.at = "answered"])
    /\ UNCHANGED damaged

\* An error of os.WriteFile is ignored, and the answer returned all the same:
\* before the file was emptied, or with a part of it written.
CannotWrite(r) ==
    \/ /\ At(r, "received")
       /\ UNCHANGED <<cache, damaged>>
       /\ Set(r, [request[r] EXCEPT !.at = "answered"])
    \/ /\ At(r, "writing")
       /\ cache' \in {cache} \cup (IF damaged THEN {Mixed} ELSE {})
       /\ damaged' = TRUE
       /\ Set(r, [request[r] EXCEPT !.at = "answered"])

Kill(r) ==
    /\ ~At(r, "answered") /\ ~At(r, "failed") /\ ~At(r, "killed")
    /\ damaged' = (damaged \/ At(r, "writing"))
    /\ Set(r, [request[r] EXCEPT !.at = "killed"])
    /\ UNCHANGED cache

GisNext ==
    \E r \in Requests : \/ ReadCache(r) \/ FinishRead(r) \/ CannotRead(r)
                        \/ Ask(r) \/ NotModified(r) \/ Receive(r)
                        \/ OpenCache(r) \/ WriteCache(r) \/ CannotWrite(r) \/ Kill(r)

GisSpec == GisInit /\ [][GisNext]_gvars

----------------------------------------------------------------------------
\* The file holds a body the source sent whole with status 200, never an error
\* page or a body cut short on its way, unless it is being written, or its
\* last write failed, was killed or overlapped another one.  So is every
\* answer, unless the file it was read from was in such a state, was written
\* under the read, or could not be read after a 304.
CacheHoldsAnAnswer ==
    /\ damaged \/ Writing # {} \/ cache \in Versions \cup {Absent}
    /\ \A r \in Requests :
          At(r, "answered") => request[r].doubtful \/ request[r].body \in Versions
=============================================================================
