---------------------------- MODULE MCScheduler -----------------------------
(***************************************************************************)
(* Two servers on one database: A that refreshes itself, by its ticker and *)
(* by force; B that has a ticker, no URL to download from, and gets its    *)
(* data from uploads.                                                      *)
(***************************************************************************)
EXTENDS Scheduler, TLC

CONSTANTS A, B, tickA, forceA, tickB, zipB

MCServerOf == tickA :> A @@ forceA :> A
              @@ tickB :> B @@ zipB :> B
MCKindOf == forceA :> "force" @@ zipB :> "zip"
            @@ [c \in {tickA, tickB} |-> "check"]
=============================================================================
