-------------------------- MODULE MCImportPipeline --------------------------
(***************************************************************************)
(* Two concurrent imports over five small files.  market and again name    *)
(* the same two parcels in opposite orders, which lets their imports       *)
(* deadlock; again names one transaction twice, twice holds two equal rows *)
(* without a serial.                                                       *)
(***************************************************************************)
EXTENDS ImportPipeline, TLC

CONSTANTS market, again, broken, blank, twice,  \* files
          ra, rb, rc, ru, rx, ry,               \* rows
          k1, k2, p1, p2                        \* keys

MCRow == {ra, rb, rc, ru, rx, ry}
MCFiles == {market, again, broken, blank, twice}
MCRows == market :> <<ra, rx, ru, rb>> @@ again :> <<rb, rc, ra>>
          @@ broken :> <<ra, ry>> @@ blank :> <<>>
          @@ twice :> <<ru, ru>>
MCZipped == {again, blank}
MCTxnKey == ra :> k1 @@ rb :> k2 @@ rc :> k1 @@ ru :> Unnumbered
            @@ rx :> Rejected @@ ry :> Rejected
MCParcelOf == ra :> p1 @@ rb :> p2 @@ rc :> NoParcel @@ ru :> NoParcel
              @@ rx :> NoParcel @@ ry :> p2
MCStorable == MCRow \ {ry}

Cfg(l, e) == [local |-> l, expected |-> e]
MCConfigs == {Cfg(Remote, NoChecksum), Cfg(Remote, market),
              Cfg(again, NoChecksum), Cfg(blank, NoChecksum)}
=============================================================================
