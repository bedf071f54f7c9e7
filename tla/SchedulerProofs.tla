-------------------------- MODULE SchedulerProofs ---------------------------
(***************************************************************************)
(* Theorems about Scheduler for any servers and any calls.                 *)
(***************************************************************************)
EXTENDS Scheduler, TLAPS

\* A stage only one kind of call goes through.
StagesOfKind ==
    \A c \in Calls : /\ pc[c] = "checking" => KindOf[c] = "check"
                     /\ pc[c] = "stat" => KindOf[c] = "zip"

\* A mutex is held by a call of its own server.
MutexIsLocal ==
    \A s \in Servers : mutex[s] # NoCall =>
        ServerOf[mutex[s]] = s /\ pc[mutex[s]] \in Holding

\* The inductive invariant.
IInv == /\ TypeOK
        /\ OneImportPerServer
        /\ MutexIsLocal
        /\ StagesOfKind
        /\ ProgressFollowsHolder
        /\ NoRedundantRefresh

USE CallAssumption DEF Holding, Working

\* Two calls of one server cannot both be past the lock.
LEMMA Exclusive ==
    ASSUME IInv, NEW c \in Calls, NEW d \in Calls, ServerOf[c] = ServerOf[d],
           pc[c] \in Holding, pc[d] \in Holding
    PROVE  c = d
  BY DEF IInv, OneImportPerServer

\* The call c moves to the stage s, the others stay where they are.
LEMMA Moves ==
    ASSUME TypeOK, NEW c \in Calls, NEW s, Goto(c, s)
    PROVE  /\ pc'[c] = s
           /\ \A d \in Calls \ {c} : pc'[d] = pc[d]
  BY DEF TypeOK, Goto

\* What a SetProgress tells.
LEMMA Tells ==
    ASSUME TypeOK, NEW c \in Calls, NEW run \in BOOLEAN,
           NEW stage \in {"", "idle", "checking", "discovering", "importing", "done"},
           SetProgress(c, run, stage)
    PROVE  /\ progress' \in [Servers -> Progress]
           /\ progress'[ServerOf[c]].running = run
           /\ progress'[ServerOf[c]].stage = stage
           /\ \A s \in Servers \ {ServerOf[c]} : progress'[s] = progress[s]
  BY DEF TypeOK, SetProgress, Progress

\* An error is told: not running any more.
LEMMA TellsError ==
    ASSUME TypeOK, NEW c \in Calls, SetProgressError(c)
    PROVE  /\ progress' \in [Servers -> Progress]
           /\ progress'[ServerOf[c]].running = FALSE
           /\ \A s \in Servers \ {ServerOf[c]} : progress'[s] = progress[s]
  <1> DEFINE old == progress[ServerOf[c]]
             mid == [old EXCEPT !.running = FALSE]
             new == [mid EXCEPT !.error = TRUE]
  <1>1. ServerOf[c] \in Servers /\ progress \in [Servers -> Progress] /\ old \in Progress
    BY DEF TypeOK
  <1>2. mid \in Progress /\ mid.running = FALSE
    BY <1>1 DEF Progress
  <1>3. new \in Progress /\ new.running = FALSE
    <2> HIDE DEF mid
    <2> QED
      BY <1>2 DEF Progress
  <1>4. progress' = [progress EXCEPT ![ServerOf[c]] = new]
    BY <1>1 DEF SetProgressError
  <1> HIDE DEF new
  <1> QED
    BY <1>1, <1>3, <1>4

----------------------------------------------------------------------------
\* A step of a call that keeps the mutex of its server.
LEMMA StaysInside ==
    ASSUME IInv, NEW c \in Calls, pc[c] \in Working,
           NEW s \in Holding \ {"checking", "stat"}, Goto(c, s),
           UNCHANGED mutex,
           progress' \in [Servers -> Progress],
           \A v \in Servers \ {ServerOf[c]} : progress'[v] = progress[v],
           IF s = "release" THEN ~progress'[ServerOf[c]].running
           ELSE /\ progress'[ServerOf[c]].running
                /\ progress'[ServerOf[c]].stage = IF s = "imported" THEN "importing" ELSE s,
           freshBy' \in Servers \cup {NoServer}, guessed' \subseteq Calls,
           guessed \subseteq guessed',
           \A d \in Calls : freshBy' = ServerOf[d] /\ freshBy # freshBy' =>
               ServerOf[d] = ServerOf[c] /\ s = "imported",
           s \in {"discovering", "importing"} /\ KindOf[c] = "check"
               /\ c \notin guessed' => freshBy' # ServerOf[c]
    PROVE  IInv'
  <1> USE DEF IInv
  <1>0. /\ pc \in [Calls -> {"idle", "requested"} \cup Holding]
        /\ mutex \in [Servers -> Calls \cup {NoCall}]
        /\ pc'[c] = s /\ \A d \in Calls \ {c} : pc'[d] = pc[d]
        /\ mutex[ServerOf[c]] = c
    BY Moves DEF TypeOK, OneImportPerServer
  <1>1. TypeOK'
    BY DEF TypeOK, Goto
  <1>2. OneImportPerServer' /\ MutexIsLocal'
    BY <1>0 DEF OneImportPerServer, MutexIsLocal
  <1>3. StagesOfKind'
    BY <1>0 DEF StagesOfKind
  <1>4. ProgressFollowsHolder'
    <2>1. ASSUME NEW v \in Servers \ {ServerOf[c]}, mutex[v] # NoCall
          PROVE  mutex[v] # c
      BY <2>1 DEF MutexIsLocal
    <2> QED
      BY <1>0, <2>1 DEF ProgressFollowsHolder, TypeOK
  <1>5. NoRedundantRefresh'
    BY <1>0, Exclusive DEF NoRedundantRefresh
  <1> QED
    BY <1>1, <1>2, <1>3, <1>4, <1>5

\* A step of a call that takes the mutex of its server.
LEMMA Enters ==
    ASSUME IInv, NEW c \in Calls, NEW s \in {"checking", "discovering", "stat"},
           pc[c] = "requested", Free(c), Take(c), Goto(c, s),
           progress' \in [Servers -> Progress],
           \A v \in Servers \ {ServerOf[c]} : progress'[v] = progress[v],
           IF s = "stat" THEN ~progress'[ServerOf[c]].running
           ELSE progress'[ServerOf[c]].running /\ progress'[ServerOf[c]].stage = s,
           KindOf[c] = CASE s = "checking" -> "check" [] s = "discovering" -> "force"
                         [] s = "stat" -> "zip",
           UNCHANGED <<freshBy, guessed>>
    PROVE  IInv'
  <1> USE DEF IInv
  <1>0. /\ pc \in [Calls -> {"idle", "requested"} \cup Holding]
        /\ mutex \in [Servers -> Calls \cup {NoCall}]
        /\ pc'[c] = s /\ \A d \in Calls \ {c} : pc'[d] = pc[d]
        /\ mutex[ServerOf[c]] = NoCall /\ mutex'[ServerOf[c]] = c
        /\ \A v \in Servers \ {ServerOf[c]} : mutex'[v] = mutex[v]
    BY Moves DEF TypeOK, Free, Take
  <1>1. TypeOK'
    BY DEF TypeOK, Goto, Take
  <1>2. OneImportPerServer' /\ MutexIsLocal'
    BY <1>0 DEF OneImportPerServer, MutexIsLocal
  <1>3. StagesOfKind'
    BY <1>0 DEF StagesOfKind
  <1>4. ProgressFollowsHolder'
    <2>1. ASSUME NEW v \in Servers \ {ServerOf[c]}, mutex[v] # NoCall
          PROVE  mutex[v] # c
      BY <2>1 DEF MutexIsLocal
    <2> QED
      BY <1>0, <2>1 DEF ProgressFollowsHolder, TypeOK
  <1>5. NoRedundantRefresh'
    BY <1>0 DEF NoRedundantRefresh
  <1> QED
    BY <1>1, <1>2, <1>3, <1>4, <1>5

\* Release, and the death of a server, give a mutex back.
LEMMA Leaves ==
    ASSUME IInv, NEW s \in Servers, NEW C \in SUBSET Calls,
           \A c \in Calls : ServerOf[c] = s /\ pc[c] \in Holding => c \in C,
           \A c \in C : ServerOf[c] = s,
           pc' = [c \in Calls |-> IF c \in C THEN "idle" ELSE pc[c]],
           mutex' = [mutex EXCEPT ![s] = NoCall],
           progress' \in [Servers -> Progress], ~progress'[s].running,
           \A v \in Servers \ {s} : progress'[v] = progress[v],
           guessed' = guessed \ C, UNCHANGED freshBy
    PROVE  IInv'
  <1> USE DEF IInv
  <1>0. /\ mutex'[s] = NoCall
        /\ \A v \in Servers \ {s} : mutex'[v] = mutex[v]
        /\ \A c \in Calls : pc'[c] = IF c \in C THEN "idle" ELSE pc[c]
    BY DEF TypeOK
  <1>1. TypeOK'
    BY DEF TypeOK
  <1>2. OneImportPerServer' /\ MutexIsLocal'
    BY <1>0 DEF OneImportPerServer, MutexIsLocal, TypeOK
  <1>3. StagesOfKind'
    BY <1>0 DEF StagesOfKind
  <1>4. ProgressFollowsHolder'
    <2>1. ASSUME NEW v \in Servers \ {s}, mutex[v] # NoCall
          PROVE  mutex[v] \notin C /\ mutex[v] \in Calls
      BY <2>1 DEF MutexIsLocal, TypeOK
    <2> QED
      BY <1>0, <2>1 DEF ProgressFollowsHolder
  <1>5. NoRedundantRefresh'
    BY <1>0 DEF NoRedundantRefresh
  <1> QED
    BY <1>1, <1>2, <1>3, <1>4, <1>5

----------------------------------------------------------------------------
\* Every step of a call preserves the invariant.
LEMMA RunKeepsIInv ==
    ASSUME IInv, NEW c \in Calls, Request(c) \/ EnterForce(c) \/ Run(c)
    PROVE  IInv'
  <1>0. /\ TypeOK /\ progress \in [Servers -> Progress]
        /\ ServerOf[c] \in Servers
        /\ pc \in [Calls -> {"idle", "requested"} \cup Holding]
    BY DEF IInv, TypeOK
  <1>1. ASSUME pc[c] \in {"idle", "requested"}, NEW s \in {"idle", "requested"},
               Goto(c, s), UNCHANGED <<mutex, progress, freshBy, guessed>>
        PROVE  IInv'
    <2>0. /\ pc' \in [Calls -> {"idle", "requested"} \cup Holding]
          /\ pc'[c] = s /\ \A d \in Calls \ {c} : pc'[d] = pc[d]
      BY <1>0, <1>1 DEF Goto
    <2>1. mutex[ServerOf[c]] # c /\ \A v \in Servers : mutex[v] # c
      BY <1>0, <1>1 DEF IInv, MutexIsLocal, OneImportPerServer
    <2>2. ProgressFollowsHolder'
      BY <1>1, <2>0, <2>1 DEF IInv, TypeOK, ProgressFollowsHolder
    <2> QED
      BY <1>1, <2>0, <2>1, <2>2
      DEF IInv, TypeOK, OneImportPerServer, MutexIsLocal, StagesOfKind,
          NoRedundantRefresh
  <1>2. CASE Request(c) \/ GiveUp(c)
    BY <1>1, <1>2 DEF Request, GiveUp
  <1>3. CASE EnterCheck(c)
    BY <1>0, <1>3, Tells, Enters DEF EnterCheck
  <1>4. CASE EnterForce(c)
    BY <1>0, <1>4, Tells, Enters DEF EnterForce
  <1>5. CASE EnterZip(c)
    <2>1. ~progress[ServerOf[c]].running
      BY <1>0, <1>5 DEF EnterZip, Free, IInv, ProgressFollowsHolder
    <2> QED
      BY <1>0, <1>5, <2>1, Enters DEF EnterZip
  <1>6. CASE StatZip(c)
    <2>1. KindOf[c] = "zip"
      BY <1>6 DEF StatZip, IInv, StagesOfKind
    <2>2. mutex[ServerOf[c]] = c /\ ~progress[ServerOf[c]].running
      BY <1>0, <1>6 DEF StatZip, IInv, OneImportPerServer, ProgressFollowsHolder
    <2>3. CASE SetProgress(c, TRUE, "importing") /\ Goto(c, "importing")
      BY <1>0, <1>6, <2>1, <2>3, Tells, StaysInside DEF StatZip, TypeOK
    <2>4. CASE Goto(c, "release") /\ UNCHANGED progress
      BY <1>0, <1>6, <2>2, <2>4, StaysInside DEF StatZip, TypeOK
    <2> QED
      BY <1>6, <2>3, <2>4 DEF StatZip
  <1>7. CASE FindFresh(c)
    BY <1>0, <1>7, Tells, StaysInside DEF FindFresh, TypeOK
  <1>8. CASE FindStale(c)
    <2>1. guessed' \subseteq Calls /\ guessed \subseteq guessed'
      BY <1>0, <1>8 DEF FindStale, TypeOK
    <2>2. c \notin guessed' => freshBy' # ServerOf[c]
      BY <1>0, <1>8 DEF FindStale
    <2> QED
      BY <1>0, <1>8, <2>1, <2>2, Tells, StaysInside DEF FindStale, TypeOK
  <1>9. CASE Discover(c)
    <2>1. KindOf[c] = "check" /\ c \notin guessed' => freshBy' # ServerOf[c]
      BY <1>9 DEF Discover, IInv, NoRedundantRefresh
    <2>2. CASE SetProgress(c, TRUE, "importing") /\ Goto(c, "importing")
      BY <1>0, <1>9, <2>1, <2>2, Tells, StaysInside DEF Discover, TypeOK
    <2>3. CASE SetProgressError(c) /\ Goto(c, "release")
      BY <1>0, <1>9, <2>3, TellsError, StaysInside DEF Discover, TypeOK
    <2> QED
      BY <1>9, <2>2, <2>3 DEF Discover
  <1>10. CASE ImportCommits(c)
    <2>1. progress[ServerOf[c]].running /\ progress[ServerOf[c]].stage = "importing"
      BY <1>0, <1>10 DEF ImportCommits, IInv, OneImportPerServer, ProgressFollowsHolder
    <2> QED
      BY <1>0, <1>10, <2>1, StaysInside DEF ImportCommits, TypeOK
  <1>11. CASE ImportFails(c)
    BY <1>0, <1>11, TellsError, StaysInside DEF ImportFails, TypeOK
  <1>12. CASE Finish(c)
    <2>1. CASE SetProgress(c, FALSE, "done")
      BY <1>0, <1>12, <2>1, Tells, StaysInside DEF Finish, TypeOK
    <2>2. CASE SetProgressError(c)
      BY <1>0, <1>12, <2>2, TellsError, StaysInside DEF Finish, TypeOK
    <2> QED
      BY <1>12, <2>1, <2>2 DEF Finish
  <1>13. CASE Release(c)
    <2>1. \A d \in Calls : ServerOf[d] = ServerOf[c] /\ pc[d] \in Holding => d \in {c}
      BY <1>13, Exclusive DEF Release
    <2>2. ~progress[ServerOf[c]].running
      BY <1>0, <1>13 DEF Release, IInv, OneImportPerServer, ProgressFollowsHolder
    <2>3. pc' = [d \in Calls |-> IF d \in {c} THEN "idle" ELSE pc[d]]
      BY <1>0, <1>13 DEF Release, Goto
    <2>4. /\ mutex' = [mutex EXCEPT ![ServerOf[c]] = NoCall]
          /\ guessed' = guessed \ {c}
          /\ UNCHANGED <<progress, freshBy>>
      BY <1>13 DEF Release
    <2> DEFINE C == {c}
    <2>5. C \in SUBSET Calls /\ \A d \in C : ServerOf[d] = ServerOf[c]
      OBVIOUS
    <2>6. /\ \A d \in Calls : ServerOf[d] = ServerOf[c] /\ pc[d] \in Holding => d \in C
          /\ pc' = [d \in Calls |-> IF d \in C THEN "idle" ELSE pc[d]]
          /\ guessed' = guessed \ C
      BY <2>1, <2>3, <2>4
    <2> HIDE DEF C
    <2> QED
      BY <1>0, <2>2, <2>4, <2>5, <2>6, Leaves
  <1> QED
    BY <1>2, <1>3, <1>4, <1>5, <1>6, <1>7, <1>8, <1>9, <1>10, <1>11, <1>12, <1>13 DEF Run

\* Every step preserves the invariant.
LEMMA NextKeepsIInv == IInv /\ [Next]_vars => IInv'
  <1> SUFFICES ASSUME IInv, [Next]_vars PROVE IInv'
    OBVIOUS
  <1>1. CASE Age
    <2>1. TypeOK' /\ NoRedundantRefresh'
      BY <1>1 DEF Age, IInv, TypeOK, NoRedundantRefresh
    <2> QED
      BY <1>1, <2>1
      DEF Age, IInv, OneImportPerServer, MutexIsLocal, StagesOfKind,
          ProgressFollowsHolder
  <1>2. ASSUME NEW s \in Servers, Restart(s) PROVE IInv'
    <2> DEFINE C == {c \in Calls : ServerOf[c] = s}
    <2>1. ZeroProgress \in Progress /\ ~ZeroProgress.running
      BY DEF ZeroProgress, Progress
    <2>2. /\ progress' \in [Servers -> Progress] /\ ~progress'[s].running
          /\ \A v \in Servers \ {s} : progress'[v] = progress[v]
      BY <1>2, <2>1 DEF Restart, IInv, TypeOK
    <2>3. guessed' = guessed \ C
      BY <1>2 DEF Restart, IInv, TypeOK
    <2>4. pc' = [c \in Calls |-> IF c \in C THEN "idle" ELSE pc[c]]
      BY <1>2 DEF Restart
    <2> QED
      BY <1>2, <2>2, <2>3, <2>4, Leaves DEF Restart
  <1>3. CASE UNCHANGED vars
    BY <1>3 DEF vars, IInv, TypeOK, OneImportPerServer, MutexIsLocal, StagesOfKind,
                ProgressFollowsHolder, NoRedundantRefresh
  <1> QED
    BY <1>1, <1>2, <1>3, RunKeepsIInv DEF Next

\* The initial states.
LEMMA InitIInv == Init => IInv
  <1> SUFFICES ASSUME Init PROVE IInv
    OBVIOUS
  <1>1. ZeroProgress \in Progress /\ ~ZeroProgress.running
    BY DEF ZeroProgress, Progress
  <1>2. TypeOK
    BY <1>1 DEF Init, TypeOK
  <1>3. ProgressFollowsHolder
    BY <1>1 DEF Init, ProgressFollowsHolder
  <1> QED
    BY <1>2, <1>3
    DEF Init, IInv, OneImportPerServer, MutexIsLocal, StagesOfKind, NoRedundantRefresh

\* The strengthened invariant holds in every reachable state.
THEOREM Invariant == Spec => []IInv
  BY InitIInv, NextKeepsIInv, PTL DEF Spec

\* Every variable keeps to its range: no record has a stage of its own.
THEOREM TypeCorrect == Spec => []TypeOK
  <1>1. IInv => TypeOK
    BY DEF IInv
  <1> QED
    BY <1>1, Invariant, PTL

\* A server works on one import at a time, whoever asks.
THEOREM MutualExclusion == Spec => []OneImportPerServer
  <1>1. IInv => OneImportPerServer
    BY DEF IInv
  <1> QED
    BY <1>1, Invariant, PTL

\* What the pollers are told is what the holder of the mutex does.
THEOREM ProgressIsTrue == Spec => []ProgressFollowsHolder
  <1>1. IInv => ProgressFollowsHolder
    BY DEF IInv
  <1> QED
    BY <1>1, Invariant, PTL

\* A check does not import again what its server has just imported.
THEOREM NoImportTwice == Spec => []NoRedundantRefresh
  <1>1. IInv => NoRedundantRefresh
    BY DEF IInv
  <1> QED
    BY <1>1, Invariant, PTL
=============================================================================
