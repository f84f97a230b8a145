------------------------ MODULE ExecutorProcessProofs ------------------------
(***************************************************************************)
(* Proofs that the process rows of ExecutorProcess tell the truth about     *)
(* their process groups, for any number of launches and operators.          *)
(*                                                                         *)
(* StateMoves describes what a step does to the rows and GroupMoves what it *)
(* does to the groups; each conjunct of Inv then needs only the actions     *)
(* that touch its variables.                                                *)
(***************************************************************************)
EXTENDS ExecutorProcess, TLAPS

-----------------------------------------------------------------------------
LEMMA InitInv == Init => Inv
BY DEF Init, Inv, TypeOK, States, LeaderStates, LauncherPCs, TerminatePCs,
       Verdicts, ACTIVE_PROCESS_STATES, LauncherKnowsRow, CallIsProven,
       VerdictIsSound, UnstartedIsEmpty, ExitedMeansLeaderGone, KillIsMarked,
       OneActiveRow, Live

-----------------------------------------------------------------------------
(* Types *)

LEMMA GotoMoves ==
  ASSUME TypeOK, NEW p \in Processes, NEW a \in Callers,
         NEW to \in TerminatePCs, Goto(p, a, to)
  PROVE  /\ tpc' \in [Processes -> [Callers -> TerminatePCs]]
         /\ tpc'[p][a] = to
         /\ \A q \in Processes, b \in Callers :
              <<q, b>> # <<p, a>> => tpc'[q][b] = tpc[q][b]
BY DEF TypeOK, Goto

LEMMA DecideMoves ==
  ASSUME TypeOK, NEW p \in Processes, NEW a \in Callers,
         NEW v \in Verdicts, Decide(p, a, v)
  PROVE  /\ verdict' \in [Processes -> [Callers -> Verdicts]]
         /\ verdict'[p][a] = v
         /\ \A q \in Processes, b \in Callers :
              <<q, b>> # <<p, a>> => verdict'[q][b] = verdict[q][b]
BY DEF TypeOK, Decide

LEMMA CallersFacts == Launcher \in Callers /\ Operators \subseteq Callers
BY DEF Callers

\* The launcher's call of terminate_registered_process.
LEMMA CallMoves ==
  ASSUME TypeOK, NEW p \in Processes, NEW r \in LauncherPCs, CallTerminate(p, r)
  PROVE  /\ tpc' \in [Processes -> [Callers -> TerminatePCs]]
         /\ verdict' \in [Processes -> [Callers -> Verdicts]]
         /\ lpc' \in [Processes -> LauncherPCs]
<1>1. "load" \in TerminatePCs /\ "unverified" \in Verdicts
  BY DEF TerminatePCs, Verdicts
<1>2. Goto(p, Launcher, "load") /\ Decide(p, Launcher, "unverified")
  BY DEF CallTerminate
<1>3. lpc' \in [Processes -> LauncherPCs]
  BY DEF CallTerminate, TypeOK
<1> QED  BY <1>1, <1>2, <1>3, GotoMoves, DecideMoves, CallersFacts

\* A scan that comes back with `exited` did not see the leader alive.
LEMMA SightingsKnown ==
  ASSUME NEW p \in Processes
  PROVE  /\ Sightings(p) \subseteq Verdicts
         /\ "exited" \in Sightings(p) => leader[p] # "alive"
BY DEF Sightings, Verdicts

\* Where a step of a terminate call leads, and what it decides.
LEMMA TerminateMoves ==
  ASSUME TypeOK, NEW p \in Processes, NEW a \in Callers, TerminateStep(p, a)
  PROVE  /\ \E to \in TerminatePCs : Goto(p, a, to)
         /\ verdict' = verdict \/ \E v \in Verdicts : Decide(p, a, v)
<1>1. CASE TerminateLoad(p, a)
  BY <1>1, SightingsKnown DEF TerminateLoad, TerminatePCs, Verdicts
<1>2. CASE TerminateMarkTerm(p, a)
  BY <1>2 DEF TerminateMarkTerm, TerminatePCs
<1>3. CASE TerminateSendTerm(p, a)
  BY <1>3 DEF TerminateSendTerm, TerminatePCs
<1>3r. CASE TerminateReadTerm(p, a) \/ TerminateReadKill(p, a)
  BY <1>3r DEF TerminateReadTerm, TerminateReadKill, TerminatePCs
<1>4. CASE TerminateGraceWait(p, a)
  BY <1>4 DEF TerminateGraceWait, TerminatePCs, Verdicts
<1>5. CASE TerminateReload(p, a)
  BY <1>5, SightingsKnown DEF TerminateReload, TerminatePCs, Verdicts
<1>6. CASE TerminateMarkKill(p, a)
  BY <1>6 DEF TerminateMarkKill, TerminatePCs
<1>7. CASE TerminateSendKill(p, a)
  BY <1>7 DEF TerminateSendKill, TerminatePCs
<1>8. CASE TerminateKillWait(p, a)
  BY <1>8, SightingsKnown DEF TerminateKillWait, TerminatePCs
<1>9. CASE TerminateFinalize(p, a)
  BY <1>9 DEF TerminateFinalize, TerminatePCs
<1> QED  BY <1>1, <1>2, <1>3, <1>3r, <1>4, <1>5, <1>6, <1>7, <1>8, <1>9
         DEF TerminateStep

LEMMA StepTypeOK ==
  ASSUME TypeOK, NEW p \in Processes, ProcessStep(p)
  PROVE  TypeOK'
<1> USE DEF TypeOK
<1>1. ASSUME NEW a \in Callers, TerminateStep(p, a)  PROVE TypeOK'
  <2>1. tpc' \in [Processes -> [Callers -> TerminatePCs]]
    BY <1>1, TerminateMoves, GotoMoves
  <2>2. verdict' \in [Processes -> [Callers -> Verdicts]]
    BY <1>1, TerminateMoves, DecideMoves
  <2>3. /\ state' \in [Processes -> States]
        /\ leader' = leader /\ kin' = kin
        /\ killed' \in {killed, killed \cup {p}}
        /\ lpc' \in [Processes -> LauncherPCs]
    BY <1>1 DEF TerminateStep, TerminateLoad, TerminateMarkTerm,
       TerminateReadTerm, TerminateSendTerm, TerminateGraceWait, TerminateReload,
       TerminateMarkKill, TerminateReadKill, TerminateSendKill, TerminateKillWait,
       TerminateFinalize, FinalizedState, osVars, States, LauncherPCs,
       ACTIVE_PROCESS_STATES
  <2> QED  BY <2>1, <2>2, <2>3
<1>2. CASE Launch(p) \/ Spawn(p) \/ SpawnFails(p) \/ MarkRunning(p)
  BY <1>2 DEF Launch, Spawn, SpawnFails, MarkRunning, osVars, States,
     ACTIVE_PROCESS_STATES, LeaderStates, LauncherPCs
<1>3. CASE \/ IdentityUnavailable(p) \/ AbortLaunch(p) \/ WaitRaises(p)
           \/ LeaderExits(p)
  BY <1>3 DEF IdentityUnavailable, AbortLaunch, WaitRaises, LeaderExits,
     ReapLeader, osVars, States, LeaderStates, LauncherPCs
<1>4. CASE StopRequested(p) \/ WaitExpires(p)
  BY <1>4, CallMoves DEF StopRequested, WaitExpires, osVars, LauncherPCs
<1>5. CASE InspectGroup(p)
  <2>1. CASE UNCHANGED <<tpc, verdict>>
    BY <1>5, <2>1 DEF InspectGroup, CallTerminate, FinalizedState, osVars,
       States, LauncherPCs
  <2>2. CASE CallTerminate(p, "closing") /\ UNCHANGED state
    BY <1>5, <2>2, CallMoves DEF InspectGroup, osVars, LauncherPCs
  <2> QED  BY <1>5, <2>1, <2>2 DEF InspectGroup
<1>6. CASE CloseLaunch(p)
  BY <1>6 DEF CloseLaunch, FinalizedState, osVars, States, LauncherPCs
<1>7. CASE LauncherCrashes(p)
  BY <1>7 DEF LauncherCrashes, Goto, osVars, LauncherPCs, TerminatePCs
<1>8. ASSUME NEW o \in Operators, OperatorTerminates(p, o) \/ OperatorCrashes(p, o)
      PROVE  TypeOK'
  <2>1. {"idle", "load"} \subseteq TerminatePCs /\ "unverified" \in Verdicts
    BY DEF TerminatePCs, Verdicts
  <2>2. /\ Goto(p, o, "load") \/ Goto(p, o, "idle")
        /\ Decide(p, o, "unverified") \/ verdict' = verdict
        /\ UNCHANGED <<state, leader, kin, killed, lpc>>
    BY <1>8 DEF OperatorTerminates, OperatorCrashes, osVars
  <2> QED  BY <2>1, <2>2, GotoMoves, DecideMoves, CallersFacts
<1>9. CASE OsStep(p)
  BY <1>9 DEF OsStep, Fork, LeaderDies, KinDie, InitReaps, PidReused,
     StrangerExits, ReapLeader, LeaderStates
<1> QED  BY <1>1, <1>2, <1>3, <1>4, <1>5, <1>6, <1>7, <1>8, <1>9
         DEF ProcessStep, LauncherStep, LauncherProgress

-----------------------------------------------------------------------------
(* What a step does to the rows *)

LEMMA StateSteps ==
  ASSUME NEW p \in Processes, ProcessStep(p)
  PROVE  \/ state' = state
         \/ Launch(p) \/ SpawnFails(p) \/ MarkRunning(p) \/ AbortLaunch(p)
         \/ InspectGroup(p) \/ CloseLaunch(p)
         \/ \E a \in Callers : \/ TerminateMarkTerm(p, a)
                               \/ TerminateMarkKill(p, a)
                               \/ TerminateFinalize(p, a)
<1>1. ASSUME NEW a \in Callers, TerminateStep(p, a)
      PROVE  \/ state' = state
             \/ TerminateMarkTerm(p, a)
             \/ TerminateMarkKill(p, a)
             \/ TerminateFinalize(p, a)
  BY <1>1 DEF TerminateStep, TerminateLoad, TerminateReadTerm, TerminateSendTerm,
     TerminateGraceWait, TerminateReload, TerminateReadKill, TerminateSendKill, TerminateKillWait
<1>2. CASE LauncherStep(p)
  BY <1>2 DEF LauncherStep, LauncherProgress, Spawn, IdentityUnavailable,
     WaitRaises, StopRequested, LeaderExits, WaitExpires
<1>3. CASE LauncherCrashes(p) \/ OsStep(p)
  BY <1>3 DEF LauncherCrashes, OsStep, Fork, LeaderDies, KinDie, InitReaps,
     PidReused, StrangerExits
<1>4. ASSUME NEW o \in Operators, OperatorTerminates(p, o) \/ OperatorCrashes(p, o)
      PROVE  state' = state
  BY <1>4 DEF OperatorTerminates, OperatorCrashes
<1> QED  BY <1>1, <1>2, <1>3, <1>4 DEF ProcessStep

\* A row of p moves as the trigger allows, or is inserted; no other row moves.
LEMMA StateMoves ==
  ASSUME Inv, NEW p \in Processes, ProcessStep(p)
  PROVE  /\ \A q \in Processes \ {p} : state'[q] = state[q]
         /\ \/ state'[p] = state[p]
            \/ Launch(p) /\ state[p] = "none"
                 /\ state'[p] \in {"preflight_failed", "allocated"}
            \/ <<state[p], state'[p]>> \in LegalMoves
<1> USE DEF Inv, TypeOK, LegalMoves
<1>1. CASE state' = state
  BY <1>1
<1>2. CASE Launch(p)
  BY <1>2 DEF Launch
<1>3. CASE SpawnFails(p) \/ MarkRunning(p) \/ AbortLaunch(p)
  <2>1. state[p] = "allocated"
    BY <1>3 DEF SpawnFails, MarkRunning, AbortLaunch, LauncherKnowsRow
  <2> QED  BY <1>3, <2>1 DEF SpawnFails, MarkRunning, AbortLaunch
<1>4. ASSUME NEW v \in Verdicts, HasIdentity(p),
             state' = [state EXCEPT ![p] = FinalizedState(@, v)]
      PROVE  /\ \A q \in Processes \ {p} : state'[q] = state[q]
             /\ state'[p] = state[p] \/ <<state[p], state'[p]>> \in LegalMoves
  BY <1>4 DEF HasIdentity, FinalizedState, States, ACTIVE_PROCESS_STATES
<1>5. CASE InspectGroup(p) \/ CloseLaunch(p)
  <2>1. HasIdentity(p)
    BY <1>5 DEF InspectGroup, CloseLaunch, LauncherKnowsRow
  <2>2. \/ state' = state
        \/ \E v \in Verdicts : state' = [state EXCEPT ![p] = FinalizedState(@, v)]
    BY <1>5, CallersFacts DEF InspectGroup, CloseLaunch, Verdicts
  <2> QED  BY <1>1, <1>4, <2>1, <2>2
<1>6. ASSUME NEW a \in Callers, TerminateFinalize(p, a)
      PROVE  /\ \A q \in Processes \ {p} : state'[q] = state[q]
             /\ state'[p] = state[p] \/ <<state[p], state'[p]>> \in LegalMoves
  <2>1. HasIdentity(p)
    BY <1>6 DEF TerminateFinalize, CallIsProven
  <2>2. state' = [state EXCEPT ![p] = FinalizedState(@, verdict[p][a])]
    BY <1>6 DEF TerminateFinalize
  <2>3. verdict[p][a] \in Verdicts
    OBVIOUS
  <2> QED  BY <1>4, <2>1, <2>2, <2>3
<1>7. ASSUME NEW a \in Callers, TerminateMarkTerm(p, a) \/ TerminateMarkKill(p, a)
      PROVE  /\ \A q \in Processes \ {p} : state'[q] = state[q]
             /\ state'[p] = state[p] \/ <<state[p], state'[p]>> \in LegalMoves
  BY <1>7 DEF TerminateMarkTerm, TerminateMarkKill
<1> QED  BY <1>1, <1>2, <1>3, <1>5, <1>6, <1>7, StateSteps

\* What a legal move keeps.
LEMMA MoveFacts ==
  ASSUME NEW s, NEW t, s = t \/ <<s, t>> \in LegalMoves
  PROVE  /\ s = "exited" => t = "exited"
         /\ s = "none" => t = "none"
         /\ t = "none" => s = "none"
         /\ s = "preflight_failed" => t = "preflight_failed"
         /\ t = "preflight_failed" => s \in {"allocated", "preflight_failed"}
         /\ t \in ACTIVE_PROCESS_STATES => s \in ACTIVE_PROCESS_STATES
         /\ s \notin {"none", "allocated", "preflight_failed", "start_failed"} =>
              t \notin {"none", "allocated", "preflight_failed", "start_failed"}
         /\ s \in {"kill_sent", "exited", "exit_unverified"} =>
              t \in {"kill_sent", "exited", "exit_unverified"}
BY DEF LegalMoves, ACTIVE_PROCESS_STATES

LEMMA StepOneActiveRow ==
  ASSUME Inv, NEW p \in Processes, ProcessStep(p)
  PROVE  OneActiveRow'
<1>1. CASE Launch(p)
  BY <1>1, StateMoves DEF Launch, NoActiveProcess, Inv, OneActiveRow
<1>2. CASE ~Launch(p)
  <2>1. \A q \in Processes : state'[q] \in ACTIVE_PROCESS_STATES =>
                               state[q] \in ACTIVE_PROCESS_STATES
    BY <1>2, StateMoves, MoveFacts
  <2> QED  BY <2>1 DEF Inv, OneActiveRow
<1> QED  BY <1>1, <1>2

\* An identity is kept.
LEMMA StepHasIdentity ==
  ASSUME Inv, NEW p \in Processes, ProcessStep(p), NEW q \in Processes,
         HasIdentity(q)
  PROVE  HasIdentity(q)'
<1>1. ~(q = p /\ Launch(p))
  BY DEF Launch, HasIdentity
<1>2. state'[q] = state[q] \/ <<state[q], state'[q]>> \in LegalMoves
  BY <1>1, StateMoves
<1> QED  BY <1>2, MoveFacts DEF HasIdentity

-----------------------------------------------------------------------------
(* What a step does to the groups *)

\* A group comes to life in Spawn and at no other step.
LEMMA GroupMoves ==
  ASSUME TypeOK, NEW p \in Processes, ProcessStep(p)
  PROVE  /\ \A q \in Processes \ {p} : Live(q)' = Live(q) /\ leader'[q] = leader[q]
         /\ Live(p)' => Live(p) \/ Spawn(p)
         /\ leader'[p] = "alive" => leader[p] = "alive" \/ Spawn(p)
<1> USE DEF Live, TypeOK
<1>1. ASSUME NEW a \in Callers, TerminateStep(p, a)
      PROVE  leader' = leader /\ kin' = kin
  BY <1>1 DEF TerminateStep, TerminateLoad, TerminateMarkTerm,
     TerminateReadTerm, TerminateSendTerm, TerminateGraceWait, TerminateReload,
     TerminateMarkKill, TerminateReadKill, TerminateSendKill, TerminateKillWait,
     TerminateFinalize, osVars
<1>2. CASE Launch(p) \/ LauncherCrashes(p)
  BY <1>2 DEF Launch, LauncherCrashes, osVars
<1>3. CASE Spawn(p)
  BY <1>3 DEF Spawn
<1>4. CASE LauncherStep(p) /\ ~Spawn(p)
  BY <1>4 DEF LauncherStep, LauncherProgress, SpawnFails, MarkRunning,
     IdentityUnavailable, AbortLaunch, WaitRaises, StopRequested, LeaderExits,
     WaitExpires, InspectGroup, CloseLaunch, ReapLeader, osVars
<1>5. CASE OsStep(p)
  BY <1>5 DEF OsStep, Fork, LeaderDies, KinDie, InitReaps, PidReused,
     StrangerExits, ReapLeader
<1>6. ASSUME NEW o \in Operators, OperatorTerminates(p, o) \/ OperatorCrashes(p, o)
      PROVE  leader' = leader /\ kin' = kin
  BY <1>6 DEF OperatorTerminates, OperatorCrashes, osVars
<1> QED  BY <1>1, <1>2, <1>3, <1>4, <1>5, <1>6 DEF ProcessStep

LEMMA SpawnIsAllocated ==
  ASSUME Inv, NEW p \in Processes, Spawn(p)
  PROVE  state[p] = "allocated" /\ state' = state
BY DEF Inv, LauncherKnowsRow, Spawn

LEMMA StepUnstartedIsEmpty ==
  ASSUME Inv, NEW p \in Processes, ProcessStep(p)
  PROVE  UnstartedIsEmpty'
<1>1. ASSUME NEW q \in Processes, state'[q] \in {"none", "preflight_failed"},
             Live(q)'
      PROVE  FALSE
  <2>1. CASE q # p
    BY <1>1, <2>1, StateMoves, GroupMoves DEF Inv, UnstartedIsEmpty
  <2>2. CASE q = p /\ Launch(p)
    <3>1. Live(p)
      BY <1>1, <2>2, GroupMoves DEF Inv, Launch, Spawn, Live, osVars
    <3> QED  BY <2>2, <3>1 DEF Inv, UnstartedIsEmpty, Launch
  <2>3. CASE q = p /\ ~Launch(p)
    <3>1. state[p] \in {"none", "preflight_failed", "allocated"}
      BY <1>1, <2>3, StateMoves, MoveFacts
    <3>2. state[p] # "allocated" \/ state'[p] # "preflight_failed"
      BY <2>3, StateSteps DEF SpawnFails, MarkRunning, AbortLaunch,
         InspectGroup, CloseLaunch, TerminateMarkTerm, TerminateMarkKill,
         TerminateFinalize, FinalizedState, Inv, TypeOK
    <3>3. state[p] \in {"none", "preflight_failed"}
      BY <1>1, <2>3, <3>1, <3>2, StateMoves, MoveFacts DEF LegalMoves
    <3>4. Live(p)
      BY <1>1, <2>3, <3>3, GroupMoves, SpawnIsAllocated DEF Inv
    <3> QED  BY <3>3, <3>4 DEF Inv, UnstartedIsEmpty
  <2> QED  BY <2>1, <2>2, <2>3
<1> QED  BY <1>1 DEF UnstartedIsEmpty, Live

LEMMA StepExitedMeansLeaderGone ==
  ASSUME Inv, NEW p \in Processes, ProcessStep(p)
  PROVE  ExitedMeansLeaderGone'
<1>1. ASSUME NEW q \in Processes, state'[q] = "exited", leader'[q] = "alive"
      PROVE  FALSE
  <2>1. CASE state[q] = "exited"
    BY <1>1, <2>1, GroupMoves, SpawnIsAllocated DEF Inv, ExitedMeansLeaderGone
  <2>2. CASE state[q] # "exited"
    <3>1. q = p /\ leader[p] = "alive"
      BY <1>1, <2>2, StateMoves, GroupMoves, SpawnIsAllocated DEF Inv
    <3>2. \/ InspectGroup(p) \/ CloseLaunch(p)
          \/ \E a \in Callers : TerminateFinalize(p, a)
      BY <1>1, <2>2, <3>1, StateSteps DEF Launch, SpawnFails, MarkRunning,
         AbortLaunch, TerminateMarkTerm, TerminateMarkKill, Inv, TypeOK
    <3>3. CASE InspectGroup(p)
      BY <1>1, <2>2, <3>1, <3>3, SightingsKnown DEF InspectGroup
    <3>4. CASE CloseLaunch(p)
      BY <1>1, <2>2, <3>1, <3>4, CallersFacts
         DEF CloseLaunch, FinalizedState, Inv, TypeOK, VerdictIsSound
    <3>5. ASSUME NEW a \in Callers, TerminateFinalize(p, a)  PROVE FALSE
      BY <1>1, <2>2, <3>1, <3>5
         DEF TerminateFinalize, FinalizedState, Inv, TypeOK, VerdictIsSound
    <3> QED  BY <3>2, <3>3, <3>4, <3>5
  <2> QED  BY <2>1, <2>2
<1> QED  BY <1>1 DEF ExitedMeansLeaderGone

\* The launcher's place changes for its own process only, and while a terminate
\* call runs only by the exception that ends it.
LEMMA LauncherMoves ==
  ASSUME TypeOK, NEW p \in Processes, ProcessStep(p)
  PROVE  /\ \A q \in Processes \ {p} : lpc'[q] = lpc[q]
         /\ \/ lpc'[p] \in {lpc[p], "done"}
            \/ Launch(p) \/ LauncherStep(p)
<1> USE DEF TypeOK
<1>1. ASSUME NEW a \in Callers, TerminateStep(p, a)
      PROVE  lpc' = lpc \/ lpc' = [lpc EXCEPT ![p] = "done"]
  BY <1>1 DEF TerminateStep, TerminateLoad, TerminateMarkTerm,
     TerminateReadTerm, TerminateSendTerm, TerminateGraceWait, TerminateReload,
     TerminateMarkKill, TerminateReadKill, TerminateSendKill, TerminateKillWait,
     TerminateFinalize
<1>2. CASE Launch(p)
  BY <1>2 DEF Launch
<1>3. CASE LauncherStep(p)
  BY <1>3 DEF LauncherStep, LauncherProgress, Spawn, SpawnFails, MarkRunning,
     IdentityUnavailable, AbortLaunch, WaitRaises, StopRequested, LeaderExits,
     WaitExpires, InspectGroup, CloseLaunch, CallTerminate
<1>4. CASE LauncherCrashes(p) \/ OsStep(p)
  BY <1>4 DEF LauncherCrashes, OsStep, Fork, LeaderDies, KinDie, InitReaps,
     PidReused, StrangerExits
<1>5. ASSUME NEW o \in Operators, OperatorTerminates(p, o) \/ OperatorCrashes(p, o)
      PROVE  lpc' = lpc
  BY <1>5 DEF OperatorTerminates, OperatorCrashes
<1> QED  BY <1>1, <1>2, <1>3, <1>4, <1>5 DEF ProcessStep

LEMMA StepLauncherKnowsRow ==
  ASSUME Inv, NEW p \in Processes, ProcessStep(p)
  PROVE  LauncherKnowsRow'
<1> DEFINE Starting == {"allocated", "spawned", "aborting"}
           Running == {"polling", "waiting", "waitAgain", "inspecting", "closing"}
<1>1. ASSUME NEW q \in Processes \ {p}
      PROVE  /\ lpc'[q] \in Starting => state'[q] = "allocated"
             /\ lpc'[q] \in Running => HasIdentity(q)'
  BY <1>1, LauncherMoves, StateMoves DEF Inv, LauncherKnowsRow, HasIdentity
<1> SUFFICES /\ lpc'[p] \in Starting => state'[p] = "allocated"
             /\ lpc'[p] \in Running => HasIdentity(p)'
  BY <1>1 DEF LauncherKnowsRow, HasIdentity
<1>2. CASE Launch(p)
  BY <1>2, StateMoves DEF Launch, Inv, TypeOK
<1>3. CASE LauncherStep(p)
  <2>1. CASE lpc[p] \in Running
    <3>1. HasIdentity(p)'
      BY <2>1, StepHasIdentity DEF Inv, LauncherKnowsRow
    <3>2. lpc'[p] \in Running \cup {"done"}
      BY <1>3, <2>1 DEF LauncherStep, LauncherProgress, Spawn, SpawnFails,
         MarkRunning, IdentityUnavailable, AbortLaunch, WaitRaises,
         StopRequested, LeaderExits, WaitExpires, InspectGroup, CloseLaunch,
         CallTerminate, Inv, TypeOK
    <3> QED  BY <3>1, <3>2
  <2>2. CASE MarkRunning(p)
    BY <2>2 DEF MarkRunning, HasIdentity, Inv, TypeOK
  <2>3. CASE lpc[p] \notin Running /\ ~MarkRunning(p)
    BY <1>3, <2>3 DEF LauncherStep, LauncherProgress, Spawn, SpawnFails,
       IdentityUnavailable, AbortLaunch, WaitRaises, StopRequested,
       LeaderExits, WaitExpires, InspectGroup, CloseLaunch, Inv, TypeOK,
       LauncherKnowsRow
  <2> QED  BY <2>1, <2>2, <2>3
<1>4. CASE lpc'[p] = lpc[p] /\ lpc[p] \in Starting /\ ~LauncherStep(p)
  <2>1. state[p] = "allocated" /\ \A a \in Callers : tpc[p][a] \in {"idle", "load"}
    BY <1>4 DEF Inv, LauncherKnowsRow, CallIsProven, HasIdentity
  <2>2. state' = state
    BY <1>4, <2>1, StateSteps DEF Launch, LauncherStep, LauncherProgress,
       TerminateMarkTerm, TerminateMarkKill, TerminateFinalize
  <2> QED  BY <1>4, <2>1, <2>2
<1>5. CASE lpc'[p] = lpc[p] /\ lpc[p] \in Running
  BY <1>5, StepHasIdentity DEF Inv, LauncherKnowsRow
<1>6. CASE lpc'[p] \notin Starting \cup Running
  BY <1>6
<1> QED  BY <1>2, <1>3, <1>4, <1>5, <1>6, LauncherMoves DEF Inv

-----------------------------------------------------------------------------
(* What a step does to the terminate calls *)

\* A call moves by its own steps, by being started, or by being abandoned.
LEMMA CallsMove ==
  ASSUME TypeOK, NEW p \in Processes, ProcessStep(p),
         NEW q \in Processes, NEW b \in Callers
  PROVE  \/ q = p /\ TerminateStep(p, b)
         \/ /\ tpc'[q][b] \in {tpc[q][b], "idle", "load"}
            /\ verdict'[q][b] \in {verdict[q][b], "unverified"}
<1>1. ASSUME NEW a \in Callers, TerminateStep(p, a), <<q, b>> # <<p, a>>
      PROVE  tpc'[q][b] = tpc[q][b] /\ verdict'[q][b] = verdict[q][b]
  BY <1>1, TerminateMoves, GotoMoves, DecideMoves
<1>2. ASSUME NEW a \in Callers, NEW to \in {"idle", "load"}, Goto(p, a, to),
             verdict' = verdict \/ Decide(p, a, "unverified")
      PROVE  /\ tpc'[q][b] \in {tpc[q][b], "idle", "load"}
             /\ verdict'[q][b] \in {verdict[q][b], "unverified"}
  <2>1. to \in TerminatePCs /\ "unverified" \in Verdicts
    BY DEF TerminatePCs, Verdicts
  <2>2. tpc'[p][a] = to /\ (<<q, b>> # <<p, a>> => tpc'[q][b] = tpc[q][b])
    BY <1>2, <2>1, GotoMoves
  <2>3. \/ verdict' = verdict
        \/ /\ verdict'[p][a] = "unverified"
           /\ <<q, b>> # <<p, a>> => verdict'[q][b] = verdict[q][b]
    BY <1>2, <2>1, DecideMoves
  <2> QED  BY <2>2, <2>3
<1>3. CASE Launch(p) \/ OsStep(p)
  BY <1>3 DEF Launch, OsStep, Fork, LeaderDies, KinDie, InitReaps, PidReused,
     StrangerExits
<1>4. CASE LauncherCrashes(p)
  BY <1>2, <1>4, CallersFacts DEF LauncherCrashes
<1>5. ASSUME NEW o \in Operators, OperatorTerminates(p, o) \/ OperatorCrashes(p, o)
      PROVE  /\ tpc'[q][b] \in {tpc[q][b], "idle", "load"}
             /\ verdict'[q][b] \in {verdict[q][b], "unverified"}
  BY <1>2, <1>5, CallersFacts DEF OperatorTerminates, OperatorCrashes
<1>6. CASE LauncherStep(p)
  <2>1. \/ tpc' = tpc /\ verdict' = verdict
        \/ Goto(p, Launcher, "load") /\ Decide(p, Launcher, "unverified")
    BY <1>6 DEF LauncherStep, LauncherProgress, Spawn, SpawnFails, MarkRunning,
       IdentityUnavailable, AbortLaunch, WaitRaises, StopRequested, LeaderExits,
       WaitExpires, InspectGroup, CloseLaunch, CallTerminate
  <2> QED  BY <1>2, <2>1, CallersFacts
<1> QED  BY <1>1, <1>3, <1>4, <1>5, <1>6 DEF ProcessStep

\* A stranger gets a PID only while no call is past its entry.
LEMMA LeaderMoves ==
  ASSUME TypeOK, NEW p \in Processes, ProcessStep(p), NEW q \in Processes,
         leader'[q] = "reused", leader[q] # "reused"
  PROVE  /\ \A a \in Callers : tpc[q][a] \in {"idle", "load"}
         /\ tpc' = tpc
<1> USE DEF TypeOK
<1>1. \A a \in Callers : ~TerminateStep(p, a)
  BY DEF TerminateStep, TerminateLoad, TerminateMarkTerm, TerminateReadTerm, TerminateSendTerm,
     TerminateGraceWait, TerminateReload, TerminateMarkKill, TerminateReadKill, TerminateSendKill,
     TerminateKillWait, TerminateFinalize, osVars
<1>2. ~Launch(p) /\ ~LauncherCrashes(p) /\ ~LauncherStep(p)
  BY DEF Launch, LauncherCrashes, LauncherStep, LauncherProgress, Spawn,
     SpawnFails, MarkRunning, IdentityUnavailable, AbortLaunch, WaitRaises,
     StopRequested, LeaderExits, WaitExpires, InspectGroup, CloseLaunch,
     ReapLeader, osVars
<1>3. \A o \in Operators : ~OperatorTerminates(p, o) /\ ~OperatorCrashes(p, o)
  BY DEF OperatorTerminates, OperatorCrashes, osVars
<1>4. OsStep(p)
  BY <1>1, <1>2, <1>3 DEF ProcessStep
<1>5. PidReused(p) /\ q = p
  BY <1>4 DEF OsStep, Fork, LeaderDies, KinDie, InitReaps, PidReused,
     StrangerExits, ReapLeader
<1> QED  BY <1>5 DEF PidReused

\* A call gets past its entry with an identity and without a stranger.
LEMMA StepProvesCall ==
  ASSUME Inv, NEW p \in Processes, NEW a \in Callers, TerminateStep(p, a)
  PROVE  /\ tpc'[p][a] # "idle" => HasIdentity(p)
         /\ tpc'[p][a] \notin {"idle", "finalize"} => leader[p] # "reused"
         /\ tpc'[p][a] # "load"
         /\ leader' = leader
<1> USE DEF Inv, TypeOK, Goto
<1>1. CASE TerminateLoad(p, a)
  BY <1>1 DEF TerminateLoad, HasIdentity, osVars
<1>2. CASE tpc[p][a] \notin {"idle", "load"}
  <2>1. HasIdentity(p) /\ (tpc[p][a] # "finalize" => leader[p] # "reused")
    BY <1>2 DEF CallIsProven
  <2> QED  BY <1>2, <2>1 DEF TerminateStep, TerminateLoad, TerminateMarkTerm,
           TerminateReadTerm, TerminateSendTerm, TerminateGraceWait, TerminateReload,
           TerminateMarkKill, TerminateReadKill, TerminateSendKill, TerminateKillWait,
           TerminateFinalize, osVars
<1> QED  BY <1>1, <1>2 DEF TerminateStep, TerminateMarkTerm, TerminateReadTerm, TerminateSendTerm,
         TerminateGraceWait, TerminateReload, TerminateMarkKill,
         TerminateReadKill, TerminateSendKill, TerminateKillWait, TerminateFinalize

LEMMA StepCallIsProven ==
  ASSUME Inv, NEW p \in Processes, ProcessStep(p)
  PROVE  CallIsProven'
<1>1. ASSUME NEW q \in Processes, NEW b \in Callers
      PROVE  /\ tpc'[q][b] \notin {"idle", "load"} => HasIdentity(q)'
             /\ tpc'[q][b] \notin {"idle", "load", "finalize"} =>
                  leader'[q] # "reused"
  <2>1. CASE q = p /\ TerminateStep(p, b)
    BY <2>1, StepProvesCall, StepHasIdentity
  <2>2. CASE tpc'[q][b] \in {"idle", "load"}
    BY <2>2
  <2>3. CASE tpc'[q][b] = tpc[q][b]
    BY <2>3, StepHasIdentity, LeaderMoves DEF Inv, CallIsProven
  <2> QED  BY <2>1, <2>2, <2>3, CallsMove DEF Inv
<1> QED  BY <1>1 DEF CallIsProven, HasIdentity

LEMMA StepVerdictIsSound ==
  ASSUME Inv, NEW p \in Processes, ProcessStep(p)
  PROVE  VerdictIsSound'
<1>1. ASSUME NEW q \in Processes, NEW b \in Callers, verdict'[q][b] = "exited"
      PROVE  HasIdentity(q) /\ leader[q] # "alive"
  <2>1. CASE verdict[q][b] = "exited"
    BY <2>1 DEF Inv, VerdictIsSound
  <2>2. CASE verdict[q][b] # "exited"
    <3>1. q = p /\ TerminateStep(p, b)
      BY <1>1, <2>2, CallsMove DEF Inv
    <3>2. \/ TerminateLoad(p, b) \/ TerminateGraceWait(p, b)
          \/ TerminateReload(p, b) \/ TerminateKillWait(p, b)
      BY <1>1, <2>2, <3>1 DEF TerminateStep, TerminateMarkTerm,
         TerminateReadTerm, TerminateSendTerm, TerminateMarkKill,
         TerminateReadKill, TerminateSendKill,
         TerminateFinalize
    <3>3. state[p] = "exited" \/ "exited" \in Sightings(p)
      BY <1>1, <2>2, <3>1, <3>2 DEF TerminateLoad, TerminateGraceWait,
         TerminateReload, TerminateKillWait, Decide, Inv, TypeOK
    <3>4. leader[p] # "alive"
      BY <3>3, SightingsKnown DEF Inv, ExitedMeansLeaderGone
    <3>5. HasIdentity(p)
      BY <1>1, <2>2, <3>1, <3>2 DEF TerminateLoad, TerminateGraceWait,
         TerminateReload, TerminateKillWait, HasIdentity, Inv, CallIsProven
    <3> QED  BY <3>1, <3>4, <3>5
  <2> QED  BY <2>1, <2>2
<1>2. ASSUME NEW q \in Processes, HasIdentity(q), leader[q] # "alive"
      PROVE  HasIdentity(q)' /\ leader'[q] # "alive"
  BY <1>2, StepHasIdentity, GroupMoves, SpawnIsAllocated DEF Inv, HasIdentity
<1> QED  BY <1>1, <1>2 DEF VerdictIsSound, HasIdentity, Live

LEMMA StepKillIsMarked ==
  ASSUME Inv, NEW p \in Processes, ProcessStep(p)
  PROVE  KillIsMarked'
<1> DEFINE Marked == {"kill_sent", "exited", "exit_unverified"}
<1>1. ASSUME NEW q \in Processes, state[q] \in Marked  PROVE state'[q] \in Marked
  BY <1>1, StateMoves, MoveFacts DEF Launch
<1>2. ASSUME NEW q \in Processes, q \in killed'  PROVE state'[q] \in Marked
  <2>1. q \in killed \/ \E a \in Callers : tpc[q][a] = "sendKill"
    BY <1>2 DEF ProcessStep, TerminateStep, TerminateLoad, TerminateMarkTerm,
       TerminateReadTerm, TerminateSendTerm, TerminateGraceWait, TerminateReload,
       TerminateMarkKill, TerminateReadKill, TerminateSendKill, TerminateKillWait,
       TerminateFinalize, Launch, LauncherCrashes, LauncherStep,
       LauncherProgress, Spawn, SpawnFails, MarkRunning, IdentityUnavailable,
       AbortLaunch, WaitRaises, StopRequested, LeaderExits, WaitExpires,
       InspectGroup, CloseLaunch, OsStep, Fork, LeaderDies, KinDie, InitReaps,
       PidReused, StrangerExits, OperatorTerminates, OperatorCrashes, osVars
  <2> QED  BY <1>1, <2>1 DEF Inv, KillIsMarked
<1>3. ASSUME NEW q \in Processes, NEW b \in Callers,
             tpc'[q][b] \in {"readKill", "sendKill"}
      PROVE  state'[q] \in Marked
  <2>1. CASE tpc[q][b] \in {"readKill", "sendKill"}
    BY <1>1, <2>1 DEF Inv, KillIsMarked
  <2>2. CASE tpc[q][b] \notin {"readKill", "sendKill"}
    <3>1. q = p /\ TerminateStep(p, b)
      BY <1>3, <2>2, CallsMove DEF Inv
    <3>2. TerminateMarkKill(p, b)
      BY <1>3, <2>2, <3>1 DEF TerminateStep, TerminateLoad, TerminateMarkTerm,
         TerminateReadTerm, TerminateSendTerm, TerminateGraceWait,
         TerminateReload, TerminateReadKill, TerminateSendKill,
         TerminateKillWait, TerminateFinalize, Goto, Inv, TypeOK
    <3> QED  BY <1>3, <3>1, <3>2 DEF TerminateMarkKill, Goto, Inv, TypeOK
  <2> QED  BY <2>1, <2>2
<1> QED  BY <1>2, <1>3 DEF KillIsMarked

-----------------------------------------------------------------------------
LEMMA StepInv ==
  ASSUME Inv, [Next]_vars
  PROVE  Inv'
<1>1. CASE Next
  <2>1. PICK p \in Processes : ProcessStep(p)
    BY <1>1 DEF Next
  <2>2. TypeOK' /\ LauncherKnowsRow' /\ CallIsProven' /\ VerdictIsSound'
    BY <2>1, StepTypeOK, StepLauncherKnowsRow, StepCallIsProven,
       StepVerdictIsSound DEF Inv
  <2>3. UnstartedIsEmpty' /\ ExitedMeansLeaderGone' /\ KillIsMarked' /\ OneActiveRow'
    BY <2>1, StepUnstartedIsEmpty, StepExitedMeansLeaderGone, StepKillIsMarked,
       StepOneActiveRow
  <2> QED  BY <2>2, <2>3 DEF Inv
<1>2. CASE UNCHANGED vars
  BY <1>2 DEF vars, Inv, TypeOK, LauncherKnowsRow, CallIsProven,
     VerdictIsSound, UnstartedIsEmpty, ExitedMeansLeaderGone, KillIsMarked,
     OneActiveRow, HasIdentity, Live
<1> QED  BY <1>1, <1>2

\* Inv holds of every reachable state of executor_processes, the process
\* groups, the launcher and the operators.
THEOREM ProcessInvHolds == Spec => []Inv
<1>1. Inv /\ [Next]_vars => Inv'
  BY StepInv
<1> QED  BY InitInv, <1>1, PTL DEF Spec

\* Every variable of the process registry keeps its type, whoever is inside
\* run_managed_process or terminate_registered_process.
THEOREM ProcessTypeOK == Spec => []TypeOK
<1>1. Inv => TypeOK
  BY DEF Inv
<1> QED  BY ProcessInvHolds, <1>1, PTL

\* terminate_registered_process and run_managed_process never record a
\* verified exit of a process whose leader is alive.
THEOREM ExitedLeaderIsGone == Spec => []ExitedMeansLeaderGone
<1>1. Inv => ExitedMeansLeaderGone
  BY DEF Inv
<1> QED  BY ProcessInvHolds, <1>1, PTL

\* Two launches overlap in a worktree only behind a row that says
\* exit_unverified or start_failed, or beside a descendant of an exited leader.
THEOREM OverlapIsReported == Spec => []NoUnreportedOverlap
<1>1. ASSUME Inv, NEW p \in Processes, NEW q \in Processes, p # q,
             Live(p), Live(q)
      PROVE  \E r \in {p, q} :
               \/ state[r] \in {"exit_unverified", "start_failed"}
               \/ state[r] = "exited" /\ leader[r] # "alive"
  <2>1. PICK r \in {p, q} : state[r] \notin ACTIVE_PROCESS_STATES
    BY <1>1 DEF Inv, OneActiveRow
  <2>2. \/ state[r] \in {"exit_unverified", "start_failed"}
        \/ state[r] = "exited" /\ leader[r] # "alive"
    BY <1>1, <2>1 DEF Inv, TypeOK, States, UnstartedIsEmpty, ExitedMeansLeaderGone
  <2> QED  BY <2>2
<1>2. Inv => NoUnreportedOverlap
  BY <1>1 DEF NoUnreportedOverlap
<1> QED  BY ProcessInvHolds, <1>2, PTL

\* killpg is never about to hit a PID whose start ticks are not the row's.
THEOREM StrangersAreSafe == Spec => []NoStrangerSignaled
<1>1. Inv => NoStrangerSignaled
  BY DEF Inv, CallIsProven, NoStrangerSignaled
<1> QED  BY ProcessInvHolds, <1>1, PTL

\* Every SIGKILL was recorded by mark_signal before killpg.
THEOREM KillsAreOnRecord == Spec => []SignalOnRecord
<1>1. Inv => SignalOnRecord
  BY DEF Inv, KillIsMarked, SignalOnRecord
<1> QED  BY ProcessInvHolds, <1>1, PTL

\* What an operator reads on a row, a verified exit or a signal that was sent,
\* is what happened to the process.
THEOREM RowsTellTruth == Spec => []RowTellsTruth
BY ExitedLeaderIsGone, KillsAreOnRecord, PTL DEF RowTellsTruth
=============================================================================
