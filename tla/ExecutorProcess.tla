--------------------------- MODULE ExecutorProcess ---------------------------
(***************************************************************************)
(* The managed process of an Attempt: its row in executor_processes, the    *)
(* operating system's process group behind that row, the launcher inside    *)
(* the worker process (run_managed_process), and operators that run         *)
(* scripts/terminate_executor_process.py beside it.                         *)
(*                                                                         *)
(* The launcher and every operator may be inside terminate_registered_      *)
(* process for the same row at the same time.  Each read of /proc, each     *)
(* killpg and each transaction on the row is a step of its own.             *)
(***************************************************************************)
EXTENDS Integers, FiniteSets

CONSTANTS
  Processes,   \* process rows, one per launch; all in one Ticket's worktree
  Operators,   \* operators that may be terminating a process
  Launcher,    \* the caller that launched the process
  MayCrash     \* whether the launcher and the operators may be killed

ASSUME LauncherAssumption == Launcher \notin Operators
ASSUME MayCrashAssumption == MayCrash \in BOOLEAN

VARIABLES
  state,     \* executor_processes.state; "none" is no row
  leader,    \* what the PID of the group's leader is
  kin,       \* the launches whose group has a live member beside the leader
  killed,    \* the launches whose group was sent SIGKILL
  lpc,       \* where run_managed_process is
  tpc,       \* where each caller's terminate_registered_process is
  verdict    \* what that call is about to record or return of the exit

osVars == <<leader, kin, killed>>
vars == <<state, leader, kin, killed, lpc, tpc, verdict>>

-----------------------------------------------------------------------------
Callers == {Launcher} \cup Operators

ACTIVE_PROCESS_STATES == {"allocated", "running", "term_sent", "kill_sent"}

States == {"none", "preflight_failed", "start_failed", "exited",
           "exit_unverified"} \cup ACTIVE_PROCESS_STATES

\* What the trigger executor_process_state_guard lets an UPDATE do.
LegalMoves ==
  ({"allocated"} \X {"preflight_failed", "start_failed", "running"})
    \cup ({"running"} \X {"term_sent", "exited", "exit_unverified"})
    \cup ({"term_sent"} \X {"kill_sent", "exited", "exit_unverified"})
    \cup ({"kill_sent"} \X {"exited", "exit_unverified"})
    \cup ({"exit_unverified"} \X {"exited"})

LeaderStates == {"none", "alive", "zombie", "reaped", "reused", "freed"}

LauncherPCs == {"none", "allocated", "spawned", "aborting", "polling",
                "waiting", "waitAgain", "inspecting", "closing", "done"}

TerminatePCs == {"idle", "load", "markTerm", "readTerm", "sendTerm",
                 "graceWait", "reload", "markKill", "readKill", "sendKill",
                 "killWait", "finalize"}

Verdicts == {"exited", "unverified"}

TypeOK ==
  /\ state \in [Processes -> States]
  /\ leader \in [Processes -> LeaderStates]
  /\ kin \subseteq Processes
  /\ killed \subseteq Processes
  /\ lpc \in [Processes -> LauncherPCs]
  /\ tpc \in [Processes -> [Callers -> TerminatePCs]]
  /\ verdict \in [Processes -> [Callers -> Verdicts]]

Init ==
  /\ state = [p \in Processes |-> "none"]
  /\ leader = [p \in Processes |-> "none"]
  /\ kin = {}
  /\ killed = {}
  /\ lpc = [p \in Processes |-> "none"]
  /\ tpc = [p \in Processes |-> [a \in Callers |-> "idle"]]
  /\ verdict = [p \in Processes |-> [a \in Callers |-> "unverified"]]

\* A process of this launch really runs.
Live(p) == leader[p] = "alive" \/ p \in kin

\* What inspect_process_group may come back with.  It lists /proc and then
\* reads the stat files one by one: a zombie is not live, a stranger that got
\* the PID as its session is, and a member forked after the listing is missed
\* when its parent is gone before the parent's stat is read.  The leader's PID
\* is in every listing.  (A listing that itself fails is read as an empty group
\* by the code; here /proc can be listed.)
Sightings(p) ==
  IF leader[p] \in {"alive", "reused"} THEN {"unverified"}
  ELSE IF p \in kin THEN {"unverified", "exited"}
  ELSE {"exited"}

\* PID, PGID and session are on the row from mark_running on.
HasIdentity(p) ==
  state[p] \notin {"none", "allocated", "preflight_failed", "start_failed"}

\* The state that finalize writes over the state it finds.
FinalizedState(s, v) ==
  IF "exited" \in {s, v} THEN "exited" ELSE "exit_unverified"

-----------------------------------------------------------------------------
(* terminate_registered_process, one call of caller a for process p         *)

Goto(p, a, to) == tpc' = [tpc EXCEPT ![p][a] = to]

Decide(p, a, v) == verdict' = [verdict EXCEPT ![p][a] = v]

\* Mutant of TerminateLoad: the PID on the row is trusted without its start ticks.
TerminateLoadUnproven(p, a) ==
  /\ tpc[p][a] = "load"
  /\ Goto(p, a, IF state[p] = "running" THEN "markTerm" ELSE "idle")
  /\ UNCHANGED <<state, osVars, lpc, verdict>>

\* Entry: reload the row, prove its identity, look at the group.  A row
\* without identity, or a PID that now has other start ticks, is an error:
\* nothing is signalled, and the launcher's exception ends its run.
TerminateLoad(p, a) ==
  /\ tpc[p][a] = "load"
  /\ \/ /\ state[p] = "exited"
        /\ Goto(p, a, "idle") /\ Decide(p, a, "exited")
        /\ UNCHANGED lpc
     \/ /\ state[p] = "exit_unverified"
        /\ Goto(p, a, "finalize")
        /\ \E v \in Sightings(p) : Decide(p, a, v)
        /\ UNCHANGED lpc
     \/ /\ state[p] \notin ACTIVE_PROCESS_STATES \cup {"exited", "exit_unverified"}
        /\ Goto(p, a, "idle") /\ UNCHANGED <<verdict, lpc>>
     \/ /\ state[p] \in ACTIVE_PROCESS_STATES
        /\ ~HasIdentity(p) \/ leader[p] = "reused"
        /\ Goto(p, a, "idle") /\ UNCHANGED verdict
        /\ lpc' = [lpc EXCEPT ![p] = IF a = Launcher THEN "done" ELSE @]
     \/ /\ state[p] \in ACTIVE_PROCESS_STATES /\ HasIdentity(p)
        /\ leader[p] # "reused"
        /\ \/ /\ "exited" \in Sightings(p)
              /\ Goto(p, a, "finalize") /\ Decide(p, a, "exited")
           \/ /\ "unverified" \in Sightings(p)
              /\ Goto(p, a, IF state[p] = "running" THEN "markTerm"
                                                    ELSE "graceWait")
              /\ UNCHANGED verdict
        /\ UNCHANGED lpc
  /\ UNCHANGED <<state, osVars>>

\* mark_signal(SIGTERM) commits.  The trigger lets a state be rewritten as
\* itself, so a caller that lost the race to term_sent may still send the
\* signal; an update it refuses raises, and the signal is skipped.
TerminateMarkTerm(p, a) ==
  /\ tpc[p][a] = "markTerm"
  /\ IF state[p] \in {"running", "term_sent"}
       THEN /\ state' = [state EXCEPT ![p] = "term_sent"]
            /\ Goto(p, a, "readTerm")
       ELSE Goto(p, a, "graceWait") /\ UNCHANGED state
  /\ UNCHANGED <<osVars, lpc, verdict>>

\* _transition returns the row as it reads it after its commit: the signal is
\* sent only if nobody has moved the row on.
TerminateReadTerm(p, a) ==
  /\ tpc[p][a] = "readTerm"
  /\ Goto(p, a, IF state[p] = "term_sent" THEN "sendTerm" ELSE "graceWait")
  /\ UNCHANGED <<state, osVars, lpc, verdict>>

\* killpg(SIGTERM): the group may exit on it or ignore it.
TerminateSendTerm(p, a) ==
  /\ tpc[p][a] = "sendTerm"
  /\ Goto(p, a, "graceWait")
  /\ UNCHANGED <<state, osVars, lpc, verdict>>

TerminateGraceWait(p, a) ==
  /\ tpc[p][a] = "graceWait"
  /\ \/ /\ "exited" \in Sightings(p)
        /\ Goto(p, a, "finalize") /\ Decide(p, a, "exited")
     \/ /\ "unverified" \in Sightings(p)
        /\ Goto(p, a, "reload") /\ UNCHANGED verdict
  /\ UNCHANGED <<state, osVars, lpc>>

\* Mutant of TerminateReload: SIGKILL sent without its compare-and-set.
TerminateReloadUnmarked(p, a) ==
  /\ tpc[p][a] = "reload"
  /\ Goto(p, a, "sendKill")
  /\ UNCHANGED <<state, osVars, lpc, verdict>>

TerminateReload(p, a) ==
  /\ tpc[p][a] = "reload"
  /\ \/ /\ state[p] = "exited"
        /\ Goto(p, a, "idle") /\ Decide(p, a, "exited")
     \/ /\ state[p] = "exit_unverified"
        /\ Goto(p, a, "finalize")
        /\ \E v \in Sightings(p) : Decide(p, a, v)
     \/ /\ state[p] = "term_sent"
        /\ Goto(p, a, "markKill") /\ UNCHANGED verdict
     \/ /\ state[p] \notin {"exited", "exit_unverified", "term_sent"}
        /\ Goto(p, a, "killWait") /\ UNCHANGED verdict
  /\ UNCHANGED <<state, osVars, lpc>>

TerminateMarkKill(p, a) ==
  /\ tpc[p][a] = "markKill"
  /\ IF state[p] \in {"term_sent", "kill_sent"}
       THEN /\ state' = [state EXCEPT ![p] = "kill_sent"]
            /\ Goto(p, a, "readKill")
       ELSE Goto(p, a, "killWait") /\ UNCHANGED state
  /\ UNCHANGED <<osVars, lpc, verdict>>

\* The row is read again: a caller that waited out the kill may have closed it
\* as exit_unverified in between, and then no SIGKILL is sent.
TerminateReadKill(p, a) ==
  /\ tpc[p][a] = "readKill"
  /\ Goto(p, a, IF state[p] = "kill_sent" THEN "sendKill" ELSE "killWait")
  /\ UNCHANGED <<state, osVars, lpc, verdict>>

\* killpg(SIGKILL).  ProcessLookupError is ignored: there is nobody left.
TerminateSendKill(p, a) ==
  /\ tpc[p][a] = "sendKill"
  /\ killed' = killed \cup {p}
  /\ Goto(p, a, "killWait")
  /\ UNCHANGED <<state, leader, kin, lpc, verdict>>

\* A group that SIGKILL has not ended within kill_wait_seconds is unverified.
TerminateKillWait(p, a) ==
  /\ tpc[p][a] = "killWait"
  /\ Goto(p, a, "finalize")
  /\ \E v \in Sightings(p) : Decide(p, a, v)
  /\ UNCHANGED <<state, osVars, lpc>>

TerminateFinalize(p, a) ==
  /\ tpc[p][a] = "finalize"
  /\ state' = [state EXCEPT ![p] = FinalizedState(@, verdict[p][a])]
  /\ Goto(p, a, "idle")
  /\ UNCHANGED <<osVars, lpc, verdict>>

TerminateStep(p, a) ==
  \/ TerminateLoad(p, a)
  \/ TerminateMarkTerm(p, a)
  \/ TerminateReadTerm(p, a)
  \/ TerminateSendTerm(p, a)
  \/ TerminateGraceWait(p, a)
  \/ TerminateReload(p, a)
  \/ TerminateMarkKill(p, a)
  \/ TerminateReadKill(p, a)
  \/ TerminateSendKill(p, a)
  \/ TerminateKillWait(p, a)
  \/ TerminateFinalize(p, a)

-----------------------------------------------------------------------------
(* run_managed_process                                                      *)

\* Between two of the launcher's calls of terminate_registered_process.
LauncherFree(p) == tpc[p][Launcher] = "idle"

CallTerminate(p, returnTo) ==
  /\ lpc' = [lpc EXCEPT ![p] = returnTo]
  /\ Goto(p, Launcher, "load")
  /\ Decide(p, Launcher, "unverified")

\* Mutants of Launch: the row starts in the manifest's state, which the table
\* does not know; a row that was signalled no longer refuses the next launch.
LaunchPending(p) ==
  /\ state[p] = "none"
  /\ state' = [state EXCEPT ![p] = "pending_preflight"]
  /\ lpc' = [lpc EXCEPT ![p] = "done"]
  /\ UNCHANGED <<osVars, tpc, verdict>>

LaunchOverSignaled(p) ==
  /\ state[p] = "none"
  /\ \A q \in Processes \ {p} :
       /\ lpc[q] \in {"none", "done"}
       /\ state[q] \notin {"allocated", "running"}
  /\ state' = [state EXCEPT ![p] = "allocated"]
  /\ lpc' = [lpc EXCEPT ![p] = "allocated"]
  /\ UNCHANGED <<osVars, tpc, verdict>>

\* A launch follows the end of the launch before it: the worker runs its
\* processes one after the other, and a new Attempt waits for retry_ticket,
\* which (as preflight does) refuses while a row is in an active state.
NoActiveProcess(p) ==
  \A q \in Processes \ {p} :
    /\ lpc[q] \in {"none", "done"}
    /\ state[q] \notin ACTIVE_PROCESS_STATES

\* Preflight may fail for reasons of its own; the row then says so at once.
Launch(p) ==
  /\ state[p] = "none"
  /\ NoActiveProcess(p)
  /\ \/ /\ state' = [state EXCEPT ![p] = "preflight_failed"]
        /\ lpc' = [lpc EXCEPT ![p] = "done"]
     \/ /\ state' = [state EXCEPT ![p] = "allocated"]
        /\ lpc' = [lpc EXCEPT ![p] = "allocated"]
  /\ UNCHANGED <<osVars, tpc, verdict>>

Spawn(p) ==
  /\ lpc[p] = "allocated"
  /\ leader' = [leader EXCEPT ![p] = "alive"]
  /\ lpc' = [lpc EXCEPT ![p] = "spawned"]
  /\ UNCHANGED <<state, kin, killed, tpc, verdict>>

SpawnFails(p) ==
  /\ lpc[p] = "allocated"
  /\ state' = [state EXCEPT ![p] = "start_failed"]
  /\ lpc' = [lpc EXCEPT ![p] = "done"]
  /\ UNCHANGED <<osVars, tpc, verdict>>

MarkRunning(p) ==
  /\ lpc[p] = "spawned"
  /\ state' = [state EXCEPT ![p] = "running"]
  /\ lpc' = [lpc EXCEPT ![p] = "polling"]
  /\ UNCHANGED <<osVars, tpc, verdict>>

\* The leader's /proc entry could not be read, or it leads no session: the
\* leader alone is sent SIGTERM.
IdentityUnavailable(p) ==
  /\ lpc[p] = "spawned"
  /\ lpc' = [lpc EXCEPT ![p] = "aborting"]
  /\ UNCHANGED <<state, osVars, tpc, verdict>>

\* Popen.poll and Popen.wait reap the leader.
ReapLeader(p) ==
  /\ leader[p] = "zombie"
  /\ leader' = [leader EXCEPT ![p] = "reaped"]

AbortLaunch(p) ==
  /\ lpc[p] = "aborting"
  /\ ReapLeader(p)
  /\ state' = [state EXCEPT ![p] = "start_failed"]
  /\ lpc' = [lpc EXCEPT ![p] = "done"]
  /\ UNCHANGED <<kin, killed, tpc, verdict>>

\* wait(timeout) raises: the row keeps its state.
WaitRaises(p) ==
  /\ lpc[p] \in {"aborting", "waitAgain"} /\ LauncherFree(p)
  /\ leader[p] = "alive"
  /\ lpc' = [lpc EXCEPT ![p] = "done"]
  /\ UNCHANGED <<state, osVars, tpc, verdict>>

\* The poll loop sees a kill request, or the deadline has passed.
StopRequested(p) ==
  /\ lpc[p] = "polling"
  /\ CallTerminate(p, "waiting")
  /\ UNCHANGED <<state, osVars>>

LeaderExits(p) ==
  /\ lpc[p] \in {"polling", "waiting", "waitAgain"} /\ LauncherFree(p)
  /\ ReapLeader(p)
  /\ lpc' = [lpc EXCEPT ![p] = "inspecting"]
  /\ UNCHANGED <<state, kin, killed, tpc, verdict>>

WaitExpires(p) ==
  /\ lpc[p] = "waiting" /\ LauncherFree(p)
  /\ leader[p] = "alive"
  /\ CallTerminate(p, "waitAgain")
  /\ UNCHANGED <<state, osVars>>

\* The leader is reaped; live descendants are terminated first.
InspectGroup(p) ==
  /\ lpc[p] = "inspecting"
  /\ \/ /\ "exited" \in Sightings(p)
        /\ state' = [state EXCEPT ![p] = FinalizedState(@, "exited")]
        /\ lpc' = [lpc EXCEPT ![p] = "done"]
        /\ UNCHANGED <<tpc, verdict>>
     \/ /\ "unverified" \in Sightings(p)
        /\ CallTerminate(p, "closing") /\ UNCHANGED state
  /\ UNCHANGED osVars

CloseLaunch(p) ==
  /\ lpc[p] = "closing" /\ LauncherFree(p)
  /\ state' = [state EXCEPT ![p] = FinalizedState(@, verdict[p][Launcher])]
  /\ lpc' = [lpc EXCEPT ![p] = "done"]
  /\ UNCHANGED <<osVars, tpc, verdict>>

\* What the launcher does without a stop request from outside.
LauncherProgress(p) ==
  \/ Spawn(p)
  \/ SpawnFails(p)
  \/ MarkRunning(p)
  \/ IdentityUnavailable(p)
  \/ AbortLaunch(p)
  \/ WaitRaises(p)
  \/ LeaderExits(p)
  \/ WaitExpires(p)
  \/ InspectGroup(p)
  \/ CloseLaunch(p)

LauncherStep(p) == StopRequested(p) \/ LauncherProgress(p)

\* terminate_executor_process.py selects the row and calls terminate.
OperatorTerminates(p, o) ==
  /\ state[p] # "none"
  /\ tpc[p][o] = "idle"
  /\ Goto(p, o, "load") /\ Decide(p, o, "unverified")
  /\ UNCHANGED <<state, osVars, lpc>>

LauncherCrashes(p) ==
  /\ MayCrash
  /\ lpc[p] \notin {"none", "done"}
  /\ lpc' = [lpc EXCEPT ![p] = "done"]
  /\ Goto(p, Launcher, "idle")
  /\ UNCHANGED <<state, osVars, verdict>>

OperatorCrashes(p, o) ==
  /\ MayCrash
  /\ tpc[p][o] # "idle"
  /\ Goto(p, o, "idle")
  /\ UNCHANGED <<state, osVars, lpc, verdict>>

-----------------------------------------------------------------------------
(* The operating system                                                     *)

\* Only a live process forks, and a group that was sent SIGKILL does not.
Fork(p) ==
  /\ Live(p) /\ p \notin killed
  /\ kin' = kin \cup {p}
  /\ UNCHANGED <<state, leader, killed, lpc, tpc, verdict>>

LeaderDies(p) ==
  /\ leader[p] = "alive"
  /\ leader' = [leader EXCEPT ![p] = "zombie"]
  /\ UNCHANGED <<state, kin, killed, lpc, tpc, verdict>>

KinDie(p) ==
  /\ p \in kin
  /\ kin' = kin \ {p}
  /\ UNCHANGED <<state, leader, killed, lpc, tpc, verdict>>

\* A launcher that is gone no longer reaps its child: init does.
InitReaps(p) ==
  /\ lpc[p] = "done"
  /\ ReapLeader(p)
  /\ UNCHANGED <<state, kin, killed, lpc, tpc, verdict>>

\* The kernel gives the PID of a group that is gone to another session.  PIDs
\* are allocated round robin, so this is taken to fall between two calls of
\* terminate_registered_process, never inside one (they last seconds).  The
\* model reuses a PID once; "freed" is a PID that nobody has any more.
PidReused(p) ==
  /\ leader[p] = "reaped" /\ p \notin kin
  /\ \A a \in Callers : tpc[p][a] \in {"idle", "load"}
  /\ leader' = [leader EXCEPT ![p] = "reused"]
  /\ UNCHANGED <<state, kin, killed, lpc, tpc, verdict>>

StrangerExits(p) ==
  /\ leader[p] = "reused"
  /\ leader' = [leader EXCEPT ![p] = "freed"]
  /\ UNCHANGED <<state, kin, killed, lpc, tpc, verdict>>

OsStep(p) ==
  \/ Fork(p)
  \/ LeaderDies(p)
  \/ KinDie(p)
  \/ InitReaps(p)
  \/ PidReused(p)
  \/ StrangerExits(p)

ProcessStep(p) ==
  \/ Launch(p)
  \/ LauncherStep(p)
  \/ LauncherCrashes(p)
  \/ OsStep(p)
  \/ \E a \in Callers : TerminateStep(p, a)
  \/ \E o \in Operators : OperatorTerminates(p, o) \/ OperatorCrashes(p, o)

Next == \E p \in Processes : ProcessStep(p)

Spec == Init /\ [][Next]_vars

\* SIGKILL ends a group, sooner or later.
KilledGroupDies(p) == p \in killed /\ (LeaderDies(p) \/ KinDie(p))

\* A launcher and a terminate call that have begun go on, every wait of theirs
\* being bounded; the kernel delivers SIGKILL and init reaps.  Nobody has to
\* start a terminate call, and a stranger may keep a PID for ever.
Fairness ==
  \A p \in Processes :
    /\ WF_vars(LauncherProgress(p))
    /\ \A a \in Callers : WF_vars(TerminateStep(p, a))
    /\ WF_vars(KilledGroupDies(p))
    /\ WF_vars(InitReaps(p))

LiveSpec == Spec /\ Fairness

-----------------------------------------------------------------------------
(* Properties                                                               *)

\* A row says `exited` (verified_exit = 1) only when the leader of the process
\* group is gone, however the launcher and the operators interleave: finalize
\* runs long after the /proc scan its verdict comes from.  A descendant forked
\* while /proc was read may have been missed.
ExitedMeansLeaderGone ==
  \A p \in Processes : state[p] = "exited" => leader[p] # "alive"

\* Two launches are alive in one worktree only when a row says that its exit was
\* not verified, or that it was never identified, or what is left of an exited
\* one is a descendant the scan missed: while a row is active the next launch
\* is refused.
NoUnreportedOverlap ==
  \A p, q \in Processes :
    p # q /\ Live(p) /\ Live(q) =>
      \E r \in {p, q} :
        \/ state[r] \in {"exit_unverified", "start_failed"}
        \/ state[r] = "exited" /\ leader[r] # "alive"

\* Nobody is about to signal a PID that belongs to a stranger: the start ticks
\* on the row were compared with the PID's before the first signal of a call.
NoStrangerSignaled ==
  \A p \in Processes, a \in Callers :
    tpc[p][a] \in {"markTerm", "readTerm", "sendTerm",
                   "markKill", "readKill", "sendKill"} =>
      leader[p] # "reused"

\* No SIGKILL without its record: mark_signal's compare-and-set comes before
\* killpg, also when the launcher and the operators race through term_sent,
\* so an operator who reads `running` or `term_sent` knows none was sent.
SignalOnRecord ==
  \A p \in Processes :
    p \in killed => state[p] \in {"kill_sent", "exited", "exit_unverified"}

\* A process row tells the truth to the operator who reads it: what it calls
\* exited has no leader any more, and every SIGKILL sent is on it (finalize, mark_signal).
RowTellsTruth == ExitedMeansLeaderGone /\ SignalOnRecord

(* The inductive invariant behind the ones above                            *)

\* The launcher knows its row: allocated until mark_running or
\* mark_start_failed, and identified from then on.
LauncherKnowsRow ==
  \A p \in Processes :
    /\ lpc[p] \in {"allocated", "spawned", "aborting"} => state[p] = "allocated"
    /\ lpc[p] \in {"polling", "waiting", "waitAgain", "inspecting", "closing"} =>
         HasIdentity(p)

\* A call that got past its entry has an identity, and no stranger's PID.
CallIsProven ==
  \A p \in Processes, a \in Callers :
    /\ tpc[p][a] \notin {"idle", "load"} => HasIdentity(p)
    /\ tpc[p][a] \notin {"idle", "load", "finalize"} => leader[p] # "reused"

\* A verdict of exit stays true until it is written.
VerdictIsSound ==
  \A p \in Processes, a \in Callers :
    verdict[p][a] = "exited" => HasIdentity(p) /\ leader[p] # "alive"

\* A row that never got a process has none.
UnstartedIsEmpty ==
  \A p \in Processes : state[p] \in {"none", "preflight_failed"} => ~Live(p)

\* SIGKILL is sent from a row on which it is recorded.
KillIsMarked ==
  \A p \in Processes :
    (p \in killed \/ \E a \in Callers : tpc[p][a] \in {"readKill", "sendKill"}) =>
      state[p] \in {"kill_sent", "exited", "exit_unverified"}

\* At most one row of the worktree is active.
OneActiveRow ==
  \A p, q \in Processes :
    {state[p], state[q]} \subseteq ACTIVE_PROCESS_STATES => p = q

Inv ==
  /\ TypeOK
  /\ LauncherKnowsRow
  /\ CallIsProven
  /\ VerdictIsSound
  /\ UnstartedIsEmpty
  /\ ExitedMeansLeaderGone
  /\ KillIsMarked
  /\ OneActiveRow

\* A terminate call on an identified process ends its leader, with nobody
\* crashing and whoever wins the races for the signals: "Signal one proven
\* process group, escalate, and persist verified exit".
TerminateEndsLeader ==
  \A p \in Processes :
    (HasIdentity(p) /\ \E o \in Operators : tpc[p][o] = "load")
      ~> leader[p] # "alive"

=============================================================================
