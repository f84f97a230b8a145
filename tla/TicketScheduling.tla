-------------------------- MODULE TicketScheduling --------------------------
(***************************************************************************)
(* Which Ticket runs next: dependencies between Tickets, the execution     *)
(* tick, automatic retries, operator pause and kill controls, and the      *)
(* operators who create, block, retry and rework Tickets meanwhile.        *)
(*                                                                         *)
(* One execution tick runs at a time, behind its flock; a killed tick      *)
(* drops the flock.  Every transaction or read of the tick is one step, so *)
(* what it read may be stale when it writes.  Runtime ownership is the     *)
(* subject of RuntimeAdmission and is a worker slot here: a slot that is   *)
(* "running" or "dead" holds the lease of its Ticket, "dead" meaning that  *)
(* its lease has run out; what such a worker leaves behind, a row of an     *)
(* executor process or a process that still answers to its PID, outlives   *)
(* the lease.  The integration of a Ticket is the subject of Integration   *)
(* and is the status "in_integration" here (ready_for_integration,         *)
(* integrating, waiting_for_review).                                       *)
(***************************************************************************)
EXTENDS Integers, FiniteSets

CONSTANTS
  Tickets,           \* task keys
  Workers,           \* slots for worker processes
  NoTicket, NoWorker,\* NULL
  Rank,              \* priority, then created_at, then task_key: lower first
  Capacity,          \* max_concurrent_tasks
  MAX_AUTO_RETRIES,
  MaxEvents          \* bound on operator actions and failures in a behaviour

ASSUME NullAssumption == NoTicket \notin Tickets /\ NoWorker \notin Workers
ASSUME RankAssumption == Rank \in [Tickets -> Nat]
ASSUME RetryAssumption == MAX_AUTO_RETRIES \in Nat
ASSUME BoundAssumption == MaxEvents \in Nat /\ Capacity \in Nat
ASSUME ScopeAssumption == {"global", "project"} \cap Tickets = {}

VARIABLES
  status,       \* tasks.status; "absent" is no row
  blockedBy,    \* tasks.blocked_by
  statusSource, \* source of the latest status_changed event
  stopOwned,    \* dependency_owned of the latest blocker-stop note
  retries,      \* number of auto_retry events
  due,          \* the backoff of the current failure has passed
  killed,       \* the latest Attempt ended with operator_kill_requested
  control,      \* runtime_controls.mode per scope
  wpc,          \* where each worker process is
  wticket,      \* the Ticket it was started for
  executors,    \* Tickets with an active executor_processes row nobody watches
  resources,    \* Tickets whose attempt_resources are live without a lease
  tick,         \* where the execution tick is; "idle" is no tick
  todo,         \* what is left of the tick's current list
  cur,          \* the Ticket the tick is working on
  changed,      \* cur has a status_changed event newer than the tick's read
  attempted,    \* cur has an Attempt newer than the tick's read
  mine,         \* the worker whose claim the tick awaits
  waits,        \* the workers the tick waits for before it ends
  lockFile,     \* content of the execution-tick lock file
  awaitsRetry,  \* history: Tickets whose work stopped and was not retried yet
  integrated,   \* history: Tickets that were handed over to integration
  events        \* operator actions and failures so far

ticketVars == <<status, blockedBy, statusSource, stopOwned, retries, due,
                killed, awaitsRetry, integrated>>
leftVars == <<executors, resources>>
workerVars == <<wpc, wticket, leftVars>>
tickVars == <<tick, todo, cur, changed, attempted, mine, waits, lockFile>>
vars == <<status, blockedBy, statusSource, stopOwned, retries, due, killed,
          control, wpc, wticket, executors, resources, tick, todo, cur,
          changed, attempted, mine, waits, lockFile, awaitsRetry, integrated,
          events>>

-----------------------------------------------------------------------------
STOPPED_BLOCKER_STATUSES == {"failed", "canceled"}
TICKET_RETRY_FROM_STATUSES == {"failed", "needs_decision"}
\* ready rows never have a reserved Attempt here: only the legacy reset
\* reserves one.
READY_STATUSES == {"created"}
NOT_REDIRECTED_STATUSES == {"needs_decision", "completed", "canceled"}
Statuses == {"absent", "created", "blocked", "running", "failed",
             "needs_decision", "in_integration", "completed", "canceled"}

CONTROL_MODES == {"running", "paused", "kill_requested"}
CONTROL_SCOPES == {"global", "project"} \cup Tickets

WorkerPCs == {"idle", "starting", "admitted", "running", "dead", "full"}
TickPCs == {"idle", "reap", "dependencies", "listFailed", "readFailure",
            "autoRetry", "select", "next", "prepare", "await", "wait"}

Exists(t) == status[t] # "absent"

\* unreleased_dependency_in_connection returns None.
Released(t) == blockedBy[t] # NoTicket => status[blockedBy[t]] = "completed"

\* _effective_runtime_control_in_connection
EffectiveControl(t) ==
  LET modes == {control[s] : s \in {"global", "project", t}} IN
  IF "kill_requested" \in modes THEN "kill_requested"
  ELSE IF "paused" \in modes THEN "paused" ELSE "running"

Leases == {w \in Workers : wpc[w] \in {"running", "dead"}}
HasLease(t) == \E w \in Leases : wticket[w] = t

\* Mutant of DependencyOwned: any stop by the dependency pass was a mere wait.
DependencyOwnedByAnyStop(t) ==
  \/ status[t] = "blocked" /\ blockedBy[t] # NoTicket
  \/ status[t] = "needs_decision" /\ statusSource[t] = "dependencies"

\* _dependency_owned
DependencyOwned(t) ==
  \/ status[t] = "blocked" /\ blockedBy[t] # NoTicket
  \/ /\ status[t] = "needs_decision"
     /\ statusSource[t] = "dependencies"
     /\ stopOwned[t]

\* Mutant of ChainReaches: only a Ticket that blocks itself is refused.
ChainReachesSelf(b, t) == b = t

\* _cycle_path: walking blocked_by from b comes to t.  The walk visits the
\* least set that contains b and every blocker of its members.
ChainReaches(b, t) ==
  \A C \in SUBSET Tickets :
    (b \in C /\ \A x \in C : blockedBy[x] # NoTicket => blockedBy[x] \in C)
      => t \in C

-----------------------------------------------------------------------------
Init ==
  /\ status = [t \in Tickets |-> "absent"]
  /\ blockedBy = [t \in Tickets |-> NoTicket]
  /\ statusSource = [t \in Tickets |-> "other"]
  /\ stopOwned = [t \in Tickets |-> FALSE]
  /\ retries = [t \in Tickets |-> 0]
  /\ due = [t \in Tickets |-> FALSE]
  /\ killed = [t \in Tickets |-> FALSE]
  /\ control = [s \in CONTROL_SCOPES |-> "running"]
  /\ wpc = [w \in Workers |-> "idle"]
  /\ wticket = [w \in Workers |-> NoTicket]
  /\ executors = {} /\ resources = {}
  /\ tick = "idle" /\ todo = {} /\ cur = NoTicket
  /\ changed = FALSE /\ attempted = FALSE
  /\ mine = NoWorker /\ waits = {}
  /\ lockFile = "empty"
  /\ awaitsRetry = {} /\ integrated = {}
  /\ events = 0

\* One more operator action or failure.
Counted == events < MaxEvents /\ events' = events + 1

\* Every status write records a status_changed event with its source.  It
\* restarts the clock of a failure and makes what the tick read stale.
WriteStatus(new, source) ==
  LET moved == {t \in Tickets : new[t] # status[t]} IN
  /\ status' = new
  /\ statusSource' = [t \in Tickets |->
                        IF t \in moved THEN source ELSE statusSource[t]]
  /\ due' = [t \in Tickets |-> due[t] /\ t \notin moved]
  /\ changed' = (changed \/ (tick = "autoRetry" /\ cur \in moved))

Write(t, s) == WriteStatus([status EXCEPT ![t] = s], "other")

\* History: work that stopped waits for an audited retry.
Stops(S) == awaitsRetry' = awaitsRetry \cup S

tickPlace == <<tick, todo, cur, mine, waits, lockFile>>

-----------------------------------------------------------------------------
(* Operators *)

\* create_ticket: a blocked Ticket has a blocker that exists.
CreateTicket(t, b) ==
  /\ ~Exists(t) /\ (b # NoTicket => Exists(b))
  /\ Write(t, IF b = NoTicket THEN "created" ELSE "blocked")
  /\ blockedBy' = [blockedBy EXCEPT ![t] = b]
  /\ UNCHANGED <<stopOwned, retries, killed, control, workerVars, tickPlace,
                 attempted, awaitsRetry, integrated, events>>

\* set_blocked_by, after _validate.
SetBlockedBy(t, b) ==
  /\ Exists(t) /\ Exists(b) /\ b # t
  /\ ~ChainReaches(b, t)
  /\ blockedBy' = [blockedBy EXCEPT ![t] = b]
  /\ WriteStatus(IF status[t] \in READY_STATUSES \/ DependencyOwned(t)
                   THEN [status EXCEPT ![t] = "blocked"] ELSE status,
                 "dependencies")
  /\ Counted
  /\ UNCHANGED <<stopOwned, retries, killed, control, workerVars, tickPlace,
                 attempted, awaitsRetry, integrated>>

\* remove_blocked_by
RemoveBlockedBy(t) ==
  /\ blockedBy[t] # NoTicket
  /\ blockedBy' = [blockedBy EXCEPT ![t] = NoTicket]
  /\ WriteStatus(IF DependencyOwned(t)
                   THEN [status EXCEPT ![t] = "created"] ELSE status,
                 "dependencies")
  /\ Counted
  /\ UNCHANGED <<stopOwned, retries, killed, control, workerVars, tickPlace,
                 attempted, awaitsRetry, integrated>>

\* Mutant of NoProcessLeft: the executor rows are not read.
NoProcessLeftOfResources(t) == t \notin resources

\* The last Attempt runs no process in the worktree that the next one shares.
NoProcessLeft(t) == t \notin executors /\ t \notin resources

\* Mutant of RetryTicket: a retry that does not look at the blocker.
RetryTicketUnreleased(t, From) ==
  /\ status[t] \in From
  /\ ~HasLease(t) /\ NoProcessLeft(t)
  /\ Write(t, "created")
  /\ awaitsRetry' = awaitsRetry \ {t}
  /\ UNCHANGED <<blockedBy, stopOwned, killed, control, workerVars, integrated>>

\* The transaction of retry_ticket, from one of the statuses in From.
RetryTicket(t, From) ==
  /\ status[t] \in From
  /\ ~HasLease(t) /\ NoProcessLeft(t) /\ Released(t)
  /\ Write(t, "created")
  /\ awaitsRetry' = awaitsRetry \ {t}
  /\ UNCHANGED <<blockedBy, stopOwned, killed, control, workerVars, integrated>>

\* The operator's retry.
Retry(t) ==
  /\ RetryTicket(t, TICKET_RETRY_FROM_STATUSES)
  /\ Counted
  /\ UNCHANGED <<retries, tickPlace, attempted>>

\* _start_feedback_attempt: pull-request feedback sends the Ticket back.
Feedback(t) ==
  /\ RetryTicket(t, {"in_integration"})
  /\ Counted
  /\ UNCHANGED <<retries, tickPlace, attempted>>

\* rework_ticket: the Ticket is canceled and replaced by Ticket n.
Rework(t, n) ==
  /\ status[t] \in {"in_integration", "needs_decision", "failed"}
  /\ ~Exists(n)
  /\ WriteStatus([status EXCEPT ![t] = "canceled", ![n] = "created"], "other")
  /\ Counted
  /\ UNCHANGED <<blockedBy, stopOwned, retries, killed, control, workerVars,
                 tickPlace, attempted, awaitsRetry, integrated>>

\* set_runtime_control: a project is paused or running, never killed.
SetControl(s, m) ==
  /\ control[s] # m /\ ~(s = "project" /\ m = "kill_requested")
  /\ control' = [control EXCEPT ![s] = m]
  /\ Counted
  /\ UNCHANGED <<ticketVars, workerVars, tickVars>>

\* The integration tick ends a Ticket's integration, also of one that has
\* stopped for a decision since (see Integration).
IntegrationEnds(t) ==
  /\ \/ status[t] = "in_integration"
     \/ status[t] = "needs_decision" /\ t \in integrated
  /\ \E s \in {"completed", "canceled", "needs_decision"} \ {status[t]} :
       /\ Write(t, s)
       /\ Stops(IF s = "needs_decision" THEN {t} ELSE {})
  /\ UNCHANGED <<blockedBy, stopOwned, retries, killed, control, workerVars,
                 integrated, tickPlace, attempted, events>>

\* terminate_executor_process, for the row of a worker that is gone.
TerminateExecutor(t) ==
  /\ t \in executors
  /\ executors' = executors \ {t}
  /\ UNCHANGED <<ticketVars, control, wpc, wticket, resources, tickVars, events>>

\* The backoff of a failure passes: BASE_DELAY_SECONDS * BACKOFF_FACTOR ^ count.
BackoffElapses(t) ==
  /\ status[t] = "failed" /\ ~due[t]
  /\ due' = [due EXCEPT ![t] = TRUE]
  /\ UNCHANGED <<status, blockedBy, statusSource, stopOwned, retries, killed,
                 control, workerVars, tickVars, awaitsRetry, integrated, events>>

-----------------------------------------------------------------------------
(* Worker processes: Dispatcher.dispatch_task *)

\* A worker slot is free, and the tick keeps no handle on its last process.
FreeSlot(w) == wpc[w] = "idle" /\ w # mine /\ w \notin waits

StartWorker(w, t) ==
  /\ wpc' = [wpc EXCEPT ![w] = "starting"]
  /\ wticket' = [wticket EXCEPT ![w] = t]
  /\ UNCHANGED leftVars

\* The process ends without holding a lease.
EndWorker(w, pc) ==
  /\ wpc' = [wpc EXCEPT ![w] = pc]
  /\ wticket' = [wticket EXCEPT ![w] = NoTicket]

\* An operator dispatches a Ticket beside the tick.
ManualStart(w, t) ==
  /\ FreeSlot(w) /\ Exists(t)
  /\ StartWorker(w, t)
  /\ Counted
  /\ UNCHANGED <<ticketVars, control, tickVars>>

\* The checks before the claim: control, claimable status, dependency.  A
\* refusal writes nothing.
Admit(w) ==
  /\ wpc[w] = "starting"
  /\ LET t == wticket[w] IN
     IF EffectiveControl(t) = "running" /\ status[t] \in READY_STATUSES /\ Released(t)
       THEN wpc' = [wpc EXCEPT ![w] = "admitted"] /\ UNCHANGED wticket
       ELSE EndWorker(w, "idle")
  /\ UNCHANGED <<ticketVars, control, leftVars, tickVars, events>>

\* Workspace or preflight fails before the claim: the Ticket is failed if it is
\* still as the worker read it.
FailBeforeClaim(w) ==
  /\ wpc[w] = "admitted"
  /\ LET t == wticket[w] IN
     IF status[t] \in READY_STATUSES
       THEN Write(t, "failed") /\ Stops({t})
       ELSE UNCHANGED <<status, statusSource, due, changed, awaitsRetry>>
  /\ EndWorker(w, "idle")
  /\ UNCHANGED <<blockedBy, stopOwned, retries, killed, integrated, control,
                 leftVars, tickPlace, attempted, events>>

\* The claim transaction re-checks everything that Admit read.
Claimable(t) ==
  /\ Cardinality(Leases) < Capacity
  /\ EffectiveControl(t) = "running"
  /\ status[t] \in READY_STATUSES
  /\ Released(t)
  /\ ~HasLease(t)

Claim(w) ==
  /\ wpc[w] = "admitted" /\ Claimable(wticket[w])
  /\ Write(wticket[w], "running")
  /\ killed' = [killed EXCEPT ![wticket[w]] = FALSE]
  /\ wpc' = [wpc EXCEPT ![w] = "running"]
  /\ attempted' = (attempted \/ (tick = "await" /\ cur = wticket[w]))
  /\ UNCHANGED <<blockedBy, stopOwned, retries, control, wticket, leftVars,
                 tickPlace, awaitsRetry, integrated, events>>

\* "full": the result a worker of the tick prints names the capacity limit.
ClaimRefused(w) ==
  /\ wpc[w] = "admitted" /\ ~Claimable(wticket[w])
  /\ EndWorker(w, IF w = mine /\ Cardinality(Leases) >= Capacity THEN "full" ELSE "idle")
  /\ UNCHANGED <<ticketVars, control, leftVars, tickVars, events>>

\* The run ends and releases its lease with the Ticket's status.
EndRun(w, s) ==
  /\ wpc[w] = "running" /\ s \in {"in_integration", "needs_decision", "failed"}
  /\ Write(wticket[w], s)
  /\ Stops(IF s = "in_integration" THEN {} ELSE {wticket[w]})
  /\ integrated' = IF s = "in_integration" THEN integrated \cup {wticket[w]}
                                           ELSE integrated
  /\ EndWorker(w, "idle")
  /\ UNCHANGED <<blockedBy, stopOwned, retries, killed, control, leftVars,
                 tickPlace, attempted, events>>

\* launch_managed_process raises after it has inserted its row, as when the
\* output file cannot be opened: the run fails and the row stays active.
LaunchRaises(w) ==
  /\ wpc[w] = "running"
  /\ Write(wticket[w], "failed")
  /\ Stops({wticket[w]})
  /\ executors' = executors \cup {wticket[w]}
  /\ EndWorker(w, "idle")
  /\ Counted
  /\ UNCHANGED <<blockedBy, stopOwned, retries, killed, integrated, control,
                 resources, tickPlace, attempted>>

\* A boundary of the run meets a kill request.
KilledRun(w) ==
  /\ wpc[w] = "running" /\ EffectiveControl(wticket[w]) = "kill_requested"
  /\ Write(wticket[w], "failed")
  /\ Stops({wticket[w]})
  /\ killed' = [killed EXCEPT ![wticket[w]] = TRUE]
  /\ EndWorker(w, "idle")
  /\ UNCHANGED <<blockedBy, stopOwned, retries, integrated, control, leftVars,
                 tickPlace, attempted, events>>

\* A killed worker leaves its lease behind, and the row of its executor.
WorkerCrash(w) ==
  /\ \/ /\ wpc[w] \in {"starting", "admitted"}
        /\ EndWorker(w, "idle") /\ UNCHANGED executors
     \/ /\ wpc[w] = "running"
        /\ wpc' = [wpc EXCEPT ![w] = "dead"] /\ UNCHANGED wticket
        /\ executors' \in {executors, executors \cup {wticket[w]}}
  /\ Counted
  /\ UNCHANGED <<ticketVars, control, resources, tickVars>>

-----------------------------------------------------------------------------
(* The execution tick *)

\* Mutant of TickStart: a torn record is refused as a foreign file.
TickStartRefusingTorn ==
  /\ tick = "idle" /\ lockFile \in {"empty", "record"}
  /\ tick' = "reap" /\ lockFile' = "record"
  /\ UNCHANGED <<ticketVars, control, workerVars, todo, cur, changed, attempted,
                 mine, waits, events>>

\* TickLock.acquire: a record or a torn record of a killed tick is replaced.
TickStart ==
  /\ tick = "idle" /\ lockFile \in {"empty", "record", "torn"}
  /\ tick' = "reap" /\ lockFile' = "record"
  /\ UNCHANGED <<ticketVars, control, workerVars, todo, cur, changed, attempted,
                 mine, waits, events>>

\* reap_stale_runtime: Tickets of dead workers fail.  Their resources, and those
\* an earlier pass had to keep, are freed unless the PID still answers.
Reap ==
  LET dead == {w \in Workers : wpc[w] = "dead"}
      lost == {wticket[w] : w \in dead} IN
  /\ tick = "reap" /\ tick' = "dependencies"
  /\ WriteStatus([t \in Tickets |-> IF t \in lost THEN "failed" ELSE status[t]], "other")
  /\ Stops(lost)
  /\ wpc' = [w \in Workers |-> IF w \in dead THEN "idle" ELSE wpc[w]]
  /\ wticket' = [w \in Workers |-> IF w \in dead THEN NoTicket ELSE wticket[w]]
  /\ resources' \in SUBSET (resources \cup lost)
  /\ UNCHANGED <<blockedBy, stopOwned, retries, killed, integrated, control,
                 executors, todo, cur, attempted, mine, waits, lockFile, events>>

\* One pass over all rows, joined with their blockers' statuses at its start.
Releasable == {t \in Tickets : /\ blockedBy[t] # NoTicket
                               /\ status[blockedBy[t]] = "completed"
                               /\ status[t] = "blocked"}
Stoppable == {t \in Tickets : /\ blockedBy[t] # NoTicket
                              /\ status[blockedBy[t]] \in STOPPED_BLOCKER_STATUSES
                              /\ status[t] # "running"
                              /\ status[t] \notin NOT_REDIRECTED_STATUSES}
WaitsOnly(t) == status[t] \in READY_STATUSES \cup {"blocked"}

MaintainDependencies ==
  /\ tick = "dependencies" /\ tick' = "listFailed"
  /\ WriteStatus([t \in Tickets |-> IF t \in Releasable THEN "created"
                                    ELSE IF t \in Stoppable THEN "needs_decision"
                                    ELSE status[t]], "dependencies")
  /\ blockedBy' = [t \in Tickets |-> IF t \in Releasable THEN NoTicket ELSE blockedBy[t]]
  /\ stopOwned' = [t \in Tickets |-> IF t \in Stoppable THEN WaitsOnly(t) ELSE stopOwned[t]]
  /\ Stops({t \in Stoppable : ~WaitsOnly(t)})
  /\ UNCHANGED <<retries, killed, integrated, control, workerVars, todo, cur,
                 attempted, mine, waits, lockFile, events>>

\* maintain_auto_retries lists the failed Tickets...
ListFailed ==
  /\ tick = "listFailed" /\ tick' = "readFailure"
  /\ todo' = {t \in Tickets : status[t] = "failed"}
  /\ UNCHANGED <<ticketVars, control, workerVars, cur, changed, attempted, mine,
                 waits, lockFile, events>>

\* Mutant of Retryable: the retry budget is not read.
RetryableUnbounded(t) ==
  /\ status[t] = "failed" /\ due[t]
  /\ EffectiveControl(t) = "running" /\ Released(t)
  /\ ~killed[t]

Retryable(t) ==
  /\ status[t] = "failed" /\ due[t]
  /\ EffectiveControl(t) = "running" /\ Released(t)
  /\ ~killed[t] /\ retries[t] < MAX_AUTO_RETRIES

\* Mutant of ReadFailure: the first failure that is not retried ends the pass.
ReadFailureReturning(t) ==
  /\ tick = "readFailure" /\ t \in todo
  /\ IF Retryable(t) THEN tick' = "autoRetry" /\ cur' = t /\ todo' = todo \ {t}
     ELSE todo' = {} /\ UNCHANGED <<tick, cur>>
  /\ UNCHANGED <<ticketVars, control, workerVars, changed, attempted, mine,
                 waits, lockFile, events>>

\* ... reads each of them...
ReadFailure(t) ==
  /\ tick = "readFailure" /\ t \in todo
  /\ todo' = todo \ {t}
  /\ IF Retryable(t) THEN tick' = "autoRetry" /\ cur' = t
     ELSE UNCHANGED <<tick, cur>>
  /\ UNCHANGED <<ticketVars, control, workerVars, changed, attempted, mine,
                 waits, lockFile, events>>

NextFailure == tick' = "readFailure" /\ cur' = NoTicket /\ changed' = FALSE

\* Mutant of AutoRetry: the failure is not compared with the one read.
AutoRetryStale ==
  /\ tick = "autoRetry" /\ NextFailure
  /\ status[cur] = "failed" /\ Released(cur) /\ ~HasLease(cur)
  /\ NoProcessLeft(cur)
  /\ status' = [status EXCEPT ![cur] = "created"]
  /\ statusSource' = [statusSource EXCEPT ![cur] = "other"]
  /\ due' = [due EXCEPT ![cur] = FALSE]
  /\ retries' = [retries EXCEPT ![cur] = @ + 1]
  /\ awaitsRetry' = awaitsRetry \ {cur}
  /\ UNCHANGED <<blockedBy, stopOwned, killed, integrated, control, workerVars,
                 todo, attempted, mine, waits, lockFile, events>>

\* ... and retries it unless its latest status event is no longer the one read
\* or retry_ticket refuses.
AutoRetry ==
  /\ tick = "autoRetry" /\ NextFailure
  /\ status[cur] = "failed" /\ ~changed /\ Released(cur) /\ ~HasLease(cur)
  /\ NoProcessLeft(cur)
  /\ status' = [status EXCEPT ![cur] = "created"]
  /\ statusSource' = [statusSource EXCEPT ![cur] = "other"]
  /\ due' = [due EXCEPT ![cur] = FALSE]
  /\ retries' = [retries EXCEPT ![cur] = @ + 1]
  /\ awaitsRetry' = awaitsRetry \ {cur}
  /\ UNCHANGED <<blockedBy, stopOwned, killed, integrated, control, workerVars,
                 todo, attempted, mine, waits, lockFile, events>>

\* The refusal is passed over, and met again by every later tick.
AutoRetryRefused ==
  /\ tick = "autoRetry" /\ NextFailure
  /\ ~(/\ status[cur] = "failed" /\ ~changed /\ Released(cur) /\ ~HasLease(cur)
       /\ NoProcessLeft(cur))
  /\ UNCHANGED <<ticketVars, control, workerVars, todo, attempted, mine, waits,
                 lockFile, events>>

\* ready_queue_selection
Candidates == {t \in Tickets : /\ status[t] \in READY_STATUSES /\ Released(t)
                               /\ ~HasLease(t) /\ EffectiveControl(t) = "running"}

Select ==
  /\ tick = "readFailure" /\ todo = {}
  /\ tick' = "next" /\ todo' = Candidates
  /\ UNCHANGED <<ticketVars, control, workerVars, cur, changed, attempted, mine,
                 waits, lockFile, events>>

\* The next candidate in queue order, while a lease is free.
PickNext(t) ==
  /\ tick = "next" /\ Cardinality(Leases) < Capacity
  /\ t \in todo /\ \A u \in todo : Rank[t] <= Rank[u]
  /\ tick' = "prepare" /\ cur' = t /\ todo' = todo \ {t}
  /\ UNCHANGED <<ticketVars, control, workerVars, changed, attempted, mine,
                 waits, lockFile, events>>

NothingMore ==
  /\ tick = "next" /\ (todo = {} \/ Cardinality(Leases) >= Capacity)
  /\ tick' = "wait" /\ todo' = {}
  /\ UNCHANGED <<ticketVars, control, workerVars, cur, changed, attempted, mine,
                 waits, lockFile, events>>

\* ensure_ticket_worktree or Popen raises: the candidate is passed over.
PrepareRaises ==
  /\ tick = "prepare"
  /\ tick' = "next" /\ cur' = NoTicket
  /\ UNCHANGED <<ticketVars, control, workerVars, todo, changed, attempted,
                 mine, waits, lockFile, events>>

\* The worktree is refused: the candidate fails if it is still ready.
PrepareRefused ==
  /\ tick = "prepare"
  /\ IF status[cur] \in READY_STATUSES
       THEN Write(cur, "failed") /\ Stops({cur})
       ELSE UNCHANGED <<status, statusSource, due, changed, awaitsRetry>>
  /\ tick' = "next" /\ cur' = NoTicket
  /\ UNCHANGED <<blockedBy, stopOwned, retries, killed, integrated, control,
                 workerVars, todo, attempted, mine, waits, lockFile, events>>

\* default_launcher, after _attempt_snapshot.
Launch(w) ==
  /\ tick = "prepare" /\ FreeSlot(w)
  /\ StartWorker(w, cur)
  /\ tick' = "await" /\ mine' = w /\ attempted' = FALSE
  /\ UNCHANGED <<ticketVars, control, todo, cur, changed, waits, lockFile, events>>

\* _await_claim ends, with the tick going on to pc and watching the workers W.
Awaited(pc, W) ==
  /\ tick' = pc /\ cur' = NoTicket /\ mine' = NoWorker /\ attempted' = FALSE
  /\ waits' = waits \cup W
  /\ UNCHANGED <<ticketVars, control, changed, lockFile, events>>

AwaitClaimed ==
  /\ tick = "await" /\ attempted
  /\ Awaited("next", {mine})
  /\ wpc' = [wpc EXCEPT ![mine] = IF @ = "full" THEN "idle" ELSE @]
  /\ UNCHANGED <<wticket, leftVars, todo>>

AwaitExited ==
  /\ tick = "await" /\ ~attempted /\ wpc[mine] \in {"idle", "full"}
  /\ Awaited(IF wpc[mine] = "full" THEN "wait" ELSE "next", {})
  /\ wpc' = [wpc EXCEPT ![mine] = "idle"]
  /\ UNCHANGED <<wticket, leftVars, todo>>

\* claim_timeout_seconds pass: the worker is kept and nothing more is started.
AwaitTimeout ==
  /\ tick = "await" /\ ~attempted /\ wpc[mine] \in {"starting", "admitted"}
  /\ Awaited("wait", {mine})
  /\ todo' = {}
  /\ UNCHANGED workerVars

\* wait = TRUE, then TickLock.release.
TickEnd ==
  /\ tick = "wait" /\ \A w \in waits : wpc[w] \in {"idle", "dead"}
  /\ tick' = "idle" /\ todo' = {} /\ waits' = {} /\ lockFile' = "empty"
  /\ UNCHANGED <<ticketVars, control, workerVars, cur, changed, attempted, mine,
                 events>>

\* The tick is killed; its flock goes, its record stays, whole or torn.
TickCrash ==
  /\ tick # "idle"
  /\ tick' = "idle" /\ todo' = {} /\ cur' = NoTicket /\ changed' = FALSE
  /\ attempted' = FALSE /\ mine' = NoWorker /\ waits' = {}
  /\ lockFile' \in {"record", "torn"}
  /\ wpc' = [w \in Workers |-> IF wpc[w] = "full" THEN "idle" ELSE wpc[w]]
  /\ Counted
  /\ UNCHANGED <<ticketVars, control, wticket, leftVars>>

-----------------------------------------------------------------------------
OperatorStep ==
  \/ \E t \in Tickets :
       \/ \E b \in Tickets \cup {NoTicket} : CreateTicket(t, b)
       \/ \E b \in Tickets : SetBlockedBy(t, b)
       \/ RemoveBlockedBy(t)
       \/ Retry(t)
       \/ Feedback(t)
       \/ \E n \in Tickets : Rework(t, n)
       \/ \E w \in Workers : ManualStart(w, t)
       \/ TerminateExecutor(t)
  \/ \E s \in CONTROL_SCOPES, m \in CONTROL_MODES : SetControl(s, m)

WorkerStep(w) ==
  \/ Admit(w)
  \/ FailBeforeClaim(w)
  \/ Claim(w)
  \/ ClaimRefused(w)
  \/ \E s \in {"in_integration", "needs_decision", "failed"} : EndRun(w, s)
  \/ KilledRun(w)

TickStep ==
  \/ TickStart
  \/ Reap
  \/ MaintainDependencies
  \/ ListFailed
  \/ \E t \in Tickets : ReadFailure(t)
  \/ AutoRetry
  \/ AutoRetryRefused
  \/ Select
  \/ \E t \in Tickets : PickNext(t)
  \/ NothingMore
  \/ PrepareRaises
  \/ PrepareRefused
  \/ \E w \in Workers : Launch(w)
  \/ AwaitClaimed
  \/ AwaitExited
  \/ AwaitTimeout
  \/ TickEnd

Next ==
  \/ OperatorStep
  \/ \E t \in Tickets : IntegrationEnds(t) \/ BackoffElapses(t)
  \/ \E w \in Workers : WorkerStep(w) \/ LaunchRaises(w) \/ WorkerCrash(w)
  \/ TickStep
  \/ TickCrash

Spec == Init /\ [][Next]_vars

\* cron starts the tick every five minutes and each of its calls ends; a worker
\* ends because its policy gives the executor and every validator a timeout.
FairSpec ==
  /\ Spec
  /\ WF_vars(TickStep)
  /\ \A w \in Workers : WF_vars(WorkerStep(w))

-----------------------------------------------------------------------------
(* Properties *)

\* Type invariant.
TypeOK ==
  /\ status \in [Tickets -> Statuses]
  /\ blockedBy \in [Tickets -> Tickets \cup {NoTicket}]
  /\ statusSource \in [Tickets -> {"dependencies", "other"}]
  /\ stopOwned \in [Tickets -> BOOLEAN]
  /\ retries \in [Tickets -> 0 .. MAX_AUTO_RETRIES]
  /\ due \in [Tickets -> BOOLEAN]
  /\ killed \in [Tickets -> BOOLEAN]
  /\ control \in [CONTROL_SCOPES -> CONTROL_MODES]
  /\ wpc \in [Workers -> WorkerPCs]
  /\ wticket \in [Workers -> Tickets \cup {NoTicket}]
  /\ tick \in TickPCs
  /\ todo \subseteq Tickets
  /\ cur \in Tickets \cup {NoTicket}
  /\ changed \in BOOLEAN /\ attempted \in BOOLEAN
  /\ mine \in Workers \cup {NoWorker}
  /\ waits \subseteq Workers
  /\ lockFile \in {"empty", "record", "torn"}
  /\ executors \subseteq Tickets /\ resources \subseteq Tickets
  /\ awaitsRetry \subseteq Tickets /\ integrated \subseteq Tickets
  /\ events \in 0 .. MaxEvents

\* Concurrent edits of blocked_by never close a cycle: no set of Tickets waits
\* only for its own members, which no completion could ever release.
Acyclic ==
  \A S \in SUBSET Tickets : (S # {} => \E t \in S : blockedBy[t] \notin S)

\* No edit, retry, feedback, rework or dependency pass leaves a ready Ticket
\* with an unfinished blocker, or a blocked one with nothing to release it.
DependencyConsistent ==
  \A t \in Tickets :
    /\ status[t] \in READY_STATUSES => Released(t)
    /\ status[t] = "blocked" => blockedBy[t] # NoTicket

\* Work that failed or was stopped for a decision becomes ready again only
\* through the audited retry: removing, replacing or completing a blocker,
\* or stopping the Ticket for its blocker first, never brings it back.
OnlyRetryReturns ==
  \A t \in awaitsRetry :
    status[t] \in TICKET_RETRY_FROM_STATUSES \cup {"completed", "canceled"}

\* The next Attempt shares the worktree of the last one, and the claim does not
\* look for processes in it: a Ticket is ready, or runs, only when no row tells
\* of one, whatever stopped, redirected and retried it since its worker died.
NoRunBesideProcess ==
  /\ \A t \in executors \cup resources : status[t] \notin READY_STATUSES
  /\ \A w \in Workers :
       wpc[w] = "running" => wticket[w] \notin executors \cup resources

\* An automatic retry answers a failure whose backoff has passed, that no
\* operator caused, of a Ticket that may run, within the budget, although the
\* tick decided on it in an earlier read.
AutoRetryAnswersDueFailure ==
  [][\A t \in Tickets : retries'[t] # retries[t] =>
       /\ status[t] = "failed" /\ due[t] /\ ~killed[t] /\ Released(t)
       /\ retries'[t] = retries[t] + 1]_vars

\* A Ticket that waits for a finished, failed or canceled blocker is released
\* or stopped for a decision, whatever ticks and workers were killed.
DependentsMove ==
  \A t \in Tickets :
    LET waiting == /\ status[t] = "blocked" /\ blockedBy[t] # NoTicket
                   /\ status[blockedBy[t]] \in STOPPED_BLOCKER_STATUSES \cup {"completed"}
    IN waiting ~> ~waiting

\* A failure that may be retried is, as long as the operator lets it and no
\* process of its last Attempt is left: other failures, that wait for their
\* backoff or are refused by every tick for what their worker left behind, do
\* not hold it up.
DueFailureIsRetried ==
  \A t \in Tickets :
    LET retried == Retryable(t) /\ NoProcessLeft(t) IN retried ~> ~retried
=============================================================================
