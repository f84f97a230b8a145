-------------------------- MODULE RuntimeAdmission --------------------------
(***************************************************************************)
(* Runtime ownership of Tickets: the claim, its lease, the Attempt         *)
(* resources, the worker process that holds them, the reaper, and the      *)
(* operator actions that race with a worker.                               *)
(*                                                                         *)
(* One worker process runs one Ticket (scheduler_worker -> Dispatcher over  *)
(* LifecycleRuntimeTaskStore).  Every SQLite transaction of the code is one *)
(* step here; between two transactions any other process may run.  A lease  *)
(* token is known to the process that made the claim and to nobody else, so *)
(* "owner and token match" is "this worker holds claim (ticket, num)".      *)
(* Time is abstracted: a live lease may expire at any moment, and an        *)
(* expired lease can never be made live again (heartbeat refuses it).       *)
(***************************************************************************)
EXTENDS Integers, FiniteSets

CONSTANTS
  Tickets,      \* task keys of Tickets
  Workers,      \* slots for worker processes; a slot is reused by a new process
  MaxAttempts,  \* bound on the Attempts of one Ticket
  MaxCapacity,  \* bound on the capacity an operator may set
  MayReusePid   \* whether the PID of a dead worker may go to another process

ASSUME AttemptsAssumption == MaxAttempts \in Nat \ {0}
ASSUME CapacityAssumption == MaxCapacity \in Nat \ {0}
ASSUME ReuseAssumption == MayReusePid \in BOOLEAN
ASSUME TicketsAssumption == IsFiniteSet(Tickets)

VARIABLES
  status,         \* tasks.status
  activeAttempt,  \* tasks.active_attempt_id, as an attempt number; 0 is NULL
  attempt,        \* attempts.status per attempt number; "none" is no row
  lease,          \* runtime_leases: is_active is {"live", "expired"}
  resource,       \* attempt_resources.status per attempt number
  capacity,       \* runtime_capacity_controls.max_concurrent_tasks
  pc,             \* where each worker process is
  ticket,         \* the Ticket a worker process was started for
  num,            \* the Attempt it claimed; 0 before the claim
  target,         \* the Ticket status its release wrote
  reapRows,       \* rows selected by a running reap_stale_resources
  reapAlive,      \* those of them whose PID was found alive, not yet marked
  strangers       \* Attempts whose recorded PID another process has by now

dbVars == <<status, activeAttempt, attempt, lease>>
workerVars == <<pc, ticket, num, target>>
reapVars == <<reapRows, reapAlive, strangers>>
vars == <<status, activeAttempt, attempt, lease, resource, capacity,
          pc, ticket, num, target, reapRows, reapAlive, strangers>>

-----------------------------------------------------------------------------
Numbers == 1..MaxAttempts

RUNNING_TASK_STATUSES == {"preparing", "implementing", "validating"}

\* "held" stands for a ready Ticket stopped by its dependency: `blocked`, or a
\* `needs_decision` that ticket_dependencies wrote over a ready Ticket.
HeldOrReady == {"created", "held"}

TICKET_RETRY_FROM_STATUSES == {"failed", "needs_decision"}

TaskStatuses == HeldOrReady \cup RUNNING_TASK_STATUSES
                  \cup TICKET_RETRY_FROM_STATUSES
                  \cup {"ready_for_integration", "canceled"}

TerminalAttemptStatuses == {"waiting_approval", "failed", "blocked",
                            "execution_aborted", "execution_timeout",
                            "validation_failed"}

AttemptStatuses == {"none"} \cup RUNNING_TASK_STATUSES
                     \cup TerminalAttemptStatuses

LeaseStates == {"none", "live", "expired", "closed"}
ActiveLease == {"live", "expired"}

LIVE_RESOURCE_STATES == {"allocated", "active", "reap_blocked_live_pid"}
ResourceStates == {"none", "released", "reaped"} \cup LIVE_RESOURCE_STATES

\* Program points of a worker process.  "idle" is no process.
Claimed == {"claimed", "allocated", "prepared", "executing", "validating"}
InWorktree == {"executing", "validating"}
Closing == {"auditing", "closing", "exiting"}
Holding == {"executing", "validating", "auditing", "closing"}
PCs == {"idle", "started"} \cup Claimed \cup Closing

ActiveLeases == {a \in Tickets \X Numbers : lease[a[1]][a[2]] \in ActiveLease}

\* COALESCE(MAX(attempt_number), 0) + 1
IsNextNumber(t, n) ==
  \A m \in Numbers : attempt[t][m] # "none" <=> m < n

\* The worker process that claimed the Attempt is still there.
WorkerAlive(t, n) ==
  \E w \in Workers : pc[w] # "idle" /\ ticket[w] = t /\ num[w] = n

\* os.kill(pid, 0) on the PID that the Attempt recorded: it cannot tell the
\* worker from a stranger that was given the PID after the worker's end.
PidAlive(t, n) == WorkerAlive(t, n) \/ <<t, n>> \in strangers

-----------------------------------------------------------------------------
Init ==
  /\ status = [t \in Tickets |-> "created"]
  /\ activeAttempt = [t \in Tickets |-> 0]
  /\ attempt = [t \in Tickets |-> [n \in Numbers |-> "none"]]
  /\ lease = [t \in Tickets |-> [n \in Numbers |-> "none"]]
  /\ resource = [t \in Tickets |-> [n \in Numbers |-> "none"]]
  /\ capacity = 1
  /\ pc = [w \in Workers |-> "idle"]
  /\ ticket \in [Workers -> Tickets]
  /\ num = [w \in Workers |-> 0]
  /\ target = [w \in Workers |-> "none"]
  /\ reapRows = {}
  /\ reapAlive = {}
  /\ strangers = {}

-----------------------------------------------------------------------------
(* The worker process *)

\* The process ends; its in-memory claim is gone and its PID is dead.
Exit(w) ==
  /\ pc' = [pc EXCEPT ![w] = "idle"]
  /\ num' = [num EXCEPT ![w] = 0]
  /\ target' = [target EXCEPT ![w] = "none"]
  /\ UNCHANGED ticket

Goto(w, l) ==
  /\ pc' = [pc EXCEPT ![w] = l]
  /\ UNCHANGED <<ticket, num, target>>

\* A worker process starts and dispatch_task reads a runnable Ticket.
StartWorker(w, t) ==
  /\ pc[w] = "idle"
  /\ status[t] = "created"
  /\ pc' = [pc EXCEPT ![w] = "started"]
  /\ ticket' = [ticket EXCEPT ![w] = t]
  /\ UNCHANGED <<dbVars, resource, capacity, num, target, reapVars>>

\* Any refusal before or inside the claim transaction: it writes nothing.
RefuseStart(w) ==
  /\ pc[w] = "started"
  /\ Exit(w)
  /\ UNCHANGED <<dbVars, resource, capacity, reapVars>>

\* A pre-claim failure is a compare-and-set on the status the dispatch read.
FailBeforeClaim(w) ==
  /\ pc[w] = "started"
  /\ status[ticket[w]] = "created"
  /\ status' = [status EXCEPT ![ticket[w]] = "failed"]
  /\ Exit(w)
  /\ UNCHANGED <<activeAttempt, attempt, lease, resource, capacity, reapVars>>

\* Mutant of Claim: the capacity comparison is off by one.
ClaimAtLimit(w, n) ==
  LET t == ticket[w] IN
  /\ pc[w] = "started"
  /\ Cardinality(ActiveLeases) <= capacity
  /\ status[t] = "created" /\ activeAttempt[t] = 0
  /\ IsNextNumber(t, n)
  /\ attempt' = [attempt EXCEPT ![t][n] = "preparing"]
  /\ lease' = [lease EXCEPT ![t][n] = "live"]
  /\ status' = [status EXCEPT ![t] = "preparing"]
  /\ activeAttempt' = [activeAttempt EXCEPT ![t] = n]
  /\ pc' = [pc EXCEPT ![w] = "claimed"]
  /\ num' = [num EXCEPT ![w] = n]
  /\ UNCHANGED <<ticket, target, resource, capacity, reapVars>>

\* RuntimeAdmissionStore.claim: one BEGIN IMMEDIATE transaction.
Claim(w, n) ==
  LET t == ticket[w] IN
  /\ pc[w] = "started"
  /\ Cardinality(ActiveLeases) < capacity
  /\ status[t] = "created"
  /\ activeAttempt[t] = 0
  /\ \A m \in Numbers : /\ attempt[t][m] \notin RUNNING_TASK_STATUSES
                        /\ lease[t][m] \notin ActiveLease
  /\ IsNextNumber(t, n)
  /\ attempt' = [attempt EXCEPT ![t][n] = "preparing"]
  /\ lease' = [lease EXCEPT ![t][n] = "live"]
  /\ status' = [status EXCEPT ![t] = "preparing"]
  /\ activeAttempt' = [activeAttempt EXCEPT ![t] = n]
  /\ pc' = [pc EXCEPT ![w] = "claimed"]
  /\ num' = [num EXCEPT ![w] = n]
  /\ UNCHANGED <<ticket, target, resource, capacity, reapVars>>

\* AttemptResourceManager.allocate: no ownership check, the row is inserted.
AllocateResources(w) ==
  /\ pc[w] = "claimed"
  /\ resource' = [resource EXCEPT ![ticket[w]][num[w]] = "allocated"]
  /\ Goto(w, "allocated")
  /\ UNCHANGED <<dbVars, capacity, reapVars>>

\* provision_workspace / _activate: an unconditional UPDATE by attempt id.
ProvisionWorkspace(w) ==
  /\ pc[w] = "allocated"
  /\ resource' = [resource EXCEPT ![ticket[w]][num[w]] = "active"]
  /\ Goto(w, "prepared")
  /\ UNCHANGED <<dbVars, capacity, reapVars>>

\* LifecycleRuntimeAdmissionStore.transition after a successful heartbeat: the
\* lease must be active, owned and unexpired.
TransitionRun(w, from, to, attemptTo) ==
  LET t == ticket[w]
      n == num[w]
  IN
  /\ pc[w] = from
  /\ lease[t][n] = "live"
  /\ attempt' = [attempt EXCEPT ![t][n] = attemptTo]
  /\ status' = [status EXCEPT
       ![t] = IF activeAttempt[t] = n THEN attemptTo ELSE status[t]]
  /\ Goto(w, to)
  /\ UNCHANGED <<activeAttempt, lease, resource, capacity, reapVars>>

BeginImplementing(w) ==
  TransitionRun(w, "prepared", "executing", "implementing")

BeginValidating(w) ==
  TransitionRun(w, "executing", "validating", "validating")

\* The terminal writes a run may end with, by program point: the Ticket status
\* and the Attempt status that classify_executor_result,
\* classify_validator_result, mark_operator_kill and _fail choose.
RuntimeFailures == {"failed", "blocked", "execution_timeout",
                    "execution_aborted"}

TerminalOutcomes(l) ==
  CASE l \in {"allocated", "prepared"} -> {<<"failed", "failed">>}
    [] l = "executing"  -> {"failed"} \X RuntimeFailures
    [] l = "validating" -> ({"failed"} \X RuntimeFailures)
         \cup ({"needs_decision"} \X {"validation_failed", "execution_timeout"})
         \cup {<<"ready_for_integration", "waiting_approval">>}
    [] OTHER -> {}

\* RuntimeAdmissionStore.release: the lease must be active and owned; expired
\* is allowed.  The tasks row is written only while it names this Attempt.
CloseAttempt(t, n, taskStatus, attemptStatus) ==
  /\ lease[t][n] \in ActiveLease
  /\ lease' = [lease EXCEPT ![t][n] = "closed"]
  /\ attempt' = [attempt EXCEPT ![t][n] = attemptStatus]
  /\ status' = [status EXCEPT
       ![t] = IF activeAttempt[t] = n THEN taskStatus ELSE status[t]]
  /\ activeAttempt' = [activeAttempt EXCEPT
       ![t] = IF activeAttempt[t] = n THEN 0 ELSE activeAttempt[t]]

\* LifecycleRuntimeTaskStore._release up to the commit of admission.release.
Release(w) ==
  \E o \in TerminalOutcomes(pc[w]) :
    /\ CloseAttempt(ticket[w], num[w], o[1], o[2])
    /\ pc' = [pc EXCEPT ![w] = IF o[1] \in TICKET_RETRY_FROM_STATUSES
                                 THEN "auditing" ELSE "closing"]
    /\ target' = [target EXCEPT ![w] = o[1]]
    /\ UNCHANGED <<ticket, num, resource, capacity, reapVars>>

\* The second transaction of _release: the human reason is recorded with an
\* update_task_status that names no expected status.
AuditWrite(w) ==
  /\ pc[w] = "auditing"
  /\ status' = [status EXCEPT ![ticket[w]] = target[w]]
  /\ Goto(w, "closing")
  /\ UNCHANGED <<activeAttempt, attempt, lease, resource, capacity, reapVars>>

\* AttemptResourceManager.release, after the audit write has committed.
ReleaseResources(w) ==
  /\ pc[w] = "closing"
  /\ resource' = [resource EXCEPT ![ticket[w]][num[w]] = "released"]
  /\ Goto(w, "exiting")
  /\ UNCHANGED <<dbVars, capacity, reapVars>>

FinishWorker(w) ==
  /\ pc[w] = "exiting"
  /\ Exit(w)
  /\ UNCHANGED <<dbVars, resource, capacity, reapVars>>

\* preclaim_runtime's except branch: release with no audit write.  allocate may
\* have failed before its row was inserted or after it (the manifest write); in
\* the second case the row stays behind.
AllocationFails(w) ==
  /\ pc[w] = "claimed"
  /\ CloseAttempt(ticket[w], num[w], "failed", "execution_aborted")
  /\ \E r \in {"none", "allocated"} :
       resource' = [resource EXCEPT ![ticket[w]][num[w]] = r]
  /\ Exit(w)
  /\ UNCHANGED <<capacity, reapVars>>

\* A store call finds the lease expired or gone (heartbeat, transition,
\* release, or a stored heartbeat_error): the worker ends without a write.
Abandon(w) ==
  /\ pc[w] \in Claimed
  /\ lease[ticket[w]][num[w]] # "live"
  /\ Exit(w)
  /\ UNCHANGED <<dbVars, resource, capacity, reapVars>>

\* The process dies at any point; nothing is released.
Crash(w) ==
  /\ pc[w] # "idle"
  /\ Exit(w)
  /\ UNCHANGED <<dbVars, resource, capacity, reapVars>>

-----------------------------------------------------------------------------
(* Time and the reaper *)

\* The lease's expires_at passes without a heartbeat.
LeaseExpires(t, n) ==
  /\ lease[t][n] = "live"
  /\ lease' = [lease EXCEPT ![t][n] = "expired"]
  /\ UNCHANGED <<status, activeAttempt, attempt, resource, capacity,
                 workerVars, reapVars>>

\* Mutant of ExpireStaleLeases: the tasks row is left for somebody else.
ExpireLeasesOnly ==
  LET Stale(t, n) == lease[t][n] = "expired" IN
  /\ \E t \in Tickets, n \in Numbers : Stale(t, n)
  /\ lease' = [t \in Tickets |-> [n \in Numbers |->
                 IF Stale(t, n) THEN "closed" ELSE lease[t][n]]]
  /\ attempt' = [t \in Tickets |-> [n \in Numbers |->
                 IF Stale(t, n) THEN "execution_aborted" ELSE attempt[t][n]]]
  /\ UNCHANGED <<status, activeAttempt, resource, capacity, workerVars,
                 reapVars>>

\* expire_stale_leases: one transaction over every expired active lease.
ExpireStaleLeases ==
  LET Stale(t, n) == lease[t][n] = "expired"
      Owner(t) == \E n \in Numbers : Stale(t, n) /\ activeAttempt[t] = n
  IN
  /\ \E t \in Tickets, n \in Numbers : Stale(t, n)
  /\ lease' = [t \in Tickets |-> [n \in Numbers |->
                 IF Stale(t, n) THEN "closed" ELSE lease[t][n]]]
  /\ attempt' = [t \in Tickets |-> [n \in Numbers |->
                 IF Stale(t, n) /\ attempt[t][n] \in RUNNING_TASK_STATUSES
                   THEN "execution_aborted" ELSE attempt[t][n]]]
  /\ status' = [t \in Tickets |-> IF Owner(t) THEN "failed" ELSE status[t]]
  /\ activeAttempt' = [t \in Tickets |->
                 IF Owner(t) THEN 0 ELSE activeAttempt[t]]
  /\ UNCHANGED <<resource, capacity, workerVars, reapVars>>

\* Mutant of ReapSelect: a row once found alive is not selected again.
ReapSelectFirstTime ==
  /\ reapRows = {} /\ reapAlive = {}
  /\ reapRows' = {a \in Tickets \X Numbers :
       /\ resource[a[1]][a[2]] \in {"allocated", "active"}
       /\ \/ attempt[a[1]][a[2]] \notin RUNNING_TASK_STATUSES
          \/ lease[a[1]][a[2]] # "live"}
  /\ reapRows' # {}
  /\ UNCHANGED <<dbVars, resource, capacity, workerVars, reapAlive, strangers>>

\* The SELECT of reap_stale_resources.
ReapSelect ==
  /\ reapRows = {} /\ reapAlive = {}
  /\ reapRows' = {a \in Tickets \X Numbers :
       /\ resource[a[1]][a[2]] \in LIVE_RESOURCE_STATES
       /\ \/ attempt[a[1]][a[2]] \notin RUNNING_TASK_STATUSES
          \/ lease[a[1]][a[2]] # "live"}
  /\ reapRows' # {}
  /\ UNCHANGED <<dbVars, resource, capacity, workerVars, reapAlive, strangers>>

\* One selected row: the PID is probed; a dead one is reaped, whatever the row
\* says by now.
ReapProbe(a) ==
  /\ a \in reapRows
  /\ reapRows' = reapRows \ {a}
  /\ IF PidAlive(a[1], a[2])
       THEN reapAlive' = reapAlive \cup {a} /\ UNCHANGED resource
       ELSE /\ resource' = [resource EXCEPT ![a[1]][a[2]] = "reaped"]
            /\ UNCHANGED reapAlive
  /\ UNCHANGED <<dbVars, capacity, workerVars, strangers>>

\* _mark_reap_status: an UPDATE by attempt id, whatever the row says by now.
ReapMark(a) ==
  /\ a \in reapAlive
  /\ reapAlive' = reapAlive \ {a}
  /\ resource' = [resource EXCEPT ![a[1]][a[2]] = "reap_blocked_live_pid"]
  /\ UNCHANGED <<dbVars, capacity, workerVars, reapRows, strangers>>

\* The kernel hands the PID of a worker that is gone to another process, and
\* that process may run for as long as it likes.  It matters while the reaper
\* may still probe the PID.
PidReused(a) ==
  /\ MayReusePid
  /\ resource[a[1]][a[2]] \in LIVE_RESOURCE_STATES \/ a \in reapRows
  /\ ~PidAlive(a[1], a[2])
  /\ strangers' = strangers \cup {a}
  /\ UNCHANGED <<dbVars, resource, capacity, workerVars, reapRows, reapAlive>>

StrangerExits(a) ==
  /\ a \in strangers
  /\ strangers' = strangers \ {a}
  /\ UNCHANGED <<dbVars, resource, capacity, workerVars, reapRows, reapAlive>>

-----------------------------------------------------------------------------
(* Operators and maintenance *)

\* Mutant of Retry: Attempt resources still in use are not looked at.
RetryOverLiveResources(t) ==
  /\ status[t] \in TICKET_RETRY_FROM_STATUSES
  /\ activeAttempt[t] = 0
  /\ \A n \in Numbers : /\ lease[t][n] \notin ActiveLease
                        /\ attempt[t][n] \notin RUNNING_TASK_STATUSES
  /\ status' = [status EXCEPT ![t] = "created"]
  /\ UNCHANGED <<activeAttempt, attempt, lease, resource, capacity,
                 workerVars, reapVars>>

\* retry_ticket, by an operator or by maintain_auto_retries.
Retry(t) ==
  /\ status[t] \in TICKET_RETRY_FROM_STATUSES
  /\ activeAttempt[t] = 0
  /\ \A n \in Numbers : /\ lease[t][n] \notin ActiveLease
                        /\ resource[t][n] \notin LIVE_RESOURCE_STATES
                        /\ attempt[t][n] \notin RUNNING_TASK_STATUSES
  /\ status' = [status EXCEPT ![t] = "created"]
  /\ UNCHANGED <<activeAttempt, attempt, lease, resource, capacity,
                 workerVars, reapVars>>

\* rework_ticket: the stopped Ticket is canceled in favour of a new one.
Rework(t) ==
  /\ status[t] \in TICKET_RETRY_FROM_STATUSES \cup {"held"}
  /\ status' = [status EXCEPT ![t] = "canceled"]
  /\ UNCHANGED <<activeAttempt, attempt, lease, resource, capacity,
                 workerVars, reapVars>>

\* Mutant of StopDependent: a running Ticket is redirected too.
StopRunningDependent(t) ==
  /\ status[t] \in {"created", "failed", "ready_for_integration"}
                      \cup RUNNING_TASK_STATUSES
  /\ status' = [status EXCEPT
       ![t] = IF status[t] = "created" THEN "held" ELSE "needs_decision"]
  /\ UNCHANGED <<activeAttempt, attempt, lease, resource, capacity,
                 workerVars, reapVars>>

\* set_blocked_by, or maintain_dependencies finding a stopped blocker.
StopDependent(t) ==
  /\ status[t] \in {"created", "failed", "ready_for_integration"}
  /\ status' = [status EXCEPT
       ![t] = IF status[t] = "created" THEN "held" ELSE "needs_decision"]
  /\ UNCHANGED <<activeAttempt, attempt, lease, resource, capacity,
                 workerVars, reapVars>>

\* remove_blocked_by, or maintain_dependencies releasing a dependent.
ReleaseDependent(t) ==
  /\ status[t] = "held"
  /\ activeAttempt[t] = 0
  /\ status' = [status EXCEPT ![t] = "created"]
  /\ UNCHANGED <<activeAttempt, attempt, lease, resource, capacity,
                 workerVars, reapVars>>

\* Mutant of SetCapacity: the limit is not required to be positive.
SetAnyCapacity(c) ==
  /\ \E d \in {0, c} : d # capacity /\ capacity' = d
  /\ UNCHANGED <<dbVars, resource, workerVars, reapVars>>

\* set_max_concurrent_tasks: not checked against the leases already active.
SetCapacity(c) ==
  /\ c # capacity
  /\ capacity' = c
  /\ UNCHANGED <<dbVars, resource, workerVars, reapVars>>

-----------------------------------------------------------------------------
WorkerStep(w) ==
  \/ RefuseStart(w)
  \/ FailBeforeClaim(w)
  \/ \E n \in Numbers : Claim(w, n)
  \/ AllocateResources(w)
  \/ AllocationFails(w)
  \/ ProvisionWorkspace(w)
  \/ BeginImplementing(w)
  \/ BeginValidating(w)
  \/ Release(w)
  \/ AuditWrite(w)
  \/ ReleaseResources(w)
  \/ FinishWorker(w)
  \/ Abandon(w)

PidStep == \E a \in Tickets \X Numbers : PidReused(a) \/ StrangerExits(a)

ReapStep ==
  \/ ReapSelect
  \/ \E a \in Tickets \X Numbers : ReapProbe(a) \/ ReapMark(a)

Next ==
  \/ \E w \in Workers, t \in Tickets : StartWorker(w, t)
  \/ \E w \in Workers : WorkerStep(w)
  \/ \E w \in Workers : Crash(w)
  \/ \E t \in Tickets, n \in Numbers : LeaseExpires(t, n)
  \/ ExpireStaleLeases
  \/ ReapStep
  \/ PidStep
  \/ \E t \in Tickets : Retry(t)
  \/ \E t \in Tickets : Rework(t)
  \/ \E t \in Tickets : StopDependent(t)
  \/ \E t \in Tickets : ReleaseDependent(t)
  \/ \E c \in 1..MaxCapacity : SetCapacity(c)

Spec == Init /\ [][Next]_vars

\* A worker is bounded by its executor and validator timeouts; a dead worker
\* sends no heartbeat, so its lease runs out; the ticks run the reaper.
Fairness ==
  /\ \A w \in Workers : WF_vars(WorkerStep(w))
  /\ \A t \in Tickets, n \in Numbers :
       WF_vars(LeaseExpires(t, n) /\ ~WorkerAlive(t, n))
  /\ WF_vars(ExpireStaleLeases)
  /\ WF_vars(ReapStep)

LiveSpec == Spec /\ Fairness

-----------------------------------------------------------------------------
(* Properties *)

TypeOK ==
  /\ status \in [Tickets -> TaskStatuses]
  /\ activeAttempt \in [Tickets -> 0..MaxAttempts]
  /\ attempt \in [Tickets -> [Numbers -> AttemptStatuses]]
  /\ lease \in [Tickets -> [Numbers -> LeaseStates]]
  /\ resource \in [Tickets -> [Numbers -> ResourceStates]]
  /\ capacity \in 1..MaxCapacity
  /\ pc \in [Workers -> PCs]
  /\ ticket \in [Workers -> Tickets]
  /\ num \in [Workers -> 0..MaxAttempts]
  /\ target \in [Workers -> {"none", "failed", "needs_decision",
                             "ready_for_integration"}]
  /\ reapRows \subseteq Tickets \X Numbers
  /\ reapAlive \subseteq Tickets \X Numbers
  /\ strangers \subseteq Tickets \X Numbers

\* The three tables agree: a lease is active exactly when its Attempt is,
\* the Attempt is active exactly when the tasks row names it, and a Ticket is
\* in a running status exactly when it has such an Attempt, with its status.
\* So a Ticket never has two owners and never runs without one, although
\* claim, release, reaper and the unconditional audit write all write it.
OwnershipConsistent ==
  \A t \in Tickets :
    /\ \A n \in Numbers :
         /\ lease[t][n] \in ActiveLease <=> activeAttempt[t] = n
         /\ attempt[t][n] \in RUNNING_TASK_STATUSES <=> activeAttempt[t] = n
         /\ activeAttempt[t] = n => status[t] = attempt[t][n]
    /\ status[t] \in RUNNING_TASK_STATUSES => activeAttempt[t] # 0

\* The Ticket's Attempts share one worktree.  No two live worker processes are
\* ever past the start of their executor for the same Ticket, even when one of
\* them lost its lease long ago and the Ticket was reaped and retried.
WorktreeExclusive ==
  \A v, w \in Workers :
    /\ pc[v] \in InWorktree /\ pc[w] \in InWorktree
    /\ ticket[v] = ticket[w]
    => v = w

\* The audit write of _release comes after the lease is gone, in a transaction
\* of its own, and checks nothing: it must never find a Ticket that was
\* retried, picked up again or finished by somebody else.
AuditFindsStoppedTicket ==
  \A w \in Workers :
    pc[w] = "auditing" =>
      status[ticket[w]] \in TICKET_RETRY_FROM_STATUSES \cup {"canceled"}

\* A worker past the start of its executor keeps its Ticket to itself until it
\* has let go of its resources, with or without a lease: the Ticket is not
\* runnable and no other Attempt owns it, although the reaper may have expired
\* the lease, failed the Ticket and rewritten the resource row, and operators
\* retry, rework and redirect failed Tickets at any time.
HolderKeepsTicket ==
  \A w \in Workers :
    pc[w] \in Holding =>
      /\ status[ticket[w]] \notin HeldOrReady
      /\ activeAttempt[ticket[w]] \in {0, num[w]}

\* A worker in the worktree is undisturbed, with or without its lease: alone in
\* there, its Ticket not runnable by others, and its last unconditional write
\* finds the Ticket stopped (retry_ticket, reap_stale_resources, _release).
HolderUndisturbed ==
  WorktreeExclusive /\ HolderKeepsTicket /\ AuditFindsStoppedTicket

\* What each worker's claim is: it exists exactly past the claim, its Attempt
\* row exists, no other process has it, its resource row says so to retry_ticket
\* until it is given back, and its lease is gone once released.
ClaimsExclusive ==
  \A w \in Workers :
    /\ pc[w] \in {"idle", "started"} <=> num[w] = 0
    /\ num[w] # 0 => attempt[ticket[w]][num[w]] # "none"
    /\ pc[w] \in {"allocated", "prepared"} \cup Holding =>
         resource[ticket[w]][num[w]] \in LIVE_RESOURCE_STATES
    /\ pc[w] \in Closing => lease[ticket[w]][num[w]] = "closed"
    /\ pc[w] = "auditing" => target[w] \in TICKET_RETRY_FROM_STATUSES
    /\ \A v \in Workers :
         num[v] # 0 /\ num[v] = num[w] /\ ticket[v] = ticket[w] => v = w

\* The inductive invariant of the proofs.
Inv ==
  /\ TypeOK
  /\ OwnershipConsistent
  /\ ClaimsExclusive
  /\ HolderKeepsTicket
  /\ AuditFindsStoppedTicket
  /\ WorktreeExclusive

\* A claim never raises the number of active leases above the capacity in
\* force; lowering the capacity below it is allowed and ends no run.
CapacityRespected ==
  [][ActiveLeases' \subseteq ActiveLeases
     \/ Cardinality(ActiveLeases') <= capacity]_vars

\* Once an Attempt has ended, its outcome is final: a worker that returns after
\* the reaper aborted its Attempt, or a reaper that runs after the release,
\* does not rewrite it.
AttemptOutcomeFinal ==
  [][\A t \in Tickets, n \in Numbers :
       attempt[t][n] \in TerminalAttemptStatuses =>
         attempt'[t][n] = attempt[t][n]]_vars

\* A Ticket leaves a running status only through the end of the Attempt that
\* owned it: no other process moves a running Ticket.
RunningTicketMovedByOwnAttempt ==
  [][\A t \in Tickets :
       status[t] \in RUNNING_TASK_STATUSES /\ status'[t] # status[t] =>
         LET n == activeAttempt[t] IN
         \/ activeAttempt'[t] = n /\ status'[t] = attempt'[t][n]
         \/ activeAttempt'[t] = 0
            /\ attempt'[t][n] \in TerminalAttemptStatuses]_vars

\* The refinement mapping to TicketRuns: a Ticket waiting to be claimed is
\* ready, one with an Attempt in progress is running, any other is stopped.
PhaseOf(s) == IF s \in RUNNING_TASK_STATUSES THEN "running"
              ELSE IF s = "created" THEN "ready" ELSE "stopped"

RunOf(a) == IF a \in RUNNING_TASK_STATUSES THEN "open" ELSE a

Runs == INSTANCE TicketRuns WITH
  Outcomes <- TerminalAttemptStatuses,
  phase <- [t \in Tickets |-> PhaseOf(status[t])],
  run <- [t \in Tickets |-> [n \in Numbers |-> RunOf(attempt[t][n])]]

\* Seen from outside, claim, lease, heartbeat, release, audit write, reaper and
\* operators together give the simple story of TicketRuns: one open run per
\* running Ticket, numbered in order, ended once and for good together with the
\* Ticket's stop, whoever crashes or loses its lease in between.
ImplementsTicketRuns == Runs!Spec

\* A canceled Ticket stays canceled: rework replaced it by another Ticket.
CanceledIsFinal ==
  [][\A t \in Tickets : status[t] = "canceled" => status'[t] = "canceled"]_vars

\* No Ticket stays in a running status for ever, whatever crashes.
RunEventuallyEnds ==
  \A t \in Tickets :
    status[t] \in RUNNING_TASK_STATUSES ~>
      status[t] \notin RUNNING_TASK_STATUSES

\* A stale row blocks retry for ever only while other processes keep its PID:
\* unless a stranger has the PID again and again, a resource recorded as
\* possibly in use is eventually released or reaped, although the reaper may
\* overwrite a release that happened after its SELECT, and may have marked the
\* row reap_blocked_live_pid on a stranger's account.
ResourceEventuallyFreed ==
  \A t \in Tickets, n \in Numbers :
    <>[](<<t, n>> \notin strangers) =>
      (resource[t][n] \in LIVE_RESOURCE_STATES ~>
         resource[t][n] \in {"released", "reaped"})
=============================================================================
