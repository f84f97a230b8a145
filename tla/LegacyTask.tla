----------------------------- MODULE LegacyTask -----------------------------
(***************************************************************************)
(* One legacy (V0) task on its way from a GitHub issue to waiting_approval: *)
(* ingestion, the approved-task runner, the operator's reset with its Attempt lineage,    *)
(* the lease reaper, the evidence-only archive, the recovery after late    *)
(* advisory evidence, and the two records kept beside the lifecycle:       *)
(* runtime progress and the outcome ledger.                                *)
(*                                                                         *)
(* Every disjunct of Next is one database transaction, one file write, or  *)
(* the program text between two of them.  Runners, reset clients, the      *)
(* reaper and the archiver are separate processes.                         *)
(***************************************************************************)
EXTENDS AdvisoryEvidence, FiniteSets

CONSTANTS
  Runners,           \* processes inside run_approved_task
  Requests,          \* reset request ids
  MaxAttempts,       \* bound on the Attempts of the task
  MaxFaults,         \* bound on crashes, stalls and lost writes
  EvidenceRequired   \* require_codex_advisory_evidence

ASSUME LegacyAssumption ==
  /\ MaxAttempts \in Nat \ {0}
  /\ MaxFaults \in Nat
  /\ EvidenceRequired \in BOOLEAN

VARIABLES
  status,      \* tasks.status
  active,      \* tasks.active_attempt_id, 0 for NULL
  generation,  \* tasks.reset_generation
  attempt,     \* attempts.status, by number
  lease,       \* runtime_leases, by Attempt
  lineage,     \* reset_lineage rows, by request id
  client,      \* the reset process of each request
  run,         \* the runner processes
  progress,    \* attempt_observed_steps, by Attempt
  ledger,      \* the published outcome ledgers, by Attempt
  observation, \* the ledger each later observation names by its digest
  owed,        \* publications the reaper has still to make
  files,       \* the advisory review files, by Attempt
  did,         \* history: what really happened in an Attempt
  faults       \* the faults so far

taskVars == <<status, active, generation>>
dbVars == <<status, active, generation, attempt, lease, lineage>>
sideVars == <<progress, ledger, observation, owed, files>>
vars == <<dbVars, client, run, sideVars, did, faults>>

Attempts == 1..MaxAttempts

ActiveStatuses == {"created", "preparing", "implementing", "validating"}
ClosedStatuses == {"waiting_approval", "blocked", "execution_aborted"}
TaskStatuses == {"absent", "queued", "preparing", "implementing", "validating",
                 "waiting_approval", "blocked", "archived"}
ActiveLease == {"live", "expired"}

Existing == {a \in Attempts : attempt[a] # "none"}
Latest == CHOOSE n \in 0..MaxAttempts :
            /\ n \in Existing \cup {0}
            /\ \A a \in Existing : a <= n

\* What a ledger says of its Attempt: the fields later readers compare.
NoLedger == [final_status |-> "none", retry_count |-> 0,
             first_pass_success |-> "unknown"]
NoLineage == [state |-> "none", old |-> 0, new |-> 0, committed |-> 0]
IdleRun == [pc |-> "idle", att |-> 0, failed |-> FALSE]
IdleClient == [pc |-> "idle", expected |-> 0]

\* RUNTIME_STEP_STATUS_RANK, and the steps a run records.  Prepare, which is
\* recorded in the same way before them, is left out.
Steps == {"Implementer", "Validator"}
Rank(s) == CASE s = "pending" -> 0 [] s = "running" -> 1 [] OTHER -> 2

Init ==
  /\ status = "absent" /\ active = 0 /\ generation = 0
  /\ attempt = [a \in Attempts |-> "none"]
  /\ lease = [a \in Attempts |-> "none"]
  /\ lineage = [q \in Requests |-> NoLineage]
  /\ client = [q \in Requests |-> IdleClient]
  /\ run = [r \in Runners |-> IdleRun]
  /\ progress = [a \in Attempts |-> [s \in Steps |-> "pending"]]
  /\ ledger = [a \in Attempts |-> NoLedger]
  /\ observation = [a \in Attempts |-> NoLedger]
  /\ owed = {}
  /\ files = [a \in Attempts |-> NoFiles]
  /\ did = [a \in Attempts |-> {}]
  /\ faults = 0

\* A crash, a stall that outlasts a lease, or a write that fails.
Fault == faults < MaxFaults /\ faults' = faults + 1

-----------------------------------------------------------------------------
(* GitHub issue ingestion *)

\* _task_status_from_issue_state.
TaskStatusFromIssue(state) == IF state = "open" THEN "queued" ELSE "blocked"

\* upsert_task_with_level2_identity: one transaction creates the task, or
\* refreshes the row and keeps its status and its identity.
UpsertTask(s) == status' = IF status = "absent" THEN s ELSE status

\* ingest_github_issue, first or again, while anything else goes on.  A forced
\* re-ingest of a task that exists is refused, which also changes nothing.
IngestIssue(state) ==
  /\ UpsertTask(TaskStatusFromIssue(state))
  /\ UNCHANGED <<active, generation, attempt, lease, lineage, client, run,
                 sideVars, did, faults>>

-----------------------------------------------------------------------------
(* Reset: task_status_reset.py over reset_lineage.py *)

\* reset_task_status up to reserve_retry: the replay lookup, then the preview,
\* which reads status and generation in its own connection.
PreviewReset(q) ==
  /\ client[q].pc = "idle"
  /\ lineage[q].state = "none"
  /\ status = "blocked"
  /\ client' = [client EXCEPT ![q] =
       [pc |-> "previewed", expected |-> generation]]
  /\ UNCHANGED <<dbVars, run, sideVars, did, faults>>

\* The conditions reserve_retry re-reads inside BEGIN IMMEDIATE.  A request may
\* also name the latest Attempt it expects, which only refuses more.
MayReserve(q) ==
  /\ lineage[q].state = "none"
  /\ status = "blocked"
  /\ generation = client[q].expected
  /\ active = 0
  /\ \A a \in Attempts : attempt[a] \notin ActiveStatuses
                         /\ lease[a] \notin ActiveLease

\* The inserts and updates of reserve_retry: Attempt, task and lineage row.
ReserveAttempt(q, n) ==
  /\ n = Latest + 1
  /\ attempt' = [attempt EXCEPT ![n] = "created"]
  /\ status' = "queued"
  /\ active' = n
  /\ generation' = generation + 1
  /\ lineage' = [lineage EXCEPT ![q] =
       [state |-> "reserved", old |-> Latest, new |-> n,
        committed |-> generation + 1]]

\* The event note and the audit artifact that follow the commit are left out;
\* a replay of a committed request id only writes them again.
ReserveRetry(q) ==
  /\ client[q].pc = "previewed"
  /\ MayReserve(q)
  /\ \E n \in Attempts : ReserveAttempt(q, n)
  /\ client' = [client EXCEPT ![q] = IdleClient]
  /\ UNCHANGED <<lease, run, sideVars, did, faults>>

\* ResetCompareAndSetError: the rejection is recorded and the call ends.
RejectReset(q) ==
  /\ client[q].pc = "previewed"
  /\ ~ MayReserve(q)
  /\ client' = [client EXCEPT ![q] = IdleClient]
  /\ UNCHANGED <<dbVars, run, sideVars, did, faults>>

-----------------------------------------------------------------------------
(* Runtime progress: best-effort writes beside the lifecycle *)

\* RuntimeProgressStore.record_step refuses a lower rank; the recorder drops
\* the error, and any other error of the write.
RecordStep(a, step, to) ==
  \/ /\ Rank(to) >= Rank(progress[a][step])
     /\ progress' = [progress EXCEPT ![a][step] = to]
     /\ UNCHANGED faults
  \/ Fault /\ UNCHANGED progress

\* Mutant of RecorderForClaim: the Attempt the task names by then.
RecorderForTask(r) == IF active # 0 THEN active ELSE run[r].att

\* RuntimeProgressRecorder.for_claim: the Attempt this run's store holds.
RecorderForClaim(r) == run[r].att

\* The recorder's reports of a run: implementer_running, validators_passed ...
Report(r, step, to) == RecordStep(RecorderForClaim(r), step, to)

-----------------------------------------------------------------------------
(* The approved-task runner *)

Goto(r, l) == run' = [run EXCEPT ![r].pc = l]

\* _load_task: the row as it is when the run starts.
Selectable == status = "queued"

\* run_approved_task up to the repository check and preflight.  A request that
\* _validate_selection or the execution authority refuses changes nothing.
StartRun(r) ==
  /\ run[r].pc = "idle"
  /\ Selectable
  /\ Goto(r, "checked")
  /\ UNCHANGED <<dbVars, client, sideVars, did, faults>>

\* update_task_status to blocked with no claim and no expected status.  The
\* trigger runtime_token_terminal_requires_owned_release aborts it while the
\* active Attempt holds a lease; the Attempt itself is not touched.
BlockWithoutClaim ==
  status' = IF active # 0 /\ lease[active] \in ActiveLease
              THEN status ELSE "blocked"

\* _block_task before the claim: repository, artifact_dir or preflight.
BlockBeforeClaim(r) ==
  /\ run[r].pc = "checked"
  /\ run' = [run EXCEPT ![r] = IdleRun]
  /\ BlockWithoutClaim
  /\ UNCHANGED <<active, generation, attempt, lease, lineage, client,
                 sideVars, did, faults>>

\* What the claim of either kind writes.
TakeLease(r, a) ==
  /\ attempt' = [attempt EXCEPT ![a] = "preparing"]
  /\ lease' = [lease EXCEPT ![a] = "live"]
  /\ status' = "preparing"
  /\ active' = a
  /\ run' = [run EXCEPT ![r] = [pc |-> "claimed", att |-> a, failed |-> FALSE]]

\* Mutant of ClaimReserved: the lineage row stays reserved.
ClaimAndKeepReservation(r) ==
  /\ run[r].pc = "checked"
  /\ status = "queued"
  /\ active # 0 /\ attempt[active] = "created" /\ lease[active] = "none"
  /\ TakeLease(r, active)
  /\ UNCHANGED <<generation, lineage, client, sideVars, did, faults>>

\* _try_claim_reserved_retry: the Attempt a reset reserved is adopted.
ClaimReserved(r) ==
  /\ run[r].pc = "checked"
  /\ status = "queued"
  /\ active # 0 /\ attempt[active] = "created" /\ lease[active] = "none"
  /\ \E q \in Requests :
       /\ lineage[q].state = "reserved" /\ lineage[q].new = active
       /\ lineage' = [lineage EXCEPT ![q].state = "claimed"]
  /\ TakeLease(r, active)
  /\ UNCHANGED <<generation, client, sideVars, did, faults>>

\* The ordinary claim of a task that has no active Attempt.
ClaimNew(r) ==
  /\ run[r].pc = "checked"
  /\ status = "queued"
  /\ active = 0
  /\ \A a \in Attempts : attempt[a] \notin ActiveStatuses
  /\ \E n \in Attempts : n = Latest + 1 /\ TakeLease(r, n)
  /\ UNCHANGED <<generation, lineage, client, sideVars, did, faults>>

\* The claim raises: another run has the task, or it is no longer queued.
ClaimRefused(r) ==
  /\ run[r].pc = "checked"
  /\ \/ status # "queued"
     \/ active # 0 /\ attempt[active] # "created"
  /\ run' = [run EXCEPT ![r] = IdleRun]
  /\ UNCHANGED <<dbVars, client, sideVars, did, faults>>

\* Mutant of CloseAttempt: the task gets the Attempt's status as it is.
CloseRaw(a, taskStatus, attemptStatus) ==
  /\ lease[a] \in ActiveLease
  /\ lease' = [lease EXCEPT ![a] = "closed"]
  /\ attempt' = [attempt EXCEPT ![a] = attemptStatus]
  /\ status' = IF active = a THEN attemptStatus ELSE status
  /\ active' = IF active = a THEN 0 ELSE active

\* Mutant of CloseAttempt: a release is accepted without its lease.
CloseWithoutLease(a, taskStatus, attemptStatus) ==
  /\ lease' = [lease EXCEPT ![a] = "closed"]
  /\ attempt' = [attempt EXCEPT ![a] = attemptStatus]
  /\ status' = IF active = a THEN taskStatus ELSE status
  /\ active' = IF active = a THEN 0 ELSE active

\* Closing an Attempt: RuntimeAdmissionStore.release needs its active lease
\* and writes the task only while the task names this Attempt.
CloseAttempt(a, taskStatus, attemptStatus) ==
  /\ lease[a] \in ActiveLease
  /\ lease' = [lease EXCEPT ![a] = "closed"]
  /\ attempt' = [attempt EXCEPT ![a] = attemptStatus]
  /\ status' = IF active = a THEN taskStatus ELSE status
  /\ active' = IF active = a THEN 0 ELSE active

\* preclaim_runtime: allocating the Attempt's resources fails inside the claim.
AllocationFails(r) ==
  /\ run[r].pc = "claimed"
  /\ CloseAttempt(run[r].att, "blocked", "execution_aborted")
  /\ Goto(r, "publishing")
  /\ UNCHANGED <<generation, lineage, client, sideVars, did, faults>>

\* Workspace, mission contract, model requirement or prompt: one of them fails.
PrepareFails(r) ==
  /\ run[r].pc = "claimed"
  /\ Goto(r, "blocking")
  /\ UNCHANGED <<dbVars, client, sideVars, did, faults>>

\* update_task_status for implementing and validating: a heartbeat, which
\* needs the live lease, then the transition of Attempt and task.
Transition(r, to) ==
  LET a == run[r].att IN
  /\ lease[a] = "live"
  /\ attempt' = [attempt EXCEPT ![a] = to]
  /\ status' = IF active = a THEN to ELSE status
  /\ UNCHANGED <<active, generation, lease, lineage>>

BeginImplementing(r) ==
  /\ run[r].pc = "claimed"
  /\ Transition(r, "implementing")
  /\ Report(r, "Implementer", "running")
  /\ Goto(r, "executing")
  /\ UNCHANGED <<client, ledger, observation, owed, files, did>>

\* executor.run returns or raises.  An executor keeps running whatever
\* happened to the lease meanwhile.
FinishExecutor(r, ok) ==
  LET a == run[r].att IN
  /\ run[r].pc = "executing"
  /\ did' = IF ok THEN [did EXCEPT ![a] = @ \cup {"executed"}] ELSE did
  /\ Report(r, "Implementer", IF ok THEN "passed" ELSE "failed")
  /\ Goto(r, IF ok THEN "executed" ELSE "blocking")
  /\ UNCHANGED <<dbVars, client, ledger, observation, owed, files>>

BeginValidating(r) ==
  /\ run[r].pc = "executed"
  /\ Transition(r, "validating")
  /\ Report(r, "Validator", "running")
  /\ Goto(r, "validating")
  /\ UNCHANGED <<client, ledger, observation, owed, files, did>>

\* The validator loop: the first failure ends it, all must pass.
FinishValidators(r, ok) ==
  LET a == run[r].att IN
  /\ run[r].pc = "validating"
  /\ did' = IF ok THEN [did EXCEPT ![a] = @ \cup {"validated"}] ELSE did
  /\ Report(r, "Validator", IF ok THEN "passed" ELSE "failed")
  /\ Goto(r, IF ok THEN "reviewing" ELSE "blocking")
  /\ UNCHANGED <<dbVars, client, ledger, observation, owed, files>>

\* Mutant of EvidenceSatisfied: the requirement is read as fulfilled.
EvidenceWaived(f) == TRUE

\* check_required_codex_advisory_evidence.
EvidenceSatisfied(f) == EvidenceRequired => ContractPasses(f)

\* _generate_codex_advisory_evidence, once, after the validators passed: not
\* when the request leaves it off or the gate is already satisfied.  Then the gate: missing
\* evidence blocks, and so does a tool_error of the run's own review.
ReviewAndGate(r, auto) ==
  LET a == run[r].att
      Gate(f, failed) == IF EvidenceSatisfied(f) /\ ~ failed
                           THEN "approving" ELSE "blocking" IN
  /\ run[r].pc = "reviewing"
  /\ IF auto /\ ~ (EvidenceRequired /\ ContractPasses(files[a]))
       THEN \E p \in ConfirmRunPayloads :
              LET f == AfterReview(files[a], p) IN
              /\ files' = [files EXCEPT ![a] = f]
              /\ Goto(r, Gate(f, p.review_status = "tool_error"))
       ELSE /\ Goto(r, Gate(files[a], FALSE))
            /\ UNCHANGED files
  /\ UNCHANGED <<dbVars, client, progress, ledger, observation, owed, did,
                 faults>>

\* The process dies while it writes the review: a prefix of it is there.
DieInReview(r) ==
  LET a == run[r].att IN
  /\ run[r].pc = "reviewing"
  /\ \E p \in ConfirmRunPayloads : \E k \in 1..(Len(WriteOrder(p)) - 1) :
       files' = [files EXCEPT ![a] = AfterWrites(@, p, k)]
  /\ run' = [run EXCEPT ![r] = IdleRun]
  /\ Fault
  /\ UNCHANGED <<dbVars, client, progress, ledger, observation, owed,
                 did>>

\* update_task_status to blocked or waiting_approval: _release of the claim.
Release(r) ==
  /\ \/ /\ run[r].pc = "blocking"
        /\ CloseAttempt(run[r].att, "blocked", "blocked")
        /\ run' = [run EXCEPT ![r] = [@ EXCEPT !.pc = "publishing",
                                               !.failed = TRUE]]
     \/ /\ run[r].pc = "approving"
        /\ CloseAttempt(run[r].att, "waiting_approval", "waiting_approval")
        /\ run' = [run EXCEPT ![r] = [@ EXCEPT !.pc = "publishing",
                                               !.failed = FALSE]]
  /\ UNCHANGED <<generation, lineage, client, sideVars, did, faults>>

\* _read_snapshot and the check that the Attempt it read is terminal.
SnapshotTerminal(a) == attempt[a] \in ClosedStatuses

\* _first_pass_success_field: whether Attempt 1 itself succeeded, as it stands
\* when the ledger is built.
FirstPassSuccess ==
  IF SnapshotTerminal(1)
    THEN IF attempt[1] = "waiting_approval" THEN "yes" ELSE "no"
    ELSE "unknown"

\* _build_fields, from the rows of the Attempt and of those before it.
BuildFields(a) ==
  [final_status |-> attempt[a],
   retry_count |-> Cardinality({b \in Existing : b < a}),
   first_pass_success |-> FirstPassSuccess]

\* _handle_existing: the first ledger stays, whatever the new snapshot says.
HandleExisting(a) == ledger[a] # NoLedger /\ UNCHANGED ledger

\* record_terminal_attempt_outcome: the Attempt is read again and its ledger
\* published once.  When the artifact root cannot be used nothing is published
\* and an incomplete event says so.
PublishOutcome(a) ==
  \/ /\ SnapshotTerminal(a)
     /\ ledger[a] = NoLedger
     /\ ledger' = [ledger EXCEPT ![a] = BuildFields(a)]
  \/ SnapshotTerminal(a) /\ HandleExisting(a)
  \/ UNCHANGED ledger

PublishAfterRelease(r) ==
  /\ run[r].pc = "publishing"
  /\ PublishOutcome(run[r].att)
  /\ run' = [run EXCEPT ![r] = IF run[r].failed
                                 THEN [run[r] EXCEPT !.pc = "auditing"]
                                 ELSE IdleRun]
  /\ UNCHANGED <<dbVars, client, progress, observation, owed, files,
                 did, faults>>

\* The second write of _release for a blocked run: the reason, through an
\* update_task_status with no expected status.
AuditWrite(r) ==
  /\ run[r].pc = "auditing"
  /\ run' = [run EXCEPT ![r] = IdleRun]
  /\ BlockWithoutClaim
  /\ UNCHANGED <<active, generation, attempt, lease, lineage, client,
                 sideVars, did, faults>>

\* A heartbeat or a release finds the lease gone; the exception ends the run.
LoseRun(r) ==
  /\ \/ run[r].pc \in {"claimed", "executed"} /\ lease[run[r].att] # "live"
     \/ run[r].pc \in {"blocking", "approving"}
        /\ lease[run[r].att] \notin ActiveLease
  /\ run' = [run EXCEPT ![r] = IdleRun]
  /\ UNCHANGED <<dbVars, client, sideVars, did, faults>>

\* The process dies.
CrashRun(r) ==
  /\ run[r].pc # "idle"
  /\ run' = [run EXCEPT ![r] = IdleRun]
  /\ Fault
  /\ UNCHANGED <<dbVars, client, sideVars, did>>

-----------------------------------------------------------------------------
(* Leases, recovery, archive *)

\* A lease outlives its run; expiring under a run that only stalls is a fault.
LeaseExpires(a) ==
  /\ lease[a] = "live"
  /\ lease' = [lease EXCEPT ![a] = "expired"]
  /\ IF \E r \in Runners : run[r].att = a THEN Fault ELSE UNCHANGED faults
  /\ UNCHANGED <<taskVars, attempt, lineage, client, run, sideVars,
                 did>>

\* expire_stale_leases: a legacy task ends blocked; the ledgers follow.
ExpireStaleLeases ==
  \E a \in Attempts :
    /\ lease[a] = "expired"
    /\ CloseAttempt(a, "blocked", "execution_aborted")
    /\ owed' = owed \cup {a}
    /\ UNCHANGED <<generation, lineage, client, run, progress, ledger,
                   observation, files, did, faults>>

PublishAfterExpiry ==
  \E a \in owed :
    /\ PublishOutcome(a)
    /\ owed' = owed \ {a}
    /\ UNCHANGED <<dbVars, client, run, progress, observation, files,
                   did, faults>>

\* The reaper dies before it published.  It owes a ledger only after a fault,
\* so its own death is not counted as another.
CrashReaper ==
  /\ owed # {}
  /\ owed' = {}
  /\ UNCHANGED <<dbVars, client, run, progress, ledger, observation, files, did,
                 faults>>

\* record_attempt_outcome_observation: a later fact, such as the review of the
\* pull request, beside a ledger that is there, naming it by its digest.  One
\* observation stands for all that name the same ledger.
RecordObservation(a) ==
  /\ ledger[a] # NoLedger
  /\ observation[a] = NoLedger
  /\ observation' = [observation EXCEPT ![a] = ledger[a]]
  /\ UNCHANGED <<dbVars, client, run, progress, ledger, owed, files, did,
                 faults>>

\* generate_codex_advisory_review called again for an Attempt that blocked at
\* the evidence gate; nothing reads the files of one that blocked before it.
ReviewByHand(a) ==
  /\ attempt[a] = "blocked"
  /\ did[a] = {"executed", "validated"}
  /\ ~ ContractPasses(files[a])
  /\ \E p \in Payloads :
       files' = [files EXCEPT ![a] = AfterReview(@, p)]
  /\ UNCHANGED <<dbVars, client, run, progress, ledger, observation, owed, did,
                 faults>>

\* The compare-and-set of recover_advisory_evidence_retry.
RecoverableAttempt(a) ==
  /\ status = "blocked"
  /\ active = 0
  /\ attempt[a] = "blocked"

\* recover_advisory_evidence_retry: one transaction rewrites the closed Attempt
\* and the task.  Nothing in the repository calls it.  Its own checks are
\* RecoverableAttempt; the first conjunct is assumed of a caller, which would
\* have verified, with the engine's authority, that the Attempt stopped at the
\* evidence gate and that its evidence passes now.  Without it
\* WaitingApprovalEarned would not hold.
RecoverAdvisoryEvidence(a) ==
  /\ did[a] = {"executed", "validated"} /\ ContractPasses(files[a])
  /\ RecoverableAttempt(a)
  /\ status' = "waiting_approval"
  /\ attempt' = [attempt EXCEPT ![a] = "waiting_approval"]
  /\ UNCHANGED <<active, generation, lease, lineage, client, run, sideVars,
                 did, faults>>

\* archive_task_evidence_only: the status it judged may be stale by the time
\* it writes, since the write names no expected status; any task that was not
\* yet terminal can end up here.
ArchiveTask ==
  /\ status \notin {"absent", "archived"}
  /\ status' = "archived"
  /\ UNCHANGED <<active, generation, attempt, lease, lineage, client, run,
                 sideVars, did, faults>>

-----------------------------------------------------------------------------
ResetStep(q) ==
  PreviewReset(q) \/ ReserveRetry(q) \/ RejectReset(q)

RunStep(r) ==
  \/ StartRun(r) \/ BlockBeforeClaim(r)
  \/ ClaimReserved(r) \/ ClaimNew(r) \/ ClaimRefused(r) \/ AllocationFails(r)
  \/ PrepareFails(r)
  \/ BeginImplementing(r) \/ (\E ok \in BOOLEAN : FinishExecutor(r, ok))
  \/ BeginValidating(r) \/ (\E ok \in BOOLEAN : FinishValidators(r, ok))
  \/ (\E auto \in BOOLEAN : ReviewAndGate(r, auto)) \/ DieInReview(r)
  \/ Release(r) \/ PublishAfterRelease(r) \/ AuditWrite(r)
  \/ LoseRun(r) \/ CrashRun(r)

Next ==
  \/ \E q \in Requests : ResetStep(q)
  \/ \E r \in Runners : RunStep(r)
  \/ \E a \in Attempts : \/ LeaseExpires(a) \/ ReviewByHand(a)
                         \/ RecordObservation(a)
                         \/ RecoverAdvisoryEvidence(a)
  \/ ExpireStaleLeases \/ PublishAfterExpiry \/ CrashReaper
  \/ ArchiveTask
  \/ \E state \in {"open", "closed"} : IngestIssue(state)

Spec == Init /\ [][Next]_vars

-----------------------------------------------------------------------------
RunPCs == {"idle", "checked", "claimed", "executing", "executed", "validating",
           "reviewing", "blocking", "approving", "publishing", "auditing"}
RunStates == [pc : RunPCs, att : 0..MaxAttempts, failed : BOOLEAN]
LineageRows == [state : {"none", "reserved", "claimed"}, old : 0..MaxAttempts,
                new : 0..MaxAttempts, committed : 0..MaxAttempts]
AttemptStates == {"none"} \cup ActiveStatuses \cup ClosedStatuses
Ledgers == [final_status : {"none"} \cup ClosedStatuses,
            retry_count : 0..(MaxAttempts - 1),
            first_pass_success : {"unknown", "yes", "no"}]
StepStatuses == {"pending", "running", "passed", "failed"}

\* Every variable keeps the shape of the rows, files and processes it stands
\* for.
TypeOK ==
  /\ status \in TaskStatuses
  /\ active \in 0..MaxAttempts
  /\ generation \in 0..MaxAttempts
  /\ attempt \in [Attempts -> AttemptStates]
  /\ lease \in [Attempts -> {"none", "live", "expired", "closed"}]
  /\ lineage \in [Requests -> LineageRows]
  /\ client \in [Requests -> [pc : {"idle", "previewed"},
       expected : 0..MaxAttempts]]
  /\ run \in [Runners -> RunStates]
  /\ progress \in [Attempts -> [Steps -> StepStatuses]]
  /\ ledger \in [Attempts -> Ledgers]
  /\ observation \in [Attempts -> Ledgers]
  /\ owed \subseteq Attempts
  /\ files \in [Attempts -> Directories]
  /\ faults \in 0..MaxFaults
  /\ did \in [Attempts -> SUBSET {"executed", "validated"}]

\* Resets leave one consistent lineage, whatever races with them: as many rows
\* as the generation counts, generations and Attempts never shared, at most one
\* reservation, and a reserved Attempt is the task's own, still unclaimed
\* (reserve_retry, _try_claim_reserved_retry).
LineageConsistent ==
  LET Rows == {q \in Requests : lineage[q].state # "none"} IN
  /\ Cardinality(Rows) = generation
  /\ \A q, p \in Rows : q # p => /\ lineage[q].committed # lineage[p].committed
                                 /\ lineage[q].new # lineage[p].new
  /\ \A q \in Rows : lineage[q].old < lineage[q].new
  /\ \A q \in Rows : lineage[q].state = "reserved" <=>
       lineage[q].new = active /\ attempt[active] = "created"
  /\ \A a \in Attempts : attempt[a] = "created" =>
       \E q \in Rows : lineage[q].new = a /\ lineage[q].state = "reserved"

\* A task offered for human approval has an Attempt whose executor completed,
\* whose validators passed and whose advisory evidence satisfies the contract,
\* by its own run or by the later recovery (run_approved_task,
\* recover_advisory_evidence_retry).
WaitingApprovalEarned ==
  status = "waiting_approval" =>
    \E a \in Attempts : /\ attempt[a] = "waiting_approval"
                        /\ did[a] = {"executed", "validated"}
                        /\ EvidenceRequired => ContractPasses(files[a])

\* A published ledger and its Attempt tell the same end, except when the
\* advisory recovery rewrote a blocked Attempt after the publication: a release
\* that comes after the reaper's never reopens what was published.  It knows
\* how many Attempts came before and how the first of them ended, though a
\* ledger may be published long after its Attempt, and the digest in a later
\* observation stays the one of the ledger in place
\* (RuntimeAdmissionStore.release, publish_once, _handle_existing,
\* _build_fields, record_attempt_outcome_observation).
LedgerMatchesAttempt ==
  \A a \in Attempts : ledger[a] # NoLedger =>
    /\ \/ ledger[a].final_status = attempt[a]
       \/ ledger[a].final_status = "blocked" /\ attempt[a] = "waiting_approval"
    /\ ledger[a].retry_count = a - 1
    /\ ledger[a].first_pass_success # "unknown"
    /\ ledger[a].first_pass_success = "yes" => attempt[1] = "waiting_approval"
    /\ observation[a] \in {NoLedger, ledger[a]}

\* Progress never claims more than the Attempt did, though a run whose lease is
\* gone goes on recording (RuntimeProgressRecorder.for_claim).
ProgressHonest ==
  \A a \in Attempts :
    /\ progress[a]["Implementer"] = "passed" => "executed" \in did[a]
    /\ progress[a]["Validator"] = "passed" => "validated" \in did[a]
    /\ attempt[a] \in {"none", "created"} =>
         \A s \in Steps : progress[a][s] = "pending"

-----------------------------------------------------------------------------
(* The inductive invariant behind the properties above *)

RunningStatuses == {"preparing", "implementing", "validating"}
WorkingPCs == {"claimed", "executing", "executed", "validating", "reviewing",
               "blocking", "approving"}
ResetRows == {q \in Requests : lineage[q].state # "none"}

\* Attempts are numbered without a gap, and only the latest may be open.
AttemptsInOrder ==
  /\ Latest \in 0..MaxAttempts
  /\ Existing = 1..Latest
  /\ \A a \in Attempts : a < Latest => attempt[a] \in ClosedStatuses

\* Reset rows are counted by the generation and never outrun the Attempts.
RowsAreCounted ==
  /\ IsFiniteSet(ResetRows)
  /\ generation <= Latest
  /\ \A q \in ResetRows : /\ lineage[q].committed <= generation
                          /\ lineage[q].new \in 1..Latest

\* A lease that can still release belongs to an Attempt that is under way.
LeaseIsOpen ==
  \A a \in Attempts : lease[a] \in ActiveLease => attempt[a] \in RunningStatuses

\* No two runners hold one Attempt.  A runner at work holds one that is under
\* way or that the reaper aborted; only its own release leads further.
RunnersApart ==
  \A r \in Runners :
    /\ run[r].pc \in {"idle", "checked"} <=> run[r].att = 0
    /\ run[r].pc \in WorkingPCs =>
         attempt[run[r].att] \in RunningStatuses \cup {"execution_aborted"}
    /\ run[r].pc \in {"publishing", "auditing"} =>
         attempt[run[r].att] \in ClosedStatuses
    /\ \A s \in Runners : r # s /\ run[r].att # 0 => run[r].att # run[s].att

\* What a runner's place in run_approved_task says about its Attempt.
WorkIsDone ==
  \A r \in Runners :
    /\ run[r].pc \in {"executed", "validating"} => "executed" \in did[run[r].att]
    /\ run[r].pc \in {"reviewing", "approving"} =>
         did[run[r].att] = {"executed", "validated"}
    /\ run[r].pc = "approving" => EvidenceSatisfied(files[run[r].att])

\* Every Attempt that waits for approval has earned it, the task's own or not.
ApprovalsEarned ==
  /\ status = "waiting_approval" =>
       \E a \in Attempts : attempt[a] = "waiting_approval"
  /\ \A a \in Attempts : attempt[a] = "waiting_approval" =>
       did[a] = {"executed", "validated"} /\ EvidenceSatisfied(files[a])

\* A ledger is published of a closed Attempt, and observations follow it.
LedgersFollowClose ==
  \A a \in Attempts : /\ ledger[a] # NoLedger => SnapshotTerminal(a)
                      /\ observation[a] \in {NoLedger, ledger[a]}

Inv ==
  /\ TypeOK
  /\ AttemptsInOrder
  /\ RowsAreCounted
  /\ LineageConsistent
  /\ LeaseIsOpen
  /\ RunnersApart
  /\ WorkIsDone
  /\ ApprovalsEarned
  /\ LedgersFollowClose
  /\ LedgerMatchesAttempt
  /\ ProgressHonest
=============================================================================
