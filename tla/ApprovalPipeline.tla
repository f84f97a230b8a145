-------------------------- MODULE ApprovalPipeline --------------------------
(***************************************************************************)
(* What operators do with one task around its runs: they ask for           *)
(* proposals, confirm them, run the task through the execution engine (or  *)
(* directly while it is still a legacy task), reset it when it is blocked, *)
(* and record the human verdict with the acceptance cleanup.  Every call   *)
(* is a separate process; the evidence of the steps in between (package,   *)
(* handoff, push, pull request, cleanup) is recorded by tools outside the  *)
(* repository.                                                             *)
(*                                                                         *)
(* A call is named by its number.  A call that dies takes no further step, *)
(* and what it had written stays: no action of its own is needed for it.   *)
(***************************************************************************)
EXTENDS TaskRecommendation, Sequences, FiniteSets

CONSTANTS
  Stages,      \* the ways along the workflow a task can start from
  MaxCalls,    \* bound on the calls of a behaviour
  MaxOpen,     \* bound on the calls that have not ended, dead ones included
  MaxRecords   \* bound on the evidence recorded from outside

ASSUME PipelineAssumption ==
  /\ Stages \subseteq 0..8
  /\ MaxCalls \in Nat
  /\ MaxOpen \in Nat
  /\ MaxRecords \in Nat

VARIABLES
  task,          \* tasks.status, evidence facts, worktree row, is_legacy
  git,           \* the workspace of the latest run: its Attempt, its worktree,
                 \* its local and its remote branch
  attempts,      \* the Attempts in order; history: who claimed one, and how
                 \* many calls had begun when it was created
  proposal,      \* by call: how far the proposal's writes got, its content
  confirmation,  \* by call: the same of a confirmation
  engine,        \* by call: a run of the task
  cleanup,       \* by call: a run of kanban_accept_cleanup.py
  verdict,       \* decision.md and the manifest's status
  calls,         \* the calls started
  records        \* the evidence recorded from outside so far

vars == <<task, git, attempts, proposal, confirmation, engine, cleanup,
          verdict, calls, records>>
Calls == 1..MaxCalls

Context == [status |-> task.status, facts |-> task.facts, row |-> task.row,
            path_exists |-> git.worktree]

\* The evidence of a task that went n steps of the way, in order.
WayStep == << {"package"}, RunFacts, {"handoff"}, {"push"},
              {"draft_pr", "verified"}, {"merged"}, {"local_cleanup"},
              {"remote_cleanup"} >>
EvidenceAt(n) == UNION {WayStep[i] : i \in 1..n}

NoItem == [kind |-> "none"]
NoProposal == [pc |-> "none", item |-> NoItem]
NoConfirmation == [pc |-> "none", item |-> NoItem, seen |-> {}]
NoRun == [pc |-> "none", before |-> {}, inner |-> {}, attempt |-> 0,
          routed |-> FALSE]
NoCleanup == [pc |-> "none", of |-> 0, todo |-> <<>>, accepted |-> FALSE]

Init ==
  /\ \E n \in Stages, legacy \in BOOLEAN, completed \in BOOLEAN :
       /\ completed => n >= 7
       /\ legacy => n <= 1
       /\ task = [status |-> IF completed THEN "completed"
                             ELSE IF n <= 1 THEN "queued" ELSE "waiting_approval",
                  facts |-> EvidenceAt(n),
                  row |-> IF n <= 1 THEN "none"
                          ELSE IF n <= 6 THEN "active" ELSE "cleaned",
                  legacy |-> legacy]
       /\ git = [of |-> IF n <= 1 THEN 0 ELSE 1, worktree |-> n \in 2..6,
                 local |-> n \in 2..6, remote |-> n \in 4..7]
       /\ attempts = IF n <= 1 THEN <<>>
                     ELSE << [claimed |-> 0, born |-> 0,
                              status |-> "waiting_approval"] >>
  /\ proposal = [i \in Calls |-> NoProposal]
  /\ confirmation = [i \in Calls |-> NoConfirmation]
  /\ engine = [i \in Calls |-> NoRun]
  /\ cleanup = [i \in Calls |-> NoCleanup]
  /\ verdict = [decision |-> "none", manifest |-> "open"]
  /\ calls = 0
  /\ records = 0

Open == {i \in Calls : \/ proposal[i].pc \in {"read", "filed", "rowed"}
                        \/ confirmation[i].pc \in {"checked", "filed", "rowed"}
                        \/ engine[i].pc \notin {"none", "blocked", "ended",
                                         "accepted", "fallback", "usable"}
                        \/ cleanup[i].todo # <<>>}

\* The next call begins.
Begin(i) ==
  /\ i = calls + 1 /\ i \in Calls
  /\ Cardinality(Open) < MaxOpen
  /\ calls' = i

-----------------------------------------------------------------------------
(* Evidence from outside *)

\* What one record amounts to.  A later record of the draft pull request, or a
\* push that failed, takes the place of the earlier one (_latest_payload).
OutsideRecords ==
  {[drops |-> {}, adds |-> {f}] : f \in {"package", "handoff", "push"}
                                          \cup CleanupFacts}
  \cup {[drops |-> {"push"}, adds |-> {}]}
  \cup {[drops |-> DraftFacts, adds |-> {"draft_pr"} \cup s] :
          s \in SUBSET {"verified", "merged"}}

\* A push makes the remote branch.  A local cleanup removes the worktree and
\* its branch; whether it also updates the task_worktrees row is up to the tool.
RecordEvidence(r) ==
  /\ records < MaxRecords
  /\ records' = records + 1
  /\ \E row \in IF "local_cleanup" \in r.adds /\ task.row # "none"
                  THEN {task.row, "cleaned"} ELSE {task.row} :
       task' = [task EXCEPT !.facts = (@ \ r.drops) \cup r.adds, !.row = row]
  /\ git' = IF "local_cleanup" \in r.adds
              THEN [git EXCEPT !.worktree = FALSE, !.local = FALSE]
              ELSE [git EXCEPT !.remote = @ \/ "push" \in r.adds]
  /\ UNCHANGED <<attempts, proposal, confirmation, engine, cleanup, verdict,
                 calls>>

-----------------------------------------------------------------------------
(* Proposals: scheduler_proposals.py *)

HasRow(w) == w.pc \in {"rowed", "done"}
ProposalRows == {i \in Calls : HasRow(proposal[i])}
ProposalEvents == {i \in Calls : proposal[i].pc = "done"}
ConfirmationRows == {i \in Calls : HasRow(confirmation[i])}
ConfirmationEvents == {i \in Calls : confirmation[i].pc = "done"}

\* The task_artifacts rows beyond the evidence: those of the proposals, the
\* confirmations and the runs.
RelatedArtifacts ==
  ProposalRows \cup ConfirmationRows
    \cup {i \in Calls : /\ engine[i].attempt # 0
                        /\ engine[i].pc \notin {"running", "running_direct"}}

\* What _compute_item_hash and _compute_proposal_hash cover: the candidate with
\* its evidence summary, and the policy.  Two proposals have the same hashes
\* exactly when these are equal; neither id nor time is part of them, but the
\* rows of the proposals recorded before are: proposing again makes a new hash.
HashedItem(all) ==
  [kind |-> Recommend(Context), executable |-> Executable(Context),
   context |-> Context, artifacts |-> RelatedArtifacts,
   include_completed |-> all]

\* create_scheduler_proposal up to the hashes.  A dry run and a proposal that
\* selects nothing write no row; include_completed is asked for only where it
\* matters.
ReadForProposal(i) ==
  /\ Begin(i)
  /\ \E all \in BOOLEAN :
       /\ all => task.status = "completed"
       /\ Selected(Context, all)
       /\ proposal' = [proposal EXCEPT ![i] =
            [pc |-> "read", item |-> HashedItem(all)]]
  /\ UNCHANGED <<task, git, attempts, confirmation, engine, cleanup, verdict,
                 records>>

\* The three writes, each on its own: the file, the row, the event.
NextWrite(pc) == CASE pc \in {"read", "checked"} -> "filed"
                   [] pc = "filed" -> "rowed"
                   [] pc = "rowed" -> "done"

WriteProposal(i) ==
  /\ proposal[i].pc \in {"read", "filed", "rowed"}
  /\ proposal' = [proposal EXCEPT ![i].pc = NextWrite(@)]
  /\ UNCHANGED <<task, git, attempts, confirmation, engine, cleanup, verdict,
                 calls, records>>

-----------------------------------------------------------------------------
(* Confirmations: scheduler_confirmation_eligibility.py and                *)
(* scheduler_confirmation_from_proposal.py                                 *)

\* _read_task_scheduler_proposal_items: the events, then the rows no event
\* used.
Readback ==
  {[of |-> p, from |-> "event"] : p \in ProposalEvents}
    \cup {[of |-> p, from |-> "artifact"] : p \in ProposalRows \ ProposalEvents}

\* _filter_readback: a request names the item, and may name the proposal by
\* its hash or by its id.
Narrowings == {"item_only", "hash", "id"}
FilterReadback(p, narrowing) ==
  {r \in Readback :
     /\ proposal[r.of].item.kind = proposal[p].item.kind
     /\ narrowing = "hash" => proposal[r.of].item = proposal[p].item
     /\ narrowing = "id" => r.of = p}

\* Mutant of DuplicateConfirmations: only the events are counted.
DuplicateEvents(item) ==
  {c \in ConfirmationEvents : confirmation[c].item = item}

\* _count_duplicate_confirmations over rows and events.
DuplicateConfirmations(item) ==
  {c \in ConfirmationRows \cup ConfirmationEvents : confirmation[c].item = item}

\* _load_artifact_payload and _verify_hashes: the file the row names is there;
\* nothing rewrites it, so its hashes are those of the item.
ArtifactVerifies(p) == proposal[p].pc \in {"filed", "rowed", "done"}

\* _verify_status_and_kind with _resolve_expected_status: only the status is
\* compared with the present, the evidence is not.
StatusStillExpected(p) == task.status = proposal[p].item.context.status

\* check_scheduler_confirmation_eligibility: one readback item, its file, the
\* expected status, and no confirmation of the binding yet.
Eligible(p, narrowing) ==
  /\ \E r \in Readback : FilterReadback(p, narrowing) = {r}
  /\ ArtifactVerifies(p)
  /\ StatusStillExpected(p)
  /\ DuplicateConfirmations(proposal[p].item) = {}

\* A request that is not eligible writes nothing and is left out.
CheckConfirmation(i) ==
  /\ Begin(i)
  /\ \E p \in ProposalRows, narrowing \in Narrowings :
       /\ Eligible(p, narrowing)
       /\ confirmation' = [confirmation EXCEPT ![i] =
            [pc |-> "checked", item |-> proposal[p].item,
             seen |-> ConfirmationRows]]
  /\ UNCHANGED <<task, git, attempts, proposal, engine, cleanup, verdict,
                 records>>

\* The artifact file, the row and the event of a confirmation.
WriteConfirmation(i) ==
  /\ confirmation[i].pc \in {"checked", "filed", "rowed"}
  /\ confirmation' = [confirmation EXCEPT ![i].pc = NextWrite(@)]
  /\ UNCHANGED <<task, git, attempts, proposal, engine, cleanup, verdict,
                 calls, records>>

\* _read_task_scheduler_confirmation_items: as for proposals.
ConfirmationReadback ==
  {[of |-> c, from |-> "event"] : c \in ConfirmationEvents}
    \cup {[of |-> c, from |-> "artifact"] :
            c \in ConfirmationRows \ ConfirmationEvents}

-----------------------------------------------------------------------------
(* Runs: scheduler_execution_engine_authority.py over                      *)
(* execution_engine_approved_task_adapter.py, with                         *)
(* level2_execution_authority.py                                           *)

\* list_canonical_attempt_ids.
AttemptIds == DOMAIN attempts

\* Mutant of IdsBefore: a read of the authority that fails is taken for no
\* Attempts.
NoIdsBefore == {}

\* The Attempts a caller notes before it starts something.
IdsBefore == AttemptIds

\* task_execution_level, and ensure_level2_task_identity: the identity is
\* promoted once and never goes back.
IsLevel2 == ~ task.legacy
EnsureLevel2Identity == task' = [task EXCEPT !.legacy = FALSE]

\* execute_from_runtime_handoff: the task becomes a Level 2 task and the
\* Attempts it has are noted.
BeginAuthority(i) ==
  /\ Begin(i)
  /\ EnsureLevel2Identity
  /\ engine' = [engine EXCEPT ![i] = [NoRun EXCEPT !.pc = "authority",
                                                   !.before = IdsBefore]]
  /\ UNCHANGED <<git, attempts, proposal, confirmation, cleanup, verdict,
                 records>>

\* level2_direct_execution_error lets only a legacy task be run directly; it is
\* asked before the run, not at the claim.
BeginDirect(i) ==
  /\ Begin(i)
  /\ ~ IsLevel2
  /\ engine' = [engine EXCEPT ![i].pc = "direct"]
  /\ UNCHANGED <<task, git, attempts, proposal, confirmation, cleanup,
                 verdict, records>>

\* _blocked_result, and the failure results of the adapter.
Blocked(run) == [NoRun EXCEPT !.pc = "blocked", !.attempt = run.attempt,
                              !.routed = run.routed]
Refuse(i) == engine' = [engine EXCEPT ![i] = Blocked(@)]

\* build_scheduler_execution_engine_request.  The authority adds the path of
\* the runtime handoff, when it was given one.
BuildRequest(handoff) ==
  [level2 |-> TRUE, confirmed |-> TRUE, fallback_allowed |-> FALSE,
   publishes |-> FALSE, one_task_only |-> TRUE, handoff |-> handoff]

\* _level2_contract_error.
ContractError(r) ==
  r.level2 /\ (r.fallback_allowed \/ ~ r.confirmed \/ ~ r.handoff)

\* ApprovedTaskExecutionEngineAdapter.execute up to the runner: the Attempts
\* are noted again, unless the contract or a runtime control refuses.  A read
\* that fails is taken for no Attempts (_attempt_ids).
BeginAdapter(i) ==
  /\ engine[i].pc \in {"authority", "routed"}
  /\ \E handoff \in IF engine[i].routed THEN {FALSE} ELSE BOOLEAN :
       \/ /\ ~ ContractError(BuildRequest(handoff))
          /\ EnsureLevel2Identity
          /\ \E noted \in {IdsBefore, {}} :
               engine' = [engine EXCEPT ![i] =
                 [@ EXCEPT !.pc = "adapter", !.inner = noted]]
       \/ Refuse(i) /\ UNCHANGED task
  /\ UNCHANGED <<git, attempts, proposal, confirmation, cleanup, verdict,
                 calls, records>>

Reserved == {a \in AttemptIds : attempts[a].status = "created"}
NextAttempt == IF Reserved # {} THEN Max(Reserved) ELSE Len(attempts) + 1

\* run_approved_task up to its workspace: the claim adopts the Attempt a reset
\* reserved or makes a new one.  The workspace is the Attempt's own, a path and
\* a branch that name it; what an earlier Attempt left stays behind.
ClaimAndPrepare(i) ==
  /\ engine[i].pc \in {"direct", "adapter"}
  /\ task.status = "queued"
  /\ attempts' = IF Reserved # {}
                   THEN [attempts EXCEPT ![Max(Reserved)] =
                           [@ EXCEPT !.status = "running", !.claimed = i]]
                   ELSE Append(attempts, [claimed |-> i, born |-> calls,
                                          status |-> "running"])
  /\ engine' = [engine EXCEPT ![i] =
       [engine[i] EXCEPT
          !.pc = IF @ = "direct" THEN "running_direct" ELSE "running",
          !.attempt = NextAttempt]]
  /\ task' = [task EXCEPT !.status = "running", !.row = "active"]
  /\ git' = [of |-> NextAttempt, worktree |-> TRUE, local |-> TRUE,
             remote |-> FALSE]
  /\ UNCHANGED <<proposal, confirmation, cleanup, verdict, calls, records>>

\* The runner refuses: the task is not queued or the request is not valid, or
\* it blocks the queued task before the claim (LegacyTask has the gap between the
\* two).
RefuseRun(i) ==
  /\ engine[i].pc \in {"direct", "adapter"}
  /\ Refuse(i)
  /\ \/ UNCHANGED task
     \/ task.status = "queued" /\ task' = [task EXCEPT !.status = "blocked"]
  /\ UNCHANGED <<git, attempts, proposal, confirmation, cleanup, verdict,
                 calls, records>>

\* The evidence a run leaves: the validators run only after the executor.
RunEvidence(executed, validated) ==
  (task.facts \ RunFacts)
    \cup (IF validated THEN RunFacts
          ELSE IF executed THEN RunFacts \ {"validators_ok"}
          ELSE {"executor_ran"} \cup (task.facts \cap {"validators_ran",
                                                       "validators_ok"}))

\* expire_stale_leases: the Attempt of a run that stalls is closed and the task
\* blocked.  The run does not notice and goes on.
HoldsLease(i) == attempts[engine[i].attempt].status = "running"
Running(i) == engine[i].pc \in {"running", "running_direct"}
Reap(i) ==
  /\ Running(i) /\ HoldsLease(i)
  /\ attempts' = [attempts EXCEPT ![engine[i].attempt].status = "blocked"]
  /\ task' = [task EXCEPT !.status = "blocked"]
  /\ UNCHANGED <<git, proposal, confirmation, engine, cleanup, verdict, calls,
                 records>>

\* The run ends.  With its lease it releases the Attempt; a run that was reaped
\* loses at its next heartbeat or at the release, and only the evidence it
\* recorded is left of it.
FinishRun(i) ==
  /\ Running(i)
  /\ \E executed, validated \in BOOLEAN :
       LET facts == RunEvidence(executed, validated)
           end == IF validated THEN "waiting_approval" ELSE "blocked" IN
       /\ validated => executed
       /\ \/ /\ HoldsLease(i)
             /\ task' = [task EXCEPT !.status = end, !.facts = facts]
             /\ attempts' = [attempts EXCEPT ![engine[i].attempt].status = end]
             /\ engine' = [engine EXCEPT ![i].pc =
                  IF ~ validated THEN "auditing"
                  ELSE IF @ = "running" THEN "ran" ELSE "ended"]
          \/ /\ ~ HoldsLease(i)
             /\ task' = [task EXCEPT !.facts = facts]
             /\ Refuse(i)
             /\ UNCHANGED attempts
  /\ UNCHANGED <<git, proposal, confirmation, cleanup, verdict, calls, records>>

\* The second write of _release: blocked once more, with the reason and with no
\* expected status; a trigger aborts it while some Attempt holds a lease.
AuditWrite(i) ==
  /\ engine[i].pc = "auditing"
  /\ task' = [task EXCEPT !.status =
       IF \E a \in AttemptIds : attempts[a].status = "running" THEN @
                                                             ELSE "blocked"]
  /\ Refuse(i)
  /\ UNCHANGED <<git, attempts, proposal, confirmation, cleanup, verdict, calls,
                 records>>

\* verify_canonical_attempt: the Attempt is new to the caller and closed with
\* completed execution and passed validation.
VerifyCanonicalAttempt(a, before) ==
  /\ a \in AttemptIds
  /\ a \notin before
  /\ attempts[a].status = "waiting_approval"

\* _reserved_canonical_attempt, then the checks of the authority: the Attempt
\* is verified against its own note, and must be the only new one.
AdapterVerifies(i) ==
  /\ engine[i].pc = "ran"
  /\ \/ /\ VerifyCanonicalAttempt(engine[i].attempt, engine[i].inner)
        /\ engine' = [engine EXCEPT ![i].pc = "bound"]
     \/ ~ VerifyCanonicalAttempt(engine[i].attempt, engine[i].inner) /\ Refuse(i)
  /\ UNCHANGED <<task, git, attempts, proposal, confirmation, cleanup, verdict,
                 calls, records>>

AuthorityVerifies(i) ==
  LET own == /\ VerifyCanonicalAttempt(engine[i].attempt, engine[i].before)
             /\ AttemptIds \ engine[i].before = {engine[i].attempt} IN
  /\ engine[i].pc = "bound" /\ ~ engine[i].routed
  /\ \/ own /\ engine' = [engine EXCEPT ![i].pc = "accepted"]
     \/ ~ own /\ Refuse(i)
  /\ UNCHANGED <<task, git, attempts, proposal, confirmation, cleanup, verdict,
                 calls, records>>

\* The operator's reset of a blocked task: reserve_retry, one transaction.
Reset(i) ==
  /\ Begin(i)
  /\ task.status = "blocked"
  /\ Reserved = {}
  /\ task' = [task EXCEPT !.status = "queued"]
  /\ attempts' = Append(attempts, [claimed |-> 0, born |-> i,
                                    status |-> "created"])
  /\ UNCHANGED <<git, proposal, confirmation, engine, cleanup, verdict,
                 records>>

-----------------------------------------------------------------------------
(* The route after a scheduler's own run: scheduler_execution_engine_opt_in *)

\* What is read of the scheduler's tick: whether its ok and status are there,
\* the repository it names, its publication markers and its safety markers.
LegacyTicks == [complete : BOOLEAN, repo : BOOLEAN,
                publication : {"absent", "execution_only", "publishes"},
                unsafe : BOOLEAN]

\* compare_scheduler_tick_to_engine_request: the mismatches of identity and
\* publication, and those the tick's safety markers make.
ExecutionOnlyMatches(tick, r) ==
  /\ tick.repo
  /\ ~ r.publishes /\ r.one_task_only
  /\ tick.publication # "publishes"
TickIsSafe(tick) == ~ tick.unsafe

\* _not_executed_block, _executed_block and _engine_error_block.
EngineBlock(run) ==
  [executed |-> run.pc # "skipped", ok |-> run.pc = "bound",
   status |-> CASE run.pc = "skipped" -> "not_executed"
                [] run.pc = "bound" -> "waiting_approval"
                [] OTHER -> "blocked"]

\* _publication_boundary_preserved: a block that was executed shows the
\* markers of its request.
PublicationBoundaryPreserved(block, r) == block.executed => ~ r.publishes

\* assess_scheduler_execution_engine_fallback.
FallbackReasons(tick, block) ==
  LET r == BuildRequest(FALSE)
      applies ==
        [legacy_missing |-> ~ tick.complete,
         engine_not_executed |-> ~ block.executed,
         engine_not_ok |-> ~ block.ok,
         engine_failure_status |-> block.status \in {"not_executed", "blocked"},
         shadow_compare_missing |-> ~ block.executed,
         shadow_compare_mismatch |->
           block.executed /\ ~ (ExecutionOnlyMatches(tick, r) /\ TickIsSafe(tick)),
         publication_boundary_violation |->
           ~ PublicationBoundaryPreserved(block, r)] IN
  {reason \in DOMAIN applies : applies[reason]}

\* route_scheduler_tick_through_execution_engine: nothing was selected or the
\* task is a Level 2 task, or the request goes to the adapter.
RouteOptIn(i) ==
  /\ Begin(i)
  /\ \E pc \in {"skipped"} \cup (IF IsLevel2 THEN {} ELSE {"routed"}) :
       engine' = [engine EXCEPT ![i] = [NoRun EXCEPT !.pc = pc,
                                                     !.routed = TRUE]]
  /\ UNCHANGED <<task, git, attempts, proposal, confirmation, cleanup,
                 verdict, records>>

\* _attach_fallback_assessment.
AssessRoute(i) ==
  /\ engine[i].routed /\ engine[i].pc \in {"skipped", "blocked", "bound"}
  /\ \E tick \in LegacyTicks :
       engine' = [engine EXCEPT ![i].pc =
         IF FallbackReasons(tick, EngineBlock(engine[i])) # {} THEN "fallback"
                                                               ELSE "usable"]
  /\ UNCHANGED <<task, git, attempts, proposal, confirmation, cleanup, verdict,
                 calls, records>>

-----------------------------------------------------------------------------
(* The verdict: scripts/kanban_accept_cleanup.py *)

\* What is known of the merged commit, and the check of main.
CommitStates == {"verified", "not_found", "missing_allowed", "missing"}
CommitChecked(accepted, commit) ==
  \/ commit \in {"verified", "missing_allowed"}
  \/ commit = "missing" /\ ~ accepted

When(b, a) == IF b THEN <<a>> ELSE <<>>

\* Where the script looks: at the path and branch that bear the task's key (0),
\* which are not those of a run, or, told by --worktree and --branch, at the
\* workspace of the latest run.
Targets == {0, git.of}

\* What it sees there.  A show-ref or ls-remote that fails is read as "absent",
\* and ls-remote is asked only while the local branch is seen.  Where no run
\* works there is all or nothing: removing it touches nothing modelled, and
\* whichever part of it cannot be removed ends the call.
Sights(of) ==
  {s \in [worktree : BOOLEAN, local : BOOLEAN, remote : BOOLEAN] :
     IF of = 0 THEN s.worktree = s.local /\ ~ s.remote
     ELSE /\ s.remote => s.local /\ git.remote
          /\ s.local => git.local
          /\ s.worktree = git.worktree}

\* The plan, made once from what was seen.  A run without
\* --delete-remote-branch does what one does whose deletion fails.
PlanCleanup(accepted, seen) ==
  <<"decision_md", "manifest">>
    \o When(accepted /\ seen.worktree, "worktree")
    \o When(seen.local, "local_branch")
    \o When(seen.remote, "remote_branch")
    \o <<"comment">>
    \o When(accepted, "complete")

\* main up to the plan.  A dry run, an unclean main repository and a failed
\* checkout end before it.
BeginCleanup(i) ==
  /\ Begin(i)
  /\ \E accepted \in BOOLEAN, commit \in CommitStates, of \in Targets :
       /\ CommitChecked(accepted, commit)
       /\ \E seen \in Sights(of) :
            cleanup' = [cleanup EXCEPT ![i] =
              [pc |-> "acting", of |-> of, todo |-> PlanCleanup(accepted, seen),
               accepted |-> accepted]]
  /\ UNCHANGED <<task, git, attempts, proposal, confirmation, engine, verdict,
                 records>>

\* The action at the head of the plan succeeds or fails; what each may do.
Succeeded(i) == cleanup' = [cleanup EXCEPT ![i].todo = Tail(@)]

\* Mutant of Fatal: the loop goes on.
FatalIsAWarning(i) == Succeeded(i)

\* fatal_error: every later action is skipped and the call is over.
Over(i) == cleanup' = [cleanup EXCEPT ![i] = [NoCleanup EXCEPT !.pc = "over"]]
Fatal(i) == Over(i)

Acting(i, action) ==
  cleanup[i].pc = "acting" /\ cleanup[i].todo # <<>>
    /\ Head(cleanup[i].todo) = action

WriteDecision(i) ==
  /\ Acting(i, "decision_md") /\ Succeeded(i)
  /\ verdict' = [verdict EXCEPT !.decision =
                   IF cleanup[i].accepted THEN "accepted" ELSE "rejected"]
  /\ UNCHANGED git

\* Mutant of UpdateManifest: the decision is written without the mapping to a
\* status.
WriteDecisionToManifest(i) ==
  /\ Acting(i, "manifest") /\ Succeeded(i)
  /\ verdict' = [verdict EXCEPT !.manifest =
       IF @ # "open" THEN @
       ELSE IF cleanup[i].accepted THEN "accepted" ELSE "rejected"]
  /\ UNCHANGED git

\* update_manifest: a status that is done or rejected stays.
UpdateManifest(i) ==
  /\ Acting(i, "manifest") /\ Succeeded(i)
  /\ verdict' = [verdict EXCEPT !.manifest =
       IF @ # "open" THEN @
       ELSE IF cleanup[i].accepted THEN "done" ELSE "rejected"]
  /\ UNCHANGED git

\* The call looks at the workspace of the latest run, and what removing a part
\* of what it looks at leaves of that workspace.
Own(i) == cleanup[i].of # 0 /\ cleanup[i].of = git.of
Without(i, part) == IF Own(i) THEN [git EXCEPT ![part] = FALSE] ELSE git

\* git refuses a dirty worktree, unless --force-remove-worktree was given, and
\* one that is gone already; a command that times out may have done its work.
RemoveWorktree(i) ==
  /\ Acting(i, "worktree")
  /\ \/ /\ Own(i) => git.worktree
        /\ Succeeded(i) /\ git' = Without(i, "worktree")
     \/ Fatal(i) /\ git' \in {git, Without(i, "worktree")}
  /\ UNCHANGED verdict

\* git branch -d: refused while a worktree has the branch checked out, or when
\* it is not merged.  A branch that show-ref does not find, because it is gone
\* or because show-ref fails, is fine.
DeleteLocalBranch(i) ==
  /\ Acting(i, "local_branch")
  /\ \/ /\ Own(i) => git.local /\ ~ git.worktree
        /\ Succeeded(i) /\ git' = Without(i, "local")
     \/ Succeeded(i) /\ UNCHANGED git
     \/ Fatal(i) /\ git' \in {git, Without(i, "local")}
  /\ UNCHANGED verdict

\* A remote branch that cannot be deleted, or a Hermes that does not answer, is
\* only a warning.  The text of the comment is not kept.
DeleteRemoteBranch(i) ==
  /\ Acting(i, "remote_branch") /\ Succeeded(i)
  /\ git' \in {git, Without(i, "remote")}
  /\ UNCHANGED verdict

HermesComment(i) ==
  Acting(i, "comment") /\ Succeeded(i) /\ UNCHANGED <<git, verdict>>

\* Hermes hears that the task is complete, or does not answer; the call is over.
HermesComplete(i) ==
  /\ Acting(i, "complete")
  /\ \/ cleanup' = [cleanup EXCEPT ![i] =
            [NoCleanup EXCEPT !.pc = "told", !.of = cleanup[i].of]]
     \/ Over(i)
  /\ UNCHANGED <<git, verdict>>

CleanupStep(i) ==
  /\ \/ WriteDecision(i) \/ UpdateManifest(i) \/ RemoveWorktree(i)
     \/ DeleteLocalBranch(i) \/ DeleteRemoteBranch(i)
     \/ HermesComment(i) \/ HermesComplete(i)
  /\ UNCHANGED <<task, attempts, proposal, confirmation, engine, calls, records>>

-----------------------------------------------------------------------------
Next ==
  \/ \E r \in OutsideRecords : RecordEvidence(r)
  \/ \E i \in Calls :
       \/ ReadForProposal(i) \/ WriteProposal(i)
       \/ CheckConfirmation(i) \/ WriteConfirmation(i)
       \/ BeginAuthority(i) \/ BeginDirect(i) \/ BeginAdapter(i)
       \/ ClaimAndPrepare(i) \/ RefuseRun(i) \/ Reap(i)
       \/ FinishRun(i) \/ AuditWrite(i)
       \/ AdapterVerifies(i) \/ AuthorityVerifies(i) \/ Reset(i)
       \/ RouteOptIn(i) \/ AssessRoute(i)
       \/ BeginCleanup(i) \/ CleanupStep(i)

Spec == Init /\ [][Next]_vars

-----------------------------------------------------------------------------
Items == [kind : RECOMMENDED_COMMAND_KINDS, executable : BOOLEAN,
          context : Contexts, artifacts : SUBSET Calls,
          include_completed : BOOLEAN]

TaskRows == [status : Statuses, facts : SUBSET EvidenceFacts,
             row : WorktreeRows, legacy : BOOLEAN]
AttemptRows == [claimed : 0..MaxCalls, born : 0..MaxCalls,
                status : {"created", "running", "waiting_approval", "blocked"}]
ProposalStates == [pc : {"none", "read", "filed", "rowed", "done"},
                   item : {NoItem} \cup Items]
ConfirmationStates == [pc : {"none", "checked", "filed", "rowed", "done"},
                       item : {NoItem} \cup Items, seen : SUBSET Calls]
EnginePCs == {"none", "authority", "direct", "adapter", "running",
              "running_direct", "auditing", "ran", "bound", "accepted", "ended", "blocked",
              "skipped", "routed", "fallback", "usable"}
EngineStates == [pc : EnginePCs, before : SUBSET Nat, inner : SUBSET Nat,
                 attempt : Nat, routed : BOOLEAN]
CleanupActions == {"decision_md", "manifest", "worktree", "local_branch",
                   "remote_branch", "comment", "complete"}
CleanupStates == [pc : {"none", "acting", "over", "told"}, of : Nat,
                  todo : Seq(CleanupActions), accepted : BOOLEAN]
Workspaces == [of : Nat, worktree : BOOLEAN, local : BOOLEAN, remote : BOOLEAN]
Verdicts == [decision : {"none", "accepted", "rejected"},
             manifest : {"open", "done", "rejected"}]

\* Every variable keeps the shape of what it stands for.
TypeOK ==
  /\ task \in TaskRows
  /\ git \in Workspaces
  /\ attempts \in Seq(AttemptRows)
  /\ proposal \in [Calls -> ProposalStates]
  /\ confirmation \in [Calls -> ConfirmationStates]
  /\ engine \in [Calls -> EngineStates]
  /\ cleanup \in [Calls -> CleanupStates]
  /\ verdict \in Verdicts
  /\ calls \in 0..MaxCalls
  /\ records \in 0..MaxRecords

\* The evidence a step of the way to a merged pull request rests on, and the
\* evidence it is meant to produce.
Publishing ==
  [pr_handoff_package |-> 3, branch_push_review |-> 4, draft_pr_review |-> 5]

\* A proposal that may be executed fits the evidence it was made from.  For a
\* step towards the pull request everything before the step is recorded, the
\* step's own evidence is not, nothing after it is either (unless an unverified
\* pull request was merged), and the worktree it works in was there.  A task is
\* only handed to a run when nothing but its package is recorded.  And whatever
\* discovery sends to a proposal a proposal can carry, asked for completed tasks
\* only when it is one (_recommend_for_context, _build_candidate,
\* discover_scheduler_candidates).
ProposalFollowsEvidence ==
  /\ DiscoveryAsksForProposal(Context) =>
       Selected(Context, task.status = "completed")
  /\ \A i \in Calls : proposal[i].item # NoItem /\ proposal[i].item.executable =>
       LET c == proposal[i].item.context
           kind == proposal[i].item.kind IN
       /\ kind \in DOMAIN Publishing =>
            LET n == Publishing[kind] IN
            /\ EvidenceAt(n - 1) \ {"package"} \subseteq c.facts
            /\ ~ WayStep[n] \subseteq c.facts
            /\ \/ c.facts \subseteq EvidenceAt(n)
               \/ kind = "draft_pr_review" /\ "merged" \in c.facts
            /\ c.row # "none" => c.path_exists \/ AnyCleanup(c.facts)
       /\ kind = "queued_task_handoff" => c.facts = {"package"}
       /\ kind = "post_merge_cleanup_review" =>
            "merged" \in c.facts /\ ~ AnyCleanup(c.facts)

\* No confirmation repeats one on record, also when that one's call died before
\* its event: two of the same binding were checked before either was recorded.
\* Each one on record is read back once (_count_duplicate_confirmations,
\* _read_task_scheduler_confirmation_items).
NoRepeatConfirmation ==
  /\ \A c, d \in ConfirmationRows :
       c # d /\ confirmation[c].item = confirmation[d].item =>
         c \notin confirmation[d].seen
  /\ \A c \in ConfirmationRows :
       Cardinality({r \in ConfirmationReadback : r.of = c}) = 1

\* A result the authority accepts is of an Attempt that this call claimed,
\* that ended validated, and that did not exist when the call began: never one
\* an earlier reset reserved, an earlier run left behind or another run claimed
\* (execute_from_runtime_handoff, verify_canonical_attempt,
\* _reserved_canonical_attempt).
AcceptedResultIsOwn ==
  \A i \in Calls : engine[i].pc = "accepted" =>
    LET a == attempts[engine[i].attempt] IN
    a.claimed = i /\ a.born >= i /\ a.status = "waiting_approval"

\* A cleanup that looks at a run's workspace tells Hermes that the task is
\* complete only when that worktree is gone, whatever other verdicts, resets and
\* runs go on beside it.  Its branch may still be there, when show-ref failed,
\* and a cleanup left to its defaults looks elsewhere (the fatal_error of main).
HermesToldAfterCleanup ==
  \A i \in Calls : cleanup[i].pc = "told" /\ Own(i) => ~ git.worktree

-----------------------------------------------------------------------------
(* The inductive invariant behind the properties above *)

\* A call that has not begun has written nothing.
CallsInOrder ==
  \A i \in Calls : i > calls =>
    /\ proposal[i] = NoProposal /\ confirmation[i] = NoConfirmation
    /\ engine[i] = NoRun /\ cleanup[i] = NoCleanup

\* The facts read off one run or one pull request come together.
Coherent(e) ==
  /\ "executor_ok" \in e => "executor_ran" \in e
  /\ "validators_ok" \in e => "validators_ran" \in e
  /\ {"verified", "merged"} \cap e # {} => "draft_pr" \in e

\* A proposal carries what the recommendation said of the context it read.
ProposalsAreBound ==
  /\ Coherent(task.facts)
  /\ \A i \in Calls :
       LET item == proposal[i].item IN
       /\ item = NoItem <=> proposal[i].pc = "none"
       /\ item # NoItem =>
            /\ item.kind = Recommend(item.context)
            /\ item.executable = Executable(item.context)
            /\ Coherent(item.context.facts)

\* What a confirmation saw on record is there still, and of another binding.
ConfirmationsAreApart ==
  \A d \in Calls : \A c \in confirmation[d].seen :
    /\ c \in ConfirmationRows
    /\ confirmation[c].item # confirmation[d].item

\* A reset reserves one Attempt at a time.
OneReservation == \A a, b \in Reserved : a = b

\* The Attempt a call holds is claimed by that call and by no other.
ClaimsAreOwn ==
  \A i \in Calls :
    /\ engine[i].attempt # 0 =>
         /\ engine[i].attempt \in AttemptIds \ Reserved
         /\ attempts[engine[i].attempt].claimed = i
    /\ engine[i].pc \in {"running", "running_direct", "auditing", "ran",
                         "bound", "accepted"} => engine[i].attempt # 0

\* What the authority did not find when it began was born after it.
AuthorityKnowsNew ==
  \A i \in Calls :
    /\ ~ engine[i].routed
    /\ engine[i].pc \in {"authority", "adapter", "running", "ran", "bound"}
    => \A a \in AttemptIds \ engine[i].before : attempts[a].born >= i

\* The historical route stops at the contract of the adapter, and no other run
\* starts where it does.
RouteStops ==
  \A i \in Calls :
    /\ engine[i].routed =>
         /\ engine[i].attempt = 0
         /\ engine[i].pc \in {"skipped", "routed", "blocked", "fallback"}
    /\ engine[i].pc \in {"skipped", "routed"} => engine[i].routed

\* A workspace, and whatever a cleanup looks at, is of a claimed Attempt.
WorkspacesAreClaimed ==
  \A a \in {git.of} \cup {cleanup[i].of : i \in Calls} :
    a = 0 \/ a \in AttemptIds \ Reserved

\* Hermes is told last, and a worktree that is there is still on the plan of a
\* cleanup of that workspace that may tell it.
PlansInOrder ==
  \A i \in Calls : LET todo == cleanup[i].todo IN
    \A k \in DOMAIN todo : todo[k] = "complete" =>
      /\ k = Len(todo)
      /\ Own(i) /\ git.worktree => \E m \in DOMAIN todo : todo[m] = "worktree"

Inv ==
  /\ TypeOK
  /\ CallsInOrder
  /\ ProposalsAreBound
  /\ ConfirmationsAreApart
  /\ OneReservation
  /\ ClaimsAreOwn
  /\ AuthorityKnowsNew
  /\ AcceptedResultIsOwn
  /\ RouteStops
  /\ WorkspacesAreClaimed
  /\ PlansInOrder
  /\ HermesToldAfterCleanup
=============================================================================
