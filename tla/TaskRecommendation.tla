------------------------- MODULE TaskRecommendation -------------------------
(***************************************************************************)
(* What task_recommendations.py tells an operator to do next with a task,  *)
(* and what scheduler_proposals.py and scheduler_candidate_discovery.py    *)
(* make of it.  All three are pure functions of what they read.            *)
(*                                                                         *)
(* A context is the task's status, the evidence its artifact rows and      *)
(* events amount to, its task_worktrees row and whether the path of the    *)
(* row exists.  The wording of reasons, phases and summaries is left out.  *)
(***************************************************************************)
EXTENDS Naturals, FiniteSetsExt

\* The fields of _Evidence.  _executor_state looks at the latest run and
\* _validator_state at the latest result of each validator; draft_pr, verified
\* and merged are read off one payload, the latest of the draft pull request.
RunFacts == {"executor_ran", "executor_ok", "validators_ran", "validators_ok"}
DraftFacts == {"draft_pr", "verified", "merged"}
CleanupFacts == {"local_cleanup", "remote_cleanup", "closeout"}
EvidenceFacts == {"package", "handoff", "push"} \cup RunFacts \cup DraftFacts
                   \cup CleanupFacts

Statuses == {"queued", "running", "waiting_approval", "blocked", "completed"}
WorktreeRows == {"none", "active", "cleaned"}

Contexts == [status : Statuses, facts : SUBSET EvidenceFacts,
             row : WorktreeRows, path_exists : BOOLEAN]

WORKTREE_DEPENDENT_COMMAND_KINDS ==
  {"pr_handoff_package", "branch_push_review", "draft_pr_review"}

EXECUTABLE_COMMAND_KINDS ==
  {"create_task_execution_package", "queued_task_handoff",
   "pr_handoff_package", "branch_push_review", "draft_pr_review",
   "post_merge_cleanup_review", "cleanup_continue"}

RECOMMENDED_COMMAND_KINDS ==
  EXECUTABLE_COMMAND_KINDS \cup {"human_pr_review", "inspect_blocker",
                                 "inspect_evidence", "no_action", "unknown"}

AnyCleanup(e) == e \cap CleanupFacts # {}
CleanupComplete(e) == \/ "closeout" \in e
                      \/ {"local_cleanup", "remote_cleanup"} \subseteq e

\* Mutant of Inconsistent: only a queued task is looked at.
InconsistentWhenQueued(c) ==
  c.status = "queued" /\ c.facts \ {"package"} # {}

\* _inconsistency_reasons.
Inconsistent(c) ==
  \/ c.status = "queued" /\ c.facts \ {"package"} # {}
  \/ /\ c.status = "waiting_approval"
     /\ \/ "push" \in c.facts /\ "handoff" \notin c.facts
        \/ "draft_pr" \in c.facts /\ "push" \notin c.facts
        \/ "merged" \in c.facts /\ "draft_pr" \notin c.facts
        \/ AnyCleanup(c.facts) /\ "merged" \notin c.facts

QueuedDecision(e) ==
  IF "package" \in e THEN "queued_task_handoff"
                     ELSE "create_task_execution_package"

\* _waiting_approval_decision: what is missing first decides; with nothing
\* missing it is the pull request's turn, then the cleanup's.
WaitingSteps ==
  << [needs |-> {"executor_ok", "validators_ok"}, kind |-> "inspect_evidence"],
     [needs |-> {"handoff"}, kind |-> "pr_handoff_package"],
     [needs |-> {"push"}, kind |-> "branch_push_review"],
     [needs |-> {"draft_pr", "verified"}, kind |-> "draft_pr_review"] >>

WaitingApprovalDecision(e) ==
  LET missing == {i \in DOMAIN WaitingSteps :
                    ~ WaitingSteps[i].needs \subseteq e} IN
  CASE missing # {} -> WaitingSteps[Min(missing)].kind
    [] missing = {} /\ "merged" \notin e -> "human_pr_review"
    [] missing = {} /\ "merged" \in e ->
         IF AnyCleanup(e) THEN "cleanup_continue"
                          ELSE "post_merge_cleanup_review"

CompletedDecision(e) ==
  IF CleanupComplete(e) THEN "no_action" ELSE "cleanup_continue"

Decision(c) ==
  IF Inconsistent(c) THEN "inspect_evidence" ELSE
    CASE c.status = "queued" -> QueuedDecision(c.facts)
      [] c.status = "waiting_approval" -> WaitingApprovalDecision(c.facts)
      [] c.status = "blocked" -> "inspect_blocker"
      [] c.status = "completed" -> CompletedDecision(c.facts)
      [] OTHER -> "unknown"

\* _maybe_override_for_missing_worktree.
WorktreeMissing(c, kind) ==
  /\ c.row # "none"
  /\ c.status # "completed"
  /\ ~ AnyCleanup(c.facts)
  /\ ~ c.path_exists
  /\ kind \in WORKTREE_DEPENDENT_COMMAND_KINDS

\* _recommend_for_context: recommended_command_kind.
Recommend(c) ==
  IF WorktreeMissing(c, Decision(c)) THEN "inspect_evidence" ELSE Decision(c)

\* _consistency_warnings: whether there is any.
Warned(c) ==
  LET completed == c.status = "completed"
      cleanup == AnyCleanup(c.facts) IN
  /\ c.row # "none"
  /\ \/ c.row = "active" /\ ~ c.path_exists /\ (cleanup \/ completed)
     \/ ~ completed /\ ~ cleanup /\ ~ c.path_exists
     \/ c.row = "active" /\ cleanup

-----------------------------------------------------------------------------
(* scheduler_proposals.py: _build_candidate *)

\* The filters of a request that keeps the default command kinds; an unknown
\* recommendation is of medium severity and passes.
Selected(c, include_completed) ==
  /\ c.status = "completed" => include_completed
  /\ Recommend(c) = "no_action" => include_completed

Executable(c) == Recommend(c) \in EXECUTABLE_COMMAND_KINDS /\ ~ Warned(c)

-----------------------------------------------------------------------------
(* scheduler_candidate_discovery.py *)

\* ACTIONABLE_CANDIDATE_KINDS; no_action, unknown and human_pr_review are the
\* kinds a caller has to ask for.
CandidateReady(c) ==
  Recommend(c) \notin {"no_action", "unknown", "human_pr_review"}

\* _GATE_AND_OPERATOR_ACTION: create_scheduler_proposal is what to do next.
DiscoveryAsksForProposal(c) ==
  CandidateReady(c) /\ Recommend(c) \notin {"inspect_blocker",
                                            "inspect_evidence"}

=============================================================================
