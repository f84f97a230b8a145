----------------------- MODULE ApprovalPipelineProofs -----------------------
(***************************************************************************)
(* Proofs that the calls operators make around one task keep their         *)
(* promises whatever their number and order: proposals fit the evidence    *)
(* they were made from, nothing on record is confirmed again, an accepted  *)
(* result is the call's own, and a cleanup of a run's workspace tells      *)
(* Hermes of a completion only once the worktree is gone.                  *)
(***************************************************************************)
EXTENDS ApprovalPipeline, FiniteSetTheorems, TLAPS

-----------------------------------------------------------------------------
(* Evidence along the way *)

LEMMA EvidenceIsKnown ==
  ASSUME NEW n \in 0..8
  PROVE  EvidenceAt(n) \in SUBSET EvidenceFacts /\ Coherent(EvidenceAt(n))
<1>1. ASSUME NEW i \in 1..n
      PROVE  WayStep[i] \subseteq EvidenceFacts
  BY <1>1 DEF WayStep, EvidenceFacts, RunFacts, DraftFacts, CleanupFacts
<1>2. ASSUME NEW x  PROVE x \in EvidenceAt(n) <=> \E i \in 1..n : x \in WayStep[i]
  BY DEF EvidenceAt
<1>3. EvidenceAt(n) \subseteq EvidenceFacts
  BY <1>1, <1>2
<1>4. ASSUME NEW i \in 1..n
      PROVE  /\ "executor_ok" \in WayStep[i] => "executor_ran" \in WayStep[i]
             /\ "validators_ok" \in WayStep[i] => "validators_ran" \in WayStep[i]
             /\ "verified" \in WayStep[i] => "draft_pr" \in WayStep[i]
             /\ "merged" \in WayStep[i] => i = 6
  BY <1>4 DEF WayStep, RunFacts
<1>5. n >= 6 => "draft_pr" \in WayStep[5] /\ 5 \in 1..n
  BY DEF WayStep
<1>6. Coherent(EvidenceAt(n))
  BY <1>2, <1>4, <1>5 DEF Coherent
<1> QED  BY <1>3, <1>6

\* The evidence in front of each step towards the pull request.
LEMMA EvidenceBefore ==
  /\ EvidenceAt(2) = {"package"} \cup RunFacts
  /\ EvidenceAt(3) = EvidenceAt(2) \cup {"handoff"}
  /\ EvidenceAt(4) = EvidenceAt(3) \cup {"push"}
  /\ EvidenceAt(5) = EvidenceAt(4) \cup {"draft_pr", "verified"}
<1>1. ASSUME NEW n \in 0..7
      PROVE  EvidenceAt(n + 1) = EvidenceAt(n) \cup WayStep[n + 1]
  <2>1. 1..(n + 1) = 1..n \cup {n + 1}
    OBVIOUS
  <2> QED  BY <2>1 DEF EvidenceAt
<1>2. EvidenceAt(0) = {}
  BY DEF EvidenceAt
<1>3. /\ WayStep[1] = {"package"} /\ WayStep[2] = RunFacts
      /\ WayStep[3] = {"handoff"} /\ WayStep[4] = {"push"}
      /\ WayStep[5] = {"draft_pr", "verified"}
  BY DEF WayStep
<1>4. EvidenceAt(1) = {"package"}
  BY <1>1, <1>2, <1>3
<1>5. EvidenceAt(2) = {"package"} \cup RunFacts
  BY <1>1, <1>3, <1>4
<1>6. EvidenceAt(3) = EvidenceAt(2) \cup {"handoff"}
  BY <1>1, <1>3
<1>7. EvidenceAt(4) = EvidenceAt(3) \cup {"push"}
  BY <1>1, <1>3
<1>8. EvidenceAt(5) = EvidenceAt(4) \cup {"draft_pr", "verified"}
  BY <1>1, <1>3
<1> QED  BY <1>5, <1>6, <1>7, <1>8

-----------------------------------------------------------------------------
(* Recommendations *)

LEMMA LeastIsMin ==
  ASSUME NEW S \in SUBSET Int, NEW m \in S, \A k \in S : m <= k
  PROVE  Min(S) = m
<1>1. \E x \in S : \A y \in S : x <= y
  OBVIOUS
<1>2. \A x \in S : (\A y \in S : x <= y) => x = m
  OBVIOUS
<1> QED  BY <1>1, <1>2 DEF Min

\* _waiting_approval_decision: the first step that lacks something decides.
LEMMA WaitingDecision ==
  ASSUME NEW e
  PROVE  WaitingApprovalDecision(e) =
           IF ~ {"executor_ok", "validators_ok"} \subseteq e
             THEN "inspect_evidence"
           ELSE IF "handoff" \notin e THEN "pr_handoff_package"
           ELSE IF "push" \notin e THEN "branch_push_review"
           ELSE IF ~ {"draft_pr", "verified"} \subseteq e THEN "draft_pr_review"
           ELSE IF "merged" \notin e THEN "human_pr_review"
           ELSE IF AnyCleanup(e) THEN "cleanup_continue"
                                 ELSE "post_merge_cleanup_review"
<1> DEFINE missing == {i \in DOMAIN WaitingSteps : ~ WaitingSteps[i].needs \subseteq e}
<1>1. /\ DOMAIN WaitingSteps = 1..4
      /\ WaitingSteps[1].needs = {"executor_ok", "validators_ok"}
      /\ WaitingSteps[2].needs = {"handoff"}
      /\ WaitingSteps[3].needs = {"push"}
      /\ WaitingSteps[4].needs = {"draft_pr", "verified"}
      /\ WaitingSteps[1].kind = "inspect_evidence"
      /\ WaitingSteps[2].kind = "pr_handoff_package"
      /\ WaitingSteps[3].kind = "branch_push_review"
      /\ WaitingSteps[4].kind = "draft_pr_review"
  BY DEF WaitingSteps
<1>2. /\ missing \subseteq 1..4
      /\ 1 \in missing <=> ~ {"executor_ok", "validators_ok"} \subseteq e
      /\ 2 \in missing <=> "handoff" \notin e
      /\ 3 \in missing <=> "push" \notin e
      /\ 4 \in missing <=> ~ {"draft_pr", "verified"} \subseteq e
  BY <1>1
<1> HIDE DEF missing
<1>3. missing \subseteq {1, 2, 3, 4}
  BY <1>2
<1>4. missing # {} => Min(missing) = IF 1 \in missing THEN 1
                                     ELSE IF 2 \in missing THEN 2
                                     ELSE IF 3 \in missing THEN 3 ELSE 4
  <2>1. ASSUME NEW m \in missing, \A k \in {1, 2, 3, 4} : k < m => k \notin missing
        PROVE  Min(missing) = m
    BY <1>3, <2>1, LeastIsMin
  <2>2. CASE 1 \in missing
    BY <2>1, <2>2
  <2>3. CASE 1 \notin missing /\ 2 \in missing
    BY <2>1, <2>3
  <2>4. CASE 1 \notin missing /\ 2 \notin missing /\ 3 \in missing
    BY <2>1, <2>4
  <2>5. CASE missing = {4}
    BY <2>1, <2>5
  <2> QED  BY <1>3, <2>2, <2>3, <2>4, <2>5
<1>5. missing # {} <=> 1 \in missing \/ 2 \in missing \/ 3 \in missing \/ 4 \in missing
  BY <1>3
<1>6. WaitingApprovalDecision(e) =
        IF missing # {} THEN WaitingSteps[Min(missing)].kind
        ELSE IF "merged" \notin e THEN "human_pr_review"
        ELSE IF AnyCleanup(e) THEN "cleanup_continue"
                              ELSE "post_merge_cleanup_review"
  BY DEF WaitingApprovalDecision, missing
<1> QED  BY <1>1, <1>2, <1>4, <1>5, <1>6

\* What a proposal that may be executed says of the context it was made from.
LEMMA ExecutableFits ==
  ASSUME NEW c \in Contexts, Coherent(c.facts), Executable(c)
  PROVE  /\ Recommend(c) \in DOMAIN Publishing =>
              LET n == Publishing[Recommend(c)] IN
              /\ EvidenceAt(n - 1) \ {"package"} \subseteq c.facts
              /\ ~ WayStep[n] \subseteq c.facts
              /\ \/ c.facts \subseteq EvidenceAt(n)
                 \/ Recommend(c) = "draft_pr_review" /\ "merged" \in c.facts
              /\ c.row # "none" => c.path_exists \/ AnyCleanup(c.facts)
         /\ Recommend(c) = "queued_task_handoff" => c.facts = {"package"}
         /\ Recommend(c) = "post_merge_cleanup_review" =>
              "merged" \in c.facts /\ ~ AnyCleanup(c.facts)
<1> DEFINE e == c.facts
<1>1. /\ e \subseteq EvidenceFacts /\ c.status \in Statuses
      /\ c.row \in WorktreeRows /\ c.path_exists \in BOOLEAN
  BY DEF Contexts
<1>2. Recommend(c) # "inspect_evidence"
  BY DEF Executable, EXECUTABLE_COMMAND_KINDS
<1>3. ~ Inconsistent(c) /\ Recommend(c) = Decision(c)
      /\ ~ WorktreeMissing(c, Decision(c))
  BY <1>2 DEF Recommend, Decision
<1>4. Recommend(c) = CASE c.status = "queued" -> QueuedDecision(e)
                       [] c.status = "waiting_approval" -> WaitingApprovalDecision(e)
                       [] c.status = "blocked" -> "inspect_blocker"
                       [] c.status = "completed" -> CompletedDecision(e)
                       [] OTHER -> "unknown"
  BY <1>3 DEF Decision
<1>5. CASE c.status = "queued"
  <2>1. Recommend(c) = QueuedDecision(e) /\ e \subseteq {"package"}
    BY <1>3, <1>4, <1>5 DEF Inconsistent
  <2>2. Recommend(c) \in {"queued_task_handoff", "create_task_execution_package"}
        /\ (Recommend(c) = "queued_task_handoff" => "package" \in e)
    BY <2>1 DEF QueuedDecision
  <2>3. Recommend(c) \notin DOMAIN Publishing
    BY <2>2 DEF Publishing
  <2> QED  BY <2>1, <2>2, <2>3
<1>6. CASE c.status \in {"blocked", "completed", "running"}
  <2>1. Recommend(c) \in {"inspect_blocker", "no_action", "cleanup_continue", "unknown"}
    BY <1>4, <1>6 DEF CompletedDecision
  <2>2. Recommend(c) \notin DOMAIN Publishing
    BY <2>1 DEF Publishing
  <2> QED  BY <2>1, <2>2
<1>7. CASE c.status = "waiting_approval"
  <2>1. Recommend(c) = WaitingApprovalDecision(e)
    BY <1>4, <1>7
  <2>2. /\ "push" \in e => "handoff" \in e
        /\ "draft_pr" \in e => "push" \in e
        /\ "merged" \in e => "draft_pr" \in e
        /\ AnyCleanup(e) => "merged" \in e
    BY <1>3, <1>7 DEF Inconsistent
  <2>3. /\ Publishing["pr_handoff_package"] = 3
        /\ Publishing["branch_push_review"] = 4
        /\ Publishing["draft_pr_review"] = 5
        /\ DOMAIN Publishing = {"pr_handoff_package", "branch_push_review",
                                "draft_pr_review"}
    BY DEF Publishing
  <2>4. ASSUME Recommend(c) \in DOMAIN Publishing
        PROVE  /\ RunFacts \subseteq e
               /\ c.row # "none" => c.path_exists \/ AnyCleanup(e)
    <3>1. {"executor_ok", "validators_ok"} \subseteq e
      BY <2>1, <2>3, <2>4, WaitingDecision
    <3>2. RunFacts \subseteq e
      BY <3>1 DEF RunFacts, Coherent
    <3>3. Decision(c) \in WORKTREE_DEPENDENT_COMMAND_KINDS
      BY <1>3, <2>3, <2>4 DEF WORKTREE_DEPENDENT_COMMAND_KINDS
    <3> QED  BY <1>3, <1>7, <3>2, <3>3 DEF WorktreeMissing
  <2>5. /\ EvidenceAt(2) = {"package"} \cup RunFacts
        /\ EvidenceAt(3) = {"package", "handoff"} \cup RunFacts
        /\ EvidenceAt(4) = {"package", "handoff", "push"} \cup RunFacts
        /\ EvidenceAt(5) = {"package", "handoff", "push", "draft_pr", "verified"}
                             \cup RunFacts
        /\ WayStep[3] = {"handoff"} /\ WayStep[4] = {"push"}
        /\ WayStep[5] = {"draft_pr", "verified"}
    BY EvidenceBefore DEF WayStep
  <2>6. CASE Recommend(c) = "pr_handoff_package"
    <3>1. "handoff" \notin e
      BY <2>1, <2>6, WaitingDecision
    <3>2. e \subseteq EvidenceAt(3)
      BY <1>1, <2>2, <2>5, <3>1 DEF Coherent, EvidenceFacts, AnyCleanup,
         DraftFacts, CleanupFacts
    <3> QED  BY <2>3, <2>4, <2>5, <2>6, <3>1, <3>2
  <2>7. CASE Recommend(c) = "branch_push_review"
    <3>1. "handoff" \in e /\ "push" \notin e
      BY <2>1, <2>7, WaitingDecision
    <3>2. e \subseteq EvidenceAt(4)
      BY <1>1, <2>2, <2>5, <3>1 DEF Coherent, EvidenceFacts, AnyCleanup,
         DraftFacts, CleanupFacts
    <3> QED  BY <2>3, <2>4, <2>5, <2>7, <3>1, <3>2
  <2>8. CASE Recommend(c) = "draft_pr_review"
    <3>1. /\ "handoff" \in e /\ "push" \in e
          /\ ~ {"draft_pr", "verified"} \subseteq e
      BY <2>1, <2>8, WaitingDecision
    <3>2. e \subseteq EvidenceAt(5) \/ "merged" \in e
      BY <1>1, <2>2, <2>5, <3>1 DEF Coherent, EvidenceFacts, AnyCleanup,
         DraftFacts, CleanupFacts
    <3> QED  BY <2>3, <2>4, <2>5, <2>8, <3>1, <3>2
  <2>9. CASE Recommend(c) \notin DOMAIN Publishing
    <3>1. Recommend(c) # "queued_task_handoff"
      BY <2>1, WaitingDecision
    <3>2. Recommend(c) = "post_merge_cleanup_review" =>
            "merged" \in e /\ ~ AnyCleanup(e)
      BY <2>1, WaitingDecision
    <3> QED  BY <2>9, <3>1, <3>2
  <2> QED  BY <2>3, <2>6, <2>7, <2>8, <2>9
<1> QED  BY <1>1, <1>5, <1>6, <1>7 DEF Statuses

\* What discovery sends to a proposal, a proposal selects.
LEMMA DiscoveredIsSelected ==
  ASSUME NEW c, DiscoveryAsksForProposal(c)
  PROVE  Selected(c, c.status = "completed")
BY DEF DiscoveryAsksForProposal, CandidateReady, Selected

\* A recommendation is one of the known kinds.
LEMMA RecommendKnown ==
  ASSUME NEW c \in Contexts
  PROVE  Recommend(c) \in RECOMMENDED_COMMAND_KINDS /\ Executable(c) \in BOOLEAN
<1>1. c.status \in Statuses
  BY DEF Contexts
<1>2. WaitingApprovalDecision(c.facts) \in RECOMMENDED_COMMAND_KINDS
  BY WaitingDecision DEF RECOMMENDED_COMMAND_KINDS, EXECUTABLE_COMMAND_KINDS
<1>3. Decision(c) \in RECOMMENDED_COMMAND_KINDS
  BY <1>1, <1>2 DEF Decision, Statuses, QueuedDecision, CompletedDecision,
     RECOMMENDED_COMMAND_KINDS, EXECUTABLE_COMMAND_KINDS
<1>4. "inspect_evidence" \in RECOMMENDED_COMMAND_KINDS
  BY DEF RECOMMENDED_COMMAND_KINDS
<1> QED  BY <1>3, <1>4 DEF Recommend, Executable

-----------------------------------------------------------------------------
(* Types *)

LEMMA CallFacts ==
  /\ MaxCalls \in Nat /\ MaxRecords \in Nat /\ Calls = 1..MaxCalls
  /\ Stages \subseteq 0..8
BY PipelineAssumption DEF Calls

LEMMA PlanTypes ==
  ASSUME NEW accepted \in BOOLEAN, NEW seen
  PROVE  PlanCleanup(accepted, seen) \in Seq(CleanupActions)
<1>1. ASSUME NEW b, NEW a \in CleanupActions  PROVE When(b, a) \in Seq(CleanupActions)
  BY DEF When
<1>2. /\ <<"decision_md", "manifest">> \in Seq(CleanupActions)
      /\ <<"comment">> \in Seq(CleanupActions)
      /\ {"worktree", "local_branch", "remote_branch", "complete"}
           \subseteq CleanupActions
  BY DEF CleanupActions
<1>3. /\ When(accepted /\ seen.worktree, "worktree") \in Seq(CleanupActions)
      /\ When(seen.local, "local_branch") \in Seq(CleanupActions)
      /\ When(seen.remote, "remote_branch") \in Seq(CleanupActions)
      /\ When(accepted, "complete") \in Seq(CleanupActions)
  BY <1>1, <1>2
<1>4. \A s, t \in Seq(CleanupActions) : s \o t \in Seq(CleanupActions)
  OBVIOUS
<1> QED  BY <1>2, <1>3, <1>4 DEF PlanCleanup

LEMMA ContextTypes ==
  ASSUME TypeOK
  PROVE  Context \in Contexts
BY DEF TypeOK, TaskRows, Workspaces, Context, Contexts

LEMMA ItemTypes ==
  ASSUME TypeOK, NEW all \in BOOLEAN
  PROVE  HashedItem(all) \in Items
<1>1. RelatedArtifacts \in SUBSET Calls
  BY DEF RelatedArtifacts, ProposalRows, ConfirmationRows
<1> QED  BY <1>1, ContextTypes, RecommendKnown DEF HashedItem, Items

LEMMA InitTypeOK == Init => TypeOK
<1> SUFFICES ASSUME Init  PROVE TypeOK
  OBVIOUS
<1> USE CallFacts
<1>1. PICK n \in Stages, legacy \in BOOLEAN, completed \in BOOLEAN :
       /\ task = [status |-> IF completed THEN "completed"
                             ELSE IF n <= 1 THEN "queued" ELSE "waiting_approval",
                  facts |-> EvidenceAt(n),
                  row |-> IF n <= 1 THEN "none"
                          ELSE IF n <= 6 THEN "active" ELSE "cleaned",
                  legacy |-> legacy]
       /\ git = [of |-> IF n <= 1 THEN 0 ELSE 1, worktree |-> n \in 2..6,
                 local |-> n \in 2..6, remote |-> n \in 4..7]
       /\ attempts = IF n <= 1 THEN <<>>
                     ELSE << [claimed |-> 0, born |-> 0,
                              status |-> "waiting_approval"] >>
  BY DEF Init
<1>2. EvidenceAt(n) \in SUBSET EvidenceFacts
  BY EvidenceIsKnown
<1>3. task \in TaskRows
  BY <1>1, <1>2 DEF TaskRows, Statuses, WorktreeRows
<1>4. git \in Workspaces
  BY <1>1 DEF Workspaces
<1>5. attempts \in Seq(AttemptRows)
  <2>1. [claimed |-> 0, born |-> 0, status |-> "waiting_approval"] \in AttemptRows
    BY DEF AttemptRows
  <2> QED  BY <1>1, <2>1
<1>6. /\ proposal \in [Calls -> ProposalStates]
      /\ confirmation \in [Calls -> ConfirmationStates]
  BY DEF Init, NoProposal, NoConfirmation, ProposalStates, ConfirmationStates
<1>7. engine \in [Calls -> EngineStates]
  BY DEF Init, NoRun, EngineStates, EnginePCs
<1>8. cleanup \in [Calls -> CleanupStates]
  <2>1. <<>> \in Seq(CleanupActions)
    OBVIOUS
  <2> QED  BY <2>1 DEF Init, NoCleanup, CleanupStates
<1>9. verdict \in Verdicts /\ calls \in 0..MaxCalls /\ records \in 0..MaxRecords
  BY DEF Init, Verdicts
<1> QED  BY <1>3, <1>4, <1>5, <1>6, <1>7, <1>8, <1>9 DEF TypeOK

\* A call that ends without a result.
LEMMA RefuseTypes ==
  ASSUME TypeOK, NEW i \in Calls, Refuse(i)
  PROVE  /\ engine' \in [Calls -> EngineStates]
         /\ engine'[i].pc = "blocked"
         /\ engine'[i].attempt = engine[i].attempt
         /\ engine'[i].routed = engine[i].routed
         /\ \A j \in Calls \ {i} : engine'[j] = engine[j]
<1>1. engine \in [Calls -> EngineStates] /\ "blocked" \in EnginePCs
  BY DEF TypeOK, EnginePCs
<1>2. engine' = [engine EXCEPT ![i] = Blocked(engine[i])]
  BY DEF Refuse
<1>3. /\ Blocked(engine[i]) \in EngineStates
      /\ Blocked(engine[i]).pc = "blocked"
      /\ Blocked(engine[i]).attempt = engine[i].attempt
      /\ Blocked(engine[i]).routed = engine[i].routed
  BY <1>1 DEF Blocked, NoRun, EngineStates
<1> QED  BY <1>1, <1>2, <1>3

\* A call that goes to another place and keeps the rest of its state.
LEMMA EngineGoes ==
  ASSUME TypeOK, NEW i \in Calls, NEW l \in EnginePCs,
         engine' = [engine EXCEPT ![i].pc = l]
  PROVE  /\ engine' \in [Calls -> EngineStates]
         /\ engine'[i].pc = l
         /\ engine'[i].attempt = engine[i].attempt
         /\ engine'[i].routed = engine[i].routed
         /\ engine'[i].before = engine[i].before
         /\ \A j \in Calls \ {i} : engine'[j] = engine[j]
BY DEF TypeOK, EngineStates

LEMMA EvidenceTypes ==
  ASSUME TypeOK, NEW r \in OutsideRecords, RecordEvidence(r)
  PROVE  /\ TypeOK'
         /\ Coherent(task.facts) => Coherent(task'.facts)
<1>1. /\ r.adds \in SUBSET EvidenceFacts
      /\ Coherent(task.facts) => Coherent((task.facts \ r.drops) \cup r.adds)
  <2>1. CASE \E f \in {"package", "handoff", "push"} \cup CleanupFacts :
               r = [drops |-> {}, adds |-> {f}]
    BY <2>1 DEF EvidenceFacts, CleanupFacts, Coherent
  <2>2. CASE r = [drops |-> {"push"}, adds |-> {}]
    BY <2>2 DEF Coherent
  <2>3. ASSUME NEW t \in SUBSET {"verified", "merged"},
               r = [drops |-> DraftFacts, adds |-> {"draft_pr"} \cup t]
        PROVE  /\ r.adds \in SUBSET EvidenceFacts
               /\ Coherent(task.facts) => Coherent((task.facts \ r.drops) \cup r.adds)
    BY <2>3 DEF EvidenceFacts, DraftFacts, Coherent
  <2> QED  BY <2>1, <2>2, <2>3 DEF OutsideRecords
<1>2. PICK row \in {task.row, "cleaned"} :
        task' = [task EXCEPT !.facts = (@ \ r.drops) \cup r.adds, !.row = row]
  BY DEF RecordEvidence
<1>3. task \in TaskRows
  BY DEF TypeOK
<1>4. task' \in TaskRows /\ task'.facts = (task.facts \ r.drops) \cup r.adds
  BY <1>1, <1>2, <1>3 DEF TaskRows, WorktreeRows
<1>5. git' \in Workspaces
  <2>1. git \in Workspaces
    BY DEF TypeOK
  <2>2. \/ git' = [git EXCEPT !.worktree = FALSE, !.local = FALSE]
        \/ git' = [git EXCEPT !.remote = @ \/ "push" \in r.adds]
    BY DEF RecordEvidence
  <2> QED  BY <2>1, <2>2 DEF Workspaces
<1>6. records' \in 0..MaxRecords
  BY CallFacts DEF RecordEvidence, TypeOK
<1> QED  BY <1>1, <1>4, <1>5, <1>6 DEF RecordEvidence, TypeOK

LEMMA ProposalTypes ==
  ASSUME TypeOK, NEW i \in Calls,
         \/ ReadForProposal(i) \/ WriteProposal(i)
         \/ CheckConfirmation(i) \/ WriteConfirmation(i)
  PROVE  TypeOK'
<1>t. /\ proposal \in [Calls -> ProposalStates]
      /\ confirmation \in [Calls -> ConfirmationStates]
      /\ MaxCalls \in Nat
  BY CallFacts DEF TypeOK
<1>1. CASE ReadForProposal(i)
  <2>1. PICK all \in BOOLEAN :
          proposal' = [proposal EXCEPT ![i] =
            [pc |-> "read", item |-> HashedItem(all)]]
    BY <1>1 DEF ReadForProposal
  <2>3. proposal' \in [Calls -> ProposalStates]
    BY <1>t, <2>1, ItemTypes DEF ProposalStates
  <2>4. calls' \in 0..MaxCalls
    BY <1>1, CallFacts DEF ReadForProposal, Begin
  <2> QED  BY <1>1, <2>3, <2>4 DEF ReadForProposal, TypeOK
<1>2. CASE WriteProposal(i)
  <2>1. NextWrite(proposal[i].pc) \in {"filed", "rowed", "done"}
    BY <1>2 DEF WriteProposal, NextWrite
  <2>2. proposal' = [proposal EXCEPT ![i].pc = NextWrite(proposal[i].pc)]
    BY <1>2, <1>t DEF WriteProposal
  <2>3. proposal' \in [Calls -> ProposalStates]
    BY <1>t, <2>1, <2>2 DEF ProposalStates
  <2> QED  BY <1>2, <2>3 DEF WriteProposal, TypeOK
<1>3. CASE CheckConfirmation(i)
  <2>1. PICK p \in ProposalRows :
          confirmation' = [confirmation EXCEPT ![i] =
            [pc |-> "checked", item |-> proposal[p].item,
             seen |-> ConfirmationRows]]
    BY <1>3 DEF CheckConfirmation
  <2>2. ConfirmationRows \in SUBSET Calls /\ p \in Calls
    BY DEF ConfirmationRows, ProposalRows
  <2>3. proposal[p].item \in {NoItem} \cup Items
    BY <1>t, <2>2 DEF ProposalStates
  <2>4. confirmation' \in [Calls -> ConfirmationStates]
    BY <1>t, <2>1, <2>2, <2>3 DEF ConfirmationStates
  <2>5. calls' \in 0..MaxCalls
    BY <1>3, CallFacts DEF CheckConfirmation, Begin
  <2> QED  BY <1>3, <2>4, <2>5 DEF CheckConfirmation, TypeOK
<1>4. CASE WriteConfirmation(i)
  <2>1. NextWrite(confirmation[i].pc) \in {"filed", "rowed", "done"}
    BY <1>4 DEF WriteConfirmation, NextWrite
  <2>2. confirmation' = [confirmation EXCEPT ![i].pc = NextWrite(confirmation[i].pc)]
    BY <1>4, <1>t DEF WriteConfirmation
  <2>3. confirmation' \in [Calls -> ConfirmationStates]
    BY <1>t, <2>1, <2>2 DEF ConfirmationStates
  <2> QED  BY <1>4, <2>3 DEF WriteConfirmation, TypeOK
<1> QED  BY <1>1, <1>2, <1>3, <1>4

LEMMA ExceptSeq ==
  ASSUME NEW S, NEW s \in Seq(S), NEW k \in DOMAIN s, NEW x \in S
  PROVE  /\ [s EXCEPT ![k] = x] \in Seq(S)
         /\ DOMAIN [s EXCEPT ![k] = x] = DOMAIN s
         /\ Len([s EXCEPT ![k] = x]) = Len(s)
OBVIOUS

\* A reservation is the greatest of one.
LEMMA ReservedIsMax ==
  ASSUME TypeOK, OneReservation, Reserved # {}
  PROVE  Max(Reserved) \in Reserved /\ Reserved = {Max(Reserved)}
<1>1. PICK a : a \in Reserved
  OBVIOUS
<1>2. a \in Int /\ \A b \in Reserved : b = a
  BY <1>1 DEF Reserved, AttemptIds, TypeOK, OneReservation
<1>3. \A x \in Reserved : (\A y \in Reserved : x >= y) <=> x = a
  BY <1>2
<1>4. Max(Reserved) = a
  BY <1>1, <1>3 DEF Max
<1> QED  BY <1>1, <1>2, <1>4

\* The claim: the reserved Attempt or a new one, held by this call.
LEMMA ClaimMoves ==
  ASSUME TypeOK, OneReservation, CallsInOrder, NEW i \in Calls,
         ClaimAndPrepare(i)
  PROVE  \E a \in Nat \ {0} :
           /\ engine' = [engine EXCEPT ![i] = [engine[i] EXCEPT
                !.pc = IF engine[i].pc = "direct" THEN "running_direct"
                                                  ELSE "running",
                !.attempt = a]]
           /\ attempts' \in Seq(AttemptRows)
           /\ DOMAIN attempts' = DOMAIN attempts \cup {a}
           /\ a \in DOMAIN attempts => a \in Reserved
                                       /\ attempts'[a].born = attempts[a].born
           /\ a \notin DOMAIN attempts => attempts'[a].born = calls
           /\ attempts'[a].claimed = i /\ attempts'[a].status = "running"
           /\ \A b \in DOMAIN attempts \ {a} : attempts'[b] = attempts[b]
<1>t. attempts \in Seq(AttemptRows) /\ calls \in 0..MaxCalls /\ i \in 0..MaxCalls
      /\ DOMAIN attempts = 1..Len(attempts) /\ Len(attempts) \in Nat
      /\ engine \in [Calls -> EngineStates]
  BY CallFacts DEF TypeOK
<1>1. CASE Reserved # {}
  <2> DEFINE m == Max(Reserved)
  <2>1. m \in Reserved /\ m \in DOMAIN attempts
    BY <1>1, ReservedIsMax DEF Reserved, AttemptIds
  <2> HIDE DEF m
  <2>2. /\ attempts' = [attempts EXCEPT ![m] =
               [attempts[m] EXCEPT !.status = "running", !.claimed = i]]
        /\ engine' = [engine EXCEPT ![i] = [engine[i] EXCEPT
             !.pc = IF engine[i].pc = "direct" THEN "running_direct" ELSE "running",
             !.attempt = m]]
    <3>1. NextAttempt = m
      BY <1>1 DEF m, NextAttempt
    <3>2. attempts' = [attempts EXCEPT ![m] =
               [attempts[m] EXCEPT !.status = "running", !.claimed = i]]
      BY <1>1, <1>t, <2>1 DEF ClaimAndPrepare, m
    <3> QED  BY <3>1, <3>2 DEF ClaimAndPrepare
  <2>3. attempts[m] \in AttemptRows
    BY <1>t, <2>1
  <2>4. [attempts[m] EXCEPT !.status = "running", !.claimed = i] \in AttemptRows
    BY <1>t, <2>3 DEF AttemptRows
  <2>5. attempts' \in Seq(AttemptRows) /\ DOMAIN attempts' = DOMAIN attempts
    <3> DEFINE row == [attempts[m] EXCEPT !.status = "running", !.claimed = i]
    <3>1. attempts' = [attempts EXCEPT ![m] = row] /\ row \in AttemptRows
      BY <2>2, <2>4
    <3> HIDE DEF row
    <3> QED  BY <1>t, <2>1, <3>1, ExceptSeq
  <2>6. /\ attempts'[m].claimed = i /\ attempts'[m].status = "running"
        /\ attempts'[m].born = attempts[m].born
    BY <1>t, <2>1, <2>2, <2>3 DEF AttemptRows
  <2>7. \A b \in DOMAIN attempts \ {m} : attempts'[b] = attempts[b]
    BY <1>t, <2>1, <2>2
  <2>8. m \in Nat \ {0} /\ DOMAIN attempts' = DOMAIN attempts \cup {m}
    BY <1>t, <2>1, <2>5
  <2> WITNESS m \in Nat \ {0}
  <2> QED  BY <2>1, <2>2, <2>5, <2>6, <2>7, <2>8
<1>2. CASE Reserved = {}
  <2> DEFINE m == Len(attempts) + 1
             row == [claimed |-> i, born |-> calls, status |-> "running"]
  <2>1. attempts' = Append(attempts, row) /\ row \in AttemptRows
    BY <1>2, <1>t DEF ClaimAndPrepare, AttemptRows
  <2> HIDE DEF row
  <2>2. engine' = [engine EXCEPT ![i] = [engine[i] EXCEPT
             !.pc = IF engine[i].pc = "direct" THEN "running_direct" ELSE "running",
             !.attempt = m]]
    <3>1. NextAttempt = m
      BY <1>2 DEF NextAttempt
    <3> HIDE DEF m
    <3> QED  BY <3>1 DEF ClaimAndPrepare
  <2>3. /\ attempts' \in Seq(AttemptRows)
        /\ DOMAIN attempts' = DOMAIN attempts \cup {m}
        /\ m \notin DOMAIN attempts
        /\ attempts'[m] = row
        /\ \A b \in DOMAIN attempts \ {m} : attempts'[b] = attempts[b]
    BY <1>t, <2>1
  <2>4. row.claimed = i /\ row.born = calls /\ row.status = "running"
    BY DEF row
  <2>5. m \in Nat \ {0}
    BY <1>t
  <2> HIDE DEF m
  <2> WITNESS m \in Nat \ {0}
  <2> QED  BY <2>2, <2>3, <2>4, <2>5
<1> QED  BY <1>1, <1>2

\* What the claim leaves of the engine's records.
LEMMA ClaimEngine ==
  ASSUME TypeOK, OneReservation, CallsInOrder, NEW i \in Calls,
         ClaimAndPrepare(i)
  PROVE  \E a \in Nat \ {0} :
           /\ engine' \in [Calls -> EngineStates]
           /\ engine'[i].pc = IF engine[i].pc = "direct" THEN "running_direct"
                                                         ELSE "running"
           /\ engine'[i].attempt = a
           /\ engine'[i].routed = engine[i].routed
           /\ engine'[i].before = engine[i].before
           /\ \A j \in Calls \ {i} : engine'[j] = engine[j]
           /\ attempts' \in Seq(AttemptRows)
           /\ DOMAIN attempts' = DOMAIN attempts \cup {a}
           /\ a \in DOMAIN attempts => a \in Reserved
                                       /\ attempts'[a].born = attempts[a].born
           /\ a \notin DOMAIN attempts => attempts'[a].born = calls
           /\ attempts'[a].claimed = i /\ attempts'[a].status = "running"
           /\ \A b \in DOMAIN attempts \ {a} : attempts'[b] = attempts[b]
<1>t. engine \in [Calls -> EngineStates]
  BY DEF TypeOK
<1> DEFINE pc == IF engine[i].pc = "direct" THEN "running_direct" ELSE "running"
<1>1. PICK a \in Nat \ {0} :
           /\ engine' = [engine EXCEPT ![i] = [engine[i] EXCEPT
                !.pc = pc, !.attempt = a]]
           /\ attempts' \in Seq(AttemptRows)
           /\ DOMAIN attempts' = DOMAIN attempts \cup {a}
           /\ a \in DOMAIN attempts => a \in Reserved
                                       /\ attempts'[a].born = attempts[a].born
           /\ a \notin DOMAIN attempts => attempts'[a].born = calls
           /\ attempts'[a].claimed = i /\ attempts'[a].status = "running"
           /\ \A b \in DOMAIN attempts \ {a} : attempts'[b] = attempts[b]
  BY ClaimMoves
<1>2. pc \in EnginePCs
  BY DEF EnginePCs
<1> HIDE DEF pc
<1>3. /\ engine' \in [Calls -> EngineStates]
      /\ engine'[i].pc = pc /\ engine'[i].attempt = a
      /\ engine'[i].routed = engine[i].routed
      /\ engine'[i].before = engine[i].before
      /\ \A j \in Calls \ {i} : engine'[j] = engine[j]
  <2>1. engine[i] \in EngineStates
    BY <1>t
  <2> DEFINE new == [engine[i] EXCEPT !.pc = pc, !.attempt = a]
  <2>2. /\ new \in EngineStates /\ new.pc = pc /\ new.attempt = a
        /\ new.routed = engine[i].routed /\ new.before = engine[i].before
    BY <1>2, <2>1 DEF EngineStates
  <2>3. engine' = [engine EXCEPT ![i] = new]
    BY <1>1
  <2> HIDE DEF new
  <2> QED  BY <1>t, <2>2, <2>3
<1> USE DEF pc
<1> QED  BY <1>1, <1>3

\* The workspace the claim makes is that of the claimed Attempt.
LEMMA ClaimGit ==
  ASSUME TypeOK, OneReservation, NEW i \in Calls, ClaimAndPrepare(i)
  PROVE  /\ git' = [of |-> NextAttempt, worktree |-> TRUE, local |-> TRUE,
                    remote |-> FALSE]
         /\ NextAttempt \in Nat \ {0}
         /\ NextAttempt \in DOMAIN attempts => NextAttempt \in Reserved
         /\ NextAttempt = engine'[i].attempt
<1>1. attempts \in Seq(AttemptRows) /\ engine \in [Calls -> EngineStates]
  BY DEF TypeOK
<1>2. NextAttempt \in Nat \ {0} /\ (NextAttempt \in DOMAIN attempts => NextAttempt \in Reserved)
  <2>1. CASE Reserved # {}
    <3>1. NextAttempt \in Reserved
      BY <2>1, ReservedIsMax DEF NextAttempt
    <3> QED  BY <1>1, <3>1 DEF Reserved, AttemptIds
  <2>2. CASE Reserved = {}
    BY <1>1, <2>2 DEF NextAttempt
  <2> QED  BY <2>1, <2>2
<1>3. engine'[i].attempt = NextAttempt
  <2>1. engine[i] \in EngineStates
    BY <1>1
  <2> QED  BY <1>1, <2>1 DEF ClaimAndPrepare, EngineStates
<1> QED  BY <1>2, <1>3 DEF ClaimAndPrepare

\* The reaper or the end of a run closes the Attempt of its call and no other.
LEMMA CloseMoves ==
  ASSUME TypeOK, ClaimsAreOwn, NEW i \in Calls, Running(i),
         NEW end \in {"waiting_approval", "blocked"},
         attempts' = [attempts EXCEPT ![engine[i].attempt].status = end]
  PROVE  /\ engine[i].attempt \in DOMAIN attempts
         /\ attempts' \in Seq(AttemptRows)
         /\ DOMAIN attempts' = DOMAIN attempts
         /\ attempts'[engine[i].attempt].status = end
         /\ \A b \in DOMAIN attempts :
              /\ attempts'[b].claimed = attempts[b].claimed
              /\ attempts'[b].born = attempts[b].born
              /\ b # engine[i].attempt => attempts'[b] = attempts[b]
<1>t. /\ attempts \in Seq(AttemptRows)
      /\ engine[i].pc \in {"running", "running_direct"}
  BY DEF TypeOK, Running
<1>1. engine[i].attempt \in DOMAIN attempts
  BY <1>t DEF ClaimsAreOwn, AttemptIds
<1>3. attempts[engine[i].attempt] \in AttemptRows
  BY <1>t, <1>1
<1>4. [attempts[engine[i].attempt] EXCEPT !.status = end] \in AttemptRows
  BY <1>3 DEF AttemptRows
<1>5. attempts' \in Seq(AttemptRows) /\ DOMAIN attempts' = DOMAIN attempts
  <2> DEFINE row == [attempts[engine[i].attempt] EXCEPT !.status = end]
  <2>1. attempts' = [attempts EXCEPT ![engine[i].attempt] = row] /\ row \in AttemptRows
    BY <1>4
  <2> HIDE DEF row
  <2> QED  BY <1>t, <1>1, <2>1, ExceptSeq
<1>6. /\ attempts'[engine[i].attempt].status = end
      /\ \A b \in DOMAIN attempts :
              /\ attempts'[b].claimed = attempts[b].claimed
              /\ attempts'[b].born = attempts[b].born
              /\ b # engine[i].attempt => attempts'[b] = attempts[b]
  BY <1>t, <1>1, <1>3 DEF AttemptRows
<1> QED  BY <1>1, <1>5, <1>6

\* How the reaper and a run that ends leave runs and Attempts.
LEMMA FinishMoves ==
  ASSUME TypeOK, ClaimsAreOwn, NEW i \in Calls, Reap(i) \/ FinishRun(i)
  PROVE  /\ engine[i].attempt \in DOMAIN attempts
         /\ engine' \in [Calls -> EngineStates]
         /\ engine'[i].pc \in {"running", "running_direct", "auditing", "ran",
                               "ended", "blocked"}
         /\ engine[i].pc \in {"running", "running_direct"}
         /\ engine'[i].pc \in {"running", "ran"} => engine[i].pc = "running"
         /\ engine'[i].attempt = engine[i].attempt
         /\ engine'[i].routed = engine[i].routed
         /\ engine'[i].pc # "blocked" => engine'[i].before = engine[i].before
         /\ \A j \in Calls \ {i} : engine'[j] = engine[j]
         /\ attempts' \in Seq(AttemptRows)
         /\ DOMAIN attempts' = DOMAIN attempts
         /\ attempts'[engine[i].attempt].status # "created"
         /\ \A b \in DOMAIN attempts :
              /\ attempts'[b].claimed = attempts[b].claimed
              /\ attempts'[b].born = attempts[b].born
              /\ b # engine[i].attempt => attempts'[b] = attempts[b]
<1>t. /\ engine \in [Calls -> EngineStates] /\ attempts \in Seq(AttemptRows)
      /\ Running(i) /\ engine[i].pc \in {"running", "running_direct"}
  BY DEF TypeOK, FinishRun, Reap, Running
<1>1. engine[i].attempt \in DOMAIN attempts \ Reserved
  BY <1>t DEF ClaimsAreOwn, AttemptIds
<1>2. CASE Reap(i)
  <2>1. /\ engine' = engine
        /\ attempts' = [attempts EXCEPT ![engine[i].attempt].status = "blocked"]
    BY <1>2 DEF Reap
  <2> QED  BY <1>t, <2>1, CloseMoves
<1>3. ASSUME FinishRun(i), HoldsLease(i)
      PROVE  \E end \in {"waiting_approval", "blocked"} :
               \E pc \in {"auditing", "ran", "ended"} :
                 /\ attempts' = [attempts EXCEPT ![engine[i].attempt].status = end]
                 /\ engine' = [engine EXCEPT ![i].pc = pc]
                 /\ pc = "ran" => engine[i].pc = "running"
  <2>1. PICK validated \in BOOLEAN :
          /\ attempts' = [attempts EXCEPT ![engine[i].attempt].status =
                            IF validated THEN "waiting_approval" ELSE "blocked"]
          /\ engine' = [engine EXCEPT ![i].pc =
                  IF ~ validated THEN "auditing"
                  ELSE IF engine[i].pc = "running" THEN "ran" ELSE "ended"]
    BY <1>t, <1>3 DEF FinishRun
  <2> QED  BY <2>1
<1>4. CASE FinishRun(i) /\ HoldsLease(i)
  <2>1. PICK end \in {"waiting_approval", "blocked"}, pc \in {"auditing", "ran", "ended"} :
          /\ attempts' = [attempts EXCEPT ![engine[i].attempt].status = end]
          /\ engine' = [engine EXCEPT ![i].pc = pc]
          /\ pc = "ran" => engine[i].pc = "running"
    BY <1>3, <1>4
  <2>2. pc \in EnginePCs
    BY DEF EnginePCs
  <2> QED  BY <1>t, <2>1, <2>2, CloseMoves, EngineGoes
<1>5. CASE FinishRun(i) /\ ~ HoldsLease(i)
  <2>1. Refuse(i) /\ attempts' = attempts
    BY <1>5 DEF FinishRun
  <2> QED  BY <1>t, <1>1, <2>1, RefuseTypes DEF Reserved, AttemptIds
<1> QED  BY <1>2, <1>4, <1>5

\* A call that begins has written nothing.
LEMMA BeginsFresh ==
  ASSUME TypeOK, CallsInOrder, NEW i \in Calls, Begin(i)
  PROVE  /\ proposal[i] = NoProposal /\ confirmation[i] = NoConfirmation
         /\ engine[i] = NoRun /\ cleanup[i] = NoCleanup
         /\ calls' = i /\ i = calls + 1 /\ calls' \in 0..MaxCalls
<1>1. i = calls + 1 /\ calls' = i /\ calls \in 0..MaxCalls /\ i \in 1..MaxCalls
  BY CallFacts DEF Begin, TypeOK
<1>2. i > calls /\ i \in 0..MaxCalls
  BY <1>1, CallFacts
<1> QED  BY <1>1, <1>2 DEF CallsInOrder

\* How a call of an engine begins.
LEMMA BeginEngine ==
  ASSUME TypeOK, CallsInOrder, NEW i \in Calls,
         BeginAuthority(i) \/ BeginDirect(i) \/ RouteOptIn(i)
  PROVE  /\ engine' \in [Calls -> EngineStates]
         /\ engine'[i].attempt = 0 /\ engine[i] = NoRun
         /\ calls' = i /\ i = calls + 1
         /\ \/ /\ engine'[i].pc = "authority" /\ engine'[i].before = DOMAIN attempts
               /\ ~ engine'[i].routed
            \/ engine'[i].pc = "direct" /\ ~ engine'[i].routed
            \/ engine'[i].pc \in {"skipped", "routed"} /\ engine'[i].routed
         /\ \A j \in Calls \ {i} : engine'[j] = engine[j]
<1>t. /\ engine \in [Calls -> EngineStates] /\ attempts \in Seq(AttemptRows)
      /\ DOMAIN attempts \in SUBSET Nat /\ calls \in 0..MaxCalls
  BY DEF TypeOK
<1>1. engine[i] = NoRun /\ calls' = i /\ i = calls + 1
  BY BeginsFresh DEF BeginAuthority, BeginDirect, RouteOptIn
<1>2. CASE BeginAuthority(i)
  <2> DEFINE new == [NoRun EXCEPT !.pc = "authority", !.before = IdsBefore]
  <2>1. engine' = [engine EXCEPT ![i] = new]
    BY <1>2 DEF BeginAuthority
  <2>2. /\ new \in EngineStates /\ new.pc = "authority" /\ new.attempt = 0
        /\ new.before = DOMAIN attempts /\ new.routed = FALSE
    BY <1>t DEF NoRun, EngineStates, EnginePCs, IdsBefore, AttemptIds
  <2> HIDE DEF new
  <2> QED  BY <1>t, <1>1, <2>1, <2>2
<1>3. CASE BeginDirect(i)
  <2>1. engine' = [engine EXCEPT ![i].pc = "direct"] /\ "direct" \in EnginePCs
    BY <1>3 DEF BeginDirect, EnginePCs
  <2>2. engine[i].attempt = 0 /\ engine[i].routed = FALSE
    BY <1>1 DEF NoRun
  <2> QED  BY <1>1, <2>1, <2>2, EngineGoes
<1>4. CASE RouteOptIn(i)
  <2>1. PICK pc \in {"skipped", "routed"} :
          engine' = [engine EXCEPT ![i] = [NoRun EXCEPT !.pc = pc, !.routed = TRUE]]
    BY <1>4 DEF RouteOptIn
  <2> DEFINE new == [NoRun EXCEPT !.pc = pc, !.routed = TRUE]
  <2>2. /\ new \in EngineStates /\ new.pc = pc /\ new.attempt = 0
        /\ new.routed = TRUE
    BY DEF NoRun, EngineStates, EnginePCs
  <2>3. engine' = [engine EXCEPT ![i] = new]
    BY <2>1
  <2> HIDE DEF new
  <2> QED  BY <1>t, <1>1, <2>2, <2>3
<1> QED  BY <1>2, <1>3, <1>4

\* How it goes on inside the adapter, and how its result is judged.
LEMMA EngineSteps ==
  ASSUME TypeOK, NEW i \in Calls,
         \/ BeginAdapter(i) \/ RefuseRun(i) \/ AuditWrite(i)
         \/ AdapterVerifies(i) \/ AuthorityVerifies(i) \/ AssessRoute(i)
  PROVE  /\ engine' \in [Calls -> EngineStates]
         /\ engine'[i].attempt = engine[i].attempt
         /\ engine'[i].routed = engine[i].routed
         /\ engine'[i].pc \in {"adapter", "bound", "accepted"} =>
              engine'[i].before = engine[i].before
         /\ \/ engine'[i].pc = "blocked"
            \/ /\ engine'[i].pc = "adapter" /\ ~ engine[i].routed
               /\ engine[i].pc = "authority" \/ engine[i].pc = "routed"
            \/ engine'[i].pc = "bound" /\ engine[i].pc = "ran"
            \/ /\ engine'[i].pc = "accepted" /\ engine[i].pc = "bound"
               /\ ~ engine[i].routed
               /\ VerifyCanonicalAttempt(engine[i].attempt, engine[i].before)
            \/ /\ engine'[i].pc \in {"fallback", "usable"} /\ engine[i].routed
               /\ engine'[i].pc = "usable" => engine[i].pc = "bound"
         /\ engine[i].pc # "none"
         /\ \A j \in Calls \ {i} : engine'[j] = engine[j]
         /\ UNCHANGED <<attempts, calls>>
<1>t. /\ engine \in [Calls -> EngineStates] /\ engine[i] \in EngineStates
      /\ DOMAIN attempts \in SUBSET Nat
      /\ {"bound", "accepted", "fallback", "usable"} \subseteq EnginePCs
  BY DEF TypeOK, EnginePCs
<1>1. CASE Refuse(i)
  <2>1. engine[i].pc # "none" /\ UNCHANGED <<attempts, calls>>
    BY DEF BeginAdapter, RefuseRun, AuditWrite, AdapterVerifies,
       AuthorityVerifies, AssessRoute
  <2> QED  BY <1>1, <2>1, RefuseTypes
<1>2. ASSUME ~ ContractError(BuildRequest(TRUE)), BeginAdapter(i), ~ Refuse(i)
      PROVE  /\ ~ engine[i].routed
             /\ \E noted \in {DOMAIN attempts, {}} :
                  engine' = [engine EXCEPT ![i] =
                    [engine[i] EXCEPT !.pc = "adapter", !.inner = noted]]
  BY <1>2, <1>t DEF BeginAdapter, ContractError, BuildRequest, IdsBefore,
     AttemptIds
<1>3. CASE BeginAdapter(i) /\ ~ Refuse(i)
  <2>1. ~ ContractError(BuildRequest(TRUE))
    BY DEF ContractError, BuildRequest
  <2>0. PICK noted \in {DOMAIN attempts, {}} :
          engine' = [engine EXCEPT ![i] =
            [engine[i] EXCEPT !.pc = "adapter", !.inner = noted]]
    BY <1>2, <1>3, <2>1
  <2> DEFINE new == [engine[i] EXCEPT !.pc = "adapter", !.inner = noted]
  <2>2. /\ new \in EngineStates /\ new.pc = "adapter"
        /\ new.attempt = engine[i].attempt /\ new.routed = engine[i].routed
        /\ new.before = engine[i].before
    BY <1>t DEF EngineStates, EnginePCs
  <2>3. ~ engine[i].routed /\ engine' = [engine EXCEPT ![i] = new]
    BY <1>2, <1>3, <2>0, <2>1
  <2>4. /\ engine[i].pc \in {"authority", "routed"}
        /\ UNCHANGED <<attempts, calls>>
    BY <1>3 DEF BeginAdapter
  <2> HIDE DEF new
  <2> QED  BY <1>t, <2>2, <2>3, <2>4
<1>4. CASE AdapterVerifies(i) /\ ~ Refuse(i)
  <2>1. /\ engine' = [engine EXCEPT ![i].pc = "bound"] /\ engine[i].pc = "ran"
        /\ UNCHANGED <<attempts, calls>>
    BY <1>4 DEF AdapterVerifies
  <2> QED  BY <1>t, <2>1, EngineGoes
<1>5. CASE AuthorityVerifies(i) /\ ~ Refuse(i)
  <2>1. /\ engine' = [engine EXCEPT ![i].pc = "accepted"] /\ engine[i].pc = "bound"
        /\ ~ engine[i].routed
        /\ VerifyCanonicalAttempt(engine[i].attempt, engine[i].before)
        /\ UNCHANGED <<attempts, calls>>
    BY <1>5 DEF AuthorityVerifies
  <2> QED  BY <1>t, <2>1, EngineGoes
<1>6. CASE AssessRoute(i)
  <2>1. PICK tick \in LegacyTicks :
         engine' = [engine EXCEPT ![i].pc =
           IF FallbackReasons(tick, EngineBlock(engine[i])) # {} THEN "fallback"
                                                                 ELSE "usable"]
    BY <1>6 DEF AssessRoute
  <2>2. /\ engine[i].pc \in {"skipped", "blocked", "bound"}
        /\ engine[i].routed /\ UNCHANGED <<attempts, calls>>
    BY <1>6 DEF AssessRoute
  <2>3. ASSUME engine[i].pc # "bound"
        PROVE  FallbackReasons(tick, EngineBlock(engine[i])) # {}
    <3>1. EngineBlock(engine[i]).ok = FALSE
      BY <2>3 DEF EngineBlock
    <3>2. "engine_not_ok" \in FallbackReasons(tick, EngineBlock(engine[i]))
      BY <3>1 DEF FallbackReasons
    <3> QED  BY <3>2
  <2>4. PICK pc \in {"fallback", "usable"} :
          /\ engine' = [engine EXCEPT ![i].pc = pc]
          /\ pc = "usable" => engine[i].pc = "bound"
    BY <2>1, <2>3
  <2> QED  BY <1>t, <2>2, <2>4, EngineGoes
<1>7. CASE RefuseRun(i) \/ AuditWrite(i)
  BY <1>1, <1>7 DEF RefuseRun, AuditWrite
<1> QED  BY <1>1, <1>3, <1>4, <1>5, <1>6, <1>7

LEMMA ResetMoves ==
  ASSUME TypeOK, CallsInOrder, NEW i \in Calls, Reset(i)
  PROVE  /\ attempts' \in Seq(AttemptRows)
         /\ DOMAIN attempts' = DOMAIN attempts \cup {Len(attempts) + 1}
         /\ Len(attempts) + 1 \notin DOMAIN attempts
         /\ attempts'[Len(attempts) + 1].born = i
         /\ \A b \in DOMAIN attempts : attempts'[b] = attempts[b]
<1> DEFINE row == [claimed |-> 0, born |-> i, status |-> "created"]
<1>t. attempts \in Seq(AttemptRows) /\ i \in 0..MaxCalls
  BY CallFacts DEF TypeOK
<1>1. attempts' = Append(attempts, row) /\ row \in AttemptRows /\ row.born = i
  BY <1>t, CallFacts DEF Reset, AttemptRows
<1> HIDE DEF row
<1> QED  BY <1>t, <1>1

LEMMA EngineTypeOK ==
  ASSUME TypeOK, CallsInOrder, OneReservation, ClaimsAreOwn, NEW i \in Calls,
         \/ BeginAuthority(i) \/ BeginDirect(i) \/ BeginAdapter(i)
         \/ ClaimAndPrepare(i) \/ RefuseRun(i) \/ Reap(i)
         \/ FinishRun(i) \/ AuditWrite(i)
         \/ AdapterVerifies(i) \/ AuthorityVerifies(i) \/ Reset(i)
         \/ RouteOptIn(i) \/ AssessRoute(i)
  PROVE  /\ TypeOK'
         /\ Coherent(task.facts) => Coherent(task'.facts)
<1>t. task \in TaskRows /\ {"queued", "running", "blocked", "waiting_approval"} \subseteq Statuses
      /\ "active" \in WorktreeRows
  BY DEF TypeOK, Statuses, WorktreeRows
<1>1. CASE BeginAuthority(i) \/ BeginDirect(i) \/ RouteOptIn(i)
  <2>1. engine' \in [Calls -> EngineStates] /\ calls' = i /\ i \in 0..MaxCalls
    BY <1>1, BeginEngine, CallFacts
  <2>2. task' = task \/ task' = [task EXCEPT !.legacy = FALSE]
    BY <1>1 DEF BeginAuthority, BeginDirect, RouteOptIn, EnsureLevel2Identity
  <2>3. task' \in TaskRows /\ task'.facts = task.facts
    BY <1>t, <2>2 DEF TaskRows
  <2>4. UNCHANGED <<git, attempts, proposal, confirmation, cleanup, verdict, records>>
    BY <1>1 DEF BeginAuthority, BeginDirect, RouteOptIn
  <2> QED  BY <2>1, <2>3, <2>4 DEF TypeOK
<1>2. CASE \/ BeginAdapter(i) \/ RefuseRun(i) \/ AuditWrite(i)
           \/ AdapterVerifies(i) \/ AuthorityVerifies(i) \/ AssessRoute(i)
  <2>1. engine' \in [Calls -> EngineStates]
    BY <1>2, EngineSteps
  <2>2. \/ task' = task \/ task' = [task EXCEPT !.legacy = FALSE]
        \/ task' = [task EXCEPT !.status = "blocked"]
        \/ task' = [task EXCEPT !.status = task.status]
    BY <1>2 DEF BeginAdapter, RefuseRun, AuditWrite, AdapterVerifies,
       AuthorityVerifies, AssessRoute, EnsureLevel2Identity
  <2>3. task' \in TaskRows /\ task'.facts = task.facts
    BY <1>t, <2>2 DEF TaskRows
  <2>4. UNCHANGED <<git, attempts, proposal, confirmation, cleanup, verdict,
                    calls, records>>
    BY <1>2 DEF BeginAdapter, RefuseRun, AuditWrite, AdapterVerifies,
       AuthorityVerifies, AssessRoute
  <2> QED  BY <2>1, <2>3, <2>4 DEF TypeOK
<1>3. CASE ClaimAndPrepare(i)
  <2>1. engine' \in [Calls -> EngineStates] /\ attempts' \in Seq(AttemptRows)
    BY <1>3, ClaimEngine
  <2>2. task' \in TaskRows /\ task'.facts = task.facts
    BY <1>t, <1>3 DEF ClaimAndPrepare, TaskRows
  <2>3. PICK n \in Nat : git' = [of |-> n, worktree |-> TRUE, local |-> TRUE,
                                 remote |-> FALSE]
    BY <1>3, ClaimGit
  <2>4. git' \in Workspaces
    BY <2>3 DEF Workspaces
  <2> QED  BY <1>3, <2>1, <2>2, <2>4 DEF ClaimAndPrepare, TypeOK
<1>4. CASE FinishRun(i)
  <2>1. engine' \in [Calls -> EngineStates] /\ attempts' \in Seq(AttemptRows)
    BY <1>4, FinishMoves
  <2>2. PICK executed \in BOOLEAN, validated \in BOOLEAN,
             end \in {"waiting_approval", "blocked", task.status} :
          task' = [task EXCEPT !.status = end,
                               !.facts = RunEvidence(executed, validated)]
    <3>1. ASSUME NEW facts, task' = [task EXCEPT !.facts = facts]
          PROVE  task' = [task EXCEPT !.status = task.status, !.facts = facts]
      BY <1>t, <3>1 DEF TaskRows
    <3> QED  BY <1>4, <3>1 DEF FinishRun
  <2>3. /\ RunEvidence(executed, validated) \in SUBSET EvidenceFacts
        /\ Coherent(task.facts) => Coherent(RunEvidence(executed, validated))
    <3>1. task.facts \in SUBSET EvidenceFacts
      BY <1>t DEF TaskRows
    <3>2. RunFacts \in SUBSET EvidenceFacts
      BY DEF EvidenceFacts
    <3>3. RunEvidence(executed, validated) \in SUBSET EvidenceFacts
      BY <3>1, <3>2 DEF RunEvidence, RunFacts
    <3>4. Coherent(task.facts) => Coherent(RunEvidence(executed, validated))
      BY DEF RunEvidence, RunFacts, Coherent
    <3> QED  BY <3>3, <3>4
  <2>4. task' \in TaskRows /\ task'.facts = RunEvidence(executed, validated)
    BY <1>t, <2>2, <2>3 DEF TaskRows
  <2> QED  BY <1>4, <2>1, <2>3, <2>4 DEF FinishRun, TypeOK
<1>6. CASE Reap(i)
  <2>1. engine' \in [Calls -> EngineStates] /\ attempts' \in Seq(AttemptRows)
    BY <1>6, FinishMoves
  <2>2. task' \in TaskRows /\ task'.facts = task.facts
    BY <1>t, <1>6 DEF Reap, TaskRows
  <2> QED  BY <1>6, <2>1, <2>2 DEF Reap, TypeOK
<1>5. CASE Reset(i)
  <2>1. attempts' \in Seq(AttemptRows) /\ calls' \in 0..MaxCalls
    BY <1>5, ResetMoves, BeginsFresh DEF Reset
  <2>2. task' \in TaskRows /\ task'.facts = task.facts
    BY <1>t, <1>5 DEF Reset, TaskRows
  <2> QED  BY <1>5, <2>1, <2>2 DEF Reset, TypeOK
<1> QED  BY <1>1, <1>2, <1>3, <1>4, <1>5, <1>6

\* Where a step of a cleanup leaves its plan.
LEMMA PlanMoves ==
  ASSUME TypeOK, NEW i \in Calls, CleanupStep(i)
  PROVE  /\ cleanup' \in [Calls -> CleanupStates]
         /\ cleanup[i].todo # <<>>
         /\ \/ /\ cleanup'[i].todo = Tail(cleanup[i].todo)
               /\ cleanup'[i].pc = cleanup[i].pc /\ cleanup'[i].of = cleanup[i].of
            \/ /\ cleanup'[i].todo = <<>> /\ cleanup'[i].pc = "over"
               /\ cleanup'[i].of = 0
            \/ /\ cleanup'[i].todo = <<>> /\ cleanup'[i].pc = "told"
               /\ cleanup'[i].of = cleanup[i].of /\ HermesComplete(i)
         /\ \A j \in Calls \ {i} : cleanup'[j] = cleanup[j]
<1>t. /\ cleanup \in [Calls -> CleanupStates] /\ cleanup[i] \in CleanupStates
      /\ cleanup[i].todo \in Seq(CleanupActions) /\ cleanup[i].of \in Nat
  BY DEF TypeOK, CleanupStates
<1> DEFINE told == [NoCleanup EXCEPT !.pc = "told", !.of = cleanup[i].of]
           over == [NoCleanup EXCEPT !.pc = "over"]
<1>1. /\ cleanup[i].todo # <<>>
      /\ \/ Succeeded(i) \/ cleanup' = [cleanup EXCEPT ![i] = over]
         \/ HermesComplete(i) /\ cleanup' = [cleanup EXCEPT ![i] = told]
  BY DEF CleanupStep, WriteDecision, UpdateManifest, RemoveWorktree,
     DeleteLocalBranch, DeleteRemoteBranch, HermesComment, HermesComplete,
     Acting, Fatal, Over
<1>2. Tail(cleanup[i].todo) \in Seq(CleanupActions) /\ <<>> \in Seq(CleanupActions)
  BY <1>t, <1>1
<1>3. CASE Succeeded(i)
  <2>1. cleanup' = [cleanup EXCEPT ![i].todo = Tail(cleanup[i].todo)]
    BY <1>t, <1>3 DEF Succeeded
  <2> QED  BY <1>t, <1>1, <1>2, <2>1 DEF CleanupStates
<1>4. /\ told \in CleanupStates /\ told.todo = <<>> /\ told.pc = "told"
      /\ told.of = cleanup[i].of
      /\ over \in CleanupStates /\ over.todo = <<>> /\ over.pc = "over"
      /\ over.of = 0
  BY <1>t, <1>2 DEF CleanupStates, NoCleanup
<1> HIDE DEF told, over
<1>5. CASE cleanup' = [cleanup EXCEPT ![i] = over]
  BY <1>t, <1>1, <1>4, <1>5
<1>6. CASE HermesComplete(i) /\ cleanup' = [cleanup EXCEPT ![i] = told]
  BY <1>t, <1>1, <1>4, <1>6
<1> QED  BY <1>1, <1>3, <1>5, <1>6

\* A cleanup only takes parts of the workspace away.
LEMMA CleanupGit ==
  ASSUME TypeOK, NEW i \in Calls, CleanupStep(i)
  PROVE  /\ git' \in Workspaces /\ git'.of = git.of
         /\ git'.worktree => git.worktree
         /\ \/ git' = git \/ git' = Without(i, "worktree")
            \/ git' = Without(i, "local") \/ git' = Without(i, "remote")
<1>1. git \in Workspaces
  BY DEF TypeOK
<1>2. \/ git' = git \/ git' = Without(i, "worktree")
      \/ git' = Without(i, "local") \/ git' = Without(i, "remote")
  BY DEF CleanupStep, WriteDecision, UpdateManifest, RemoveWorktree,
     DeleteLocalBranch, DeleteRemoteBranch, HermesComment, HermesComplete
<1>3. ASSUME NEW part \in {"worktree", "local", "remote"}, git' = Without(i, part)
      PROVE  git' = git \/ git' = [git EXCEPT ![part] = FALSE]
  BY <1>3 DEF Without
<1>4. ASSUME NEW part \in {"worktree", "local", "remote"},
             git' = [git EXCEPT ![part] = FALSE]
      PROVE  git' \in Workspaces /\ git'.of = git.of /\ (git'.worktree => git.worktree)
  BY <1>1, <1>4 DEF Workspaces
<1> QED  BY <1>1, <1>2, <1>3, <1>4

LEMMA CleanupTypeOK ==
  ASSUME TypeOK, CallsInOrder, NEW i \in Calls, BeginCleanup(i) \/ CleanupStep(i)
  PROVE  TypeOK'
<1>t. /\ git \in Workspaces
      /\ verdict \in Verdicts /\ cleanup \in [Calls -> CleanupStates]
  BY DEF TypeOK
<1>1. CASE BeginCleanup(i)
  <2>1. PICK accepted \in BOOLEAN, of \in Targets : \E seen \in Sights(of) :
          cleanup' = [cleanup EXCEPT ![i] =
            [pc |-> "acting", of |-> of, todo |-> PlanCleanup(accepted, seen),
             accepted |-> accepted]]
    BY <1>1 DEF BeginCleanup
  <2>2. PICK seen \in Sights(of) :
          cleanup' = [cleanup EXCEPT ![i] =
            [pc |-> "acting", of |-> of, todo |-> PlanCleanup(accepted, seen),
             accepted |-> accepted]]
    BY <2>1
  <2>5. PlanCleanup(accepted, seen) \in Seq(CleanupActions) /\ of \in Nat
    BY <1>t, PlanTypes DEF Targets, Workspaces
  <2>3. cleanup' \in [Calls -> CleanupStates]
    BY <1>t, <2>2, <2>5 DEF CleanupStates
  <2>4. calls' \in 0..MaxCalls
    BY <1>1, BeginsFresh DEF BeginCleanup
  <2> QED  BY <1>1, <2>3, <2>4 DEF BeginCleanup, TypeOK
<1>2. CASE CleanupStep(i)
  <2>1. cleanup' \in [Calls -> CleanupStates]
    BY <1>2, PlanMoves
  <2>2. git' \in Workspaces
    BY <1>2, CleanupGit
  <2>3. verdict' \in Verdicts
    BY <1>t, <1>2 DEF CleanupStep, WriteDecision, UpdateManifest,
       RemoveWorktree, DeleteLocalBranch, DeleteRemoteBranch, HermesComment,
       HermesComplete, Verdicts
  <2> QED  BY <1>2, <2>1, <2>2, <2>3 DEF CleanupStep, TypeOK
<1> QED  BY <1>1, <1>2

LEMMA StepTypeOK ==
  ASSUME Inv, Next
  PROVE  TypeOK' /\ Coherent(task'.facts)
<1> USE DEF Inv
<1>1. Coherent(task.facts)
  BY DEF ProposalsAreBound
<1>2. ASSUME NEW i \in Calls, \/ ReadForProposal(i) \/ WriteProposal(i)
                              \/ CheckConfirmation(i) \/ WriteConfirmation(i)
                              \/ BeginCleanup(i) \/ CleanupStep(i)
      PROVE  task' = task
  BY <1>2 DEF ReadForProposal, WriteProposal, CheckConfirmation,
     WriteConfirmation, BeginCleanup, CleanupStep
<1> QED  BY <1>1, <1>2, EvidenceTypes, ProposalTypes, EngineTypeOK,
            CleanupTypeOK DEF Next

-----------------------------------------------------------------------------
(* Calls *)

CallStep(i) ==
  \/ ReadForProposal(i) \/ WriteProposal(i)
  \/ CheckConfirmation(i) \/ WriteConfirmation(i)
  \/ BeginAuthority(i) \/ BeginDirect(i) \/ BeginAdapter(i)
  \/ ClaimAndPrepare(i) \/ RefuseRun(i) \/ Reap(i)
  \/ FinishRun(i) \/ AuditWrite(i)
  \/ AdapterVerifies(i) \/ AuthorityVerifies(i) \/ Reset(i)
  \/ RouteOptIn(i) \/ AssessRoute(i)
  \/ BeginCleanup(i) \/ CleanupStep(i)

\* A step of a call leaves what the other calls wrote.
LEMMA CallMoves ==
  ASSUME Inv, NEW i \in Calls, CallStep(i)
  PROVE  /\ i <= calls' /\ calls <= calls'
         /\ \A j \in Calls \ {i} :
              /\ proposal'[j] = proposal[j] /\ confirmation'[j] = confirmation[j]
              /\ engine'[j] = engine[j] /\ cleanup'[j] = cleanup[j]
<1>t. /\ calls \in Nat /\ i \in Nat
      /\ proposal \in [Calls -> ProposalStates]
      /\ confirmation \in [Calls -> ConfirmationStates]
      /\ cleanup \in [Calls -> CleanupStates]
  BY CallFacts DEF Inv, TypeOK
<1>1. ASSUME \/ proposal[i].pc # "none" \/ confirmation[i].pc # "none"
             \/ engine[i].pc # "none" \/ cleanup[i].todo # <<>>
      PROVE  i <= calls
  BY <1>t, <1>1 DEF Inv, CallsInOrder, NoProposal, NoConfirmation, NoRun, NoCleanup
<1>2. CASE Begin(i)
  <2>1. i <= calls' /\ calls <= calls'
    BY <1>t, <1>2, BeginsFresh DEF Inv
  <2>2. CASE ReadForProposal(i) \/ CheckConfirmation(i) \/ BeginCleanup(i) \/ Reset(i)
    BY <1>t, <2>1, <2>2 DEF ReadForProposal, CheckConfirmation, BeginCleanup, Reset
  <2>3. CASE BeginAuthority(i) \/ BeginDirect(i) \/ RouteOptIn(i)
    <3>1. UNCHANGED <<proposal, confirmation, cleanup>>
      BY <2>3 DEF BeginAuthority, BeginDirect, RouteOptIn
    <3> QED  BY <2>1, <2>3, <3>1, BeginEngine DEF Inv
  <2>4. ~ (WriteProposal(i) \/ WriteConfirmation(i) \/ BeginAdapter(i)
           \/ ClaimAndPrepare(i) \/ RefuseRun(i) \/ Reap(i)
           \/ FinishRun(i) \/ AuditWrite(i)
           \/ AdapterVerifies(i) \/ AuthorityVerifies(i)
           \/ AssessRoute(i) \/ CleanupStep(i))
    <3>1. calls' # calls
      BY <1>t, <1>2, BeginsFresh DEF Inv
    <3> QED  BY <3>1 DEF WriteProposal, WriteConfirmation, BeginAdapter,
             ClaimAndPrepare, RefuseRun, Reap, FinishRun, AuditWrite,
             AdapterVerifies,
             AuthorityVerifies, AssessRoute, CleanupStep
  <2> QED  BY <2>2, <2>3, <2>4 DEF CallStep
<1>3. CASE WriteProposal(i) \/ WriteConfirmation(i)
  <2>1. i <= calls /\ calls' = calls
    BY <1>1, <1>3 DEF WriteProposal, WriteConfirmation
  <2> QED  BY <1>t, <1>3, <2>1 DEF WriteProposal, WriteConfirmation
<1>4. CASE \/ BeginAdapter(i) \/ RefuseRun(i) \/ AuditWrite(i)
           \/ AdapterVerifies(i) \/ AuthorityVerifies(i) \/ AssessRoute(i)
  <2>1. /\ engine[i].pc # "none" /\ calls' = calls
        /\ \A j \in Calls \ {i} : engine'[j] = engine[j]
    BY <1>4, EngineSteps DEF Inv
  <2>2. UNCHANGED <<proposal, confirmation, cleanup>>
    BY <1>4 DEF BeginAdapter, RefuseRun, AuditWrite, AdapterVerifies,
       AuthorityVerifies, AssessRoute
  <2>3. i <= calls' /\ calls <= calls'
    BY <1>t, <1>1, <2>1
  <2> QED  BY <2>1, <2>2, <2>3
<1>5. CASE ClaimAndPrepare(i)
  <2>1. calls' = calls /\ UNCHANGED <<proposal, confirmation, cleanup>>
    BY <1>5 DEF ClaimAndPrepare
  <2>2. i <= calls
    BY <1>1, <1>5 DEF ClaimAndPrepare
  <2>3. \A j \in Calls \ {i} : engine'[j] = engine[j]
    BY <1>5, ClaimEngine DEF Inv
  <2>4. i <= calls' /\ calls <= calls'
    BY <1>t, <2>1, <2>2
  <2> QED  BY <2>1, <2>3, <2>4
<1>6. CASE Reap(i) \/ FinishRun(i)
  <2>1. calls' = calls /\ UNCHANGED <<proposal, confirmation, cleanup>>
    BY <1>6 DEF FinishRun, Reap
  <2>2. i <= calls
    BY <1>1, <1>6 DEF FinishRun, Reap, Running
  <2>3. \A j \in Calls \ {i} : engine'[j] = engine[j]
    BY <1>6, FinishMoves DEF Inv
  <2>4. i <= calls' /\ calls <= calls'
    BY <1>t, <2>1, <2>2
  <2> QED  BY <2>1, <2>3, <2>4
<1>7. CASE CleanupStep(i)
  <2>1. calls' = calls /\ UNCHANGED <<proposal, confirmation, engine>>
    BY <1>7 DEF CleanupStep
  <2>2. cleanup[i].todo # <<>> /\ \A j \in Calls \ {i} : cleanup'[j] = cleanup[j]
    BY <1>7, PlanMoves DEF Inv
  <2>3. i <= calls' /\ calls <= calls'
    BY <1>t, <1>1, <2>1, <2>2
  <2> QED  BY <2>1, <2>2, <2>3
<1> QED  BY <1>2, <1>3, <1>4, <1>5, <1>6, <1>7 DEF CallStep, ReadForProposal,
         CheckConfirmation, BeginCleanup, Reset, BeginAuthority, BeginDirect,
         RouteOptIn

LEMMA StepCallsInOrder ==
  ASSUME Inv, Next
  PROVE  CallsInOrder'
<1> USE DEF Inv
<1>1. calls \in Nat /\ calls' \in Nat /\ Calls \in SUBSET Nat
  BY CallFacts, StepTypeOK DEF TypeOK
<1>2. ASSUME NEW i \in Calls, CallStep(i)  PROVE CallsInOrder'
  <2>1. \A j \in Calls : j > calls' => j # i /\ j > calls
    BY <1>1, <1>2, CallMoves
  <2> QED  BY <1>2, <2>1, CallMoves DEF CallsInOrder
<1>3. ASSUME NEW r \in OutsideRecords, RecordEvidence(r)  PROVE CallsInOrder'
  BY <1>3 DEF RecordEvidence, CallsInOrder
<1> QED  BY <1>2, <1>3 DEF Next, CallStep

-----------------------------------------------------------------------------
(* Proposals and confirmations *)

LEMMA StepProposalsAreBound ==
  ASSUME Inv, Next
  PROVE  ProposalsAreBound'
<1> USE DEF Inv
<1>t. proposal \in [Calls -> ProposalStates]
  BY DEF TypeOK
<1>c. Coherent(task'.facts)
  BY StepTypeOK
<1> DEFINE Bound(i) ==
      LET item == proposal[i].item IN
      /\ item = NoItem <=> proposal[i].pc = "none"
      /\ item # NoItem =>
           /\ item.kind = Recommend(item.context)
           /\ item.executable = Executable(item.context)
           /\ Coherent(item.context.facts)
<1>1. \A i \in Calls : Bound(i)
  BY DEF ProposalsAreBound
<1>2. ASSUME NEW i \in Calls, ReadForProposal(i)  PROVE Bound(i)'
  <2>1. PICK all \in BOOLEAN :
          proposal' = [proposal EXCEPT ![i] =
            [pc |-> "read", item |-> HashedItem(all)]]
    BY <1>2 DEF ReadForProposal
  <2>2. proposal'[i].item = HashedItem(all) /\ proposal'[i].pc = "read"
    BY <1>t, <2>1
  <2>3. /\ HashedItem(all).kind = Recommend(Context)
        /\ HashedItem(all).executable = Executable(Context)
        /\ HashedItem(all).context = Context
    BY DEF HashedItem
  <2>4. HashedItem(all) # NoItem
    <3>1. HashedItem(all).kind \in RECOMMENDED_COMMAND_KINDS
      BY <2>3, ContextTypes, RecommendKnown
    <3> QED  BY <3>1 DEF NoItem, RECOMMENDED_COMMAND_KINDS, EXECUTABLE_COMMAND_KINDS
  <2>5. Coherent(Context.facts)
    BY DEF ProposalsAreBound, Context
  <2> QED  BY <2>2, <2>3, <2>4, <2>5
<1>3. ASSUME NEW i \in Calls, WriteProposal(i)  PROVE Bound(i)'
  <2>1. /\ proposal'[i].item = proposal[i].item
        /\ proposal'[i].pc = NextWrite(proposal[i].pc)
        /\ proposal[i].pc \in {"read", "filed", "rowed"}
    BY <1>t, <1>3 DEF WriteProposal, ProposalStates
  <2>2. proposal'[i].pc # "none" /\ proposal[i].pc # "none"
    BY <2>1 DEF NextWrite
  <2> QED  BY <1>1, <2>1, <2>2
<1>4. ASSUME NEW i \in Calls, CallStep(i), ~ ReadForProposal(i), ~ WriteProposal(i)
      PROVE  proposal' = proposal
  BY <1>4 DEF CallStep, CheckConfirmation, WriteConfirmation, BeginAuthority,
     BeginDirect, BeginAdapter, ClaimAndPrepare, RefuseRun, Reap, FinishRun,
     AuditWrite,
     AdapterVerifies, AuthorityVerifies, Reset, RouteOptIn, AssessRoute,
     BeginCleanup, CleanupStep
<1>5. ASSUME NEW j \in Calls, proposal'[j] = proposal[j]  PROVE Bound(j)'
  BY <1>1, <1>5
<1>6. ASSUME NEW i \in Calls, CallStep(i), NEW j \in Calls  PROVE Bound(j)'
  <2>1. CASE j # i
    BY <1>5, <1>6, <2>1, CallMoves
  <2>2. Bound(i)'
    BY <1>2, <1>3, <1>4, <1>5, <1>6
  <2>3. CASE j = i
    BY <2>2, <2>3
  <2> QED  BY <2>1, <2>3
<1>7. ASSUME NEW r \in OutsideRecords, RecordEvidence(r)  PROVE \A j \in Calls : Bound(j)'
  BY <1>5, <1>7 DEF RecordEvidence
<1>8. \A j \in Calls : Bound(j)'
  BY <1>6, <1>7 DEF Next, CallStep
<1> QED  BY <1>c, <1>8 DEF ProposalsAreBound

LEMMA StepConfirmationsAreApart ==
  ASSUME Inv, Next
  PROVE  ConfirmationsAreApart'
<1> USE DEF Inv
<1>t. confirmation \in [Calls -> ConfirmationStates]
  BY DEF TypeOK
<1>1. ASSUME NEW i \in Calls, CheckConfirmation(i)  PROVE ConfirmationsAreApart'
  <2>1. PICK p \in ProposalRows, narrowing \in Narrowings :
          /\ Eligible(p, narrowing)
          /\ confirmation' = [confirmation EXCEPT ![i] =
               [pc |-> "checked", item |-> proposal[p].item,
                seen |-> ConfirmationRows]]
    BY <1>1 DEF CheckConfirmation
  <2>2. /\ confirmation'[i].item = proposal[p].item
        /\ confirmation'[i].seen = ConfirmationRows
        /\ \A j \in Calls \ {i} : confirmation'[j] = confirmation[j]
    BY <1>t, <2>1
  <2>3. i \notin ConfirmationRows
    BY <1>1, BeginsFresh DEF CheckConfirmation, ConfirmationRows, HasRow,
       NoConfirmation
  <2>4. \A c \in ConfirmationRows : c \in Calls /\ c \in ConfirmationRows'
    BY <2>2, <2>3 DEF ConfirmationRows, HasRow
  <2>5. \A c \in ConfirmationRows : confirmation[c].item # proposal[p].item
    BY <2>1 DEF Eligible, DuplicateConfirmations
  <2> QED  BY <2>2, <2>3, <2>4, <2>5 DEF ConfirmationsAreApart
<1>2. ASSUME NEW i \in Calls, WriteConfirmation(i)  PROVE ConfirmationsAreApart'
  <2>1. /\ confirmation'[i].item = confirmation[i].item
        /\ confirmation'[i].seen = confirmation[i].seen
        /\ confirmation'[i].pc = NextWrite(confirmation[i].pc)
        /\ confirmation[i].pc \in {"checked", "filed", "rowed"}
        /\ \A j \in Calls \ {i} : confirmation'[j] = confirmation[j]
    BY <1>t, <1>2 DEF WriteConfirmation, ConfirmationStates
  <2>2. HasRow(confirmation[i]) => HasRow(confirmation'[i])
    BY <2>1 DEF HasRow, NextWrite
  <2>3. \A c \in ConfirmationRows : c \in Calls /\ c \in ConfirmationRows'
    BY <2>1, <2>2 DEF ConfirmationRows, HasRow
  <2> QED  BY <2>1, <2>3 DEF ConfirmationsAreApart
<1>3. ASSUME NEW i \in Calls, CallStep(i), ~ CheckConfirmation(i),
             ~ WriteConfirmation(i)
      PROVE  confirmation' = confirmation
  BY <1>3 DEF CallStep, ReadForProposal, WriteProposal, BeginAuthority,
     BeginDirect, BeginAdapter, ClaimAndPrepare, RefuseRun, Reap, FinishRun,
     AuditWrite,
     AdapterVerifies, AuthorityVerifies, Reset, RouteOptIn, AssessRoute,
     BeginCleanup, CleanupStep
<1>4. ASSUME NEW r \in OutsideRecords, RecordEvidence(r)
      PROVE  confirmation' = confirmation
  BY <1>4 DEF RecordEvidence
<1>5. CASE confirmation' = confirmation
  BY <1>5 DEF ConfirmationsAreApart, ConfirmationRows, HasRow
<1> QED  BY <1>1, <1>2, <1>3, <1>4, <1>5 DEF Next, CallStep

-----------------------------------------------------------------------------
(* Runs and their Attempts *)

\* Steps that are not about runs leave runs and Attempts alone.
LEMMA EngineFrame ==
  ASSUME Next,
         \A i \in Calls : ~ (\/ BeginAuthority(i) \/ BeginDirect(i)
                             \/ BeginAdapter(i) \/ ClaimAndPrepare(i)
                             \/ RefuseRun(i) \/ Reap(i)
                             \/ FinishRun(i) \/ AuditWrite(i)
                             \/ AdapterVerifies(i) \/ AuthorityVerifies(i)
                             \/ Reset(i) \/ RouteOptIn(i) \/ AssessRoute(i))
  PROVE  engine' = engine /\ attempts' = attempts
BY DEF Next, RecordEvidence, ReadForProposal, WriteProposal, CheckConfirmation,
   WriteConfirmation, BeginCleanup, CleanupStep

LEMMA StepRuns ==
  ASSUME Inv, Next
  PROVE  /\ OneReservation' /\ ClaimsAreOwn' /\ AuthorityKnowsNew'
         /\ AcceptedResultIsOwn' /\ RouteStops'
<1> USE DEF Inv, AttemptIds
<1>t. /\ calls \in Nat /\ Calls \in SUBSET Nat /\ attempts \in Seq(AttemptRows)
      /\ DOMAIN attempts \in SUBSET (Nat \ {0})
      /\ \A a \in DOMAIN attempts : attempts[a].born \in Nat
      /\ \A j \in Calls : engine[j].pc # "none" => j <= calls
  <2>1. /\ calls \in Nat /\ Calls \in SUBSET Nat /\ attempts \in Seq(AttemptRows)
    BY CallFacts DEF TypeOK
  <2>2. DOMAIN attempts = 1..Len(attempts) /\ Len(attempts) \in Nat
    BY <2>1
  <2>3. \A a \in DOMAIN attempts : attempts[a] \in AttemptRows
    BY <2>1
  <2>4. \A a \in DOMAIN attempts : attempts[a].born \in Nat
    BY <2>3, CallFacts DEF AttemptRows
  <2>5. ASSUME NEW j \in Calls, engine[j].pc # "none"  PROVE j <= calls
    BY <2>1, <2>5 DEF CallsInOrder, NoRun
  <2> QED  BY <2>1, <2>2, <2>4, <2>5
<1>1. CASE engine' = engine /\ attempts' = attempts
  BY <1>1 DEF OneReservation, Reserved, ClaimsAreOwn, AuthorityKnowsNew,
     AcceptedResultIsOwn, RouteStops
<1>2. ASSUME NEW i \in Calls, BeginAuthority(i) \/ BeginDirect(i) \/ RouteOptIn(i)
      PROVE  /\ OneReservation' /\ ClaimsAreOwn' /\ AuthorityKnowsNew'
             /\ AcceptedResultIsOwn' /\ RouteStops'
  <2>1. attempts' = attempts
    BY <1>2 DEF BeginAuthority, BeginDirect, RouteOptIn
  <2>2. OneReservation' /\ Reserved' = Reserved
    BY <2>1 DEF OneReservation, Reserved
  <2>3. ClaimsAreOwn'
    BY <1>2, <2>1, <2>2, BeginEngine DEF ClaimsAreOwn
  <2>4. AuthorityKnowsNew'
    BY <1>2, <2>1, BeginEngine DEF AuthorityKnowsNew
  <2>5. AcceptedResultIsOwn' /\ RouteStops'
    BY <1>2, <2>1, BeginEngine DEF AcceptedResultIsOwn, RouteStops
  <2> QED  BY <2>2, <2>3, <2>4, <2>5
<1>3. ASSUME NEW i \in Calls,
             \/ BeginAdapter(i) \/ RefuseRun(i) \/ AuditWrite(i)
             \/ AdapterVerifies(i) \/ AuthorityVerifies(i) \/ AssessRoute(i)
      PROVE  /\ OneReservation' /\ ClaimsAreOwn' /\ AuthorityKnowsNew'
             /\ AcceptedResultIsOwn' /\ RouteStops'
  <2>1. attempts' = attempts
    BY <1>3, EngineSteps
  <2>2. OneReservation' /\ Reserved' = Reserved
    BY <2>1 DEF OneReservation, Reserved
  <2>3. ClaimsAreOwn'
    BY <1>3, <2>1, <2>2, EngineSteps DEF ClaimsAreOwn
  <2>4. AuthorityKnowsNew'
    <3>1. ASSUME ~ engine'[i].routed,
                 engine'[i].pc \in {"authority", "adapter", "running", "ran", "bound"}
          PROVE  /\ ~ engine[i].routed /\ engine'[i].before = engine[i].before
                 /\ engine[i].pc \in {"authority", "ran"}
      BY <1>3, <3>1, EngineSteps DEF RouteStops
    <3>2. \A j \in Calls \ {i} : engine'[j] = engine[j]
      BY <1>3, EngineSteps
    <3> QED  BY <2>1, <3>1, <3>2 DEF AuthorityKnowsNew
  <2>5. AcceptedResultIsOwn'
    <3>1. ASSUME engine'[i].pc = "accepted"
          PROVE  /\ attempts[engine[i].attempt].claimed = i
                 /\ attempts[engine[i].attempt].born >= i
                 /\ attempts[engine[i].attempt].status = "waiting_approval"
                 /\ engine'[i].attempt = engine[i].attempt
      <4>1. /\ engine[i].pc = "bound" /\ ~ engine[i].routed
            /\ VerifyCanonicalAttempt(engine[i].attempt, engine[i].before)
            /\ engine'[i].attempt = engine[i].attempt
        BY <1>3, <3>1, EngineSteps
      <4>2. /\ engine[i].attempt \in DOMAIN attempts \ engine[i].before
            /\ attempts[engine[i].attempt].status = "waiting_approval"
        BY <4>1 DEF VerifyCanonicalAttempt
      <4>3. attempts[engine[i].attempt].claimed = i
        BY <4>1 DEF ClaimsAreOwn
      <4>4. attempts[engine[i].attempt].born >= i
        BY <4>1, <4>2 DEF AuthorityKnowsNew
      <4> QED  BY <4>1, <4>2, <4>3, <4>4
    <3>2. \A j \in Calls \ {i} : engine'[j] = engine[j]
      BY <1>3, EngineSteps
    <3> QED  BY <2>1, <3>1, <3>2 DEF AcceptedResultIsOwn
  <2>6. RouteStops'
    BY <1>3, EngineSteps DEF RouteStops
  <2> QED  BY <2>2, <2>3, <2>4, <2>5, <2>6
<1>4. ASSUME NEW i \in Calls, ClaimAndPrepare(i)
      PROVE  /\ OneReservation' /\ ClaimsAreOwn' /\ AuthorityKnowsNew'
             /\ AcceptedResultIsOwn' /\ RouteStops'
  <2>1. PICK a \in Nat \ {0} :
           /\ engine'[i].pc = IF engine[i].pc = "direct" THEN "running_direct"
                                                         ELSE "running"
           /\ engine'[i].attempt = a
           /\ engine'[i].routed = engine[i].routed
           /\ engine'[i].before = engine[i].before
           /\ \A j \in Calls \ {i} : engine'[j] = engine[j]
           /\ DOMAIN attempts' = DOMAIN attempts \cup {a}
           /\ a \in DOMAIN attempts => a \in Reserved
                                       /\ attempts'[a].born = attempts[a].born
           /\ a \notin DOMAIN attempts => attempts'[a].born = calls
           /\ attempts'[a].claimed = i /\ attempts'[a].status = "running"
           /\ \A b \in DOMAIN attempts \ {a} : attempts'[b] = attempts[b]
    BY <1>4, ClaimEngine
  <2>2. engine[i].pc \in {"direct", "adapter"} /\ ~ engine[i].routed
    BY <1>4 DEF ClaimAndPrepare, RouteStops
  <2>3. ASSUME NEW j \in Calls \ {i}, engine[j].attempt # 0
        PROVE  /\ engine[j].attempt \in DOMAIN attempts \ {a}
               /\ attempts'[engine[j].attempt] = attempts[engine[j].attempt]
    BY <2>1, <2>3 DEF ClaimsAreOwn, Reserved
  <2>4. Reserved' \subseteq Reserved /\ a \notin Reserved'
    BY <2>1 DEF Reserved
  <2>5. OneReservation'
    BY <2>4 DEF OneReservation
  <2>6. ClaimsAreOwn'
    <3>1. ASSUME NEW j \in Calls \ {i}, engine[j].attempt # 0
          PROVE  /\ engine[j].attempt \in DOMAIN attempts' \ Reserved'
                 /\ attempts'[engine[j].attempt].claimed = j
      BY <2>1, <2>3, <2>4, <3>1 DEF ClaimsAreOwn
    <3>2. a \in DOMAIN attempts' \ Reserved' /\ attempts'[a].claimed = i /\ a # 0
      BY <2>1, <2>4
    <3> QED  BY <2>1, <3>1, <3>2 DEF ClaimsAreOwn
  <2>7. AuthorityKnowsNew'
    <3>1. ASSUME NEW j \in Calls, engine'[j].routed = FALSE,
                 engine'[j].pc \in {"authority", "adapter", "running", "ran", "bound"},
                 NEW b \in DOMAIN attempts' \ engine'[j].before
          PROVE  attempts'[b].born >= j
      <4>1. /\ engine[j].routed = FALSE /\ engine[j].before = engine'[j].before
            /\ engine[j].pc \in {"authority", "adapter", "running", "ran", "bound"}
            /\ j <= calls
        BY <1>t, <2>1, <2>2, <3>1
      <4>2. CASE b \in DOMAIN attempts
        BY <2>1, <3>1, <4>1, <4>2 DEF AuthorityKnowsNew
      <4>3. CASE b \notin DOMAIN attempts
        BY <1>t, <2>1, <3>1, <4>1, <4>3
      <4> QED  BY <4>2, <4>3
    <3>2. engine' \in [Calls -> EngineStates]
      BY StepTypeOK DEF TypeOK
    <3>3. \A j \in Calls : engine'[j].routed \in BOOLEAN
      BY <3>2 DEF EngineStates
    <3> QED  BY <3>1, <3>3 DEF AuthorityKnowsNew
  <2>8. AcceptedResultIsOwn' /\ RouteStops'
    <3>1. ASSUME NEW j \in Calls, engine'[j].pc = "accepted"
          PROVE  /\ j # i /\ engine'[j] = engine[j] /\ engine[j].attempt # 0
                 /\ engine[j].pc = "accepted"
      BY <2>1, <3>1 DEF ClaimsAreOwn
    <3>2. AcceptedResultIsOwn'
      BY <2>3, <3>1 DEF AcceptedResultIsOwn
    <3>3. RouteStops'
      BY <2>1, <2>2 DEF RouteStops
    <3> QED  BY <3>2, <3>3
  <2> QED  BY <2>5, <2>6, <2>7, <2>8
<1>5. ASSUME NEW i \in Calls, Reap(i) \/ FinishRun(i)
      PROVE  /\ OneReservation' /\ ClaimsAreOwn' /\ AuthorityKnowsNew'
             /\ AcceptedResultIsOwn' /\ RouteStops'
  <2> DEFINE a == engine[i].attempt
  <2>1. /\ a \in DOMAIN attempts /\ DOMAIN attempts' = DOMAIN attempts
        /\ engine'[i].pc \in {"running", "running_direct", "auditing", "ran",
                              "ended", "blocked"}
        /\ engine[i].pc \in {"running", "running_direct"}
        /\ engine'[i].pc \in {"running", "ran"} => engine[i].pc = "running"
        /\ engine'[i].attempt = a
        /\ engine'[i].routed = engine[i].routed
        /\ engine'[i].pc # "blocked" => engine'[i].before = engine[i].before
        /\ \A j \in Calls \ {i} : engine'[j] = engine[j]
        /\ attempts'[a].status # "created"
        /\ \A b \in DOMAIN attempts :
             /\ attempts'[b].claimed = attempts[b].claimed
             /\ attempts'[b].born = attempts[b].born
             /\ b # a => attempts'[b] = attempts[b]
    BY <1>5, FinishMoves
  <2>2. a # 0 /\ a \notin Reserved /\ attempts[a].claimed = i /\ ~ engine[i].routed
    BY <2>1 DEF ClaimsAreOwn, RouteStops
  <2> HIDE DEF a
  <2>3. \A j \in Calls \ {i} : engine[j].attempt # 0 => engine[j].attempt # a
    BY <2>2 DEF ClaimsAreOwn
  <2>4. Reserved' = Reserved
    BY <2>1, <2>2 DEF Reserved
  <2>5. OneReservation'
    BY <2>4 DEF OneReservation
  <2>6. ClaimsAreOwn'
    BY <2>1, <2>2, <2>3, <2>4 DEF ClaimsAreOwn
  <2>7. AuthorityKnowsNew'
    BY <2>1, <2>2 DEF AuthorityKnowsNew
  <2>8. AcceptedResultIsOwn'
    <3>1. ASSUME NEW j \in Calls, engine'[j].pc = "accepted"
          PROVE  /\ j # i /\ engine'[j] = engine[j]
                 /\ attempts'[engine[j].attempt] = attempts[engine[j].attempt]
      <4>1. j # i /\ engine'[j] = engine[j]
        BY <2>1, <3>1
      <4>2. engine[j].attempt # 0 /\ engine[j].attempt \in DOMAIN attempts
        BY <3>1, <4>1 DEF ClaimsAreOwn
      <4> QED  BY <2>1, <2>3, <4>1, <4>2
    <3> QED  BY <3>1 DEF AcceptedResultIsOwn
  <2>9. RouteStops'
    BY <2>1, <2>2 DEF RouteStops
  <2> QED  BY <2>5, <2>6, <2>7, <2>8, <2>9
<1>6. ASSUME NEW i \in Calls, Reset(i)
      PROVE  /\ OneReservation' /\ ClaimsAreOwn' /\ AuthorityKnowsNew'
             /\ AcceptedResultIsOwn' /\ RouteStops'
  <2> DEFINE n == Len(attempts) + 1
  <2>1. /\ DOMAIN attempts' = DOMAIN attempts \cup {n}
        /\ n \notin DOMAIN attempts /\ attempts'[n].born = i
        /\ \A b \in DOMAIN attempts : attempts'[b] = attempts[b]
    BY <1>6, ResetMoves
  <2> HIDE DEF n
  <2>2. engine' = engine /\ Reserved = {} /\ i = calls + 1
    BY <1>6 DEF Reset, Begin
  <2>3. Reserved' \subseteq {n}
    BY <2>1, <2>2 DEF Reserved
  <2>4. OneReservation'
    BY <2>3 DEF OneReservation
  <2>5. ClaimsAreOwn'
    <3>1. ASSUME NEW j \in Calls, engine[j].attempt # 0
          PROVE  /\ engine[j].attempt \in DOMAIN attempts /\ engine[j].attempt # n
                 /\ attempts[engine[j].attempt].claimed = j
      BY <2>1, <3>1 DEF ClaimsAreOwn
    <3> QED  BY <2>1, <2>2, <2>3, <3>1 DEF ClaimsAreOwn
  <2>6. AuthorityKnowsNew'
    <3>1. \A j \in Calls : engine[j].pc # "none" => i >= j
      BY <1>t, <2>2
    <3> QED  BY <2>1, <2>2, <3>1 DEF AuthorityKnowsNew
  <2>7. AcceptedResultIsOwn' /\ RouteStops'
    <3>1. \A j \in Calls : engine[j].pc = "accepted" =>
            engine[j].attempt \in DOMAIN attempts
      BY DEF ClaimsAreOwn
    <3> QED  BY <2>1, <2>2, <3>1 DEF AcceptedResultIsOwn, RouteStops
  <2> QED  BY <2>4, <2>5, <2>6, <2>7
<1> QED  BY <1>1, <1>2, <1>3, <1>4, <1>5, <1>6, EngineFrame

-----------------------------------------------------------------------------
(* Plans of a cleanup *)

\* What a concatenation holds.
LEMMA ConcatHolds ==
  ASSUME NEW s \in Seq(CleanupActions), NEW t \in Seq(CleanupActions)
  PROVE  /\ s \o t \in Seq(CleanupActions)
         /\ Len(s \o t) = Len(s) + Len(t)
         /\ \A k \in DOMAIN (s \o t) :
              \/ k \in DOMAIN s /\ (s \o t)[k] = s[k]
              \/ k - Len(s) \in DOMAIN t /\ (s \o t)[k] = t[k - Len(s)]
         /\ \A k \in DOMAIN s : k \in DOMAIN (s \o t) /\ (s \o t)[k] = s[k]
         /\ \A k \in DOMAIN t : /\ k + Len(s) \in DOMAIN (s \o t)
                                /\ (s \o t)[k + Len(s)] = t[k]
OBVIOUS

\* What the rest of a plan holds.
LEMMA TailHolds ==
  ASSUME NEW s \in Seq(CleanupActions), s # <<>>
  PROVE  /\ 1 \in DOMAIN s /\ s[1] = Head(s)
         /\ Len(Tail(s)) = Len(s) - 1 /\ Len(s) \in Nat
         /\ DOMAIN s \subseteq Nat /\ DOMAIN Tail(s) \subseteq Nat
         /\ \A k \in DOMAIN Tail(s) : k + 1 \in DOMAIN s /\ Tail(s)[k] = s[k + 1]
         /\ \A k \in DOMAIN s :
              k = 1 \/ (k - 1 \in DOMAIN Tail(s) /\ Tail(s)[k - 1] = s[k])
OBVIOUS

\* A plan that tells Hermes does so last, after a worktree that was seen.
LEMMA PlanHolds ==
  ASSUME NEW accepted \in BOOLEAN, NEW seen,
         NEW k \in DOMAIN PlanCleanup(accepted, seen),
         PlanCleanup(accepted, seen)[k] = "complete"
  PROVE  /\ k = Len(PlanCleanup(accepted, seen))
         /\ seen.worktree => \E m \in DOMAIN PlanCleanup(accepted, seen) :
                               PlanCleanup(accepted, seen)[m] = "worktree"
<1> DEFINE d == <<"decision_md", "manifest">>
           w == When(accepted /\ seen.worktree, "worktree")
           l == When(seen.local, "local_branch")
           r == When(seen.remote, "remote_branch")
           c == <<"comment">>
           e == When(accepted, "complete")
           body == (((d \o w) \o l) \o r) \o c
<1>1. PlanCleanup(accepted, seen) = body \o e
  BY DEF PlanCleanup
<1>2. /\ d \in Seq(CleanupActions) /\ w \in Seq(CleanupActions)
      /\ l \in Seq(CleanupActions) /\ r \in Seq(CleanupActions)
      /\ c \in Seq(CleanupActions) /\ e \in Seq(CleanupActions)
  <2>1. ASSUME NEW b, NEW a \in CleanupActions
        PROVE  When(b, a) \in Seq(CleanupActions)
    BY DEF When
  <2>2. /\ d \in Seq(CleanupActions) /\ c \in Seq(CleanupActions)
        /\ {"worktree", "local_branch", "remote_branch", "complete"}
             \subseteq CleanupActions
    BY DEF CleanupActions
  <2> QED  BY <2>1, <2>2
<1>3. /\ \A n \in DOMAIN d : d[n] # "complete"
      /\ \A n \in DOMAIN w : w[n] # "complete"
      /\ \A n \in DOMAIN l : l[n] # "complete"
      /\ \A n \in DOMAIN r : r[n] # "complete"
      /\ \A n \in DOMAIN c : c[n] # "complete"
  BY DEF When
<1>4. accepted => Len(e) = 1
  BY DEF When
<1>5. ~ accepted => Len(e) = 0
  BY DEF When
<1>6. accepted /\ seen.worktree => 1 \in DOMAIN w /\ w[1] = "worktree"
  BY DEF When
<1> HIDE DEF d, w, l, r, c, e
<1>8. /\ d \o w \in Seq(CleanupActions)
      /\ (d \o w) \o l \in Seq(CleanupActions)
      /\ ((d \o w) \o l) \o r \in Seq(CleanupActions)
      /\ body \in Seq(CleanupActions)
  BY <1>2, ConcatHolds
<1>9. \A n \in DOMAIN body : body[n] # "complete"
  <2>1. \A n \in DOMAIN (d \o w) : (d \o w)[n] # "complete"
    BY <1>2, <1>3, ConcatHolds
  <2>2. \A n \in DOMAIN ((d \o w) \o l) : ((d \o w) \o l)[n] # "complete"
    BY <1>2, <1>3, <1>8, <2>1, ConcatHolds
  <2>3. \A n \in DOMAIN (((d \o w) \o l) \o r) :
          (((d \o w) \o l) \o r)[n] # "complete"
    BY <1>2, <1>3, <1>8, <2>2, ConcatHolds
  <2> QED  BY <1>2, <1>3, <1>8, <2>3, ConcatHolds
<1>10. accepted /\ seen.worktree => \E m \in DOMAIN body : body[m] = "worktree"
  <2> SUFFICES ASSUME accepted, seen.worktree
               PROVE  \E m \in DOMAIN body : body[m] = "worktree"
    OBVIOUS
  <2>1. \E m \in DOMAIN (d \o w) : (d \o w)[m] = "worktree"
    <3>1. /\ 1 + Len(d) \in DOMAIN (d \o w) /\ (d \o w)[1 + Len(d)] = w[1]
      BY <1>2, <1>6, ConcatHolds
    <3> QED  BY <1>6, <3>1
  <2>2. \E m \in DOMAIN ((d \o w) \o l) : ((d \o w) \o l)[m] = "worktree"
    BY <1>2, <1>8, <2>1, ConcatHolds
  <2>3. \E m \in DOMAIN (((d \o w) \o l) \o r) :
          (((d \o w) \o l) \o r)[m] = "worktree"
    BY <1>2, <1>8, <2>2, ConcatHolds
  <2> QED  BY <1>2, <1>8, <2>3, ConcatHolds
<1> HIDE DEF body
<1>12. /\ k \in DOMAIN (body \o e) /\ (body \o e)[k] = "complete"
       /\ Len(body \o e) = Len(body) + Len(e) /\ Len(body) \in Nat
  BY <1>1, <1>2, <1>8, ConcatHolds
<1>13. k - Len(body) \in DOMAIN e
  BY <1>2, <1>8, <1>9, <1>12, ConcatHolds
<1>14. DOMAIN e = 1..Len(e) /\ Len(e) \in Nat /\ DOMAIN (body \o e) \subseteq Nat
  BY <1>2, <1>8, ConcatHolds
<1>15. accepted /\ k = Len(body \o e)
  BY <1>4, <1>5, <1>12, <1>13, <1>14
<1>16. \A n \in DOMAIN body : n \in DOMAIN (body \o e) /\ (body \o e)[n] = body[n]
  BY <1>2, <1>8, ConcatHolds
<1> QED  BY <1>1, <1>10, <1>15, <1>16

\* Attempts stay, and one that is claimed is never reserved again.
LEMMA ClaimedStays ==
  ASSUME Inv, Next, NEW a \in AttemptIds \ Reserved
  PROVE  a \in AttemptIds' \ Reserved'
<1> USE DEF Inv, AttemptIds, Reserved
<1>1. CASE attempts' = attempts
  BY <1>1
<1>2. ASSUME NEW i \in Calls, ClaimAndPrepare(i)
      PROVE  a \in AttemptIds' \ Reserved'
  <2>1. PICK b \in Nat \ {0} :
           /\ DOMAIN attempts' = DOMAIN attempts \cup {b}
           /\ b \in DOMAIN attempts => b \in Reserved
           /\ \A c \in DOMAIN attempts \ {b} : attempts'[c] = attempts[c]
    BY <1>2, ClaimEngine
  <2> QED  BY <2>1
<1>3. ASSUME NEW i \in Calls, Reap(i) \/ FinishRun(i)
      PROVE  a \in AttemptIds' \ Reserved'
  BY <1>3, FinishMoves
<1>4. ASSUME NEW i \in Calls, Reset(i)
      PROVE  a \in AttemptIds' \ Reserved'
  BY <1>4, ResetMoves
<1>5. ASSUME NEW i \in Calls, BeginAuthority(i) \/ BeginDirect(i) \/ RouteOptIn(i)
      PROVE  attempts' = attempts
  BY <1>5 DEF BeginAuthority, BeginDirect, RouteOptIn
<1>6. ASSUME NEW i \in Calls,
             \/ BeginAdapter(i) \/ RefuseRun(i) \/ AuditWrite(i)
             \/ AdapterVerifies(i) \/ AuthorityVerifies(i) \/ AssessRoute(i)
      PROVE  attempts' = attempts
  BY <1>6, EngineSteps
<1> QED  BY <1>1, <1>2, <1>3, <1>4, <1>5, <1>6, EngineFrame

\* Where a step leaves the workspace of the latest run: a claim makes that of
\* another Attempt, and nothing else brings a worktree back.
LEMMA WorkspaceMoves ==
  ASSUME Inv, Next
  PROVE  \/ /\ git'.of # 0 /\ git'.of \in AttemptIds' \ Reserved'
            /\ git'.of \notin AttemptIds \ Reserved
            /\ cleanup' = cleanup
         \/ git'.of = git.of /\ (git'.worktree => git.worktree)
<1> USE DEF Inv
<1>t. git \in Workspaces
  BY DEF TypeOK
<1>1. ASSUME NEW i \in Calls, ClaimAndPrepare(i)
      PROVE  /\ git'.of # 0 /\ git'.of \in AttemptIds' \ Reserved'
             /\ git'.of \notin AttemptIds \ Reserved /\ cleanup' = cleanup
  <2>1. /\ git'.of = NextAttempt /\ NextAttempt # 0
        /\ NextAttempt \in DOMAIN attempts => NextAttempt \in Reserved
        /\ NextAttempt = engine'[i].attempt
    BY <1>1, ClaimGit
  <2>2. PICK a \in Nat \ {0} :
           /\ engine'[i].attempt = a
           /\ DOMAIN attempts' = DOMAIN attempts \cup {a}
           /\ attempts'[a].status = "running"
    BY <1>1, ClaimEngine
  <2> QED  BY <1>1, <2>1, <2>2 DEF AttemptIds, Reserved, ClaimAndPrepare
<1>2. ASSUME NEW r \in OutsideRecords, RecordEvidence(r)
      PROVE  git'.of = git.of /\ (git'.worktree => git.worktree)
  BY <1>t, <1>2 DEF RecordEvidence, Workspaces
<1>3. ASSUME NEW i \in Calls, CleanupStep(i)
      PROVE  git'.of = git.of /\ (git'.worktree => git.worktree)
  BY <1>3, CleanupGit
<1>4. ASSUME NEW i \in Calls, CallStep(i), ~ ClaimAndPrepare(i), ~ CleanupStep(i)
      PROVE  git' = git
  BY <1>4 DEF CallStep, ReadForProposal, WriteProposal, CheckConfirmation,
     WriteConfirmation, BeginAuthority, BeginDirect, BeginAdapter, RefuseRun,
     Reap, FinishRun, AuditWrite, AdapterVerifies, AuthorityVerifies, Reset,
     RouteOptIn, AssessRoute, BeginCleanup
<1> QED  BY <1>1, <1>2, <1>3, <1>4 DEF Next, CallStep

\* Only a cleanup's own steps change its record.
LEMMA CleanupFrame ==
  ASSUME Inv, Next, NEW i \in Calls, ~ BeginCleanup(i), ~ CleanupStep(i)
  PROVE  cleanup'[i] = cleanup[i]
<1>1. CASE \E r \in OutsideRecords : RecordEvidence(r)
  BY <1>1 DEF RecordEvidence
<1>2. ASSUME NEW j \in Calls, CallStep(j), j # i  PROVE cleanup'[i] = cleanup[i]
  BY <1>2, CallMoves
<1>3. CASE CallStep(i)
  BY <1>3 DEF CallStep, ReadForProposal, WriteProposal, CheckConfirmation,
     WriteConfirmation, BeginAuthority, BeginDirect, BeginAdapter,
     ClaimAndPrepare, RefuseRun, Reap, FinishRun, AuditWrite, AdapterVerifies,
     AuthorityVerifies, Reset, RouteOptIn, AssessRoute
<1> QED  BY <1>1, <1>2, <1>3 DEF Next, CallStep

\* How a cleanup begins.
LEMMA BeginsCleanup ==
  ASSUME TypeOK, NEW i \in Calls, BeginCleanup(i)
  PROVE  \E accepted \in BOOLEAN, of \in {0, git.of} : \E seen :
           /\ of # 0 => seen.worktree = git.worktree
           /\ cleanup'[i].todo = PlanCleanup(accepted, seen)
           /\ cleanup'[i].of = of /\ cleanup'[i].pc = "acting"
           /\ UNCHANGED <<git, attempts>>
<1>1. PICK accepted \in BOOLEAN, of \in Targets : \E seen \in Sights(of) :
        cleanup' = [cleanup EXCEPT ![i] =
          [pc |-> "acting", of |-> of, todo |-> PlanCleanup(accepted, seen),
           accepted |-> accepted]]
  BY DEF BeginCleanup
<1>2. PICK seen \in Sights(of) :
        cleanup' = [cleanup EXCEPT ![i] =
          [pc |-> "acting", of |-> of, todo |-> PlanCleanup(accepted, seen),
           accepted |-> accepted]]
  BY <1>1
<1>3. cleanup \in [Calls -> CleanupStates]
  BY DEF TypeOK
<1>4. of # 0 => seen.worktree = git.worktree
  BY DEF Sights
<1>5. UNCHANGED <<git, attempts>>
  BY DEF BeginCleanup
<1>6. /\ cleanup'[i].todo = PlanCleanup(accepted, seen)
      /\ cleanup'[i].of = of /\ cleanup'[i].pc = "acting"
  BY <1>2, <1>3
<1> QED  BY <1>4, <1>5, <1>6 DEF Targets

LEMMA StepWorkspacesAreClaimed ==
  ASSUME Inv, Next
  PROVE  WorkspacesAreClaimed'
<1> USE DEF Inv
<1>1. git.of = 0 \/ git.of \in AttemptIds \ Reserved
  BY DEF WorkspacesAreClaimed
<1>2. git'.of = 0 \/ git'.of \in AttemptIds' \ Reserved'
  BY <1>1, WorkspaceMoves, ClaimedStays
<1>3. ASSUME NEW i \in Calls
      PROVE  cleanup'[i].of = 0 \/ cleanup'[i].of \in AttemptIds' \ Reserved'
  <2>1. cleanup[i].of = 0 \/ cleanup[i].of \in AttemptIds' \ Reserved'
    BY ClaimedStays DEF WorkspacesAreClaimed
  <2>2. CASE BeginCleanup(i)
    BY <1>1, <2>2, BeginsCleanup, ClaimedStays
  <2>3. CASE CleanupStep(i)
    BY <2>1, <2>3, PlanMoves
  <2>4. CASE ~ BeginCleanup(i) /\ ~ CleanupStep(i)
    BY <2>1, <2>4, CleanupFrame
  <2> QED  BY <2>2, <2>3, <2>4
<1> QED  BY <1>2, <1>3 DEF WorkspacesAreClaimed

\* A cleanup that looks at the workspace of the latest run did so before.
LEMMA OwnBefore ==
  ASSUME Inv, Next, NEW i \in Calls, Own(i)', cleanup'[i].of = cleanup[i].of
  PROVE  Own(i) /\ (git'.worktree => git.worktree)
<1> USE DEF Inv
<1>1. cleanup[i].of # 0 /\ cleanup[i].of = git'.of
  BY DEF Own
<1>2. cleanup[i].of \in AttemptIds \ Reserved
  BY <1>1 DEF WorkspacesAreClaimed
<1> QED  BY <1>1, <1>2, WorkspaceMoves DEF Own

LEMMA StepPlansInOrder ==
  ASSUME Inv, Next
  PROVE  PlansInOrder'
<1> USE DEF Inv
<1>t. cleanup \in [Calls -> CleanupStates]
  BY DEF TypeOK
<1>s. \A i \in Calls : cleanup[i].todo \in Seq(CleanupActions)
  BY <1>t DEF CleanupStates
<1> SUFFICES ASSUME NEW i \in Calls, NEW k \in DOMAIN cleanup'[i].todo,
                    cleanup'[i].todo[k] = "complete"
             PROVE  /\ k = Len(cleanup'[i].todo)
                    /\ Own(i)' /\ git'.worktree =>
                         \E m \in DOMAIN cleanup'[i].todo :
                           cleanup'[i].todo[m] = "worktree"
  BY DEF PlansInOrder
<1>1. CASE cleanup'[i] = cleanup[i]
  <2>1. k \in DOMAIN cleanup[i].todo /\ cleanup[i].todo[k] = "complete"
    BY <1>1
  <2>2. /\ k = Len(cleanup[i].todo)
        /\ Own(i) /\ git.worktree => \E m \in DOMAIN cleanup[i].todo :
                                       cleanup[i].todo[m] = "worktree"
    BY <2>1 DEF PlansInOrder
  <2> QED  BY <1>1, <2>2, OwnBefore
<1>2. CASE BeginCleanup(i)
  <2>1. PICK accepted \in BOOLEAN, of \in {0, git.of} : \E seen :
           /\ of # 0 => seen.worktree = git.worktree
           /\ cleanup'[i].todo = PlanCleanup(accepted, seen)
           /\ cleanup'[i].of = of /\ git' = git
    BY <1>2, BeginsCleanup
  <2>2. PICK seen :
           /\ of # 0 => seen.worktree = git.worktree
           /\ cleanup'[i].todo = PlanCleanup(accepted, seen)
           /\ cleanup'[i].of = of /\ git' = git
    BY <2>1
  <2>3. Own(i)' => of # 0
    BY <2>2 DEF Own
  <2> QED  BY <2>2, <2>3, PlanHolds
<1>3. CASE CleanupStep(i)
  <2> DEFINE s == cleanup[i].todo
  <2>1. s \in Seq(CleanupActions) /\ s # <<>> /\ cleanup'[i].todo # <<>>
    BY <1>s, <1>3, PlanMoves
  <2>2. /\ cleanup'[i].todo = Tail(s) /\ cleanup'[i].of = cleanup[i].of
    BY <1>3, <2>1, PlanMoves
  <2>3. /\ k + 1 \in DOMAIN s /\ s[k + 1] = "complete"
    BY <2>1, <2>2, TailHolds
  <2>4. /\ k + 1 = Len(s)
        /\ Own(i) /\ git.worktree => \E m \in DOMAIN s : s[m] = "worktree"
    BY <2>3 DEF PlansInOrder
  <2>5. k = Len(cleanup'[i].todo)
    <3>1. Len(Tail(s)) = Len(s) - 1 /\ k \in Nat /\ Len(s) \in Nat
      BY <2>1, <2>2
    <3> QED  BY <2>2, <2>4, <3>1
  <2>6. Head(s) = "worktree" /\ Own(i) => ~ git'.worktree
    <3>1. ASSUME Head(s) = "worktree"  PROVE RemoveWorktree(i)
      BY <1>3, <3>1 DEF CleanupStep, WriteDecision, UpdateManifest,
         DeleteLocalBranch, DeleteRemoteBranch, HermesComment, HermesComplete,
         Acting
    <3>2. ASSUME Fatal(i)  PROVE cleanup'[i].todo = <<>>
      BY <1>t, <3>2 DEF Fatal, Over, CleanupStates, NoCleanup
    <3>3. git \in Workspaces
      BY DEF TypeOK
    <3>4. ASSUME Head(s) = "worktree", Own(i)
          PROVE  git' = [git EXCEPT !["worktree"] = FALSE]
      BY <2>1, <3>1, <3>2, <3>4 DEF RemoveWorktree, Without
    <3> QED  BY <3>3, <3>4 DEF Workspaces
  <2>8. \A x : x # Head(s) /\ (\E m \in DOMAIN s : s[m] = x) =>
          \E m \in DOMAIN Tail(s) : Tail(s)[m] = x
    <3> SUFFICES ASSUME NEW x, x # Head(s), NEW m \in DOMAIN s, s[m] = x
                 PROVE  \E n \in DOMAIN Tail(s) : Tail(s)[n] = x
      OBVIOUS
    <3>1. m - 1 \in DOMAIN Tail(s) /\ Tail(s)[m - 1] = x
      BY <2>1, TailHolds
    <3> QED  BY <3>1
  <2> HIDE DEF s
  <2>9. ASSUME Own(i)', git'.worktree
        PROVE  \E m \in DOMAIN Tail(s) : Tail(s)[m] = "worktree"
    <3>1. Own(i) /\ git.worktree
      BY <2>2, <2>9, OwnBefore
    <3> QED  BY <2>4, <2>6, <2>8, <2>9, <3>1
  <2> QED  BY <2>2, <2>5, <2>9
<1> QED  BY <1>1, <1>2, <1>3, CleanupFrame

LEMMA StepHermes ==
  ASSUME Inv, Next
  PROVE  HermesToldAfterCleanup'
<1> USE DEF Inv
<1> SUFFICES ASSUME NEW i \in Calls, cleanup'[i].pc = "told", Own(i)'
             PROVE  ~ git'.worktree
  BY DEF HermesToldAfterCleanup
<1>1. CASE cleanup'[i].pc = cleanup[i].pc /\ cleanup'[i].of = cleanup[i].of
  BY <1>1, OwnBefore DEF HermesToldAfterCleanup
<1>2. CASE BeginCleanup(i)
  BY <1>2, BeginsCleanup
<1>3. CASE CleanupStep(i) /\ HermesComplete(i) /\ cleanup'[i].of = cleanup[i].of
  <2> DEFINE s == cleanup[i].todo
  <2>1. s \in Seq(CleanupActions) /\ s # <<>> /\ Head(s) = "complete"
    BY <1>3 DEF TypeOK, CleanupStates, HermesComplete, Acting
  <2>2. 1 \in DOMAIN s /\ s[1] = "complete"
    BY <2>1, TailHolds
  <2>3. /\ 1 = Len(s)
        /\ Own(i) /\ git.worktree => \E m \in DOMAIN s : s[m] = "worktree"
    BY <2>2 DEF PlansInOrder
  <2>4. \A m \in DOMAIN s : s[m] = "complete"
    BY <2>1, <2>2, <2>3
  <2> QED  BY <1>3, <2>3, <2>4, OwnBefore
<1> QED  BY <1>1, <1>2, <1>3, PlanMoves, CleanupFrame

-----------------------------------------------------------------------------
(* The invariant *)

LEMMA InitInv == Init => Inv
<1> SUFFICES ASSUME Init  PROVE Inv
  OBVIOUS
<1>1. TypeOK
  BY InitTypeOK
<1>2. /\ \A i \in Calls : proposal[i] = NoProposal /\ confirmation[i] = NoConfirmation
      /\ \A i \in Calls : engine[i] = NoRun /\ cleanup[i] = NoCleanup
  BY DEF Init
<1>3. CallsInOrder
  BY <1>2 DEF CallsInOrder
<1>4. ProposalsAreBound
  <2>1. PICK n \in Stages : task.facts = EvidenceAt(n)
    BY DEF Init
  <2>2. Coherent(task.facts)
    BY <2>1, CallFacts, EvidenceIsKnown
  <2> QED  BY <1>2, <2>2 DEF ProposalsAreBound, NoProposal
<1>5. ConfirmationsAreApart
  BY <1>2 DEF ConfirmationsAreApart, NoConfirmation
<1>6. Reserved = {}
  <2>1. \A a \in DOMAIN attempts : attempts[a].status = "waiting_approval"
    BY DEF Init
  <2> QED  BY <2>1 DEF Reserved, AttemptIds
<1>7. OneReservation
  BY <1>6 DEF OneReservation
<1>8. /\ ClaimsAreOwn /\ AuthorityKnowsNew /\ AcceptedResultIsOwn /\ RouteStops
  BY <1>2 DEF ClaimsAreOwn, AuthorityKnowsNew, AcceptedResultIsOwn, RouteStops,
     NoRun
<1>9. PlansInOrder
  <2>1. \A i \in Calls : cleanup[i].todo = <<>>
    BY <1>2 DEF NoCleanup
  <2> QED  BY <2>1 DEF PlansInOrder
<1>10. HermesToldAfterCleanup
  BY <1>2 DEF HermesToldAfterCleanup, NoCleanup
<1>11. WorkspacesAreClaimed
  <2>1. git.of = 0 \/ git.of \in AttemptIds
    <3>1. PICK n \in Stages :
             /\ git.of = IF n <= 1 THEN 0 ELSE 1
             /\ attempts = IF n <= 1 THEN <<>>
                           ELSE << [claimed |-> 0, born |-> 0,
                                    status |-> "waiting_approval"] >>
      BY DEF Init
    <3> QED  BY <3>1 DEF AttemptIds
  <2>2. \A i \in Calls : cleanup[i].of = 0
    BY <1>2 DEF NoCleanup
  <2> QED  BY <1>6, <2>1, <2>2 DEF WorkspacesAreClaimed
<1> QED  BY <1>1, <1>3, <1>4, <1>5, <1>7, <1>8, <1>9, <1>10, <1>11 DEF Inv

LEMMA StepInv == Inv /\ [Next]_vars => Inv'
<1> SUFFICES ASSUME Inv, [Next]_vars  PROVE Inv'
  OBVIOUS
<1>1. CASE Next
  BY <1>1, StepTypeOK, StepCallsInOrder, StepProposalsAreBound,
     StepConfirmationsAreApart, StepRuns, StepWorkspacesAreClaimed,
     StepPlansInOrder, StepHermes DEF Inv
<1>2. CASE UNCHANGED vars
  <2> USE <1>2 DEF vars, Inv
  <2>1. TypeOK' /\ CallsInOrder'
    BY DEF TypeOK, CallsInOrder
  <2>2. ProposalsAreBound'
    BY DEF ProposalsAreBound
  <2>3. ConfirmationsAreApart'
    BY DEF ConfirmationsAreApart, ConfirmationRows, HasRow
  <2>4. OneReservation' /\ ClaimsAreOwn' /\ AuthorityKnowsNew'
    BY DEF OneReservation, ClaimsAreOwn, AuthorityKnowsNew, Reserved, AttemptIds
  <2>5. AcceptedResultIsOwn' /\ RouteStops'
    BY DEF AcceptedResultIsOwn, RouteStops
  <2>6. PlansInOrder' /\ HermesToldAfterCleanup' /\ WorkspacesAreClaimed'
    BY DEF PlansInOrder, HermesToldAfterCleanup, WorkspacesAreClaimed, Own,
       Reserved, AttemptIds
  <2> QED  BY <2>1, <2>2, <2>3, <2>4, <2>5, <2>6
<1> QED  BY <1>1, <1>2

\* The strengthened invariant holds in every reachable state: calls begin in
\* order, what was hashed is what was read, claims are exclusive, and a plan
\* that tells Hermes still holds the worktree if it is there.
THEOREM InvHolds == Spec => []Inv
BY InitInv, StepInv, PTL DEF Spec

\* Every variable of the pipeline keeps its shape, whatever the interleaving of
\* the calls, the records from outside and the crashes.
THEOREM TypesHold == Spec => []TypeOK
<1>1. Inv => TypeOK
  BY DEF Inv
<1> QED  BY <1>1, InvHolds, PTL

\* An executable proposal fits the evidence it was made from, and whatever
\* discovery sends to a proposal a proposal can carry (_recommend_for_context,
\* _build_candidate, discover_scheduler_candidates).
THEOREM ProposalsFollowEvidence == Spec => []ProposalFollowsEvidence
<1>1. Inv => ProposalFollowsEvidence
  <2> SUFFICES ASSUME Inv  PROVE ProposalFollowsEvidence
    OBVIOUS
  <2>1. DiscoveryAsksForProposal(Context) => Selected(Context, task.status = "completed")
    BY ContextTypes, DiscoveredIsSelected DEF Inv, Context
  <2>2. ASSUME NEW i \in Calls, proposal[i].item # NoItem, proposal[i].item.executable
        PROVE  /\ proposal[i].item.context \in Contexts
               /\ proposal[i].item.kind = Recommend(proposal[i].item.context)
               /\ Executable(proposal[i].item.context)
               /\ Coherent(proposal[i].item.context.facts)
    <3>1. proposal[i].item \in Items
      BY <2>2 DEF Inv, TypeOK, ProposalStates
    <3> QED  BY <2>2, <3>1 DEF Inv, ProposalsAreBound, Items
  <2> QED  BY <2>1, <2>2, ExecutableFits DEF ProposalFollowsEvidence
<1> QED  BY <1>1, InvHolds, PTL

\* No confirmation repeats one on record when it was checked, and each is read
\* back once (_count_duplicate_confirmations,
\* _read_task_scheduler_confirmation_items).
THEOREM ConfirmationsApart == Spec => []NoRepeatConfirmation
<1>1. Inv => NoRepeatConfirmation
  <2> SUFFICES ASSUME Inv  PROVE NoRepeatConfirmation
    OBVIOUS
  <2>1. ASSUME NEW c \in ConfirmationRows, NEW d \in ConfirmationRows,
               confirmation[c].item = confirmation[d].item
        PROVE  c \notin confirmation[d].seen
    BY <2>1 DEF Inv, ConfirmationsAreApart, ConfirmationRows
  <2>2. ASSUME NEW c \in ConfirmationRows
        PROVE  Cardinality({r \in ConfirmationReadback : r.of = c}) = 1
    <3> DEFINE x == [of |-> c, from |-> IF c \in ConfirmationEvents THEN "event"
                                                                    ELSE "artifact"]
               found == {r \in ConfirmationReadback : r.of = c}
    <3>1. x \in found
      BY DEF ConfirmationReadback
    <3>2. \A r \in found : r = x
      BY DEF ConfirmationReadback
    <3>3. found = {x}
      BY <3>1, <3>2
    <3> QED  BY <3>3, FS_Singleton
  <2> QED  BY <2>1, <2>2 DEF NoRepeatConfirmation
<1> QED  BY <1>1, InvHolds, PTL

\* A result the authority accepts is of an Attempt that this call claimed, that
\* ended validated and that did not exist when the call began
\* (execute_from_runtime_handoff, verify_canonical_attempt).
THEOREM AcceptedIsOwn == Spec => []AcceptedResultIsOwn
<1>1. Inv => AcceptedResultIsOwn
  BY DEF Inv
<1> QED  BY <1>1, InvHolds, PTL

\* A cleanup that looks at a run's workspace tells Hermes that the task is
\* complete only once that worktree is gone, for any number of verdicts, resets
\* and runs beside it (main of kanban_accept_cleanup.py).
THEOREM HermesIsToldLast == Spec => []HermesToldAfterCleanup
<1>1. Inv => HermesToldAfterCleanup
  BY DEF Inv
<1> QED  BY <1>1, InvHolds, PTL
=============================================================================
