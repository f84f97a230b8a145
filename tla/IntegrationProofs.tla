------------------------- MODULE IntegrationProofs -------------------------
(***************************************************************************)
(* Proofs of the safety properties of Integration for every set of Tickets, *)
(* any number of versions of the target and any number of killed ticks.     *)
(***************************************************************************)
EXTENDS Integration, TLAPS

USE DEF ticketVars, recordVars, gitVars, hubVars, tickVars, historyVars,
        ReconcileCrashed, CrashTo, DiedEarly, AbortUpdate

-----------------------------------------------------------------------------
(* Types *)

LEMMA TickSteps ==
  ASSUME TicketsOK, TickOK
  PROVE  /\ EndTick => TickOK'
         /\ \A l \in PCs : At(l) => TickOK'
         /\ \A l \in PCs, S \in SUBSET Tickets : BeginPhase(l, S) => TickOK'
         /\ \A l \in PCs, t \in Tickets : Visit(t, l) => TickOK'
         /\ \A t \in Tickets : Skip(t) => TickOK'
         /\ \A l \in PCs : Leave(l) => TickOK'
<1> USE DEF TicketsOK, TickOK
<1>1. "idle" \in PCs /\ "working" \in Statuses
  BY DEF PCs, Statuses
<1>2. NoSnapshot \in Snapshots
  BY DEF NoSnapshot, Snapshots
<1>3. NoRun \in Runs
  BY RevAssumption, TargetAssumption DEF NoRun, Runs, NoCommit, Commits
<1>4. NothingRead \in [Tickets -> Statuses]
  BY <1>1 DEF NothingRead
<1>5. EndTick => TickOK'
  BY <1>1, <1>2, <1>3, <1>4 DEF EndTick
<1>6. \A l \in PCs : At(l) => TickOK'
  BY DEF At
<1>7. \A l \in PCs, S \in SUBSET Tickets : BeginPhase(l, S) => TickOK'
  BY <1>1 DEF BeginPhase
<1>8. \A l \in PCs, t \in Tickets : Visit(t, l) => TickOK'
  BY DEF Visit
<1>9. \A t \in Tickets : Skip(t) => TickOK'
  BY <1>1 DEF Skip
<1>10. \A l \in PCs : Leave(l) => TickOK'
  BY <1>1, <1>2, <1>3 DEF Leave
<1> QED  BY <1>5, <1>6, <1>7, <1>8, <1>9, <1>10

LEMMA Typed ==
  ASSUME TypeOK
  PROVE  /\ OpenPrs \in SUBSET Tickets /\ MergedUnverified \in SUBSET Tickets
         /\ run.want \in 0..MaxTarget /\ run.tip \in Commits
         /\ run.state \in {"open", "closed"}
         /\ target \in 0..MaxTarget
         /\ NoCommit \in Commits
         /\ NoChild \in Children
         /\ \A t \in Tickets :
              Create(t) \in Children /\ Push(t, local[t]) \in Children
<1>1. OpenPrs \in SUBSET Tickets /\ MergedUnverified \in SUBSET Tickets
  BY DEF OpenPrs, MergedUnverified, TypeOK, RecordsOK
<1>2. /\ run.want \in 0..MaxTarget /\ run.tip \in Commits
      /\ run.state \in {"open", "closed"}
  BY DEF TypeOK, TickOK, Runs
<1>3. NoCommit \in Commits
  BY RevAssumption, TargetAssumption DEF NoCommit, Commits
<1>4. NoChild \in Children
  BY DEF Children
<1>5. \A t \in Tickets : Create(t) \in Children /\ Push(t, local[t]) \in Children
  BY <1>2, <1>3 DEF Create, Push, Children, TypeOK, GitOK
<1>6. target \in 0..MaxTarget
  BY TargetAssumption DEF TypeOK, GitOK
<1> QED  BY <1>1, <1>2, <1>3, <1>4, <1>5, <1>6

\* The work in a branch grows by one commit, or takes in the target.
LEMMA LocalMoves ==
  ASSUME GitOK, NEW t \in Tickets
  PROVE  /\ local[t][1] < MaxRev =>
              [local EXCEPT ![t] = <<@[1] + 1, @[2]>>] \in [Tickets -> Commits]
         /\ local[t][1] < MaxRev => \A v \in 0..MaxTarget :
              [local EXCEPT ![t] = <<@[1] + 1, v>>] \in [Tickets -> Commits]
         /\ \A v \in 0..MaxTarget :
              /\ <<local[t][1], v>> \in Commits
              /\ [local EXCEPT ![t] = <<local[t][1], v>>] \in [Tickets -> Commits]
<1>1. local[t] \in Commits
  BY DEF GitOK
<1>2. local[t][1] \in 0..MaxRev /\ local[t][2] \in 0..MaxTarget
  BY <1>1 DEF Commits
<1>3. local[t][1] < MaxRev =>
        \A v \in 0..MaxTarget : <<local[t][1] + 1, v>> \in Commits
  BY <1>2, RevAssumption DEF Commits
<1>4. \A v \in 0..MaxTarget : <<local[t][1], v>> \in Commits
  BY <1>2 DEF Commits
<1> QED  BY <1>2, <1>3, <1>4 DEF GitOK

LEMMA StepTypeOK ==
  ASSUME CommonInv, Next
  PROVE  TypeOK'
<1>1. TypeOK /\ CurIsTicket /\ PolledIsRecorded
  BY DEF CommonInv
<1>2. TicketsOK /\ RecordsOK /\ GitOK /\ TickOK
  BY <1>1 DEF TypeOK
<1>3. pc \in VisitPCs => cur \in Tickets
  BY <1>1 DEF CurIsTicket
<1>4. CASE LockStep
  <2> USE <1>1, <1>2, <1>3, TickSteps, Typed DEF TypeOK, VisitPCs, PCs, GitPhase,
        PolledPCs, CleanupPCs
  <2>1. ASSUME StartTick PROVE TypeOK'
    BY <2>1 DEF StartTick, TicketsOK, RecordsOK, GitOK, SetStatus, SetMarker,
       Statuses, Markers
  <2>2. ASSUME AcquireHeld PROVE TypeOK'
    BY <2>2 DEF AcquireHeld, TicketsOK, RecordsOK, GitOK, SetStatus, SetMarker,
       Statuses, Markers
  <2>3. ASSUME ReconciledFirst PROVE TypeOK'
    BY <2>3 DEF ReconciledFirst, TicketsOK, RecordsOK, GitOK, SetStatus,
       SetMarker, Statuses, Markers
  <2>4. ASSUME NEW t \in Tickets, Reconcile(t) PROVE TickOK'
    <3>1. CASE status[t] = "integrating"
      BY <2>4, <3>1 DEF Reconcile, TickOK
    <3>2. CASE status[t] # "integrating"
      BY <2>4, <3>2 DEF Reconcile
    <3> QED  BY <3>1, <3>2
  <2>5. ASSUME NEW t \in Tickets, Reconcile(t) PROVE TypeOK'
    BY <2>5, <2>4 DEF Reconcile, TicketsOK, RecordsOK, GitOK, SetStatus,
       SetMarker, Statuses, Markers, CrashTarget
  <2>6. ASSUME NEW a \in PCs, NEW b \in PCs, Acquire(a, b) PROVE TypeOK'
    BY <2>6 DEF Acquire, TickOK, TicketsOK, RecordsOK, GitOK, NoChild, Children
  <2> QED  BY <1>4, <2>1, <2>2, <2>3, <2>5, <2>6 DEF LockStep
<1>5. CASE OutcomesStep
  <2> USE <1>1, <1>2, <1>3, TickSteps, Typed DEF TypeOK, VisitPCs, PCs, GitPhase,
        PolledPCs, CleanupPCs
  <2>1. ASSUME NEW t \in Tickets, PollDeferred(t) PROVE TypeOK'
    BY <2>1 DEF PollDeferred, TicketsOK, RecordsOK, GitOK, SetStatus,
       SetMarker, Statuses, Markers
  <2>2. ASSUME NEW t \in Tickets, PollFails(t) PROVE TypeOK'
    BY <2>2 DEF PollFails, TicketsOK, RecordsOK, GitOK, SetStatus, SetMarker,
       Statuses, Markers
  <2>3. ASSUME NEW t \in Tickets, PollEscalates(t) PROVE TypeOK'
    BY <2>3 DEF PollEscalates, TicketsOK, RecordsOK, GitOK, SetStatus,
       SetMarker, Statuses, Markers
  <2>4. ASSUME NEW t \in Tickets, Poll(t) PROVE TickOK'
    BY <2>4 DEF Poll, TickOK, GitOK, Snapshots, PolledIsRecorded
  <2>5. ASSUME NEW t \in Tickets, Poll(t) PROVE TypeOK'
    BY <2>5, <2>4 DEF Poll, TicketsOK, RecordsOK, GitOK, SetStatus, SetMarker,
       Statuses, Markers
  <2>6. ASSUME Feedback PROVE TickOK'
    BY <2>6 DEF Feedback, TickOK, TicketsOK, Statuses
  <2>7. ASSUME Feedback PROVE TypeOK'
    BY <2>7, <2>6 DEF Feedback, TicketsOK, RecordsOK, GitOK, SetStatus,
       SetMarker, Statuses, Markers
  <2>8. ASSUME RecordPolled PROVE TypeOK'
    BY <2>8 DEF RecordPolled, TicketsOK, RecordsOK, GitOK, SetStatus,
       SetMarker, Statuses, Markers
  <2>9. ASSUME ApplyMerge PROVE TypeOK'
    BY <2>9 DEF ApplyMerge, TicketsOK, RecordsOK, GitOK, SetStatus, SetMarker,
       Statuses, Markers
  <2>10. ASSUME ApplyReview PROVE TypeOK'
    BY <2>10 DEF ApplyReview, TicketsOK, RecordsOK, GitOK, SetStatus,
       SetMarker, Statuses, Markers
  <2>11. ASSUME ApplyReviewStatus PROVE TypeOK'
    BY <2>11 DEF ApplyReviewStatus, TicketsOK, RecordsOK, GitOK, SetStatus,
       SetMarker, Statuses, Markers
  <2>12. ASSUME ApplyClosed PROVE TypeOK'
    BY <2>12 DEF ApplyClosed, TicketsOK, RecordsOK, GitOK, SetStatus,
       SetMarker, Statuses, Markers
  <2>13. ASSUME LeaveQueue PROVE TypeOK'
    BY <2>13 DEF LeaveQueue, TicketsOK, RecordsOK, GitOK, SetStatus, SetMarker,
       Statuses, Markers
  <2>14. ASSUME OutcomesDone PROVE TypeOK'
    BY <2>14 DEF OutcomesDone, TicketsOK, RecordsOK, GitOK, SetStatus,
       SetMarker, Statuses, Markers
  <2> QED  BY <1>5, <2>1, <2>2, <2>3, <2>5, <2>7, <2>8, <2>9, <2>10, <2>11, <2>12,
     <2>13, <2>14 DEF OutcomesStep
<1>6. CASE CleanupStep
  <2> USE <1>1, <1>2, <1>3, TickSteps, Typed DEF TypeOK, VisitPCs, PCs, GitPhase,
        PolledPCs, CleanupPCs
  <2>1. ASSUME NEW t \in Tickets, CleanupRefused(t) PROVE TypeOK'
    BY <2>1 DEF CleanupRefused, TicketsOK, RecordsOK, GitOK, SetStatus,
       SetMarker, Statuses, Markers
  <2>2. ASSUME NEW t \in Tickets, CleanupBegins(t) PROVE TickOK'
    BY <2>2 DEF CleanupBegins, TickOK, TicketsOK
  <2>3. ASSUME NEW t \in Tickets, CleanupBegins(t) PROVE TypeOK'
    BY <2>3, <2>2 DEF CleanupBegins, TicketsOK, RecordsOK, GitOK, SetStatus,
       SetMarker, Statuses, Markers
  <2>4. ASSUME VerifyFails PROVE TypeOK'
    BY <2>4 DEF VerifyFails, TicketsOK, RecordsOK, GitOK, SetStatus, SetMarker,
       Statuses, Markers
  <2>5. ASSUME VerifyMerge PROVE TickOK'
    BY <2>5 DEF VerifyMerge, TickOK, GitOK, Runs
  <2>6. ASSUME VerifyMerge PROVE TypeOK'
    BY <2>6, <2>5 DEF VerifyMerge, TicketsOK, RecordsOK, GitOK, SetStatus,
       SetMarker, Statuses, Markers
  <2>7. ASSUME RemoveWorktree PROVE TypeOK'
    BY <2>7 DEF RemoveWorktree, TicketsOK, RecordsOK, GitOK, SetStatus,
       SetMarker, Statuses, Markers
  <2>8. ASSUME DeleteBranch PROVE TypeOK'
    BY <2>8 DEF DeleteBranch, TicketsOK, RecordsOK, GitOK, SetStatus,
       SetMarker, Statuses, Markers
  <2>9. ASSUME Complete PROVE TypeOK'
    BY <2>9 DEF Complete, TicketsOK, RecordsOK, GitOK, SetStatus, SetMarker,
       Statuses, Markers
  <2>10. ASSUME CompletedLeavesQueue PROVE TypeOK'
    BY <2>10 DEF CompletedLeavesQueue, TicketsOK, RecordsOK, GitOK, SetStatus,
       SetMarker, Statuses, Markers
  <2>11. ASSUME CleanupDone PROVE TypeOK'
    BY <2>11 DEF CleanupDone, TicketsOK, RecordsOK, GitOK, SetStatus,
       SetMarker, Statuses, Markers
  <2> QED  BY <1>6, <2>1, <2>3, <2>4, <2>6, <2>7, <2>8, <2>9, <2>10, <2>11 DEF
     CleanupStep
<1>7. CASE FreshnessStep
  <2> USE <1>1, <1>2, <1>3, TickSteps, Typed DEF TypeOK, VisitPCs, PCs, GitPhase,
        PolledPCs, CleanupPCs
  <2>1. ASSUME NEW t \in Tickets, FreshnessSkips(t) PROVE TypeOK'
    BY <2>1 DEF FreshnessSkips, TicketsOK, RecordsOK, GitOK, SetStatus,
       SetMarker, Statuses, Markers
  <2>2. ASSUME NEW t \in Tickets, FreshnessStale(t) PROVE TypeOK'
    BY <2>2 DEF FreshnessStale, TicketsOK, RecordsOK, GitOK, SetStatus,
       SetMarker, Statuses, Markers
  <2>3. ASSUME Requeue PROVE TypeOK'
    BY <2>3 DEF Requeue, TicketsOK, RecordsOK, GitOK, SetStatus, SetMarker,
       Statuses, Markers
  <2>4. ASSUME FreshnessDone PROVE TypeOK'
    BY <2>4 DEF FreshnessDone, TicketsOK, RecordsOK, GitOK, SetStatus,
       SetMarker, Statuses, Markers
  <2> QED  BY <1>7, <2>1, <2>2, <2>3, <2>4 DEF FreshnessStep
<1>8. CASE DrainStep
  <2> USE <1>1, <1>2, <1>3, TickSteps, Typed DEF TypeOK, VisitPCs, PCs, GitPhase,
        PolledPCs, CleanupPCs
  <2>1. ASSUME NEW t \in Tickets, DrainSkips(t) PROVE TypeOK'
    BY <2>1 DEF DrainSkips, TicketsOK, RecordsOK, GitOK, SetStatus, SetMarker,
       Statuses, Markers
  <2>2. ASSUME NEW t \in Tickets, DrainVisits(t) PROVE TypeOK'
    BY <2>2 DEF DrainVisits, TicketsOK, RecordsOK, GitOK, SetStatus, SetMarker,
       Statuses, Markers
  <2>3. ASSUME DrainDone PROVE TypeOK'
    BY <2>3 DEF DrainDone, TicketsOK, RecordsOK, GitOK, SetStatus, SetMarker,
       Statuses, Markers
  <2>4. ASSUME Begin PROVE TypeOK'
    BY <2>4 DEF Begin, TicketsOK, RecordsOK, GitOK, SetStatus, SetMarker,
       Statuses, Markers
  <2>5. ASSUME StartRun PROVE TypeOK'
    BY <2>5 DEF StartRun, TicketsOK, RecordsOK, GitOK, SetStatus, SetMarker,
       Statuses, Markers
  <2>6. ASSUME Fetch PROVE TickOK'
    BY <2>6 DEF Fetch, TickOK, Runs
  <2>7. ASSUME Fetch PROVE TypeOK'
    BY <2>7, <2>6 DEF Fetch, TicketsOK, RecordsOK, GitOK, SetStatus, SetMarker,
       Statuses, Markers
  <2>8. ASSUME Update PROVE TickOK'
    BY <2>8, LocalMoves DEF Update, TickOK, Runs
  <2>9. ASSUME Update PROVE TypeOK'
    BY <2>9, <2>8, LocalMoves DEF Update, TicketsOK, RecordsOK, GitOK,
       SetStatus, SetMarker, Statuses, Markers
  <2>10. ASSUME ValidatorCommits PROVE TypeOK'
    BY <2>10, LocalMoves DEF ValidatorCommits, TicketsOK, RecordsOK, GitOK,
       SetStatus, SetMarker, Statuses, Markers, TickOK
  <2>11. ASSUME Validate PROVE TypeOK'
    BY <2>11 DEF Validate, TicketsOK, RecordsOK, GitOK, SetStatus, SetMarker,
       Statuses, Markers
  <2>12. ASSUME CheckHead \/ MarkPublishing PROVE TypeOK'
    BY <2>12 DEF CheckHead, MarkPublishing, TicketsOK, RecordsOK, GitOK,
       SetMarker, Markers
  <2>25. ASSUME StartPush PROVE TypeOK'
    BY <2>25 DEF StartPush, TicketsOK, RecordsOK, GitOK
  <2>13. ASSUME Pushed PROVE TypeOK'
    BY <2>13 DEF Pushed, TicketsOK, RecordsOK, GitOK, SetStatus, SetMarker,
       Statuses, Markers, PushLands, CommonInv, ChildIsCurrent, Children, NoChild
  <2>14. ASSUME PublishNew PROVE TypeOK'
    BY <2>14 DEF PublishNew, TicketsOK, RecordsOK, GitOK, SetStatus, SetMarker,
       Statuses, Markers
  <2>15. ASSUME PublishAgain PROVE TickOK'
    BY <2>15 DEF PublishAgain, TickOK, Runs
  <2>16. ASSUME PublishAgain PROVE TypeOK'
    BY <2>16, <2>15 DEF PublishAgain, TicketsOK, RecordsOK, GitOK, SetStatus,
       SetMarker, Statuses, Markers
  <2>17. ASSUME Created PROVE TypeOK'
    BY <2>17 DEF Created, TicketsOK, RecordsOK, GitOK, SetStatus, SetMarker,
       Statuses, Markers, PrOpens
  <2>18. ASSUME RecordPr PROVE TypeOK'
    BY <2>18 DEF RecordPr, TicketsOK, RecordsOK, GitOK, SetStatus, SetMarker,
       Statuses, Markers
  <2>19. ASSUME RecordCompleted PROVE TypeOK'
    BY <2>19 DEF RecordCompleted, TicketsOK, RecordsOK, GitOK, SetStatus,
       SetMarker, Statuses, Markers
  <2>20. ASSUME EnterReview PROVE TypeOK'
    BY <2>20 DEF EnterReview, TicketsOK, RecordsOK, GitOK, SetStatus,
       SetMarker, Statuses, Markers
  <2>21. ASSUME GitPhaseFails PROVE TypeOK'
    BY <2>21 DEF GitPhaseFails, TicketsOK, RecordsOK, GitOK, SetStatus,
       SetMarker, Statuses, Markers
  <2>22. ASSUME GitPhaseRaises PROVE TypeOK'
    BY <2>22 DEF GitPhaseRaises, TicketsOK, RecordsOK, GitOK, SetStatus,
       SetMarker, Statuses, Markers
  <2>23. ASSUME StopForDecision PROVE TypeOK'
    BY <2>23 DEF StopForDecision, TicketsOK, RecordsOK, GitOK, SetStatus,
       SetMarker, Statuses, Markers
  <2> QED  BY <1>8, <2>25, <2>1, <2>2, <2>3, <2>4, <2>5, <2>7, <2>9, <2>10,
     <2>11, <2>12,
     <2>13, <2>14, <2>16, <2>17, <2>18, <2>19, <2>20, <2>21, <2>22, <2>23 DEF
     DrainStep
<1>9. CASE OrphanStep
  <2> USE <1>1, <1>2, <1>3, TickSteps, Typed DEF TypeOK, VisitPCs, PCs, GitPhase,
        PolledPCs, CleanupPCs
  <2>1. ASSUME OrphanPushes PROVE TypeOK'
    BY <2>1 DEF OrphanPushes, TicketsOK, RecordsOK, GitOK, SetStatus,
       SetMarker, Statuses, Markers, PushLands, Orphan, Children, NoChild,
       TickOK
  <2>2. ASSUME OrphanCreates PROVE TypeOK'
    BY <2>2 DEF OrphanCreates, TicketsOK, RecordsOK, GitOK, SetStatus,
       SetMarker, Statuses, Markers, PrOpens, Orphan, Children, NoChild, TickOK
  <2>3. ASSUME OrphanDies PROVE TypeOK'
    BY <2>3 DEF OrphanDies, TicketsOK, RecordsOK, GitOK, SetStatus, SetMarker,
       Statuses, Markers, TickOK
  <2> QED  BY <1>9, <2>1, <2>2, <2>3 DEF OrphanStep
<1>10. CASE Elsewhere
  <2> USE <1>1, <1>2, <1>3, TickSteps, Typed DEF TypeOK, VisitPCs, PCs, GitPhase,
        PolledPCs, CleanupPCs
  <2>1. ASSUME TargetAdvances PROVE TypeOK'
    BY <2>1, TargetAssumption DEF TargetAdvances, TicketsOK, RecordsOK, GitOK,
       SetStatus, SetMarker, Statuses, Markers, TickOK
  <2>2. ASSUME NEW t \in Tickets, WorkerCommits(t) PROVE TypeOK'
    <3>1. local' \in [Tickets -> Commits]
      <4>1. PICK b \in 0..MaxTarget : local' = [local EXCEPT ![t] = <<@[1] + 1, b>>]
        BY <2>2 DEF WorkerCommits
      <4>2. local[t][1] < MaxRev
        BY <2>2 DEF WorkerCommits
      <4> QED  BY <4>1, <4>2, LocalMoves
    <3>2. midway' \subseteq Tickets
      BY <2>2 DEF WorkerCommits, GitOK
    <3> QED  BY <2>2, <3>1, <3>2 DEF WorkerCommits, TicketsOK, RecordsOK, GitOK,
       TickOK
  <2>3. ASSUME NEW t \in Tickets, WorkerStops(t) PROVE TypeOK'
    BY <2>3 DEF WorkerStops, TicketsOK, RecordsOK, GitOK, SetStatus, SetMarker,
       Statuses, Markers, TickOK
  <2>12. ASSUME NEW t \in Tickets, AuditReason(t) PROVE TypeOK'
    BY <2>12 DEF AuditReason, TicketsOK, RecordsOK, GitOK, SetStatus, Statuses,
       TickOK
  <2>4. ASSUME NEW t \in Tickets, WorkerFinishes(t) PROVE TypeOK'
    BY <2>4 DEF WorkerFinishes, TicketsOK, RecordsOK, GitOK, SetStatus,
       SetMarker, Statuses, Markers, TickOK
  <2>5. ASSUME NEW t \in Tickets, HandoffCompleted(t) PROVE TypeOK'
    BY <2>5 DEF HandoffCompleted, TicketsOK, RecordsOK, GitOK, SetStatus,
       SetMarker, Statuses, Markers, TickOK
  <2>6. ASSUME NEW t \in Tickets, HumanMerges(t) PROVE TypeOK'
    BY <2>6, TargetAssumption DEF HumanMerges, TicketsOK, RecordsOK, GitOK,
       SetStatus, SetMarker, Statuses, Markers, TickOK
  <2>7. ASSUME NEW t \in Tickets, HumanCloses(t) PROVE TypeOK'
    BY <2>7 DEF HumanCloses, TicketsOK, RecordsOK, GitOK, SetStatus, SetMarker,
       Statuses, Markers, TickOK
  <2>8. ASSUME NEW t \in Tickets, HumanReviews(t) PROVE TypeOK'
    BY <2>8 DEF HumanReviews, TicketsOK, RecordsOK, GitOK, SetStatus,
       SetMarker, Statuses, Markers, TickOK
  <2>9. ASSUME NEW t \in Tickets, Retry(t) PROVE TypeOK'
    BY <2>9 DEF Retry, TicketsOK, RecordsOK, GitOK, SetStatus, SetMarker,
       Statuses, Markers, TickOK
  <2>10. ASSUME NEW t \in Tickets, Rework(t) PROVE TypeOK'
    BY <2>10 DEF Rework, TicketsOK, RecordsOK, GitOK, SetStatus, SetMarker,
       Statuses, Markers, TickOK
  <2>11. ASSUME NEW t \in Tickets, Redirect(t) PROVE TypeOK'
    BY <2>11 DEF Redirect, TicketsOK, RecordsOK, GitOK, SetStatus, SetMarker,
       Statuses, Markers, TickOK
  <2> QED  BY <1>10, <2>1, <2>2, <2>3, <2>4, <2>5, <2>6, <2>7, <2>8, <2>9,
     <2>10, <2>11,
     <2>12 DEF Elsewhere
<1>11. CASE Crash
  BY <1>11, <1>1, <1>2, TickSteps, CrashesAssumption DEF Crash, TypeOK,
     TicketsOK, RecordsOK, GitOK
<1> QED  BY <1>4, <1>5, <1>6, <1>7, <1>8, <1>9, <1>10, <1>11 DEF Next, TickStep

-----------------------------------------------------------------------------
(* What holds with and without blockers *)

\* Every step into the work on a Ticket sets cur.
LEMMA StepCurIsTicket ==
  ASSUME CommonInv, Next, TypeOK'
  PROVE  CurIsTicket'
<1> USE DEF At, EndTick, BeginPhase, Visit, Skip, Leave, VisitPCs, PolledPCs,
    CleanupPCs, GitPhase, CommonInv, CurIsTicket
<1>1. CASE LockStep
  BY <1>1 DEF LockStep, StartTick, Acquire, AcquireHeld, ReconciledFirst,
     Reconcile
<1>2. CASE OutcomesStep
  BY <1>2 DEF OutcomesStep, PollDeferred, PollFails, PollEscalates, Poll,
     Feedback, RecordPolled, ApplyMerge, ApplyReview, ApplyReviewStatus,
     ApplyClosed, LeaveQueue, OutcomesDone
<1>3. CASE CleanupStep
  BY <1>3 DEF CleanupStep, CleanupRefused, CleanupBegins, VerifyFails,
     VerifyMerge, RemoveWorktree, DeleteBranch, Complete, CompletedLeavesQueue,
     CleanupDone
<1>4. CASE FreshnessStep
  BY <1>4 DEF FreshnessStep, FreshnessSkips, FreshnessStale, Requeue,
     FreshnessDone
<1>5. CASE DrainStep
  BY <1>5 DEF DrainStep, DrainSkips, DrainVisits, DrainDone, Begin, StartRun,
     Fetch, Update, ValidatorCommits, Validate, CheckHead, MarkPublishing,
     StartPush, Pushed,
     PublishNew, PublishAgain, Created, RecordPr, RecordCompleted, EnterReview,
     GitPhaseFails, GitPhaseRaises, StopForDecision
<1>6. CASE OrphanStep
  BY <1>6 DEF OrphanStep, OrphanPushes, OrphanCreates, OrphanDies
<1>7. CASE Elsewhere
  BY <1>7 DEF Elsewhere, TargetAdvances, WorkerCommits, WorkerStops, AuditReason,
     WorkerFinishes, HandoffCompleted, HumanMerges, HumanCloses, HumanReviews,
     Retry, Rework, Redirect
<1>8. CASE Crash
  BY <1>8 DEF Crash
<1> HIDE DEF CurIsTicket
<1> QED  BY <1>1, <1>2, <1>3, <1>4, <1>5, <1>6, <1>7, <1>8 DEF Next, TickStep

\* pr leaves "none" in RecordPr only, after Created.
LEMMA StepPolledIsRecorded ==
  ASSUME CommonInv, Next, TypeOK'
  PROVE  PolledIsRecorded'
<1> USE Typed DEF At, EndTick, BeginPhase, Visit, Skip, Leave, VisitPCs,
    PolledPCs, CleanupPCs, GitPhase, CommonInv, CurIsTicket, TypeOK, RecordsOK,
    GitOK, PolledIsRecorded, OpenPrs, PrOpens
<1>1. CASE LockStep
  BY <1>1 DEF LockStep, StartTick, Acquire, AcquireHeld, ReconciledFirst,
     Reconcile
<1>2. CASE OutcomesStep
  <2>1. CASE \E t \in Tickets : PollDeferred(t)
    BY <2>1 DEF PollDeferred
  <2>2. CASE \E t \in Tickets : PollFails(t)
    BY <2>2 DEF PollFails
  <2>3. CASE \E t \in Tickets : PollEscalates(t)
    BY <2>3 DEF PollEscalates
  <2>4. CASE \E t \in Tickets : Poll(t)
    BY <2>4 DEF Poll
  <2>5. CASE Feedback
    BY <2>5 DEF Feedback
  <2>6. CASE RecordPolled
    BY <2>6 DEF RecordPolled
  <2>7. CASE ApplyMerge
    BY <2>7 DEF ApplyMerge
  <2>8. CASE ApplyReview
    BY <2>8 DEF ApplyReview
  <2>9. CASE ApplyReviewStatus
    BY <2>9 DEF ApplyReviewStatus
  <2>10. CASE ApplyClosed
    BY <2>10 DEF ApplyClosed
  <2>11. CASE LeaveQueue
    BY <2>11 DEF LeaveQueue
  <2>12. CASE OutcomesDone
    BY <2>12 DEF OutcomesDone
  <2> QED  BY <1>2, <2>1, <2>2, <2>3, <2>4, <2>5, <2>6, <2>7, <2>8, <2>9,
     <2>10, <2>11,
     <2>12 DEF OutcomesStep
<1>3. CASE CleanupStep
  BY <1>3 DEF CleanupStep, CleanupRefused, CleanupBegins, VerifyFails,
     VerifyMerge, RemoveWorktree, DeleteBranch, Complete, CompletedLeavesQueue,
     CleanupDone
<1>4. CASE FreshnessStep
  BY <1>4 DEF FreshnessStep, FreshnessSkips, FreshnessStale, Requeue,
     FreshnessDone
<1>5. CASE DrainStep
  <2>1. CASE \E t \in Tickets : DrainSkips(t)
    BY <2>1 DEF DrainSkips
  <2>2. CASE \E t \in Tickets : DrainVisits(t)
    BY <2>2 DEF DrainVisits
  <2>3. CASE DrainDone
    BY <2>3 DEF DrainDone
  <2>4. CASE Begin
    BY <2>4 DEF Begin
  <2>5. CASE StartRun
    BY <2>5 DEF StartRun
  <2>6. CASE Fetch
    BY <2>6 DEF Fetch
  <2>7. CASE Update
    BY <2>7 DEF Update
  <2>8. CASE ValidatorCommits
    BY <2>8 DEF ValidatorCommits
  <2>9. CASE Validate
    BY <2>9 DEF Validate
  <2>10. CASE CheckHead \/ MarkPublishing
    BY <2>10 DEF CheckHead, MarkPublishing
  <2>25. CASE StartPush
    BY <2>25 DEF StartPush
  <2>11. CASE Pushed
    BY <2>11 DEF Pushed
  <2>12. CASE PublishNew
    BY <2>12 DEF PublishNew
  <2>13. CASE PublishAgain
    BY <2>13 DEF PublishAgain
  <2>14. CASE Created
    BY <2>14 DEF Created
  <2>15. CASE RecordPr
    BY <2>15 DEF RecordPr
  <2>16. CASE RecordCompleted
    BY <2>16 DEF RecordCompleted
  <2>17. CASE EnterReview
    BY <2>17 DEF EnterReview
  <2>18. CASE GitPhaseFails
    BY <2>18 DEF GitPhaseFails
  <2>19. CASE GitPhaseRaises
    BY <2>19 DEF GitPhaseRaises
  <2>20. CASE StopForDecision
    BY <2>20 DEF StopForDecision
  <2> QED  BY <1>5, <2>25, <2>1, <2>2, <2>3, <2>4, <2>5, <2>6, <2>7, <2>8,
     <2>9, <2>10,
     <2>11, <2>12, <2>13, <2>14, <2>15, <2>16, <2>17, <2>18, <2>19, <2>20 DEF
     DrainStep
<1>6. CASE OrphanStep
  BY <1>6 DEF OrphanStep, OrphanPushes, OrphanCreates, OrphanDies
<1>7. CASE Elsewhere
  BY <1>7 DEF Elsewhere, TargetAdvances, WorkerCommits, WorkerStops, AuditReason,
     WorkerFinishes, HandoffCompleted, HumanMerges, HumanCloses, HumanReviews,
     Retry, Rework, Redirect
<1>8. CASE Crash
  BY <1>8 DEF Crash
<1> HIDE DEF PolledIsRecorded
<1> QED  BY <1>1, <1>2, <1>3, <1>4, <1>5, <1>6, <1>7, <1>8 DEF Next, TickStep

\* The tick checks the transition when it reads the status.
LEMMA StepReadAllowsWrite ==
  ASSUME CommonInv, Next, TypeOK'
  PROVE  ReadAllowsWrite'
<1> USE DEF At, EndTick, BeginPhase, Visit, Skip, Leave, VisitPCs, PolledPCs,
    CleanupPCs, GitPhase, CommonInv, CurIsTicket, TypeOK, TicketsOK, TickOK,
    ReadAllowsWrite, SetStatus
<1>1. CASE LockStep
  BY <1>1 DEF LockStep, StartTick, Acquire, AcquireHeld, ReconciledFirst,
     Reconcile
<1>2. CASE OutcomesStep
  BY <1>2 DEF OutcomesStep, PollDeferred, PollFails, PollEscalates, Poll,
     Feedback, RecordPolled, ApplyMerge, ApplyReview, ApplyReviewStatus,
     ApplyClosed, LeaveQueue, OutcomesDone
<1>3. CASE CleanupStep
  BY <1>3 DEF CleanupStep, CleanupRefused, CleanupBegins, VerifyFails,
     VerifyMerge, RemoveWorktree, DeleteBranch, Complete, CompletedLeavesQueue,
     CleanupDone
<1>4. CASE FreshnessStep
  BY <1>4 DEF FreshnessStep, FreshnessSkips, FreshnessStale, Requeue,
     FreshnessDone
<1>5. CASE DrainStep
  BY <1>5 DEF DrainStep, DrainSkips, DrainVisits, DrainDone, Begin, StartRun,
     Fetch, Update, ValidatorCommits, Validate, CheckHead, MarkPublishing,
     StartPush, Pushed,
     PublishNew, PublishAgain, Created, RecordPr, RecordCompleted, EnterReview,
     GitPhaseFails, GitPhaseRaises, StopForDecision
<1>6. CASE OrphanStep
  BY <1>6 DEF OrphanStep, OrphanPushes, OrphanCreates, OrphanDies
<1>7. CASE Elsewhere
  BY <1>7 DEF Elsewhere, TargetAdvances, WorkerCommits, WorkerStops, AuditReason,
     WorkerFinishes, HandoffCompleted, HumanMerges, HumanCloses, HumanReviews,
     Retry, Rework, Redirect
<1>8. CASE Crash
  BY <1>8 DEF Crash
<1> HIDE DEF ReadAllowsWrite
<1> QED  BY <1>1, <1>2, <1>3, <1>4, <1>5, <1>6, <1>7, <1>8 DEF Next, TickStep

\* StartPush and PublishNew start the only children.
LEMMA StepChildIsCurrent ==
  ASSUME CommonInv, Next, TypeOK'
  PROVE  ChildIsCurrent'
<1> USE DEF At, EndTick, BeginPhase, Visit, Skip, Leave, VisitPCs, PolledPCs,
    CleanupPCs, GitPhase, CommonInv, CurIsTicket, ChildIsCurrent, Push,
    Create, NoChild, Orphan
<1>1. CASE LockStep
  BY <1>1 DEF LockStep, StartTick, Acquire, AcquireHeld, ReconciledFirst,
     Reconcile
<1>2. CASE OutcomesStep
  BY <1>2 DEF OutcomesStep, PollDeferred, PollFails, PollEscalates, Poll,
     Feedback, RecordPolled, ApplyMerge, ApplyReview, ApplyReviewStatus,
     ApplyClosed, LeaveQueue, OutcomesDone
<1>3. CASE CleanupStep
  BY <1>3 DEF CleanupStep, CleanupRefused, CleanupBegins, VerifyFails,
     VerifyMerge, RemoveWorktree, DeleteBranch, Complete, CompletedLeavesQueue,
     CleanupDone
<1>4. CASE FreshnessStep
  BY <1>4 DEF FreshnessStep, FreshnessSkips, FreshnessStale, Requeue,
     FreshnessDone
<1>5. CASE DrainStep
  BY <1>5 DEF DrainStep, DrainSkips, DrainVisits, DrainDone, Begin, StartRun,
     Fetch, Update, ValidatorCommits, Validate, CheckHead, MarkPublishing,
     StartPush, Pushed,
     PublishNew, PublishAgain, Created, RecordPr, RecordCompleted, EnterReview,
     GitPhaseFails, GitPhaseRaises, StopForDecision
<1>6. CASE OrphanStep
  BY <1>6 DEF OrphanStep, OrphanPushes, OrphanCreates, OrphanDies
<1>7. CASE Elsewhere
  BY <1>7 DEF Elsewhere, TargetAdvances, WorkerCommits, WorkerStops, AuditReason,
     WorkerFinishes, HandoffCompleted, HumanMerges, HumanCloses, HumanReviews,
     Retry, Rework, Redirect
<1>8. CASE Crash
  BY <1>8 DEF Crash
<1> HIDE DEF ChildIsCurrent
<1> QED  BY <1>1, <1>2, <1>3, <1>4, <1>5, <1>6, <1>7, <1>8 DEF Next, TickStep

\* A retry waits for the worker, and nothing else brings a stopped Ticket back.
LEMMA StepAuditIsOfStopped ==
  ASSUME CommonInv, Next, TypeOK'
  PROVE  AuditIsOfStopped'
<1> USE DEF At, EndTick, BeginPhase, Visit, Skip, Leave, VisitPCs, PolledPCs,
    CleanupPCs, GitPhase, CommonInv, CurIsTicket, AuditIsOfStopped, TypeOK,
    TicketsOK, SetStatus, CrashTarget
<1>1. CASE LockStep
  BY <1>1 DEF LockStep, StartTick, Acquire, AcquireHeld, ReconciledFirst,
     Reconcile
<1>2. CASE OutcomesStep
  BY <1>2 DEF OutcomesStep, PollDeferred, PollFails, PollEscalates, Poll,
     Feedback, RecordPolled, ApplyMerge, ApplyReview, ApplyReviewStatus,
     ApplyClosed, LeaveQueue, OutcomesDone
<1>3. CASE CleanupStep
  BY <1>3 DEF CleanupStep, CleanupRefused, CleanupBegins, VerifyFails,
     VerifyMerge, RemoveWorktree, DeleteBranch, Complete, CompletedLeavesQueue,
     CleanupDone
<1>4. CASE FreshnessStep
  BY <1>4 DEF FreshnessStep, FreshnessSkips, FreshnessStale, Requeue,
     FreshnessDone
<1>5. CASE DrainStep
  BY <1>5 DEF DrainStep, DrainSkips, DrainVisits, DrainDone, Begin, StartRun,
     Fetch, Update, ValidatorCommits, Validate, CheckHead, MarkPublishing,
     StartPush, Pushed,
     PublishNew, PublishAgain, Created, RecordPr, RecordCompleted, EnterReview,
     GitPhaseFails, GitPhaseRaises, StopForDecision
<1>6. CASE OrphanStep
  BY <1>6 DEF OrphanStep, OrphanPushes, OrphanCreates, OrphanDies
<1>7. CASE Elsewhere
  BY <1>7 DEF Elsewhere, TargetAdvances, WorkerCommits, WorkerStops, AuditReason,
     WorkerFinishes, HandoffCompleted, HumanMerges, HumanCloses, HumanReviews,
     Retry, Rework, Redirect
<1>8. CASE Crash
  BY <1>8 DEF Crash
<1> HIDE DEF AuditIsOfStopped
<1> QED  BY <1>1, <1>2, <1>3, <1>4, <1>5, <1>6, <1>7, <1>8 DEF Next, TickStep

-----------------------------------------------------------------------------
(* What a run keeps, though its Ticket may be taken away *)

\* The checkpoint is written before the step that it announces.
LEMMA StepMarkerIsCurrent ==
  ASSUME CommonInv, RunInv, Next, TypeOK'
  PROVE  MarkerIsCurrent'
<1> USE DEF At, EndTick, BeginPhase, Visit, Skip, Leave, VisitPCs, PolledPCs,
    CleanupPCs, GitPhase, CommonInv, RunInv, CurIsTicket, SetStatus,
    SetMarker, TypeOK, TicketsOK, RecordsOK, GitOK, TickOK, MarkerIsCurrent,
    ReadAllowsWrite
<1>1. CASE LockStep
  BY <1>1 DEF LockStep, StartTick, Acquire, AcquireHeld, ReconciledFirst,
     Reconcile
<1>2. CASE OutcomesStep
  BY <1>2 DEF OutcomesStep, PollDeferred, PollFails, PollEscalates, Poll,
     Feedback, RecordPolled, ApplyMerge, ApplyReview, ApplyReviewStatus,
     ApplyClosed, LeaveQueue, OutcomesDone
<1>3. CASE CleanupStep
  BY <1>3 DEF CleanupStep, CleanupRefused, CleanupBegins, VerifyFails,
     VerifyMerge, RemoveWorktree, DeleteBranch, Complete, CompletedLeavesQueue,
     CleanupDone
<1>4. CASE FreshnessStep
  BY <1>4 DEF FreshnessStep, FreshnessSkips, FreshnessStale, Requeue,
     FreshnessDone
<1>5. CASE DrainStep
  BY <1>5 DEF DrainStep, DrainSkips, DrainVisits, DrainDone, Begin, StartRun,
     Fetch, Update, ValidatorCommits, Validate, CheckHead, MarkPublishing,
     StartPush, Pushed,
     PublishNew, PublishAgain, Created, RecordPr, RecordCompleted, EnterReview,
     GitPhaseFails, GitPhaseRaises, StopForDecision
<1>6. CASE OrphanStep
  BY <1>6 DEF OrphanStep, OrphanPushes, OrphanCreates, OrphanDies
<1>7. CASE Elsewhere
  BY <1>7 DEF Elsewhere, TargetAdvances, WorkerCommits, WorkerStops, AuditReason,
     WorkerFinishes, HandoffCompleted, HumanMerges, HumanCloses, HumanReviews,
     Retry, Rework, Redirect
<1>8. CASE Crash
  BY <1>8 DEF Crash
<1> HIDE DEF MarkerIsCurrent
<1> QED  BY <1>1, <1>2, <1>3, <1>4, <1>5, <1>6, <1>7, <1>8 DEF Next, TickStep

\* StartRun is the one step into `integrating`, and the run is not polled.
LEMMA StepPolledIsIdle ==
  ASSUME CommonInv, RunInv, Next, TypeOK'
  PROVE  PolledIsIdle'
<1> USE DEF At, EndTick, BeginPhase, Visit, Skip, Leave, VisitPCs, PolledPCs,
    CleanupPCs, GitPhase, CommonInv, RunInv, CurIsTicket, SetStatus,
    SetMarker, TypeOK, TicketsOK, RecordsOK, GitOK, TickOK, PolledIsIdle,
    CrashTarget, can_transition, ReadAllowsWrite
<1>1. CASE LockStep
  BY <1>1 DEF LockStep, StartTick, Acquire, AcquireHeld, ReconciledFirst,
     Reconcile
<1>2. CASE OutcomesStep
  <2>1. CASE \E t \in Tickets : PollDeferred(t)
    BY <2>1 DEF PollDeferred
  <2>2. CASE \E t \in Tickets : PollFails(t)
    BY <2>2 DEF PollFails
  <2>3. CASE \E t \in Tickets : PollEscalates(t)
    BY <2>3 DEF PollEscalates
  <2>4. CASE \E t \in Tickets : Poll(t)
    BY <2>4 DEF Poll
  <2>5. CASE Feedback
    BY <2>5 DEF Feedback
  <2>6. CASE RecordPolled
    BY <2>6 DEF RecordPolled
  <2>7. CASE ApplyMerge
    BY <2>7 DEF ApplyMerge
  <2>8. CASE ApplyReview
    BY <2>8 DEF ApplyReview
  <2>9. CASE ApplyReviewStatus
    BY <2>9 DEF ApplyReviewStatus
  <2>10. CASE ApplyClosed
    BY <2>10 DEF ApplyClosed
  <2>11. CASE LeaveQueue
    BY <2>11 DEF LeaveQueue
  <2>12. CASE OutcomesDone
    BY <2>12 DEF OutcomesDone
  <2> QED  BY <1>2, <2>1, <2>2, <2>3, <2>4, <2>5, <2>6, <2>7, <2>8, <2>9,
     <2>10, <2>11,
     <2>12 DEF OutcomesStep
<1>3. CASE CleanupStep
  <2>1. CASE \E t \in Tickets : CleanupRefused(t)
    BY <2>1 DEF CleanupRefused
  <2>2. CASE \E t \in Tickets : CleanupBegins(t)
    BY <2>2 DEF CleanupBegins
  <2>3. CASE VerifyFails
    BY <2>3 DEF VerifyFails
  <2>4. CASE VerifyMerge
    BY <2>4 DEF VerifyMerge
  <2>5. CASE RemoveWorktree
    BY <2>5 DEF RemoveWorktree
  <2>6. CASE DeleteBranch
    BY <2>6 DEF DeleteBranch
  <2>7. CASE Complete
    BY <2>7 DEF Complete
  <2>8. CASE CompletedLeavesQueue
    BY <2>8 DEF CompletedLeavesQueue
  <2>9. CASE CleanupDone
    BY <2>9 DEF CleanupDone
  <2> QED  BY <1>3, <2>1, <2>2, <2>3, <2>4, <2>5, <2>6, <2>7, <2>8, <2>9
     DEF CleanupStep
<1>4. CASE FreshnessStep
  BY <1>4 DEF FreshnessStep, FreshnessSkips, FreshnessStale, Requeue,
     FreshnessDone
<1>5. CASE DrainStep
  BY <1>5 DEF DrainStep, DrainSkips, DrainVisits, DrainDone, Begin, StartRun,
     Fetch, Update, ValidatorCommits, Validate, CheckHead, MarkPublishing,
     StartPush, Pushed,
     PublishNew, PublishAgain, Created, RecordPr, RecordCompleted, EnterReview,
     GitPhaseFails, GitPhaseRaises, StopForDecision
<1>6. CASE OrphanStep
  BY <1>6 DEF OrphanStep, OrphanPushes, OrphanCreates, OrphanDies
<1>7. CASE Elsewhere
  BY <1>7 DEF Elsewhere, TargetAdvances, WorkerCommits, WorkerStops, AuditReason,
     WorkerFinishes, HandoffCompleted, HumanMerges, HumanCloses, HumanReviews,
     Retry, Rework, Redirect
<1>8. CASE Crash
  BY <1>8 DEF Crash
<1> HIDE DEF PolledIsIdle
<1> QED  BY <1>1, <1>2, <1>3, <1>4, <1>5, <1>6, <1>7, <1>8 DEF Next, TickStep

\* Acquire ends an orphan before reconciliation can move its Ticket.
LEMMA StepChildIsLocked ==
  ASSUME CommonInv, RunInv, Next, TypeOK'
  PROVE  ChildIsLocked'
<1> USE DEF At, EndTick, BeginPhase, Visit, Skip, Leave, VisitPCs, PolledPCs,
    CleanupPCs, GitPhase, CommonInv, RunInv, CurIsTicket, SetStatus,
    SetMarker, TypeOK, TicketsOK, RecordsOK, PolledIsIdle,
    MarkerIsCurrent, ChildIsLocked, Children, NoChild, Push, Create, Orphan,
    RunPublishes, ReadAllowsWrite, can_transition
<1>1. CASE LockStep
  BY <1>1 DEF LockStep, StartTick, Acquire, AcquireHeld, ReconciledFirst,
     Reconcile
<1>2. CASE OutcomesStep
  <2>1. CASE \E t \in Tickets : PollDeferred(t)
    BY <2>1 DEF PollDeferred
  <2>2. CASE \E t \in Tickets : PollFails(t)
    BY <2>2 DEF PollFails
  <2>3. CASE \E t \in Tickets : PollEscalates(t)
    BY <2>3 DEF PollEscalates
  <2>4. CASE \E t \in Tickets : Poll(t)
    BY <2>4 DEF Poll
  <2>5. CASE Feedback
    BY <2>5 DEF Feedback
  <2>6. CASE RecordPolled
    BY <2>6 DEF RecordPolled
  <2>7. CASE ApplyMerge
    BY <2>7 DEF ApplyMerge
  <2>8. CASE ApplyReview
    BY <2>8 DEF ApplyReview
  <2>9. CASE ApplyReviewStatus
    BY <2>9 DEF ApplyReviewStatus
  <2>10. CASE ApplyClosed
    BY <2>10 DEF ApplyClosed
  <2>11. CASE LeaveQueue
    BY <2>11 DEF LeaveQueue
  <2>12. CASE OutcomesDone
    BY <2>12 DEF OutcomesDone
  <2> QED  BY <1>2, <2>1, <2>2, <2>3, <2>4, <2>5, <2>6, <2>7, <2>8, <2>9,
     <2>10, <2>11,
     <2>12 DEF OutcomesStep
<1>3. CASE CleanupStep
  <2>1. CASE \E t \in Tickets : CleanupRefused(t)
    BY <2>1 DEF CleanupRefused
  <2>2. CASE \E t \in Tickets : CleanupBegins(t)
    BY <2>2 DEF CleanupBegins
  <2>3. CASE VerifyFails
    BY <2>3 DEF VerifyFails
  <2>4. CASE VerifyMerge
    BY <2>4 DEF VerifyMerge
  <2>5. CASE RemoveWorktree
    BY <2>5 DEF RemoveWorktree
  <2>6. CASE DeleteBranch
    BY <2>6 DEF DeleteBranch
  <2>7. CASE Complete
    BY <2>7 DEF Complete
  <2>8. CASE CompletedLeavesQueue
    BY <2>8 DEF CompletedLeavesQueue
  <2>9. CASE CleanupDone
    BY <2>9 DEF CleanupDone
  <2> QED  BY <1>3, <2>1, <2>2, <2>3, <2>4, <2>5, <2>6, <2>7, <2>8,
     <2>9 DEF CleanupStep
<1>4. CASE FreshnessStep
  BY <1>4 DEF FreshnessStep, FreshnessSkips, FreshnessStale, Requeue,
     FreshnessDone
<1>5. CASE DrainStep
  BY <1>5 DEF DrainStep, DrainSkips, DrainVisits, DrainDone, Begin, StartRun,
     Fetch, Update, ValidatorCommits, Validate, CheckHead, MarkPublishing,
     StartPush, Pushed,
     PublishNew, PublishAgain, Created, RecordPr, RecordCompleted, EnterReview,
     GitPhaseFails, GitPhaseRaises, StopForDecision
<1>6. CASE OrphanStep
  BY <1>6 DEF OrphanStep, OrphanPushes, OrphanCreates, OrphanDies
<1>7. CASE Elsewhere
  BY <1>7 DEF Elsewhere, TargetAdvances, WorkerCommits, WorkerStops, AuditReason,
     WorkerFinishes, HandoffCompleted, HumanMerges, HumanCloses, HumanReviews,
     Retry, Rework, Redirect
<1>8. CASE Crash
  BY <1>8 DEF Crash
<1> HIDE DEF ChildIsLocked
<1> QED  BY <1>1, <1>2, <1>3, <1>4, <1>5, <1>6, <1>7, <1>8 DEF Next, TickStep

\* The revisions that PushIsLatest compares are numbers.
LEMMA Revisions ==
  ASSUME TypeOK
  PROVE  /\ \A t \in Tickets : local[t] \in Commits /\ local[t][1] \in Nat
         /\ \A t \in Tickets : remote[t] \in Commits /\ remote[t][1] \in Nat
         /\ run.tip \in Commits /\ run.tip[1] \in Nat
         /\ child.kind = "push" => /\ child.of \in Tickets
                                   /\ child.tip \in Commits /\ child.tip[1] \in Nat
<1>1. \A c \in Commits : c[1] \in Nat
  BY DEF Commits
<1>2. \A t \in Tickets : local[t] \in Commits /\ remote[t] \in Commits
  BY DEF TypeOK, GitOK
<1>3. child.kind = "push" => child.of \in Tickets /\ child.tip \in Commits
  BY DEF TypeOK, Children, NoChild
<1> QED  BY <1>1, <1>2, <1>3, Typed

\* A push for a branch that is published brings nothing new.
LEMMA PublishedPush ==
  ASSUME TypeOK, PushIsLatest, child.kind = "push",
         local[child.of] = remote[child.of]
  PROVE  child.tip = local[child.of]
BY Revisions DEF PushIsLatest

\* A push is made from the tip of the branch, which only grows.
LEMMA StepPushIsLatest ==
  ASSUME CommonInv, RunInv, Next, TypeOK'
  PROVE  PushIsLatest'
<1> USE DEF CommonInv, RunInv
<1>f. /\ \A t \in Tickets : local[t] \in Commits /\ local[t][1] \in Nat
      /\ \A t \in Tickets : remote[t] \in Commits /\ remote[t][1] \in Nat
      /\ run.tip \in Commits /\ run.tip[1] \in Nat
      /\ child.kind = "push" => /\ child.of \in Tickets
                                /\ child.tip \in Commits /\ child.tip[1] \in Nat
      /\ local \in [Tickets -> Commits] /\ remote \in [Tickets -> Commits]
  BY Revisions DEF TypeOK, GitOK
<1>k. ASSUME child' \in {child, NoChild}, UNCHANGED <<remote, local>>,
             pc' \in {"removing", "deleting"} =>
               pc \in {"removing", "deleting"} /\ cur' = cur /\ run' = run
      PROVE  PushIsLatest'
  BY <1>k DEF PushIsLatest, NoChild
<1>1. CASE LockStep
  BY <1>1, <1>k DEF LockStep, StartTick, Acquire, AcquireHeld, ReconciledFirst,
     Reconcile, At, BeginPhase, EndTick
<1>2. CASE OutcomesStep
  BY <1>2, <1>k DEF OutcomesStep, PollDeferred, PollFails, PollEscalates, Poll,
     Feedback, RecordPolled, ApplyMerge, ApplyReview, ApplyReviewStatus,
     ApplyClosed, LeaveQueue, OutcomesDone, At, BeginPhase, EndTick, Skip, Leave
<1>3. CASE CleanupStep
  <2>1. CASE VerifyMerge
    <3>1. /\ UNCHANGED <<child, remote, local, cur>>
          /\ local[cur] = remote[cur] /\ run'.tip = local[cur]
      BY <2>1 DEF VerifyMerge, TypeOK, TickOK, Runs
    <3>2. child.kind = "push" /\ child.of = cur => child.tip = run'.tip
      BY <3>1, PublishedPush
    <3> QED  BY <3>1, <3>2 DEF PushIsLatest
  <2>2. CASE ~ VerifyMerge
    BY <1>3, <1>k, <2>2 DEF CleanupStep, CleanupRefused, CleanupBegins,
       VerifyFails, RemoveWorktree, DeleteBranch, Complete,
       CompletedLeavesQueue, CleanupDone, At, BeginPhase, Skip, Leave
  <2> QED  BY <2>1, <2>2
<1>4. CASE FreshnessStep
  BY <1>4, <1>k DEF FreshnessStep, FreshnessSkips, FreshnessStale, Requeue,
     FreshnessDone, BeginPhase, EndTick, Skip, Leave, Visit
<1>5. CASE DrainStep
  <2>1. CASE Update
    <3>1. child = NoChild /\ cur \in Tickets
      BY <2>1 DEF Update, ChildIsLocked, GitPhase, CurIsTicket, VisitPCs
    <3>2. /\ UNCHANGED <<child, remote>> /\ pc' = "validating"
          /\ \A t \in Tickets : local'[t][1] = local[t][1]
      BY <1>f, <2>1, <3>1 DEF Update
    <3> QED  BY <3>1, <3>2 DEF PushIsLatest, NoChild
  <2>2. CASE ValidatorCommits
    <3>1. child = NoChild /\ cur \in Tickets
      BY <2>2 DEF ValidatorCommits, ChildIsLocked, GitPhase, CurIsTicket, VisitPCs
    <3>2. /\ UNCHANGED <<child, remote>>
          /\ \A t \in Tickets : local'[t][1] \in {local[t][1], local[t][1] + 1}
      BY <1>f, <2>2, <3>1 DEF ValidatorCommits
    <3> QED  BY <1>f, <3>1, <3>2 DEF PushIsLatest, NoChild
  <2>3. CASE StartPush
    <3>1. /\ UNCHANGED <<local, remote>> /\ cur \in Tickets /\ pc' = "pushing"
          /\ child'.of = cur /\ child'.tip = local[cur]
      BY <2>3 DEF StartPush, At, CurIsTicket, VisitPCs, GitPhase, Push
    <3> QED  BY <3>1 DEF PushIsLatest
  <2>4. CASE Pushed
    <3>1. /\ child.kind = "push" /\ child.of = cur /\ cur \in Tickets
          /\ child' = NoChild /\ local' = local
      BY <2>4 DEF Pushed, ChildIsCurrent, CurIsTicket, VisitPCs, GitPhase
    <3>2. child.tip[1] <= local[cur][1]
      BY <1>f, <3>1 DEF PushIsLatest
    <3>3. remote' = remote \/ remote' = [remote EXCEPT ![cur] = child.tip]
      BY <2>4 DEF Pushed, PushLands
    <3>4. \A t \in Tickets : remote'[t][1] <= local[t][1]
      BY <1>f, <3>1, <3>2, <3>3 DEF PushIsLatest
    <3> QED  BY <3>1, <3>4 DEF PushIsLatest, NoChild
  <2>5. CASE PublishNew
    <3>1. child'.kind = "create" /\ UNCHANGED <<local, remote>>
      BY <2>5 DEF PublishNew, Create
    <3> QED  BY <3>1 DEF PushIsLatest
  <2>6. CASE ~ (Update \/ ValidatorCommits \/ StartPush \/ Pushed \/ PublishNew)
    BY <1>5, <1>k, <2>6 DEF DrainStep, DrainSkips, DrainVisits, DrainDone,
       Begin, StartRun, Fetch, Validate, CheckHead, MarkPublishing,
       PublishAgain, Created, RecordPr, RecordCompleted, EnterReview,
       GitPhaseFails, GitPhaseRaises, StopForDecision, At, EndTick, Skip,
       Leave, Visit
  <2> QED  BY <2>1, <2>2, <2>3, <2>4, <2>5, <2>6
<1>6. CASE OrphanStep
  <2>1. CASE OrphanPushes
    <3>1. /\ child.kind = "push" /\ child' = NoChild /\ local' = local
          /\ remote' = [remote EXCEPT ![child.of] = child.tip]
      BY <2>1 DEF OrphanPushes, PushLands
    <3>2. child.tip[1] <= local[child.of][1]
      BY <1>f, <3>1 DEF PushIsLatest
    <3>3. \A t \in Tickets : remote'[t][1] <= local[t][1]
      BY <1>f, <3>1, <3>2 DEF PushIsLatest
    <3> QED  BY <3>1, <3>3 DEF PushIsLatest, NoChild
  <2>2. CASE OrphanCreates \/ OrphanDies
    BY <1>k, <2>2 DEF OrphanCreates, OrphanDies
  <2> QED  BY <1>6, <2>1, <2>2 DEF OrphanStep
<1>7. CASE Elsewhere
  <2>1. ASSUME NEW t \in Tickets, WorkerCommits(t)  PROVE PushIsLatest'
    <3>1. /\ UNCHANGED <<child, remote, pc, cur, run>>
          /\ local'[t][1] = local[t][1] + 1
          /\ \A u \in Tickets \ {t} : local'[u] = local[u]
      BY <1>f, <2>1 DEF WorkerCommits
    <3>2. \A u \in Tickets : remote[u][1] <= local'[u][1]
      BY <1>f, <3>1 DEF PushIsLatest
    <3>3. child.kind = "push" =>
            local'[child.of] = child.tip \/ child.tip[1] < local'[child.of][1]
      BY <1>f, <3>1 DEF PushIsLatest
    <3> QED  BY <3>1, <3>2, <3>3 DEF PushIsLatest
  <2>2. CASE ~ \E t \in Tickets : WorkerCommits(t)
    BY <1>7, <1>k, <2>2 DEF Elsewhere, TargetAdvances, WorkerStops, AuditReason,
       WorkerFinishes, HandoffCompleted, HumanMerges, HumanCloses,
       HumanReviews, Retry, Rework, Redirect
  <2> QED  BY <2>1, <2>2
<1>8. CASE Crash
  BY <1>8, <1>k DEF Crash, EndTick
<1> QED  BY <1>1, <1>2, <1>3, <1>4, <1>5, <1>6, <1>7, <1>8 DEF Next, TickStep

\* Each step of the run adds one of the facts.
LEMMA StepRunPublishes ==
  ASSUME CommonInv, RunInv, Next, TypeOK'
  PROVE  RunPublishes'
<1> USE DEF At, EndTick, BeginPhase, Visit, Skip, Leave, VisitPCs, PolledPCs,
    CleanupPCs, GitPhase, CommonInv, RunInv, CurIsTicket, SetStatus,
    SetMarker, TypeOK, TicketsOK, RecordsOK, GitOK, TickOK, Runs,
    PolledIsIdle, MarkerIsCurrent, ChildIsLocked, RunPublishes, Published,
    ChildIsCurrent, PolledIsRecorded, PushLands, Push, ShouldPush, Orphan,
    NoChild, Children
<1>1. CASE LockStep
  BY <1>1 DEF LockStep, StartTick, Acquire, AcquireHeld, ReconciledFirst,
     Reconcile
<1>2. CASE OutcomesStep
  BY <1>2 DEF OutcomesStep, PollDeferred, PollFails, PollEscalates, Poll,
     Feedback, RecordPolled, ApplyMerge, ApplyReview, ApplyReviewStatus,
     ApplyClosed, LeaveQueue, OutcomesDone
<1>3. CASE CleanupStep
  BY <1>3 DEF CleanupStep, CleanupRefused, CleanupBegins, VerifyFails,
     VerifyMerge, RemoveWorktree, DeleteBranch, Complete, CompletedLeavesQueue,
     CleanupDone
<1>4. CASE FreshnessStep
  BY <1>4 DEF FreshnessStep, FreshnessSkips, FreshnessStale, Requeue,
     FreshnessDone
<1>5. CASE DrainStep
  <2>1. CASE \E t \in Tickets : DrainSkips(t)
    BY <2>1 DEF DrainSkips
  <2>2. CASE \E t \in Tickets : DrainVisits(t)
    BY <2>2 DEF DrainVisits
  <2>3. CASE DrainDone
    BY <2>3 DEF DrainDone
  <2>4. CASE Begin
    BY <2>4 DEF Begin
  <2>5. CASE StartRun
    BY <2>5 DEF StartRun
  <2>6. CASE Fetch
    BY <2>6 DEF Fetch
  <2>7. CASE Update
    BY <2>7 DEF Update
  <2>8. CASE ValidatorCommits
    BY <2>8 DEF ValidatorCommits
  <2>9. CASE Validate
    BY <2>9 DEF Validate
  <2>10. CASE CheckHead \/ MarkPublishing
    BY <2>10 DEF CheckHead, MarkPublishing
  <2>25. CASE StartPush
    BY <2>25 DEF StartPush
  <2>11. CASE Pushed
    BY <2>11 DEF Pushed
  <2>12. CASE PublishNew
    BY <2>12 DEF PublishNew
  <2>13. CASE PublishAgain
    BY <2>13 DEF PublishAgain
  <2>14. CASE Created
    BY <2>14 DEF Created
  <2>15. CASE RecordPr
    BY <2>15 DEF RecordPr
  <2>16. CASE RecordCompleted
    BY <2>16 DEF RecordCompleted
  <2>17. CASE EnterReview
    BY <2>17 DEF EnterReview
  <2>18. CASE GitPhaseFails
    BY <2>18 DEF GitPhaseFails
  <2>19. CASE GitPhaseRaises
    BY <2>19 DEF GitPhaseRaises
  <2>20. CASE StopForDecision
    BY <2>20 DEF StopForDecision
  <2> QED  BY <1>5, <2>25, <2>1, <2>2, <2>3, <2>4, <2>5, <2>6, <2>7, <2>8,
     <2>9, <2>10,
     <2>11, <2>12, <2>13, <2>14, <2>15, <2>16, <2>17, <2>18, <2>19, <2>20 DEF
     DrainStep
<1>6. CASE OrphanStep
  BY <1>6 DEF OrphanStep, OrphanPushes, OrphanCreates, OrphanDies
<1>7. CASE Elsewhere
  BY <1>7 DEF Elsewhere, TargetAdvances, WorkerCommits, WorkerStops, AuditReason,
     WorkerFinishes, HandoffCompleted, HumanMerges, HumanCloses, HumanReviews,
     Retry, Rework, Redirect
<1>8. CASE Crash
  BY <1>8 DEF Crash
<1> HIDE DEF RunPublishes
<1> QED  BY <1>1, <1>2, <1>3, <1>4, <1>5, <1>6, <1>7, <1>8 DEF Next, TickStep

\* needs_review is entered from checkpoint `integrated`, by the run or by
\* reconciliation, and is left by every step that moves the branch.
LEMMA StepReviewIsPublished ==
  ASSUME CommonInv, RunInv, Next, TypeOK'
  PROVE  ReviewIsPublished'
<1> USE DEF VisitPCs, PolledPCs, CleanupPCs, GitPhase, CommonInv, RunInv,
    CurIsTicket, SetStatus, SetMarker, TypeOK, TicketsOK, RecordsOK, GitOK,
    TickOK, PolledIsIdle, MarkerIsCurrent, ChildIsLocked, RunPublishes,
    Published, ReviewIsPublished, PushLands, CrashTarget, Orphan, NoChild
<1>1. CASE LockStep
  BY <1>1 DEF LockStep, StartTick, Acquire, AcquireHeld, ReconciledFirst,
     Reconcile
<1>2. CASE OutcomesStep
  BY <1>2 DEF OutcomesStep, PollDeferred, PollFails, PollEscalates, Poll,
     Feedback, RecordPolled, ApplyMerge, ApplyReview, ApplyReviewStatus,
     ApplyClosed, LeaveQueue, OutcomesDone
<1>3. CASE CleanupStep
  BY <1>3 DEF CleanupStep, CleanupRefused, CleanupBegins, VerifyFails,
     VerifyMerge, RemoveWorktree, DeleteBranch, Complete, CompletedLeavesQueue,
     CleanupDone
<1>4. CASE FreshnessStep
  BY <1>4 DEF FreshnessStep, FreshnessSkips, FreshnessStale, Requeue,
     FreshnessDone
<1>5. CASE DrainStep
  BY <1>5 DEF DrainStep, DrainSkips, DrainVisits, DrainDone, Begin, StartRun,
     Fetch, Update, ValidatorCommits, Validate, CheckHead, MarkPublishing,
     StartPush, Pushed,
     PublishNew, PublishAgain, Created, RecordPr, RecordCompleted, EnterReview,
     GitPhaseFails, GitPhaseRaises, StopForDecision
<1>6. CASE OrphanStep
  BY <1>6 DEF OrphanStep, OrphanPushes, OrphanCreates, OrphanDies
<1>7. CASE Elsewhere
  BY <1>7 DEF Elsewhere, TargetAdvances, WorkerCommits, WorkerStops, AuditReason,
     WorkerFinishes, HandoffCompleted, HumanMerges, HumanCloses, HumanReviews,
     Retry, Rework, Redirect
<1>8. CASE Crash
  BY <1>8 DEF Crash, EndTick
<1> HIDE DEF ReviewIsPublished
<1> QED  BY <1>1, <1>2, <1>3, <1>4, <1>5, <1>6, <1>7, <1>8 DEF Next, TickStep

\* Cleanup lists merged Tickets, and a merged Ticket is refused a run.
LEMMA StepRemovedIsMerged ==
  ASSUME CommonInv, RunInv, Next, TypeOK'
  PROVE  RemovedIsMerged'
<1> USE DEF At, EndTick, BeginPhase, Visit, Skip, Leave, VisitPCs, PolledPCs,
    CleanupPCs, GitPhase, CommonInv, RunInv, CurIsTicket, SetStatus,
    SetMarker, TypeOK, RecordsOK, GitOK, TickOK, Runs, PolledIsIdle,
    RemovedIsMerged, MergedUnverified, EntryGuard, PushLands, ChildIsLocked,
    Orphan, NoChild, Children, TicketsOK
<1>1. CASE LockStep
  BY <1>1 DEF LockStep, StartTick, Acquire, AcquireHeld, ReconciledFirst,
     Reconcile
<1>2. CASE OutcomesStep
  BY <1>2 DEF OutcomesStep, PollDeferred, PollFails, PollEscalates, Poll,
     Feedback, RecordPolled, ApplyMerge, ApplyReview, ApplyReviewStatus,
     ApplyClosed, LeaveQueue, OutcomesDone
<1>3. CASE CleanupStep
  <2>1. CASE \E t \in Tickets : CleanupRefused(t)
    BY <2>1 DEF CleanupRefused
  <2>2. CASE \E t \in Tickets : CleanupBegins(t)
    BY <2>2 DEF CleanupBegins
  <2>3. CASE VerifyFails
    BY <2>3 DEF VerifyFails
  <2>4. CASE VerifyMerge
    BY <2>4 DEF VerifyMerge
  <2>5. CASE RemoveWorktree
    BY <2>5 DEF RemoveWorktree
  <2>6. CASE DeleteBranch
    BY <2>6 DEF DeleteBranch
  <2>7. CASE Complete
    BY <2>7 DEF Complete
  <2>8. CASE CompletedLeavesQueue
    BY <2>8 DEF CompletedLeavesQueue
  <2>9. CASE CleanupDone
    BY <2>9 DEF CleanupDone
  <2> QED  BY <1>3, <2>1, <2>2, <2>3, <2>4, <2>5, <2>6, <2>7, <2>8,
     <2>9 DEF CleanupStep
<1>4. CASE FreshnessStep
  BY <1>4 DEF FreshnessStep, FreshnessSkips, FreshnessStale, Requeue,
     FreshnessDone
<1>5. CASE DrainStep
  BY <1>5 DEF DrainStep, DrainSkips, DrainVisits, DrainDone, Begin, StartRun,
     Fetch, Update, ValidatorCommits, Validate, CheckHead, MarkPublishing,
     StartPush, Pushed,
     PublishNew, PublishAgain, Created, RecordPr, RecordCompleted, EnterReview,
     GitPhaseFails, GitPhaseRaises, StopForDecision
<1>6. CASE OrphanStep
  <2>1. CASE OrphanPushes
    <3>1. /\ UNCHANGED <<status, merged, removed, deleted, tickVars>>
          /\ child.kind = "push"
          /\ remote' = [remote EXCEPT ![child.of] = child.tip]
      BY <2>1 DEF OrphanPushes, ticketVars
    <3>2. pc \in {"removing", "deleting"} => run.tip = remote'[cur]
      BY <3>1 DEF PushIsLatest
    <3> QED  BY <3>1, <3>2 DEF tickVars
  <2>2. CASE OrphanCreates \/ OrphanDies
    BY <2>2 DEF OrphanCreates, OrphanDies
  <2> QED  BY <1>6, <2>1, <2>2 DEF OrphanStep
<1>7. CASE Elsewhere
  BY <1>7 DEF Elsewhere, TargetAdvances, WorkerCommits, WorkerStops, AuditReason,
     WorkerFinishes, HandoffCompleted, HumanMerges, HumanCloses, HumanReviews,
     Retry, Rework, Redirect
<1>8. CASE Crash
  BY <1>8 DEF Crash
<1> HIDE DEF RemovedIsMerged
<1> QED  BY <1>1, <1>2, <1>3, <1>4, <1>5, <1>6, <1>7, <1>8 DEF Next, TickStep

\* The tip is read again after the worktree is gone.
LEMMA StepNoCommitLost ==
  ASSUME CommonInv, RunInv, Next, TypeOK'
  PROVE  NoCommitLost'
<1> USE DEF VisitPCs, PolledPCs, CleanupPCs, GitPhase, CommonInv, RunInv,
    CurIsTicket, SetStatus, SetMarker, TypeOK, RecordsOK, GitOK,
    PolledIsIdle, RemovedIsMerged, NoCommitLost, PushLands, ChildIsLocked,
    Orphan, NoChild, Children
<1>1. CASE LockStep
  BY <1>1 DEF LockStep, StartTick, Acquire, AcquireHeld, ReconciledFirst,
     Reconcile
<1>2. CASE OutcomesStep
  BY <1>2 DEF OutcomesStep, PollDeferred, PollFails, PollEscalates, Poll,
     Feedback, RecordPolled, ApplyMerge, ApplyReview, ApplyReviewStatus,
     ApplyClosed, LeaveQueue, OutcomesDone
<1>3. CASE CleanupStep
  BY <1>3 DEF CleanupStep, CleanupRefused, CleanupBegins, VerifyFails,
     VerifyMerge, RemoveWorktree, DeleteBranch, Complete, CompletedLeavesQueue,
     CleanupDone
<1>4. CASE FreshnessStep
  BY <1>4 DEF FreshnessStep, FreshnessSkips, FreshnessStale, Requeue,
     FreshnessDone
<1>5. CASE DrainStep
  BY <1>5 DEF DrainStep, DrainSkips, DrainVisits, DrainDone, Begin, StartRun,
     Fetch, Update, ValidatorCommits, Validate, CheckHead, MarkPublishing,
     StartPush, Pushed,
     PublishNew, PublishAgain, Created, RecordPr, RecordCompleted, EnterReview,
     GitPhaseFails, GitPhaseRaises, StopForDecision
<1>6. CASE OrphanStep
  <2>1. CASE OrphanPushes
    <3>1. /\ UNCHANGED <<local, deleted>> /\ child.kind = "push"
          /\ remote' = [remote EXCEPT ![child.of] = child.tip]
      BY <2>1 DEF OrphanPushes
    <3>2. child.of \in deleted => child.tip = local[child.of]
      BY <3>1, PublishedPush
    <3> QED  BY <3>1, <3>2
  <2>2. CASE OrphanCreates \/ OrphanDies
    BY <2>2 DEF OrphanCreates, OrphanDies
  <2> QED  BY <1>6, <2>1, <2>2 DEF OrphanStep
<1>7. CASE Elsewhere
  BY <1>7 DEF Elsewhere, TargetAdvances, WorkerCommits, WorkerStops, AuditReason,
     WorkerFinishes, HandoffCompleted, HumanMerges, HumanCloses, HumanReviews,
     Retry, Rework, Redirect
<1>8. CASE Crash
  BY <1>8 DEF Crash, EndTick
<1> HIDE DEF NoCommitLost
<1> QED  BY <1>1, <1>2, <1>3, <1>4, <1>5, <1>6, <1>7, <1>8 DEF Next, TickStep

\* The update ends before the checkpoint changes.
LEMMA StepHalfDoneIsEarly ==
  ASSUME CommonInv, RunInv, Next, TypeOK'
  PROVE  HalfDoneIsEarly'
<1> USE DEF At, EndTick, BeginPhase, Visit, Skip, Leave, VisitPCs, PolledPCs,
    CleanupPCs, GitPhase, CommonInv, RunInv, CurIsTicket, SetStatus,
    SetMarker, TypeOK, TicketsOK, GitOK, PolledIsIdle,
    MarkerIsCurrent, HalfDoneIsEarly, CrashTarget, ReadAllowsWrite,
    can_transition
<1>1. CASE LockStep
  BY <1>1 DEF LockStep, StartTick, Acquire, AcquireHeld, ReconciledFirst,
     Reconcile
<1>2. CASE OutcomesStep
  <2>1. CASE \E t \in Tickets : PollDeferred(t)
    BY <2>1 DEF PollDeferred
  <2>2. CASE \E t \in Tickets : PollFails(t)
    BY <2>2 DEF PollFails
  <2>3. CASE \E t \in Tickets : PollEscalates(t)
    BY <2>3 DEF PollEscalates
  <2>4. CASE \E t \in Tickets : Poll(t)
    BY <2>4 DEF Poll
  <2>5. CASE Feedback
    BY <2>5 DEF Feedback
  <2>6. CASE RecordPolled
    BY <2>6 DEF RecordPolled
  <2>7. CASE ApplyMerge
    BY <2>7 DEF ApplyMerge
  <2>8. CASE ApplyReview
    BY <2>8 DEF ApplyReview
  <2>9. CASE ApplyReviewStatus
    BY <2>9 DEF ApplyReviewStatus
  <2>10. CASE ApplyClosed
    BY <2>10 DEF ApplyClosed
  <2>11. CASE LeaveQueue
    BY <2>11 DEF LeaveQueue
  <2>12. CASE OutcomesDone
    BY <2>12 DEF OutcomesDone
  <2> QED  BY <1>2, <2>1, <2>2, <2>3, <2>4, <2>5, <2>6, <2>7, <2>8, <2>9,
     <2>10, <2>11,
     <2>12 DEF OutcomesStep
<1>3. CASE CleanupStep
  <2>1. CASE \E t \in Tickets : CleanupRefused(t)
    BY <2>1 DEF CleanupRefused
  <2>2. CASE \E t \in Tickets : CleanupBegins(t)
    BY <2>2 DEF CleanupBegins
  <2>3. CASE VerifyFails
    BY <2>3 DEF VerifyFails
  <2>4. CASE VerifyMerge
    BY <2>4 DEF VerifyMerge
  <2>5. CASE RemoveWorktree
    BY <2>5 DEF RemoveWorktree
  <2>6. CASE DeleteBranch
    BY <2>6 DEF DeleteBranch
  <2>7. CASE Complete
    BY <2>7 DEF Complete
  <2>8. CASE CompletedLeavesQueue
    BY <2>8 DEF CompletedLeavesQueue
  <2>9. CASE CleanupDone
    BY <2>9 DEF CleanupDone
  <2> QED  BY <1>3, <2>1, <2>2, <2>3, <2>4, <2>5, <2>6, <2>7, <2>8,
     <2>9 DEF CleanupStep
<1>4. CASE FreshnessStep
  BY <1>4 DEF FreshnessStep, FreshnessSkips, FreshnessStale, Requeue,
     FreshnessDone
<1>5. CASE DrainStep
  BY <1>5 DEF DrainStep, DrainSkips, DrainVisits, DrainDone, Begin, StartRun,
     Fetch, Update, ValidatorCommits, Validate, CheckHead, MarkPublishing,
     StartPush, Pushed,
     PublishNew, PublishAgain, Created, RecordPr, RecordCompleted, EnterReview,
     GitPhaseFails, GitPhaseRaises, StopForDecision
<1>6. CASE OrphanStep
  BY <1>6 DEF OrphanStep, OrphanPushes, OrphanCreates, OrphanDies
<1>7. CASE Elsewhere
  BY <1>7 DEF Elsewhere, TargetAdvances, WorkerCommits, WorkerStops, AuditReason,
     WorkerFinishes, HandoffCompleted, HumanMerges, HumanCloses, HumanReviews,
     Retry, Rework, Redirect
<1>8. CASE Crash
  BY <1>8 DEF Crash
<1> HIDE DEF HalfDoneIsEarly
<1> QED  BY <1>1, <1>2, <1>3, <1>4, <1>5, <1>6, <1>7, <1>8 DEF Next, TickStep

-----------------------------------------------------------------------------
(* What holds of a Ticket that is not taken away from a run *)

\* StartRun is the one step into `integrating`; the steps out of it belong to the
\* run, to reconciliation, and to maintain_dependencies, which is recorded.
LEMMA StepOnlyRunsIntegrate ==
  ASSUME CommonInv, RunInv, OwnedInv, Next, TypeOK'
  PROVE  OnlyRunsIntegrate'
<1> USE DEF At, EndTick, BeginPhase, Visit, Skip, Leave, VisitPCs, PolledPCs,
    CleanupPCs, GitPhase, CommonInv, RunInv, OwnedInv, CurIsTicket, SetStatus,
    SetMarker, TypeOK, TicketsOK, RecordsOK, GitOK, TickOK, OnlyRunsIntegrate,
    PolledIsIdle, CrashTarget, can_transition, ReadAllowsWrite,
    AuditIsOfStopped
<1>1. CASE LockStep
  BY <1>1 DEF LockStep, StartTick, Acquire, AcquireHeld, ReconciledFirst,
     Reconcile
<1>2. CASE OutcomesStep
  <2>1. CASE \E t \in Tickets : PollDeferred(t)
    BY <2>1 DEF PollDeferred
  <2>2. CASE \E t \in Tickets : PollFails(t)
    BY <2>2 DEF PollFails
  <2>3. CASE \E t \in Tickets : PollEscalates(t)
    BY <2>3 DEF PollEscalates
  <2>4. CASE \E t \in Tickets : Poll(t)
    BY <2>4 DEF Poll
  <2>5. CASE Feedback
    BY <2>5 DEF Feedback
  <2>6. CASE RecordPolled
    BY <2>6 DEF RecordPolled
  <2>7. CASE ApplyMerge
    BY <2>7 DEF ApplyMerge
  <2>8. CASE ApplyReview
    BY <2>8 DEF ApplyReview
  <2>9. CASE ApplyReviewStatus
    BY <2>9 DEF ApplyReviewStatus
  <2>10. CASE ApplyClosed
    BY <2>10 DEF ApplyClosed
  <2>11. CASE LeaveQueue
    BY <2>11 DEF LeaveQueue
  <2>12. CASE OutcomesDone
    BY <2>12 DEF OutcomesDone
  <2> QED  BY <1>2, <2>1, <2>2, <2>3, <2>4, <2>5, <2>6, <2>7, <2>8, <2>9,
     <2>10, <2>11,
     <2>12 DEF OutcomesStep
<1>3. CASE CleanupStep
  BY <1>3 DEF CleanupStep, CleanupRefused, CleanupBegins, VerifyFails,
     VerifyMerge, RemoveWorktree, DeleteBranch, Complete, CompletedLeavesQueue,
     CleanupDone
<1>4. CASE FreshnessStep
  BY <1>4 DEF FreshnessStep, FreshnessSkips, FreshnessStale, Requeue,
     FreshnessDone
<1>5. CASE DrainStep
  BY <1>5 DEF DrainStep, DrainSkips, DrainVisits, DrainDone, Begin, StartRun,
     Fetch, Update, ValidatorCommits, Validate, CheckHead, MarkPublishing,
     StartPush, Pushed,
     PublishNew, PublishAgain, Created, RecordPr, RecordCompleted, EnterReview,
     GitPhaseFails, GitPhaseRaises, StopForDecision
<1>6. CASE OrphanStep
  BY <1>6 DEF OrphanStep, OrphanPushes, OrphanCreates, OrphanDies
<1>7. CASE Elsewhere
  BY <1>7 DEF Elsewhere, TargetAdvances, WorkerCommits, WorkerStops, AuditReason,
     WorkerFinishes, HandoffCompleted, HumanMerges, HumanCloses, HumanReviews,
     Retry, Rework, Redirect
<1>8. CASE Crash
  BY <1>8 DEF Crash
<1> HIDE DEF OnlyRunsIntegrate
<1> QED  BY <1>1, <1>2, <1>3, <1>4, <1>5, <1>6, <1>7, <1>8 DEF Next, TickStep

\* Acquire ends an orphan before reconciliation can move its Ticket.
LEMMA StepChildIsOfRun ==
  ASSUME CommonInv, RunInv, OwnedInv, Next, TypeOK'
  PROVE  ChildIsOfRun'
<1> USE DEF At, EndTick, BeginPhase, Visit, Skip, Leave, VisitPCs, PolledPCs,
    CleanupPCs, GitPhase, CommonInv, RunInv, OwnedInv, CurIsTicket, SetStatus,
    SetMarker, TypeOK, TicketsOK, RecordsOK, OnlyRunsIntegrate, PolledIsIdle,
    MarkerIsCurrent, ChildIsOfRun, ChildIsLocked, Children, NoChild, Push,
    Create, Orphan, RunPublishes, ReadAllowsWrite, can_transition,
    GitOK, AuditIsOfStopped
<1>1. CASE LockStep
  BY <1>1 DEF LockStep, StartTick, Acquire, AcquireHeld, ReconciledFirst,
     Reconcile
<1>2. CASE OutcomesStep
  <2>1. CASE \E t \in Tickets : PollDeferred(t)
    BY <2>1 DEF PollDeferred
  <2>2. CASE \E t \in Tickets : PollFails(t)
    BY <2>2 DEF PollFails
  <2>3. CASE \E t \in Tickets : PollEscalates(t)
    BY <2>3 DEF PollEscalates
  <2>4. CASE \E t \in Tickets : Poll(t)
    BY <2>4 DEF Poll
  <2>5. CASE Feedback
    BY <2>5 DEF Feedback
  <2>6. CASE RecordPolled
    BY <2>6 DEF RecordPolled
  <2>7. CASE ApplyMerge
    BY <2>7 DEF ApplyMerge
  <2>8. CASE ApplyReview
    BY <2>8 DEF ApplyReview
  <2>9. CASE ApplyReviewStatus
    BY <2>9 DEF ApplyReviewStatus
  <2>10. CASE ApplyClosed
    BY <2>10 DEF ApplyClosed
  <2>11. CASE LeaveQueue
    BY <2>11 DEF LeaveQueue
  <2>12. CASE OutcomesDone
    BY <2>12 DEF OutcomesDone
  <2> QED  BY <1>2, <2>1, <2>2, <2>3, <2>4, <2>5, <2>6, <2>7, <2>8, <2>9,
     <2>10, <2>11,
     <2>12 DEF OutcomesStep
<1>3. CASE CleanupStep
  <2>1. CASE \E t \in Tickets : CleanupRefused(t)
    BY <2>1 DEF CleanupRefused
  <2>2. CASE \E t \in Tickets : CleanupBegins(t)
    BY <2>2 DEF CleanupBegins
  <2>3. CASE VerifyFails
    BY <2>3 DEF VerifyFails
  <2>4. CASE VerifyMerge
    BY <2>4 DEF VerifyMerge
  <2>5. CASE RemoveWorktree
    BY <2>5 DEF RemoveWorktree
  <2>6. CASE DeleteBranch
    BY <2>6 DEF DeleteBranch
  <2>7. CASE Complete
    BY <2>7 DEF Complete
  <2>8. CASE CompletedLeavesQueue
    BY <2>8 DEF CompletedLeavesQueue
  <2>9. CASE CleanupDone
    BY <2>9 DEF CleanupDone
  <2> QED  BY <1>3, <2>1, <2>2, <2>3, <2>4, <2>5, <2>6, <2>7, <2>8,
     <2>9 DEF CleanupStep
<1>4. CASE FreshnessStep
  BY <1>4 DEF FreshnessStep, FreshnessSkips, FreshnessStale, Requeue,
     FreshnessDone
<1>5. CASE DrainStep
  BY <1>5 DEF DrainStep, DrainSkips, DrainVisits, DrainDone, Begin, StartRun,
     Fetch, Update, ValidatorCommits, Validate, CheckHead, MarkPublishing,
     StartPush, Pushed,
     PublishNew, PublishAgain, Created, RecordPr, RecordCompleted, EnterReview,
     GitPhaseFails, GitPhaseRaises, StopForDecision
<1>6. CASE OrphanStep
  BY <1>6 DEF OrphanStep, OrphanPushes, OrphanCreates, OrphanDies
<1>7. CASE Elsewhere
  BY <1>7 DEF Elsewhere, TargetAdvances, WorkerCommits, WorkerStops, AuditReason,
     WorkerFinishes, HandoffCompleted, HumanMerges, HumanCloses, HumanReviews,
     Retry, Rework, Redirect
<1>8. CASE Crash
  BY <1>8 DEF Crash
<1> HIDE DEF ChildIsOfRun
<1> QED  BY <1>1, <1>2, <1>3, <1>4, <1>5, <1>6, <1>7, <1>8 DEF Next, TickStep

\* The checkpoint creating_pr is written before gh pr create.
LEMMA StepUnclaimedIsMarked ==
  ASSUME CommonInv, RunInv, OwnedInv, Next, TypeOK'
  PROVE  UnclaimedIsMarked'
<1> USE DEF At, EndTick, BeginPhase, Visit, Skip, Leave, VisitPCs, PolledPCs,
    CleanupPCs, GitPhase, CommonInv, RunInv, OwnedInv, CurIsTicket, SetStatus,
    SetMarker, TypeOK, TicketsOK, RecordsOK, GitOK, OnlyRunsIntegrate,
    PolledIsIdle, MarkerIsCurrent, ChildIsOfRun, ChildIsLocked,
    UnclaimedIsMarked, UnclaimedPrStopsTicket, PolledIsRecorded,
    ChildIsCurrent, PrOpens, Create, RunPublishes, Orphan, EntryGuard,
    CrashTarget, AuditIsOfStopped
<1>1. CASE LockStep
  <2>1. CASE StartTick
    BY <2>1 DEF StartTick
  <2>2. CASE \/ Acquire("acquireFirst", "reconcileFirst")
            \/ Acquire("acquire", "reconcile")
    BY <2>2 DEF Acquire
  <2>3. CASE AcquireHeld
    BY <2>3 DEF AcquireHeld
  <2>4. CASE ReconciledFirst
    BY <2>4 DEF ReconciledFirst
  <2>5. CASE \E t \in Tickets : Reconcile(t)
    BY <2>5 DEF Reconcile
  <2> QED  BY <1>1, <2>1, <2>2, <2>3, <2>4, <2>5 DEF LockStep
<1>2. CASE OutcomesStep
  BY <1>2 DEF OutcomesStep, PollDeferred, PollFails, PollEscalates, Poll,
     Feedback, RecordPolled, ApplyMerge, ApplyReview, ApplyReviewStatus,
     ApplyClosed, LeaveQueue, OutcomesDone
<1>3. CASE CleanupStep
  BY <1>3 DEF CleanupStep, CleanupRefused, CleanupBegins, VerifyFails,
     VerifyMerge, RemoveWorktree, DeleteBranch, Complete, CompletedLeavesQueue,
     CleanupDone
<1>4. CASE FreshnessStep
  BY <1>4 DEF FreshnessStep, FreshnessSkips, FreshnessStale, Requeue,
     FreshnessDone
<1>5. CASE DrainStep
  BY <1>5 DEF DrainStep, DrainSkips, DrainVisits, DrainDone, Begin, StartRun,
     Fetch, Update, ValidatorCommits, Validate, CheckHead, MarkPublishing,
     StartPush, Pushed,
     PublishNew, PublishAgain, Created, RecordPr, RecordCompleted, EnterReview,
     GitPhaseFails, GitPhaseRaises, StopForDecision
<1>6. CASE OrphanStep
  BY <1>6 DEF OrphanStep, OrphanPushes, OrphanCreates, OrphanDies
<1>7. CASE Elsewhere
  BY <1>7 DEF Elsewhere, TargetAdvances, WorkerCommits, WorkerStops, AuditReason,
     WorkerFinishes, HandoffCompleted, HumanMerges, HumanCloses, HumanReviews,
     Retry, Rework, Redirect
<1>8. CASE Crash
  BY <1>8 DEF Crash
<1> HIDE DEF UnclaimedIsMarked
<1> QED  BY <1>1, <1>2, <1>3, <1>4, <1>5, <1>6, <1>7, <1>8 DEF Next, TickStep

\* From creating_pr without a recorded pull request the only way is
\* needs_decision.
LEMMA StepUnclaimedPrStopsTicket ==
  ASSUME CommonInv, RunInv, OwnedInv, Next, TypeOK'
  PROVE  UnclaimedPrStopsTicket'
<1> USE DEF VisitPCs, PolledPCs, CleanupPCs, GitPhase, CommonInv, RunInv,
    OwnedInv, CurIsTicket, SetStatus, SetMarker, TypeOK, TicketsOK, RecordsOK,
    GitOK, OnlyRunsIntegrate, PolledIsIdle, ChildIsOfRun, ChildIsLocked,
    UnclaimedIsMarked, UnclaimedPrStopsTicket, PolledIsRecorded, PrOpens,
    CrashTarget, RemovedIsMerged, Orphan, NoChild
<1>1. CASE LockStep
  BY <1>1 DEF LockStep, StartTick, Acquire, AcquireHeld, ReconciledFirst,
     Reconcile
<1>2. CASE OutcomesStep
  BY <1>2 DEF OutcomesStep, PollDeferred, PollFails, PollEscalates, Poll,
     Feedback, RecordPolled, ApplyMerge, ApplyReview, ApplyReviewStatus,
     ApplyClosed, LeaveQueue, OutcomesDone
<1>3. CASE CleanupStep
  BY <1>3 DEF CleanupStep, CleanupRefused, CleanupBegins, VerifyFails,
     VerifyMerge, RemoveWorktree, DeleteBranch, Complete, CompletedLeavesQueue,
     CleanupDone
<1>4. CASE FreshnessStep
  BY <1>4 DEF FreshnessStep, FreshnessSkips, FreshnessStale, Requeue,
     FreshnessDone
<1>5. CASE DrainStep
  BY <1>5 DEF DrainStep, DrainSkips, DrainVisits, DrainDone, Begin, StartRun,
     Fetch, Update, ValidatorCommits, Validate, CheckHead, MarkPublishing,
     StartPush, Pushed,
     PublishNew, PublishAgain, Created, RecordPr, RecordCompleted, EnterReview,
     GitPhaseFails, GitPhaseRaises, StopForDecision
<1>6. CASE OrphanStep
  BY <1>6 DEF OrphanStep, OrphanPushes, OrphanCreates, OrphanDies
<1>7. CASE Elsewhere
  BY <1>7 DEF Elsewhere, TargetAdvances, WorkerCommits, WorkerStops, AuditReason,
     WorkerFinishes, HandoffCompleted, HumanMerges, HumanCloses, HumanReviews,
     Retry, Rework, Redirect
<1>8. CASE Crash
  BY <1>8 DEF Crash, EndTick
<1> HIDE DEF UnclaimedPrStopsTicket
<1> QED  BY <1>1, <1>2, <1>3, <1>4, <1>5, <1>6, <1>7, <1>8 DEF Next, TickStep

\* The remote branch takes the tip of the push, and nothing else.
LEMMA StepPublishedWasValidated ==
  ASSUME CommonInv, RunInv, OwnedInv, Next, TypeOK'
  PROVE  PublishedWasValidated'
<1> USE DEF CommonInv, OwnedInv, ChildIsOfRun, CurIsTicket, VisitPCs,
    GitPhase, TypeOK, RecordsOK, GitOK, PublishedWasValidated, ChildIsCurrent,
    PushLands, Orphan, Children, NoChild
<1>1. CASE LockStep
  BY <1>1 DEF LockStep, StartTick, Acquire, AcquireHeld, ReconciledFirst,
     Reconcile
<1>2. CASE OutcomesStep
  BY <1>2 DEF OutcomesStep, PollDeferred, PollFails, PollEscalates, Poll,
     Feedback, RecordPolled, ApplyMerge, ApplyReview, ApplyReviewStatus,
     ApplyClosed, LeaveQueue, OutcomesDone
<1>3. CASE CleanupStep
  BY <1>3 DEF CleanupStep, CleanupRefused, CleanupBegins, VerifyFails,
     VerifyMerge, RemoveWorktree, DeleteBranch, Complete, CompletedLeavesQueue,
     CleanupDone
<1>4. CASE FreshnessStep
  BY <1>4 DEF FreshnessStep, FreshnessSkips, FreshnessStale, Requeue,
     FreshnessDone
<1>5. CASE DrainStep
  BY <1>5 DEF DrainStep, DrainSkips, DrainVisits, DrainDone, Begin, StartRun,
     Fetch, Update, ValidatorCommits, Validate, CheckHead, MarkPublishing,
     StartPush, Pushed,
     PublishNew, PublishAgain, Created, RecordPr, RecordCompleted, EnterReview,
     GitPhaseFails, GitPhaseRaises, StopForDecision
<1>6. CASE OrphanStep
  BY <1>6 DEF OrphanStep, OrphanPushes, OrphanCreates, OrphanDies
<1>7. CASE Elsewhere
  BY <1>7 DEF Elsewhere, TargetAdvances, WorkerCommits, WorkerStops, AuditReason,
     WorkerFinishes, HandoffCompleted, HumanMerges, HumanCloses, HumanReviews,
     Retry, Rework, Redirect
<1>8. CASE Crash
  BY <1>8 DEF Crash, EndTick
<1> HIDE DEF PublishedWasValidated
<1> QED  BY <1>1, <1>2, <1>3, <1>4, <1>5, <1>6, <1>7, <1>8 DEF Next, TickStep

-----------------------------------------------------------------------------
LEMMA InitCommonInv == Init => CommonInv
<1> SUFFICES ASSUME Init PROVE CommonInv
  OBVIOUS
<1> USE RevAssumption, TargetAssumption, CrashesAssumption DEF Init
<1>1. <<1, 1>> \in Commits /\ NoCommit \in Commits
  BY DEF Commits, NoCommit
<1>2. TicketsOK /\ RecordsOK
  BY DEF TicketsOK, RecordsOK, Statuses, Markers
<1>3. GitOK
  BY <1>1 DEF GitOK
<1>4. TickOK
  BY <1>1 DEF TickOK, PCs, Statuses, NoSnapshot, Snapshots, NoRun, Runs
<1>5. TypeOK
  BY <1>2, <1>3, <1>4 DEF TypeOK, Children
<1>6. CurIsTicket /\ PolledIsRecorded /\ ReadAllowsWrite /\ ChildIsCurrent
  BY DEF CurIsTicket, PolledIsRecorded, ReadAllowsWrite, ChildIsCurrent,
     VisitPCs, PolledPCs, CleanupPCs, GitPhase, NoChild
<1>7. AuditIsOfStopped
  BY DEF AuditIsOfStopped
<1> QED  BY <1>5, <1>6, <1>7 DEF CommonInv

LEMMA InitRunInv == Init => RunInv
BY DEF Init, RunInv, MarkerIsCurrent, PolledIsIdle, ChildIsLocked,
       PushIsLatest, RunPublishes, ReviewIsPublished, RemovedIsMerged,
       NoCommitLost, HalfDoneIsEarly, PolledPCs, CleanupPCs, GitPhase, NoChild,
       NoCommit

LEMMA InitOwnedInv == Init => OwnedInv
BY DEF Init, OwnedInv, OnlyRunsIntegrate, ChildIsOfRun, UnclaimedIsMarked,
       UnclaimedPrStopsTicket, PublishedWasValidated, GitPhase, NoChild

LEMMA StepCommonInv == CommonInv /\ [Next]_vars => CommonInv'
<1>1. ASSUME CommonInv, Next PROVE CommonInv'
  BY <1>1, StepTypeOK, StepCurIsTicket, StepPolledIsRecorded,
     StepReadAllowsWrite, StepChildIsCurrent, StepAuditIsOfStopped
     DEF CommonInv
<1>2. ASSUME CommonInv, UNCHANGED vars PROVE CommonInv'
  BY <1>2 DEF vars, CommonInv, TypeOK, TicketsOK, RecordsOK, GitOK, TickOK,
     CurIsTicket, PolledIsRecorded, ReadAllowsWrite, ChildIsCurrent,
     AuditIsOfStopped
<1> QED  BY <1>1, <1>2

LEMMA StepRunInv == CommonInv /\ RunInv /\ [Next]_vars => RunInv'
<1>1. ASSUME CommonInv, RunInv, Next PROVE RunInv'
  <2>1. TypeOK'
    BY <1>1, StepTypeOK
  <2>2. MarkerIsCurrent' /\ PolledIsIdle' /\ ChildIsLocked' /\ PushIsLatest'
    BY <1>1, <2>1, StepMarkerIsCurrent, StepPolledIsIdle, StepChildIsLocked,
       StepPushIsLatest
  <2>3. RunPublishes' /\ ReviewIsPublished'
    BY <1>1, <2>1, StepRunPublishes, StepReviewIsPublished
  <2>4. RemovedIsMerged' /\ NoCommitLost' /\ HalfDoneIsEarly'
    BY <1>1, <2>1, StepRemovedIsMerged, StepNoCommitLost, StepHalfDoneIsEarly
  <2> QED  BY <2>2, <2>3, <2>4 DEF RunInv
<1>2. ASSUME RunInv, UNCHANGED vars PROVE RunInv'
  BY <1>2 DEF vars, RunInv, MarkerIsCurrent, PolledIsIdle, ChildIsLocked,
     PushIsLatest, RunPublishes, Published, ReviewIsPublished, RemovedIsMerged,
     NoCommitLost, HalfDoneIsEarly
<1> QED  BY <1>1, <1>2

LEMMA StepOwnedInv == CommonInv /\ RunInv /\ OwnedInv /\ [Next]_vars => OwnedInv'
<1>1. ASSUME CommonInv, RunInv, OwnedInv, Next PROVE OwnedInv'
  <2>1. TypeOK'
    BY <1>1, StepTypeOK
  <2>2. OnlyRunsIntegrate' /\ ChildIsOfRun'
    BY <1>1, <2>1, StepOnlyRunsIntegrate, StepChildIsOfRun
  <2>3. UnclaimedIsMarked' /\ UnclaimedPrStopsTicket' /\ PublishedWasValidated'
    BY <1>1, <2>1, StepUnclaimedIsMarked, StepUnclaimedPrStopsTicket,
       StepPublishedWasValidated
  <2> QED  BY <2>2, <2>3 DEF OwnedInv
<1>2. ASSUME OwnedInv, UNCHANGED vars PROVE OwnedInv'
  BY <1>2 DEF vars, OwnedInv, OnlyRunsIntegrate, ChildIsOfRun,
     UnclaimedIsMarked, UnclaimedPrStopsTicket, PublishedWasValidated
<1> QED  BY <1>1, <1>2

\* The invariant of the tick, its children and GitHub, with and without
\* Tickets that have blockers.
THEOREM CommonInvHolds == Spec => []CommonInv
<1>1. CommonInv /\ [Next]_vars => CommonInv'
  BY StepCommonInv
<1> QED  BY InitCommonInv, <1>1, PTL DEF Spec

\* What a run keeps: its checkpoints are current, its children end with the
\* lock, a push has the tip of its branch, and a merged Ticket is not run again,
\* although maintain_dependencies may take the Ticket away at any moment.
THEOREM RunInvHolds == Spec => []RunInv
<1>1. CommonInv /\ RunInv /\ [Next]_vars => RunInv'
  BY StepRunInv
<1> QED  BY CommonInvHolds, InitRunInv, <1>1, PTL DEF Spec

\* What a run keeps until maintain_dependencies takes its Ticket away: the
\* Ticket stays in `integrating`, its child carries what was validated, and a
\* pull request nobody recorded has a checkpoint that says so.
THEOREM OwnedInvHolds == Spec => []OwnedInv
<1>1. CommonInv /\ RunInv /\ OwnedInv /\ [Next]_vars => OwnedInv'
  BY StepOwnedInv
<1>2. Spec => []CommonInv /\ []RunInv
  BY CommonInvHolds, RunInvHolds
<1> QED  BY InitOwnedInv, <1>1, <1>2, PTL DEF Spec

\* Every variable keeps its type.
THEOREM IntegrationTypeOK == Spec => []TypeOK
<1>1. CommonInv => TypeOK
  BY DEF CommonInv
<1> QED  BY CommonInvHolds, <1>1, PTL

\* git push names a branch, and the branch is checked three steps earlier; it
\* still publishes no commit that the validators have not passed, also when the
\* push outlives its tick, for every Ticket that maintain_dependencies has not
\* taken away from a run.
THEOREM PublishedIsValidated == Spec => []PublishedWasValidated
<1>1. OwnedInv => PublishedWasValidated
  BY DEF OwnedInv
<1> QED  BY OwnedInvHolds, <1>1, PTL

\* update_task_status of the tick, of the operators and of maintain_dependencies
\* never takes a Ticket out of completed or canceled; the audit write of
\* lifecycle_runtime_path does, and nothing else.
THEOREM TerminalStaysTerminal == Spec => TerminalIsFinal
<1>1. ASSUME CommonInv, Next, NEW t \in Tickets,
             status[t] \in {"completed", "canceled"}
      PROVE  \/ status'[t] = status[t]
             \/ audit[t] # "none" /\ audit'[t] = "none" /\ status'[t] = audit[t]
  <2> USE DEF SetStatus, CommonInv, TypeOK, TicketsOK, ReadAllowsWrite,
              can_transition, CleanupPCs
  <2>1. CASE LockStep
    BY <1>1, <2>1 DEF LockStep, StartTick, Acquire, AcquireHeld,
       ReconciledFirst, Reconcile
  <2>2. CASE OutcomesStep
    <3>1. CASE \E u \in Tickets : PollDeferred(u)
      BY <1>1, <3>1 DEF PollDeferred
    <3>2. CASE \E u \in Tickets : PollFails(u)
      BY <1>1, <3>2 DEF PollFails
    <3>3. CASE \E u \in Tickets : PollEscalates(u)
      BY <1>1, <3>3 DEF PollEscalates
    <3>4. CASE \E u \in Tickets : Poll(u)
      BY <1>1, <3>4 DEF Poll
    <3>5. CASE Feedback
      BY <1>1, <3>5 DEF Feedback
    <3>6. CASE RecordPolled
      BY <1>1, <3>6 DEF RecordPolled
    <3>7. CASE ApplyMerge
      BY <1>1, <3>7 DEF ApplyMerge
    <3>8. CASE ApplyReview
      BY <1>1, <3>8 DEF ApplyReview
    <3>9. CASE ApplyReviewStatus
      BY <1>1, <3>9 DEF ApplyReviewStatus
    <3>10. CASE ApplyClosed
      BY <1>1, <3>10 DEF ApplyClosed
    <3>11. CASE LeaveQueue
      BY <1>1, <3>11 DEF LeaveQueue
    <3>12. CASE OutcomesDone
      BY <1>1, <3>12 DEF OutcomesDone
    <3> QED  BY <2>2, <3>1, <3>2, <3>3, <3>4, <3>5, <3>6, <3>7, <3>8, <3>9,
       <3>10, <3>11, <3>12
       DEF OutcomesStep
  <2>3. CASE CleanupStep
    BY <1>1, <2>3 DEF CleanupStep, CleanupRefused, CleanupBegins, VerifyFails,
       VerifyMerge, RemoveWorktree, DeleteBranch, Complete,
       CompletedLeavesQueue, CleanupDone
  <2>4. CASE FreshnessStep
    BY <1>1, <2>4 DEF FreshnessStep, FreshnessSkips, FreshnessStale, Requeue,
       FreshnessDone
  <2>5. CASE DrainStep
    BY <1>1, <2>5 DEF DrainStep, DrainSkips, DrainVisits, DrainDone, Begin,
       StartRun, Fetch, Update, ValidatorCommits, Validate, CheckHead,
       MarkPublishing, StartPush,
       Pushed, PublishNew, PublishAgain, Created, RecordPr, RecordCompleted,
       EnterReview, GitPhaseFails, GitPhaseRaises, StopForDecision
  <2>6. CASE OrphanStep
    BY <1>1, <2>6 DEF OrphanStep, OrphanPushes, OrphanCreates, OrphanDies
  <2>7. CASE Elsewhere
    BY <1>1, <2>7 DEF Elsewhere, TargetAdvances, WorkerCommits, WorkerStops,
    AuditReason,
       WorkerFinishes, HandoffCompleted, HumanMerges, HumanCloses,
       HumanReviews, Retry, Rework, Redirect
  <2>8. CASE Crash
    BY <2>8 DEF Crash
  <2> QED  BY <1>1, <2>1, <2>2, <2>3, <2>4, <2>5, <2>6, <2>7, <2>8
     DEF Next, TickStep
<1>2. CommonInv /\ [Next]_vars =>
        [\A t \in Tickets :
           status[t] \in {"completed", "canceled"} /\ status'[t] # status[t] =>
             audit[t] # "none" /\ audit'[t] = "none" /\ status'[t] = audit[t]]_vars
  BY <1>1
<1> QED  BY CommonInvHolds, <1>2, PTL DEF Spec, TerminalIsFinal

\* integrate_task and crash reconciliation hand a Ticket to review only when
\* the validated commit is the branch on GitHub and its base is recorded, with
\* and without blockers that stop.
THEOREM ReviewedIsPublished == Spec => []ReviewIsPublished
<1>1. RunInv => ReviewIsPublished
  BY DEF RunInv
<1> QED  BY RunInvHolds, <1>1, PTL

\* After gh pr create, only a human takes the Ticket past a pull request that
\* was not recorded, unless maintain_dependencies took it away from the run.
THEOREM UnclaimedPrIsSeen == Spec => []UnclaimedPrStopsTicket
<1>1. OwnedInv => UnclaimedPrStopsTicket
  BY DEF OwnedInv
<1> QED  BY OwnedInvHolds, <1>1, PTL

\* git_phase, crash reconciliation and maintain_dependencies leave a rebase or
\* merge in progress to a human only, also when its abort fails.
THEOREM UpdatesAreWhole == Spec => HalfDoneUpdateStops
<1>1. ASSUME CommonInv, RunInv, Next, NEW t \in midway',
             status[t] = "integrating", status'[t] # "integrating"
      PROVE  status'[t] = "needs_decision"
  <2> USE DEF SetStatus, CommonInv, RunInv, TypeOK, TicketsOK, GitOK,
              PolledIsIdle, HalfDoneIsEarly, ReadAllowsWrite, can_transition,
              CleanupPCs, PolledPCs, GitPhase, CurIsTicket, VisitPCs,
              AuditIsOfStopped
  <2>1. CASE LockStep
    BY <1>1, <2>1 DEF LockStep, StartTick, Acquire, AcquireHeld,
       ReconciledFirst, Reconcile, CrashTarget
  <2>2. CASE OutcomesStep
    <3>1. CASE \E u \in Tickets : PollDeferred(u)
      BY <1>1, <3>1 DEF PollDeferred
    <3>2. CASE \E u \in Tickets : PollFails(u)
      BY <1>1, <3>2 DEF PollFails
    <3>3. CASE \E u \in Tickets : PollEscalates(u)
      BY <1>1, <3>3 DEF PollEscalates
    <3>4. CASE \E u \in Tickets : Poll(u)
      BY <1>1, <3>4 DEF Poll
    <3>5. CASE Feedback
      BY <1>1, <3>5 DEF Feedback
    <3>6. CASE RecordPolled
      BY <1>1, <3>6 DEF RecordPolled
    <3>7. CASE ApplyMerge
      BY <1>1, <3>7 DEF ApplyMerge
    <3>8. CASE ApplyReview
      BY <1>1, <3>8 DEF ApplyReview
    <3>9. CASE ApplyReviewStatus
      BY <1>1, <3>9 DEF ApplyReviewStatus
    <3>10. CASE ApplyClosed
      BY <1>1, <3>10 DEF ApplyClosed
    <3>11. CASE LeaveQueue
      BY <1>1, <3>11 DEF LeaveQueue
    <3>12. CASE OutcomesDone
      BY <1>1, <3>12 DEF OutcomesDone
    <3> QED  BY <2>2, <3>1, <3>2, <3>3, <3>4, <3>5, <3>6, <3>7, <3>8, <3>9,
       <3>10, <3>11, <3>12
       DEF OutcomesStep
  <2>3. CASE CleanupStep
    BY <1>1, <2>3 DEF CleanupStep, CleanupRefused, CleanupBegins, VerifyFails,
       VerifyMerge, RemoveWorktree, DeleteBranch, Complete,
       CompletedLeavesQueue, CleanupDone
  <2>4. CASE FreshnessStep
    BY <1>1, <2>4 DEF FreshnessStep, FreshnessSkips, FreshnessStale, Requeue,
       FreshnessDone
  <2>5. CASE DrainStep
    BY <1>1, <2>5 DEF DrainStep, DrainSkips, DrainVisits, DrainDone, Begin,
       StartRun, Fetch, Update, ValidatorCommits, Validate, CheckHead,
       MarkPublishing, StartPush, Pushed, PublishNew, PublishAgain, Created,
       RecordPr, RecordCompleted, EnterReview, GitPhaseFails, GitPhaseRaises,
       StopForDecision
  <2>6. CASE OrphanStep
    BY <1>1, <2>6 DEF OrphanStep, OrphanPushes, OrphanCreates, OrphanDies
  <2>7. CASE Elsewhere
    BY <1>1, <2>7 DEF Elsewhere, TargetAdvances, WorkerCommits, WorkerStops,
       AuditReason, WorkerFinishes, HandoffCompleted, HumanMerges, HumanCloses,
       HumanReviews, Retry, Rework, Redirect
  <2>8. CASE Crash
    BY <1>1, <2>8 DEF Crash
  <2> QED  BY <1>1, <2>1, <2>2, <2>3, <2>4, <2>5, <2>6, <2>7, <2>8
     DEF Next, TickStep
<1>2. CommonInv /\ RunInv /\ [Next]_vars =>
        [\A t \in midway' :
           status[t] = "integrating" /\ status'[t] # "integrating" =>
             status'[t] = "needs_decision"]_vars
  BY <1>1
<1> QED  BY CommonInvHolds, RunInvHolds, <1>2, PTL DEF Spec, HalfDoneUpdateStops

\* Crash reconciliation catches all a killed tick may leave behind.
THEOREM CrashesAreReconciled == Spec => CrashIsReconciled
BY UnclaimedPrIsSeen, UpdatesAreWhole, PTL DEF CrashIsReconciled

\* Cleanup deletes no branch that holds unpublished work, also when a push that
\* outlived its tick lands after a blocker took the Ticket away from its run.
THEOREM CleanupLosesNothing == Spec => []NoCommitLost
<1>1. RunInv => NoCommitLost
  BY DEF RunInv
<1> QED  BY RunInvHolds, <1>1, PTL

\* Nobody but maintain_dependencies moves a Ticket out of `integrating` under a
\* run that works in its worktree.
THEOREM InFlightIsUninterrupted == Spec => []InFlightUninterrupted
<1>1. OwnedInv => InFlightUninterrupted
  BY DEF OwnedInv, OnlyRunsIntegrate, InFlightUninterrupted
<1> QED  BY OwnedInvHolds, <1>1, PTL

\* No push, orphaned or not, moves the branch of a Ticket that has left
\* `integrating`, unless maintain_dependencies took it away from the run.
THEOREM RemoteMovesInRunsOnly == Spec => RemoteMovesWhileIntegrating
<1>1. ASSUME CommonInv, OwnedInv, Next, NEW t \in Tickets \ redirected,
             remote'[t] # remote[t]
      PROVE  status[t] = "integrating"
  <2>1. CASE Pushed
    BY <1>1, <2>1 DEF Pushed, PushLands, CommonInv, TypeOK, GitOK, OwnedInv,
       ChildIsCurrent, OnlyRunsIntegrate, GitPhase, CurIsTicket, VisitPCs
  <2>2. CASE OrphanPushes
    BY <1>1, <2>2 DEF OrphanPushes, PushLands, Orphan, CommonInv, TypeOK,
       GitOK, OwnedInv, ChildIsOfRun, Children, NoChild
  <2>3. CASE UNCHANGED remote
    BY <1>1, <2>3
  <2>4. LockStep => UNCHANGED remote
    BY DEF LockStep, StartTick, Acquire, AcquireHeld, ReconciledFirst,
       Reconcile
  <2>5. OutcomesStep => UNCHANGED remote
    BY DEF OutcomesStep, PollDeferred, PollFails, PollEscalates, Poll,
       Feedback, RecordPolled, ApplyMerge, ApplyReview, ApplyReviewStatus,
       ApplyClosed, LeaveQueue, OutcomesDone
  <2>6. CleanupStep => UNCHANGED remote
    BY DEF CleanupStep, CleanupRefused, CleanupBegins, VerifyFails,
       VerifyMerge, RemoveWorktree, DeleteBranch, Complete,
       CompletedLeavesQueue, CleanupDone
  <2>7. FreshnessStep => UNCHANGED remote
    BY DEF FreshnessStep, FreshnessSkips, FreshnessStale, Requeue,
       FreshnessDone
  <2>8. DrainStep => UNCHANGED remote \/ Pushed
    BY DEF DrainStep, DrainSkips, DrainVisits, DrainDone, Begin, StartRun,
       Fetch, Update, ValidatorCommits, Validate, CheckHead, MarkPublishing,
       StartPush, PublishNew,
       PublishAgain, Created, RecordPr, RecordCompleted, EnterReview,
       GitPhaseFails, GitPhaseRaises, StopForDecision
  <2>9. OrphanStep => UNCHANGED remote \/ OrphanPushes
    BY DEF OrphanStep, OrphanCreates, OrphanDies
  <2>10. Elsewhere => UNCHANGED remote
    BY DEF Elsewhere, TargetAdvances, WorkerCommits, WorkerStops, AuditReason,
       WorkerFinishes, HandoffCompleted, HumanMerges, HumanCloses,
       HumanReviews, Retry, Rework, Redirect
  <2>11. Crash => UNCHANGED remote
    BY DEF Crash
  <2> QED  BY <1>1, <2>1, <2>2, <2>3, <2>4, <2>5, <2>6, <2>7, <2>8, <2>9,
     <2>10, <2>11
     DEF Next, TickStep
<1>2. CommonInv /\ OwnedInv /\ [Next]_vars =>
        [\A t \in Tickets \ redirected :
           remote'[t] # remote[t] => status[t] = "integrating"]_vars
  BY <1>1
<1>3. Spec => []CommonInv /\ []OwnedInv
  BY CommonInvHolds, OwnedInvHolds, PTL
<1> QED  BY <1>2, <1>3, PTL DEF Spec, RemoteMovesWhileIntegrating
=============================================================================
