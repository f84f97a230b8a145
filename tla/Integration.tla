----------------------------- MODULE Integration -----------------------------
(***************************************************************************)
(* The integration of finished Tickets of one repository: the integration   *)
(* tick (crash reconciliation, pull-request outcomes, cleanup of merged     *)
(* Tickets, freshness of open pull requests, the drain of the queue), the   *)
(* git and gh children it runs, GitHub, the workers that hand Tickets over, *)
(* and the operators.                                                       *)
(*                                                                         *)
(* The tick lock admits one tick at a time, so the tick is one sequential   *)
(* process; a killed tick is followed by a new one.  Every transaction on   *)
(* the database, every child process and every git phase is a step.  A      *)
(* commit of a task branch is <<rev, base>>: the work in it and the version *)
(* of the target branch that it contains.                                   *)
(***************************************************************************)
EXTENDS Integers, FiniteSets

CONSTANTS
  Tickets,       \* Tickets of the repository
  MaxRev,        \* bound on the work a Ticket's branch receives
  MaxTarget,     \* bound on the versions of the target branch
  MaxCrashes,    \* bound on the ticks that are killed
  Dependencies,  \* whether the Tickets have blockers that may stop
  Reviews        \* whether reviewers request changes on GitHub

ASSUME RevAssumption == MaxRev \in Nat \ {0}
ASSUME TargetAssumption == MaxTarget \in Nat \ {0}
ASSUME CrashesAssumption == MaxCrashes \in Nat
ASSUME DependenciesAssumption == Dependencies \in BOOLEAN
ASSUME ReviewsAssumption == Reviews \in BOOLEAN

VARIABLES
  status,     \* tasks.status; "working" is created up to validating
  marker,     \* task_integration_state.last_integration_status
  queue,      \* Tickets with a row in integration_queue
  handoff,    \* Tickets whose worker has yet to enqueue them
  audit,      \* the status a worker that has stopped has yet to write again
  pr,         \* task_pr_state.pr_state; "none" is pr_number IS NULL
  merged,     \* Tickets with pr_merged = 1
  base,       \* task_pr_state.integrated_base_sha; 0 is NULL
  verified,   \* Tickets with merge_verified_at
  evidence,   \* Tickets with review evidence for their current head
  validated,  \* integration_validator_evidence: commits that passed
  local,      \* the task branch in the clone
  midway,     \* worktrees with a rebase or merge in progress
  removed,    \* Tickets whose worktree is removed
  deleted,    \* Tickets whose local branch is deleted
  remote,     \* the task branch on GitHub
  target,     \* the version of the target branch on GitHub
  gh,         \* the Ticket's latest pull request on GitHub
  review,     \* Tickets whose reviewer requests changes
  child,      \* the git push or gh pr create that runs
  pc,         \* where the tick is; "idle" is no tick
  cur,        \* the Ticket the tick works on
  todo,       \* Tickets the tick's phase has yet to visit
  stuck,      \* Tickets the tick's reconciliation has yet to visit
  seen,       \* the status the tick read of each Ticket
  snap,       \* the pull request as the tick polled it
  run,        \* what the integration run under way remembers
  crashes,    \* ticks killed so far
  unclaimed,  \* history: pull requests made, not recorded, no human told yet
  redirected  \* history: Tickets that dependencies took away from their run

ticketVars == <<status, marker, queue, handoff, audit>>
recordVars == <<pr, merged, base, verified, evidence, validated>>
gitVars == <<local, midway, removed, deleted, remote>>
hubVars == <<target, gh, review>>
tickVars == <<pc, cur, todo, stuck, seen, snap, run>>
historyVars == <<unclaimed, redirected>>
vars == <<ticketVars, recordVars, gitVars, hubVars, tickVars, child, crashes,
          historyVars>>

-----------------------------------------------------------------------------
Statuses == {"working", "failed", "ready_for_integration", "integrating",
             "needs_review", "needs_decision", "canceled", "completed"}

Markers == {"none", "running", "publishing", "creating_pr", "integrated",
            "needs_decision", "crash_reconciled", "merge_detected"}

\* INTEGRATION_TRANSITIONS, without `paused`, which nothing writes.
can_transition(from, to) ==
  <<from, to>> \in
    ({"ready_for_integration"} \X {"integrating", "canceled", "completed"})
      \cup ({"integrating"} \X
              {"ready_for_integration", "needs_review", "needs_decision"})
      \cup ({"needs_review"} \X {"ready_for_integration", "needs_decision",
                                 "canceled", "completed", "working"})
      \cup ({"needs_decision"} \X {"canceled", "completed"})

Commits == (0..MaxRev) \X (0..MaxTarget)
NoCommit == <<0, 0>>

NoChild == [kind |-> "none", of |-> "none", tip |-> NoCommit]
Children == {NoChild} \cup [kind : {"push", "create"}, of : Tickets, tip : Commits]

Snapshots == [state : {"open", "closed", "merged"}, asked : BOOLEAN]
NoSnapshot == [state |-> "open", asked |-> FALSE]

\* want: the target fetched; noop: the merge found nothing to do; tip: the
\* commit that was validated, or that cleanup proved published; state: the
\* pr_state the run will record.
Runs == [want : 0..MaxTarget, noop : BOOLEAN, tip : Commits,
         state : {"open", "closed"}]
NoRun == [want |-> 0, noop |-> FALSE, tip |-> NoCommit, state |-> "open"]

\* The git phase of a run, in order.
GitPhase == {"fetching", "updating", "validating", "checking", "publishing",
             "push", "pushing", "publishPr", "creating", "recordPr", "complete",
             "review"}

PCs == {"idle", "acquireFirst", "reconcileFirst", "outcomes", "polled", "fed",
        "apply", "applyReview", "leaveQueue", "cleanup", "verifying",
        "removing", "deleting", "completing", "completed", "freshness",
        "requeue", "drain", "acquire", "reconcile", "started", "stopping"}
          \cup GitPhase

TicketsOK ==
  /\ status \in [Tickets -> Statuses]
  /\ marker \in [Tickets -> Markers]
  /\ queue \subseteq Tickets /\ handoff \subseteq Tickets
  /\ audit \in [Tickets -> {"none", "failed", "needs_decision"}]

RecordsOK ==
  /\ pr \in [Tickets -> {"none", "open", "closed"}]
  /\ base \in [Tickets -> 0..MaxTarget]
  /\ merged \subseteq Tickets /\ verified \subseteq Tickets
  /\ evidence \subseteq Tickets
  /\ validated \subseteq Tickets \X Commits

GitOK ==
  /\ local \in [Tickets -> Commits] /\ remote \in [Tickets -> Commits]
  /\ midway \subseteq Tickets
  /\ removed \subseteq Tickets /\ deleted \subseteq Tickets
  /\ target \in 1..MaxTarget
  /\ gh \in [Tickets -> {"none", "open", "closed", "merged"}]
  /\ review \subseteq Tickets
  /\ unclaimed \subseteq Tickets /\ redirected \subseteq Tickets

TickOK ==
  /\ pc \in PCs
  /\ cur \in Tickets \cup {"none"}
  /\ todo \subseteq Tickets /\ stuck \subseteq Tickets
  /\ seen \in [Tickets -> Statuses]
  /\ snap \in Snapshots
  /\ run \in Runs

TypeOK ==
  /\ TicketsOK /\ RecordsOK /\ GitOK /\ TickOK
  /\ child \in Children
  /\ crashes \in 0..MaxCrashes

Init ==
  /\ status = [t \in Tickets |-> "working"]
  /\ marker = [t \in Tickets |-> "none"]
  /\ queue = {} /\ handoff = {}
  /\ audit = [t \in Tickets |-> "none"]
  /\ pr = [t \in Tickets |-> "none"]
  /\ merged = {} /\ verified = {} /\ evidence = {} /\ validated = {}
  /\ base = [t \in Tickets |-> 0]
  /\ local = [t \in Tickets |-> <<1, 1>>]
  /\ remote = [t \in Tickets |-> NoCommit]
  /\ midway = {} /\ removed = {} /\ deleted = {}
  /\ target = 1
  /\ gh = [t \in Tickets |-> "none"]
  /\ review = {}
  /\ child = NoChild
  /\ pc = "idle"
  /\ cur = "none"
  /\ todo = {} /\ stuck = {}
  /\ seen = [t \in Tickets |-> "working"]
  /\ snap = NoSnapshot
  /\ run = NoRun
  /\ crashes = 0
  /\ unclaimed = {} /\ redirected = {}

-----------------------------------------------------------------------------
(* Helpers of the tick                                                      *)

SetStatus(t, s) == status' = [status EXCEPT ![t] = s]
SetMarker(t, m) == marker' = [marker EXCEPT ![t] = m]

At(l) == pc' = l /\ UNCHANGED <<cur, todo, stuck, seen, snap, run>>

NothingRead == [t \in Tickets |-> "working"]

\* The pass is over; what it remembered is gone.
EndTick ==
  /\ pc' = "idle" /\ cur' = "none"
  /\ todo' = {} /\ stuck' = {}
  /\ seen' = NothingRead /\ snap' = NoSnapshot /\ run' = NoRun

\* A phase lists its Tickets, and two of them read the statuses with the list.
BeginPhase(name, tickets) ==
  /\ pc' = name
  /\ todo' = tickets
  /\ seen' = [t \in Tickets |-> IF /\ name \in {"outcomes", "freshness"}
                                   /\ t \in tickets
                                  THEN status[t] ELSE "working"]
  /\ stuck' = {} /\ UNCHANGED <<cur, snap, run>>

Visit(t, l) ==
  /\ todo' = todo \ {t} /\ cur' = t /\ pc' = l
  /\ UNCHANGED <<stuck, seen, snap, run>>

\* Nothing more to do for t, or for the current Ticket.
Skip(t) ==
  /\ todo' = todo \ {t}
  /\ seen' = [seen EXCEPT ![t] = "working"]
  /\ UNCHANGED <<pc, cur, stuck, snap, run>>

Leave(phase) ==
  /\ pc' = phase /\ cur' = "none"
  /\ seen' = [seen EXCEPT ![cur] = "working"]
  /\ snap' = NoSnapshot /\ run' = NoRun
  /\ UNCHANGED <<todo, stuck>>

OpenPrs == {t \in Tickets : pr[t] = "open"}

\* Mutant of MergedUnverified: open pull requests only, as the other pick-up.
MergedUnverifiedOpen == {t \in merged \ verified : pr[t] = "open"}

\* list_merged_unverified_pr_states
MergedUnverified == merged \ verified

-----------------------------------------------------------------------------
(* The repository lock and crash reconciliation                             *)

StartTick ==
  /\ pc = "idle"
  /\ IF \E t \in Tickets : status[t] = "integrating"
       THEN At("acquireFirst")
       ELSE BeginPhase("outcomes", OpenPrs)
  /\ UNCHANGED <<ticketVars, recordVars, gitVars, hubVars, child, crashes,
                 historyVars>>

\* IntegrationRepoLock.acquire: children that outlived a dead holder are
\* terminated first.  Reconciliation lists the Tickets in `integrating`.
Acquire(from, to) ==
  /\ pc = from
  /\ child' = NoChild
  /\ stuck' = {t \in Tickets : status[t] = "integrating"}
  /\ pc' = to
  /\ UNCHANGED <<ticketVars, recordVars, gitVars, hubVars, cur, todo, seen,
                 snap, run, crashes, historyVars>>

\* The flock is still held by a child that could not be terminated.
AcquireHeld ==
  /\ child # NoChild
  /\ \/ pc = "acquireFirst" /\ BeginPhase("outcomes", OpenPrs)
     \/ pc = "acquire" /\ EndTick
  /\ UNCHANGED <<ticketVars, recordVars, gitVars, hubVars, child, crashes,
                 historyVars>>

\* Mutant of CrashTarget: only a run that had just begun is sent back.
CrashTargetLeaveUnknown(t) ==
  CASE marker[t] = "running" /\ t \in queue -> "ready_for_integration"
    [] OTHER -> "integrating"

\* classify_crash and CASE_ACTIONS.
CrashTarget(t) ==
  CASE marker[t] = "running" /\ t \in queue -> "ready_for_integration"
    [] /\ marker[t] \in {"publishing", "creating_pr"}
       /\ pr[t] # "none" /\ t \in queue -> "ready_for_integration"
    [] /\ marker[t] = "integrated"
       /\ t \notin queue /\ pr[t] # "none" /\ base[t] # 0 -> "needs_review"
    [] OTHER -> "needs_decision"

\* git rebase --abort or git merge --abort, whose exit code nobody reads.
AbortUpdate(t) == midway' = midway \ {t} \/ midway' = midway

\* The Ticket leaves `integrating`.  The marker is read of Tickets in
\* `integrating` only, so it is written in the step that ends this.
CrashTo(t, to) ==
  /\ SetStatus(t, to)
  /\ SetMarker(t, CASE to = "needs_decision" -> "needs_decision"
                    [] to = "needs_review" -> marker[t]
                    [] OTHER -> "crash_reconciled")

DiedEarly(t) == marker[t] = "running" /\ t \in queue

\* Mutant of ReconcileCrashed: nobody looks whether the abort succeeded.
ReconcileCrashedUnchecked(t) ==
  /\ CrashTo(t, CrashTarget(t))
  /\ IF DiedEarly(t) THEN AbortUpdate(t) ELSE UNCHANGED midway

\* A half-done update is aborted, and looked for again, before the Ticket goes
\* back to the queue; one that is still there, or a look that fails, needs a
\* decision.
ReconcileCrashed(t) ==
  \/ /\ CrashTo(t, CrashTarget(t))
     /\ midway' = IF DiedEarly(t) THEN midway \ {t} ELSE midway
  \/ /\ DiedEarly(t)
     /\ CrashTo(t, "needs_decision")
     /\ AbortUpdate(t)

\* _reconcile_one.  A Ticket that has left `integrating` since it was listed is
\* an exception.
Reconcile(t) ==
  /\ pc \in {"reconcileFirst", "reconcile"} /\ t \in stuck
  /\ IF status[t] = "integrating"
       THEN /\ ReconcileCrashed(t)
            /\ stuck' = stuck \ {t}
            /\ UNCHANGED <<pc, cur, todo, seen, snap, run>>
       ELSE /\ IF pc = "reconcile" THEN EndTick
                                   ELSE BeginPhase("outcomes", OpenPrs)
            /\ UNCHANGED <<status, marker, midway>>
  /\ UNCHANGED <<queue, handoff, audit, recordVars, local, removed, deleted,
                 remote, hubVars, child, crashes, historyVars>>

ReconciledFirst ==
  /\ pc = "reconcileFirst" /\ stuck = {}
  /\ BeginPhase("outcomes", OpenPrs)
  /\ UNCHANGED <<ticketVars, recordVars, gitVars, hubVars, child, crashes,
                 historyVars>>

-----------------------------------------------------------------------------
(* Pull-request outcomes: poll_pr_outcomes                                  *)

\* The integration of the Ticket is in flight: nothing is polled or recorded.
PollDeferred(t) ==
  /\ pc = "outcomes" /\ t \in todo /\ seen[t] = "integrating"
  /\ Skip(t)
  /\ UNCHANGED <<ticketVars, recordVars, gitVars, hubVars, child, crashes,
                 historyVars>>

PollFails(t) ==
  /\ pc = "outcomes" /\ t \in todo /\ seen[t] # "integrating"
  /\ Skip(t)
  /\ UNCHANGED <<ticketVars, recordVars, gitVars, hubVars, child, crashes,
                 historyVars>>

\* _poll_failed at or past the threshold of consecutive failures, which is
\* left open.
PollEscalates(t) ==
  /\ pc = "outcomes" /\ t \in todo /\ seen[t] # "integrating"
  /\ can_transition(seen[t], "needs_decision")
  /\ IF status[t] = seen[t]
       THEN SetStatus(t, "needs_decision") /\ Skip(t)
       ELSE UNCHANGED status /\ EndTick
  /\ UNCHANGED <<marker, queue, handoff, audit, recordVars, gitVars, hubVars, child,
                 crashes, historyVars>>

Poll(t) ==
  /\ pc = "outcomes" /\ t \in todo /\ seen[t] # "integrating"
  /\ todo' = todo \ {t} /\ cur' = t /\ pc' = "polled"
  /\ snap' = [state |-> gh[t], asked |-> t \in review]
  /\ UNCHANGED <<stuck, seen, run>>
  /\ UNCHANGED <<ticketVars, recordVars, gitVars, hubVars, child, crashes,
                 historyVars>>

\* process_feedback found a comment or a failed check to act on: the Ticket is
\* retried.  No transition follows, as for a Ticket read in `working`.
Feedback ==
  /\ pc = "polled"
  /\ seen[cur] = "needs_review" /\ snap.state = "open"
  /\ IF status[cur] = "needs_review"
       THEN /\ SetStatus(cur, "working")
            /\ pc' = "fed"
            /\ seen' = [seen EXCEPT ![cur] = "working"]
            /\ UNCHANGED <<cur, todo, stuck, snap, run>>
       ELSE UNCHANGED status /\ EndTick
  /\ UNCHANGED <<marker, queue, handoff, audit, recordVars, gitVars, hubVars, child,
                 crashes, historyVars>>

\* Mutant of RecordPolled: the state of the poll is written as it is.
RecordPolledRaw ==
  /\ pc \in {"polled", "fed"}
  /\ pr' = [pr EXCEPT ![cur] = snap.state]
  /\ merged' = IF snap.state = "merged" THEN merged \cup {cur} ELSE merged
  /\ At("apply")
  /\ UNCHANGED <<ticketVars, base, verified, evidence, validated, gitVars,
                 hubVars, child, crashes, historyVars>>

\* _record_pr_state.  The state of a merged pull request is `closed`.
RecordPolled ==
  /\ pc \in {"polled", "fed"}
  /\ pr' = [pr EXCEPT ![cur] = IF snap.state = "open" THEN "open" ELSE "closed"]
  /\ merged' = IF snap.state = "merged" THEN merged \cup {cur} ELSE merged
  /\ At("apply")
  /\ UNCHANGED <<ticketVars, base, verified, evidence, validated, gitVars,
                 hubVars, child, crashes, historyVars>>

\* _apply_transition, one action per outcome.
ApplyMerge ==
  /\ pc = "apply" /\ snap.state = "merged"
  /\ IF cur \in verified THEN UNCHANGED marker
                         ELSE SetMarker(cur, "merge_detected")
  /\ Leave("outcomes")
  /\ UNCHANGED <<status, queue, handoff, audit, recordVars, gitVars, hubVars, child,
                 crashes, historyVars>>

ApplyReview ==
  /\ pc = "apply" /\ snap.state = "open"
  /\ IF snap.asked /\ cur \notin evidence
       THEN /\ evidence' = evidence \cup {cur}
            /\ IF can_transition(seen[cur], "needs_decision")
                 THEN At("applyReview") ELSE Leave("outcomes")
       ELSE UNCHANGED evidence /\ Leave("outcomes")
  /\ UNCHANGED <<ticketVars, pr, merged, base, verified, validated, gitVars,
                 hubVars, child, crashes, historyVars>>

\* Mutant of ApplyReviewStatus: the status is written without the comparison.
ApplyReviewStatusBlind ==
  /\ pc = "applyReview"
  /\ SetStatus(cur, "needs_decision") /\ Leave("outcomes")
  /\ UNCHANGED <<marker, queue, handoff, audit, recordVars, gitVars, hubVars, child,
                 crashes, historyVars>>

ApplyReviewStatus ==
  /\ pc = "applyReview"
  /\ IF status[cur] = seen[cur]
       THEN SetStatus(cur, "needs_decision") /\ Leave("outcomes")
       ELSE UNCHANGED status /\ EndTick
  /\ UNCHANGED <<marker, queue, handoff, audit, recordVars, gitVars, hubVars, child,
                 crashes, historyVars>>

ApplyClosed ==
  /\ pc = "apply" /\ snap.state = "closed"
  /\ IF can_transition(seen[cur], "canceled")
       THEN IF status[cur] = seen[cur]
              THEN SetStatus(cur, "canceled") /\ At("leaveQueue")
              ELSE UNCHANGED status /\ EndTick
       ELSE UNCHANGED status /\ Leave("outcomes")
  /\ UNCHANGED <<marker, queue, handoff, audit, recordVars, gitVars, hubVars, child,
                 crashes, historyVars>>

LeaveQueue ==
  /\ pc = "leaveQueue"
  /\ queue' = queue \ {cur}
  /\ Leave("outcomes")
  /\ UNCHANGED <<status, marker, handoff, audit, recordVars, gitVars, hubVars, child,
                 crashes, historyVars>>

OutcomesDone ==
  /\ pc = "outcomes" /\ todo = {}
  /\ BeginPhase("cleanup", MergedUnverified)
  /\ UNCHANGED <<ticketVars, recordVars, gitVars, hubVars, child, crashes,
                 historyVars>>

-----------------------------------------------------------------------------
(* Cleanup of merged Tickets: run_integration_cleanup, whose exceptions the *)
(* phase catches per Ticket                                                 *)

CleanupRefused(t) ==
  /\ pc = "cleanup" /\ t \in todo
  /\ ~can_transition(status[t], "completed")
  /\ Skip(t)
  /\ UNCHANGED <<ticketVars, recordVars, gitVars, hubVars, child, crashes,
                 historyVars>>

CleanupBegins(t) ==
  /\ pc = "cleanup" /\ t \in todo
  /\ can_transition(status[t], "completed")
  /\ todo' = todo \ {t} /\ cur' = t /\ pc' = "verifying"
  /\ seen' = [seen EXCEPT ![t] = status[t]]
  /\ UNCHANGED <<stuck, snap, run>>
  /\ UNCHANGED <<ticketVars, recordVars, gitVars, hubVars, child, crashes,
                 historyVars>>

\* The merge is not verified, or _cleanup_target_refusal: the worktree is
\* dirty or the branch has commits that are not published.
VerifyFails ==
  /\ pc = "verifying"
  /\ Leave("cleanup")
  /\ UNCHANGED <<ticketVars, recordVars, gitVars, hubVars, child, crashes,
                 historyVars>>

VerifyMerge ==
  /\ pc = "verifying"
  /\ cur \in merged /\ gh[cur] = "merged"
  /\ local[cur] = remote[cur]
  /\ verified' = verified \cup {cur}
  /\ run' = [run EXCEPT !.tip = local[cur]]
  /\ pc' = "removing"
  /\ UNCHANGED <<cur, todo, stuck, seen, snap>>
  /\ UNCHANGED <<ticketVars, pr, merged, base, evidence, validated, gitVars,
                 hubVars, child, crashes, historyVars>>

\* git worktree remove without --force: a worker's changes make git decline.
RemoveWorktree ==
  /\ pc = "removing"
  /\ \/ /\ removed' = removed \cup {cur} /\ midway' = midway \ {cur}
        /\ At("deleting")
     \/ UNCHANGED <<removed, midway>> /\ Leave("cleanup")
  /\ UNCHANGED <<ticketVars, recordVars, local, deleted, remote, hubVars, child,
                 crashes, historyVars>>

\* Mutant of DeleteBranch: the tip is not read again.
DeleteBranchUnread ==
  /\ pc = "deleting"
  /\ deleted' = deleted \cup {cur} /\ At("completing")
  /\ UNCHANGED <<ticketVars, recordVars, local, midway, removed, remote,
                 hubVars, child, crashes, historyVars>>

\* _delete_local_branch
DeleteBranch ==
  /\ pc = "deleting"
  /\ IF local[cur] = run.tip
       THEN deleted' = deleted \cup {cur} /\ At("completing")
       ELSE UNCHANGED deleted /\ Leave("cleanup")
  /\ UNCHANGED <<ticketVars, recordVars, local, midway, removed, remote,
                 hubVars, child, crashes, historyVars>>

Complete ==
  /\ pc = "completing"
  /\ IF status[cur] = seen[cur]
       THEN SetStatus(cur, "completed") /\ At("completed")
       ELSE UNCHANGED status /\ Leave("cleanup")
  /\ UNCHANGED <<marker, queue, handoff, audit, recordVars, gitVars, hubVars, child,
                 crashes, historyVars>>

CompletedLeavesQueue ==
  /\ pc = "completed"
  /\ queue' = queue \ {cur}
  /\ Leave("cleanup")
  /\ UNCHANGED <<status, marker, handoff, audit, recordVars, gitVars, hubVars, child,
                 crashes, historyVars>>

CleanupDone ==
  /\ pc = "cleanup" /\ todo = {}
  /\ BeginPhase("freshness", OpenPrs)
  /\ UNCHANGED <<ticketVars, recordVars, gitVars, hubVars, child, crashes,
                 historyVars>>

-----------------------------------------------------------------------------
(* Freshness of open pull requests: poll_target_freshness                   *)

\* Up to date, in another status, without a worktree, or the fetch failed.
FreshnessSkips(t) ==
  /\ pc = "freshness" /\ t \in todo
  /\ Skip(t)
  /\ UNCHANGED <<ticketVars, recordVars, gitVars, hubVars, child, crashes,
                 historyVars>>

FreshnessStale(t) ==
  /\ pc = "freshness" /\ t \in todo
  /\ seen[t] = "needs_review"
  /\ t \notin removed /\ local[t][2] < target
  /\ IF status[t] = "needs_review"
       THEN SetStatus(t, "ready_for_integration") /\ Visit(t, "requeue")
       ELSE UNCHANGED status /\ EndTick
  /\ UNCHANGED <<marker, queue, handoff, audit, recordVars, gitVars, hubVars, child,
                 crashes, historyVars>>

Requeue ==
  /\ pc = "requeue"
  /\ queue' = queue \cup {cur}
  /\ Leave("freshness")
  /\ UNCHANGED <<status, marker, handoff, audit, recordVars, gitVars, hubVars, child,
                 crashes, historyVars>>

FreshnessDone ==
  /\ pc = "freshness" /\ todo = {}
  /\ BeginPhase("drain", queue)
  /\ UNCHANGED <<ticketVars, recordVars, gitVars, hubVars, child, crashes,
                 historyVars>>

-----------------------------------------------------------------------------
(* The drain of the queue: integrate_task                                   *)

\* _entry_guard
EntryGuard(t) == status[t] = "ready_for_integration" /\ t \notin merged

\* The entry is gone since it was listed, or the guard refuses it.  A Ticket
\* in `integrating` passes: only the lock holder can tell whether its run died.
DrainSkips(t) ==
  /\ pc = "drain" /\ t \in todo
  /\ t \notin queue \/ (~EntryGuard(t) /\ status[t] # "integrating")
  /\ Skip(t)
  /\ UNCHANGED <<ticketVars, recordVars, gitVars, hubVars, child, crashes,
                 historyVars>>

DrainVisits(t) ==
  /\ pc = "drain" /\ t \in todo
  /\ t \in queue /\ (EntryGuard(t) \/ status[t] = "integrating")
  /\ Visit(t, "acquire")
  /\ UNCHANGED <<ticketVars, recordVars, gitVars, hubVars, child, crashes,
                 historyVars>>

DrainDone ==
  /\ pc = "drain" /\ todo = {}
  /\ EndTick
  /\ UNCHANGED <<ticketVars, recordVars, gitVars, hubVars, child, crashes,
                 historyVars>>

\* The guard again, under the lock, and the first checkpoint of the run.
Begin ==
  /\ pc = "reconcile" /\ stuck = {}
  /\ IF EntryGuard(cur) THEN SetMarker(cur, "running") /\ At("started")
                        ELSE UNCHANGED marker /\ Leave("drain")
  /\ UNCHANGED <<status, queue, handoff, audit, recordVars, gitVars, hubVars, child,
                 crashes, historyVars>>

StartRun ==
  /\ pc = "started"
  /\ IF status[cur] = "ready_for_integration"
       THEN SetStatus(cur, "integrating") /\ At("fetching")
       ELSE UNCHANGED status /\ EndTick
  /\ UNCHANGED <<marker, queue, handoff, audit, recordVars, gitVars, hubVars, child,
                 crashes, historyVars>>

\* The latest target is fetched, and the rebase or merge begins.
Fetch ==
  /\ pc = "fetching"
  /\ run' = [run EXCEPT !.want = target]
  /\ midway' = IF local[cur][2] < target THEN midway \cup {cur} ELSE midway
  /\ pc' = "updating"
  /\ UNCHANGED <<cur, todo, stuck, seen, snap>>
  /\ UNCHANGED <<ticketVars, recordVars, local, removed, deleted, remote,
                 hubVars, child, crashes, historyVars>>

\* The update succeeds, or its conflicts are resolved and the result verified.
Update ==
  /\ pc = "updating"
  /\ LET tip == <<local[cur][1], run.want>>
     IN  /\ local' = [local EXCEPT ![cur] = tip]
         /\ run' = [run EXCEPT !.noop = local[cur] = tip, !.tip = tip]
  /\ midway' = midway \ {cur}
  /\ pc' = "validating"
  /\ UNCHANGED <<cur, todo, stuck, seen, snap>>
  /\ UNCHANGED <<ticketVars, recordVars, removed, deleted, remote, hubVars,
                 child, crashes, historyVars>>

\* A validator's command may commit to the task branch.
ValidatorCommits ==
  /\ pc = "validating" /\ local[cur][1] < MaxRev
  /\ local' = [local EXCEPT ![cur] = <<@[1] + 1, @[2]>>]
  /\ UNCHANGED <<ticketVars, recordVars, midway, removed, deleted, remote,
                 hubVars, tickVars, child, crashes, historyVars>>

Validate ==
  /\ pc = "validating"
  /\ validated' = validated \cup {<<cur, run.tip>>}
  /\ At("checking")
  /\ UNCHANGED <<ticketVars, pr, merged, base, verified, evidence, gitVars,
                 hubVars, child, crashes, historyVars>>

\* Mutant of ShouldPush: a merge with nothing to do is never pushed.
ShouldPushUnlessNoop == ~(pr[cur] # "none" /\ run.noop)

ShouldPush ==
  \/ ~(pr[cur] # "none" /\ run.noop)
  \/ remote[cur] # run.tip

Push(t, tip) == [kind |-> "push", of |-> t, tip |-> tip]
Create(t) == [kind |-> "create", of |-> t, tip |-> NoCommit]

\* Mutant of CheckHead: what the branch now holds is published.
CheckHeadOnly ==
  /\ pc = "checking"
  /\ At("publishing")
  /\ UNCHANGED <<ticketVars, recordVars, gitVars, hubVars, child, crashes,
                 historyVars>>

\* assert_head_on_task_branch against the validated commit.
CheckHead ==
  /\ pc = "checking"
  /\ At(IF local[cur] = run.tip THEN "publishing" ELSE "stopping")
  /\ UNCHANGED <<ticketVars, recordVars, gitVars, hubVars, child, crashes,
                 historyVars>>

\* Whether to push, which may ask GitHub, and the second checkpoint.
MarkPublishing ==
  /\ pc = "publishing"
  /\ SetMarker(cur, "publishing")
  /\ At(IF ShouldPush THEN "push" ELSE "publishPr")
  /\ UNCHANGED <<status, queue, handoff, audit, recordVars, gitVars, hubVars,
                 child, crashes, historyVars>>

\* git push names the branch: it sends what the branch holds by now.
StartPush ==
  /\ pc = "push"
  /\ child' = Push(cur, local[cur])
  /\ At("pushing")
  /\ UNCHANGED <<ticketVars, recordVars, gitVars, hubVars, crashes, historyVars>>

\* What the child does on GitHub.  A push without --force is refused when a
\* rebase has rewritten what was pushed before; one pull request is open at a
\* time.  Review evidence belongs to the head it was given for.
PushAccepted(t, tip) ==
  remote[t] \in {NoCommit, tip} \/ pr[t] # "none" \/ remote[t][2] = tip[2]

PushLands(t, tip) ==
  /\ PushAccepted(t, tip)
  /\ remote' = [remote EXCEPT ![t] = tip]
  /\ evidence' = IF remote[t] = tip THEN evidence ELSE evidence \ {t}

PrOpens(t) ==
  /\ gh[t] # "open"
  /\ gh' = [gh EXCEPT ![t] = "open"]
  /\ review' = review \ {t}
  /\ unclaimed' = unclaimed \cup {t}

Pushed ==
  /\ pc = "pushing" /\ child' = NoChild
  /\ \/ PushLands(cur, child.tip) /\ (At("publishPr") \/ At("stopping"))
     \/ UNCHANGED <<remote, evidence>> /\ At("stopping")
  /\ UNCHANGED <<ticketVars, pr, merged, base, verified, validated, local,
                 midway, removed, deleted, hubVars, crashes, historyVars>>

\* The initial run creates the pull request; later ones update and poll it.
PublishNew ==
  /\ pc = "publishPr" /\ pr[cur] = "none"
  /\ SetMarker(cur, "creating_pr")
  /\ child' = Create(cur)
  /\ At("creating")
  /\ UNCHANGED <<status, queue, handoff, audit, recordVars, gitVars, hubVars, crashes,
                 historyVars>>

PublishAgain ==
  /\ pc = "publishPr" /\ pr[cur] # "none"
  /\ run' = [run EXCEPT !.state = IF gh[cur] = "open" THEN "open" ELSE "closed"]
  /\ pc' = "complete"
  /\ UNCHANGED <<cur, todo, stuck, seen, snap>>
  /\ UNCHANGED <<ticketVars, recordVars, gitVars, hubVars, child, crashes,
                 historyVars>>

Created ==
  /\ pc = "creating" /\ child' = NoChild
  /\ \/ PrOpens(cur) /\ (At("recordPr") \/ At("stopping"))
     \/ UNCHANGED <<gh, review, unclaimed>> /\ At("stopping")
  /\ UNCHANGED <<ticketVars, recordVars, gitVars, target, crashes, redirected>>

RecordPr ==
  /\ pc = "recordPr"
  /\ pr' = [pr EXCEPT ![cur] = "open"]
  /\ unclaimed' = unclaimed \ {cur}
  /\ At("complete")
  /\ UNCHANGED <<ticketVars, merged, base, verified, evidence, validated,
                 gitVars, hubVars, child, crashes, redirected>>

\* record_integration_completed, one transaction.
RecordCompleted ==
  /\ pc = "complete"
  /\ pr' = [pr EXCEPT ![cur] = run.state]
  /\ base' = [base EXCEPT ![cur] = run.want]
  /\ SetMarker(cur, "integrated")
  /\ queue' = queue \ {cur}
  /\ At("review")
  /\ UNCHANGED <<status, handoff, audit, merged, verified, evidence, validated,
                 gitVars, hubVars, child, crashes, historyVars>>

EnterReview ==
  /\ pc = "review"
  /\ IF status[cur] = "integrating"
       THEN SetStatus(cur, "needs_review") /\ Leave("drain")
       ELSE UNCHANGED status /\ EndTick
  /\ UNCHANGED <<marker, queue, handoff, audit, recordVars, gitVars, hubVars, child,
                 crashes, historyVars>>

\* A failure the git phase handles: it asks git to abort the update, and the
\* run stops.
GitPhaseFails ==
  /\ pc \in {"fetching", "updating", "validating", "publishPr"}
  /\ AbortUpdate(cur)
  /\ At("stopping")
  /\ UNCHANGED <<ticketVars, recordVars, local, removed, deleted, remote,
                 hubVars, child, crashes, historyVars>>

\* Any other exception, caught where the integration run ends, where a failure
\* to abort is passed over.
GitPhaseRaises ==
  /\ pc \in GitPhase \ {"pushing", "creating"}
  /\ IF status[cur] = "integrating"
       THEN AbortUpdate(cur) /\ At("stopping")
       ELSE UNCHANGED midway /\ EndTick
  /\ UNCHANGED <<ticketVars, recordVars, local, removed, deleted, remote,
                 hubVars, child, crashes, historyVars>>

\* stop_for_decision
StopForDecision ==
  /\ pc = "stopping"
  /\ IF status[cur] = "integrating"
       THEN /\ SetStatus(cur, "needs_decision")
            /\ SetMarker(cur, "needs_decision")
            /\ Leave("drain")
       ELSE UNCHANGED <<status, marker>> /\ EndTick
  /\ UNCHANGED <<queue, handoff, audit, recordVars, gitVars, hubVars, child, crashes,
                 historyVars>>

-----------------------------------------------------------------------------
(* Killed ticks and the children they leave                                 *)

Crash ==
  /\ pc # "idle" /\ crashes < MaxCrashes
  /\ crashes' = crashes + 1
  /\ EndTick
  /\ UNCHANGED <<ticketVars, recordVars, gitVars, hubVars, child, historyVars>>

Orphan == child # NoChild /\ pc \notin {"pushing", "creating"}

OrphanPushes ==
  /\ Orphan /\ child.kind = "push"
  /\ PushLands(child.of, child.tip)
  /\ child' = NoChild
  /\ UNCHANGED <<ticketVars, pr, merged, base, verified, validated, local,
                 midway, removed, deleted, hubVars, tickVars, crashes,
                 historyVars>>

OrphanCreates ==
  /\ Orphan /\ child.kind = "create"
  /\ PrOpens(child.of)
  /\ child' = NoChild
  /\ UNCHANGED <<ticketVars, recordVars, gitVars, target, tickVars, crashes,
                 redirected>>

OrphanDies ==
  /\ Orphan
  /\ child' = NoChild
  /\ UNCHANGED <<ticketVars, recordVars, gitVars, hubVars, tickVars, crashes,
                 historyVars>>

-----------------------------------------------------------------------------
(* Workers, GitHub, operators                                               *)

\* A worker commits in the worktree as it finds it; a commit there may conclude
\* an update that nobody could abort.
WorkerCommits(t) ==
  /\ status[t] = "working" /\ t \notin removed
  /\ local[t][1] < MaxRev
  /\ \E b \in 0..MaxTarget :
       /\ b = local[t][2] \/ (t \in midway /\ local[t][2] < b /\ b <= target)
       /\ local' = [local EXCEPT ![t] = <<@[1] + 1, b>>]
  /\ midway' \in {midway, midway \ {t}}
  /\ UNCHANGED <<ticketVars, recordVars, removed, deleted, remote, hubVars,
                 tickVars, child, crashes, historyVars>>

\* The release of a run that did not succeed, in one transaction.
WorkerStops(t) ==
  /\ status[t] = "working"
  /\ \E s \in {"failed", "needs_decision"} :
       SetStatus(t, s) /\ audit' = [audit EXCEPT ![t] = s]
  /\ UNCHANGED <<marker, queue, handoff, recordVars, gitVars, hubVars,
                 tickVars, child, crashes, historyVars>>

\* The worker then writes the status again with its reason, whatever the Ticket
\* is by now; or it dies first.
AuditReason(t) ==
  /\ audit[t] # "none"
  /\ audit' = [audit EXCEPT ![t] = "none"]
  /\ SetStatus(t, audit[t]) \/ UNCHANGED status
  /\ UNCHANGED <<marker, queue, handoff, recordVars, gitVars, hubVars,
                 tickVars, child, crashes, historyVars>>

\* The release of a run that succeeded; its reason is not written again.
WorkerFinishes(t) ==
  /\ status[t] = "working"
  /\ SetStatus(t, "ready_for_integration")
  /\ handoff' = handoff \cup {t}
  /\ UNCHANGED <<marker, queue, audit, recordVars, gitVars, hubVars, tickVars,
                 child, crashes, historyVars>>

\* handoff_completed_implementation; an exception in it is audited only.
HandoffCompleted(t) ==
  /\ t \in handoff
  /\ handoff' = handoff \ {t}
  /\ queue' = queue \cup {t} \/ UNCHANGED queue
  /\ UNCHANGED <<status, marker, audit, recordVars, gitVars, hubVars, tickVars, child,
                 crashes, historyVars>>

HumanMerges(t) ==
  /\ gh[t] = "open" /\ target < MaxTarget
  /\ gh' = [gh EXCEPT ![t] = "merged"]
  /\ target' = target + 1
  /\ UNCHANGED <<ticketVars, recordVars, gitVars, review, tickVars, child,
                 crashes, historyVars>>

HumanCloses(t) ==
  /\ gh[t] = "open"
  /\ gh' = [gh EXCEPT ![t] = "closed"]
  /\ UNCHANGED <<ticketVars, recordVars, gitVars, target, review, tickVars,
                 child, crashes, historyVars>>

HumanReviews(t) ==
  /\ Reviews /\ gh[t] = "open"
  /\ review' = IF t \in review THEN review \ {t} ELSE review \cup {t}
  /\ UNCHANGED <<ticketVars, recordVars, gitVars, target, gh, tickVars, child,
                 crashes, historyVars>>

TargetAdvances ==
  /\ target < MaxTarget
  /\ target' = target + 1
  /\ UNCHANGED <<ticketVars, recordVars, gitVars, gh, review, tickVars, child,
                 crashes, historyVars>>

\* retry_ticket, by an operator who has read why the Ticket stopped.  It refuses
\* while the worker of the last Attempt lives.
Retry(t) ==
  /\ status[t] \in {"failed", "needs_decision"}
  /\ audit[t] = "none"
  /\ SetStatus(t, "working")
  /\ unclaimed' = unclaimed \ {t}
  /\ UNCHANGED <<marker, queue, handoff, audit, recordVars, gitVars, hubVars,
                 tickVars, child, crashes, redirected>>

\* rework_ticket: an open pull request is closed, then the Ticket is canceled
\* in the same transaction.
Rework(t) ==
  /\ status[t] \in {"needs_review", "needs_decision", "failed"}
  /\ IF pr[t] = "open" /\ t \notin merged
       THEN gh[t] # "merged" /\ gh' = [gh EXCEPT ![t] = "closed"]
       ELSE UNCHANGED gh
  /\ SetStatus(t, "canceled")
  /\ UNCHANGED <<marker, queue, handoff, audit, recordVars, gitVars, target, review,
                 tickVars, child, crashes, historyVars>>

\* maintain_dependencies finds the Ticket's blocker stopped.
Redirect(t) ==
  /\ Dependencies
  /\ status[t] \in {"ready_for_integration", "integrating", "needs_review",
                    "failed"}
  /\ SetStatus(t, "needs_decision")
  /\ redirected' = IF status[t] = "integrating" THEN redirected \cup {t}
                                                ELSE redirected
  /\ UNCHANGED <<marker, queue, handoff, audit, recordVars, gitVars, hubVars,
                 tickVars, child, crashes, unclaimed>>

-----------------------------------------------------------------------------
LockStep ==
  \/ StartTick
  \/ Acquire("acquireFirst", "reconcileFirst")
  \/ Acquire("acquire", "reconcile")
  \/ AcquireHeld
  \/ \E t \in Tickets : Reconcile(t)
  \/ ReconciledFirst

OutcomesStep ==
  \/ \E t \in Tickets :
       PollDeferred(t) \/ PollFails(t) \/ PollEscalates(t) \/ Poll(t)
  \/ Feedback \/ RecordPolled
  \/ ApplyMerge \/ ApplyReview \/ ApplyReviewStatus \/ ApplyClosed \/ LeaveQueue
  \/ OutcomesDone

CleanupStep ==
  \/ \E t \in Tickets : CleanupRefused(t) \/ CleanupBegins(t)
  \/ VerifyFails \/ VerifyMerge
  \/ RemoveWorktree \/ DeleteBranch \/ Complete \/ CompletedLeavesQueue
  \/ CleanupDone

FreshnessStep ==
  \/ \E t \in Tickets : FreshnessSkips(t) \/ FreshnessStale(t)
  \/ Requeue
  \/ FreshnessDone

DrainStep ==
  \/ \E t \in Tickets : DrainSkips(t) \/ DrainVisits(t)
  \/ DrainDone
  \/ Begin \/ StartRun \/ Fetch \/ Update
  \/ ValidatorCommits \/ Validate \/ CheckHead \/ MarkPublishing \/ StartPush
  \/ Pushed
  \/ PublishNew \/ PublishAgain \/ Created \/ RecordPr \/ RecordCompleted
  \/ EnterReview
  \/ GitPhaseFails \/ GitPhaseRaises \/ StopForDecision

TickStep ==
  LockStep \/ OutcomesStep \/ CleanupStep \/ FreshnessStep \/ DrainStep

OrphanStep == OrphanPushes \/ OrphanCreates \/ OrphanDies

Elsewhere ==
  \/ TargetAdvances
  \/ \E t \in Tickets :
       \/ WorkerCommits(t) \/ WorkerStops(t) \/ AuditReason(t)
       \/ WorkerFinishes(t)
       \/ HandoffCompleted(t)
       \/ HumanMerges(t) \/ HumanCloses(t) \/ HumanReviews(t)
       \/ Retry(t) \/ Rework(t) \/ Redirect(t)

Next == TickStep \/ Crash \/ OrphanStep \/ Elsewhere

Spec == Init /\ [][Next]_vars

\* Where the tick waits for git, gh, a validator or GitHub.  Only validators
\* have a timeout.
CallPCs == {"reconcileFirst", "reconcile", "outcomes", "polled", "verifying",
            "removing", "deleting", "freshness", "fetching", "updating",
            "validating", "checking", "publishing", "pushing", "publishPr",
            "creating"}

\* The scheduler starts a tick every minute, and the tick goes on by itself
\* where it waits for nobody else.
Fairness == WF_vars(TickStep /\ pc \notin CallPCs)

FairSpec == Spec /\ Fairness

\* No call hangs for ever, and neither does a child that outlived its tick and
\* keeps the lock.  The code does not see to this: the liveness properties
\* assume it.
CallsReturn == []<>(pc \notin CallPCs) /\ []<>(~Orphan)

-----------------------------------------------------------------------------
(* Properties                                                               *)

Published(t) ==
  /\ pr[t] # "none"
  /\ remote[t] = local[t]
  /\ <<t, remote[t]>> \in validated
  /\ base[t] = remote[t][2]

\* integrate_task hands a Ticket to review only when its branch on GitHub is
\* the commit the validators passed, that commit contains the base that is
\* recorded, and the pull request is recorded.  Workers, crashes, orphaned
\* pushes and retries all touch one of the four.
ReviewIsPublished ==
  \A t \in Tickets :
    status[t] = "needs_review" => Published(t)

\* Nothing reaches GitHub that the validators have not passed, even when a
\* validator commits or the push outlives its tick.  The push names a branch and
\* not the commit that was checked, so this is true of a Ticket only as long as
\* maintain_dependencies has not taken it away from a run: then an operator may
\* retry it, and the next worker commits between the check and the push.
PublishedWasValidated ==
  \A t \in Tickets \ redirected :
    remote[t] # NoCommit => <<t, remote[t]>> \in validated

\* A pull request that exists but was never recorded stops its Ticket until a
\* human has seen it: no later tick creates a second one on its own, unless
\* maintain_dependencies took the Ticket away from the run that created it.
UnclaimedPrStopsTicket ==
  \A t \in unclaimed \ redirected :
    status[t] \in {"integrating", "needs_decision", "canceled"}

\* The task branch on GitHub moves only while its Ticket is integrating: an
\* orphaned push is dead before the Ticket goes anywhere else.
RemoteMovesWhileIntegrating ==
  [][\A t \in Tickets \ redirected :
       remote'[t] # remote[t] => status[t] = "integrating"]_vars

\* A Ticket leaves `integrating` with a half-done rebase or merge in its worktree
\* only for needs_decision.
HalfDoneUpdateStops ==
  [][\A t \in midway' :
       status[t] = "integrating" /\ status'[t] # "integrating" =>
         status'[t] = "needs_decision"]_vars

\* What a killed tick leaves behind does not escape crash reconciliation, also
\* when the abort of an update fails: neither a pull request nobody recorded nor
\* a half-done rebase or merge goes back to the queue or on to review without a
\* human (_reconcile_one, and git_phase where a run fails by itself).
CrashIsReconciled == []UnclaimedPrStopsTicket /\ HalfDoneUpdateStops

\* While the git phase of a run works in the Ticket's worktree, nobody moves the
\* Ticket but maintain_dependencies.
InFlightUninterrupted ==
  pc \in GitPhase /\ cur \notin redirected => status[cur] = "integrating"

\* No step of the tick, of an operator or of maintain_dependencies takes a
\* Ticket out of completed or canceled, however old the status is that it read:
\* only the second write of a worker that has stopped does.
TerminalIsFinal ==
  [][\A t \in Tickets :
       status[t] \in {"completed", "canceled"} /\ status'[t] # status[t] =>
         audit[t] # "none" /\ audit'[t] = "none" /\ status'[t] = audit[t]]_vars

\* A deleted local branch had nothing that GitHub does not have, though a
\* worker may commit between the check and the removal of its worktree.
NoCommitLost == \A t \in deleted : local[t] = remote[t]

\* A Ticket does not stay in `integrating`, whatever tick is killed where, if no
\* call hangs.
IntegratingEnds ==
  CallsReturn =>
    \A t \in Tickets : status[t] = "integrating" ~> status[t] # "integrating"

\* A recorded merge is not forgotten: as long as it is not verified and the
\* Ticket can be completed, cleanup tries again and again, also after a tick that
\* was killed between recording the poll and applying it.  Whether git and GitHub
\* ever let it succeed is not up to the code.
RecordedMergeIsRetried ==
  CallsReturn =>
    \A t \in Tickets :
      <>[](t \in merged \ verified /\ can_transition(status[t], "completed")) =>
        []<>(pc = "verifying" /\ cur = t)

-----------------------------------------------------------------------------
(* The inductive invariants behind the safety properties                    *)

CleanupPCs == {"verifying", "removing", "deleting", "completing"}
PolledPCs == {"polled", "fed", "apply", "applyReview"}
VisitPCs == {"leaveQueue", "completed", "requeue", "acquire", "reconcile",
             "started", "stopping"} \cup PolledPCs \cup CleanupPCs \cup GitPhase

\* Whenever the tick works on a Ticket it has one.
CurIsTicket == pc \in VisitPCs => cur \in Tickets

\* Only recorded pull requests are polled, and merged.
PolledIsRecorded ==
  /\ pc \in {"outcomes", "leaveQueue"} \cup PolledPCs =>
       \A t \in todo : pr[t] # "none"
  /\ pc \in {"complete"} \cup PolledPCs => pr[cur] # "none"
  /\ pc = "recordPr" => gh[cur] # "none"
  /\ \A t \in Tickets : t \in merged => pr[t] # "none"
  /\ \A t \in Tickets : pr[t] # "none" => gh[t] # "none"

\* The status the tick read allows what it is about to write.
ReadAllowsWrite ==
  /\ pc = "applyReview" => can_transition(seen[cur], "needs_decision")
  /\ pc \in CleanupPCs => can_transition(seen[cur], "completed")

\* The child that the tick waits for is its own.
ChildIsCurrent ==
  /\ pc = "pushing" => child.kind = "push" /\ child.of = cur
  /\ pc = "creating" => child = Create(cur)

\* The second write of a worker meets a stopped Ticket or a closed one.
AuditIsOfStopped ==
  \A t \in Tickets :
    audit[t] # "none" =>
      status[t] \in {"failed", "needs_decision", "canceled", "completed"}

CommonInv ==
  /\ TypeOK /\ CurIsTicket /\ PolledIsRecorded /\ ReadAllowsWrite
  /\ ChildIsCurrent /\ AuditIsOfStopped

\* The checkpoint says how far the run of the current Ticket is.
MarkerIsCurrent ==
  /\ pc \in {"started", "fetching", "updating", "validating", "checking",
             "publishing"} => marker[cur] = "running"
  /\ pc \in {"push", "pushing", "publishPr"} => marker[cur] = "publishing"
  /\ pc \in {"creating", "recordPr"} => marker[cur] = "creating_pr"
  /\ pc = "complete" => marker[cur] \in {"publishing", "creating_pr"}
  /\ pc = "review" => marker[cur] = "integrated"
  /\ pc \in {"acquire", "reconcile", "started"} \cup (GitPhase \ {"review"}) =>
       cur \in queue

\* Nothing but a run enters `integrating`, so what is polled or cleaned up is
\* not in it.
PolledIsIdle ==
  /\ pc \in {"leaveQueue", "completed"} \cup PolledPCs \cup CleanupPCs =>
       status[cur] # "integrating"
  /\ pc \in {"outcomes", "leaveQueue"} \cup PolledPCs =>
       \A t \in todo : seen[t] # "integrating" => status[t] # "integrating"

\* There is no child once the lock is taken, until the run starts its own; and
\* a Ticket that is run, or has a child, is not in review.
ChildIsLocked ==
  /\ pc \in {"reconcileFirst", "reconcile", "started", "stopping"}
              \cup (GitPhase \ {"pushing", "creating"}) => child = NoChild
  /\ pc \in GitPhase \cup {"stopping"} => status[cur] # "needs_review"
  /\ child # NoChild => status[child.of] # "needs_review"
  /\ child.kind = "push" => marker[child.of] # "integrated"

\* The worker's branch is never behind GitHub; a push that outlives its tick has
\* the tip of the branch, unless the worker has gone on; and one that cleanup
\* meets has what cleanup proved published.
PushIsLatest ==
  /\ \A t \in Tickets : remote[t][1] <= local[t][1]
  /\ child.kind = "push" =>
       /\ remote[child.of][1] <= child.tip[1]
       /\ local[child.of] = child.tip \/ child.tip[1] < local[child.of][1]
       /\ pc \in {"removing", "deleting"} /\ child.of = cur => child.tip = run.tip

\* The run builds up, step by step, what ReviewIsPublished promises; the branch
\* is the run's own as long as the Ticket is in `integrating`.
RunPublishes ==
  /\ pc \in {"validating", "checking", "publishing", "push", "pushing",
             "publishPr", "creating", "recordPr", "complete"} =>
       run.tip[2] = run.want
  /\ pc \in {"checking", "publishing", "push", "pushing", "publishPr",
             "creating", "recordPr", "complete"} =>
       <<cur, run.tip>> \in validated
  /\ pc \in {"publishing", "push", "pushing", "publishPr", "creating",
             "recordPr", "complete"} =>
       (status[cur] = "integrating" => local[cur] = run.tip)
  /\ pc = "pushing" => (status[cur] = "integrating" => child.tip = run.tip)
  /\ pc \in {"publishPr", "creating", "recordPr", "complete"} =>
       (status[cur] = "integrating" => remote[cur] = run.tip)
  /\ pc \in {"creating", "recordPr"} => pr[cur] = "none"
  /\ \A t \in Tickets :
       status[t] = "integrating" /\ marker[t] = "integrated" => Published(t)

\* Only merged Tickets lose their worktree, and those are not integrated again.
RemovedIsMerged ==
  /\ deleted \subseteq removed /\ removed \subseteq merged
  /\ pc \in {"cleanup", "completed"} \cup CleanupPCs => todo \subseteq merged
  /\ pc \in CleanupPCs => cur \in merged
  /\ pc \in {"removing", "deleting"} => run.tip = remote[cur]
  /\ pc \in {"deleting", "completing"} => cur \in removed
  /\ pc \in {"started", "stopping"} \cup GitPhase => cur \notin merged
  /\ \A t \in merged : status[t] # "integrating"

\* A half-done update belongs to a run that died or failed before it published,
\* or to the run that is updating now.
HalfDoneIsEarly ==
  /\ \A t \in midway : status[t] = "integrating" => marker[t] = "running"
  /\ pc \in GitPhase \ {"fetching", "updating"} => cur \notin midway

\* What a run keeps although maintain_dependencies may take its Ticket away.
RunInv ==
  /\ MarkerIsCurrent /\ PolledIsIdle /\ ChildIsLocked /\ PushIsLatest
  /\ RunPublishes /\ ReviewIsPublished
  /\ RemovedIsMerged /\ NoCommitLost /\ HalfDoneIsEarly

\* A Ticket with a run is in `integrating`.
OnlyRunsIntegrate ==
  pc \in GitPhase \cup {"stopping"} /\ cur \notin redirected =>
    status[cur] = "integrating"

\* A child works for a Ticket in `integrating`, and a push brings what has passed
\* the validators.
ChildIsOfRun ==
  child # NoChild /\ child.of \notin redirected =>
    /\ status[child.of] = "integrating"
    /\ child.kind = "push" =>
         marker[child.of] = "publishing" /\ <<child.of, child.tip>> \in validated
    /\ child.kind = "create" =>
         marker[child.of] = "creating_pr" /\ pr[child.of] = "none"

\* An unrecorded pull request has a checkpoint that says so, and no worker.
UnclaimedIsMarked ==
  \A t \in unclaimed \ redirected :
    /\ pr[t] = "none" /\ audit[t] = "none"
    /\ status[t] = "integrating" => marker[t] = "creating_pr"
    /\ pc \in GitPhase /\ cur = t => pc = "recordPr"

\* What holds of a Ticket until maintain_dependencies takes it away from a run:
\* nobody but the tick moves it while it is in `integrating`.
OwnedInv ==
  /\ OnlyRunsIntegrate /\ ChildIsOfRun /\ UnclaimedIsMarked
  /\ UnclaimedPrStopsTicket /\ PublishedWasValidated

-----------------------------------------------------------------------------
(* What the repository says of itself and the code does not keep            *)

\* "The outcome must still land": a pull request recorded as closed that was
\* merged is recorded as merged (record_integration_completed writes the state
\* of the run's own poll, and not the merge).
MergeOutcomeLands ==
  \A t \in Tickets : pr[t] = "closed" /\ gh[t] = "merged" => t \in merged
=============================================================================
