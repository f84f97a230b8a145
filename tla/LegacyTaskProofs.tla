-------------------------- MODULE LegacyTaskProofs --------------------------
(***************************************************************************)
(* Proofs that runs, resets, the reaper, the archive and the recovery of    *)
(* LegacyTask keep one consistent history of a task, for any number of      *)
(* runners, reset requests, Attempts and faults.                            *)
(*                                                                         *)
(* AttemptMoves says what a step may do to the Attempts, RunMoves what it    *)
(* may do to the runners; each conjunct of Inv then needs only the actions  *)
(* that touch its own variables.                                            *)
(***************************************************************************)
EXTENDS LegacyTask, FiniteSetTheorems, TLAPS

-----------------------------------------------------------------------------
(* Numbers and sets *)

LEMMA AttemptFacts ==
  /\ MaxAttempts \in Nat /\ MaxFaults \in Nat
  /\ Attempts = 1..MaxAttempts /\ 1 \in Attempts /\ 0 \notin Attempts
  /\ 0..MaxAttempts = Attempts \cup {0}
BY LegacyAssumption DEF Attempts

\* The Attempts are a prefix of the numbers, and Latest is its end.
LEMMA LatestIsEnd ==
  ASSUME NEW n \in 0..MaxAttempts, Existing = 1..n
  PROVE  Latest = n
<1>1. n \in Existing \cup {0} /\ \A a \in Existing : a <= n
  BY AttemptFacts
<1>2. ASSUME NEW m \in 0..MaxAttempts, m \in Existing \cup {0},
             \A a \in Existing : a <= m
      PROVE  m = n
  BY <1>2, AttemptFacts
<1> QED  BY <1>1, <1>2 DEF Latest

LEMMA LatestIsEndNext ==
  ASSUME NEW n \in 0..MaxAttempts, Existing' = 1..n
  PROVE  Latest' = n
<1>1. n \in Existing' \cup {0} /\ \A a \in Existing' : a <= n
  BY AttemptFacts
<1>2. ASSUME NEW m \in 0..MaxAttempts, m \in Existing' \cup {0},
             \A a \in Existing' : a <= m
      PROVE  m = n
  BY <1>2, AttemptFacts
<1> QED  BY <1>1, <1>2 DEF Latest

LEMMA SameAttemptsSameLatest ==
  ASSUME Existing' = Existing
  PROVE  Latest' = Latest
BY DEF Latest

\* What _build_fields reads off the Attempts.
LEMMA FieldFacts ==
  ASSUME TypeOK, AttemptsInOrder, NEW a \in Attempts, SnapshotTerminal(a)
  PROVE  /\ BuildFields(a) \in Ledgers
         /\ BuildFields(a).final_status = attempt[a]
         /\ BuildFields(a).retry_count = a - 1
         /\ BuildFields(a).first_pass_success # "unknown"
         /\ BuildFields(a).first_pass_success = "yes" =>
              attempt[1] = "waiting_approval"
         /\ BuildFields(a) # NoLedger
<1>1. a \in 1..Latest
  BY DEF SnapshotTerminal, ClosedStatuses, Existing, AttemptsInOrder
<1>2. {b \in Existing : b < a} = 1..(a - 1)
  BY <1>1, AttemptFacts DEF AttemptsInOrder
<1>3. Cardinality({b \in Existing : b < a}) = a - 1
  <2>1. 1 \in Int /\ a - 1 \in Int /\ ~ (1 > a)
    BY AttemptFacts
  <2>2. Cardinality(1..(a - 1)) = IF 1 > a - 1 THEN 0 ELSE (a - 1) - 1 + 1
    BY <2>1, FS_Interval
  <2>3. Cardinality(1..(a - 1)) = a - 1
    BY <2>1, <2>2, AttemptFacts
  <2> QED  BY <1>2, <2>3
<1>4. SnapshotTerminal(1)
  BY <1>1, AttemptFacts DEF SnapshotTerminal, AttemptsInOrder
<1>5. /\ FirstPassSuccess \in {"yes", "no"}
      /\ FirstPassSuccess = "yes" => attempt[1] = "waiting_approval"
  BY <1>4 DEF FirstPassSuccess
<1>6. /\ BuildFields(a).final_status = attempt[a]
      /\ BuildFields(a).retry_count = a - 1
      /\ BuildFields(a).first_pass_success = FirstPassSuccess
  BY <1>3 DEF BuildFields
<1>7. attempt[a] \in ClosedStatuses /\ attempt[a] # "none"
  BY DEF SnapshotTerminal, ClosedStatuses
<1>8. a - 1 \in 0..(MaxAttempts - 1)
  BY AttemptFacts
<1>9. BuildFields(a) \in Ledgers
  BY <1>3, <1>5, <1>7, <1>8 DEF BuildFields, Ledgers
<1>10. BuildFields(a) # NoLedger
  BY <1>6, <1>7 DEF NoLedger
<1> QED  BY <1>5, <1>6, <1>9, <1>10

-----------------------------------------------------------------------------
(* Review directories *)

LEMMA ReviewsAreDirectories ==
  ASSUME NEW f \in Directories, NEW p \in Payloads, NEW k
  PROVE  AfterWrites(f, p, k) \in Directories
BY DEF AfterWrites, Directories

LEMMA ReviewIsDirectory ==
  ASSUME NEW f \in Directories, NEW p \in Payloads
  PROVE  AfterReview(f, p) \in Directories
BY ReviewsAreDirectories DEF AfterReview

-----------------------------------------------------------------------------
(* Types *)

LEMMA InitTypeOK == Init => TypeOK
BY AttemptFacts
   DEF Init, TypeOK, TaskStatuses, ActiveStatuses, ClosedStatuses, NoLineage,
       IdleClient, IdleRun, RunPCs, RunStates, LineageRows, AttemptStates,
       StepStatuses, Ledgers, NoLedger,
       Directories, NoFiles

LEMMA ResetTypeOK ==
  ASSUME TypeOK, AttemptsInOrder, RowsAreCounted,
         NEW q \in Requests, ResetStep(q)
  PROVE  TypeOK'
<1> USE AttemptFacts DEF TypeOK, taskVars, dbVars, sideVars
<1>1. CASE PreviewReset(q)
  BY <1>1 DEF PreviewReset
<1>2. CASE RejectReset(q)
  BY <1>2 DEF RejectReset, IdleClient
<1>3. CASE ReserveRetry(q)
  <2>1. PICK n \in Attempts : ReserveAttempt(q, n)
    BY <1>3 DEF ReserveRetry
  <2>2. Latest \in 0..MaxAttempts /\ generation + 1 \in 0..MaxAttempts
    BY <2>1 DEF ReserveAttempt, AttemptsInOrder, RowsAreCounted
  <2>3. /\ status' \in TaskStatuses /\ active' \in 0..MaxAttempts
        /\ generation' \in 0..MaxAttempts
        /\ attempt' \in [Attempts -> AttemptStates]
    BY <2>1, <2>2 DEF ReserveAttempt, TaskStatuses, ActiveStatuses, AttemptStates
  <2>4. lineage' \in [Requests -> LineageRows]
    BY <2>1, <2>2 DEF ReserveAttempt, LineageRows
  <2> QED  BY <1>3, <2>3, <2>4 DEF ReserveRetry, IdleClient
<1> QED  BY <1>1, <1>2, <1>3 DEF ResetStep

LEMMA FaultTypes ==
  ASSUME TypeOK, Fault
  PROVE  faults' \in 0..MaxFaults
BY AttemptFacts DEF TypeOK, Fault

LEMMA RecordTypes ==
  ASSUME TypeOK, NEW a \in Attempts, NEW step \in Steps,
         NEW to \in StepStatuses, RecordStep(a, step, to)
  PROVE  /\ progress' \in [Attempts -> [Steps -> StepStatuses]]
         /\ faults' \in 0..MaxFaults
<1>1. progress' = progress \/ progress' = [progress EXCEPT ![a][step] = to]
  BY DEF RecordStep
<1>2. faults' = faults \/ (faults < MaxFaults /\ faults' = faults + 1)
  BY DEF RecordStep, Fault
<1>3. progress' \in [Attempts -> [Steps -> StepStatuses]]
  <2>1. progress \in [Attempts -> [Steps -> StepStatuses]]
    BY DEF TypeOK
  <2> QED  BY <1>1, <2>1
<1>4. faults' \in 0..MaxFaults
  BY <1>2, AttemptFacts DEF TypeOK
<1> QED  BY <1>3, <1>4

LEMMA CloseTypes ==
  ASSUME TypeOK, NEW a \in Attempts, NEW t \in TaskStatuses,
         NEW c \in ClosedStatuses, CloseAttempt(a, t, c)
  PROVE  /\ status' \in TaskStatuses
         /\ active' \in 0..MaxAttempts
         /\ attempt' \in [Attempts -> AttemptStates]
         /\ lease' \in [Attempts -> {"none", "live", "expired", "closed"}]
BY AttemptFacts DEF TypeOK, CloseAttempt, AttemptStates

LEMMA TransitionTypes ==
  ASSUME TypeOK, NEW r \in Runners, run[r].att \in Attempts,
         NEW to \in RunningStatuses, Transition(r, to)
  PROVE  /\ status' \in TaskStatuses
         /\ attempt' \in [Attempts -> AttemptStates]
         /\ UNCHANGED <<active, generation, lease, lineage>>
BY DEF TypeOK, Transition, RunningStatuses, TaskStatuses, ActiveStatuses,
       AttemptStates

LEMMA ClaimTypes ==
  ASSUME TypeOK, NEW r \in Runners, NEW a \in Attempts, TakeLease(r, a)
  PROVE  /\ status' \in TaskStatuses
         /\ active' \in 0..MaxAttempts
         /\ attempt' \in [Attempts -> AttemptStates]
         /\ lease' \in [Attempts -> {"none", "live", "expired", "closed"}]
         /\ run' \in [Runners -> RunStates]
BY AttemptFacts DEF TypeOK, TakeLease, TaskStatuses, ActiveStatuses, RunPCs,
                    RunStates, AttemptStates

LEMMA GotoTypes ==
  ASSUME TypeOK, NEW r \in Runners, NEW l \in RunPCs, Goto(r, l)
  PROVE  /\ run' \in [Runners -> RunStates]
         /\ run'[r].pc = l /\ run'[r].att = run[r].att
         /\ \A s \in Runners \ {r} : run'[s] = run[s]
BY DEF TypeOK, Goto, RunStates

\* A run that ends leaves its process idle.
LEMMA IdleTypes ==
  ASSUME TypeOK, NEW r \in Runners, run' = [run EXCEPT ![r] = IdleRun]
  PROVE  /\ run' \in [Runners -> RunStates]
         /\ run'[r].pc = "idle" /\ run'[r].att = 0
         /\ \A s \in Runners \ {r} : run'[s] = run[s]
BY AttemptFacts DEF TypeOK, IdleRun, RunPCs, RunStates

\* What _release and the publication after it do to the runner.
LEMMA ReleaseRunner ==
  ASSUME TypeOK, NEW r \in Runners, Release(r)
  PROVE  /\ run' \in [Runners -> RunStates]
         /\ run'[r].pc = "publishing" /\ run'[r].att = run[r].att
         /\ \A s \in Runners \ {r} : run'[s] = run[s]
<1>1. run \in [Runners -> RunStates] /\ "publishing" \in RunPCs
  BY DEF TypeOK, RunPCs
<1>2. PICK b \in BOOLEAN :
        run' = [run EXCEPT ![r] = [run[r] EXCEPT !.pc = "publishing",
                                                 !.failed = b]]
  BY <1>1 DEF Release
<1>3. /\ run'[r] = [run[r] EXCEPT !.pc = "publishing", !.failed = b]
      /\ \A s \in Runners \ {r} : run'[s] = run[s]
  BY <1>1, <1>2
<1>4. run[r] \in RunStates
  BY <1>1
<1> QED  BY <1>1, <1>2, <1>3, <1>4 DEF RunStates

LEMMA PublishRunner ==
  ASSUME TypeOK, NEW r \in Runners, PublishAfterRelease(r)
  PROVE  /\ run' \in [Runners -> RunStates]
         /\ \/ run'[r].pc = "auditing" /\ run'[r].att = run[r].att
            \/ run'[r].pc = "idle" /\ run'[r].att = 0
         /\ \A s \in Runners \ {r} : run'[s] = run[s]
<1>1. run \in [Runners -> RunStates] /\ "auditing" \in RunPCs
  BY DEF TypeOK, RunPCs
<1>2. CASE run' = [run EXCEPT ![r] = [run[r] EXCEPT !.pc = "auditing"]]
  <2>1. run[r] \in RunStates
    BY <1>1
  <2> QED  BY <1>1, <1>2, <2>1 DEF RunStates
<1>3. CASE run' = [run EXCEPT ![r] = IdleRun]
  BY <1>3, IdleTypes
<1> QED  BY <1>2, <1>3 DEF PublishAfterRelease

LEMMA PublishTypes ==
  ASSUME TypeOK, AttemptsInOrder, NEW a \in Attempts, PublishOutcome(a)
  PROVE  ledger' \in [Attempts -> Ledgers]
<1>1. CASE SnapshotTerminal(a) /\ ledger' = [ledger EXCEPT ![a] = BuildFields(a)]
  BY <1>1, FieldFacts DEF TypeOK
<1>2. CASE UNCHANGED ledger
  BY <1>2 DEF TypeOK
<1> QED  BY <1>1, <1>2 DEF PublishOutcome, HandleExisting

\* A runner that is past its claim has an Attempt.
LEMMA HoldsAttempt ==
  ASSUME TypeOK, RunnersApart, NEW r \in Runners,
         run[r].pc \notin {"idle", "checked"}
  PROVE  run[r].att \in Attempts
BY AttemptFacts DEF TypeOK, RunnersApart, RunStates

LEMMA RunTypeOK ==
  ASSUME TypeOK, AttemptsInOrder, RunnersApart,
         NEW r \in Runners, RunStep(r)
  PROVE  TypeOK'
<1> USE AttemptFacts DEF taskVars, dbVars, sideVars
<1>b. /\ {"checked", "executing", "executed", "validating", "reviewing",
          "blocking", "approving", "publishing", "auditing"} \subseteq RunPCs
      /\ {"running", "passed", "failed"} \subseteq StepStatuses
      /\ {"Implementer", "Validator"} \subseteq Steps
      /\ {"blocked", "waiting_approval"} \subseteq TaskStatuses
      /\ {"blocked", "waiting_approval", "execution_aborted"}
           \subseteq ClosedStatuses
      /\ {"implementing", "validating"} \subseteq RunningStatuses
  BY DEF RunPCs, StepStatuses, Steps, TaskStatuses, ClosedStatuses,
         RunningStatuses
<1>1. CASE StartRun(r)
  BY <1>1, <1>b, GotoTypes DEF StartRun, TypeOK
<1>2. CASE BlockBeforeClaim(r) \/ AuditWrite(r)
  <2>1. run' = [run EXCEPT ![r] = IdleRun] /\ status' \in {status, "blocked"}
    BY <1>2 DEF BlockBeforeClaim, AuditWrite, BlockWithoutClaim
  <2>2. UNCHANGED <<active, generation, attempt, lease, lineage, client,
                    sideVars, did, faults>>
    BY <1>2 DEF BlockBeforeClaim, AuditWrite
  <2> QED  BY <2>1, <2>2, <1>b, IdleTypes DEF TypeOK
<1>3. CASE ClaimReserved(r)
  <2>1. active \in Attempts
    BY <1>3 DEF ClaimReserved, TypeOK
  <2>2. lineage' \in [Requests -> LineageRows]
    <3>1. PICK q \in Requests : lineage' = [lineage EXCEPT ![q].state = "claimed"]
      BY <1>3 DEF ClaimReserved
    <3>2. lineage \in [Requests -> LineageRows]
      BY DEF TypeOK
    <3> QED  BY <3>1, <3>2 DEF LineageRows
  <2> QED  BY <1>3, <2>1, <2>2, ClaimTypes DEF ClaimReserved, TypeOK
<1>4. CASE ClaimNew(r)
  BY <1>4, ClaimTypes DEF ClaimNew, TypeOK
<1>5. CASE ClaimRefused(r) \/ LoseRun(r)
  BY <1>5, IdleTypes DEF ClaimRefused, LoseRun, TypeOK
<1>6. CASE AllocationFails(r)
  BY <1>6, <1>b, HoldsAttempt, CloseTypes, GotoTypes DEF AllocationFails, TypeOK
<1>7. CASE PrepareFails(r)
  BY <1>7, <1>b, GotoTypes DEF PrepareFails, TypeOK
<1>8. CASE BeginImplementing(r) \/ BeginValidating(r)
  <2>1. run[r].att \in Attempts
    BY <1>8, HoldsAttempt DEF BeginImplementing, BeginValidating
  <2>2. PICK to \in RunningStatuses, step \in Steps :
          Transition(r, to) /\ RecordStep(run[r].att, step, "running")
    BY <1>8, <1>b DEF BeginImplementing, BeginValidating, Report,
                      RecorderForClaim
  <2>3. run' \in [Runners -> RunStates]
    BY <1>8, <1>b, GotoTypes DEF BeginImplementing, BeginValidating
  <2>4. UNCHANGED <<client, ledger, observation, owed, files, did>>
    BY <1>8 DEF BeginImplementing, BeginValidating
  <2> QED  BY <1>b, <2>1, <2>2, <2>3, <2>4, TransitionTypes, RecordTypes
           DEF TypeOK
<1>9. ASSUME NEW ok \in BOOLEAN, FinishExecutor(r, ok) \/ FinishValidators(r, ok)
      PROVE  TypeOK'
  <2>1. run[r].att \in Attempts
    BY <1>9, HoldsAttempt DEF FinishExecutor, FinishValidators
  <2>2. PICK step \in Steps, to \in StepStatuses :
          RecordStep(run[r].att, step, to)
    BY <1>9, <1>b DEF FinishExecutor, FinishValidators, Report,
                      RecorderForClaim
  <2>3. run' \in [Runners -> RunStates]
    BY <1>9, <1>b, GotoTypes DEF FinishExecutor, FinishValidators
  <2>4. did' \in [Attempts -> SUBSET {"executed", "validated"}]
    <3>1. \/ did' = did
          \/ \E d \in {"executed", "validated"} :
               did' = [did EXCEPT ![run[r].att] = did[run[r].att] \cup {d}]
      BY <1>9, <2>1 DEF FinishExecutor, FinishValidators, TypeOK
    <3>2. did \in [Attempts -> SUBSET {"executed", "validated"}]
      BY DEF TypeOK
    <3> QED  BY <2>1, <3>1, <3>2
  <2>5. UNCHANGED <<dbVars, client, ledger, observation, owed, files>>
    BY <1>9 DEF FinishExecutor, FinishValidators
  <2> QED  BY <2>1, <2>2, <2>3, <2>4, <2>5, RecordTypes DEF TypeOK
<1>10. ASSUME NEW auto \in BOOLEAN, ReviewAndGate(r, auto)  PROVE TypeOK'
  <2>1. run[r].att \in Attempts
    BY <1>10, HoldsAttempt DEF ReviewAndGate
  <2>2. \/ files' = files
        \/ \E p \in Payloads :
             files' = [files EXCEPT ![run[r].att] =
                         AfterReview(files[run[r].att], p)]
    BY <1>10 DEF ReviewAndGate, Payloads
  <2>3. files' \in [Attempts -> Directories]
    <3>1. files \in [Attempts -> Directories]
      BY DEF TypeOK
    <3> QED  BY <2>1, <2>2, <3>1, ReviewIsDirectory
  <2>4. Goto(r, "approving") \/ Goto(r, "blocking")
    BY <1>10 DEF ReviewAndGate
  <2>5. UNCHANGED <<dbVars, client, progress, ledger, observation, owed, did,
                    faults>>
    BY <1>10 DEF ReviewAndGate
  <2> QED  BY <1>b, <2>3, <2>4, <2>5, GotoTypes DEF TypeOK
<1>11. CASE DieInReview(r)
  <2>1. run[r].att \in Attempts
    BY <1>11, HoldsAttempt DEF DieInReview
  <2>2. \E p \in Payloads : \E k :
          files' = [files EXCEPT ![run[r].att] =
                      AfterWrites(files[run[r].att], p, k)]
    BY <1>11, <2>1 DEF DieInReview, Payloads, TypeOK
  <2>3. files' \in [Attempts -> Directories]
    <3>1. files \in [Attempts -> Directories]
      BY DEF TypeOK
    <3> QED  BY <2>1, <2>2, <3>1, ReviewsAreDirectories
  <2> QED  BY <1>11, IdleTypes, FaultTypes, <2>3 DEF DieInReview, TypeOK
<1>12. CASE Release(r)
  <2>1. run[r].att \in Attempts
    BY <1>12, HoldsAttempt DEF Release
  <2>2. run' \in [Runners -> RunStates]
    BY <1>12, ReleaseRunner
  <2> QED  BY <1>12, <1>b, <2>1, <2>2, CloseTypes DEF Release, TypeOK
<1>13. CASE PublishAfterRelease(r)
  <2>1. run[r].att \in Attempts
    BY <1>13, HoldsAttempt DEF PublishAfterRelease
  <2>2. run' \in [Runners -> RunStates]
    BY <1>13, PublishRunner
  <2> QED  BY <1>13, <2>1, <2>2, PublishTypes DEF PublishAfterRelease, TypeOK
<1>14. CASE CrashRun(r)
  BY <1>14, IdleTypes, FaultTypes DEF CrashRun, TypeOK
<1> QED  BY <1>1, <1>2, <1>3, <1>4, <1>5, <1>6, <1>7, <1>8, <1>9, <1>10,
            <1>11, <1>12, <1>13, <1>14 DEF RunStep

LEMMA EnvironmentTypeOK ==
  ASSUME TypeOK, AttemptsInOrder,
         \/ \E a \in Attempts : \/ LeaseExpires(a) \/ ReviewByHand(a)
                                \/ RecordObservation(a)
                                \/ RecoverAdvisoryEvidence(a)
         \/ ExpireStaleLeases \/ PublishAfterExpiry \/ CrashReaper
         \/ ArchiveTask
         \/ \E state \in {"open", "closed"} : IngestIssue(state)
  PROVE  TypeOK'
<1> USE AttemptFacts DEF taskVars, dbVars, sideVars
<1>1. ASSUME NEW a \in Attempts, LeaseExpires(a)  PROVE TypeOK'
  <2>1. faults' \in 0..MaxFaults
    BY <1>1 DEF LeaseExpires, Fault, TypeOK
  <2> QED  BY <1>1, <2>1 DEF LeaseExpires, TypeOK
<1>2. ASSUME NEW a \in Attempts, ReviewByHand(a)  PROVE TypeOK'
  <2>1. PICK p \in Payloads :
          files' = [files EXCEPT ![a] = AfterReview(files[a], p)]
    BY <1>2 DEF ReviewByHand, TypeOK
  <2>2. files' \in [Attempts -> Directories]
    BY <2>1, ReviewIsDirectory DEF TypeOK
  <2> QED  BY <1>2, <2>2 DEF ReviewByHand, TypeOK
<1>3. ASSUME NEW a \in Attempts, RecordObservation(a)  PROVE TypeOK'
  BY <1>3 DEF RecordObservation, TypeOK
<1>4. ASSUME NEW a \in Attempts, RecoverAdvisoryEvidence(a)  PROVE TypeOK'
  BY <1>4 DEF RecoverAdvisoryEvidence, TypeOK, TaskStatuses, ClosedStatuses,
              AttemptStates
<1>5. CASE ExpireStaleLeases
  <2>1. PICK a \in Attempts :
          /\ CloseAttempt(a, "blocked", "execution_aborted")
          /\ owed' = owed \cup {a}
          /\ UNCHANGED <<generation, lineage, client, run, progress, ledger,
                         observation, files, did, faults>>
    BY <1>5 DEF ExpireStaleLeases
  <2>2. "blocked" \in TaskStatuses /\ "execution_aborted" \in ClosedStatuses
    BY DEF TaskStatuses, ClosedStatuses
  <2> QED  BY <2>1, <2>2, CloseTypes DEF TypeOK
<1>6. CASE PublishAfterExpiry
  <2>1. PICK a \in owed :
          /\ PublishOutcome(a)
          /\ owed' = owed \ {a}
          /\ UNCHANGED <<dbVars, client, run, progress, observation, files,
                         did, faults>>
    BY <1>6 DEF PublishAfterExpiry
  <2>2. a \in Attempts
    BY DEF TypeOK
  <2> QED  BY <2>1, <2>2, PublishTypes DEF TypeOK
<1>7. CASE CrashReaper \/ ArchiveTask
  BY <1>7 DEF CrashReaper, ArchiveTask, TypeOK, TaskStatuses
<1>8. ASSUME NEW st \in {"open", "closed"}, IngestIssue(st)  PROVE TypeOK'
  BY <1>8 DEF IngestIssue, UpsertTask, TaskStatusFromIssue, TypeOK, TaskStatuses
<1> QED  BY <1>1, <1>2, <1>3, <1>4, <1>5, <1>6, <1>7, <1>8

-----------------------------------------------------------------------------
(* What a step does to the Attempts *)

\* An Attempt goes forward, and once closed only the advisory recovery moves it.
LegalAdvance(from, to) ==
  \/ from = "created" /\ to = "preparing"
  \/ from \in RunningStatuses /\ to \in RunningStatuses \cup ClosedStatuses
  \/ from = "blocked" /\ to = "waiting_approval"

\* The next Attempt is opened, and no other one is open.
Opens(n) ==
  /\ n = Latest + 1
  /\ \A a \in Attempts : attempt[a] \notin ActiveStatuses
  /\ \E to \in {"created", "preparing"} : attempt' = [attempt EXCEPT ![n] = to]

Advances(a) ==
  \E to \in AttemptStates : /\ LegalAdvance(attempt[a], to)
                            /\ attempt' = [attempt EXCEPT ![a] = to]

LEMMA CloseAdvances ==
  ASSUME TypeOK, LeaseIsOpen, NEW a \in Attempts, NEW t,
         NEW c \in ClosedStatuses, CloseAttempt(a, t, c)
  PROVE  Advances(a) /\ attempt' = [attempt EXCEPT ![a] = c]
BY DEF CloseAttempt, LeaseIsOpen, Advances, LegalAdvance, AttemptStates

LEMMA TransitionAdvances ==
  ASSUME TypeOK, LeaseIsOpen, NEW r \in Runners, run[r].att \in Attempts,
         NEW to \in RunningStatuses, Transition(r, to)
  PROVE  /\ Advances(run[r].att)
         /\ attempt' = [attempt EXCEPT ![run[r].att] = to]
BY DEF Transition, LeaseIsOpen, ActiveLease, Advances, LegalAdvance,
       AttemptStates, ActiveStatuses, RunningStatuses

\* A step of run_approved_task touches the Attempt its runner holds
\* afterwards, and before that either held it or found it unclaimed.
LEMMA RunAttempts ==
  ASSUME Inv, NEW r \in Runners, RunStep(r)
  PROVE  \/ attempt' = attempt
         \/ /\ run'[r].att \in Attempts /\ Opens(run'[r].att)
            /\ attempt' = [attempt EXCEPT ![run'[r].att] = "preparing"]
         \/ /\ run'[r].att \in Attempts /\ Advances(run'[r].att)
            /\ run'[r].att = run[r].att \/ attempt[run'[r].att] = "created"
<1> USE DEF Inv
<1>1. CASE \/ StartRun(r) \/ BlockBeforeClaim(r) \/ ClaimRefused(r)
           \/ PrepareFails(r) \/ DieInReview(r) \/ PublishAfterRelease(r)
           \/ AuditWrite(r) \/ LoseRun(r) \/ CrashRun(r)
           \/ (\E ok \in BOOLEAN : FinishExecutor(r, ok))
           \/ (\E ok \in BOOLEAN : FinishValidators(r, ok))
           \/ (\E auto \in BOOLEAN : ReviewAndGate(r, auto))
  BY <1>1 DEF StartRun, BlockBeforeClaim, ClaimRefused, PrepareFails,
     DieInReview, PublishAfterRelease, AuditWrite, LoseRun, CrashRun,
     FinishExecutor, FinishValidators, ReviewAndGate, dbVars
<1>2. CASE ClaimReserved(r)
  <2>1. active \in Attempts /\ TakeLease(r, active) /\ attempt[active] = "created"
    BY <1>2, AttemptFacts DEF ClaimReserved, TypeOK
  <2>2. run'[r].att = active /\ attempt' = [attempt EXCEPT ![active] = "preparing"]
    BY <2>1 DEF TakeLease, TypeOK
  <2> QED  BY <2>1, <2>2 DEF Advances, LegalAdvance, AttemptStates, ActiveStatuses
<1>3. CASE ClaimNew(r)
  <2>1. PICK n \in Attempts : n = Latest + 1 /\ TakeLease(r, n)
    BY <1>3 DEF ClaimNew
  <2>2. run'[r].att = n /\ attempt' = [attempt EXCEPT ![n] = "preparing"]
    BY <2>1 DEF TakeLease, TypeOK
  <2> QED  BY <1>3, <2>1, <2>2 DEF ClaimNew, Opens
<1>4. CASE AllocationFails(r)
  <2>1. /\ run[r].att \in Attempts
        /\ CloseAttempt(run[r].att, "blocked", "execution_aborted")
        /\ Goto(r, "publishing")
    BY <1>4, HoldsAttempt DEF AllocationFails
  <2>2. "execution_aborted" \in ClosedStatuses /\ "publishing" \in RunPCs
    BY DEF ClosedStatuses, RunPCs
  <2> QED  BY <2>1, <2>2, CloseAdvances, GotoTypes
<1>5. CASE BeginImplementing(r) \/ BeginValidating(r)
  <2>1. /\ run[r].att \in Attempts
        /\ \E to \in RunningStatuses : Transition(r, to)
        /\ \E l \in RunPCs : Goto(r, l)
    BY <1>5, HoldsAttempt DEF BeginImplementing, BeginValidating,
       RunningStatuses, RunPCs
  <2> QED  BY <2>1, TransitionAdvances, GotoTypes
<1>6. CASE Release(r)
  <2>1. /\ run[r].att \in Attempts
        /\ \E t, c \in ClosedStatuses : CloseAttempt(run[r].att, t, c)
    BY <1>6, HoldsAttempt DEF Release, ClosedStatuses
  <2>2. run'[r].att = run[r].att
    BY <1>6, ReleaseRunner
  <2> QED  BY <2>1, <2>2, CloseAdvances
<1> QED  BY <1>1, <1>2, <1>3, <1>4, <1>5, <1>6 DEF RunStep

LEMMA AttemptMoves ==
  ASSUME Inv, Next
  PROVE  \/ attempt' = attempt
         \/ \E n \in Attempts : Opens(n)
         \/ \E a \in Attempts : Advances(a)
<1> USE DEF Inv
<1>1. ASSUME NEW q \in Requests, ResetStep(q)
      PROVE  attempt' = attempt \/ \E n \in Attempts : Opens(n)
  BY <1>1 DEF ResetStep, PreviewReset, ReserveRetry, RejectReset, MayReserve,
              ReserveAttempt, Opens, dbVars
<1>2. ASSUME NEW r \in Runners, RunStep(r)
      PROVE  \/ attempt' = attempt
             \/ \E n \in Attempts : Opens(n)
             \/ \E a \in Attempts : Advances(a)
  BY <1>2, RunAttempts
<1>3. ASSUME NEW a \in Attempts, RecoverAdvisoryEvidence(a)  PROVE Advances(a)
  BY <1>3 DEF RecoverAdvisoryEvidence, RecoverableAttempt, Advances,
              LegalAdvance, AttemptStates, ClosedStatuses
<1>4. CASE ExpireStaleLeases
  <2>1. PICK a \in Attempts : CloseAttempt(a, "blocked", "execution_aborted")
    BY <1>4 DEF ExpireStaleLeases
  <2>2. "execution_aborted" \in ClosedStatuses
    BY DEF ClosedStatuses
  <2> QED  BY <2>1, <2>2, CloseAdvances
<1>5. ASSUME \/ \E a \in Attempts : \/ LeaseExpires(a) \/ ReviewByHand(a)
                                    \/ RecordObservation(a)
             \/ PublishAfterExpiry \/ CrashReaper \/ ArchiveTask
             \/ \E state \in {"open", "closed"} : IngestIssue(state)
      PROVE  attempt' = attempt
  BY <1>5 DEF LeaseExpires, ReviewByHand, RecordObservation, PublishAfterExpiry,
     CrashReaper, ArchiveTask, IngestIssue, dbVars
<1> QED  BY <1>1, <1>2, <1>3, <1>4, <1>5 DEF Next

LEMMA StepAttemptsInOrder ==
  ASSUME Inv, Next
  PROVE  /\ AttemptsInOrder'
         /\ Latest' \in {Latest, Latest + 1}
         /\ attempt' # attempt /\ Latest' = Latest =>
              \E a \in Attempts : Advances(a)
<1> USE AttemptFacts DEF Inv
<1>1. ASSUME Existing' = Existing,
             \A a \in Attempts : attempt[a] \in ClosedStatuses =>
                                   attempt'[a] \in ClosedStatuses
      PROVE  AttemptsInOrder' /\ Latest' = Latest
  BY <1>1, SameAttemptsSameLatest DEF AttemptsInOrder
<1>2. CASE attempt' = attempt
  BY <1>1, <1>2 DEF Existing
<1>3. ASSUME NEW a \in Attempts, Advances(a)
      PROVE  AttemptsInOrder' /\ Latest' = Latest
  BY <1>1, <1>3 DEF Existing, Advances, LegalAdvance, TypeOK, ClosedStatuses,
     RunningStatuses
<1>4. ASSUME NEW n \in Attempts, Opens(n)
      PROVE  AttemptsInOrder' /\ Latest' = Latest + 1
  <2>1. PICK to \in {"created", "preparing"} : attempt' = [attempt EXCEPT ![n] = to]
    BY <1>4 DEF Opens
  <2>2. n = Latest + 1 /\ Existing = 1..Latest /\ Latest \in 0..MaxAttempts
    BY <1>4 DEF Opens, AttemptsInOrder
  <2>3. Existing' = Existing \cup {n}
    BY <2>1 DEF Existing, TypeOK
  <2>4. Existing' = 1..n
    BY <2>2, <2>3
  <2>5. Latest' = n
    BY <2>4, LatestIsEndNext
  <2>6. ASSUME NEW a \in Attempts, a < n  PROVE attempt'[a] \in ClosedStatuses
    <3>1. attempt[a] # "none" /\ attempt[a] \notin ActiveStatuses
      BY <1>4, <2>2, <2>6 DEF Existing, Opens
    <3>2. attempt'[a] = attempt[a]
      BY <2>1, <2>6 DEF TypeOK
    <3> QED  BY <3>1, <3>2 DEF TypeOK, AttemptStates
  <2> QED  BY <2>2, <2>4, <2>5, <2>6 DEF AttemptsInOrder
<1>5. Latest \in Int
  BY DEF AttemptsInOrder
<1> QED  BY <1>2, <1>3, <1>4, <1>5, AttemptMoves

-----------------------------------------------------------------------------
(* Leases *)

LEMMA StepLeaseIsOpen ==
  ASSUME Inv, Next
  PROVE  LeaseIsOpen'
<1> USE DEF Inv
<1>1. ASSUME attempt' = attempt, lease' = lease  PROVE LeaseIsOpen'
  BY <1>1 DEF LeaseIsOpen
<1>2. ASSUME NEW a \in Attempts, NEW t, NEW c \in ClosedStatuses,
             CloseAttempt(a, t, c)
      PROVE  LeaseIsOpen'
  BY <1>2 DEF CloseAttempt, LeaseIsOpen, ActiveLease, TypeOK
<1>3. ASSUME NEW r \in Runners, NEW a \in Attempts, TakeLease(r, a)
      PROVE  LeaseIsOpen'
  BY <1>3 DEF TakeLease, LeaseIsOpen, RunningStatuses, TypeOK
<1>4. ASSUME NEW q \in Requests, ResetStep(q)  PROVE LeaseIsOpen'
  <2>1. CASE ReserveRetry(q)
    <3>1. PICK n \in Attempts : ReserveAttempt(q, n)
      BY <2>1 DEF ReserveRetry
    <3>2. n \notin Existing
      BY <3>1, AttemptFacts DEF ReserveAttempt, AttemptsInOrder
    <3> QED  BY <2>1, <3>1, <3>2 DEF ReserveRetry, ReserveAttempt, Existing,
                LeaseIsOpen, RunningStatuses, TypeOK
  <2> QED  BY <1>1, <1>4, <2>1 DEF ResetStep, PreviewReset, RejectReset, dbVars
<1>5. ASSUME NEW r \in Runners, RunStep(r)  PROVE LeaseIsOpen'
  <2>1. CASE ClaimReserved(r)
    BY <1>3, <2>1, AttemptFacts DEF ClaimReserved, TypeOK
  <2>2. CASE ClaimNew(r)
    BY <1>3, <2>2 DEF ClaimNew
  <2>3. CASE AllocationFails(r) \/ Release(r)
    BY <1>2, <2>3, HoldsAttempt DEF AllocationFails, Release, ClosedStatuses
  <2>4. CASE BeginImplementing(r) \/ BeginValidating(r)
    <3>1. run[r].att \in Attempts
      BY <2>4, HoldsAttempt DEF BeginImplementing, BeginValidating
    <3>2. PICK to \in RunningStatuses : Transition(r, to)
      BY <2>4 DEF BeginImplementing, BeginValidating, RunningStatuses
    <3> QED  BY <3>1, <3>2 DEF Transition, LeaseIsOpen, TypeOK
  <2> QED  BY <1>1, <1>5, <2>1, <2>2, <2>3, <2>4 DEF RunStep, StartRun,
           BlockBeforeClaim, ClaimRefused, PrepareFails, DieInReview,
           PublishAfterRelease, AuditWrite, LoseRun, CrashRun, FinishExecutor,
           FinishValidators, ReviewAndGate, dbVars
<1>6. ASSUME NEW a \in Attempts, LeaseExpires(a)  PROVE LeaseIsOpen'
  BY <1>6 DEF LeaseExpires, LeaseIsOpen, ActiveLease, TypeOK
<1>7. ASSUME NEW a \in Attempts, RecoverAdvisoryEvidence(a)  PROVE LeaseIsOpen'
  BY <1>7 DEF RecoverAdvisoryEvidence, RecoverableAttempt, LeaseIsOpen,
              RunningStatuses, TypeOK
<1>8. CASE ExpireStaleLeases
  BY <1>2, <1>8 DEF ExpireStaleLeases, ClosedStatuses
<1>9. ASSUME \/ \E a \in Attempts : ReviewByHand(a) \/ RecordObservation(a)
             \/ PublishAfterExpiry \/ CrashReaper \/ ArchiveTask
             \/ \E state \in {"open", "closed"} : IngestIssue(state)
      PROVE  LeaseIsOpen'
  BY <1>1, <1>9 DEF ReviewByHand, RecordObservation, PublishAfterExpiry,
     CrashReaper, ArchiveTask, IngestIssue, dbVars
<1> QED  BY <1>4, <1>5, <1>6, <1>7, <1>8, <1>9 DEF Next

-----------------------------------------------------------------------------
(* Runners *)

\* Where a step of run_approved_task leads its runner; the others stay.
LEMMA RunMoves ==
  ASSUME Inv, NEW r \in Runners, RunStep(r)
  PROVE  /\ \A s \in Runners \ {r} : run'[s] = run[s]
         /\ \/ run'[r].pc \in {"idle", "checked"} /\ run'[r].att = 0
            \/ /\ run'[r].pc = "claimed" /\ run'[r].att \in Attempts
               /\ attempt'[run'[r].att] = "preparing"
               /\ attempt[run'[r].att] \in {"none", "created"}
            \/ /\ run'[r].pc \in WorkingPCs /\ run[r].pc \in WorkingPCs
               /\ run'[r].att = run[r].att
            \/ /\ run'[r].pc \in {"publishing", "auditing"}
               /\ run'[r].att = run[r].att /\ run[r].att \in Attempts
               /\ attempt'[run[r].att] \in ClosedStatuses
<1> USE DEF Inv
<1>a. {"checked", "executing", "executed", "validating", "reviewing",
       "blocking", "approving", "publishing"} \subseteq RunPCs
  BY DEF RunPCs
<1>b. ASSUME NEW n \in Attempts, n = Latest + 1  PROVE attempt[n] = "none"
  BY <1>b, AttemptFacts DEF AttemptsInOrder, Existing
<1>1. CASE StartRun(r)
  <2>1. Goto(r, "checked") /\ run[r].att = 0
    BY <1>1 DEF StartRun, RunnersApart
  <2> QED  BY <1>a, <2>1, GotoTypes
<1>2. CASE \/ BlockBeforeClaim(r) \/ ClaimRefused(r) \/ DieInReview(r)
           \/ AuditWrite(r) \/ LoseRun(r) \/ CrashRun(r)
  BY <1>2, IdleTypes DEF BlockBeforeClaim, ClaimRefused, DieInReview,
     AuditWrite, LoseRun, CrashRun
<1>3. CASE ClaimReserved(r) \/ ClaimNew(r)
  <2>1. PICK a \in Attempts : TakeLease(r, a) /\ attempt[a] \in {"none", "created"}
    BY <1>3, <1>b, AttemptFacts DEF ClaimReserved, ClaimNew, TypeOK
  <2>2. run' = [run EXCEPT ![r] = [pc |-> "claimed", att |-> a, failed |-> FALSE]]
    BY <2>1 DEF TakeLease
  <2>3. attempt'[a] = "preparing"
    BY <2>1 DEF TakeLease, TypeOK
  <2>4. run \in [Runners -> RunStates]
    BY DEF TypeOK
  <2>5. run'[r].pc = "claimed" /\ run'[r].att = a
    BY <2>2, <2>4
  <2> QED  BY <2>1, <2>2, <2>3, <2>4, <2>5
<1>4. CASE AllocationFails(r)
  <2>1. /\ run[r].att \in Attempts /\ Goto(r, "publishing")
        /\ CloseAttempt(run[r].att, "blocked", "execution_aborted")
    BY <1>4, HoldsAttempt DEF AllocationFails
  <2>2. attempt'[run[r].att] \in ClosedStatuses
    BY <2>1 DEF CloseAttempt, TypeOK, ClosedStatuses
  <2> QED  BY <1>a, <2>1, <2>2, GotoTypes
<1>5. CASE \/ PrepareFails(r) \/ BeginImplementing(r) \/ BeginValidating(r)
           \/ (\E ok \in BOOLEAN : FinishExecutor(r, ok))
           \/ (\E ok \in BOOLEAN : FinishValidators(r, ok))
           \/ (\E auto \in BOOLEAN : ReviewAndGate(r, auto))
  <2>1. /\ run[r].pc \in WorkingPCs
        /\ \E l \in {"executing", "executed", "validating", "reviewing",
                     "blocking", "approving"} : Goto(r, l)
    BY <1>5 DEF PrepareFails, BeginImplementing, BeginValidating,
       FinishExecutor, FinishValidators, ReviewAndGate, WorkingPCs
  <2> QED  BY <1>a, <2>1, GotoTypes DEF WorkingPCs
<1>6. CASE Release(r)
  <2>1. PICK c \in ClosedStatuses : \E t : CloseAttempt(run[r].att, t, c)
    BY <1>6 DEF Release, ClosedStatuses
  <2>2. run[r].att \in Attempts
    BY <1>6, HoldsAttempt DEF Release
  <2>3. attempt'[run[r].att] \in ClosedStatuses
    BY <2>1, <2>2 DEF CloseAttempt, TypeOK
  <2> QED  BY <1>6, <2>2, <2>3, ReleaseRunner
<1>7. CASE PublishAfterRelease(r)
  <2>1. /\ run[r].att \in Attempts /\ attempt' = attempt
        /\ attempt[run[r].att] \in ClosedStatuses
    BY <1>7, HoldsAttempt DEF PublishAfterRelease, RunnersApart, dbVars
  <2> QED  BY <1>7, <2>1, PublishRunner
<1> QED  BY <1>1, <1>2, <1>3, <1>4, <1>5, <1>6, <1>7 DEF RunStep

\* Steps of everybody else leave the runners alone, and abort an Attempt at
\* most under a runner that is at work.
LEMMA OthersMoves ==
  ASSUME Inv, Next, \A r \in Runners : ~ RunStep(r)
  PROVE  /\ run' = run
         /\ \A a \in Attempts :
              /\ attempt[a] \in RunningStatuses \cup {"execution_aborted"} =>
                   attempt'[a] \in RunningStatuses \cup {"execution_aborted"}
              /\ attempt[a] \in ClosedStatuses => attempt'[a] \in ClosedStatuses
<1> USE DEF Inv
<1>1. ASSUME NEW q \in Requests, ReserveRetry(q)
      PROVE  /\ run' = run
             /\ \A a \in Attempts : attempt[a] # "none" => attempt'[a] = attempt[a]
  <2>1. PICK n \in Attempts : ReserveAttempt(q, n)
    BY <1>1 DEF ReserveRetry
  <2>2. n \notin Existing
    BY <2>1, AttemptFacts DEF ReserveAttempt, AttemptsInOrder
  <2> QED  BY <1>1, <2>1, <2>2 DEF ReserveRetry, ReserveAttempt, Existing, TypeOK
<1>2. ASSUME NEW a \in Attempts, RecoverAdvisoryEvidence(a)
      PROVE  /\ run' = run /\ attempt[a] = "blocked"
             /\ attempt' = [attempt EXCEPT ![a] = "waiting_approval"]
  BY <1>2 DEF RecoverAdvisoryEvidence, RecoverableAttempt
<1>3. ASSUME ExpireStaleLeases
      PROVE  /\ run' = run
             /\ \E a \in Attempts : /\ attempt[a] \in RunningStatuses
                                    /\ attempt' = [attempt EXCEPT
                                         ![a] = "execution_aborted"]
  BY <1>3 DEF ExpireStaleLeases, CloseAttempt, LeaseIsOpen
<1>4. ASSUME \/ \E q \in Requests : PreviewReset(q) \/ RejectReset(q)
             \/ \E a \in Attempts : \/ LeaseExpires(a) \/ ReviewByHand(a)
                                    \/ RecordObservation(a)
             \/ PublishAfterExpiry \/ CrashReaper \/ ArchiveTask
             \/ \E state \in {"open", "closed"} : IngestIssue(state)
      PROVE  run' = run /\ attempt' = attempt
  BY <1>4 DEF PreviewReset, RejectReset, LeaseExpires, ReviewByHand,
     RecordObservation, PublishAfterExpiry, CrashReaper, ArchiveTask,
     IngestIssue, dbVars
<1>5. CASE \E q \in Requests : ReserveRetry(q)
  BY <1>1, <1>5 DEF RunningStatuses, ClosedStatuses
<1>6. CASE \E a \in Attempts : RecoverAdvisoryEvidence(a)
  BY <1>2, <1>6 DEF RunningStatuses, ClosedStatuses, TypeOK
<1>7. CASE ExpireStaleLeases
  BY <1>3, <1>7 DEF RunningStatuses, ClosedStatuses, TypeOK
<1> QED  BY <1>4, <1>5, <1>6, <1>7 DEF Next, ResetStep

LEMMA StepRunnersApart ==
  ASSUME Inv, Next
  PROVE  RunnersApart'
<1> USE DEF Inv
<1>1. ASSUME NEW r \in Runners, RunStep(r)  PROVE RunnersApart'
  <2>1. ASSUME NEW s \in Runners, s # r, run[s].att # 0
        PROVE  /\ run[s].att \in Attempts
               /\ run'[s] = run[s]
               /\ run'[r].att # run[s].att
               /\ attempt'[run[s].att] = attempt[run[s].att]
    <3>1. /\ run[s].att \in Attempts /\ run[s].att # run[r].att
          /\ attempt[run[s].att] \notin {"none", "created"}
      BY <2>1, AttemptFacts DEF RunnersApart, RunningStatuses, ClosedStatuses,
         WorkingPCs, TypeOK, RunStates, RunPCs
    <3>2. run'[s] = run[s] /\ run'[r].att # run[s].att
      BY <1>1, <2>1, <3>1, RunMoves, AttemptFacts
    <3>3. \/ attempt' = attempt
          \/ /\ run'[r].att \in Attempts
             /\ \E to : attempt' = [attempt EXCEPT ![run'[r].att] = to]
      BY <1>1, RunAttempts DEF Advances
    <3> QED  BY <3>1, <3>2, <3>3 DEF TypeOK
  <2>2. ASSUME run'[r].pc \in WorkingPCs, run[r].pc \in WorkingPCs,
               run'[r].att = run[r].att
        PROVE  attempt'[run[r].att] \in RunningStatuses \cup {"execution_aborted"}
    <3>1. run[r].att \in Attempts
      BY <2>2, HoldsAttempt DEF WorkingPCs
    <3>2. attempt[run[r].att] \in RunningStatuses \cup {"execution_aborted"}
      BY <2>2 DEF RunnersApart
    <3>3. CASE BeginImplementing(r) \/ BeginValidating(r)
      BY <3>1, <3>3 DEF BeginImplementing, BeginValidating, Transition, TypeOK,
         RunningStatuses
    <3>4. CASE attempt' = attempt
      BY <3>2, <3>4
    <3>5. CASE ClaimReserved(r) \/ ClaimNew(r)
      BY <2>2, <3>5 DEF ClaimReserved, ClaimNew, WorkingPCs
    <3>6. CASE AllocationFails(r)
      BY <2>2, <3>6, GotoTypes DEF AllocationFails, WorkingPCs, RunPCs
    <3>7. CASE Release(r)
      BY <2>2, <3>7, ReleaseRunner DEF WorkingPCs
    <3> QED  BY <1>1, <3>3, <3>4, <3>5, <3>6, <3>7 DEF RunStep, StartRun,
             BlockBeforeClaim, ClaimRefused, PrepareFails, DieInReview,
             PublishAfterRelease, AuditWrite, LoseRun, CrashRun,
             FinishExecutor, FinishValidators, ReviewAndGate, dbVars
  <2>3. run[r].pc \in WorkingPCs => run[r].att \in Attempts
    BY HoldsAttempt DEF WorkingPCs
  <2>4. /\ run'[r].pc \in {"idle", "checked"} <=> run'[r].att = 0
        /\ run'[r].pc \in WorkingPCs =>
             attempt'[run'[r].att] \in RunningStatuses \cup {"execution_aborted"}
        /\ run'[r].pc \in {"publishing", "auditing"} =>
             attempt'[run'[r].att] \in ClosedStatuses
    BY <1>1, <2>2, <2>3, RunMoves, AttemptFacts DEF WorkingPCs, RunningStatuses
  <2>5. \A s \in Runners \ {r} : run'[s] = run[s]
    BY <1>1, RunMoves
  <2> QED  BY <2>1, <2>4, <2>5 DEF RunnersApart, WorkingPCs
<1>2. CASE \A r \in Runners : ~ RunStep(r)
  <2>1. \A r \in Runners : run[r].pc \notin {"idle", "checked"} =>
          run[r].att \in Attempts
    BY HoldsAttempt
  <2> QED  BY <1>2, <2>1, OthersMoves DEF RunnersApart, WorkingPCs
<1> QED  BY <1>1, <1>2

-----------------------------------------------------------------------------
(* Reset lineage *)

Created(a) == a \in Attempts /\ attempt[a] = "created"

\* Steps other than reserve_retry and the adoption of a reserved Attempt leave
\* the lineage alone: they neither make nor use up a reservation.
LEMMA LineageFrame ==
  ASSUME Inv, Next, \A q \in Requests : ~ ReserveRetry(q),
         \A r \in Runners : ~ ClaimReserved(r)
  PROVE  /\ lineage' = lineage /\ generation' = generation
         /\ \A a : Created(a)' <=> Created(a)
         /\ active' = active \/ (~ Created(active) /\ ~ Created(active'))
<1> USE AttemptFacts DEF Inv
<1>1. ASSUME NEW a \in Attempts, NEW t, NEW c \in ClosedStatuses,
             CloseAttempt(a, t, c)
      PROVE  /\ \A b : Created(b)' <=> Created(b)
             /\ active' = active \/ (~ Created(active) /\ ~ Created(active'))
  BY <1>1 DEF CloseAttempt, LeaseIsOpen, RunningStatuses, ClosedStatuses,
              Created, TypeOK
<1>2. ASSUME NEW r \in Runners, RunStep(r), ~ ClaimReserved(r)
      PROVE  /\ lineage' = lineage /\ generation' = generation
             /\ \A b : Created(b)' <=> Created(b)
             /\ active' = active \/ (~ Created(active) /\ ~ Created(active'))
  <2>1. CASE ClaimNew(r)
    <3>1. PICK n \in Attempts : n = Latest + 1 /\ TakeLease(r, n)
      BY <2>1 DEF ClaimNew
    <3>2. attempt[n] = "none"
      BY <3>1 DEF AttemptsInOrder, Existing
    <3> QED  BY <2>1, <3>1, <3>2 DEF ClaimNew, TakeLease, Created, TypeOK
  <2>2. CASE AllocationFails(r) \/ Release(r)
    BY <1>1, <2>2, HoldsAttempt DEF AllocationFails, Release, ClosedStatuses
  <2>3. CASE BeginImplementing(r) \/ BeginValidating(r)
    <3>1. run[r].att \in Attempts
      BY <2>3, HoldsAttempt DEF BeginImplementing, BeginValidating
    <3>2. PICK to \in RunningStatuses : Transition(r, to)
      BY <2>3 DEF BeginImplementing, BeginValidating, RunningStatuses
    <3> QED  BY <3>1, <3>2 DEF Transition, LeaseIsOpen, ActiveLease,
                RunningStatuses, Created, TypeOK
  <2> QED  BY <1>2, <2>1, <2>2, <2>3 DEF RunStep, StartRun, BlockBeforeClaim,
           ClaimRefused, PrepareFails, DieInReview, PublishAfterRelease,
           AuditWrite, LoseRun, CrashRun, FinishExecutor, FinishValidators,
           ReviewAndGate, dbVars, Created
<1>3. CASE ExpireStaleLeases
  BY <1>1, <1>3 DEF ExpireStaleLeases, ClosedStatuses
<1>4. ASSUME NEW a \in Attempts, RecoverAdvisoryEvidence(a)
      PROVE  /\ lineage' = lineage /\ generation' = generation
             /\ active' = active
             /\ \A b : Created(b)' <=> Created(b)
  BY <1>4 DEF RecoverAdvisoryEvidence, RecoverableAttempt, Created, TypeOK
<1>5. ASSUME \/ \E q \in Requests : PreviewReset(q) \/ RejectReset(q)
             \/ \E a \in Attempts : \/ LeaseExpires(a) \/ ReviewByHand(a)
                                    \/ RecordObservation(a)
             \/ PublishAfterExpiry \/ CrashReaper \/ ArchiveTask
             \/ \E state \in {"open", "closed"} : IngestIssue(state)
      PROVE  /\ lineage' = lineage /\ generation' = generation
             /\ active' = active /\ attempt' = attempt
  BY <1>5 DEF PreviewReset, RejectReset, LeaseExpires, ReviewByHand,
     RecordObservation, PublishAfterExpiry, CrashReaper, ArchiveTask,
     IngestIssue, dbVars, taskVars
<1> QED  BY <1>2, <1>3, <1>4, <1>5 DEF Next, ResetStep, Created

LEMMA StepLineage ==
  ASSUME Inv, Next
  PROVE  RowsAreCounted' /\ LineageConsistent'
<1> USE AttemptFacts DEF Inv
<1>t. /\ Latest \in 0..MaxAttempts /\ Existing = 1..Latest
      /\ generation \in 0..MaxAttempts
      /\ attempt \in [Attempts -> AttemptStates]
      /\ lineage \in [Requests -> LineageRows]
      /\ active \in 0..MaxAttempts
      /\ Latest' \in Nat /\ Latest <= Latest'
  BY StepAttemptsInOrder DEF TypeOK, AttemptsInOrder
<1>r. /\ IsFiniteSet(ResetRows) /\ generation <= Latest
      /\ \A q \in ResetRows : lineage[q].committed <= generation
      /\ \A q \in ResetRows : lineage[q].new \in 1..Latest
  BY DEF RowsAreCounted
<1>1. ASSUME NEW q \in Requests, ReserveRetry(q)
      PROVE  RowsAreCounted' /\ LineageConsistent'
  <2>1. PICK n \in Attempts : ReserveAttempt(q, n)
    BY <1>1 DEF ReserveRetry
  <2> DEFINE row == [state |-> "reserved", old |-> Latest, new |-> n,
                     committed |-> generation + 1]
  <2>2. /\ n = Latest + 1
        /\ attempt' = [attempt EXCEPT ![n] = "created"]
        /\ active' = n /\ generation' = generation + 1
        /\ lineage' = [lineage EXCEPT ![q] = row]
    BY <2>1 DEF ReserveAttempt
  <2>3. /\ q \notin ResetRows
        /\ \A a \in Attempts : attempt[a] # "created"
        /\ active = 0
    BY <1>1 DEF ReserveRetry, MayReserve, ResetRows, ActiveStatuses
  <2>4. /\ lineage'[q] = row
        /\ \A p \in ResetRows : p \in Requests /\ p # q /\ lineage'[p] = lineage[p]
    BY <1>t, <2>2, <2>3 DEF ResetRows
  <2>5. ResetRows' = ResetRows \cup {q}
    BY <1>t, <2>2 DEF ResetRows
  <2>6. Latest' = n
    <3>1. Existing' = Existing \cup {n}
      BY <1>t, <2>2 DEF Existing
    <3>2. Existing' = 1..n
      BY <1>t, <2>2, <3>1
    <3> QED  BY <3>2, LatestIsEndNext
  <2>7. /\ IsFiniteSet(ResetRows') /\ Cardinality(ResetRows') = generation + 1
    <3>1. Cardinality(ResetRows) = generation
      BY DEF LineageConsistent, ResetRows
    <3>2. /\ IsFiniteSet(ResetRows \cup {q})
          /\ Cardinality(ResetRows \cup {q}) = Cardinality(ResetRows) + 1
      BY <1>r, <2>3, FS_AddElement
    <3> QED  BY <2>5, <3>1, <3>2
  <2>8. RowsAreCounted'
    <3>1. \A p \in ResetRows : lineage[p].committed \in Int
      BY <1>t DEF ResetRows, LineageRows
    <3>2. generation' <= Latest'
      BY <1>t, <1>r, <2>2, <2>6
    <3>3. \A p \in ResetRows' : /\ lineage'[p].committed <= generation'
                                /\ lineage'[p].new \in 1..Latest'
      <4>1. row.committed = generation + 1 /\ row.new = n
        OBVIOUS
      <4>2. ASSUME NEW p \in ResetRows
            PROVE  /\ lineage[p].committed <= generation + 1
                   /\ lineage[p].new \in 1..n
        BY <1>t, <1>r, <2>2, <3>1
      <4> HIDE DEF row
      <4> QED  BY <1>t, <2>2, <2>4, <2>5, <2>6, <4>1, <4>2
    <3> QED  BY <2>7, <3>2, <3>3 DEF RowsAreCounted
  <2>9. \A p \in ResetRows : /\ lineage'[p].state # "reserved"
                             /\ lineage'[p].new # n
                             /\ lineage'[p].committed # generation + 1
    <3>1. ASSUME NEW p \in ResetRows  PROVE lineage[p].state # "reserved"
      BY <1>r, <2>3 DEF LineageConsistent, ResetRows
    <3>2. \A p \in ResetRows : lineage[p].committed \in Int
      BY <1>t DEF ResetRows, LineageRows
    <3> QED  BY <1>t, <1>r, <2>2, <2>4, <3>1, <3>2
  <2>10. \A p, u \in ResetRows : p # u =>
           /\ lineage'[p].committed # lineage'[u].committed
           /\ lineage'[p].new # lineage'[u].new
    BY <2>4 DEF LineageConsistent, ResetRows
  <2>11. \A p \in ResetRows : lineage'[p].old < lineage'[p].new
    BY <2>4 DEF LineageConsistent, ResetRows
  <2>12. /\ row.state = "reserved" /\ row.new = n /\ row.old < row.new
         /\ row.committed = generation + 1
    BY <1>t, <2>2
  <2>13. \A p, u \in ResetRows' : p # u =>
           /\ lineage'[p].committed # lineage'[u].committed
           /\ lineage'[p].new # lineage'[u].new
    BY <2>4, <2>5, <2>9, <2>10, <2>12
  <2>14. \A p \in ResetRows' : lineage'[p].old < lineage'[p].new
    BY <2>4, <2>5, <2>11, <2>12
  <2>15. attempt'[n] = "created" /\ \A a \in Attempts \ {n} : attempt'[a] # "created"
    BY <1>t, <2>2, <2>3
  <2>16. \A p \in ResetRows' : lineage'[p].state = "reserved" <=>
           lineage'[p].new = active' /\ attempt'[active'] = "created"
    BY <2>2, <2>4, <2>5, <2>9, <2>12, <2>15
  <2>17. \A a \in Attempts : attempt'[a] = "created" =>
           \E p \in ResetRows' : lineage'[p].new = a
                                 /\ lineage'[p].state = "reserved"
    BY <2>4, <2>5, <2>12, <2>15
  <2>18. LineageConsistent'
    BY <2>2, <2>7, <2>13, <2>14, <2>16, <2>17 DEF LineageConsistent, ResetRows
  <2> QED  BY <2>8, <2>18
<1>2. ASSUME NEW r \in Runners, ClaimReserved(r)
      PROVE  RowsAreCounted' /\ LineageConsistent'
  <2>1. PICK q \in Requests :
          /\ lineage[q].state = "reserved" /\ lineage[q].new = active
          /\ lineage' = [lineage EXCEPT ![q].state = "claimed"]
    BY <1>2 DEF ClaimReserved
  <2>2. /\ active \in Attempts /\ attempt[active] = "created"
        /\ attempt' = [attempt EXCEPT ![active] = "preparing"]
        /\ active' = active /\ generation' = generation
    BY <1>2 DEF ClaimReserved, TakeLease, TypeOK
  <2>3. /\ q \in ResetRows
        /\ lineage'[q].state = "claimed"
        /\ \A p \in Requests : /\ lineage'[p].new = lineage[p].new
                               /\ lineage'[p].old = lineage[p].old
                               /\ lineage'[p].committed = lineage[p].committed
        /\ \A p \in Requests \ {q} : lineage'[p].state = lineage[p].state
    BY <1>t, <2>1 DEF ResetRows, LineageRows
  <2>4. ResetRows' = ResetRows
    BY <2>3 DEF ResetRows
  <2>5. ResetRows \subseteq Requests
    BY DEF ResetRows
  <2>6. RowsAreCounted'
    BY <1>t, <1>r, <2>2, <2>3, <2>4, <2>5 DEF RowsAreCounted
  <2>7. \A a \in Attempts : attempt'[a] # "created"
    BY <1>t, <2>2 DEF LineageConsistent
  <2>8. \A p \in ResetRows : lineage'[p].state # "reserved"
    <3>1. ASSUME NEW p \in ResetRows, p # q  PROVE lineage[p].state # "reserved"
      <4>1. lineage[p].new # lineage[q].new
        BY <2>3, <3>1 DEF LineageConsistent, ResetRows
      <4> QED  BY <2>1, <3>1, <4>1 DEF LineageConsistent, ResetRows
    <3> QED  BY <2>3, <2>5, <3>1
  <2>9. /\ Cardinality(ResetRows) = generation
        /\ \A p, u \in ResetRows : p # u =>
             /\ lineage[p].committed # lineage[u].committed
             /\ lineage[p].new # lineage[u].new
        /\ \A p \in ResetRows : lineage[p].old < lineage[p].new
    BY DEF LineageConsistent, ResetRows
  <2>10. /\ Cardinality(ResetRows') = generation'
         /\ \A p, u \in ResetRows' : p # u =>
              /\ lineage'[p].committed # lineage'[u].committed
              /\ lineage'[p].new # lineage'[u].new
         /\ \A p \in ResetRows' : lineage'[p].old < lineage'[p].new
    BY <2>2, <2>3, <2>4, <2>5, <2>9
  <2>11. \A p \in ResetRows' : lineage'[p].state = "reserved" <=>
           lineage'[p].new = active' /\ attempt'[active'] = "created"
    BY <2>2, <2>4, <2>7, <2>8
  <2>12. LineageConsistent'
    BY <2>7, <2>10, <2>11 DEF LineageConsistent, ResetRows
  <2> QED  BY <2>6, <2>12
<1>3. CASE /\ \A q \in Requests : ~ ReserveRetry(q)
           /\ \A r \in Runners : ~ ClaimReserved(r)
  <2>1. /\ lineage' = lineage /\ generation' = generation
        /\ \A a : Created(a)' <=> Created(a)
        /\ active' = active \/ (~ Created(active) /\ ~ Created(active'))
    BY <1>3, LineageFrame
  <2>2. ResetRows' = ResetRows
    BY <2>1 DEF ResetRows
  <2>3. RowsAreCounted'
    BY <1>t, <1>r, <2>1, <2>2 DEF RowsAreCounted
  <2>4. \A q \in ResetRows :
          (lineage[q].new = active /\ attempt[active] = "created")
            <=> (lineage[q].new = active' /\ attempt'[active'] = "created")
    <3>1. \A q \in ResetRows : lineage[q].new \in Attempts
      BY <1>t, <1>r
    <3> QED  BY <2>1, <3>1 DEF Created
  <2>5. \A a \in Attempts : attempt'[a] = "created" <=> attempt[a] = "created"
    BY <2>1 DEF Created
  <2>6. LineageConsistent'
    BY <2>1, <2>2, <2>4, <2>5 DEF LineageConsistent, ResetRows
  <2> QED  BY <2>3, <2>6
<1> QED  BY <1>1, <1>2, <1>3

-----------------------------------------------------------------------------
(* Work, evidence and approval *)

\* A closed Attempt stays as it is, but for the advisory recovery; no Attempt
\* goes back to be unclaimed.
LEMMA ClosedStays ==
  ASSUME Inv, Next, NEW a \in Attempts
  PROVE  /\ attempt[a] \in ClosedStatuses =>
              \/ attempt'[a] = attempt[a]
              \/ attempt[a] = "blocked" /\ attempt'[a] = "waiting_approval"
         /\ attempt'[a] \in {"none", "created"} => attempt[a] \in {"none", "created"}
<1> USE DEF Inv
<1>t. attempt \in [Attempts -> AttemptStates]
  BY DEF TypeOK
<1>1. ASSUME NEW n \in Attempts, Opens(n)
      PROVE  attempt[n] = "none" /\ \A b \in Attempts \ {n} : attempt'[b] = attempt[b]
  BY <1>t, <1>1, AttemptFacts DEF Opens, AttemptsInOrder, Existing
<1>2. ASSUME NEW b \in Attempts, Advances(b)
      PROVE  /\ LegalAdvance(attempt[b], attempt'[b])
             /\ \A c \in Attempts \ {b} : attempt'[c] = attempt[c]
  BY <1>t, <1>2 DEF Advances
<1>3. CASE attempt' = attempt
  BY <1>3
<1>4. CASE \E n \in Attempts : Opens(n)
  BY <1>1, <1>4 DEF ClosedStatuses
<1>5. CASE \E b \in Attempts : Advances(b)
  BY <1>2, <1>5 DEF LegalAdvance, ClosedStatuses, RunningStatuses
<1> QED  BY <1>3, <1>4, <1>5, AttemptMoves

\* Only the runner that holds an Attempt adds to what was done in it.
LEMMA DidMoves ==
  ASSUME Inv, Next, NEW a \in Attempts
  PROVE  /\ did[a] \subseteq did'[a]
         /\ did'[a] \subseteq {"executed", "validated"}
<1> USE DEF Inv
<1>t. did \in [Attempts -> SUBSET {"executed", "validated"}]
  BY DEF TypeOK
<1>1. ASSUME NEW r \in Runners, NEW ok \in BOOLEAN,
             FinishExecutor(r, ok) \/ FinishValidators(r, ok)
      PROVE  \/ did' = did
             \/ \E b \in Attempts, d \in {"executed", "validated"} :
                  did' = [did EXCEPT ![b] = did[b] \cup {d}]
  <2>1. run[r].att \in Attempts
    BY <1>1, HoldsAttempt DEF FinishExecutor, FinishValidators
  <2> QED  BY <1>t, <1>1, <2>1 DEF FinishExecutor, FinishValidators
<1>2. CASE did' = did
  BY <1>t, <1>2
<1>3. ASSUME NEW b \in Attempts, NEW d \in {"executed", "validated"},
             did' = [did EXCEPT ![b] = did[b] \cup {d}]
      PROVE  did[a] \subseteq did'[a] /\ did'[a] \subseteq {"executed", "validated"}
  BY <1>t, <1>3
<1>4. ASSUME NEW r \in Runners, RunStep(r)
      PROVE  \/ did' = did
             \/ \E ok \in BOOLEAN : FinishExecutor(r, ok) \/ FinishValidators(r, ok)
  BY <1>4 DEF RunStep, StartRun, BlockBeforeClaim, ClaimReserved, ClaimNew,
     ClaimRefused, AllocationFails, PrepareFails, BeginImplementing,
     BeginValidating, ReviewAndGate, DieInReview, Release,
     PublishAfterRelease, AuditWrite, LoseRun, CrashRun
<1>5. ASSUME ~ \E r \in Runners : RunStep(r)
      PROVE  did' = did
  BY <1>5 DEF Next, ResetStep, PreviewReset, ReserveRetry, RejectReset,
     LeaseExpires, ReviewByHand, RecordObservation, RecoverAdvisoryEvidence,
     ExpireStaleLeases, PublishAfterExpiry, CrashReaper, ArchiveTask,
     IngestIssue
<1> QED  BY <1>1, <1>2, <1>3, <1>4, <1>5

\* Review files change under the runner that reviews, or by hand once the
\* Attempt is blocked and its evidence is insufficient.
LEMMA FilesMove ==
  ASSUME Inv, Next, NEW a \in Attempts
  PROVE  \/ files'[a] = files[a]
         \/ attempt[a] = "blocked"
         \/ \E r \in Runners : /\ RunStep(r) /\ run[r].att = a
                               /\ run[r].pc = "reviewing"
<1> USE DEF Inv
<1>t. files \in [Attempts -> Directories]
  BY DEF TypeOK
<1>1. ASSUME NEW r \in Runners, RunStep(r)
      PROVE  \/ files' = files
             \/ /\ run[r].pc = "reviewing"
                /\ \E f : files' = [files EXCEPT ![run[r].att] = f]
  <2>1. CASE DieInReview(r)
    BY <1>t, <2>1, HoldsAttempt DEF DieInReview
  <2>2. CASE \E auto \in BOOLEAN : ReviewAndGate(r, auto)
    BY <2>2 DEF ReviewAndGate
  <2> QED  BY <1>1, <2>1, <2>2 DEF RunStep, StartRun, BlockBeforeClaim,
           ClaimReserved, ClaimNew, ClaimRefused, AllocationFails, PrepareFails,
           BeginImplementing, FinishExecutor, BeginValidating, FinishValidators,
           Release, PublishAfterRelease, AuditWrite, LoseRun, CrashRun, sideVars
<1>2. ASSUME NEW b \in Attempts, ReviewByHand(b)
      PROVE  /\ attempt[b] = "blocked"
             /\ \E f : files' = [files EXCEPT ![b] = f]
  BY <1>t, <1>2 DEF ReviewByHand
<1>3. ASSUME ~ \E r \in Runners : RunStep(r), ~ \E b \in Attempts : ReviewByHand(b)
      PROVE  files' = files
  BY <1>3 DEF Next, ResetStep, PreviewReset, ReserveRetry, RejectReset,
     LeaseExpires, RecordObservation, RecoverAdvisoryEvidence,
     ExpireStaleLeases, PublishAfterExpiry, CrashReaper, ArchiveTask,
     IngestIssue, sideVars
<1> QED  BY <1>t, <1>1, <1>2, <1>3

LEMMA StepWorkIsDone ==
  ASSUME Inv, Next
  PROVE  WorkIsDone'
<1> USE DEF Inv
<1> DEFINE Done(r) ==
      /\ run[r].pc \in {"executed", "validating"} => "executed" \in did[run[r].att]
      /\ run[r].pc \in {"reviewing", "approving"} =>
           did[run[r].att] = {"executed", "validated"}
      /\ run[r].pc = "approving" => EvidenceSatisfied(files[run[r].att])
<1>1. ASSUME NEW r \in Runners, run'[r] = run[r], ~ RunStep(r)  PROVE Done(r)'
  <2>1. CASE run[r].pc \in {"executed", "validating", "reviewing", "approving"}
    <3>1. /\ run[r].att \in Attempts
          /\ attempt[run[r].att] \in RunningStatuses \cup {"execution_aborted"}
      BY <2>1, HoldsAttempt DEF RunnersApart, WorkingPCs
    <3>2. files'[run[r].att] = files[run[r].att]
      <4>1. attempt[run[r].att] # "blocked"
        BY <3>1 DEF RunningStatuses
      <4>2. \A s \in Runners : s # r => run[s].att # run[r].att
        BY <3>1, AttemptFacts DEF RunnersApart
      <4> QED  BY <1>1, <3>1, <4>1, <4>2, FilesMove
    <3>3. /\ did[run[r].att] \subseteq did'[run[r].att]
          /\ did'[run[r].att] \subseteq {"executed", "validated"}
      BY <3>1, DidMoves
    <3> QED  BY <1>1, <3>2, <3>3 DEF WorkIsDone, EvidenceSatisfied
  <2> QED  BY <1>1, <2>1
<1>2. ASSUME NEW r \in Runners, RunStep(r)  PROVE Done(r)'
  <2>p. {"checked", "executing", "executed", "validating", "reviewing",
         "blocking", "approving", "publishing"} \subseteq RunPCs
    BY DEF RunPCs
  <2>t. did \in [Attempts -> SUBSET {"executed", "validated"}]
    BY DEF TypeOK
  <2>1. ASSUME NEW ok \in BOOLEAN, FinishExecutor(r, ok)  PROVE Done(r)'
    <3>1. /\ run[r].att \in Attempts
          /\ Goto(r, IF ok THEN "executed" ELSE "blocking")
          /\ ok => did' = [did EXCEPT ![run[r].att] = @ \cup {"executed"}]
      BY <2>1, HoldsAttempt DEF FinishExecutor
    <3>2. /\ run'[r].pc = IF ok THEN "executed" ELSE "blocking"
          /\ run'[r].att = run[r].att
      BY <2>p, <3>1, GotoTypes
    <3>3. ok => "executed" \in did'[run[r].att]
      BY <2>t, <3>1
    <3> QED  BY <3>2, <3>3
  <2>2. CASE BeginValidating(r)
    <3>1. /\ run[r].att \in Attempts /\ Goto(r, "validating") /\ did' = did
          /\ "executed" \in did[run[r].att]
      BY <2>2, HoldsAttempt DEF BeginValidating, WorkIsDone
    <3>2. run'[r].pc = "validating" /\ run'[r].att = run[r].att
      BY <2>p, <3>1, GotoTypes
    <3> QED  BY <3>1, <3>2
  <2>3. ASSUME NEW ok \in BOOLEAN, FinishValidators(r, ok)  PROVE Done(r)'
    <3>1. /\ run[r].att \in Attempts
          /\ Goto(r, IF ok THEN "reviewing" ELSE "blocking")
          /\ ok => did' = [did EXCEPT ![run[r].att] = @ \cup {"validated"}]
          /\ "executed" \in did[run[r].att]
      BY <2>3, HoldsAttempt DEF FinishValidators, WorkIsDone
    <3>2. /\ run'[r].pc = IF ok THEN "reviewing" ELSE "blocking"
          /\ run'[r].att = run[r].att
      BY <2>p, <3>1, GotoTypes
    <3>3. ok => did'[run[r].att] = {"executed", "validated"}
      BY <2>t, <3>1
    <3> QED  BY <3>2, <3>3
  <2>4. ASSUME NEW auto \in BOOLEAN, ReviewAndGate(r, auto)  PROVE Done(r)'
    <3>1. /\ run[r].att \in Attempts /\ did' = did
          /\ did[run[r].att] = {"executed", "validated"}
      BY <2>4, HoldsAttempt DEF ReviewAndGate, WorkIsDone
    <3>2. files \in [Attempts -> Directories]
      BY DEF TypeOK
    <3>3. \/ Goto(r, "blocking")
          \/ Goto(r, "approving") /\ EvidenceSatisfied(files'[run[r].att])
      BY <2>4, <3>1, <3>2 DEF ReviewAndGate
    <3>4. \/ run'[r].pc = "blocking"
          \/ /\ run'[r].pc = "approving" /\ run'[r].att = run[r].att
             /\ EvidenceSatisfied(files'[run[r].att])
      BY <2>p, <3>3, GotoTypes
    <3> QED  BY <3>1, <3>4 DEF EvidenceSatisfied
  <2>5. CASE Release(r) \/ PublishAfterRelease(r)
    BY <2>5, ReleaseRunner, PublishRunner
  <2>6. CASE ClaimReserved(r) \/ ClaimNew(r)
    <3>1. PICK a \in Attempts : TakeLease(r, a)
      BY <2>6, AttemptFacts DEF ClaimReserved, ClaimNew, TypeOK
    <3>2. run'[r].pc = "claimed"
      BY <3>1 DEF TakeLease, TypeOK
    <3> QED  BY <3>2
  <2>7. CASE \/ StartRun(r) \/ AllocationFails(r) \/ PrepareFails(r)
             \/ BeginImplementing(r)
    <3>1. \E l \in {"checked", "publishing", "blocking", "executing"} : Goto(r, l)
      BY <2>7 DEF StartRun, AllocationFails, PrepareFails, BeginImplementing
    <3>2. run'[r].pc \in {"checked", "publishing", "blocking", "executing"}
      BY <2>p, <3>1, GotoTypes
    <3> QED  BY <3>2
  <2>8. CASE \/ BlockBeforeClaim(r) \/ ClaimRefused(r) \/ DieInReview(r)
             \/ AuditWrite(r) \/ LoseRun(r) \/ CrashRun(r)
    <3>1. run'[r].pc = "idle"
      BY <2>8, IdleTypes DEF BlockBeforeClaim, ClaimRefused, DieInReview,
         AuditWrite, LoseRun, CrashRun
    <3> QED  BY <3>1
  <2> QED  BY <1>2, <2>1, <2>2, <2>3, <2>4, <2>5, <2>6, <2>7, <2>8 DEF RunStep
<1>3. \A r \in Runners : ~ RunStep(r) => run'[r] = run[r]
  <2>1. CASE \A r \in Runners : ~ RunStep(r)
    BY <2>1, OthersMoves
  <2>2. ASSUME NEW s \in Runners, RunStep(s)
        PROVE  \A r \in Runners : ~ RunStep(r) => run'[r] = run[r]
    BY <2>2, RunMoves
  <2> QED  BY <2>1, <2>2
<1> QED  BY <1>1, <1>2, <1>3 DEF WorkIsDone, EvidenceSatisfied

\* Only a release after the evidence gate and the advisory recovery offer
\* anything for approval.
LEMMA ApprovalMoves ==
  ASSUME Inv, Next
  PROVE  \/ \E r \in Runners : /\ Release(r) /\ run[r].pc = "approving"
                               /\ attempt' = [attempt EXCEPT
                                    ![run[r].att] = "waiting_approval"]
         \/ \E a \in Attempts : RecoverAdvisoryEvidence(a)
         \/ /\ status' = "waiting_approval" => status = "waiting_approval"
            /\ \A a \in Attempts : attempt'[a] = "waiting_approval" =>
                                     attempt[a] = "waiting_approval"
<1> USE DEF Inv
<1>t. attempt \in [Attempts -> AttemptStates]
  BY DEF TypeOK
<1>c. ASSUME NEW a \in Attempts, NEW t, NEW c, CloseAttempt(a, t, c),
             t # "waiting_approval", c # "waiting_approval"
      PROVE  /\ status' = "waiting_approval" => status = "waiting_approval"
             /\ \A b \in Attempts : attempt'[b] = "waiting_approval" =>
                                      attempt[b] = "waiting_approval"
  BY <1>t, <1>c DEF CloseAttempt
<1>1. ASSUME NEW q \in Requests, ResetStep(q)
      PROVE  /\ status' = "waiting_approval" => status = "waiting_approval"
             /\ \A b \in Attempts : attempt'[b] = "waiting_approval" =>
                                      attempt[b] = "waiting_approval"
  BY <1>t, <1>1 DEF ResetStep, PreviewReset, ReserveRetry, RejectReset,
     ReserveAttempt, dbVars
<1>2. ASSUME NEW r \in Runners, RunStep(r),
             ~ (Release(r) /\ run[r].pc = "approving")
      PROVE  /\ status' = "waiting_approval" => status = "waiting_approval"
             /\ \A b \in Attempts : attempt'[b] = "waiting_approval" =>
                                      attempt[b] = "waiting_approval"
  <2>1. CASE ClaimReserved(r) \/ ClaimNew(r)
    BY <1>t, <2>1 DEF ClaimReserved, ClaimNew, TakeLease
  <2>2. CASE AllocationFails(r)
    BY <1>c, <2>2, HoldsAttempt DEF AllocationFails
  <2>3. CASE Release(r)
    BY <1>2, <1>c, <2>3, HoldsAttempt DEF Release
  <2>4. CASE BeginImplementing(r) \/ BeginValidating(r)
    BY <1>t, <2>4 DEF BeginImplementing, BeginValidating, Transition
  <2>5. CASE BlockBeforeClaim(r) \/ AuditWrite(r)
    BY <2>5 DEF BlockBeforeClaim, AuditWrite, BlockWithoutClaim
  <2> QED  BY <1>2, <2>1, <2>2, <2>3, <2>4, <2>5 DEF RunStep, StartRun,
           ClaimRefused, PrepareFails, DieInReview, PublishAfterRelease,
           LoseRun, CrashRun, FinishExecutor, FinishValidators,
           ReviewAndGate, dbVars
<1>3. CASE ExpireStaleLeases
  BY <1>c, <1>3 DEF ExpireStaleLeases
<1>4. ASSUME NEW st \in {"open", "closed"}, IngestIssue(st)
      PROVE  /\ status' = "waiting_approval" => status = "waiting_approval"
             /\ attempt' = attempt
  BY <1>4 DEF IngestIssue, UpsertTask, TaskStatusFromIssue
<1>5. ASSUME \/ \E a \in Attempts : \/ LeaseExpires(a) \/ ReviewByHand(a)
                                    \/ RecordObservation(a)
             \/ PublishAfterExpiry \/ CrashReaper \/ ArchiveTask
      PROVE  /\ status' = "waiting_approval" => status = "waiting_approval"
             /\ attempt' = attempt
  BY <1>5 DEF LeaseExpires, ReviewByHand, RecordObservation,
     PublishAfterExpiry, CrashReaper, ArchiveTask, taskVars, dbVars
<1>6. ASSUME NEW r \in Runners, Release(r), run[r].pc = "approving"
      PROVE  attempt' = [attempt EXCEPT ![run[r].att] = "waiting_approval"]
  BY <1>6 DEF Release, CloseAttempt
<1> QED  BY <1>1, <1>2, <1>3, <1>4, <1>5, <1>6 DEF Next

LEMMA StepApprovalsEarned ==
  ASSUME Inv, Next
  PROVE  ApprovalsEarned'
<1> USE DEF Inv
<1>t. attempt \in [Attempts -> AttemptStates]
  BY DEF TypeOK
<1> DEFINE Earned(a) == did[a] = {"executed", "validated"}
                        /\ EvidenceSatisfied(files[a])
\* What was earned stays earned.
<1>1. ASSUME NEW a \in Attempts, attempt[a] = "waiting_approval"
      PROVE  attempt'[a] = "waiting_approval" /\ Earned(a)'
  <2>1. attempt'[a] = "waiting_approval"
    BY <1>1, ClosedStays DEF ClosedStatuses
  <2>2. \A r \in Runners : run[r].pc = "reviewing" => run[r].att # a
    BY <1>1 DEF RunnersApart, WorkingPCs, RunningStatuses
  <2>3. files'[a] = files[a]
    BY <1>1, <2>2, FilesMove
  <2>4. Earned(a)
    BY <1>1 DEF ApprovalsEarned
  <2>5. did'[a] = did[a]
    BY <2>4, DidMoves
  <2> QED  BY <2>1, <2>3, <2>4, <2>5 DEF EvidenceSatisfied
<1>2. ASSUME NEW r \in Runners, Release(r), run[r].pc = "approving",
             attempt' = [attempt EXCEPT ![run[r].att] = "waiting_approval"]
      PROVE  ApprovalsEarned'
  <2>1. run[r].att \in Attempts
    BY <1>2, HoldsAttempt
  <2>2. PICK a \in Attempts : a = run[r].att /\ Earned(a)
    BY <1>2, <2>1 DEF WorkIsDone
  <2>3. did' = did /\ files' = files
    BY <1>2 DEF Release, sideVars
  <2>4. Earned(a)'
    BY <2>2, <2>3 DEF EvidenceSatisfied
  <2> QED  BY <1>t, <1>1, <1>2, <2>2, <2>4 DEF ApprovalsEarned, EvidenceSatisfied
<1>3. ASSUME NEW a \in Attempts, RecoverAdvisoryEvidence(a)
      PROVE  ApprovalsEarned'
  <2>1. /\ attempt' = [attempt EXCEPT ![a] = "waiting_approval"]
        /\ did[a] = {"executed", "validated"} /\ ContractPasses(files[a])
        /\ did' = did /\ files' = files
    BY <1>3 DEF RecoverAdvisoryEvidence, sideVars
  <2>2. Earned(a)'
    BY <2>1 DEF EvidenceSatisfied
  <2> QED  BY <1>t, <1>1, <2>1, <2>2 DEF ApprovalsEarned, EvidenceSatisfied
<1>4. CASE /\ status' = "waiting_approval" => status = "waiting_approval"
           /\ \A a \in Attempts : attempt'[a] = "waiting_approval" =>
                                    attempt[a] = "waiting_approval"
  BY <1>1, <1>4 DEF ApprovalsEarned, EvidenceSatisfied
<1> QED  BY <1>2, <1>3, <1>4, ApprovalMoves

-----------------------------------------------------------------------------
(* The outcome ledger *)

\* A ledger is written once, of an Attempt that is closed.
LEMMA LedgerMoves ==
  ASSUME Inv, Next
  PROVE  /\ \/ ledger' = ledger
            \/ \E a \in Attempts : /\ SnapshotTerminal(a) /\ ledger[a] = NoLedger
                                   /\ ledger' = [ledger EXCEPT ![a] = BuildFields(a)]
                                   /\ attempt' = attempt
                                   /\ observation' = observation
         /\ \/ observation' = observation
            \/ \E a \in Attempts :
                 /\ observation' = [observation EXCEPT ![a] = ledger[a]]
                 /\ ledger' = ledger
<1> USE DEF Inv
<1>1. ASSUME NEW a \in Attempts, PublishOutcome(a)
      PROVE  \/ ledger' = ledger
             \/ /\ SnapshotTerminal(a) /\ ledger[a] = NoLedger
                /\ ledger' = [ledger EXCEPT ![a] = BuildFields(a)]
  BY <1>1 DEF PublishOutcome, HandleExisting
<1>2. ASSUME NEW r \in Runners, PublishAfterRelease(r)
      PROVE  /\ attempt' = attempt /\ observation' = observation
             /\ \E a \in Attempts : PublishOutcome(a)
  BY <1>2, HoldsAttempt DEF PublishAfterRelease, dbVars
<1>3. ASSUME PublishAfterExpiry
      PROVE  /\ attempt' = attempt /\ observation' = observation
             /\ \E a \in Attempts : PublishOutcome(a)
  BY <1>3 DEF PublishAfterExpiry, dbVars, TypeOK
<1>4. ASSUME NEW a \in Attempts, RecordObservation(a)
      PROVE  /\ observation' = [observation EXCEPT ![a] = ledger[a]]
             /\ ledger' = ledger
  BY <1>4 DEF RecordObservation
<1>5. ASSUME NEW r \in Runners, RunStep(r), ~ PublishAfterRelease(r)
      PROVE  ledger' = ledger /\ observation' = observation
  BY <1>5 DEF RunStep, StartRun, BlockBeforeClaim, ClaimReserved, ClaimNew,
     ClaimRefused, AllocationFails, PrepareFails, BeginImplementing,
     BeginValidating, FinishExecutor, FinishValidators, ReviewAndGate,
     DieInReview, Release, AuditWrite, LoseRun, CrashRun, sideVars
<1>6. ASSUME \/ \E q \in Requests : ResetStep(q)
             \/ \E a \in Attempts : \/ LeaseExpires(a) \/ ReviewByHand(a)
                                    \/ RecoverAdvisoryEvidence(a)
             \/ ExpireStaleLeases \/ CrashReaper \/ ArchiveTask
             \/ \E state \in {"open", "closed"} : IngestIssue(state)
      PROVE  ledger' = ledger /\ observation' = observation
  BY <1>6 DEF ResetStep, PreviewReset, ReserveRetry, RejectReset,
     LeaseExpires, ReviewByHand, RecoverAdvisoryEvidence, ExpireStaleLeases,
     CrashReaper, ArchiveTask, IngestIssue, sideVars
<1>7. CASE \E a \in Attempts : RecordObservation(a)
  BY <1>4, <1>7
<1>8. CASE PublishAfterExpiry \/ \E r \in Runners : PublishAfterRelease(r)
  BY <1>1, <1>2, <1>3, <1>8
<1> QED  BY <1>5, <1>6, <1>7, <1>8 DEF Next

LEMMA StepLedgers ==
  ASSUME Inv, Next
  PROVE  LedgersFollowClose' /\ LedgerMatchesAttempt'
<1> USE DEF Inv
<1>t. ledger \in [Attempts -> Ledgers] /\ observation \in [Attempts -> Ledgers]
  BY DEF TypeOK
<1> DEFINE Matches(a) ==
      /\ \/ ledger[a].final_status = attempt[a]
         \/ ledger[a].final_status = "blocked" /\ attempt[a] = "waiting_approval"
      /\ ledger[a].retry_count = a - 1
      /\ ledger[a].first_pass_success # "unknown"
      /\ ledger[a].first_pass_success = "yes" => attempt[1] = "waiting_approval"
           Follows(a) ==
      /\ ledger[a] # NoLedger => SnapshotTerminal(a)
      /\ observation[a] \in {NoLedger, ledger[a]}
<1>1. attempt[1] = "waiting_approval" => attempt'[1] = "waiting_approval"
  BY ClosedStays, AttemptFacts DEF ClosedStatuses
<1>2. ASSUME NEW a \in Attempts, ledger'[a] = ledger[a]
      PROVE  (ledger[a] # NoLedger => Matches(a)')
             /\ (ledger[a] # NoLedger => SnapshotTerminal(a)')
  <2>1. CASE ledger[a] # NoLedger
    <3>1. Matches(a) /\ attempt[a] \in ClosedStatuses
      BY <2>1 DEF LedgerMatchesAttempt, LedgersFollowClose, SnapshotTerminal
    <3>2. \/ attempt'[a] = attempt[a]
          \/ attempt[a] = "blocked" /\ attempt'[a] = "waiting_approval"
      BY <3>1, ClosedStays
    <3> QED  BY <1>1, <1>2, <3>1, <3>2 DEF SnapshotTerminal, ClosedStatuses
  <2> QED  BY <2>1
<1>3. ASSUME NEW a \in Attempts, SnapshotTerminal(a), ledger[a] = NoLedger,
             ledger' = [ledger EXCEPT ![a] = BuildFields(a)],
             attempt' = attempt, observation' = observation
      PROVE  \A b \in Attempts : /\ ledger'[b] # NoLedger => Matches(b)'
                                 /\ Follows(b)'
  <2>1. ledger'[a] = BuildFields(a) /\ \A b \in Attempts \ {a} : ledger'[b] = ledger[b]
    BY <1>t, <1>3
  <2>2. Matches(a)'
    BY <1>3, <2>1, FieldFacts
  <2>3. Follows(a)'
    BY <1>3, <2>1 DEF SnapshotTerminal, LedgersFollowClose
  <2>4. ASSUME NEW b \in Attempts \ {a}
        PROVE  (ledger'[b] # NoLedger => Matches(b)') /\ Follows(b)'
    BY <1>2, <1>3, <2>1, <2>4 DEF LedgersFollowClose
  <2> QED  BY <2>2, <2>3, <2>4
<1>4. ASSUME ledger' = ledger
      PROVE  \A b \in Attempts : /\ ledger'[b] # NoLedger => Matches(b)'
                                 /\ Follows(b)'
  <2>1. ASSUME NEW b \in Attempts
        PROVE  observation'[b] = observation[b] \/ observation'[b] = ledger[b]
    <3>1. CASE observation' = observation
      BY <3>1
    <3>2. ASSUME NEW a \in Attempts,
                 observation' = [observation EXCEPT ![a] = ledger[a]]
          PROVE  observation'[b] = observation[b] \/ observation'[b] = ledger[b]
      BY <1>t, <3>2
    <3>3. ledger' # ledger \/ observation' = observation
            \/ \E a \in Attempts : observation' = [observation EXCEPT ![a] = ledger[a]]
      BY LedgerMoves
    <3> QED  BY <1>4, <3>1, <3>2, <3>3
  <2>2. ASSUME NEW b \in Attempts
        PROVE  (ledger'[b] # NoLedger => Matches(b)') /\ Follows(b)'
    <3>1. ledger'[b] = ledger[b]
      BY <1>4
    <3>2. observation[b] \in {NoLedger, ledger[b]}
      BY DEF LedgersFollowClose
    <3>3. observation'[b] \in {NoLedger, ledger'[b]}
      BY <2>1, <3>1, <3>2
    <3> QED  BY <1>2, <3>1, <3>3
  <2> QED  BY <2>2
<1>5. \A b \in Attempts : /\ ledger'[b] # NoLedger => Matches(b)'
                          /\ Follows(b)'
  BY <1>3, <1>4, LedgerMoves
<1> QED  BY <1>5 DEF LedgersFollowClose, LedgerMatchesAttempt

-----------------------------------------------------------------------------
(* Runtime progress *)

LEMMA StepProgressHonest ==
  ASSUME Inv, Next
  PROVE  ProgressHonest'
<1> USE DEF Inv
<1>t. /\ progress \in [Attempts -> [Steps -> StepStatuses]]
      /\ did \in [Attempts -> SUBSET {"executed", "validated"}]
      /\ Steps = {"Implementer", "Validator"}
  BY DEF TypeOK, Steps
<1>1. CASE progress' = progress
  <2>1. \A a \in Attempts : did[a] \subseteq did'[a]
    BY DidMoves
  <2>2. \A a \in Attempts : attempt'[a] \in {"none", "created"} =>
                              attempt[a] \in {"none", "created"}
    BY ClosedStays
  <2> QED  BY <1>1, <2>1, <2>2 DEF ProgressHonest
<1>2. ASSUME NEW r \in Runners, run[r].pc \in WorkingPCs,
             NEW step \in Steps, NEW to \in StepStatuses,
             progress' = [progress EXCEPT ![run[r].att][step] = to],
             step = "Implementer" /\ to = "passed" => "executed" \in did'[run[r].att],
             step = "Validator" /\ to = "passed" => "validated" \in did'[run[r].att]
      PROVE  ProgressHonest'
  <2>1. /\ run[r].att \in Attempts
        /\ attempt[run[r].att] \notin {"none", "created"}
    BY <1>2, HoldsAttempt DEF RunnersApart, WorkingPCs, RunningStatuses
  <2>2. ASSUME NEW a \in Attempts, NEW s \in Steps
        PROVE  progress'[a][s] = IF a = run[r].att /\ s = step THEN to
                                                               ELSE progress[a][s]
    BY <1>t, <1>2, <2>1
  <2>3. ASSUME NEW a \in Attempts
        PROVE  /\ did[a] \subseteq did'[a]
               /\ attempt'[a] \in {"none", "created"} =>
                    attempt[a] \in {"none", "created"}
    BY DidMoves, ClosedStays
  <2> QED  BY <1>t, <1>2, <2>1, <2>2, <2>3 DEF ProgressHonest
<1>3. ASSUME NEW r \in Runners,
             \/ BeginImplementing(r) \/ BeginValidating(r)
             \/ \E ok \in BOOLEAN : FinishExecutor(r, ok) \/ FinishValidators(r, ok)
      PROVE  ProgressHonest'
  <2>1. run[r].pc \in WorkingPCs /\ run[r].att \in Attempts
    BY <1>3, HoldsAttempt DEF BeginImplementing, BeginValidating,
       FinishExecutor, FinishValidators, WorkingPCs
  <2>2. PICK step \in Steps, to \in StepStatuses :
          /\ RecordStep(run[r].att, step, to)
          /\ step = "Implementer" /\ to = "passed" =>
               \E ok \in BOOLEAN : ok /\ FinishExecutor(r, ok)
          /\ step = "Validator" /\ to = "passed" =>
               \E ok \in BOOLEAN : ok /\ FinishValidators(r, ok)
    <3>1. CASE BeginImplementing(r) \/ BeginValidating(r)
      BY <1>t, <3>1 DEF BeginImplementing, BeginValidating, Report,
         RecorderForClaim, StepStatuses
    <3>2. ASSUME NEW ok \in BOOLEAN, FinishExecutor(r, ok)
          PROVE  \E step \in Steps, to \in StepStatuses :
                   /\ RecordStep(run[r].att, step, to)
                   /\ step = "Implementer" /\ (to = "passed" => ok)
      BY <1>t, <3>2 DEF FinishExecutor, Report, RecorderForClaim, StepStatuses
    <3>3. ASSUME NEW ok \in BOOLEAN, FinishValidators(r, ok)
          PROVE  \E step \in Steps, to \in StepStatuses :
                   /\ RecordStep(run[r].att, step, to)
                   /\ step = "Validator" /\ (to = "passed" => ok)
      BY <1>t, <3>3 DEF FinishValidators, Report, RecorderForClaim, StepStatuses
    <3> QED  BY <1>3, <3>1, <3>2, <3>3
  <2>3. step = "Implementer" /\ to = "passed" => "executed" \in did'[run[r].att]
    BY <1>t, <2>1, <2>2 DEF FinishExecutor
  <2>4. step = "Validator" /\ to = "passed" => "validated" \in did'[run[r].att]
    BY <1>t, <2>1, <2>2 DEF FinishValidators
  <2>5. \/ progress' = progress
        \/ progress' = [progress EXCEPT ![run[r].att][step] = to]
    BY <2>2 DEF RecordStep
  <2> QED  BY <1>1, <1>2, <2>1, <2>3, <2>4, <2>5
<1>4. ASSUME NEW r \in Runners, RunStep(r),
             ~ (\/ BeginImplementing(r) \/ BeginValidating(r)
                \/ \E ok \in BOOLEAN : \/ FinishExecutor(r, ok)
                                       \/ FinishValidators(r, ok))
      PROVE  progress' = progress
  BY <1>4 DEF RunStep, StartRun, BlockBeforeClaim, ClaimReserved, ClaimNew,
     ClaimRefused, AllocationFails, PrepareFails, ReviewAndGate, DieInReview,
     Release, PublishAfterRelease, AuditWrite, LoseRun, CrashRun, sideVars
<1>5. ASSUME ~ \E r \in Runners : RunStep(r)  PROVE progress' = progress
  BY <1>5 DEF Next, ResetStep, PreviewReset, ReserveRetry, RejectReset,
     LeaseExpires, ReviewByHand, RecordObservation, RecoverAdvisoryEvidence,
     ExpireStaleLeases, PublishAfterExpiry, CrashReaper, ArchiveTask,
     IngestIssue, sideVars
<1> QED  BY <1>1, <1>3, <1>4, <1>5

-----------------------------------------------------------------------------
(* The invariant and the properties *)

LEMMA InitInv == Init => Inv
<1> SUFFICES ASSUME Init  PROVE Inv
  OBVIOUS
<1>t. TypeOK
  BY InitTypeOK
<1>1. Existing = {} /\ Latest = 0
  <2>1. Existing = {}
    BY DEF Init, Existing
  <2>2. Existing = 1..0
    BY <2>1
  <2> QED  BY <2>1, <2>2, LatestIsEnd, AttemptFacts
<1>2. ResetRows = {}
  BY DEF Init, ResetRows, NoLineage
<1>3. IsFiniteSet(ResetRows) /\ Cardinality(ResetRows) = 0
  BY <1>2, FS_EmptySet
<1>4. AttemptsInOrder
  BY <1>1, AttemptFacts DEF AttemptsInOrder, Init
<1>5. RowsAreCounted
  BY <1>1, <1>2, <1>3, AttemptFacts DEF RowsAreCounted, Init
<1>6. LineageConsistent
  BY <1>2, <1>3 DEF LineageConsistent, ResetRows, Init
<1>7. LeaseIsOpen /\ LedgersFollowClose /\ LedgerMatchesAttempt
  BY DEF Init, LeaseIsOpen, ActiveLease, LedgersFollowClose, LedgerMatchesAttempt
<1>8. RunnersApart /\ WorkIsDone
  BY DEF Init, RunnersApart, WorkIsDone, IdleRun, WorkingPCs
<1>9. ApprovalsEarned /\ ProgressHonest
  BY DEF Init, ApprovalsEarned, ProgressHonest, Steps
<1> QED  BY <1>t, <1>4, <1>5, <1>6, <1>7, <1>8, <1>9 DEF Inv

LEMMA StepInv == Inv /\ [Next]_vars => Inv'
<1> SUFFICES ASSUME Inv, [Next]_vars  PROVE Inv'
  OBVIOUS
<1>1. CASE Next
  <2>1. TypeOK'
    <3>1. TypeOK /\ AttemptsInOrder /\ RowsAreCounted /\ RunnersApart
      BY DEF Inv
    <3> QED  BY <1>1, <3>1, ResetTypeOK, RunTypeOK, EnvironmentTypeOK DEF Next
  <2> QED  BY <1>1, <2>1, StepAttemptsInOrder, StepLineage, StepLeaseIsOpen,
              StepRunnersApart, StepWorkIsDone, StepApprovalsEarned,
              StepLedgers, StepProgressHonest DEF Inv
<1>2. CASE UNCHANGED vars
  <2> USE <1>2 DEF vars, dbVars, sideVars, Inv
  <2>1. TypeOK'
    BY DEF TypeOK
  <2>2. Existing' = Existing /\ Latest' = Latest /\ ResetRows' = ResetRows
    BY DEF Existing, Latest, ResetRows
  <2>3. AttemptsInOrder' /\ RowsAreCounted'
    BY <2>2 DEF AttemptsInOrder, RowsAreCounted
  <2>4. LineageConsistent'
    BY DEF LineageConsistent
  <2>5. LeaseIsOpen' /\ RunnersApart'
    BY DEF LeaseIsOpen, RunnersApart
  <2>6. WorkIsDone' /\ ApprovalsEarned'
    BY DEF WorkIsDone, ApprovalsEarned, EvidenceSatisfied
  <2>7. LedgersFollowClose' /\ LedgerMatchesAttempt'
    BY DEF LedgersFollowClose, SnapshotTerminal, LedgerMatchesAttempt
  <2>8. ProgressHonest'
    BY DEF ProgressHonest
  <2> QED  BY <2>1, <2>3, <2>4, <2>5, <2>6, <2>7, <2>8
<1> QED  BY <1>1, <1>2

\* The inductive invariant of the legacy task: order of the Attempts, lineage,
\* leases, runners, work, approvals, ledgers and progress hold together in every
\* reachable state (approved_task_runner.py, reset_lineage.py,
\* runtime_admission_store.py).
THEOREM InvHolds == Spec => []Inv
<1>1. Init => Inv
  BY InitInv
<1>2. Inv /\ [Next]_vars => Inv'
  BY StepInv
<1> QED  BY <1>1, <1>2, PTL DEF Spec

\* Every variable keeps its type: the rows, the files and the processes of a
\* legacy task never take a shape the code does not know.
THEOREM TypesHold == Spec => []TypeOK
<1>1. Inv => TypeOK
  BY DEF Inv
<1> QED  BY <1>1, InvHolds, PTL

\* Resets racing with runs, the reaper and the archive leave one consistent
\* lineage: the generation counts the rows, no two rows share a generation or
\* an Attempt, and only the task's own unclaimed Attempt is reserved
\* (reserve_retry, _try_claim_reserved_retry).
THEOREM LineageHolds == Spec => []LineageConsistent
<1>1. Inv => LineageConsistent
  BY DEF Inv
<1> QED  BY <1>1, InvHolds, PTL

\* A task that waits for approval has an Attempt that executed, validated and
\* has its advisory evidence, whoever crashed, reset or archived meanwhile
\* (run_approved_task, recover_advisory_evidence_retry).
THEOREM ApprovalIsEarned == Spec => []WaitingApprovalEarned
<1>1. Inv => WaitingApprovalEarned
  BY DEF Inv, ApprovalsEarned, WaitingApprovalEarned, EvidenceSatisfied
<1> QED  BY <1>1, InvHolds, PTL

\* A published ledger agrees with its Attempt for ever, knows the Attempts
\* before it and the end of the first, and is the one later observations name
\* (record_terminal_attempt_outcome, record_attempt_outcome_observation).
THEOREM LedgersHold == Spec => []LedgerMatchesAttempt
<1>1. Inv => LedgerMatchesAttempt
  BY DEF Inv
<1> QED  BY <1>1, InvHolds, PTL

\* Progress never claims a step its Attempt did not do, nor touches an Attempt
\* nobody claimed, though runs that lost their lease go on recording
\* (RuntimeProgressRecorder).
THEOREM ProgressHolds == Spec => []ProgressHonest
<1>1. Inv => ProgressHonest
  BY DEF Inv
<1> QED  BY <1>1, InvHolds, PTL
=============================================================================
