----------------------- MODULE RuntimeAdmissionProofs -----------------------
(***************************************************************************)
(* Proofs that the runtime ownership protocol of RuntimeAdmission keeps its *)
(* safety properties for any number of Tickets, workers and Attempts.       *)
(* Inv is inductive; each lemma shows that one conjunct of it survives every *)
(* step, the other conjuncts given.                                         *)
(***************************************************************************)
EXTENDS RuntimeAdmission, FiniteSetTheorems, TLAPS

-----------------------------------------------------------------------------
(* Sets of constants *)

LEMMA NumbersAreNonZero ==
  /\ 0 \notin Numbers
  /\ Numbers \subseteq 0..MaxAttempts
  /\ 0..MaxAttempts = Numbers \cup {0}
BY AttemptsAssumption DEF Numbers

\* The ends of a run: a Ticket status of its own and a finished Attempt.
LEMMA TerminalOutcomeTypes ==
  ASSUME NEW l, NEW o \in TerminalOutcomes(l)
  PROVE  /\ l \in {"allocated", "prepared", "executing", "validating"}
         /\ o[1] \in {"failed", "needs_decision", "ready_for_integration"}
         /\ o[2] \in TerminalAttemptStatuses
<1>1. CASE l \in {"allocated", "prepared"}
  BY <1>1 DEF TerminalOutcomes, TerminalAttemptStatuses
<1>2. CASE l = "executing"
  BY <1>2 DEF TerminalOutcomes, TerminalAttemptStatuses, RuntimeFailures
<1>3. CASE l = "validating"
  BY <1>3 DEF TerminalOutcomes, TerminalAttemptStatuses, RuntimeFailures
<1>4. CASE l \notin {"allocated", "prepared", "executing", "validating"}
  BY <1>4 DEF TerminalOutcomes
<1> QED  BY <1>1, <1>2, <1>3, <1>4

-----------------------------------------------------------------------------
(* Type correctness *)

LEMMA InitTypeOK == Init => TypeOK
BY AttemptsAssumption, CapacityAssumption
   DEF Init, TypeOK, Numbers, TaskStatuses, HeldOrReady, AttemptStatuses,
       LeaseStates, ResourceStates, PCs

LEMMA StepTypeOK ==
  ASSUME TypeOK, ClaimsExclusive, Next
  PROVE  TypeOK'
<1> USE DEF TypeOK
<1> USE NumbersAreNonZero
<1>1. ASSUME NEW w \in Workers, NEW t \in Tickets, StartWorker(w, t)
      PROVE  TypeOK'
  BY <1>1 DEF StartWorker, dbVars, reapVars, PCs
<1>2. ASSUME NEW w \in Workers, RefuseStart(w)  PROVE  TypeOK'
  BY <1>2 DEF RefuseStart, Exit, dbVars, reapVars, PCs
<1>3. ASSUME NEW w \in Workers, FailBeforeClaim(w)  PROVE  TypeOK'
  BY <1>3 DEF FailBeforeClaim, Exit, reapVars, PCs, TaskStatuses,
              TICKET_RETRY_FROM_STATUSES
<1>4. ASSUME NEW w \in Workers, NEW n \in Numbers, Claim(w, n)  PROVE  TypeOK'
  BY <1>4 DEF Claim, reapVars, PCs, Claimed, TaskStatuses, AttemptStatuses,
              RUNNING_TASK_STATUSES, LeaseStates
<1>5. ASSUME NEW w \in Workers, AllocateResources(w)  PROVE  TypeOK'
  BY <1>5 DEF AllocateResources, Goto, dbVars, reapVars, PCs, Claimed,
              ResourceStates, LIVE_RESOURCE_STATES
<1>6. ASSUME NEW w \in Workers, AllocationFails(w)  PROVE  TypeOK'
  <2>0. PICK r \in ResourceStates :
          resource' = [resource EXCEPT ![ticket[w]][num[w]] = r]
    BY <1>6 DEF AllocationFails, ResourceStates, LIVE_RESOURCE_STATES
  <2>1. resource' \in [Tickets -> [Numbers -> ResourceStates]]
    BY <2>0
  <2>2. /\ status' \in [Tickets -> TaskStatuses]
        /\ activeAttempt' \in [Tickets -> 0..MaxAttempts]
        /\ attempt' \in [Tickets -> [Numbers -> AttemptStatuses]]
        /\ lease' \in [Tickets -> [Numbers -> LeaseStates]]
    BY <1>6 DEF AllocationFails, CloseAttempt, TaskStatuses, AttemptStatuses,
                TICKET_RETRY_FROM_STATUSES, TerminalAttemptStatuses, LeaseStates
  <2> QED
    BY <1>6, <2>1, <2>2 DEF AllocationFails, Exit, reapVars, PCs
<1>7. ASSUME NEW w \in Workers, ProvisionWorkspace(w)  PROVE  TypeOK'
  BY <1>7 DEF ProvisionWorkspace, Goto, dbVars, reapVars, PCs, Claimed,
              ResourceStates, LIVE_RESOURCE_STATES
<1>8. ASSUME NEW w \in Workers, BeginImplementing(w) \/ BeginValidating(w)
      PROVE  TypeOK'
  <2>1. PICK from \in Claimed, to \in Claimed, a \in RUNNING_TASK_STATUSES :
          TransitionRun(w, from, to, a)
    BY <1>8 DEF BeginImplementing, BeginValidating, Claimed,
                RUNNING_TASK_STATUSES
  <2>2. /\ attempt' \in [Tickets -> [Numbers -> AttemptStatuses]]
        /\ status' \in [Tickets -> TaskStatuses]
        /\ pc' \in [Workers -> PCs]
    BY <2>1 DEF TransitionRun, Goto, PCs, TaskStatuses, AttemptStatuses
  <2> QED
    BY <2>1, <2>2 DEF TransitionRun, Goto, reapVars
<1>9. ASSUME NEW w \in Workers, Release(w)  PROVE  TypeOK'
  <2>1. PICK o \in TerminalOutcomes(pc[w]) :
          /\ CloseAttempt(ticket[w], num[w], o[1], o[2])
          /\ pc' = [pc EXCEPT ![w] = IF o[1] \in TICKET_RETRY_FROM_STATUSES
                                       THEN "auditing" ELSE "closing"]
          /\ target' = [target EXCEPT ![w] = o[1]]
          /\ UNCHANGED <<ticket, num, resource, capacity, reapVars>>
    BY <1>9 DEF Release
  <2> QED
    BY <2>1, TerminalOutcomeTypes
       DEF CloseAttempt, reapVars, PCs, Closing, TaskStatuses, AttemptStatuses,
           TICKET_RETRY_FROM_STATUSES, LeaseStates
<1>10. ASSUME NEW w \in Workers, AuditWrite(w)  PROVE  TypeOK'
  BY <1>10 DEF AuditWrite, Goto, ClaimsExclusive, reapVars, PCs, Closing,
               TaskStatuses
<1>11. ASSUME NEW w \in Workers, ReleaseResources(w)  PROVE  TypeOK'
  BY <1>11 DEF ReleaseResources, Goto, dbVars, reapVars, PCs, Closing,
               ResourceStates
<1>12. ASSUME NEW w \in Workers, FinishWorker(w) \/ Abandon(w) \/ Crash(w)
       PROVE  TypeOK'
  BY <1>12 DEF FinishWorker, Abandon, Crash, Exit, dbVars, reapVars, PCs
<1>13. ASSUME NEW t \in Tickets, NEW n \in Numbers, LeaseExpires(t, n)
       PROVE  TypeOK'
  BY <1>13 DEF LeaseExpires, workerVars, reapVars, LeaseStates
<1>14. CASE ExpireStaleLeases
  BY <1>14 DEF ExpireStaleLeases, workerVars, reapVars, LeaseStates,
               AttemptStatuses, TerminalAttemptStatuses, TaskStatuses,
               TICKET_RETRY_FROM_STATUSES
<1>15. CASE ReapSelect
  BY <1>15 DEF ReapSelect, dbVars, workerVars
<1>16. ASSUME NEW a \in Tickets \X Numbers, ReapProbe(a)  PROVE  TypeOK'
  <2>1. resource' \in [Tickets -> [Numbers -> ResourceStates]]
    <3>1. CASE resource' = resource
      BY <3>1
    <3>2. CASE resource' = [resource EXCEPT ![a[1]][a[2]] = "reaped"]
      BY <3>2 DEF ResourceStates
    <3> QED  BY <1>16, <3>1, <3>2 DEF ReapProbe
  <2>2. reapRows' \subseteq Tickets \X Numbers /\ reapAlive' \subseteq Tickets \X Numbers
    BY <1>16 DEF ReapProbe
  <2> QED
    BY <1>16, <2>1, <2>2 DEF ReapProbe, dbVars, workerVars
<1>17. ASSUME NEW a \in Tickets \X Numbers, ReapMark(a)  PROVE  TypeOK'
  BY <1>17 DEF ReapMark, dbVars, workerVars, ResourceStates,
               LIVE_RESOURCE_STATES
<1>18. ASSUME NEW t \in Tickets,
              Retry(t) \/ Rework(t) \/ StopDependent(t) \/ ReleaseDependent(t)
       PROVE  TypeOK'
  BY <1>18 DEF Retry, Rework, StopDependent, ReleaseDependent, workerVars,
               reapVars, TaskStatuses, HeldOrReady, TICKET_RETRY_FROM_STATUSES
<1>19. ASSUME NEW c \in 1..MaxCapacity, SetCapacity(c)  PROVE  TypeOK'
  BY <1>19 DEF SetCapacity, dbVars, workerVars, reapVars
<1>20. CASE PidStep
  BY <1>20 DEF PidStep, PidReused, StrangerExits, dbVars, workerVars
<1> QED
  BY <1>1, <1>2, <1>3, <1>4, <1>5, <1>6, <1>7, <1>8, <1>9, <1>10, <1>11, <1>12,
     <1>13, <1>14, <1>15, <1>16, <1>17, <1>18, <1>19, <1>20
     DEF Next, WorkerStep, ReapStep

-----------------------------------------------------------------------------
(* Ownership *)

\* A worker past its claim has an Attempt number, and an active lease means
\* that the tasks row still names its Attempt.
LEMMA ClaimFacts ==
  ASSUME TypeOK, OwnershipConsistent, ClaimsExclusive, NEW w \in Workers,
         pc[w] \notin {"idle", "started"}
  PROVE  /\ num[w] \in Numbers
         /\ ticket[w] \in Tickets
         /\ lease[ticket[w]][num[w]] \in ActiveLease =>
              /\ activeAttempt[ticket[w]] = num[w]
              /\ attempt[ticket[w]][num[w]] \in RUNNING_TASK_STATUSES
              /\ status[ticket[w]] = attempt[ticket[w]][num[w]]
BY NumbersAreNonZero DEF TypeOK, OwnershipConsistent, ClaimsExclusive

\* The steps that write none of the four tables of ownership.
LEMMA OwnershipUnchanged ==
  ASSUME OwnershipConsistent, UNCHANGED dbVars
  PROVE  OwnershipConsistent'
BY DEF OwnershipConsistent, dbVars

\* A step that moves one Ticket nobody owns between statuses of rest.
LEMMA OwnershipAtRest ==
  ASSUME TypeOK, OwnershipConsistent, NEW t \in Tickets, NEW x,
         status[t] \notin RUNNING_TASK_STATUSES,
         x \notin RUNNING_TASK_STATUSES,
         status' = [status EXCEPT ![t] = x],
         UNCHANGED <<activeAttempt, attempt, lease>>
  PROVE  OwnershipConsistent'
<1>1. activeAttempt[t] = 0
  BY NumbersAreNonZero DEF TypeOK, OwnershipConsistent
<1> QED
  BY <1>1, NumbersAreNonZero DEF TypeOK, OwnershipConsistent

\* The release transaction ends the ownership it verified.
LEMMA OwnershipReleased ==
  ASSUME TypeOK, OwnershipConsistent, NEW t \in Tickets, NEW n \in Numbers,
         NEW ts, NEW as \in TerminalAttemptStatuses,
         ts \notin RUNNING_TASK_STATUSES, CloseAttempt(t, n, ts, as)
  PROVE  OwnershipConsistent'
<1>1. activeAttempt[t] = n
  BY DEF OwnershipConsistent, CloseAttempt
<1>2. /\ lease' = [lease EXCEPT ![t][n] = "closed"]
      /\ attempt' = [attempt EXCEPT ![t][n] = as]
      /\ status' = [status EXCEPT ![t] = ts]
      /\ activeAttempt' = [activeAttempt EXCEPT ![t] = 0]
  BY <1>1 DEF CloseAttempt
<1>3. as \notin RUNNING_TASK_STATUSES
  BY DEF TerminalAttemptStatuses, RUNNING_TASK_STATUSES
<1> SUFFICES ASSUME NEW u \in Tickets
             PROVE  /\ \A m \in Numbers :
                         /\ lease'[u][m] \in ActiveLease <=>
                              activeAttempt'[u] = m
                         /\ attempt'[u][m] \in RUNNING_TASK_STATUSES <=>
                              activeAttempt'[u] = m
                         /\ activeAttempt'[u] = m => status'[u] = attempt'[u][m]
                    /\ status'[u] \in RUNNING_TASK_STATUSES =>
                         activeAttempt'[u] # 0
  BY DEF OwnershipConsistent
<1>4. CASE u # t
  BY <1>2, <1>4 DEF TypeOK, OwnershipConsistent
<1>5. CASE u = t
  <2>1. \A m \in Numbers : activeAttempt'[u] # m
    BY <1>2, <1>5, NumbersAreNonZero DEF TypeOK
  <2>2. \A m \in Numbers : lease'[u][m] \notin ActiveLease
    BY <1>1, <1>2, <1>5 DEF TypeOK, OwnershipConsistent, ActiveLease
  <2>3. \A m \in Numbers : attempt'[u][m] \notin RUNNING_TASK_STATUSES
    <3>1. /\ attempt'[u][n] = as
          /\ \A m \in Numbers \ {n} : attempt'[u][m] = attempt[t][m]
      BY <1>2, <1>5 DEF TypeOK
    <3> QED  BY <1>1, <1>3, <3>1 DEF OwnershipConsistent
  <2>4. status'[u] \notin RUNNING_TASK_STATUSES
    BY <1>2, <1>5 DEF TypeOK
  <2> QED  BY <2>1, <2>2, <2>3, <2>4
<1> QED  BY <1>4, <1>5

LEMMA StepOwnership ==
  ASSUME TypeOK, OwnershipConsistent, ClaimsExclusive, HolderKeepsTicket,
         AuditFindsStoppedTicket, Next
  PROVE  OwnershipConsistent'
<1> USE NumbersAreNonZero
<1>1. ASSUME NEW w \in Workers, FailBeforeClaim(w)
      PROVE  OwnershipConsistent'
  BY <1>1, OwnershipAtRest DEF FailBeforeClaim, RUNNING_TASK_STATUSES, TypeOK
<1>2. ASSUME NEW w \in Workers, NEW n \in Numbers, Claim(w, n)
      PROVE  OwnershipConsistent'
  <2> DEFINE t == ticket[w]
  <2>1. t \in Tickets
    BY DEF TypeOK
  <2>2. /\ attempt' = [attempt EXCEPT ![t][n] = "preparing"]
        /\ lease' = [lease EXCEPT ![t][n] = "live"]
        /\ status' = [status EXCEPT ![t] = "preparing"]
        /\ activeAttempt' = [activeAttempt EXCEPT ![t] = n]
        /\ \A m \in Numbers : /\ attempt[t][m] \notin RUNNING_TASK_STATUSES
                              /\ lease[t][m] \notin ActiveLease
    BY <1>2 DEF Claim
  <2> SUFFICES ASSUME NEW u \in Tickets
               PROVE  /\ \A m \in Numbers :
                           /\ lease'[u][m] \in ActiveLease <=>
                                activeAttempt'[u] = m
                           /\ attempt'[u][m] \in RUNNING_TASK_STATUSES <=>
                                activeAttempt'[u] = m
                           /\ activeAttempt'[u] = m =>
                                status'[u] = attempt'[u][m]
                      /\ status'[u] \in RUNNING_TASK_STATUSES =>
                           activeAttempt'[u] # 0
    BY DEF OwnershipConsistent
  <2>3. CASE u # t
    BY <2>1, <2>2, <2>3 DEF TypeOK, OwnershipConsistent
  <2>4. CASE u = t
    BY <2>1, <2>2, <2>4 DEF TypeOK, ActiveLease, RUNNING_TASK_STATUSES
  <2> QED  BY <2>3, <2>4
<1>3. ASSUME NEW w \in Workers, AllocationFails(w)  PROVE  OwnershipConsistent'
  BY <1>3, ClaimFacts, OwnershipReleased
     DEF AllocationFails, TerminalAttemptStatuses, RUNNING_TASK_STATUSES
<1>4. ASSUME NEW w \in Workers, NEW from \in Claimed, NEW to,
             NEW a \in RUNNING_TASK_STATUSES, TransitionRun(w, from, to, a)
      PROVE  OwnershipConsistent'
  <2> DEFINE t == ticket[w]
             n == num[w]
  <2>1. pc[w] \notin {"idle", "started"} /\ lease[t][n] \in ActiveLease
    BY <1>4 DEF TransitionRun, Claimed, ActiveLease
  <2>2. /\ t \in Tickets /\ n \in Numbers
        /\ activeAttempt[t] = n
    BY <2>1, ClaimFacts
  <2>3. /\ attempt' = [attempt EXCEPT ![t][n] = a]
        /\ status' = [status EXCEPT ![t] = a]
        /\ UNCHANGED <<activeAttempt, lease>>
    BY <1>4, <2>2 DEF TransitionRun
  <2> QED
    BY <2>2, <2>3 DEF TypeOK, OwnershipConsistent
<1>5. ASSUME NEW w \in Workers, Release(w)  PROVE  OwnershipConsistent'
  <2>1. PICK o \in TerminalOutcomes(pc[w]) :
          CloseAttempt(ticket[w], num[w], o[1], o[2])
    BY <1>5 DEF Release
  <2>2. /\ ticket[w] \in Tickets /\ num[w] \in Numbers
        /\ o[2] \in TerminalAttemptStatuses
        /\ o[1] \notin RUNNING_TASK_STATUSES
    BY TerminalOutcomeTypes, ClaimFacts DEF RUNNING_TASK_STATUSES
  <2> QED  BY <2>1, <2>2, OwnershipReleased
<1>6. ASSUME NEW w \in Workers, AuditWrite(w)  PROVE  OwnershipConsistent'
  <2>1. /\ status[ticket[w]] \notin RUNNING_TASK_STATUSES
        /\ target[w] \notin RUNNING_TASK_STATUSES
        /\ ticket[w] \in Tickets
    BY <1>6 DEF AuditWrite, AuditFindsStoppedTicket, ClaimsExclusive, TypeOK,
                TICKET_RETRY_FROM_STATUSES, RUNNING_TASK_STATUSES
  <2> QED  BY <1>6, <2>1, OwnershipAtRest DEF AuditWrite
<1>7. ASSUME NEW t \in Tickets, NEW n \in Numbers, LeaseExpires(t, n)
      PROVE  OwnershipConsistent'
  <2>1. \A u \in Tickets, m \in Numbers :
          lease'[u][m] \in ActiveLease <=> lease[u][m] \in ActiveLease
    BY <1>7 DEF LeaseExpires, ActiveLease, TypeOK
  <2> QED  BY <1>7, <2>1 DEF LeaseExpires, OwnershipConsistent
<1>8. CASE ExpireStaleLeases
  <2>1. /\ lease' = [u \in Tickets |-> [m \in Numbers |->
                IF lease[u][m] = "expired" THEN "closed" ELSE lease[u][m]]]
        /\ attempt' = [u \in Tickets |-> [m \in Numbers |->
                IF /\ lease[u][m] = "expired"
                   /\ attempt[u][m] \in RUNNING_TASK_STATUSES
                  THEN "execution_aborted" ELSE attempt[u][m]]]
        /\ status' = [u \in Tickets |->
                IF \E m \in Numbers : lease[u][m] = "expired"
                                       /\ activeAttempt[u] = m
                  THEN "failed" ELSE status[u]]
        /\ activeAttempt' = [u \in Tickets |->
                IF \E m \in Numbers : lease[u][m] = "expired"
                                       /\ activeAttempt[u] = m
                  THEN 0 ELSE activeAttempt[u]]
    BY <1>8 DEF ExpireStaleLeases
  <2> SUFFICES ASSUME NEW u \in Tickets
               PROVE  /\ \A m \in Numbers :
                           /\ lease'[u][m] \in ActiveLease <=>
                                activeAttempt'[u] = m
                           /\ attempt'[u][m] \in RUNNING_TASK_STATUSES <=>
                                activeAttempt'[u] = m
                           /\ activeAttempt'[u] = m =>
                                status'[u] = attempt'[u][m]
                      /\ status'[u] \in RUNNING_TASK_STATUSES =>
                           activeAttempt'[u] # 0
    BY DEF OwnershipConsistent
  <2>2. CASE \E m \in Numbers : lease[u][m] = "expired" /\ activeAttempt[u] = m
    <3>1. \A m \in Numbers : activeAttempt'[u] # m
      BY <2>1, <2>2
    <3>2. \A m \in Numbers : lease'[u][m] \notin ActiveLease
      BY <2>1, <2>2 DEF OwnershipConsistent, ActiveLease
    <3>3. \A m \in Numbers : attempt'[u][m] \notin RUNNING_TASK_STATUSES
      BY <2>1, <2>2 DEF OwnershipConsistent, RUNNING_TASK_STATUSES
    <3>4. status'[u] \notin RUNNING_TASK_STATUSES
      BY <2>1, <2>2 DEF RUNNING_TASK_STATUSES
    <3> QED  BY <3>1, <3>2, <3>3, <3>4
  <2>3. CASE ~ \E m \in Numbers : lease[u][m] = "expired"
                                  /\ activeAttempt[u] = m
    <3>1. \A m \in Numbers : lease[u][m] # "expired"
      BY <2>3 DEF OwnershipConsistent, ActiveLease
    <3>2. \A m \in Numbers : /\ lease'[u][m] = lease[u][m]
                             /\ attempt'[u][m] = attempt[u][m]
      BY <2>1, <3>1
    <3>3. status'[u] = status[u] /\ activeAttempt'[u] = activeAttempt[u]
      BY <2>1, <2>3
    <3> QED  BY <3>2, <3>3 DEF OwnershipConsistent
  <2> QED  BY <2>2, <2>3
<1>9. ASSUME NEW t \in Tickets,
             Retry(t) \/ Rework(t) \/ StopDependent(t) \/ ReleaseDependent(t)
      PROVE  OwnershipConsistent'
  <2>1. PICK x : /\ status' = [status EXCEPT ![t] = x]
                 /\ x \notin RUNNING_TASK_STATUSES
    BY <1>9 DEF Retry, Rework, StopDependent, ReleaseDependent,
                RUNNING_TASK_STATUSES
  <2>2. status[t] \notin RUNNING_TASK_STATUSES
    BY <1>9 DEF Retry, Rework, StopDependent, ReleaseDependent,
                TICKET_RETRY_FROM_STATUSES, RUNNING_TASK_STATUSES
  <2>3. UNCHANGED <<activeAttempt, attempt, lease>>
    BY <1>9 DEF Retry, Rework, StopDependent, ReleaseDependent
  <2> QED  BY <2>1, <2>2, <2>3, OwnershipAtRest
<1>10. CASE UNCHANGED dbVars
  BY <1>10, OwnershipUnchanged
<1> QED
  <2>1. ASSUME NEW w \in Workers, WorkerStep(w)  PROVE  OwnershipConsistent'
    <3>1. ASSUME BeginImplementing(w) \/ BeginValidating(w)
          PROVE  OwnershipConsistent'
      BY <3>1, <1>4 DEF BeginImplementing, BeginValidating, Claimed,
                        RUNNING_TASK_STATUSES
    <3>2. ASSUME \/ RefuseStart(w) \/ AllocateResources(w)
                 \/ ProvisionWorkspace(w) \/ ReleaseResources(w)
                 \/ FinishWorker(w) \/ Abandon(w)
          PROVE  UNCHANGED dbVars
      BY <3>2 DEF RefuseStart, AllocateResources, ProvisionWorkspace,
                  ReleaseResources, FinishWorker, Abandon
    <3> QED
      BY <2>1, <3>1, <3>2, <1>1, <1>2, <1>3, <1>5, <1>6, <1>10 DEF WorkerStep
  <2>2. ASSUME \/ \E w \in Workers, t \in Tickets : StartWorker(w, t)
               \/ \E w \in Workers : Crash(w)
               \/ ReapStep
               \/ PidStep
               \/ \E c \in 1..MaxCapacity : SetCapacity(c)
        PROVE  UNCHANGED dbVars
    BY <2>2 DEF StartWorker, Crash, ReapStep, ReapSelect,
         PidStep, PidReused, StrangerExits, ReapProbe, ReapMark,
                SetCapacity
  <2> QED
    BY <2>1, <2>2, <1>7, <1>8, <1>9, <1>10 DEF Next

-----------------------------------------------------------------------------
(* Claims *)

\* Rows are never deleted and a closed lease is never reopened.
LEMMA RowsKept ==
  ASSUME TypeOK, Next, NEW t \in Tickets, NEW n \in Numbers,
         attempt[t][n] # "none"
  PROVE  /\ attempt'[t][n] # "none"
         /\ lease[t][n] = "closed" => lease'[t][n] = "closed"
<1> DEFINE Kept == /\ attempt'[t][n] # "none"
                   /\ lease[t][n] = "closed" => lease'[t][n] = "closed"
<1>1. ASSUME NEW w \in Workers, NEW m \in Numbers, Claim(w, m)  PROVE  Kept
  <2>1. attempt[ticket[w]][m] = "none"
    BY <1>1 DEF Claim, IsNextNumber, Numbers
  <2> QED  BY <1>1, <2>1 DEF Claim, TypeOK
<1>2. ASSUME NEW u \in Tickets, NEW m, NEW ts,
             NEW as \in TerminalAttemptStatuses, CloseAttempt(u, m, ts, as)
      PROVE  Kept
  BY <1>2 DEF CloseAttempt, TypeOK, TerminalAttemptStatuses
<1>3. ASSUME NEW w \in Workers, BeginImplementing(w) \/ BeginValidating(w)
      PROVE  Kept
  <2>1. PICK a : /\ a # "none" /\ lease' = lease
                 /\ attempt' = [attempt EXCEPT ![ticket[w]][num[w]] = a]
    BY <1>3 DEF BeginImplementing, BeginValidating, TransitionRun
  <2> QED  BY <2>1 DEF TypeOK
<1>4. CASE ExpireStaleLeases
  BY <1>4 DEF ExpireStaleLeases, TypeOK
<1>5. ASSUME NEW u \in Tickets, NEW m \in Numbers, LeaseExpires(u, m)
      PROVE  Kept
  BY <1>5 DEF LeaseExpires, TypeOK
<1>6. CASE UNCHANGED <<attempt, lease>>
  BY <1>6
<1>7. ASSUME NEW w \in Workers, WorkerStep(w)  PROVE  Kept
  <2>1. ASSUME Release(w)  PROVE  Kept
    BY <2>1, <1>2, TerminalOutcomeTypes DEF Release, TypeOK
  <2>2. ASSUME AllocationFails(w)  PROVE  Kept
    BY <2>2, <1>2 DEF AllocationFails, TerminalAttemptStatuses, TypeOK
  <2>3. ASSUME \/ RefuseStart(w) \/ AllocateResources(w)
               \/ ProvisionWorkspace(w) \/ ReleaseResources(w)
               \/ FinishWorker(w) \/ Abandon(w) \/ FailBeforeClaim(w)
               \/ AuditWrite(w)
        PROVE  UNCHANGED <<attempt, lease>>
    BY <2>3 DEF RefuseStart, AllocateResources, ProvisionWorkspace, dbVars,
                ReleaseResources, FinishWorker, Abandon, FailBeforeClaim,
                AuditWrite
  <2> QED  BY <1>7, <2>1, <2>2, <2>3, <1>1, <1>3, <1>6 DEF WorkerStep
<1>8. ASSUME \/ \E w \in Workers, u \in Tickets : StartWorker(w, u)
             \/ \E w \in Workers : Crash(w)
             \/ ReapStep
             \/ PidStep
             \/ \E u \in Tickets : \/ Retry(u) \/ Rework(u)
                                   \/ StopDependent(u) \/ ReleaseDependent(u)
             \/ \E c \in 1..MaxCapacity : SetCapacity(c)
      PROVE  UNCHANGED <<attempt, lease>>
  BY <1>8 DEF StartWorker, Crash, ReapStep, ReapSelect,
         PidStep, PidReused, StrangerExits, ReapProbe, ReapMark,
              SetCapacity, Retry, Rework, StopDependent, ReleaseDependent,
              dbVars
<1> QED  BY <1>4, <1>5, <1>6, <1>7, <1>8 DEF Next

\* The conjuncts of ClaimsExclusive about one worker, and about two.
ClaimSound(w) ==
  /\ pc[w] \in {"idle", "started"} <=> num[w] = 0
  /\ num[w] # 0 => attempt[ticket[w]][num[w]] # "none"
  /\ pc[w] \in {"allocated", "prepared"} \cup Holding =>
       resource[ticket[w]][num[w]] \in LIVE_RESOURCE_STATES
  /\ pc[w] \in Closing => lease[ticket[w]][num[w]] = "closed"
  /\ pc[w] = "auditing" => target[w] \in TICKET_RETRY_FROM_STATUSES

SameClaim(v, w) == num[v] # 0 /\ num[v] = num[w] /\ ticket[v] = ticket[w]

LEMMA ClaimsByWorker ==
  ClaimsExclusive <=> \A w \in Workers :
                        ClaimSound(w) /\ \A v \in Workers : SameClaim(v, w) => v = w
BY DEF ClaimsExclusive, ClaimSound, SameClaim

\* Two processes never get hold of the same claim: a claim takes a number that
\* no Attempt has yet, and every claim in memory has its Attempt row.
LEMMA StepClaimUnique ==
  ASSUME TypeOK, ClaimsExclusive, Next,
         NEW v \in Workers, NEW w \in Workers, SameClaim(v, w)'
  PROVE  v = w
<1> USE ClaimsByWorker DEF TypeOK
<1>1. ASSUME NEW x \in Workers, NEW n \in Numbers, Claim(x, n)  PROVE  v = w
  <2>1. attempt[ticket[x]][n] = "none"
    BY <1>1 DEF Claim, IsNextNumber, Numbers
  <2>2. \A y \in Workers : ~(num[y] = n /\ ticket[y] = ticket[x])
    BY <2>1, NumbersAreNonZero DEF ClaimSound
  <2> QED  BY <1>1, <2>2 DEF Claim, SameClaim
<1>2. ASSUME NEW x \in Workers, Exit(x)  PROVE  v = w
  BY <1>2 DEF Exit, SameClaim
<1>3. ASSUME NEW x \in Workers, NEW t \in Tickets, StartWorker(x, t)
      PROVE  v = w
  BY <1>3 DEF StartWorker, SameClaim, ClaimSound
<1>4. CASE UNCHANGED <<num, ticket>>
  BY <1>4 DEF SameClaim
<1>5. ASSUME NEW x \in Workers, WorkerStep(x)  PROVE  v = w
  <2>1. \/ \E n \in Numbers : Claim(x, n)
        \/ Exit(x)
        \/ UNCHANGED <<num, ticket>>
    BY <1>5 DEF WorkerStep, RefuseStart, FailBeforeClaim, AllocateResources,
                AllocationFails, ProvisionWorkspace, BeginImplementing,
                BeginValidating, TransitionRun, Release, AuditWrite,
                ReleaseResources, FinishWorker, Abandon, Goto
  <2> QED  BY <2>1, <1>1, <1>2, <1>4
<1>6. ASSUME NEW x \in Workers, Crash(x)  PROVE  v = w
  BY <1>2, <1>6 DEF Crash
<1>7. ASSUME \/ \E t \in Tickets, n \in Numbers : LeaseExpires(t, n)
             \/ ExpireStaleLeases
             \/ ReapStep
             \/ PidStep
             \/ \E t \in Tickets : \/ Retry(t) \/ Rework(t)
                                   \/ StopDependent(t) \/ ReleaseDependent(t)
             \/ \E c \in 1..MaxCapacity : SetCapacity(c)
      PROVE  UNCHANGED <<num, ticket>>
  BY <1>7 DEF LeaseExpires, ExpireStaleLeases, ReapStep, ReapSelect,
         PidStep, PidReused, StrangerExits, ReapProbe,
              ReapMark, Retry, Rework, StopDependent, ReleaseDependent,
              SetCapacity, workerVars
<1> QED  BY <1>3, <1>4, <1>5, <1>6, <1>7 DEF Next

HoldsResource(w) == pc[w] \in {"allocated", "prepared"} \cup Holding

\* A step that leaves a worker's memory alone, and its resource row in use,
\* leaves its claim sound.
LEMMA BystanderClaim ==
  ASSUME TypeOK, ClaimsExclusive, Next, NEW w \in Workers,
         pc'[w] = pc[w], num'[w] = num[w], ticket'[w] = ticket[w],
         target'[w] = target[w],
         HoldsResource(w) =>
           resource'[ticket[w]][num[w]] \in LIVE_RESOURCE_STATES
  PROVE  ClaimSound(w)'
<1>1. ClaimSound(w)
  BY ClaimsByWorker
<1>2. ticket[w] \in Tickets /\ (num[w] # 0 => num[w] \in Numbers)
  BY NumbersAreNonZero DEF TypeOK
<1>3. pc[w] \in Closing => num[w] # 0
  BY <1>1 DEF ClaimSound, Closing
<1> QED  BY <1>1, <1>2, <1>3, RowsKept DEF ClaimSound, HoldsResource

\* The claim of the worker that takes the step.
LEMMA OwnStepClaim ==
  ASSUME TypeOK, ClaimsExclusive, Next, NEW w \in Workers, WorkerStep(w)
  PROVE  ClaimSound(w)'
<1>0. ClaimSound(w)
  BY ClaimsByWorker
<1> USE DEF TypeOK
<1>1. CASE Exit(w)
  BY <1>1 DEF Exit, ClaimSound, Closing, Holding
<1>2. ASSUME NEW n \in Numbers, Claim(w, n)  PROVE  ClaimSound(w)'
  BY <1>2, NumbersAreNonZero DEF Claim, ClaimSound, Closing, Holding
<1>3. ASSUME pc[w] \notin {"idle", "started"}, num' = num, ticket' = ticket
      PROVE  /\ num[w] \in Numbers
             /\ num'[w] = num[w] /\ ticket'[w] = ticket[w]
             /\ ticket[w] \in Tickets
             /\ attempt'[ticket[w]][num[w]] # "none"
             /\ lease[ticket[w]][num[w]] = "closed" =>
                  lease'[ticket[w]][num[w]] = "closed"
  BY <1>0, <1>3, RowsKept, NumbersAreNonZero DEF ClaimSound
<1>4. CASE AllocateResources(w)
  BY <1>0, <1>3, <1>4, NumbersAreNonZero
     DEF AllocateResources, Goto, ClaimSound, Closing, Holding,
         LIVE_RESOURCE_STATES
<1>5. CASE ProvisionWorkspace(w)
  BY <1>0, <1>3, <1>5, NumbersAreNonZero
     DEF ProvisionWorkspace, Goto, ClaimSound, Closing, Holding,
         LIVE_RESOURCE_STATES
<1>6. CASE BeginImplementing(w) \/ BeginValidating(w)
  <2>1. /\ pc[w] \in {"prepared", "executing"}
        /\ pc'[w] \in {"executing", "validating"}
        /\ UNCHANGED <<num, ticket, resource>>
    BY <1>6 DEF BeginImplementing, BeginValidating, TransitionRun, Goto
  <2> QED
    BY <1>0, <1>3, <2>1, NumbersAreNonZero DEF ClaimSound, Closing, Holding
<1>7. CASE Release(w)
  <2>1. PICK o \in TerminalOutcomes(pc[w]) :
          /\ CloseAttempt(ticket[w], num[w], o[1], o[2])
          /\ pc' = [pc EXCEPT ![w] = IF o[1] \in TICKET_RETRY_FROM_STATUSES
                                       THEN "auditing" ELSE "closing"]
          /\ target' = [target EXCEPT ![w] = o[1]]
          /\ UNCHANGED <<ticket, num, resource, capacity, reapVars>>
    BY <1>7 DEF Release
  <2>2. pc[w] \in {"allocated", "prepared", "executing", "validating"}
    BY <2>1, TerminalOutcomeTypes
  <2>3. /\ num[w] \in Numbers
        /\ num'[w] = num[w] /\ ticket'[w] = ticket[w] /\ ticket[w] \in Tickets
        /\ attempt'[ticket[w]][num[w]] # "none"
    BY <1>3, <2>1, <2>2
  <2>4. lease'[ticket[w]][num[w]] = "closed"
    BY <2>1, <2>3 DEF CloseAttempt
  <2>5. resource'[ticket[w]][num[w]] \in LIVE_RESOURCE_STATES
    BY <1>0, <2>1, <2>2 DEF ClaimSound, Holding
  <2>6. /\ pc'[w] \in {"auditing", "closing"}
        /\ pc'[w] = "auditing" => target'[w] \in TICKET_RETRY_FROM_STATUSES
    BY <2>1
  <2> QED
    BY <2>3, <2>4, <2>5, <2>6, NumbersAreNonZero DEF ClaimSound
<1>8. CASE AuditWrite(w)
  BY <1>0, <1>3, <1>8, NumbersAreNonZero
     DEF AuditWrite, Goto, ClaimSound, Closing, Holding
<1>9. CASE ReleaseResources(w)
  BY <1>0, <1>3, <1>9, NumbersAreNonZero
     DEF ReleaseResources, Goto, ClaimSound, Closing, Holding
<1> QED
  BY <1>1, <1>2, <1>4, <1>5, <1>6, <1>7, <1>8, <1>9
     DEF WorkerStep, RefuseStart, FailBeforeClaim, AllocationFails, FinishWorker,
         Abandon

LEMMA StepClaims ==
  ASSUME TypeOK, ClaimsExclusive, Next
  PROVE  ClaimsExclusive'
<1> SUFFICES ASSUME NEW w \in Workers  PROVE  ClaimSound(w)'
  <2>1. \A v, w \in Workers : SameClaim(v, w)' => v = w
    BY StepClaimUnique
  <2> QED  BY <2>1 DEF ClaimsExclusive, ClaimSound, SameClaim
<1> USE DEF TypeOK
<1>0. ClaimSound(w)
  BY ClaimsByWorker
<1>1. HoldsResource(w) => /\ num[w] \in Numbers /\ ticket[w] \in Tickets
                          /\ pc[w] # "idle"
                          /\ resource[ticket[w]][num[w]] \in LIVE_RESOURCE_STATES
  BY <1>0, NumbersAreNonZero DEF ClaimSound, HoldsResource, Holding
<1>2. ASSUME NEW x \in Workers, x # w, WorkerStep(x) \/ Crash(x)
      PROVE  ClaimSound(w)'
  <2>1. pc'[w] = pc[w] /\ num'[w] = num[w] /\ ticket'[w] = ticket[w]
        /\ target'[w] = target[w]
    BY <1>2 DEF WorkerStep, RefuseStart, FailBeforeClaim, Claim,
                AllocateResources, AllocationFails, ProvisionWorkspace,
                BeginImplementing, BeginValidating, TransitionRun, Release,
                AuditWrite, ReleaseResources, FinishWorker, Abandon, Crash,
                Exit, Goto
  <2>2. \/ resource' = resource
        \/ /\ pc[x] \notin {"idle", "started"}
           /\ \E r : resource' = [resource EXCEPT ![ticket[x]][num[x]] = r]
    BY <1>2 DEF WorkerStep, RefuseStart, FailBeforeClaim, Claim,
                AllocateResources, AllocationFails, ProvisionWorkspace,
                BeginImplementing, BeginValidating, TransitionRun, Release,
                AuditWrite, ReleaseResources, FinishWorker, Abandon, Crash
  <2>3. pc[x] \notin {"idle", "started"} =>
          ~(num[x] = num[w] /\ ticket[x] = ticket[w])
    BY <1>2, ClaimsByWorker DEF ClaimSound, SameClaim
  <2>4. HoldsResource(w) =>
          resource'[ticket[w]][num[w]] \in LIVE_RESOURCE_STATES
    BY <1>1, <2>2, <2>3
  <2> QED  BY <2>1, <2>4, BystanderClaim
<1>3. CASE Crash(w)
  BY <1>3 DEF Crash, Exit, ClaimSound, Closing, Holding
<1>4. ASSUME NEW x \in Workers, NEW t \in Tickets, StartWorker(x, t)
      PROVE  ClaimSound(w)'
  <2>1. CASE x # w
    BY <1>1, <1>4, <2>1, BystanderClaim DEF StartWorker
  <2>2. CASE x = w
    BY <1>0, <1>4, <2>2 DEF StartWorker, ClaimSound, Closing, Holding
  <2> QED  BY <2>1, <2>2
<1>5. ASSUME NEW a \in Tickets \X Numbers, ReapProbe(a)  PROVE  ClaimSound(w)'
  <2>1. HoldsResource(w) /\ a = <<ticket[w], num[w]>> => PidAlive(a[1], a[2])
    BY <1>1 DEF PidAlive, WorkerAlive
  <2>2. HoldsResource(w) =>
          resource'[ticket[w]][num[w]] \in LIVE_RESOURCE_STATES
    <3>1. CASE resource' = resource
      BY <1>1, <3>1
    <3>2. CASE /\ ~PidAlive(a[1], a[2])
               /\ resource' = [resource EXCEPT ![a[1]][a[2]] = "reaped"]
      BY <1>1, <2>1, <3>2
    <3> QED  BY <1>5, <3>1, <3>2 DEF ReapProbe
  <2> QED  BY <1>5, <2>2, BystanderClaim DEF ReapProbe, workerVars
<1>6. ASSUME NEW a \in Tickets \X Numbers, ReapMark(a)  PROVE  ClaimSound(w)'
  <2>1. HoldsResource(w) =>
          resource'[ticket[w]][num[w]] \in LIVE_RESOURCE_STATES
    BY <1>1, <1>6 DEF ReapMark, LIVE_RESOURCE_STATES
  <2> QED  BY <1>6, <2>1, BystanderClaim DEF ReapMark, workerVars
<1>7. CASE UNCHANGED <<workerVars, resource>>
  BY <1>1, <1>7, BystanderClaim DEF workerVars
<1>8. ASSUME \/ \E t \in Tickets, n \in Numbers : LeaseExpires(t, n)
             \/ ExpireStaleLeases
             \/ ReapSelect \/ PidStep
             \/ \E t \in Tickets : \/ Retry(t) \/ Rework(t)
                                   \/ StopDependent(t) \/ ReleaseDependent(t)
             \/ \E c \in 1..MaxCapacity : SetCapacity(c)
      PROVE  UNCHANGED <<workerVars, resource>>
  BY <1>8 DEF LeaseExpires, ExpireStaleLeases, ReapSelect, PidStep, PidReused,
              StrangerExits, Retry, Rework,
              StopDependent, ReleaseDependent, SetCapacity, workerVars
<1> QED
  BY <1>2, <1>3, <1>4, <1>5, <1>6, <1>7, <1>8, OwnStepClaim DEF Next, ReapStep

-----------------------------------------------------------------------------
(* The Ticket of a worker that still holds resources *)

Stopped == TICKET_RETRY_FROM_STATUSES \cup {"canceled"}

\* How one step may move a Ticket.  It leaves it alone; it ends or continues a
\* run or moves a stopped Ticket to another stop; it starts from a Ticket that
\* was ready or held; or it is a retry, which found no resource in use.
TicketMoves(t) ==
  \/ status'[t] = status[t] /\ activeAttempt'[t] = activeAttempt[t]
  \/ /\ activeAttempt'[t] \in {activeAttempt[t], 0}
     /\ status'[t] \notin HeldOrReady
     /\ status'[t] \in Stopped \/ status[t] \in RUNNING_TASK_STATUSES
  \/ status[t] \in HeldOrReady
  \/ /\ status[t] \in TICKET_RETRY_FROM_STATUSES
     /\ \A n \in Numbers : resource[t][n] \notin LIVE_RESOURCE_STATES
     /\ UNCHANGED workerVars

LEMMA StepTicketMoves ==
  ASSUME TypeOK, OwnershipConsistent, ClaimsExclusive, Next, NEW t \in Tickets
  PROVE  TicketMoves(t)
<1> USE DEF TicketMoves
<1>1. CASE status'[t] = status[t] /\ activeAttempt'[t] = activeAttempt[t]
  BY <1>1
<1>2. ASSUME NEW u \in Tickets, NEW n \in Numbers, NEW ts, NEW as,
             ts \notin HeldOrReady, CloseAttempt(u, n, ts, as)
      PROVE  TicketMoves(t)
  <2>1. activeAttempt[u] = n /\ status[u] \in RUNNING_TASK_STATUSES
    BY <1>2 DEF CloseAttempt, OwnershipConsistent
  <2>2. /\ status' = [status EXCEPT ![u] = ts]
        /\ activeAttempt' = [activeAttempt EXCEPT ![u] = 0]
    BY <1>2, <2>1 DEF CloseAttempt
  <2> QED  BY <1>2, <2>1, <2>2 DEF TypeOK
<1>3. ASSUME NEW w \in Workers, WorkerStep(w)  PROVE  TicketMoves(t)
  <2>1. ticket[w] \in Tickets
    BY DEF TypeOK
  <2>2. CASE FailBeforeClaim(w)
    BY <2>1, <2>2 DEF FailBeforeClaim, HeldOrReady, TypeOK
  <2>3. ASSUME NEW n \in Numbers, Claim(w, n)  PROVE  TicketMoves(t)
    BY <2>1, <2>3 DEF Claim, HeldOrReady, TypeOK
  <2>4. CASE BeginImplementing(w) \/ BeginValidating(w)
    <3>1. /\ pc[w] \in {"prepared", "executing"}
          /\ lease[ticket[w]][num[w]] = "live"
          /\ activeAttempt' = activeAttempt
          /\ \E x \in RUNNING_TASK_STATUSES :
               status' = [status EXCEPT ![ticket[w]] =
                 IF activeAttempt[ticket[w]] = num[w] THEN x
                                                     ELSE status[ticket[w]]]
      BY <2>4 DEF BeginImplementing, BeginValidating, TransitionRun,
                  RUNNING_TASK_STATUSES
    <3>2. status[ticket[w]] \in RUNNING_TASK_STATUSES
      BY <3>1, ClaimFacts DEF ActiveLease
    <3>3. t # ticket[w] => status'[t] = status[t]
      BY <3>1 DEF TypeOK
    <3>4. t = ticket[w] => status'[t] \in RUNNING_TASK_STATUSES
      BY <3>1, <3>2 DEF TypeOK
    <3> QED
      BY <3>1, <3>2, <3>3, <3>4 DEF HeldOrReady, RUNNING_TASK_STATUSES
  <2>5. CASE AllocationFails(w)
    BY <1>2, <2>5, ClaimFacts DEF AllocationFails, HeldOrReady
  <2>6. CASE Release(w)
    <3>1. PICK o \in TerminalOutcomes(pc[w]) :
            CloseAttempt(ticket[w], num[w], o[1], o[2])
      BY <2>6 DEF Release
    <3> QED
      BY <1>2, <3>1, TerminalOutcomeTypes, ClaimFacts DEF HeldOrReady
  <2>7. CASE AuditWrite(w)
    <3>1. target[w] \in TICKET_RETRY_FROM_STATUSES
      BY <2>7 DEF AuditWrite, ClaimsExclusive
    <3> QED
      BY <2>1, <2>7, <3>1 DEF AuditWrite, Stopped, HeldOrReady, TypeOK,
                              TICKET_RETRY_FROM_STATUSES
  <2>8. CASE UNCHANGED dbVars
    BY <2>8, <1>1 DEF dbVars
  <2> QED
    BY <1>3, <2>2, <2>3, <2>4, <2>5, <2>6, <2>7, <2>8
       DEF WorkerStep, RefuseStart, AllocateResources, ProvisionWorkspace,
           ReleaseResources, FinishWorker, Abandon
<1>4. CASE ExpireStaleLeases
  BY <1>4 DEF ExpireStaleLeases, Stopped, TICKET_RETRY_FROM_STATUSES,
              HeldOrReady
<1>5. ASSUME NEW u \in Tickets, Retry(u)  PROVE  TicketMoves(t)
  BY <1>5 DEF Retry, TypeOK, workerVars
<1>6. ASSUME NEW u \in Tickets,
             Rework(u) \/ StopDependent(u) \/ ReleaseDependent(u)
      PROVE  TicketMoves(t)
  BY <1>6 DEF Rework, StopDependent, ReleaseDependent, Stopped, HeldOrReady,
              TICKET_RETRY_FROM_STATUSES, TypeOK
<1>7. ASSUME \/ \E w \in Workers, u \in Tickets : StartWorker(w, u)
             \/ \E w \in Workers : Crash(w)
             \/ \E u \in Tickets, n \in Numbers : LeaseExpires(u, n)
             \/ ReapStep
             \/ PidStep
             \/ \E c \in 1..MaxCapacity : SetCapacity(c)
      PROVE  status' = status /\ activeAttempt' = activeAttempt
  BY <1>7 DEF StartWorker, Crash, LeaseExpires, ReapStep, ReapSelect,
         PidStep, PidReused, StrangerExits, ReapProbe,
              ReapMark, SetCapacity, dbVars
<1> QED  BY <1>1, <1>3, <1>4, <1>5, <1>6, <1>7 DEF Next

LEMMA HolderFacts ==
  ASSUME TypeOK, ClaimsExclusive, NEW w \in Workers, pc[w] \in Holding
  PROVE  /\ ticket[w] \in Tickets /\ num[w] \in Numbers
         /\ resource[ticket[w]][num[w]] \in LIVE_RESOURCE_STATES
<1>1. ClaimSound(w)
  BY ClaimsByWorker
<1>2. num[w] # 0
  BY <1>1 DEF ClaimSound, Holding
<1> QED  BY <1>1, <1>2, NumbersAreNonZero DEF ClaimSound, TypeOK

\* A worker in Holding was there before the step, or this step brought it there.
LEMMA EntersHolding ==
  ASSUME TypeOK, ClaimsExclusive, Next, NEW w \in Workers, pc'[w] \in Holding
  PROVE  \/ /\ pc[w] \in Holding
            /\ num'[w] = num[w] /\ ticket'[w] = ticket[w]
            /\ pc'[w] = "auditing" => pc[w] = "auditing"
            /\ pc'[w] \in InWorktree => pc[w] \in InWorktree
         \/ BeginImplementing(w)
         \/ Release(w)
<1> USE DEF TypeOK, Holding
<1>1. ASSUME NEW x \in Workers, WorkerStep(x) \/ Crash(x), x # w
      PROVE  pc'[w] = pc[w] /\ num'[w] = num[w] /\ ticket'[w] = ticket[w]
  BY <1>1 DEF WorkerStep, RefuseStart, FailBeforeClaim, Claim,
              AllocateResources, AllocationFails, ProvisionWorkspace,
              BeginImplementing, BeginValidating, TransitionRun, Release,
              AuditWrite, ReleaseResources, FinishWorker, Abandon, Crash,
              Exit, Goto
<1>2. ASSUME WorkerStep(w) \/ Crash(w)
      PROVE  \/ BeginImplementing(w) \/ Release(w)
             \/ /\ \/ pc[w] = "executing" /\ pc'[w] = "validating"
                   \/ pc[w] = "auditing" /\ pc'[w] = "closing"
                /\ num'[w] = num[w] /\ ticket'[w] = ticket[w]
  BY <1>2 DEF WorkerStep, RefuseStart, FailBeforeClaim, Claim,
              AllocateResources, AllocationFails, ProvisionWorkspace,
              BeginValidating, TransitionRun, AuditWrite, ReleaseResources,
              FinishWorker, Abandon, Crash, Exit, Goto
<1>3. ASSUME NEW x \in Workers, NEW t \in Tickets, StartWorker(x, t)
      PROVE  pc'[w] = pc[w] /\ num'[w] = num[w] /\ ticket'[w] = ticket[w]
  BY <1>3 DEF StartWorker
<1>4. ASSUME \/ \E t \in Tickets, n \in Numbers : LeaseExpires(t, n)
             \/ ExpireStaleLeases
             \/ ReapStep
             \/ PidStep
             \/ \E t \in Tickets : \/ Retry(t) \/ Rework(t)
                                   \/ StopDependent(t) \/ ReleaseDependent(t)
             \/ \E c \in 1..MaxCapacity : SetCapacity(c)
      PROVE  UNCHANGED workerVars
  BY <1>4 DEF LeaseExpires, ExpireStaleLeases, ReapStep, ReapSelect,
         PidStep, PidReused, StrangerExits, ReapProbe,
              ReapMark, Retry, Rework, StopDependent, ReleaseDependent,
              SetCapacity, workerVars
<1> QED  BY <1>1, <1>2, <1>3, <1>4 DEF Next, workerVars, InWorktree

\* What the two steps that lead into Holding leave behind.
LEMMA HolderAtEntry ==
  ASSUME TypeOK, OwnershipConsistent, ClaimsExclusive, NEW w \in Workers,
         BeginImplementing(w) \/ Release(w)
  PROVE  /\ ticket'[w] = ticket[w] /\ num'[w] = num[w]
         /\ status'[ticket[w]] \notin HeldOrReady
         /\ activeAttempt'[ticket[w]] \in {0, num[w]}
         /\ pc'[w] = "auditing" => status'[ticket[w]] \in Stopped
<1>1. CASE BeginImplementing(w)
  <2>1. /\ pc[w] = "prepared" /\ lease[ticket[w]][num[w]] \in ActiveLease
        /\ pc'[w] = "executing"
        /\ UNCHANGED <<ticket, num, activeAttempt>>
    BY <1>1 DEF BeginImplementing, TransitionRun, Goto, ActiveLease, TypeOK
  <2>2. activeAttempt[ticket[w]] = num[w] /\ ticket[w] \in Tickets
    BY <2>1, ClaimFacts
  <2>3. status'[ticket[w]] = "implementing"
    BY <1>1, <2>2 DEF BeginImplementing, TransitionRun, TypeOK
  <2> QED  BY <2>1, <2>2, <2>3 DEF HeldOrReady
<1>2. CASE Release(w)
  <2>1. PICK o \in TerminalOutcomes(pc[w]) :
          /\ CloseAttempt(ticket[w], num[w], o[1], o[2])
          /\ pc' = [pc EXCEPT ![w] = IF o[1] \in TICKET_RETRY_FROM_STATUSES
                                       THEN "auditing" ELSE "closing"]
          /\ UNCHANGED <<ticket, num>>
    BY <1>2 DEF Release
  <2>2. /\ pc[w] \notin {"idle", "started"}
        /\ o[1] \in {"failed", "needs_decision", "ready_for_integration"}
    BY TerminalOutcomeTypes
  <2>3. activeAttempt[ticket[w]] = num[w] /\ ticket[w] \in Tickets
    BY <2>1, <2>2, ClaimFacts DEF CloseAttempt
  <2>4. status'[ticket[w]] = o[1] /\ activeAttempt'[ticket[w]] = 0
    BY <2>1, <2>3 DEF CloseAttempt, TypeOK
  <2> QED
    BY <2>1, <2>2, <2>4 DEF HeldOrReady, Stopped, TypeOK
<1> QED  BY <1>1, <1>2

LEMMA StepHolder ==
  ASSUME TypeOK, OwnershipConsistent, ClaimsExclusive, HolderKeepsTicket, Next
  PROVE  HolderKeepsTicket'
<1> SUFFICES ASSUME NEW w \in Workers, pc'[w] \in Holding
             PROVE  /\ status'[ticket'[w]] \notin HeldOrReady
                    /\ activeAttempt'[ticket'[w]] \in {0, num'[w]}
  BY DEF HolderKeepsTicket
<1>1. CASE BeginImplementing(w) \/ Release(w)
  BY <1>1, HolderAtEntry
<1>2. CASE pc[w] \in Holding /\ num'[w] = num[w] /\ ticket'[w] = ticket[w]
  <2>1. /\ ticket[w] \in Tickets /\ num[w] \in Numbers
        /\ resource[ticket[w]][num[w]] \in LIVE_RESOURCE_STATES
    BY <1>2, HolderFacts
  <2>2. TicketMoves(ticket[w])
    BY <2>1, StepTicketMoves
  <2> QED  BY <1>2, <2>1, <2>2 DEF HolderKeepsTicket, TicketMoves
<1> QED  BY <1>1, <1>2, EntersHolding

LEMMA StepAudit ==
  ASSUME TypeOK, OwnershipConsistent, ClaimsExclusive, AuditFindsStoppedTicket,
         Next
  PROVE  AuditFindsStoppedTicket'
<1> SUFFICES ASSUME NEW w \in Workers, pc'[w] = "auditing"
             PROVE  status'[ticket'[w]] \in Stopped
  BY DEF AuditFindsStoppedTicket, Stopped
<1>1. CASE BeginImplementing(w) \/ Release(w)
  BY <1>1, HolderAtEntry
<1>2. CASE pc[w] = "auditing" /\ num'[w] = num[w] /\ ticket'[w] = ticket[w]
  <2>1. /\ ticket[w] \in Tickets /\ num[w] \in Numbers
        /\ resource[ticket[w]][num[w]] \in LIVE_RESOURCE_STATES
        /\ status[ticket[w]] \in Stopped
    BY <1>2, HolderFacts DEF Holding, AuditFindsStoppedTicket, Stopped
  <2>2. TicketMoves(ticket[w])
    BY <2>1, StepTicketMoves
  <2> QED
    BY <1>2, <2>1, <2>2 DEF TicketMoves, Stopped, HeldOrReady,
       TICKET_RETRY_FROM_STATUSES, RUNNING_TASK_STATUSES
<1> QED  BY <1>1, <1>2, EntersHolding DEF Holding

LEMMA StepWorktree ==
  ASSUME TypeOK, OwnershipConsistent, ClaimsExclusive, HolderKeepsTicket,
         WorktreeExclusive, Next
  PROVE  WorktreeExclusive'
<1> SUFFICES ASSUME NEW v \in Workers, NEW w \in Workers,
                    pc'[v] \in InWorktree, pc'[w] \in InWorktree,
                    ticket'[v] = ticket'[w], v # w
             PROVE  FALSE
  BY DEF WorktreeExclusive
<1>1. ASSUME NEW x \in Workers, NEW y \in Workers, x # y,
             BeginImplementing(x), pc[y] \in Holding,
             ticket'[x] = ticket'[y], ticket'[y] = ticket[y]
      PROVE  FALSE
  <2>1. /\ pc[x] = "prepared" /\ lease[ticket[x]][num[x]] \in ActiveLease
        /\ ticket' = ticket
    BY <1>1 DEF BeginImplementing, TransitionRun, Goto, ActiveLease
  <2>2. activeAttempt[ticket[x]] = num[x] /\ num[x] \in Numbers
    BY <2>1, ClaimFacts
  <2>3. activeAttempt[ticket[x]] \in {0, num[y]}
    BY <1>1, <2>1 DEF HolderKeepsTicket
  <2>4. num[x] = num[y] /\ num[x] # 0
    BY <2>2, <2>3, NumbersAreNonZero
  <2> QED  BY <1>1, <2>1, <2>4, ClaimsByWorker DEF SameClaim
<1>2. ASSUME NEW x \in Workers, pc'[x] \in InWorktree
      PROVE  \/ BeginImplementing(x)
             \/ /\ pc[x] \in Holding /\ pc[x] \in InWorktree
                /\ ticket'[x] = ticket[x]
  <2>1. ~Release(x)
    BY <1>2 DEF Release, InWorktree, TypeOK
  <2>2. pc'[x] \in Holding
    BY <1>2 DEF Holding, InWorktree
  <2> QED  BY <1>2, <2>1, <2>2, EntersHolding
<1>3. ~(BeginImplementing(v) /\ BeginImplementing(w))
  BY DEF BeginImplementing, TransitionRun, Goto, TypeOK
<1> QED  BY <1>1, <1>2, <1>3 DEF WorktreeExclusive

-----------------------------------------------------------------------------
(* The inductive invariant *)

LEMMA InitInv == Init => Inv
<1> SUFFICES ASSUME Init PROVE Inv
  OBVIOUS
<1>1. TypeOK
  BY InitTypeOK
<1>2. OwnershipConsistent
  BY NumbersAreNonZero
     DEF Init, OwnershipConsistent, ActiveLease, RUNNING_TASK_STATUSES
<1>3. ClaimsExclusive
  BY DEF Init, ClaimsExclusive, Holding, Closing
<1>4. HolderKeepsTicket /\ AuditFindsStoppedTicket /\ WorktreeExclusive
  BY DEF Init, HolderKeepsTicket, AuditFindsStoppedTicket, WorktreeExclusive,
         Holding, InWorktree
<1> QED  BY <1>1, <1>2, <1>3, <1>4 DEF Inv

LEMMA StutterInv == Inv /\ UNCHANGED vars => Inv'
BY DEF Inv, vars, TypeOK, OwnershipConsistent, ClaimsExclusive,
       HolderKeepsTicket, AuditFindsStoppedTicket, WorktreeExclusive,
       ActiveLeases

LEMMA StepInv == Inv /\ Next => Inv'
BY StepTypeOK, StepOwnership, StepClaims, StepHolder, StepAudit, StepWorktree
   DEF Inv

\* Inv holds in every reachable state.
THEOREM InvHolds == Spec => []Inv
<1>1. Inv /\ [Next]_vars => Inv'
  BY StutterInv, StepInv
<1> QED  BY InitInv, <1>1, PTL DEF Spec

\* Every table and every worker's memory keeps its declared range.
THEOREM TypeCorrect == Spec => []TypeOK
BY InvHolds, PTL DEF Inv

\* claim, release, the reaper and the audit write keep tasks, attempts and
\* runtime_leases in agreement, for any number of Tickets, workers and Attempts.
THEOREM OwnershipAlwaysConsistent == Spec => []OwnershipConsistent
BY InvHolds, PTL DEF Inv

\* No two live worker processes run in one Ticket's worktree.
THEOREM WorktreeAlwaysExclusive == Spec => []WorktreeExclusive
BY InvHolds, PTL DEF Inv

\* Until a worker has let go of its resources nobody else can run its Ticket.
THEOREM HolderAlwaysKeepsTicket == Spec => []HolderKeepsTicket
BY InvHolds, PTL DEF Inv

\* The unconditional audit write of _release never overwrites a Ticket that was
\* retried or picked up again.
THEOREM AuditAlwaysFindsStoppedTicket == Spec => []AuditFindsStoppedTicket
BY InvHolds, PTL DEF Inv

\* The three together: a worker in the worktree is undisturbed by the reaper,
\* retry, rework, redirects and other workers, lease or no lease.
THEOREM HolderIsUndisturbed == Spec => []HolderUndisturbed
BY WorktreeAlwaysExclusive, HolderAlwaysKeepsTicket,
   AuditAlwaysFindsStoppedTicket, PTL DEF HolderUndisturbed

-----------------------------------------------------------------------------
(* Action properties *)

LEMMA StepOutcomeFinal ==
  ASSUME Inv, Next, NEW t \in Tickets, NEW n \in Numbers,
         attempt[t][n] \in TerminalAttemptStatuses
  PROVE  attempt'[t][n] = attempt[t][n]
<1>0. TypeOK /\ OwnershipConsistent /\ ClaimsExclusive
  BY DEF Inv
<1>1. /\ attempt[t][n] # "none"
      /\ attempt[t][n] \notin RUNNING_TASK_STATUSES
  BY DEF TerminalAttemptStatuses, RUNNING_TASK_STATUSES
<1>2. lease[t][n] \notin ActiveLease
  BY <1>0, <1>1 DEF OwnershipConsistent
<1>3. ASSUME NEW w \in Workers, NEW m \in Numbers, Claim(w, m)
      PROVE  attempt'[t][n] = attempt[t][n]
  <2>1. attempt[ticket[w]][m] = "none"
    BY <1>3 DEF Claim, IsNextNumber, Numbers
  <2> QED  BY <1>0, <1>1, <1>3, <2>1 DEF Claim, TypeOK
<1>4. ASSUME NEW u \in Tickets, NEW m \in Numbers, NEW ts, NEW as,
             CloseAttempt(u, m, ts, as)
      PROVE  attempt'[t][n] = attempt[t][n]
  BY <1>0, <1>2, <1>4 DEF CloseAttempt, TypeOK
<1>5. ASSUME NEW w \in Workers, BeginImplementing(w) \/ BeginValidating(w)
      PROVE  attempt'[t][n] = attempt[t][n]
  <2>1. PICK from, to, a : TransitionRun(w, from, to, a)
    BY <1>5 DEF BeginImplementing, BeginValidating
  <2>2. lease[ticket[w]][num[w]] \in ActiveLease
    BY <2>1 DEF TransitionRun, ActiveLease
  <2>3. attempt' = [attempt EXCEPT ![ticket[w]][num[w]] = a]
    BY <2>1 DEF TransitionRun
  <2> QED  BY <1>0, <1>2, <2>2, <2>3 DEF TypeOK
<1>6. CASE ExpireStaleLeases
  BY <1>1, <1>6 DEF ExpireStaleLeases
<1>7. ASSUME NEW w \in Workers, WorkerStep(w)
      PROVE  attempt'[t][n] = attempt[t][n]
  <2>1. CASE Release(w)
    <3>1. PICK o \in TerminalOutcomes(pc[w]) :
            CloseAttempt(ticket[w], num[w], o[1], o[2])
      BY <2>1 DEF Release
    <3>2. ticket[w] \in Tickets /\ num[w] \in Numbers
      BY <1>0, TerminalOutcomeTypes, ClaimFacts
    <3> QED  BY <1>4, <3>1, <3>2
  <2>2. CASE AllocationFails(w)
    BY <1>0, <1>4, <2>2, ClaimFacts DEF AllocationFails
  <2>3. CASE UNCHANGED attempt
    BY <2>3
  <2> QED
    BY <1>3, <1>5, <1>7, <2>1, <2>2, <2>3
       DEF WorkerStep, RefuseStart, FailBeforeClaim, AllocateResources,
           ProvisionWorkspace, AuditWrite, ReleaseResources, FinishWorker,
           Abandon, dbVars
<1>8. ASSUME \/ \E w \in Workers, u \in Tickets : StartWorker(w, u)
             \/ \E w \in Workers : Crash(w)
             \/ \E u \in Tickets, m \in Numbers : LeaseExpires(u, m)
             \/ ReapStep
             \/ PidStep
             \/ \E u \in Tickets : \/ Retry(u) \/ Rework(u)
                                   \/ StopDependent(u) \/ ReleaseDependent(u)
             \/ \E c \in 1..MaxCapacity : SetCapacity(c)
      PROVE  attempt' = attempt
  BY <1>8 DEF StartWorker, Crash, LeaseExpires, ReapStep, ReapSelect,
         PidStep, PidReused, StrangerExits, ReapProbe,
              ReapMark, Retry, Rework, StopDependent, ReleaseDependent,
              SetCapacity, dbVars
<1> QED  BY <1>6, <1>7, <1>8 DEF Next

\* The outcome of a finished Attempt is never rewritten, by a late worker or by
\* the reaper.
THEOREM OutcomeIsFinal == Spec => AttemptOutcomeFinal
<1>1. Inv /\ [Next]_vars =>
        [\A t \in Tickets, n \in Numbers :
           attempt[t][n] \in TerminalAttemptStatuses =>
             attempt'[t][n] = attempt[t][n]]_vars
  BY StepOutcomeFinal
<1> QED  BY InvHolds, <1>1, PTL DEF Spec, AttemptOutcomeFinal

\* The set of active leases is finite, so that its size means something.
LEMMA ActiveLeasesFinite == IsFiniteSet(ActiveLeases)
<1>1. IsFiniteSet(Numbers)
  <2>1. 1 \in Int /\ MaxAttempts \in Int
    BY AttemptsAssumption
  <2> QED  BY <2>1, FS_Interval DEF Numbers
<1>2. IsFiniteSet(Tickets \X Numbers)
  BY <1>1, TicketsAssumption, FS_Product
<1> QED  BY <1>2, FS_Subset DEF ActiveLeases

\* Only a claim adds a lease, and it adds one, below the limit.
LEMMA StepCapacity ==
  ASSUME Inv, Next
  PROVE  \/ ActiveLeases' \subseteq ActiveLeases
         \/ Cardinality(ActiveLeases') <= capacity
<1>0. TypeOK
  BY DEF Inv
<1>1. ASSUME NEW w \in Workers, NEW n \in Numbers, Claim(w, n)
      PROVE  Cardinality(ActiveLeases') <= capacity
  <2>1. ActiveLeases' = ActiveLeases \cup {<<ticket[w], n>>}
    BY <1>0, <1>1 DEF Claim, TypeOK, ActiveLeases, ActiveLease
  <2>2. Cardinality(ActiveLeases) \in Nat
    BY ActiveLeasesFinite, FS_CardinalityType
  <2>3. Cardinality(ActiveLeases') \in
          {Cardinality(ActiveLeases), Cardinality(ActiveLeases) + 1}
    BY <2>1, ActiveLeasesFinite, FS_AddElement
  <2>4. Cardinality(ActiveLeases) < capacity /\ capacity \in Nat
    BY <1>0, <1>1, CapacityAssumption DEF Claim, TypeOK
  <2> QED  BY <2>2, <2>3, <2>4
<1>2. CASE \A a \in Tickets \X Numbers :
             lease'[a[1]][a[2]] \in ActiveLease =>
               lease[a[1]][a[2]] \in ActiveLease
  BY <1>2 DEF ActiveLeases
<1>3. ASSUME NEW t, NEW n, NEW ts, NEW as, CloseAttempt(t, n, ts, as)
      PROVE  ActiveLeases' \subseteq ActiveLeases
  BY <1>0, <1>3 DEF CloseAttempt, TypeOK, ActiveLease, ActiveLeases
<1>4. ASSUME NEW t \in Tickets, NEW n \in Numbers, LeaseExpires(t, n)
      PROVE  ActiveLeases' \subseteq ActiveLeases
  BY <1>0, <1>4 DEF LeaseExpires, TypeOK, ActiveLease, ActiveLeases
<1>5. CASE ExpireStaleLeases
  BY <1>5 DEF ExpireStaleLeases, ActiveLease, ActiveLeases
<1>6. CASE lease' = lease
  BY <1>2, <1>6
<1>7. ASSUME NEW w \in Workers, WorkerStep(w)
      PROVE  \/ \E n \in Numbers : Claim(w, n)
             \/ \E t, n, ts, as : CloseAttempt(t, n, ts, as)
             \/ lease' = lease
  BY <1>7 DEF WorkerStep, RefuseStart, FailBeforeClaim, AllocateResources,
              AllocationFails, ProvisionWorkspace, BeginImplementing,
              BeginValidating, TransitionRun, Release, AuditWrite,
              ReleaseResources, FinishWorker, Abandon, dbVars
<1>8. ASSUME \/ \E w \in Workers, u \in Tickets : StartWorker(w, u)
             \/ \E w \in Workers : Crash(w)
             \/ ReapStep
             \/ PidStep
             \/ \E u \in Tickets : \/ Retry(u) \/ Rework(u)
                                   \/ StopDependent(u) \/ ReleaseDependent(u)
             \/ \E c \in 1..MaxCapacity : SetCapacity(c)
      PROVE  lease' = lease
  BY <1>8 DEF StartWorker, Crash, ReapStep, ReapSelect,
         PidStep, PidReused, StrangerExits, ReapProbe, ReapMark,
              Retry, Rework, StopDependent, ReleaseDependent, SetCapacity, dbVars
<1> QED  BY <1>1, <1>3, <1>4, <1>5, <1>6, <1>7, <1>8 DEF Next

\* A claim never takes the number of active leases above the capacity in force.
THEOREM CapacityIsRespected == Spec => CapacityRespected
<1>1. Inv /\ [Next]_vars =>
        [ActiveLeases' \subseteq ActiveLeases
         \/ Cardinality(ActiveLeases') <= capacity]_vars
  BY StepCapacity
<1> QED  BY InvHolds, <1>1, PTL DEF Spec, CapacityRespected

LEMMA StepRunningTicket ==
  ASSUME Inv, Next, NEW t \in Tickets,
         status[t] \in RUNNING_TASK_STATUSES, status'[t] # status[t]
  PROVE  LET n == activeAttempt[t] IN
         \/ activeAttempt'[t] = n /\ status'[t] = attempt'[t][n]
         \/ activeAttempt'[t] = 0 /\ attempt'[t][n] \in TerminalAttemptStatuses
<1> DEFINE n == activeAttempt[t]
<1>0. TypeOK /\ OwnershipConsistent /\ ClaimsExclusive
  BY DEF Inv
<1>1. n \in Numbers /\ attempt[t][n] = status[t]
  BY <1>0, NumbersAreNonZero DEF TypeOK, OwnershipConsistent
<1>2. OwnershipConsistent' /\ TypeOK'
  BY StepInv DEF Inv
<1>3. activeAttempt'[t] \in {n, 0}
  <2>1. TicketMoves(t)
    BY <1>0, StepTicketMoves
  <2> QED
    BY <2>1 DEF TicketMoves, HeldOrReady, RUNNING_TASK_STATUSES,
                TICKET_RETRY_FROM_STATUSES
<1>4. CASE activeAttempt'[t] = n
  BY <1>1, <1>2, <1>4 DEF OwnershipConsistent
<1>5. CASE activeAttempt'[t] = 0
  <2>1. attempt'[t][n] \notin RUNNING_TASK_STATUSES
    BY <1>1, <1>2, <1>5, NumbersAreNonZero DEF OwnershipConsistent
  <2>2. attempt'[t][n] # "none"
    BY <1>0, <1>1, RowsKept DEF RUNNING_TASK_STATUSES
  <2>3. attempt'[t][n] \in AttemptStatuses
    BY <1>1, <1>2 DEF TypeOK
  <2> QED  BY <1>5, <2>1, <2>2, <2>3 DEF AttemptStatuses
<1> QED  BY <1>3, <1>4, <1>5

\* A running Ticket is moved only by the Attempt that owns it.
THEOREM RunningTicketIsOwned == Spec => RunningTicketMovedByOwnAttempt
<1>1. Inv /\ [Next]_vars =>
        [\A t \in Tickets :
           status[t] \in RUNNING_TASK_STATUSES /\ status'[t] # status[t] =>
             LET n == activeAttempt[t] IN
             \/ activeAttempt'[t] = n /\ status'[t] = attempt'[t][n]
             \/ activeAttempt'[t] = 0
                /\ attempt'[t][n] \in TerminalAttemptStatuses]_vars
  BY StepRunningTicket
<1> QED  BY InvHolds, <1>1, PTL DEF Spec, RunningTicketMovedByOwnAttempt

-----------------------------------------------------------------------------
(* The runtime implements TicketRuns *)

LEMMA InitRuns == Init => Runs!Init
BY DEF Init, Runs!Init, PhaseOf, RunOf, RUNNING_TASK_STATUSES

\* A step that moves no Attempt and leaves every Ticket in its phase, or takes
\* one Ticket from ready to stopped or back.
LEMMA StatusStepRuns ==
  ASSUME TypeOK, attempt' = attempt, NEW t \in Tickets, NEW s,
         status' = [status EXCEPT ![t] = s],
         \/ PhaseOf(s) = PhaseOf(status[t])
         \/ PhaseOf(status[t]) = "ready" /\ PhaseOf(s) = "stopped"
         \/ PhaseOf(status[t]) = "stopped" /\ PhaseOf(s) = "ready"
  PROVE  [Runs!Next]_(Runs!vars)
<1> DEFINE P == [u \in Tickets |-> PhaseOf(status[u])]
           R == [u \in Tickets |-> [n \in Numbers |-> RunOf(attempt[u][n])]]
<1>1. R' = R
  OBVIOUS
<1>2. P' = [P EXCEPT ![t] = PhaseOf(s)]
  BY DEF TypeOK
<1>3. P[t] = PhaseOf(status[t])
  OBVIOUS
<1>4. CASE PhaseOf(s) = PhaseOf(status[t])
  <2>1. P' = P
    BY <1>2, <1>3, <1>4
  <2> QED  BY <1>1, <2>1 DEF Runs!vars
<1>5. CASE PhaseOf(status[t]) = "ready" /\ PhaseOf(s) = "stopped"
  <2>1. Runs!Stop(t)
    BY <1>1, <1>2, <1>3, <1>5 DEF Runs!Stop
  <2> QED  BY <2>1 DEF Runs!Next
<1>6. CASE PhaseOf(status[t]) = "stopped" /\ PhaseOf(s) = "ready"
  <2>1. Runs!Return(t)
    BY <1>1, <1>2, <1>3, <1>6 DEF Runs!Return
  <2> QED  BY <2>1 DEF Runs!Next
<1> QED  BY <1>4, <1>5, <1>6

LEMMA ClaimRuns ==
  ASSUME TypeOK, NEW w \in Workers, NEW n \in Numbers, Claim(w, n)
  PROVE  Runs!Next
<1> DEFINE P == [u \in Tickets |-> PhaseOf(status[u])]
           R == [u \in Tickets |-> [m \in Numbers |-> RunOf(attempt[u][m])]]
           t == ticket[w]
<1>0. t \in Tickets
  BY DEF TypeOK
<1>1. P' = [P EXCEPT ![t] = "running"]
  BY <1>0 DEF TypeOK, Claim, PhaseOf, RUNNING_TASK_STATUSES
<1>2. R' = [R EXCEPT ![t][n] = "open"]
  BY <1>0 DEF TypeOK, Claim, RunOf, RUNNING_TASK_STATUSES
<1>3. P[t] = "ready"
  BY <1>0 DEF Claim, PhaseOf, RUNNING_TASK_STATUSES
<1>4. ASSUME NEW m \in Numbers
      PROVE  R[t][m] # "open" /\ (R[t][m] # "none" <=> m < n)
  <2>1. attempt[t][m] \in AttemptStatuses \ RUNNING_TASK_STATUSES
    BY <1>0 DEF Claim, TypeOK
  <2>2. R[t][m] = attempt[t][m] /\ attempt[t][m] # "open"
    BY <1>0, <2>1 DEF RunOf, AttemptStatuses, TerminalAttemptStatuses
  <2> QED  BY <2>2 DEF Claim, IsNextNumber
<1>5. Runs!Begin(t, n)
  BY <1>1, <1>2, <1>3, <1>4 DEF Runs!Begin
<1> QED  BY <1>0, <1>5 DEF Runs!Next

\* The release of an owned Attempt ends its run and stops its Ticket at once.
LEMMA CloseRuns ==
  ASSUME TypeOK, OwnershipConsistent, NEW t \in Tickets, NEW n \in Numbers,
         NEW ts, NEW as \in TerminalAttemptStatuses,
         CloseAttempt(t, n, ts, as), PhaseOf(ts) = "stopped"
  PROVE  Runs!Next
<1> DEFINE P == [u \in Tickets |-> PhaseOf(status[u])]
           R == [u \in Tickets |-> [m \in Numbers |-> RunOf(attempt[u][m])]]
           out == [u \in {t} |-> as]
<1>1. activeAttempt[t] = n /\ attempt[t][n] \in RUNNING_TASK_STATUSES
        /\ status[t] = attempt[t][n]
  BY DEF CloseAttempt, OwnershipConsistent
<1>2. P[t] = "running" /\ R[t][n] = "open"
  BY <1>1 DEF PhaseOf, RunOf
<1>3. P' = [u \in Tickets |-> IF u \in {t} THEN "stopped" ELSE P[u]]
  BY <1>1 DEF CloseAttempt, TypeOK
<1>4. ASSUME NEW u \in Tickets, NEW m \in Numbers
      PROVE  R'[u][m] = IF u \in {t} /\ R[u][m] = "open" THEN out[u]
                                                         ELSE R[u][m]
  <2>1. RunOf(as) = as
    BY DEF RunOf, TerminalAttemptStatuses, RUNNING_TASK_STATUSES
  <2>2. CASE u = t /\ m = n
    BY <1>2, <2>1, <2>2 DEF CloseAttempt, TypeOK
  <2>3. CASE u = t /\ m # n
    <3>1. attempt[u][m] \notin RUNNING_TASK_STATUSES
      BY <1>1, <2>3 DEF OwnershipConsistent
    <3>2. attempt[u][m] # "open"
      BY <2>3 DEF TypeOK, AttemptStatuses, RUNNING_TASK_STATUSES,
                  TerminalAttemptStatuses
    <3>3. attempt'[u][m] = attempt[u][m]
      BY <2>3 DEF CloseAttempt, TypeOK
    <3> QED  BY <3>1, <3>2, <3>3 DEF RunOf
  <2>4. CASE u # t
    BY <2>4 DEF CloseAttempt, TypeOK
  <2> QED  BY <2>2, <2>3, <2>4
<1>5. R' = [u \in Tickets |-> [m \in Numbers |->
              IF u \in {t} /\ R[u][m] = "open" THEN out[u] ELSE R[u][m]]]
  BY <1>4
<1>6. Runs!End({t}, out)
  BY <1>2, <1>3, <1>5 DEF Runs!End
<1>7. {t} \in SUBSET Tickets /\ out \in [{t} -> TerminalAttemptStatuses]
  OBVIOUS
<1> QED  BY <1>6, <1>7 DEF Runs!Next

\* The reaper ends the runs of all expired leases at once.
LEMMA ExpiryRuns ==
  ASSUME TypeOK, OwnershipConsistent, ExpireStaleLeases
  PROVE  Runs!Next
<1> DEFINE P == [u \in Tickets |-> PhaseOf(status[u])]
           R == [u \in Tickets |-> [m \in Numbers |-> RunOf(attempt[u][m])]]
           S == {u \in Tickets : \E m \in Numbers : lease[u][m] = "expired"}
           out == [u \in S |-> "execution_aborted"]
<1>1. ASSUME NEW u \in Tickets, NEW m \in Numbers, lease[u][m] = "expired"
      PROVE  /\ activeAttempt[u] = m
             /\ attempt[u][m] \in RUNNING_TASK_STATUSES
             /\ status[u] = attempt[u][m]
  BY <1>1 DEF OwnershipConsistent, ActiveLease
<1>2. ASSUME NEW u \in S
      PROVE  P[u] = "running" /\ \E m \in Numbers : R[u][m] = "open"
  BY <1>1 DEF PhaseOf, RunOf
<1>3. P' = [u \in Tickets |-> IF u \in S THEN "stopped" ELSE P[u]]
  <2>1. ASSUME NEW u \in Tickets
        PROVE  PhaseOf(status'[u]) = IF u \in S THEN "stopped"
                                                ELSE PhaseOf(status[u])
    <3>1. CASE u \in S
      <4>1. status'[u] = "failed"
        BY <1>1, <3>1 DEF ExpireStaleLeases
      <4> QED  BY <3>1, <4>1 DEF PhaseOf, RUNNING_TASK_STATUSES
    <3>2. CASE u \notin S
      BY <3>2 DEF ExpireStaleLeases
    <3> QED  BY <3>1, <3>2
  <2> QED  BY <2>1
<1>4. ASSUME NEW u \in Tickets, NEW m \in Numbers
      PROVE  R'[u][m] = IF u \in S /\ R[u][m] = "open" THEN out[u]
                                                       ELSE R[u][m]
  <2>1. attempt'[u][m] =
          IF lease[u][m] = "expired" THEN "execution_aborted"
                                     ELSE attempt[u][m]
    BY <1>1 DEF ExpireStaleLeases
  <2>2. CASE lease[u][m] = "expired"
    BY <1>1, <2>1, <2>2 DEF RunOf, RUNNING_TASK_STATUSES
  <2>3. CASE lease[u][m] # "expired"
    <3>1. u \in S => R[u][m] # "open"
      <4>1. CASE attempt[u][m] \in RUNNING_TASK_STATUSES
        BY <1>1, <2>3, <4>1 DEF OwnershipConsistent
      <4>2. CASE attempt[u][m] \notin RUNNING_TASK_STATUSES
        <5>1. attempt[u][m] \in AttemptStatuses /\ R[u][m] = attempt[u][m]
          BY <4>2 DEF RunOf, TypeOK
        <5> QED
          BY <4>2, <5>1 DEF AttemptStatuses, TerminalAttemptStatuses
      <4> QED  BY <4>1, <4>2
    <3> QED  BY <2>1, <2>3, <3>1
  <2> QED  BY <2>2, <2>3
<1>5. R' = [u \in Tickets |-> [m \in Numbers |->
              IF u \in S /\ R[u][m] = "open" THEN out[u] ELSE R[u][m]]]
  BY <1>4
<1>6. S # {}
  BY DEF ExpireStaleLeases
<1>7. Runs!End(S, out)
  BY <1>2, <1>3, <1>5, <1>6 DEF Runs!End
<1>8. S \in SUBSET Tickets /\ out \in [S -> TerminalAttemptStatuses]
  BY DEF TerminalAttemptStatuses
<1> QED  BY <1>7, <1>8 DEF Runs!Next

\* A run's own transition keeps its Ticket running and its run open.
LEMMA TransitionRuns ==
  ASSUME TypeOK, OwnershipConsistent, ClaimsExclusive, NEW w \in Workers,
         BeginImplementing(w) \/ BeginValidating(w)
  PROVE  UNCHANGED Runs!vars
<1> DEFINE t == ticket[w]
           n == num[w]
<1>1. PICK a \in RUNNING_TASK_STATUSES :
        \E from \in Claimed : \E to : TransitionRun(w, from, to, a)
  BY DEF BeginImplementing, BeginValidating, RUNNING_TASK_STATUSES, Claimed
<1>2. t \in Tickets /\ n \in Numbers
  BY <1>1, ClaimFacts DEF TransitionRun, Claimed
<1>3. activeAttempt[t] = n /\ attempt[t][n] \in RUNNING_TASK_STATUSES
        /\ status[t] = attempt[t][n]
  BY <1>1, <1>2 DEF TransitionRun, OwnershipConsistent, ActiveLease
<1>4. ASSUME NEW u \in Tickets
      PROVE  PhaseOf(status'[u]) = PhaseOf(status[u])
  BY <1>1, <1>2, <1>3 DEF TransitionRun, TypeOK, PhaseOf
<1>5. ASSUME NEW u \in Tickets, NEW m \in Numbers
      PROVE  RunOf(attempt'[u][m]) = RunOf(attempt[u][m])
  BY <1>1, <1>2, <1>3 DEF TransitionRun, TypeOK, RunOf
<1> QED  BY <1>4, <1>5 DEF Runs!vars

LEMMA QuietRuns ==
  ASSUME status' = status, attempt' = attempt
  PROVE  UNCHANGED Runs!vars
BY DEF Runs!vars

LEMMA WorkerStepRuns ==
  ASSUME Inv, NEW w \in Workers, WorkerStep(w)
  PROVE  [Runs!Next]_(Runs!vars)
<1>0. TypeOK /\ OwnershipConsistent /\ ClaimsExclusive
        /\ AuditFindsStoppedTicket /\ ticket[w] \in Tickets
  BY DEF Inv, TypeOK
<1> USE DEF PhaseOf, RUNNING_TASK_STATUSES
<1>1. CASE FailBeforeClaim(w)
  BY <1>0, <1>1, StatusStepRuns DEF FailBeforeClaim
<1>2. CASE \E n \in Numbers : Claim(w, n)
  BY <1>0, <1>2, ClaimRuns
<1>3. CASE AllocationFails(w)
  <2>1. num[w] \in Numbers
    BY <1>0, <1>3, ClaimFacts DEF AllocationFails
  <2>2. CloseAttempt(ticket[w], num[w], "failed", "execution_aborted")
    BY <1>3 DEF AllocationFails
  <2> QED  BY <1>0, <2>1, <2>2, CloseRuns DEF TerminalAttemptStatuses
<1>4. CASE BeginImplementing(w) \/ BeginValidating(w)
  BY <1>0, <1>4, TransitionRuns
<1>5. CASE Release(w)
  <2>1. PICK o \in TerminalOutcomes(pc[w]) :
          CloseAttempt(ticket[w], num[w], o[1], o[2])
    BY <1>5 DEF Release
  <2>2. num[w] \in Numbers
    BY <1>0, TerminalOutcomeTypes, ClaimFacts
  <2>3. o[2] \in TerminalAttemptStatuses /\ PhaseOf(o[1]) = "stopped"
    BY TerminalOutcomeTypes
  <2> QED  BY <1>0, <2>1, <2>2, <2>3, CloseRuns
<1>6. CASE AuditWrite(w)
  <2>1. target[w] \in TICKET_RETRY_FROM_STATUSES
        /\ status[ticket[w]] \in TICKET_RETRY_FROM_STATUSES \cup {"canceled"}
    BY <1>0, <1>6 DEF AuditWrite, ClaimsExclusive, AuditFindsStoppedTicket
  <2>2. PhaseOf(target[w]) = PhaseOf(status[ticket[w]])
    BY <2>1 DEF TICKET_RETRY_FROM_STATUSES
  <2> QED  BY <1>0, <1>6, <2>2, StatusStepRuns DEF AuditWrite
<1>7. CASE status' = status /\ attempt' = attempt
  BY <1>7, QuietRuns
<1> QED
  BY <1>1, <1>2, <1>3, <1>4, <1>5, <1>6, <1>7
     DEF WorkerStep, RefuseStart, AllocateResources, ProvisionWorkspace,
         ReleaseResources, FinishWorker, Abandon, dbVars

LEMMA StepRuns ==
  ASSUME Inv, [Next]_vars
  PROVE  [Runs!Next]_(Runs!vars)
<1>0. TypeOK /\ OwnershipConsistent
  BY DEF Inv
<1>1. ASSUME NEW w \in Workers, WorkerStep(w)  PROVE  [Runs!Next]_(Runs!vars)
  BY <1>1, WorkerStepRuns
<1>2. CASE ExpireStaleLeases
  BY <1>0, <1>2, ExpiryRuns
<1>3. ASSUME NEW t \in Tickets,
             Retry(t) \/ Rework(t) \/ StopDependent(t) \/ ReleaseDependent(t)
      PROVE  [Runs!Next]_(Runs!vars)
  <2>1. PICK s : /\ status' = [status EXCEPT ![t] = s]
                 /\ \/ /\ s \in {"held", "needs_decision", "canceled"}
                       /\ status[t] \notin RUNNING_TASK_STATUSES
                    \/ /\ s = "created"
                       /\ status[t] \notin RUNNING_TASK_STATUSES \cup {"created"}
    BY <1>3 DEF Retry, Rework, StopDependent, ReleaseDependent,
                TICKET_RETRY_FROM_STATUSES, RUNNING_TASK_STATUSES
  <2>2. \/ PhaseOf(s) = PhaseOf(status[t])
        \/ PhaseOf(status[t]) = "ready" /\ PhaseOf(s) = "stopped"
        \/ PhaseOf(status[t]) = "stopped" /\ PhaseOf(s) = "ready"
    BY <2>1 DEF PhaseOf, RUNNING_TASK_STATUSES
  <2>3. attempt' = attempt
    BY <1>3 DEF Retry, Rework, StopDependent, ReleaseDependent
  <2> QED  BY <1>0, <2>1, <2>2, <2>3, StatusStepRuns
<1>4. ASSUME \/ \E w \in Workers, u \in Tickets : StartWorker(w, u)
             \/ \E w \in Workers : Crash(w)
             \/ \E u \in Tickets, m \in Numbers : LeaseExpires(u, m)
             \/ ReapStep
             \/ PidStep
             \/ \E c \in 1..MaxCapacity : SetCapacity(c)
             \/ UNCHANGED vars
      PROVE  [Runs!Next]_(Runs!vars)
  <2>1. status' = status /\ attempt' = attempt
    BY <1>4 DEF StartWorker, Crash, LeaseExpires, ReapStep, ReapSelect,
         PidStep, PidReused, StrangerExits,
                ReapProbe, ReapMark, SetCapacity, dbVars, vars
  <2> QED  BY <2>1, QuietRuns
<1> QED  BY <1>1, <1>2, <1>3, <1>4 DEF Next

\* The runtime, with its leases, workers, reaper and operators, implements the
\* specification of a Ticket's runs.
THEOREM RuntimeImplementsTicketRuns == Spec => ImplementsTicketRuns
<1>1. Inv /\ [Next]_vars => [Runs!Next]_(Runs!vars)
  BY StepRuns
<1> QED
  BY InvHolds, InitRuns, <1>1, PTL DEF Spec, ImplementsTicketRuns, Runs!Spec
=============================================================================
