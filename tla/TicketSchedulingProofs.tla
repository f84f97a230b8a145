----------------------- MODULE TicketSchedulingProofs -----------------------
(***************************************************************************)
(* Proofs about TicketScheduling for any number of Tickets and workers,    *)
(* any queue order, capacity and retry budget.                             *)
(***************************************************************************)
EXTENDS TicketScheduling, TLAPS

USE DEF leftVars, NoProcessLeft

\* A Ticket that has no row has no blocker and blocks nothing.
BlockersExist ==
  \A t \in Tickets :
    /\ status[t] = "absent" => blockedBy[t] = NoTicket
    /\ blockedBy[t] # NoTicket => status[blockedBy[t]] # "absent"

\* What a dependency edit may make ready never waited for a retry.
OwnedIsWaiting == \A t \in awaitsRetry : ~DependencyOwned(t)

\* A lease belongs to one running Ticket, and every live worker has one.
LeasesAreRunning ==
  /\ \A w \in Workers : wpc[w] \notin {"idle", "full"} => wticket[w] \in Tickets
  /\ \A w \in Leases : status[wticket[w]] = "running"
  /\ \A v, w \in Leases : wticket[v] = wticket[w] => v = w

\* Where the tick has a Ticket or a worker in hand, it is one; only a read of a
\* failure can go stale, and one that did not is still as it was read.
TickHolds ==
  /\ tick \in {"autoRetry", "prepare", "await"} => cur \in Tickets
  /\ tick = "await" => mine \in Workers
  /\ changed => tick = "autoRetry"
  /\ tick = "autoRetry" /\ ~changed =>
       /\ status[cur] = "failed" /\ due[cur] /\ ~killed[cur]
       /\ retries[cur] < MAX_AUTO_RETRIES

TicketInv == BlockersExist /\ Acyclic /\ DependencyConsistent
             /\ OnlyRetryReturns /\ OwnedIsWaiting

Inv == TypeOK /\ TicketInv /\ LeasesAreRunning /\ TickHolds

-----------------------------------------------------------------------------
(* blocked_by stays acyclic *)

\* set_blocked_by: a cycle through the new edge would have been walked.
LEMMA SetKeepsAcyclic ==
  ASSUME NEW t \in Tickets, NEW b \in Tickets, TypeOK, Acyclic,
         ~ChainReaches(b, t), blockedBy' = [blockedBy EXCEPT ![t] = b]
  PROVE  Acyclic'
<1>1. PICK C \in SUBSET Tickets :
        /\ b \in C /\ t \notin C
        /\ \A x \in C : blockedBy[x] # NoTicket => blockedBy[x] \in C
  BY DEF ChainReaches
<1>. SUFFICES ASSUME NEW S \in SUBSET Tickets, S # {},
                     \A x \in S : blockedBy'[x] \in S
              PROVE  FALSE
  BY DEF Acyclic
<1>2. CASE t \notin S
  BY <1>2 DEF Acyclic, TypeOK
<1>3. CASE t \in S
  <2>1. b \in S \cap C
    BY <1>1, <1>3 DEF TypeOK
  <2>2. ASSUME NEW x \in S \cap C PROVE blockedBy[x] \in S \cap C
    <3>1. blockedBy[x] = blockedBy'[x]
      BY <1>1, <2>2 DEF TypeOK
    <3>2. blockedBy[x] \in S /\ blockedBy[x] # NoTicket
      BY <3>1, NullAssumption
    <3>. QED
      BY <1>1, <3>2
  <2>. QED
    BY <2>1, <2>2 DEF Acyclic
<1>. QED
  BY <1>2, <1>3

\* create_ticket: nothing waits for a Ticket that does not exist yet.
LEMMA CreateKeepsAcyclic ==
  ASSUME NEW t \in Tickets, NEW b \in Tickets \cup {NoTicket}, TypeOK, Acyclic,
         BlockersExist, ~Exists(t), b # NoTicket => Exists(b),
         blockedBy' = [blockedBy EXCEPT ![t] = b]
  PROVE  Acyclic'
<1>. SUFFICES ASSUME NEW S \in SUBSET Tickets, S # {},
                     \A x \in S : blockedBy'[x] \in S
              PROVE  FALSE
  BY DEF Acyclic
<1>1. CASE t \notin S
  BY <1>1 DEF Acyclic, TypeOK
<1>2. CASE t \in S
  <2>1. b \in S \ {t}
    BY <1>2, NullAssumption DEF TypeOK, Exists
  <2>2. ASSUME NEW x \in S \ {t} PROVE blockedBy[x] \in S \ {t}
    <3>1. blockedBy[x] = blockedBy'[x] /\ blockedBy[x] \in S
      BY DEF TypeOK
    <3>2. blockedBy[x] # NoTicket
      BY <3>1, NullAssumption
    <3>. QED
      BY <3>1, <3>2 DEF BlockersExist, Exists
  <2>. QED
    BY <2>1, <2>2 DEF Acyclic
<1>. QED
  BY <1>1, <1>2

\* Removing edges adds no cycle.
LEMMA ClearKeepsAcyclic ==
  ASSUME TypeOK, Acyclic,
         \A x \in Tickets : blockedBy'[x] \in {blockedBy[x], NoTicket}
  PROVE  Acyclic'
<1>. SUFFICES ASSUME NEW S \in SUBSET Tickets, S # {},
                     \A x \in S : blockedBy'[x] \in S
              PROVE  FALSE
  BY DEF Acyclic
<1>1. \A x \in S : blockedBy[x] \in S
  BY NullAssumption
<1>. QED
  BY <1>1 DEF Acyclic

\* A step that leaves the rows alone keeps what is said of them.
LEMMA RowsUnchanged ==
  ASSUME TicketInv,
         UNCHANGED <<status, blockedBy, statusSource, stopOwned, awaitsRetry>>
  PROVE  TicketInv'
BY DEF TicketInv, BlockersExist, Acyclic, DependencyConsistent, OnlyRetryReturns,
       OwnedIsWaiting, Released, DependencyOwned

-----------------------------------------------------------------------------
(* Operators *)

\* CreateTicket preserves the invariant.
LEMMA CreateTicketStep ==
  ASSUME NEW t \in Tickets, NEW b \in Tickets \cup {NoTicket}, Inv,
         CreateTicket(t, b)
  PROVE  Inv'
<1>. TypeOK /\ TicketInv /\ LeasesAreRunning /\ TickHolds
  BY DEF Inv
<1>1. TypeOK'
  BY DEF TypeOK, CreateTicket, Exists, WriteStatus, Write, Statuses,
     workerVars, tickPlace
<1>2. TicketInv'
  <2>1. BlockersExist'
    BY NullAssumption DEF BlockersExist, TicketInv, TypeOK, CreateTicket,
       Exists, WriteStatus, Write
  <2>2. Acyclic'
    BY CreateKeepsAcyclic DEF CreateTicket, TypeOK, TicketInv
  <2>3. DependencyConsistent'
    BY NullAssumption DEF BlockersExist, DependencyConsistent, Released,
       READY_STATUSES, TicketInv, TypeOK, CreateTicket, Exists, WriteStatus,
       Write
  <2>4. OnlyRetryReturns'
    BY DEF OnlyRetryReturns, OwnedIsWaiting, TICKET_RETRY_FROM_STATUSES,
       TicketInv, TypeOK, CreateTicket, Exists, WriteStatus, Write
  <2>5. OwnedIsWaiting'
    BY DEF OnlyRetryReturns, OwnedIsWaiting, DependencyOwned,
       TICKET_RETRY_FROM_STATUSES, TicketInv, TypeOK, CreateTicket, Exists,
       WriteStatus, Write
  <2>. QED
    BY <2>1, <2>2, <2>3, <2>4, <2>5 DEF TicketInv
<1>3. LeasesAreRunning'
  BY DEF LeasesAreRunning, Leases, TypeOK, Exists, CreateTicket, WriteStatus,
     Write, workerVars
<1>4. TickHolds'
  BY DEF TickHolds, TypeOK, CreateTicket, WriteStatus, Write, workerVars,
     tickPlace
<1>. QED
  BY <1>1, <1>2, <1>3, <1>4 DEF Inv

\* SetBlockedBy preserves the invariant.
LEMMA SetBlockedByStep ==
  ASSUME NEW t \in Tickets, NEW b \in Tickets, Inv, SetBlockedBy(t, b)
  PROVE  Inv'
<1>. TypeOK /\ TicketInv /\ LeasesAreRunning /\ TickHolds
  BY DEF Inv
<1>1. TypeOK'
  BY BoundAssumption DEF TypeOK, SetBlockedBy, Exists, Counted,
     WriteStatus, Statuses, workerVars, tickPlace
<1>2. TicketInv'
  <2>1. BlockersExist'
    BY NullAssumption DEF BlockersExist, TicketInv, TypeOK, SetBlockedBy,
       Exists, DependencyOwned, WriteStatus, READY_STATUSES
  <2>2. Acyclic'
    BY SetKeepsAcyclic DEF SetBlockedBy, TicketInv
  <2>3. DependencyConsistent'
    BY NullAssumption DEF BlockersExist, DependencyConsistent, Released,
       READY_STATUSES, TicketInv, TypeOK, SetBlockedBy, Exists,
       DependencyOwned, WriteStatus
  <2>4. OnlyRetryReturns'
    BY DEF OnlyRetryReturns, OwnedIsWaiting, TICKET_RETRY_FROM_STATUSES,
       TicketInv, TypeOK, SetBlockedBy, Exists, DependencyOwned, WriteStatus,
       READY_STATUSES
  <2>5. OwnedIsWaiting'
    BY DEF OnlyRetryReturns, OwnedIsWaiting, DependencyOwned,
       TICKET_RETRY_FROM_STATUSES, TicketInv, TypeOK, SetBlockedBy, Exists,
       WriteStatus, READY_STATUSES
  <2>. QED
    BY <2>1, <2>2, <2>3, <2>4, <2>5 DEF TicketInv
<1>3. LeasesAreRunning'
  BY DEF LeasesAreRunning, Leases, TypeOK, SetBlockedBy, DependencyOwned,
     WriteStatus, READY_STATUSES, workerVars
<1>4. TickHolds'
  BY DEF TickHolds, TypeOK, SetBlockedBy, WriteStatus, READY_STATUSES,
     workerVars, tickPlace
<1>. QED
  BY <1>1, <1>2, <1>3, <1>4 DEF Inv

\* RemoveBlockedBy preserves the invariant.
LEMMA RemoveBlockedByStep ==
  ASSUME NEW t \in Tickets, Inv, RemoveBlockedBy(t)
  PROVE  Inv'
<1>. TypeOK /\ TicketInv /\ LeasesAreRunning /\ TickHolds
  BY DEF Inv
<1>1. TypeOK'
  BY BoundAssumption DEF TypeOK, RemoveBlockedBy, Counted, WriteStatus,
     Statuses, workerVars, tickPlace
<1>2. TicketInv'
  <2>1. BlockersExist'
    BY NullAssumption DEF BlockersExist, TicketInv, TypeOK, RemoveBlockedBy,
       DependencyOwned, WriteStatus
  <2>2. Acyclic'
    BY ClearKeepsAcyclic DEF RemoveBlockedBy, TypeOK, TicketInv
  <2>3. DependencyConsistent'
    BY NullAssumption DEF BlockersExist, DependencyConsistent, Released,
       READY_STATUSES, TicketInv, TypeOK, RemoveBlockedBy, DependencyOwned,
       WriteStatus
  <2>4. OnlyRetryReturns'
    BY DEF OnlyRetryReturns, OwnedIsWaiting, TICKET_RETRY_FROM_STATUSES,
       TicketInv, TypeOK, RemoveBlockedBy, DependencyOwned, WriteStatus
  <2>5. OwnedIsWaiting'
    BY DEF OnlyRetryReturns, OwnedIsWaiting, DependencyOwned,
       TICKET_RETRY_FROM_STATUSES, TicketInv, TypeOK, RemoveBlockedBy,
       WriteStatus
  <2>. QED
    BY <2>1, <2>2, <2>3, <2>4, <2>5 DEF TicketInv
<1>3. LeasesAreRunning'
  BY DEF LeasesAreRunning, Leases, TypeOK, RemoveBlockedBy,
     DependencyOwned, WriteStatus, workerVars
<1>4. TickHolds'
  BY DEF TickHolds, TypeOK, RemoveBlockedBy, WriteStatus, workerVars,
     tickPlace
<1>. QED
  BY <1>1, <1>2, <1>3, <1>4 DEF Inv

\* Retry preserves the invariant.
LEMMA RetryStep ==
  ASSUME NEW t \in Tickets, Inv, Retry(t)
  PROVE  Inv'
<1>. TypeOK /\ TicketInv /\ LeasesAreRunning /\ TickHolds
  BY DEF Inv
<1>1. TypeOK'
  BY BoundAssumption DEF TypeOK, LeasesAreRunning, Retry, RetryTicket,
     TICKET_RETRY_FROM_STATUSES, Counted, WriteStatus, Write, Statuses,
     workerVars, tickPlace
<1>2. TicketInv'
  <2>1. BlockersExist'
    BY NullAssumption DEF BlockersExist, TicketInv, TypeOK, LeasesAreRunning,
       Leases, Retry, RetryTicket, TICKET_RETRY_FROM_STATUSES, WriteStatus,
       Write
  <2>2. Acyclic'
    BY DEF TicketInv, Acyclic, Retry, RetryTicket
  <2>3. DependencyConsistent'
    BY NullAssumption DEF BlockersExist, DependencyConsistent, Released,
       READY_STATUSES, TicketInv, TypeOK, LeasesAreRunning, Leases, Retry,
       RetryTicket, TICKET_RETRY_FROM_STATUSES, WriteStatus, Write
  <2>4. OnlyRetryReturns'
    BY DEF OnlyRetryReturns, OwnedIsWaiting, TICKET_RETRY_FROM_STATUSES,
       TicketInv, TypeOK, LeasesAreRunning, Leases, Retry, RetryTicket,
       WriteStatus, Write
  <2>5. OwnedIsWaiting'
    BY DEF OnlyRetryReturns, OwnedIsWaiting, DependencyOwned,
       TICKET_RETRY_FROM_STATUSES, TicketInv, TypeOK, LeasesAreRunning,
       Leases, Retry, RetryTicket, WriteStatus, Write
  <2>. QED
    BY <2>1, <2>2, <2>3, <2>4, <2>5 DEF TicketInv
<1>3. LeasesAreRunning'
  BY DEF LeasesAreRunning, Leases, TypeOK, Retry, RetryTicket, HasLease,
     TICKET_RETRY_FROM_STATUSES, WriteStatus, Write, workerVars
<1>4. TickHolds'
  BY DEF TickHolds, TypeOK, LeasesAreRunning, Leases, Retry, RetryTicket,
     TICKET_RETRY_FROM_STATUSES, WriteStatus, Write, workerVars, tickPlace
<1>. QED
  BY <1>1, <1>2, <1>3, <1>4 DEF Inv

\* Feedback preserves the invariant.
LEMMA FeedbackStep ==
  ASSUME NEW t \in Tickets, Inv, Feedback(t)
  PROVE  Inv'
<1>. TypeOK /\ TicketInv /\ LeasesAreRunning /\ TickHolds
  BY DEF Inv
<1>1. TypeOK'
  BY BoundAssumption DEF TypeOK, LeasesAreRunning, Feedback, RetryTicket,
     Counted, WriteStatus, Write, Statuses, workerVars, tickPlace
<1>2. TicketInv'
  <2>1. BlockersExist'
    BY NullAssumption DEF BlockersExist, TicketInv, TypeOK, LeasesAreRunning,
       Leases, Feedback, RetryTicket, WriteStatus, Write
  <2>2. Acyclic'
    BY DEF TicketInv, Acyclic, Feedback, RetryTicket
  <2>3. DependencyConsistent'
    BY NullAssumption DEF BlockersExist, DependencyConsistent, Released,
       READY_STATUSES, TicketInv, TypeOK, LeasesAreRunning, Leases, Feedback,
       RetryTicket, WriteStatus, Write
  <2>4. OnlyRetryReturns'
    BY DEF OnlyRetryReturns, OwnedIsWaiting, TICKET_RETRY_FROM_STATUSES,
       TicketInv, TypeOK, LeasesAreRunning, Leases, Feedback, RetryTicket,
       WriteStatus, Write
  <2>5. OwnedIsWaiting'
    BY DEF OnlyRetryReturns, OwnedIsWaiting, DependencyOwned,
       TICKET_RETRY_FROM_STATUSES, TicketInv, TypeOK, LeasesAreRunning,
       Leases, Feedback, RetryTicket, WriteStatus, Write
  <2>. QED
    BY <2>1, <2>2, <2>3, <2>4, <2>5 DEF TicketInv
<1>3. LeasesAreRunning'
  BY DEF LeasesAreRunning, Leases, TypeOK, Feedback, RetryTicket, HasLease,
     WriteStatus, Write, workerVars
<1>4. TickHolds'
  BY DEF TickHolds, TypeOK, LeasesAreRunning, Leases, Feedback,
     RetryTicket, WriteStatus, Write, workerVars, tickPlace
<1>. QED
  BY <1>1, <1>2, <1>3, <1>4 DEF Inv

\* Rework preserves the invariant.
LEMMA ReworkStep ==
  ASSUME NEW t \in Tickets, NEW n \in Tickets, Inv, Rework(t, n)
  PROVE  Inv'
<1>. TypeOK /\ TicketInv /\ LeasesAreRunning /\ TickHolds
  BY DEF Inv
<1>1. TypeOK'
  BY BoundAssumption DEF TypeOK, Rework, Exists, Counted, WriteStatus,
     Statuses, workerVars, tickPlace
<1>2. TicketInv'
  <2>1. BlockersExist'
    BY NullAssumption DEF BlockersExist, TicketInv, TypeOK, Rework, Exists,
       WriteStatus
  <2>2. Acyclic'
    BY DEF TicketInv, Acyclic, Rework
  <2>3. DependencyConsistent'
    BY NullAssumption DEF BlockersExist, DependencyConsistent, Released,
       READY_STATUSES, TicketInv, TypeOK, Rework, Exists, WriteStatus
  <2>4. OnlyRetryReturns'
    BY DEF OnlyRetryReturns, OwnedIsWaiting, TICKET_RETRY_FROM_STATUSES,
       TicketInv, TypeOK, Rework, Exists, WriteStatus
  <2>5. OwnedIsWaiting'
    BY DEF OnlyRetryReturns, OwnedIsWaiting, DependencyOwned,
       TICKET_RETRY_FROM_STATUSES, TicketInv, TypeOK, Rework, Exists,
       WriteStatus
  <2>. QED
    BY <2>1, <2>2, <2>3, <2>4, <2>5 DEF TicketInv
<1>3. LeasesAreRunning'
  BY DEF LeasesAreRunning, Leases, TypeOK, Exists, Rework, WriteStatus,
     workerVars
<1>4. TickHolds'
  BY DEF TickHolds, TypeOK, Rework, WriteStatus, workerVars, tickPlace
<1>. QED
  BY <1>1, <1>2, <1>3, <1>4 DEF Inv

\* SetControl preserves the invariant.
LEMMA SetControlStep ==
  ASSUME NEW s \in CONTROL_SCOPES, NEW m \in CONTROL_MODES, Inv,
         SetControl(s, m)
  PROVE  Inv'
<1>. TypeOK /\ TicketInv /\ LeasesAreRunning /\ TickHolds
  BY DEF Inv
<1>1. TypeOK'
  BY BoundAssumption DEF TypeOK, SetControl, Counted, ticketVars,
     workerVars, tickVars
<1>2. TicketInv'
  BY RowsUnchanged DEF SetControl, ticketVars
<1>3. LeasesAreRunning'
  BY DEF LeasesAreRunning, Leases, SetControl, ticketVars, workerVars
<1>4. TickHolds'
  BY DEF TickHolds, TypeOK, SetControl, ticketVars, workerVars, tickVars
<1>. QED
  BY <1>1, <1>2, <1>3, <1>4 DEF Inv

\* ManualStart preserves the invariant.
LEMMA ManualStartStep ==
  ASSUME NEW w \in Workers, NEW t \in Tickets, Inv, ManualStart(w, t)
  PROVE  Inv'
<1>. TypeOK /\ TicketInv /\ LeasesAreRunning /\ TickHolds
  BY DEF Inv
<1>1. TypeOK'
  BY BoundAssumption DEF TypeOK, ManualStart, FreeSlot, StartWorker,
     Counted, WorkerPCs, ticketVars, tickVars
<1>2. TicketInv'
  BY RowsUnchanged DEF ManualStart, ticketVars
<1>3. LeasesAreRunning'
  BY DEF LeasesAreRunning, Leases, TypeOK, ManualStart, StartWorker,
     ticketVars
<1>4. TickHolds'
  BY DEF TickHolds, TypeOK, ManualStart, FreeSlot, StartWorker, ticketVars,
     tickVars
<1>. QED
  BY <1>1, <1>2, <1>3, <1>4 DEF Inv

-----------------------------------------------------------------------------
(* Integration and time *)

\* IntegrationEnds preserves the invariant.
LEMMA IntegrationEndsStep ==
  ASSUME NEW t \in Tickets, Inv, IntegrationEnds(t)
  PROVE  Inv'
<1>. TypeOK /\ TicketInv /\ LeasesAreRunning /\ TickHolds
  BY DEF Inv
<1>1. TypeOK'
  BY DEF TypeOK, IntegrationEnds, WriteStatus, Write, Stops, Statuses,
     workerVars, tickPlace
<1>2. TicketInv'
  <2>1. BlockersExist'
    BY NullAssumption DEF BlockersExist, TicketInv, TypeOK, IntegrationEnds,
       WriteStatus, Write, Stops
  <2>2. Acyclic'
    BY DEF TicketInv, Acyclic, IntegrationEnds
  <2>3. DependencyConsistent'
    BY NullAssumption DEF BlockersExist, DependencyConsistent, Released,
       READY_STATUSES, TicketInv, TypeOK, IntegrationEnds, WriteStatus,
       Write, Stops
  <2>4. OnlyRetryReturns'
    BY DEF OnlyRetryReturns, OwnedIsWaiting, TICKET_RETRY_FROM_STATUSES,
       TicketInv, TypeOK, IntegrationEnds, WriteStatus, Write, Stops
  <2>5. OwnedIsWaiting'
    BY DEF OnlyRetryReturns, OwnedIsWaiting, DependencyOwned,
       TICKET_RETRY_FROM_STATUSES, TicketInv, TypeOK, IntegrationEnds,
       WriteStatus, Write, Stops
  <2>. QED
    BY <2>1, <2>2, <2>3, <2>4, <2>5 DEF TicketInv
<1>3. LeasesAreRunning'
  BY DEF LeasesAreRunning, Leases, TypeOK, IntegrationEnds, WriteStatus,
     Write, Stops, workerVars
<1>4. TickHolds'
  BY DEF TickHolds, TypeOK, IntegrationEnds, WriteStatus, Write, Stops,
     workerVars, tickPlace
<1>. QED
  BY <1>1, <1>2, <1>3, <1>4 DEF Inv

\* TerminateExecutor preserves the invariant.
LEMMA TerminateExecutorStep ==
  ASSUME NEW t \in Tickets, Inv, TerminateExecutor(t)
  PROVE  Inv'
<1>. TypeOK /\ TicketInv /\ LeasesAreRunning /\ TickHolds
  BY DEF Inv
<1>1. TypeOK'
  BY DEF TypeOK, TerminateExecutor, ticketVars, tickVars
<1>2. TicketInv'
  BY RowsUnchanged DEF TerminateExecutor, ticketVars
<1>3. LeasesAreRunning'
  BY DEF LeasesAreRunning, Leases, TerminateExecutor, ticketVars
<1>4. TickHolds'
  BY DEF TickHolds, TerminateExecutor, ticketVars, tickVars
<1>. QED
  BY <1>1, <1>2, <1>3, <1>4 DEF Inv

\* BackoffElapses preserves the invariant.
LEMMA BackoffElapsesStep ==
  ASSUME NEW t \in Tickets, Inv, BackoffElapses(t)
  PROVE  Inv'
<1>. TypeOK /\ TicketInv /\ LeasesAreRunning /\ TickHolds
  BY DEF Inv
<1>1. TypeOK'
  BY DEF TypeOK, BackoffElapses, workerVars, tickVars
<1>2. TicketInv'
  BY RowsUnchanged DEF BackoffElapses
<1>3. LeasesAreRunning'
  BY DEF LeasesAreRunning, Leases, BackoffElapses, workerVars
<1>4. TickHolds'
  BY DEF TickHolds, TypeOK, BackoffElapses, workerVars, tickVars
<1>. QED
  BY <1>1, <1>2, <1>3, <1>4 DEF Inv

-----------------------------------------------------------------------------
(* Workers *)

\* Admit preserves the invariant.
LEMMA AdmitStep ==
  ASSUME NEW w \in Workers, Inv, Admit(w)
  PROVE  Inv'
<1>. TypeOK /\ TicketInv /\ LeasesAreRunning /\ TickHolds
  BY DEF Inv
<1>1. TypeOK'
  BY DEF TypeOK, LeasesAreRunning, Admit, EndWorker, WorkerPCs, ticketVars,
     tickVars
<1>2. TicketInv'
  BY RowsUnchanged DEF Admit, ticketVars
<1>3. LeasesAreRunning'
  BY DEF LeasesAreRunning, Leases, TypeOK, Admit, EndWorker,
     READY_STATUSES, ticketVars
<1>4. TickHolds'
  BY DEF TickHolds, TypeOK, LeasesAreRunning, Leases, Admit, EndWorker,
     READY_STATUSES, ticketVars, tickVars
<1>. QED
  BY <1>1, <1>2, <1>3, <1>4 DEF Inv

\* FailBeforeClaim preserves the invariant.
LEMMA FailBeforeClaimStep ==
  ASSUME NEW w \in Workers, Inv, FailBeforeClaim(w)
  PROVE  Inv'
<1>. TypeOK /\ TicketInv /\ LeasesAreRunning /\ TickHolds
  BY DEF Inv
<1>1. TypeOK'
  <2>1. wticket[w] \in Tickets
    BY DEF LeasesAreRunning, FailBeforeClaim
  <2>2. /\ status' \in [Tickets -> Statuses] /\ awaitsRetry' \subseteq Tickets
        /\ statusSource' \in [Tickets -> {"dependencies", "other"}]
    BY <2>1 DEF TypeOK, FailBeforeClaim, WriteStatus, Write, Stops, Statuses
  <2>3. due' \in [Tickets -> BOOLEAN] /\ changed' \in BOOLEAN
    BY <2>1 DEF TypeOK, FailBeforeClaim, WriteStatus, Write
  <2>4. wpc' \in [Workers -> WorkerPCs] /\ wticket' \in [Workers -> Tickets \cup {NoTicket}]
    BY DEF TypeOK, FailBeforeClaim, EndWorker, WorkerPCs
  <2>. QED
    BY <2>2, <2>3, <2>4 DEF TypeOK, FailBeforeClaim, tickPlace
<1>2. TicketInv'
  <2>1. BlockersExist'
    BY NullAssumption DEF BlockersExist, TicketInv, TypeOK, LeasesAreRunning,
       Leases, FailBeforeClaim, EndWorker, WriteStatus, Write, Stops,
       READY_STATUSES
  <2>2. Acyclic'
    BY DEF TicketInv, Acyclic, FailBeforeClaim
  <2>3. DependencyConsistent'
    BY NullAssumption DEF BlockersExist, DependencyConsistent, Released,
       READY_STATUSES, TicketInv, TypeOK, LeasesAreRunning, Leases,
       FailBeforeClaim, EndWorker, WriteStatus, Write, Stops
  <2>4. OnlyRetryReturns'
    BY DEF OnlyRetryReturns, OwnedIsWaiting, TICKET_RETRY_FROM_STATUSES,
       TicketInv, TypeOK, LeasesAreRunning, Leases, FailBeforeClaim,
       EndWorker, WriteStatus, Write, Stops, READY_STATUSES
  <2>5. OwnedIsWaiting'
    BY DEF OnlyRetryReturns, OwnedIsWaiting, DependencyOwned,
       TICKET_RETRY_FROM_STATUSES, TicketInv, TypeOK, LeasesAreRunning,
       Leases, FailBeforeClaim, EndWorker, WriteStatus, Write, Stops,
       READY_STATUSES
  <2>. QED
    BY <2>1, <2>2, <2>3, <2>4, <2>5 DEF TicketInv
<1>3. LeasesAreRunning'
  BY DEF LeasesAreRunning, Leases, TypeOK, FailBeforeClaim, EndWorker,
     WriteStatus, Write, Stops, READY_STATUSES
<1>4. TickHolds'
  BY DEF TickHolds, TypeOK, LeasesAreRunning, Leases, FailBeforeClaim,
     EndWorker, WriteStatus, Write, Stops, READY_STATUSES, tickPlace
<1>. QED
  BY <1>1, <1>2, <1>3, <1>4 DEF Inv

\* Claim preserves the invariant.
LEMMA ClaimStep ==
  ASSUME NEW w \in Workers, Inv, Claim(w)
  PROVE  Inv'
<1>. TypeOK /\ TicketInv /\ LeasesAreRunning /\ TickHolds
  BY DEF Inv
<1>1. TypeOK'
  BY DEF TypeOK, LeasesAreRunning, Claim, WriteStatus, Write, Statuses,
     WorkerPCs, tickPlace
<1>2. TicketInv'
  <2>1. BlockersExist'
    BY NullAssumption DEF BlockersExist, TicketInv, TypeOK, LeasesAreRunning,
       Leases, Claim, Claimable, WriteStatus, Write, READY_STATUSES
  <2>2. Acyclic'
    BY DEF TicketInv, Acyclic, Claim
  <2>3. DependencyConsistent'
    BY NullAssumption DEF BlockersExist, DependencyConsistent, Released,
       READY_STATUSES, TicketInv, TypeOK, LeasesAreRunning, Leases, Claim,
       Claimable, WriteStatus, Write
  <2>4. OnlyRetryReturns'
    BY DEF OnlyRetryReturns, OwnedIsWaiting, TICKET_RETRY_FROM_STATUSES,
       TicketInv, TypeOK, LeasesAreRunning, Leases, Claim, Claimable,
       WriteStatus, Write, READY_STATUSES
  <2>5. OwnedIsWaiting'
    BY DEF OnlyRetryReturns, OwnedIsWaiting, DependencyOwned,
       TICKET_RETRY_FROM_STATUSES, TicketInv, TypeOK, LeasesAreRunning,
       Leases, Claim, Claimable, WriteStatus, Write, READY_STATUSES
  <2>. QED
    BY <2>1, <2>2, <2>3, <2>4, <2>5 DEF TicketInv
<1>3. LeasesAreRunning'
  BY DEF LeasesAreRunning, Leases, TypeOK, Claim, Claimable, HasLease,
     WriteStatus, Write, READY_STATUSES
<1>4. TickHolds'
  BY DEF TickHolds, TypeOK, LeasesAreRunning, Leases, Claim, Claimable,
     WriteStatus, Write, READY_STATUSES, tickPlace
<1>. QED
  BY <1>1, <1>2, <1>3, <1>4 DEF Inv

\* ClaimRefused preserves the invariant.
LEMMA ClaimRefusedStep ==
  ASSUME NEW w \in Workers, Inv, ClaimRefused(w)
  PROVE  Inv'
<1>. TypeOK /\ TicketInv /\ LeasesAreRunning /\ TickHolds
  BY DEF Inv
<1>1. TypeOK'
  BY DEF TypeOK, LeasesAreRunning, ClaimRefused, EndWorker, WorkerPCs,
     ticketVars, tickVars
<1>2. TicketInv'
  BY RowsUnchanged DEF ClaimRefused, ticketVars
<1>3. LeasesAreRunning'
  BY DEF LeasesAreRunning, Leases, TypeOK, ClaimRefused, EndWorker,
     READY_STATUSES, ticketVars
<1>4. TickHolds'
  BY DEF TickHolds, TypeOK, LeasesAreRunning, Leases, ClaimRefused,
     EndWorker, READY_STATUSES, ticketVars, tickVars
<1>. QED
  BY <1>1, <1>2, <1>3, <1>4 DEF Inv

\* EndRun preserves the invariant.
LEMMA EndRunStep ==
  ASSUME NEW w \in Workers, NEW s \in {"in_integration", "needs_decision",
         "failed"}, Inv, EndRun(w, s)
  PROVE  Inv'
<1>. TypeOK /\ TicketInv /\ LeasesAreRunning /\ TickHolds
  BY DEF Inv
<1>1. TypeOK'
  BY DEF TypeOK, LeasesAreRunning, EndRun, EndWorker, WriteStatus, Write,
     Stops, Statuses, WorkerPCs, tickPlace
<1>2. TicketInv'
  <2>1. BlockersExist'
    BY NullAssumption DEF BlockersExist, TicketInv, TypeOK, LeasesAreRunning,
       Leases, EndRun, EndWorker, WriteStatus, Write, Stops
  <2>2. Acyclic'
    BY DEF TicketInv, Acyclic, EndRun
  <2>3. DependencyConsistent'
    BY NullAssumption DEF BlockersExist, DependencyConsistent, Released,
       READY_STATUSES, TicketInv, TypeOK, LeasesAreRunning, Leases, EndRun,
       EndWorker, WriteStatus, Write, Stops
  <2>4. OnlyRetryReturns'
    BY DEF OnlyRetryReturns, OwnedIsWaiting, TICKET_RETRY_FROM_STATUSES,
       TicketInv, TypeOK, LeasesAreRunning, Leases, EndRun, EndWorker,
       WriteStatus, Write, Stops
  <2>5. OwnedIsWaiting'
    BY DEF OnlyRetryReturns, OwnedIsWaiting, DependencyOwned,
       TICKET_RETRY_FROM_STATUSES, TicketInv, TypeOK, LeasesAreRunning,
       Leases, EndRun, EndWorker, WriteStatus, Write, Stops
  <2>. QED
    BY <2>1, <2>2, <2>3, <2>4, <2>5 DEF TicketInv
<1>3. LeasesAreRunning'
  BY DEF LeasesAreRunning, Leases, TypeOK, EndRun, EndWorker, WriteStatus,
     Write, Stops
<1>4. TickHolds'
  BY DEF TickHolds, TypeOK, LeasesAreRunning, Leases, EndRun, EndWorker,
     WriteStatus, Write, Stops, tickPlace
<1>. QED
  BY <1>1, <1>2, <1>3, <1>4 DEF Inv

\* KilledRun preserves the invariant.
LEMMA KilledRunStep ==
  ASSUME NEW w \in Workers, Inv, KilledRun(w)
  PROVE  Inv'
<1>. TypeOK /\ TicketInv /\ LeasesAreRunning /\ TickHolds
  BY DEF Inv
<1>1. TypeOK'
  BY DEF TypeOK, LeasesAreRunning, KilledRun, EndWorker, WriteStatus,
     Write, Stops, Statuses, WorkerPCs, tickPlace
<1>2. TicketInv'
  <2>1. BlockersExist'
    BY NullAssumption DEF BlockersExist, TicketInv, TypeOK, LeasesAreRunning,
       Leases, KilledRun, EndWorker, WriteStatus, Write, Stops
  <2>2. Acyclic'
    BY DEF TicketInv, Acyclic, KilledRun
  <2>3. DependencyConsistent'
    BY NullAssumption DEF BlockersExist, DependencyConsistent, Released,
       READY_STATUSES, TicketInv, TypeOK, LeasesAreRunning, Leases,
       KilledRun, EndWorker, WriteStatus, Write, Stops
  <2>4. OnlyRetryReturns'
    BY DEF OnlyRetryReturns, OwnedIsWaiting, TICKET_RETRY_FROM_STATUSES,
       TicketInv, TypeOK, LeasesAreRunning, Leases, KilledRun, EndWorker,
       WriteStatus, Write, Stops
  <2>5. OwnedIsWaiting'
    BY DEF OnlyRetryReturns, OwnedIsWaiting, DependencyOwned,
       TICKET_RETRY_FROM_STATUSES, TicketInv, TypeOK, LeasesAreRunning,
       Leases, KilledRun, EndWorker, WriteStatus, Write, Stops
  <2>. QED
    BY <2>1, <2>2, <2>3, <2>4, <2>5 DEF TicketInv
<1>3. LeasesAreRunning'
  BY DEF LeasesAreRunning, Leases, TypeOK, KilledRun, EndWorker,
     WriteStatus, Write, Stops
<1>4. TickHolds'
  BY DEF TickHolds, TypeOK, LeasesAreRunning, Leases, KilledRun, EndWorker,
     WriteStatus, Write, Stops, tickPlace
<1>. QED
  BY <1>1, <1>2, <1>3, <1>4 DEF Inv

\* LaunchRaises preserves the invariant.
LEMMA LaunchRaisesStep ==
  ASSUME NEW w \in Workers, Inv, LaunchRaises(w)
  PROVE  Inv'
<1>. TypeOK /\ TicketInv /\ LeasesAreRunning /\ TickHolds
  BY DEF Inv
<1>1. TypeOK'
  BY BoundAssumption DEF TypeOK, LeasesAreRunning, LaunchRaises, EndWorker,
     WriteStatus, Write, Stops, Counted, Statuses, WorkerPCs, tickPlace
<1>2. TicketInv'
  <2>1. BlockersExist'
    BY NullAssumption DEF BlockersExist, TicketInv, TypeOK, LeasesAreRunning,
       Leases, LaunchRaises, EndWorker, WriteStatus, Write, Stops
  <2>2. Acyclic'
    BY DEF TicketInv, Acyclic, LaunchRaises
  <2>3. DependencyConsistent'
    BY NullAssumption DEF BlockersExist, DependencyConsistent, Released,
       READY_STATUSES, TicketInv, TypeOK, LeasesAreRunning, Leases,
       LaunchRaises, EndWorker, WriteStatus, Write, Stops
  <2>4. OnlyRetryReturns'
    BY DEF OnlyRetryReturns, OwnedIsWaiting, TICKET_RETRY_FROM_STATUSES,
       TicketInv, TypeOK, LeasesAreRunning, Leases, LaunchRaises, EndWorker,
       WriteStatus, Write, Stops
  <2>5. OwnedIsWaiting'
    BY DEF OnlyRetryReturns, OwnedIsWaiting, DependencyOwned,
       TICKET_RETRY_FROM_STATUSES, TicketInv, TypeOK, LeasesAreRunning,
       Leases, LaunchRaises, EndWorker, WriteStatus, Write, Stops
  <2>. QED
    BY <2>1, <2>2, <2>3, <2>4, <2>5 DEF TicketInv
<1>3. LeasesAreRunning'
  BY DEF LeasesAreRunning, Leases, TypeOK, LaunchRaises, EndWorker,
     WriteStatus, Write, Stops
<1>4. TickHolds'
  BY DEF TickHolds, TypeOK, LeasesAreRunning, Leases, LaunchRaises, EndWorker,
     WriteStatus, Write, Stops, tickPlace
<1>. QED
  BY <1>1, <1>2, <1>3, <1>4 DEF Inv

\* WorkerCrash preserves the invariant.
LEMMA WorkerCrashStep ==
  ASSUME NEW w \in Workers, Inv, WorkerCrash(w)
  PROVE  Inv'
<1>. TypeOK /\ TicketInv /\ LeasesAreRunning /\ TickHolds
  BY DEF Inv
<1>1. TypeOK'
  <2>1. executors' \subseteq Tickets
    BY DEF TypeOK, LeasesAreRunning, WorkerCrash
  <2>. QED
    BY <2>1, BoundAssumption DEF TypeOK, WorkerCrash, EndWorker, Counted,
       WorkerPCs, ticketVars, tickVars
<1>2. TicketInv'
  BY RowsUnchanged DEF WorkerCrash, ticketVars
<1>3. LeasesAreRunning'
  BY DEF LeasesAreRunning, Leases, TypeOK, WorkerCrash, EndWorker,
     ticketVars
<1>4. TickHolds'
  BY DEF TickHolds, TypeOK, WorkerCrash, EndWorker, ticketVars, tickVars
<1>. QED
  BY <1>1, <1>2, <1>3, <1>4 DEF Inv

-----------------------------------------------------------------------------
(* The tick *)

\* TickStart preserves the invariant.
LEMMA TickStartStep ==
  ASSUME Inv, TickStart
  PROVE  Inv'
<1>. TypeOK /\ TicketInv /\ LeasesAreRunning /\ TickHolds
  BY DEF Inv
<1>1. TypeOK'
  BY DEF TypeOK, TickStart, TickPCs, ticketVars, workerVars
<1>2. TicketInv'
  BY RowsUnchanged DEF TickStart, ticketVars
<1>3. LeasesAreRunning'
  BY DEF LeasesAreRunning, Leases, TickStart, ticketVars, workerVars
<1>4. TickHolds'
  BY DEF TickHolds, TypeOK, TickStart, ticketVars, workerVars
<1>. QED
  BY <1>1, <1>2, <1>3, <1>4 DEF Inv

\* Reap preserves the invariant.
LEMMA ReapStep ==
  ASSUME Inv, Reap
  PROVE  Inv'
<1>. TypeOK /\ TicketInv /\ LeasesAreRunning /\ TickHolds
  BY DEF Inv
<1>1. TypeOK'
  BY DEF TypeOK, LeasesAreRunning, Reap, WriteStatus, Stops, Statuses,
     WorkerPCs, TickPCs
<1>2. TicketInv'
  <2>1. BlockersExist'
    BY NullAssumption DEF BlockersExist, TicketInv, TypeOK, LeasesAreRunning,
       Leases, Reap, WriteStatus, Stops
  <2>2. Acyclic'
    BY DEF TicketInv, Acyclic, Reap
  <2>3. DependencyConsistent'
    BY NullAssumption DEF BlockersExist, DependencyConsistent, Released,
       READY_STATUSES, TicketInv, TypeOK, LeasesAreRunning, Leases, Reap,
       WriteStatus, Stops
  <2>4. OnlyRetryReturns'
    BY DEF OnlyRetryReturns, OwnedIsWaiting, TICKET_RETRY_FROM_STATUSES,
       TicketInv, TypeOK, LeasesAreRunning, Leases, Reap, WriteStatus, Stops
  <2>5. OwnedIsWaiting'
    BY DEF OnlyRetryReturns, OwnedIsWaiting, DependencyOwned,
       TICKET_RETRY_FROM_STATUSES, TicketInv, TypeOK, LeasesAreRunning,
       Leases, Reap, WriteStatus, Stops
  <2>. QED
    BY <2>1, <2>2, <2>3, <2>4, <2>5 DEF TicketInv
<1>3. LeasesAreRunning'
  BY DEF LeasesAreRunning, Leases, TypeOK, Reap, WriteStatus, Stops
<1>4. TickHolds'
  BY DEF TickHolds, TypeOK, LeasesAreRunning, Leases, Reap, WriteStatus,
     Stops
<1>. QED
  BY <1>1, <1>2, <1>3, <1>4 DEF Inv

\* MaintainDependencies preserves the invariant.
LEMMA MaintainDependenciesStep ==
  ASSUME Inv, MaintainDependencies
  PROVE  Inv'
<1>. TypeOK /\ TicketInv /\ LeasesAreRunning /\ TickHolds
  BY DEF Inv
<1>1. TypeOK'
  <2>1. status' \in [Tickets -> Statuses]
    BY DEF TypeOK, MaintainDependencies, WriteStatus, Statuses
  <2>2. statusSource' \in [Tickets -> {"dependencies", "other"}]
    BY DEF TypeOK, MaintainDependencies, WriteStatus
  <2>3. due' \in [Tickets -> BOOLEAN] /\ changed' \in BOOLEAN
    BY DEF TypeOK, MaintainDependencies, WriteStatus
  <2>4. blockedBy' \in [Tickets -> Tickets \cup {NoTicket}]
    BY DEF TypeOK, MaintainDependencies
  <2>5. stopOwned' \in [Tickets -> BOOLEAN]
    <3>1. \A t \in Tickets : WaitsOnly(t) \in BOOLEAN /\ stopOwned[t] \in BOOLEAN
      BY DEF WaitsOnly, TypeOK
    <3>. QED
      BY <3>1 DEF MaintainDependencies
  <2>6. awaitsRetry' \subseteq Tickets
    BY DEF TypeOK, MaintainDependencies, Stops, Stoppable
  <2>. QED
    BY <2>1, <2>2, <2>3, <2>4, <2>5, <2>6
    DEF TypeOK, MaintainDependencies, TickPCs, workerVars
<1>2. TicketInv'
  <2>1. BlockersExist'
    BY NullAssumption DEF BlockersExist, TicketInv, TypeOK,
       MaintainDependencies, Releasable, Stoppable, WaitsOnly,
       STOPPED_BLOCKER_STATUSES, NOT_REDIRECTED_STATUSES, WriteStatus, Stops,
       READY_STATUSES
  <2>2. Acyclic'
    BY ClearKeepsAcyclic DEF MaintainDependencies, TypeOK, TicketInv
  <2>3. DependencyConsistent'
    BY NullAssumption DEF BlockersExist, DependencyConsistent, Released,
       READY_STATUSES, TicketInv, TypeOK, MaintainDependencies, Releasable,
       Stoppable, WaitsOnly, STOPPED_BLOCKER_STATUSES,
       NOT_REDIRECTED_STATUSES, WriteStatus, Stops
  <2>4. OnlyRetryReturns'
    BY DEF OnlyRetryReturns, OwnedIsWaiting, TICKET_RETRY_FROM_STATUSES,
       TicketInv, TypeOK, MaintainDependencies, Releasable, Stoppable,
       WaitsOnly, STOPPED_BLOCKER_STATUSES, NOT_REDIRECTED_STATUSES,
       WriteStatus, Stops, READY_STATUSES
  <2>5. OwnedIsWaiting'
    BY DEF OnlyRetryReturns, OwnedIsWaiting, DependencyOwned,
       TICKET_RETRY_FROM_STATUSES, TicketInv, TypeOK, MaintainDependencies,
       Releasable, Stoppable, WaitsOnly, STOPPED_BLOCKER_STATUSES,
       NOT_REDIRECTED_STATUSES, WriteStatus, Stops, READY_STATUSES
  <2>. QED
    BY <2>1, <2>2, <2>3, <2>4, <2>5 DEF TicketInv
<1>3. LeasesAreRunning'
  BY DEF LeasesAreRunning, Leases, TypeOK, MaintainDependencies,
     Releasable, Stoppable, WaitsOnly, STOPPED_BLOCKER_STATUSES,
     NOT_REDIRECTED_STATUSES, WriteStatus, Stops, READY_STATUSES,
     workerVars
<1>4. TickHolds'
  BY DEF TickHolds, TypeOK, MaintainDependencies, Releasable, Stoppable,
     WaitsOnly, STOPPED_BLOCKER_STATUSES, NOT_REDIRECTED_STATUSES,
     WriteStatus, Stops, READY_STATUSES, workerVars
<1>. QED
  BY <1>1, <1>2, <1>3, <1>4 DEF Inv

\* ListFailed preserves the invariant.
LEMMA ListFailedStep ==
  ASSUME Inv, ListFailed
  PROVE  Inv'
<1>. TypeOK /\ TicketInv /\ LeasesAreRunning /\ TickHolds
  BY DEF Inv
<1>1. TypeOK'
  BY DEF TypeOK, ListFailed, TickPCs, ticketVars, workerVars
<1>2. TicketInv'
  BY RowsUnchanged DEF ListFailed, ticketVars
<1>3. LeasesAreRunning'
  BY DEF LeasesAreRunning, Leases, ListFailed, ticketVars, workerVars
<1>4. TickHolds'
  BY DEF TickHolds, TypeOK, ListFailed, ticketVars, workerVars
<1>. QED
  BY <1>1, <1>2, <1>3, <1>4 DEF Inv

\* ReadFailure preserves the invariant.
LEMMA ReadFailureStep ==
  ASSUME NEW t \in Tickets, Inv, ReadFailure(t)
  PROVE  Inv'
<1>. TypeOK /\ TicketInv /\ LeasesAreRunning /\ TickHolds
  BY DEF Inv
<1>1. TypeOK'
  BY DEF TypeOK, ReadFailure, TickPCs, ticketVars, workerVars
<1>2. TicketInv'
  BY RowsUnchanged DEF ReadFailure, ticketVars
<1>3. LeasesAreRunning'
  BY DEF LeasesAreRunning, Leases, ReadFailure, ticketVars, workerVars
<1>4. TickHolds'
  BY DEF TickHolds, TypeOK, ReadFailure, Retryable, ticketVars, workerVars
<1>. QED
  BY <1>1, <1>2, <1>3, <1>4 DEF Inv

\* AutoRetry preserves the invariant.
LEMMA AutoRetryStep ==
  ASSUME Inv, AutoRetry
  PROVE  Inv'
<1>. TypeOK /\ TicketInv /\ LeasesAreRunning /\ TickHolds
  BY DEF Inv
<1>1. TypeOK'
  <2>1. cur \in Tickets /\ retries[cur] < MAX_AUTO_RETRIES
    BY DEF TickHolds, AutoRetry
  <2>2. retries' \in [Tickets -> 0 .. MAX_AUTO_RETRIES]
    BY <2>1, RetryAssumption DEF TypeOK, AutoRetry
  <2>3. due' \in [Tickets -> BOOLEAN]
    BY DEF TypeOK, AutoRetry
  <2>4. /\ status' \in [Tickets -> Statuses]
        /\ statusSource' \in [Tickets -> {"dependencies", "other"}]
        /\ awaitsRetry' \subseteq Tickets
    BY DEF TypeOK, AutoRetry, Statuses
  <2>. QED
    BY <2>2, <2>3, <2>4 DEF TypeOK, AutoRetry, NextFailure, TickPCs, workerVars
<1>2. TicketInv'
  <2>1. BlockersExist'
    BY NullAssumption DEF BlockersExist, TicketInv, TypeOK, LeasesAreRunning,
       TickHolds, Leases, AutoRetry, NextFailure
  <2>2. Acyclic'
    BY DEF TicketInv, Acyclic, AutoRetry
  <2>3. DependencyConsistent'
    BY NullAssumption DEF BlockersExist, DependencyConsistent, Released,
       READY_STATUSES, TicketInv, TypeOK, LeasesAreRunning, TickHolds,
       Leases, AutoRetry, NextFailure
  <2>4. OnlyRetryReturns'
    BY DEF OnlyRetryReturns, OwnedIsWaiting, TICKET_RETRY_FROM_STATUSES,
       TicketInv, TypeOK, LeasesAreRunning, TickHolds, Leases, AutoRetry,
       NextFailure
  <2>5. OwnedIsWaiting'
    BY DEF OnlyRetryReturns, OwnedIsWaiting, DependencyOwned,
       TICKET_RETRY_FROM_STATUSES, TicketInv, TypeOK, LeasesAreRunning,
       TickHolds, Leases, AutoRetry, NextFailure
  <2>. QED
    BY <2>1, <2>2, <2>3, <2>4, <2>5 DEF TicketInv
<1>3. LeasesAreRunning'
  BY DEF LeasesAreRunning, Leases, TypeOK, TickHolds, AutoRetry,
     NextFailure, HasLease, workerVars
<1>4. TickHolds'
  BY DEF TickHolds, TypeOK, LeasesAreRunning, Leases, AutoRetry,
     NextFailure, workerVars
<1>. QED
  BY <1>1, <1>2, <1>3, <1>4 DEF Inv

\* AutoRetryRefused preserves the invariant.
LEMMA AutoRetryRefusedStep ==
  ASSUME Inv, AutoRetryRefused
  PROVE  Inv'
<1>. TypeOK /\ TicketInv /\ LeasesAreRunning /\ TickHolds
  BY DEF Inv
<1>1. TypeOK'
  BY DEF TypeOK, LeasesAreRunning, TickHolds, AutoRetryRefused,
     NextFailure, TickPCs, ticketVars, workerVars
<1>2. TicketInv'
  BY RowsUnchanged DEF AutoRetryRefused, ticketVars
<1>3. LeasesAreRunning'
  BY DEF LeasesAreRunning, Leases, AutoRetryRefused, ticketVars, workerVars
<1>4. TickHolds'
  BY DEF TickHolds, TypeOK, LeasesAreRunning, Leases, AutoRetryRefused,
     NextFailure, ticketVars, workerVars
<1>. QED
  BY <1>1, <1>2, <1>3, <1>4 DEF Inv

\* Select preserves the invariant.
LEMMA SelectStep ==
  ASSUME Inv, Select
  PROVE  Inv'
<1>. TypeOK /\ TicketInv /\ LeasesAreRunning /\ TickHolds
  BY DEF Inv
<1>1. TypeOK'
  BY DEF TypeOK, LeasesAreRunning, Select, Candidates, TickPCs, ticketVars,
     workerVars
<1>2. TicketInv'
  BY RowsUnchanged DEF Select, ticketVars
<1>3. LeasesAreRunning'
  BY DEF LeasesAreRunning, Leases, Select, ticketVars, workerVars
<1>4. TickHolds'
  BY DEF TickHolds, TypeOK, LeasesAreRunning, Leases, Select,
     READY_STATUSES, ticketVars, workerVars
<1>. QED
  BY <1>1, <1>2, <1>3, <1>4 DEF Inv

\* PickNext preserves the invariant.
LEMMA PickNextStep ==
  ASSUME NEW t \in Tickets, Inv, PickNext(t)
  PROVE  Inv'
<1>. TypeOK /\ TicketInv /\ LeasesAreRunning /\ TickHolds
  BY DEF Inv
<1>1. TypeOK'
  BY DEF TypeOK, PickNext, TickPCs, ticketVars, workerVars
<1>2. TicketInv'
  BY RowsUnchanged DEF PickNext, ticketVars
<1>3. LeasesAreRunning'
  BY DEF LeasesAreRunning, Leases, PickNext, ticketVars, workerVars
<1>4. TickHolds'
  BY DEF TickHolds, TypeOK, PickNext, ticketVars, workerVars
<1>. QED
  BY <1>1, <1>2, <1>3, <1>4 DEF Inv

\* NothingMore preserves the invariant.
LEMMA NothingMoreStep ==
  ASSUME Inv, NothingMore
  PROVE  Inv'
<1>. TypeOK /\ TicketInv /\ LeasesAreRunning /\ TickHolds
  BY DEF Inv
<1>1. TypeOK'
  BY DEF TypeOK, NothingMore, TickPCs, ticketVars, workerVars
<1>2. TicketInv'
  BY RowsUnchanged DEF NothingMore, ticketVars
<1>3. LeasesAreRunning'
  BY DEF LeasesAreRunning, Leases, NothingMore, ticketVars, workerVars
<1>4. TickHolds'
  BY DEF TickHolds, TypeOK, NothingMore, ticketVars, workerVars
<1>. QED
  BY <1>1, <1>2, <1>3, <1>4 DEF Inv

\* PrepareRaises preserves the invariant.
LEMMA PrepareRaisesStep ==
  ASSUME Inv, PrepareRaises
  PROVE  Inv'
<1>. TypeOK /\ TicketInv /\ LeasesAreRunning /\ TickHolds
  BY DEF Inv
<1>1. TypeOK'
  BY DEF TypeOK, PrepareRaises, TickPCs, ticketVars, workerVars
<1>2. TicketInv'
  BY RowsUnchanged DEF PrepareRaises, ticketVars
<1>3. LeasesAreRunning'
  BY DEF LeasesAreRunning, Leases, PrepareRaises, ticketVars, workerVars
<1>4. TickHolds'
  BY DEF TickHolds, TypeOK, PrepareRaises, ticketVars, workerVars
<1>. QED
  BY <1>1, <1>2, <1>3, <1>4 DEF Inv

\* PrepareRefused preserves the invariant.
LEMMA PrepareRefusedStep ==
  ASSUME Inv, PrepareRefused
  PROVE  Inv'
<1>. TypeOK /\ TicketInv /\ LeasesAreRunning /\ TickHolds
  BY DEF Inv
<1>1. TypeOK'
  BY DEF TypeOK, TickHolds, PrepareRefused, WriteStatus, Write, Stops,
     Statuses, TickPCs, workerVars
<1>2. TicketInv'
  <2>1. BlockersExist'
    BY NullAssumption DEF BlockersExist, TicketInv, TypeOK, TickHolds,
       PrepareRefused, WriteStatus, Write, Stops, READY_STATUSES
  <2>2. Acyclic'
    BY DEF TicketInv, Acyclic, PrepareRefused
  <2>3. DependencyConsistent'
    BY NullAssumption DEF BlockersExist, DependencyConsistent, Released,
       READY_STATUSES, TicketInv, TypeOK, TickHolds, PrepareRefused,
       WriteStatus, Write, Stops
  <2>4. OnlyRetryReturns'
    BY DEF OnlyRetryReturns, OwnedIsWaiting, TICKET_RETRY_FROM_STATUSES,
       TicketInv, TypeOK, TickHolds, PrepareRefused, WriteStatus, Write,
       Stops, READY_STATUSES
  <2>5. OwnedIsWaiting'
    BY DEF OnlyRetryReturns, OwnedIsWaiting, DependencyOwned,
       TICKET_RETRY_FROM_STATUSES, TicketInv, TypeOK, TickHolds,
       PrepareRefused, WriteStatus, Write, Stops, READY_STATUSES
  <2>. QED
    BY <2>1, <2>2, <2>3, <2>4, <2>5 DEF TicketInv
<1>3. LeasesAreRunning'
  BY DEF LeasesAreRunning, Leases, TypeOK, TickHolds, PrepareRefused,
     WriteStatus, Write, Stops, READY_STATUSES, workerVars
<1>4. TickHolds'
  BY DEF TickHolds, TypeOK, PrepareRefused, WriteStatus, Write, Stops,
     READY_STATUSES, workerVars
<1>. QED
  BY <1>1, <1>2, <1>3, <1>4 DEF Inv

\* Launch preserves the invariant.
LEMMA LaunchStep ==
  ASSUME NEW w \in Workers, Inv, Launch(w)
  PROVE  Inv'
<1>. TypeOK /\ TicketInv /\ LeasesAreRunning /\ TickHolds
  BY DEF Inv
<1>1. TypeOK'
  BY DEF TypeOK, TickHolds, Launch, FreeSlot, StartWorker, WorkerPCs,
     TickPCs, ticketVars
<1>2. TicketInv'
  BY RowsUnchanged DEF Launch, ticketVars
<1>3. LeasesAreRunning'
  BY DEF LeasesAreRunning, Leases, TypeOK, TickHolds, Launch, StartWorker,
     ticketVars
<1>4. TickHolds'
  BY DEF TickHolds, TypeOK, Launch, FreeSlot, StartWorker, ticketVars
<1>. QED
  BY <1>1, <1>2, <1>3, <1>4 DEF Inv

\* AwaitClaimed preserves the invariant.
LEMMA AwaitClaimedStep ==
  ASSUME Inv, AwaitClaimed
  PROVE  Inv'
<1>. TypeOK /\ TicketInv /\ LeasesAreRunning /\ TickHolds
  BY DEF Inv
<1>1. TypeOK'
  BY DEF TypeOK, TickHolds, AwaitClaimed, Awaited, WorkerPCs, TickPCs,
     ticketVars
<1>2. TicketInv'
  BY RowsUnchanged DEF AwaitClaimed, Awaited, ticketVars
<1>3. LeasesAreRunning'
  BY DEF LeasesAreRunning, Leases, TypeOK, TickHolds, AwaitClaimed,
     Awaited, ticketVars
<1>4. TickHolds'
  BY DEF TickHolds, TypeOK, AwaitClaimed, Awaited, ticketVars
<1>. QED
  BY <1>1, <1>2, <1>3, <1>4 DEF Inv

\* AwaitExited preserves the invariant.
LEMMA AwaitExitedStep ==
  ASSUME Inv, AwaitExited
  PROVE  Inv'
<1>. TypeOK /\ TicketInv /\ LeasesAreRunning /\ TickHolds
  BY DEF Inv
<1>1. TypeOK'
  BY DEF TypeOK, TickHolds, AwaitExited, Awaited, WorkerPCs, TickPCs,
     ticketVars
<1>2. TicketInv'
  BY RowsUnchanged DEF AwaitExited, Awaited, ticketVars
<1>3. LeasesAreRunning'
  BY DEF LeasesAreRunning, Leases, TypeOK, TickHolds, AwaitExited, Awaited,
     ticketVars
<1>4. TickHolds'
  BY DEF TickHolds, TypeOK, AwaitExited, Awaited, ticketVars
<1>. QED
  BY <1>1, <1>2, <1>3, <1>4 DEF Inv

\* AwaitTimeout preserves the invariant.
LEMMA AwaitTimeoutStep ==
  ASSUME Inv, AwaitTimeout
  PROVE  Inv'
<1>. TypeOK /\ TicketInv /\ LeasesAreRunning /\ TickHolds
  BY DEF Inv
<1>1. TypeOK'
  BY DEF TypeOK, TickHolds, AwaitTimeout, Awaited, TickPCs, ticketVars,
     workerVars
<1>2. TicketInv'
  BY RowsUnchanged DEF AwaitTimeout, Awaited, ticketVars
<1>3. LeasesAreRunning'
  BY DEF LeasesAreRunning, Leases, AwaitTimeout, Awaited, ticketVars,
     workerVars
<1>4. TickHolds'
  BY DEF TickHolds, TypeOK, AwaitTimeout, Awaited, ticketVars, workerVars
<1>. QED
  BY <1>1, <1>2, <1>3, <1>4 DEF Inv

\* TickEnd preserves the invariant.
LEMMA TickEndStep ==
  ASSUME Inv, TickEnd
  PROVE  Inv'
<1>. TypeOK /\ TicketInv /\ LeasesAreRunning /\ TickHolds
  BY DEF Inv
<1>1. TypeOK'
  BY DEF TypeOK, TickEnd, TickPCs, ticketVars, workerVars
<1>2. TicketInv'
  BY RowsUnchanged DEF TickEnd, ticketVars
<1>3. LeasesAreRunning'
  BY DEF LeasesAreRunning, Leases, TickEnd, ticketVars, workerVars
<1>4. TickHolds'
  BY DEF TickHolds, TypeOK, TickEnd, ticketVars, workerVars
<1>. QED
  BY <1>1, <1>2, <1>3, <1>4 DEF Inv

\* TickCrash preserves the invariant.
LEMMA TickCrashStep ==
  ASSUME Inv, TickCrash
  PROVE  Inv'
<1>. TypeOK /\ TicketInv /\ LeasesAreRunning /\ TickHolds
  BY DEF Inv
<1>1. TypeOK'
  <2>1. wpc' \in [Workers -> WorkerPCs]
    BY DEF TypeOK, TickCrash, WorkerPCs
  <2>2. events' \in 0 .. MaxEvents
    BY BoundAssumption DEF TypeOK, TickCrash, Counted
  <2>. QED
    BY <2>1, <2>2 DEF TypeOK, TickCrash, TickPCs, ticketVars
<1>2. TicketInv'
  BY RowsUnchanged DEF TickCrash, ticketVars
<1>3. LeasesAreRunning'
  BY DEF LeasesAreRunning, Leases, TypeOK, TickCrash, ticketVars
<1>4. TickHolds'
  BY DEF TickHolds, TypeOK, TickCrash, ticketVars
<1>. QED
  BY <1>1, <1>2, <1>3, <1>4 DEF Inv

-----------------------------------------------------------------------------
(* What a dead worker leaves behind *)

\* Until its lease is reaped a dead worker owns what it left; then it is of a
\* Ticket that waits for a retry, and retry_ticket refuses.
LeftAwaitsRetry ==
  /\ \A t \in executors :
       t \in awaitsRetry \/ \E w \in Workers : wpc[w] = "dead" /\ wticket[w] = t
  /\ resources \subseteq awaitsRetry

LEMMA LeftStep ==
  ASSUME Inv, LeftAwaitsRetry, Next
  PROVE  LeftAwaitsRetry'
<1>. USE DEF LeftAwaitsRetry, Inv, TypeOK, ticketVars, workerVars
<1>1. CASE OperatorStep
  <2>1. CASE \E t \in Tickets, b \in Tickets \cup {NoTicket} : CreateTicket(t, b)
    BY <2>1 DEF CreateTicket, Exists
  <2>2. CASE \E t \in Tickets, b \in Tickets : SetBlockedBy(t, b)
    BY <2>2 DEF SetBlockedBy
  <2>3. CASE \E t \in Tickets : RemoveBlockedBy(t)
    BY <2>3 DEF RemoveBlockedBy
  <2>4. CASE \E t \in Tickets : Retry(t)
    BY <2>4 DEF Retry, RetryTicket
  <2>5. CASE \E t \in Tickets : Feedback(t)
    BY <2>5 DEF Feedback, RetryTicket
  <2>6. CASE \E t \in Tickets, n \in Tickets : Rework(t, n)
    BY <2>6 DEF Rework
  <2>7. CASE \E t \in Tickets, w \in Workers : ManualStart(w, t)
    BY <2>7 DEF ManualStart, StartWorker, FreeSlot
  <2>8. CASE \E t \in Tickets : TerminateExecutor(t)
    BY <2>8 DEF TerminateExecutor
  <2>9. CASE \E s \in CONTROL_SCOPES, m \in CONTROL_MODES : SetControl(s, m)
    BY <2>9 DEF SetControl
  <2>. QED
    BY <1>1, <2>1, <2>2, <2>3, <2>4, <2>5, <2>6, <2>7, <2>8, <2>9 DEF OperatorStep
<1>2. CASE \E t \in Tickets : IntegrationEnds(t) \/ BackoffElapses(t)
  BY <1>2 DEF IntegrationEnds, BackoffElapses, Stops
<1>3. CASE \E w \in Workers : WorkerStep(w) \/ LaunchRaises(w) \/ WorkerCrash(w)
  <2>1. CASE \E w \in Workers : Admit(w)
    BY <2>1 DEF Admit, EndWorker
  <2>2. CASE \E w \in Workers : FailBeforeClaim(w)
    BY <2>2 DEF FailBeforeClaim, EndWorker, Stops
  <2>3. CASE \E w \in Workers : Claim(w)
    BY <2>3 DEF Claim
  <2>4. CASE \E w \in Workers : ClaimRefused(w)
    BY <2>4 DEF ClaimRefused, EndWorker
  <2>5. CASE \E w \in Workers, s \in {"in_integration", "needs_decision", "failed"} :
              EndRun(w, s)
    BY <2>5 DEF EndRun, EndWorker, Stops
  <2>6. CASE \E w \in Workers : KilledRun(w)
    BY <2>6 DEF KilledRun, EndWorker, Stops
  <2>7. CASE \E w \in Workers : LaunchRaises(w)
    BY <2>7 DEF LaunchRaises, EndWorker, Stops
  <2>8. CASE \E w \in Workers : WorkerCrash(w)
    BY <2>8 DEF WorkerCrash, EndWorker
  <2>. QED
    BY <1>3, <2>1, <2>2, <2>3, <2>4, <2>5, <2>6, <2>7, <2>8 DEF WorkerStep
<1>4. CASE TickStep
  <2>1. CASE TickStart
    BY <2>1 DEF TickStart
  <2>2. CASE Reap
    BY <2>2 DEF Reap, Stops
  <2>3. CASE MaintainDependencies
    BY <2>3 DEF MaintainDependencies, Stops
  <2>4. CASE ListFailed
    BY <2>4 DEF ListFailed
  <2>5. CASE \E t \in Tickets : ReadFailure(t)
    BY <2>5 DEF ReadFailure
  <2>6. CASE AutoRetry
    BY <2>6 DEF AutoRetry
  <2>7. CASE AutoRetryRefused
    BY <2>7 DEF AutoRetryRefused
  <2>8. CASE Select
    BY <2>8 DEF Select
  <2>9. CASE \E t \in Tickets : PickNext(t)
    BY <2>9 DEF PickNext
  <2>10. CASE NothingMore
    BY <2>10 DEF NothingMore
  <2>11. CASE PrepareRaises
    BY <2>11 DEF PrepareRaises
  <2>12. CASE PrepareRefused
    BY <2>12 DEF PrepareRefused, Stops
  <2>13. CASE \E w \in Workers : Launch(w)
    BY <2>13 DEF Launch, StartWorker, FreeSlot
  <2>14. CASE AwaitClaimed
    BY <2>14 DEF AwaitClaimed, Awaited
  <2>15. CASE AwaitExited
    BY <2>15 DEF AwaitExited, Awaited
  <2>16. CASE AwaitTimeout
    BY <2>16 DEF AwaitTimeout, Awaited
  <2>17. CASE TickEnd
    BY <2>17 DEF TickEnd
  <2>. QED
    BY <1>4, <2>1, <2>2, <2>3, <2>4, <2>5, <2>6, <2>7, <2>8, <2>9, <2>10, <2>11, <2>12, <2>13, <2>14, <2>15, <2>16, <2>17 DEF TickStep
<1>5. CASE TickCrash
  BY <1>5 DEF TickCrash
<1>. QED
  BY <1>1, <1>2, <1>3, <1>4, <1>5 DEF Next

-----------------------------------------------------------------------------
(* Theorems *)

LEMMA InvInit == Init => Inv
<1>. SUFFICES ASSUME Init PROVE Inv
  OBVIOUS
<1>1. TypeOK
  <2>1. /\ retries \in [Tickets -> 0 .. MAX_AUTO_RETRIES]
        /\ events \in 0 .. MaxEvents
    BY RetryAssumption, BoundAssumption DEF Init
  <2>2. /\ stopOwned \in [Tickets -> BOOLEAN] /\ due \in [Tickets -> BOOLEAN]
        /\ killed \in [Tickets -> BOOLEAN]
    BY DEF Init
  <2>3. /\ status \in [Tickets -> Statuses]
        /\ statusSource \in [Tickets -> {"dependencies", "other"}]
        /\ control \in [CONTROL_SCOPES -> CONTROL_MODES]
        /\ wpc \in [Workers -> WorkerPCs]
    BY DEF Init, Statuses, CONTROL_MODES, WorkerPCs
  <2>. QED
    BY <2>1, <2>2, <2>3 DEF Init, TypeOK, TickPCs
<1>2. Acyclic
  BY NullAssumption DEF Init, Acyclic
<1>3. BlockersExist /\ DependencyConsistent /\ OnlyRetryReturns /\ OwnedIsWaiting
  BY DEF Init, BlockersExist, DependencyConsistent, OnlyRetryReturns,
         OwnedIsWaiting, READY_STATUSES
<1>4. LeasesAreRunning /\ TickHolds
  BY DEF Init, LeasesAreRunning, Leases, TickHolds
<1>. QED
  BY <1>1, <1>2, <1>3, <1>4 DEF Inv, TicketInv

LEMMA InvNext == Inv /\ [Next]_vars => Inv'
<1>. SUFFICES ASSUME Inv, [Next]_vars PROVE Inv'
  OBVIOUS
<1>1. CASE UNCHANGED vars
  <2>1. TicketInv'
    BY <1>1, RowsUnchanged DEF Inv, vars
  <2>2. TypeOK' /\ LeasesAreRunning' /\ TickHolds'
    BY <1>1 DEF Inv, TypeOK, LeasesAreRunning, Leases, TickHolds, vars
  <2>. QED
    BY <2>1, <2>2 DEF Inv
<1>2. CASE OperatorStep
  BY <1>2, CreateTicketStep, SetBlockedByStep, RemoveBlockedByStep, RetryStep,
     FeedbackStep, ReworkStep, ManualStartStep, SetControlStep,
     TerminateExecutorStep
  DEF OperatorStep
<1>3. CASE \E t \in Tickets : IntegrationEnds(t) \/ BackoffElapses(t)
  BY <1>3, IntegrationEndsStep, BackoffElapsesStep
<1>4. CASE \E w \in Workers : WorkerStep(w) \/ LaunchRaises(w) \/ WorkerCrash(w)
  BY <1>4, AdmitStep, FailBeforeClaimStep, ClaimStep, ClaimRefusedStep,
     EndRunStep, KilledRunStep, LaunchRaisesStep, WorkerCrashStep
  DEF WorkerStep
<1>5. CASE TickStep
  BY <1>5, TickStartStep, ReapStep, MaintainDependenciesStep, ListFailedStep,
     ReadFailureStep, AutoRetryStep, AutoRetryRefusedStep, SelectStep,
     PickNextStep, NothingMoreStep, PrepareRaisesStep, PrepareRefusedStep,
     LaunchStep, AwaitClaimedStep, AwaitExitedStep, AwaitTimeoutStep, TickEndStep
  DEF TickStep
<1>6. CASE TickCrash
  BY <1>6, TickCrashStep
<1>. QED
  BY <1>1, <1>2, <1>3, <1>4, <1>5, <1>6 DEF Next

\* The inductive invariant holds in every behaviour.
THEOREM SchedulingInv == Spec => []Inv
BY InvInit, InvNext, PTL DEF Spec

\* Type correctness.
THEOREM SchedulingTypeOK == Spec => []TypeOK
BY SchedulingInv, PTL DEF Inv

\* set_blocked_by, create_ticket and the dependency pass never close a cycle of
\* blockers, for any number of Tickets and any interleaving of edits.
THEOREM BlockersStayAcyclic == Spec => []Acyclic
<1>1. Inv => Acyclic
  BY DEF Inv, TicketInv
<1>. QED
  BY <1>1, SchedulingInv, PTL

\* A ready Ticket has no unfinished blocker, a blocked one has a blocker.
THEOREM ReadyIsReleased == Spec => []DependencyConsistent
<1>1. Inv => DependencyConsistent
  BY DEF Inv, TicketInv
<1>. QED
  BY <1>1, SchedulingInv, PTL

\* Stopped work comes back only through the audited retry.
THEOREM StoppedWorkWaits == Spec => []OnlyRetryReturns
<1>1. Inv => OnlyRetryReturns
  BY DEF Inv, TicketInv
<1>. QED
  BY <1>1, SchedulingInv, PTL

\* No Attempt begins in a worktree where a process of an earlier one may run.
THEOREM RunsHaveNoNeighbour == Spec => []NoRunBesideProcess
<1>1. Init => LeftAwaitsRetry
  BY DEF Init, LeftAwaitsRetry
<1>2. Inv /\ LeftAwaitsRetry /\ [Next]_vars => LeftAwaitsRetry'
  <2>1. ASSUME LeftAwaitsRetry, UNCHANGED vars PROVE LeftAwaitsRetry'
    BY <2>1 DEF LeftAwaitsRetry, vars
  <2>. QED
    BY <2>1, LeftStep
<1>3. ASSUME Inv, LeftAwaitsRetry PROVE NoRunBesideProcess
  <2>1. \A t \in awaitsRetry : status[t] \notin READY_STATUSES \cup {"running"}
    BY <1>3 DEF Inv, TicketInv, OnlyRetryReturns, TICKET_RETRY_FROM_STATUSES,
       READY_STATUSES
  <2>2. \A w \in Workers : wpc[w] \in {"running", "dead"} =>
          status[wticket[w]] = "running"
    BY <1>3 DEF Inv, LeasesAreRunning, Leases
  <2>3. \A v, w \in Workers :
          wpc[v] = "dead" /\ wpc[w] = "running" => wticket[v] # wticket[w]
    BY <1>3 DEF Inv, LeasesAreRunning, Leases
  <2>. QED
    BY <1>3, <2>1, <2>2, <2>3 DEF NoRunBesideProcess, LeftAwaitsRetry,
       READY_STATUSES
<1>. QED
  BY <1>1, <1>2, <1>3, SchedulingInv, PTL DEF Spec

\* An automatic retry answers the due failure that the tick read, or nothing.
THEOREM AutoRetriesAreDue == Spec => AutoRetryAnswersDueFailure
<1>. DEFINE Answers == \A t \in Tickets : retries'[t] # retries[t] =>
                         /\ status[t] = "failed" /\ due[t] /\ ~killed[t] /\ Released(t)
                         /\ retries'[t] = retries[t] + 1
<1>1. Inv /\ [Next]_vars => [Answers]_vars
  <2>. SUFFICES ASSUME Inv, Next PROVE Answers
    BY DEF vars
  <2>1. CASE AutoRetry
    BY <2>1 DEF Inv, TypeOK, TickHolds, AutoRetry
  <2>2. CASE UNCHANGED retries
    BY <2>2
  <2>3. OperatorStep => UNCHANGED retries
    BY DEF OperatorStep, CreateTicket, SetBlockedBy, RemoveBlockedBy, Retry,
       Feedback, Rework, ManualStart, SetControl, TerminateExecutor, ticketVars
  <2>4. \A t \in Tickets : IntegrationEnds(t) \/ BackoffElapses(t) => UNCHANGED retries
    BY DEF IntegrationEnds, BackoffElapses
  <2>5. \A w \in Workers :
          WorkerStep(w) \/ LaunchRaises(w) \/ WorkerCrash(w) => UNCHANGED retries
    BY DEF WorkerStep, LaunchRaises, WorkerCrash, Admit, FailBeforeClaim, Claim, ClaimRefused,
       EndRun, KilledRun, ticketVars
  <2>6. TickStep => AutoRetry \/ UNCHANGED retries
    BY DEF TickStep, TickStart, Reap, MaintainDependencies, ListFailed,
       ReadFailure, AutoRetryRefused, Select, PickNext, NothingMore,
       PrepareRaises, PrepareRefused, Launch, AwaitClaimed, AwaitExited,
       AwaitTimeout, Awaited, TickEnd, ticketVars
  <2>7. TickCrash => UNCHANGED retries
    BY DEF TickCrash, ticketVars
  <2>. QED
    BY <2>1, <2>2, <2>3, <2>4, <2>5, <2>6, <2>7 DEF Next
<1>. QED
  BY <1>1, SchedulingInv, PTL DEF Spec, AutoRetryAnswersDueFailure

=============================================================================
