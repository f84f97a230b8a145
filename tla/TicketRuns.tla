----------------------------- MODULE TicketRuns -----------------------------
(***************************************************************************)
(* What the runtime promises about the runs of a Ticket, without leases,    *)
(* resources, workers or a reaper: a ready Ticket begins a run under the    *)
(* next Attempt number, a running Ticket has exactly one open run, and a    *)
(* run ends once, with an outcome, in the same step that stops its Ticket.  *)
(* A stopped Ticket is never running again without being ready in between.  *)
(* RuntimeAdmission implements this specification.                          *)
(***************************************************************************)
EXTENDS Integers

CONSTANTS Tickets, Numbers, Outcomes

VARIABLES
  phase,  \* "ready", "running" or "stopped" per Ticket
  run     \* per Ticket and Attempt number: "none", "open" or its outcome

vars == <<phase, run>>

Init ==
  /\ phase = [t \in Tickets |-> "ready"]
  /\ run = [t \in Tickets |-> [n \in Numbers |-> "none"]]

Begin(t, n) ==
  /\ phase[t] = "ready"
  /\ \A m \in Numbers : /\ run[t][m] # "open"
                        /\ run[t][m] # "none" <=> m < n
  /\ phase' = [phase EXCEPT ![t] = "running"]
  /\ run' = [run EXCEPT ![t][n] = "open"]

\* Several runs may end at once: the reaper closes every expired lease in one
\* transaction.
End(S, outcome) ==
  /\ S # {}
  /\ \A t \in S : /\ phase[t] = "running"
                  /\ \E n \in Numbers : run[t][n] = "open"
  /\ phase' = [t \in Tickets |-> IF t \in S THEN "stopped" ELSE phase[t]]
  /\ run' = [t \in Tickets |-> [n \in Numbers |->
               IF t \in S /\ run[t][n] = "open" THEN outcome[t]
                                                ELSE run[t][n]]]

\* A Ticket that is not running is stopped, or made ready again.
Stop(t) ==
  /\ phase[t] = "ready"
  /\ phase' = [phase EXCEPT ![t] = "stopped"]
  /\ UNCHANGED run

Return(t) ==
  /\ phase[t] = "stopped"
  /\ phase' = [phase EXCEPT ![t] = "ready"]
  /\ UNCHANGED run

Next ==
  \/ \E t \in Tickets, n \in Numbers : Begin(t, n)
  \/ \E S \in SUBSET Tickets : \E outcome \in [S -> Outcomes] : End(S, outcome)
  \/ \E t \in Tickets : Stop(t) \/ Return(t)

Spec == Init /\ [][Next]_vars
=============================================================================
