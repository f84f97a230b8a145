------------------------- MODULE MCTicketScheduling -------------------------
EXTENDS TicketScheduling, TLC

\* Two Tickets never compare equal: the task key breaks ties.
MCRank == CHOOSE rank \in [Tickets -> 1 .. Cardinality(Tickets)] :
            \A t, u \in Tickets : t # u => rank[t] # rank[u]

Symmetry == Permutations(Workers)
=============================================================================
