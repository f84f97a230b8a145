---------------------------- MODULE MCIntegration ----------------------------
EXTENDS Integration, TLC

Symmetry == Permutations(Tickets)
=============================================================================
