---------------------------- MODULE MCLegacyTask ----------------------------
EXTENDS LegacyTask, TLC

CONSTANTS r1, r2, q1, q2

Symmetry == Permutations(Runners) \cup Permutations(Requests)
=============================================================================
