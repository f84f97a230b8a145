------------------------- MODULE MCRuntimeAdmission -------------------------
EXTENDS RuntimeAdmission, TLC

CONSTANTS t1, t2, w1, w2

Symmetry == Permutations(Tickets) \cup Permutations(Workers)
=============================================================================
