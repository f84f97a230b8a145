------------------------- MODULE MCExecutorProcess --------------------------
EXTENDS ExecutorProcess, TLC

CONSTANTS p1, p2, o1, o2

Symmetry == Permutations(Processes) \cup Permutations(Operators)
=============================================================================
