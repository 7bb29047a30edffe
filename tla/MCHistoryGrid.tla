---------------------------- MODULE MCHistoryGrid ----------------------------
EXTENDS HistoryGrid, TLC

CONSTANTS t1, t2

Symmetry == Permutations(CallId)
==============================================================================
