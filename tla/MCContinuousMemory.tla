------------------------- MODULE MCContinuousMemory -------------------------
(* Two workers on a memory of one scope, or one worker on two scopes.        *)
EXTENDS ContinuousMemory, TLC

CONSTANTS w1, w2, s1, s2, p1, p2

Symmetry == Permutations(Worker) \cup Permutations(Payload) \cup Permutations(Scope)
==============================================================================
