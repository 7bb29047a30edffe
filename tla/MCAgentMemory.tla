--------------------------- MODULE MCAgentMemory ---------------------------
(***************************************************************************)
(* A small instance of AgentMemory: three processes, the fewest with which   *)
(* an append can lose twice; two attempts, so that it can also give up; and  *)
(* room for four records, so that the bound is reached.                      *)
(***************************************************************************)
EXTENDS AgentMemory, TLC

CONSTANTS p1, p2, p3, r1, r2

Symmetry == Permutations(Process) \cup Permutations(Record)
==============================================================================
