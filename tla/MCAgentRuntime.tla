--------------------------- MODULE MCAgentRuntime ---------------------------
(***************************************************************************)
(* Small instances of AgentRuntime: two stages, so that one follows another; *)
(* two processes that both start and resume; a stage may consume nothing or  *)
(* one token of a budget of two.                                            *)
(***************************************************************************)
EXTENDS AgentRuntime, TLC

CONSTANTS p1, p2

Symmetry == Permutations(Process)
==============================================================================
