--------------------------- MODULE MCRecoveryLock ---------------------------
(***************************************************************************)
(* A small instance of RecoveryLock, with the ratios of the constants of the *)
(* code: a tick is 10 s, the heartbeat interval; a waiter gives up after     *)
(* 30 s and a lock is stale after 60 s.                                     *)
(***************************************************************************)
EXTENDS RecoveryLock

CONSTANTS w1, w2
==============================================================================
