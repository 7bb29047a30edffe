--------------------------- MODULE MCRecoveryStore ---------------------------
(***************************************************************************)
(* Small instances of RecoveryStore: two contents, one of which expires,     *)
(* three keys besides plaintext, so that a second rekey may have a target     *)
(* that no old backup names, and a quota that leaves room for one copy more  *)
(* than there are contents, so that a re-encryption may or may not fit.      *)
(***************************************************************************)
EXTENDS RecoveryStore, TLC

CONSTANTS h1, h2, k1, k2, k3, s1, s2

Symmetry == Permutations(Key)
==============================================================================
