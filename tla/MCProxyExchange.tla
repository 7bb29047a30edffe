--------------------------- MODULE MCProxyExchange ---------------------------
(***************************************************************************)
(* Small instances of ProxyExchange: a session whose client repeats itself,  *)
(* another that competes for the only record, and two grids.  A tick of the  *)
(* clock is the window of duplicates, and longer than the horizon past which *)
(* an unobserved cache is taken for gone.                                   *)
(***************************************************************************)
EXTENDS ProxyExchange

CONSTANTS s1, s2, b1, b2

\* Repeats of the first session's request, with the other session at most once in
\* between.
SendsBetween == [e \in Exchange |-> IF e = 2 THEN {b1, b2} ELSE {b1}]

SessionOfBody == [b \in Body |-> IF b = b1 THEN s1 ELSE s2]
==============================================================================
