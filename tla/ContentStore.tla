---------------------------- MODULE ContentStore ----------------------------
(***************************************************************************)
(* What a content-addressed store promises its callers, without saying how: *)
(* content comes to be stored only while a caller asks to store it, or after *)
(* it was dropped without all of it being removed, and ceases to be stored   *)
(* only while a caller asks to drop it, or asks for the collection of what   *)
(* has expired.  One step changes what is stored by one content at most.     *)
(* RecoveryStore implements this specification.                             *)
(***************************************************************************)
CONSTANT Digest         \* what content is addressed by

VARIABLES stored,       \* the content that is, or will again be, readable
          adding,       \* what may come to be stored
          dropping      \* what may cease to be

vars == <<stored, adding, dropping>>

Init == stored = {} /\ adding = {} /\ dropping = {}

\* A request begins or ends.
Ask == UNCHANGED stored

Add(d) == d \in adding /\ stored' = stored \cup {d}

Drop(d) == d \in dropping /\ stored' = stored \ {d}

Next ==
  /\ Ask \/ \E d \in Digest : Add(d) \/ Drop(d)
  /\ adding' \in SUBSET Digest /\ dropping' \in SUBSET Digest

Spec == Init /\ [][Next]_vars
==============================================================================
