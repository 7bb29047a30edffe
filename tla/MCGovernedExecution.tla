------------------------- MODULE MCGovernedExecution -------------------------
(***************************************************************************)
(* A small instance of GovernedExecution: two providers, one of which lacks  *)
(* a stream transport; two permits and two calls, so that a permit can be     *)
(* offered again while its call is open or over; three instants, so that      *)
(* evidence and policy can each be the first to expire between authorization  *)
(* and execution, and the clock can go back.                                 *)
(***************************************************************************)
EXTENDS GovernedExecution, TLC

CONSTANTS q1, q2, m1, m2, x1, x2, a1, a2, c1, c2

r1 == [id |-> x1, provider |-> q1, model |-> m1]
r2 == [id |-> x2, provider |-> q2, model |-> m2]

MCRequest == {r1, r2}

MCSupport ==
  [q \in Provider |-> [m \in Model |->
     IF q = q2 /\ m = m1 THEN "model-family-mismatch" ELSE "supported"]]

Seen(availability, observedAt, expiresAt) ==
  [availability |-> availability, observedAt |-> observedAt, expiresAt |-> expiresAt,
   source |-> "host"]

MCHostObservations ==
  {<<q1, Seen("available", 0, 2)>>, <<q1, Seen("available", 2, 3)>>,
   <<q1, Seen("unavailable", 1, 2)>>, <<q2, Seen("available", 0, 2)>>}

Allow(r, ttl) == [request |-> r, allow |-> TRUE, ttl |-> ttl]

MCHostPolicies == {Allow(r1, 1), Allow(r1, 3), Allow(r2, 3)}

MCHealthPolicies == {[availableTtl |-> 2, negative |-> {503}, unavailableTtl |-> 1]}

Result(network, request, status) ==
  [network |-> network, request |-> request, status |-> status]

MCTransportResults ==
  {Result("executed", "accepted", 200), Result("executed", "accepted", NoStatus),
   Result("executed", "rejected", 503), Result("not-executed", "accepted", 200)}

Symmetry == Permutations({a1, a2}) \cup Permutations({c1, c2})
==============================================================================
