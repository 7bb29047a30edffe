--------------------------- MODULE MCRetryFallback ---------------------------
(***************************************************************************)
(* Small instances of RetryFallback.  Three attempts are the fewest with a  *)
(* move after a move; two providers and two models give a retry, a fallback *)
(* within a provider and one across providers.                              *)
(***************************************************************************)
EXTENDS RetryFallback, TLC

CONSTANTS p1, p2, m1, m2

Listed(p, m) == [provider |-> p, model |-> m, allow |-> TRUE]
Denied(p, m) == [provider |-> p, model |-> m, allow |-> FALSE]

Fallbacks == {<<Listed(p1, m1), Listed(p2, m2), Listed(p1, m1)>>,
              <<Listed(p1, m1), Listed(p1, m2), Listed(p2, m2)>>}
Retries == {<<Listed(p1, m1)>>,
            <<Listed(p1, m1), Listed(p1, m1)>>,
            <<Listed(p1, m1), Listed(p1, m1), Listed(p1, m2)>>}
Denials == {<<Listed(p1, m1), Denied(p1, m1), Listed(p2, m1)>>}

MCPlans == Fallbacks \cup Retries \cup Denials

Reasons == {"provider-unavailable", "network-not-executed"}

Lenient ==
  [retryOn |-> SafeReasons, fallbackOn |-> SafeReasons,
   retryHttp |-> {429, 503}, fallbackHttp |-> {429, 503}, cross |-> TRUE]

LenientPolicies == {Lenient, [Lenient EXCEPT !.cross = FALSE]}

MCPolicies ==
  LenientPolicies \cup
  {[Lenient EXCEPT !.retryOn = R, !.fallbackOn = F, !.retryHttp = H, !.fallbackHttp = G] :
     R \in {{}, Reasons}, F \in {{}, {"network-not-executed"}},
     H \in {{}, {429}}, G \in {{}, {503}}}
==============================================================================
