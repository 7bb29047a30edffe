----------------------------- MODULE ProviderGate -----------------------------
(***************************************************************************)
(* The provider execution gate (src/src/provider-execution-gate.ts): it      *)
(* turns a prepared request, the host's policy for it and fresh health       *)
(* evidence into a permit for one execution, and consumes permits.           *)
(***************************************************************************)
EXTENDS ProviderRuntime

CONSTANTS
  Request,            \* prepared requests, each with its provider and model
  HostPolicies,       \* the execution policies the host may state
  Permit,             \* identities of the permits issued, in any order
  MaxPermitTTL        \* MAX_PROVIDER_EXECUTION_PERMIT_TTL_MS

ExecutionPolicy ==
  [request : Request, allow : BOOLEAN, ttl : 1..MaxPermitTTL]

ASSUME GateAssumption ==
  /\ MaxPermitTTL \in Nat \ {0}
  /\ \A r \in Request : r.provider \in Provider /\ r.model \in Model
  /\ HostPolicies \subseteq ExecutionPolicy

VARIABLE permits

\* A permit also remembers the evidence and the policy it was issued on, which
\* the code does not keep: what the properties compare it with.
PermitRecord ==
  [request : Request, issuedAt : Time, expiresAt : Nat, consumed : BOOLEAN,
   evidence : Observation, ttl : 1..MaxPermitTTL]

Issued == DOMAIN permits

GateInit == permits = <<>>

\* assertRuntimeEligible(): also refuses evidence from the future.
EligibilityError(r, t) ==
  LET assessment == AssessmentAt(r.provider, r.model, t) IN
  IF assessment # "eligible" THEN assessment
  ELSE IF health[r.provider].observedAt > t THEN "provider-health-not-fresh"
  ELSE "none"

AuthorizeError(r, policy) ==
  IF ~policy.allow \/ policy.request # r THEN "execution-not-authorized"
  ELSE IF ~ClockReadable THEN "invalid-input"
  ELSE EligibilityError(r, clock)

Earlier(s, t) == IF s <= t THEN s ELSE t

\* Mutant of PermitExpiry: the policy alone limits the permit.
PolicyExpiry(r, policy) == clock + policy.ttl

PermitExpiry(r, policy) ==
  Earlier(clock + policy.ttl, health[r.provider].expiresAt)

Authorize(p, r, policy) ==
  /\ p \in Permit \ Issued
  /\ AuthorizeError(r, policy) = "none"
  /\ permits' =
       [q \in Issued \cup {p} |->
          IF q = p
          THEN [request |-> r, issuedAt |-> clock, expiresAt |-> PermitExpiry(r, policy),
                consumed |-> FALSE, evidence |-> health[r.provider], ttl |-> policy.ttl]
          ELSE permits[q]]
  /\ UNCHANGED <<clock, health>>

\* consumeProviderExecutionPermit(), in the order of its checks.
ConsumeError(p, r, t) ==
  IF p \notin Issued THEN "execution-not-authorized"
  ELSE IF permits[p].request # r THEN "permit-request-mismatch"
  ELSE IF t >= permits[p].expiresAt THEN "permit-expired"
  ELSE IF permits[p].consumed THEN "permit-already-consumed"
  ELSE "none"

Consume(p, r, t) ==
  /\ ConsumeError(p, r, t) = "none"
  /\ permits' = [permits EXCEPT ![p].consumed = TRUE]
==============================================================================
