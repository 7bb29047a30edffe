-------------------------- MODULE GovernedExecution --------------------------
(***************************************************************************)
(* The governed executors over the gate: the single-response executor       *)
(* (src/src/governed-provider-executor.ts), the stream executor             *)
(* (src/src/governed-provider-stream-executor.ts), and the promotion of      *)
(* their results into provider health (src/src/provider-transport-health.ts).*)
(* Any number of callers of the process share the gate, the permits, the     *)
(* transports and the runtime; each execution is synchronous up to its        *)
(* transport call, so that part is one step.  A call that is refused changes  *)
(* nothing and is not a step.                                                *)
(***************************************************************************)
EXTENDS ProviderGate

CONSTANTS
  Call,               \* executions, of either executor
  SingleTransports,   \* providers with a registered transport
  StreamTransports,   \* providers with a registered stream transport
  HttpStatus,         \* the HTTP statuses a transport may report
  TransportResults,   \* the valid results a transport may return
  HealthPolicies      \* the promotion policies the host may state

NoStatus == 0

TransportResult ==
  [network : {"executed", "not-executed", "unknown"},
   request : {"accepted", "rejected", "unknown"}, status : HttpStatus \cup {NoStatus}]

NoResult == [network |-> "none", request |-> "none", status |-> NoStatus]

ASSUME ExecutionAssumption ==
  /\ SingleTransports \subseteq Provider
  /\ StreamTransports \subseteq Provider
  /\ HttpStatus \subseteq 100..599
  /\ TransportResults \subseteq TransportResult
  /\ \A policy \in HealthPolicies :
       /\ policy.availableTtl \in Nat \ {0} /\ policy.unavailableTtl \in Nat \ {0}
       /\ policy.negative \subseteq HttpStatus \cap 400..599

VARIABLE calls

vars == <<clock, health, permits, calls>>

CallRecord ==
  [kind : {"single", "stream"}, request : Request, permit : Permit,
   state : {"open", "returned", "failed"}, startedAt : Time,
   finishedAt : Time \cup {NoTime}, result : TransportResult \cup {NoResult}]

Started == DOMAIN calls

TwoHundreds == 200..299

\* assertSessionConsistency(): a contradictory session is refused.
Contradictory(result) ==
  \/ result.network = "not-executed" /\ (result.request # "unknown" \/ result.status # NoStatus)
  \/ /\ result.request = "accepted"
     /\ result.status # NoStatus /\ result.status \notin TwoHundreds
  \/ result.request = "rejected" /\ result.status \in TwoHundreds

-----------------------------------------------------------------------------
Init ==
  /\ RuntimeInit
  /\ GateInit
  /\ calls = <<>>

TransportsFor(kind) == IF kind = "single" THEN SingleTransports ELSE StreamTransports

Open(c, kind, p, r) ==
  calls' = [d \in Started \cup {c} |->
              IF d = c
              THEN [kind |-> kind, request |-> r, permit |-> p, state |-> "open",
                    startedAt |-> clock, finishedAt |-> NoTime, result |-> NoResult]
              ELSE calls[d]]

\* execute() or open(), up to the transport call.
Execute(c, kind, p, r) ==
  /\ c \in Call \ Started
  /\ r.provider \in TransportsFor(kind)
  /\ ClockReadable
  /\ Consume(p, r, clock)
  /\ Open(c, kind, p, r)
  /\ UNCHANGED <<clock, health>>

\* The finish instant is kept only when it can be trusted.
FinishInstant(c) ==
  IF ClockReadable /\ clock >= calls[c].startedAt THEN clock ELSE NoTime

\* The transport of a single execution returns a valid result.
Return(c) ==
  /\ c \in Started /\ calls[c].state = "open" /\ calls[c].kind = "single"
  /\ \E result \in TransportResults :
       calls' = [calls EXCEPT ![c].state = "returned", ![c].result = result,
                              ![c].finishedAt = FinishInstant(c)]
  /\ UNCHANGED <<clock, health, permits>>

\* The transport of a stream execution returns a session.
ReturnSession(c) ==
  /\ c \in Started /\ calls[c].state = "open" /\ calls[c].kind = "stream"
  /\ \E result \in TransportResults :
       /\ ~Contradictory(result)
       /\ calls' = [calls EXCEPT ![c].state = "returned", ![c].result = result]
  /\ UNCHANGED <<clock, health, permits>>

\* The transport throws, or what it returns is refused.
Fail(c) ==
  /\ c \in Started /\ calls[c].state = "open"
  /\ calls' = [calls EXCEPT ![c].state = "failed"]
  /\ UNCHANGED <<clock, health, permits>>

-----------------------------------------------------------------------------
(* Promotion of a result into provider health.                              *)

Unknown == [availability |-> "unknown", ttl |-> 0]

\* Mutant of Assess: an accepted result needs no status.
AssessAccepted(call, policy) ==
  IF call.finishedAt = NoTime \/ call.result.network # "executed" THEN Unknown
  ELSE IF call.result.request = "accepted"
  THEN [availability |-> "available", ttl |-> policy.availableTtl]
  ELSE IF call.result.request = "rejected" /\ call.result.status \in policy.negative
  THEN [availability |-> "unavailable", ttl |-> policy.unavailableTtl]
  ELSE Unknown

\* assessProviderTransportHealth().
Assess(call, policy) ==
  IF call.finishedAt = NoTime \/ call.result.network # "executed" THEN Unknown
  ELSE IF call.result.request = "accepted" /\ call.result.status \in TwoHundreds
  THEN [availability |-> "available", ttl |-> policy.availableTtl]
  ELSE IF call.result.request = "rejected" /\ call.result.status \in policy.negative
  THEN [availability |-> "unavailable", ttl |-> policy.unavailableTtl]
  ELSE Unknown

\* applyProviderTransportHealthAssessment(), at any time after the return and
\* any number of times.  A stream session is not an execution result.
Promote(c, policy) ==
  /\ c \in Started /\ calls[c].state = "returned" /\ calls[c].kind = "single"
  /\ LET a == Assess(calls[c], policy) IN
       /\ a # Unknown
       /\ Observe(calls[c].request.provider,
                  [availability |-> a.availability, observedAt |-> calls[c].finishedAt,
                   expiresAt |-> calls[c].finishedAt + a.ttl, source |-> "transport-result"])
  /\ UNCHANGED <<clock, permits, calls>>

HostObserves(q, observation) ==
  /\ Observe(q, observation)
  /\ UNCHANGED <<clock, permits, calls>>

Next ==
  \/ SetClock /\ UNCHANGED <<permits, calls>>
  \/ \E o \in HostObservations : HostObserves(o[1], o[2])
  \/ \E p \in Permit, r \in Request, policy \in HostPolicies :
       Authorize(p, r, policy) /\ UNCHANGED calls
  \/ \E c \in Call, kind \in {"single", "stream"}, p \in Permit, r \in Request :
       Execute(c, kind, p, r)
  \/ \E c \in Call : Return(c) \/ ReturnSession(c) \/ Fail(c)
  \/ \E c \in Call, policy \in HealthPolicies : Promote(c, policy)

Spec == Init /\ [][Next]_vars

-----------------------------------------------------------------------------
(* Properties.                                                              *)

\* The variables have the types the code gives them.
TypeOK ==
  /\ clock \in Time \cup {NoTime}
  /\ health \in [Registered -> Observation \cup {NoObservation}]
  /\ Issued \subseteq Permit /\ permits \in [Issued -> PermitRecord]
  /\ Started \subseteq Call /\ calls \in [Started -> CallRecord]

\* A permit pays for one transport call, whichever executors it is handed to,
\* in whatever order their calls overlap, fail or return.
PermitSingleUse ==
  \A c, d \in Started : calls[c].permit = calls[d].permit => c = d

\* Every transport call starts within the authority it was granted on, which no
\* other call uses: for that request, before the policy's time is up, and while the
\* evidence that the provider was available, seen no later than the permit was
\* issued, was still fresh - whatever the clock and the health table did since.
InvocationWithinAuthority ==
  \A c \in Started :
    LET p == permits[calls[c].permit] IN
    /\ calls[c].request = p.request /\ p.consumed
    /\ p.evidence.availability = "available"
    /\ p.evidence.observedAt <= p.issuedAt /\ p.issuedAt < p.evidence.expiresAt
    /\ calls[c].startedAt < p.evidence.expiresAt
    /\ calls[c].startedAt < p.issuedAt + p.ttl
    /\ \A d \in Started : calls[d].permit = calls[c].permit => d = c

\* Why it holds: a permit is spent from the moment a call is paid with it, and
\* its expiry is within the policy's time and the evidence's.
PermitsBoundCalls ==
  /\ \A p \in Issued :
       /\ permits[p].evidence.availability = "available"
       /\ permits[p].evidence.observedAt <= permits[p].issuedAt
       /\ permits[p].issuedAt < permits[p].evidence.expiresAt
       /\ permits[p].expiresAt <= permits[p].evidence.expiresAt
       /\ permits[p].expiresAt <= permits[p].issuedAt + permits[p].ttl
  /\ \A c \in Started :
       /\ calls[c].permit \in Issued /\ permits[calls[c].permit].consumed
       /\ calls[c].request = permits[calls[c].permit].request
       /\ calls[c].startedAt < permits[calls[c].permit].expiresAt

\* An observation attributed to a transport result is explained by one: a call
\* to that provider that really returned, at that instant and not before it
\* started, an executed request answered by a status of the right kind.
Explains(call, q, o) ==
  /\ call.kind = "single" /\ call.state = "returned"
  /\ call.request.provider = q
  /\ call.finishedAt = o.observedAt /\ call.startedAt <= o.observedAt
  /\ call.result.network = "executed"
  /\ \/ /\ o.availability = "available"
        /\ call.result.request = "accepted" /\ call.result.status \in TwoHundreds
     \/ /\ o.availability = "unavailable"
        /\ call.result.request = "rejected"
        /\ \E policy \in HealthPolicies : call.result.status \in policy.negative

ExplainedByCall(q, o) == \E c \in Started : Explains(calls[c], q, o)

\* Promoted health, and the health a permit was issued on, is never made up.
HealthFromEvidence ==
  /\ \A q \in Registered :
       health[q].source = "transport-result" => ExplainedByCall(q, health[q])
  /\ \A p \in Issued :
       permits[p].evidence.source = "transport-result" =>
         ExplainedByCall(permits[p].request.provider, permits[p].evidence)
==============================================================================
