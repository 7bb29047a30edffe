----------------------- MODULE GovernedExecutionProofs -----------------------
(***************************************************************************)
(* Theorems about GovernedExecution: any number of permits, calls, providers *)
(* and instants, and any behaviour of the clock.                             *)
(***************************************************************************)
EXTENDS GovernedExecution, TLAPS

\* Permits are issued on fresh evidence that the provider is available.
LEMMA AuthorizeFacts ==
  ASSUME TypeOK, NEW p \in Permit, NEW r \in Request, NEW policy \in HostPolicies,
         Authorize(p, r, policy)
  PROVE  /\ clock \in Time /\ r.provider \in Registered
         /\ policy \in ExecutionPolicy
         /\ health[r.provider] \in Observation
         /\ health[r.provider].availability = "available"
         /\ health[r.provider].observedAt <= clock
         /\ clock < health[r.provider].expiresAt
<1>1. AuthorizeError(r, policy) = "none"
  BY DEF Authorize
<1>2. clock \in Time /\ EligibilityError(r, clock) = "none"
  BY <1>1 DEF AuthorizeError, ClockReadable, TypeOK
<1>3. AssessmentAt(r.provider, r.model, clock) = "eligible"
  <2>1. AssessmentAt(r.provider, r.model, clock) # "none"
    BY RuntimeAssumption, GateAssumption DEF AssessmentAt
  <2>. QED
    BY <1>2, <2>1 DEF EligibilityError
<1>4. ~(health[r.provider].observedAt > clock)
  BY <1>2, <1>3 DEF EligibilityError
<1>5. /\ r.provider \in Registered /\ FreshAt(r.provider, clock)
      /\ health[r.provider].availability = "available"
  BY <1>3, RuntimeAssumption, GateAssumption DEF AssessmentAt
<1>6. health[r.provider] \in Observation
  BY <1>5 DEF FreshAt, TypeOK
<1>. QED
  BY <1>2, <1>4, <1>5, <1>6, GateAssumption DEF FreshAt, Observation, Time

\* The permit that is issued, and the others as they were.
LEMMA AuthorizeEffect ==
  ASSUME TypeOK, NEW p \in Permit, NEW r \in Request, NEW policy \in HostPolicies,
         Authorize(p, r, policy)
  PROVE  /\ Issued' = Issued \cup {p} /\ p \notin Issued
         /\ \A q \in Issued : permits'[q] = permits[q]
         /\ permits'[p] =
              [request |-> r, issuedAt |-> clock, expiresAt |-> PermitExpiry(r, policy),
               consumed |-> FALSE, evidence |-> health[r.provider], ttl |-> policy.ttl]
         /\ permits' \in [Issued' -> PermitRecord]
<1>1. PermitExpiry(r, policy) \in Nat
  BY AuthorizeFacts DEF PermitExpiry, Earlier, ExecutionPolicy, Observation, Time
<1>2. policy.ttl \in 1..MaxPermitTTL
  BY AuthorizeFacts DEF ExecutionPolicy
<1>3. [request |-> r, issuedAt |-> clock, expiresAt |-> PermitExpiry(r, policy),
       consumed |-> FALSE, evidence |-> health[r.provider], ttl |-> policy.ttl] \in PermitRecord
  BY <1>1, <1>2, AuthorizeFacts DEF PermitRecord
<1>. QED
  BY <1>3 DEF Authorize, Issued, TypeOK

\* A permit that is consumed was issued for the request, had not expired and had
\* not been consumed; nothing else about the permits changes.
LEMMA ConsumeEffect ==
  ASSUME TypeOK, NEW p, NEW r, clock \in Time, Consume(p, r, clock)
  PROVE  /\ p \in Issued /\ Issued' = Issued
         /\ permits[p].request = r /\ clock < permits[p].expiresAt
         /\ ~permits[p].consumed /\ permits'[p] = [permits[p] EXCEPT !.consumed = TRUE]
         /\ \A q \in Issued : q # p => permits'[q] = permits[q]
         /\ permits' \in [Issued' -> PermitRecord]
<1>1. /\ p \in Issued /\ permits[p].request = r /\ ~(clock >= permits[p].expiresAt)
      /\ ~permits[p].consumed
  BY DEF Consume, ConsumeError
<1>2. permits[p] \in PermitRecord
  BY <1>1 DEF TypeOK
<1>3. clock < permits[p].expiresAt
  BY <1>1, <1>2 DEF PermitRecord, Time
<1>4. permits' = [permits EXCEPT ![p].consumed = TRUE]
  BY DEF Consume
<1>5. [permits[p] EXCEPT !.consumed = TRUE] \in PermitRecord
  BY <1>2 DEF PermitRecord
<1>. QED
  BY <1>1, <1>3, <1>4, <1>5 DEF TypeOK, Issued

LEMMA OpenEffect ==
  ASSUME TypeOK, NEW c \in Call \ Started, NEW kind \in {"single", "stream"},
         NEW p \in Permit, NEW r \in Request, clock \in Time, Open(c, kind, p, r)
  PROVE  /\ Started' = Started \cup {c}
         /\ \A d \in Started : calls'[d] = calls[d]
         /\ calls'[c] = [kind |-> kind, request |-> r, permit |-> p, state |-> "open",
                         startedAt |-> clock, finishedAt |-> NoTime, result |-> NoResult]
         /\ calls' \in [Started' -> CallRecord]
<1>1. [kind |-> kind, request |-> r, permit |-> p, state |-> "open",
       startedAt |-> clock, finishedAt |-> NoTime, result |-> NoResult] \in CallRecord
  BY DEF CallRecord
<1>. QED
  BY <1>1 DEF Open, Started, TypeOK

\* What a result is promoted to is an observation.
LEMMA PromotedType ==
  ASSUME TypeOK, NEW c \in Started, NEW policy \in HealthPolicies,
         Assess(calls[c], policy) # Unknown
  PROVE  LET a == Assess(calls[c], policy) IN
         [availability |-> a.availability, observedAt |-> calls[c].finishedAt,
          expiresAt |-> calls[c].finishedAt + a.ttl, source |-> "transport-result"]
         \in Observation
<1>1. calls[c] \in CallRecord
  BY DEF TypeOK
<1>2. calls[c].finishedAt \in Time
  BY <1>1 DEF Assess, CallRecord
<1>3. /\ Assess(calls[c], policy).availability \in Availability
      /\ Assess(calls[c], policy).ttl \in Nat \ {0}
  BY ExecutionAssumption DEF Assess, Availability, Unknown
<1>. QED
  BY <1>2, <1>3 DEF Observation, Time

\* The end of a call: only its state, result and finish instant change.
Settled(c) ==
  /\ Started' = Started /\ calls' \in [Started -> CallRecord]
  /\ \A d \in Started :
       /\ calls'[d].permit = calls[d].permit /\ calls'[d].request = calls[d].request
       /\ calls'[d].startedAt = calls[d].startedAt /\ calls'[d].kind = calls[d].kind
       /\ d # c => calls'[d] = calls[d]

LEMMA SettleEffect ==
  ASSUME TypeOK, NEW c \in Call, Return(c) \/ ReturnSession(c) \/ Fail(c)
  PROVE  c \in Started /\ calls[c].state = "open" /\ Settled(c)
<1>1. c \in Started /\ calls[c].state = "open"
  BY DEF Return, ReturnSession, Fail
<1>2. calls[c] \in CallRecord
  BY <1>1 DEF TypeOK
<1>3. CASE Return(c)
  <2>1. PICK result \in TransportResults :
          calls' = [calls EXCEPT ![c].state = "returned", ![c].result = result,
                                 ![c].finishedAt = FinishInstant(c)]
    BY <1>3 DEF Return
  <2>2. FinishInstant(c) \in Time \cup {NoTime}
    BY DEF FinishInstant, ClockReadable, TypeOK
  <2>3. result \in TransportResult
    BY ExecutionAssumption
  <2>4. [calls[c] EXCEPT !.state = "returned", !.result = result,
                         !.finishedAt = FinishInstant(c)] \in CallRecord
    BY <1>2, <2>2, <2>3 DEF CallRecord
  <2>. QED
    BY <1>1, <1>2, <2>1, <2>4 DEF Settled, Started, TypeOK, CallRecord
<1>4. CASE ReturnSession(c)
  <2>1. PICK result \in TransportResults :
          calls' = [calls EXCEPT ![c].state = "returned", ![c].result = result]
    BY <1>4 DEF ReturnSession
  <2>2. result \in TransportResult
    BY ExecutionAssumption
  <2>3. [calls[c] EXCEPT !.state = "returned", !.result = result] \in CallRecord
    BY <1>2, <2>2 DEF CallRecord
  <2>. QED
    BY <1>1, <1>2, <2>1, <2>3 DEF Settled, Started, TypeOK, CallRecord
<1>5. CASE Fail(c)
  <2>1. [calls[c] EXCEPT !.state = "failed"] \in CallRecord
    BY <1>2 DEF CallRecord
  <2>. QED
    BY <1>1, <1>2, <1>5, <2>1 DEF Fail, Settled, Started, TypeOK, CallRecord
<1>. QED
  BY <1>1, <1>3, <1>4, <1>5

LEMMA TypeStep ==
  ASSUME TypeOK, [Next]_vars
  PROVE  TypeOK'
<1>1. CASE SetClock /\ UNCHANGED <<permits, calls>>
  BY <1>1 DEF SetClock, TypeOK, Issued, Started
<1>2. ASSUME NEW o \in HostObservations, HostObserves(o[1], o[2])
      PROVE  TypeOK'
  BY <1>2, RuntimeAssumption DEF HostObserves, Observe, TypeOK, Issued, Started
<1>3. ASSUME NEW p \in Permit, NEW r \in Request, NEW policy \in HostPolicies,
             Authorize(p, r, policy), UNCHANGED calls
      PROVE  TypeOK'
  BY <1>3, AuthorizeEffect DEF TypeOK, Started, Authorize
<1>4. ASSUME NEW c \in Call, NEW kind \in {"single", "stream"}, NEW p \in Permit,
             NEW r \in Request, Execute(c, kind, p, r)
      PROVE  TypeOK'
  <2>1. clock \in Time
    BY <1>4 DEF Execute, ClockReadable, TypeOK
  <2>2. Consume(p, r, clock) /\ Open(c, kind, p, r) /\ c \in Call \ Started
        /\ UNCHANGED <<clock, health>>
    BY <1>4 DEF Execute
  <2>3. permits' \in [Issued' -> PermitRecord] /\ Issued' \subseteq Permit
    BY <2>1, <2>2, ConsumeEffect DEF TypeOK
  <2>4. calls' \in [Started' -> CallRecord] /\ Started' = Started \cup {c}
    BY <2>1, <2>2, OpenEffect
  <2>. QED
    BY <2>2, <2>3, <2>4 DEF TypeOK
<1>5. ASSUME NEW c \in Call, Return(c) \/ ReturnSession(c) \/ Fail(c)
      PROVE  TypeOK'
  <2>1. UNCHANGED <<clock, health, permits>>
    BY <1>5 DEF Return, ReturnSession, Fail
  <2>. QED
    BY <1>5, <2>1, SettleEffect DEF TypeOK, Settled, Issued
<1>6. ASSUME NEW c \in Call, NEW policy \in HealthPolicies, Promote(c, policy)
      PROVE  TypeOK'
  BY <1>6, PromotedType DEF Promote, Observe, TypeOK, Issued, Started
<1>7. CASE UNCHANGED vars
  BY <1>7 DEF vars, TypeOK, Issued, Started
<1>. QED
  BY <1>1, <1>2, <1>3, <1>4, <1>5, <1>6, <1>7 DEF Next

\* Every variable keeps the type the code gives it.
THEOREM TypeCorrect == Spec => []TypeOK
<1>1. Init => TypeOK
  <2>1. ASSUME Init
        PROVE  Issued = {} /\ Started = {} /\ permits \in [Issued -> PermitRecord]
               /\ calls \in [Started -> CallRecord]
    BY <2>1 DEF Init, GateInit, Issued, Started
  <2>. QED
    BY <2>1 DEF Init, RuntimeInit, TypeOK
<1>2. TypeOK /\ [Next]_vars => TypeOK'
  BY TypeStep
<1>. QED
  BY <1>1, <1>2, PTL DEF Spec

-----------------------------------------------------------------------------
(* Permits bound calls.                                                     *)

\* Steps that leave permits and calls alone.
LEMMA BoundsStutter ==
  ASSUME PermitsBoundCalls, UNCHANGED <<permits, calls>>
  PROVE  PermitsBoundCalls'
BY DEF PermitsBoundCalls, Issued, Started

LEMMA BoundsStep ==
  ASSUME TypeOK, PermitsBoundCalls, PermitSingleUse, [Next]_vars
  PROVE  PermitsBoundCalls' /\ PermitSingleUse'
<1>1. CASE UNCHANGED <<permits, calls>>
  BY <1>1, BoundsStutter DEF PermitSingleUse, Started
<1>2. ASSUME NEW p \in Permit, NEW r \in Request, NEW policy \in HostPolicies,
             Authorize(p, r, policy), UNCHANGED calls
      PROVE  PermitsBoundCalls' /\ PermitSingleUse'
  <2>1. /\ PermitExpiry(r, policy) <= health[r.provider].expiresAt
        /\ PermitExpiry(r, policy) <= clock + policy.ttl
    BY <1>2, AuthorizeFacts DEF PermitExpiry, Earlier, ExecutionPolicy, Observation, Time
  <2>2. /\ permits'[p].evidence = health[r.provider] /\ permits'[p].issuedAt = clock
        /\ permits'[p].expiresAt = PermitExpiry(r, policy) /\ permits'[p].ttl = policy.ttl
    <3>1. permits'[p] =
            [request |-> r, issuedAt |-> clock, expiresAt |-> PermitExpiry(r, policy),
             consumed |-> FALSE, evidence |-> health[r.provider], ttl |-> policy.ttl]
      BY <1>2, AuthorizeEffect
    <3>. QED
      BY <3>1
  <2>3. /\ permits'[p].evidence.availability = "available"
        /\ permits'[p].evidence.observedAt <= permits'[p].issuedAt
        /\ permits'[p].issuedAt < permits'[p].evidence.expiresAt
        /\ permits'[p].expiresAt <= permits'[p].evidence.expiresAt
        /\ permits'[p].expiresAt <= permits'[p].issuedAt + permits'[p].ttl
    BY <1>2, <2>1, <2>2, AuthorizeFacts
  <2>4. /\ Issued' = Issued \cup {p} /\ p \notin Issued
        /\ \A q \in Issued : permits'[q] = permits[q]
    BY <1>2, AuthorizeEffect
  <2>. QED
    BY <1>2, <2>3, <2>4 DEF PermitsBoundCalls, PermitSingleUse, Started
<1>3. ASSUME NEW c \in Call, NEW kind \in {"single", "stream"}, NEW p \in Permit,
             NEW r \in Request, Execute(c, kind, p, r)
      PROVE  PermitsBoundCalls' /\ PermitSingleUse'
  <2>1. clock \in Time /\ Consume(p, r, clock) /\ Open(c, kind, p, r) /\ c \notin Started
    BY <1>3 DEF Execute, ClockReadable, TypeOK
  <2>2. /\ p \in Issued /\ Issued' = Issued
        /\ permits[p].request = r /\ clock < permits[p].expiresAt /\ ~permits[p].consumed
        /\ permits'[p] = [permits[p] EXCEPT !.consumed = TRUE]
        /\ \A q \in Issued : q # p => permits'[q] = permits[q]
    BY <2>1, ConsumeEffect
  <2>3. permits[p] \in PermitRecord
    BY <2>2 DEF TypeOK
  <2>4. /\ Started' = Started \cup {c}
        /\ \A d \in Started : calls'[d] = calls[d]
        /\ calls'[c] = [kind |-> kind, request |-> r, permit |-> p, state |-> "open",
                        startedAt |-> clock, finishedAt |-> NoTime, result |-> NoResult]
    BY <2>1, OpenEffect
  <2>5. \A q \in Issued :
          /\ permits'[q].evidence = permits[q].evidence
          /\ permits'[q].issuedAt = permits[q].issuedAt
          /\ permits'[q].expiresAt = permits[q].expiresAt
          /\ permits'[q].ttl = permits[q].ttl
          /\ permits'[q].request = permits[q].request
          /\ permits[q].consumed => permits'[q].consumed
    BY <2>2, <2>3 DEF PermitRecord
  <2>6. permits'[p].consumed
    BY <2>2, <2>3 DEF PermitRecord
  <2>7. \A d \in Started : calls[d].permit # p
    BY <2>2 DEF PermitsBoundCalls
  <2>8. PermitsBoundCalls'
    <3>1. ASSUME NEW d \in Started
          PROVE  /\ calls'[d].permit \in Issued' /\ permits'[calls'[d].permit].consumed
                 /\ calls'[d].request = permits'[calls'[d].permit].request
                 /\ calls'[d].startedAt < permits'[calls'[d].permit].expiresAt
      BY <2>2, <2>4, <2>5 DEF PermitsBoundCalls
    <3>2. /\ calls'[c].permit \in Issued' /\ permits'[calls'[c].permit].consumed
          /\ calls'[c].request = permits'[calls'[c].permit].request
          /\ calls'[c].startedAt < permits'[calls'[c].permit].expiresAt
      <4>1. calls'[c].permit = p /\ calls'[c].request = r /\ calls'[c].startedAt = clock
        BY <2>4
      <4>. QED
        BY <2>2, <2>5, <2>6, <4>1
    <3>. QED
      BY <2>2, <2>4, <2>5, <3>1, <3>2 DEF PermitsBoundCalls
  <2>9. PermitSingleUse'
    BY <2>4, <2>7 DEF PermitSingleUse
  <2>. QED
    BY <2>8, <2>9
<1>4. ASSUME NEW c \in Call, Return(c) \/ ReturnSession(c) \/ Fail(c)
      PROVE  PermitsBoundCalls' /\ PermitSingleUse'
  <2>1. UNCHANGED permits
    BY <1>4 DEF Return, ReturnSession, Fail
  <2>. QED
    BY <1>4, <2>1, SettleEffect DEF Settled, PermitsBoundCalls, PermitSingleUse, Issued
<1>. QED
  BY <1>1, <1>2, <1>3, <1>4 DEF Next, HostObserves, Promote, vars

\* A permit pays for one transport call, and the calls it pays for start within
\* the authority and the evidence it was issued on.
THEOREM PermitsHold == Spec => [](PermitSingleUse /\ PermitsBoundCalls)
<1>1. Init => PermitSingleUse /\ PermitsBoundCalls
  BY DEF Init, GateInit, PermitSingleUse, PermitsBoundCalls, Issued, Started
<1>2. TypeOK /\ PermitSingleUse /\ PermitsBoundCalls /\ [Next]_vars
      => (PermitSingleUse /\ PermitsBoundCalls)'
  BY BoundsStep
<1>. QED
  BY <1>1, <1>2, TypeCorrect, PTL DEF Spec

\* Whatever the clock and the health table did since the permit was issued, a
\* transport call starts within its policy's time and its evidence's.
THEOREM CallsWithinAuthority == Spec => []InvocationWithinAuthority
<1>1. TypeOK /\ PermitsBoundCalls /\ PermitSingleUse => InvocationWithinAuthority
  <2>. SUFFICES ASSUME TypeOK, PermitsBoundCalls, PermitSingleUse, NEW c \in Started
                PROVE  LET p == permits[calls[c].permit] IN
                       /\ calls[c].request = p.request /\ p.consumed
                       /\ p.evidence.availability = "available"
                       /\ p.evidence.observedAt <= p.issuedAt
                       /\ p.issuedAt < p.evidence.expiresAt
                       /\ calls[c].startedAt < p.evidence.expiresAt
                       /\ calls[c].startedAt < p.issuedAt + p.ttl
                       /\ \A d \in Started : calls[d].permit = calls[c].permit => d = c
    BY DEF InvocationWithinAuthority
  <2>1. calls[c].permit \in Issued /\ permits[calls[c].permit] \in PermitRecord
        /\ calls[c] \in CallRecord
    BY DEF PermitsBoundCalls, TypeOK
  <2>. QED
    BY <2>1 DEF PermitsBoundCalls, PermitSingleUse, PermitRecord, CallRecord, Observation, Time
<1>. QED
  BY <1>1, TypeCorrect, PermitsHold, PTL

-----------------------------------------------------------------------------
(* Promoted health is explained.                                            *)

\* A finish instant is kept of single executions only, and when it is trusted.
FinishTrusted ==
  \A c \in Started : calls[c].finishedAt # NoTime =>
    calls[c].startedAt <= calls[c].finishedAt

\* What returned calls explain stays explained, as nothing touches them again.
LEMMA ExplainedStays ==
  ASSUME NEW q, NEW o, ExplainedByCall(q, o), Started \subseteq Started',
         \A d \in Started : calls[d].state = "returned" => calls'[d] = calls[d]
  PROVE  \E c \in Started' : Explains(calls'[c], q, o)
<1>1. PICK c \in Started : Explains(calls[c], q, o)
  BY DEF ExplainedByCall
<1>2. calls'[c] = calls[c]
  BY <1>1 DEF Explains
<1>. QED
  BY <1>1, <1>2

LEMMA EvidenceKept ==
  ASSUME HealthFromEvidence, Started \subseteq Started',
         \A d \in Started : calls[d].state = "returned" => calls'[d] = calls[d],
         \A q \in Registered : health'[q] = health[q] \/ health'[q].source # "transport-result",
         \A p \in Issued' : p \in Issued /\ permits'[p].evidence = permits[p].evidence
                                       /\ permits'[p].request = permits[p].request
  PROVE  HealthFromEvidence'
<1>1. ASSUME NEW q \in Registered, health'[q].source = "transport-result"
      PROVE  \E c \in Started' : Explains(calls'[c], q, health'[q])
  BY <1>1, ExplainedStays DEF HealthFromEvidence
<1>2. ASSUME NEW p \in Issued', permits'[p].evidence.source = "transport-result"
      PROVE  \E c \in Started' : Explains(calls'[c], permits'[p].request.provider, permits'[p].evidence)
  BY <1>2, ExplainedStays DEF HealthFromEvidence
<1>. QED
  BY <1>1, <1>2 DEF HealthFromEvidence, ExplainedByCall

LEMMA PromotionExplained ==
  ASSUME TypeOK, FinishTrusted, NEW c \in Call, NEW policy \in HealthPolicies, Promote(c, policy)
  PROVE  LET q == calls[c].request.provider
         IN  /\ \A other \in Registered : other # q => health'[other] = health[other]
             /\ q \in Registered => Explains(calls[c], q, health'[q])
<1> DEFINE a == Assess(calls[c], policy)
           o == [availability |-> a.availability, observedAt |-> calls[c].finishedAt,
                 expiresAt |-> calls[c].finishedAt + a.ttl, source |-> "transport-result"]
           q == calls[c].request.provider
<1>1. /\ c \in Started /\ calls[c].state = "returned" /\ calls[c].kind = "single" /\ a # Unknown
      /\ Observe(q, o)
  BY DEF Promote
<1>2. /\ calls[c].finishedAt # NoTime /\ calls[c].result.network = "executed"
      /\ \/ /\ a.availability = "available"
            /\ calls[c].result.request = "accepted" /\ calls[c].result.status \in TwoHundreds
         \/ /\ a.availability = "unavailable"
            /\ calls[c].result.request = "rejected" /\ calls[c].result.status \in policy.negative
  BY <1>1 DEF Assess
<1>3. calls[c].startedAt <= calls[c].finishedAt
  BY <1>1, <1>2 DEF FinishTrusted
<1>4. o.observedAt = calls[c].finishedAt /\ o.availability = a.availability
  OBVIOUS
<1>. HIDE DEF a, o
<1>5. Explains(calls[c], q, o)
  BY <1>1, <1>2, <1>3, <1>4 DEF Explains
<1>6. health' = [health EXCEPT ![q] = o]
  BY <1>1 DEF Observe
<1>. QED
  BY <1>5, <1>6 DEF TypeOK

LEMMA EvidenceStep ==
  ASSUME TypeOK, FinishTrusted, HealthFromEvidence, [Next]_vars
  PROVE  FinishTrusted' /\ HealthFromEvidence'
<1>1. CASE UNCHANGED <<health, permits, calls>>
  BY <1>1 DEF FinishTrusted, HealthFromEvidence, ExplainedByCall, Started, Issued
<1>2. ASSUME NEW o \in HostObservations, HostObserves(o[1], o[2])
      PROVE  FinishTrusted' /\ HealthFromEvidence'
  <2>1. UNCHANGED <<permits, calls>> /\ health' = [health EXCEPT ![o[1]] = o[2]]
    BY <1>2 DEF HostObserves, Observe
  <2>2. o[2].source = "host"
    BY RuntimeAssumption
  <2>3. \A q \in Registered : health'[q] = health[q] \/ health'[q].source # "transport-result"
    BY <2>1, <2>2 DEF TypeOK
  <2>4. HealthFromEvidence'
    BY <2>1, <2>3, EvidenceKept DEF Started, Issued
  <2>. QED
    BY <2>1, <2>4 DEF FinishTrusted, Started
<1>3. ASSUME NEW p \in Permit, NEW r \in Request, NEW policy \in HostPolicies,
             Authorize(p, r, policy), UNCHANGED calls
      PROVE  FinishTrusted' /\ HealthFromEvidence'
  <2>1. /\ Issued' = Issued \cup {p} /\ \A q \in Issued : permits'[q] = permits[q]
        /\ permits'[p].evidence = health[r.provider] /\ permits'[p].request = r
    <3>1. permits'[p] =
            [request |-> r, issuedAt |-> clock, expiresAt |-> PermitExpiry(r, policy),
             consumed |-> FALSE, evidence |-> health[r.provider], ttl |-> policy.ttl]
      BY <1>3, AuthorizeEffect
    <3>. QED
      BY <1>3, <3>1, AuthorizeEffect
  <2>2. r.provider \in Registered /\ health' = health
    BY <1>3, AuthorizeFacts DEF Authorize
  <2>3. ASSUME NEW q \in Issued', permits'[q].evidence.source = "transport-result"
        PROVE  \E c \in Started : Explains(calls[c], permits'[q].request.provider, permits'[q].evidence)
    BY <2>1, <2>2, <2>3 DEF HealthFromEvidence, ExplainedByCall
  <2>. QED
    BY <1>3, <2>2, <2>3 DEF HealthFromEvidence, ExplainedByCall, FinishTrusted, Started
<1>4. ASSUME NEW c \in Call, NEW kind \in {"single", "stream"}, NEW p \in Permit,
             NEW r \in Request, Execute(c, kind, p, r)
      PROVE  FinishTrusted' /\ HealthFromEvidence'
  <2>1. clock \in Time /\ Consume(p, r, clock) /\ Open(c, kind, p, r) /\ c \in Call \ Started
        /\ health' = health
    BY <1>4 DEF Execute, ClockReadable, TypeOK
  <2>2. /\ Started' = Started \cup {c} /\ \A d \in Started : calls'[d] = calls[d]
        /\ calls'[c].finishedAt = NoTime
    <3>1. calls'[c] = [kind |-> kind, request |-> r, permit |-> p, state |-> "open",
                       startedAt |-> clock, finishedAt |-> NoTime, result |-> NoResult]
      BY <2>1, OpenEffect
    <3>. QED
      BY <2>1, <3>1, OpenEffect
  <2>3. \A q \in Issued' : q \in Issued /\ permits'[q].evidence = permits[q].evidence
                                   /\ permits'[q].request = permits[q].request
    <3>1. permits[p] \in PermitRecord
      BY <2>1, ConsumeEffect DEF TypeOK
    <3>. QED
      BY <2>1, <3>1, ConsumeEffect DEF PermitRecord
  <2>4. HealthFromEvidence'
    BY <2>1, <2>2, <2>3, EvidenceKept
  <2>. QED
    BY <2>2, <2>4 DEF FinishTrusted
<1>5. ASSUME NEW c \in Call, Return(c) \/ ReturnSession(c) \/ Fail(c)
      PROVE  FinishTrusted' /\ HealthFromEvidence'
  <2>1. UNCHANGED <<health, permits>> /\ c \in Started /\ calls[c].state = "open" /\ Settled(c)
    BY <1>5, SettleEffect DEF Return, ReturnSession, Fail
  <2>2. \A d \in Started : calls[d].state = "returned" => calls'[d] = calls[d]
    BY <2>1 DEF Settled
  <2>3. HealthFromEvidence'
    BY <2>1, <2>2, EvidenceKept DEF Settled, Issued
  <2>4. calls'[c].finishedAt \in {calls[c].finishedAt, FinishInstant(c)}
    BY <1>5, <2>1 DEF Return, ReturnSession, Fail, TypeOK, CallRecord, Started
  <2>5. FinishInstant(c) # NoTime => calls[c].startedAt <= FinishInstant(c)
    BY <2>1 DEF FinishInstant, TypeOK, CallRecord, Time
  <2>. QED
    BY <2>1, <2>3, <2>4, <2>5 DEF Settled, FinishTrusted
<1>6. ASSUME NEW c \in Call, NEW policy \in HealthPolicies, Promote(c, policy)
      PROVE  FinishTrusted' /\ HealthFromEvidence'
  <2>1. UNCHANGED <<permits, calls>> /\ c \in Started
    BY <1>6 DEF Promote
  <2>2. ASSUME NEW q \in Registered, health'[q].source = "transport-result"
        PROVE  \E d \in Started : Explains(calls[d], q, health'[q])
    <3>1. CASE q = calls[c].request.provider
      BY <1>6, <2>1, <3>1, PromotionExplained
    <3>2. CASE q # calls[c].request.provider
      BY <1>6, <2>2, <3>2, PromotionExplained DEF HealthFromEvidence, ExplainedByCall
    <3>. QED
      BY <3>1, <3>2
  <2>3. Started' = Started /\ Issued' = Issued /\ permits' = permits /\ calls' = calls
    BY <2>1 DEF Started, Issued
  <2>4. \A p \in Issued : permits[p].evidence.source = "transport-result" =>
          \E d \in Started : Explains(calls[d], permits[p].request.provider, permits[p].evidence)
    BY DEF HealthFromEvidence, ExplainedByCall
  <2>5. HealthFromEvidence'
    BY <2>2, <2>3, <2>4 DEF HealthFromEvidence, ExplainedByCall
  <2>. QED
    BY <2>3, <2>5 DEF FinishTrusted
<1>7. CASE SetClock /\ UNCHANGED <<permits, calls>>
  BY <1>1, <1>7 DEF SetClock
<1>8. CASE UNCHANGED vars
  BY <1>1, <1>8 DEF vars
<1>. QED
  BY <1>2, <1>3, <1>4, <1>5, <1>6, <1>7, <1>8 DEF Next

\* Health attributed to a transport result, and the health that permits were
\* issued on, is that of a call which returned it, for any clock and any policies.
THEOREM HealthIsExplained == Spec => []HealthFromEvidence
<1>1. Init => FinishTrusted /\ HealthFromEvidence
  BY DEF Init, RuntimeInit, GateInit, FinishTrusted, HealthFromEvidence, Started, Issued, NoObservation
<1>2. TypeOK /\ FinishTrusted /\ HealthFromEvidence /\ [Next]_vars => (FinishTrusted /\ HealthFromEvidence)'
  BY EvidenceStep
<1>. QED
  BY <1>1, <1>2, TypeCorrect, PTL DEF Spec
==============================================================================
