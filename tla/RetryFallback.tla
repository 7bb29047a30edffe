---------------------------- MODULE RetryFallback ----------------------------
(***************************************************************************)
(* One call of run() of the provider retry/fallback orchestrator           *)
(* (src/src/provider-retry-fallback-orchestrator.ts) over the execution     *)
(* gate and the single-attempt executor, with the provider and the caller's *)
(* AbortSignal as the environment.                                          *)
(*                                                                         *)
(* The loop body is synchronous from the abort check to the transport call: *)
(* no other task of the process, an abort included, runs between the phases *)
(* "attempt" and "await".  After the transport promise settles, microtasks  *)
(* of others run before the loop resumes, so "settled" is a phase in which  *)
(* an abort may be signalled.  Providers act at any time, even after the    *)
(* run has returned.  Runs share only the health, the transports and the    *)
(* clock the gate reads; what those can do to a run is the free choice of   *)
(* its gate and registry errors.                                            *)
(*                                                                         *)
(* Evidence labels are left out: provider-transport.ts:86-95 labels every  *)
(* known network or request status "transport-reported" and every absent    *)
(* one "not-reported", so the status alone decides executionState().        *)
(***************************************************************************)
EXTENDS Naturals, Sequences, FiniteSets

CONSTANTS
  Provider, Model,
  MaxAttempts,       \* at most 32 in the code (MAX_ATTEMPTS)
  Plans,             \* the attempt sequences a host may list
  Policies,          \* the continuation policies a host may state
  HttpStatus,        \* the HTTP statuses a transport may report
  TooLargeFlags      \* transportInvoked of a 'response-too-large' error that a
                     \* transport throws itself: the bundled HTTP transports
                     \* set it (http-runtime.ts:11), a host's may not

NoStatus == 0

AttemptIndex == 1..MaxAttempts

EligibilityErrors ==
  {"provider-not-registered", "provider-health-not-fresh", "provider-unavailable",
   "model-not-supported", "model-family-mismatch"}

PreExecutionErrors == EligibilityErrors \cup {"transport-not-registered"}

SafeReasons == PreExecutionErrors \cup {"network-not-executed"}

ErrorCode ==
  PreExecutionErrors \cup
  {"invalid-input", "invalid-prepared-attempt", "execution-not-authorized",
   "permit-expired", "transport-provider-mismatch", "transport-protocol-mismatch",
   "transport-result-invalid", "transport-error", "response-too-large",
   "attempt-planning-failed", "context-preparation-failed",
   "request-preparation-failed"}

ExecutionStates == {"accepted", "rejected", "not-executed", "ambiguous"}

Candidate == [provider : Provider, model : Model, allow : BOOLEAN]

Negative == HttpStatus \cap 400..599

Policy == [retryOn : SUBSET SafeReasons, fallbackOn : SUBSET SafeReasons,
           retryHttp : SUBSET Negative, fallbackHttp : SUBSET Negative,
           cross : BOOLEAN]

ASSUME ConstantsAssumption ==
  /\ MaxAttempts \in Nat \ {0}
  /\ HttpStatus \subseteq 100..599
  /\ TooLargeFlags \subseteq BOOLEAN
  /\ \A s \in Plans : s \in Seq(Candidate) /\ Len(s) \in AttemptIndex
  /\ Policies \subseteq Policy

VARIABLES
  plan, policy,      \* the validated input of the run, never changed
  aborted,           \* the caller's AbortSignal
  phase, index,      \* where the loop is and in which attempt
  report,            \* how the executor settled, while phase = "settled"
  wire,              \* what became of the request of each attempt
  records, outcome   \* the attempt records and the outcome of the result

input == <<plan, policy>>
vars == <<plan, policy, aborted, phase, index, report, wire, records, outcome>>

-----------------------------------------------------------------------------
(* How the executor settles: an error with its transportInvoked flag, or a  *)
(* result validated by validateProviderTransportResult().                   *)

Report ==
  [kind : {"none", "error", "result"}, code : ErrorCode \cup {"none"}, invoked : BOOLEAN,
   network : {"executed", "not-executed", "unknown"},
   request : {"accepted", "rejected", "unknown"},
   status : HttpStatus \cup {NoStatus}, requestId : BOOLEAN, delayed : BOOLEAN]

Silent == [kind |-> "none", code |-> "none", invoked |-> FALSE, network |-> "unknown",
           request |-> "unknown", status |-> NoStatus, requestId |-> FALSE,
           delayed |-> FALSE]

ErrorReport(code, invoked) ==
  [Silent EXCEPT !.kind = "error", !.code = code, !.invoked = invoked]

ResultReport(network, request, status, requestId, delayed) ==
  [kind |-> "result", code |-> "none", invoked |-> TRUE, network |-> network,
   request |-> request, status |-> status, requestId |-> requestId,
   delayed |-> delayed]

TwoHundreds == 200..299

\* Mutant of ContradictoryExecution: reports are taken at their word.
NeverContradictory(r) == FALSE

ContradictoryExecution(r) ==
  \/ /\ r.network = "not-executed"
     /\ r.request # "unknown" \/ r.status # NoStatus \/ r.requestId
  \/ r.request = "accepted" /\ r.status # NoStatus /\ r.status \notin TwoHundreds
  \/ r.request = "rejected" /\ r.status \in TwoHundreds

\* Mutant of ExecutionState: no news of the provider is good news.
UnknownIsNotExecuted(r) ==
  IF ContradictoryExecution(r) THEN "ambiguous"
  ELSE IF r.request # "unknown" THEN r.request ELSE "not-executed"

ExecutionState(r) ==
  IF ContradictoryExecution(r) THEN "ambiguous"
  ELSE IF r.request # "unknown" THEN r.request
  ELSE IF r.network = "not-executed" THEN "not-executed" ELSE "ambiguous"

-----------------------------------------------------------------------------
(* The continuation policy, for moving from attempt i to attempt i + 1.     *)

CrossesProvider(i) == plan[i].provider # plan[i + 1].provider

\* Mutant of Transition: only the models are compared.
TransitionByModel(i) ==
  IF plan[i].model = plan[i + 1].model THEN "retry" ELSE "fallback"

Transition(i) ==
  IF ~CrossesProvider(i) /\ plan[i].model = plan[i + 1].model
  THEN "retry" ELSE "fallback"

CrossProviderBlocked(i) == CrossesProvider(i) /\ ~policy.cross

ReasonAllows(i, reason) ==
  reason \in IF Transition(i) = "retry" THEN policy.retryOn ELSE policy.fallbackOn

HttpStatusAllows(i, status) ==
  status \in IF Transition(i) = "retry" THEN policy.retryHttp ELSE policy.fallbackHttp

NextExists == index < Len(plan)

-----------------------------------------------------------------------------
(* Attempt records and results.                                             *)

Stages == {"plan", "context", "request", "authorize", "execute"}

Continuations ==
  {"CONTINUE_PRE_EXECUTION", "CONTINUE_PROVIDER_REJECTED", "CONTINUE_NETWORK_NOT_EXECUTED"}

Stops ==
  {"STOP_SUCCEEDED", "STOP_POLICY", "STOP_BLOCKED", "STOP_AMBIGUOUS",
   "STOP_RETRY_DELAY", "STOP_CANCELLED"}

Outcomes ==
  {"SUCCEEDED", "STOPPED", "EXHAUSTED", "BLOCKED", "AMBIGUOUS_STOP",
   "RETRY_DELAY_REQUIRED", "CANCELLED"}

AttemptRecord ==
  [stage : Stages, decision : Continuations \cup Stops, invoked : BOOLEAN,
   reason : ErrorCode \cup ExecutionStates \cup {"none"},
   status : HttpStatus \cup {NoStatus}, delayed : BOOLEAN]

\* The record of an attempt that failed before its transport was called.
EarlyRecord(stage, decision, code) ==
  [stage |-> stage, decision |-> decision, invoked |-> FALSE, reason |-> code,
   status |-> NoStatus, delayed |-> FALSE]

\* Mutant of SettledRecord: only results count as invocations.
ErrorsUncounted(decision) ==
  [stage |-> "execute", decision |-> decision, invoked |-> report.kind = "result",
   reason |-> IF report.kind = "error" THEN report.code ELSE ExecutionState(report),
   status |-> report.status, delayed |-> report.delayed]

\* The record of an attempt whose executor settled.
SettledRecord(decision) ==
  [stage |-> "execute", decision |-> decision, invoked |-> report.invoked,
   reason |-> IF report.kind = "error" THEN report.code ELSE ExecutionState(report),
   status |-> report.status, delayed |-> report.delayed]

Finish(result, record) ==
  /\ records' = Append(records, record)
  /\ outcome' = result
  /\ phase' = "done"
  /\ report' = Silent
  /\ UNCHANGED <<input, aborted, index, wire>>

ContinueWith(record) ==
  /\ NextExists
  /\ records' = Append(records, record)
  /\ index' = index + 1
  /\ phase' = "attempt"
  /\ report' = Silent
  /\ UNCHANGED <<input, aborted, wire, outcome>>

GoTo(next) ==
  /\ phase' = next
  /\ UNCHANGED <<input, aborted, index, report, wire, records, outcome>>

\* A governed error without a transport call, continuable when the policy says so.
PreExecutionFailure(stage, code) ==
  \/ /\ ~NextExists
     /\ Finish("EXHAUSTED", EarlyRecord(stage, "STOP_POLICY", code))
  \/ /\ NextExists /\ ~CrossProviderBlocked(index) /\ ReasonAllows(index, code)
     /\ ContinueWith(EarlyRecord(stage, "CONTINUE_PRE_EXECUTION", code))
  \/ /\ NextExists /\ (CrossProviderBlocked(index) \/ ~ReasonAllows(index, code))
     /\ Finish("STOPPED", EarlyRecord(stage, "STOP_POLICY", code))

BlockedFailure(stage, code) ==
  Finish("BLOCKED", EarlyRecord(stage, "STOP_BLOCKED", code))

-----------------------------------------------------------------------------
Init ==
  /\ plan \in Plans /\ policy \in Policies
  /\ aborted \in BOOLEAN
  /\ phase = "attempt" /\ index = 1
  /\ report = Silent
  /\ wire = [i \in AttemptIndex |-> "idle"]
  /\ records = <<>> /\ outcome = "none"

\* The top of the loop; for the first attempt also the check before the loop.
CancelBeforeAttempt ==
  /\ phase = "attempt" /\ aborted
  /\ outcome' = "CANCELLED" /\ phase' = "done"
  /\ UNCHANGED <<input, aborted, index, report, wire, records>>

\* Mutant of PlanAttempt: the signal is not read before an attempt.
PlanWithoutSignal ==
  /\ phase = "attempt"
  /\ GoTo("request")

\* planner.plan() and prepareProviderAttemptContext(): local, may throw.
PlanAttempt ==
  /\ phase = "attempt" /\ ~aborted
  /\ \/ GoTo("request")
     \/ BlockedFailure("plan", "attempt-planning-failed")
     \/ BlockedFailure("context", "context-preparation-failed")

\* The clock reading and prepareProviderRequestEnvelope().
PrepareRequest ==
  /\ phase = "request"
  /\ \/ GoTo("authorize")
     \/ PreExecutionFailure("request", "provider-not-registered")
     \/ \E code \in {"invalid-prepared-attempt", "request-preparation-failed"} :
          BlockedFailure("request", code)

\* An unreadable clock makes run() reject: an orchestrator error is rethrown.
ClockUnreadable ==
  /\ phase = "request"
  /\ GoTo("threw")

\* gate.authorize(): the host policy first, then the clock, then the runtime.
Authorize ==
  /\ phase = "authorize"
  /\ \/ /\ ~plan[index].allow
        /\ BlockedFailure("authorize", "execution-not-authorized")
     \/ /\ plan[index].allow
        /\ \/ BlockedFailure("authorize", "invalid-input")
           \/ \E code \in EligibilityErrors : PreExecutionFailure("authorize", code)
           \/ GoTo("execute")

\* executor.execute() up to the transport call, all before its first await.
Execute ==
  /\ phase = "execute"
  /\ \/ PreExecutionFailure("execute", "transport-not-registered")
     \/ \E code \in {"transport-provider-mismatch", "transport-protocol-mismatch",
                     "invalid-input", "permit-expired"} :
          BlockedFailure("execute", code)
     \/ /\ wire' = [wire EXCEPT ![index] = "sent"]
        /\ phase' = "await"
        /\ UNCHANGED <<input, aborted, index, report, records, outcome>>

-----------------------------------------------------------------------------
(* The environment while the transport is awaited.                          *)

Abort ==
  /\ phase \in {"await", "settled"} /\ ~aborted
  /\ aborted' = TRUE
  /\ UNCHANGED <<input, phase, index, report, wire, records, outcome>>

\* The provider does the work of a request, or turns it down: at any time.
ProviderActs(i) ==
  /\ wire[i] = "sent"
  /\ \E fate \in {"performed", "refused"} : wire' = [wire EXCEPT ![i] = fate]
  /\ UNCHANGED <<input, aborted, phase, index, report, records, outcome>>

\* The reports that do not contradict themselves.
Coherent(r) ==
  /\ r.network = "not-executed" =>
       r.request = "unknown" /\ r.status = NoStatus /\ ~r.requestId
  /\ r.request = "accepted" => r.status \in TwoHundreds \cup {NoStatus}
  /\ r.request = "rejected" => r.status \notin TwoHundreds

NeverLeftTheHost(r) == Coherent(r) /\ r.network = "not-executed"

\* A coherent report of an outcome is true; whatever happened, a transport may
\* also report that it does not know, or contradict itself.
Honest(r) ==
  Coherent(r) =>
    /\ r.request = "accepted" => wire[index] = "performed"
    /\ r.request = "rejected" => wire[index] = "refused"
    /\ r.network = "not-executed" => wire[index] = "sent"

TransportReturns ==
  /\ phase = "await"
  /\ \E network \in {"executed", "not-executed", "unknown"},
        request \in {"accepted", "rejected", "unknown"},
        status \in HttpStatus \cup {NoStatus}, requestId, delayed \in BOOLEAN :
       LET r == ResultReport(network, request, status, requestId, delayed) IN
       /\ Honest(r)
       /\ report' = r
       \* A request that never left the host will not be performed later.
       /\ wire' = IF NeverLeftTheHost(r)
                  THEN [wire EXCEPT ![index] = "refused"] ELSE wire
  /\ phase' = "settled"
  /\ UNCHANGED <<input, aborted, index, records, outcome>>

\* The transport throws or its result is invalid: the executor keeps only a
\* code, except that it rethrows a transport's own 'response-too-large' as it is.
TransportFails ==
  /\ phase = "await"
  /\ report' \in {ErrorReport(code, TRUE) :
                    code \in {"transport-error", "transport-result-invalid",
                              "response-too-large"}}
             \cup {ErrorReport("response-too-large", flag) : flag \in TooLargeFlags}
  /\ phase' = "settled"
  /\ UNCHANGED <<input, aborted, index, wire, records, outcome>>

-----------------------------------------------------------------------------
(* The loop resumes with what the executor returned or threw.               *)

ResultIs(state) ==
  phase = "settled" /\ report.kind = "result" /\ ExecutionState(report) = state

ResultKnownNegative == ResultIs("rejected") \/ ResultIs("not-executed")

Succeed ==
  /\ ResultIs("accepted")
  /\ Finish("SUCCEEDED", SettledRecord("STOP_SUCCEEDED"))

StopAmbiguous ==
  /\ \/ ResultIs("ambiguous")
     \/ phase = "settled" /\ report.kind = "error" /\ report.invoked
  /\ Finish("AMBIGUOUS_STOP", SettledRecord("STOP_AMBIGUOUS"))

\* An executor error that does not say the transport was invoked, and is not
\* one of the continuable codes.
BlockOnError ==
  /\ phase = "settled" /\ report.kind = "error" /\ ~report.invoked
  /\ Finish("BLOCKED", SettledRecord("STOP_BLOCKED"))

\* Mutant of CancelAfterResult: the signal is read before the result is.
CancelAnyResult ==
  /\ phase = "settled" /\ report.kind = "result" /\ aborted
  /\ Finish("CANCELLED", SettledRecord("STOP_CANCELLED"))

CancelAfterResult ==
  /\ ResultKnownNegative /\ aborted
  /\ Finish("CANCELLED", SettledRecord("STOP_CANCELLED"))

\* Mutant of Exhaust: the end of the list is met only by a rejection.
ExhaustRejected ==
  /\ ResultIs("rejected") /\ ~aborted /\ ~NextExists
  /\ Finish("EXHAUSTED", SettledRecord("STOP_POLICY"))

Exhaust ==
  /\ ResultKnownNegative /\ ~aborted /\ ~NextExists
  /\ Finish("EXHAUSTED", SettledRecord("STOP_POLICY"))

ContinuationAllowed ==
  /\ ~CrossProviderBlocked(index)
  /\ IF ResultIs("rejected")
     THEN report.status # NoStatus /\ HttpStatusAllows(index, report.status)
     ELSE ReasonAllows(index, "network-not-executed")

StopByPolicy ==
  /\ ResultKnownNegative /\ ~aborted /\ NextExists
  /\ ~ContinuationAllowed
  /\ Finish("STOPPED", SettledRecord("STOP_POLICY"))

\* Mutant of DelayRequired: the delay is kept only for the same model.
DelayForModel == report.delayed /\ Transition(index) = "retry"

DelayRequired == report.delayed /\ ~CrossesProvider(index)

RequireRetryDelay ==
  /\ ResultKnownNegative /\ ~aborted /\ NextExists
  /\ ContinuationAllowed /\ DelayRequired
  /\ Finish("RETRY_DELAY_REQUIRED", SettledRecord("STOP_RETRY_DELAY"))

\* Mutant of ContinueAfterResult: the signal is left to the top of the loop.
ContinueAborted ==
  /\ ResultKnownNegative /\ NextExists
  /\ ContinuationAllowed /\ ~DelayRequired
  /\ ContinueWith(SettledRecord(IF ResultIs("rejected")
                                THEN "CONTINUE_PROVIDER_REJECTED"
                                ELSE "CONTINUE_NETWORK_NOT_EXECUTED"))

ContinueAfterResult ==
  /\ ResultKnownNegative /\ ~aborted /\ NextExists
  /\ ContinuationAllowed /\ ~DelayRequired
  /\ ContinueWith(SettledRecord(IF ResultIs("rejected")
                                THEN "CONTINUE_PROVIDER_REJECTED"
                                ELSE "CONTINUE_NETWORK_NOT_EXECUTED"))

-----------------------------------------------------------------------------
Run ==
  \/ CancelBeforeAttempt \/ PlanAttempt \/ PrepareRequest \/ ClockUnreadable
  \/ Authorize \/ Execute
  \/ Succeed \/ StopAmbiguous \/ BlockOnError \/ CancelAfterResult \/ Exhaust
  \/ StopByPolicy \/ RequireRetryDelay \/ ContinueAfterResult

Transport == TransportReturns \/ TransportFails

Next ==
  \/ Run
  \/ Transport
  \/ Abort
  \/ \E i \in AttemptIndex : ProviderActs(i)

Spec == Init /\ [][Next]_vars

\* The engine runs a task that can run, and a transport promise settles: the
\* bundled transports race their work with a timer (http-runtime.ts:123).
FairSpec == Spec /\ WF_vars(Run) /\ WF_vars(Transport)
-----------------------------------------------------------------------------
(* Properties.                                                              *)

Outstanding == {i \in AttemptIndex : wire[i] = "sent"}
Performed == {i \in AttemptIndex : wire[i] = "performed"}
Refused == {i \in AttemptIndex : wire[i] = "refused"}

Phases == {"attempt", "request", "authorize", "execute", "await", "settled",
           "done", "threw"}

\* The variables have the types the code gives them.
TypeOK ==
  /\ plan \in Plans /\ policy \in Policies
  /\ aborted \in BOOLEAN
  /\ phase \in Phases
  /\ index \in 1..Len(plan)
  /\ report \in Report
  /\ wire \in [AttemptIndex -> {"idle", "sent", "performed", "refused"}]
  /\ records \in Seq(AttemptRecord)
  /\ outcome \in Outcomes \cup {"none"}

\* Whatever a run retries or falls back to, at most one of its requests is, or
\* can still be, performed by a provider: work and cost are never duplicated,
\* however late a provider acts and whatever transports report or throw
\* (the ambiguous-stop rule of run()).
WorkAtMostOnce ==
  \A i, j \in Outstanding \cup Performed : i = j

\* Attempts to come are unsent, and so is the current one until it is executed.
AheadIsUnsent ==
  /\ \A i \in AttemptIndex : i > index => wire[i] = "idle"
  /\ phase \in {"attempt", "request", "authorize", "execute"} => wire[index] = "idle"

\* The run ended on a too-large error that its transport threw without the flag.
EndedUnflagged ==
  /\ records # <<>>
  /\ records[Len(records)].reason = "response-too-large" /\ ~records[Len(records)].invoked

\* A request that a provider may have performed or may yet perform is the
\* current one, and the loop is not at a point from which it could go on.
PendingIsFinal ==
  \A i \in Outstanding \cup Performed :
    /\ i = index
    /\ phase \in {"await", "settled", "done"}
    /\ ~ResultKnownNegative
    /\ phase = "done" => \/ outcome \in {"SUCCEEDED", "AMBIGUOUS_STOP"}
                         \/ outcome = "BLOCKED" /\ EndedUnflagged

\* What is reported as done was done, and an outcome is there at the end only.
ReportIsTrue ==
  /\ ResultIs("accepted") \/ outcome = "SUCCEEDED" => index \in Performed
  /\ phase = "settled" => \/ report.kind = "result"
                          \/ report.kind = "error" /\ (report.invoked \/ report.code = "response-too-large")
  /\ outcome # "none" <=> phase = "done"

\* Why WorkAtMostOnce holds, strong enough to be inductive.
PendingKnowledge == AheadIsUnsent /\ PendingIsFinal /\ ReportIsTrue

\* The run implements the promise of AtMostOnceRequest: it sends a request only
\* when every earlier one was provably not performed and never will be.
Promise == INSTANCE AtMostOnceRequest WITH
  Attempt <- AttemptIndex,
  status <- IF phase \in {"done", "threw"} THEN "closed"
            ELSE IF phase \in {"await", "settled"} THEN "inflight" ELSE "ready",
  outstanding <- Outstanding, performed <- Performed, refused <- Refused

KeepsPromise == Promise!Spec

\* A host that reads a result other than SUCCEEDED or AMBIGUOUS_STOP, or sees
\* run() reject, may start a new run: nothing it sent was, or will be,
\* performed.  The exception is a too-large error without its flag, which makes
\* the result BLOCKED.  SUCCEEDED is reported only of a request that was performed.
OutcomeTellsWhatWasDone ==
  /\ \/ outcome \in {"STOPPED", "EXHAUSTED", "RETRY_DELAY_REQUIRED", "CANCELLED"}
     \/ outcome = "BLOCKED" /\ ~EndedUnflagged
     \/ phase = "threw"
     => Outstanding \cup Performed = {}
  /\ outcome = "SUCCEEDED" => index \in Performed

\* Every move past an attempt is one that the host's continuation policy allows
\* for exactly that pair of attempts and that reason, and none is past an
\* attempt whose execution policy was consulted and denied it; a request never
\* follows directly on one to the same provider that asked for a delay.
ContinuationsAuthorised ==
  \A i \in 1..(index - 1) :
    LET r == records[i]
        sameProvider == plan[i].provider = plan[i + 1].provider
        sameTarget == sameProvider /\ plan[i].model = plan[i + 1].model
        reasons == IF sameTarget THEN policy.retryOn ELSE policy.fallbackOn
        statuses == IF sameTarget THEN policy.retryHttp ELSE policy.fallbackHttp
    IN
    /\ sameProvider \/ policy.cross
    /\ r.stage \in {"authorize", "execute"} => plan[i].allow
    /\ CASE r.decision = "CONTINUE_PRE_EXECUTION" ->
              ~r.invoked /\ r.reason \in reasons \cap PreExecutionErrors
         [] r.decision = "CONTINUE_NETWORK_NOT_EXECUTED" ->
              "network-not-executed" \in reasons
         [] r.decision = "CONTINUE_PROVIDER_REJECTED" -> r.status \in statuses
         [] OTHER -> FALSE
    /\ sameProvider /\ r.delayed => wire[i + 1] = "idle"

\* Once the caller's signal is aborted no further request is sent.
NoRequestAfterAbort ==
  [][aborted => \A i \in AttemptIndex : wire[i] = "idle" => wire'[i] = "idle"]_vars

\* The records tell what was done: transportInvocations, counted from them by
\* finalResult(), is the number of requests handed to transports (with the same
\* exception), and the last record explains the outcome: a run that ended never
\* says it went on, it says CANCELLED only of a recorded stop or of no attempt at
\* all, and EXHAUSTED exactly when policy stopped it at the last listed attempt.
RecordsExplainOutcome ==
  outcome # "none" =>
  /\ ~EndedUnflagged =>
       {i \in 1..Len(records) : records[i].invoked} = {i \in AttemptIndex : wire[i] # "idle"}
  /\ IF records = <<>> THEN outcome = "CANCELLED"
     ELSE /\ <<outcome, records[Len(records)].decision>> \in
               {<<"SUCCEEDED", "STOP_SUCCEEDED">>, <<"BLOCKED", "STOP_BLOCKED">>,
                <<"AMBIGUOUS_STOP", "STOP_AMBIGUOUS">>, <<"CANCELLED", "STOP_CANCELLED">>,
                <<"RETRY_DELAY_REQUIRED", "STOP_RETRY_DELAY">>,
                <<"STOPPED", "STOP_POLICY">>, <<"EXHAUSTED", "STOP_POLICY">>}
          /\ outcome = "EXHAUSTED" => Len(records) = Len(plan)
          /\ outcome \in {"STOPPED", "RETRY_DELAY_REQUIRED"} => Len(records) < Len(plan)

\* Every run ends: with a result, or by rejecting.
Termination == <>(phase \in {"done", "threw"})
==============================================================================
