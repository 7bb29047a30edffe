------------------------- MODULE RetryFallbackProofs -------------------------
(***************************************************************************)
(* Theorems about RetryFallback, for every plan, policy, bound on attempts *)
(* and set of HTTP statuses.                                               *)
(***************************************************************************)
EXTENDS RetryFallback, TLAPS

\* The loop index names a listed attempt, and a listed attempt can be sent.
LEMMA PlanType ==
  ASSUME TypeOK
  PROVE  /\ plan \in Seq(Candidate) /\ Len(plan) \in AttemptIndex
         /\ index \in Nat /\ index \in 1..Len(plan) /\ index \in AttemptIndex
         /\ NextExists => index + 1 \in 1..Len(plan)
BY ConstantsAssumption DEF TypeOK, AttemptIndex, NextExists

\* An attempt that failed early is recorded with a record of the right type.
LEMMA EarlyRecordType ==
  ASSUME NEW stage \in Stages, NEW decision \in Continuations \cup Stops,
         NEW code \in ErrorCode
  PROVE  EarlyRecord(stage, decision, code) \in AttemptRecord
BY DEF EarlyRecord, AttemptRecord, NoStatus

\* So is an attempt whose executor settled.
LEMMA SettledRecordType ==
  ASSUME TypeOK, NEW decision \in Continuations \cup Stops
  PROVE  SettledRecord(decision) \in AttemptRecord
<1>1. report \in Report
  BY DEF TypeOK
<1>2. ExecutionState(report) \in ExecutionStates
  BY <1>1 DEF ExecutionState, ExecutionStates, Report
<1>. QED
  BY <1>1, <1>2 DEF SettledRecord, AttemptRecord, Report, Stages

\* Reports, and the reset of the report, have the type of reports.
LEMMA ReportTypes ==
  /\ Silent \in Report
  /\ \A code \in ErrorCode, invoked \in BOOLEAN : ErrorReport(code, invoked) \in Report
  /\ \A network \in {"executed", "not-executed", "unknown"},
        request \in {"accepted", "rejected", "unknown"},
        status \in HttpStatus \cup {NoStatus}, requestId, delayed \in BOOLEAN :
       ResultReport(network, request, status, requestId, delayed) \in Report
<1>1. Silent \in Report
  BY DEF Silent, Report
<1>2. ASSUME NEW code \in ErrorCode, NEW invoked \in BOOLEAN
      PROVE  ErrorReport(code, invoked) \in Report
  BY DEF ErrorReport, Silent, Report
<1>3. ASSUME NEW network \in {"executed", "not-executed", "unknown"},
             NEW request \in {"accepted", "rejected", "unknown"},
             NEW status \in HttpStatus \cup {NoStatus},
             NEW requestId \in BOOLEAN, NEW delayed \in BOOLEAN
      PROVE  ResultReport(network, request, status, requestId, delayed) \in Report
  BY DEF ResultReport, Report
<1>. QED
  BY <1>1, <1>2, <1>3

\* Ending the run, moving on to the next attempt and moving on within an
\* attempt keep the types.
LEMMA FinishType ==
  ASSUME TypeOK, NEW result \in Outcomes, NEW record \in AttemptRecord,
         Finish(result, record)
  PROVE  TypeOK'
BY ReportTypes DEF TypeOK, Finish, input, Phases

LEMMA ContinueType ==
  ASSUME TypeOK, NEW record \in AttemptRecord, ContinueWith(record)
  PROVE  TypeOK'
BY ReportTypes, PlanType DEF TypeOK, ContinueWith, input, Phases

LEMMA GoToType ==
  ASSUME TypeOK, NEW next \in Phases, GoTo(next)
  PROVE  TypeOK'
BY DEF TypeOK, GoTo, input

LEMMA PreExecutionType ==
  ASSUME TypeOK, NEW stage \in Stages, NEW code \in ErrorCode,
         PreExecutionFailure(stage, code)
  PROVE  TypeOK'
<1>1. \A d \in Continuations \cup Stops : EarlyRecord(stage, d, code) \in AttemptRecord
  BY EarlyRecordType
<1>. QED
  BY <1>1, FinishType, ContinueType
     DEF PreExecutionFailure, Outcomes, Continuations, Stops

LEMMA BlockedType ==
  ASSUME TypeOK, NEW stage \in Stages, NEW code \in ErrorCode, BlockedFailure(stage, code)
  PROVE  TypeOK'
BY EarlyRecordType, FinishType DEF BlockedFailure, Outcomes, Stops

LEMMA TypeStep ==
  ASSUME TypeOK, [Next]_vars
  PROVE  TypeOK'
<1>1. CASE CancelBeforeAttempt
  BY <1>1 DEF CancelBeforeAttempt, TypeOK, input, Phases, Outcomes
<1>2. CASE PlanAttempt
  BY <1>2, GoToType, BlockedType DEF PlanAttempt, Phases, Stages, ErrorCode
<1>3. CASE PrepareRequest
  BY <1>3, GoToType, BlockedType, PreExecutionType
     DEF PrepareRequest, Phases, Stages, ErrorCode, PreExecutionErrors, EligibilityErrors
<1>4. CASE ClockUnreadable
  BY <1>4, GoToType DEF ClockUnreadable, Phases
<1>5. CASE Authorize
  BY <1>5, GoToType, BlockedType, PreExecutionType
     DEF Authorize, Phases, Stages, ErrorCode, PreExecutionErrors, EligibilityErrors
<1>6. CASE Execute
  <2>1. CASE PreExecutionFailure("execute", "transport-not-registered")
    BY <2>1, PreExecutionType DEF Stages, ErrorCode, PreExecutionErrors
  <2>2. ASSUME NEW code \in {"transport-provider-mismatch", "transport-protocol-mismatch",
                             "invalid-input", "permit-expired"},
               BlockedFailure("execute", code)
        PROVE  TypeOK'
    BY <2>2, BlockedType DEF Stages, ErrorCode
  <2>3. CASE /\ wire' = [wire EXCEPT ![index] = "sent"]
             /\ phase' = "await"
             /\ UNCHANGED <<input, aborted, index, report, records, outcome>>
    BY <2>3 DEF TypeOK, input, Phases
  <2>. QED
    BY <1>6, <2>1, <2>2, <2>3 DEF Execute
<1>7. CASE Succeed
  BY <1>7, SettledRecordType, FinishType DEF Succeed, Outcomes, Stops
<1>8. CASE StopAmbiguous
  BY <1>8, SettledRecordType, FinishType DEF StopAmbiguous, Outcomes, Stops
<1>9. CASE BlockOnError
  BY <1>9, SettledRecordType, FinishType DEF BlockOnError, Outcomes, Stops
<1>10. CASE CancelAfterResult
  BY <1>10, SettledRecordType, FinishType DEF CancelAfterResult, Outcomes, Stops
<1>11. CASE Exhaust
  BY <1>11, SettledRecordType, FinishType DEF Exhaust, Outcomes, Stops
<1>12. CASE StopByPolicy
  BY <1>12, SettledRecordType, FinishType DEF StopByPolicy, Outcomes, Stops
<1>13. CASE RequireRetryDelay
  BY <1>13, SettledRecordType, FinishType DEF RequireRetryDelay, Outcomes, Stops
<1>14. CASE ContinueAfterResult
  BY <1>14, SettledRecordType, ContinueType DEF ContinueAfterResult, Continuations
<1>15. CASE TransportReturns
  <2>1. PICK network \in {"executed", "not-executed", "unknown"},
             request \in {"accepted", "rejected", "unknown"},
             status \in HttpStatus \cup {NoStatus}, requestId \in BOOLEAN, delayed \in BOOLEAN :
          LET r == ResultReport(network, request, status, requestId, delayed) IN
          /\ report' = r
          /\ wire' = IF NeverLeftTheHost(r)
                     THEN [wire EXCEPT ![index] = "refused"] ELSE wire
    BY <1>15 DEF TransportReturns
  <2>2. report' \in Report
    BY <2>1, ReportTypes
  <2>3. wire' \in [AttemptIndex -> {"idle", "sent", "performed", "refused"}]
    BY <2>1 DEF TypeOK
  <2>4. phase' = "settled" /\ UNCHANGED <<input, aborted, index, records, outcome>>
    BY <1>15 DEF TransportReturns
  <2>. QED
    BY <2>2, <2>3, <2>4 DEF TypeOK, input, Phases
<1>16. CASE TransportFails
  <2>1. \E code \in {"transport-error", "transport-result-invalid", "response-too-large"},
           invoked \in BOOLEAN : report' = ErrorReport(code, invoked)
    BY <1>16, ConstantsAssumption DEF TransportFails
  <2>2. report' \in Report
    BY <2>1, ReportTypes DEF ErrorCode
  <2>. QED
    BY <1>16, <2>2 DEF TransportFails, TypeOK, input, Phases
<1>17. CASE Abort
  BY <1>17 DEF Abort, TypeOK, input
<1>18. ASSUME NEW i \in AttemptIndex, ProviderActs(i)
       PROVE  TypeOK'
  BY <1>18 DEF ProviderActs, TypeOK, input
<1>19. CASE UNCHANGED vars
  BY <1>19 DEF vars, input, TypeOK
<1>. QED
  BY <1>1, <1>2, <1>3, <1>4, <1>5, <1>6, <1>7, <1>8, <1>9, <1>10, <1>11, <1>12,
     <1>13, <1>14, <1>15, <1>16, <1>17, <1>18, <1>19 DEF Next, Run, Transport

\* Every variable of a run keeps the type the code gives it.
THEOREM TypeCorrect == Spec => []TypeOK
<1>1. Init => TypeOK
  BY ConstantsAssumption, ReportTypes
     DEF Init, TypeOK, Phases, AttemptIndex
<1>2. TypeOK /\ [Next]_vars => TypeOK'
  BY TypeStep
<1>. QED
  BY <1>1, <1>2, PTL DEF Spec

-----------------------------------------------------------------------------
(* The ambiguous-stop rule.                                                 *)

\* A result classified as rejected or as not executed is coherent, so what it
\* reports is what happened.
LEMMA KnownNegativeIsCoherent ==
  ASSUME NEW r \in Report, ExecutionState(r) \in {"rejected", "not-executed"}
  PROVE  /\ Coherent(r)
         /\ ExecutionState(r) = "rejected" => r.request = "rejected"
         /\ ExecutionState(r) = "not-executed" => r.network = "not-executed"
<1>1. ~ContradictoryExecution(r)
  BY DEF ExecutionState
<1>2. Coherent(r)
  BY <1>1 DEF ContradictoryExecution, Coherent, TwoHundreds, NoStatus, Report
<1>. QED
  BY <1>1, <1>2 DEF ExecutionState, Report

\* So is one classified as accepted.
LEMMA AcceptedIsCoherent ==
  ASSUME NEW r \in Report, ExecutionState(r) = "accepted"
  PROVE  Coherent(r) /\ r.request = "accepted"
<1>1. ~ContradictoryExecution(r)
  BY DEF ExecutionState
<1>2. Coherent(r)
  BY <1>1 DEF ContradictoryExecution, Coherent, TwoHundreds, NoStatus, Report
<1>. QED
  BY <1>1, <1>2 DEF ExecutionState, Report

\* Before the transport of an attempt is called nothing is pending.
LEMMA NothingPending ==
  ASSUME TypeOK, PendingKnowledge,
         phase \in {"attempt", "request", "authorize", "execute"}
  PROVE  /\ Outstanding \cup Performed = {} /\ outcome = "none"
         /\ \A i \in AttemptIndex : wire[i] \notin {"sent", "performed"}
<1>1. \A i \in Outstanding \cup Performed : FALSE
  BY DEF PendingKnowledge, PendingIsFinal
<1>. QED
  BY <1>1 DEF PendingKnowledge, ReportIsTrue, Outstanding, Performed

\* Nothing becomes pending while the requests stay as they are; this is what
\* every move before the transport call has in common.
LEMMA NothingBecomesPending ==
  ASSUME Outstanding \cup Performed = {}, wire' = wire
  PROVE  (Outstanding \cup Performed)' = {}
BY DEF Outstanding, Performed

\* Moves within an attempt before its transport is called.
LEMMA GoToPending ==
  ASSUME TypeOK, PendingKnowledge, phase \in {"attempt", "request", "authorize"},
         NEW next \in {"request", "authorize", "execute", "threw"}, GoTo(next)
  PROVE  PendingKnowledge'
<1>1. Outstanding \cup Performed = {} /\ outcome = "none"
  BY NothingPending
<1>2. PendingIsFinal'
  BY <1>1, NothingBecomesPending DEF GoTo, PendingIsFinal
<1>3. AheadIsUnsent'
  BY PlanType DEF PendingKnowledge, AheadIsUnsent, GoTo
<1>4. ReportIsTrue'
  BY <1>1 DEF ReportIsTrue, GoTo, ResultIs
<1>. QED
  BY <1>2, <1>3, <1>4 DEF PendingKnowledge

\* An attempt that ended before its transport was called leaves nothing pending,
\* and so does one whose result says that nothing was or will be performed.
LEMMA FinishPending ==
  ASSUME TypeOK, PendingKnowledge, Outstanding \cup Performed = {},
         NEW result \in Outcomes \ {"SUCCEEDED"}, NEW record, Finish(result, record)
  PROVE  PendingKnowledge'
<1>1. PendingIsFinal'
  BY NothingBecomesPending DEF Finish, PendingIsFinal
<1>2. AheadIsUnsent'
  BY PlanType DEF PendingKnowledge, AheadIsUnsent, Finish
<1>3. ReportIsTrue'
  BY DEF ReportIsTrue, Finish, ResultIs, Outcomes
<1>. QED
  BY <1>1, <1>2, <1>3 DEF PendingKnowledge

LEMMA ContinuePending ==
  ASSUME TypeOK, PendingKnowledge, Outstanding \cup Performed = {}, outcome = "none",
         NEW record, ContinueWith(record)
  PROVE  PendingKnowledge'
<1>1. PendingIsFinal'
  BY NothingBecomesPending DEF ContinueWith, PendingIsFinal
<1>2. index \in Nat /\ index + 1 \in AttemptIndex
  BY PlanType, ConstantsAssumption DEF ContinueWith, AttemptIndex
<1>3. AheadIsUnsent'
  BY <1>2 DEF PendingKnowledge, AheadIsUnsent, ContinueWith, AttemptIndex
<1>4. ReportIsTrue'
  BY DEF ReportIsTrue, ContinueWith, ResultIs
<1>. QED
  BY <1>1, <1>3, <1>4 DEF PendingKnowledge

LEMMA PreExecutionPending ==
  ASSUME TypeOK, PendingKnowledge, phase \in {"request", "authorize", "execute"},
         NEW stage, NEW code,
         PreExecutionFailure(stage, code) \/ BlockedFailure(stage, code)
  PROVE  PendingKnowledge'
BY NothingPending, FinishPending, ContinuePending
   DEF PreExecutionFailure, BlockedFailure, Outcomes

\* A result that the loop may go on from leaves nothing pending.
LEMMA KnownNegativePending ==
  ASSUME TypeOK, PendingKnowledge, ResultKnownNegative
  PROVE  Outstanding \cup Performed = {} /\ outcome = "none"
BY DEF PendingKnowledge, PendingIsFinal, ReportIsTrue, ResultKnownNegative, ResultIs

\* The transport of the current attempt is called: it alone is pending.
LEMMA SendPending ==
  ASSUME TypeOK, PendingKnowledge, phase = "execute",
         wire' = [wire EXCEPT ![index] = "sent"], phase' = "await",
         UNCHANGED <<input, aborted, index, report, records, outcome>>
  PROVE  PendingKnowledge'
<1>1. /\ \A i \in AttemptIndex : wire[i] \notin {"sent", "performed"}
      /\ outcome = "none"
  BY NothingPending
<1>2. \A i \in (Outstanding \cup Performed)' : i = index
  BY <1>1 DEF Outstanding, Performed, TypeOK
<1>3. PendingIsFinal'
  BY <1>2 DEF PendingIsFinal, ResultKnownNegative, ResultIs
<1>4. AheadIsUnsent'
  BY PlanType DEF PendingKnowledge, AheadIsUnsent, TypeOK
<1>5. ReportIsTrue'
  BY <1>1 DEF ReportIsTrue, ResultIs
<1>. QED
  BY <1>3, <1>4, <1>5 DEF PendingKnowledge

\* A provider acts: no request becomes pending that was not, and none that was
\* performed is forgotten.
LEMMA ProviderActsPending ==
  ASSUME TypeOK, PendingKnowledge, NEW j \in AttemptIndex, ProviderActs(j)
  PROVE  PendingKnowledge'
<1>1. /\ (Outstanding \cup Performed)' \subseteq Outstanding \cup Performed
      /\ Performed \subseteq Performed'
      /\ \A i \in AttemptIndex : wire[i] = "idle" => wire'[i] = "idle"
  BY DEF ProviderActs, Outstanding, Performed, TypeOK
<1>2. UNCHANGED <<input, aborted, phase, index, report, records, outcome>>
  BY DEF ProviderActs
<1>3. PendingIsFinal'
  BY <1>1, <1>2 DEF PendingKnowledge, PendingIsFinal, ResultKnownNegative, ResultIs,
         EndedUnflagged
<1>4. AheadIsUnsent'
  BY <1>1, <1>2, PlanType DEF PendingKnowledge, AheadIsUnsent
<1>5. ReportIsTrue'
  BY <1>1, <1>2 DEF PendingKnowledge, ReportIsTrue, ResultIs
<1>. QED
  BY <1>3, <1>4, <1>5 DEF PendingKnowledge

\* An honest transport returns: a result from which the loop may go on is one
\* of a request that was refused, or that never left the host.
LEMMA TransportReturnsPending ==
  ASSUME TypeOK, PendingKnowledge, TransportReturns
  PROVE  PendingKnowledge'
<1>1. PICK network \in {"executed", "not-executed", "unknown"},
           request \in {"accepted", "rejected", "unknown"},
           status \in HttpStatus \cup {NoStatus}, requestId \in BOOLEAN, delayed \in BOOLEAN :
        LET r == ResultReport(network, request, status, requestId, delayed) IN
        /\ Honest(r)
        /\ report' = r
        /\ wire' = IF NeverLeftTheHost(r)
                   THEN [wire EXCEPT ![index] = "refused"] ELSE wire
  BY DEF TransportReturns
<1>2. /\ phase = "await" /\ phase' = "settled"
      /\ UNCHANGED <<input, aborted, index, records, outcome>>
  BY DEF TransportReturns
<1>3. report' \in Report /\ report'.kind = "result" /\ Honest(report')
  BY <1>1, ReportTypes DEF ResultReport
<1>4. (Outstanding \cup Performed)' \subseteq Outstanding \cup Performed
  BY <1>1 DEF Outstanding, Performed, TypeOK
<1>5. \A i \in Outstanding \cup Performed : i = index
  BY DEF PendingKnowledge, PendingIsFinal
<1>6. outcome = "none"
  BY <1>2 DEF PendingKnowledge, ReportIsTrue
<1>7. ASSUME ResultKnownNegative'
      PROVE  index \notin (Outstanding \cup Performed)'
  <2>1. /\ Coherent(report')
        /\ report'.request = "rejected" \/ report'.network = "not-executed"
    BY <1>3, <1>7, KnownNegativeIsCoherent DEF ResultKnownNegative, ResultIs
  <2>2. CASE report'.network = "not-executed"
    BY <1>1, <1>2, <2>1, <2>2, PlanType
       DEF NeverLeftTheHost, Outstanding, Performed, TypeOK
  <2>3. CASE report'.request = "rejected"
    BY <1>1, <1>3, <2>1, <2>3, PlanType
       DEF Honest, Outstanding, Performed, TypeOK
  <2>. QED
    BY <2>1, <2>2, <2>3
<1>8. ASSUME ResultIs("accepted")'
      PROVE  index \in Performed'
  <2>1. Coherent(report') /\ report'.request = "accepted"
    BY <1>3, <1>8, AcceptedIsCoherent DEF ResultIs
  <2>2. wire[index] = "performed" /\ wire' = wire
    BY <1>1, <1>3, <2>1 DEF Honest, NeverLeftTheHost, Coherent
  <2>. QED
    BY <1>2, <2>2, PlanType DEF Performed
<1>9. PendingIsFinal'
  BY <1>2, <1>4, <1>5, <1>7 DEF PendingIsFinal
<1>10. AheadIsUnsent'
  BY <1>1, <1>2, PlanType DEF PendingKnowledge, AheadIsUnsent, TypeOK, AttemptIndex
<1>11. ReportIsTrue'
  BY <1>2, <1>3, <1>6, <1>8 DEF ReportIsTrue
<1>. QED
  BY <1>9, <1>10, <1>11 DEF PendingKnowledge

\* A transport throws, or its result is invalid: the request stays pending.
LEMMA TransportFailsPending ==
  ASSUME TypeOK, PendingKnowledge, TransportFails
  PROVE  PendingKnowledge'
<1>1. PICK code \in {"transport-error", "transport-result-invalid", "response-too-large"},
           invoked \in BOOLEAN :
        /\ report' = ErrorReport(code, invoked)
        /\ invoked \/ code = "response-too-large"
  BY ConstantsAssumption DEF TransportFails
<1>2. /\ phase = "await" /\ phase' = "settled"
      /\ UNCHANGED <<input, aborted, index, wire, records, outcome>>
  BY DEF TransportFails
<1>3. report'.kind = "error" /\ (report'.invoked \/ report'.code = "response-too-large")
  BY <1>1 DEF ErrorReport, Silent
<1>4. PendingIsFinal'
  BY <1>2, <1>3
     DEF PendingKnowledge, PendingIsFinal, ResultKnownNegative, ResultIs, Outstanding, Performed
<1>5. AheadIsUnsent'
  BY <1>2 DEF PendingKnowledge, AheadIsUnsent
<1>6. ReportIsTrue'
  BY <1>2, <1>3 DEF PendingKnowledge, ReportIsTrue, ResultIs
<1>. QED
  BY <1>4, <1>5, <1>6 DEF PendingKnowledge

\* The run ends although its last request may have been performed: only with an
\* outcome that says so, or with one a host's own too-large error leads to.
LEMMA FinishSettled ==
  ASSUME TypeOK, PendingKnowledge, phase = "settled",
         NEW result \in Outcomes, NEW record \in AttemptRecord, Finish(result, record),
         \/ result = "AMBIGUOUS_STOP"
         \/ result = "SUCCEEDED" /\ ResultIs("accepted")
         \/ result = "BLOCKED" /\ record.reason = "response-too-large" /\ ~record.invoked
  PROVE  PendingKnowledge'
<1>1. (Outstanding \cup Performed)' = Outstanding \cup Performed /\ Performed' = Performed
  BY DEF Finish, Outstanding, Performed
<1>2. \A i \in Outstanding \cup Performed : i = index
  BY DEF PendingKnowledge, PendingIsFinal
<1>3. result = "BLOCKED" => EndedUnflagged'
  BY DEF Finish, EndedUnflagged, TypeOK
<1>4. PendingIsFinal'
  BY <1>1, <1>2, <1>3 DEF Finish, PendingIsFinal, ResultKnownNegative, ResultIs
<1>5. AheadIsUnsent'
  BY DEF PendingKnowledge, AheadIsUnsent, Finish
<1>6. ReportIsTrue'
  BY <1>1 DEF PendingKnowledge, ReportIsTrue, Finish, ResultIs, Outcomes
<1>. QED
  BY <1>4, <1>5, <1>6 DEF PendingKnowledge

LEMMA PendingStep ==
  ASSUME TypeOK, PendingKnowledge, [Next]_vars
  PROVE  PendingKnowledge'
<1>1. CASE CancelBeforeAttempt
  <2>1. Outstanding \cup Performed = {}
    BY <1>1, NothingPending DEF CancelBeforeAttempt
  <2>2. PendingIsFinal'
    BY <1>1, <2>1, NothingBecomesPending DEF CancelBeforeAttempt, PendingIsFinal
  <2>3. AheadIsUnsent'
    BY <1>1 DEF CancelBeforeAttempt, PendingKnowledge, AheadIsUnsent
  <2>4. ReportIsTrue'
    BY <1>1 DEF CancelBeforeAttempt, ReportIsTrue, ResultIs
  <2>. QED
    BY <2>2, <2>3, <2>4 DEF PendingKnowledge
<1>2. CASE PlanAttempt
  BY <1>2, GoToPending, NothingPending, FinishPending
     DEF PlanAttempt, BlockedFailure, Outcomes
<1>3. CASE PrepareRequest
  BY <1>3, GoToPending, PreExecutionPending DEF PrepareRequest
<1>4. CASE ClockUnreadable
  BY <1>4, GoToPending DEF ClockUnreadable
<1>5. CASE Authorize
  BY <1>5, GoToPending, PreExecutionPending DEF Authorize
<1>6. CASE Execute
  BY <1>6, SendPending, PreExecutionPending DEF Execute
<1>7. CASE Succeed
  BY <1>7, FinishSettled, SettledRecordType DEF Succeed, ResultIs, Outcomes, Stops
<1>8. CASE StopAmbiguous
  BY <1>8, FinishSettled, SettledRecordType DEF StopAmbiguous, ResultIs, Outcomes, Stops
<1>9. CASE BlockOnError
  <2>1. /\ SettledRecord("STOP_BLOCKED").reason = "response-too-large"
        /\ ~SettledRecord("STOP_BLOCKED").invoked
    BY <1>9 DEF BlockOnError, PendingKnowledge, ReportIsTrue, SettledRecord
  <2>2. SettledRecord("STOP_BLOCKED") \in AttemptRecord
    BY <1>9, SettledRecordType DEF BlockOnError, Stops
  <2>. QED
    BY <1>9, <2>1, <2>2, FinishSettled DEF BlockOnError, Outcomes
<1>10. CASE CancelAfterResult \/ Exhaust \/ StopByPolicy \/ RequireRetryDelay
  BY <1>10, KnownNegativePending, FinishPending
     DEF CancelAfterResult, Exhaust, StopByPolicy, RequireRetryDelay, Outcomes
<1>11. CASE ContinueAfterResult
  BY <1>11, KnownNegativePending, ContinuePending DEF ContinueAfterResult
<1>12. CASE TransportReturns
  BY <1>12, TransportReturnsPending
<1>13. CASE TransportFails
  BY <1>13, TransportFailsPending
<1>14. CASE Abort
  BY <1>14 DEF Abort, PendingKnowledge, PendingIsFinal, AheadIsUnsent, ReportIsTrue,
               EndedUnflagged, Outstanding, Performed, ResultKnownNegative, ResultIs
<1>15. ASSUME NEW i \in AttemptIndex, ProviderActs(i)
       PROVE  PendingKnowledge'
  BY <1>15, ProviderActsPending
<1>16. CASE UNCHANGED vars
  BY <1>16 DEF vars, PendingKnowledge, PendingIsFinal, AheadIsUnsent, ReportIsTrue,
               EndedUnflagged, Outstanding, Performed, ResultKnownNegative, ResultIs
<1>. QED
  BY <1>1, <1>2, <1>3, <1>4, <1>5, <1>6, <1>7, <1>8, <1>9, <1>10, <1>11, <1>12,
     <1>13, <1>14, <1>15, <1>16 DEF Next, Run, Transport

\* The invariant that the ambiguous-stop rule of run() maintains.
THEOREM PendingKnowledgeHolds == Spec => []PendingKnowledge
<1>1. Init => PendingKnowledge
  <2>1. ASSUME Init
        PROVE  /\ \A i \in AttemptIndex : wire[i] = "idle"
               /\ phase = "attempt" /\ outcome = "none" /\ index \in AttemptIndex
    BY <2>1, ConstantsAssumption DEF Init, AttemptIndex
  <2>. QED
    BY <2>1 DEF PendingKnowledge, PendingIsFinal, AheadIsUnsent, ReportIsTrue,
                Outstanding, Performed, ResultIs
<1>2. TypeOK /\ PendingKnowledge /\ [Next]_vars => PendingKnowledge'
  BY PendingStep
<1>. QED
  BY <1>1, <1>2, TypeCorrect, PTL DEF Spec

\* At most one request of a run is, or can still be, performed.
THEOREM AtMostOnce == Spec => []WorkAtMostOnce
<1>1. PendingKnowledge => WorkAtMostOnce
  BY DEF PendingKnowledge, PendingIsFinal, WorkAtMostOnce
<1>. QED
  BY <1>1, PendingKnowledgeHolds, PTL

\* The outcome tells the host whether anything was, or may yet be, performed,
\* unless the run ended on a too-large error without its flag.
THEOREM OutcomeIsTruthful == Spec => []OutcomeTellsWhatWasDone
<1>1. PendingKnowledge => OutcomeTellsWhatWasDone
  BY DEF PendingKnowledge, PendingIsFinal, ReportIsTrue, OutcomeTellsWhatWasDone
<1>. QED
  BY <1>1, PendingKnowledgeHolds, PTL

-----------------------------------------------------------------------------
(* Cancellation.                                                            *)

\* From the abort check to the transport call nothing else runs, so the signal
\* is still what the check saw.
SignalReadHolds == phase \in {"request", "authorize", "execute"} => ~aborted

LEMMA SignalIsRead == Spec => []SignalReadHolds
<1>1. Init => SignalReadHolds
  BY DEF Init, SignalReadHolds
<1>2. SignalReadHolds /\ [Next]_vars => SignalReadHolds'
  BY DEF SignalReadHolds, Next, Run, Transport, vars, input, CancelBeforeAttempt,
         PlanAttempt, PrepareRequest, ClockUnreadable, Authorize, Execute, Succeed,
         StopAmbiguous, BlockOnError, CancelAfterResult, Exhaust, StopByPolicy,
         RequireRetryDelay, ContinueAfterResult, TransportReturns, TransportFails,
         Abort, ProviderActs, GoTo, BlockedFailure, PreExecutionFailure, Finish,
         ContinueWith
<1>. QED
  BY <1>1, <1>2, PTL DEF Spec

\* After an abort no unsent attempt is sent.
THEOREM AbortIsFinal == Spec => NoRequestAfterAbort
<1>3. ASSUME TypeOK, SignalReadHolds, Next, aborted
      PROVE  \A i \in AttemptIndex : wire[i] = "idle" => wire'[i] = "idle"
  <2>1. CASE Execute
    BY <1>3, <2>1 DEF SignalReadHolds, Execute, PreExecutionFailure, BlockedFailure,
                      Finish, ContinueWith
  <2>2. CASE TransportReturns
    <3>1. \/ wire' = wire
          \/ wire[index] = "sent" /\ wire' = [wire EXCEPT ![index] = "refused"]
      BY <2>2 DEF TransportReturns, NeverLeftTheHost, Honest
    <3>. QED
      BY <1>3, <3>1 DEF TypeOK
  <2>3. CASE \E i \in AttemptIndex : ProviderActs(i)
    BY <1>3, <2>3 DEF TypeOK, ProviderActs
  <2>4. CASE \/ CancelBeforeAttempt \/ PlanAttempt \/ PrepareRequest \/ ClockUnreadable
             \/ Authorize \/ Succeed \/ StopAmbiguous \/ BlockOnError
             \/ CancelAfterResult \/ Exhaust \/ StopByPolicy \/ RequireRetryDelay
             \/ ContinueAfterResult \/ TransportFails \/ Abort
    BY <2>4 DEF CancelBeforeAttempt, PlanAttempt, PrepareRequest, ClockUnreadable,
         Authorize, Succeed, StopAmbiguous, BlockOnError, CancelAfterResult, Exhaust,
         StopByPolicy, RequireRetryDelay, ContinueAfterResult, TransportFails, Abort,
         GoTo, BlockedFailure, PreExecutionFailure, Finish, ContinueWith
  <2>. QED
    BY <1>3, <2>1, <2>2, <2>3, <2>4 DEF Next, Run, Transport
<1>4. TypeOK /\ SignalReadHolds /\ [Next]_vars
      => [aborted => \A i \in AttemptIndex : wire[i] = "idle" => wire'[i] = "idle"]_vars
  BY <1>3
<1>. QED
  BY <1>4, SignalIsRead, TypeCorrect, PTL DEF Spec, NoRequestAfterAbort

-----------------------------------------------------------------------------
(* The records.                                                             *)

\* A record r of attempt i from which the host's policy lets the run move on to
\* attempt i + 1.
MayFollow(i, r) ==
  LET sameProvider == plan[i].provider = plan[i + 1].provider
      sameTarget == sameProvider /\ plan[i].model = plan[i + 1].model
      reasons == IF sameTarget THEN policy.retryOn ELSE policy.fallbackOn
      statuses == IF sameTarget THEN policy.retryHttp ELSE policy.fallbackHttp
  IN
  /\ sameProvider => ~r.delayed
  /\ sameProvider \/ policy.cross
  /\ r.stage \in {"authorize", "execute"} => plan[i].allow
  /\ \/ /\ r.decision = "CONTINUE_PRE_EXECUTION"
        /\ ~r.invoked /\ r.reason \in reasons \cap PreExecutionErrors
     \/ r.decision = "CONTINUE_NETWORK_NOT_EXECUTED" /\ "network-not-executed" \in reasons
     \/ r.decision = "CONTINUE_PROVIDER_REJECTED" /\ r.status \in statuses

\* A record says of its attempt whether it was sent.
Counted(i) == records[i].invoked <=> wire[i] # "idle"

MovedPast == \A i \in 1..(index - 1) : MayFollow(i, records[i]) /\ Counted(i)

\* The decision of the last record is the one that its outcome follows from.
Explained(result, record) ==
  <<result, record.decision>> \in
    {<<"SUCCEEDED", "STOP_SUCCEEDED">>, <<"BLOCKED", "STOP_BLOCKED">>,
     <<"AMBIGUOUS_STOP", "STOP_AMBIGUOUS">>, <<"CANCELLED", "STOP_CANCELLED">>,
     <<"RETRY_DELAY_REQUIRED", "STOP_RETRY_DELAY">>,
     <<"STOPPED", "STOP_POLICY">>, <<"EXHAUSTED", "STOP_POLICY">>}

\* What the loop knows of the attempt it is in.
PresentKnowledge ==
  /\ phase # "done" => Len(records) = index - 1
  /\ phase \in {"execute", "await", "settled"} => plan[index].allow
  /\ phase \in {"await", "settled"} => wire[index] # "idle"
  /\ phase = "settled" /\ report.kind = "result" => report.invoked
  /\ phase = "attempt" /\ index > 1 => ~aborted

\* How a run ends: before its first attempt, or with a record of its last one.
EndKnowledge ==
  phase = "done" =>
    \/ outcome = "CANCELLED" /\ index = 1 /\ records = <<>> /\ wire[index] = "idle"
    \/ /\ Len(records) = index
       /\ Explained(outcome, records[index])
       /\ Counted(index) \/ EndedUnflagged
       /\ outcome = "EXHAUSTED" => index = Len(plan)
       /\ outcome \in {"STOPPED", "RETRY_DELAY_REQUIRED"} => index < Len(plan)

\* Why the records tell what was done, strong enough to be inductive.
RecordsKnowledge == MovedPast /\ PresentKnowledge /\ EndKnowledge

\* Steps that leave the records and the attempt alone, and send nothing.
LEMMA SteadyRecords ==
  ASSUME TypeOK, MovedPast, UNCHANGED <<input, index, records>>,
         \A i \in AttemptIndex : wire'[i] = "idle" <=> wire[i] = "idle"
  PROVE  MovedPast'
<1>1. \A i \in 1..(index - 1) : i \in AttemptIndex
  BY PlanType, ConstantsAssumption DEF AttemptIndex
<1>2. \A i, r : MayFollow(i, r)' <=> MayFollow(i, r)
  BY DEF MayFollow, input
<1>. QED
  BY <1>1, <1>2 DEF MovedPast, Counted

\* The run ends with a record of the present attempt.
LEMMA FinishRecords ==
  ASSUME TypeOK, RecordsKnowledge, phase # "done",
         NEW result, NEW record \in AttemptRecord, Finish(result, record),
         Explained(result, record),
         \/ record.invoked <=> wire[index] # "idle"
         \/ record.reason = "response-too-large" /\ ~record.invoked,
         result = "EXHAUSTED" => ~NextExists,
         result \in {"STOPPED", "RETRY_DELAY_REQUIRED"} => NextExists
  PROVE  RecordsKnowledge'
<1>1. /\ records \in Seq(AttemptRecord) /\ Len(records) = index - 1 /\ index \in Nat
      /\ index \in 1..Len(plan) /\ Len(plan) \in Nat
  BY PlanType DEF RecordsKnowledge, PresentKnowledge, TypeOK, AttemptIndex
<1>2. /\ records' = Append(records, record) /\ outcome' = result /\ phase' = "done"
      /\ UNCHANGED <<input, aborted, index, wire>>
  BY DEF Finish
<1>3. /\ Len(records') = index /\ records'[index] = record
      /\ \A i \in 1..(index - 1) : records'[i] = records[i]
  BY <1>1, <1>2
<1>4. \A i, r : MayFollow(i, r)' <=> MayFollow(i, r)
  BY <1>2 DEF MayFollow, input
<1>5. MovedPast'
  BY <1>2, <1>3, <1>4 DEF RecordsKnowledge, MovedPast, Counted
<1>6. PresentKnowledge'
  BY <1>2 DEF PresentKnowledge
<1>7. Explained(outcome, records[index])'
  BY <1>2, <1>3 DEF Explained
<1>8. (Counted(index) \/ EndedUnflagged)'
  BY <1>1, <1>2, <1>3 DEF Counted, EndedUnflagged
<1>9. EndKnowledge'
  BY <1>1, <1>2, <1>3, <1>7, <1>8 DEF EndKnowledge, NextExists, input
<1>. QED
  BY <1>5, <1>6, <1>9 DEF RecordsKnowledge

\* The run moves past the present attempt.
LEMMA ContinueRecords ==
  ASSUME TypeOK, RecordsKnowledge, phase \notin {"done", "threw"}, ~aborted,
         NEW record \in AttemptRecord, ContinueWith(record),
         MayFollow(index, record), record.invoked <=> wire[index] # "idle"
  PROVE  RecordsKnowledge'
<1>1. /\ records \in Seq(AttemptRecord) /\ Len(records) = index - 1 /\ index \in Nat
  BY PlanType DEF RecordsKnowledge, PresentKnowledge, TypeOK
<1>2. /\ records' = Append(records, record) /\ index' = index + 1 /\ phase' = "attempt"
      /\ UNCHANGED <<input, aborted, wire, outcome>>
  BY DEF ContinueWith
<1>3. /\ Len(records') = index /\ records'[index] = record
      /\ \A i \in 1..(index - 1) : records'[i] = records[i]
  BY <1>1, <1>2
<1>4. \A i, r : MayFollow(i, r)' <=> MayFollow(i, r)
  BY <1>2 DEF MayFollow, input
<1>5. MovedPast'
  <2>1. SUFFICES ASSUME NEW i \in 1..index
                 PROVE  MayFollow(i, records'[i]) /\ (records'[i].invoked <=> wire[i] # "idle")
    BY <1>1, <1>2, <1>4 DEF MovedPast, Counted
  <2>2. CASE i = index
    BY <1>3, <2>2
  <2>3. CASE i \in 1..(index - 1)
    BY <1>3, <2>3 DEF RecordsKnowledge, MovedPast, Counted
  <2>. QED
    BY <1>1, <2>2, <2>3
<1>6. PresentKnowledge' /\ EndKnowledge'
  BY <1>1, <1>2, <1>3 DEF PresentKnowledge, EndKnowledge
<1>. QED
  BY <1>5, <1>6 DEF RecordsKnowledge

\* Moves within an attempt before its transport is called.
LEMMA GoToRecords ==
  ASSUME TypeOK, RecordsKnowledge, phase \in {"attempt", "request", "authorize"},
         NEW next \in {"request", "authorize", "execute", "threw"}, GoTo(next),
         next = "execute" => plan[index].allow
  PROVE  RecordsKnowledge'
<1>1. MovedPast'
  BY SteadyRecords DEF RecordsKnowledge, GoTo
<1>. QED
  BY <1>1 DEF RecordsKnowledge, PresentKnowledge, EndKnowledge, GoTo, input

\* An attempt that fails before its transport is called is unsent, and is recorded
\* as not invoked; a denied one fails for good.
LEMMA EarlyRecords ==
  ASSUME TypeOK, PendingKnowledge, SignalReadHolds, RecordsKnowledge,
         NEW stage \in Stages, NEW code \in ErrorCode,
         \/ /\ phase \in {"attempt", "request", "authorize", "execute"}
            /\ BlockedFailure(stage, code)
         \/ /\ phase \in {"request", "authorize", "execute"}
            /\ PreExecutionFailure(stage, code) /\ code \in PreExecutionErrors
            /\ stage \in {"authorize", "execute"} => plan[index].allow
  PROVE  RecordsKnowledge'
<1>1. wire[index] = "idle"
  BY DEF PendingKnowledge, AheadIsUnsent
<1>2. \A d \in Continuations \cup Stops : EarlyRecord(stage, d, code) \in AttemptRecord
  BY EarlyRecordType
<1>3. \A d : /\ EarlyRecord(stage, d, code).decision = d
             /\ ~EarlyRecord(stage, d, code).invoked
             /\ ~EarlyRecord(stage, d, code).delayed
             /\ EarlyRecord(stage, d, code).stage = stage
             /\ EarlyRecord(stage, d, code).reason = code
  BY DEF EarlyRecord
<1>4. CASE BlockedFailure(stage, code)
  BY <1>1, <1>2, <1>3, <1>4, FinishRecords DEF BlockedFailure, Explained, Stops
<1>5. CASE /\ phase \in {"request", "authorize", "execute"}
           /\ PreExecutionFailure(stage, code) /\ code \in PreExecutionErrors
           /\ stage \in {"authorize", "execute"} => plan[index].allow
  <2>1. CASE Finish("EXHAUSTED", EarlyRecord(stage, "STOP_POLICY", code)) /\ ~NextExists
    BY <1>1, <1>2, <1>3, <1>5, <2>1, FinishRecords DEF Explained, Stops
  <2>2. CASE Finish("STOPPED", EarlyRecord(stage, "STOP_POLICY", code)) /\ NextExists
    BY <1>1, <1>2, <1>3, <1>5, <2>2, FinishRecords DEF Explained, Stops
  <2>3. CASE /\ ~CrossProviderBlocked(index) /\ ReasonAllows(index, code)
             /\ ContinueWith(EarlyRecord(stage, "CONTINUE_PRE_EXECUTION", code))
    <3>1. MayFollow(index, EarlyRecord(stage, "CONTINUE_PRE_EXECUTION", code))
      BY <1>3, <1>5, <2>3 DEF MayFollow, CrossProviderBlocked, CrossesProvider, ReasonAllows,
                              Transition
    <3>2. ~aborted /\ EarlyRecord(stage, "CONTINUE_PRE_EXECUTION", code) \in AttemptRecord
      BY <1>2, <1>5 DEF SignalReadHolds, Continuations
    <3>. QED
      BY <1>1, <1>3, <1>5, <2>3, <3>1, <3>2, ContinueRecords
  <2>. QED
    BY <1>5, <2>1, <2>2, <2>3 DEF PreExecutionFailure
<1>. QED
  BY <1>4, <1>5

\* A settled attempt was sent, and is recorded so unless its error denies it.
LEMMA SettledRecords ==
  ASSUME TypeOK, PendingKnowledge, RecordsKnowledge, phase = "settled",
         NEW result, NEW decision \in Stops, Finish(result, SettledRecord(decision)),
         \A record : record.decision = decision => Explained(result, record),
         result = "EXHAUSTED" => ~NextExists,
         result \in {"STOPPED", "RETRY_DELAY_REQUIRED"} => NextExists
  PROVE  RecordsKnowledge'
<1>1. SettledRecord(decision) \in AttemptRecord
  BY SettledRecordType
<1>2. /\ SettledRecord(decision).decision = decision
      /\ SettledRecord(decision).invoked = report.invoked
      /\ report.kind = "error" => SettledRecord(decision).reason = report.code
  BY DEF SettledRecord
<1>3. \/ report.invoked
      \/ report.kind = "error" /\ report.code = "response-too-large"
  BY DEF PendingKnowledge, ReportIsTrue, RecordsKnowledge, PresentKnowledge
<1>4. wire[index] # "idle" /\ report.invoked \in BOOLEAN
  BY DEF RecordsKnowledge, PresentKnowledge, TypeOK, Report
<1>. QED
  BY <1>1, <1>2, <1>3, <1>4, FinishRecords

\* The run moves past a result that the policy lets it move past.
LEMMA ContinueAfterResultRecords ==
  ASSUME TypeOK, RecordsKnowledge, ContinueAfterResult
  PROVE  RecordsKnowledge'
<1>. DEFINE d == IF ResultIs("rejected") THEN "CONTINUE_PROVIDER_REJECTED"
                 ELSE "CONTINUE_NETWORK_NOT_EXECUTED"
<1>1. /\ ResultKnownNegative /\ ~aborted /\ ContinuationAllowed /\ ~DelayRequired
      /\ ContinueWith(SettledRecord(d)) /\ phase = "settled" /\ report.kind = "result"
  BY DEF ContinueAfterResult, ResultKnownNegative, ResultIs
<1>2. d \in Continuations
  BY DEF Continuations
<1>3. SettledRecord(d) \in AttemptRecord
  BY <1>2, SettledRecordType
<1>4. /\ SettledRecord(d).decision = d /\ SettledRecord(d).invoked = report.invoked
      /\ SettledRecord(d).delayed = report.delayed /\ SettledRecord(d).status = report.status
      /\ SettledRecord(d).stage = "execute"
  BY DEF SettledRecord
<1>5. report.invoked /\ wire[index] # "idle" /\ plan[index].allow
  BY <1>1 DEF RecordsKnowledge, PresentKnowledge
<1>6. MayFollow(index, SettledRecord(d))
  BY <1>1, <1>4, <1>5 DEF MayFollow, ContinuationAllowed, DelayRequired, CrossProviderBlocked,
                          CrossesProvider, HttpStatusAllows, ReasonAllows, Transition
<1>. QED
  BY <1>1, <1>3, <1>4, <1>5, <1>6, ContinueRecords

LEMMA RecordsStep ==
  ASSUME TypeOK, PendingKnowledge, SignalReadHolds, RecordsKnowledge, [Next]_vars
  PROVE  RecordsKnowledge'
<1>1. CASE CancelBeforeAttempt
  <2>1. MovedPast'
    BY <1>1, SteadyRecords DEF RecordsKnowledge, CancelBeforeAttempt
  <2>2. index = 1
    BY <1>1, PlanType DEF CancelBeforeAttempt, RecordsKnowledge, PresentKnowledge
  <2>3. records = <<>>
    BY <1>1, <2>2 DEF CancelBeforeAttempt, RecordsKnowledge, PresentKnowledge, TypeOK
  <2>4. wire[index] = "idle"
    BY <1>1 DEF CancelBeforeAttempt, PendingKnowledge, AheadIsUnsent
  <2>5. PresentKnowledge' /\ EndKnowledge'
    BY <1>1, <2>2, <2>3, <2>4 DEF CancelBeforeAttempt, PresentKnowledge, EndKnowledge
  <2>. QED
    BY <2>1, <2>5 DEF RecordsKnowledge
<1>2. CASE PlanAttempt
  BY <1>2, GoToRecords, EarlyRecords DEF PlanAttempt, Stages, ErrorCode
<1>3. CASE PrepareRequest
  BY <1>3, GoToRecords, EarlyRecords
     DEF PrepareRequest, Stages, ErrorCode, PreExecutionErrors, EligibilityErrors
<1>4. CASE ClockUnreadable
  BY <1>4, GoToRecords DEF ClockUnreadable
<1>5. CASE Authorize
  BY <1>5, GoToRecords, EarlyRecords
     DEF Authorize, Stages, ErrorCode, PreExecutionErrors, EligibilityErrors
<1>6. CASE Execute
  <2>1. plan[index].allow /\ phase = "execute"
    BY <1>6 DEF Execute, RecordsKnowledge, PresentKnowledge
  <2>2. CASE PreExecutionFailure("execute", "transport-not-registered")
    BY <2>1, <2>2, EarlyRecords DEF Stages, ErrorCode, PreExecutionErrors
  <2>3. ASSUME NEW code \in {"transport-provider-mismatch", "transport-protocol-mismatch",
                             "invalid-input", "permit-expired"},
               BlockedFailure("execute", code)
        PROVE  RecordsKnowledge'
    BY <2>1, <2>3, EarlyRecords DEF Stages, ErrorCode
  <2>4. CASE /\ wire' = [wire EXCEPT ![index] = "sent"]
             /\ phase' = "await"
             /\ UNCHANGED <<input, aborted, index, report, records, outcome>>
    <3>1. /\ wire'[index] = "sent" /\ index \in Nat
          /\ \A i \in 1..(index - 1) : i \in AttemptIndex /\ wire'[i] = wire[i]
      BY <2>4, PlanType, ConstantsAssumption DEF TypeOK, AttemptIndex
    <3>2. \A i, r : MayFollow(i, r)' <=> MayFollow(i, r)
      BY <2>4 DEF MayFollow, input
    <3>3. MovedPast'
      BY <2>4, <3>1, <3>2 DEF RecordsKnowledge, MovedPast, Counted
    <3>4. PresentKnowledge' /\ EndKnowledge'
      BY <2>1, <2>4, <3>1 DEF RecordsKnowledge, PresentKnowledge, EndKnowledge, input
    <3>. QED
      BY <3>3, <3>4 DEF RecordsKnowledge
  <2>. QED
    BY <1>6, <2>2, <2>3, <2>4 DEF Execute
<1>7. CASE Succeed \/ StopAmbiguous \/ BlockOnError
  BY <1>7, SettledRecords DEF Succeed, StopAmbiguous, BlockOnError, ResultIs, Explained, Stops
<1>8. CASE CancelAfterResult \/ Exhaust \/ StopByPolicy \/ RequireRetryDelay
  BY <1>8, SettledRecords
     DEF CancelAfterResult, Exhaust, StopByPolicy, RequireRetryDelay, ResultKnownNegative,
         ResultIs, Explained, Stops
<1>9. CASE ContinueAfterResult
  BY <1>9, ContinueAfterResultRecords
<1>10. CASE TransportReturns
  <2>1. /\ phase = "await" /\ phase' = "settled" /\ wire[index] # "idle" /\ plan[index].allow
        /\ UNCHANGED <<input, aborted, index, records, outcome>>
        /\ Len(records) = index - 1
    BY <1>10 DEF TransportReturns, RecordsKnowledge, PresentKnowledge
  <2>2. report'.kind = "result" /\ report'.invoked
    BY <1>10 DEF TransportReturns, ResultReport
  <2>3. wire' = wire \/ wire' = [wire EXCEPT ![index] = "refused"]
    BY <1>10 DEF TransportReturns
  <2>4. \A i \in AttemptIndex : wire'[i] = "idle" <=> wire[i] = "idle"
    BY <2>1, <2>3 DEF TypeOK
  <2>5. MovedPast'
    BY <2>1, <2>4, SteadyRecords DEF RecordsKnowledge
  <2>6. wire'[index] # "idle"
    BY <2>1, <2>4, PlanType
  <2>7. PresentKnowledge' /\ EndKnowledge'
    BY <2>1, <2>2, <2>6 DEF PresentKnowledge, EndKnowledge, input
  <2>. QED
    BY <2>5, <2>7 DEF RecordsKnowledge
<1>11. CASE TransportFails
  <2>1. report'.kind = "error" /\ phase = "await" /\ phase' = "settled"
        /\ UNCHANGED <<input, aborted, index, wire, records, outcome>>
    BY <1>11 DEF TransportFails, ErrorReport, Silent
  <2>2. MovedPast'
    BY <2>1, SteadyRecords DEF RecordsKnowledge
  <2>3. PresentKnowledge' /\ EndKnowledge'
    BY <2>1 DEF RecordsKnowledge, PresentKnowledge, EndKnowledge, input
  <2>. QED
    BY <2>2, <2>3 DEF RecordsKnowledge
<1>12. CASE Abort
  <2>1. MovedPast'
    BY <1>12, SteadyRecords DEF RecordsKnowledge, Abort
  <2>2. PresentKnowledge' /\ EndKnowledge'
    BY <1>12 DEF Abort, RecordsKnowledge, PresentKnowledge, EndKnowledge, input
  <2>. QED
    BY <2>1, <2>2 DEF RecordsKnowledge
<1>13. CASE (\E j \in AttemptIndex : ProviderActs(j)) \/ UNCHANGED vars
  <2>1. /\ UNCHANGED <<input, aborted, phase, index, report, records, outcome>>
        /\ \A i \in AttemptIndex : wire'[i] = "idle" <=> wire[i] = "idle"
    <3>1. CASE \E j \in AttemptIndex : ProviderActs(j)
      BY <3>1 DEF ProviderActs, TypeOK
    <3>2. CASE UNCHANGED vars
      BY <3>2 DEF vars, input
    <3>. QED
      BY <1>13, <3>1, <3>2
  <2>2. MovedPast'
    BY <2>1, SteadyRecords DEF RecordsKnowledge
  <2>3. PresentKnowledge'
    BY <2>1, PlanType DEF RecordsKnowledge, PresentKnowledge, input
  <2>4. /\ Counted(index)' <=> Counted(index)
        /\ EndedUnflagged' <=> EndedUnflagged
        /\ wire'[index] = "idle" <=> wire[index] = "idle"
    BY <2>1, PlanType DEF Counted, EndedUnflagged
  <2>5. EndKnowledge'
    BY <2>1, <2>4 DEF RecordsKnowledge, EndKnowledge, Explained, input
  <2>. QED
    BY <2>2, <2>3, <2>5 DEF RecordsKnowledge
<1>. QED
  BY <1>1, <1>2, <1>3, <1>4, <1>5, <1>6, <1>7, <1>8, <1>9, <1>10, <1>11, <1>12, <1>13
     DEF Next, Run, Transport

\* The invariant that relates the records to the requests and to the policy.
THEOREM RecordsKnowledgeHolds == Spec => []RecordsKnowledge
<1>1. Init => RecordsKnowledge
  BY DEF Init, RecordsKnowledge, MovedPast, PresentKnowledge, EndKnowledge
<1>2. TypeOK /\ PendingKnowledge /\ SignalReadHolds /\ RecordsKnowledge /\ [Next]_vars
      => RecordsKnowledge'
  BY RecordsStep
<1>. QED
  BY <1>1, <1>2, TypeCorrect, PendingKnowledgeHolds, SignalIsRead, PTL DEF Spec

\* Every move past an attempt is one that the host's policy allows for its reason
\* and its pair of attempts, for any plan and any policy; none follows a denied
\* attempt, or directly one that asked for a delay at the same provider.
THEOREM MovesAreAuthorised == Spec => []ContinuationsAuthorised
<1>1. RecordsKnowledge => ContinuationsAuthorised
  BY DEF RecordsKnowledge, MovedPast, MayFollow, ContinuationsAuthorised
<1>. QED
  BY <1>1, RecordsKnowledgeHolds, PTL

\* The records of a run that ended count its requests, and the last one explains
\* its outcome.
THEOREM RecordsAreTrue == Spec => []RecordsExplainOutcome
<1>1. TypeOK /\ PendingKnowledge /\ RecordsKnowledge => RecordsExplainOutcome
  <2>1. SUFFICES ASSUME TypeOK, PendingKnowledge, RecordsKnowledge, outcome # "none"
                 PROVE  RecordsExplainOutcome
    BY DEF RecordsExplainOutcome
  <2>2. phase = "done" /\ index \in Nat /\ index \in AttemptIndex /\ index \in 1..Len(plan)
    BY <2>1, PlanType DEF PendingKnowledge, ReportIsTrue
  <2>3. \A i \in AttemptIndex : i > index => wire[i] = "idle"
    BY <2>1 DEF PendingKnowledge, AheadIsUnsent
  <2>4. CASE outcome = "CANCELLED" /\ index = 1 /\ records = <<>> /\ wire[index] = "idle"
    <3>1. \A i \in AttemptIndex : wire[i] = "idle"
      BY <2>2, <2>3, <2>4 DEF AttemptIndex
    <3>2. 1..Len(records) = {} /\ {i \in AttemptIndex : wire[i] # "idle"} = {}
      BY <2>4, <3>1
    <3>. QED
      BY <2>4, <3>2 DEF RecordsExplainOutcome
  <2>5. CASE /\ Len(records) = index
             /\ Explained(outcome, records[index])
             /\ Counted(index) \/ EndedUnflagged
             /\ outcome = "EXHAUSTED" => index = Len(plan)
             /\ outcome \in {"STOPPED", "RETRY_DELAY_REQUIRED"} => index < Len(plan)
    <3>1. ASSUME ~EndedUnflagged
          PROVE  {i \in 1..Len(records) : records[i].invoked} = {i \in AttemptIndex : wire[i] # "idle"}
      <4>1. \A i \in 1..index : i \in AttemptIndex /\ Counted(i)
        BY <2>1, <2>2, <2>5, <3>1, ConstantsAssumption DEF RecordsKnowledge, MovedPast, AttemptIndex
      <4>2. \A i \in AttemptIndex : wire[i] # "idle" => i \in 1..index
        BY <2>2, <2>3, ConstantsAssumption DEF AttemptIndex
      <4>. QED
        BY <2>5, <4>1, <4>2 DEF Counted
    <3>2. records # <<>>
      BY <2>2, <2>5
    <3>. QED
      BY <2>5, <3>1, <3>2 DEF RecordsExplainOutcome, Explained
  <2>. QED
    BY <2>1, <2>2, <2>4, <2>5 DEF RecordsKnowledge, EndKnowledge
<1>. QED
  BY <1>1, TypeCorrect, PendingKnowledgeHolds, RecordsKnowledgeHolds, PTL

-----------------------------------------------------------------------------
(* Refinement of AtMostOnceRequest.                                         *)

\* Moves that leave the requests alone and stay on one side of the send.
LEMMA StutterStep ==
  ASSUME wire' = wire,
         \/ phase' = phase
         \/ /\ phase \in {"attempt", "request", "authorize", "execute"}
            /\ phase' \in {"attempt", "request", "authorize", "execute"}
         \/ phase = "await" /\ phase' = "settled"
  PROVE  UNCHANGED Promise!vars
BY DEF Promise!vars, Outstanding, Performed, Refused

\* Moves that end the run.
LEMMA CloseStep ==
  ASSUME wire' = wire, phase \notin {"done", "threw"}, phase' \in {"done", "threw"}
  PROVE  Promise!Next
BY DEF Promise!Next, Promise!Close, Outstanding, Performed, Refused

LEMMA GoToRefines ==
  ASSUME phase \in {"attempt", "request", "authorize", "execute"},
         NEW next \in {"request", "authorize", "execute", "threw"}, GoTo(next)
  PROVE  [Promise!Next]_Promise!vars
BY StutterStep, CloseStep DEF GoTo

LEMMA FinishRefines ==
  ASSUME phase \notin {"done", "threw"}, NEW result, NEW record, Finish(result, record)
  PROVE  [Promise!Next]_Promise!vars
BY CloseStep DEF Finish

LEMMA PreExecutionRefines ==
  ASSUME phase \in {"attempt", "request", "authorize", "execute"}, NEW stage, NEW code,
         PreExecutionFailure(stage, code) \/ BlockedFailure(stage, code)
  PROVE  [Promise!Next]_Promise!vars
BY StutterStep, FinishRefines DEF PreExecutionFailure, BlockedFailure, ContinueWith

\* The transport call is a Send: nothing is pending when it happens.
LEMMA SendRefines ==
  ASSUME TypeOK, PendingKnowledge, phase = "execute",
         wire' = [wire EXCEPT ![index] = "sent"], phase' = "await"
  PROVE  Promise!Next
<1>1. /\ \A i \in AttemptIndex : wire[i] \notin {"sent", "performed"}
      /\ Outstanding = {} /\ Performed = {}
  BY NothingPending
<1>2. index \in AttemptIndex /\ wire[index] = "idle"
  BY PlanType DEF PendingKnowledge, AheadIsUnsent
<1>3. Outstanding' = {index} /\ Performed' = Performed /\ Refused' = Refused
  BY <1>1, <1>2 DEF Outstanding, Performed, Refused, TypeOK
<1>4. Promise!Send(index)
  BY <1>1, <1>2, <1>3 DEF Promise!Send, Promise!Unsent, Outstanding, Performed, Refused
<1>. QED
  BY <1>2, <1>4 DEF Promise!Next

\* A request that leaves "sent" is a Perform or a Refuse, whoever decides it.
LEMMA SettleRefines ==
  ASSUME TypeOK, NEW i \in AttemptIndex, wire[i] = "sent",
         NEW fate \in {"performed", "refused"}, wire' = [wire EXCEPT ![i] = fate],
         phase' = phase \/ (phase = "await" /\ phase' = "settled")
  PROVE  Promise!Next
<1>1. CASE fate = "performed"
  <2>1. /\ i \in Outstanding /\ Outstanding' = Outstanding \ {i}
        /\ Performed' = Performed \cup {i} /\ Refused' = Refused
    BY <1>1 DEF Outstanding, Performed, Refused, TypeOK
  <2>2. Promise!Perform(i)
    BY <2>1 DEF Promise!Perform
  <2>. QED
    BY <2>2 DEF Promise!Next
<1>2. CASE fate = "refused"
  <2>1. /\ i \in Outstanding /\ Outstanding' = Outstanding \ {i}
        /\ Refused' = Refused \cup {i} /\ Performed' = Performed
    BY <1>2 DEF Outstanding, Performed, Refused, TypeOK
  <2>2. Promise!Refuse(i)
    BY <2>1 DEF Promise!Refuse
  <2>. QED
    BY <2>2 DEF Promise!Next
<1>. QED
  BY <1>1, <1>2

LEMMA RefinementStep ==
  ASSUME TypeOK, PendingKnowledge, [Next]_vars
  PROVE  [Promise!Next]_Promise!vars
<1>1. CASE CancelBeforeAttempt
  BY <1>1, CloseStep DEF CancelBeforeAttempt
<1>2. CASE PlanAttempt \/ PrepareRequest \/ ClockUnreadable \/ Authorize
  BY <1>2, GoToRefines, PreExecutionRefines
     DEF PlanAttempt, PrepareRequest, ClockUnreadable, Authorize
<1>3. CASE Execute
  BY <1>3, SendRefines, PreExecutionRefines DEF Execute
<1>4. CASE \/ Succeed \/ StopAmbiguous \/ BlockOnError \/ CancelAfterResult
           \/ Exhaust \/ StopByPolicy \/ RequireRetryDelay
  BY <1>4, FinishRefines
     DEF Succeed, StopAmbiguous, BlockOnError, CancelAfterResult, Exhaust,
         StopByPolicy, RequireRetryDelay, ResultKnownNegative, ResultIs
<1>5. CASE ContinueAfterResult
  <2>1. /\ wire' = wire /\ phase = "settled" /\ phase' = "attempt"
        /\ Outstanding = {} /\ Performed = {}
    BY <1>5, KnownNegativePending
       DEF ContinueAfterResult, ContinueWith, ResultKnownNegative, ResultIs
  <2>2. Promise!Reopen
    BY <2>1 DEF Promise!Reopen, Outstanding, Performed, Refused
  <2>. QED
    BY <2>2 DEF Promise!Next
<1>6. CASE TransportReturns
  <2>1. /\ phase = "await" /\ phase' = "settled" /\ index \in AttemptIndex
        /\ \/ wire' = wire
           \/ wire[index] = "sent" /\ wire' = [wire EXCEPT ![index] = "refused"]
    BY <1>6, PlanType DEF TransportReturns, NeverLeftTheHost, Honest, ResultReport
  <2>. QED
    BY <2>1, StutterStep, SettleRefines
<1>7. CASE TransportFails \/ Abort
  BY <1>7, StutterStep DEF TransportFails, Abort
<1>8. ASSUME NEW i \in AttemptIndex, ProviderActs(i)
      PROVE  Promise!Next
  <2>1. PICK fate \in {"performed", "refused"} : wire' = [wire EXCEPT ![i] = fate]
    BY <1>8 DEF ProviderActs
  <2>. QED
    BY <1>8, <2>1, SettleRefines DEF ProviderActs
<1>9. CASE UNCHANGED vars
  BY <1>9, StutterStep DEF vars
<1>. QED
  BY <1>1, <1>2, <1>3, <1>4, <1>5, <1>6, <1>7, <1>8, <1>9 DEF Next, Run, Transport

\* Every run keeps the promise its caller relies on: it behaves as one that
\* sends a request only after every earlier one is known to have done nothing.
THEOREM RunKeepsPromise == Spec => KeepsPromise
<1>1. Init => Promise!Init
  BY DEF Init, Promise!Init, Outstanding, Performed, Refused
<1>2. TypeOK /\ PendingKnowledge /\ [Next]_vars => [Promise!Next]_Promise!vars
  BY RefinementStep
<1>. QED
  BY <1>1, <1>2, TypeCorrect, PendingKnowledgeHolds, PTL DEF Spec, KeepsPromise, Promise!Spec
==============================================================================
