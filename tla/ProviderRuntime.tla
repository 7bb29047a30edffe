--------------------------- MODULE ProviderRuntime ---------------------------
(***************************************************************************)
(* The provider runtime state (src/src/core/provider-runtime.ts): the last   *)
(* health observation of each registered provider, and the eligibility of a  *)
(* provider and model at an instant.  Its users pass it the instant they     *)
(* read from a clock that the host may replace and set back, and that may    *)
(* fail to be read.                                                         *)
(*                                                                         *)
(* Prices are left out: they never decide whether a request is sent.        *)
(***************************************************************************)
EXTENDS Integers, Sequences, FiniteSets

CONSTANTS
  Provider,
  Registered,         \* the providers of the base registry
  Model,
  Support,            \* what the fabric says of a provider and a model
  MaxTime,            \* bound on the instants explored
  HostObservations    \* the observations the host may report, with their provider

Time == 0..MaxTime
NoTime == -1          \* no readable instant, or none recorded

Availability == {"available", "unavailable", "unknown"}

Observation ==
  {o \in [availability : Availability, observedAt : Time, expiresAt : Nat,
          source : {"host", "transport-result"}] : o.observedAt < o.expiresAt}

NoObservation ==
  [availability |-> "unknown", observedAt |-> NoTime, expiresAt |-> NoTime, source |-> "none"]

ASSUME RuntimeAssumption ==
  /\ MaxTime \in Nat
  /\ Registered \subseteq Provider
  /\ Support \in [Provider -> [Model ->
                   {"supported", "model-not-supported", "model-family-mismatch"}]]
  /\ HostObservations \subseteq Registered \X {o \in Observation : o.source = "host"}

VARIABLES clock, health

ClockReadable == clock # NoTime

RuntimeInit ==
  /\ clock \in Time
  /\ health = [q \in Registered |-> NoObservation]

\* The clock moves, either way, or becomes unreadable.
SetClock ==
  /\ clock' \in (Time \cup {NoTime}) \ {clock}
  /\ UNCHANGED health

\* observeHealth(): the last call wins, whatever its observedAt.
Observe(q, observation) ==
  /\ q \in Registered
  /\ health' = [health EXCEPT ![q] = observation]

\* getHealth(): expired evidence is no evidence.
FreshAt(q, t) == health[q] # NoObservation /\ t < health[q].expiresAt

\* What selectFallback() says of one candidate.
AssessmentAt(q, m, t) ==
  IF q \notin Registered THEN "provider-not-registered"
  ELSE IF ~FreshAt(q, t) THEN "provider-health-not-fresh"
  ELSE IF health[q].availability # "available" THEN "provider-unavailable"
  ELSE IF Support[q][m] # "supported" THEN Support[q][m]
  ELSE "eligible"
==============================================================================
