-------------------------- MODULE AtMostOnceRequest --------------------------
(***************************************************************************)
(* What a governed run promises to its caller, without saying how: of all  *)
(* the attempts a run may send to providers, a new one is sent only once    *)
(* every earlier one is known to have done, and to be able to do, nothing.  *)
(* RetryFallback implements this specification.                             *)
(***************************************************************************)
EXTENDS FiniteSets

CONSTANT Attempt        \* identities of the attempts a run may send

VARIABLES status,       \* "ready" to send, "inflight" or "closed"
          outstanding,  \* attempts sent that a provider may still perform
          performed,    \* attempts a provider has performed
          refused       \* attempts that no provider will ever perform

vars == <<status, outstanding, performed, refused>>

Unsent == Attempt \ (outstanding \cup performed \cup refused)

Init ==
  /\ status = "ready"
  /\ outstanding = {} /\ performed = {} /\ refused = {}

Send(a) ==
  /\ status = "ready" /\ outstanding = {} /\ performed = {}
  /\ a \in Unsent
  /\ status' = "inflight"
  /\ outstanding' = {a}
  /\ UNCHANGED <<performed, refused>>

\* A provider may perform a sent attempt at any time, even after the run ended.
Perform(a) ==
  /\ a \in outstanding
  /\ outstanding' = outstanding \ {a}
  /\ performed' = performed \cup {a}
  /\ UNCHANGED <<status, refused>>

Refuse(a) ==
  /\ a \in outstanding
  /\ outstanding' = outstanding \ {a}
  /\ refused' = refused \cup {a}
  /\ UNCHANGED <<status, performed>>

Reopen ==
  /\ status = "inflight" /\ outstanding = {} /\ performed = {}
  /\ status' = "ready"
  /\ UNCHANGED <<outstanding, performed, refused>>

Close ==
  /\ status # "closed"
  /\ status' = "closed"
  /\ UNCHANGED <<outstanding, performed, refused>>

Next ==
  \/ \E a \in Attempt : Send(a) \/ Perform(a) \/ Refuse(a)
  \/ Reopen
  \/ Close

Spec == Init /\ [][Next]_vars
==============================================================================
