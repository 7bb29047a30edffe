----------------------------- MODULE Transports -----------------------------
(***************************************************************************)
(* A host's calls through the two HTTP runtimes, one each, under one signal  *)
(* that aborts both at once.  The calls share nothing else.                  *)
(***************************************************************************)
EXTENDS HttpTransport, StreamTransport

vars == <<http, stream, iterations, signal>>

Init == SignalInit /\ HttpInit /\ StreamInit

TypeOK ==
  /\ signal \in BOOLEAN
  /\ http \in HttpCall
  /\ stream \in StreamCall
  /\ iterations \in [Iteration -> IterationState]

CallerAborts ==
  /\ ~signal
  /\ signal' = TRUE
  /\ HttpOnAbort /\ StreamOnAbort
  /\ UNCHANGED iterations

Next ==
  \/ HttpNext /\ UNCHANGED <<stream, iterations>>
  \/ StreamNext /\ UNCHANGED http
  \/ CallerAborts

Spec == Init /\ [][Next]_vars

FairSpec == Spec /\ HttpFairness /\ StreamFairness

-----------------------------------------------------------------------------
\* No request is sent for a call that its host has aborted, or that timed out: a
\* credential that comes late, or a callback that is slow, sends nothing any more
\* (requestJson() and open() ask their controller after each of their awaits).
NothingSentLate ==
  [][/\ http.at # "fetch" /\ http'.at = "fetch" => ~signal /\ ~http.aborted /\ http.outcome = "pending"
     /\ stream.at # "fetch" /\ stream'.at = "fetch" => ~signal /\ ~stream.aborted]_vars

\* A buffered call settles whatever its credential, its fetch and its body do; a
\* stream opens or fails, if its credential comes; and a consumer that waits is
\* answered, whichever iteration's cleanup took away the timer it waited under.
EveryCallSettles ==
  /\ HttpCalling ~> ~HttpCalling
  /\ stream.at \in {"credential", "fetch"} ~> stream.at \notin {"credential", "fetch"}
  /\ \A i \in Iteration : iterations[i].at = "reading" ~> iterations[i].at # "reading"

\* An iteration that ends as complete has delivered one event that ends the answer,
\* and nothing after it: a stream that was cut is never taken for a whole answer.
CompleteIsWhole ==
  \A i \in Iteration :
    iterations[i].how = "complete" => iterations[i].ends = 1 /\ iterations[i].last = "end"

\* However a session is iterated, one iteration delivers its events: no answer is
\* split between two sequences, each of which would look whole.
OneIterationDelivers ==
  \A i, j \in Iteration : iterations[i].given > 0 /\ iterations[j].given > 0 => i = j

\* A result is within the limit, whatever length it declared, and the call it
\* belongs to was not aborted before.
ResultIsBounded ==
  http.outcome \in {"accepted", "rejected"} => http.received <= MaxResponseBytes /\ ~http.aborted
==============================================================================
