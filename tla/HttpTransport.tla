---------------------------- MODULE HttpTransport ----------------------------
(***************************************************************************)
(* A call through the buffering HTTP runtime                                *)
(* (src/src/provider-transports/http-runtime.ts).  The work (credential,     *)
(* fetch, body) races a promise that the timer, the caller's signal and an   *)
(* oversized response reject; it goes on in the background when it has lost. *)
(* Credential, fetch and body are the host's and the network's: each may     *)
(* settle in any way, late, or never.                                       *)
(***************************************************************************)
EXTENDS CallerSignal, Integers

CONSTANTS
  MaxResponseBytes,   \* maxResponseBytes
  ChunkBytes          \* the sizes of the chunks in which a body comes

ASSUME HttpAssumption == MaxResponseBytes \in Nat /\ ChunkBytes \subseteq Nat \ {0}

VARIABLE http

\* Where the work is; whether the AbortController is aborted; what the call settled
\* with; the bytes that were kept of the body.
HttpCall ==
  [at : {"idle", "credential", "fetch", "body", "over"},
   aborted : BOOLEAN,
   outcome : {"pending", "accepted", "rejected", "tooLarge", "failure"},
   received : Nat]

HttpInit == http = [at |-> "idle", aborted |-> FALSE, outcome |-> "pending", received |-> 0]

HttpCalling == http.at # "idle" /\ http.outcome = "pending"

\* The race: who settles first decides.
Decided(call, outcome) == IF call.outcome = "pending" THEN outcome ELSE call.outcome

\* abortWith(): once.
HttpAborted(call, failure) ==
  IF call.aborted THEN call
  ELSE [call EXCEPT !.aborted = TRUE, !.outcome = Decided(call, failure)]

\* The work throws, or returns.
WorkEnds(call, outcome) == [call EXCEPT !.at = "over", !.outcome = Decided(call, outcome)]

-----------------------------------------------------------------------------
\* execute(): with a signal that is aborted already, the work throws at its start.
\* A body that cannot be built throws as well.
BeginHttp ==
  /\ http.at = "idle"
  /\ \/ ~signal /\ http' = [http EXCEPT !.at = "credential"]
     \/ signal /\ http' = WorkEnds(HttpAborted(http, "failure"), "failure")
     \/ http' = WorkEnds(http, "failure")
  /\ UNCHANGED signal

\* The timer, which runs until the call has settled.
HttpTimeout ==
  /\ HttpCalling
  /\ http' = HttpAborted(http, "failure")
  /\ UNCHANGED signal

\* getCredential() settles; a valid one is used if the call was not aborted.
HttpCredential ==
  /\ http.at = "credential"
  /\ \/ ~http.aborted /\ http' = [http EXCEPT !.at = "fetch"]
     \/ http' = WorkEnds(http, "failure")
  /\ UNCHANGED signal

\* The headers are there.  A response that declares too much is not read.
HttpResponds ==
  /\ http.at = "fetch"
  /\ \/ ~http.aborted /\ http' = [http EXCEPT !.at = "body"]
     \/ ~http.aborted /\ http' = WorkEnds(HttpAborted(http, "tooLarge"), "tooLarge")
     \/ http' = WorkEnds(http, "failure")
  /\ UNCHANGED signal

\* Mutant of HttpChunk: only the declared length counts.
HttpChunkUncounted ==
  /\ http.at = "body"
  /\ \E n \in ChunkBytes :
       /\ http.received <= MaxResponseBytes
       /\ http' = [http EXCEPT !.received = @ + n]
  /\ UNCHANGED signal

\* readBoundedBody() is handed a chunk, or something that is none; a read that was
\* answered just before the abort still counts.
HttpChunk ==
  /\ http.at = "body"
  /\ \/ \E n \in ChunkBytes :
          http' = IF http.received + n > MaxResponseBytes
                  THEN WorkEnds(HttpAborted(http, "tooLarge"), "tooLarge")
                  ELSE [http EXCEPT !.received = @ + n]
     \/ http' = WorkEnds(HttpAborted(http, "failure"), "failure")
  /\ UNCHANGED signal

\* The body ends, by itself or because the abort has cancelled its reader, or
\* breaks.  What it says may still be refused: it repeats the credential, or the
\* delay it asks for cannot be read.
HttpBodyEnds ==
  /\ http.at = "body"
  /\ \/ ~http.aborted /\ \E outcome \in {"accepted", "rejected"} : http' = WorkEnds(http, outcome)
     \/ http' = WorkEnds(http, "failure")
  /\ UNCHANGED signal

HttpNext ==
  BeginHttp \/ HttpTimeout \/ HttpCredential \/ HttpResponds \/ HttpChunk \/ HttpBodyEnds

\* The signal's listener, which is there until the call has settled.
HttpOnAbort == http' = IF HttpCalling THEN HttpAborted(http, "failure") ELSE http

\* The timer fires: nothing else is asked of the host or the network.
HttpFairness == WF_<<http, signal>>(HttpTimeout)
==============================================================================
