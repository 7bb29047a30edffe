---------------------------- MODULE ProxyExchange ----------------------------
(***************************************************************************)
(* The proxy's request handler (createProxy() in src/src/core/proxy.ts): a   *)
(* request is read and transformed, which asks the session's state how its   *)
(* history may be rendered; it is refused when an identical one is in        *)
(* flight; it is forwarded, under a deadline for the headers and then a      *)
(* watchdog for the stream; and a scanner beside the client reads the        *)
(* response for what it tells of the provider's cache.                      *)
(*                                                                         *)
(* Exchanges overlap: one step of one of them is what runs between two      *)
(* awaits.  An exchange's number is its order of arrival.  All the state is  *)
(* in the memory of the process: after a restart it is that of Init, and so  *)
(* a restart is no step of its own.                                         *)
(***************************************************************************)
EXTENDS SessionState, FiniteSets

CONSTANTS
  MaxExchanges,     \* bound on the exchanges explored
  Body,             \* the transformable bodies clients send
  Sends,            \* which of them each exchange may carry
  NoBody,           \* a body that is passed through as it is
  SessionOf,        \* the fingerprint of a body's first message
  Nobody,
  Hold,             \* duplicateHoldMs, here more than 0
  SweepSize,        \* INFLIGHT_SWEEP_SIZE
  SweepInterval,    \* INFLIGHT_SWEEP_MIN_INTERVAL_MS
  MaxTime           \* bound on the clock

ASSUME ExchangeAssumption ==
  /\ MaxExchanges \in Nat
  /\ NoBody \notin Body
  /\ SessionOf \in [Body -> Session \cup {NoSession}]
  /\ Sends \in [1..MaxExchanges -> SUBSET Body]
  /\ Hold \in Nat \ {0}
  /\ SweepSize \in Nat /\ SweepInterval \in Nat
  /\ MaxTime \in Nat

Exchange == 1..MaxExchanges

ASSUME NobodyAssumption == Nobody \notin Exchange

VARIABLES
  exchanges,        \* the exchanges, by their order of arrival
  inFlight,         \* the map of the same name: who holds a key, since when
  lastSweptAt,
  now,
  promised,         \* of each session: what a caller may rely on of its grid
  told              \* of each session: which requests and responses there were

proxy == <<sessions, exchanges, inFlight, lastSweptAt, now>>
vars == <<proxy, promised, told>>

\* What identifies a forwarded request: its body as it was transformed.
Key == [body : Body, step : Step \cup {0}]

\* The responses the session's state tells apart: a 413 and a 400 that says the
\* prompt is too long, and all others.
Status == {"tooLong", "other"}

NoExchange ==
  [at |-> "new", body |-> NoBody, floor |-> 0, owed |-> 0, step |-> 0,
   startedAt |-> 0, holding |-> FALSE, client |-> "waiting", reports |-> 0]

ExchangeRecord ==
  [at : {"new", "rendering", "rendered", "waiting", "streaming", "over"},
   body : Body \cup {NoBody},
   floor : Step \cup {0},         \* the freeze step it may not go below
   owed : Step \cup {0},          \* what was promised when the session was asked
   step : Step \cup {0},          \* 0 when no history was rendered
   startedAt : Nat,
   holding : BOOLEAN,             \* its lease is taken and not given back
   client : {"waiting", "reading", "gone"},
   reports : {0, 1}]              \* how often fire() was called

Lease == [lease : Exchange, startedAt : Nat]
NoLease == [lease |-> Nobody, startedAt |-> 0]

\* Of a session since the proxy's start: the coarsest grid it was rendered at,
\* and the other sessions that came up since its record was last used.
NoPromise == [step |-> 0, others |-> {}]
Promise == [step : Step \cup {0}, others : SUBSET Session]

\* Of a session since the proxy's start: was a response of it over, and when was
\* it last asked.
NothingTold == [answered |-> FALSE, asked |-> 0]
Told == [answered : BOOLEAN, asked : Nat]

TypeOK ==
  /\ sessions \in Seq(SessionRecord) /\ Len(sessions) <= SessionsMax
  /\ exchanges \in [Exchange -> ExchangeRecord]
  /\ inFlight \in [Key -> Lease \cup {NoLease}]
  /\ lastSweptAt \in Nat /\ now \in Nat
  /\ promised \in [Session -> Promise]
  /\ told \in [Session -> Told]

Init ==
  /\ sessions = <<>>
  /\ exchanges = [e \in Exchange |-> NoExchange]
  /\ inFlight = [k \in Key |-> NoLease]
  /\ lastSweptAt = 0 /\ now = 1
  /\ promised = [s \in Session |-> NoPromise]
  /\ told = [s \in Session |-> NothingTold]

SessionIn(e) == IF exchanges[e].body = NoBody THEN NoSession ELSE SessionOf[exchanges[e].body]
KeyOf(e) == [body |-> exchanges[e].body, step |-> exchanges[e].step]

Arrives(e) == exchanges[e].at = "new" /\ \A earlier \in 1..(e - 1) : exchanges[earlier].at # "new"

\* The exchange is over for the proxy, and reported n more times; what no later
\* step reads is forgotten.
Answered(e, n) == [NoExchange EXCEPT !.at = "over", !.reports = exchanges[e].reports + n]

-----------------------------------------------------------------------------
(* What using a session's record does to what was promised of all of them.  *)

Used(promises, s) ==
  [other \in Session |->
     IF other = s THEN [promises[other] EXCEPT !.others = {}]
     ELSE IF s = NoSession \/ promises[other].step = 0 THEN promises[other]
     ELSE IF Cardinality(promises[other].others \cup {s}) >= SessionsMax THEN NoPromise
     ELSE [promises[other] EXCEPT !.others = @ \cup {s}]]

-----------------------------------------------------------------------------
(* The request.                                                            *)

\* readBodyBounded() finds too much: 413.
RefuseBody(e) ==
  /\ Arrives(e)
  /\ exchanges' = [exchanges EXCEPT ![e] = Answered(e, 1)]
  /\ UNCHANGED <<sessions, inFlight, lastSweptAt, now, promised, told>>

\* A pin command is answered here, and a client that hangs up in the middle of
\* its body by nobody: neither is reported.
AnswerPin(e) ==
  /\ Arrives(e)
  /\ exchanges' = [exchanges EXCEPT ![e] = Answered(e, 0)]
  /\ UNCHANGED <<sessions, inFlight, lastSweptAt, now, promised, told>>

\* A body the proxy does not transform: no lease and no session.
PassThrough(e) ==
  /\ Arrives(e)
  /\ exchanges' = [exchanges EXCEPT ![e].at = "waiting"]
  /\ UNCHANGED <<sessions, inFlight, lastSweptAt, now, promised, told>>

\* historyGridTuning() asks for the session's state, and the render begins.
AskSession(e) ==
  /\ Arrives(e)
  /\ \E b \in Sends[e] :
       LET s == SessionOf[b]
           noted == Noted(sessions, s, now)
       IN  /\ sessions' = noted.store
           /\ exchanges' = [exchanges EXCEPT
                ![e] = [@ EXCEPT !.at = "rendering", !.body = b, !.floor = noted.minFreezeStep,
                                 !.owed = IF s = NoSession THEN 0 ELSE promised[s].step]]
           /\ promised' = Used(promised, s)
           /\ told' = IF s = NoSession THEN told
                      ELSE [told EXCEPT ![s].asked = now]
  /\ UNCHANGED <<inFlight, lastSweptAt, now>>

\* A request with no room for images asks for no session's state, and is rendered
\* without a history.
SkipHistory(e) ==
  /\ Arrives(e)
  /\ \E b \in Sends[e] :
       exchanges' = [exchanges EXCEPT ![e].at = "rendered", ![e].body = b]
  /\ UNCHANGED <<sessions, inFlight, lastSweptAt, now, promised, told>>

\* The steps a history can be rendered at: no finer than the floor, and coarser
\* where a cold session's density or the budget of images asks for it (HistoryGrid
\* says where).  A floor that is longer than the history leaves it in one chunk,
\* as any step above does: such a render counts as one at the floor.
StepsFrom(floor) == {step \in Step : step >= floor}

Rendered(e, step) == [exchanges[e] EXCEPT !.at = "rendered", !.step = step, !.floor = 0, !.owed = 0]

\* collapseHistory() is done, and its step is recorded.
Render(e) ==
  /\ exchanges[e].at = "rendering"
  /\ \E step \in StepsFrom(exchanges[e].floor) :
       LET s == SessionIn(e)
           used == Used(promised, s)
       IN  /\ sessions' = RecordFreezeStep(sessions, s, step)
           /\ exchanges' = [exchanges EXCEPT ![e] = Rendered(e, step)]
           /\ promised' = IF s = NoSession THEN promised
                          ELSE [used EXCEPT ![s].step = IF step > @ THEN step ELSE @]
  /\ UNCHANGED <<inFlight, lastSweptAt, now, told>>

\* The history is not collapsed: too short, not profitable, no closed prefix.
SkipRender(e) ==
  /\ exchanges[e].at = "rendering"
  /\ exchanges' = [exchanges EXCEPT ![e] = Rendered(e, 0)]
  /\ UNCHANGED <<sessions, inFlight, lastSweptAt, now, promised, told>>

\* The transform throws (502, or 400 for an invalid bridged request).
FailTransform(e) ==
  /\ exchanges[e].at \in {"rendering", "rendered"}
  /\ exchanges' = [exchanges EXCEPT ![e] = Answered(e, 1)]
  /\ UNCHANGED <<sessions, inFlight, lastSweptAt, now, promised, told>>

\* The serialized request is over the model's limit: 413.
RefuseSize(e) ==
  /\ exchanges[e].at = "rendered"
  /\ exchanges' = [exchanges EXCEPT ![e] = Answered(e, 1)]
  /\ UNCHANGED <<sessions, inFlight, lastSweptAt, now, promised, told>>

-----------------------------------------------------------------------------
(* Forwarding, under a lease.                                              *)

Held == {k \in Key : inFlight[k].lease # Nobody}

Expired(k) == now - inFlight[k].startedAt >= Hold

SweepDue ==
  \/ now - lastSweptAt >= Hold
  \/ Cardinality(Held) > SweepSize /\ now - lastSweptAt >= SweepInterval

Swept == [k \in Key |-> IF SweepDue /\ Expired(k) THEN NoLease ELSE inFlight[k]]

\* Mutant of InProgress: no lease refuses a request.
NeverInProgress(k) == FALSE

InProgress(k) == inFlight[k].lease # Nobody /\ ~Expired(k)

\* 409.
RefuseDuplicate(e) ==
  /\ exchanges[e].at = "rendered" /\ InProgress(KeyOf(e))
  /\ inFlight' = Swept
  /\ lastSweptAt' = IF SweepDue THEN now ELSE lastSweptAt
  /\ exchanges' = [exchanges EXCEPT ![e] = Answered(e, 1)]
  /\ UNCHANGED <<sessions, now, promised, told>>

Forward(e) ==
  /\ exchanges[e].at = "rendered" /\ ~InProgress(KeyOf(e))
  /\ inFlight' = [Swept EXCEPT ![KeyOf(e)] = [lease |-> e, startedAt |-> now]]
  /\ lastSweptAt' = IF SweepDue THEN now ELSE lastSweptAt
  /\ exchanges' = [exchanges EXCEPT
       ![e] = [@ EXCEPT !.at = "waiting", !.startedAt = now, !.holding = TRUE]]
  /\ UNCHANGED <<sessions, now, promised, told>>

\* releaseInFlight(): only its own lease.
Released(e) ==
  IF exchanges[e].body # NoBody /\ inFlight[KeyOf(e)].lease = e
  THEN [inFlight EXCEPT ![KeyOf(e)] = NoLease]
  ELSE inFlight

-----------------------------------------------------------------------------
(* The response.                                                           *)

\* Mutant of FailUpstream: the answer is sent from an exit that keeps the lease.
FailUpstreamLeased(e) ==
  /\ exchanges[e].at = "waiting"
  /\ exchanges' = [exchanges EXCEPT ![e] = Answered(e, 1)]
  /\ UNCHANGED <<sessions, inFlight, lastSweptAt, now, promised, told>>

\* The upstream cannot be reached, or its response cannot be converted: 502.
FailUpstream(e) ==
  /\ exchanges[e].at = "waiting"
  /\ inFlight' = Released(e)
  /\ exchanges' = [exchanges EXCEPT ![e] = Answered(e, 1)]
  /\ UNCHANGED <<sessions, lastSweptAt, now, promised, told>>

\* 504: the deadline for the headers passes; or the watchdog's budget does,
\* while a response that is converted as a whole is read.
UpstreamTimeout(e) == exchanges[e].at = "waiting" /\ FailUpstream(e)

\* What the callback of the scanner does, in its order.
Settled(s, status, usage) ==
  NoteCacheOutcome(IF LeftNoCache(status) THEN MarkCacheDead(sessions, s) ELSE sessions, s, usage)

Settle(e, status, usage) ==
  LET s == SessionIn(e)
  IN  /\ sessions' = Settled(s, status, usage)
      /\ inFlight' = Released(e)
      /\ promised' = IF LeftNoCache(status) THEN Used(promised, s) ELSE promised
      /\ told' = IF s = NoSession THEN told ELSE [told EXCEPT ![s].answered = TRUE]

\* The client gets its response; the scanner reads beside it.
BeginStream(e) ==
  /\ exchanges[e].at = "waiting"
  /\ exchanges' = [exchanges EXCEPT ![e].at = "streaming", ![e].client = "reading"]
  /\ UNCHANGED <<sessions, inFlight, lastSweptAt, now, promised, told>>

\* A 5xx, or a response without a body, has nothing to scan.
BeginUnscanned(e) ==
  /\ exchanges[e].at = "waiting"
  /\ \E status \in Status :
       /\ exchanges' = [exchanges EXCEPT ![e] = Answered(e, 1)]
       /\ Settle(e, status, "silent")
  /\ UNCHANGED <<lastSweptAt, now>>

EndScan(e, status, usage) ==
  /\ exchanges' = [exchanges EXCEPT ![e] = Answered(e, 1)]
  /\ Settle(e, status, usage)
  /\ UNCHANGED <<lastSweptAt, now>>

\* The scanner reads to the end.  Only an accepted response has its usage read,
\* if it is in a form the scanner knows: all others are silent.
EndStream(e) ==
  /\ exchanges[e].at = "streaming"
  /\ \/ EndScan(e, "tooLong", "silent")
     \/ \E usage \in {"cached", "nothing", "silent"} : EndScan(e, "other", usage)

\* The stream breaks, by the upstream or by the abort after a disconnect.  What
\* was scanned of the usage is lost; a rejection for size is known by its status,
\* or by what was read of it.
BreakStream(e) == exchanges[e].at = "streaming" /\ \E status \in Status : EndScan(e, status, "silent")

\* The watchdog: no bytes for the budget.
IdleTimeout(e) == exchanges[e].at = "streaming" /\ \E status \in Status : EndScan(e, status, "silent")

\* Mutant of Disconnect: the client's leaving ends the scanner with it.
DisconnectScanner(e) ==
  /\ exchanges[e].at = "streaming" /\ exchanges[e].client = "reading"
  /\ inFlight' = Released(e)
  /\ exchanges' = [exchanges EXCEPT ![e] = Answered(e, 0)]
  /\ UNCHANGED <<sessions, lastSweptAt, now, promised, told>>

\* withClientDisconnect(): the lease goes at once.  A client that leaves when the
\* scanner is done finds its lease given back, which changes nothing.
Disconnect(e) ==
  /\ exchanges[e].at = "streaming" /\ exchanges[e].client = "reading"
  /\ inFlight' = Released(e)
  /\ exchanges' = [exchanges EXCEPT
       ![e] = [@ EXCEPT !.client = "gone", !.holding = FALSE, !.startedAt = 0]]
  /\ UNCHANGED <<sessions, lastSweptAt, now, promised, told>>

-----------------------------------------------------------------------------
Tick ==
  /\ now < MaxTime
  /\ now' = now + 1
  /\ UNCHANGED <<sessions, exchanges, inFlight, lastSweptAt, promised, told>>

ExchangeStep(e) ==
  \/ RefuseBody(e) \/ AnswerPin(e) \/ PassThrough(e) \/ AskSession(e)
  \/ SkipHistory(e) \/ Render(e) \/ SkipRender(e) \/ FailTransform(e) \/ RefuseSize(e)
  \/ RefuseDuplicate(e) \/ Forward(e)
  \/ FailUpstream(e) \/ UpstreamTimeout(e)
  \/ BeginStream(e) \/ BeginUnscanned(e)
  \/ EndStream(e) \/ BreakStream(e) \/ IdleTimeout(e)
  \/ Disconnect(e)

Next == (\E e \in Exchange : ExchangeStep(e)) \/ Tick

Spec == Init /\ [][Next]_vars

LocalWork(e) == Render(e) \/ SkipRender(e) \/ FailTransform(e) \/ RefuseDuplicate(e) \/ Forward(e)

Timeout(e) == UpstreamTimeout(e) \/ IdleTimeout(e)

\* Local work ends, and the timers run: the deadline for the headers and the
\* watchdog are on, and an upstream that never ends its stream falls silent.
Fairness == \A e \in Exchange : WF_vars(LocalWork(e) \/ Timeout(e))

FairSpec == Spec /\ Fairness

-----------------------------------------------------------------------------
(* What the leases are for.                                                *)

\* Of two exchanges that wait for the same transformed request (neither over
\* nor left by its client), the second was forwarded when the first was at
\* least Hold old: a double send within the window never reaches the provider,
\* whatever late releases and sweeps of the map come in between.
OneHolderPerWindow ==
  \A e, f \in Exchange :
    e # f /\ exchanges[e].holding /\ exchanges[f].holding /\ KeyOf(e) = KeyOf(f)
    => \/ exchanges[e].startedAt >= exchanges[f].startedAt + Hold
       \/ exchanges[f].startedAt >= exchanges[e].startedAt + Hold

\* A key of the map belongs to an exchange that still waits, since the time the
\* map says: a 409 always has a live request to point to, and no exit leaves
\* its key behind.
LeasesAreHeld ==
  \A k \in Key :
    inFlight[k].lease # Nobody =>
      LET holder == exchanges[inFlight[k].lease]
      IN  /\ holder.holding
          /\ k = [body |-> holder.body, step |-> holder.step]
          /\ holder.startedAt = inFlight[k].startedAt

-----------------------------------------------------------------------------
(* What the session's state is for.                                        *)

\* A history is never rendered finer than an earlier render of its session that
\* was recorded when it asked, unless SessionsMax other sessions came up in
\* between: a finer grid would re-key everything the provider has cached.
GridPromiseKept ==
  [][\A e \in Exchange :
       exchanges[e].at = "rendering" /\ exchanges'[e].at = "rendered" /\ exchanges'[e].step # 0
       => exchanges'[e].step >= exchanges[e].owed]_vars

\* A session is called cold only after a response of it, or a long silence
\* since its last request: what is unknown, new or forgotten in a crowd,
\* authorizes no repack.
ColdNeedsPast ==
  [][\A e \in Exchange, b \in Body :
       LET s == SessionOf[b]
       IN  exchanges[e].at = "new" /\ exchanges'[e].body = b /\ Noted(sessions, s, now).cold
           => \/ told[s].answered
              \/ told[s].asked > 0 /\ now - told[s].asked > ColdHorizon]_vars

\* A response whose accounting never arrived, and that is no rejection for size,
\* tells nothing of the provider's cache: it makes no session cold.
SilenceTellsNothing ==
  [][\A e \in Exchange :
       exchanges[e].at = "streaming" /\ EndScan(e, "other", "silent") => \A s \in Session :
            Cold(RecordOf(sessions', s), now) => Cold(RecordOf(sessions, s), now)]_vars

-----------------------------------------------------------------------------
Started(e) == exchanges[e].at \notin {"new", "over"}

Finished(e) ==
  /\ exchanges[e].at = "over" /\ exchanges[e].reports = 1
  /\ \A k \in Key : inFlight[k].lease # e

\* Every request that is taken up comes to an end, whatever the provider does
\* and wherever the client goes: it is reported once, and nothing of it is left
\* in the map.
EveryExchangeEnds == \A e \in Exchange : Started(e) ~> Finished(e)
==============================================================================
