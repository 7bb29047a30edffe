---------------------------- MODULE SessionState ----------------------------
(***************************************************************************)
(* What the proxy remembers of a session's prompt cache (createProxy's       *)
(* collaborator src/src/core/session-state.ts): a map of at most SessionsMax *)
(* records, the least recently used first, as a JavaScript Map keeps them.   *)
(* The record says what the last responses told of the provider's cache, and *)
(* the coarsest grid the session's history was rendered at.                  *)
(*                                                                         *)
(* Every function of that module runs without interruption; the module that  *)
(* extends this one decides when each is called.                            *)
(***************************************************************************)
EXTENDS Integers, Sequences

CONSTANTS
  Session,
  NoSession,        \* a request without a fingerprint of its first message
  Step,             \* the freeze steps of a rendered history, in messages
  SessionsMax,      \* SESSIONS_MAX
  ColdHorizon       \* COLD_HORIZON_MS

ASSUME SessionAssumption ==
  /\ NoSession \notin Session
  /\ Step \subseteq Nat \ {0}
  /\ SessionsMax \in Nat \ {0}
  /\ ColdHorizon \in Nat

VARIABLE sessions   \* the records, in the order of the Map

SessionRecord ==
  [key : Session, lastSeen : Nat, freezeStep : Step \cup {0}, cacheDead : BOOLEAN,
   lastCacheAlive : {"unseen", "alive", "absent"}, everCacheAlive : BOOLEAN]

Fresh(s) ==
  [key |-> s, lastSeen |-> 0, freezeStep |-> 0, cacheDead |-> FALSE,
   lastCacheAlive |-> "unseen", everCacheAlive |-> FALSE]

Places(store, s) == {i \in DOMAIN store : store[i].key = s}

Place(store, s) == CHOOSE i \in Places(store, s) : TRUE

RecordOf(store, s) == IF Places(store, s) = {} THEN Fresh(s) ELSE store[Place(store, s)]

Others(store, s) ==
  IF Places(store, s) = {} THEN store
  ELSE SubSeq(store, 1, Place(store, s) - 1) \o SubSeq(store, Place(store, s) + 1, Len(store))

\* touch(), with what its caller then writes into the record: the record
\* becomes the most recently used, and the oldest one goes when there are too
\* many.
Touch(store, rec) ==
  LET touched == Append(Others(store, rec.key), rec)
  IN  IF Len(touched) > SessionsMax THEN Tail(touched) ELSE touched

-----------------------------------------------------------------------------
(* noteHistoryRequest(): may the history be cut anew for density, and what   *)
(* is the finest grid it may be cut at?                                     *)

\* Mutant of BeyondHorizon: a session that was never seen was seen at time 0.
BeyondHorizonOfZero(rec, now) == now - rec.lastSeen > ColdHorizon

BeyondHorizon(rec, now) == rec.lastSeen > 0 /\ now - rec.lastSeen > ColdHorizon

ServerSaysGone(rec) == rec.lastCacheAlive = "absent" /\ rec.everCacheAlive

Cold(rec, now) ==
  \/ rec.cacheDead
  \/ /\ rec.lastCacheAlive # "alive"
     /\ ServerSaysGone(rec) \/ BeyondHorizon(rec, now)

Noted(store, s, now) ==
  IF s = NoSession
  THEN [store |-> store, cold |-> FALSE, minFreezeStep |-> 0]
  ELSE LET rec == RecordOf(store, s)
       IN  [store |-> Touch(store, [rec EXCEPT !.lastSeen = now, !.cacheDead = FALSE]),
            cold |-> Cold(rec, now),
            minFreezeStep |-> rec.freezeStep]

-----------------------------------------------------------------------------
\* Mutant of RecordFreezeStep: the last render decides.
RecordLastStep(store, s, step) ==
  IF s = NoSession \/ step = 0 THEN store
  ELSE Touch(store, [RecordOf(store, s) EXCEPT !.freezeStep = step])

\* recordFreezeStep(): a floor that only rises.
RecordFreezeStep(store, s, step) ==
  IF s = NoSession \/ step = 0 THEN store
  ELSE Touch(store, [RecordOf(store, s) EXCEPT !.freezeStep = IF step > @ THEN step ELSE @])

\* markCacheDead().
MarkCacheDead(store, s) ==
  IF s = NoSession THEN store ELSE Touch(store, [RecordOf(store, s) EXCEPT !.cacheDead = TRUE])

\* responseLeftNoCache(): "tooLong" are a 413, and a 400 that says so.
LeftNoCache(status) == status = "tooLong"

\* noteCacheOutcome(): usage that never arrived counts as usage of nothing, and
\* a session without a record gets none.
NoteCacheOutcome(store, s, usage) ==
  [i \in DOMAIN store |->
     IF store[i].key # s THEN store[i]
     ELSE [store[i] EXCEPT !.lastCacheAlive = IF usage = "cached" THEN "alive" ELSE "absent",
                           !.everCacheAlive = @ \/ usage = "cached"]]
==============================================================================
