------------------------------ MODULE ProxyProofs ------------------------------
(***************************************************************************)
(* Theorems about the two parts of the proxy that keep state from one        *)
(* request to the next.                                                     *)
(*                                                                         *)
(* ProxyExchange: any number of overlapping exchanges, sessions, bodies and  *)
(* grids, any window of duplicates and any thresholds.                      *)
(*                                                                         *)
(* HistoryGrid: conversations of any length with any calls, texts and marks, *)
(* any budgets and any grids.                                               *)
(***************************************************************************)
EXTENDS ProxyExchange, HistoryGrid, TLAPS, SequenceTheorems, WellFoundedInduction,
        FiniteSetTheorems

-----------------------------------------------------------------------------
(* What the functions of the session's state return.                        *)

Store == {store \in Seq(SessionRecord) : Len(store) <= SessionsMax}

LEMMA FreshType ==
  ASSUME NEW s \in Session
  PROVE  Fresh(s) \in SessionRecord /\ Fresh(s).key = s
BY DEF Fresh, SessionRecord

LEMMA PlaceInStore ==
  ASSUME NEW store \in Store, NEW s \in Session, Places(store, s) # {}
  PROVE  /\ Place(store, s) \in 1..Len(store) /\ Len(store) \in Nat
         /\ store[Place(store, s)] \in SessionRecord
         /\ store[Place(store, s)].key = s
<1>1. Place(store, s) \in Places(store, s)
  BY DEF Place
<1>. QED
  BY <1>1 DEF Places, Store

LEMMA RecordOfType ==
  ASSUME NEW store \in Store, NEW s \in Session
  PROVE  RecordOf(store, s) \in SessionRecord /\ RecordOf(store, s).key = s
<1>1. CASE Places(store, s) = {}
  BY <1>1, FreshType DEF RecordOf
<1>2. CASE Places(store, s) # {}
  BY <1>2, PlaceInStore DEF RecordOf
<1>. QED
  BY <1>1, <1>2

\* The others are one fewer, or as many when the session has no record.
LEMMA OthersType ==
  ASSUME NEW store \in Store, NEW s \in Session
  PROVE  Others(store, s) \in Store
<1>1. CASE Places(store, s) = {}
  BY <1>1 DEF Others
<1>2. CASE Places(store, s) # {}
  <2>. DEFINE i == Place(store, s)
  <2>1. i \in 1..Len(store) /\ Len(store) \in Nat /\ store \in Seq(SessionRecord)
    BY <1>2, PlaceInStore DEF Store
  <2>2. /\ SubSeq(store, 1, i - 1) \in Seq(SessionRecord)
        /\ Len(SubSeq(store, 1, i - 1)) = i - 1
    BY <2>1
  <2>3. /\ SubSeq(store, i + 1, Len(store)) \in Seq(SessionRecord)
        /\ Len(SubSeq(store, i + 1, Len(store))) = Len(store) - i
    BY <2>1
  <2>4. /\ Others(store, s) \in Seq(SessionRecord)
        /\ Len(Others(store, s)) = (i - 1) + (Len(store) - i)
    BY <1>2, <2>2, <2>3, ConcatProperties DEF Others
  <2>. QED
    BY <2>1, <2>4, SessionAssumption DEF Store
<1>. QED
  BY <1>1, <1>2

\* The least recently used records go: there are never more than SessionsMax.
LEMMA TouchType ==
  ASSUME NEW store \in Store, NEW rec \in SessionRecord
  PROVE  Touch(store, rec) \in Store
<1>. DEFINE others == Others(store, rec.key)
            touched == Append(others, rec)
<1>1. others \in Seq(SessionRecord) /\ Len(others) \in Nat /\ Len(others) <= SessionsMax
  <2>1. rec.key \in Session
    BY DEF SessionRecord
  <2>2. others \in Store
    BY <2>1, OthersType
  <2>. QED
    BY <2>2 DEF Store
<1>. HIDE DEF others
<1>2. touched \in Seq(SessionRecord) /\ Len(touched) = Len(others) + 1 /\ touched # <<>>
  BY <1>1
<1>3. CASE Len(touched) > SessionsMax
  <2>1. Tail(touched) \in Seq(SessionRecord) /\ Len(Tail(touched)) = Len(touched) - 1
    BY <1>2, HeadTailProperties
  <2>. QED
    BY <1>1, <1>2, <1>3, <2>1, SessionAssumption DEF Touch, Store, others
<1>4. CASE ~(Len(touched) > SessionsMax)
  BY <1>1, <1>2, <1>4, SessionAssumption DEF Touch, Store, others
<1>. QED
  BY <1>3, <1>4

LEMMA NotedType ==
  ASSUME NEW store \in Store, NEW s \in Session \cup {NoSession}, NEW time \in Nat
  PROVE  /\ Noted(store, s, time).store \in Store
         /\ Noted(store, s, time).minFreezeStep \in Step \cup {0}
<1>1. CASE s = NoSession
  BY <1>1 DEF Noted
<1>2. CASE s # NoSession
  <2>. DEFINE rec == RecordOf(store, s)
  <2>1. rec \in SessionRecord
    BY <1>2, RecordOfType
  <2>2. [rec EXCEPT !.lastSeen = time, !.cacheDead = FALSE] \in SessionRecord
    BY <2>1 DEF SessionRecord
  <2>3. rec.freezeStep \in Step \cup {0}
    BY <2>1 DEF SessionRecord
  <2>. QED
    BY <1>2, <2>2, <2>3, TouchType DEF Noted
<1>. QED
  BY <1>1, <1>2

LEMMA RecordFreezeStepType ==
  ASSUME NEW store \in Store, NEW s \in Session \cup {NoSession}, NEW step \in Step \cup {0}
  PROVE  RecordFreezeStep(store, s, step) \in Store
<1>1. CASE s = NoSession \/ step = 0
  BY <1>1 DEF RecordFreezeStep
<1>2. CASE ~(s = NoSession \/ step = 0)
  <2>. DEFINE rec == RecordOf(store, s)
              least == IF step > rec.freezeStep THEN step ELSE rec.freezeStep
  <2>1. rec \in SessionRecord
    BY <1>2, RecordOfType
  <2>2. least \in Step \cup {0}
    BY <2>1 DEF SessionRecord
  <2>. HIDE DEF rec, least
  <2>3. [rec EXCEPT !.freezeStep = least] \in SessionRecord
    BY <2>1, <2>2 DEF SessionRecord
  <2>4. Touch(store, [rec EXCEPT !.freezeStep = least]) \in Store
    BY <2>3, TouchType
  <2>5. RecordFreezeStep(store, s, step) = Touch(store, [rec EXCEPT !.freezeStep = least])
    BY <1>2, Zenon DEF RecordFreezeStep, rec, least
  <2>. QED
    BY <2>4, <2>5
<1>. QED
  BY <1>1, <1>2

LEMMA MarkCacheDeadType ==
  ASSUME NEW store \in Store, NEW s \in Session \cup {NoSession}
  PROVE  MarkCacheDead(store, s) \in Store
<1>1. CASE s = NoSession
  BY <1>1 DEF MarkCacheDead
<1>2. CASE s # NoSession
  <2>1. RecordOf(store, s) \in SessionRecord
    BY <1>2, RecordOfType
  <2>2. [RecordOf(store, s) EXCEPT !.cacheDead = TRUE] \in SessionRecord
    BY <2>1 DEF SessionRecord
  <2>. QED
    BY <1>2, <2>2, TouchType DEF MarkCacheDead
<1>. QED
  BY <1>1, <1>2

LEMMA NoteCacheOutcomeType ==
  ASSUME NEW store \in Store, NEW s, NEW usage
  PROVE  NoteCacheOutcome(store, s, usage) \in Store
<1>. DEFINE noted == NoteCacheOutcome(store, s, usage)
<1>1. store \in Seq(SessionRecord) /\ Len(store) \in Nat /\ DOMAIN store = 1..Len(store)
  BY DEF Store
<1>2. \A i \in DOMAIN store : noted[i] \in SessionRecord
  <2>. TAKE i \in DOMAIN store
  <2>1. store[i] \in SessionRecord
    BY <1>1
  <2>. DEFINE alive == IF usage = "cached" THEN "alive" ELSE "absent"
              ever == store[i].everCacheAlive \/ usage = "cached"
  <2>2. alive \in {"unseen", "alive", "absent"}
    OBVIOUS
  <2>3. ever \in BOOLEAN
    OBVIOUS
  <2>. HIDE DEF alive, ever
  <2>4. [store[i] EXCEPT !.lastCacheAlive = alive, !.everCacheAlive = ever] \in SessionRecord
    BY <2>1, <2>2, <2>3 DEF SessionRecord
  <2>. QED
    BY <2>1, <2>4 DEF NoteCacheOutcome, alive, ever
<1>3. noted = [i \in 1..Len(store) |-> noted[i]]
  BY <1>1 DEF NoteCacheOutcome
<1>4. noted \in Seq(SessionRecord) /\ Len(noted) = Len(store)
  BY <1>1, <1>2, <1>3
<1>. QED
  BY <1>4 DEF Store

LEMMA SettledType ==
  ASSUME sessions \in Store, NEW s \in Session \cup {NoSession}, NEW status, NEW usage
  PROVE  Settled(s, status, usage) \in Store
BY MarkCacheDeadType, NoteCacheOutcomeType DEF Settled

LEMMA UsedType ==
  ASSUME NEW promises \in [Session -> Promise], NEW s \in Session \cup {NoSession}
  PROVE  Used(promises, s) \in [Session -> Promise]
<1>1. NoPromise \in Promise
  BY DEF NoPromise, Promise
<1>2. \A other \in Session : [promises[other] EXCEPT !.others = {}] \in Promise
  BY DEF Promise
<1>3. \A other \in Session :
        s # NoSession => [promises[other] EXCEPT !.others = @ \cup {s}] \in Promise
  BY DEF Promise
<1>. QED
  BY <1>1, <1>2, <1>3 DEF Used

-----------------------------------------------------------------------------
(* Types.                                                                   *)

LEMMA SessionInType ==
  ASSUME TypeOK, NEW e \in Exchange
  PROVE  SessionIn(e) \in Session \cup {NoSession}
BY ExchangeAssumption DEF TypeOK, ExchangeRecord, SessionIn

LEMMA AnsweredType ==
  ASSUME TypeOK, NEW e \in Exchange, NEW n \in {0, 1}, exchanges[e].reports = 0
  PROVE  /\ Answered(e, n) \in ExchangeRecord
         /\ ~Answered(e, n).holding /\ Answered(e, n).at = "over"
<1>1. NoExchange \in ExchangeRecord /\ ~NoExchange.holding
  BY DEF NoExchange, ExchangeRecord
<1>. DEFINE m == exchanges[e].reports + n
<1>2. m \in {0, 1}
  OBVIOUS
<1>. HIDE DEF m
<1>3. LET over == [NoExchange EXCEPT !.at = "over", !.reports = m]
      IN  over \in ExchangeRecord /\ ~over.holding /\ over.at = "over"
  BY <1>1, <1>2 DEF ExchangeRecord
<1>. QED
  BY <1>3 DEF Answered, m

LEMMA KeyOfType ==
  ASSUME TypeOK, NEW e \in Exchange, exchanges[e].body # NoBody
  PROVE  KeyOf(e) \in Key
BY DEF TypeOK, ExchangeRecord, KeyOf, Key

LEMMA NoLeaseType == NoLease \in Lease \cup {NoLease}
OBVIOUS

LEMMA ReleasedType ==
  ASSUME TypeOK, NEW e \in Exchange
  PROVE  Released(e) \in [Key -> Lease \cup {NoLease}]
BY NoLeaseType DEF TypeOK, Released

LEMMA SweptType ==
  ASSUME TypeOK
  PROVE  Swept \in [Key -> Lease \cup {NoLease}]
BY NoLeaseType DEF TypeOK, Swept

-----------------------------------------------------------------------------
(* The inductive invariant.                                                *)

\* Who is not over has not been reported, and what is rendered is a body.
Orderly(rec) ==
  /\ rec.at # "over" => rec.reports = 0
  /\ rec.at \in {"rendering", "rendered"} => rec.body # NoBody

AllOrderly == \A e \in Exchange : Orderly(exchanges[e])

\* Who holds a lease has forwarded a transformed request, at a time that was.
HoldersForwarded ==
  \A e \in Exchange :
    exchanges[e].holding =>
      /\ exchanges[e].at \in {"waiting", "streaming"} /\ exchanges[e].body # NoBody
      /\ exchanges[e].startedAt <= now

\* Who took a lease within the window still has it in the map.
WindowIsLeased ==
  \A e \in Exchange :
    exchanges[e].holding /\ now - exchanges[e].startedAt < Hold => inFlight[KeyOf(e)].lease = e

LeaseInv == HoldersForwarded /\ WindowIsLeased /\ LeasesAreHeld /\ OneHolderPerWindow

IInv == TypeOK /\ AllOrderly /\ LeaseInv

LEMMA InitIInv == Init => IInv
<1>. SUFFICES ASSUME Init PROVE IInv
  OBVIOUS
<1>1. NoExchange \in ExchangeRecord
  BY DEF NoExchange, ExchangeRecord
<1>2. TypeOK
  BY <1>1, EmptySeq, SessionAssumption DEF Init, TypeOK, NoPromise, Promise, NothingTold, Told
<1>3. LeasesAreHeld
  BY DEF Init, LeasesAreHeld, NoLease
<1>4. \A e \in Exchange : ~exchanges[e].holding /\ Orderly(exchanges[e])
  BY DEF Init, NoExchange, Orderly
<1>. QED
  BY <1>2, <1>3, <1>4 DEF IInv, LeaseInv, AllOrderly, HoldersForwarded, WindowIsLeased, OneHolderPerWindow

\* An exchange ends, or its client leaves, and its lease goes with it.
LEMMA EndHolding ==
  ASSUME IInv, NEW e \in Exchange, NEW rec \in ExchangeRecord, ~rec.holding,
         exchanges' = [exchanges EXCEPT ![e] = rec], inFlight' = Released(e), now' = now
  PROVE  LeaseInv'
<1>1. /\ exchanges \in [Exchange -> ExchangeRecord] /\ inFlight \in [Key -> Lease \cup {NoLease}]
      /\ now \in Nat
  BY DEF IInv, TypeOK
<1>2. \A f \in Exchange : exchanges'[f].holding => f # e /\ exchanges'[f] = exchanges[f]
  BY <1>1
<1>3. HoldersForwarded'
  BY <1>2 DEF IInv, LeaseInv, HoldersForwarded
<1>4. OneHolderPerWindow'
  BY <1>2 DEF IInv, LeaseInv, OneHolderPerWindow, KeyOf
<1>5. \A k \in Key : inFlight'[k] = inFlight[k] \/ inFlight'[k] = NoLease
  BY <1>1 DEF Released
<1>6. \A k \in Key : inFlight'[k].lease # Nobody => inFlight'[k] = inFlight[k] /\ inFlight[k].lease # e
  <2>. SUFFICES ASSUME NEW k \in Key, inFlight'[k].lease # Nobody
                PROVE  inFlight'[k] = inFlight[k] /\ inFlight[k].lease # e
    OBVIOUS
  <2>1. inFlight'[k] = inFlight[k]
    BY <1>5 DEF NoLease
  <2>2. ASSUME inFlight[k].lease = e PROVE FALSE
    <3>1. exchanges[e].holding /\ k = KeyOf(e)
      BY <2>1, <2>2 DEF IInv, LeaseInv, LeasesAreHeld, KeyOf
    <3>2. exchanges[e].body # NoBody
      BY <3>1 DEF IInv, LeaseInv, HoldersForwarded
    <3>3. inFlight'[k] = NoLease
      BY <1>1, <2>2, <3>1, <3>2 DEF Released
    <3>. QED
      BY <3>3 DEF NoLease
  <2>. QED
    BY <2>1, <2>2
<1>7. LeasesAreHeld'
  <2>. SUFFICES ASSUME NEW k \in Key, inFlight'[k].lease # Nobody
                PROVE  /\ exchanges'[inFlight'[k].lease].holding
                       /\ k = [body |-> exchanges'[inFlight'[k].lease].body,
                               step |-> exchanges'[inFlight'[k].lease].step]
                       /\ exchanges'[inFlight'[k].lease].startedAt = inFlight'[k].startedAt
    BY DEF LeasesAreHeld
  <2>1. inFlight'[k] = inFlight[k] /\ inFlight[k].lease # e /\ inFlight[k].lease # Nobody
    BY <1>6
  <2>2. inFlight[k].lease \in Exchange
    BY <1>1, <2>1 DEF Lease, NoLease
  <2>3. exchanges'[inFlight[k].lease] = exchanges[inFlight[k].lease]
    BY <1>1, <2>1, <2>2
  <2>. QED
    BY <2>1, <2>2, <2>3 DEF IInv, LeaseInv, LeasesAreHeld
<1>8. WindowIsLeased'
  <2>. SUFFICES ASSUME NEW f \in Exchange, exchanges'[f].holding,
                       now - exchanges'[f].startedAt < Hold
                PROVE  inFlight'[KeyOf(f)'].lease = f
    BY DEF WindowIsLeased
  <2>1. f # e /\ exchanges'[f] = exchanges[f] /\ KeyOf(f)' = KeyOf(f)
    BY <1>2 DEF KeyOf
  <2>2. inFlight[KeyOf(f)].lease = f /\ KeyOf(f) \in Key
    BY <2>1, KeyOfType DEF IInv, LeaseInv, WindowIsLeased, HoldersForwarded
  <2>3. inFlight'[KeyOf(f)] = inFlight[KeyOf(f)]
    BY <1>1, <2>1, <2>2 DEF Released
  <2>. QED
    BY <2>1, <2>2, <2>3
<1>. QED
  BY <1>3, <1>4, <1>7, <1>8 DEF LeaseInv

\* A step of an exchange that has no lease, with or without a sweep.
LEMMA StayOut ==
  ASSUME IInv, NEW e \in Exchange, NEW rec \in ExchangeRecord,
         ~rec.holding, ~exchanges[e].holding,
         exchanges' = [exchanges EXCEPT ![e] = rec], now' = now,
         inFlight' \in {inFlight, Swept}
  PROVE  LeaseInv'
<1>1. /\ exchanges \in [Exchange -> ExchangeRecord] /\ inFlight \in [Key -> Lease \cup {NoLease}]
      /\ now \in Nat
  BY DEF IInv, TypeOK
<1>2. \A f \in Exchange : exchanges'[f].holding => f # e /\ exchanges'[f] = exchanges[f]
  BY <1>1
<1>3. HoldersForwarded'
  BY <1>2 DEF IInv, LeaseInv, HoldersForwarded
<1>4. OneHolderPerWindow'
  BY <1>2 DEF IInv, LeaseInv, OneHolderPerWindow, KeyOf
<1>5. \A k \in Key : inFlight'[k] = inFlight[k] \/ (Expired(k) /\ inFlight'[k] = NoLease)
  BY <1>1 DEF Swept
<1>6. LeasesAreHeld'
  <2>. SUFFICES ASSUME NEW k \in Key, inFlight'[k].lease # Nobody
                PROVE  /\ exchanges'[inFlight'[k].lease].holding
                       /\ k = [body |-> exchanges'[inFlight'[k].lease].body,
                               step |-> exchanges'[inFlight'[k].lease].step]
                       /\ exchanges'[inFlight'[k].lease].startedAt = inFlight'[k].startedAt
    BY DEF LeasesAreHeld
  <2>1. inFlight'[k] = inFlight[k] /\ inFlight[k].lease # Nobody
    BY <1>5 DEF NoLease
  <2>2. inFlight[k].lease \in Exchange
    BY <1>1, <2>1 DEF Lease, NoLease
  <2>3. exchanges[inFlight[k].lease].holding
    BY <2>1 DEF IInv, LeaseInv, LeasesAreHeld
  <2>4. exchanges'[inFlight[k].lease] = exchanges[inFlight[k].lease]
    BY <1>1, <2>2, <2>3
  <2>. QED
    BY <2>1, <2>2, <2>4 DEF IInv, LeaseInv, LeasesAreHeld
<1>7. WindowIsLeased'
  <2>. SUFFICES ASSUME NEW f \in Exchange, exchanges'[f].holding,
                       now - exchanges'[f].startedAt < Hold
                PROVE  inFlight'[KeyOf(f)'].lease = f
    BY DEF WindowIsLeased
  <2>1. exchanges'[f] = exchanges[f] /\ KeyOf(f)' = KeyOf(f)
    BY <1>2 DEF KeyOf
  <2>2. inFlight[KeyOf(f)].lease = f /\ KeyOf(f) \in Key
    BY <2>1, KeyOfType DEF IInv, LeaseInv, WindowIsLeased, HoldersForwarded
  <2>3. inFlight[KeyOf(f)].startedAt = exchanges[f].startedAt
    BY <2>2, NobodyAssumption DEF IInv, LeaseInv, LeasesAreHeld
  <2>4. ~Expired(KeyOf(f))
    BY <1>1, <2>1, <2>3, ExchangeAssumption DEF Expired, ExchangeRecord
  <2>. QED
    BY <1>5, <2>1, <2>2, <2>4
<1>. QED
  BY <1>3, <1>4, <1>6, <1>7 DEF LeaseInv

\* A step that leaves the lease as it is.
LEMMA KeepHolding ==
  ASSUME IInv, NEW e \in Exchange, NEW rec \in ExchangeRecord,
         rec.holding = exchanges[e].holding, rec.startedAt = exchanges[e].startedAt,
         rec.body = exchanges[e].body, rec.step = exchanges[e].step,
         rec.at \in {"waiting", "streaming"},
         exchanges' = [exchanges EXCEPT ![e] = rec], now' = now, inFlight' = inFlight
  PROVE  LeaseInv'
<1>1. /\ exchanges \in [Exchange -> ExchangeRecord] /\ inFlight \in [Key -> Lease \cup {NoLease}]
  BY DEF IInv, TypeOK
<1>2. \A f \in Exchange :
        /\ exchanges'[f].holding = exchanges[f].holding
        /\ exchanges'[f].startedAt = exchanges[f].startedAt
        /\ exchanges'[f].body = exchanges[f].body /\ exchanges'[f].step = exchanges[f].step
        /\ exchanges'[f].at = exchanges[f].at \/ exchanges'[f].at \in {"waiting", "streaming"}
  BY <1>1
<1>3. HoldersForwarded'
  BY <1>2 DEF IInv, LeaseInv, HoldersForwarded
<1>4. WindowIsLeased'
  BY <1>2 DEF IInv, LeaseInv, WindowIsLeased, KeyOf
<1>5. OneHolderPerWindow'
  BY <1>2 DEF IInv, LeaseInv, OneHolderPerWindow, KeyOf
<1>6. \A k \in Key : inFlight[k].lease # Nobody => inFlight[k].lease \in Exchange
  BY <1>1 DEF Lease, NoLease
<1>7. LeasesAreHeld'
  BY <1>2, <1>6 DEF IInv, LeaseInv, LeasesAreHeld
<1>. QED
  BY <1>3, <1>4, <1>5, <1>7 DEF LeaseInv

\* A request is forwarded: whoever else holds its key has held it for the window.
LEMMA ForwardInv ==
  ASSUME IInv, NEW e \in Exchange, Forward(e), NEW rec \in ExchangeRecord,
         rec = [exchanges[e] EXCEPT !.at = "waiting", !.startedAt = now, !.holding = TRUE],
         exchanges' = [exchanges EXCEPT ![e] = rec], exchanges[e].body # NoBody
  PROVE  LeaseInv'
<1>. DEFINE key == KeyOf(e)
<1>1. /\ exchanges \in [Exchange -> ExchangeRecord] /\ inFlight \in [Key -> Lease \cup {NoLease}]
      /\ now \in Nat /\ now' = now
  BY DEF IInv, TypeOK, Forward
<1>2. /\ rec.at = "waiting" /\ rec.startedAt = now /\ rec.holding
      /\ rec.body = exchanges[e].body /\ rec.step = exchanges[e].step
  BY <1>1 DEF ExchangeRecord
<1>3. key \in Key /\ KeyOf(e)' = key
  BY <1>1, <1>2, KeyOfType DEF IInv, KeyOf
<1>4. ~exchanges[e].holding
  BY DEF IInv, LeaseInv, HoldersForwarded, Forward
<1>5. \A f \in Exchange : f # e => exchanges'[f] = exchanges[f] /\ KeyOf(f)' = KeyOf(f)
  BY <1>1 DEF KeyOf
<1>. HIDE DEF key
<1>6. /\ inFlight'[key] = [lease |-> e, startedAt |-> now]
      /\ \A k \in Key : k # key =>
           inFlight'[k] = inFlight[k] \/ (Expired(k) /\ inFlight'[k] = NoLease)
  <2>1. inFlight' = [Swept EXCEPT ![key] = [lease |-> e, startedAt |-> now]]
    BY DEF Forward, key
  <2>2. Swept \in [Key -> Lease \cup {NoLease}]
    BY SweptType DEF IInv
  <2>. QED
    BY <1>3, <2>1, <2>2 DEF Swept
<1>7. \A f \in Exchange :
        exchanges[f].holding /\ now - exchanges[f].startedAt < Hold =>
          /\ KeyOf(f) \in Key /\ inFlight[KeyOf(f)].lease = f /\ ~Expired(KeyOf(f))
  <2>. SUFFICES ASSUME NEW f \in Exchange, exchanges[f].holding, now - exchanges[f].startedAt < Hold
                PROVE  KeyOf(f) \in Key /\ inFlight[KeyOf(f)].lease = f /\ ~Expired(KeyOf(f))
    OBVIOUS
  <2>1. inFlight[KeyOf(f)].lease = f /\ KeyOf(f) \in Key
    BY KeyOfType DEF IInv, LeaseInv, WindowIsLeased, HoldersForwarded
  <2>2. inFlight[KeyOf(f)].startedAt = exchanges[f].startedAt
    BY <2>1, NobodyAssumption DEF IInv, LeaseInv, LeasesAreHeld
  <2>. QED
    BY <1>1, <2>1, <2>2, ExchangeAssumption DEF Expired, ExchangeRecord
<1>8. \A f \in Exchange :
        exchanges[f].holding /\ KeyOf(f) = key => exchanges[f].startedAt + Hold <= now
  <2>. SUFFICES ASSUME NEW f \in Exchange, exchanges[f].holding, KeyOf(f) = key
                PROVE  exchanges[f].startedAt + Hold <= now
    OBVIOUS
  <2>1. exchanges[f].startedAt \in Nat
    BY <1>1 DEF ExchangeRecord
  <2>2. CASE now - exchanges[f].startedAt < Hold
    <3>1. InProgress(key)
      BY <1>7, <2>2, NobodyAssumption DEF InProgress
    <3>. QED
      BY <3>1 DEF Forward, key
  <2>. QED
    BY <1>1, <2>1, <2>2, ExchangeAssumption
<1>9. HoldersForwarded'
  BY <1>1, <1>2, <1>5 DEF IInv, LeaseInv, HoldersForwarded
<1>10. OneHolderPerWindow'
  <2>1. \A f \in Exchange :
          f # e /\ exchanges'[f].holding /\ KeyOf(f)' = key => exchanges'[e].startedAt >= exchanges'[f].startedAt + Hold
    BY <1>1, <1>2, <1>5, <1>8
  <2>. SUFFICES ASSUME NEW f \in Exchange, NEW g \in Exchange, f # g,
                       exchanges'[f].holding, exchanges'[g].holding, KeyOf(f)' = KeyOf(g)'
                PROVE  \/ exchanges'[f].startedAt >= exchanges'[g].startedAt + Hold
                       \/ exchanges'[g].startedAt >= exchanges'[f].startedAt + Hold
    BY DEF OneHolderPerWindow
  <2>2. CASE f = e \/ g = e
    BY <1>3, <2>1, <2>2
  <2>3. CASE f # e /\ g # e
    BY <1>5, <2>3 DEF IInv, LeaseInv, OneHolderPerWindow
  <2>. QED
    BY <2>2, <2>3
<1>11. LeasesAreHeld'
  <2>. SUFFICES ASSUME NEW k \in Key, inFlight'[k].lease # Nobody
                PROVE  /\ exchanges'[inFlight'[k].lease].holding
                       /\ k = [body |-> exchanges'[inFlight'[k].lease].body,
                               step |-> exchanges'[inFlight'[k].lease].step]
                       /\ exchanges'[inFlight'[k].lease].startedAt = inFlight'[k].startedAt
    BY DEF LeasesAreHeld
  <2>1. CASE k = key
    BY <1>1, <1>2, <1>6, <2>1 DEF key, KeyOf
  <2>2. CASE k # key
    <3>1. inFlight'[k] = inFlight[k] /\ inFlight[k].lease # Nobody
      BY <1>6, <2>2 DEF NoLease
    <3>2. inFlight[k].lease \in Exchange
      BY <1>1, <3>1 DEF Lease, NoLease
    <3>3. exchanges[inFlight[k].lease].holding
      BY <3>1 DEF IInv, LeaseInv, LeasesAreHeld
    <3>4. exchanges'[inFlight[k].lease] = exchanges[inFlight[k].lease]
      BY <1>4, <1>5, <3>2, <3>3
    <3>. QED
      BY <3>1, <3>2, <3>4 DEF IInv, LeaseInv, LeasesAreHeld
  <2>. QED
    BY <2>1, <2>2
<1>12. WindowIsLeased'
  <2>. SUFFICES ASSUME NEW f \in Exchange, exchanges'[f].holding,
                       now - exchanges'[f].startedAt < Hold
                PROVE  inFlight'[KeyOf(f)'].lease = f
    BY <1>1 DEF WindowIsLeased
  <2>1. CASE f = e
    BY <1>3, <1>6, <2>1
  <2>2. CASE f # e
    <3>1. exchanges[f].holding /\ KeyOf(f)' = KeyOf(f) /\ now - exchanges[f].startedAt < Hold
      BY <1>5, <2>2
    <3>2. KeyOf(f) \in Key /\ inFlight[KeyOf(f)].lease = f /\ ~Expired(KeyOf(f))
      BY <1>7, <3>1
    <3>3. KeyOf(f) # key
      <4>1. exchanges[f].startedAt \in Nat
        BY <1>1 DEF ExchangeRecord
      <4>. QED
        BY <1>1, <1>8, <3>1, <4>1, ExchangeAssumption
    <3>. QED
      BY <1>6, <3>1, <3>2, <3>3
  <2>. QED
    BY <2>1, <2>2
<1>. QED
  BY <1>9, <1>10, <1>11, <1>12 DEF LeaseInv

LEMMA TickInv ==
  ASSUME IInv, Tick
  PROVE  LeaseInv'
<1>1. /\ exchanges \in [Exchange -> ExchangeRecord] /\ now \in Nat /\ now' = now + 1
      /\ exchanges' = exchanges /\ inFlight' = inFlight
  BY DEF IInv, TypeOK, Tick
<1>2. \A e \in Exchange : exchanges[e].startedAt \in Nat
  BY <1>1 DEF ExchangeRecord
<1>3. HoldersForwarded' /\ WindowIsLeased'
  BY <1>1, <1>2, ExchangeAssumption DEF IInv, LeaseInv, HoldersForwarded, WindowIsLeased, KeyOf
<1>4. LeasesAreHeld' /\ OneHolderPerWindow'
  BY <1>1 DEF IInv, LeaseInv, LeasesAreHeld, OneHolderPerWindow, KeyOf
<1>. QED
  BY <1>3, <1>4 DEF LeaseInv

-----------------------------------------------------------------------------
(* Every step.                                                              *)

\* What a step has to leave in order.
LEMMA Conclude ==
  ASSUME IInv, NEW e \in Exchange, NEW rec \in ExchangeRecord, Orderly(rec),
         exchanges' = [exchanges EXCEPT ![e] = rec],
         sessions' \in Store, inFlight' \in [Key -> Lease \cup {NoLease}], lastSweptAt' \in Nat,
         now' \in Nat, promised' \in [Session -> Promise], told' \in [Session -> Told], LeaseInv'
  PROVE  IInv'
<1>1. exchanges' \in [Exchange -> ExchangeRecord] /\ \A f \in Exchange : Orderly(exchanges'[f])
  BY DEF IInv, TypeOK, AllOrderly
<1>2. TypeOK'
  BY <1>1 DEF TypeOK, Store
<1>3. AllOrderly'
  BY <1>1 DEF AllOrderly, Orderly
<1>. QED
  BY <1>2, <1>3 DEF IInv

LEMMA AnsweredOrderly ==
  ASSUME IInv, NEW e \in Exchange, NEW n \in {0, 1}, exchanges[e].at # "over"
  PROVE  /\ Answered(e, n) \in ExchangeRecord /\ ~Answered(e, n).holding
         /\ Orderly(Answered(e, n))
<1>1. exchanges[e].reports = 0
  BY DEF IInv, AllOrderly, Orderly
<1>. QED
  BY <1>1, AnsweredType DEF IInv, Orderly

\* The proxy answers an exchange that has no lease.
LEMMA AnswerInv ==
  ASSUME IInv, NEW e \in Exchange, NEW n \in {0, 1},
         exchanges[e].at \in {"new", "rendering", "rendered"},
         exchanges' = [exchanges EXCEPT ![e] = Answered(e, n)],
         \/ UNCHANGED <<inFlight, lastSweptAt>>
         \/ inFlight' = Swept /\ lastSweptAt' = IF SweepDue THEN now ELSE lastSweptAt,
         UNCHANGED <<sessions, now, promised, told>>
  PROVE  IInv'
<1>1. ~exchanges[e].holding
  BY DEF IInv, LeaseInv, HoldersForwarded
<1>2. inFlight' \in {inFlight, Swept} /\ now' = now
  OBVIOUS
<1>3. LeaseInv'
  BY <1>1, <1>2, AnsweredOrderly, StayOut
<1>4. /\ sessions' \in Store /\ inFlight' \in [Key -> Lease \cup {NoLease}] /\ lastSweptAt' \in Nat
      /\ now' \in Nat /\ promised' \in [Session -> Promise] /\ told' \in [Session -> Told]
  BY SweptType DEF IInv, TypeOK, Store
<1>. QED
  BY <1>3, <1>4, AnsweredOrderly, Conclude

\* An exchange that may have a lease ends.
LEMMA EndInv ==
  ASSUME IInv, NEW e \in Exchange, exchanges[e].at \in {"waiting", "streaming"},
         exchanges' = [exchanges EXCEPT ![e] = Answered(e, 1)],
         inFlight' = Released(e), UNCHANGED <<lastSweptAt, now>>,
         \/ UNCHANGED <<sessions, promised, told>>
         \/ \E status \in Status, usage \in {"cached", "nothing", "silent"} : Settle(e, status, usage)
  PROVE  IInv'
<1>1. LeaseInv'
  BY AnsweredOrderly, EndHolding
<1>2. inFlight' \in [Key -> Lease \cup {NoLease}] /\ lastSweptAt' \in Nat /\ now' \in Nat
  BY ReleasedType DEF IInv, TypeOK
<1>3. sessions' \in Store /\ promised' \in [Session -> Promise] /\ told' \in [Session -> Told]
  <2>1. sessions \in Store /\ promised \in [Session -> Promise] /\ told \in [Session -> Told]
    BY DEF IInv, TypeOK, Store
  <2>2. CASE UNCHANGED <<sessions, promised, told>>
    BY <2>1, <2>2
  <2>3. ASSUME NEW status \in Status, NEW usage, Settle(e, status, usage)
        PROVE  sessions' \in Store /\ promised' \in [Session -> Promise] /\ told' \in [Session -> Told]
    <3>. DEFINE s == SessionIn(e)
    <3>1. s \in Session \cup {NoSession}
      BY SessionInType DEF IInv
    <3>. HIDE DEF s
    <3>2. sessions' = Settled(s, status, usage)
      BY <2>3 DEF Settle, s
    <3>3. promised' = promised \/ promised' = Used(promised, s)
      BY <2>3 DEF Settle, s
    <3>4. told' = told \/ (s # NoSession /\ told' = [told EXCEPT ![s].answered = TRUE])
      BY <2>3 DEF Settle, s
    <3>5. told' \in [Session -> Told]
      BY <2>1, <3>1, <3>4 DEF Told
    <3>. QED
      BY <2>1, <3>1, <3>2, <3>3, <3>5, SettledType, UsedType
  <2>. QED
    BY <2>2, <2>3
<1>. QED
  BY <1>1, <1>2, <1>3, AnsweredOrderly, Conclude

LEMMA AskSessionInv ==
  ASSUME IInv, NEW e \in Exchange, AskSession(e)
  PROVE  IInv'
<1>1. PICK b \in Sends[e] :
        LET s == SessionOf[b]
            noted == Noted(sessions, s, now)
        IN  /\ sessions' = noted.store
            /\ exchanges' = [exchanges EXCEPT
                 ![e] = [@ EXCEPT !.at = "rendering", !.body = b, !.floor = noted.minFreezeStep,
                                  !.owed = IF s = NoSession THEN 0 ELSE promised[s].step]]
            /\ promised' = Used(promised, s)
            /\ told' = IF s = NoSession THEN told
                       ELSE [told EXCEPT ![s].asked = now]
  BY DEF AskSession
<1>. DEFINE s == SessionOf[b]
            least == Noted(sessions, s, now).minFreezeStep
            owed == IF s = NoSession THEN 0 ELSE promised[s].step
            rec == [exchanges[e] EXCEPT !.at = "rendering", !.body = b, !.floor = least, !.owed = owed]
<1>2. b \in Body /\ s \in Session \cup {NoSession} /\ b # NoBody
  BY ExchangeAssumption DEF Exchange
<1>3. /\ sessions \in Store /\ now \in Nat /\ promised \in [Session -> Promise]
      /\ told \in [Session -> Told] /\ exchanges[e] \in ExchangeRecord
  BY DEF IInv, TypeOK, Store
<1>4. sessions' \in Store /\ least \in Step \cup {0}
  BY <1>1, <1>2, <1>3, NotedType
<1>5. owed \in Step \cup {0}
  BY <1>2, <1>3 DEF Promise
<1>6. promised' \in [Session -> Promise]
  BY <1>1, <1>2, <1>3, UsedType
<1>7. told' \in [Session -> Told]
  BY <1>1, <1>2, <1>3 DEF Told
<1>8. exchanges' = [exchanges EXCEPT ![e] = rec]
  BY <1>1
<1>9. exchanges[e].at = "new" /\ UNCHANGED <<inFlight, lastSweptAt, now>>
  BY DEF AskSession, Arrives
<1>. HIDE DEF s, least, owed
<1>10. /\ rec \in ExchangeRecord /\ rec.at = "rendering" /\ rec.body = b
       /\ rec.holding = exchanges[e].holding /\ rec.reports = exchanges[e].reports
  BY <1>2, <1>3, <1>4, <1>5 DEF ExchangeRecord
<1>. HIDE DEF rec
<1>11. ~exchanges[e].holding /\ exchanges[e].reports = 0
  BY <1>9 DEF IInv, LeaseInv, HoldersForwarded, AllOrderly, Orderly
<1>12. Orderly(rec)
  BY <1>2, <1>10, <1>11 DEF Orderly
<1>13. LeaseInv'
  BY <1>8, <1>9, <1>10, <1>11, StayOut
<1>14. /\ inFlight' \in [Key -> Lease \cup {NoLease}] /\ lastSweptAt' \in Nat /\ now' \in Nat
  BY <1>9 DEF IInv, TypeOK
<1>. QED
  BY <1>4, <1>6, <1>7, <1>8, <1>10, <1>12, <1>13, <1>14, Conclude

LEMMA SkipHistoryInv ==
  ASSUME IInv, NEW e \in Exchange, SkipHistory(e)
  PROVE  IInv'
<1>1. PICK b \in Sends[e] : exchanges' = [exchanges EXCEPT ![e].at = "rendered", ![e].body = b]
  BY DEF SkipHistory
<1>. DEFINE rec == [exchanges[e] EXCEPT !.at = "rendered", !.body = b]
<1>2. b \in Body /\ b # NoBody
  BY ExchangeAssumption DEF Exchange
<1>3. exchanges \in [Exchange -> ExchangeRecord]
  BY DEF IInv, TypeOK
<1>4. ~exchanges[e].holding /\ exchanges[e].reports = 0
  BY DEF SkipHistory, Arrives, IInv, LeaseInv, HoldersForwarded, AllOrderly, Orderly
<1>5. exchanges' = [exchanges EXCEPT ![e] = rec]
  BY <1>1, <1>3
<1>6. rec \in ExchangeRecord /\ Orderly(rec) /\ ~rec.holding
  <2>1. /\ rec \in ExchangeRecord /\ rec.at = "rendered" /\ rec.body = b
        /\ rec.holding = exchanges[e].holding /\ rec.reports = exchanges[e].reports
    BY <1>2, <1>3 DEF ExchangeRecord
  <2>. HIDE DEF rec
  <2>. QED
    BY <1>2, <1>4, <2>1 DEF Orderly
<1>. HIDE DEF rec
<1>7. UNCHANGED <<sessions, inFlight, lastSweptAt, now, promised, told>>
  BY DEF SkipHistory
<1>8. LeaseInv'
  BY <1>4, <1>5, <1>6, <1>7, StayOut
<1>. QED
  BY <1>5, <1>6, <1>7, <1>8, Conclude DEF IInv, TypeOK, Store

\* A render, or none, of a body that was asked about.
LEMMA RenderedInv ==
  ASSUME IInv, NEW e \in Exchange, exchanges[e].at = "rendering", NEW step \in Step \cup {0},
         exchanges' = [exchanges EXCEPT ![e] = Rendered(e, step)],
         sessions' \in Store, promised' \in [Session -> Promise],
         UNCHANGED <<inFlight, lastSweptAt, now, told>>
  PROVE  IInv'
<1>1. exchanges[e] \in ExchangeRecord
  BY DEF IInv, TypeOK
<1>2. ~exchanges[e].holding /\ exchanges[e].reports = 0 /\ exchanges[e].body # NoBody
  BY DEF IInv, LeaseInv, HoldersForwarded, AllOrderly, Orderly
<1>3. Rendered(e, step) \in ExchangeRecord /\ Orderly(Rendered(e, step)) /\ ~Rendered(e, step).holding
  BY <1>1, <1>2 DEF Rendered, ExchangeRecord, Orderly
<1>4. LeaseInv'
  BY <1>2, <1>3, StayOut
<1>5. /\ inFlight' \in [Key -> Lease \cup {NoLease}] /\ lastSweptAt' \in Nat /\ now' \in Nat
      /\ told' \in [Session -> Told]
  BY DEF IInv, TypeOK
<1>. QED
  BY <1>3, <1>4, <1>5, Conclude

LEMMA RenderInv ==
  ASSUME IInv, NEW e \in Exchange, Render(e)
  PROVE  IInv'
<1>. DEFINE s == SessionIn(e)
            used == Used(promised, s)
<1>1. PICK step \in StepsFrom(exchanges[e].floor) :
        /\ sessions' = RecordFreezeStep(sessions, s, step)
        /\ exchanges' = [exchanges EXCEPT ![e] = Rendered(e, step)]
        /\ promised' = IF s = NoSession THEN promised
                       ELSE [used EXCEPT ![s].step = IF step > @ THEN step ELSE @]
  BY DEF Render
<1>2. s \in Session \cup {NoSession}
  BY SessionInType DEF IInv
<1>. HIDE DEF s
<1>3. sessions \in Store /\ promised \in [Session -> Promise]
  BY DEF IInv, TypeOK, Store
<1>4. step \in Step \cup {0}
  BY DEF StepsFrom
<1>5. sessions' \in Store
  BY <1>1, <1>2, <1>3, <1>4, RecordFreezeStepType
<1>6. used \in [Session -> Promise]
  BY <1>2, <1>3, UsedType
<1>. HIDE DEF used
<1>7. promised' \in [Session -> Promise]
  <2>1. CASE s = NoSession
    BY <1>1, <1>3, <2>1
  <2>2. CASE s # NoSession
    <3>. DEFINE risen == IF step > used[s].step THEN step ELSE used[s].step
    <3>1. used[s] \in Promise /\ risen \in Step \cup {0}
      BY <1>2, <1>4, <1>6, <2>2 DEF Promise
    <3>2. promised' = [used EXCEPT ![s].step = risen]
      BY <1>1, <2>2
    <3>. HIDE DEF risen
    <3>3. [used[s] EXCEPT !.step = risen] \in Promise
      BY <3>1 DEF Promise
    <3>. QED
      BY <1>6, <3>2, <3>3
  <2>. QED
    BY <2>1, <2>2
<1>8. exchanges[e].at = "rendering" /\ UNCHANGED <<inFlight, lastSweptAt, now, told>>
  BY DEF Render
<1>. QED
  BY <1>1, <1>4, <1>5, <1>7, <1>8, RenderedInv

LEMMA ForwardStep ==
  ASSUME IInv, NEW e \in Exchange, Forward(e)
  PROVE  IInv'
<1>. DEFINE rec == [exchanges[e] EXCEPT !.at = "waiting", !.startedAt = now, !.holding = TRUE]
<1>1. exchanges[e] \in ExchangeRecord /\ now \in Nat
  BY DEF IInv, TypeOK
<1>2. exchanges[e].body # NoBody /\ exchanges[e].reports = 0
  BY DEF IInv, AllOrderly, Orderly, Forward
<1>3. rec \in ExchangeRecord /\ Orderly(rec)
  BY <1>1, <1>2 DEF ExchangeRecord, Orderly
<1>4. exchanges' = [exchanges EXCEPT ![e] = rec]
  BY DEF Forward
<1>5. LeaseInv'
  BY <1>2, <1>3, <1>4, ForwardInv
<1>. HIDE DEF rec
<1>6. inFlight' \in [Key -> Lease \cup {NoLease}]
  <2>1. [lease |-> e, startedAt |-> now] \in Lease
    BY <1>1 DEF Lease
  <2>. QED
    BY <2>1, SweptType DEF IInv, Forward
<1>7. /\ sessions' \in Store /\ lastSweptAt' \in Nat /\ now' \in Nat
      /\ promised' \in [Session -> Promise] /\ told' \in [Session -> Told]
  BY DEF IInv, TypeOK, Store, Forward
<1>. QED
  BY <1>3, <1>4, <1>5, <1>6, <1>7, Conclude

\* A step of an exchange that keeps its lease, if it has one, and changes no more
\* than its place or its client.
LEMMA MoveInv ==
  ASSUME IInv, NEW e \in Exchange, PassThrough(e) \/ BeginStream(e)
  PROVE  IInv'
<1>1. exchanges[e] \in ExchangeRecord /\ exchanges[e].reports = 0
  <2>1. exchanges[e].at # "over"
    BY DEF PassThrough, BeginStream, Arrives
  <2>. QED
    BY <2>1 DEF IInv, TypeOK, AllOrderly, Orderly
<1>2. PICK rec \in ExchangeRecord :
        /\ exchanges' = [exchanges EXCEPT ![e] = rec]
        /\ rec.at \in {"waiting", "streaming"} /\ rec.reports = 0
        /\ rec.holding = exchanges[e].holding /\ rec.startedAt = exchanges[e].startedAt
        /\ rec.body = exchanges[e].body /\ rec.step = exchanges[e].step
  <2>1. CASE PassThrough(e)
    <3>. DEFINE moved == [exchanges[e] EXCEPT !.at = "waiting"]
    <3>1. moved \in ExchangeRecord
      BY <1>1 DEF ExchangeRecord
    <3>2. exchanges' = [exchanges EXCEPT ![e] = moved]
      BY <2>1 DEF PassThrough, IInv, TypeOK
    <3>3. /\ moved.at = "waiting" /\ moved.reports = 0 /\ moved.holding = exchanges[e].holding
          /\ moved.startedAt = exchanges[e].startedAt
          /\ moved.body = exchanges[e].body /\ moved.step = exchanges[e].step
      BY <1>1 DEF ExchangeRecord
    <3>. QED
      BY <3>1, <3>2, <3>3
  <2>2. CASE BeginStream(e)
    <3>. DEFINE moved == [exchanges[e] EXCEPT !.at = "streaming", !.client = "reading"]
    <3>1. moved \in ExchangeRecord
      BY <1>1 DEF ExchangeRecord
    <3>2. exchanges' = [exchanges EXCEPT ![e] = moved]
      BY <2>2 DEF BeginStream, IInv, TypeOK
    <3>3. /\ moved.at = "streaming" /\ moved.reports = 0 /\ moved.holding = exchanges[e].holding
          /\ moved.startedAt = exchanges[e].startedAt
          /\ moved.body = exchanges[e].body /\ moved.step = exchanges[e].step
      BY <1>1 DEF ExchangeRecord
    <3>. QED
      BY <3>1, <3>2, <3>3
  <2>. QED
    BY <2>1, <2>2
<1>3. Orderly(rec)
  BY <1>2 DEF Orderly
<1>4. UNCHANGED <<sessions, inFlight, lastSweptAt, now, promised, told>>
  BY DEF PassThrough, BeginStream
<1>5. LeaseInv'
  BY <1>2, <1>4, KeepHolding
<1>6. /\ sessions' \in Store /\ inFlight' \in [Key -> Lease \cup {NoLease}] /\ lastSweptAt' \in Nat
      /\ now' \in Nat /\ promised' \in [Session -> Promise] /\ told' \in [Session -> Told]
  BY <1>4 DEF IInv, TypeOK, Store
<1>. QED
  BY <1>2, <1>3, <1>5, <1>6, Conclude

LEMMA DisconnectInv ==
  ASSUME IInv, NEW e \in Exchange, Disconnect(e)
  PROVE  IInv'
<1>. DEFINE rec == [exchanges[e] EXCEPT !.client = "gone", !.holding = FALSE, !.startedAt = 0]
<1>1. exchanges[e] \in ExchangeRecord /\ exchanges[e].reports = 0 /\ exchanges[e].at = "streaming"
  BY DEF IInv, TypeOK, AllOrderly, Orderly, Disconnect
<1>2. rec \in ExchangeRecord /\ Orderly(rec) /\ ~rec.holding
  BY <1>1 DEF ExchangeRecord, Orderly
<1>3. /\ exchanges' = [exchanges EXCEPT ![e] = rec] /\ inFlight' = Released(e)
      /\ UNCHANGED <<sessions, lastSweptAt, now, promised, told>>
  BY DEF Disconnect
<1>. HIDE DEF rec
<1>4. LeaseInv'
  BY <1>2, <1>3, EndHolding
<1>5. /\ sessions' \in Store /\ inFlight' \in [Key -> Lease \cup {NoLease}] /\ lastSweptAt' \in Nat
      /\ now' \in Nat /\ promised' \in [Session -> Promise] /\ told' \in [Session -> Told]
  BY <1>3, ReleasedType DEF IInv, TypeOK, Store
<1>. QED
  BY <1>2, <1>3, <1>4, <1>5, Conclude

LEMMA ExchangeStepInv ==
  ASSUME IInv, NEW e \in Exchange, ExchangeStep(e)
  PROVE  IInv'
<1>1. CASE RefuseBody(e) \/ AnswerPin(e)
  <2>1. \E n \in {0, 1} :
          /\ exchanges[e].at = "new" /\ exchanges' = [exchanges EXCEPT ![e] = Answered(e, n)]
          /\ UNCHANGED <<sessions, inFlight, lastSweptAt, now, promised, told>>
    BY <1>1 DEF RefuseBody, AnswerPin, Arrives
  <2>. QED
    BY <2>1, AnswerInv
<1>2. CASE PassThrough(e) \/ BeginStream(e)
  BY <1>2, MoveInv
<1>3. CASE AskSession(e)
  BY <1>3, AskSessionInv
<1>4. CASE Render(e)
  BY <1>4, RenderInv
<1>5. CASE SkipRender(e)
  BY <1>5, RenderedInv DEF SkipRender, IInv, TypeOK, Store
<1>6. CASE FailTransform(e) \/ RefuseSize(e)
  BY <1>6, AnswerInv DEF FailTransform, RefuseSize
<1>7. CASE RefuseDuplicate(e)
  BY <1>7, AnswerInv DEF RefuseDuplicate
<1>8. CASE Forward(e)
  BY <1>8, ForwardStep
<1>9. CASE FailUpstream(e) \/ UpstreamTimeout(e)
  BY <1>9, EndInv DEF FailUpstream, UpstreamTimeout
<1>10. CASE BeginUnscanned(e)
  <2>1. PICK status \in Status : Settle(e, status, "silent")
    BY <1>10 DEF BeginUnscanned
  <2>2. inFlight' = Released(e)
    BY <2>1 DEF Settle
  <2>. QED
    BY <1>10, <2>1, <2>2, EndInv DEF BeginUnscanned
<1>11. CASE EndStream(e) \/ BreakStream(e) \/ IdleTimeout(e)
  <2>1. PICK status \in Status, usage \in {"cached", "nothing", "silent"} : EndScan(e, status, usage)
    BY <1>11 DEF EndStream, BreakStream, IdleTimeout, Status
  <2>2. inFlight' = Released(e)
    BY <2>1 DEF EndScan, Settle
  <2>3. exchanges[e].at = "streaming"
    BY <1>11 DEF EndStream, BreakStream, IdleTimeout
  <2>. QED
    BY <2>1, <2>2, <2>3, EndInv DEF EndScan
<1>12. CASE Disconnect(e)
  BY <1>12, DisconnectInv
<1>13. CASE SkipHistory(e)
  BY <1>13, SkipHistoryInv
<1>. QED
  BY <1>1, <1>2, <1>3, <1>4, <1>5, <1>6, <1>7, <1>8, <1>9, <1>10, <1>11, <1>12, <1>13 DEF ExchangeStep

LEMMA NextIInv == IInv /\ [Next]_vars => IInv'
<1>. SUFFICES ASSUME IInv, [Next]_vars PROVE IInv'
  OBVIOUS
<1>1. CASE \E e \in Exchange : ExchangeStep(e)
  BY <1>1, ExchangeStepInv
<1>2. CASE Tick
  <2>1. TypeOK'
    BY <1>2 DEF IInv, TypeOK, Tick
  <2>2. AllOrderly'
    BY <1>2 DEF IInv, AllOrderly, Tick
  <2>. QED
    BY <1>2, <2>1, <2>2, TickInv DEF IInv
<1>3. CASE UNCHANGED vars
  <2>1. TypeOK' /\ AllOrderly'
    BY <1>3 DEF IInv, TypeOK, AllOrderly, vars, proxy
  <2>2. LeaseInv'
    BY <1>3 DEF IInv, LeaseInv, HoldersForwarded, WindowIsLeased, LeasesAreHeld, OneHolderPerWindow,
                KeyOf, vars, proxy
  <2>. QED
    BY <2>1, <2>2 DEF IInv
<1>. QED
  BY <1>1, <1>2, <1>3 DEF Next

-----------------------------------------------------------------------------
\* The inductive invariant of the leases: whoever forwarded within the window
\* still has its key in the map.
THEOREM LeaseInvHolds == Spec => []IInv
BY InitIInv, NextIInv, PTL DEF Spec

\* Types: the store of sessions stays within its bound, and no exchange is
\* reported twice.
THEOREM TypeCorrect == Spec => []TypeOK
<1>1. IInv => TypeOK
  BY DEF IInv
<1>. QED
  BY <1>1, LeaseInvHolds, PTL

\* Of two exchanges that wait for one transformed request, the later was
\* forwarded when the earlier was at least the window old, for any number of
\* exchanges, any window and any sweeping of the map.
THEOREM NoDoubleSend == Spec => []OneHolderPerWindow
<1>1. IInv => OneHolderPerWindow
  BY DEF IInv, LeaseInv
<1>. QED
  BY <1>1, LeaseInvHolds, PTL

\* No exit of the handler leaves a key behind, and none takes the key of another.
THEOREM NoLeaseLeft == Spec => []LeasesAreHeld
<1>1. IInv => LeasesAreHeld
  BY DEF IInv, LeaseInv
<1>. QED
  BY <1>1, LeaseInvHolds, PTL

-----------------------------------------------------------------------------
(* The order of the records, and what is promised of them.                  *)

KeysDiffer(store) == \A p, q \in DOMAIN store : store[p].key = store[q].key => p = q

\* How the records of one store come to be in another: in their order.
Embeds(f, part, store) ==
  /\ f \in [DOMAIN part -> DOMAIN store]
  /\ \A i \in DOMAIN part : part[i] = store[f[i]]
  /\ \A i, j \in DOMAIN part : i < j => f[i] < f[j]

\* The others are the records with other keys, in their order.
LEMMA OthersAre ==
  ASSUME NEW store \in Store, NEW s \in Session, KeysDiffer(store)
  PROVE  \E f : /\ Embeds(f, Others(store, s), store)
                /\ \A p \in DOMAIN store :
                     store[p].key # s => \E i \in DOMAIN Others(store, s) : f[i] = p
                /\ \A i \in DOMAIN Others(store, s) : Others(store, s)[i].key # s
<1>. DEFINE others == Others(store, s)
<1>1. store \in Seq(SessionRecord) /\ Len(store) \in Nat /\ DOMAIN store = 1..Len(store)
  BY DEF Store
<1>2. CASE Places(store, s) = {}
  <2>1. others = store
    BY <1>2 DEF Others
  <2>2. \A p \in DOMAIN store : store[p].key # s
    BY <1>2 DEF Places
  <2>. DEFINE f == [i \in DOMAIN store |-> i]
  <2>3. Embeds(f, store, store) /\ \A p \in DOMAIN store : f[p] = p
    BY <1>1 DEF Embeds
  <2>. HIDE DEF f
  <2>. QED
    BY <2>1, <2>2, <2>3
<1>3. CASE Places(store, s) # {}
  <2>1. PICK place \in 1..Len(store) : place = Place(store, s) /\ store[place].key = s
    BY <1>3, PlaceInStore
  <2>. DEFINE before == SubSeq(store, 1, place - 1)
              after == SubSeq(store, place + 1, Len(store))
              f == [i \in 1..(Len(store) - 1) |-> IF i < place THEN i ELSE i + 1]
  <2>2. others = before \o after
    BY <1>3, <2>1 DEF Others
  <2>3. /\ before \in Seq(SessionRecord) /\ Len(before) = place - 1
        /\ \A i \in 1..(place - 1) : before[i] = store[i]
    BY <1>1, <2>1
  <2>4. /\ after \in Seq(SessionRecord) /\ Len(after) = Len(store) - place
        /\ \A i \in 1..(Len(store) - place) : after[i] = store[place + i]
    BY <1>1, <2>1
  <2>. HIDE DEF before, after
  <2>5. /\ others \in Seq(SessionRecord) /\ Len(others) = Len(store) - 1
        /\ \A i \in 1..(Len(store) - 1) :
             others[i] = IF i <= place - 1 THEN before[i] ELSE after[i - (place - 1)]
    <3>1. /\ others \in Seq(SessionRecord) /\ Len(others) = Len(before) + Len(after)
          /\ \A i \in 1..(Len(before) + Len(after)) :
               others[i] = IF i <= Len(before) THEN before[i] ELSE after[i - Len(before)]
      <4>1. /\ before \o after \in Seq(SessionRecord)
            /\ Len(before \o after) = Len(before) + Len(after)
            /\ \A i \in 1..(Len(before) + Len(after)) :
                 (before \o after)[i] = IF i <= Len(before) THEN before[i] ELSE after[i - Len(before)]
        BY <2>3, <2>4, ConcatProperties
      <4>. HIDE DEF others
      <4>. QED
        BY <2>2, <4>1, Zenon
    <3>2. Len(before) + Len(after) = Len(store) - 1
      BY <1>1, <2>1, <2>3, <2>4
    <3>. QED
      BY <2>3, <3>1, <3>2
  <2>. HIDE DEF others
  <2>6. DOMAIN others = 1..(Len(store) - 1)
    BY <1>1, <2>1, <2>5
  <2>7. \A i \in 1..(Len(store) - 1) : f[i] \in 1..Len(store) /\ f[i] # place /\ others[i] = store[f[i]]
    <3>. TAKE i \in 1..(Len(store) - 1)
    <3>0. f[i] = IF i < place THEN i ELSE i + 1
      BY Zenon
    <3>. HIDE DEF f
    <3>1. CASE i < place
      <4>1. i \in 1..(place - 1) /\ i <= place - 1 /\ f[i] = i /\ i \in 1..Len(store)
        BY <1>1, <2>1, <3>0, <3>1
      <4>2. others[i] = before[i] /\ before[i] = store[i]
        BY <2>3, <2>5, <4>1
      <4>. QED
        BY <2>1, <3>1, <4>1, <4>2
    <3>2. CASE ~(i < place)
      <4>1. /\ i - (place - 1) \in 1..(Len(store) - place) /\ place + (i - (place - 1)) = i + 1
            /\ ~(i <= place - 1) /\ f[i] = i + 1 /\ i + 1 \in 1..Len(store) /\ i + 1 # place
        BY <1>1, <2>1, <3>0, <3>2
      <4>2. others[i] = after[i - (place - 1)]
        BY <2>5, <4>1
      <4>3. after[i - (place - 1)] = store[i + 1]
        BY <2>4, <4>1
      <4>. QED
        BY <4>1, <4>2, <4>3
    <3>. QED
      BY <3>1, <3>2
  <2>8. \A i, j \in 1..(Len(store) - 1) : i < j => f[i] < f[j]
    BY <1>1, <2>1
  <2>9. f \in [1..(Len(store) - 1) -> 1..Len(store)]
    BY <2>7
  <2>10. \A p \in 1..Len(store) : p # place => \E i \in 1..(Len(store) - 1) : f[i] = p
    <3>. TAKE p \in 1..Len(store)
    <3>1. CASE p < place
      BY <1>1, <2>1, <3>1
    <3>2. CASE p > place
      <4>1. p - 1 \in 1..(Len(store) - 1) /\ f[p - 1] = p
        BY <1>1, <2>1, <3>2
      <4>. QED
        BY <4>1
    <3>. QED
      BY <2>1, <3>1, <3>2
  <2>. HIDE DEF f
  <2>11. Embeds(f, others, store)
    BY <1>1, <2>6, <2>7, <2>8, <2>9 DEF Embeds
  <2>12. \A i \in DOMAIN others : others[i].key # s
    BY <1>1, <2>1, <2>6, <2>7 DEF KeysDiffer
  <2>13. \A p \in DOMAIN store : store[p].key # s => \E i \in DOMAIN others : f[i] = p
    BY <1>1, <2>1, <2>6, <2>10
  <2>. QED
    BY <2>11, <2>12, <2>13 DEF others
<1>. QED
  BY <1>2, <1>3

\* The record that was touched is the last one, and the others come before it, in
\* their order; the first of them goes when there are too many.
LEMMA TouchIs ==
  ASSUME NEW store \in Store, NEW rec \in SessionRecord
  PROVE  LET others == Others(store, rec.key)
             touched == Touch(store, rec)
             gone == IF Len(others) + 1 > SessionsMax THEN 1 ELSE 0
         IN  /\ others \in Seq(SessionRecord) /\ Len(others) \in Nat /\ SessionsMax \in Nat \ {0}
             /\ touched \in Seq(SessionRecord) /\ Len(touched) = (Len(others) + 1) - gone
             /\ touched[Len(touched)] = rec
             /\ \A i \in 1..(Len(others) - gone) : touched[i] = others[i + gone]
             /\ Len(touched) >= 1
<1>. DEFINE others == Others(store, rec.key)
            all == Append(others, rec)
            touched == Touch(store, rec)
<1>1. others \in Seq(SessionRecord) /\ Len(others) \in Nat
  <2>1. rec.key \in Session
    BY DEF SessionRecord
  <2>. QED
    BY <2>1, OthersType DEF Store
<1>2. touched = IF Len(all) > SessionsMax THEN Tail(all) ELSE all
  BY DEF Touch
<1>. HIDE DEF others, touched
<1>3. /\ all \in Seq(SessionRecord) /\ all # <<>> /\ Len(all) = Len(others) + 1
      /\ \A i \in 1..Len(others) : all[i] = others[i]
      /\ all[Len(others) + 1] = rec
  BY <1>1, AppendProperties
<1>4. /\ Tail(all) \in Seq(SessionRecord) /\ Len(Tail(all)) = Len(all) - 1
      /\ \A i \in 1..Len(Tail(all)) : Tail(all)[i] = all[i + 1]
  BY <1>3, HeadTailProperties
<1>. HIDE DEF all
<1>. DEFINE gone == IF Len(others) + 1 > SessionsMax THEN 1 ELSE 0
<1>5. SessionsMax \in Nat \ {0}
  BY SessionAssumption
<1>6. /\ touched \in Seq(SessionRecord) /\ Len(touched) = (Len(others) + 1) - gone
      /\ touched[Len(touched)] = rec
      /\ \A i \in 1..(Len(others) - gone) : touched[i] = others[i + gone]
      /\ Len(touched) >= 1
  <2>1. CASE Len(others) + 1 > SessionsMax
    <3>1. gone = 1 /\ Len(others) >= 1 /\ touched = Tail(all) /\ Len(touched) = Len(others)
      BY <1>1, <1>2, <1>3, <1>4, <1>5, <2>1
    <3>. HIDE DEF gone
    <3>2. touched[Len(touched)] = rec
      BY <1>1, <1>3, <1>4, <3>1
    <3>3. \A i \in 1..(Len(others) - 1) : touched[i] = others[i + 1]
      BY <1>1, <1>3, <1>4, <3>1
    <3>. QED
      BY <1>1, <1>4, <3>1, <3>2, <3>3
  <2>2. CASE ~(Len(others) + 1 > SessionsMax)
    <3>1. gone = 0 /\ touched = all
      BY <1>2, <1>3, <2>2
    <3>. HIDE DEF gone
    <3>. QED
      BY <1>1, <1>3, <3>1
  <2>. QED
    BY <2>1, <2>2
<1>. HIDE DEF gone
<1>. QED
  BY <1>1, <1>5, <1>6 DEF others, touched, gone

\* Of each session: its record is there and says no less than what is promised, and
\* whoever was used since is known.
Keeps(store, s, promise) ==
  promise.step # 0 =>
    \E p \in DOMAIN store :
      /\ store[p].key = s /\ store[p].freezeStep >= promise.step
      /\ \A q \in DOMAIN store : q > p => store[q].key \in promise.others

\* Before the record that was touched come records of the store with other keys.
LEMMA TouchFrom ==
  ASSUME NEW store \in Store, KeysDiffer(store), NEW rec \in SessionRecord
  PROVE  LET touched == Touch(store, rec)
         IN  \E g \in [1..(Len(touched) - 1) -> DOMAIN store] :
               /\ \A i \in 1..(Len(touched) - 1) : touched[i] = store[g[i]] /\ touched[i].key # rec.key
               /\ \A i, j \in 1..(Len(touched) - 1) : i < j => g[i] < g[j]
<1>. DEFINE others == Others(store, rec.key)
            touched == Touch(store, rec)
<1>1. PICK gone \in {0, 1} :
        /\ others \in Seq(SessionRecord) /\ Len(others) \in Nat
        /\ touched \in Seq(SessionRecord) /\ Len(touched) = (Len(others) + 1) - gone
        /\ \A i \in 1..(Len(others) - gone) : touched[i] = others[i + gone]
        /\ Len(touched) >= 1
  BY TouchIs
<1>2. PICK f : Embeds(f, others, store) /\ \A i \in DOMAIN others : others[i].key # rec.key
  <2>1. rec.key \in Session
    BY DEF SessionRecord
  <2>. QED
    BY <2>1, OthersAre
<1>. HIDE DEF others, touched
<1>3. DOMAIN others = 1..Len(others)
  BY <1>1
<1>. DEFINE g == [i \in 1..(Len(touched) - 1) |-> f[i + gone]]
<1>4. \A i \in 1..(Len(touched) - 1) :
        i + gone \in DOMAIN others /\ touched[i] = others[i + gone] /\ g[i] = f[i + gone]
  BY <1>1, <1>3
<1>5. \A i, j \in 1..(Len(touched) - 1) : i < j => i + gone < j + gone
  BY <1>1
<1>6. g \in [1..(Len(touched) - 1) -> DOMAIN store]
  BY <1>2, <1>4 DEF Embeds
<1>. HIDE DEF g
<1>7. \A i \in 1..(Len(touched) - 1) : touched[i] = store[g[i]] /\ touched[i].key # rec.key
  BY <1>2, <1>4 DEF Embeds
<1>8. \A i, j \in 1..(Len(touched) - 1) : i < j => g[i] < g[j]
  BY <1>2, <1>4, <1>5 DEF Embeds
<1>. QED
  BY <1>6, <1>7, <1>8 DEF touched

LEMMA TouchDiffers ==
  ASSUME NEW store \in Store, KeysDiffer(store), NEW rec \in SessionRecord
  PROVE  KeysDiffer(Touch(store, rec))
<1>. DEFINE touched == Touch(store, rec)
<1>1. /\ touched \in Seq(SessionRecord) /\ Len(touched) \in Nat /\ Len(touched) >= 1
      /\ touched[Len(touched)] = rec
  BY TouchIs
<1>2. PICK g \in [1..(Len(touched) - 1) -> DOMAIN store] :
        /\ \A i \in 1..(Len(touched) - 1) : touched[i] = store[g[i]] /\ touched[i].key # rec.key
        /\ \A i, j \in 1..(Len(touched) - 1) : i < j => g[i] < g[j]
  BY TouchFrom
<1>. HIDE DEF touched
<1>3. DOMAIN touched = 1..Len(touched) /\ \A i \in DOMAIN touched : i = Len(touched) \/ i \in 1..(Len(touched) - 1)
  BY <1>1
<1>4. \A i \in 1..(Len(touched) - 1) : g[i] \in 1..Len(store) /\ Len(store) \in Nat
  BY <1>2 DEF Store
<1>5. \A i, j \in 1..(Len(touched) - 1) : touched[i].key = touched[j].key => i = j
  <2>. SUFFICES ASSUME NEW i \in 1..(Len(touched) - 1), NEW j \in 1..(Len(touched) - 1),
                       touched[i].key = touched[j].key
                PROVE  i = j
    OBVIOUS
  <2>1. g[i] = g[j]
    BY <1>2 DEF KeysDiffer
  <2>2. ~(i < j) /\ ~(j < i)
    BY <1>2, <1>4, <2>1
  <2>. QED
    BY <1>1, <2>2
<1>6. \A i, j \in DOMAIN touched : touched[i].key = touched[j].key => i = j
  BY <1>1, <1>2, <1>3, <1>5
<1>. QED
  BY <1>6 DEF KeysDiffer, touched

\* What is promised of a session holds of a record of it that is touched and no finer.
LEMMA TouchKeepsOwn ==
  ASSUME NEW store \in Store, NEW rec \in SessionRecord, NEW promise \in Promise,
         rec.freezeStep >= promise.step
  PROVE  Keeps(Touch(store, rec), rec.key, promise)
<1>. DEFINE touched == Touch(store, rec)
<1>1. /\ touched \in Seq(SessionRecord) /\ Len(touched) \in Nat /\ Len(touched) >= 1
      /\ touched[Len(touched)] = rec
  BY TouchIs
<1>. HIDE DEF touched
<1>2. Len(touched) \in DOMAIN touched /\ \A q \in DOMAIN touched : ~(q > Len(touched))
  BY <1>1
<1>. QED
  BY <1>1, <1>2 DEF Keeps, touched

\* The record of a session stays while the sessions used since are fewer than the
\* records there is room for: all behind it are of those sessions, each once.
LEMMA TouchKeepsOthers ==
  ASSUME NEW store \in Store, KeysDiffer(store), NEW rec \in SessionRecord,
         NEW s \in Session, s # rec.key, NEW promise \in Promise, promise.step # 0,
         Keeps(store, s, promise), NEW used, used = promise.others \cup {rec.key},
         IsFiniteSet(used), Cardinality(used) < SessionsMax
  PROVE  Keeps(Touch(store, rec), s, [promise EXCEPT !.others = used])
<1>. DEFINE others == Others(store, rec.key)
            touched == Touch(store, rec)
            gone == IF Len(others) + 1 > SessionsMax THEN 1 ELSE 0
<1>1. /\ others \in Seq(SessionRecord) /\ Len(others) \in Nat /\ SessionsMax \in Nat \ {0}
      /\ touched \in Seq(SessionRecord) /\ Len(touched) = (Len(others) + 1) - gone
      /\ touched[Len(touched)] = rec
      /\ \A i \in 1..(Len(others) - gone) : touched[i] = others[i + gone]
  BY TouchIs
<1>2. rec.key \in Session
  BY DEF SessionRecord
<1>3. PICK f : /\ Embeds(f, others, store)
               /\ \A p \in DOMAIN store :
                    store[p].key # rec.key => \E i \in DOMAIN others : f[i] = p
               /\ \A i \in DOMAIN others : others[i].key # rec.key
  BY <1>2, OthersAre
<1>4. PICK p \in DOMAIN store :
        /\ store[p].key = s /\ store[p].freezeStep >= promise.step
        /\ \A q \in DOMAIN store : q > p => store[q].key \in promise.others
  BY DEF Keeps
<1>5. PICK o \in DOMAIN others : f[o] = p
  BY <1>3, <1>4
<1>. HIDE DEF others, touched
<1>6. DOMAIN others = 1..Len(others) /\ DOMAIN store = 1..Len(store) /\ Len(store) \in Nat
  BY <1>1 DEF Store
<1>7. others[o] = store[p] /\ \A i \in (o + 1)..Len(others) : others[i].key \in promise.others
  <2>1. \A i \in (o + 1)..Len(others) : i \in DOMAIN others /\ o < i
    BY <1>5, <1>6
  <2>2. \A i \in DOMAIN others : o < i => f[i] > p /\ f[i] \in DOMAIN store /\ others[i] = store[f[i]]
    BY <1>3, <1>5, <1>6 DEF Embeds
  <2>. QED
    BY <1>3, <1>4, <1>5, <2>1, <2>2 DEF Embeds
<1>8. \A i, j \in DOMAIN others : others[i].key = others[j].key => i = j
  <2>. SUFFICES ASSUME NEW i \in DOMAIN others, NEW j \in DOMAIN others, others[i].key = others[j].key
                PROVE  i = j
    OBVIOUS
  <2>1. f[i] = f[j] /\ f[i] \in 1..Len(store)
    BY <1>3, <1>6 DEF Embeds, KeysDiffer
  <2>2. ~(i < j) /\ ~(j < i)
    BY <1>3, <1>6, <2>1 DEF Embeds
  <2>. QED
    BY <1>6, <2>2
<1>9. o > gone
  <2>1. SUFFICES ASSUME o = 1, Len(others) + 1 > SessionsMax PROVE FALSE
    BY <1>5, <1>6
  <2>. DEFINE Behind == 2..(Len(others) + 1)
              keyAt == [i \in Behind |-> IF i = Len(others) + 1 THEN rec.key ELSE others[i].key]
  <2>2. IsFiniteSet(Behind) /\ Cardinality(Behind) = Len(others)
    <3>1. Len(others) >= 1 /\ 2 \in Int /\ Len(others) + 1 \in Int
      BY <1>1, <1>5, <1>6
    <3>2. /\ IsFiniteSet(2..(Len(others) + 1))
          /\ Cardinality(2..(Len(others) + 1)) =
               IF 2 > Len(others) + 1 THEN 0 ELSE (Len(others) + 1) - 2 + 1
      BY <3>1, FS_Interval
    <3>. QED
      BY <1>1, <3>1, <3>2
  <2>3. Cardinality(used) \in Nat
    BY FS_CardinalityType
  <2>4. \A i \in Behind :
          /\ keyAt[i] = IF i = Len(others) + 1 THEN rec.key ELSE others[i].key
          /\ i # Len(others) + 1 => i \in (o + 1)..Len(others) /\ i \in DOMAIN others
    BY <1>1, <1>6, <2>1
  <2>5. keyAt \in [Behind -> used]
    BY <1>7, <2>4
  <2>6. Cardinality(used) < Cardinality(Behind)
    BY <1>1, <2>1, <2>2, <2>3
  <2>. HIDE DEF Behind, keyAt
  <2>7. PICK i, j \in Behind : i # j /\ keyAt[i] = keyAt[j]
    BY <2>2, <2>5, <2>6, FS_PigeonHole
  <2>. QED
    BY <1>3, <1>8, <2>4, <2>7
<1>10. gone \in {0, 1}
  OBVIOUS
<1>. HIDE DEF gone
<1>. DEFINE at == o - gone
<1>11. /\ at \in DOMAIN touched /\ touched[at] = others[o]
       /\ DOMAIN touched = 1..Len(touched)
  <2>1. DOMAIN touched = 1..Len(touched)
    BY <1>1
  <2>2. o \in 1..Len(others) /\ Len(others) \in Nat
    BY <1>1, <1>5, <1>6
  <2>3. at \in 1..(Len(others) - gone) /\ at + gone = o /\ at \in 1..((Len(others) + 1) - gone)
    BY <1>9, <1>10, <2>2
  <2>. HIDE DEF at
  <2>. QED
    BY <1>1, <2>1, <2>3
<1>12. ASSUME NEW q \in DOMAIN touched, q > at PROVE touched[q].key \in used
  <2>1. CASE q = Len(touched)
    BY <1>1, <2>1
  <2>2. CASE q # Len(touched)
    <3>1. q \in 1..(Len(others) - gone) /\ q + gone \in (o + 1)..Len(others)
      <4>1. q \in 1..((Len(others) + 1) - gone) /\ q # (Len(others) + 1) - gone /\ q > o - gone
        BY <1>1, <1>11, <1>12, <2>2
      <4>2. Len(others) \in Nat /\ o \in Nat
        BY <1>1, <1>5, <1>6
      <4>. QED
        BY <1>10, <4>1, <4>2
    <3>. QED
      BY <1>1, <1>7, <3>1
  <2>. QED
    BY <2>1, <2>2
<1>. HIDE DEF at
<1>13. [promise EXCEPT !.others = used].others = used /\ [promise EXCEPT !.others = used].step = promise.step
  BY DEF Promise
<1>14. touched[at].key = s /\ touched[at].freezeStep >= promise.step
  BY <1>4, <1>7, <1>11
<1>. QED
  BY <1>11, <1>12, <1>13, <1>14 DEF Keeps, touched

\* What a record says was told: an end of a response, and when its session asked.
Tells(store, tolds) ==
  \A p \in DOMAIN store :
    LET rec == store[p]
    IN  /\ rec.cacheDead \/ rec.lastCacheAlive = "absent" => tolds[rec.key].answered
        /\ rec.lastSeen \in {0, tolds[rec.key].asked}

Remembered(store, promises, tolds) ==
  /\ KeysDiffer(store)
  /\ \A s \in Session : IsFiniteSet(promises[s].others) /\ Keeps(store, s, promises[s])
  /\ Tells(store, tolds)

LEMMA StepIsNat ==
  ASSUME NEW step \in Step \cup {0}
  PROVE  step \in Nat
BY SessionAssumption

\* What asking finds of a session, with or without a record of it.
LEMMA RecordSays ==
  ASSUME NEW store \in Store, NEW promises \in [Session -> Promise], NEW tolds \in [Session -> Told],
         Remembered(store, promises, tolds), NEW s \in Session
  PROVE  LET rec == RecordOf(store, s)
         IN  /\ rec \in SessionRecord /\ rec.key = s
             /\ rec.freezeStep >= promises[s].step
             /\ rec.cacheDead \/ rec.lastCacheAlive = "absent" => tolds[s].answered
             /\ rec.lastSeen \in {0, tolds[s].asked}
<1>. DEFINE rec == RecordOf(store, s)
<1>1. rec \in SessionRecord /\ rec.key = s
  BY RecordOfType
<1>2. promises[s].step \in Nat /\ rec.freezeStep \in Nat
  <2>1. promises[s].step \in Step \cup {0} /\ rec.freezeStep \in Step \cup {0}
    BY <1>1 DEF Promise, SessionRecord
  <2>. QED
    BY <2>1, StepIsNat
<1>3. CASE Places(store, s) = {}
  <2>1. rec = Fresh(s)
    BY <1>3 DEF RecordOf
  <2>2. promises[s].step = 0
    BY <1>3 DEF Remembered, Keeps, Places
  <2>3. rec.freezeStep >= promises[s].step
    BY <2>1, <2>2 DEF Fresh
  <2>4. ~rec.cacheDead /\ rec.lastCacheAlive # "absent" /\ rec.lastSeen = 0
    BY <2>1 DEF Fresh
  <2>. QED
    BY <1>1, <2>3, <2>4
<1>4. CASE Places(store, s) # {}
  <2>1. PICK place \in DOMAIN store : rec = store[place] /\ store[place].key = s
    <3>1. /\ Place(store, s) \in 1..Len(store) /\ DOMAIN store = 1..Len(store)
          /\ store[Place(store, s)].key = s
      BY <1>4, PlaceInStore DEF Store
    <3>2. rec = store[Place(store, s)]
      BY <1>4 DEF RecordOf
    <3>. QED
      BY <3>1, <3>2
  <2>. HIDE DEF rec
  <2>2. rec.freezeStep >= promises[s].step
    <3>1. CASE promises[s].step = 0
      BY <1>2, <3>1
    <3>2. CASE promises[s].step # 0
      BY <2>1, <3>2 DEF Remembered, Keeps, KeysDiffer
    <3>. QED
      BY <3>1, <3>2
  <2>3. /\ rec.cacheDead \/ rec.lastCacheAlive = "absent" => tolds[s].answered
        /\ rec.lastSeen \in {0, tolds[s].asked}
    BY <2>1 DEF Remembered, Tells
  <2>. QED
    BY <1>1, <2>2, <2>3 DEF rec
<1>. QED
  BY <1>3, <1>4

\* The record of a session is written.
LEMMA TouchRemembers ==
  ASSUME NEW store \in Store, NEW promises \in [Session -> Promise], NEW tolds \in [Session -> Told],
         Remembered(store, promises, tolds), NEW s \in Session,
         NEW rec \in SessionRecord, rec.key = s,
         NEW promisesNow \in [Session -> Promise], NEW toldsNow \in [Session -> Told],
         \A other \in Session : other # s =>
           promisesNow[other] = Used(promises, s)[other] /\ toldsNow[other] = tolds[other],
         promisesNow[s].others = {}, rec.freezeStep >= promisesNow[s].step,
         rec.cacheDead \/ rec.lastCacheAlive = "absent" => toldsNow[s].answered,
         rec.lastSeen \in {0, toldsNow[s].asked}
  PROVE  Remembered(Touch(store, rec), promisesNow, toldsNow)
<1>1. KeysDiffer(store) /\ KeysDiffer(Touch(store, rec))
  BY TouchDiffers DEF Remembered
<1>2. ASSUME NEW other \in Session
      PROVE  /\ IsFiniteSet(promisesNow[other].others)
             /\ Keeps(Touch(store, rec), other, promisesNow[other])
  <2>1. CASE other = s
    <3>1. promisesNow[s] \in Promise
      OBVIOUS
    <3>. QED
      BY <2>1, <3>1, TouchKeepsOwn, FS_EmptySet
  <2>2. CASE other # s
    <3>. DEFINE promise == promises[other]
                used == promise.others \cup {s}
    <3>1. s # NoSession
      BY SessionAssumption
    <3>2. promisesNow[other] = IF promise.step = 0 THEN promise
                               ELSE IF Cardinality(used) >= SessionsMax THEN NoPromise
                               ELSE [promise EXCEPT !.others = used]
      BY <2>2, <3>1 DEF Used
    <3>3. promise \in Promise /\ IsFiniteSet(promise.others) /\ Keeps(store, other, promise)
      BY DEF Remembered
    <3>. HIDE DEF promise
    <3>4. IsFiniteSet(used)
      BY <3>3, FS_AddElement
    <3>5. Cardinality(used) \in Nat /\ SessionsMax \in Nat
      BY <3>4, FS_CardinalityType, SessionAssumption
    <3>. HIDE DEF used
    <3>6. CASE promise.step = 0
      BY <3>2, <3>3, <3>6 DEF Keeps
    <3>7. CASE promise.step # 0 /\ Cardinality(used) >= SessionsMax
      BY <3>2, <3>7, FS_EmptySet DEF Keeps, NoPromise
    <3>8. CASE promise.step # 0 /\ ~(Cardinality(used) >= SessionsMax)
      <4>1. promisesNow[other] = [promise EXCEPT !.others = used]
        BY <3>2, <3>8
      <4>2. used = promise.others \cup {rec.key} /\ Cardinality(used) < SessionsMax
        BY <3>5, <3>8 DEF used
      <4>3. Keeps(Touch(store, rec), other, [promise EXCEPT !.others = used])
        BY <1>1, <2>2, <3>3, <3>4, <3>8, <4>2, TouchKeepsOthers
      <4>4. [promise EXCEPT !.others = used].others = used
        BY <3>3 DEF Promise
      <4>. QED
        BY <3>4, <4>1, <4>3, <4>4
    <3>. QED
      BY <3>6, <3>7, <3>8
  <2>. QED
    BY <2>1, <2>2
<1>3. Tells(Touch(store, rec), toldsNow)
  <2>. DEFINE touched == Touch(store, rec)
  <2>1. /\ touched \in Seq(SessionRecord) /\ Len(touched) \in Nat /\ touched[Len(touched)] = rec
    BY TouchIs
  <2>2. PICK g \in [1..(Len(touched) - 1) -> DOMAIN store] :
          \A i \in 1..(Len(touched) - 1) : touched[i] = store[g[i]] /\ touched[i].key # rec.key
    BY <1>1, TouchFrom
  <2>. HIDE DEF touched
  <2>. SUFFICES ASSUME NEW i \in DOMAIN touched
                PROVE  /\ touched[i].cacheDead \/ touched[i].lastCacheAlive = "absent"
                            => toldsNow[touched[i].key].answered
                       /\ touched[i].lastSeen \in {0, toldsNow[touched[i].key].asked}
    BY DEF Tells, touched
  <2>3. CASE i = Len(touched)
    BY <2>1, <2>3
  <2>4. CASE i # Len(touched)
    <3>1. i \in 1..(Len(touched) - 1)
      BY <2>1, <2>4
    <3>2. touched[i] \in SessionRecord /\ touched[i].key # s /\ touched[i] = store[g[i]] /\ g[i] \in DOMAIN store
      BY <2>1, <2>2, <3>1
    <3>3. toldsNow[touched[i].key] = tolds[touched[i].key]
      BY <3>2 DEF SessionRecord
    <3>. QED
      BY <3>2, <3>3 DEF Remembered, Tells
  <2>. QED
    BY <2>3, <2>4
<1>. QED
  BY <1>1, <1>2, <1>3 DEF Remembered

\* The outcome of a response is noted, after its end was told.
LEMMA NoteRemembers ==
  ASSUME NEW store \in Store, NEW promises, NEW tolds,
         Remembered(store, promises, tolds), NEW s, s \in Session => tolds[s].answered, NEW usage
  PROVE  Remembered(NoteCacheOutcome(store, s, usage), promises, tolds)
<1>. DEFINE noted == NoteCacheOutcome(store, s, usage)
<1>1. store \in Seq(SessionRecord) /\ DOMAIN store = 1..Len(store) /\ DOMAIN noted = DOMAIN store
  BY DEF Store, NoteCacheOutcome
<1>2. \A i \in DOMAIN store :
        /\ noted[i].key = store[i].key /\ noted[i].freezeStep = store[i].freezeStep
        /\ noted[i].cacheDead = store[i].cacheDead /\ noted[i].lastSeen = store[i].lastSeen
        /\ noted[i].lastCacheAlive = store[i].lastCacheAlive \/ store[i].key = s
  <2>. TAKE i \in DOMAIN store
  <2>1. store[i] \in SessionRecord
    BY <1>1
  <2>. DEFINE alive == IF usage = "cached" THEN "alive" ELSE "absent"
              ever == store[i].everCacheAlive \/ usage = "cached"
  <2>2. noted[i] = IF store[i].key # s THEN store[i]
                   ELSE [store[i] EXCEPT !.lastCacheAlive = alive, !.everCacheAlive = ever]
    BY DEF NoteCacheOutcome
  <2>. HIDE DEF alive, ever, noted
  <2>. QED
    BY <2>1, <2>2 DEF SessionRecord
<1>3. \A i \in DOMAIN store : store[i].key \in Session
  <2>1. \A i \in DOMAIN store : store[i] \in SessionRecord
    BY <1>1
  <2>. QED
    BY <2>1 DEF SessionRecord
<1>. HIDE DEF noted
<1>4. KeysDiffer(noted)
  BY <1>1, <1>2 DEF Remembered, KeysDiffer
<1>5. \A other \in Session : Keeps(noted, other, promises[other])
  <2>. SUFFICES ASSUME NEW other \in Session, promises[other].step # 0
                PROVE  \E p \in DOMAIN noted :
                         /\ noted[p].key = other /\ noted[p].freezeStep >= promises[other].step
                         /\ \A q \in DOMAIN noted : q > p => noted[q].key \in promises[other].others
    BY DEF Keeps
  <2>1. PICK p \in DOMAIN store :
          /\ store[p].key = other /\ store[p].freezeStep >= promises[other].step
          /\ \A q \in DOMAIN store : q > p => store[q].key \in promises[other].others
    BY DEF Remembered, Keeps
  <2>. QED
    BY <1>1, <1>2, <2>1
<1>6. Tells(noted, tolds)
  <2>. SUFFICES ASSUME NEW i \in DOMAIN noted
                PROVE  /\ noted[i].cacheDead \/ noted[i].lastCacheAlive = "absent"
                            => tolds[noted[i].key].answered
                       /\ noted[i].lastSeen \in {0, tolds[noted[i].key].asked}
    BY DEF Tells
  <2>1. CASE store[i].key = s
    BY <1>1, <1>2, <1>3, <2>1 DEF Remembered, Tells
  <2>2. CASE store[i].key # s
    BY <1>1, <1>2, <2>2 DEF Remembered, Tells
  <2>. QED
    BY <2>1, <2>2
<1>. QED
  BY <1>4, <1>5, <1>6 DEF Remembered, noted

-----------------------------------------------------------------------------
(* What the session's state is for.                                        *)

\* A history that is being rendered may not be finer than what its session was owed.
FloorsOwed ==
  \A e \in Exchange : exchanges[e].at = "rendering" => exchanges[e].floor >= exchanges[e].owed

SessionsInv == IInv /\ Remembered(sessions, promised, told) /\ FloorsOwed

LEMMA SessionsInit == Init => SessionsInv
<1>. SUFFICES ASSUME Init PROVE SessionsInv
  OBVIOUS
<1>1. sessions = <<>> /\ DOMAIN sessions = {}
  BY DEF Init
<1>2. \A s \in Session : promised[s] = NoPromise
  BY DEF Init
<1>3. Remembered(sessions, promised, told)
  BY <1>1, <1>2, FS_EmptySet DEF Remembered, KeysDiffer, Keeps, Tells, NoPromise
<1>4. FloorsOwed
  BY DEF Init, FloorsOwed, NoExchange
<1>. QED
  BY <1>3, <1>4, InitIInv DEF SessionsInv

\* The state of the sessions, as their types say.
LEMMA SessionTypes ==
  ASSUME IInv
  PROVE  /\ sessions \in Store /\ promised \in [Session -> Promise] /\ told \in [Session -> Told]
         /\ exchanges \in [Exchange -> ExchangeRecord] /\ now \in Nat
BY DEF IInv, TypeOK, Store

LEMMA AskRemembers ==
  ASSUME IInv, IInv', Remembered(sessions, promised, told), FloorsOwed, NEW e \in Exchange, AskSession(e)
  PROVE  Remembered(sessions, promised, told)' /\ FloorsOwed'
<1>1. PICK b \in Sends[e] :
        LET s == SessionOf[b]
            noted == Noted(sessions, s, now)
        IN  /\ sessions' = noted.store
            /\ exchanges' = [exchanges EXCEPT
                 ![e] = [@ EXCEPT !.at = "rendering", !.body = b, !.floor = noted.minFreezeStep,
                                  !.owed = IF s = NoSession THEN 0 ELSE promised[s].step]]
            /\ promised' = Used(promised, s)
            /\ told' = IF s = NoSession THEN told
                       ELSE [told EXCEPT ![s].asked = now]
  BY DEF AskSession
<1>. DEFINE s == SessionOf[b]
            floorNow == Noted(sessions, s, now).minFreezeStep
            owed == IF s = NoSession THEN 0 ELSE promised[s].step
<1>2. s \in Session \cup {NoSession} /\ NoSession \notin Session
  BY ExchangeAssumption, SessionAssumption DEF Exchange
<1>3. /\ sessions' = Noted(sessions, s, now).store /\ promised' = Used(promised, s)
      /\ told' = IF s = NoSession THEN told ELSE [told EXCEPT ![s].asked = now]
      /\ exchanges' = [exchanges EXCEPT
           ![e] = [@ EXCEPT !.at = "rendering", !.body = b, !.floor = floorNow, !.owed = owed]]
  BY <1>1
<1>. HIDE DEF s
<1>4. Remembered(sessions, promised, told)' /\ floorNow >= owed
  <2>1. CASE s = NoSession
    <3>1. promised' = promised
      <4>1. \A other \in Session : Used(promised, s)[other] = promised[other]
        BY <1>2, <2>1 DEF Used
      <4>2. promised \in [Session -> Promise] /\ Used(promised, s) \in [Session -> Promise]
        BY <1>2, SessionTypes, UsedType
      <4>. QED
        BY <1>3, <4>1, <4>2
    <3>2. sessions' = sessions /\ told' = told /\ floorNow = 0 /\ owed = 0
      BY <1>3, <2>1 DEF Noted
    <3>. QED
      BY <3>1, <3>2
  <2>2. CASE s # NoSession
    <3>. DEFINE old == RecordOf(sessions, s)
                rec == [old EXCEPT !.lastSeen = now, !.cacheDead = FALSE]
    <3>1. s \in Session
      BY <1>2, <2>2
    <3>2. /\ old \in SessionRecord /\ old.key = s /\ old.freezeStep >= promised[s].step
          /\ old.lastCacheAlive = "absent" => told[s].answered
      BY <3>1, SessionTypes, RecordSays
    <3>3. sessions' = Touch(sessions, rec) /\ floorNow = old.freezeStep /\ owed = promised[s].step
      BY <1>3, <2>2 DEF Noted
    <3>. HIDE DEF old, floorNow, owed
    <3>4. /\ rec \in SessionRecord /\ rec.key = s /\ rec.freezeStep = old.freezeStep
          /\ rec.lastSeen = now /\ ~rec.cacheDead /\ rec.lastCacheAlive = old.lastCacheAlive
      BY <3>2, SessionTypes DEF SessionRecord
    <3>. HIDE DEF rec
    <3>5. promised' \in [Session -> Promise] /\ told' \in [Session -> Told]
      BY SessionTypes DEF IInv, TypeOK
    <3>6. /\ promised'[s].others = {} /\ promised'[s].step = promised[s].step
          /\ told'[s].asked = now /\ told'[s].answered = told[s].answered
          /\ \A other \in Session : other # s => told'[other] = told[other]
      BY <1>3, <2>2, <3>1, SessionTypes DEF Used, Promise, Told
    <3>7. \A other \in Session : other # s => promised'[other] = Used(promised, s)[other]
      BY <1>3
    <3>8. /\ rec.freezeStep >= promised'[s].step /\ rec.lastSeen \in {0, told'[s].asked}
          /\ rec.cacheDead \/ rec.lastCacheAlive = "absent" => told'[s].answered
      BY <3>2, <3>4, <3>6
    <3>9. Remembered(Touch(sessions, rec), promised', told')
      BY <3>1, <3>4, <3>5, <3>6, <3>7, <3>8, SessionTypes, TouchRemembers
    <3>. QED
      BY <3>2, <3>3, <3>9
  <2>. QED
    BY <1>2, <2>1, <2>2
<1>. HIDE DEF floorNow, owed
<1>5. FloorsOwed'
  <2>. SUFFICES ASSUME NEW f \in Exchange, exchanges'[f].at = "rendering"
                PROVE  exchanges'[f].floor >= exchanges'[f].owed
    BY DEF FloorsOwed
  <2>1. CASE f = e
    BY <1>3, <1>4, <2>1, SessionTypes DEF ExchangeRecord
  <2>2. CASE f # e
    BY <1>3, <2>2, SessionTypes DEF FloorsOwed
  <2>. QED
    BY <2>1, <2>2
<1>. QED
  BY <1>4, <1>5

LEMMA RenderRemembers ==
  ASSUME IInv, IInv', Remembered(sessions, promised, told), NEW e \in Exchange, Render(e)
  PROVE  Remembered(sessions, promised, told)'
<1>. DEFINE s == SessionIn(e)
            used == Used(promised, s)
<1>1. PICK step \in StepsFrom(exchanges[e].floor) :
        /\ sessions' = RecordFreezeStep(sessions, s, step)
        /\ promised' = IF s = NoSession THEN promised
                       ELSE [used EXCEPT ![s].step = IF step > @ THEN step ELSE @]
        /\ told' = told
  BY DEF Render
<1>2. s \in Session \cup {NoSession} /\ NoSession \notin Session /\ step \in Nat \ {0}
  BY SessionInType, SessionAssumption DEF IInv, StepsFrom
<1>. HIDE DEF s
<1>3. CASE s = NoSession
  BY <1>1, <1>3 DEF RecordFreezeStep
<1>4. CASE s # NoSession
  <2>. DEFINE old == RecordOf(sessions, s)
              coarsest == IF step > old.freezeStep THEN step ELSE old.freezeStep
              rec == [old EXCEPT !.freezeStep = coarsest]
              risen == IF step > used[s].step THEN step ELSE used[s].step
  <2>1. s \in Session
    BY <1>2, <1>4
  <2>2. /\ old \in SessionRecord /\ old.key = s /\ old.freezeStep >= promised[s].step
        /\ old.cacheDead \/ old.lastCacheAlive = "absent" => told[s].answered
        /\ old.lastSeen \in {0, told[s].asked}
    BY <2>1, SessionTypes, RecordSays
  <2>3. sessions' = Touch(sessions, rec) /\ promised' = [used EXCEPT ![s].step = risen]
    BY <1>1, <1>2, <1>4 DEF RecordFreezeStep
  <2>4. used \in [Session -> Promise] /\ used[s].others = {} /\ used[s].step = promised[s].step
    <3>1. used \in [Session -> Promise]
      BY <1>2, SessionTypes, UsedType
    <3>2. used[s] = [promised[s] EXCEPT !.others = {}]
      BY <2>1 DEF Used
    <3>3. promised[s] \in Promise
      BY <2>1, SessionTypes
    <3>. HIDE DEF used
    <3>. QED
      BY <3>1, <3>2, <3>3 DEF Promise
  <2>5. coarsest \in Step \cup {0} /\ coarsest >= risen
    <3>1. step \in Step /\ old.freezeStep \in Step \cup {0} /\ promised[s].step \in Step \cup {0}
      BY <1>1, <2>1, <2>2, SessionTypes DEF StepsFrom, SessionRecord, Promise
    <3>2. step \in Nat /\ old.freezeStep \in Nat /\ promised[s].step \in Nat
      BY <3>1, SessionAssumption
    <3>. QED
      BY <2>2, <2>4, <3>1, <3>2
  <2>. HIDE DEF old, coarsest, used, risen
  <2>6. /\ rec \in SessionRecord /\ rec.key = s /\ rec.freezeStep = coarsest
        /\ rec.lastSeen = old.lastSeen /\ rec.cacheDead = old.cacheDead
        /\ rec.lastCacheAlive = old.lastCacheAlive
    BY <2>2, <2>5 DEF SessionRecord
  <2>. HIDE DEF rec
  <2>7. promised' \in [Session -> Promise] /\ told \in [Session -> Told]
    BY SessionTypes DEF IInv, TypeOK
  <2>8. /\ promised'[s].others = {} /\ promised'[s].step = risen
        /\ \A other \in Session : other # s => promised'[other] = used[other]
    BY <2>1, <2>3, <2>4 DEF Promise
  <2>9. rec.freezeStep >= promised'[s].step
    BY <2>5, <2>6, <2>8
  <2>10. Remembered(Touch(sessions, rec), promised', told)
    BY <2>1, <2>2, <2>6, <2>7, <2>8, <2>9, SessionTypes, TouchRemembers DEF used
  <2>. QED
    BY <1>1, <2>3, <2>10
<1>. QED
  BY <1>3, <1>4

LEMMA SettleRemembers ==
  ASSUME IInv, IInv', Remembered(sessions, promised, told), NEW e \in Exchange,
         NEW status, NEW usage, Settle(e, status, usage)
  PROVE  Remembered(sessions, promised, told)'
<1>. DEFINE s == SessionIn(e)
            marked == IF LeftNoCache(status) THEN MarkCacheDead(sessions, s) ELSE sessions
<1>1. /\ sessions' = NoteCacheOutcome(marked, s, usage)
      /\ promised' = IF LeftNoCache(status) THEN Used(promised, s) ELSE promised
      /\ told' = IF s = NoSession THEN told ELSE [told EXCEPT ![s].answered = TRUE]
  BY DEF Settle, Settled
<1>2. s \in Session \cup {NoSession} /\ NoSession \notin Session
  BY SessionInType, SessionAssumption DEF IInv
<1>. HIDE DEF s
<1>3. marked \in Store
  BY <1>2, SessionTypes, MarkCacheDeadType
<1>4. promised' \in [Session -> Promise] /\ told' \in [Session -> Told]
  BY SessionTypes DEF IInv, TypeOK
<1>5. /\ s \in Session => told'[s].answered /\ told'[s].asked = told[s].asked
      /\ \A other \in Session : other # s => told'[other] = told[other]
  BY <1>1, <1>2, SessionTypes DEF Told
<1>6. Remembered(sessions, promised, told')
  <2>1. \A p \in DOMAIN sessions : sessions[p].key \in Session
    <3>1. \A p \in DOMAIN sessions : sessions[p] \in SessionRecord
      BY SessionTypes DEF Store
    <3>. QED
      BY <3>1 DEF SessionRecord
  <2>2. \A other \in Session :
          /\ told[other].answered => told'[other].answered
          /\ told'[other].asked = told[other].asked
    BY <1>5
  <2>3. Tells(sessions, told')
    <3>. SUFFICES ASSUME NEW p \in DOMAIN sessions
                  PROVE  /\ sessions[p].cacheDead \/ sessions[p].lastCacheAlive = "absent"
                              => told'[sessions[p].key].answered
                         /\ sessions[p].lastSeen \in {0, told'[sessions[p].key].asked}
      BY DEF Tells
    <3>1. /\ sessions[p].cacheDead \/ sessions[p].lastCacheAlive = "absent"
               => told[sessions[p].key].answered
          /\ sessions[p].lastSeen \in {0, told[sessions[p].key].asked}
      BY DEF Remembered, Tells
    <3>. QED
      BY <2>1, <2>2, <3>1
  <2>. QED
    BY <2>3 DEF Remembered
<1>7. Remembered(marked, promised', told')
  <2>1. CASE ~LeftNoCache(status)
    BY <1>1, <1>6, <2>1
  <2>2. CASE LeftNoCache(status) /\ s = NoSession
    <3>1. promised' = promised
      <4>1. \A other \in Session : Used(promised, s)[other] = promised[other]
        BY <1>2, <2>2 DEF Used
      <4>2. promised \in [Session -> Promise] /\ Used(promised, s) \in [Session -> Promise]
        BY <1>2, SessionTypes, UsedType
      <4>. QED
        BY <1>1, <2>2, <4>1, <4>2
    <3>2. marked = sessions
      BY <2>2 DEF MarkCacheDead
    <3>. QED
      BY <1>6, <3>1, <3>2
  <2>3. CASE LeftNoCache(status) /\ s # NoSession
    <3>. DEFINE old == RecordOf(sessions, s)
                rec == [old EXCEPT !.cacheDead = TRUE]
    <3>1. s \in Session
      BY <1>2, <2>3
    <3>2. /\ old \in SessionRecord /\ old.key = s /\ old.freezeStep >= promised[s].step
          /\ old.lastSeen \in {0, told'[s].asked}
      BY <1>4, <1>6, <3>1, SessionTypes, RecordSays
    <3>3. marked = Touch(sessions, rec) /\ promised' = Used(promised, s)
      BY <1>1, <2>3 DEF MarkCacheDead
    <3>. HIDE DEF old
    <3>4. /\ rec \in SessionRecord /\ rec.key = s /\ rec.freezeStep = old.freezeStep
          /\ rec.lastSeen = old.lastSeen
      BY <3>2 DEF SessionRecord
    <3>. HIDE DEF rec, marked
    <3>5. promised'[s].others = {} /\ promised'[s].step = promised[s].step
      <4>1. promised'[s] = [promised[s] EXCEPT !.others = {}] /\ promised[s] \in Promise
        BY <3>1, <3>3, SessionTypes DEF Used
      <4>. QED
        BY <4>1 DEF Promise
    <3>6. \A other \in Session : other # s => promised'[other] = Used(promised, s)[other]
      BY <3>3
    <3>7. rec.freezeStep >= promised'[s].step /\ rec.lastSeen \in {0, told'[s].asked}
      BY <3>2, <3>4, <3>5
    <3>8. Remembered(Touch(sessions, rec), promised', told')
      BY <1>4, <1>5, <1>6, <3>1, <3>4, <3>5, <3>6, <3>7, SessionTypes, TouchRemembers
    <3>. QED
      BY <3>3, <3>8
  <2>. QED
    BY <2>1, <2>2, <2>3
<1>. HIDE DEF marked
<1>8. Remembered(NoteCacheOutcome(marked, s, usage), promised', told')
  BY <1>3, <1>5, <1>7, NoteRemembers
<1>. QED
  BY <1>1, <1>8

\* What a step of an exchange does to the state of the sessions, and what it leaves
\* that is being rendered.
LEMMA StepKinds ==
  ASSUME IInv, NEW e \in Exchange, ExchangeStep(e)
  PROVE  \/ AskSession(e) \/ Render(e)
         \/ /\ \/ UNCHANGED <<sessions, promised, told>>
               \/ \E status, usage : Settle(e, status, usage)
            /\ \/ exchanges'[e].at \notin {"rendering", "rendered"} \/ UNCHANGED exchanges
               \/ SkipHistory(e) \/ SkipRender(e)
<1>1. exchanges \in [Exchange -> ExchangeRecord]
  BY SessionTypes
<1>2. \A n : Answered(e, n).at = "over"
  BY DEF Answered, NoExchange
<1>3. CASE RefuseBody(e) \/ AnswerPin(e) \/ FailTransform(e) \/ RefuseSize(e) \/ RefuseDuplicate(e)
           \/ FailUpstream(e) \/ UpstreamTimeout(e)
  BY <1>1, <1>2, <1>3 DEF RefuseBody, AnswerPin, FailTransform, RefuseSize, RefuseDuplicate,
                          FailUpstream, UpstreamTimeout
<1>4. CASE PassThrough(e) \/ Forward(e) \/ BeginStream(e)
  <2>1. \E rec : exchanges' = [exchanges EXCEPT ![e] = rec] /\ rec.at \in {"waiting", "streaming"}
    <3>1. exchanges[e] \in ExchangeRecord
      BY <1>1
    <3>2. CASE PassThrough(e)
      <4>1. exchanges' = [exchanges EXCEPT ![e] = [exchanges[e] EXCEPT !.at = "waiting"]]
        BY <3>2 DEF PassThrough
      <4>2. [exchanges[e] EXCEPT !.at = "waiting"].at = "waiting"
        BY <3>1 DEF ExchangeRecord
      <4>. QED
        BY <4>1, <4>2
    <3>3. CASE Forward(e)
      <4>. DEFINE rec == [exchanges[e] EXCEPT !.at = "waiting", !.startedAt = now, !.holding = TRUE]
      <4>1. exchanges' = [exchanges EXCEPT ![e] = rec]
        BY <3>3 DEF Forward
      <4>2. rec.at = "waiting"
        BY <3>1 DEF ExchangeRecord
      <4>. QED
        BY <4>1, <4>2
    <3>4. CASE BeginStream(e)
      <4>. DEFINE rec == [exchanges[e] EXCEPT !.at = "streaming", !.client = "reading"]
      <4>1. exchanges' = [exchanges EXCEPT ![e] = rec]
        BY <1>1, <3>4 DEF BeginStream
      <4>2. rec.at = "streaming"
        BY <3>1 DEF ExchangeRecord
      <4>. QED
        BY <4>1, <4>2
    <3>. QED
      BY <1>4, <3>2, <3>3, <3>4
  <2>. QED
    BY <1>1, <1>4, <2>1 DEF PassThrough, Forward, BeginStream
<1>7. CASE Disconnect(e)
  <2>1. exchanges'[e].at = "streaming"
    BY <1>1, <1>7 DEF Disconnect, ExchangeRecord
  <2>. QED
    BY <1>7, <2>1 DEF Disconnect
<1>5. CASE BeginUnscanned(e) \/ EndStream(e) \/ BreakStream(e) \/ IdleTimeout(e)
  BY <1>1, <1>2, <1>5 DEF BeginUnscanned, EndStream, BreakStream, IdleTimeout, EndScan
<1>6. CASE SkipHistory(e) \/ SkipRender(e)
  BY <1>6 DEF SkipHistory, SkipRender
<1>. QED
  BY <1>3, <1>4, <1>5, <1>6, <1>7 DEF ExchangeStep

\* A step is about one exchange.
LEMMA StepIsOfOne ==
  ASSUME IInv, NEW e \in Exchange, ExchangeStep(e), NEW f \in Exchange, f # e
  PROVE  exchanges'[f] = exchanges[f]
<1>1. exchanges \in [Exchange -> ExchangeRecord]
  BY SessionTypes
<1>2. \E rec : exchanges' = [exchanges EXCEPT ![e] = rec]
  BY <1>1 DEF ExchangeStep, RefuseBody, AnswerPin, PassThrough, AskSession, SkipHistory, Render, SkipRender,
              FailTransform, RefuseSize, RefuseDuplicate, Forward, FailUpstream, UpstreamTimeout,
              BeginStream, BeginUnscanned, EndStream, BreakStream, IdleTimeout, EndScan, Disconnect
<1>. QED
  BY <1>1, <1>2

LEMMA SessionsStep == SessionsInv /\ [Next]_vars => SessionsInv'
<1>. SUFFICES ASSUME SessionsInv, [Next]_vars PROVE SessionsInv'
  OBVIOUS
<1>1. IInv /\ IInv' /\ Remembered(sessions, promised, told) /\ FloorsOwed
  BY NextIInv DEF SessionsInv
<1>2. CASE UNCHANGED <<sessions, exchanges, promised, told>>
  BY <1>1, <1>2 DEF SessionsInv, Remembered, FloorsOwed
<1>3. ASSUME NEW e \in Exchange, ExchangeStep(e) PROVE SessionsInv'
  <2>1. exchanges \in [Exchange -> ExchangeRecord]
    BY <1>1, SessionTypes
  <2>2. CASE AskSession(e)
    BY <1>1, <2>2, AskRemembers DEF SessionsInv
  <2>3. ASSUME \A f \in Exchange : exchanges'[f].at = "rendering" => exchanges'[f] = exchanges[f]
        PROVE  FloorsOwed'
    BY <1>1, <2>3 DEF FloorsOwed
  <2>4. CASE Render(e)
    <3>1. exchanges'[e].at # "rendering"
      BY <2>1, <2>4 DEF Render, Rendered, ExchangeRecord
    <3>2. FloorsOwed'
      BY <1>1, <1>3, <2>3, <3>1, StepIsOfOne
    <3>3. Remembered(sessions, promised, told)'
      BY <1>1, <2>4, RenderRemembers
    <3>. QED
      BY <1>1, <3>2, <3>3 DEF SessionsInv
  <2>5. ASSUME \/ UNCHANGED <<sessions, promised, told>>
               \/ \E status, usage : Settle(e, status, usage),
               \/ exchanges'[e].at \notin {"rendering", "rendered"} \/ UNCHANGED exchanges
               \/ SkipHistory(e) \/ SkipRender(e)
        PROVE  SessionsInv'
    <3>1. exchanges'[e].at # "rendering" \/ UNCHANGED exchanges
      BY <2>1, <2>5 DEF SkipHistory, SkipRender, Rendered, ExchangeRecord
    <3>2. FloorsOwed'
      BY <1>1, <1>3, <2>3, <3>1, StepIsOfOne
    <3>3. Remembered(sessions, promised, told)'
      <4>1. CASE UNCHANGED <<sessions, promised, told>>
        BY <1>1, <4>1 DEF Remembered
      <4>2. CASE \E status, usage : Settle(e, status, usage)
        BY <1>1, <4>2, SettleRemembers
      <4>. QED
        BY <2>5, <4>1, <4>2
    <3>. QED
      BY <1>1, <3>2, <3>3 DEF SessionsInv
  <2>. QED
    BY <1>1, <1>3, <2>2, <2>4, <2>5, StepKinds
<1>4. CASE Tick \/ UNCHANGED vars
  BY <1>2, <1>4 DEF Tick, vars, proxy
<1>. QED
  BY <1>3, <1>4 DEF Next

\* The inductive invariant of the sessions: a promise that was made is in the store,
\* behind fewer other sessions than there is room for, and what a record says was told.
THEOREM SessionsAreRemembered == Spec => []SessionsInv
BY SessionsInit, SessionsStep, PTL DEF Spec

NotFiner ==
  \A e \in Exchange :
    exchanges[e].at = "rendering" /\ exchanges'[e].at = "rendered" /\ exchanges'[e].step # 0
    => exchanges'[e].step >= exchanges[e].owed

\* A history is never rendered finer than an earlier render of its session that was
\* recorded when it asked, unless as many other sessions as there is room for came up
\* in between: for any number of records, sessions and exchanges that overlap.
THEOREM GridsNeverGetFiner == Spec => GridPromiseKept
<1>1. SessionsInv /\ [Next]_vars => [NotFiner]_vars
  <2>. SUFFICES ASSUME SessionsInv, Next, NEW f \in Exchange,
                       exchanges[f].at = "rendering", exchanges'[f].at = "rendered",
                       exchanges'[f].step # 0
                PROVE  exchanges'[f].step >= exchanges[f].owed
    BY DEF NotFiner
  <2>1. IInv /\ FloorsOwed /\ exchanges \in [Exchange -> ExchangeRecord]
    BY SessionTypes DEF SessionsInv
  <2>2. PICK e \in Exchange : ExchangeStep(e)
    BY DEF Next, Tick
  <2>3. e = f
    BY <2>1, <2>2, StepIsOfOne
  <2>4. Render(f)
    <3>1. ~AskSession(f) /\ ~SkipHistory(f)
      BY DEF AskSession, SkipHistory, Arrives
    <3>2. exchanges' # exchanges
      OBVIOUS
    <3>3. ~SkipRender(f)
      BY <2>1 DEF SkipRender, Rendered, ExchangeRecord
    <3>. QED
      BY <2>1, <2>2, <2>3, <3>1, <3>2, <3>3, StepKinds
  <2>5. PICK step \in StepsFrom(exchanges[f].floor) : exchanges' = [exchanges EXCEPT ![f] = Rendered(f, step)]
    BY <2>4 DEF Render
  <2>6. exchanges'[f].step = step /\ step >= exchanges[f].floor
    BY <2>1, <2>5 DEF Rendered, ExchangeRecord, StepsFrom
  <2>7. step \in Nat /\ exchanges[f].floor \in Nat /\ exchanges[f].owed \in Nat
    <3>1. step \in Step \cup {0} /\ exchanges[f].floor \in Step \cup {0} /\ exchanges[f].owed \in Step \cup {0}
      BY <2>1, <2>5 DEF StepsFrom, ExchangeRecord
    <3>. QED
      BY <3>1, StepIsNat
  <2>. QED
    BY <2>1, <2>6, <2>7 DEF FloorsOwed
<1>2. Spec => [][NotFiner]_vars
  BY <1>1, SessionsAreRemembered, PTL DEF Spec
<1>. QED
  BY <1>2 DEF NotFiner, GridPromiseKept

ColdWasTold ==
  \A e \in Exchange, b \in Body :
    LET s == SessionOf[b]
    IN  exchanges[e].at = "new" /\ exchanges'[e].body = b /\ Noted(sessions, s, now).cold
        => \/ told[s].answered
           \/ told[s].asked > 0 /\ now - told[s].asked > ColdHorizon

\* A session is called cold only after a response of it, or a long silence since its
\* last request, whatever was forgotten in between.
THEOREM ColdHasCause == Spec => ColdNeedsPast
<1>1. SessionsInv => [ColdWasTold]_vars
  <2>. SUFFICES ASSUME SessionsInv, NEW b \in Body, Noted(sessions, SessionOf[b], now).cold
                PROVE  \/ told[SessionOf[b]].answered
                       \/ told[SessionOf[b]].asked > 0 /\ now - told[SessionOf[b]].asked > ColdHorizon
    BY DEF ColdWasTold
  <2>. DEFINE s == SessionOf[b]
              rec == RecordOf(sessions, s)
  <2>1. s \in Session /\ Cold(rec, now)
    <3>1. s \in Session \cup {NoSession}
      BY ExchangeAssumption
    <3>2. s # NoSession
      BY DEF Noted
    <3>. QED
      BY <3>1, <3>2 DEF Noted
  <2>2. /\ rec.cacheDead \/ rec.lastCacheAlive = "absent" => told[s].answered
        /\ rec.lastSeen \in {0, told[s].asked}
    BY <2>1, SessionTypes, RecordSays DEF SessionsInv
  <2>. HIDE DEF s, rec
  <2>3. CASE rec.cacheDead \/ rec.lastCacheAlive = "absent"
    BY <2>2, <2>3 DEF s
  <2>4. CASE ~(rec.cacheDead \/ rec.lastCacheAlive = "absent")
    <3>1. rec.lastSeen > 0 /\ now - rec.lastSeen > ColdHorizon
      BY <2>1, <2>4 DEF Cold, ServerSaysGone, BeyondHorizon
    <3>2. rec.lastSeen = told[s].asked
      BY <2>2, <3>1
    <3>. QED
      BY <3>1, <3>2 DEF s
  <2>. QED
    BY <2>3, <2>4
<1>2. Spec => [][ColdWasTold]_vars
  BY <1>1, SessionsAreRemembered, PTL
<1>. QED
  BY <1>2 DEF ColdWasTold, ColdNeedsPast

-----------------------------------------------------------------------------
(* Numbers: the least and the largest of a set, and functions that go from one *)
(* number to the next.                                                      *)

LEMMA LeastOf ==
  ASSUME NEW T, T \subseteq Nat, T # {}
  PROVE  \E m \in T : \A t \in T : m <= t
<1> DEFINE R == {p \in Nat \X Nat : p[1] < p[2]}
<1>1. OpToRel(<, Nat) = R
  BY DEF OpToRel
<1>2. IsWellFoundedOn(R, Nat)
  BY <1>1, NatLessThanWellFounded
<1>3. \A x, y \in Nat : <<y, x>> \notin R => x <= y
  OBVIOUS
<1> HIDE DEF R
<1>4. PICK m \in T : \A y \in T : ~ (<<y, m>> \in R)
  BY <1>2, WFMin
<1>5. \A t \in T : m <= t
  BY <1>3, <1>4
<1> QED BY <1>5

LEMMA LargestOf ==
  ASSUME NEW T, T \subseteq Nat, T # {}, NEW n \in Nat, \A t \in T : t <= n
  PROVE  \E m \in T : \A t \in T : m >= t
<1> DEFINE D == {d \in 0..n : n - d \in T}
<1>1. D \subseteq Nat
  OBVIOUS
<1>2. \A t \in T : t \in Nat /\ n - t \in 0..n /\ n - (n - t) = t
  OBVIOUS
<1>3. \A t \in T : n - t \in D
  BY <1>2
<1>4. D # {}
  BY <1>3
<1>5. \A d \in D : d \in Nat /\ n - d \in T
  OBVIOUS
<1> HIDE DEF D
<1>6. PICK d \in D : \A e \in D : d <= e
  BY <1>1, <1>4, LeastOf
<1>7. \A t \in T : d <= n - t
  BY <1>3, <1>6
<1>8. n - d \in T /\ \A t \in T : n - d >= t
  BY <1>2, <1>5, <1>7
<1> QED BY <1>8

LEMMA MinIs ==
  ASSUME NEW T, T \subseteq Nat, T # {}
  PROVE  Min(T) \in T /\ \A t \in T : Min(T) <= t
<1>1. \E m \in T : \A t \in T : m <= t
  BY LeastOf
<1> QED BY <1>1 DEF Min

LEMMA MaxIs ==
  ASSUME NEW T, T \subseteq Nat, T # {}, NEW n \in Nat, \A t \in T : t <= n
  PROVE  Max(T) \in T /\ \A t \in T : Max(T) >= t
<1>1. \E m \in T : \A t \in T : m >= t
  BY LargestOf
<1> QED BY <1>1 DEF Max

\* A number of the set that no other exceeds.
LEMMA MaxIsThat ==
  ASSUME NEW T, T \subseteq Nat, NEW m \in T, \A t \in T : t <= m
  PROVE  Max(T) = m
<1>1. m \in Nat
  OBVIOUS
<1>2. Max(T) \in T /\ \A t \in T : Max(T) >= t
  BY <1>1, MaxIs
<1>3. Max(T) \in Nat /\ Max(T) >= m /\ Max(T) <= m
  BY <1>2
<1> QED BY <1>1, <1>3

LEMMA MaxOfTwo ==
  ASSUME NEW a \in Int, NEW b \in Int
  PROVE  /\ Max({a, b}) = IF a >= b THEN a ELSE b
         /\ Min({a, b}) = IF a <= b THEN a ELSE b
<1>1. \E m \in {a, b} : \A t \in {a, b} : m >= t
  OBVIOUS
<1>2. \E m \in {a, b} : \A t \in {a, b} : m <= t
  OBVIOUS
<1>3. Max({a, b}) \in {a, b} /\ \A t \in {a, b} : Max({a, b}) >= t
  BY <1>1 DEF Max
<1>4. Min({a, b}) \in {a, b} /\ \A t \in {a, b} : Min({a, b}) <= t
  BY <1>2 DEF Min
<1> QED BY <1>3, <1>4

\* What holds of 0, and of a number if of the one before it, holds of all up to n.
LEMMA Upwards ==
  ASSUME NEW n \in Nat, NEW T, 0 \in T, \A i \in 1..n : i - 1 \in T => i \in T
  PROVE  \A i \in 0..n : i \in T
<1> DEFINE U == {i \in 0..n : i \notin T}
<1>1. SUFFICES ASSUME U # {} PROVE FALSE
  OBVIOUS
<1>2. PICK m \in U : \A u \in U : m <= u
  <2>1. U \subseteq Nat
    OBVIOUS
  <2> HIDE DEF U
  <2> QED BY <1>1, <2>1, LeastOf
<1>3. m \in 1..n /\ m - 1 \in 0..n /\ m - 1 \notin U
  BY <1>2
<1> QED BY <1>2, <1>3

\* f begins with base and goes on by step, up to n.
GoesBy(f, base, step, n) == f[0] = base /\ \A i \in 1..n : f[i] = step[<<i, f[i - 1]>>]

LEMMA RecursionExists ==
  ASSUME NEW n \in Nat, NEW S, NEW base \in S,
         NEW step, \A i \in 1..n, s \in S : step[<<i, s>>] \in S
  PROVE  \E f \in [0..n -> S] : GoesBy(f, base, step, n)
<1> DEFINE T == {k \in 0..n : \E f \in [0..k -> S] : GoesBy(f, base, step, k)}
<1>1. 0 \in T
  <2>1. [i \in 0..0 |-> base] \in [0..0 -> S] /\ GoesBy([i \in 0..0 |-> base], base, step, 0)
    BY DEF GoesBy
  <2> QED BY <2>1
<1>2. ASSUME NEW k \in 1..n, k - 1 \in T PROVE k \in T
  <2>1. PICK f \in [0..(k - 1) -> S] : GoesBy(f, base, step, k - 1)
    BY <1>2
  <2> DEFINE new == step[<<k, f[k - 1]>>]
             g == [i \in 0..k |-> IF i = k THEN new ELSE f[i]]
  <2>2. new \in S
    <3>1. f[k - 1] \in S
      OBVIOUS
    <3> QED BY <3>1
  <2> HIDE DEF new
  <2>3. g \in [0..k -> S] /\ g[k] = new /\ \A i \in 0..(k - 1) : g[i] = f[i]
    BY <2>2
  <2> HIDE DEF g
  <2>4. g[k] = step[<<k, g[k - 1]>>]
    <3>1. g[k - 1] = f[k - 1]
      BY <2>3
    <3> QED BY <2>3, <3>1 DEF new
  <2>5. g[0] = base
    BY <2>1, <2>3 DEF GoesBy
  <2>6. ASSUME NEW i \in 1..k PROVE g[i] = step[<<i, g[i - 1]>>]
    <3>1. CASE i = k
      BY <2>4, <3>1
    <3>2. CASE i # k
      <4>1. i \in 1..(k - 1) /\ i \in 0..(k - 1) /\ i - 1 \in 0..(k - 1)
        BY <3>2
      <4>2. f[i] = step[<<i, f[i - 1]>>] /\ g[i] = f[i] /\ g[i - 1] = f[i - 1]
        BY <2>1, <2>3, <4>1 DEF GoesBy
      <4> QED BY <4>2
    <3> QED BY <3>1, <3>2
  <2>7. GoesBy(g, base, step, k)
    BY <2>5, <2>6 DEF GoesBy
  <2> QED BY <2>3, <2>7
<1>3. n \in T
  <2> HIDE DEF T
  <2> QED BY <1>1, <1>2, Upwards
<1> QED BY <1>3

\* There is one way only to go on.
LEMMA RecursionAgrees ==
  ASSUME NEW base, NEW step, NEW n \in Nat, NEW f, NEW g,
         GoesBy(f, base, step, n), GoesBy(g, base, step, n)
  PROVE  \A i \in 0..n : f[i] = g[i]
<1> DEFINE T == {i \in 0..n : f[i] = g[i]}
<1>1. 0 \in T
  BY DEF GoesBy
<1>2. ASSUME NEW i \in 1..n, i - 1 \in T PROVE i \in T
  <2>1. f[i - 1] = g[i - 1] /\ i \in 0..n
    BY <1>2
  <2>2. f[i] = step[<<i, f[i - 1]>>] /\ g[i] = step[<<i, g[i - 1]>>]
    BY DEF GoesBy
  <2> QED BY <2>1, <2>2
<1> HIDE DEF T
<1>3. \A i \in 0..n : i \in T
  BY <1>1, <1>2, Upwards
<1> QED BY <1>3 DEF T

-----------------------------------------------------------------------------
(* Rests of divisions.                                                     *)

LEMMA SmallRest ==
  ASSUME NEW s \in Nat \ {0}, NEW x \in 0..(s - 1)
  PROVE  x % s = x
OBVIOUS

LEMMA RestIs ==
  ASSUME NEW s \in Nat \ {0}, NEW q \in Int, NEW r \in 0..(s - 1)
  PROVE  (q * s + r) % s = r
OBVIOUS

LEMMA Multiple ==
  ASSUME NEW s \in Nat \ {0}, NEW a \in Int, a % s = 0
  PROVE  \E q \in Int : a = q * s
<1>1. a = (a \div s) * s + (a % s)
  OBVIOUS
<1> DEFINE q == a \div s
<1>2. q \in Int
  OBVIOUS
<1>3. a = q * s
  BY <1>1
<1> HIDE DEF q
<1> QED BY <1>2, <1>3

LEMMA NoRestBetween ==
  ASSUME NEW s \in Nat \ {0}, NEW a \in Int, NEW x \in 1..(s - 1), a % s = 0
  PROVE  (a + x) % s # 0
<1>1. PICK q \in Int : a = q * s
  BY Multiple
<1>2. (q * s + x) % s = x
  BY RestIs
<1> QED BY <1>1, <1>2

LEMMA RestOfNext ==
  ASSUME NEW s \in Nat \ {0}, NEW a \in Int, a % s = 0
  PROVE  (a + s) % s = 0
<1>1. PICK q \in Int : a = q * s
  BY Multiple
<1>2. ((q + 1) * s + 0) % s = 0
  BY RestIs
<1>3. (q + 1) * s + 0 = q * s + s
  BY <1>1
<1> QED BY <1>1, <1>2, <1>3

LEMMA PagesWithin ==
  ASSUME NEW c \in Nat, NEW b \in Nat, c <= b * PageChars
  PROVE  Pages(c) \in Nat /\ Pages(c) <= b
BY GridAssumption DEF Pages

-----------------------------------------------------------------------------
(* Sums.  That numbers are added up in some order, and that the order does not  *)
(* matter, is by induction over finite sets: a counterexample with a smallest *)
(* set has none.                                                           *)

\* The element that a sum takes first.
Chosen(s) == CHOOSE x \in s : TRUE

\* f adds up the weights of each subset of S.
AddsUp(f, weight, S) ==
  f = [s \in SUBSET S |->
         IF s = {} THEN 0
         ELSE weight[CHOOSE x \in s : TRUE] + f[s \ {CHOOSE x \in s : TRUE}]]

Sum(weight, S) == CHOOSE f : AddsUp(f, weight, S)

\* Total() is the sum that this defines.
LEMMA TotalIsSum == \A weight, S : Total(weight, S) = Sum(weight, S)[S]
BY DEF Total, MapThenSumSet, MapThenFoldSet, Sum, AddsUp

\* Of some of the subsets of a finite set, one has none of the others in it.
LEMMA SmallestSubset ==
  ASSUME NEW S, IsFiniteSet(S), NEW T \in SUBSET (SUBSET S), T # {}
  PROVE  \E m \in T : \A s \in T : s \subseteq m => s = m
<1>1. IsWellFoundedOn(StrictSubsetOrdering(S), SUBSET S)
  BY FS_StrictSubsetOrderingWellFounded, FS_FiniteSubsetsOfFinite
<1>2. PICK m \in T : \A s \in T : ~(<<s, m>> \in StrictSubsetOrdering(S))
  BY <1>1, WFMin
<1> QED BY <1>2 DEF StrictSubsetOrdering

\* What it takes to add up the weights of s.
LEMMA AddsUpAt ==
  ASSUME NEW f, NEW weight, NEW S, AddsUp(f, weight, S), NEW s \in SUBSET S
  PROVE  /\ s = {} => f[s] = 0
         /\ s # {} => /\ Chosen(s) \in s /\ s \ {Chosen(s)} \in SUBSET S
                      /\ f[s] = weight[Chosen(s)] + f[s \ {Chosen(s)}]
<1>1. f[s] = IF s = {} THEN 0
             ELSE weight[CHOOSE x \in s : TRUE] + f[s \ {CHOOSE x \in s : TRUE}]
  BY Zenon DEF AddsUp
<1>2. s # {} => Chosen(s) \in s
  BY DEF Chosen
<1> QED BY <1>1, <1>2 DEF Chosen

\* There is one way at most to add up a set.
LEMMA SumsAgree ==
  ASSUME NEW S, IsFiniteSet(S), NEW U, NEW weight, NEW f, NEW g,
         AddsUp(f, weight, S), AddsUp(g, weight, U)
  PROVE  \A s : s \subseteq S /\ s \subseteq U => f[s] = g[s]
<1> DEFINE T == {s \in SUBSET S : s \subseteq U /\ f[s] # g[s]}
<1>1. SUFFICES ASSUME T # {} PROVE FALSE
  OBVIOUS
<1>2. PICK m \in T : \A s \in T : s \subseteq m => s = m
  <2>1. T \in SUBSET (SUBSET S)
    OBVIOUS
  <2> HIDE DEF T
  <2> QED BY <1>1, <2>1, SmallestSubset
<1>3. m \in SUBSET S /\ m \in SUBSET U /\ f[m] # g[m]
  BY <1>2
<1>4. CASE m = {}
  BY <1>3, <1>4, AddsUpAt
<1>5. CASE m # {}
  <2>1. /\ Chosen(m) \in m
        /\ f[m] = weight[Chosen(m)] + f[m \ {Chosen(m)}]
        /\ g[m] = weight[Chosen(m)] + g[m \ {Chosen(m)}]
    BY <1>3, <1>5, AddsUpAt
  <2>2. m \ {Chosen(m)} \notin T
    BY <1>2, <2>1
  <2>3. f[m \ {Chosen(m)}] = g[m \ {Chosen(m)}]
    BY <1>3, <2>2
  <2> QED BY <1>3, <2>1, <2>3
<1> QED BY <1>4, <1>5

\* And there is one, for every finite set.
LEMMA SumAddsUp ==
  ASSUME NEW weight, NEW S, IsFiniteSet(S)
  PROVE  AddsUp(Sum(weight, S), weight, S)
<1> DEFINE T == {s \in SUBSET S : ~\E f : AddsUp(f, weight, s)}
<1>1. SUFFICES T = {}
  <2>1. T = {} => \E f : AddsUp(f, weight, S)
    OBVIOUS
  <2> QED BY <2>1 DEF Sum
<1>2. SUFFICES ASSUME T # {} PROVE FALSE
  OBVIOUS
<1>3. PICK m \in T : \A s \in T : s \subseteq m => s = m
  <2>1. T \in SUBSET (SUBSET S)
    OBVIOUS
  <2> HIDE DEF T
  <2> QED BY <1>2, <2>1, SmallestSubset
<1>4. m \in SUBSET S /\ ~\E f : AddsUp(f, weight, m)
  BY <1>3
<1>5. ASSUME NEW s \in SUBSET m, s # m
      PROVE  AddsUp(Sum(weight, s), weight, s) /\ IsFiniteSet(s)
  <2>1. s \notin T /\ s \in SUBSET S
    BY <1>3, <1>4, <1>5
  <2>2. \E f : AddsUp(f, weight, s)
    BY <2>1
  <2>3. IsFiniteSet(s)
    BY <2>1, FS_Subset
  <2> QED BY <2>2, <2>3 DEF Sum
<1> DEFINE of(s) == IF s = {} THEN 0
                    ELSE weight[Chosen(s)] + Sum(weight, s \ {Chosen(s)})[s \ {Chosen(s)}]
           f == [s \in SUBSET m |-> of(s)]
<1>6. ASSUME NEW s \in SUBSET m, s # m
      PROVE  Sum(weight, s)[s] = of(s)
  <2>1. AddsUp(Sum(weight, s), weight, s) /\ IsFiniteSet(s)
    BY <1>5, <1>6
  <2>2. CASE s = {}
    BY <2>1, <2>2, AddsUpAt
  <2>3. CASE s # {}
    <3> DEFINE r == s \ {Chosen(s)}
    <3>1. Chosen(s) \in s /\ Sum(weight, s)[s] = weight[Chosen(s)] + Sum(weight, s)[r]
          /\ r \in SUBSET s
      BY <2>1, <2>3, AddsUpAt
    <3>2. r \in SUBSET m /\ r # m
      BY <1>6, <3>1
    <3>3. AddsUp(Sum(weight, r), weight, r)
      BY <1>5, <3>2
    <3>4. Sum(weight, s)[r] = Sum(weight, r)[r]
      BY <2>1, <3>1, <3>3, SumsAgree
    <3> QED BY <2>3, <3>1, <3>4
  <2> QED BY <2>2, <2>3
<1>7. ASSUME NEW s \in SUBSET m, s # {}
      PROVE  f[s] = weight[Chosen(s)] + f[s \ {Chosen(s)}]
  <2> DEFINE r == s \ {Chosen(s)}
  <2>1. Chosen(s) \in s
    BY <1>7 DEF Chosen
  <2>2. r \in SUBSET m /\ r # m
    BY <2>1
  <2>3. f[r] = Sum(weight, r)[r]
    BY <1>6, <2>2
  <2>4. f[s] = weight[Chosen(s)] + Sum(weight, r)[r]
    BY <1>7
  <2> QED BY <2>3, <2>4
<1>8. f[{}] = 0
  OBVIOUS
<1> HIDE DEF of
<1>9. f = [s \in SUBSET m |->
         IF s = {} THEN 0
         ELSE weight[CHOOSE x \in s : TRUE] + f[s \ {CHOOSE x \in s : TRUE}]]
  <2>1. \A s \in SUBSET m : of(s) = IF s = {} THEN 0
         ELSE weight[CHOOSE x \in s : TRUE] + f[s \ {CHOOSE x \in s : TRUE}]
    BY <1>7, <1>8 DEF Chosen
  <2> QED BY <2>1
<1> QED BY <1>4, <1>9 DEF AddsUp

\* The total of a finite set is the weight of one of its elements, and the total of
\* the others.
LEMMA TotalOfChosen ==
  ASSUME NEW weight, NEW S, IsFiniteSet(S)
  PROVE  /\ S = {} => Total(weight, S) = 0
         /\ S # {} => /\ Chosen(S) \in S
                      /\ Total(weight, S) = weight[Chosen(S)] + Total(weight, S \ {Chosen(S)})
<1>1. AddsUp(Sum(weight, S), weight, S)
  BY SumAddsUp
<1>2. CASE S = {}
  BY <1>1, <1>2, AddsUpAt, TotalIsSum
<1>3. CASE S # {}
  <2> DEFINE r == S \ {Chosen(S)}
  <2>1. Chosen(S) \in S /\ r \in SUBSET S
        /\ Sum(weight, S)[S] = weight[Chosen(S)] + Sum(weight, S)[r]
    BY <1>1, <1>3, AddsUpAt
  <2>2. IsFiniteSet(r)
    BY <2>1, FS_Subset
  <2>3. AddsUp(Sum(weight, r), weight, r)
    BY <2>2, SumAddsUp
  <2>4. Sum(weight, S)[r] = Sum(weight, r)[r]
    BY <1>1, <2>1, <2>3, SumsAgree
  <2> QED BY <1>3, <2>1, <2>4, TotalIsSum
<1> QED BY <1>2, <1>3

LEMMA TotalIsNat ==
  ASSUME NEW weight, NEW S, IsFiniteSet(S), \A e \in S : weight[e] \in Nat
  PROVE  Total(weight, S) \in Nat
<1> DEFINE T == {s \in SUBSET S : Total(weight, s) \notin Nat}
<1>1. SUFFICES ASSUME T # {} PROVE FALSE
  OBVIOUS
<1>2. PICK m \in T : \A s \in T : s \subseteq m => s = m
  <2>1. T \in SUBSET (SUBSET S)
    OBVIOUS
  <2> HIDE DEF T
  <2> QED BY <1>1, <2>1, SmallestSubset
<1>3. m \in SUBSET S /\ Total(weight, m) \notin Nat /\ IsFiniteSet(m)
  BY <1>2, FS_Subset
<1>4. m # {} /\ Chosen(m) \in m
      /\ Total(weight, m) = weight[Chosen(m)] + Total(weight, m \ {Chosen(m)})
  <2> HIDE DEF T
  <2>1. m = {} => Total(weight, m) = 0
    BY <1>3, TotalOfChosen
  <2>2. m # {}
    BY <1>3, <2>1
  <2> QED BY <1>3, <2>2, TotalOfChosen
<1>5. Total(weight, m \ {Chosen(m)}) \in Nat
  BY <1>2, <1>3, <1>4
<1>6. weight[Chosen(m)] \in Nat
  BY <1>3, <1>4
<1> QED BY <1>3, <1>4, <1>5, <1>6

LEMMA TotalOfOne ==
  ASSUME NEW weight, NEW x, weight[x] \in Nat
  PROVE  Total(weight, {x}) = weight[x]
<1>1. IsFiniteSet({x}) /\ IsFiniteSet({}) /\ {x} # {}
  BY FS_EmptySet, FS_Singleton
<1>2. Chosen({x}) \in {x}
  BY <1>1, TotalOfChosen
<1>3. {x} \ {Chosen({x})} = {} /\ Chosen({x}) = x
  BY <1>2
<1>4. Total(weight, {x}) = weight[x] + Total(weight, {})
  BY <1>1, <1>3, TotalOfChosen
<1>5. Total(weight, {}) = 0
  BY <1>1, TotalOfChosen
<1> QED BY <1>4, <1>5

\* An element adds its weight, in whatever order they are added up.
LEMMA TotalOfOneMore ==
  ASSUME NEW weight, NEW S, IsFiniteSet(S), NEW e, e \notin S,
         \A d \in S \cup {e} : weight[d] \in Nat
  PROVE  Total(weight, S \cup {e}) = Total(weight, S) + weight[e]
<1> DEFINE Bad(s, d) == d \notin s /\ Total(weight, s \cup {d}) # Total(weight, s) + weight[d]
           All == S \cup {e}
           T == {s \in SUBSET All : \E d \in All : Bad(s, d)}
<1>1. SUFFICES ASSUME T # {} PROVE FALSE
  OBVIOUS
<1>2. IsFiniteSet(All)
  BY FS_AddElement
<1>3. PICK m \in T : \A s \in T : s \subseteq m => s = m
  <2>1. T \in SUBSET (SUBSET All)
    OBVIOUS
  <2> HIDE DEF T, All
  <2> QED BY <1>1, <1>2, <2>1, SmallestSubset
<1>4. PICK d \in All : Bad(m, d)
  BY <1>3
<1> DEFINE u == m \cup {d}
<1>5. m \subseteq All /\ d \in All /\ d \notin m /\ u \subseteq All /\ u # {}
  BY <1>3, <1>4
<1>6. IsFiniteSet(m) /\ IsFiniteSet(u)
  BY <1>2, <1>5, FS_Subset
<1>7. Chosen(u) \in u /\ Total(weight, u) = weight[Chosen(u)] + Total(weight, u \ {Chosen(u)})
  BY <1>5, <1>6, TotalOfChosen
<1>8. \A s \in SUBSET All : Total(weight, s) \in Nat
  <2>1. ASSUME NEW s \in SUBSET All PROVE Total(weight, s) \in Nat
    <3>1. IsFiniteSet(s)
      BY <1>2, FS_Subset
    <3> QED BY <3>1, TotalIsNat
  <2> QED BY <2>1
<1>9. CASE Chosen(u) = d
  <2>1. u \ {Chosen(u)} = m
    BY <1>5, <1>9
  <2>2. Total(weight, u) = weight[d] + Total(weight, m)
    BY <1>7, <1>9, <2>1
  <2>3. weight[d] \in Nat /\ Total(weight, m) \in Nat
    BY <1>5, <1>8
  <2> QED BY <1>4, <2>2, <2>3
<1>10. CASE Chosen(u) # d
  <2> DEFINE x == Chosen(u)
             r == m \ {x}
  <2>0. x \in m /\ x # d
    BY <1>7, <1>10
  <2>1. x \in m /\ u \ {x} = r \cup {d} /\ r \cup {x} = m /\ d \notin r /\ x \notin r
        /\ r \in SUBSET All
    <3> HIDE DEF x, All
    <3>1. u \ {x} = r \cup {d}
      BY <2>0
    <3>2. r \cup {x} = m
      BY <2>0
    <3> QED BY <1>5, <2>0, <3>1, <3>2
  <2>2. r \notin T
    BY <1>3, <2>1
  <2>3. Total(weight, r \cup {d}) = Total(weight, r) + weight[d]
    BY <1>5, <2>1, <2>2
  <2>4. Total(weight, r \cup {x}) = Total(weight, r) + weight[x]
    BY <1>5, <2>1, <2>2
  <2>5. Total(weight, u) = weight[x] + Total(weight, r \cup {d})
    BY <1>7, <2>1
  <2>6. Total(weight, m) = Total(weight, r) + weight[x]
    BY <2>1, <2>4
  <2>7. weight[d] \in Nat /\ weight[x] \in Nat /\ Total(weight, r) \in Nat
    BY <1>5, <1>8, <2>1
  <2>8. Total(weight, u) = Total(weight, m) + weight[d]
    BY <2>3, <2>5, <2>6, <2>7
  <2> QED BY <1>4, <2>8
<1> QED BY <1>9, <1>10

\* A part weighs no more than the whole.
LEMMA TotalOfPart ==
  ASSUME NEW weight, NEW S, IsFiniteSet(S), \A e \in S : weight[e] \in Nat,
         NEW P, P \subseteq S
  PROVE  Total(weight, P) <= Total(weight, S)
<1> DEFINE T == {s \in SUBSET S : P \subseteq s /\ ~ (Total(weight, P) <= Total(weight, s))}
<1>1. SUFFICES ASSUME T # {} PROVE FALSE
  OBVIOUS
<1>2. PICK m \in T : \A s \in T : s \subseteq m => s = m
  <2>1. T \in SUBSET (SUBSET S)
    OBVIOUS
  <2> HIDE DEF T
  <2> QED BY <1>1, <2>1, SmallestSubset
<1>3. m \in SUBSET S /\ P \subseteq m /\ ~ (Total(weight, P) <= Total(weight, m))
  BY <1>2
<1>4. \A s \in SUBSET S : IsFiniteSet(s) /\ Total(weight, s) \in Nat
  <2>1. ASSUME NEW s \in SUBSET S PROVE IsFiniteSet(s) /\ Total(weight, s) \in Nat
    <3>1. IsFiniteSet(s)
      BY FS_Subset
    <3> QED BY <3>1, TotalIsNat
  <2> QED BY <2>1
<1>5. m # P /\ P \in SUBSET S
  BY <1>3, <1>4
<1>6. PICK x \in m : x \notin P
  BY <1>3, <1>5
<1> DEFINE r == m \ {x}
<1>7. r \in SUBSET S /\ P \subseteq r /\ r \cup {x} = m /\ x \notin r /\ r \subseteq m /\ r # m
  BY <1>3, <1>6
<1>8. Total(weight, P) <= Total(weight, r)
  BY <1>2, <1>7
<1> HIDE DEF r
<1>9. Total(weight, m) = Total(weight, r) + weight[x]
  BY <1>3, <1>4, <1>7, TotalOfOneMore
<1>10. weight[x] \in Nat /\ Total(weight, r) \in Nat /\ Total(weight, P) \in Nat
  BY <1>3, <1>4, <1>5, <1>7
<1> QED BY <1>3, <1>8, <1>9, <1>10

-----------------------------------------------------------------------------
(* The conversation.                                                       *)

Conversation == messages \in Seq(Message)

LEMMA MessageAt ==
  ASSUME Conversation
  PROVE  /\ Len(messages) \in Nat /\ DOMAIN messages = 1..Len(messages)
         /\ \A i \in 1..Len(messages) :
              /\ messages[i] \in Message
              /\ messages[i].calls \subseteq CallId /\ messages[i].results \subseteq CallId
              /\ messages[i].chars \in Nat /\ messages[i].prompt \in Nat
<1>1. Len(messages) \in Nat /\ DOMAIN messages = 1..Len(messages)
  BY DEF Conversation
<1>2. \A i \in 1..Len(messages) : messages[i] \in Message
  BY DEF Conversation
<1> QED BY <1>1, <1>2 DEF Message

\* Every message but a call or an answer, and every call, comes when nothing is open;
\* an answer is to what is open.
Fits(m, open) ==
  \/ m.results = {} /\ open = {}
  \/ m.calls = {} /\ m.results # {} /\ m.results \subseteq open

InTurn == \A i \in 1..Len(messages) : Fits(messages[i], OpenAfter(i - 1))

\* The recursion by which OpenAfter() goes on.
OpenStep == [p \in Nat \X SUBSET CallId |-> (p[2] \cup messages[p[1]].calls) \ messages[p[1]].results]

Opens(n) ==
  CHOOSE f : f = [i \in 0..n |->
    IF i = 0 THEN {} ELSE (f[i - 1] \cup messages[i].calls) \ messages[i].results]

LEMMA OpensGoOn ==
  ASSUME Conversation, NEW n \in 0..Len(messages)
  PROVE  /\ OpenAfter(n) = Opens(n)[n]
         /\ Opens(n)[0] = {}
         /\ \A i \in 1..n : Opens(n)[i] = (Opens(n)[i - 1] \cup messages[i].calls) \ messages[i].results
<1>1. n \in Nat /\ \A i \in 1..n : i \in 1..Len(messages) /\ i \in Nat /\ i # 0
  BY MessageAt
<1>2. ASSUME NEW i \in 1..n, NEW s \in SUBSET CallId
      PROVE  /\ OpenStep[<<i, s>>] = (s \cup messages[i].calls) \ messages[i].results
             /\ OpenStep[<<i, s>>] \in SUBSET CallId
  <2>1. <<i, s>> \in Nat \X SUBSET CallId
    BY <1>1
  <2>2. OpenStep[<<i, s>>] = (s \cup messages[i].calls) \ messages[i].results
    BY <2>1 DEF OpenStep
  <2>3. messages[i].calls \subseteq CallId
    BY <1>1, MessageAt
  <2> QED BY <2>2, <2>3
<1>3. PICK f \in [0..n -> SUBSET CallId] : GoesBy(f, {}, OpenStep, n)
  <2>1. {} \in SUBSET CallId
    OBVIOUS
  <2> QED BY <1>1, <1>2, <2>1, RecursionExists
<1>4. ASSUME NEW i \in 1..n PROVE f[i] = (f[i - 1] \cup messages[i].calls) \ messages[i].results
  <2>1. i - 1 \in 0..n
    BY <1>1
  <2>2. f[i - 1] \in SUBSET CallId
    BY <2>1
  <2> QED BY <1>2, <1>3, <2>2 DEF GoesBy
<1> DEFINE of(i) == IF i = 0 THEN {} ELSE (f[i - 1] \cup messages[i].calls) \ messages[i].results
<1>5. f = [i \in 0..n |-> of(i)]
  <2>1. \A i \in 0..n : i = 0 \/ i \in 1..n
    BY <1>1
  <2>2. \A i \in 0..n : f[i] = of(i)
    BY <1>3, <1>4, <2>1 DEF GoesBy
  <2> HIDE DEF of
  <2> QED BY <2>2
<1> DEFINE o == Opens(n)
<1>6. o = [i \in 0..n |->
            IF i = 0 THEN {} ELSE (o[i - 1] \cup messages[i].calls) \ messages[i].results]
  BY <1>5 DEF Opens
<1>7. OpenAfter(n) = o[n]
  BY DEF OpenAfter, Opens
<1> HIDE DEF o
<1>8. 0 \in 0..n /\ \A i \in 1..n : i \in 0..n
  BY <1>1
<1>9. o[0] = {}
  BY <1>6, <1>8
<1>10. \A i \in 1..n : o[i] = (o[i - 1] \cup messages[i].calls) \ messages[i].results
  <2>1. \A i \in 0..n :
          o[i] = IF i = 0 THEN {} ELSE (o[i - 1] \cup messages[i].calls) \ messages[i].results
    BY <1>6, Zenon
  <2> QED BY <1>1, <1>8, <2>1
<1> QED BY <1>7, <1>9, <1>10 DEF o

\* What is open depends on the messages so far.
LEMMA OpensAgree ==
  ASSUME Conversation, NEW n \in 0..Len(messages), NEW k \in 0..n
  PROVE  Opens(n)[k] = OpenAfter(k)
<1>1. k \in Nat /\ k \in 0..Len(messages) /\ \A i \in 1..k : i \in 1..n
  BY MessageAt
<1> DEFINE T == {i \in 0..k : Opens(n)[i] = Opens(k)[i]}
<1>2. 0 \in T
  <2>1. Opens(n)[0] = {}
    BY OpensGoOn
  <2>2. Opens(k)[0] = {}
    BY <1>1, OpensGoOn
  <2>3. 0 \in 0..k /\ Opens(n)[0] = Opens(k)[0]
    BY <1>1, <2>1, <2>2
  <2> QED BY <2>3
<1>3. ASSUME NEW i \in 1..k, i - 1 \in T PROVE i \in T
  <2>1. Opens(n)[i - 1] = Opens(k)[i - 1] /\ i \in 0..k
    BY <1>1, <1>3
  <2>2. Opens(n)[i] = (Opens(n)[i - 1] \cup messages[i].calls) \ messages[i].results
    BY <1>1, OpensGoOn
  <2>3. Opens(k)[i] = (Opens(k)[i - 1] \cup messages[i].calls) \ messages[i].results
    BY <1>1, OpensGoOn
  <2> QED BY <2>1, <2>2, <2>3
<1> HIDE DEF T
<1>4. k \in T
  <2>1. k \in 0..k
    BY <1>1
  <2> QED BY <1>1, <1>2, <1>3, <2>1, Upwards
<1> QED BY <1>1, <1>4, OpensGoOn DEF T

LEMMA OpenGoesOn ==
  ASSUME Conversation
  PROVE  /\ OpenAfter(0) = {}
         /\ \A i \in 1..Len(messages) :
              OpenAfter(i) = (OpenAfter(i - 1) \cup messages[i].calls) \ messages[i].results
<1>1. OpenAfter(0) = {}
  <2>1. 0 \in 0..Len(messages)
    BY MessageAt
  <2> QED BY <2>1, OpensGoOn
<1>2. ASSUME NEW i \in 1..Len(messages)
      PROVE  OpenAfter(i) = (OpenAfter(i - 1) \cup messages[i].calls) \ messages[i].results
  <2>1. i \in 0..Len(messages) /\ i \in 1..i /\ i - 1 \in 0..i /\ i \in 0..i
    BY MessageAt
  <2>2. Opens(i)[i] = OpenAfter(i) /\ Opens(i)[i - 1] = OpenAfter(i - 1)
    BY <2>1, OpensAgree
  <2>3. Opens(i)[i] = (Opens(i)[i - 1] \cup messages[i].calls) \ messages[i].results
    BY <2>1, OpensGoOn
  <2> QED BY <2>2, <2>3
<1> QED BY <1>1, <1>2

LEMMA OpenIsOfCalls ==
  ASSUME Conversation, NEW n \in 0..Len(messages)
  PROVE  OpenAfter(n) \subseteq CallId
<1>1. n \in Nat /\ \A i \in 1..n : i \in 1..Len(messages)
  BY MessageAt
<1> DEFINE T == {i \in 0..n : OpenAfter(i) \subseteq CallId}
<1>2. 0 \in T
  <2>1. OpenAfter(0) = {} /\ 0 \in 0..n
    BY <1>1, OpenGoesOn
  <2> QED BY <2>1
<1>3. ASSUME NEW i \in 1..n, i - 1 \in T PROVE i \in T
  <2>1. OpenAfter(i - 1) \subseteq CallId /\ messages[i].calls \subseteq CallId /\ i \in 0..n
    BY <1>1, <1>3, MessageAt
  <2>2. OpenAfter(i) = (OpenAfter(i - 1) \cup messages[i].calls) \ messages[i].results
    BY <1>1, OpenGoesOn
  <2> QED BY <2>1, <2>2
<1> HIDE DEF T
<1>4. n \in T
  <2>1. n \in 0..n
    BY <1>1
  <2> QED BY <1>1, <1>2, <1>3, <2>1, Upwards
<1> QED BY <1>4 DEF T

\* Whether a round goes on after message i.
RoundAt(i) == i \in 1..Len(messages) /\ (messages[i].calls # {} \/ messages[i].results # {})

\* Whether the round of message n goes on after its answers.
AdjacentAt(n) ==
  n \in 1..(Len(messages) - 1) /\ messages[n].results # {} /\ messages[n + 1].calls # {}

\* A place to cut, as far as the first i messages tell.
GoodUpTo(n, i) ==
  OpenAfter(n) = {} /\ IF n = i THEN ~RoundAt(n) ELSE ~AdjacentAt(n)

ScanState == [open : SUBSET CallId, inRound : BOOLEAN, closed : Int]

ScanNext(i, before) ==
  LET m == messages[i]
      ended == before.inRound /\ before.open = {} /\ m.calls = {}
      open == (before.open \cup m.calls) \ m.results
      inRound == (before.inRound /\ ~ended) \/ m.calls # {}
  IN  [open |-> open, inRound |-> inRound,
       closed |-> IF open = {} /\ ~inRound THEN i
                  ELSE IF ended THEN i - 1 ELSE before.closed]

ScanStart == [open |-> {}, inRound |-> FALSE, closed |-> 0]

ScanStep == [p \in Nat \X ScanState |-> ScanNext(p[1], p[2])]

Scans(limit) ==
  CHOOSE f : f = [i \in 0..limit |->
        IF i = 0 THEN [open |-> {}, inRound |-> FALSE, closed |-> 0]
        ELSE LET before == f[i - 1]
                 m == messages[i]
                 ended == before.inRound /\ before.open = {} /\ m.calls = {}
                 open == (before.open \cup m.calls) \ m.results
                 inRound == (before.inRound /\ ~ended) \/ m.calls # {}
             IN  [open |-> open, inRound |-> inRound,
                  closed |-> IF open = {} /\ ~inRound THEN i
                             ELSE IF ended THEN i - 1 ELSE before.closed]]

LEMMA ScanIsScans == \A limit : Scan(limit) = Scans(limit)[limit]
BY DEF Scan, Scans

LEMMA ScansGoOn ==
  ASSUME Conversation, NEW limit \in 0..Len(messages)
  PROVE  /\ Scans(limit)[0] = ScanStart
         /\ \A i \in 1..limit : Scans(limit)[i] = ScanNext(i, Scans(limit)[i - 1])
         /\ \A i \in 0..limit : Scans(limit)[i] \in ScanState
<1>1. limit \in Nat /\ \A i \in 1..limit : i \in 1..Len(messages) /\ i \in Nat /\ i # 0
  BY MessageAt
<1>2. ASSUME NEW i \in 1..limit, NEW s \in ScanState
      PROVE  /\ ScanStep[<<i, s>>] = ScanNext(i, s)
             /\ ScanStep[<<i, s>>] \in ScanState
  <2>1. <<i, s>> \in Nat \X ScanState
    BY <1>1
  <2>2. ScanStep[<<i, s>>] = ScanNext(i, s)
    BY <2>1 DEF ScanStep
  <2>3. messages[i].calls \subseteq CallId /\ i \in Int
    BY <1>1, MessageAt
  <2>4. ScanNext(i, s) \in ScanState
    BY <2>3 DEF ScanNext, ScanState
  <2> QED BY <2>2, <2>4
<1>3. PICK f \in [0..limit -> ScanState] : GoesBy(f, ScanStart, ScanStep, limit)
  <2>1. ScanStart \in ScanState
    BY DEF ScanStart, ScanState
  <2> QED BY <1>1, <1>2, <2>1, RecursionExists
<1>4. ASSUME NEW i \in 1..limit PROVE f[i] = ScanNext(i, f[i - 1])
  <2>1. i - 1 \in 0..limit
    BY <1>1
  <2>2. f[i - 1] \in ScanState
    BY <2>1
  <2> QED BY <1>2, <1>3, <2>2 DEF GoesBy
<1> DEFINE of(i) == IF i = 0 THEN ScanStart ELSE ScanNext(i, f[i - 1])
<1>5. f = [i \in 0..limit |-> of(i)]
  <2>1. \A i \in 0..limit : i = 0 \/ i \in 1..limit
    BY <1>1
  <2>2. \A i \in 0..limit : f[i] = of(i)
    BY <1>3, <1>4, <2>1 DEF GoesBy
  <2> HIDE DEF of
  <2> QED BY <2>2
<1> DEFINE c == Scans(limit)
<1>6. Scans(limit) = CHOOSE g : g = [i \in 0..limit |-> IF i = 0 THEN ScanStart ELSE ScanNext(i, g[i - 1])]
  BY Zenon DEF Scans, ScanNext, ScanStart
<1>7. c = [i \in 0..limit |-> IF i = 0 THEN ScanStart ELSE ScanNext(i, c[i - 1])]
  BY <1>5, <1>6
<1> HIDE DEF c
<1>8. 0 \in 0..limit /\ \A i \in 1..limit : i \in 0..limit
  BY <1>1
<1>9. \A i \in 0..limit : c[i] = IF i = 0 THEN ScanStart ELSE ScanNext(i, c[i - 1])
  BY <1>7, Zenon
<1>10. c[0] = ScanStart
  BY <1>8, <1>9
<1>11. \A i \in 1..limit : c[i] = ScanNext(i, c[i - 1])
  BY <1>1, <1>8, <1>9
<1>12. \A i \in 0..limit : c[i] \in ScanState
  <2> DEFINE T == {i \in 0..limit : c[i] \in ScanState}
  <2>1. 0 \in T
    <3>1. ScanStart \in ScanState
      BY DEF ScanStart, ScanState
    <3> QED BY <1>8, <1>10, <3>1
  <2>2. ASSUME NEW i \in 1..limit, i - 1 \in T PROVE i \in T
    BY <1>2, <1>8, <1>11, <2>2
  <2> HIDE DEF T
  <2>3. \A i \in 0..limit : i \in T
    BY <1>1, <2>1, <2>2, Upwards
  <2> QED BY <2>3 DEF T
<1> QED BY <1>10, <1>11, <1>12 DEF c

\* What InTurn says of neighbours: an open call belongs to a round that goes on, and
\* one with nothing open has been answered.
LEMMA TurnsFollow ==
  ASSUME Conversation, InTurn, NEW i \in 1..Len(messages)
  PROVE  /\ messages[i].calls # {} => /\ messages[i].results = {} /\ OpenAfter(i - 1) = {}
                                      /\ OpenAfter(i) # {}
         /\ messages[i].results # {} => OpenAfter(i - 1) # {}
         /\ ~RoundAt(i) => OpenAfter(i - 1) = {} /\ OpenAfter(i) = {}
<1>1. Fits(messages[i], OpenAfter(i - 1))
  BY DEF InTurn
<1>2. OpenAfter(i) = (OpenAfter(i - 1) \cup messages[i].calls) \ messages[i].results
  BY OpenGoesOn
<1> QED BY <1>1, <1>2 DEF Fits, RoundAt

LEMMA OpenIsInRound ==
  ASSUME Conversation, InTurn, NEW i \in 0..Len(messages), OpenAfter(i) # {}
  PROVE  RoundAt(i)
<1>1. i # 0
  BY OpenGoesOn
<1>2. i \in 1..Len(messages)
  BY <1>1, MessageAt
<1> QED BY <1>2, TurnsFollow

\* The last place to cut, as far as the first i messages tell.
IsLast(c, i) == c \in 0..i /\ GoodUpTo(c, i) /\ \A n \in (c + 1)..i : ~GoodUpTo(n, i)

\* What the scan has found after i messages.
ScanIsTrue(s, i) ==
  s.open = OpenAfter(i) /\ (s.inRound <=> RoundAt(i)) /\ IsLast(s.closed, i)

LEMMA ScanStartIsTrue ==
  ASSUME Conversation
  PROVE  ScanIsTrue(ScanStart, 0)
<1>1. OpenAfter(0) = {} /\ ~RoundAt(0)
  BY OpenGoesOn DEF RoundAt
<1>2. GoodUpTo(0, 0) /\ \A n \in 1..0 : FALSE
  BY <1>1 DEF GoodUpTo
<1> QED BY <1>1, <1>2 DEF ScanStart, ScanIsTrue, IsLast

\* Where the round before i goes on, it could not be cut, whatever was known before.
LEMMA GoodBefore ==
  ASSUME Conversation, InTurn, NEW i \in 1..Len(messages), NEW n \in 0..(i - 1),
         ~(RoundAt(i - 1) /\ OpenAfter(i - 1) = {} /\ messages[i].calls = {})
  PROVE  GoodUpTo(n, i) <=> GoodUpTo(n, i - 1)
<1>1. n # i /\ i - 1 \in 0..Len(messages) /\ Len(messages) \in Nat
  BY MessageAt
<1>2. CASE n # i - 1
  BY <1>1, <1>2 DEF GoodUpTo
<1>3. CASE n = i - 1 /\ OpenAfter(n) # {}
  BY <1>3 DEF GoodUpTo
<1>4. CASE n = i - 1 /\ OpenAfter(n) = {} /\ ~RoundAt(n)
  <2>1. ~AdjacentAt(n)
    BY <1>1, <1>4 DEF AdjacentAt, RoundAt
  <2> QED BY <1>1, <1>4, <2>1 DEF GoodUpTo
<1>5. CASE n = i - 1 /\ OpenAfter(n) = {} /\ RoundAt(n)
  <2>1. n \in 1..Len(messages) /\ n \in 1..(Len(messages) - 1) /\ n + 1 = i
    BY <1>1, <1>5 DEF RoundAt
  <2>2. messages[n].results # {}
    BY <1>5, <2>1, TurnsFollow DEF RoundAt
  <2>3. messages[n + 1].calls # {}
    BY <1>5, <2>1
  <2> QED BY <1>1, <1>5, <2>1, <2>2, <2>3 DEF GoodUpTo, AdjacentAt
<1> QED BY <1>2, <1>3, <1>4, <1>5

LEMMA ScanStaysTrue ==
  ASSUME Conversation, InTurn, NEW i \in 1..Len(messages), NEW s \in ScanState,
         ScanIsTrue(s, i - 1)
  PROVE  ScanIsTrue(ScanNext(i, s), i)
<1> DEFINE m == messages[i]
           ended == s.inRound /\ s.open = {} /\ m.calls = {}
           open == (s.open \cup m.calls) \ m.results
           inRound == (s.inRound /\ ~ended) \/ m.calls # {}
           closed == IF open = {} /\ ~inRound THEN i ELSE IF ended THEN i - 1 ELSE s.closed
<1>1. /\ ScanNext(i, s).open = open /\ ScanNext(i, s).inRound = inRound
      /\ ScanNext(i, s).closed = closed
  BY DEF ScanNext
<1>2. i \in Nat /\ Len(messages) \in Nat /\ i - 1 \in 0..Len(messages) /\ i \in 0..i
      /\ i - 1 \in 0..i /\ i # i - 1
  BY MessageAt
<1>3. open = OpenAfter(i)
  BY OpenGoesOn DEF ScanIsTrue
<1>4. s.inRound <=> RoundAt(i - 1)
  BY DEF ScanIsTrue
<1>5. s.open = OpenAfter(i - 1)
  BY DEF ScanIsTrue
<1>6. m.results # {} => ~ended /\ s.inRound
  BY <1>2, <1>4, <1>5, TurnsFollow, OpenIsInRound
<1>7. inRound <=> RoundAt(i)
  <2>1. CASE m.calls # {}
    BY <2>1 DEF RoundAt
  <2>2. CASE m.calls = {} /\ m.results # {}
    BY <1>6, <2>2 DEF RoundAt
  <2>3. CASE m.calls = {} /\ m.results = {}
    <3>1. ~RoundAt(i)
      BY <2>3 DEF RoundAt
    <3>2. s.open = {}
      BY <1>5, <3>1, TurnsFollow
    <3> QED BY <2>3, <3>1, <3>2
  <2> QED BY <2>1, <2>2, <2>3
<1> HIDE DEF open, inRound
<1>8. CASE open = {} /\ ~inRound
  <2>1. closed = i /\ GoodUpTo(i, i) /\ \A n \in (i + 1)..i : FALSE
    BY <1>2, <1>3, <1>7, <1>8 DEF GoodUpTo
  <2> HIDE DEF closed
  <2> QED BY <1>1, <1>2, <1>3, <1>7, <2>1 DEF ScanIsTrue, IsLast
<1>9. ~(open = {} /\ ~inRound) => ~GoodUpTo(i, i)
  BY <1>3, <1>7 DEF GoodUpTo
<1>10. CASE ~(open = {} /\ ~inRound) /\ ended
  <2>1. closed = i - 1 /\ \A n \in (i - 1 + 1)..i : n = i
    BY <1>2, <1>10
  <2>2. ~AdjacentAt(i - 1)
    <3>1. messages[i - 1 + 1].calls = {}
      BY <1>2, <1>10
    <3> QED BY <3>1 DEF AdjacentAt
  <2>3. GoodUpTo(i - 1, i)
    BY <1>2, <1>5, <1>10, <2>2 DEF GoodUpTo
  <2> HIDE DEF closed
  <2> QED BY <1>1, <1>2, <1>3, <1>7, <1>9, <1>10, <2>1, <2>3 DEF ScanIsTrue, IsLast
<1>11. CASE ~(open = {} /\ ~inRound) /\ ~ended
  <2>1. closed = s.closed
    BY <1>11
  <2>2. IsLast(s.closed, i - 1)
    BY DEF ScanIsTrue
  <2>3. \A n \in 0..(i - 1) : GoodUpTo(n, i) <=> GoodUpTo(n, i - 1)
    BY <1>2, <1>4, <1>5, <1>11, GoodBefore
  <2> HIDE DEF closed
  <2>4. s.closed \in 0..(i - 1) /\ GoodUpTo(s.closed, i - 1) /\ s.closed \in 0..i
    BY <1>2, <2>2 DEF IsLast
  <2>5. ASSUME NEW n \in (s.closed + 1)..i PROVE ~GoodUpTo(n, i)
    <3>1. CASE n = i
      BY <1>9, <1>11, <3>1
    <3>2. CASE n # i
      <4>1. n \in (s.closed + 1)..(i - 1) /\ n \in 0..(i - 1)
        BY <1>2, <2>4, <3>2
      <4> QED BY <2>2, <2>3, <4>1 DEF IsLast
    <3> QED BY <3>1, <3>2
  <2>6. IsLast(s.closed, i)
    BY <2>3, <2>4, <2>5 DEF IsLast
  <2> QED BY <1>1, <1>3, <1>7, <2>1, <2>6 DEF ScanIsTrue
<1> QED BY <1>8, <1>10, <1>11

LEMMA ScanFinds ==
  ASSUME Conversation, InTurn, NEW limit \in 0..Len(messages)
  PROVE  ScanIsTrue(Scan(limit), limit)
<1>1. limit \in Nat /\ \A i \in 1..limit : i \in 1..Len(messages) /\ i \in 0..limit /\ i - 1 \in 0..limit
  BY MessageAt
<1> DEFINE T == {i \in 0..limit : ScanIsTrue(Scans(limit)[i], i)}
<1>2. 0 \in T
  <2>1. 0 \in 0..limit /\ Scans(limit)[0] = ScanStart
    BY <1>1, ScansGoOn
  <2> QED BY <2>1, ScanStartIsTrue
<1>3. ASSUME NEW i \in 1..limit, i - 1 \in T PROVE i \in T
  <2>1. Scans(limit)[i - 1] \in ScanState /\ Scans(limit)[i] = ScanNext(i, Scans(limit)[i - 1])
    BY <1>1, ScansGoOn
  <2>2. ScanIsTrue(Scans(limit)[i - 1], i - 1)
    BY <1>3
  <2>3. ScanIsTrue(Scans(limit)[i], i)
    BY <1>1, <2>1, <2>2, ScanStaysTrue
  <2> QED BY <1>1, <2>3
<1> HIDE DEF T
<1>4. limit \in T
  <2>1. limit \in 0..limit
    BY <1>1
  <2> QED BY <1>1, <1>2, <1>3, <2>1, Upwards
<1> QED BY <1>4, ScanIsScans DEF T

Good(n) == OpenAfter(n) = {} /\ ~AdjacentAt(n)

\* findClosedPrefixBoundary() finds the last place to cut.
LEMMA ClosedPrefixFinds ==
  ASSUME Conversation, InTurn, NEW cutoff \in 0..Len(messages)
  PROVE  /\ ClosedPrefix(cutoff) \in 0..cutoff
         /\ Good(ClosedPrefix(cutoff))
         /\ \A n \in (ClosedPrefix(cutoff) + 1)..cutoff : ~Good(n)
<1>1. Len(messages) \in Nat /\ cutoff \in Nat /\ cutoff <= Len(messages)
  BY MessageAt
<1>2. Min({cutoff, Len(messages)}) = cutoff
  BY <1>1, MaxOfTwo
<1> DEFINE scan == Scan(cutoff)
<1>3. ClosedPrefix(cutoff) = IF cutoff <= 0 THEN 0
        ELSE IF scan.inRound /\ scan.open = {} /\ ~NextContinues(cutoff) THEN cutoff
        ELSE scan.closed
  BY <1>2 DEF ClosedPrefix
<1>4. ScanIsTrue(scan, cutoff)
  BY ScanFinds
<1> HIDE DEF scan
<1>5. CASE cutoff = 0
  <2>1. ClosedPrefix(cutoff) = 0 /\ OpenAfter(0) = {} /\ ~AdjacentAt(0)
    BY <1>3, <1>5, OpenGoesOn DEF AdjacentAt
  <2> QED BY <1>5, <2>1 DEF Good
<1>6. \A n \in 0..(cutoff - 1) : Good(n) <=> GoodUpTo(n, cutoff)
  BY DEF Good, GoodUpTo
<1>7. CASE cutoff > 0 /\ scan.inRound /\ scan.open = {} /\ ~NextContinues(cutoff)
  <2>1. ClosedPrefix(cutoff) = cutoff
    BY <1>1, <1>3, <1>7
  <2>2. ~AdjacentAt(cutoff)
    BY <1>1, <1>7 DEF AdjacentAt, NextContinues
  <2>3. OpenAfter(cutoff) = {}
    BY <1>4, <1>7 DEF ScanIsTrue
  <2>4. \A n \in (cutoff + 1)..cutoff : FALSE
    BY <1>1
  <2> QED BY <1>1, <2>1, <2>2, <2>3, <2>4 DEF Good
<1>8. CASE cutoff > 0 /\ ~(scan.inRound /\ scan.open = {} /\ ~NextContinues(cutoff))
  <2>1. ClosedPrefix(cutoff) = scan.closed
    BY <1>1, <1>3, <1>8
  <2>2. IsLast(scan.closed, cutoff) /\ cutoff \in 1..Len(messages)
    BY <1>1, <1>4, <1>8 DEF ScanIsTrue
  <2>3. Good(cutoff) <=> GoodUpTo(cutoff, cutoff)
    <3>1. CASE OpenAfter(cutoff) # {}
      BY <3>1 DEF Good, GoodUpTo
    <3>2. CASE OpenAfter(cutoff) = {} /\ ~RoundAt(cutoff)
      BY <1>1, <2>2, <3>2 DEF Good, GoodUpTo, AdjacentAt, RoundAt
    <3>3. CASE OpenAfter(cutoff) = {} /\ RoundAt(cutoff)
      <4>1. NextContinues(cutoff)
        BY <1>4, <1>8, <3>3 DEF ScanIsTrue
      <4>2. messages[cutoff].results # {}
        BY <2>2, <3>3, TurnsFollow DEF RoundAt
      <4>3. AdjacentAt(cutoff)
        BY <1>1, <2>2, <4>1, <4>2 DEF AdjacentAt, NextContinues
      <4> QED BY <3>3, <4>3 DEF Good, GoodUpTo
    <3> QED BY <3>1, <3>2, <3>3
  <2>4. \A n \in 0..cutoff : Good(n) <=> GoodUpTo(n, cutoff)
    <3>1. \A n \in 0..cutoff : n = cutoff \/ n \in 0..(cutoff - 1)
      BY <1>1
    <3> QED BY <1>6, <2>3, <3>1
  <2>5. scan.closed \in 0..cutoff /\ GoodUpTo(scan.closed, cutoff)
        /\ \A n \in (scan.closed + 1)..cutoff : ~GoodUpTo(n, cutoff)
    BY <2>2 DEF IsLast
  <2>6. \A n \in (scan.closed + 1)..cutoff : n \in 0..cutoff
    BY <1>1, <2>5
  <2> QED BY <2>1, <2>4, <2>5, <2>6
<1> QED BY <1>1, <1>5, <1>7, <1>8

-----------------------------------------------------------------------------
(* The invariant of a conversation.                                         *)

TurnsInv == Conversation /\ InTurn

\* What came before a place is open there, whatever follows.
LEMMA OpenIsOfPast ==
  ASSUME Conversation, Conversation', NEW n \in 0..Len(messages), n <= Len(messages'),
         \A i \in 1..n : messages'[i] = messages[i]
  PROVE  \A k \in 0..n : OpenAfter(k)' = OpenAfter(k)
<1>1. n \in Nat /\ Len(messages) \in Nat /\ Len(messages') \in Nat
  BY MessageAt DEF Conversation
<1> DEFINE T == {k \in 0..n : OpenAfter(k)' = OpenAfter(k)}
<1>2. /\ OpenAfter(0)' = {}
      /\ \A i \in 1..Len(messages') :
           OpenAfter(i)' = (OpenAfter(i - 1)' \cup messages'[i].calls) \ messages'[i].results
  <2>1. (OpenAfter(0) = {} /\ \A i \in 1..Len(messages) :
              OpenAfter(i) = (OpenAfter(i - 1) \cup messages[i].calls) \ messages[i].results)'
    BY OpenGoesOn, PTL
  <2> QED BY <2>1
<1>3. 0 \in T
  <2>1. OpenAfter(0) = {}
    BY OpenGoesOn
  <2>2. OpenAfter(0)' = {}
    BY <1>2
  <2>3. 0 \in 0..n
    BY <1>1
  <2> QED BY <2>1, <2>2, <2>3
<1>4. ASSUME NEW k \in 1..n, k - 1 \in T PROVE k \in T
  <2>1. k \in 1..Len(messages) /\ k \in 1..Len(messages') /\ k \in 0..n
    BY <1>1
  <2>2. OpenAfter(k - 1)' = OpenAfter(k - 1) /\ messages'[k] = messages[k]
    BY <1>4
  <2>3. OpenAfter(k)' = OpenAfter(k)
    BY <1>2, <2>1, <2>2, OpenGoesOn
  <2> QED BY <2>1, <2>3
<1> HIDE DEF T
<1>5. \A k \in 0..n : k \in T
  BY <1>1, <1>3, <1>4, Upwards
<1> QED BY <1>5 DEF T

LEMMA TurnsInit == GridInit => TurnsInv
<1>1. SUFFICES ASSUME GridInit PROVE TurnsInv
  OBVIOUS
<1>2. messages = <<>> /\ Len(messages) = 0 /\ <<>> \in Seq(Message)
  BY <1>1 DEF GridInit
<1> QED BY <1>2 DEF TurnsInv, Conversation, InTurn

\* The client adds a message in its turn.
LEMMA AppendTurn ==
  ASSUME TurnsInv, NEW m \in Message, Fits(m, Open), Append1(m)
  PROVE  TurnsInv'
<1>0. PICK n \in Nat : n = Len(messages)
  BY MessageAt DEF TurnsInv
<1>1. n \in Nat /\ messages \in Seq(Message) /\ messages' = Append(messages, m)
  BY MessageAt DEF TurnsInv, Conversation, Append1
<1>2. /\ messages' \in Seq(Message) /\ Len(messages') = n + 1 /\ messages'[n + 1] = m
      /\ \A i \in 1..n : messages'[i] = messages[i]
  BY <1>0, <1>1
<1>3. Conversation'
  BY <1>2 DEF Conversation
<1>4. \A k \in 0..n : OpenAfter(k)' = OpenAfter(k)
  <2>1. n \in 0..n /\ n <= Len(messages')
    BY <1>1, <1>2
  <2>2. n \in 0..Len(messages)
    BY <1>0
  <2> QED BY <1>2, <1>3, <2>1, <2>2, OpenIsOfPast DEF TurnsInv
<1>5. ASSUME NEW i \in 1..Len(messages')
      PROVE  Fits(messages'[i], OpenAfter(i - 1)')
  <2>1. CASE i = n + 1
    <3>1. OpenAfter(n)' = Open /\ i - 1 = n
      <4>1. n \in 0..n
        BY <1>1
      <4>2. OpenAfter(n)' = OpenAfter(n)
        BY <1>4, <4>1
      <4> QED BY <1>0, <2>1, <4>2 DEF Open
    <3> QED BY <1>2, <2>1, <3>1
  <2>2. CASE i # n + 1
    <3>1. i \in 1..n /\ i - 1 \in 0..n
      BY <1>1, <1>2, <2>2
    <3>2. Fits(messages[i], OpenAfter(i - 1))
      BY <1>0, <3>1 DEF TurnsInv, InTurn
    <3>3. OpenAfter(i - 1)' = OpenAfter(i - 1) /\ messages'[i] = messages[i]
      BY <1>2, <1>4, <3>1
    <3> QED BY <3>2, <3>3
  <2> QED BY <2>1, <2>2
<1> QED BY <1>3, <1>5 DEF TurnsInv, InTurn, Fits

LEMMA TurnsStep == TurnsInv /\ [GridNext]_gridVars => TurnsInv'
<1>1. SUFFICES ASSUME TurnsInv, [GridNext]_gridVars PROVE TurnsInv'
  OBVIOUS
<1>2. CASE Say
  <2>1. PICK c \in Text : Append1(Says(c)) /\ Open = {}
    BY <1>2 DEF Say
  <2>2. Says(c) \in Message /\ Fits(Says(c), Open)
    BY <2>1, GridAssumption DEF Says, Message, Fits
  <2> QED BY <1>1, <2>1, <2>2, AppendTurn
<1>3. CASE SayAtLength
  <2>1. PICK c \in Prompt : Append1(Prompts(c)) /\ Open = {}
    BY <1>3 DEF SayAtLength
  <2>2. Prompts(c) \in Message /\ Fits(Prompts(c), Open)
    BY <2>1, GridAssumption DEF Prompts, Message, Fits
  <2> QED BY <1>1, <2>1, <2>2, AppendTurn
<1>4. CASE Call
  <2>1. PICK ids \in (SUBSET CallId) \ {{}} : Append1(Calls(ids)) /\ Open = {}
    BY <1>4 DEF Call
  <2>2. Calls(ids) \in Message /\ Fits(Calls(ids), Open)
    BY <2>1 DEF Calls, Message, Fits
  <2> QED BY <1>1, <2>1, <2>2, AppendTurn
<1>5. CASE Answer
  <2>1. PICK ids \in (SUBSET Open) \ {{}} : Append1(Answers(ids))
    BY <1>5 DEF Answer
  <2>2. Open \subseteq CallId
    <3>1. Len(messages) \in 0..Len(messages)
      BY <1>1, MessageAt DEF TurnsInv
    <3> QED BY <1>1, <3>1, OpenIsOfCalls DEF Open, TurnsInv
  <2>3. ids \subseteq CallId /\ ids \subseteq Open /\ ids # {}
    BY <2>1, <2>2
  <2>4. Answers(ids) \in Message
    BY <2>3 DEF Answers, Message
  <2>5. Fits(Answers(ids), Open)
    BY <2>3 DEF Answers, Fits
  <2> QED BY <1>1, <2>1, <2>4, <2>5, AppendTurn
<1>6. CASE Rewind
  <2>1. PICK n \in 0..(Len(messages) - 1) : messages' = SubSeq(messages, 1, n)
    BY <1>6 DEF Rewind
  <2>2. Len(messages) \in Nat /\ messages \in Seq(Message)
    BY <1>1, MessageAt DEF TurnsInv, Conversation
  <2>3. /\ messages' \in Seq(Message) /\ Len(messages') = n
        /\ \A i \in 1..n : messages'[i] = messages[i]
    BY <2>1, <2>2
  <2>4. \A k \in 0..n : OpenAfter(k)' = OpenAfter(k)
    <3>1. n \in 0..Len(messages) /\ n <= Len(messages')
      BY <2>2, <2>3
    <3> QED BY <1>1, <2>3, <3>1, OpenIsOfPast DEF TurnsInv, Conversation
  <2>5. ASSUME NEW i \in 1..Len(messages')
        PROVE  Fits(messages'[i], OpenAfter(i - 1)')
    <3>1. i \in 1..n /\ i - 1 \in 0..n /\ i \in 1..Len(messages)
      BY <2>2, <2>3
    <3>2. Fits(messages[i], OpenAfter(i - 1))
      BY <1>1, <3>1 DEF TurnsInv, InTurn
    <3> QED BY <2>3, <2>4, <3>1, <3>2
  <2> QED BY <2>3, <2>5 DEF TurnsInv, Conversation, InTurn, Fits
<1>7. ASSUME UNCHANGED messages PROVE TurnsInv'
  <2>1. Len(messages) \in Nat
    BY <1>1, MessageAt DEF TurnsInv
  <2>2. Conversation'
    BY <1>1, <1>7 DEF TurnsInv, Conversation
  <2>3. \A k \in 0..Len(messages) : OpenAfter(k)' = OpenAfter(k)
    <3>1. Len(messages) \in 0..Len(messages) /\ Len(messages) <= Len(messages')
      BY <1>7, <2>1
    <3> QED BY <1>1, <1>7, <2>2, <3>1, OpenIsOfPast DEF TurnsInv
  <2>4. ASSUME NEW i \in 1..Len(messages')
        PROVE  Fits(messages'[i], OpenAfter(i - 1)')
    <3>1. i \in 1..Len(messages) /\ i - 1 \in 0..Len(messages)
      BY <1>7, <2>1
    <3>2. Fits(messages[i], OpenAfter(i - 1))
      BY <1>1, <3>1 DEF TurnsInv, InTurn
    <3> QED BY <1>7, <2>3, <3>1, <3>2
  <2> QED BY <2>2, <2>4 DEF TurnsInv, InTurn, Fits
<1>8. ASSUME NEW budget \in Budget, NEW packFill \in BOOLEAN, NEW marks \in Marks,
             Collapse(budget, packFill, marks)
      PROVE  UNCHANGED messages
  BY <1>8 DEF Collapse
<1>9. CASE UNCHANGED gridVars
  BY <1>7, <1>9 DEF gridVars
<1> QED BY <1>1, <1>2, <1>3, <1>4, <1>5, <1>6, <1>7, <1>8, <1>9 DEF GridNext

\* Wherever the cutoff falls, the history is cut at the last place before it that
\* separates no call from its answer and no two rounds, for any conversation.
THEOREM HistoryIsCutBetweenRounds == GridSpec => []CutsBetweenRounds
<1>1. TurnsInv => CutsBetweenRounds
  <2>1. SUFFICES ASSUME TurnsInv, NEW cutoff \in 0..Len(messages)
                 PROVE  ClosedPrefix(cutoff) = Max({n \in 0..cutoff : Good(n)})
    BY DEF CutsBetweenRounds, Good, AdjacentAt
  <2> DEFINE T == {n \in 0..cutoff : Good(n)}
             c == ClosedPrefix(cutoff)
  <2>2. c \in 0..cutoff /\ Good(c) /\ \A n \in (c + 1)..cutoff : ~Good(n)
    BY <2>1, ClosedPrefixFinds DEF TurnsInv
  <2>3. cutoff \in Nat
    BY <2>1, MessageAt DEF TurnsInv
  <2> HIDE DEF c
  <2>4. T \subseteq Nat /\ c \in T
    BY <2>2, <2>3
  <2>5. ASSUME NEW t \in T PROVE t <= c
    <3>1. t \in 0..cutoff /\ Good(t)
      OBVIOUS
    <3> QED BY <2>2, <2>3, <3>1
  <2> HIDE DEF T
  <2>6. Max(T) = c
    BY <2>4, <2>5, MaxIsThat
  <2> QED BY <2>6 DEF T, c
<1> QED BY <1>1, TurnsInit, TurnsStep, PTL DEF GridSpec

-----------------------------------------------------------------------------
(* What a render costs.                                                     *)

\* What one field of some messages adds up to.
LEMMA RangeTotals ==
  ASSUME NEW weight, NEW n \in Nat, \A i \in 1..n : weight[i] \in Nat,
         NEW from \in Nat, NEW to \in Int, to <= n
  PROVE  /\ Total(weight, (from + 1)..to) \in Nat
         /\ from >= to => Total(weight, (from + 1)..to) = 0
         /\ \A low \in 0..from, high \in to..n :
              Total(weight, (from + 1)..to) <= Total(weight, (low + 1)..high)
<1>1. ASSUME NEW a \in Nat, NEW b \in Int, b <= n
      PROVE  /\ IsFiniteSet((a + 1)..b) /\ \A i \in (a + 1)..b : weight[i] \in Nat
  <2>1. IsFiniteSet((a + 1)..b)
    BY FS_Interval
  <2>2. \A i \in (a + 1)..b : i \in 1..n
    BY <1>1
  <2> QED BY <2>1, <2>2
<1>2. Total(weight, (from + 1)..to) \in Nat
  BY <1>1, TotalIsNat
<1>3. ASSUME from >= to PROVE Total(weight, (from + 1)..to) = 0
  <2>1. (from + 1)..to = {}
    BY <1>3
  <2> QED BY <2>1, FS_EmptySet, TotalOfChosen
<1>4. ASSUME NEW low \in 0..from, NEW high \in to..n
      PROVE  Total(weight, (from + 1)..to) <= Total(weight, (low + 1)..high)
  <2>1. low \in Nat /\ high \in Int /\ high <= n /\ (from + 1)..to \subseteq (low + 1)..high
    BY <1>4
  <2> QED BY <1>1, <2>1, TotalOfPart
<1> QED BY <1>2, <1>3, <1>4

LEMMA CharsAre ==
  ASSUME Conversation, NEW from \in Nat, NEW to \in Int, to <= Len(messages)
  PROVE  /\ Chars(from, to) \in Nat /\ Prompted(from, to) \in Nat
         /\ from >= to => Chars(from, to) = 0 /\ Prompted(from, to) = 0
         /\ \A low \in 0..from, high \in to..Len(messages) :
              Chars(from, to) <= Chars(low, high) /\ Prompted(from, to) <= Prompted(low, high)
<1> DEFINE chars == [i \in DOMAIN messages |-> messages[i].chars]
           prompt == [i \in DOMAIN messages |-> messages[i].prompt]
<1>1. Len(messages) \in Nat /\ \A i \in 1..Len(messages) : chars[i] \in Nat /\ prompt[i] \in Nat
  BY MessageAt
<1>2. \A a, b : Chars(a, b) = Total(chars, (a + 1)..b) /\ Prompted(a, b) = Total(prompt, (a + 1)..b)
  BY DEF Chars, Prompted
<1> HIDE DEF chars, prompt
<1>3. /\ Total(chars, (from + 1)..to) \in Nat
      /\ from >= to => Total(chars, (from + 1)..to) = 0
      /\ \A low \in 0..from, high \in to..Len(messages) :
           Total(chars, (from + 1)..to) <= Total(chars, (low + 1)..high)
  BY <1>1, RangeTotals
<1>4. /\ Total(prompt, (from + 1)..to) \in Nat
      /\ from >= to => Total(prompt, (from + 1)..to) = 0
      /\ \A low \in 0..from, high \in to..Len(messages) :
           Total(prompt, (from + 1)..to) <= Total(prompt, (low + 1)..high)
  BY <1>1, RangeTotals
<1> QED BY <1>2, <1>3, <1>4

LEMMA PagesAre ==
  ASSUME NEW c \in Nat
  PROVE  Pages(c) \in Nat /\ Pages(0) = 0
BY GridAssumption DEF Pages

LEMMA PagesForAre ==
  ASSUME Conversation, NEW step \in Nat \ {0}, NEW to \in 0..Len(messages)
  PROVE  /\ PagesFor(step, to) \in Nat
         /\ to > ProtectedPrefix /\ step >= to - ProtectedPrefix =>
              PagesFor(step, to) = Pages(Chars(ProtectedPrefix, to)) + Pages(Prompted(ProtectedPrefix, to))
<1> DEFINE chunk(a) == LET b == Min({a + step, to}) IN Pages(Chars(a, b)) + Pages(Prompted(a, b))
           S == Starts(step, to)
           w == [a \in S |-> chunk(a)]
<1>1. PagesFor(step, to) = Total(w, S)
  BY DEF PagesFor
<1>2. Len(messages) \in Nat /\ ProtectedPrefix \in Nat /\ to \in Nat /\ to <= Len(messages)
  BY MessageAt, GridAssumption
<1>3. \A a \in S : w[a] = chunk(a)
  OBVIOUS
<1>4. ASSUME NEW a \in Nat
      PROVE  /\ chunk(a) \in Nat
             /\ a + step >= to => chunk(a) = Pages(Chars(a, to)) + Pages(Prompted(a, to))
  <2>1. PICK b : b = Min({a + step, to})
    OBVIOUS
  <2>2. chunk(a) = Pages(Chars(a, b)) + Pages(Prompted(a, b))
    BY <2>1
  <2> HIDE DEF chunk, S, w
  <2>3. a + step \in Int /\ to \in Int
    BY <1>2
  <2>4. Min({a + step, to}) = IF a + step <= to THEN a + step ELSE to
    BY <2>3, MaxOfTwo
  <2>5. b \in Int /\ b <= Len(messages) /\ (a + step >= to => b = to)
    BY <1>2, <2>1, <2>3, <2>4
  <2>6. Chars(a, b) \in Nat /\ Prompted(a, b) \in Nat
    BY <2>5, CharsAre
  <2>7. Pages(Chars(a, b)) \in Nat /\ Pages(Prompted(a, b)) \in Nat
    BY <2>6, PagesAre
  <2>8. chunk(a) \in Nat
    BY <2>2, <2>7
  <2>9. ASSUME b = to PROVE chunk(a) = Pages(Chars(a, to)) + Pages(Prompted(a, to))
    BY <2>2, <2>9
  <2> QED BY <2>5, <2>8, <2>9
<1>5. S \subseteq ProtectedPrefix..(to - 1) /\ S \subseteq Nat
  BY <1>2 DEF Starts
<1>6. S = {a \in ProtectedPrefix..(to - 1) : (a - ProtectedPrefix) % step = 0}
  BY DEF Starts
<1> HIDE DEF chunk, S, w
<1>7. IsFiniteSet(S)
  <2>1. ProtectedPrefix \in Int /\ to - 1 \in Int
    BY <1>2
  <2>2. IsFiniteSet(ProtectedPrefix..(to - 1))
    BY <2>1, FS_Interval
  <2> QED BY <1>5, <2>2, FS_Subset
<1>8. \A a \in S : w[a] \in Nat
  BY <1>3, <1>4, <1>5
<1>9. Total(w, S) \in Nat
  BY <1>7, <1>8, TotalIsNat
<1>10. ASSUME to > ProtectedPrefix, step >= to - ProtectedPrefix
       PROVE  PagesFor(step, to) = Pages(Chars(ProtectedPrefix, to)) + Pages(Prompted(ProtectedPrefix, to))
  <2>1. ASSUME NEW a \in ProtectedPrefix..(to - 1)
        PROVE  (a - ProtectedPrefix) % step = 0 <=> a = ProtectedPrefix
    <3>1. a - ProtectedPrefix \in 0..(step - 1)
      BY <1>2, <1>10
    <3>2. (a - ProtectedPrefix) % step = a - ProtectedPrefix
      BY <3>1, SmallRest
    <3> QED BY <1>2, <3>2
  <2>2. ProtectedPrefix \in ProtectedPrefix..(to - 1)
    BY <1>2, <1>10
  <2>3. S = {ProtectedPrefix}
    BY <1>6, <2>1, <2>2
  <2>4. w[ProtectedPrefix] = chunk(ProtectedPrefix) /\ w[ProtectedPrefix] \in Nat
    BY <1>3, <1>8, <2>3
  <2>5. chunk(ProtectedPrefix) = Pages(Chars(ProtectedPrefix, to)) + Pages(Prompted(ProtectedPrefix, to))
    BY <1>2, <1>4, <1>10
  <2>6. Total(w, S) = w[ProtectedPrefix]
    BY <2>3, <2>4, TotalOfOne
  <2> QED BY <1>1, <2>4, <2>5, <2>6
<1> QED BY <1>1, <1>9, <1>10

-----------------------------------------------------------------------------
(* The grids.                                                              *)

DoubleStep == [p \in Nat \X (Nat \ {0}) |-> 2 * p[2]]

Doublings(range) ==
  CHOOSE f : f = [k \in 0..range |-> IF k = 0 THEN FreezeChunk ELSE 2 * f[k - 1]]

LEMMA StepsAreDoublings == \A range : Steps(range) = {Doublings(range)[k] : k \in 0..range}
BY DEF Steps, Doublings

LEMMA DoublingsAre ==
  ASSUME NEW range \in Nat
  PROVE  /\ Doublings(range)[0] = FreezeChunk
         /\ \A k \in 1..range : Doublings(range)[k] = 2 * Doublings(range)[k - 1]
         /\ \A k \in 0..range : Doublings(range)[k] \in Nat /\ Doublings(range)[k] > k
<1>1. \A k \in 1..range : k \in Nat /\ k # 0 /\ k \in 0..range /\ k - 1 \in 0..range
  OBVIOUS
<1>2. FreezeChunk \in Nat \ {0}
  BY GridAssumption
<1>3. ASSUME NEW k \in 1..range, NEW s \in Nat \ {0}
      PROVE  DoubleStep[<<k, s>>] = 2 * s /\ DoubleStep[<<k, s>>] \in Nat \ {0}
  <2>1. <<k, s>> \in Nat \X (Nat \ {0})
    BY <1>1
  <2>2. DoubleStep[<<k, s>>] = 2 * s
    BY <2>1 DEF DoubleStep
  <2> QED BY <2>2
<1>4. PICK f \in [0..range -> Nat \ {0}] : GoesBy(f, FreezeChunk, DoubleStep, range)
  BY <1>2, <1>3, RecursionExists
<1>5. ASSUME NEW k \in 1..range PROVE f[k] = 2 * f[k - 1]
  <2>1. f[k - 1] \in Nat \ {0}
    BY <1>1
  <2> QED BY <1>3, <1>4, <2>1 DEF GoesBy
<1> DEFINE of(k) == IF k = 0 THEN FreezeChunk ELSE 2 * f[k - 1]
<1>6. f = [k \in 0..range |-> of(k)]
  <2>1. \A k \in 0..range : k = 0 \/ k \in 1..range
    OBVIOUS
  <2>2. \A k \in 0..range : f[k] = of(k)
    BY <1>4, <1>5, <2>1 DEF GoesBy
  <2> HIDE DEF of
  <2> QED BY <2>2
<1> DEFINE d == Doublings(range)
<1>7. d = [k \in 0..range |-> IF k = 0 THEN FreezeChunk ELSE 2 * d[k - 1]]
  BY <1>6 DEF Doublings
<1> HIDE DEF d
<1>8. \A k \in 0..range : d[k] = IF k = 0 THEN FreezeChunk ELSE 2 * d[k - 1]
  BY <1>7, Zenon
<1>9. d[0] = FreezeChunk
  BY <1>8
<1>10. \A k \in 1..range : d[k] = 2 * d[k - 1]
  BY <1>1, <1>8
<1>11. \A k \in 0..range : d[k] \in Nat /\ d[k] > k
  <2> DEFINE T == {k \in 0..range : d[k] \in Nat /\ d[k] > k}
  <2>1. 0 \in T
    BY <1>2, <1>9
  <2>2. ASSUME NEW k \in 1..range, k - 1 \in T PROVE k \in T
    <3>1. d[k - 1] \in Nat /\ d[k - 1] > k - 1 /\ d[k] = 2 * d[k - 1]
      BY <1>10, <2>2
    <3> QED BY <1>1, <3>1
  <2> HIDE DEF T
  <2>3. \A k \in 0..range : k \in T
    BY <2>1, <2>2, Upwards
  <2> QED BY <2>3 DEF T
<1> QED BY <1>9, <1>10, <1>11 DEF d

\* The grids are positive, and one of them holds the range in one chunk.
LEMMA StepsAre ==
  ASSUME NEW range \in Nat
  PROVE  /\ Steps(range) \subseteq Nat \ {0}
         /\ \E s \in Steps(range) : s >= range
<1>1. \A k \in 0..range : Doublings(range)[k] \in Nat \ {0}
  BY DoublingsAre
<1>2. Doublings(range)[range] \in Steps(range) /\ Doublings(range)[range] >= range
  <2>1. range \in 0..range
    OBVIOUS
  <2>2. Doublings(range)[range] \in Nat /\ Doublings(range)[range] > range
    BY <2>1, DoublingsAre
  <2> QED BY <2>1, <2>2, StepsAreDoublings
<1> QED BY <1>1, <1>2, StepsAreDoublings

\* The step that is found is one of the grids, and the least that will do.
LEMMA StepForIs ==
  ASSUME NEW to \in Nat, to >= ProtectedPrefix, NEW marks, NEW budget, NEW packFill
  PROVE  LET range == to - ProtectedPrefix
             will(s) == AtFloor(s, range)
                        /\ (s >= range \/ FitsGoal(s, to, marks, budget, packFill))
             step == StepFor(to, marks, budget, packFill)
         IN  /\ step \in Steps(range) /\ step \in Nat \ {0} /\ will(step)
             /\ \A s \in Steps(range) : will(s) => step <= s
<1> DEFINE range == to - ProtectedPrefix
           will(s) == AtFloor(s, range)
                      /\ (s >= range \/ FitsGoal(s, to, marks, budget, packFill))
           step == StepFor(to, marks, budget, packFill)
           T == {s \in Steps(range) : will(s)}
<1>1. step = Min(T)
  BY DEF StepFor
<1>2. range \in Nat
  BY GridAssumption
<1>3. T \subseteq Nat
  BY <1>2, StepsAre
<1>4. T # {}
  <2> HIDE DEF range
  <2>1. PICK s \in Steps(range) : s >= range
    BY <1>2, StepsAre
  <2>2. will(s)
    BY <2>1 DEF AtFloor
  <2> QED BY <2>1, <2>2
<1>5. Min(T) \in T /\ \A t \in T : Min(T) <= t
  <2> HIDE DEF T
  <2> QED BY <1>3, <1>4, MinIs
<1>6. Min(T) \in Steps(range) /\ will(Min(T)) /\ Min(T) \in Nat \ {0}
  <2> HIDE DEF will, range
  <2> QED BY <1>2, <1>5, StepsAre
<1> QED BY <1>1, <1>5, <1>6

-----------------------------------------------------------------------------
(* The images of a history.                                                 *)

LEMMA CutoffWithin == ASSUME Conversation PROVE Cutoff \in Int /\ Cutoff <= Len(messages)
<1> DEFINE raw == Len(messages) - KeepTail
           base == MinCollapsePrefix + ProtectedPrefix
           cut == (raw \div CollapseChunk) * CollapseChunk
<1>1. /\ Len(messages) \in Nat /\ ProtectedPrefix \in Nat /\ MinCollapsePrefix \in Nat
      /\ KeepTail \in Nat /\ CollapseChunk \in Nat \ {0}
  BY MessageAt, GridAssumption
<1>2. raw \in Int /\ raw <= Len(messages) /\ base \in Int
  BY <1>1
<1>3. cut \in Int
  <2> HIDE DEF raw
  <2>1. raw \div CollapseChunk \in Int
    BY <1>1, <1>2
  <2> QED BY <1>1, <2>1
<1>4. Cutoff = Min({raw, Max({base, cut})})
  BY DEF Cutoff
<1> HIDE DEF raw, base, cut
<1>5. PICK snapped : snapped = Max({base, cut})
  OBVIOUS
<1>6. snapped \in Int
  BY <1>2, <1>3, <1>5, MaxOfTwo
<1>7. Min({raw, snapped}) = IF raw <= snapped THEN raw ELSE snapped
  BY <1>2, <1>6, MaxOfTwo
<1>8. Cutoff = Min({raw, snapped})
  BY <1>4, <1>5
<1> QED BY <1>1, <1>2, <1>6, <1>7, <1>8

LEMMA ClosedWithin ==
  ASSUME Conversation, InTurn
  PROVE  ClosedPrefix(Cutoff) \in 0..Len(messages)
<1>1. Len(messages) \in Nat /\ Cutoff \in Int /\ Cutoff <= Len(messages)
  BY MessageAt, CutoffWithin
<1>2. CASE Cutoff <= 0
  BY <1>1, <1>2 DEF ClosedPrefix
<1>3. CASE Cutoff > 0
  <2>1. Cutoff \in 0..Len(messages)
    BY <1>1, <1>3
  <2>2. ClosedPrefix(Cutoff) \in 0..Cutoff
    BY <2>1, ClosedPrefixFinds
  <2> QED BY <1>1, <2>1, <2>2
<1> QED BY <1>1, <1>2, <1>3

\* What is left of a range that no grid can fit would fit as one chunk.
LEMMA TrimmedFits ==
  ASSUME Conversation, InTurn, NEW budget \in Budget,
         NEW closed \in 0..Len(messages), LongEnough(closed)
  PROVE  LET to == TrimmedLen(closed, budget)
         IN  /\ to \in 0..Len(messages)
             /\ to >= ProtectedPrefix =>
                  Chars(ProtectedPrefix, to) + Prompted(ProtectedPrefix, to) <= budget * PageChars
<1> DEFINE trimmed == TrimmedLen(closed, budget)
           size(n) == Chars(ProtectedPrefix, ProtectedPrefix + n)
                        + Prompted(ProtectedPrefix, ProtectedPrefix + n)
           T == {n \in 0..(closed - ProtectedPrefix) : size(n) <= budget * PageChars}
           k == Max(T)
<1>1. /\ Len(messages) \in Nat /\ ProtectedPrefix \in Nat /\ MinCollapsePrefix \in Nat
      /\ budget \in Nat /\ PageChars \in Nat
  BY MessageAt, GridAssumption
<1>2. closed - ProtectedPrefix \in Nat /\ closed \in Nat
  BY <1>1 DEF LongEnough
<1>3. trimmed = ClosedPrefix(ProtectedPrefix + k)
  BY DEF TrimmedLen
<1>4. budget * PageChars \in Nat
  BY <1>1
<1>5. size(0) = 0
  <2>1. ProtectedPrefix <= Len(messages) /\ ProtectedPrefix \in Int /\ ProtectedPrefix + 0 = ProtectedPrefix
    BY <1>1, <1>2
  <2>2. Chars(ProtectedPrefix, ProtectedPrefix) = 0 /\ Prompted(ProtectedPrefix, ProtectedPrefix) = 0
    BY <1>1, <2>1, CharsAre
  <2> QED BY <2>1, <2>2
<1> HIDE DEF size
<1>6. 0 \in T /\ T \subseteq Nat /\ \A t \in T : t <= closed - ProtectedPrefix
  BY <1>2, <1>4, <1>5
<1>7. k \in T
  <2> HIDE DEF T
  <2> QED BY <1>2, <1>6, MaxIs
<1> HIDE DEF k
<1>8. k \in 0..(closed - ProtectedPrefix) /\ size(k) <= budget * PageChars
  BY <1>7
<1> HIDE DEF T
<1>9. ProtectedPrefix + k \in 0..Len(messages) /\ k \in Nat
  BY <1>1, <1>2, <1>8
<1>10. trimmed \in 0..(ProtectedPrefix + k)
  BY <1>3, <1>9, ClosedPrefixFinds
<1> HIDE DEF trimmed
<1>11. trimmed \in 0..Len(messages) /\ trimmed \in Int /\ trimmed <= Len(messages)
  BY <1>1, <1>9, <1>10
<1>12. ASSUME trimmed >= ProtectedPrefix
       PROVE  Chars(ProtectedPrefix, trimmed) + Prompted(ProtectedPrefix, trimmed)
                <= budget * PageChars
  <2>1. ProtectedPrefix + k \in trimmed..Len(messages) /\ ProtectedPrefix \in 0..ProtectedPrefix
        /\ ProtectedPrefix + k \in Int /\ ProtectedPrefix + k <= Len(messages)
    BY <1>1, <1>9, <1>10
  <2>2. /\ Chars(ProtectedPrefix, trimmed) <= Chars(ProtectedPrefix, ProtectedPrefix + k)
        /\ Prompted(ProtectedPrefix, trimmed) <= Prompted(ProtectedPrefix, ProtectedPrefix + k)
        /\ Chars(ProtectedPrefix, trimmed) \in Nat /\ Prompted(ProtectedPrefix, trimmed) \in Nat
    BY <1>1, <1>11, <2>1, CharsAre
  <2>3. Chars(ProtectedPrefix, ProtectedPrefix + k) \in Nat
        /\ Prompted(ProtectedPrefix, ProtectedPrefix + k) \in Nat
    BY <1>1, <2>1, CharsAre
  <2> QED BY <1>4, <1>8, <2>2, <2>3 DEF size
<1> QED BY <1>11, <1>12 DEF trimmed

\* What is collapsed is there, and more than the protected messages.
LEMMA CollapseWithin ==
  ASSUME Conversation, InTurn, NEW budget \in Budget, CollapseLen(budget) # 0
  PROVE  LET to == CollapseLen(budget)
             closed == ClosedPrefix(Cutoff)
         IN  /\ to \in 0..Len(messages) /\ to > ProtectedPrefix
             /\ IF LongEnough(closed) /\ PackedPages(closed) > budget
                THEN to = TrimmedLen(closed, budget) ELSE to = closed /\ LongEnough(closed)
<1> DEFINE closed == ClosedPrefix(Cutoff)
           len == IF LongEnough(closed) /\ PackedPages(closed) > budget
                  THEN TrimmedLen(closed, budget) ELSE closed
           to == CollapseLen(budget)
<1>1. to = len /\ LongEnough(len)
  BY DEF CollapseLen
<1>2. ProtectedPrefix \in Nat /\ MinCollapsePrefix \in Nat \ {0} /\ Len(messages) \in Nat
  BY MessageAt, GridAssumption
<1>3. closed \in 0..Len(messages)
  BY ClosedWithin
<1> HIDE DEF closed
<1>4. len \in 0..Len(messages)
  BY <1>3, TrimmedFits
<1>5. len > ProtectedPrefix
  <2> HIDE DEF len
  <2> QED BY <1>1, <1>2, <1>4 DEF LongEnough
<1> QED BY <1>1, <1>4, <1>5 DEF closed

\* The history that is collapsed is no longer than the budget has room for, when no
\* prompt is rendered.
LEMMA CollapseFits ==
  ASSUME Conversation, InTurn, NEW budget \in Budget, CollapseLen(budget) # 0,
         Prompted(0, CollapseLen(budget)) = 0
  PROVE  LET to == CollapseLen(budget)
         IN  Pages(Chars(ProtectedPrefix, to)) + Pages(Prompted(ProtectedPrefix, to)) <= budget
<1> DEFINE closed == ClosedPrefix(Cutoff)
<1>1. PICK to : to = CollapseLen(budget)
  OBVIOUS
<1>2. /\ Len(messages) \in Nat /\ ProtectedPrefix \in Nat /\ budget \in Nat
      /\ closed \in 0..Len(messages)
  BY MessageAt, GridAssumption, ClosedWithin
<1>3. /\ to \in 0..Len(messages) /\ to > ProtectedPrefix
      /\ IF LongEnough(closed) /\ PackedPages(closed) > budget
         THEN to = TrimmedLen(closed, budget) ELSE to = closed /\ LongEnough(closed)
  BY <1>1, CollapseWithin
<1> HIDE DEF closed
<1>4. to \in Int /\ to <= Len(messages) /\ 0 \in 0..ProtectedPrefix /\ to \in to..Len(messages)
      /\ to >= ProtectedPrefix
  BY <1>2, <1>3
<1>5. Prompted(ProtectedPrefix, to) = 0 /\ Chars(ProtectedPrefix, to) \in Nat
  <2>1. Prompted(ProtectedPrefix, to) <= Prompted(0, to) /\ Prompted(ProtectedPrefix, to) \in Nat
        /\ Chars(ProtectedPrefix, to) \in Nat
    BY <1>2, <1>4, CharsAre
  <2> QED BY <1>1, <2>1
<1>6. Pages(Prompted(ProtectedPrefix, to)) = 0 /\ Pages(Chars(ProtectedPrefix, to)) \in Nat
  <2>1. 0 \in Nat
    OBVIOUS
  <2> QED BY <1>5, <2>1, PagesAre
<1>7. CASE LongEnough(closed) /\ PackedPages(closed) > budget
  <2>1. Chars(ProtectedPrefix, to) + Prompted(ProtectedPrefix, to) <= budget * PageChars
    BY <1>2, <1>3, <1>4, <1>7, TrimmedFits
  <2>2. Chars(ProtectedPrefix, to) <= budget * PageChars
    BY <1>5, <2>1
  <2>3. Pages(Chars(ProtectedPrefix, to)) <= budget
    BY <1>2, <1>5, <2>2, PagesWithin
  <2> QED BY <1>1, <1>2, <1>6, <2>3
<1>8. CASE ~(LongEnough(closed) /\ PackedPages(closed) > budget)
  <2>1. to = closed /\ ~(PackedPages(to) > budget)
    BY <1>3, <1>8
  <2>2. PackedPages(to) = Pages(Chars(ProtectedPrefix, to)) + Pages(Prompted(ProtectedPrefix, to))
    BY DEF PackedPages
  <2>3. PackedPages(to) \in Nat
    BY <1>6, <2>2
  <2> QED BY <1>1, <1>2, <2>1, <2>2, <2>3
<1> QED BY <1>7, <1>8

\* The images that a history becomes are within the budget of its request, whatever
\* grid the session is pinned to, for any conversation, when its caller marks nothing
\* and its user wrote no prompt that is rendered.
THEOREM ImagesKeepBudget == GridSpec => []ImagesWithinBudget
<1>1. TurnsInv => ImagesWithinBudget
  <2>1. SUFFICES ASSUME TurnsInv, NEW budget \in Budget, NEW packFill \in BOOLEAN,
                        CollapseLen(budget) # 0, Prompted(0, CollapseLen(budget)) = 0
                 PROVE  PagesFor(StepFor(CollapseLen(budget), {}, budget, packFill), CollapseLen(budget))
                          <= budget
    BY DEF ImagesWithinBudget
  <2> DEFINE to == CollapseLen(budget)
             step == StepFor(to, {}, budget, packFill)
             packed == Max({1, Pages(Chars(ProtectedPrefix, to))})
             goal == IF packFill THEN Min({budget, packed + 1}) ELSE budget
  <2>2. /\ to \in 0..Len(messages) /\ to > ProtectedPrefix
        /\ Pages(Chars(ProtectedPrefix, to)) + Pages(Prompted(ProtectedPrefix, to)) <= budget
    BY <2>1, CollapseFits, CollapseWithin DEF TurnsInv
  <2>3. Conversation /\ Len(messages) \in Nat /\ ProtectedPrefix \in Nat /\ budget \in Nat
    BY <2>1, MessageAt, GridAssumption DEF TurnsInv
  <2> HIDE DEF to
  <2>4. to \in Nat /\ to >= ProtectedPrefix /\ to \in Int /\ to <= Len(messages)
    BY <2>2, <2>3
  <2>5. step \in Nat \ {0}
        /\ (step >= to - ProtectedPrefix \/ FitsGoal(step, to, {}, budget, packFill))
    BY <2>4, StepForIs
  <2> HIDE DEF step
  <2>6. PagesFor(step, to) \in Nat
        /\ (step >= to - ProtectedPrefix =>
              PagesFor(step, to) = Pages(Chars(ProtectedPrefix, to)) + Pages(Prompted(ProtectedPrefix, to)))
    BY <2>2, <2>3, <2>5, PagesForAre
  <2>7. ASSUME FitsGoal(step, to, {}, budget, packFill) PROVE PagesFor(step, to) <= budget
    <3>1. PagesFor(step, to) + Cardinality({}) <= goal
      BY <2>7 DEF FitsGoal
    <3>2. Cardinality({}) = 0
      BY FS_EmptySet
    <3>3. packed \in Int
      <4>1. Pages(Chars(ProtectedPrefix, to)) \in Nat
        BY <2>3, <2>4, CharsAre, PagesAre
      <4>2. 1 \in Int /\ Pages(Chars(ProtectedPrefix, to)) \in Int
        BY <4>1
      <4> QED BY <4>2, MaxOfTwo
    <3> HIDE DEF packed
    <3>4. goal \in Int /\ goal <= budget
      <4>1. packed + 1 \in Int /\ budget \in Int
        BY <2>3, <3>3
      <4>2. Min({budget, packed + 1}) = IF budget <= packed + 1 THEN budget ELSE packed + 1
        BY <4>1, MaxOfTwo
      <4> QED BY <2>3, <4>1, <4>2
    <3> HIDE DEF goal
    <3> QED BY <2>3, <2>6, <3>1, <3>2, <3>4
  <2>8. PagesFor(step, to) <= budget
    BY <2>2, <2>5, <2>6, <2>7
  <2> QED BY <2>8 DEF to, step
<1> QED BY <1>1, TurnsInit, TurnsStep, PTL DEF GridSpec

-----------------------------------------------------------------------------
(* The chunks of a grid stay where they are.                                *)

\* How often the step was doubled does not depend on the range.
LEMMA DoublingsAgree ==
  ASSUME NEW range \in Nat, NEW other \in Nat, NEW k \in 0..range, k <= other
  PROVE  Doublings(range)[k] = Doublings(other)[k]
<1>1. k \in Nat /\ \A i \in 1..k : i \in 1..range /\ i \in 1..other /\ i \in 0..k
  OBVIOUS
<1> DEFINE T == {i \in 0..k : Doublings(range)[i] = Doublings(other)[i]}
<1>2. 0 \in T
  <2>1. Doublings(range)[0] = FreezeChunk
    BY DoublingsAre
  <2>2. Doublings(other)[0] = FreezeChunk
    BY DoublingsAre
  <2>3. 0 \in 0..k /\ Doublings(range)[0] = Doublings(other)[0]
    BY <2>1, <2>2
  <2> QED BY <2>3
<1>3. ASSUME NEW i \in 1..k, i - 1 \in T PROVE i \in T
  <2>1. Doublings(range)[i] = 2 * Doublings(range)[i - 1]
    BY <1>1, DoublingsAre
  <2>2. Doublings(other)[i] = 2 * Doublings(other)[i - 1]
    BY <1>1, DoublingsAre
  <2>3. Doublings(range)[i - 1] = Doublings(other)[i - 1] /\ i \in 0..k
    BY <1>1, <1>3
  <2> QED BY <2>1, <2>2, <2>3
<1> HIDE DEF T
<1>4. k \in T
  <2>1. k \in 0..k
    BY <1>1
  <2> QED BY <1>1, <1>2, <1>3, <2>1, Upwards
<1> QED BY <1>4 DEF T

\* A grid of one range is a grid of another that it does not exceed.
LEMMA StepsAreShared ==
  ASSUME NEW range \in Nat, NEW other \in Nat, NEW s \in Steps(range), s <= other
  PROVE  s \in Steps(other)
<1>1. PICK k \in 0..range : s = Doublings(range)[k]
  BY StepsAreDoublings
<1>2. s \in Nat /\ s > k /\ k \in Nat
  BY <1>1, DoublingsAre
<1>3. k <= other /\ k \in 0..other
  BY <1>2
<1>4. s = Doublings(other)[k]
  BY <1>1, <1>3, DoublingsAgree
<1> QED BY <1>3, <1>4, StepsAreDoublings

\* The render that was sent was made on a grid.
GridInv ==
  /\ TurnsInv
  /\ rendered \in [len : Nat, step : Nat, ends : SUBSET Int]
  /\ rendered = NoRender \/ \E range \in Nat : rendered.step \in Steps(range)

LEMMA GridInvInit == GridInit => GridInv
<1>1. SUFFICES ASSUME GridInit PROVE GridInv
  OBVIOUS
<1>2. rendered = NoRender
  BY <1>1 DEF GridInit
<1>3. NoRender \in [len : Nat, step : Nat, ends : SUBSET Int]
  BY DEF NoRender
<1> QED BY <1>1, <1>2, <1>3, TurnsInit DEF GridInv

\* What a collapse renders.
LEMMA CollapseRenders ==
  ASSUME TurnsInv, NEW budget \in Budget, NEW packFill, NEW marks, Collapse(budget, packFill, marks)
  PROVE  LET to == CollapseLen(budget)
             range == to - ProtectedPrefix
             step == StepFor(to, marks, budget, packFill)
             render == [len |-> to, step |-> step, ends |-> GridEnds(step, to) \cup marks \cup {to}]
         IN  /\ to \in Nat /\ range \in Nat \ {0} /\ ProtectedPrefix \in Nat
             /\ step \in Steps(range) /\ step \in Nat \ {0}
             /\ render \in [len : Nat, step : Nat, ends : SUBSET Int]
             /\ rendered' \in {render, rendered}
<1> DEFINE to == CollapseLen(budget)
           range == to - ProtectedPrefix
           step == StepFor(to, marks, budget, packFill)
           render == [len |-> to, step |-> step, ends |-> GridEnds(step, to) \cup marks \cup {to}]
<1>1. to # 0 /\ marks \subseteq (ProtectedPrefix + 1)..to /\ rendered' \in {render, rendered}
  BY DEF Collapse
<1>2. to \in 0..Len(messages) /\ to > ProtectedPrefix /\ Len(messages) \in Nat /\ ProtectedPrefix \in Nat
  BY <1>1, CollapseWithin, MessageAt, GridAssumption DEF TurnsInv
<1> HIDE DEF to
<1>3. to \in Nat /\ range \in Nat \ {0} /\ to >= ProtectedPrefix
  BY <1>2
<1>4. step \in Steps(range) /\ step \in Nat \ {0}
  BY <1>3, StepForIs
<1> HIDE DEF step
<1>5. GridEnds(step, to) \subseteq Int
  BY <1>2 DEF GridEnds
<1>6. GridEnds(step, to) \cup marks \cup {to} \subseteq Int
  <2>1. marks \subseteq Int
    BY <1>1, <1>2
  <2>2. {to} \subseteq Int
    BY <1>3
  <2> QED BY <1>5, <2>1, <2>2
<1>7. render \in [len : Nat, step : Nat, ends : SUBSET Int]
  BY <1>3, <1>4, <1>6
<1> HIDE DEF render
<1> QED BY <1>1, <1>2, <1>3, <1>4, <1>7 DEF render, step, to

LEMMA GridInvStep == GridInv /\ [GridNext]_gridVars => GridInv'
<1>1. SUFFICES ASSUME GridInv, [GridNext]_gridVars PROVE GridInv'
  OBVIOUS
<1>2. TurnsInv'
  BY <1>1, TurnsStep DEF GridInv
<1>3. CASE rendered' = rendered
  BY <1>1, <1>2, <1>3 DEF GridInv
<1>4. CASE Rewind
  <2>1. PICK n \in 0..(Len(messages) - 1) : rendered' = [rendered EXCEPT !.ends = {e \in @ : e <= n}]
    BY <1>4, Zenon DEF Rewind
  <2> DEFINE ends == {e \in rendered.ends : e <= n}
  <2>2. rendered' = [rendered EXCEPT !.ends = ends]
    BY <2>1
  <2>3. ends \subseteq Int /\ (rendered = NoRender => ends = {})
    BY <1>1 DEF GridInv, NoRender
  <2> HIDE DEF ends
  <2>4. rendered' \in [len : Nat, step : Nat, ends : SUBSET Int] /\ rendered'.step = rendered.step
    BY <1>1, <2>2, <2>3 DEF GridInv
  <2>5. ASSUME rendered = NoRender PROVE rendered' = NoRender
    <3>1. ends = {} /\ rendered.len = 0 /\ rendered.step = 0
      BY <2>3, <2>5 DEF NoRender
    <3>2. rendered'.len = 0 /\ rendered'.step = 0 /\ rendered'.ends = {}
      BY <1>1, <2>2, <3>1 DEF GridInv
    <3>3. rendered' = [len |-> rendered'.len, step |-> rendered'.step, ends |-> rendered'.ends]
      BY <2>4
    <3> QED BY <3>2, <3>3 DEF NoRender
  <2> QED BY <1>1, <1>2, <2>4, <2>5 DEF GridInv
<1>5. ASSUME NEW budget \in Budget, NEW packFill \in BOOLEAN, NEW marks \in Marks,
             Collapse(budget, packFill, marks)
      PROVE  GridInv'
  <2> DEFINE to == CollapseLen(budget)
             range == to - ProtectedPrefix
             step == StepFor(to, marks, budget, packFill)
             render == [len |-> to, step |-> step, ends |-> GridEnds(step, to) \cup marks \cup {to}]
  <2>1. /\ range \in Nat /\ step \in Steps(range)
        /\ render \in [len : Nat, step : Nat, ends : SUBSET Int]
        /\ rendered' \in {render, rendered}
    BY <1>1, <1>5, CollapseRenders DEF GridInv
  <2>2. render.step = step
    OBVIOUS
  <2>3. PICK s, r, any : s = step /\ r = range /\ any = render
    OBVIOUS
  <2> HIDE DEF range, step, render
  <2>4. CASE rendered' = rendered
    BY <1>3, <2>4
  <2>5. CASE rendered' = any
    <3>1. r \in Nat /\ any.step \in Steps(r) /\ any \in [len : Nat, step : Nat, ends : SUBSET Int]
      BY <2>1, <2>2, <2>3
    <3>2. rendered' \in [len : Nat, step : Nat, ends : SUBSET Int] /\ rendered'.step \in Steps(r)
      BY <2>5, <3>1
    <3> QED BY <1>2, <3>1, <3>2 DEF GridInv
  <2> QED BY <2>1, <2>3, <2>4, <2>5
<1>6. Say \/ SayAtLength \/ Call \/ Answer => rendered' = rendered
  BY DEF Say, SayAtLength, Call, Answer, Append1
<1>7. UNCHANGED gridVars => rendered' = rendered
  BY DEF gridVars
<1> QED BY <1>1, <1>3, <1>4, <1>5, <1>6, <1>7 DEF GridNext

\* What was sent was rendered on one of the grids that the code tries: the session is
\* never pinned to a step that doubling does not reach.
THEOREM RendersOnGrids == GridSpec => []GridInv
BY GridInvInit, GridInvStep, PTL DEF GridSpec

\* With room for it, the grid of the session is used again for any range that holds
\* one of its chunks.
LEMMA FloorIsKept ==
  ASSUME NEW to \in Nat, to >= ProtectedPrefix, floor \in Nat \ {0}, floor <= to - ProtectedPrefix,
         NEW range \in Nat, floor \in Steps(range), NEW marks, NEW budget,
         FitsGoal(floor, to, marks, budget, FALSE)
  PROVE  StepFor(to, marks, budget, FALSE) = floor
<1> DEFINE new == to - ProtectedPrefix
           will(s) == AtFloor(s, new) /\ (s >= new \/ FitsGoal(s, to, marks, budget, FALSE))
           step == StepFor(to, marks, budget, FALSE)
<1>1. new \in Nat /\ floor <= new
  BY GridAssumption
<1>2. /\ step \in Nat \ {0} /\ will(step)
      /\ \A s \in Steps(new) : will(s) => step <= s
  BY StepForIs
<1>3. will(floor)
  <2>1. AtFloor(floor, new)
    BY DEF AtFloor
  <2> HIDE DEF new
  <2> QED BY <2>1, Zenon
<1>4. step >= floor \/ step >= new
  BY <1>2 DEF AtFloor
<1> HIDE DEF will, step, new
<1>5. floor \in Steps(new)
  BY <1>1, StepsAreShared
<1>6. step <= floor
  BY <1>2, <1>3, <1>5
<1>7. step \in Nat
  BY <1>2
<1>8. step = floor
  BY <1>1, <1>4, <1>6, <1>7
<1> QED BY <1>8 DEF step

\* On a grid, two of its lines that follow each other bound a chunk, unless a mark
\* falls between them.
LEMMA GridHasChunk ==
  ASSUME ProtectedPrefix \in Nat, NEW to \in Nat, NEW step \in Nat \ {0}, NEW marks,
         NEW a \in Nat, a >= ProtectedPrefix, (a - ProtectedPrefix) % step = 0, a + step <= to,
         marks \cap (a + 1)..((a + step) - 1) = {},
         NEW r, r.ends = GridEnds(step, to) \cup marks \cup {to}
  PROVE  IsChunk(r, a, a + step)
<1>1. a \in r.ends \cup {ProtectedPrefix}
  <2>1. CASE a = ProtectedPrefix
    BY <2>1
  <2>2. CASE a # ProtectedPrefix
    <3>1. a \in (ProtectedPrefix + 1)..(to - 1)
      BY <2>2
    <3> QED BY <3>1 DEF GridEnds
  <2> QED BY <2>1, <2>2
<1>2. (a - ProtectedPrefix) \in Int /\ (a + step) - ProtectedPrefix = (a - ProtectedPrefix) + step
  OBVIOUS
<1>3. a + step \in r.ends
  <2>1. CASE a + step = to
    BY <2>1
  <2>2. CASE a + step # to
    <3>1. a + step \in (ProtectedPrefix + 1)..(to - 1)
      BY <2>2
    <3>2. ((a + step) - ProtectedPrefix) % step = 0
      BY <1>2, RestOfNext
    <3> QED BY <3>1, <3>2 DEF GridEnds
  <2> QED BY <2>1, <2>2
<1>4. ASSUME NEW e \in (a + 1)..((a + step) - 1) PROVE e \notin r.ends
  <2>1. e \in Int /\ e # to /\ e \notin marks
    BY <1>4
  <2>2. e - a \in 1..(step - 1) /\ e - ProtectedPrefix = (a - ProtectedPrefix) + (e - a)
    BY <2>1
  <2>3. ((a - ProtectedPrefix) + (e - a)) % step # 0
    BY <1>2, <2>2, NoRestBetween
  <2>4. e \notin GridEnds(step, to)
    BY <2>2, <2>3 DEF GridEnds
  <2> QED BY <2>1, <2>4
<1> QED BY <1>1, <1>3, <1>4 DEF IsChunk

WarmKeeps ==
  rendered' # rendered /\ rendered # NoRender /\ floor = rendered.step
     => \A budget \in Budget, marks \in Marks :
          /\ Collapse(budget, FALSE, marks)
          /\ FitsGoal(rendered.step, rendered'.len, marks, budget, FALSE)
          => \A a \in Frozen(rendered) :
               LET b == a + rendered.step
               IN  b <= rendered'.len /\ marks \cap (a + 1)..(b - 1) = {}
                   => IsChunk(rendered', a, b)

\* A complete chunk of the last render comes out again while the cache lives, for any
\* conversation and any grids.
THEOREM WarmChunksStay == GridSpec => WarmRenderKeepsChunks
<1>1. GridInv => [WarmKeeps]_gridVars
  <2>1. SUFFICES ASSUME GridInv, rendered' # rendered, rendered # NoRender, floor = rendered.step,
                        NEW budget \in Budget, NEW marks \in Marks,
                        Collapse(budget, FALSE, marks),
                        FitsGoal(rendered.step, rendered'.len, marks, budget, FALSE),
                        NEW a \in Frozen(rendered),
                        a + rendered.step <= rendered'.len,
                        marks \cap (a + 1)..((a + rendered.step) - 1) = {}
                 PROVE  IsChunk(rendered', a, a + rendered.step)
    BY DEF WarmKeeps
  <2> DEFINE to == CollapseLen(budget)
             step == StepFor(to, marks, budget, FALSE)
             render == [len |-> to, step |-> step, ends |-> GridEnds(step, to) \cup marks \cup {to}]
  <2>2. /\ to \in Nat /\ to - ProtectedPrefix \in Nat \ {0} /\ ProtectedPrefix \in Nat
        /\ rendered' = render
    BY <2>1, CollapseRenders DEF GridInv
  <2>3. rendered'.len = to /\ rendered'.ends = GridEnds(step, to) \cup marks \cup {to}
    BY <2>2
  <2> HIDE DEF render, to
  <2>4. PICK range \in Nat : floor \in Steps(range)
    BY <2>1 DEF GridInv
  <2>5. floor \in Nat \ {0}
    BY <2>4, StepsAre
  <2>6. a \in Nat /\ a >= ProtectedPrefix /\ (a - ProtectedPrefix) % floor = 0
    BY <2>1, <2>2, <2>5 DEF Frozen, GridInv
  <2>7. floor <= to - ProtectedPrefix /\ to >= ProtectedPrefix /\ a + floor <= to
    BY <2>1, <2>2, <2>3, <2>5, <2>6
  <2>8. FitsGoal(floor, to, marks, budget, FALSE)
    BY <2>1, <2>3
  <2>9. step = floor
    BY <2>2, <2>4, <2>5, <2>7, <2>8, FloorIsKept
  <2>10. rendered'.ends = GridEnds(floor, to) \cup marks \cup {to}
    BY <2>3, <2>9
  <2>11. marks \cap (a + 1)..((a + floor) - 1) = {}
    BY <2>1, Zenon
  <2>12. IsChunk(rendered', a, a + floor)
    BY <2>2, <2>5, <2>6, <2>7, <2>10, <2>11, GridHasChunk
  <2> QED BY <2>1, <2>12
<1>2. GridSpec => [][WarmKeeps]_gridVars
  BY <1>1, RendersOnGrids, PTL
<1> QED BY <1>2 DEF WarmKeeps, WarmRenderKeepsChunks
==============================================================================
