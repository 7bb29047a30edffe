----------------------- MODULE ContinuousMemoryProofs -----------------------
(***************************************************************************)
(* What holds of a memory's revisions for any workers, scopes and contents:  *)
(* no number is given twice, a history is whole until it is purged, and what *)
(* a caller was told is forgotten stays so.  The inductive invariant adds    *)
(* what a writer found when it looked: the revision before the one it        *)
(* writes is still there, unless it was purged.                             *)
(***************************************************************************)
EXTENDS ContinuousMemory, WellFoundedInduction, TLAPS

\* The revision of that number and state may follow what is stored.
Follows(s, version, state) ==
  \/ version = 1 /\ state = "active"
  \/ \E q \in Of(s) : q.version = version - 1 /\ (state = "tombstone" => q.state = "active")

\* A writer's version follows what it found, unless that was purged.
WritersFollow ==
  \A w \in Worker : At(w, "put") =>
    /\ calls[w].version # 0
    /\ calls[w].scope \in purged
       \/ Follows(calls[w].scope, calls[w].version, Written(calls[w], w).state)

\* Contents are stored by the calls that have some, and what a call has still to
\* delete is of its own scope.
CallsAreOwn ==
  \A w \in Worker :
    /\ At(w, "content") => calls[w].kind = "remember"
    /\ ~At(w, "idle") /\ calls[w].kind = "remember" => calls[w].payload \in Payload
    /\ ~At(w, "idle") => \A r \in calls[w].pending : r.scope = calls[w].scope

VersionsBounded == \A r \in revisions : r.version <= MaxVersion

IInv ==
  /\ TypeOK
  /\ CallsAreOwn
  /\ VersionsBounded
  /\ OneRevisionPerVersion
  /\ HistoryIsWhole
  /\ WritersFollow
  /\ ForgottenStaysForgotten

-----------------------------------------------------------------------------
(* Bounded sets of numbers have a largest one.                             *)

LEMMA LeastOf ==
  ASSUME NEW T, T \subseteq Nat, T # {}
  PROVE  \E m \in T : \A t \in T : m <= t
<1> DEFINE R == {p \in Nat \X Nat : p[1] < p[2]}
<1>1. OpToRel(<, Nat) = R
  BY DEF OpToRel
<1>2. IsWellFoundedOn(R, Nat)
  BY <1>1, NatLessThanWellFounded
<1>3. \A x, y \in Nat : <<y, x>> \notin R => x <= y
  OBVIOUS
<1> HIDE DEF R
<1>4. PICK m \in T : \A y \in T : ~ (<<y, m>> \in R)
  BY <1>2, WFMin
<1>5. \A t \in T : m <= t
  BY <1>3, <1>4
<1> QED BY <1>5

LEMMA LargestOf ==
  ASSUME NEW T, T \subseteq Nat, T # {}, NEW n \in Nat, \A t \in T : t <= n
  PROVE  \E m \in T : \A t \in T : t <= m
<1> DEFINE D == {d \in 0..n : n - d \in T}
<1>1. D \subseteq Nat
  OBVIOUS
<1>2. \A t \in T : t \in Nat /\ n - t \in 0..n /\ n - (n - t) = t
  OBVIOUS
<1>3. \A t \in T : n - t \in D
  BY <1>2
<1>4. D # {}
  BY <1>3
<1>5. \A d \in D : d \in Nat /\ n - d \in T
  OBVIOUS
<1> HIDE DEF D
<1>6. PICK d \in D : \A e \in D : d <= e
  BY <1>1, <1>4, LeastOf
<1>7. \A t \in T : d <= n - t
  BY <1>3, <1>6
<1>8. n - d \in T /\ \A t \in T : t <= n - d
  BY <1>2, <1>5, <1>7
<1> QED BY <1>8

LEMMA LargestVersion ==
  ASSUME NEW R, R \subseteq Revision, R # {}, \A r \in R : r.version <= MaxVersion,
         NEW l, l = CHOOSE x \in R : \A q \in R : q.version <= x.version
  PROVE  l \in R /\ \A q \in R : q.version <= l.version
<1> DEFINE T == {r.version : r \in R}
<1>1. \A r \in R : r.version \in Nat
  BY DEF Revision
<1>2. T \subseteq Nat /\ T # {} /\ \A t \in T : t <= MaxVersion
  BY <1>1
<1>3. MaxVersion \in Nat
  BY LongTermAssumption
<1>4. PICK m \in T : \A t \in T : t <= m
  <2> HIDE DEF T
  <2> QED BY <1>2, <1>3, LargestOf
<1>5. PICK r \in R : m = r.version
  OBVIOUS
<1>6. \A q \in R : q.version <= r.version
  BY <1>4, <1>5
<1> QED BY <1>6

\* A memory that has revisions has a latest one.
LEMMA LatestIsLargest ==
  ASSUME revisions \subseteq Revision, VersionsBounded, NEW s, Of(s) # {}
  PROVE  /\ Latest(s) \in Of(s)
         /\ \A q \in Of(s) : q.version <= Latest(s).version
<1>1. Latest(s) = CHOOSE x \in Of(s) : \A q \in Of(s) : q.version <= x.version
  BY DEF Latest
<1>2. Of(s) \subseteq Revision /\ \A r \in Of(s) : r.version <= MaxVersion
  BY DEF Of, VersionsBounded
<1> HIDE DEF Latest
<1> QED BY <1>1, <1>2, LargestVersion

\* What is not known has no revision, or a tombstone as its latest.
LEMMA KnownIsLatest ==
  ASSUME revisions \subseteq Revision, VersionsBounded, NEW s, Known(s)
  PROVE  Of(s) # {} /\ Latest(s) \in Of(s) /\ Latest(s).state = "active"
<1>1. Of(s) # {}
  BY DEF Known, Latest
<1> QED BY <1>1, LatestIsLargest DEF Known

-----------------------------------------------------------------------------
(* Types.                                                                  *)

LEMMA BusyCall ==
  ASSUME TypeOK, NEW w \in Worker, ~At(w, "idle")
  PROVE  calls[w] \in Call
BY DEF TypeOK, At, Idle

LEMMA TypeInit == Init => TypeOK
BY DEF Init, TypeOK

LEMMA CallStays ==
  ASSUME TypeOK, NEW w \in Worker, NEW c \in {Idle} \cup Call, calls' = [calls EXCEPT ![w] = c]
  PROVE  calls' \in [Worker -> {Idle} \cup Call]
BY DEF TypeOK

LEMMA GoType ==
  ASSUME TypeOK, NEW w \in Worker, ~At(w, "idle"), NEW p,
         p \in {"existing", "content", "previous", "put", "selected", "history", "list", "purge", "payloads"},
         Go(w, p)
  PROVE  calls' \in [Worker -> {Idle} \cup Call]
<1>1. calls[w] \in Call
  BY BusyCall
<1>2. [calls[w] EXCEPT !.at = p] \in Call
  BY <1>1 DEF Call
<1>3. calls' = [calls EXCEPT ![w] = [calls[w] EXCEPT !.at = p]]
  BY DEF Go
<1> QED BY <1>2, <1>3, CallStays

LEMMA LeaveType ==
  ASSUME TypeOK, NEW w \in Worker, Leave(w)
  PROVE  calls' \in [Worker -> {Idle} \cup Call]
BY CallStays DEF Leave

LEMMA ActionTypes ==
  ASSUME TypeOK, CallsAreOwn, VersionsBounded, NEW w \in Worker,
         At(w, "put") => calls[w].version # 0
  PROVE  /\ \A kind \in {"remember", "forget", "erase"}, s \in Scope, p \in Payload \cup {Gone} :
              Begin(w, kind, s, p) => TypeOK'
         /\ Stop(w) \/ LookExisting(w) \/ PutContent(w) => TypeOK'
         /\ LookPrevious(w) \/ PutRevision(w) \/ LookSelected(w) => TypeOK'
         /\ LookHistory(w) \/ ListRevisions(w) \/ DeleteRevision(w) => TypeOK'
         /\ EndPurge(w) \/ DeletePayload(w) \/ Erased(w) => TypeOK'
<1> DEFINE c == calls[w]
<1>0. ~At(w, "idle") => c \in Call
  BY BusyCall
<1>1. ASSUME NEW kind \in {"remember", "forget", "erase"}, NEW s \in Scope, NEW p \in Payload \cup {Gone},
             Begin(w, kind, s, p)
      PROVE  TypeOK'
  <2> DEFINE d == [at |-> "existing", kind |-> kind, scope |-> s, payload |-> p, mutation |-> "NOOP",
                   version |-> 0, pending |-> {}, doomed |-> {}, progress |-> FALSE]
  <2>1. 0 \in 0..MaxVersion
    BY LongTermAssumption
  <2>2. d \in Call
    BY <2>1 DEF Call
  <2>3. calls' = [calls EXCEPT ![w] = d]
    BY <1>1 DEF Begin
  <2>4. calls' \in [Worker -> {Idle} \cup Call]
    <3> HIDE DEF d
    <3> QED BY <2>2, <2>3, CallStays
  <2>5. UNCHANGED <<revisions, payloads, forgotten, purged>>
    BY <1>1 DEF Begin
  <2>6. raced' \in BOOLEAN
    BY <1>1, Zenon DEF Begin, TypeOK
  <2> QED BY <2>4, <2>5, <2>6 DEF TypeOK
<1>2. ASSUME Stop(w) PROVE TypeOK'
  BY <1>2, LeaveType DEF Stop, TypeOK
<1>3. ASSUME LookExisting(w) PROVE TypeOK'
  <2>1. c \in Call
    BY <1>3, <1>0 DEF LookExisting, At
  <2>2. [c EXCEPT !.at = "content", !.mutation = IF Known(c.scope) THEN "UPDATE" ELSE "ADD"] \in Call
    BY <2>1 DEF Call
  <2>3. [c EXCEPT !.at = "previous", !.mutation = "DELETE"] \in Call
    BY <2>1 DEF Call
  <2>4. [c EXCEPT !.at = "history"] \in Call
    BY <2>1 DEF Call
  <2>5. c.kind \in {"remember", "forget", "erase"}
    BY <2>1 DEF Call
  <2>6. Choose(c) \in Call
    <3>1. CASE c.kind = "remember"
      BY <3>1, <2>2 DEF Choose
    <3>2. CASE c.kind = "forget"
      BY <3>2, <2>3 DEF Choose
    <3>3. CASE c.kind = "erase"
      BY <3>3, <2>4 DEF Choose
    <3> QED BY <2>5, <3>1, <3>2, <3>3
  <2>7. calls' = [calls EXCEPT ![w] = IF NothingToDo(c) THEN Idle ELSE Choose(c)]
    BY <1>3 DEF LookExisting
  <2>8. calls' \in [Worker -> {Idle} \cup Call]
    <3> HIDE DEF c
    <3> QED BY <2>6, <2>7, CallStays
  <2> QED BY <1>3, <2>8 DEF LookExisting, TypeOK
<1>4. ASSUME PutContent(w) PROVE TypeOK'
  <2>1. c \in Call
    BY <1>4, <1>0 DEF PutContent, At
  <2>2. calls' \in [Worker -> {Idle} \cup Call]
    BY <1>4, GoType DEF PutContent, At
  <2>3. payloads' \subseteq Payload
    BY <1>4, <2>1 DEF PutContent, TypeOK, CallsAreOwn, At
  <2> QED BY <1>4, <2>2, <2>3 DEF PutContent, TypeOK
<1>5. ASSUME LookPrevious(w) PROVE TypeOK'
  <2> DEFINE next == Latest(c.scope).version + 1
             d == [c EXCEPT !.at = "put", !.version = next]
  <2>1. c \in Call
    BY <1>5, <1>0 DEF LookPrevious, At
  <2>2. next \in 0..MaxVersion
    <3>1. next <= MaxVersion
      BY <1>5 DEF LookPrevious
    <3>2. Latest(c.scope).version \in Nat
      <4>1. CASE Of(c.scope) = {}
        BY <4>1 DEF Latest
      <4>2. CASE Of(c.scope) # {}
        <5>1. Latest(c.scope) \in Of(c.scope)
          BY <4>2, LatestIsLargest DEF TypeOK
        <5>2. Latest(c.scope) \in Revision
          BY <5>1 DEF Of, TypeOK
        <5> QED BY <5>2 DEF Revision
      <4> QED BY <4>1, <4>2
    <3> QED BY <3>1, <3>2, LongTermAssumption
  <2>3. d \in Call
    <3> HIDE DEF next
    <3> QED BY <2>1, <2>2 DEF Call
  <2>4. calls' = [calls EXCEPT ![w] = IF Permitted(c.mutation, c.scope) THEN d ELSE Idle]
    BY <1>5 DEF LookPrevious
  <2>5. calls' \in [Worker -> {Idle} \cup Call]
    <3> HIDE DEF d
    <3> QED BY <2>3, <2>4, CallStays
  <2> QED BY <1>5, <2>5 DEF LookPrevious, TypeOK
<1>6. ASSUME PutRevision(w) PROVE TypeOK'
  <2> DEFINE r == Written(c, w)
  <2>1. c \in Call /\ c.version # 0
    BY <1>6, <1>0 DEF PutRevision, At
  <2>2. r \in Revision
    BY <2>1 DEF Written, RevisionFor, Revision, Call
  <2> HIDE DEF r
  <2>3. CASE Storable(r)
    <3>1. revisions' = revisions \cup {r} /\ Go(w, "selected")
      BY <1>6, <2>3 DEF PutRevision, r
    <3>2. calls' \in [Worker -> {Idle} \cup Call]
      BY <1>6, <3>1, GoType DEF PutRevision, At
    <3>3. forgotten' \subseteq Scope
      BY <1>6, <2>3 DEF PutRevision, TypeOK, r
    <3> QED BY <1>6, <2>2, <3>1, <3>2, <3>3 DEF PutRevision, TypeOK
  <2>4. CASE ~Storable(r)
    BY <1>6, <2>4, LeaveType DEF PutRevision, TypeOK, r
  <2> QED BY <2>3, <2>4
<1>7. ASSUME LookSelected(w) PROVE TypeOK'
  <2>1. c \in Call
    BY <1>7, <1>0 DEF LookSelected, At
  <2>2. forgotten' \subseteq Scope
    BY <1>7, <2>1 DEF LookSelected, TypeOK, Call
  <2> QED BY <1>7, <2>2, LeaveType DEF LookSelected, TypeOK
<1>8. ASSUME LookHistory(w) PROVE TypeOK'
  <2> DEFINE D == {r.payload : r \in History(calls[w].scope)} \ {Gone}
             d == [c EXCEPT !.at = "list", !.doomed = D]
  <2>1. c \in Call
    BY <1>8, <1>0 DEF LookHistory, At
  <2>2. D \subseteq Payload
    BY DEF TypeOK, History, Of, Revision
  <2>3. d \in Call
    <3> HIDE DEF D
    <3> QED BY <2>1, <2>2 DEF Call
  <2>4. calls' = [calls EXCEPT ![w] = d]
    BY <1>8 DEF LookHistory
  <2>5. calls' \in [Worker -> {Idle} \cup Call]
    <3> HIDE DEF d
    <3> QED BY <2>3, <2>4, CallStays
  <2> QED BY <1>8, <2>5 DEF LookHistory, TypeOK
<1>9. ASSUME ListRevisions(w) PROVE TypeOK'
  <2> DEFINE D == Doomed(c.scope)
             d == [c EXCEPT !.at = IF D = {} THEN "payloads" ELSE "purge", !.pending = D]
  <2>1. c \in Call
    BY <1>9, <1>0 DEF ListRevisions, At
  <2>2. D \subseteq Revision
    BY DEF TypeOK, Doomed, Of
  <2>3. d \in Call
    <3> HIDE DEF D
    <3> QED BY <2>1, <2>2 DEF Call
  <2>4. calls' = [calls EXCEPT ![w] = d]
    BY <1>9 DEF ListRevisions
  <2>5. calls' \in [Worker -> {Idle} \cup Call]
    <3> HIDE DEF d
    <3> QED BY <2>3, <2>4, CallStays
  <2> QED BY <1>9, <2>5 DEF ListRevisions, TypeOK
<1>10. ASSUME DeleteRevision(w) PROVE TypeOK'
  <2>1. c \in Call
    BY <1>10, <1>0 DEF DeleteRevision, At
  <2>2. PICK r \in c.pending :
          /\ revisions' = revisions \ {r}
          /\ purged' = purged \cup {c.scope}
          /\ calls' = [calls EXCEPT ![w] = [c EXCEPT !.pending = @ \ {r}, !.progress = @ \/ r \in revisions]]
    BY <1>10 DEF DeleteRevision
  <2>3. [c EXCEPT !.pending = @ \ {r}, !.progress = @ \/ r \in revisions] \in Call
    BY <2>1 DEF Call
  <2>4. calls' \in [Worker -> {Idle} \cup Call]
    BY <2>2, <2>3, CallStays
  <2>5. purged' \subseteq Scope
    BY <2>1, <2>2 DEF TypeOK, Call
  <2> QED BY <1>10, <2>2, <2>4, <2>5 DEF DeleteRevision, TypeOK
<1>11. ASSUME EndPurge(w) PROVE TypeOK'
  <2>1. calls' \in [Worker -> {Idle} \cup Call]
    BY <1>11, GoType, LeaveType DEF EndPurge, At
  <2> QED BY <1>11, <2>1 DEF EndPurge, TypeOK
<1>12. ASSUME DeletePayload(w) PROVE TypeOK'
  <2>1. c \in Call
    BY <1>12, <1>0 DEF DeletePayload, At
  <2>2. PICK p \in c.doomed :
          /\ payloads' = payloads \ {p}
          /\ calls' = [calls EXCEPT ![w] = [c EXCEPT !.doomed = @ \ {p}]]
    BY <1>12 DEF DeletePayload
  <2>3. [c EXCEPT !.doomed = @ \ {p}] \in Call
    BY <2>1 DEF Call
  <2>4. calls' \in [Worker -> {Idle} \cup Call]
    BY <2>2, <2>3, CallStays
  <2> QED BY <1>12, <2>2, <2>4 DEF DeletePayload, TypeOK
<1>13. ASSUME Erased(w) PROVE TypeOK'
  BY <1>13, LeaveType DEF Erased, TypeOK
<1> QED BY <1>1, <1>2, <1>3, <1>4, <1>5, <1>6, <1>7, <1>8, <1>9, <1>10, <1>11, <1>12, <1>13

-----------------------------------------------------------------------------
(* Calls keep to themselves, and to their text.                            *)

Others(w) == \A v \in Worker \ {w} : calls'[v] = calls[v]

\* The call is over, or goes on with its text to anything but storing it.
GoesOn(w) ==
  \/ calls'[w] = Idle
  \/ /\ ~At(w, "idle")
     /\ calls'[w].kind = calls[w].kind /\ calls'[w].payload = calls[w].payload
     /\ calls'[w].at # "content" /\ calls'[w].scope = calls[w].scope
     /\ calls'[w].pending \subseteq calls[w].pending \cup Of(calls[w].scope)

LEMMA SetType ==
  ASSUME TypeOK, NEW w \in Worker, NEW d, calls' = [calls EXCEPT ![w] = d]
  PROVE  Others(w) /\ calls'[w] = d
BY DEF TypeOK, Others

LEMMA TextGoesOn ==
  ASSUME CallsAreOwn, NEW w \in Worker, Others(w), GoesOn(w)
  PROVE  CallsAreOwn'
BY DEF CallsAreOwn, Others, GoesOn, At, Idle, Of

\* All actions but Begin and LookExisting.
LEMMA CallsGoOn ==
  ASSUME TypeOK, NEW w \in Worker,
         \/ Stop(w) \/ PutContent(w) \/ LookPrevious(w) \/ PutRevision(w) \/ LookSelected(w)
         \/ LookHistory(w) \/ ListRevisions(w) \/ DeleteRevision(w) \/ EndPurge(w)
         \/ DeletePayload(w) \/ Erased(w)
  PROVE  Others(w) /\ GoesOn(w)
<1> DEFINE c == calls[w]
<1>1. ~At(w, "idle") /\ c \in Call
  BY BusyCall DEF Stop, PutContent, LookPrevious, PutRevision, LookSelected, LookHistory,
     ListRevisions, DeleteRevision, EndPurge, DeletePayload, Erased, At
<1>2. ASSUME Leave(w) PROVE Others(w) /\ GoesOn(w)
  BY <1>2, SetType DEF Leave, GoesOn
<1>3. ASSUME NEW p, p # "content", Go(w, p) PROVE Others(w) /\ GoesOn(w)
  <2>1. calls' = [calls EXCEPT ![w] = [c EXCEPT !.at = p]]
    BY <1>3 DEF Go
  <2>2. Others(w) /\ calls'[w] = [c EXCEPT !.at = p]
    BY <2>1, SetType
  <2> QED BY <1>1, <1>3, <2>2 DEF GoesOn, Call
<1>4. CASE Stop(w) BY <1>2, <1>4 DEF Stop
<1>5. CASE PutContent(w) BY <1>3, <1>5 DEF PutContent
<1>6. CASE LookPrevious(w)
  <2> DEFINE d == [c EXCEPT !.at = "put", !.version = Latest(c.scope).version + 1]
  <2>1. calls' = [calls EXCEPT ![w] = IF Permitted(c.mutation, c.scope) THEN d ELSE Idle]
    BY <1>6 DEF LookPrevious
  <2>2. d.kind = c.kind /\ d.payload = c.payload /\ d.at # "content"
        /\ d.scope = c.scope /\ d.pending \subseteq c.pending \cup Of(c.scope)
    BY <1>1 DEF Call
  <2> HIDE DEF d
  <2>3. Others(w) /\ calls'[w] = IF Permitted(c.mutation, c.scope) THEN d ELSE Idle
    BY <2>1, SetType
  <2> QED BY <1>1, <2>2, <2>3 DEF GoesOn
<1>7. CASE PutRevision(w)
  <2>1. Go(w, "selected") \/ Leave(w)
    BY <1>7 DEF PutRevision
  <2> QED BY <1>2, <1>3, <2>1
<1>8. CASE LookSelected(w) BY <1>2, <1>8 DEF LookSelected
<1>9. CASE LookHistory(w)
  <2> DEFINE d == [c EXCEPT !.at = "list", !.doomed = {r.payload : r \in History(calls[w].scope)} \ {Gone}]
  <2>1. calls' = [calls EXCEPT ![w] = d]
    BY <1>9 DEF LookHistory
  <2>2. d.kind = c.kind /\ d.payload = c.payload /\ d.at # "content"
        /\ d.scope = c.scope /\ d.pending \subseteq c.pending \cup Of(c.scope)
    BY <1>1 DEF Call
  <2> HIDE DEF d
  <2> QED BY <1>1, <2>1, <2>2, SetType DEF GoesOn
<1>10. CASE ListRevisions(w)
  <2>0. Doomed(c.scope) = Of(c.scope)
    BY DEF Doomed
  <2> DEFINE d == [c EXCEPT !.at = IF Doomed(c.scope) = {} THEN "payloads" ELSE "purge",
                            !.pending = Doomed(c.scope)]
  <2>1. calls' = [calls EXCEPT ![w] = d]
    BY <1>10 DEF ListRevisions
  <2>2. d.kind = c.kind /\ d.payload = c.payload /\ d.at # "content"
        /\ d.scope = c.scope /\ d.pending \subseteq c.pending \cup Of(c.scope)
    BY <1>1, <2>0 DEF Call
  <2> HIDE DEF d
  <2> QED BY <1>1, <2>1, <2>2, SetType DEF GoesOn
<1>11. CASE DeleteRevision(w)
  <2>1. PICK r \in c.pending :
          calls' = [calls EXCEPT ![w] = [c EXCEPT !.pending = @ \ {r}, !.progress = @ \/ r \in revisions]]
    BY <1>11 DEF DeleteRevision
  <2> DEFINE d == [c EXCEPT !.pending = @ \ {r}, !.progress = @ \/ r \in revisions]
  <2>2. d.kind = c.kind /\ d.payload = c.payload /\ d.at # "content"
        /\ d.scope = c.scope /\ d.pending \subseteq c.pending \cup Of(c.scope)
    BY <1>1, <1>11 DEF Call, DeleteRevision, At
  <2> HIDE DEF d
  <2>3. calls' = [calls EXCEPT ![w] = d]
    BY <2>1 DEF d
  <2> QED BY <1>1, <2>2, <2>3, SetType DEF GoesOn
<1>12. CASE EndPurge(w)
  <2>1. Go(w, "payloads") \/ Leave(w)
    BY <1>12 DEF EndPurge
  <2> QED BY <1>2, <1>3, <2>1
<1>13. CASE DeletePayload(w)
  <2>1. PICK p \in c.doomed : calls' = [calls EXCEPT ![w] = [c EXCEPT !.doomed = @ \ {p}]]
    BY <1>13 DEF DeletePayload
  <2> DEFINE d == [c EXCEPT !.doomed = @ \ {p}]
  <2>2. d.kind = c.kind /\ d.payload = c.payload /\ d.at # "content"
        /\ d.scope = c.scope /\ d.pending \subseteq c.pending \cup Of(c.scope)
    BY <1>1, <1>13 DEF Call, DeletePayload, At
  <2> HIDE DEF d
  <2>3. calls' = [calls EXCEPT ![w] = d]
    BY <2>1 DEF d
  <2> QED BY <1>1, <2>2, <2>3, SetType DEF GoesOn
<1>14. CASE Erased(w) BY <1>2, <1>14 DEF Erased
<1> QED BY <1>4, <1>5, <1>6, <1>7, <1>8, <1>9, <1>10, <1>11, <1>12, <1>13, <1>14

\* Only LookPrevious brings a call to its write.
LEMMA NotPutting ==
  ASSUME TypeOK, NEW w \in Worker,
         \/ Stop(w) \/ PutContent(w) \/ LookHistory(w) \/ ListRevisions(w)
         \/ EndPurge(w) \/ DeletePayload(w) \/ Erased(w)
  PROVE  ~At(w, "put")'
<1> DEFINE c == calls[w]
<1>1. c \in Call
  BY BusyCall DEF Stop, PutContent, LookHistory, ListRevisions, EndPurge, DeletePayload, Erased, At
<1>2. ASSUME NEW d, calls' = [calls EXCEPT ![w] = d], d.at # "put" PROVE ~At(w, "put")'
  BY <1>2, SetType DEF At
<1>3. ASSUME Leave(w) PROVE ~At(w, "put")'
  <2>1. Idle.at # "put"
    BY DEF Idle
  <2> QED BY <1>2, <1>3, <2>1 DEF Leave
<1>4. ASSUME NEW p, p # "put", Go(w, p) PROVE ~At(w, "put")'
  <2>1. [c EXCEPT !.at = p].at = p
    BY <1>1 DEF Call
  <2>2. calls' = [calls EXCEPT ![w] = [c EXCEPT !.at = p]]
    BY <1>4 DEF Go
  <2> QED BY <1>2, <1>4, <2>1, <2>2
<1>5. CASE Stop(w) \/ Erased(w) BY <1>3, <1>5 DEF Stop, Erased
<1>6. CASE PutContent(w) BY <1>4, <1>6 DEF PutContent
<1>7. CASE EndPurge(w) BY <1>3, <1>4, <1>7 DEF EndPurge
<1>8. CASE LookHistory(w)
  <2> DEFINE d == [c EXCEPT !.at = "list", !.doomed = {r.payload : r \in History(calls[w].scope)} \ {Gone}]
  <2>1. d.at = "list"
    BY <1>1 DEF Call
  <2>2. calls' = [calls EXCEPT ![w] = d]
    BY <1>8 DEF LookHistory
  <2> HIDE DEF d
  <2> QED BY <1>2, <2>1, <2>2
<1>9. CASE ListRevisions(w)
  <2> DEFINE d == [c EXCEPT !.at = IF Doomed(c.scope) = {} THEN "payloads" ELSE "purge",
                            !.pending = Doomed(c.scope)]
  <2>1. d.at \in {"payloads", "purge"}
    BY <1>1 DEF Call
  <2>2. calls' = [calls EXCEPT ![w] = d]
    BY <1>9 DEF ListRevisions
  <2> HIDE DEF d
  <2> QED BY <1>2, <2>1, <2>2
<1>10. CASE DeletePayload(w)
  <2>1. PICK p \in c.doomed : calls' = [calls EXCEPT ![w] = [c EXCEPT !.doomed = @ \ {p}]]
    BY <1>10 DEF DeletePayload
  <2> DEFINE d == [c EXCEPT !.doomed = @ \ {p}]
  <2>2. d.at = "payloads"
    BY <1>1, <1>10 DEF Call, DeletePayload, At
  <2>3. calls' = [calls EXCEPT ![w] = d]
    BY <2>1
  <2> HIDE DEF d
  <2> QED BY <1>2, <2>2, <2>3
<1> QED BY <1>5, <1>6, <1>7, <1>8, <1>9, <1>10

LEMMA BeginText ==
  ASSUME TypeOK, CallsAreOwn, NEW w \in Worker, NEW kind \in {"remember", "forget", "erase"},
         NEW s \in Scope, NEW p, kind = "remember" => p \in Payload, Begin(w, kind, s, p)
  PROVE  CallsAreOwn' /\ Others(w) /\ ~At(w, "put")'
<1> DEFINE d == [at |-> "existing", kind |-> kind, scope |-> s, payload |-> p, mutation |-> "NOOP",
                 version |-> 0, pending |-> {}, doomed |-> {}, progress |-> FALSE]
<1>1. calls' = [calls EXCEPT ![w] = d]
  BY DEF Begin
<1>2. d.at = "existing" /\ d.kind = kind /\ d.payload = p /\ d.pending = {}
  OBVIOUS
<1> HIDE DEF d
<1>3. Others(w) /\ calls'[w] = d
  BY <1>1, SetType
<1> QED BY <1>2, <1>3 DEF CallsAreOwn, Others, At

LEMMA LookExistingText ==
  ASSUME TypeOK, CallsAreOwn, NEW w \in Worker, LookExisting(w)
  PROVE  CallsAreOwn' /\ Others(w) /\ ~At(w, "put")'
<1> DEFINE c == calls[w]
<1>1. ~At(w, "idle") /\ c \in Call
  BY BusyCall DEF LookExisting, At
<1>2. calls' = [calls EXCEPT ![w] = IF NothingToDo(c) THEN Idle ELSE Choose(c)]
  BY DEF LookExisting
<1>3. Others(w) /\ calls'[w] = IF NothingToDo(c) THEN Idle ELSE Choose(c)
  BY <1>2, SetType
<1>4. c.kind \in {"remember", "forget", "erase"}
  BY <1>1 DEF Call
<1>5. /\ Choose(c).kind = c.kind /\ Choose(c).payload = c.payload
      /\ Choose(c).scope = c.scope /\ Choose(c).pending = c.pending
      /\ Choose(c).at \in {"content", "previous", "history"}
      /\ Choose(c).at = "content" => c.kind = "remember"
  <2>1. CASE c.kind = "remember"
    <3> DEFINE m == IF Known(c.scope) THEN "UPDATE" ELSE "ADD"
    <3>1. Choose(c) = [c EXCEPT !.at = "content", !.mutation = m]
      BY <2>1 DEF Choose
    <3> HIDE DEF m
    <3> QED BY <1>1, <2>1, <3>1 DEF Call
  <2>2. CASE c.kind = "forget"
    <3>1. Choose(c) = [c EXCEPT !.at = "previous", !.mutation = "DELETE"]
      BY <2>2 DEF Choose
    <3> QED BY <1>1, <3>1 DEF Call
  <2>3. CASE c.kind = "erase"
    <3>1. Choose(c) = [c EXCEPT !.at = "history"]
      BY <2>3 DEF Choose
    <3> QED BY <1>1, <3>1 DEF Call
  <2> QED BY <1>4, <2>1, <2>2, <2>3
<1> HIDE DEF c
<1> QED BY <1>1, <1>3, <1>5 DEF CallsAreOwn, Others, At, Idle, c

-----------------------------------------------------------------------------
(* Revisions.                                                              *)

\* A step that leaves the revisions alone, and writes no version.
LEMMA QuietStep ==
  ASSUME IInv, NEW w \in Worker, Others(w), ~At(w, "put")', UNCHANGED <<revisions, purged>>,
         forgotten' \subseteq forgotten
  PROVE  /\ VersionsBounded' /\ OneRevisionPerVersion' /\ HistoryIsWhole'
         /\ WritersFollow' /\ ForgottenStaysForgotten'
<1>1. VersionsBounded' /\ OneRevisionPerVersion' /\ HistoryIsWhole'
  BY DEF IInv, VersionsBounded, OneRevisionPerVersion, HistoryIsWhole, Of
<1>2. ForgottenStaysForgotten'
  BY DEF IInv, ForgottenStaysForgotten, Known, Latest, Of
<1>3. WritersFollow'
  BY DEF IInv, WritersFollow, Others, At, Written, Follows, Of
<1> QED BY <1>1, <1>2, <1>3

LEMMA LookPreviousKeeps ==
  ASSUME IInv, NEW w \in Worker, LookPrevious(w)
  PROVE  /\ VersionsBounded' /\ OneRevisionPerVersion' /\ HistoryIsWhole'
         /\ WritersFollow' /\ ForgottenStaysForgotten'
<1> DEFINE c == calls[w]
           s == c.scope
           d == [c EXCEPT !.at = "put", !.version = Latest(s).version + 1]
<1>0. revisions \subseteq Revision /\ VersionsBounded /\ TypeOK
  BY DEF IInv, TypeOK
<1>1. c \in Call
  BY <1>0, BusyCall DEF LookPrevious, At
<1>2. UNCHANGED <<revisions, purged, forgotten>>
  BY DEF LookPrevious
<1>3. calls' = [calls EXCEPT ![w] = IF Permitted(c.mutation, s) THEN d ELSE Idle]
  BY DEF LookPrevious
<1>4. Others(w) /\ calls'[w] = IF Permitted(c.mutation, s) THEN d ELSE Idle
  <2> HIDE DEF d
  <2> QED BY <1>0, <1>3, SetType
<1>5. CASE ~Permitted(c.mutation, s)
  <2>1. ~At(w, "put")'
    BY <1>4, <1>5 DEF At, Idle
  <2> QED BY <1>2, <1>4, <2>1, QuietStep
<1>6. CASE Permitted(c.mutation, s)
  <2>1. calls'[w] = d
    BY <1>4, <1>6
  <2>2. d.scope = s /\ d.version = Latest(s).version + 1 /\ d.mutation = c.mutation
    BY <1>1 DEF Call
  <2>3. Written(d, w).state = IF c.mutation = "DELETE" THEN "tombstone" ELSE "active"
    BY <2>2 DEF Written, RevisionFor
  <2>4. d.version # 0 /\ Follows(s, d.version, Written(d, w).state)
    <3>1. CASE Of(s) = {}
      <4>1. Latest(s).version = 0 /\ ~Known(s)
        BY <3>1 DEF Latest, Known
      <4>2. c.mutation # "DELETE"
        BY <1>6, <4>1 DEF Permitted
      <4> QED BY <2>2, <2>3, <4>1, <4>2 DEF Follows
    <3>2. CASE Of(s) # {}
      <4>1. Latest(s) \in Of(s) /\ Latest(s).version \in Nat
        BY <1>0, <3>2, LatestIsLargest DEF Of, Revision
      <4>2. c.mutation = "DELETE" => Latest(s).state = "active"
        BY <1>6 DEF Permitted, Known
      <4> QED BY <2>2, <2>3, <4>1, <4>2 DEF Follows
    <3> QED BY <3>1, <3>2
  <2> HIDE DEF d
  <2>5. WritersFollow'
    <3> SUFFICES ASSUME NEW v \in Worker, At(v, "put")'
                 PROVE  /\ calls'[v].version # 0
                        /\ calls'[v].scope \in purged
                           \/ Follows(calls'[v].scope, calls'[v].version, Written(calls'[v], v).state)
      BY <1>2 DEF WritersFollow, Follows, Of, Written
    <3>1. CASE v = w
      BY <2>1, <2>2, <2>4, <3>1
    <3>2. CASE v # w
      BY <1>4, <3>2 DEF IInv, WritersFollow, Others, At
    <3> QED BY <3>1, <3>2
  <2>6. VersionsBounded' /\ OneRevisionPerVersion' /\ HistoryIsWhole'
    BY <1>2 DEF IInv, VersionsBounded, OneRevisionPerVersion, HistoryIsWhole, Of
  <2>7. ForgottenStaysForgotten'
    BY <1>2 DEF IInv, ForgottenStaysForgotten, Known, Latest, Of
  <2> QED BY <2>5, <2>6, <2>7
<1> QED BY <1>5, <1>6

LEMMA PutRevisionKeeps ==
  ASSUME IInv, TypeOK', NEW w \in Worker, PutRevision(w)
  PROVE  /\ VersionsBounded' /\ OneRevisionPerVersion' /\ HistoryIsWhole'
         /\ WritersFollow' /\ ForgottenStaysForgotten'
<1> DEFINE c == calls[w]
           r == Written(c, w)
<1>0. TypeOK /\ VersionsBounded /\ revisions \subseteq Revision /\ revisions' \subseteq Revision
  BY DEF IInv, TypeOK
<1>1. At(w, "put") /\ c \in Call /\ c.version # 0 /\ purged' = purged
  BY <1>0, BusyCall DEF PutRevision, At, IInv, WritersFollow
<1>2. Others(w) /\ ~At(w, "put")'
  <2>1. Others(w) /\ GoesOn(w)
    BY <1>0, CallsGoOn
  <2>2. calls' = [calls EXCEPT ![w] = [c EXCEPT !.at = "selected"]] \/ calls' = [calls EXCEPT ![w] = Idle]
    BY DEF PutRevision, Go, Leave
  <2>3. calls'[w] = [c EXCEPT !.at = "selected"] \/ calls'[w] = Idle
    BY <1>0, <2>2, SetType
  <2> QED BY <1>1, <2>1, <2>3 DEF At, Idle, Call
<1>3. forgotten' \subseteq forgotten
  BY DEF PutRevision
<1>4. CASE revisions' = revisions
  BY <1>1, <1>2, <1>3, <1>4, QuietStep
<1>5. CASE revisions' # revisions
  <2>1. Storable(r) /\ revisions' = revisions \cup {r} /\ r \notin revisions
    BY <1>5 DEF PutRevision
  <2>2. \A q \in Of(r.scope) : q.version # r.version
    BY <2>1 DEF Storable
  <2>3. /\ r.scope = c.scope /\ r.version = c.version
        /\ r.state = IF c.mutation = "DELETE" THEN "tombstone" ELSE "active"
    BY DEF Written, RevisionFor
  <2>4. r \in revisions'
    BY <2>1
  <2>5. forgotten' = IF c.mutation = "DELETE" THEN forgotten ELSE forgotten \ {c.scope}
    BY <2>1 DEF PutRevision
  <2>6. c.scope \in purged \/ Follows(c.scope, r.version, r.state)
    BY <1>1, <2>3 DEF IInv, WritersFollow
  <2> HIDE DEF r
  <2>7. VersionsBounded'
    BY <1>0, <1>1, <2>1, <2>3 DEF VersionsBounded, Call
  <2>8. OneRevisionPerVersion'
    BY <2>1, <2>2 DEF IInv, OneRevisionPerVersion, Of
  <2>9. \A s : Of(s) \subseteq Of(s)'
    BY <2>1 DEF Of
  <2>10. HistoryIsWhole'
    <3> SUFFICES ASSUME NEW x \in revisions', x.scope \notin purged
                 PROVE  \/ x.version = 1 /\ x.state = "active"
                        \/ \E q \in Of(x.scope)' : q.version = x.version - 1 /\ (x.state = "tombstone" => q.state = "active")
      BY <1>1 DEF HistoryIsWhole, Of
    <3>1. CASE x = r
      BY <2>3, <2>6, <2>9, <3>1 DEF Follows
    <3>2. CASE x \in revisions
      BY <2>9, <3>2 DEF IInv, HistoryIsWhole
    <3> QED BY <2>1, <3>1, <3>2
  <2>11. WritersFollow'
    <3> SUFFICES ASSUME NEW v \in Worker, NEW d, d = calls'[v], d.at = "put"
                 PROVE  /\ d.version # 0
                        /\ d.scope \in purged \/ Follows(d.scope, d.version, Written(d, v).state)'
      BY <1>1 DEF WritersFollow, At
    <3>1. v # w /\ d = calls[v] /\ At(v, "put")
      BY <1>2 DEF Others, At
    <3>2. /\ calls[v].version # 0
          /\ calls[v].scope \in purged
             \/ Follows(calls[v].scope, calls[v].version, Written(calls[v], v).state)
      BY <3>1 DEF IInv, WritersFollow
    <3>3. Follows(d.scope, d.version, Written(d, v).state) => Follows(d.scope, d.version, Written(d, v).state)'
      BY <2>9 DEF Follows, Written, RevisionFor
    <3> QED BY <3>1, <3>2, <3>3
  <2>12. ForgottenStaysForgotten'
    <3> SUFFICES ASSUME NEW s \in forgotten' \ purged, Known(s)' PROVE FALSE
      BY <1>1 DEF ForgottenStaysForgotten
    <3>1. s \in forgotten \ purged /\ ~Known(s)
      BY <1>3 DEF IInv, ForgottenStaysForgotten
    <3> DEFINE R == Of(s)'
               l == Latest(s)'
    <3>2. R # {} /\ l = CHOOSE x \in R : \A q \in R : q.version <= x.version
      BY DEF Known, Latest
    <3>3. R \subseteq Revision /\ \A q \in R : q.version <= MaxVersion
      BY <1>0, <2>7 DEF Of, VersionsBounded
    <3>4. l.state = "active"
      BY DEF Known
    <3>5. l \in R /\ \A q \in R : q.version <= l.version
      <4> HIDE DEF R, l
      <4> QED BY <3>2, <3>3, LargestVersion
    <3>6. l # r
      <4>1. CASE s = c.scope
        BY <2>3, <2>5, <3>4, <4>1
      <4>2. CASE s # c.scope
        BY <2>3, <3>5, <4>2 DEF Of
      <4> QED BY <4>1, <4>2
    <3> HIDE DEF l
    <3>7. l \in Of(s)
      BY <2>1, <3>5, <3>6 DEF Of
    <3>8. Latest(s) \in Of(s) /\ l.version <= Latest(s).version
      BY <1>0, <3>7, LatestIsLargest
    <3>9. Latest(s).version <= l.version
      BY <2>9, <3>5, <3>8
    <3>10. l.version = Latest(s).version
      BY <1>0, <3>7, <3>8, <3>9 DEF Of, Revision
    <3>11. l = Latest(s)
      BY <3>7, <3>8, <3>10 DEF IInv, OneRevisionPerVersion, Of
    <3> QED BY <3>1, <3>4, <3>11 DEF Known
  <2> QED BY <2>7, <2>8, <2>10, <2>11, <2>12
<1> QED BY <1>4, <1>5

LEMMA LookSelectedKeeps ==
  ASSUME IInv, NEW w \in Worker, LookSelected(w)
  PROVE  /\ VersionsBounded' /\ OneRevisionPerVersion' /\ HistoryIsWhole'
         /\ WritersFollow' /\ ForgottenStaysForgotten'
<1> DEFINE c == calls[w]
<1>1. UNCHANGED <<revisions, purged>>
  BY DEF LookSelected
<1>2. Others(w) /\ ~At(w, "put")'
  <2>1. calls' = [calls EXCEPT ![w] = Idle]
    BY DEF LookSelected, Leave
  <2>2. Others(w) /\ calls'[w] = Idle
    BY <2>1, SetType DEF IInv
  <2>3. Idle.at # "put"
    BY DEF Idle
  <2> QED BY <2>2, <2>3 DEF At
<1>3. VersionsBounded' /\ OneRevisionPerVersion' /\ HistoryIsWhole'
  BY <1>1 DEF IInv, VersionsBounded, OneRevisionPerVersion, HistoryIsWhole, Of
<1>4. WritersFollow'
  BY <1>1, <1>2 DEF IInv, WritersFollow, Others, At, Written, Follows, Of
<1>5. ASSUME NEW s \in forgotten' \ purged PROVE ~Known(s)
  <2>1. CASE s \in forgotten
    BY <1>5, <2>1 DEF IInv, ForgottenStaysForgotten
  <2>2. CASE s \notin forgotten
    <3>1. s = c.scope /\ c.mutation = "DELETE" /\ Selected(Written(c, w))
      BY <1>5, <2>2 DEF LookSelected
    <3>2. Written(c, w).state = "tombstone" /\ Written(c, w).scope = s
      BY <3>1 DEF Written, RevisionFor
    <3> QED BY <3>1, <3>2 DEF Selected, Known
  <2> QED BY <2>1, <2>2
<1>6. ForgottenStaysForgotten'
  BY <1>1, <1>5 DEF ForgottenStaysForgotten, Known, Latest, Of
<1> QED BY <1>3, <1>4, <1>6

LEMMA DeleteRevisionKeeps ==
  ASSUME IInv, NEW w \in Worker, DeleteRevision(w)
  PROVE  /\ VersionsBounded' /\ OneRevisionPerVersion' /\ HistoryIsWhole'
         /\ WritersFollow' /\ ForgottenStaysForgotten'
<1> DEFINE c == calls[w]
<1>0. TypeOK /\ c \in Call
  BY BusyCall DEF DeleteRevision, At, IInv
<1>1. PICK r \in c.pending : revisions' = revisions \ {r}
  BY DEF DeleteRevision
<1>2. purged' = purged \cup {c.scope} /\ forgotten' = forgotten
  BY DEF DeleteRevision
<1>3. Others(w) /\ GoesOn(w)
  BY <1>0, CallsGoOn
<1>4. ~At(w, "put")'
  <2>1. PICK q \in c.pending :
          calls' = [calls EXCEPT ![w] = [c EXCEPT !.pending = @ \ {q}, !.progress = @ \/ q \in revisions]]
    BY DEF DeleteRevision
  <2> DEFINE d == [c EXCEPT !.pending = @ \ {q}, !.progress = @ \/ q \in revisions]
  <2>2. d.at = "purge"
    BY <1>0 DEF Call, DeleteRevision, At
  <2> HIDE DEF d
  <2>3. calls'[w] = d
    BY <1>0, <2>1, SetType DEF d
  <2> QED BY <2>2, <2>3 DEF At
<1>5. r.scope = c.scope
  BY <1>1 DEF IInv, CallsAreOwn, DeleteRevision, At
<1>6. \A s : s # c.scope => Of(s)' = Of(s)
  BY <1>1, <1>5 DEF Of
<1>7. VersionsBounded' /\ OneRevisionPerVersion'
  BY <1>1 DEF IInv, VersionsBounded, OneRevisionPerVersion
<1>8. HistoryIsWhole'
  <2> SUFFICES ASSUME NEW x \in revisions', x.scope \notin purged'
               PROVE  \/ x.version = 1 /\ x.state = "active"
                      \/ \E q \in Of(x.scope)' : q.version = x.version - 1 /\ (x.state = "tombstone" => q.state = "active")
    BY DEF HistoryIsWhole
  <2>1. x \in revisions /\ x.scope \notin purged /\ x.scope # c.scope
    BY <1>1, <1>2
  <2> QED BY <1>6, <2>1 DEF IInv, HistoryIsWhole
<1>9. WritersFollow'
  <2> SUFFICES ASSUME NEW v \in Worker, NEW d, d = calls'[v], d.at = "put"
               PROVE  /\ d.version # 0
                      /\ d.scope \in purged' \/ Follows(d.scope, d.version, Written(d, v).state)'
    BY DEF WritersFollow, At
  <2>1. v # w /\ d = calls[v] /\ At(v, "put")
    BY <1>3, <1>4 DEF Others, At
  <2>2. /\ calls[v].version # 0
        /\ calls[v].scope \in purged
           \/ Follows(calls[v].scope, calls[v].version, Written(calls[v], v).state)
    BY <2>1 DEF IInv, WritersFollow
  <2>3. CASE calls[v].scope = c.scope
    BY <1>2, <2>1, <2>2, <2>3
  <2>4. CASE calls[v].scope # c.scope
    <3>1. Follows(d.scope, d.version, Written(d, v).state) => Follows(d.scope, d.version, Written(d, v).state)'
      BY <1>6, <2>1, <2>4 DEF Follows, Written, RevisionFor
    <3> QED BY <1>2, <2>1, <2>2, <3>1
  <2> QED BY <2>3, <2>4
<1>10. ForgottenStaysForgotten'
  <2> SUFFICES ASSUME NEW s \in forgotten' \ purged' PROVE ~Known(s)'
    BY DEF ForgottenStaysForgotten
  <2>1. s \in forgotten \ purged /\ Of(s)' = Of(s)
    BY <1>2, <1>6
  <2> QED BY <2>1 DEF IInv, ForgottenStaysForgotten, Known, Latest
<1> QED BY <1>7, <1>8, <1>9, <1>10

-----------------------------------------------------------------------------
(* The invariant is inductive.                                             *)

LEMMA InvInit == Init => IInv
<1> SUFFICES ASSUME Init PROVE IInv
  OBVIOUS
<1>1. revisions = {} /\ forgotten = {} /\ \A w \in Worker : calls[w] = Idle
  BY DEF Init
<1>2. CallsAreOwn /\ WritersFollow
  BY <1>1 DEF CallsAreOwn, WritersFollow, At, Idle
<1>3. VersionsBounded /\ OneRevisionPerVersion /\ HistoryIsWhole /\ ForgottenStaysForgotten
  BY <1>1 DEF VersionsBounded, OneRevisionPerVersion, HistoryIsWhole, ForgottenStaysForgotten
<1> QED BY <1>2, <1>3, TypeInit DEF IInv

LEMMA InvNext == IInv /\ [Next]_vars => IInv'
<1> SUFFICES ASSUME IInv, [Next]_vars PROVE IInv'
  OBVIOUS
<1>1. TypeOK /\ CallsAreOwn /\ VersionsBounded /\ \A w \in Worker : At(w, "put") => calls[w].version # 0
  BY DEF IInv, WritersFollow
<1>2. CASE UNCHANGED vars
  <2>1. TypeOK' /\ CallsAreOwn'
    BY <1>1, <1>2 DEF vars, TypeOK, CallsAreOwn, At
  <2>2. VersionsBounded' /\ OneRevisionPerVersion' /\ HistoryIsWhole' /\ WritersFollow' /\ ForgottenStaysForgotten'
    BY <1>2 DEF vars, IInv, VersionsBounded, OneRevisionPerVersion, HistoryIsWhole, WritersFollow,
       ForgottenStaysForgotten, At, Of, Written, Follows, Known, Latest
  <2> QED BY <2>1, <2>2 DEF IInv
<1>3. ASSUME NEW w \in Worker, NEW kind \in {"remember", "forget", "erase"}, NEW s \in Scope,
             NEW p \in Payload \cup {Gone}, kind = "remember" => p \in Payload, Begin(w, kind, s, p)
      PROVE  IInv'
  <2>1. TypeOK'
    BY <1>1, <1>3, ActionTypes
  <2>2. CallsAreOwn' /\ Others(w) /\ ~At(w, "put")'
    BY <1>1, <1>3, BeginText
  <2> QED BY <1>3, <2>1, <2>2, QuietStep DEF Begin, IInv
<1>4. ASSUME NEW w \in Worker, Remember(w) \/ Forget(w) \/ Erase(w) PROVE IInv'
  BY <1>3, <1>4 DEF Remember, Forget, Erase
<1>5. ASSUME NEW w \in Worker, LookExisting(w) PROVE IInv'
  <2>1. TypeOK'
    BY <1>1, <1>5, ActionTypes
  <2>2. CallsAreOwn' /\ Others(w) /\ ~At(w, "put")'
    BY <1>1, <1>5, LookExistingText
  <2> QED BY <1>5, <2>1, <2>2, QuietStep DEF LookExisting, IInv
<1>6. ASSUME NEW w \in Worker, LookPrevious(w) PROVE IInv'
  <2>1. TypeOK' /\ CallsAreOwn'
    BY <1>1, <1>6, ActionTypes, CallsGoOn, TextGoesOn
  <2> QED BY <1>6, <2>1, LookPreviousKeeps DEF IInv
<1>7. ASSUME NEW w \in Worker, PutRevision(w) PROVE IInv'
  <2>1. TypeOK' /\ CallsAreOwn'
    BY <1>1, <1>7, ActionTypes, CallsGoOn, TextGoesOn
  <2> QED BY <1>7, <2>1, PutRevisionKeeps DEF IInv
<1>8. ASSUME NEW w \in Worker, LookSelected(w) PROVE IInv'
  <2>1. TypeOK' /\ CallsAreOwn'
    BY <1>1, <1>8, ActionTypes, CallsGoOn, TextGoesOn
  <2> QED BY <1>8, <2>1, LookSelectedKeeps DEF IInv
<1>9. ASSUME NEW w \in Worker, DeleteRevision(w) PROVE IInv'
  <2>1. TypeOK' /\ CallsAreOwn'
    BY <1>1, <1>9, ActionTypes, CallsGoOn, TextGoesOn
  <2> QED BY <1>9, <2>1, DeleteRevisionKeeps DEF IInv
<1>10. ASSUME NEW w \in Worker,
              \/ Stop(w) \/ PutContent(w) \/ LookHistory(w) \/ ListRevisions(w)
              \/ EndPurge(w) \/ DeletePayload(w) \/ Erased(w)
       PROVE  IInv'
  <2>1. TypeOK'
    BY <1>1, <1>10, ActionTypes
  <2>2. Others(w) /\ GoesOn(w)
    BY <1>1, <1>10, CallsGoOn
  <2>3. CallsAreOwn'
    BY <1>1, <2>2, TextGoesOn
  <2>4. ~At(w, "put")'
    BY <1>10, <1>1, NotPutting
  <2>5. UNCHANGED <<revisions, purged, forgotten>>
    BY <1>10 DEF Stop, PutContent, LookHistory, ListRevisions, EndPurge, DeletePayload, Erased
  <2> QED BY <2>1, <2>2, <2>3, <2>4, <2>5, QuietStep DEF IInv
<1> QED BY <1>2, <1>4, <1>5, <1>6, <1>7, <1>8, <1>9, <1>10 DEF Next

THEOREM MemoryInvHolds == Spec => []IInv
BY InvInit, InvNext, PTL DEF Spec

\* The types of the memory, for any workers, scopes, contents and limits.
THEOREM TypeCorrect == Spec => []TypeOK
<1>1. IInv => TypeOK
  BY DEF IInv
<1> QED BY <1>1, MemoryInvHolds, PTL

\* No number is given to two revisions of a memory, whatever writes and erasures
\* of it overlap or stop half way.
THEOREM VersionsAreUnique == Spec => []OneRevisionPerVersion
<1>1. IInv => OneRevisionPerVersion
  BY DEF IInv
<1> QED BY <1>1, MemoryInvHolds, PTL

\* The history of a memory that was never purged has no gap, and only what was
\* known was forgotten.
THEOREM HistoriesAreWhole == Spec => []HistoryIsWhole
<1>1. IInv => HistoryIsWhole
  BY DEF IInv
<1> QED BY <1>1, MemoryInvHolds, PTL

\* A memory that a caller was told is forgotten stays so until it is remembered
\* anew or purged.
THEOREM ForgottenHolds == Spec => []ForgottenStaysForgotten
<1>1. IInv => ForgottenStaysForgotten
  BY DEF IInv
<1> QED BY <1>1, MemoryInvHolds, PTL

-----------------------------------------------------------------------------
(* Erasures that run alone, and the contents of what is known.              *)

\* What a call does is of its kind.
Place(d) ==
  /\ d.at \in {"history", "list", "purge", "payloads"} => d.kind = "erase"
  /\ d.at \in {"content", "previous", "put", "selected"} =>
       d.kind # "erase" /\ (d.mutation = "DELETE" <=> d.kind = "forget")

Erasing(w) == ~At(w, "idle") /\ calls[w].kind = "erase"

\* An erasure that runs alone has what it found before it, and nothing behind it.
Whole(d) ==
  /\ d.at \in {"history", "list"} => Of(d.scope) # {}
  /\ d.at = "purge" => Of(d.scope) \subseteq d.pending /\ (d.pending = {} => d.scope \in purged)
  /\ d.at = "payloads" => Of(d.scope) = {} /\ d.scope \in purged

\* No other memory, which might share a text with this one, was erased.
Spared(s) == purged \subseteq {s}

\* Its content is stored before the revision is written.
Provided(d) ==
  d.at \in {"previous", "put"} /\ d.kind = "remember" /\ Spared(d.scope) => d.payload \in payloads

Alone == \A v, w \in Worker : Erasing(v) /\ ~At(w, "idle") => v = w

ErasureInv ==
  /\ \A w \in Worker : Place(calls[w])
  /\ ~raced => Alone /\ \A w \in Worker : Whole(calls[w])

ContentInv ==
  ~raced =>
    /\ \A r \in revisions : r.state = "active" /\ Spared(r.scope) => r.payload \in payloads
    /\ \A w \in Worker : Provided(calls[w])

AloneInv == IInv /\ ErasureInv /\ ContentInv

LEMMA IdleCall ==
  ASSUME NEW d, d.at = "idle"
  PROVE  /\ Place(d) /\ Whole(d) /\ Whole(d)' /\ Provided(d) /\ Provided(d)'
BY DEF Place, Whole, Provided

LEMMA LeftCall ==
  ASSUME TypeOK, NEW w \in Worker, Leave(w)
  PROVE  Others(w) /\ calls'[w].at = "idle"
<1>1. calls' = [calls EXCEPT ![w] = Idle]
  BY DEF Leave
<1>2. Others(w) /\ calls'[w] = Idle
  BY <1>1, SetType, Zenon
<1> QED BY <1>2 DEF Idle

LEMMA GoneCall ==
  ASSUME TypeOK, NEW w \in Worker, ~At(w, "idle"), NEW place, Go(w, place)
  PROVE  /\ Others(w) /\ calls'[w].at = place
         /\ calls'[w].kind = calls[w].kind /\ calls'[w].scope = calls[w].scope
         /\ calls'[w].payload = calls[w].payload /\ calls'[w].mutation = calls[w].mutation
<1> DEFINE c == calls[w]
           d == [c EXCEPT !.at = place]
<1>1. calls' = [calls EXCEPT ![w] = d]
  BY DEF Go
<1>2. c \in Call
  BY BusyCall
<1>3. /\ d.at = place /\ d.kind = c.kind /\ d.scope = c.scope
      /\ d.payload = c.payload /\ d.mutation = c.mutation
  BY <1>2 DEF Call
<1> HIDE DEF d
<1>4. Others(w) /\ calls'[w] = d
  BY <1>1, SetType
<1> QED BY <1>3, <1>4

\* Another's step takes nothing from an erasure that runs alone.
LEMMA ErasureStep ==
  ASSUME ErasureInv, NEW w \in Worker, ~At(w, "idle"), Others(w), raced' = raced,
         \/ calls'[w].at = "idle"
         \/ /\ calls'[w].kind = calls[w].kind /\ Place(calls[w])'
            /\ ~raced => Whole(calls[w])'
  PROVE  ErasureInv'
<1>1. \A v \in Worker : v # w => calls'[v] = calls[v]
  BY DEF Others
<1>2. ASSUME NEW v \in Worker PROVE Place(calls[v])'
  <2>1. CASE v # w
    BY <1>1, <2>1 DEF ErasureInv, Place
  <2>2. CASE v = w
    BY <2>2, IdleCall DEF Place
  <2> QED BY <2>1, <2>2
<1>3. ASSUME ~raced PROVE Alone'
  <2>1. Alone
    BY <1>3 DEF ErasureInv
  <2>2. \A v \in Worker : (~At(v, "idle"))' => ~At(v, "idle")
    BY <1>1 DEF At
  <2>3. \A v \in Worker : Erasing(v)' => Erasing(v)
    BY <1>1, <2>2 DEF Erasing, At
  <2> QED BY <2>1, <2>2, <2>3 DEF Alone
<1>4. ASSUME ~raced, NEW v \in Worker PROVE Whole(calls[v])'
  <2>1. CASE v # w
    <3>1. ~Erasing(v) /\ Place(calls[v]) /\ calls'[v] = calls[v]
      BY <1>1, <1>4, <2>1 DEF ErasureInv, Alone
    <3>2. calls'[v].at \notin {"history", "list", "purge", "payloads"}
      BY <3>1 DEF Erasing, Place, At
    <3> QED BY <3>2 DEF Whole
  <2>2. CASE v = w
    BY <1>4, <2>2 DEF Whole
  <2> QED BY <2>1, <2>2
<1> QED BY <1>2, <1>3, <1>4 DEF ErasureInv

\* A step that deletes no content.
LEMMA ContentStep ==
  ASSUME ContentInv, NEW w \in Worker, Others(w), raced => raced',
         payloads \subseteq payloads', purged \subseteq purged',
         ~raced' => \A r \in revisions' \ revisions :
                      r.state = "active" /\ Spared(r.scope) => r.payload \in payloads',
         ~raced' => Provided(calls[w])'
  PROVE  ContentInv'
<1> SUFFICES ASSUME ~raced' PROVE ContentInv'
  BY DEF ContentInv
<1>1. \A s : Spared(s)' => Spared(s)
  BY DEF Spared
<1>2. \A r \in revisions' : r.state = "active" /\ Spared(r.scope)' => r.payload \in payloads'
  BY <1>1 DEF ContentInv
<1>3. ASSUME NEW v \in Worker, v # w PROVE Provided(calls[v])'
  <2>1. calls'[v] = calls[v] /\ Provided(calls[v])
    BY <1>3 DEF Others, ContentInv
  <2> QED BY <1>1, <2>1 DEF Provided
<1> QED BY <1>2, <1>3 DEF ContentInv

LEMMA BeginAlone ==
  ASSUME AloneInv, NEW w \in Worker, NEW kind \in {"remember", "forget", "erase"},
         NEW s \in Scope, NEW p \in Payload \cup {Gone}, Begin(w, kind, s, p)
  PROVE  ErasureInv' /\ ContentInv'
<1> DEFINE d == [at |-> "existing", kind |-> kind, scope |-> s, payload |-> p, mutation |-> "NOOP",
                 version |-> 0, pending |-> {}, doomed |-> {}, progress |-> FALSE]
<1>1. /\ calls' = [calls EXCEPT ![w] = d] /\ At(w, "idle") /\ TypeOK
      /\ raced' = (raced \/ \E v \in Worker \ {w} : ~At(v, "idle") /\ "erase" \in {kind, calls[v].kind})
      /\ revisions' = revisions /\ payloads' = payloads /\ purged' = purged
  BY DEF Begin, AloneInv, IInv
<1>2. d.at = "existing" /\ d.kind = kind
  OBVIOUS
<1> HIDE DEF d
<1>3. calls'[w] = d /\ Others(w)
  BY <1>1, SetType
<1>4. \A v \in Worker : v # w => calls'[v] = calls[v]
  BY <1>3 DEF Others
<1>5. \A v \in Worker : Place(calls[v])'
  BY <1>2, <1>3, <1>4 DEF AloneInv, ErasureInv, Place
<1>6. ASSUME ~raced'
      PROVE  Alone' /\ \A v \in Worker : Whole(calls[v])'
  <2>1. ~raced /\ \A v \in Worker : v # w /\ ~At(v, "idle") => kind # "erase" /\ calls[v].kind # "erase"
    BY <1>1, <1>6
  <2>2. Alone /\ \A v \in Worker : Whole(calls[v])
    BY <2>1 DEF AloneInv, ErasureInv
  <2>3. Alone'
    BY <1>2, <1>3, <1>4, <2>1, <2>2 DEF Alone, Erasing, At
  <2>4. Whole(calls[w])'
    BY <1>2, <1>3 DEF Whole
  <2>5. \A v \in Worker : v # w => Whole(calls[v])'
    BY <1>1, <1>4, <2>2 DEF Whole, Of
  <2> QED BY <2>3, <2>4, <2>5
<1>7. Provided(calls[w])'
  BY <1>2, <1>3 DEF Provided
<1> QED BY <1>1, <1>3, <1>5, <1>6, <1>7, ContentStep DEF ErasureInv, AloneInv

LEMMA LookExistingAlone ==
  ASSUME AloneInv, NEW w \in Worker, LookExisting(w)
  PROVE  ErasureInv' /\ ContentInv'
<1> DEFINE c == calls[w]
<1>1. /\ TypeOK /\ ~At(w, "idle") /\ c \in Call
      /\ revisions' = revisions /\ payloads' = payloads /\ purged' = purged /\ raced' = raced
  BY BusyCall DEF LookExisting, At, AloneInv, IInv
<1>2. calls' = [calls EXCEPT ![w] = IF NothingToDo(c) THEN Idle ELSE Choose(c)]
  BY DEF LookExisting
<1>3. Others(w) /\ calls'[w] = IF NothingToDo(c) THEN Idle ELSE Choose(c)
  BY <1>1, <1>2, SetType
<1>4. c.kind \in {"remember", "forget", "erase"}
  BY <1>1 DEF Call
<1>5. CASE NothingToDo(c)
  <2>1. calls'[w].at = "idle"
    BY <1>3, <1>5 DEF Idle
  <2> QED BY <1>1, <1>3, <2>1, IdleCall, ErasureStep, ContentStep DEF AloneInv
<1>6. CASE ~NothingToDo(c)
  <2> DEFINE d == Choose(c)
  <2>1. /\ d.kind = c.kind /\ d.scope = c.scope
        /\ \/ d.at = "content" /\ c.kind = "remember" /\ d.mutation # "DELETE"
           \/ d.at = "previous" /\ c.kind = "forget" /\ d.mutation = "DELETE"
           \/ d.at = "history" /\ c.kind = "erase"
    <3>1. CASE c.kind = "remember"
      <4> DEFINE m == IF Known(c.scope) THEN "UPDATE" ELSE "ADD"
      <4>1. d = [c EXCEPT !.at = "content", !.mutation = m]
        BY <3>1 DEF Choose
      <4>2. m # "DELETE"
        OBVIOUS
      <4> HIDE DEF m, d
      <4> QED BY <1>1, <3>1, <4>1, <4>2 DEF Call
    <3>2. CASE c.kind = "forget"
      <4>1. d = [c EXCEPT !.at = "previous", !.mutation = "DELETE"]
        BY <3>2 DEF Choose
      <4> HIDE DEF d
      <4> QED BY <1>1, <3>2, <4>1 DEF Call
    <3>3. CASE c.kind = "erase"
      <4>1. d = [c EXCEPT !.at = "history"]
        BY <3>3 DEF Choose
      <4> HIDE DEF d
      <4> QED BY <1>1, <3>3, <4>1 DEF Call
    <3> QED BY <1>4, <3>1, <3>2, <3>3
  <2>2. c.kind = "erase" => Of(c.scope) # {}
    BY <1>6 DEF NothingToDo
  <2>3. calls'[w] = d
    BY <1>3, <1>6
  <2> HIDE DEF d
  <2>4. Place(calls[w])' /\ Whole(calls[w])' /\ Provided(calls[w])'
    <3>1. \A s : Of(s)' = Of(s)
      BY <1>1 DEF Of
    <3> QED BY <2>1, <2>2, <2>3, <3>1 DEF Place, Whole, Provided
  <2> QED BY <1>1, <1>3, <2>1, <2>3, <2>4, ErasureStep, ContentStep DEF AloneInv
<1> QED BY <1>5, <1>6

LEMMA WritingAlone ==
  ASSUME AloneInv, NEW w \in Worker, PutContent(w) \/ LookPrevious(w) \/ LookSelected(w)
  PROVE  ErasureInv' /\ ContentInv'
<1> DEFINE c == calls[w]
<1>1. /\ TypeOK /\ ~At(w, "idle") /\ c \in Call /\ Place(c)
      /\ revisions' = revisions /\ purged' = purged /\ raced' = raced
      /\ payloads \subseteq payloads'
  BY BusyCall DEF PutContent, LookPrevious, LookSelected, At, AloneInv, IInv, ErasureInv
<1>2. ASSUME calls'[w].at = "idle", Others(w)
      PROVE  ErasureInv' /\ ContentInv'
  BY <1>1, <1>2, IdleCall, ErasureStep, ContentStep DEF AloneInv
<1>3. CASE PutContent(w)
  <2>1. Go(w, "previous") /\ c.at = "content" /\ payloads' = payloads \cup {c.payload}
    BY <1>3 DEF PutContent, At
  <2>2. /\ Others(w) /\ calls'[w].at = "previous"
        /\ calls'[w].kind = c.kind /\ calls'[w].scope = c.scope
        /\ calls'[w].payload = c.payload /\ calls'[w].mutation = c.mutation
    BY <1>1, <2>1, GoneCall
  <2>3. Place(calls[w])' /\ Whole(calls[w])' /\ Provided(calls[w])'
    BY <1>1, <2>1, <2>2 DEF Place, Whole, Provided
  <2> QED BY <1>1, <2>2, <2>3, ErasureStep, ContentStep DEF AloneInv
<1>4. CASE LookPrevious(w)
  <2> DEFINE d == [c EXCEPT !.at = "put", !.version = Latest(c.scope).version + 1]
  <2>1. calls' = [calls EXCEPT ![w] = IF Permitted(c.mutation, c.scope) THEN d ELSE Idle]
        /\ c.at = "previous" /\ payloads' = payloads
    BY <1>4 DEF LookPrevious, At
  <2>2. /\ d.at = "put" /\ d.kind = c.kind /\ d.scope = c.scope
        /\ d.payload = c.payload /\ d.mutation = c.mutation
    BY <1>1 DEF Call
  <2> HIDE DEF d
  <2>3. Others(w) /\ calls'[w] = IF Permitted(c.mutation, c.scope) THEN d ELSE Idle
    BY <1>1, <2>1, SetType
  <2>4. CASE calls'[w] = Idle
    BY <1>2, <2>3, <2>4 DEF Idle
  <2>5. CASE calls'[w] = d
    <3>1. Place(calls[w])' /\ Whole(calls[w])'
      BY <1>1, <2>1, <2>2, <2>5 DEF Place, Whole
    <3>2. ~raced => Provided(calls[w])'
      <4>1. ~raced => Provided(c)
        BY DEF AloneInv, ContentInv
      <4> QED BY <1>1, <2>1, <2>2, <2>5, <4>1 DEF Provided, Spared
    <3> QED BY <1>1, <2>2, <2>3, <2>5, <3>1, <3>2, ErasureStep, ContentStep DEF AloneInv
  <2> QED BY <2>3, <2>4, <2>5
<1>5. CASE LookSelected(w)
  BY <1>1, <1>2, <1>5, LeftCall DEF LookSelected
<1> QED BY <1>3, <1>4, <1>5

\* What is written as known has its content in the store.
LEMMA PutRevisionAlone ==
  ASSUME AloneInv, NEW w \in Worker, PutRevision(w)
  PROVE  ErasureInv' /\ ContentInv'
<1> DEFINE c == calls[w]
           r == Written(c, w)
<1>1. /\ TypeOK /\ ~At(w, "idle") /\ c \in Call /\ Place(c) /\ c.at = "put"
      /\ purged' = purged /\ raced' = raced /\ payloads' = payloads
  BY BusyCall DEF PutRevision, At, AloneInv, IInv, ErasureInv
<1>2. \/ Go(w, "selected") /\ revisions' = revisions \cup {r}
      \/ Leave(w) /\ revisions' = revisions
  <2>1. CASE Storable(r)
    BY <2>1 DEF PutRevision
  <2>2. CASE ~Storable(r)
    BY <2>2 DEF PutRevision
  <2> QED BY <2>1, <2>2
<1>3. /\ Others(w)
      /\ \/ calls'[w].at = "idle"
         \/ /\ calls'[w].at = "selected" /\ calls'[w].kind = c.kind
            /\ calls'[w].mutation = c.mutation
  BY <1>1, <1>2, GoneCall, LeftCall
<1>4. Provided(calls[w])' /\ Whole(calls[w])'
  BY <1>3 DEF Provided, Whole
<1>5. calls'[w].at = "idle" \/ (calls'[w].kind = c.kind /\ Place(calls[w])')
  BY <1>1, <1>3 DEF Place
<1>6. ErasureInv'
  BY <1>1, <1>3, <1>4, <1>5, ErasureStep DEF AloneInv
<1>7. ASSUME ~raced, r.state = "active", Spared(r.scope)
      PROVE  r.payload \in payloads
  <2>1. c.mutation # "DELETE" /\ r.payload = c.payload /\ r.scope = c.scope
    BY <1>7 DEF Written, RevisionFor
  <2>2. c.kind = "remember"
    BY <1>1, <2>1 DEF Place, Call
  <2>3. Provided(c)
    BY <1>7 DEF AloneInv, ContentInv
  <2> QED BY <1>1, <1>7, <2>1, <2>2, <2>3 DEF Provided
<1>8. ~raced' => \A q \in revisions' \ revisions :
                   q.state = "active" /\ Spared(q.scope) => q.payload \in payloads'
  BY <1>1, <1>2, <1>7
<1>9. ContentInv'
  <2> HIDE DEF r
  <2> QED BY <1>1, <1>3, <1>4, <1>8, ContentStep DEF AloneInv
<1> QED BY <1>6, <1>9

\* An erasure, up to its end.
LEMMA PurgeAlone ==
  ASSUME AloneInv, NEW w \in Worker,
         LookHistory(w) \/ ListRevisions(w) \/ DeleteRevision(w) \/ EndPurge(w)
  PROVE  ErasureInv' /\ ContentInv'
<1> DEFINE c == calls[w]
<1>1. /\ TypeOK /\ ~At(w, "idle") /\ c \in Call /\ Place(c)
      /\ raced' = raced /\ payloads' = payloads
  BY BusyCall DEF LookHistory, ListRevisions, DeleteRevision, EndPurge, At, AloneInv, IInv, ErasureInv
<1>2. ~raced => Whole(c)
  BY DEF AloneInv, ErasureInv
<1>3. ASSUME revisions' \subseteq revisions, purged \subseteq purged', Others(w),
             \/ calls'[w].at = "idle"
             \/ /\ calls'[w].at \in {"list", "purge", "payloads"} /\ c.kind = "erase"
                /\ calls'[w].kind = c.kind /\ (~raced => Whole(calls[w])')
      PROVE  ErasureInv' /\ ContentInv'
  <2>1. Provided(calls[w])'
    BY <1>3 DEF Provided
  <2>2. calls'[w].at = "idle" \/ Place(calls[w])'
    BY <1>3 DEF Place
  <2>3. ErasureInv'
    BY <1>1, <1>3, <2>2, ErasureStep DEF AloneInv
  <2>4. ContentInv'
    BY <1>1, <1>3, <2>1, ContentStep DEF AloneInv
  <2> QED BY <2>3, <2>4
<1>4. CASE LookHistory(w)
  <2> DEFINE d == [c EXCEPT !.at = "list", !.doomed = {r.payload : r \in History(calls[w].scope)} \ {Gone}]
  <2>1. calls' = [calls EXCEPT ![w] = d] /\ c.at = "history" /\ revisions' = revisions /\ purged' = purged
    BY <1>4 DEF LookHistory, At
  <2>2. d.at = "list" /\ d.kind = c.kind /\ d.scope = c.scope
    BY <1>1 DEF Call
  <2> HIDE DEF d
  <2>3. Others(w) /\ calls'[w] = d
    BY <1>1, <2>1, SetType
  <2>4. ~raced => Whole(calls[w])'
    BY <1>2, <2>1, <2>2, <2>3 DEF Whole, Of
  <2> QED BY <1>1, <1>3, <2>1, <2>2, <2>3, <2>4 DEF Place
<1>5. CASE ListRevisions(w)
  <2> DEFINE all == Of(c.scope)
             d == [c EXCEPT !.at = IF all = {} THEN "payloads" ELSE "purge", !.pending = all]
  <2>1. calls' = [calls EXCEPT ![w] = d] /\ c.at = "list" /\ revisions' = revisions /\ purged' = purged
    BY <1>5 DEF ListRevisions, At, Doomed
  <2>2. /\ d.at = IF all = {} THEN "payloads" ELSE "purge"
        /\ d.kind = c.kind /\ d.scope = c.scope /\ d.pending = all
    BY <1>1 DEF Call
  <2> HIDE DEF d
  <2>3. Others(w) /\ calls'[w] = d
    BY <1>1, <2>1, SetType
  <2>4. \A s : Of(s)' = Of(s)
    BY <2>1 DEF Of
  <2>5. ~raced => Whole(calls[w])'
    BY <1>2, <2>1, <2>2, <2>3, <2>4 DEF Whole
  <2> QED BY <1>1, <1>3, <2>1, <2>2, <2>3, <2>5 DEF Place
<1>6. CASE DeleteRevision(w)
  <2>1. PICK r \in c.pending :
          /\ revisions' = revisions \ {r} /\ purged' = purged \cup {c.scope}
          /\ calls' = [calls EXCEPT ![w] = [c EXCEPT !.pending = @ \ {r}, !.progress = @ \/ r \in revisions]]
    BY <1>6 DEF DeleteRevision
  <2>2. c.at = "purge"
    BY <1>6 DEF DeleteRevision, At
  <2> DEFINE d == [c EXCEPT !.pending = @ \ {r}, !.progress = @ \/ r \in revisions]
  <2>3. d.at = "purge" /\ d.kind = c.kind /\ d.scope = c.scope /\ d.pending = c.pending \ {r}
    BY <1>1, <2>2 DEF Call
  <2> HIDE DEF d
  <2>4. Others(w) /\ calls'[w] = d
    BY <1>1, <2>1, SetType DEF d
  <2>5. \A s : Of(s)' = Of(s) \ {r}
    BY <2>1 DEF Of
  <2>6. ~raced => Whole(calls[w])'
    BY <1>2, <2>1, <2>2, <2>3, <2>4, <2>5 DEF Whole
  <2> QED BY <1>1, <1>3, <2>1, <2>2, <2>3, <2>4, <2>6 DEF Place
<1>7. CASE EndPurge(w)
  <2>1. /\ c.at = "purge" /\ c.pending = {} /\ revisions' = revisions /\ purged' = purged
        /\ Go(w, "payloads") \/ Leave(w)
    BY <1>7 DEF EndPurge, At
  <2>2. CASE Leave(w)
    BY <1>1, <1>3, <2>1, <2>2, LeftCall
  <2>3. CASE Go(w, "payloads")
    <3>1. /\ Others(w) /\ calls'[w].at = "payloads"
          /\ calls'[w].kind = c.kind /\ calls'[w].scope = c.scope
      BY <1>1, <2>3, GoneCall
    <3>2. ~raced => Whole(calls[w])'
      BY <1>2, <2>1, <3>1 DEF Whole, Of
    <3> QED BY <1>1, <1>3, <2>1, <3>1, <3>2 DEF Place
  <2> QED BY <2>1, <2>2, <2>3
<1> QED BY <1>4, <1>5, <1>6, <1>7

\* An erasure that runs alone deletes the content of nothing that is left of its memory.
LEMMA DeletePayloadAlone ==
  ASSUME AloneInv, NEW w \in Worker, DeletePayload(w)
  PROVE  ErasureInv' /\ ContentInv'
<1> DEFINE c == calls[w]
<1>1. /\ TypeOK /\ ~At(w, "idle") /\ c \in Call /\ Place(c) /\ c.at = "payloads"
      /\ raced' = raced /\ revisions' = revisions /\ purged' = purged
  BY BusyCall DEF DeletePayload, At, AloneInv, IInv, ErasureInv
<1>2. PICK p \in c.doomed : calls' = [calls EXCEPT ![w] = [c EXCEPT !.doomed = @ \ {p}]]
  BY DEF DeletePayload
<1> DEFINE d == [c EXCEPT !.doomed = @ \ {p}]
<1>3. d.at = "payloads" /\ d.kind = c.kind /\ d.scope = c.scope
  BY <1>1 DEF Call
<1> HIDE DEF d
<1>4. Others(w) /\ calls'[w] = d
  BY <1>1, <1>2, SetType DEF d
<1>5. ~raced => Whole(c)
  BY DEF AloneInv, ErasureInv
<1>6. ErasureInv'
  <2>1. Place(calls[w])'
    BY <1>1, <1>3, <1>4 DEF Place
  <2>2. ~raced => Whole(calls[w])'
    BY <1>1, <1>3, <1>4, <1>5 DEF Whole, Of
  <2> QED BY <1>1, <1>3, <1>4, <2>1, <2>2, ErasureStep DEF AloneInv
<1>7. ContentInv'
  <2> SUFFICES ASSUME ~raced PROVE ContentInv'
    BY <1>1 DEF ContentInv
  <2>1. Of(c.scope) = {} /\ c.scope \in purged /\ Alone
    BY <1>1, <1>5 DEF Whole, AloneInv, ErasureInv
  <2>2. \A s : Spared(s)' <=> Spared(s)
    BY <1>1 DEF Spared
  <2>3. ASSUME NEW r \in revisions PROVE ~Spared(r.scope)
    BY <2>1 DEF Spared, Of
  <2>4. ASSUME NEW v \in Worker PROVE Provided(calls[v])'
    <3>1. CASE v = w
      BY <1>3, <1>4, <3>1 DEF Provided
    <3>2. CASE v # w
      <4>1. calls'[v] = calls[v] /\ Erasing(w)
        BY <1>1, <1>4, <3>2 DEF Others, Erasing, Place
      <4>2. calls'[v].at = "idle"
        BY <2>1, <3>2, <4>1 DEF Alone, At
      <4> QED BY <4>2 DEF Provided
    <3> QED BY <3>1, <3>2
  <2> QED BY <1>1, <2>2, <2>3, <2>4 DEF ContentInv
<1> QED BY <1>6, <1>7

LEMMA AloneInit == Init => ErasureInv /\ ContentInv
<1> SUFFICES ASSUME Init PROVE ErasureInv /\ ContentInv
  OBVIOUS
<1>1. revisions = {} /\ \A w \in Worker : calls[w].at = "idle"
  BY DEF Init, Idle
<1> QED BY <1>1, IdleCall DEF ErasureInv, ContentInv, Alone, Erasing, At

LEMMA AloneNext ==
  ASSUME AloneInv, [Next]_vars
  PROVE  ErasureInv' /\ ContentInv'
<1>1. TypeOK
  BY DEF AloneInv, IInv
<1>2. ASSUME NEW w \in Worker, Remember(w) \/ Forget(w) \/ Erase(w)
      PROVE  ErasureInv' /\ ContentInv'
  BY <1>2, BeginAlone DEF Remember, Forget, Erase
<1>3. ASSUME NEW w \in Worker, Stop(w) \/ Erased(w)
      PROVE  ErasureInv' /\ ContentInv'
  <2>1. /\ ~At(w, "idle") /\ Leave(w)
        /\ revisions' = revisions /\ payloads' = payloads /\ purged' = purged /\ raced' = raced
    BY <1>3 DEF Stop, Erased, At
  <2>2. Others(w) /\ calls'[w].at = "idle"
    BY <1>1, <2>1, LeftCall
  <2>3. Provided(calls[w])'
    BY <2>2 DEF Provided
  <2> QED BY <2>1, <2>2, <2>3, ErasureStep, ContentStep DEF AloneInv
<1>4. CASE UNCHANGED vars
  <2>1. /\ revisions' = revisions /\ payloads' = payloads /\ purged' = purged
        /\ raced' = raced /\ calls' = calls
    BY <1>4 DEF vars
  <2>2. ErasureInv'
    BY <2>1 DEF AloneInv, ErasureInv, Alone, Erasing, Whole, Of, At, Place
  <2>3. ContentInv'
    BY <2>1 DEF AloneInv, ContentInv, Provided, Spared
  <2> QED BY <2>2, <2>3
<1> QED
  BY <1>2, <1>3, <1>4, LookExistingAlone, WritingAlone, PutRevisionAlone, PurgeAlone,
     DeletePayloadAlone DEF Next

LEMMA AloneInvHolds == Spec => []AloneInv
<1>1. Init => AloneInv
  BY InvInit, AloneInit DEF AloneInv
<1>2. AloneInv /\ [Next]_vars => AloneInv'
  BY InvNext, AloneNext DEF AloneInv
<1> QED BY <1>1, <1>2, PTL DEF Spec

EndsWhole ==
  \A w \in Worker :
    /\ Erased(w) /\ ~raced
    => Of(calls[w].scope) = {}

\* An erasure that ends as it should, beside no other call, has left no revision of
\* its memory.
THEOREM ErasuresAreWhole == Spec => ErasureIsWhole
<1>1. AloneInv => [EndsWhole]_vars
  BY DEF AloneInv, ErasureInv, Whole, Erased, At, EndsWhole
<1>2. Spec => [][EndsWhole]_vars
  BY <1>1, AloneInvHolds, PTL
<1> QED BY <1>2 DEF EndsWhole, ErasureIsWhole

\* What is known can be read back, unless another memory was erased, which may have
\* had the same text, or an erasure ran beside another call.
THEOREM SparedIsReadable ==
  Spec => [](~raced => \A s \in Scope : Known(s) /\ Spared(s) => Latest(s).payload \in payloads)
<1>1. AloneInv => (~raced => \A s \in Scope : Known(s) /\ Spared(s) => Latest(s).payload \in payloads)
  <2> SUFFICES ASSUME AloneInv, ~raced, NEW s \in Scope, Known(s), Spared(s)
               PROVE  Latest(s).payload \in payloads
    OBVIOUS
  <2>1. Latest(s) \in revisions /\ Latest(s).scope = s /\ Latest(s).state = "active"
    BY KnownIsLatest DEF AloneInv, IInv, TypeOK, Of
  <2> QED BY <2>1 DEF AloneInv, ContentInv
<1> QED BY <1>1, AloneInvHolds, PTL

\* In an engine of one scope there is no other memory of the text.
THEOREM RememberedCanBeRead ==
  ASSUME \A s, t \in Scope : s = t
  PROVE  Spec => []RememberedIsReadable
<1>1. AloneInv => RememberedIsReadable
  <2> SUFFICES ASSUME AloneInv, ~raced, NEW s \in Scope, Known(s)
               PROVE  Latest(s).payload \in payloads
    BY DEF RememberedIsReadable
  <2>1. Latest(s) \in revisions /\ Latest(s).scope = s /\ Latest(s).state = "active"
    BY KnownIsLatest DEF AloneInv, IInv, TypeOK, Of
  <2>2. Spared(s)
    BY DEF Spared, AloneInv, IInv, TypeOK
  <2> QED BY <2>1, <2>2 DEF AloneInv, ContentInv
<1> QED BY <1>1, AloneInvHolds, PTL
==============================================================================
