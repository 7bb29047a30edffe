-------------------------- MODULE ContinuousMemory --------------------------
(***************************************************************************)
(* What the engine of src/src/continuous-memory.ts does to one memory after  *)
(* a turn, and when it is asked to forget: it remembers a text, forgets it   *)
(* by a tombstone, or erases it with its history.  The text is stored beside *)
(* the revisions, under the digest of the memory and the text; the digest    *)
(* does not depend on the scope.                                            *)
(*                                                                         *)
(* Each step is one operation of the recovery store, which excludes others.  *)
(* A call may stop between any two: its process crashes, an operation        *)
(* fails, or it finds a revision gone that it has just listed.              *)
(***************************************************************************)
EXTENDS LongTermMemory

VARIABLES
  payloads,      \* the contents in the store
  calls,         \* what each worker does
  forgotten,     \* the scopes whose memory was last forgotten, as a caller was told
  purged,        \* the scopes that lost a revision to a purge
  raced          \* whether an erasure ran beside another call

vars == <<revisions, payloads, calls, forgotten, purged, raced>>

Idle == [at |-> "idle"]

\* A call, with what it has in hand: the mutation it chose, the version it writes,
\* and the revisions and contents it has still to delete.
Call ==
  [at : {"existing", "content", "previous", "put", "selected", "history", "list", "purge", "payloads"},
   kind : {"remember", "forget", "erase"}, scope : Scope, payload : Payload \cup {Gone},
   mutation : {"NOOP", "ADD", "UPDATE", "DELETE"}, version : 0..MaxVersion,
   pending : SUBSET Revision, doomed : SUBSET Payload, progress : BOOLEAN]

\* Types of the store, the calls and what is noted of them.
TypeOK ==
  /\ revisions \subseteq Revision
  /\ payloads \subseteq Payload
  /\ calls \in [Worker -> {Idle} \cup Call]
  /\ forgotten \subseteq Scope /\ purged \subseteq Scope /\ raced \in BOOLEAN

Init ==
  /\ revisions = {} /\ payloads = {}
  /\ calls = [w \in Worker |-> Idle]
  /\ forgotten = {} /\ purged = {} /\ raced = FALSE

At(w, place) == calls[w].at = place

Go(w, place) == calls' = [calls EXCEPT ![w].at = place]

Leave(w) == calls' = [calls EXCEPT ![w] = Idle]

-----------------------------------------------------------------------------
(* A call begins and ends.                                                 *)

Begin(w, kind, s, p) ==
  /\ At(w, "idle")
  /\ calls' = [calls EXCEPT ![w] =
       [at |-> "existing", kind |-> kind, scope |-> s, payload |-> p, mutation |-> "NOOP",
        version |-> 0, pending |-> {}, doomed |-> {}, progress |-> FALSE]]
  /\ raced' = (raced \/ \E v \in Worker \ {w} : ~At(v, "idle") /\ "erase" \in {kind, calls[v].kind})
  /\ UNCHANGED <<revisions, payloads, forgotten, purged>>

Remember(w) == \E s \in Scope, p \in Payload : Begin(w, "remember", s, p)
Forget(w) == \E s \in Scope : Begin(w, "forget", s, Gone)
Erase(w) == \E s \in Scope : Begin(w, "erase", s, Gone)

Stop(w) ==
  /\ ~At(w, "idle")
  /\ Leave(w)
  /\ UNCHANGED <<revisions, payloads, forgotten, purged, raced>>

-----------------------------------------------------------------------------
(* The engine looks for the memory, and chooses what to do.                *)

\* What is known already is not written again, nor what is unknown forgotten.
NothingToDo(c) ==
  CASE c.kind = "remember" -> Known(c.scope) /\ Latest(c.scope).payload = c.payload
    [] c.kind = "forget" -> ~Known(c.scope)
    [] c.kind = "erase" -> Of(c.scope) = {}

Choose(c) ==
  CASE c.kind = "remember" -> [c EXCEPT !.at = "content",
                                        !.mutation = IF Known(c.scope) THEN "UPDATE" ELSE "ADD"]
    [] c.kind = "forget" -> [c EXCEPT !.at = "previous", !.mutation = "DELETE"]
    [] c.kind = "erase" -> [c EXCEPT !.at = "history"]

LookExisting(w) ==
  /\ At(w, "existing")
  /\ calls' = [calls EXCEPT ![w] = IF NothingToDo(@) THEN Idle ELSE Choose(@)]
  /\ UNCHANGED <<revisions, payloads, forgotten, purged, raced>>

PutContent(w) ==
  /\ At(w, "content")
  /\ payloads' = payloads \cup {calls[w].payload}
  /\ Go(w, "previous")
  /\ UNCHANGED <<revisions, forgotten, purged, raced>>

-----------------------------------------------------------------------------
(* apply().                                                                *)

LookPrevious(w) ==
  LET c == calls[w]
      next == Latest(c.scope).version + 1
  IN  /\ At(w, "previous") /\ next <= MaxVersion
      /\ calls' = [calls EXCEPT ![w] = IF Permitted(c.mutation, c.scope)
                                       THEN [@ EXCEPT !.at = "put", !.version = next] ELSE Idle]
      /\ UNCHANGED <<revisions, payloads, forgotten, purged, raced>>

Written(c, w) == RevisionFor(c.mutation, c.scope, c.version, c.payload, w)

PutRevision(w) ==
  LET c == calls[w]
      r == Written(c, w)
  IN  /\ At(w, "put")
      /\ IF Storable(r)
         THEN /\ revisions' = revisions \cup {r}
              /\ forgotten' = IF c.mutation = "DELETE" THEN forgotten ELSE forgotten \ {c.scope}
              /\ Go(w, "selected")
         ELSE Leave(w) /\ UNCHANGED <<revisions, forgotten>>
      /\ UNCHANGED <<payloads, purged, raced>>

\* The caller is told of the write if it is still the latest.
LookSelected(w) ==
  LET c == calls[w]
  IN  /\ At(w, "selected")
      /\ forgotten' = IF c.mutation = "DELETE" /\ Selected(Written(c, w))
                      THEN forgotten \cup {c.scope} ELSE forgotten
      /\ Leave(w)
      /\ UNCHANGED <<revisions, payloads, purged, raced>>

-----------------------------------------------------------------------------
(* An erasure: purge(), and then the contents that its history names.       *)

LookHistory(w) ==
  /\ At(w, "history")
  /\ calls' = [calls EXCEPT ![w].at = "list",
                            ![w].doomed = {r.payload : r \in History(calls[w].scope)} \ {Gone}]
  /\ UNCHANGED <<revisions, payloads, forgotten, purged, raced>>

\* Mutant of Doomed: the latest revision only.
DoomedLatest(s) == {Latest(s)} \cap Of(s)

Doomed(s) == Of(s)

ListRevisions(w) ==
  LET doomed == Doomed(calls[w].scope)
  IN  /\ At(w, "list")
      /\ calls' = [calls EXCEPT ![w].at = IF doomed = {} THEN "payloads" ELSE "purge",
                                ![w].pending = doomed]
      /\ UNCHANGED <<revisions, payloads, forgotten, purged, raced>>

\* In the order of their digests, which is none.
DeleteRevision(w) ==
  /\ At(w, "purge")
  /\ \E r \in calls[w].pending :
       /\ revisions' = revisions \ {r}
       /\ purged' = purged \cup {calls[w].scope}
       /\ calls' = [calls EXCEPT ![w].pending = @ \ {r}, ![w].progress = @ \/ r \in revisions]
  /\ UNCHANGED <<payloads, forgotten, raced>>

\* A purge that others left nothing to delete fails.
EndPurge(w) ==
  /\ At(w, "purge") /\ calls[w].pending = {}
  /\ IF calls[w].progress THEN Go(w, "payloads") ELSE Leave(w)
  /\ UNCHANGED <<revisions, payloads, forgotten, purged, raced>>

DeletePayload(w) ==
  /\ At(w, "payloads")
  /\ \E p \in calls[w].doomed :
       /\ payloads' = payloads \ {p}
       /\ calls' = [calls EXCEPT ![w].doomed = @ \ {p}]
  /\ UNCHANGED <<revisions, forgotten, purged, raced>>

Erased(w) ==
  /\ At(w, "payloads") /\ calls[w].doomed = {}
  /\ Leave(w)
  /\ UNCHANGED <<revisions, payloads, forgotten, purged, raced>>

Next ==
  \E w \in Worker :
    \/ Remember(w) \/ Forget(w) \/ Erase(w) \/ Stop(w)
    \/ LookExisting(w) \/ PutContent(w)
    \/ LookPrevious(w) \/ PutRevision(w) \/ LookSelected(w)
    \/ LookHistory(w) \/ ListRevisions(w) \/ DeleteRevision(w) \/ EndPurge(w)
    \/ DeletePayload(w) \/ Erased(w)

Spec == Init /\ [][Next]_vars

-----------------------------------------------------------------------------
\* Two writers never store different revisions under one number, whatever is
\* purged meanwhile ("Two writers therefore cannot persist two distinct records
\* with the same revision number", docs/LONG_TERM_MEMORY.md).
OneRevisionPerVersion ==
  \A q, r \in revisions : q.scope = r.scope /\ q.version = r.version => q = r

\* Until a purge, the revisions of a memory are a whole history: no number is
\* missing, and only what was known is forgotten, however forgets overlap.
HistoryIsWhole ==
  \A r \in revisions : r.scope \notin purged =>
    \/ r.version = 1 /\ r.state = "active"
    \/ \E q \in Of(r.scope) : q.version = r.version - 1 /\ (r.state = "tombstone" => q.state = "active")

\* What a caller was told is forgotten is not recalled before it is remembered
\* anew, until a purge: the write that lost to a later one is not acknowledged.
ForgottenStaysForgotten == \A s \in forgotten \ purged : ~Known(s)

\* What is known can be read back: beforeTurn() fails, for all memories, when the
\* content of one that it recalls is gone.  Unless an erasure ran beside another call.
RememberedIsReadable ==
  ~raced => \A s \in Scope : Known(s) => Latest(s).payload \in payloads

\* An erasure that ends as it should has left no revision of its memory, whose
\* oldest could otherwise come up again, unless it ran beside another call.
ErasureIsWhole ==
  [][\A w \in Worker :
       /\ Erased(w) /\ ~raced
       => Of(calls[w].scope) = {}]_vars
==============================================================================
