--------------------------- MODULE LongTermMemory ---------------------------
(***************************************************************************)
(* The revisions of one memory in the recovery store                        *)
(* (src/src/long-term-memory.ts), for every scope it is kept in.  A          *)
(* revision is never changed: a mutation reads the latest, and stores the    *)
(* next, which the store refuses when another has that number.              *)
(***************************************************************************)
EXTENDS Integers, FiniteSets, FiniteSetsExt

CONSTANTS
  Worker,            \* who mutates: what else tells equal revisions apart
  Scope,
  Payload,           \* the contents that a revision can name by their digest
  Gone,              \* a tombstone names no content
  MaxWritable,       \* MAX_WRITABLE_RECORDS
  MaxHistory,        \* MAX_HISTORY
  MaxVersion         \* bound on the versions explored

ASSUME LongTermAssumption ==
  /\ Gone \notin Payload
  /\ MaxWritable \in Nat \ {0} /\ MaxHistory \in Nat \ {0} /\ MaxVersion \in Nat \ {0}

VARIABLE revisions

Revision ==
  [scope : Scope, version : Nat \ {0}, state : {"active", "tombstone"},
   payload : Payload \cup {Gone}, by : Worker]

Of(s) == {r \in revisions : r.scope = s}

\* latestFor(): nothing has version 0.
Latest(s) ==
  IF Of(s) = {} THEN [version |-> 0, state |-> "nothing", payload |-> Gone]
  ELSE CHOOSE r \in Of(s) : \A q \in Of(s) : q.version <= r.version

Known(s) == Latest(s).state = "active"

\* Mutant of Permitted: the latest revision is not asked again.
PermittedUnseen(mutation, s) == TRUE

\* Which mutations apply() lets the latest revision have.
Permitted(mutation, s) == Known(s) <=> mutation \in {"UPDATE", "DELETE"}

RevisionFor(mutation, s, version, payload, w) ==
  [scope |-> s, version |-> version, by |-> w,
   state |-> IF mutation = "DELETE" THEN "tombstone" ELSE "active",
   payload |-> IF mutation = "DELETE" THEN Gone ELSE payload]

\* Mutant of Storable: versions are not part of the bound.
StorableUnversioned(r) == Cardinality(revisions) < MaxWritable

\* putBounded(): one revision per version, and not too many of all scopes.  What
\* is stored already can be stored again.
Storable(r) ==
  \/ r \in revisions
  \/ /\ \A q \in Of(r.scope) : q.version # r.version
     /\ Cardinality(revisions) < MaxWritable

\* Mutant of Selected: a write that was stored is taken to be the latest.
SelectedUnread(r) == TRUE

\* Whether the write that stored r still finds it as the latest.
Selected(r) == Latest(r.scope).version = r.version /\ Latest(r.scope).state = r.state

\* What history() returns: the newest revisions, no more than MaxHistory.
History(s) == {r \in Of(s) : Cardinality({q \in Of(s) : q.version > r.version}) < MaxHistory}
==============================================================================
