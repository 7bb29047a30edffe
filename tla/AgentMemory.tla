---------------------------- MODULE AgentMemory ----------------------------
(***************************************************************************)
(* The memory of one agent run, kept in a recovery store that processes     *)
(* share (createRecoveryAgentMemoryStore() in src/src/agent-runtime.ts): the *)
(* records of its stages, each with a sequence number, and its claims.      *)
(*                                                                         *)
(* An append lists the records, and then puts one under the next number; the *)
(* two are operations of the store, each atomic under its lock, and others  *)
(* may come in between.  The store is content-addressed: putting an entry    *)
(* that is there already succeeds and changes nothing.                      *)
(***************************************************************************)
EXTENDS Naturals, FiniteSets

CONSTANTS
  Process,
  Record,           \* what may be recorded of a stage
  NoRecord,
  ClaimId,
  MaxRecords,       \* MAX_AGENT_MEMORY_WRITABLE_RECORDS
  MaxClaims,        \* MAX_AGENT_MEMORY_CLAIMS
  MaxAttempts,      \* MAX_AGENT_APPEND_ATTEMPTS
  MaxFailures       \* bound on the failing calls explored

ASSUME MemoryAssumption ==
  /\ NoRecord \notin Record
  /\ MaxRecords \in Nat \ {0} /\ MaxClaims \in Nat /\ MaxAttempts \in Nat \ {0}
  /\ MaxFailures \in Nat

VARIABLES
  entries,          \* the stored records: sequence and record
  claims,           \* the stored claims
  appends,          \* the append each process is in
  failures

memory == <<entries, claims, appends, failures>>

Entry == [sequence : 0..(MaxRecords - 1), record : Record]

NoAppend == [at |-> "none", record |-> NoRecord, sequence |-> 0, attempts |-> 0]

Append ==
  {NoAppend} \cup
  [at : {"list", "put", "stored", "rejected"}, record : Record,
   sequence : 0..(MaxRecords - 1), attempts : 0..(MaxAttempts - 1)]

MemoryInit ==
  /\ entries = {} /\ claims = {}
  /\ appends = [p \in Process |-> NoAppend]
  /\ failures = 0

Sequences == {e.sequence : e \in entries}

\* No number is missing and none is there twice.
InSequence == Cardinality(entries) = Cardinality(Sequences) /\ Sequences = 0..(Cardinality(entries) - 1)

-----------------------------------------------------------------------------
(* append().                                                                *)

BeginAppend(p, record) ==
  /\ appends[p].at = "none"
  /\ appends' = [appends EXCEPT ![p] = [at |-> "list", record |-> record,
                                        sequence |-> 0, attempts |-> 0]]
  /\ UNCHANGED <<entries, claims, failures>>

Reject(p) == appends' = [appends EXCEPT ![p].at = "rejected"]

ListRecords(p) ==
  /\ appends[p].at = "list"
  /\ IF Cardinality(entries) >= MaxRecords \/ ~InSequence
     THEN Reject(p)
     ELSE appends' = [appends EXCEPT ![p].at = "put", ![p].sequence = Cardinality(entries)]
  /\ UNCHANGED <<entries, claims, failures>>

EntryOf(p) == [sequence |-> appends[p].sequence, record |-> appends[p].record]

\* Mutant of Conflicts: only the number of records is bounded.
ConflictsByNumber(p) ==
  EntryOf(p) \notin entries /\ Cardinality(entries) >= MaxRecords

\* putBounded() finds one of its bounds reached.
Conflicts(p) ==
  /\ EntryOf(p) \notin entries
  /\ Cardinality(entries) >= MaxRecords \/ appends[p].sequence \in Sequences

PutRecord(p) ==
  /\ appends[p].at = "put" /\ ~Conflicts(p)
  /\ entries' = entries \cup {EntryOf(p)}
  /\ appends' = [appends EXCEPT ![p].at = "stored"]
  /\ UNCHANGED <<claims, failures>>

\* Mutant of Retry: the last attempt is not made.
RetryOnce(p) ==
  /\ appends[p].at = "put" /\ Conflicts(p)
  /\ Reject(p)
  /\ UNCHANGED <<entries, claims, failures>>

\* The records are listed again, unless that was the last attempt.
Retry(p) ==
  /\ appends[p].at = "put" /\ Conflicts(p)
  /\ IF appends[p].attempts + 1 < MaxAttempts
     THEN appends' = [appends EXCEPT ![p].at = "list", ![p].attempts = @ + 1]
     ELSE Reject(p)
  /\ UNCHANGED <<entries, claims, failures>>

\* A call of the store fails; a put may have taken effect all the same.
AppendFails(p) ==
  /\ appends[p].at \in {"list", "put"} /\ failures < MaxFailures
  /\ failures' = failures + 1
  /\ Reject(p)
  /\ \/ UNCHANGED entries
     \/ /\ appends[p].at = "put" /\ ~Conflicts(p)
        /\ entries' = entries \cup {EntryOf(p)}
  /\ UNCHANGED claims

EndAppend(p) ==
  /\ appends[p].at \in {"stored", "rejected"}
  /\ appends' = [appends EXCEPT ![p] = NoAppend]
  /\ UNCHANGED <<entries, claims, failures>>

AppendStep(p) == ListRecords(p) \/ PutRecord(p) \/ Retry(p) \/ AppendFails(p)

-----------------------------------------------------------------------------
(* claimExecution(): one put, whose answer tells whether the claim is new.   *)

Unclaimed(c) == c \notin claims

ClaimFull(c) == Unclaimed(c) /\ Cardinality(claims) >= MaxClaims

TakeClaim(c) ==
  /\ Unclaimed(c) /\ ~ClaimFull(c)
  /\ claims' = claims \cup {c}
  /\ UNCHANGED <<entries, appends, failures>>

-----------------------------------------------------------------------------
(* The memory by itself, with any processes that append any records.        *)

MemoryNext ==
  \E p \in Process :
    \/ \E record \in Record : BeginAppend(p, record)
    \/ ListRecords(p) \/ PutRecord(p) \/ Retry(p) \/ AppendFails(p)
    \/ EndAppend(p)

MemorySpec == MemoryInit /\ [][MemoryNext]_memory

-----------------------------------------------------------------------------
(* Properties.                                                              *)

\* The variables have the types the code gives them.
MemoryTypeOK ==
  /\ entries \subseteq Entry /\ IsFiniteSet(entries)
  /\ claims \subseteq ClaimId
  /\ appends \in [Process -> Append]
  /\ failures \in 0..MaxFailures

\* However appends overlap and fail, the numbers of the records have no gap and
\* no repetition, so that no listing of the run is ever refused.
SequenceIsWhole == InSequence

\* An append that succeeds has stored its record, and of two different records
\* that were appended at once neither is lost.
StoredIsThere ==
  \A p \in Process :
    appends[p].at = "stored" =>
      /\ EntryOf(p) \in entries
      /\ \A q \in Process :
           appends[q].at = "stored" /\ appends[q].sequence = appends[p].sequence
             => appends[q].record = appends[p].record

\* While no call fails, an append is refused only for the bound on records, or
\* because others succeeded as often as it tried.
RefusedForCause ==
  \A p \in Process :
    appends[p].at = "rejected" /\ failures = 0 =>
      \/ Cardinality(entries) >= MaxRecords
      \/ Cardinality(entries) >= MaxAttempts /\ appends[p].attempts + 1 = MaxAttempts
==============================================================================
