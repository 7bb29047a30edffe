------------------------- MODULE AgentRuntimeProofs -------------------------
(***************************************************************************)
(* Theorems about AgentMemory and about AgentRuntime, which extends it: any  *)
(* number of processes, of stages, of records and of crashes, any bounds,    *)
(* and any snapshots that callers make up.                                  *)
(***************************************************************************)
EXTENDS AgentRuntime, TLAPS, FiniteSetTheorems

-----------------------------------------------------------------------------
(* The memory: types.                                                       *)

\* An append in progress has a record and a number of its own.
LEMMA InProgress ==
  ASSUME MemoryTypeOK, NEW p \in Process, appends[p].at # "none"
  PROVE  /\ appends[p] \in [at : {"list", "put", "stored", "rejected"}, record : Record,
                            sequence : 0..(MaxRecords - 1), attempts : 0..(MaxAttempts - 1)]
         /\ EntryOf(p) \in Entry
BY DEF MemoryTypeOK, Append, NoAppend, EntryOf, Entry

LEMMA AddEntryType ==
  ASSUME MemoryTypeOK, NEW p \in Process, appends[p].at # "none"
  PROVE  entries \cup {EntryOf(p)} \subseteq Entry /\ IsFiniteSet(entries \cup {EntryOf(p)})
BY InProgress, FS_AddElement DEF MemoryTypeOK

LEMMA BeginAppendType ==
  ASSUME MemoryTypeOK, NEW p \in Process, NEW record \in Record, BeginAppend(p, record)
  PROVE  MemoryTypeOK'
<1>1. [at |-> "list", record |-> record, sequence |-> 0, attempts |-> 0] \in Append
  BY MemoryAssumption DEF Append
<1>. QED
  BY <1>1 DEF BeginAppend, MemoryTypeOK

LEMMA RejectType ==
  ASSUME MemoryTypeOK, NEW p \in Process, appends[p].at # "none", Reject(p)
  PROVE  appends' \in [Process -> Append]
BY InProgress DEF Reject, MemoryTypeOK, Append

LEMMA AppendStepType ==
  ASSUME MemoryTypeOK, NEW p \in Process, AppendStep(p)
  PROVE  MemoryTypeOK'
<1>1. CASE ListRecords(p)
  <2>1. Cardinality(entries) \in Nat
    BY FS_CardinalityType DEF MemoryTypeOK
  <2>2. appends' \in [Process -> Append]
    <3>1. CASE Reject(p)
      BY <1>1, <3>1, RejectType DEF ListRecords
    <3>2. CASE ~Reject(p)
      <4>1. /\ appends' = [appends EXCEPT ![p].at = "put", ![p].sequence = Cardinality(entries)]
            /\ Cardinality(entries) \in 0..(MaxRecords - 1)
        BY <1>1, <2>1, <3>2, MemoryAssumption DEF ListRecords
      <4>. QED
        BY <1>1, <4>1, InProgress DEF ListRecords, MemoryTypeOK, Append
    <3>. QED
      BY <3>1, <3>2
  <2>. QED
    BY <1>1, <2>2 DEF ListRecords, MemoryTypeOK
<1>2. CASE PutRecord(p)
  <2>1. appends' \in [Process -> Append]
    BY <1>2, InProgress DEF PutRecord, MemoryTypeOK, Append
  <2>. QED
    BY <1>2, <2>1, AddEntryType DEF PutRecord, MemoryTypeOK
<1>3. CASE Retry(p)
  <2>1. appends' \in [Process -> Append]
    <3>1. CASE Reject(p)
      BY <1>3, <3>1, RejectType DEF Retry
    <3>2. CASE ~Reject(p)
      BY <1>3, <3>2, InProgress, MemoryAssumption DEF Retry, MemoryTypeOK, Append
    <3>. QED
      BY <3>1, <3>2
  <2>. QED
    BY <1>3, <2>1 DEF Retry, MemoryTypeOK
<1>4. CASE AppendFails(p)
  <2>1. appends' \in [Process -> Append]
    BY <1>4, RejectType DEF AppendFails
  <2>2. entries' \subseteq Entry /\ IsFiniteSet(entries')
    BY <1>4, AddEntryType DEF AppendFails, MemoryTypeOK
  <2>3. failures' \in 0..MaxFailures /\ claims' \subseteq ClaimId
    BY <1>4, MemoryAssumption DEF AppendFails, MemoryTypeOK
  <2>. QED
    BY <2>1, <2>2, <2>3 DEF MemoryTypeOK
<1>. QED
  BY <1>1, <1>2, <1>3, <1>4 DEF AppendStep

LEMMA EndAppendType ==
  ASSUME MemoryTypeOK, NEW p \in Process, EndAppend(p)
  PROVE  MemoryTypeOK'
BY DEF EndAppend, MemoryTypeOK, Append

\* The types of the memory, for any processes, records and bounds.
THEOREM MemoryTypeCorrect == MemorySpec => []MemoryTypeOK
<1>1. MemoryInit => MemoryTypeOK
  BY FS_EmptySet, MemoryAssumption DEF MemoryInit, MemoryTypeOK, Append
<1>2. MemoryTypeOK /\ [MemoryNext]_memory => MemoryTypeOK'
  <2>1. ASSUME MemoryTypeOK, MemoryNext PROVE MemoryTypeOK'
    BY <2>1, BeginAppendType, AppendStepType, EndAppendType DEF MemoryNext, AppendStep
  <2>2. ASSUME MemoryTypeOK, UNCHANGED memory PROVE MemoryTypeOK'
    BY <2>2 DEF MemoryTypeOK, memory
  <2>. QED
    BY <2>1, <2>2
<1>. QED
  BY <1>1, <1>2, PTL DEF MemorySpec

-----------------------------------------------------------------------------
(* The memory: the numbers of the records.                                  *)

\* A number that was read from a listing is none that the records lack, or it is
\* the next: the listings of others can only have raised the count.
PutsInRange ==
  \A p \in Process : appends[p].at = "put" => appends[p].sequence <= Cardinality(entries)

UniqueNumbers == \A e, f \in entries : e.sequence = f.sequence => e = f

StoredInEntries == \A p \in Process : appends[p].at = "stored" => EntryOf(p) \in entries

NumbersInv == MemoryTypeOK /\ SequenceIsWhole /\ PutsInRange /\ UniqueNumbers /\ StoredInEntries

LEMMA SequencesOfEntries ==
  /\ \A n : n \in Sequences <=> \E e \in entries : n = e.sequence
  /\ \A n : n \in Sequences' <=> \E e \in entries' : n = e.sequence
BY DEF Sequences

\* A put without a conflict adds the next number, or nothing.
LEMMA PutAddsNext ==
  ASSUME NumbersInv, NEW p \in Process, appends[p].at = "put", ~Conflicts(p),
         entries' = entries \cup {EntryOf(p)}
  PROVE  SequenceIsWhole' /\ UniqueNumbers' /\ Cardinality(entries) <= Cardinality(entries')
<1>. DEFINE n == Cardinality(entries)
<1>1. IsFiniteSet(entries) /\ n \in Nat
  BY FS_CardinalityType DEF NumbersInv, MemoryTypeOK
<1>2. appends[p].sequence \in Nat /\ EntryOf(p).sequence = appends[p].sequence
  <2>1. MemoryTypeOK
    BY DEF NumbersInv
  <2>2. appends[p].sequence \in 0..(MaxRecords - 1)
    BY <2>1, InProgress
  <2>. QED
    BY <2>2, MemoryAssumption DEF EntryOf
<1>3. n = Cardinality(Sequences) /\ Sequences = 0..(n - 1) /\ UniqueNumbers
  BY DEF NumbersInv, SequenceIsWhole, InSequence
<1>4. CASE EntryOf(p) \in entries
  <2>1. entries' = entries
    BY <1>4
  <2>2. Sequences' = Sequences
    BY <2>1, SequencesOfEntries
  <2>3. SequenceIsWhole'
    BY <1>3, <2>1, <2>2 DEF SequenceIsWhole, InSequence
  <2>4. UniqueNumbers'
    BY <1>3, <2>1 DEF UniqueNumbers
  <2>. QED
    <3>1. Cardinality(entries') = n
      BY <2>1
    <3>2. n <= n
      BY <1>1
    <3>. QED
      BY <2>3, <2>4, <3>1, <3>2
<1>5. CASE EntryOf(p) \notin entries
  <2>1. appends[p].sequence \notin 0..(n - 1)
    BY <1>3, <1>5 DEF Conflicts
  <2>2. appends[p].sequence <= n
    BY DEF NumbersInv, PutsInRange
  <2>3. appends[p].sequence = n
    BY <1>1, <1>2, <2>1, <2>2
  <2>4. Cardinality(entries') = n + 1
    BY <1>1, <1>5, FS_AddElement
  <2>5. Sequences' = Sequences \cup {n}
    BY <1>2, <2>3, SequencesOfEntries
  <2>6. Sequences' = 0..n
    <3>1. 0..n = (0..(n - 1)) \cup {n}
      BY <1>1
    <3>. QED
      BY <1>3, <2>5, <3>1
  <2>7. Cardinality(Sequences') = n + 1
    BY <1>1, <2>6, FS_Interval
  <2>8. SequenceIsWhole'
    BY <1>1, <2>4, <2>6, <2>7 DEF SequenceIsWhole, InSequence
  <2>9. UniqueNumbers'
    BY <1>2, <1>3, <2>1, SequencesOfEntries DEF UniqueNumbers
  <2>. QED
    BY <1>1, <2>4, <2>8, <2>9
<1>. QED
  BY <1>4, <1>5

LEMMA NumbersInvKept ==
  ASSUME NumbersInv, [MemoryNext]_memory
  PROVE  NumbersInv'
<1>. USE DEF NumbersInv
<1>1. ASSUME NEW p \in Process, MemoryTypeOK', entries' = entries,
             \A q \in Process : q # p => appends'[q] = appends[q],
             appends'[p].at = "put" => appends'[p].sequence <= Cardinality(entries),
             appends'[p].at # "stored"
      PROVE  NumbersInv'
  BY <1>1 DEF SequenceIsWhole, InSequence, Sequences, PutsInRange, UniqueNumbers,
              StoredInEntries, EntryOf
<1>2. ASSUME NEW p \in Process, MemoryTypeOK', appends[p].at = "put", ~Conflicts(p),
             entries' = entries \cup {EntryOf(p)},
             \A q \in Process : q # p => appends'[q] = appends[q],
             appends'[p].at \in {"stored", "rejected"},
             EntryOf(p)' = EntryOf(p)
      PROVE  NumbersInv'
  <2>1. SequenceIsWhole' /\ UniqueNumbers' /\ Cardinality(entries) <= Cardinality(entries')
    BY <1>2, PutAddsNext
  <2>2. PutsInRange'
    <3>1. /\ Cardinality(entries) \in Nat /\ Cardinality(entries') \in Nat
      BY <1>2, FS_CardinalityType DEF MemoryTypeOK
    <3>2. SUFFICES ASSUME NEW q \in Process, appends'[q].at = "put"
                   PROVE  appends'[q].sequence <= Cardinality(entries')
      BY DEF PutsInRange
    <3>3. appends'[q] = appends[q] /\ appends[q].sequence <= Cardinality(entries)
      BY <1>2, <3>2 DEF PutsInRange
    <3>4. appends[q].sequence \in Nat
      BY <3>2, <3>3, InProgress, MemoryAssumption
    <3>. QED
      BY <2>1, <3>1, <3>3, <3>4
  <2>3. StoredInEntries'
    BY <1>2 DEF StoredInEntries, EntryOf
  <2>. QED
    BY <1>2, <2>1, <2>2, <2>3
<1>3. ASSUME NEW p \in Process, NEW record \in Record, BeginAppend(p, record)
      PROVE  NumbersInv'
  <2>1. MemoryTypeOK'
    BY <1>3, BeginAppendType
  <2>. QED
    BY <1>1, <1>3, <2>1 DEF BeginAppend, MemoryTypeOK
<1>4. ASSUME NEW p \in Process, ListRecords(p)
      PROVE  NumbersInv'
  <2>1. MemoryTypeOK' /\ Cardinality(entries) \in Nat
    BY <1>4, AppendStepType, FS_CardinalityType DEF AppendStep, MemoryTypeOK
  <2>2. CASE Reject(p)
    BY <1>1, <1>4, <2>1, <2>2 DEF ListRecords, Reject, MemoryTypeOK
  <2>3. CASE ~Reject(p)
    <3>1. appends' = [appends EXCEPT ![p].at = "put", ![p].sequence = Cardinality(entries)]
      BY <1>4, <2>3 DEF ListRecords
    <3>2. appends'[p].at = "put" /\ appends'[p].sequence = Cardinality(entries)
      BY <1>4, <3>1, InProgress DEF ListRecords, MemoryTypeOK
    <3>. QED
      BY <1>1, <1>4, <2>1, <3>1, <3>2 DEF ListRecords, MemoryTypeOK
  <2>. QED
    BY <2>2, <2>3
<1>5. ASSUME NEW p \in Process, PutRecord(p)
      PROVE  NumbersInv'
  <2>1. MemoryTypeOK'
    BY <1>5, AppendStepType DEF AppendStep
  <2>2. appends' = [appends EXCEPT ![p].at = "stored"] /\ appends \in [Process -> Append]
    BY <1>5 DEF PutRecord, MemoryTypeOK
  <2>3. appends[p].at = "put" /\ ~Conflicts(p) /\ entries' = entries \cup {EntryOf(p)}
    BY <1>5 DEF PutRecord
  <2>4. EntryOf(p)' = EntryOf(p)
    BY <2>2, <2>3, InProgress DEF EntryOf
  <2>. QED
    BY <1>2, <2>1, <2>2, <2>3, <2>4
<1>6. ASSUME NEW p \in Process, Retry(p)
      PROVE  NumbersInv'
  <2>1. MemoryTypeOK'
    BY <1>6, AppendStepType DEF AppendStep
  <2>2. CASE Reject(p)
    BY <1>1, <1>6, <2>1, <2>2 DEF Retry, Reject, MemoryTypeOK
  <2>3. CASE ~Reject(p)
    <3>1. appends' = [appends EXCEPT ![p].at = "list", ![p].attempts = @ + 1]
      BY <1>6, <2>3 DEF Retry
    <3>2. appends'[p].at = "list"
      BY <1>6, <3>1, InProgress DEF Retry, MemoryTypeOK
    <3>. QED
      BY <1>1, <1>6, <2>1, <3>1, <3>2 DEF Retry, MemoryTypeOK
  <2>. QED
    BY <2>2, <2>3
<1>7. ASSUME NEW p \in Process, AppendFails(p)
      PROVE  NumbersInv'
  <2>1. MemoryTypeOK'
    BY <1>7, AppendStepType DEF AppendStep
  <2>2. CASE entries' = entries
    BY <1>1, <1>7, <2>1, <2>2 DEF AppendFails, Reject, MemoryTypeOK
  <2>3. CASE entries' # entries
    BY <1>2, <1>7, <2>1, <2>3 DEF AppendFails, Reject, MemoryTypeOK, EntryOf
  <2>. QED
    BY <2>2, <2>3
<1>8. ASSUME NEW p \in Process, EndAppend(p)
      PROVE  NumbersInv'
  <2>1. MemoryTypeOK'
    BY <1>8, EndAppendType
  <2>. QED
    BY <1>1, <1>8, <2>1 DEF EndAppend, MemoryTypeOK, NoAppend
<1>9. CASE UNCHANGED memory
  BY <1>9 DEF memory, MemoryTypeOK, SequenceIsWhole, InSequence, Sequences, PutsInRange,
              UniqueNumbers, StoredInEntries, EntryOf
<1>. QED
  BY <1>3, <1>4, <1>5, <1>6, <1>7, <1>8, <1>9 DEF MemoryNext

LEMMA NumbersInvInit ==
  ASSUME MemoryInit
  PROVE  NumbersInv
<1>1. MemoryTypeOK
  BY FS_EmptySet, MemoryAssumption DEF MemoryInit, MemoryTypeOK, Append
<1>2. entries = {} /\ Cardinality(entries) = 0 /\ Sequences = {} /\ Cardinality(Sequences) = 0
  BY FS_EmptySet DEF MemoryInit, Sequences
<1>. QED
  BY <1>1, <1>2 DEF NumbersInv, MemoryInit, SequenceIsWhole, InSequence, PutsInRange,
                    UniqueNumbers, StoredInEntries, NoAppend

\* The numbers of a run's records never have a gap or a repetition.
THEOREM NumbersAreWhole == MemorySpec => []SequenceIsWhole
<1>1. NumbersInv => SequenceIsWhole
  BY DEF NumbersInv
<1>. QED
  BY <1>1, NumbersInvInit, NumbersInvKept, PTL DEF MemorySpec

\* What was appended is there, and none of two different records is lost.
THEOREM AppendsAreStored == MemorySpec => []StoredIsThere
<1>1. NumbersInv => StoredIsThere
  BY DEF NumbersInv, StoredIsThere, StoredInEntries, UniqueNumbers, EntryOf
<1>. QED
  BY <1>1, NumbersInvInit, NumbersInvKept, PTL DEF MemorySpec

-----------------------------------------------------------------------------
(* The memory: refusals.                                                    *)

\* Each time an append lost its number, somebody else's record took one: the
\* attempts of an append are not ahead of the records.
TriesAreCounted(p) ==
  /\ appends[p].at = "list" => appends[p].attempts <= Cardinality(entries)
  /\ appends[p].at = "put" => appends[p].attempts <= appends[p].sequence
  /\ appends[p].at = "rejected" /\ failures = 0 =>
       \/ Cardinality(entries) >= MaxRecords
       \/ Cardinality(entries) >= MaxAttempts /\ appends[p].attempts + 1 = MaxAttempts

TriesInv == NumbersInv /\ \A p \in Process : TriesAreCounted(p)

\* Records are never removed, and failures never forgotten.
LEMMA MemoryGrows ==
  ASSUME NumbersInv, NumbersInv', [MemoryNext]_memory
  PROVE  /\ Cardinality(entries) \in Nat /\ Cardinality(entries') \in Nat
         /\ Cardinality(entries) <= Cardinality(entries')
         /\ failures' = 0 => failures = 0
<1>1. Cardinality(entries) \in Nat /\ Cardinality(entries') \in Nat
  BY FS_CardinalityType DEF NumbersInv, MemoryTypeOK
<1>2. failures' = 0 => failures = 0
  <2>1. failures \in Nat
    BY MemoryAssumption DEF NumbersInv, MemoryTypeOK
  <2>2. failures' = failures \/ failures' = failures + 1
    BY DEF MemoryNext, memory, BeginAppend, ListRecords, PutRecord, Retry, AppendFails, EndAppend
  <2>. QED
    BY <2>1, <2>2
<1>3. CASE entries' = entries
  <2>1. Cardinality(entries') = Cardinality(entries)
    BY <1>3
  <2>. QED
    BY <1>1, <1>2, <2>1
<1>4. CASE entries' # entries
  <2>1. PICK p \in Process : PutRecord(p) \/ AppendFails(p)
    BY <1>4 DEF MemoryNext, memory, BeginAppend, ListRecords, Retry, EndAppend
  <2>2. appends[p].at = "put" /\ ~Conflicts(p) /\ entries' = entries \cup {EntryOf(p)}
    BY <1>4, <2>1 DEF PutRecord, AppendFails
  <2>. QED
    BY <1>1, <1>2, <2>2, PutAddsNext
<1>. QED
  BY <1>3, <1>4

\* An append that lost its number has seen one record more than it tried before.
LEMMA ConflictMeansRecord ==
  ASSUME NumbersInv, NEW p \in Process, appends[p].at = "put", Conflicts(p)
  PROVE  appends[p].sequence + 1 <= Cardinality(entries)
<1>1. Cardinality(entries) \in Nat /\ Sequences = 0..(Cardinality(entries) - 1)
  BY FS_CardinalityType DEF NumbersInv, MemoryTypeOK, SequenceIsWhole, InSequence
<1>2. appends[p].sequence \in 0..(MaxRecords - 1)
  BY InProgress DEF NumbersInv
<1>. QED
  BY <1>1, <1>2, MemoryAssumption DEF Conflicts

LEMMA TriesInvKept ==
  ASSUME TriesInv, [MemoryNext]_memory
  PROVE  TriesInv'
<1>1. NumbersInv /\ NumbersInv' /\ appends \in [Process -> Append] /\ MemoryTypeOK
  BY NumbersInvKept DEF TriesInv, NumbersInv, MemoryTypeOK
<1>2. /\ Cardinality(entries) \in Nat /\ Cardinality(entries') \in Nat
      /\ Cardinality(entries) <= Cardinality(entries')
      /\ failures' = 0 => failures = 0
  BY <1>1, MemoryGrows
<1>3. \A q \in Process : appends[q].at # "none" =>
        appends[q].attempts \in 0..(MaxAttempts - 1) /\ appends[q].sequence \in Nat
  BY <1>1, InProgress, MemoryAssumption
<1>4. ASSUME NEW q \in Process, appends'[q] = appends[q]
      PROVE  TriesAreCounted(q)'
  <2>1. TriesAreCounted(q)
    BY DEF TriesInv
  <2>2. CASE appends[q].at = "none"
    BY <1>4, <2>2 DEF TriesAreCounted
  <2>3. CASE appends[q].at # "none"
    <3>1. appends[q].attempts \in Nat
      BY <1>3, <2>3, MemoryAssumption
    <3>. QED
      BY <1>2, <1>4, <2>1, <3>1, MemoryAssumption DEF TriesAreCounted
  <2>. QED
    BY <2>2, <2>3
<1>5. ASSUME NEW p \in Process, TriesAreCounted(p)',
             \A q \in Process : q # p => appends'[q] = appends[q]
      PROVE  TriesInv'
  BY <1>1, <1>4, <1>5 DEF TriesInv
<1>6. ASSUME NEW p \in Process, NEW record \in Record, BeginAppend(p, record)
      PROVE  TriesInv'
  <2>1. appends'[p] = [at |-> "list", record |-> record, sequence |-> 0, attempts |-> 0]
    BY <1>1, <1>6 DEF BeginAppend
  <2>2. TriesAreCounted(p)'
    BY <1>2, <2>1 DEF TriesAreCounted
  <2>. QED
    BY <1>1, <1>5, <1>6, <2>2 DEF BeginAppend
<1>7. ASSUME NEW p \in Process, ListRecords(p)
      PROVE  TriesInv'
  <2>1. /\ appends[p].at = "list" /\ entries' = entries /\ InSequence
        /\ appends[p].attempts <= Cardinality(entries)
    BY <1>1, <1>7 DEF ListRecords, TriesInv, TriesAreCounted, NumbersInv, SequenceIsWhole
  <2>2. CASE Cardinality(entries) >= MaxRecords
    <3>1. Reject(p)
      BY <1>7, <2>2 DEF ListRecords
    <3>2. appends'[p].at = "rejected" /\ Cardinality(entries') >= MaxRecords
      BY <1>1, <2>1, <2>2, <3>1, InProgress DEF Reject
    <3>. QED
      BY <1>1, <1>5, <3>1, <3>2 DEF Reject, TriesAreCounted
  <2>3. CASE ~(Cardinality(entries) >= MaxRecords)
    <3>1. appends' = [appends EXCEPT ![p].at = "put", ![p].sequence = Cardinality(entries)]
      BY <1>7, <2>1, <2>3 DEF ListRecords
    <3>2. /\ appends'[p].at = "put" /\ appends'[p].sequence = Cardinality(entries)
          /\ appends'[p].attempts = appends[p].attempts
      BY <1>1, <2>1, <3>1, InProgress
    <3>. QED
      BY <1>1, <1>5, <2>1, <3>1, <3>2 DEF TriesAreCounted
  <2>. QED
    BY <2>2, <2>3
<1>8. ASSUME NEW p \in Process, PutRecord(p)
      PROVE  TriesInv'
  <2>1. appends' = [appends EXCEPT ![p].at = "stored"] /\ appends[p].at = "put"
    BY <1>8 DEF PutRecord
  <2>2. appends'[p].at = "stored"
    BY <1>1, <2>1, InProgress
  <2>. QED
    BY <1>1, <1>5, <2>1, <2>2 DEF TriesAreCounted
<1>9. ASSUME NEW p \in Process, Retry(p)
      PROVE  TriesInv'
  <2>1. /\ appends[p].at = "put" /\ Conflicts(p) /\ entries' = entries
        /\ appends[p].attempts <= appends[p].sequence
    BY <1>9 DEF Retry, TriesInv, TriesAreCounted
  <2>2. appends[p].attempts + 1 <= Cardinality(entries)
    <3>1. appends[p].sequence + 1 <= Cardinality(entries)
      BY <1>1, <2>1, ConflictMeansRecord
    <3>. QED
      BY <1>2, <1>3, <2>1, <3>1, MemoryAssumption
  <2>3. CASE appends[p].attempts + 1 < MaxAttempts
    <3>1. appends' = [appends EXCEPT ![p].at = "list", ![p].attempts = @ + 1]
      BY <1>9, <2>3 DEF Retry
    <3>2. appends'[p].at = "list" /\ appends'[p].attempts = appends[p].attempts + 1
      BY <1>1, <2>1, <3>1, InProgress
    <3>. QED
      BY <1>1, <1>5, <2>1, <2>2, <3>1, <3>2 DEF TriesAreCounted
  <2>4. CASE ~(appends[p].attempts + 1 < MaxAttempts)
    <3>1. Reject(p)
      BY <1>9, <2>4 DEF Retry
    <3>2. appends'[p].at = "rejected" /\ appends'[p].attempts = appends[p].attempts
      BY <1>1, <2>1, <3>1, InProgress DEF Reject
    <3>3. appends[p].attempts + 1 = MaxAttempts
      BY <1>3, <2>1, <2>4, MemoryAssumption
    <3>. QED
      BY <1>1, <1>5, <2>1, <2>2, <3>1, <3>2, <3>3 DEF TriesAreCounted, Reject
  <2>. QED
    BY <2>3, <2>4
<1>10. ASSUME NEW p \in Process, AppendFails(p)
       PROVE  TriesInv'
  <2>1. Reject(p) /\ failures' # 0 /\ appends[p].at \in {"list", "put"}
    BY <1>1, <1>10 DEF AppendFails, MemoryTypeOK
  <2>2. appends'[p].at = "rejected"
    BY <1>1, <2>1, InProgress DEF Reject
  <2>. QED
    BY <1>1, <1>5, <2>1, <2>2 DEF TriesAreCounted, Reject
<1>11. ASSUME NEW p \in Process, EndAppend(p)
       PROVE  TriesInv'
  BY <1>1, <1>5, <1>11 DEF EndAppend, NoAppend, TriesAreCounted
<1>12. CASE UNCHANGED memory
  BY <1>1, <1>4, <1>12 DEF memory, TriesInv
<1>. QED
  BY <1>6, <1>7, <1>8, <1>9, <1>10, <1>11, <1>12 DEF MemoryNext

\* While no call fails, an append is refused only where the records have reached
\* their bound, or others have stored as many records as it made attempts, for
\* any processes and any bounds.
THEOREM RefusalsHaveCause == MemorySpec => []RefusedForCause
<1>1. MemoryInit => TriesInv
  <2>1. ASSUME MemoryInit, NEW p \in Process PROVE TriesAreCounted(p)
    BY <2>1 DEF MemoryInit, NoAppend, TriesAreCounted
  <2>. QED
    BY <2>1, NumbersInvInit DEF TriesInv
<1>2. TriesInv => RefusedForCause
  BY DEF TriesInv, TriesAreCounted, RefusedForCause
<1>. QED
  BY <1>1, <1>2, TriesInvKept, PTL DEF MemorySpec

-----------------------------------------------------------------------------
(* The runtime: types.                                                      *)

Under == [at : Places, from : RunClaims, budget : 0..MaxBudget, next : Stage, used : 0..MaxBudget]

LEMMA UnderWay ==
  ASSUME TypeOK, NEW p \in Process, ~At(p, "idle")
  PROVE  run[p] \in Under
BY DEF TypeOK, Run, NoRun, At, Under

LEMMA GoType ==
  ASSUME TypeOK, NEW p \in Process, ~At(p, "idle"), NEW place \in Places, Go(p, place)
  PROVE  run' \in [Process -> Run]
<1>1. [run[p] EXCEPT !.at = place] \in Under
  BY UnderWay DEF Under
<1>. QED
  BY <1>1 DEF Go, TypeOK, Run, Under

LEMMA LeaveType ==
  ASSUME TypeOK, NEW p \in Process, Leave(p)
  PROVE  run' \in [Process -> Run]
BY DEF Leave, TypeOK, Run

LEMMA ClaimIdIs == ClaimId = RunClaims /\ Record = StageRecord
BY RuntimeAssumption

LEMMA TypeInit == Init => TypeOK
<1>1. Init => MemoryTypeOK
  BY NumbersInvInit DEF Init, NumbersInv
<1>. QED
  BY <1>1, RuntimeAssumption DEF Init, TypeOK, Run

LEMMA TypeKept ==
  ASSUME TypeOK, [Next]_vars
  PROVE  TypeOK'
<1>. DEFINE Frame == MemoryTypeOK' /\ calls' = calls /\ issued' = issued /\ crashes' = crashes
<1>1. ASSUME run' \in [Process -> Run], Frame PROVE TypeOK'
  BY <1>1 DEF TypeOK
<1>2. ASSUME UNCHANGED memory PROVE MemoryTypeOK'
  BY <1>2 DEF TypeOK, memory, MemoryTypeOK
<1>3. ASSUME NEW p \in Process, NEW budget \in Budgets, StartRun(p, budget)
      PROVE  TypeOK'
  <2>1. [at |-> "list", from |-> Start, budget |-> budget, next |-> 1, used |-> 0] \in Under
    BY RuntimeAssumption DEF Under, Places, RunClaims, Stage
  <2>. QED
    BY <1>1, <1>2, <1>3, <2>1 DEF StartRun, TypeOK, Run, Under
<1>4. ASSUME NEW p \in Process, NEW snapshot \in issued \cup Forged, NEW budget \in Budgets,
             ResumeRun(p, snapshot, budget)
      PROVE  TypeOK'
  <2>1. snapshot \in Snapshot
    BY RuntimeAssumption DEF TypeOK
  <2>2. [at |-> "list", from |-> snapshot, budget |-> budget,
         next |-> snapshot.next, used |-> snapshot.used] \in Under
    BY <2>1, RuntimeAssumption DEF Under, Places, RunClaims, Snapshot
  <2>. QED
    BY <1>1, <1>2, <1>4, <2>2 DEF ResumeRun, TypeOK, Run, Under
<1>5. ASSUME NEW p \in Process, ListHistory(p)
      PROVE  TypeOK'
  <2>1. run' \in [Process -> Run]
    BY <1>5, GoType, LeaveType DEF ListHistory, At, Places
  <2>. QED
    BY <1>1, <1>2, <1>5, <2>1 DEF ListHistory
<1>6. ASSUME NEW p \in Process, claims' = claims \cup {run[p].from}, At(p, "claim")
      PROVE  claims' \subseteq ClaimId
  BY <1>6, UnderWay, ClaimIdIs DEF At, Under, TypeOK, MemoryTypeOK
<1>7. ASSUME NEW p \in Process, Claim(p)
      PROVE  TypeOK'
  <2>1. run' \in [Process -> Run]
    BY <1>7, GoType DEF Claim, At, Places
  <2>2. MemoryTypeOK'
    BY <1>6, <1>7 DEF Claim, TakeClaim, TypeOK, MemoryTypeOK
  <2>. QED
    BY <1>7, <2>1, <2>2 DEF Claim, TypeOK
<1>8. ASSUME NEW p \in Process, ClaimRefused(p)
      PROVE  TypeOK'
  BY <1>1, <1>2, <1>8, LeaveType DEF ClaimRefused
<1>9. ASSUME NEW p \in Process, MemoryFails(p)
      PROVE  TypeOK'
  <2>1. run' \in [Process -> Run]
    BY <1>9, LeaveType DEF MemoryFails
  <2>2. claims' \subseteq ClaimId
    BY <1>6, <1>9 DEF MemoryFails, TypeOK, MemoryTypeOK
  <2>3. failures' \in 0..MaxFailures
    BY <1>9, MemoryAssumption DEF MemoryFails, TypeOK, MemoryTypeOK
  <2>4. MemoryTypeOK'
    BY <1>9, <2>2, <2>3 DEF MemoryFails, TypeOK, MemoryTypeOK
  <2>. QED
    BY <1>1, <1>9, <2>1, <2>4 DEF MemoryFails
<1>10. ASSUME NEW p \in Process, CallExecutor(p)
       PROVE  TypeOK'
  <2>1. run' \in [Process -> Run]
    BY <1>10, GoType DEF CallExecutor, At, Places
  <2>2. calls' \in [Stage -> Nat]
    <3>1. run[p].next \in Stage
      BY <1>10, UnderWay DEF CallExecutor, At, Under
    <3>. QED
      BY <1>10, <3>1 DEF CallExecutor, TypeOK
  <2>. QED
    BY <1>2, <1>10, <2>1, <2>2 DEF CallExecutor, TypeOK
<1>11. ASSUME NEW p \in Process, StageFails(p)
       PROVE  TypeOK'
  BY <1>1, <1>2, <1>11, LeaveType DEF StageFails
<1>12. ASSUME NEW p \in Process, NEW status \in Status, NEW tokens \in Tokens,
              StageReturns(p, status, tokens)
       PROVE  TypeOK'
  <2>1. run[p] \in Under /\ tokens \in Nat
    BY <1>12, UnderWay, RuntimeAssumption DEF StageReturns, At
  <2>2. run[p].used + tokens \in 0..MaxBudget
    BY <1>12, <2>1, RuntimeAssumption DEF StageReturns, Under
  <2>3. [run[p] EXCEPT !.at = "append", !.used = run[p].used + tokens] \in Under
    BY <2>1, <2>2 DEF Under, Places
  <2>4. run' \in [Process -> Run]
    BY <1>12, <2>3 DEF StageReturns, TypeOK, Run, Under
  <2>5. [stage |-> run[p].next, status |-> status, tokens |-> tokens] \in Record
    BY <2>1, ClaimIdIs DEF StageRecord, Under
  <2>6. MemoryTypeOK'
    BY <1>12, <2>5, BeginAppendType DEF StageReturns, TypeOK
  <2>. QED
    BY <1>1, <1>12, <2>4, <2>6 DEF StageReturns
<1>13. ASSUME NEW p \in Process, Appending(p)
       PROVE  TypeOK'
  <2>1. MemoryTypeOK'
    BY <1>13, AppendStepType DEF Appending, TypeOK
  <2>. QED
    BY <1>13, <2>1 DEF Appending, TypeOK
<1>14. ASSUME NEW p \in Process, Recorded(p)
       PROVE  TypeOK'
  <2>1. MemoryTypeOK'
    BY <1>14, EndAppendType DEF Recorded, TypeOK
  <2>2. run[p] \in Under
    BY <1>14, UnderWay DEF Recorded, At
  <2>3. CASE appends[p].record.status = "handoff"
    <3>1. run' \in [Process -> Run]
      BY <1>14, <2>3, LeaveType DEF Recorded
    <3>2. SnapshotFor(p) \in Snapshot
      BY <2>2 DEF SnapshotFor, Under, Snapshot
    <3>3. issued' \subseteq Snapshot
      BY <1>14, <2>3, <3>2 DEF Recorded, TypeOK
    <3>. QED
      BY <1>14, <2>1, <3>1, <3>3 DEF Recorded, TypeOK
  <2>4. CASE appends[p].record.status # "handoff"
    <3>1. CASE run[p].next = Stages
      BY <1>1, <1>14, <2>1, <2>4, <3>1, GoType DEF Recorded, At, Places
    <3>2. CASE run[p].next # Stages
      <4>1. run[p].next + 1 \in Stage
        BY <2>2, <3>2, RuntimeAssumption DEF Under, Stage
      <4>2. [run[p] EXCEPT !.at = "ready", !.next = run[p].next + 1] \in Under
        BY <2>2, <4>1 DEF Under, Places
      <4>3. run' \in [Process -> Run]
        BY <1>14, <2>4, <3>2, <4>2 DEF Recorded, TypeOK, Run, Under
      <4>. QED
        BY <1>1, <1>14, <2>1, <2>4, <4>3 DEF Recorded
    <3>. QED
      BY <3>1, <3>2
  <2>. QED
    BY <2>3, <2>4
<1>15. ASSUME NEW p \in Process, NotRecorded(p)
       PROVE  TypeOK'
  BY <1>1, <1>15, EndAppendType, LeaveType DEF NotRecorded, TypeOK
<1>16. ASSUME NEW p \in Process, Return(p)
       PROVE  TypeOK'
  BY <1>1, <1>2, <1>16, LeaveType DEF Return
<1>17. ASSUME NEW p \in Process, Crash(p)
       PROVE  TypeOK'
  <2>1. run' \in [Process -> Run]
    BY <1>17, LeaveType DEF Crash
  <2>2. MemoryTypeOK'
    BY <1>17 DEF Crash, TypeOK, MemoryTypeOK, Append
  <2>3. crashes' \in 0..MaxCrashes
    BY <1>17, RuntimeAssumption DEF Crash, TypeOK
  <2>. QED
    BY <1>17, <2>1, <2>2, <2>3 DEF Crash, TypeOK
<1>18. CASE UNCHANGED vars
  BY <1>18 DEF vars, TypeOK, MemoryTypeOK
<1>. QED
  BY <1>3, <1>4, <1>5, <1>7, <1>8, <1>9, <1>10, <1>11, <1>12, <1>13, <1>14, <1>15, <1>16, <1>17,
     <1>18 DEF Next

\* The types of runs, for any processes, stages, budgets and snapshots.
THEOREM TypeCorrect == Spec => []TypeOK
BY TypeInit, TypeKept, PTL DEF Spec

-----------------------------------------------------------------------------
(* At most one execution.                                                   *)

\* An append belongs to the stage it records, and puts after all there is.
AppendsLast ==
  \A p \in Process :
    /\ appends[p].at # "none" => At(p, "append")
    /\ appends[p].at = "put" => \A e \in entries : e.sequence < appends[p].sequence

ExecutionInv == TypeOK /\ OneExecution /\ ClaimDecides /\ AppendsLast

\* A history allows one claim at most.
LEMMA OneAllowed ==
  ASSUME NEW c, NEW d, HistoryAllows(c), HistoryAllows(d)
  PROVE  c = d
BY DEF HistoryAllows, HistoryMatches, EndsInHandoff

LEMMA HistoryKept ==
  ASSUME entries' = entries, NEW c
  PROVE  HistoryAllows(c)' <=> HistoryAllows(c)
<1>1. InStageOrder' <=> InStageOrder
  BY DEF InStageOrder, Before
<1>2. EndsInHandoff' <=> EndsInHandoff
  BY DEF EndsInHandoff
<1>3. SnapshotOfHistory' = SnapshotOfHistory
  BY DEF SnapshotOfHistory
<1>. QED
  BY <1>1, <1>2, <1>3 DEF HistoryAllows, HistoryMatches

\* A step that records nothing, after which nobody executes that did not before
\* and nobody is about to claim that was not.
LEMMA QuietStep ==
  ASSUME ExecutionInv, TypeOK', NEW p \in Process,
         entries' = entries, claims \subseteq claims',
         \A q \in Process : q # p => run'[q] = run[q] /\ appends'[q] = appends[q],
         Active(p)' => Active(p), run'[p].at # "claim",
         appends'[p].at # "none" => run'[p].at = "append",
         appends'[p].at = "put" => \A e \in entries : e.sequence < appends'[p].sequence
  PROVE  ExecutionInv'
<1>1. \A q \in Process : Active(q)' => Active(q)
  BY DEF Active, At
<1>2. OneExecution'
  BY <1>1 DEF ExecutionInv, OneExecution
<1>3. AppendsLast'
  BY DEF ExecutionInv, AppendsLast, At
<1>4. ClaimDecides'
  <2>1. ASSUME NEW q \in Process, At(q, "claim")', Unclaimed(run[q].from)'
        PROVE  HistoryAllows(run[q].from)' /\ \A r \in Process : ~Active(r)'
    <3>1. q # p /\ run'[q] = run[q]
      BY <2>1 DEF At
    <3>2. At(q, "claim") /\ Unclaimed(run[q].from)
      BY <2>1, <3>1 DEF At, Unclaimed
    <3>3. HistoryAllows(run[q].from) /\ \A r \in Process : ~Active(r)
      BY <3>2 DEF ExecutionInv, ClaimDecides
    <3>. QED
      BY <1>1, <3>1, <3>3, HistoryKept
  <2>2. ASSUME NEW r \in Process, NEW from \in RunClaims, Active(r)', HistoryAllows(from)'
        PROVE  ~Unclaimed(from)'
    BY <1>1, <2>2, HistoryKept DEF ExecutionInv, ClaimDecides, Unclaimed
  <2>. QED
    BY <2>1, <2>2 DEF ClaimDecides
<1>. QED
  BY <1>2, <1>3, <1>4 DEF ExecutionInv

\* A call is not, or no longer, under way, or is at its beginning.
LEMMA IdleStep ==
  ASSUME ExecutionInv, TypeOK', NEW p \in Process,
         entries' = entries, claims \subseteq claims',
         \A q \in Process : q # p => run'[q] = run[q] /\ appends'[q] = appends[q],
         run'[p].at \in {"idle", "list"}, appends'[p].at = "none"
  PROVE  ExecutionInv'
<1>1. Active(p)' => Active(p)
  BY DEF Active, At
<1>. QED
  BY <1>1, QuietStep

\* A call that executes goes on.
LEMMA OnwardStep ==
  ASSUME ExecutionInv, TypeOK', NEW p \in Process, Active(p),
         entries' = entries, claims' = claims,
         \A q \in Process : q # p => run'[q] = run[q] /\ appends'[q] = appends[q],
         \/ appends'[p].at = "list" /\ run'[p].at = "append"
         \/ appends'[p].at = "none" /\ run'[p].at # "claim"
  PROVE  ExecutionInv'
<1>1. CASE appends'[p].at = "list" /\ run'[p].at = "append"
  BY <1>1, QuietStep
<1>2. CASE appends'[p].at = "none" /\ run'[p].at # "claim"
  BY <1>2, QuietStep
<1>. QED
  BY <1>1, <1>2

\* When a stage was recorded as completed, the history allows no claim.
LEMMA NothingAllowed ==
  ASSUME NEW p \in Process, entries' = entries \cup {EntryOf(p)}, EntryOf(p) \in Entry,
         entries \subseteq Entry, \A e \in entries : e.sequence < appends[p].sequence,
         appends[p].record.status # "handoff", NEW c
  PROVE  ~HistoryAllows(c)'
<1>1. EntryOf(p) \in entries' /\ entries' # {}
  OBVIOUS
<1>2. ~EndsInHandoff'
  <2>1. SUFFICES ASSUME NEW e \in entries', e.record.status = "handoff",
                        \A f \in entries' : f.sequence <= e.sequence
                 PROVE  FALSE
    BY DEF EndsInHandoff
  <2>2. e \in entries /\ e.sequence < appends[p].sequence
    BY <2>1 DEF EntryOf
  <2>3. appends[p].sequence <= e.sequence
    BY <1>1, <2>1 DEF EntryOf
  <2>4. e.sequence \in Int /\ appends[p].sequence \in Int
    BY <2>2, MemoryAssumption DEF Entry, EntryOf
  <2>. QED
    BY <2>2, <2>3, <2>4
<1>. QED
  BY <1>1, <1>2 DEF HistoryAllows, HistoryMatches

\* The entry is added.
LEMMA PutStep ==
  ASSUME ExecutionInv, TypeOK', NEW p \in Process, appends[p].at = "put",
         entries' = entries \cup {EntryOf(p)}, claims' = claims, run' = run,
         \A q \in Process : q # p => appends'[q] = appends[q],
         \/ appends'[p].at = "stored" /\ appends'[p].record = appends[p].record
         \/ appends'[p].at = "rejected"
  PROVE  ExecutionInv'
<1>1. /\ At(p, "append") /\ Active(p)
      /\ \A e \in entries : e.sequence < appends[p].sequence
  BY DEF ExecutionInv, AppendsLast, Active
<1>2. \A q \in Process : Active(q)' => q = p
  BY <1>1 DEF ExecutionInv, OneExecution, Active, At
<1>3. OneExecution'
  BY <1>2 DEF OneExecution
<1>4. AppendsLast'
  <2>1. ASSUME NEW q \in Process, appends'[q].at = "put" PROVE FALSE
    <3>1. q # p /\ appends[q].at = "put"
      BY <2>1
    <3>2. Active(q)
      BY <3>1 DEF ExecutionInv, AppendsLast, Active
    <3>. QED
      BY <1>1, <3>1, <3>2 DEF ExecutionInv, OneExecution
  <2>2. ASSUME NEW q \in Process, appends'[q].at # "none" PROVE At(q, "append")'
    BY <1>1, <2>2 DEF ExecutionInv, AppendsLast, At
  <2>. QED
    BY <2>1, <2>2 DEF AppendsLast
<1>5. ClaimDecides'
  <2>1. ASSUME NEW q \in Process, At(q, "claim")', Unclaimed(run[q].from)'
        PROVE  FALSE
    BY <1>1, <2>1 DEF ExecutionInv, ClaimDecides, At, Unclaimed
  <2>2. ASSUME NEW r \in Process, NEW from \in RunClaims, Active(r)', HistoryAllows(from)'
        PROVE  FALSE
    <3>1. appends'[p].at = "stored" /\ appends[p].record.status # "handoff"
      BY <1>1, <1>2, <2>2 DEF Active, At
    <3>2. EntryOf(p) \in Entry /\ entries \subseteq Entry
      BY InProgress DEF ExecutionInv, TypeOK, MemoryTypeOK
    <3>. QED
      BY <1>1, <2>2, <3>1, <3>2, NothingAllowed
  <2>. QED
    BY <2>1, <2>2 DEF ClaimDecides
<1>. QED
  BY <1>3, <1>4, <1>5 DEF ExecutionInv

\* A call sees that the history allows what it is about to claim.
LEMMA SeeStep ==
  ASSUME ExecutionInv, TypeOK', NEW p \in Process, At(p, "list"), HistoryAllows(run[p].from),
         Go(p, "claim"), UNCHANGED memory
  PROVE  ExecutionInv'
<1>1. /\ entries' = entries /\ claims' = claims /\ appends' = appends
      /\ \A q \in Process : q # p => run'[q] = run[q]
      /\ run'[p].at = "claim" /\ run'[p].from = run[p].from
      /\ run[p].from \in RunClaims
  BY UnderWay DEF ExecutionInv, TypeOK, Go, memory, At, Under
<1>2. \A q \in Process : Active(q)' => Active(q)
  BY <1>1 DEF Active, At
<1>3. OneExecution' /\ AppendsLast'
  BY <1>1, <1>2 DEF ExecutionInv, OneExecution, AppendsLast, At
<1>4. ClaimDecides'
  <2>1. ASSUME NEW q \in Process, At(q, "claim")', Unclaimed(run[q].from)'
        PROVE  HistoryAllows(run[q].from)' /\ \A r \in Process : ~Active(r)'
    <3>1. run'[q].from = run[q].from /\ Unclaimed(run[q].from)
      BY <1>1, <2>1 DEF Unclaimed
    <3>2. HistoryAllows(run[q].from) /\ \A r \in Process : ~Active(r)
      BY <1>1, <2>1, <3>1 DEF ExecutionInv, ClaimDecides, At
    <3>. QED
      BY <1>1, <1>2, <3>1, <3>2, HistoryKept
  <2>2. ASSUME NEW r \in Process, NEW from \in RunClaims, Active(r)', HistoryAllows(from)'
        PROVE  ~Unclaimed(from)'
    BY <1>1, <1>2, <2>2, HistoryKept DEF ExecutionInv, ClaimDecides, Unclaimed
  <2>. QED
    BY <2>1, <2>2 DEF ClaimDecides
<1>. QED
  BY <1>3, <1>4 DEF ExecutionInv

\* A claim that is new: nobody executes, and whoever else is about to claim has lost.
LEMMA ClaimStep ==
  ASSUME ExecutionInv, TypeOK', NEW p \in Process, Claim(p)
  PROVE  ExecutionInv'
<1>1. /\ entries' = entries /\ appends' = appends /\ claims' = claims \cup {run[p].from}
      /\ \A q \in Process : q # p => run'[q] = run[q]
      /\ At(p, "claim") /\ run'[p].at = "ready" /\ Unclaimed(run[p].from)
  BY DEF ExecutionInv, TypeOK, Claim, TakeClaim, Go
<1>2. HistoryAllows(run[p].from) /\ \A q \in Process : ~Active(q)
  BY <1>1 DEF ExecutionInv, ClaimDecides
<1>3. \A q \in Process : Active(q)' => q = p
  BY <1>1, <1>2 DEF Active, At
<1>4. OneExecution'
  BY <1>3 DEF OneExecution
<1>5. AppendsLast'
  BY <1>1 DEF ExecutionInv, AppendsLast, At
<1>6. ClaimDecides'
  <2>1. ASSUME NEW q \in Process, At(q, "claim")', Unclaimed(run[q].from)'
        PROVE  FALSE
    <3>1. /\ run'[q] = run[q] /\ At(q, "claim") /\ Unclaimed(run[q].from)
          /\ run[q].from # run[p].from
      BY <1>1, <2>1 DEF At, Unclaimed
    <3>2. HistoryAllows(run[q].from)
      BY <3>1 DEF ExecutionInv, ClaimDecides
    <3>. QED
      BY <1>2, <3>1, <3>2, OneAllowed
  <2>2. ASSUME NEW r \in Process, NEW from \in RunClaims, Active(r)', HistoryAllows(from)'
        PROVE  ~Unclaimed(from)'
    <3>1. HistoryAllows(from)
      BY <1>1, <2>2, HistoryKept
    <3>2. from = run[p].from
      BY <1>2, <3>1, OneAllowed
    <3>. QED
      BY <1>1, <3>2 DEF Unclaimed
  <2>. QED
    BY <2>1, <2>2 DEF ClaimDecides
<1>. QED
  BY <1>4, <1>5, <1>6 DEF ExecutionInv

LEMMA AppendingStep ==
  ASSUME ExecutionInv, TypeOK', NEW p \in Process, Appending(p)
  PROVE  ExecutionInv'
<1>1. /\ At(p, "append") /\ run' = run /\ AppendStep(p) /\ TypeOK
      /\ appends \in [Process -> Append] /\ IsFiniteSet(entries) /\ MemoryTypeOK
  BY DEF Appending, ExecutionInv, TypeOK, MemoryTypeOK
<1>2. CASE ListRecords(p)
  <2>1. CASE Reject(p)
    BY <1>1, <1>2, <2>1, QuietStep DEF ListRecords, Reject, Active, At
  <2>2. CASE ~Reject(p)
    <3>1. /\ appends' = [appends EXCEPT ![p].at = "put", ![p].sequence = Cardinality(entries)]
          /\ InSequence /\ appends[p].at = "list"
      BY <1>2, <2>2 DEF ListRecords
    <3>2. appends'[p].at = "put" /\ appends'[p].sequence = Cardinality(entries)
      BY <1>1, <3>1, InProgress
    <3>3. \A e \in entries : e.sequence < Cardinality(entries)
      <4>1. Cardinality(entries) \in Nat
        BY <1>1, FS_CardinalityType
      <4>2. \A e \in entries : e.sequence \in 0..(Cardinality(entries) - 1)
        BY <3>1, SequencesOfEntries DEF InSequence
      <4>. QED
        BY <4>1, <4>2
    <3>4. \A q \in Process : q # p => run'[q] = run[q] /\ appends'[q] = appends[q]
      BY <1>1, <3>1
    <3>5. entries' = entries /\ claims \subseteq claims'
      BY <1>2 DEF ListRecords
    <3>6. Active(p) /\ run'[p].at = "append"
      BY <1>1, <3>1 DEF Active, At
    <3>. QED
      BY <3>2, <3>3, <3>4, <3>5, <3>6, QuietStep
  <2>. QED
    BY <2>1, <2>2
<1>3. CASE PutRecord(p)
  <2>1. /\ appends[p].at = "put" /\ appends' = [appends EXCEPT ![p].at = "stored"]
        /\ entries' = entries \cup {EntryOf(p)} /\ claims' = claims
    BY <1>3 DEF PutRecord
  <2>2. appends'[p].at = "stored" /\ appends'[p].record = appends[p].record
    BY <1>1, <2>1, InProgress
  <2>. QED
    BY <1>1, <2>1, <2>2, PutStep
<1>4. CASE Retry(p)
  <2>1. CASE Reject(p)
    BY <1>1, <1>4, <2>1, QuietStep DEF Retry, Reject, Active, At
  <2>2. CASE ~Reject(p)
    <3>1. /\ appends' = [appends EXCEPT ![p].at = "list", ![p].attempts = @ + 1]
          /\ appends[p].at = "put" /\ entries' = entries /\ claims' = claims
      BY <1>4, <2>2 DEF Retry
    <3>2. appends'[p].at = "list"
      BY <1>1, <3>1, InProgress
    <3>. QED
      BY <1>1, <3>1, <3>2, QuietStep DEF Active, At
  <2>. QED
    BY <2>1, <2>2
<1>5. CASE AppendFails(p)
  <2>1. CASE entries' = entries
    BY <1>1, <1>5, <2>1, QuietStep DEF AppendFails, Reject, Active, At
  <2>2. CASE entries' # entries
    BY <1>1, <1>5, <2>2, PutStep DEF AppendFails, Reject
  <2>. QED
    BY <2>1, <2>2
<1>. QED
  BY <1>1, <1>2, <1>3, <1>4, <1>5 DEF AppendStep

LEMMA ExecutionInvKept ==
  ASSUME ExecutionInv, [Next]_vars
  PROVE  ExecutionInv'
<1>1. /\ TypeOK /\ TypeOK' /\ run \in [Process -> Run] /\ appends \in [Process -> Append]
      /\ AppendsLast
  BY TypeKept DEF ExecutionInv, TypeOK, MemoryTypeOK
<1>3. ASSUME NEW p \in Process, Leave(p), entries' = entries, claims \subseteq claims',
             \A q \in Process : q # p => appends'[q] = appends[q],
             appends'[p].at = "none"
      PROVE  ExecutionInv'
  <2>1. run'[p].at = "idle" /\ \A q \in Process : q # p => run'[q] = run[q]
    BY <1>1, <1>3 DEF Leave, NoRun
  <2>. QED
    BY <1>1, <1>3, <2>1, IdleStep
<1>4. ASSUME NEW p \in Process, run[p].at # "append"
      PROVE  appends[p].at = "none"
  BY <1>1, <1>4 DEF AppendsLast, At
<1>5. ASSUME NEW p \in Process, NEW budget \in Budgets, StartRun(p, budget)
      PROVE  ExecutionInv'
  <2>1. /\ run'[p].at = "list" /\ \A q \in Process : q # p => run'[q] = run[q]
        /\ entries' = entries /\ claims' = claims /\ appends' = appends
        /\ appends[p].at = "none"
    BY <1>1, <1>4, <1>5 DEF StartRun, memory, At
  <2>. QED
    BY <1>1, <2>1, IdleStep
<1>6. ASSUME NEW p \in Process, NEW snapshot \in issued \cup Forged, NEW budget \in Budgets,
             ResumeRun(p, snapshot, budget)
      PROVE  ExecutionInv'
  <2>1. /\ run'[p].at = "list" /\ \A q \in Process : q # p => run'[q] = run[q]
        /\ entries' = entries /\ claims' = claims /\ appends' = appends
        /\ appends[p].at = "none"
    BY <1>1, <1>4, <1>6 DEF ResumeRun, memory, At
  <2>. QED
    BY <1>1, <2>1, IdleStep
<1>7. ASSUME NEW p \in Process, ListHistory(p)
      PROVE  ExecutionInv'
  <2>1. CASE InSequence /\ HistoryAllows(run[p].from)
    BY <1>1, <1>7, <2>1, SeeStep DEF ListHistory
  <2>2. CASE ~(InSequence /\ HistoryAllows(run[p].from))
    BY <1>3, <1>4, <1>7, <2>2 DEF ListHistory, memory, At
  <2>. QED
    BY <2>1, <2>2
<1>8. ASSUME NEW p \in Process, Claim(p)
      PROVE  ExecutionInv'
  BY <1>1, <1>8, ClaimStep
<1>9. ASSUME NEW p \in Process, ClaimRefused(p)
      PROVE  ExecutionInv'
  BY <1>3, <1>4, <1>9 DEF ClaimRefused, memory, At
<1>10. ASSUME NEW p \in Process, MemoryFails(p)
       PROVE  ExecutionInv'
  BY <1>3, <1>4, <1>10 DEF MemoryFails, At
<1>11. ASSUME NEW p \in Process, CallExecutor(p)
       PROVE  ExecutionInv'
  <2>1. At(p, "ready") /\ run[p] \in Under /\ run' = [run EXCEPT ![p].at = "executing"]
    BY <1>1, <1>11, UnderWay DEF CallExecutor, Go, At
  <2>2. /\ run'[p].at = "executing" /\ \A q \in Process : q # p => run'[q] = run[q]
        /\ entries' = entries /\ claims' = claims /\ appends' = appends
        /\ appends[p].at = "none"
    BY <1>1, <1>4, <1>11, <2>1 DEF CallExecutor, memory, At, Under
  <2>3. Active(p)
    BY <2>1 DEF Active, At
  <2>. QED
    BY <1>1, <2>2, <2>3, OnwardStep
<1>12. ASSUME NEW p \in Process, StageFails(p)
       PROVE  ExecutionInv'
  BY <1>3, <1>4, <1>12 DEF StageFails, memory, At
<1>13. ASSUME NEW p \in Process, NEW status \in Status, NEW tokens \in Tokens,
              StageReturns(p, status, tokens)
       PROVE  ExecutionInv'
  <2>1. /\ run[p] \in Under /\ At(p, "executing") /\ entries' = entries /\ claims' = claims
        /\ run' = [run EXCEPT ![p].at = "append", ![p].used = @ + tokens]
        /\ appends' = [appends EXCEPT ![p] =
             [at |-> "list", record |-> [stage |-> run[p].next, status |-> status, tokens |-> tokens],
              sequence |-> 0, attempts |-> 0]]
    BY <1>1, <1>13, UnderWay DEF StageReturns, BeginAppend, At
  <2>2. /\ run'[p].at = "append" /\ appends'[p].at = "list"
        /\ \A q \in Process : q # p => run'[q] = run[q] /\ appends'[q] = appends[q]
    BY <1>1, <2>1 DEF Under
  <2>3. Active(p)
    BY <2>1 DEF Active, At
  <2>. QED
    BY <1>1, <2>1, <2>2, <2>3, OnwardStep
<1>14. ASSUME NEW p \in Process, Appending(p)
       PROVE  ExecutionInv'
  BY <1>1, <1>14, AppendingStep
<1>15. ASSUME NEW p \in Process, Recorded(p)
       PROVE  ExecutionInv'
  <2>1. /\ entries' = entries /\ claims' = claims /\ appends' = [appends EXCEPT ![p] = NoAppend]
        /\ At(p, "append") /\ appends[p].at = "stored" /\ run[p] \in Under
    BY <1>1, <1>15, UnderWay DEF Recorded, EndAppend, At
  <2>2. appends'[p].at = "none"
    BY <1>1, <2>1 DEF NoAppend
  <2>3. \A q \in Process : q # p => appends'[q] = appends[q]
    BY <1>1, <2>1
  <2>4. CASE appends[p].record.status = "handoff"
    BY <1>1, <1>3, <1>15, <2>1, <2>2, <2>4 DEF Recorded
  <2>5. CASE appends[p].record.status # "handoff"
    <3>1. Active(p)
      BY <2>1, <2>5 DEF Active
    <3>2. CASE Go(p, "completed")
      <4>1. run'[p].at = "completed" /\ \A q \in Process : q # p => run'[q] = run[q]
        BY <1>1, <2>1, <3>2 DEF Go, Under
      <4>. QED
        BY <1>1, <2>1, <2>2, <2>3, <3>1, <4>1, OnwardStep
    <3>3. CASE ~Go(p, "completed")
      <4>1. run' = [run EXCEPT ![p].at = "ready", ![p].next = @ + 1]
        BY <1>15, <2>5, <3>3 DEF Recorded
      <4>2. run'[p].at = "ready" /\ \A q \in Process : q # p => run'[q] = run[q]
        BY <1>1, <2>1, <4>1 DEF Under
      <4>. QED
        BY <1>1, <2>1, <2>2, <2>3, <3>1, <4>2, OnwardStep
    <3>. QED
      BY <3>2, <3>3
  <2>. QED
    BY <2>4, <2>5
<1>16. ASSUME NEW p \in Process, NotRecorded(p)
       PROVE  ExecutionInv'
  BY <1>1, <1>3, <1>16 DEF NotRecorded, EndAppend, NoAppend
<1>17. ASSUME NEW p \in Process, Return(p)
       PROVE  ExecutionInv'
  BY <1>3, <1>4, <1>17 DEF Return, memory, At
<1>18. ASSUME NEW p \in Process, Crash(p)
       PROVE  ExecutionInv'
  BY <1>1, <1>3, <1>18 DEF Crash, NoAppend
<1>19. CASE UNCHANGED vars
  <2>1. entries' = entries /\ claims' = claims /\ run' = run /\ appends' = appends
    BY <1>19 DEF vars
  <2>2. /\ OneExecution' /\ AppendsLast'
        /\ \A p \in Process : (Active(p)' <=> Active(p)) /\ (At(p, "claim")' <=> At(p, "claim"))
    BY <2>1 DEF ExecutionInv, OneExecution, AppendsLast, Active, At
  <2>3. \A c : (Unclaimed(c)' <=> Unclaimed(c)) /\ (HistoryAllows(c)' <=> HistoryAllows(c))
    BY <2>1, HistoryKept DEF Unclaimed
  <2>4. ClaimDecides'
    <3>1. ASSUME NEW q \in Process, At(q, "claim")', Unclaimed(run[q].from)'
          PROVE  HistoryAllows(run[q].from)' /\ \A r \in Process : ~Active(r)'
      BY <2>1, <2>2, <2>3, <3>1 DEF ExecutionInv, ClaimDecides, Unclaimed
    <3>2. ASSUME NEW r \in Process, NEW from \in RunClaims, Active(r)', HistoryAllows(from)'
          PROVE  ~Unclaimed(from)'
      BY <2>2, <2>3, <3>2 DEF ExecutionInv, ClaimDecides
    <3>. QED
      BY <3>1, <3>2 DEF ClaimDecides
  <2>. QED
    BY <1>1, <2>2, <2>4 DEF ExecutionInv
<1>. QED
  BY <1>5, <1>6, <1>7, <1>8, <1>9, <1>10, <1>11, <1>12, <1>13, <1>14, <1>15, <1>16, <1>17, <1>18,
     <1>19 DEF Next

LEMMA ExecutionInvInit ==
  ASSUME Init
  PROVE  ExecutionInv
<1>1. /\ \A p \in Process : run[p].at = "idle" /\ appends[p].at = "none"
  BY DEF Init, MemoryInit, NoRun, NoAppend
<1>2. \A p \in Process : ~Active(p)
  BY <1>1 DEF Active, At
<1>3. OneExecution /\ AppendsLast /\ ClaimDecides
  BY <1>1, <1>2 DEF OneExecution, AppendsLast, ClaimDecides, At
<1>. QED
  BY <1>3, TypeInit DEF ExecutionInv

\* The inductive invariant: who may still claim, and who executes.
THEOREM ClaimsDecide == Spec => []ClaimDecides
<1>1. ExecutionInv => ClaimDecides
  BY DEF ExecutionInv
<1>. QED
  BY <1>1, ExecutionInvInit, ExecutionInvKept, PTL DEF Spec

\* At most one call executes the run, whoever starts and resumes it from whatever
\* snapshots, and wherever calls fail or crash.
THEOREM ExecutedByOne == Spec => []OneExecution
<1>1. ExecutionInv => OneExecution
  BY DEF ExecutionInv
<1>. QED
  BY <1>1, ExecutionInvInit, ExecutionInvKept, PTL DEF Spec

-----------------------------------------------------------------------------
(* The tokens of a history.  That they are added up in some order, and that the *)
(* order does not matter, is by induction over finite sets: a counterexample  *)
(* with a smallest set has none.                                           *)

\* The element that a sum takes first.
Chosen(s) == CHOOSE x \in s : TRUE

\* f adds up the tokens of each subset of S.
AddsUp(f, S) ==
  f = [s \in SUBSET S |->
         IF s = {} THEN 0
         ELSE (CHOOSE x \in s : TRUE).record.tokens + f[s \ {CHOOSE x \in s : TRUE}]]

Sum(S) == CHOOSE f : AddsUp(f, S)

\* TokensOf() is the sum that this defines.
LEMMA TokensAreSum == \A S : TokensOf(S) = Sum(S)[S]
BY DEF TokensOf, MapThenSumSet, MapThenFoldSet, Sum, AddsUp

\* Of some of the subsets of a finite set, one has none of the others in it.
LEMMA SmallestSubset ==
  ASSUME NEW S, IsFiniteSet(S), NEW T \in SUBSET (SUBSET S), T # {}
  PROVE  \E m \in T : \A s \in T : s \subseteq m => s = m
<1>1. IsWellFoundedOn(StrictSubsetOrdering(S), SUBSET S)
  BY FS_StrictSubsetOrderingWellFounded, FS_FiniteSubsetsOfFinite
<1>2. PICK m \in T : \A s \in T : ~(<<s, m>> \in StrictSubsetOrdering(S))
  BY <1>1, WFMin
<1>. QED
  BY <1>2 DEF StrictSubsetOrdering

\* What it takes to add up the tokens of s.
LEMMA AddsUpAt ==
  ASSUME NEW f, NEW S, AddsUp(f, S), NEW s \in SUBSET S
  PROVE  /\ s = {} => f[s] = 0
         /\ s # {} => /\ Chosen(s) \in s /\ s \ {Chosen(s)} \in SUBSET S
                      /\ f[s] = Chosen(s).record.tokens + f[s \ {Chosen(s)}]
<1>1. f[s] = IF s = {} THEN 0
             ELSE (CHOOSE x \in s : TRUE).record.tokens + f[s \ {CHOOSE x \in s : TRUE}]
  BY Zenon DEF AddsUp
<1>2. s # {} => Chosen(s) \in s
  BY DEF Chosen
<1>. QED
  BY <1>1, <1>2 DEF Chosen

\* There is one way at most to add up the tokens of a set.
LEMMA SumsAgree ==
  ASSUME NEW S, IsFiniteSet(S), NEW U, NEW f, NEW g, AddsUp(f, S), AddsUp(g, U)
  PROVE  \A s : s \subseteq S /\ s \subseteq U => f[s] = g[s]
<1> DEFINE T == {s \in SUBSET S : s \subseteq U /\ f[s] # g[s]}
<1>1. SUFFICES ASSUME T # {} PROVE FALSE
  OBVIOUS
<1>2. PICK m \in T : \A s \in T : s \subseteq m => s = m
  <2>1. T \in SUBSET (SUBSET S)
    OBVIOUS
  <2>. HIDE DEF T
  <2>. QED
    BY <1>1, <2>1, SmallestSubset
<1>3. m \in SUBSET S /\ m \in SUBSET U /\ f[m] # g[m]
  BY <1>2
<1>4. CASE m = {}
  BY <1>3, <1>4, AddsUpAt
<1>5. CASE m # {}
  <2>1. /\ Chosen(m) \in m
        /\ f[m] = Chosen(m).record.tokens + f[m \ {Chosen(m)}]
        /\ g[m] = Chosen(m).record.tokens + g[m \ {Chosen(m)}]
    BY <1>3, <1>5, AddsUpAt
  <2>2. m \ {Chosen(m)} \notin T
    BY <1>2, <2>1
  <2>3. f[m \ {Chosen(m)}] = g[m \ {Chosen(m)}]
    BY <1>3, <2>2
  <2>. QED
    BY <1>3, <2>1, <2>3
<1>. QED
  BY <1>4, <1>5

\* And there is one, for every finite set.
LEMMA SumAddsUp ==
  ASSUME NEW S, IsFiniteSet(S)
  PROVE  AddsUp(Sum(S), S)
<1> DEFINE T == {s \in SUBSET S : ~\E f : AddsUp(f, s)}
<1>1. SUFFICES T = {}
  <2>1. T = {} => \E f : AddsUp(f, S)
    OBVIOUS
  <2>. QED
    BY <2>1 DEF Sum
<1>2. SUFFICES ASSUME T # {} PROVE FALSE
  OBVIOUS
<1>3. PICK m \in T : \A s \in T : s \subseteq m => s = m
  <2>1. T \in SUBSET (SUBSET S)
    OBVIOUS
  <2>. HIDE DEF T
  <2>. QED
    BY <1>2, <2>1, SmallestSubset
<1>4. m \in SUBSET S /\ ~\E f : AddsUp(f, m)
  BY <1>3
<1>5. ASSUME NEW s \in SUBSET m, s # m
      PROVE  AddsUp(Sum(s), s) /\ IsFiniteSet(s)
  <2>1. s \notin T /\ s \in SUBSET S
    BY <1>3, <1>4, <1>5
  <2>2. \E f : AddsUp(f, s)
    BY <2>1
  <2>3. IsFiniteSet(s)
    BY <2>1, FS_Subset
  <2>. QED
    BY <2>2, <2>3 DEF Sum
<1> DEFINE of(s) == IF s = {} THEN 0
                    ELSE Chosen(s).record.tokens + Sum(s \ {Chosen(s)})[s \ {Chosen(s)}]
           f == [s \in SUBSET m |-> of(s)]
<1>6. ASSUME NEW s \in SUBSET m, s # m
      PROVE  Sum(s)[s] = of(s)
  <2>1. AddsUp(Sum(s), s) /\ IsFiniteSet(s)
    BY <1>5, <1>6
  <2>2. CASE s = {}
    BY <2>1, <2>2, AddsUpAt
  <2>3. CASE s # {}
    <3> DEFINE r == s \ {Chosen(s)}
    <3>1. Chosen(s) \in s /\ Sum(s)[s] = Chosen(s).record.tokens + Sum(s)[r] /\ r \in SUBSET s
      BY <2>1, <2>3, AddsUpAt
    <3>2. r \in SUBSET m /\ r # m
      BY <1>6, <3>1
    <3>3. AddsUp(Sum(r), r)
      BY <1>5, <3>2
    <3>4. Sum(s)[r] = Sum(r)[r]
      BY <2>1, <3>1, <3>3, SumsAgree
    <3>. QED
      BY <2>3, <3>1, <3>4
  <2>. QED
    BY <2>2, <2>3
<1>7. ASSUME NEW s \in SUBSET m, s # {}
      PROVE  f[s] = Chosen(s).record.tokens + f[s \ {Chosen(s)}]
  <2> DEFINE r == s \ {Chosen(s)}
  <2>1. Chosen(s) \in s
    BY <1>7 DEF Chosen
  <2>2. r \in SUBSET m /\ r # m
    BY <2>1
  <2>3. f[r] = Sum(r)[r]
    BY <1>6, <2>2
  <2>4. f[s] = Chosen(s).record.tokens + Sum(r)[r]
    BY <1>7
  <2>. QED
    BY <2>3, <2>4
<1>8. f[{}] = 0
  OBVIOUS
<1> HIDE DEF of
<1>9. f = [s \in SUBSET m |->
         IF s = {} THEN 0
         ELSE (CHOOSE x \in s : TRUE).record.tokens + f[s \ {CHOOSE x \in s : TRUE}]]
  <2> DEFINE g == [s \in SUBSET m |->
         IF s = {} THEN 0
         ELSE (CHOOSE x \in s : TRUE).record.tokens + f[s \ {CHOOSE x \in s : TRUE}]]
  <2>1. \A s \in SUBSET m : of(s) = IF s = {} THEN 0
         ELSE (CHOOSE x \in s : TRUE).record.tokens + f[s \ {CHOOSE x \in s : TRUE}]
    BY <1>7, <1>8 DEF Chosen
  <2>. QED
    BY <2>1
<1>. QED
  BY <1>4, <1>9 DEF AddsUp

\* The tokens of a finite set are those of one of its elements, and those of the others.
LEMMA TokensOfChosen ==
  ASSUME NEW S, IsFiniteSet(S)
  PROVE  /\ S = {} => TokensOf(S) = 0
         /\ S # {} => /\ Chosen(S) \in S
                      /\ TokensOf(S) = Chosen(S).record.tokens + TokensOf(S \ {Chosen(S)})
<1>1. AddsUp(Sum(S), S)
  BY SumAddsUp
<1>2. CASE S = {}
  BY <1>1, <1>2, AddsUpAt, TokensAreSum
<1>3. CASE S # {}
  <2> DEFINE r == S \ {Chosen(S)}
  <2>1. Chosen(S) \in S /\ r \in SUBSET S /\ Sum(S)[S] = Chosen(S).record.tokens + Sum(S)[r]
    BY <1>1, <1>3, AddsUpAt
  <2>2. IsFiniteSet(r)
    BY <2>1, FS_Subset
  <2>3. AddsUp(Sum(r), r)
    BY <2>2, SumAddsUp
  <2>4. Sum(S)[r] = Sum(r)[r]
    BY <1>1, <2>1, <2>3, SumsAgree
  <2>. QED
    BY <1>3, <2>1, <2>4, TokensAreSum
<1>. QED
  BY <1>2, <1>3

\* Tokens are counted in whole numbers.
LEMMA TokensAreNat ==
  ASSUME NEW S, IsFiniteSet(S), \A e \in S : e.record.tokens \in Nat
  PROVE  TokensOf(S) \in Nat
<1> DEFINE T == {s \in SUBSET S : TokensOf(s) \notin Nat}
<1>1. SUFFICES ASSUME T # {} PROVE FALSE
  OBVIOUS
<1>2. PICK m \in T : \A s \in T : s \subseteq m => s = m
  <2>1. T \in SUBSET (SUBSET S)
    OBVIOUS
  <2>. HIDE DEF T
  <2>. QED
    BY <1>1, <2>1, SmallestSubset
<1>3. m \in SUBSET S /\ TokensOf(m) \notin Nat /\ IsFiniteSet(m)
  BY <1>2, FS_Subset
<1>4. m # {} /\ Chosen(m) \in m /\ TokensOf(m) = Chosen(m).record.tokens + TokensOf(m \ {Chosen(m)})
  BY <1>3, TokensOfChosen
<1>5. TokensOf(m \ {Chosen(m)}) \in Nat
  BY <1>2, <1>3, <1>4
<1>6. Chosen(m).record.tokens \in Nat
  BY <1>3, <1>4
<1>. QED
  BY <1>3, <1>4, <1>5, <1>6

\* An element adds its tokens, in whatever order they are added up.
LEMMA TokensOfOneMore ==
  ASSUME NEW S, IsFiniteSet(S), NEW e, e \notin S,
         \A d \in S \cup {e} : d.record.tokens \in Nat
  PROVE  TokensOf(S \cup {e}) = TokensOf(S) + e.record.tokens
<1> DEFINE Bad(s, d) == d \notin s /\ TokensOf(s \cup {d}) # TokensOf(s) + d.record.tokens
           All == S \cup {e}
           T == {s \in SUBSET All : \E d \in All : Bad(s, d)}
<1>1. SUFFICES ASSUME T # {} PROVE FALSE
  OBVIOUS
<1>2. IsFiniteSet(All)
  BY FS_AddElement
<1>3. PICK m \in T : \A s \in T : s \subseteq m => s = m
  <2>1. T \in SUBSET (SUBSET All)
    OBVIOUS
  <2>. HIDE DEF T, All
  <2>. QED
    BY <1>1, <1>2, <2>1, SmallestSubset
<1>4. PICK d \in All : Bad(m, d)
  BY <1>3
<1> DEFINE u == m \cup {d}
<1>5. m \subseteq All /\ d \in All /\ d \notin m /\ u \subseteq All /\ u # {}
  BY <1>3, <1>4
<1>6. IsFiniteSet(m) /\ IsFiniteSet(u)
  BY <1>2, <1>5, FS_Subset
<1>7. Chosen(u) \in u /\ TokensOf(u) = Chosen(u).record.tokens + TokensOf(u \ {Chosen(u)})
  BY <1>5, <1>6, TokensOfChosen
<1>8. \A s \in SUBSET All : TokensOf(s) \in Nat
  <2>1. ASSUME NEW s \in SUBSET All PROVE TokensOf(s) \in Nat
    <3>1. IsFiniteSet(s)
      BY <1>2, FS_Subset
    <3>. QED
      BY <3>1, TokensAreNat
  <2>. QED
    BY <2>1
<1>9. CASE Chosen(u) = d
  <2>1. u \ {Chosen(u)} = m
    BY <1>5, <1>9
  <2>2. TokensOf(u) = d.record.tokens + TokensOf(m)
    BY <1>7, <1>9, <2>1
  <2>3. d.record.tokens \in Nat /\ TokensOf(m) \in Nat
    BY <1>5, <1>8
  <2>. QED
    BY <1>4, <2>2, <2>3
<1>10. CASE Chosen(u) # d
  <2> DEFINE x == Chosen(u)
             r == m \ {x}
  <2>0. x \in m /\ x # d
    BY <1>7, <1>10
  <2>1. x \in m /\ u \ {x} = r \cup {d} /\ r \cup {x} = m /\ d \notin r /\ x \notin r
        /\ r \in SUBSET All
    <3>. HIDE DEF x, All
    <3>1. u \ {x} = r \cup {d}
      BY <2>0
    <3>2. r \cup {x} = m
      BY <2>0
    <3>. QED
      BY <1>5, <2>0, <3>1, <3>2
  <2>2. r \notin T
    BY <1>3, <2>1
  <2>3. TokensOf(r \cup {d}) = TokensOf(r) + d.record.tokens
    BY <1>5, <2>1, <2>2
  <2>4. TokensOf(r \cup {x}) = TokensOf(r) + x.record.tokens
    BY <1>5, <2>1, <2>2
  <2>5. TokensOf(u) = x.record.tokens + TokensOf(r \cup {d})
    BY <1>7, <2>1
  <2>6. TokensOf(m) = TokensOf(r) + x.record.tokens
    BY <2>1, <2>4
  <2>7. d.record.tokens \in Nat /\ x.record.tokens \in Nat /\ TokensOf(r) \in Nat
    BY <1>5, <1>8, <2>1
  <2>8. TokensOf(u) = TokensOf(m) + d.record.tokens
    BY <2>3, <2>5, <2>6, <2>7
  <2>. QED
    BY <1>4, <2>8
<1>. QED
  BY <1>9, <1>10

-----------------------------------------------------------------------------
(* No effect of a stage is repeated, and what is handed out is true.        *)

Handoffs(s) == {e \in entries : e.record.stage = s /\ e.record.status = "handoff"}

\* The stage that the history has come to, and that it was not called more often
\* than it was handed off.
Upcoming == 1 + Cardinality(CompletedIn(entries))

Uncalled == Upcoming \in Stage => calls[Upcoming] <= Cardinality(Handoffs(Upcoming))

StagesDone ==
  \A s \in Stage : s < Upcoming =>
    \E e \in entries : e.record.stage = s /\ e.record.status = "completed"

CallsCounted ==
  \A s \in Stage : calls[s] <= 1 + Cardinality(Handoffs(s)) /\ (s > Upcoming => calls[s] = 0)

\* Whoever can still claim what the history allows calls for the first time since.
ClaimsLeft == \A from \in RunClaims : HistoryAllows(from) /\ Unclaimed(from) => Uncalled

\* A call that has not claimed is where its claim says.
FromClaim(p) ==
  run[p].at \in {"list", "claim"} =>
    IF run[p].from = Start THEN run[p].next = 1 /\ run[p].used = 0
    ELSE run[p].from = SnapshotFor(p)

\* A call that executes is where the history is.
Follows(p) ==
  /\ run[p].at \in {"ready", "executing"} =>
       run[p].next = Upcoming /\ run[p].used = TokensOf(entries)
  /\ At(p, "ready") => Uncalled
  /\ At(p, "append") /\ appends[p].at \in {"list", "put"} =>
       /\ run[p].next = Upcoming /\ appends[p].record.stage = Upcoming
       /\ run[p].used = TokensOf(entries) + appends[p].record.tokens
  /\ At(p, "append") /\ appends[p].at = "stored" /\ appends[p].record.status = "completed" =>
       run[p].next + 1 = Upcoming /\ run[p].used = TokensOf(entries) /\ Uncalled

\* What a call is about to hand out is as true as what was handed out.
HandsOff(p) ==
  At(p, "append") /\ appends[p].at = "stored" /\ appends[p].record.status = "handoff"
    /\ Unclaimed(SnapshotFor(p)) => HistoryMatches(SnapshotFor(p))

Counted == InStageOrder /\ StagesDone /\ CallsCounted /\ ClaimsLeft

HistoryInv ==
  /\ Counted /\ IssuedIsTrue
  /\ \A p \in Process : FromClaim(p) /\ Follows(p) /\ HandsOff(p)

KnownInv == ExecutionInv /\ HistoryInv

LEMMA StagesAre == Stage \subseteq Nat \ {0} /\ 1 \in Stage
BY RuntimeAssumption DEF Stage

LEMMA HistorySizes ==
  ASSUME TypeOK
  PROVE  /\ IsFiniteSet(entries) /\ Upcoming \in Nat \ {0}
         /\ IsFiniteSet(CompletedIn(entries))
         /\ \A s : IsFiniteSet(Handoffs(s)) /\ Cardinality(Handoffs(s)) \in Nat
         /\ \A e \in entries : e.record \in StageRecord /\ e.sequence \in Nat
         /\ TokensOf(entries) \in Nat
<1>1. IsFiniteSet(entries) /\ entries \subseteq Entry
  BY DEF TypeOK, MemoryTypeOK
<1>2. IsFiniteSet(CompletedIn(entries))
  BY <1>1, FS_Subset DEF CompletedIn
<1>3. Upcoming \in Nat \ {0}
  BY <1>2, FS_CardinalityType DEF Upcoming
<1>4. ASSUME NEW s PROVE IsFiniteSet(Handoffs(s)) /\ Cardinality(Handoffs(s)) \in Nat
  <2>1. IsFiniteSet(Handoffs(s))
    BY <1>1, FS_Subset DEF Handoffs
  <2>. QED
    BY <2>1, FS_CardinalityType
<1>5. \A e \in entries : e.record \in StageRecord /\ e.sequence \in Nat
  BY <1>1, RuntimeAssumption, MemoryAssumption DEF Entry
<1>6. TokensOf(entries) \in Nat
  BY <1>1, <1>5, TokensAreNat, RuntimeAssumption DEF StageRecord
<1>. QED
  BY <1>1, <1>2, <1>3, <1>4, <1>5, <1>6

\* What a history of other records is, is not changed by other steps.
LEMMA CountsKept ==
  ASSUME entries' = entries
  PROVE  /\ Upcoming' = Upcoming /\ (InStageOrder' <=> InStageOrder)
         /\ (StagesDone' <=> StagesDone)
         /\ \A s : Handoffs(s)' = Handoffs(s)
         /\ TokensOf(entries)' = TokensOf(entries)
<1>1. Upcoming' = Upcoming
  BY DEF Upcoming, CompletedIn
<1>2. InStageOrder' <=> InStageOrder
  BY DEF InStageOrder, Before
<1>3. StagesDone' <=> StagesDone
  BY <1>1 DEF StagesDone
<1>4. \A s : Handoffs(s)' = Handoffs(s)
  BY DEF Handoffs
<1>5. TokensOf(entries)' = TokensOf(entries)
  OBVIOUS
<1>. QED
  BY <1>1, <1>2, <1>3, <1>4, <1>5

LEMMA MatchKept ==
  ASSUME entries' = entries
  PROVE  /\ \A c : HistoryMatches(c)' <=> HistoryMatches(c)
         /\ \A q \in Process : SnapshotFor(q)' = SnapshotFor(q) =>
              (HistoryMatches(SnapshotFor(q))' <=> HistoryMatches(SnapshotFor(q)))
<1>1. EndsInHandoff' <=> EndsInHandoff
  BY DEF EndsInHandoff
<1>2. SnapshotOfHistory' = SnapshotOfHistory
  BY CountsKept DEF SnapshotOfHistory, Upcoming
<1>. QED
  BY <1>1, <1>2, CountsKept DEF HistoryMatches

LEMMA UncalledKept ==
  ASSUME entries' = entries, calls' = calls
  PROVE  (Uncalled' <=> Uncalled) /\ (CallsCounted' <=> CallsCounted)
<1>1. Upcoming' = Upcoming /\ \A s : Handoffs(s)' = Handoffs(s)
  BY CountsKept
<1>2. Handoffs(Upcoming)' = Handoffs(Upcoming)
  BY <1>1 DEF Handoffs
<1>3. Uncalled' <=> Uncalled
  BY <1>1, <1>2 DEF Uncalled
<1>4. CallsCounted' <=> CallsCounted
  BY <1>1 DEF CallsCounted
<1>. QED
  BY <1>3, <1>4

\* A step of p that records nothing and calls no executor.
LEMMA SameRecords ==
  ASSUME KnownInv, NEW p \in Process, entries' = entries, calls' = calls,
         claims \subseteq claims',
         \A q \in Process : q # p => run'[q] = run[q] /\ appends'[q] = appends[q],
         FromClaim(p)', Follows(p)', HandsOff(p)',
         \A snapshot \in issued' \ issued : Unclaimed(snapshot)' => HistoryMatches(snapshot)
  PROVE  HistoryInv'
<1>1. \A c : (HistoryAllows(c)' <=> HistoryAllows(c)) /\ (Unclaimed(c)' => Unclaimed(c))
  BY HistoryKept DEF Unclaimed
<1>2. \A c : HistoryMatches(c)' <=> HistoryMatches(c)
  BY MatchKept
<1>3. Counted'
  <2>1. InStageOrder' /\ StagesDone' /\ CallsCounted'
    BY CountsKept, UncalledKept DEF KnownInv, HistoryInv, Counted
  <2>2. ClaimsLeft'
    BY <1>1, UncalledKept DEF ClaimsLeft, KnownInv, HistoryInv, Counted
  <2>. QED
    BY <2>1, <2>2 DEF Counted
<1>4. IssuedIsTrue'
  BY <1>1, <1>2 DEF IssuedIsTrue, KnownInv, HistoryInv
<1>5. ASSUME NEW q \in Process, q # p
      PROVE  FromClaim(q)' /\ Follows(q)' /\ HandsOff(q)'
  <2>1. run'[q] = run[q] /\ appends'[q] = appends[q] /\ FromClaim(q) /\ Follows(q) /\ HandsOff(q)
    BY <1>5 DEF KnownInv, HistoryInv
  <2>2. FromClaim(q)'
    BY <2>1 DEF FromClaim, SnapshotFor
  <2>3. Follows(q)'
    <3>1. Upcoming' = Upcoming /\ TokensOf(entries)' = TokensOf(entries) /\ (Uncalled' <=> Uncalled)
      BY CountsKept, UncalledKept
    <3>. QED
      BY <2>1, <3>1 DEF Follows, At
  <2>4. HandsOff(q)'
    <3>1. SnapshotFor(q)' = SnapshotFor(q)
      BY <2>1 DEF SnapshotFor
    <3>2. Unclaimed(SnapshotFor(q))' => Unclaimed(SnapshotFor(q))
      BY <3>1 DEF Unclaimed
    <3>3. HistoryMatches(SnapshotFor(q)) => HistoryMatches(SnapshotFor(q))'
      BY <3>1, MatchKept
    <3>. QED
      BY <2>1, <3>2, <3>3 DEF HandsOff, At
  <2>. QED
    BY <2>2, <2>3, <2>4
<1>. QED
  BY <1>3, <1>4, <1>5 DEF HistoryInv

\* After such a step, nothing is known of a call that has ended.
LEMMA EndedRecords ==
  ASSUME KnownInv, NEW p \in Process, entries' = entries, calls' = calls,
         claims \subseteq claims',
         \A q \in Process : q # p => run'[q] = run[q] /\ appends'[q] = appends[q],
         run'[p].at \in {"idle", "completed"},
         \A snapshot \in issued' \ issued : Unclaimed(snapshot)' => HistoryMatches(snapshot)
  PROVE  HistoryInv'
<1>1. FromClaim(p)' /\ Follows(p)' /\ HandsOff(p)'
  BY DEF FromClaim, Follows, HandsOff, At
<1>. QED
  BY <1>1, SameRecords

\* An executor is called: it is the only call that executes, and it has claimed.
LEMMA CallRecords ==
  ASSUME KnownInv, NEW p \in Process, CallExecutor(p)
  PROVE  HistoryInv'
<1>1. /\ entries' = entries /\ claims' = claims /\ appends' = appends /\ issued' = issued
      /\ At(p, "ready") /\ run[p] \in Under /\ run' = [run EXCEPT ![p].at = "executing"]
      /\ calls' = [calls EXCEPT ![run[p].next] = @ + 1]
  BY UnderWay DEF CallExecutor, memory, Go, At, KnownInv, ExecutionInv
<1>2. /\ run'[p].at = "executing" /\ run'[p].next = run[p].next /\ run'[p].used = run[p].used
      /\ \A q \in Process : q # p => run'[q] = run[q]
      /\ run[p].next \in Stage
  BY <1>1 DEF Under, KnownInv, ExecutionInv, TypeOK
<1>3. run[p].next = Upcoming /\ run[p].used = TokensOf(entries) /\ Uncalled /\ Active(p)
  BY <1>1 DEF KnownInv, HistoryInv, Follows, Active, At
<1>4. calls \in [Stage -> Nat] /\ TypeOK
  BY DEF KnownInv, ExecutionInv, TypeOK
<1>5. \A c \in RunClaims : ~(HistoryAllows(c)' /\ Unclaimed(c)')
  BY <1>1, <1>3, HistoryKept DEF KnownInv, ExecutionInv, ClaimDecides, Unclaimed
<1>6. CallsCounted'
  <2> SUFFICES ASSUME NEW s \in Stage
               PROVE  calls'[s] <= 1 + Cardinality(Handoffs(s)') /\ (s > Upcoming' => calls'[s] = 0)
    BY DEF CallsCounted
  <2>1. Handoffs(s)' = Handoffs(s) /\ Upcoming' = Upcoming
    BY <1>1, CountsKept
  <2>2. calls[s] <= 1 + Cardinality(Handoffs(s)) /\ (s > Upcoming => calls[s] = 0)
    BY DEF KnownInv, HistoryInv, Counted, CallsCounted
  <2>3. CASE s = Upcoming
    <3>1. calls'[s] = calls[s] + 1 /\ calls[s] <= Cardinality(Handoffs(s))
      BY <1>1, <1>2, <1>3, <1>4, <2>3 DEF Uncalled
    <3>2. Cardinality(Handoffs(s)) \in Nat /\ calls[s] \in Nat /\ s \in Nat
      BY <1>4, HistorySizes, StagesAre
    <3>. QED
      BY <2>1, <2>3, <3>1, <3>2
  <2>4. CASE s # Upcoming
    <3>1. calls'[s] = calls[s]
      BY <1>1, <1>3, <1>4, <2>4
    <3>. QED
      BY <2>1, <2>2, <3>1
  <2>. QED
    BY <2>3, <2>4
<1>7. Counted'
  <2>1. InStageOrder' /\ StagesDone'
    BY <1>1, CountsKept DEF KnownInv, HistoryInv, Counted
  <2>. QED
    BY <1>5, <1>6, <2>1 DEF Counted, ClaimsLeft
<1>8. \A c : HistoryMatches(c) => HistoryMatches(c)'
  BY <1>1, MatchKept
<1>9. IssuedIsTrue'
  BY <1>1, <1>8 DEF IssuedIsTrue, Unclaimed, KnownInv, HistoryInv
<1>10. ASSUME NEW q \in Process PROVE FromClaim(q)' /\ Follows(q)' /\ HandsOff(q)'
  <2>1. CASE q = p
    <3>1. Upcoming' = Upcoming /\ TokensOf(entries)' = TokensOf(entries)
      BY <1>1, CountsKept
    <3>. QED
      BY <1>2, <1>3, <2>1, <3>1 DEF FromClaim, Follows, HandsOff, At
  <2>2. CASE q # p
    <3>1. run'[q] = run[q] /\ appends'[q] = appends[q] /\ FromClaim(q) /\ HandsOff(q) /\ ~Active(q)
      BY <1>1, <1>2, <1>3, <2>2 DEF KnownInv, HistoryInv, ExecutionInv, OneExecution
    <3>2. FromClaim(q)'
      BY <3>1 DEF FromClaim, SnapshotFor
    <3>3. Follows(q)'
      BY <3>1 DEF Follows, Active, At
    <3>4. SnapshotFor(q)' = SnapshotFor(q)
      BY <3>1 DEF SnapshotFor
    <3>5. HistoryMatches(SnapshotFor(q)) => HistoryMatches(SnapshotFor(q))'
      BY <1>1, <3>4, MatchKept
    <3>6. HandsOff(q)'
      BY <1>1, <3>1, <3>4, <3>5 DEF HandsOff, At, Unclaimed
    <3>. QED
      BY <3>2, <3>3, <3>6
  <2>. QED
    BY <2>1, <2>2
<1>. QED
  BY <1>7, <1>9, <1>10 DEF HistoryInv

\* A record put after all others, of the stage that the history has come to.
LEMMA PutCounts ==
  ASSUME TypeOK, InStageOrder, NEW x \in Entry, entries' = entries \cup {x},
         \A e \in entries : e.sequence < x.sequence, x.record.stage = Upcoming
  PROVE  /\ InStageOrder'
         /\ x.record.status = "completed" =>
              Upcoming' = Upcoming + 1 /\ \A s : Handoffs(s)' = Handoffs(s)
         /\ x.record.status = "handoff" =>
              /\ Upcoming' = Upcoming /\ EndsInHandoff'
              /\ Cardinality(Handoffs(Upcoming)') = Cardinality(Handoffs(Upcoming)) + 1
              /\ \A s : s # Upcoming => Handoffs(s)' = Handoffs(s)
         /\ TokensOf(entries') = TokensOf(entries) + x.record.tokens
<1>1. /\ x.record \in StageRecord /\ x.sequence \in Nat /\ x \notin entries
      /\ \A e \in entries : e.sequence \in Nat /\ e.record \in StageRecord
  BY HistorySizes, RuntimeAssumption, MemoryAssumption DEF Entry
<1>2. x.record.status \in Status /\ x.record.tokens \in Nat
  BY <1>1, RuntimeAssumption DEF StageRecord
<1>3. InStageOrder'
  <2> SUFFICES ASSUME NEW e \in entries'
               PROVE  e.record.stage = 1 + Cardinality(CompletedIn(Before(e)'))
    BY DEF InStageOrder, CompletedIn
  <2>1. CASE e = x
    <3>1. Before(e)' = entries
      BY <1>1, <2>1 DEF Before
    <3>. QED
      BY <2>1, <3>1 DEF Upcoming
  <2>2. CASE e # x
    <3>1. e \in entries /\ ~(x.sequence < e.sequence)
      BY <1>1, <2>2
    <3>2. Before(e)' = Before(e)
      BY <3>1 DEF Before
    <3>. QED
      BY <3>1, <3>2 DEF InStageOrder
  <2>. QED
    BY <2>1, <2>2
<1>4. ASSUME x.record.status = "completed"
      PROVE  Upcoming' = Upcoming + 1 /\ \A s : Handoffs(s)' = Handoffs(s)
  <2>1. CompletedIn(entries') = CompletedIn(entries) \cup {x} /\ x \notin CompletedIn(entries)
    BY <1>1, <1>4 DEF CompletedIn
  <2>2. Cardinality(CompletedIn(entries')) = Cardinality(CompletedIn(entries)) + 1
    BY <2>1, HistorySizes, FS_AddElement
  <2>3. Cardinality(CompletedIn(entries)) \in Nat
    BY HistorySizes, FS_CardinalityType
  <2>4. Upcoming' = Upcoming + 1
    BY <2>2, <2>3 DEF Upcoming
  <2>5. \A s : Handoffs(s)' = Handoffs(s)
    BY <1>4 DEF Handoffs
  <2>. QED
    BY <2>4, <2>5
<1>5. ASSUME x.record.status = "handoff"
      PROVE  /\ Upcoming' = Upcoming /\ EndsInHandoff'
             /\ Cardinality(Handoffs(Upcoming)') = Cardinality(Handoffs(Upcoming)) + 1
             /\ \A s : s # Upcoming => Handoffs(s)' = Handoffs(s)
  <2>1. CompletedIn(entries') = CompletedIn(entries)
    BY <1>5 DEF CompletedIn
  <2>2. Upcoming' = Upcoming
    BY <2>1 DEF Upcoming
  <2>3. \A s : s # Upcoming => Handoffs(s)' = Handoffs(s)
    BY DEF Handoffs
  <2> DEFINE H == Handoffs(Upcoming)
  <2>4. H' = H \cup {x} /\ x \notin H
    BY <1>1, <1>5, <2>2 DEF Handoffs
  <2>5. Cardinality(H \cup {x}) = Cardinality(H) + 1
    BY <2>4, HistorySizes, FS_AddElement
  <2>6. EndsInHandoff'
    BY <1>1, <1>5 DEF EndsInHandoff
  <2>7. Cardinality(H') = Cardinality(H) + 1
    BY <2>4, <2>5
  <2>. QED
    BY <2>2, <2>3, <2>6, <2>7
<1>6. TokensOf(entries') = TokensOf(entries) + x.record.tokens
  <2>1. IsFiniteSet(entries)
    BY HistorySizes
  <2>2. \A d \in entries \cup {x} : d.record.tokens \in Nat
    BY <1>1, RuntimeAssumption DEF StageRecord
  <2>. QED
    BY <1>1, <2>1, <2>2, TokensOfOneMore
<1>. QED
  BY <1>3, <1>4, <1>5, <1>6

LEMMA PutRecords ==
  ASSUME KnownInv, NEW p \in Process, appends[p].at = "put",
         entries' = entries \cup {EntryOf(p)}, claims' = claims, run' = run,
         calls' = calls, issued' = issued,
         \A q \in Process : q # p => appends'[q] = appends[q],
         \/ appends'[p].at = "stored" /\ appends'[p].record = appends[p].record
         \/ appends'[p].at = "rejected"
  PROVE  HistoryInv'
<1>1. /\ TypeOK /\ At(p, "append") /\ Active(p)
      /\ \A e \in entries : e.sequence < appends[p].sequence
      /\ appends[p].record \in StageRecord /\ EntryOf(p) \in Entry
  <2>1. EntryOf(p) \in Entry /\ appends[p].record \in Record
    BY InProgress DEF KnownInv, ExecutionInv, TypeOK, MemoryTypeOK
  <2>. QED
    BY <2>1, RuntimeAssumption DEF KnownInv, ExecutionInv, AppendsLast, Active
<1>2. PICK x \in Entry : /\ x = EntryOf(p) /\ x.record = appends[p].record
                          /\ x.sequence = appends[p].sequence
  BY <1>1 DEF EntryOf
<1>3. /\ run[p].next = Upcoming /\ x.record.stage = Upcoming
      /\ run[p].used = TokensOf(entries) + x.record.tokens
      /\ Counted
  BY <1>1, <1>2 DEF KnownInv, HistoryInv, Follows
<1>4. /\ InStageOrder'
      /\ x.record.status = "completed" =>
           Upcoming' = Upcoming + 1 /\ \A s : Handoffs(s)' = Handoffs(s)
      /\ x.record.status = "handoff" =>
           /\ Upcoming' = Upcoming /\ EndsInHandoff'
           /\ Cardinality(Handoffs(Upcoming)') = Cardinality(Handoffs(Upcoming)) + 1
           /\ \A s : s # Upcoming => Handoffs(s)' = Handoffs(s)
      /\ TokensOf(entries') = TokensOf(entries) + x.record.tokens
  BY <1>1, <1>2, <1>3, PutCounts DEF Counted
<1>5. x.record.status \in Status /\ x.record.status \in {"completed", "handoff"}
      /\ Upcoming \in Stage
  BY <1>1, <1>2, <1>3, RuntimeAssumption DEF StageRecord, Status
<1>6. Upcoming \in Nat /\ (\A s : Cardinality(Handoffs(s)) \in Nat) /\ calls \in [Stage -> Nat]
      /\ Stage \subseteq Nat
  BY <1>1, HistorySizes, StagesAre DEF TypeOK
<1>7. StagesDone'
  <2> SUFFICES ASSUME NEW s \in Stage, s < Upcoming'
               PROVE  \E e \in entries' : e.record.stage = s /\ e.record.status = "completed"
    BY DEF StagesDone
  <2>1. CASE s < Upcoming
    BY <1>3, <2>1 DEF Counted, StagesDone
  <2>2. CASE ~(s < Upcoming)
    <3>1. x.record.status = "completed" /\ s = Upcoming
      BY <1>4, <1>5, <1>6, <2>2
    <3>. QED
      BY <1>2, <1>3, <3>1
  <2>. QED
    BY <2>1, <2>2
<1>8. CallsCounted'
  <2> SUFFICES ASSUME NEW s \in Stage
               PROVE  calls[s] <= 1 + Cardinality(Handoffs(s)') /\ (s > Upcoming' => calls[s] = 0)
    BY DEF CallsCounted
  <2>1. calls[s] <= 1 + Cardinality(Handoffs(s)) /\ (s > Upcoming => calls[s] = 0)
    BY <1>3 DEF Counted, CallsCounted
  <2>2. Handoffs(s)' = Handoffs(s) \/ Cardinality(Handoffs(s)') = Cardinality(Handoffs(s)) + 1
    <3>1. CASE s = Upcoming /\ x.record.status = "handoff"
      <4>1. Upcoming' = Upcoming
        BY <1>4, <3>1
      <4>2. Handoffs(Upcoming)' = Handoffs(s)'
        BY <3>1, <4>1 DEF Handoffs
      <4>. QED
        BY <1>4, <3>1, <4>2
    <3>2. CASE ~(s = Upcoming /\ x.record.status = "handoff")
      BY <1>4, <1>5, <3>2
    <3>. QED
      BY <3>1, <3>2
  <2>3. Upcoming' \in Nat /\ Upcoming' >= Upcoming
    BY <1>4, <1>5, <1>6
  <2>. QED
    BY <1>6, <2>1, <2>2, <2>3
<1>9. Uncalled'
  <2>1. CASE x.record.status = "completed"
    <3>1. Upcoming' = Upcoming + 1 /\ Handoffs(Upcoming)' = Handoffs(Upcoming + 1)
      BY <1>4, <2>1 DEF Handoffs
    <3>2. Upcoming + 1 \in Stage => calls[Upcoming + 1] = 0
      BY <1>3, <1>6 DEF Counted, CallsCounted
    <3>. QED
      BY <1>6, <3>1, <3>2 DEF Uncalled
  <2>2. CASE x.record.status = "handoff"
    <3>1. calls[Upcoming] <= 1 + Cardinality(Handoffs(Upcoming))
      BY <1>3, <1>5 DEF Counted, CallsCounted
    <3>. QED
      BY <1>4, <1>6, <2>2, <3>1 DEF Uncalled
  <2>. QED
    BY <1>5, <2>1, <2>2
<1>10. Counted'
  BY <1>4, <1>7, <1>8, <1>9 DEF Counted, ClaimsLeft
<1>11. ASSUME NEW c \in Snapshot, HistoryMatches(c) PROVE ~Unclaimed(c)
  BY <1>1, <1>11, RuntimeAssumption
     DEF KnownInv, ExecutionInv, ClaimDecides, HistoryAllows, RunClaims
<1>12. IssuedIsTrue'
  BY <1>1, <1>11 DEF IssuedIsTrue, Unclaimed, KnownInv, HistoryInv, TypeOK
<1>13. ASSUME NEW q \in Process, q # p PROVE FromClaim(q)' /\ Follows(q)' /\ HandsOff(q)'
  <2>1. run'[q] = run[q] /\ appends'[q] = appends[q] /\ FromClaim(q) /\ HandsOff(q) /\ ~Active(q)
    BY <1>1, <1>13 DEF KnownInv, HistoryInv, ExecutionInv, OneExecution
  <2>2. FromClaim(q)' /\ SnapshotFor(q)' = SnapshotFor(q)
    BY <2>1 DEF FromClaim, SnapshotFor
  <2>3. Follows(q)'
    BY <2>1 DEF Follows, Active, At
  <2>4. HandsOff(q)'
    <3>1. At(q, "append") => SnapshotFor(q) \in Snapshot
      BY <1>1, UnderWay DEF At, Under, SnapshotFor, Snapshot
    <3>2. At(q, "append") /\ HistoryMatches(SnapshotFor(q)) => ~Unclaimed(SnapshotFor(q))
      BY <1>11, <3>1
    <3>3. Unclaimed(SnapshotFor(q))' <=> Unclaimed(SnapshotFor(q))
      BY <2>2 DEF Unclaimed
    <3>. QED
      BY <2>1, <3>2, <3>3 DEF HandsOff, At
  <2>. QED
    BY <2>2, <2>3, <2>4
<1>14. FromClaim(p)' /\ Follows(p)' /\ HandsOff(p)'
  <2>1. FromClaim(p)'
    BY <1>1 DEF FromClaim, At
  <2>2. Follows(p)'
    <3>1. CASE appends'[p].at = "rejected"
      BY <1>1, <3>1 DEF Follows, At
    <3>2. CASE appends'[p].at = "stored" /\ appends'[p].record = x.record
      BY <1>1, <1>3, <1>4, <1>9, <3>2 DEF Follows, At
    <3>. QED
      BY <1>2, <3>1, <3>2
  <2>3. HandsOff(p)'
    <3> SUFFICES ASSUME appends'[p].at = "stored", appends'[p].record.status = "handoff"
                 PROVE  HistoryMatches(SnapshotFor(p))'
      BY DEF HandsOff
    <3>1. x.record.status = "handoff"
      BY <1>2
    <3>2. SnapshotFor(p)' = SnapshotOfHistory'
      BY <1>3, <1>4, <3>1 DEF SnapshotFor, SnapshotOfHistory, Upcoming
    <3>. QED
      BY <1>4, <3>1, <3>2 DEF HistoryMatches
  <2>. QED
    BY <2>1, <2>2, <2>3
<1>. QED
  BY <1>10, <1>12, <1>13, <1>14 DEF HistoryInv

LEMMA AppendingRecords ==
  ASSUME KnownInv, NEW p \in Process, Appending(p)
  PROVE  HistoryInv'
<1>1. /\ At(p, "append") /\ run' = run /\ calls' = calls /\ issued' = issued /\ AppendStep(p)
      /\ claims' = claims
      /\ appends \in [Process -> Append] /\ MemoryTypeOK
  BY DEF Appending, KnownInv, ExecutionInv, TypeOK, MemoryTypeOK, AppendStep, ListRecords,
         PutRecord, Retry, AppendFails
<1>2. Follows(p) /\ FromClaim(p)
  BY DEF KnownInv, HistoryInv
<1>3. FromClaim(p)'
  BY <1>1 DEF FromClaim, At
<1>4. ASSUME entries' = entries, \A q \in Process : q # p => appends'[q] = appends[q],
             \/ appends'[p].at = "rejected"
             \/ /\ appends[p].at \in {"list", "put"} /\ appends'[p].at \in {"list", "put"}
                /\ appends'[p].record = appends[p].record
      PROVE  HistoryInv'
  <2>1. Follows(p)' /\ HandsOff(p)'
    <3>1. Upcoming' = Upcoming /\ TokensOf(entries)' = TokensOf(entries)
      BY <1>4, CountsKept
    <3>. QED
      BY <1>1, <1>2, <1>4, <3>1 DEF Follows, HandsOff, At
  <2>. QED
    BY <1>1, <1>3, <1>4, <2>1, SameRecords
<1>5. CASE ListRecords(p)
  <2>1. appends[p].at = "list" /\ entries' = entries
    BY <1>5 DEF ListRecords
  <2>2. CASE Reject(p)
    BY <1>1, <1>4, <2>1, <2>2 DEF Reject
  <2>3. CASE ~Reject(p)
    <3>1. appends' = [appends EXCEPT ![p].at = "put", ![p].sequence = Cardinality(entries)]
      BY <1>5, <2>3 DEF ListRecords
    <3>2. appends'[p].at = "put" /\ appends'[p].record = appends[p].record
      BY <1>1, <2>1, <3>1, InProgress
    <3>. QED
      BY <1>1, <1>4, <2>1, <3>1, <3>2
  <2>. QED
    BY <2>2, <2>3
<1>6. CASE PutRecord(p)
  <2>1. /\ appends[p].at = "put" /\ appends' = [appends EXCEPT ![p].at = "stored"]
        /\ entries' = entries \cup {EntryOf(p)}
    BY <1>6 DEF PutRecord
  <2>2. appends'[p].at = "stored" /\ appends'[p].record = appends[p].record
    BY <1>1, <2>1, InProgress
  <2>. QED
    BY <1>1, <2>1, <2>2, PutRecords
<1>7. CASE Retry(p)
  <2>1. appends[p].at = "put" /\ entries' = entries
    BY <1>7 DEF Retry
  <2>2. CASE Reject(p)
    BY <1>1, <1>4, <2>1, <2>2 DEF Reject
  <2>3. CASE ~Reject(p)
    <3>1. appends' = [appends EXCEPT ![p].at = "list", ![p].attempts = @ + 1]
      BY <1>7, <2>3 DEF Retry
    <3>2. appends'[p].at = "list" /\ appends'[p].record = appends[p].record
      BY <1>1, <2>1, <3>1, InProgress
    <3>. QED
      BY <1>1, <1>4, <2>1, <3>1, <3>2
  <2>. QED
    BY <2>2, <2>3
<1>8. CASE AppendFails(p)
  <2>1. CASE entries' = entries
    BY <1>1, <1>4, <1>8, <2>1 DEF AppendFails, Reject
  <2>2. CASE entries' # entries
    BY <1>1, <1>8, <2>2, PutRecords DEF AppendFails, Reject
  <2>. QED
    BY <2>1, <2>2
<1>. QED
  BY <1>1, <1>5, <1>6, <1>7, <1>8 DEF AppendStep

LEMMA RecordedRecords ==
  ASSUME KnownInv, NEW p \in Process, Recorded(p)
  PROVE  HistoryInv'
<1>1. /\ entries' = entries /\ claims' = claims /\ calls' = calls
      /\ appends' = [appends EXCEPT ![p] = NoAppend]
      /\ At(p, "append") /\ appends[p].at = "stored" /\ run[p] \in Under
      /\ run \in [Process -> Run] /\ appends \in [Process -> Append]
  BY UnderWay DEF Recorded, EndAppend, At, KnownInv, ExecutionInv, TypeOK, MemoryTypeOK
<1>2. appends'[p].at = "none" /\ \A q \in Process : q # p => appends'[q] = appends[q]
  BY <1>1 DEF NoAppend
<1>3. Follows(p) /\ HandsOff(p)
  BY DEF KnownInv, HistoryInv
<1>4. CASE appends[p].record.status = "handoff"
  <2>1. Leave(p) /\ issued' = issued \cup {SnapshotFor(p)}
    BY <1>4 DEF Recorded
  <2>2. run'[p].at = "idle" /\ \A q \in Process : q # p => run'[q] = run[q]
    BY <1>1, <2>1 DEF Leave, NoRun
  <2>3. Unclaimed(SnapshotFor(p)) => HistoryMatches(SnapshotFor(p))
    BY <1>1, <1>3, <1>4 DEF HandsOff
  <2>4. \A snapshot \in issued' \ issued : Unclaimed(snapshot)' => HistoryMatches(snapshot)
    BY <1>1, <2>1, <2>3 DEF Unclaimed
  <2>. QED
    BY <1>1, <1>2, <2>2, <2>4, EndedRecords
<1>5. CASE appends[p].record.status # "handoff"
  <2>1. issued' = issued
    BY <1>5 DEF Recorded
  <2>2. CASE Go(p, "completed")
    <3>1. run'[p].at = "completed" /\ \A q \in Process : q # p => run'[q] = run[q]
      BY <1>1, <2>2 DEF Go, Under
    <3>. QED
      BY <1>1, <1>2, <2>1, <3>1, EndedRecords
  <2>3. CASE ~Go(p, "completed")
    <3>1. run' = [run EXCEPT ![p].at = "ready", ![p].next = @ + 1]
      BY <1>5, <2>3 DEF Recorded
    <3>2. /\ run'[p].at = "ready" /\ run'[p].next = run[p].next + 1 /\ run'[p].used = run[p].used
          /\ \A q \in Process : q # p => run'[q] = run[q]
      BY <1>1, <3>1 DEF Under
    <3>3. appends[p].record.status = "completed"
      <4>1. appends[p].record \in StageRecord
        BY <1>1, InProgress, RuntimeAssumption DEF KnownInv, ExecutionInv, TypeOK
      <4>. QED
        BY <1>5, <4>1 DEF StageRecord, Status
    <3>4. run[p].next + 1 = Upcoming /\ run[p].used = TokensOf(entries) /\ Uncalled
      BY <1>1, <1>3, <3>3 DEF Follows
    <3>5. Upcoming' = Upcoming /\ TokensOf(entries)' = TokensOf(entries) /\ Uncalled'
      BY <1>1, <3>4, CountsKept, UncalledKept
    <3>6. FromClaim(p)' /\ Follows(p)' /\ HandsOff(p)'
      BY <1>2, <3>2, <3>4, <3>5 DEF FromClaim, Follows, HandsOff, At
    <3>. QED
      BY <1>1, <1>2, <2>1, <3>2, <3>6, SameRecords
  <2>. QED
    BY <2>2, <2>3
<1>. QED
  BY <1>4, <1>5

\* A claim that is new is of what the history allows, and was not executed since.
LEMMA ClaimRecords ==
  ASSUME KnownInv, NEW p \in Process, Claim(p)
  PROVE  HistoryInv'
<1>1. /\ entries' = entries /\ appends' = appends /\ claims \subseteq claims' /\ calls' = calls
      /\ issued' = issued /\ At(p, "claim") /\ Unclaimed(run[p].from)
      /\ run' = [run EXCEPT ![p].at = "ready"]
  BY DEF Claim, TakeClaim, Go
<1>2. run[p] \in Under /\ run \in [Process -> Run]
  BY <1>1, UnderWay DEF KnownInv, ExecutionInv, TypeOK, At
<1>3. /\ run'[p].at = "ready" /\ run'[p].next = run[p].next /\ run'[p].used = run[p].used
      /\ \A q \in Process : q # p => run'[q] = run[q]
  BY <1>1, <1>2 DEF Under
<1>4. run[p].from \in RunClaims /\ HistoryAllows(run[p].from)
  BY <1>1, <1>2 DEF KnownInv, ExecutionInv, ClaimDecides, Under
<1>5. Uncalled
  BY <1>1, <1>4 DEF KnownInv, HistoryInv, Counted, ClaimsLeft
<1>6. run[p].next = Upcoming /\ run[p].used = TokensOf(entries)
  <2>1. FromClaim(p)
    BY DEF KnownInv, HistoryInv
  <2>2. CASE run[p].from = Start
    <3>1. entries = {} /\ run[p].next = 1 /\ run[p].used = 0
      BY <1>1, <1>4, <2>1, <2>2 DEF FromClaim, HistoryAllows, At
    <3>2. CompletedIn(entries) = {}
      BY <3>1 DEF CompletedIn
    <3>3. Upcoming = 1
      BY <3>2, FS_EmptySet DEF Upcoming
    <3>4. TokensOf(entries) = 0
      BY <3>1, FS_EmptySet, TokensOfChosen
    <3>. QED
      BY <3>1, <3>3, <3>4
  <2>3. CASE run[p].from # Start
    <3>1. SnapshotFor(p) = SnapshotOfHistory
      BY <1>1, <1>4, <2>1, <2>3 DEF FromClaim, HistoryAllows, HistoryMatches, At
    <3>. QED
      BY <3>1 DEF SnapshotFor, SnapshotOfHistory, Upcoming
  <2>. QED
    BY <2>2, <2>3
<1>7. appends'[p].at = "none"
  BY <1>1 DEF KnownInv, ExecutionInv, AppendsLast, At
<1>8. FromClaim(p)' /\ Follows(p)' /\ HandsOff(p)'
  <2>1. Upcoming' = Upcoming /\ TokensOf(entries)' = TokensOf(entries) /\ Uncalled'
    BY <1>1, <1>5, CountsKept, UncalledKept
  <2>. QED
    BY <1>3, <1>6, <2>1 DEF FromClaim, Follows, HandsOff, At
<1>. QED
  BY <1>1, <1>3, <1>8, SameRecords

\* A call begins at the start, or at a snapshot.
LEMMA BeginRecords ==
  ASSUME KnownInv, NEW p \in Process, UNCHANGED <<memory, calls, issued>>,
         NEW from \in RunClaims, NEW budget, NEW next, NEW used,
         run' = [run EXCEPT ![p] = [at |-> "list", from |-> from, budget |-> budget,
                                    next |-> next, used |-> used]],
         IF from = Start THEN next = 1 /\ used = 0 ELSE from = [next |-> next, used |-> used]
  PROVE  HistoryInv'
<1>1. /\ entries' = entries /\ claims \subseteq claims' /\ appends' = appends
      /\ calls' = calls /\ issued' = issued /\ run \in [Process -> Run]
  BY DEF memory, KnownInv, ExecutionInv, TypeOK
<1>2. run'[p] = [at |-> "list", from |-> from, budget |-> budget, next |-> next, used |-> used]
  BY <1>1
<1>3. \A q \in Process : q # p => run'[q] = run[q]
  BY <1>1
<1>4. run'[p].at = "list" /\ run'[p].from = from /\ run'[p].next = next /\ run'[p].used = used
  BY <1>2
<1>5. FromClaim(p)' /\ Follows(p)' /\ HandsOff(p)'
  BY <1>4 DEF FromClaim, Follows, HandsOff, SnapshotFor, At
<1>. QED
  BY <1>1, <1>3, <1>5, SameRecords

\* The result of a stage is what its record will say.
LEMMA ReturnRecords ==
  ASSUME KnownInv, NEW p \in Process, NEW status \in Status, NEW tokens \in Tokens,
         StageReturns(p, status, tokens)
  PROVE  HistoryInv'
<1>1. /\ entries' = entries /\ claims \subseteq claims' /\ calls' = calls /\ issued' = issued
      /\ At(p, "executing") /\ run[p] \in Under /\ run \in [Process -> Run]
      /\ appends \in [Process -> Append]
      /\ run' = [run EXCEPT ![p].at = "append", ![p].used = @ + tokens]
  BY UnderWay DEF StageReturns, BeginAppend, At, KnownInv, ExecutionInv, TypeOK, MemoryTypeOK
<1>2. DEFINE R == [stage |-> run[p].next, status |-> status, tokens |-> tokens]
<1>3. appends' = [appends EXCEPT ![p] = [at |-> "list", record |-> R,
                                         sequence |-> 0, attempts |-> 0]]
  BY DEF StageReturns, BeginAppend
<1>4. appends'[p].at = "list" /\ appends'[p].record = R
  BY <1>1, <1>3
<1>5. /\ run'[p].at = "append" /\ run'[p].next = run[p].next
      /\ run'[p].used = run[p].used + tokens
  BY <1>1 DEF Under
<1>6. \A q \in Process : q # p => run'[q] = run[q] /\ appends'[q] = appends[q]
  BY <1>1, <1>3
<1>7. run[p].next = Upcoming /\ run[p].used = TokensOf(entries)
  BY <1>1 DEF KnownInv, HistoryInv, Follows, At
<1>8. Upcoming' = Upcoming /\ TokensOf(entries)' = TokensOf(entries)
  BY <1>1, CountsKept
<1>9. FromClaim(p)' /\ Follows(p)' /\ HandsOff(p)'
  BY <1>4, <1>5, <1>7, <1>8 DEF FromClaim, Follows, HandsOff, At
<1>. QED
  BY <1>1, <1>6, <1>9, SameRecords

LEMMA StutterRecords ==
  ASSUME KnownInv, UNCHANGED vars
  PROVE  HistoryInv'
<1>1. /\ entries' = entries /\ claims' = claims /\ appends' = appends
      /\ run' = run /\ calls' = calls /\ issued' = issued
  BY DEF vars
<1>2. \A c : (HistoryAllows(c)' <=> HistoryAllows(c)) /\ (Unclaimed(c)' <=> Unclaimed(c))
             /\ (HistoryMatches(c)' <=> HistoryMatches(c))
  BY <1>1, HistoryKept, MatchKept DEF Unclaimed
<1>3. Counted'
  BY <1>1, <1>2, CountsKept, UncalledKept DEF Counted, ClaimsLeft, KnownInv, HistoryInv
<1>4. IssuedIsTrue'
  BY <1>1, <1>2 DEF IssuedIsTrue, KnownInv, HistoryInv
<1>5. ASSUME NEW q \in Process PROVE FromClaim(q)' /\ Follows(q)' /\ HandsOff(q)'
  <2>1. FromClaim(q) /\ Follows(q) /\ HandsOff(q)
    BY DEF KnownInv, HistoryInv
  <2>2. Upcoming' = Upcoming /\ TokensOf(entries)' = TokensOf(entries) /\ (Uncalled' <=> Uncalled)
    BY <1>1, CountsKept, UncalledKept
  <2>3. SnapshotFor(q)' = SnapshotFor(q)
    BY <1>1 DEF SnapshotFor
  <2>4. HistoryMatches(SnapshotFor(q)) => HistoryMatches(SnapshotFor(q))'
    BY <1>1, <2>3, MatchKept
  <2>5. FromClaim(q)'
    BY <1>1, <2>1, <2>3 DEF FromClaim
  <2>6. Follows(q)'
    BY <1>1, <2>1, <2>2 DEF Follows, At
  <2>7. HandsOff(q)'
    BY <1>1, <2>1, <2>3, <2>4 DEF HandsOff, At, Unclaimed
  <2>. QED
    BY <2>5, <2>6, <2>7
<1>. QED
  BY <1>3, <1>4, <1>5 DEF HistoryInv

LEMMA HistoryInvKept ==
  ASSUME KnownInv, [Next]_vars
  PROVE  HistoryInv'
<1>1. /\ run \in [Process -> Run] /\ appends \in [Process -> Append]
      /\ Start \notin Snapshot /\ Start \in RunClaims /\ issued \cup Forged \subseteq Snapshot
      /\ Snapshot \subseteq RunClaims
  BY RuntimeAssumption DEF KnownInv, ExecutionInv, TypeOK, MemoryTypeOK, RunClaims
<1>2. ASSUME NEW p \in Process, Leave(p), entries' = entries, calls' = calls,
             claims \subseteq claims', issued' = issued,
             \A q \in Process : q # p => appends'[q] = appends[q]
      PROVE  HistoryInv'
  <2>1. run'[p].at = "idle" /\ \A q \in Process : q # p => run'[q] = run[q]
    BY <1>1, <1>2 DEF Leave, NoRun
  <2>. QED
    BY <1>2, <2>1, EndedRecords
<1>3. ASSUME NEW p \in Process, NEW budget \in Budgets, StartRun(p, budget)
      PROVE  HistoryInv'
  BY <1>1, <1>3, BeginRecords DEF StartRun
<1>4. ASSUME NEW p \in Process, NEW snapshot \in issued \cup Forged, NEW budget \in Budgets,
             ResumeRun(p, snapshot, budget)
      PROVE  HistoryInv'
  <2>1. snapshot \in Snapshot /\ snapshot # Start
    BY <1>1
  <2>2. snapshot = [next |-> snapshot.next, used |-> snapshot.used]
    BY <2>1 DEF Snapshot
  <2>. QED
    BY <1>1, <1>4, <2>1, <2>2, BeginRecords DEF ResumeRun
<1>5. ASSUME NEW p \in Process, ListHistory(p)
      PROVE  HistoryInv'
  <2>1. /\ entries' = entries /\ claims \subseteq claims' /\ appends' = appends
        /\ calls' = calls /\ issued' = issued /\ At(p, "list")
    BY <1>5 DEF ListHistory, memory
  <2>2. CASE Go(p, "claim")
    <3>1. run[p] \in Under
      BY <2>1, UnderWay DEF At, KnownInv, ExecutionInv
    <3>2. /\ run'[p].at = "claim" /\ run'[p].from = run[p].from
          /\ run'[p].next = run[p].next /\ run'[p].used = run[p].used
          /\ \A q \in Process : q # p => run'[q] = run[q]
      BY <1>1, <2>2, <3>1 DEF Go, Under
    <3>3. FromClaim(p)
      BY DEF KnownInv, HistoryInv
    <3>4. FromClaim(p)' /\ Follows(p)' /\ HandsOff(p)'
      BY <2>1, <3>2, <3>3 DEF FromClaim, Follows, HandsOff, SnapshotFor, At
    <3>. QED
      BY <2>1, <3>2, <3>4, SameRecords
  <2>3. CASE Leave(p)
    BY <1>2, <2>1, <2>3
  <2>. QED
    BY <1>5, <2>2, <2>3 DEF ListHistory
<1>6. ASSUME NEW p \in Process, Claim(p) PROVE HistoryInv'
  BY <1>6, ClaimRecords
<1>7. ASSUME NEW p \in Process, ClaimRefused(p) PROVE HistoryInv'
  BY <1>2, <1>7 DEF ClaimRefused, memory
<1>8. ASSUME NEW p \in Process, MemoryFails(p) PROVE HistoryInv'
  BY <1>2, <1>8 DEF MemoryFails
<1>9. ASSUME NEW p \in Process, CallExecutor(p) PROVE HistoryInv'
  BY <1>9, CallRecords
<1>10. ASSUME NEW p \in Process, StageFails(p) PROVE HistoryInv'
  BY <1>2, <1>10 DEF StageFails, memory
<1>11. ASSUME NEW p \in Process, NEW status \in Status, NEW tokens \in Tokens,
              StageReturns(p, status, tokens)
       PROVE  HistoryInv'
  BY <1>11, ReturnRecords
<1>12. ASSUME NEW p \in Process, Appending(p) PROVE HistoryInv'
  BY <1>12, AppendingRecords
<1>13. ASSUME NEW p \in Process, Recorded(p) PROVE HistoryInv'
  BY <1>13, RecordedRecords
<1>14. ASSUME NEW p \in Process, NotRecorded(p) PROVE HistoryInv'
  BY <1>1, <1>2, <1>14 DEF NotRecorded, EndAppend
<1>15. ASSUME NEW p \in Process, Return(p) PROVE HistoryInv'
  BY <1>2, <1>15 DEF Return, memory
<1>16. ASSUME NEW p \in Process, Crash(p) PROVE HistoryInv'
  BY <1>1, <1>2, <1>16 DEF Crash
<1>17. CASE UNCHANGED vars
  BY <1>17, StutterRecords
<1>. QED
  BY <1>3, <1>4, <1>5, <1>6, <1>7, <1>8, <1>9, <1>10, <1>11, <1>12, <1>13, <1>14, <1>15, <1>16,
     <1>17 DEF Next

LEMMA HistoryInvInit ==
  ASSUME Init
  PROVE  HistoryInv
<1>1. /\ entries = {} /\ issued = {} /\ calls = [s \in Stage |-> 0]
      /\ \A p \in Process : run[p].at = "idle"
  BY DEF Init, MemoryInit, NoRun
<1>2. Upcoming = 1
  <2>1. CompletedIn(entries) = {}
    BY <1>1 DEF CompletedIn
  <2>. QED
    BY <2>1, FS_EmptySet DEF Upcoming
<1>3. ASSUME NEW s PROVE Cardinality(Handoffs(s)) = 0
  <2>1. Handoffs(s) = {}
    BY <1>1 DEF Handoffs
  <2>. QED
    BY <2>1, FS_EmptySet
<1>4. Counted
  <2>1. InStageOrder
    BY <1>1 DEF InStageOrder
  <2>2. StagesDone
    BY <1>2, StagesAre DEF StagesDone
  <2>3. CallsCounted
    BY <1>1, <1>3 DEF CallsCounted
  <2>4. ClaimsLeft
    BY <1>1, <1>2, <1>3 DEF ClaimsLeft, Uncalled
  <2>. QED
    BY <2>1, <2>2, <2>3, <2>4 DEF Counted
<1>5. \A p \in Process : FromClaim(p) /\ Follows(p) /\ HandsOff(p)
  BY <1>1 DEF FromClaim, Follows, HandsOff, At
<1>. QED
  BY <1>1, <1>4, <1>5 DEF HistoryInv, IssuedIsTrue

LEMMA KnownInvHolds == Spec => []KnownInv
<1>1. Init => KnownInv
  BY ExecutionInvInit, HistoryInvInit DEF KnownInv
<1>2. KnownInv /\ [Next]_vars => KnownInv'
  BY ExecutionInvKept, HistoryInvKept DEF KnownInv
<1>. QED
  BY <1>1, <1>2, PTL DEF Spec

\* The executor of a stage is called once, and once more for each time that it was
\* recorded to have handed off, and never before the stage before it was recorded.
THEOREM EffectsHappenOnce == Spec => []EffectsOnce
<1>1. KnownInv => EffectsOnce
  <2> SUFFICES ASSUME KnownInv, NEW s \in Stage
               PROVE  /\ calls[s] <= 1 + Cardinality(Handoffs(s))
                      /\ calls[s] > 0 /\ s > 1 => \E e \in entries :
                           e.record.stage = s - 1 /\ e.record.status = "completed"
    BY DEF EffectsOnce, Handoffs
  <2>1. calls[s] <= 1 + Cardinality(Handoffs(s)) /\ (s > Upcoming => calls[s] = 0)
    BY DEF KnownInv, HistoryInv, Counted, CallsCounted
  <2>2. ASSUME calls[s] > 0, s > 1
        PROVE  \E e \in entries : e.record.stage = s - 1 /\ e.record.status = "completed"
    <3>1. Upcoming \in Nat /\ s \in Nat /\ calls[s] \in Nat
      BY HistorySizes, StagesAre DEF KnownInv, ExecutionInv, TypeOK
    <3>2. s - 1 \in Stage /\ s - 1 < Upcoming
      BY <2>1, <2>2, <3>1, RuntimeAssumption DEF Stage
    <3>. QED
      BY <3>2 DEF KnownInv, HistoryInv, Counted, StagesDone
  <2>. QED
    BY <2>1, <2>2
<1>. QED
  BY <1>1, KnownInvHolds, PTL

\* A snapshot that was handed out, and not claimed since, is true of the history.
THEOREM IssuedSnapshotsAreTrue == Spec => []IssuedIsTrue
<1>1. KnownInv => IssuedIsTrue
  BY DEF KnownInv, HistoryInv
<1>. QED
  BY <1>1, KnownInvHolds, PTL
==============================================================================
