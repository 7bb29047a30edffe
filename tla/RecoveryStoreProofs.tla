------------------------- MODULE RecoveryStoreProofs -------------------------
(***************************************************************************)
(* Theorems about RecoveryStore: any contents, keys, quota and active keys,  *)
(* and as many instances and faults as each of them says.                   *)
(***************************************************************************)
EXTENDS RecoveryStore, TLAPS, FiniteSetTheorems

\* The faults that a store is known to survive: any failing calls; and crashes of
\* its only instance, so that none goes on beside what a crash has left.
Survivable == crashes = 0 \/ \A i, j \in Instance : i = j

-----------------------------------------------------------------------------
(* The inductive invariant.                                                 *)

Sound(d, v) == <<d, v>> \in objects

\* What an operation has done so far, whatever faults there were.
OperationShape ==
  /\ op.at \in {"start", "recover"} \/ op.by \in ready
  /\ op.kind = "rekey" => op.key \in Key
  /\ op.kind = "delete" => op.digest \notin kept
  /\ op.kind = "gc" /\ op.late => kept \cap Expiring = {}
  /\ op.kind = "none" => op.at = "start"
  /\ op.at = "start" => op = Idle
  /\ op.at = "manifest" => op.kind = "put" /\ Sound(op.digest, Running)
  /\ op.at \in {"rename", "publish", "unlink", "undo", "redo"} => op.kind = "rekey"
  /\ op.at = "rename" => manifest[op.digest] = op.old
  /\ op.at \in {"rename", "publish", "undo", "redo"} =>
       Sound(op.digest, op.old) /\ Sound(op.digest, op.key)
  /\ op.at \in {"publish", "undo", "redo"} =>
       manifest[op.digest] = None /\ OwnBackup \in backups
  /\ op.at = "unlink" => manifest[op.digest] = op.key /\ Sound(op.digest, op.key)
  /\ op.at = "undo" => failures >= 1
  /\ op.at = "redo" => failures >= 2

\* The content that no failing call has made uncertain.
Sure == kept \ Uncertain

\* Such content has its manifest, except while that is replaced, or while no
\* instance runs that could take its object for an orphan.
KeptIsPublished == \A d \in Sure : d \in Published \/ Replacing(d) \/ ready = {}

\* A backup is one that a failing call has left beside others; or that of the
\* replacement in progress; or the one of its content that a crash has left, for
\* the next operation to recover.
BackupsAreOwn ==
  \A b \in backups :
    \/ b[1] \in left
    \/ op.at \in {"publish", "unlink", "undo", "redo"} /\ b = OwnBackup
    \/ /\ op.at \in {"start", "recover"} /\ ready = {}
       /\ \A c \in backups : c[1] = b[1] => c = b

KeptInv == PublishedIsRecoverable /\ KeptIsPublished /\ BackupsAreOwn

StoreInv == TypeOK /\ OperationShape /\ (Survivable => KeptInv)

-----------------------------------------------------------------------------
(* Types, and what an operation has done.                                   *)

\* The rest of an operation's record is kept when it proceeds.
LEMMA Proceeding ==
  ASSUME op \in Operation,
         NEW at \in {"recover", "run", "manifest", "rename", "publish", "unlink", "undo", "redo"},
         Proceed(at)
  PROVE  /\ op' \in Operation /\ op'.at = at
         /\ op'.by = op.by /\ op'.kind = op.kind /\ op'.digest = op.digest
         /\ op'.late = op.late /\ op'.key = op.key /\ op'.old = op.old
BY DEF Proceed, Operation

\* An operation of nobody's has no content and is at no step.
LEMMA IdleTyped == Idle \in Operation
BY DEF Idle, Operation, Kinds

LEMMA IdleFields ==
  /\ Idle.by = None /\ Idle.kind = "none" /\ Idle.digest = None
  /\ Idle.key = None /\ Idle.old = None /\ Idle.at = "start" /\ Idle.late = FALSE
BY DEF Idle

\* The clauses of TypeOK about an operation.
OpTyped ==
  /\ op \in Operation
  /\ op = Idle \/ op.by \in Instance
  /\ op.kind \in {"put", "delete"} => op.digest \in Digest
  /\ op.at \in {"rename", "publish", "unlink", "undo", "redo"}
       => op.digest \in Digest /\ op.old \in Variant /\ op.key \in Key

DiskTyped ==
  /\ objects \subseteq Digest \X Variant
  /\ manifest \in [Digest -> Variant \cup {None}]
  /\ backups \subseteq Digest \X Variant

RestTyped ==
  /\ mode \in [Instance -> Variant]
  /\ ready \subseteq Instance
  /\ kept \subseteq Digest /\ left \subseteq Digest
  /\ refusing \subseteq Instance
  /\ crashes \in 0..MaxCrashes /\ failures \in 0..MaxFailures

LEMMA TypeParts == TypeOK <=> OpTyped /\ DiskTyped /\ RestTyped
BY DEF TypeOK, OpTyped, DiskTyped, RestTyped

\* Nothing is asked of the content of an operation that has ended.
LEMMA EndTyped == End => OpTyped'
<1> SUFFICES ASSUME End PROVE OpTyped'
  OBVIOUS
<1>1. op' = Idle
  BY DEF End
<1> QED
  BY <1>1, IdleTyped, IdleFields DEF OpTyped

\* An operation that proceeds has the content that its next step needs.
LEMMA ProceedTyped ==
  ASSUME OpTyped,
         NEW at \in {"recover", "run", "manifest", "rename", "publish", "unlink", "undo", "redo"},
         Proceed(at),
         at \in {"rename", "publish", "unlink", "undo", "redo"} =>
           op.at \in {"rename", "publish", "unlink", "undo", "redo"},
         op.by \in Instance
  PROVE  OpTyped'
<1>1. op \in Operation
  BY DEF OpTyped
<1>2. op' \in Operation /\ op'.at = at /\ op'.by = op.by /\ op'.kind = op.kind
      /\ op'.digest = op.digest /\ op'.key = op.key /\ op'.old = op.old
  BY <1>1, Proceeding
<1> QED
  BY <1>2 DEF OpTyped

\* An operation that is at a step is an instance's.
LEMMA Owned == ASSUME OpTyped, op.at # "start" PROVE op.by \in Instance
BY IdleFields DEF OpTyped

LEMMA TypeInit == Init => TypeOK
BY StoreAssumption, IdleTyped, IdleFields DEF Init, TypeOK

LEMMA BeginTyped ==
  ASSUME TypeOK, NEW i \in Instance, NEW kind \in Kinds \ {"none"},
         NEW d \in Digest \cup {None}, NEW late \in BOOLEAN, NEW key \in Key \cup {None},
         Begin(i, kind, d, late, key)
  PROVE  TypeOK'
<1> DEFINE at == IF i \in ready THEN "run" ELSE "recover"
<1>1. op' = [by |-> i, kind |-> kind, digest |-> d, late |-> late, key |-> key,
             old |-> None, at |-> at]
  BY DEF Begin
<1>2. op' \in Operation /\ op'.by = i /\ op'.kind = kind /\ op'.digest = d /\ op'.at = at
  BY <1>1 DEF Operation
<1>3. OpTyped'
  <2>1. kind \in {"put", "delete"} => d \in Digest
    BY DEF Begin
  <2> QED
    BY <1>2, <2>1 DEF OpTyped
<1>4. DiskTyped' /\ RestTyped'
  BY DEF Begin, disk, faults, DiskTyped, RestTyped, TypeOK
<1> QED
  BY <1>3, <1>4, TypeParts DEF OpTyped, DiskTyped, RestTyped, TypeOK

\* A manifest that is written, or removed, is that of a digest.
LEMMA ManifestTyped ==
  ASSUME manifest \in [Digest -> Variant \cup {None}], NEW d, NEW v \in Variant \cup {None},
         manifest' = [manifest EXCEPT ![d] = v]
  PROVE  manifest' \in [Digest -> Variant \cup {None}]
OBVIOUS

LEMMA CrashTyped ==
  ASSUME TypeOK, NEW i \in Instance, Crash(i)
  PROVE  TypeOK'
<1>1. OpTyped'
  <2>1. CASE op.by = i
    BY <2>1, EndTyped DEF Crash, End
  <2>2. CASE op.by # i
    BY <2>2, TypeParts DEF Crash, OpTyped
  <2> QED
    BY <2>1, <2>2
<1>2. DiskTyped'
  BY TypeParts DEF Crash, DiskTyped, disk
<1>3. RestTyped'
  BY StoreAssumption, TypeParts DEF Crash, RestTyped
<1> QED
  BY <1>1, <1>2, <1>3 DEF OpTyped, DiskTyped, RestTyped, TypeOK

LEMMA FailsTyped == ASSUME TypeOK, OperationShape, CallFails PROVE TypeOK'
<1>1. OpTyped'
  <2>1. OpTyped
    BY TypeParts
  <2>2. op.by \in Instance
    BY <2>1, Owned DEF CallFails
  <2>3. CASE Does("rekey", "publish") \/ Does("rekey", "undo")
    BY <2>1, <2>2, <2>3, ProceedTyped DEF CallFails, Does
  <2>4. CASE ~(Does("rekey", "publish") \/ Does("rekey", "undo"))
    BY <2>4, EndTyped DEF CallFails
  <2> QED
    BY <2>3, <2>4
<1>2. DiskTyped'
  BY DEF CallFails, DiskTyped, disk, TypeOK
<1>3. left' \subseteq Digest
  BY DEF CallFails, TypeOK
<1>4. refusing' \subseteq Instance
  BY TypeParts, Owned DEF CallFails, RestTyped
<1>5. RestTyped'
  BY <1>3, <1>4, StoreAssumption DEF CallFails, RestTyped, TypeOK
<1> QED
  BY <1>1, <1>2, <1>5 DEF OpTyped, DiskTyped, RestTyped, TypeOK

\* The steps that end an operation, or leave it where it is.
LEMMA EndStepsTyped ==
  ASSUME TypeOK,
         \/ Read \/ PutNothing \/ PutManifest \/ DeleteManifest
         \/ GcEnd \/ RekeyUndo \/ RekeyEnd
  PROVE  TypeOK'
<1> USE TypeParts
<1>1. OpTyped'
  BY EndTyped DEF Read, PutNothing, PutManifest, DeleteManifest, GcEnd, RekeyUndo, RekeyEnd
<1>2. RestTyped'
  <2>1. UNCHANGED <<mode, ready, refusing, crashes, failures, left>>
    BY DEF Read, PutNothing, PutManifest, DeleteManifest, GcEnd, RekeyUndo, RekeyEnd, faults
  <2>2. kept' \subseteq Digest
    BY DEF Read, PutNothing, PutManifest, DeleteManifest, GcEnd, RekeyUndo, RekeyEnd, Does, TypeOK
  <2> QED
    BY <2>1, <2>2 DEF RestTyped
<1>3. DiskTyped'
  <2>1. CASE Read \/ PutNothing \/ GcEnd \/ RekeyEnd
    BY <2>1 DEF Read, PutNothing, GcEnd, RekeyEnd, DiskTyped, disk
  <2>2. CASE PutManifest
    <3>1. Running \in Variant
      BY <2>2, Owned DEF PutManifest, Does, Running, TypeOK
    <3> QED
      BY <2>2, <3>1 DEF PutManifest, DiskTyped
  <2>3. CASE DeleteManifest
    BY <2>3 DEF DeleteManifest, DiskTyped
  <2>4. CASE RekeyUndo
    <3>1. op.old \in Variant
      BY <2>4 DEF RekeyUndo, Does, TypeOK
    <3> QED
      BY <2>4, <3>1 DEF RekeyUndo, DiskTyped
  <2> QED
    BY <2>1, <2>2, <2>3, <2>4
<1> QED
  BY <1>1, <1>2, <1>3 DEF OpTyped, DiskTyped, RestTyped, TypeOK

LEMMA StayingStepsTyped ==
  ASSUME TypeOK,
         \/ RecoverBackup \/ DeleteObject \/ GcExpiredObject \/ GcExpiredManifest \/ GcOrphan
  PROVE  TypeOK'
<1> USE TypeParts
<1>1. OpTyped' /\ RestTyped'
  BY DEF RecoverBackup, DeleteObject, GcExpiredObject, GcExpiredManifest, GcOrphan, faults,
         OpTyped, RestTyped
<1>2. DiskTyped'
  <2>1. CASE RecoverBackup
    BY <2>1 DEF RecoverBackup, DiskTyped
  <2>2. CASE DeleteObject \/ GcExpiredObject \/ GcOrphan
    BY <2>2 DEF DeleteObject, GcExpiredObject, GcOrphan, DiskTyped
  <2>3. CASE GcExpiredManifest
    BY <2>3 DEF GcExpiredManifest, DiskTyped
  <2> QED
    BY <2>1, <2>2, <2>3
<1> QED
  BY <1>1, <1>2 DEF OpTyped, DiskTyped, RestTyped, TypeOK

LEMMA ProceedingStepsTyped ==
  ASSUME TypeOK, OperationShape, Recovered \/ PutObject \/ RekeyRename \/ RekeyPublish
  PROVE  TypeOK'
<1> USE TypeParts
<1>1. op.by \in Instance
  BY Owned DEF Recovered, PutObject, RekeyRename, RekeyPublish, Does
<1>2. OpTyped'
  BY <1>1, ProceedTyped DEF Recovered, PutObject, RekeyRename, RekeyPublish, Does
<1>3. RestTyped'
  BY <1>1 DEF Recovered, PutObject, RekeyRename, RekeyPublish, RestTyped, faults
<1>4. DiskTyped'
  <2>1. CASE Recovered
    BY <2>1 DEF Recovered, DiskTyped, disk
  <2>2. CASE PutObject
    <3>1. Running \in Variant /\ op.digest \in Digest
      BY <1>1, <2>2 DEF PutObject, Does, Running, TypeOK
    <3> QED
      BY <2>2, <3>1 DEF PutObject, DiskTyped
  <2>3. CASE RekeyRename
    <3>1. OwnBackup \in Digest \X Variant
      BY <2>3 DEF RekeyRename, Does, OwnBackup, TypeOK
    <3> QED
      BY <2>3, <3>1 DEF RekeyRename, DiskTyped
  <2>4. CASE RekeyPublish
    <3>1. op.key \in Variant
      BY <2>4 DEF RekeyPublish, Does, Variant, TypeOK
    <3> QED
      BY <2>4, <3>1 DEF RekeyPublish, DiskTyped
  <2> QED
    BY <2>1, <2>2, <2>3, <2>4
<1> QED
  BY <1>2, <1>3, <1>4 DEF OpTyped, DiskTyped, RestTyped, TypeOK

\* A rekey that has written an object has its digest, target and old variant.
LEMMA RekeyObjectFields ==
  ASSUME TypeOK, OperationShape, RekeyObject
  PROVE  \E d \in Outdated :
           /\ CanRekey(d) /\ d \in Digest /\ manifest[d] \in Variant
           /\ objects' = objects \cup {<<d, op.key>>}
           /\ op' \in Operation /\ op'.at = "rename" /\ op'.digest = d
           /\ op'.old = manifest[d] /\ op'.key = op.key /\ op.key \in Key
           /\ op'.kind = "rekey" /\ op'.by = op.by /\ op'.late = op.late
<1>1. PICK d \in Outdated :
        /\ CanRekey(d)
        /\ objects' = objects \cup {<<d, op.key>>}
        /\ op' = [op EXCEPT !.at = "rename", !.digest = d, !.old = manifest[d]]
  BY DEF RekeyObject
<1>2. d \in Digest /\ manifest[d] \in Variant
  BY DEF Outdated, Published, TypeOK
<1>3. op \in Operation /\ op.kind = "rekey" /\ op.key \in Key
  BY DEF RekeyObject, Does, TypeOK, OperationShape
<1>4. op' \in Operation /\ op'.at = "rename" /\ op'.digest = d
      /\ op'.old = manifest[d] /\ op'.key = op.key
      /\ op'.kind = op.kind /\ op'.by = op.by /\ op'.late = op.late
  BY <1>1, <1>2, <1>3 DEF Operation
<1> QED
  BY <1>1, <1>2, <1>3, <1>4

LEMMA RekeyObjectTyped ==
  ASSUME TypeOK, OperationShape, RekeyObject
  PROVE  TypeOK'
<1> USE TypeParts
<1>1. PICK d \in Outdated :
        /\ d \in Digest /\ manifest[d] \in Variant
        /\ objects' = objects \cup {<<d, op.key>>}
        /\ op' \in Operation /\ op'.at = "rename" /\ op'.digest = d
        /\ op'.old = manifest[d] /\ op'.key = op.key /\ op.key \in Key
        /\ op'.kind = "rekey" /\ op'.by = op.by
  BY RekeyObjectFields
<1>2. op.by \in Instance
  BY Owned DEF RekeyObject, Does
<1>3. OpTyped'
  BY <1>1, <1>2 DEF OpTyped
<1>4. DiskTyped' /\ RestTyped'
  <2>1. <<d, op.key>> \in Digest \X Variant
    BY <1>1 DEF Variant
  <2> QED
    BY <1>1, <2>1 DEF RekeyObject, DiskTyped, RestTyped, faults
<1> QED
  BY <1>3, <1>4 DEF OpTyped, DiskTyped, RestTyped, TypeOK

\* The operation forgets the digest it has rekeyed.
LEMMA RekeyUnlinkFields ==
  ASSUME TypeOK, OperationShape, RekeyUnlink
  PROVE  /\ op' \in Operation /\ op'.at = "run" /\ op'.digest = None /\ op'.key = op.key
         /\ op.key \in Key /\ op'.kind = "rekey" /\ op'.by = op.by
<1>1. op' = [op EXCEPT !.at = "run", !.digest = None, !.old = None]
  BY DEF RekeyUnlink
<1>2. op \in Operation /\ op.kind = "rekey" /\ op.key \in Key
  BY DEF RekeyUnlink, Does, TypeOK, OperationShape
<1> QED
  BY <1>1, <1>2 DEF Operation

LEMMA RekeyUnlinkTyped ==
  ASSUME TypeOK, OperationShape, RekeyUnlink
  PROVE  TypeOK'
<1> USE TypeParts
<1>1. op.by \in Instance
  BY Owned DEF RekeyUnlink, Does
<1>2. OpTyped'
  BY <1>1, RekeyUnlinkFields DEF OpTyped
<1>3. DiskTyped' /\ RestTyped'
  BY DEF RekeyUnlink, DiskTyped, RestTyped, faults
<1> QED
  BY <1>2, <1>3 DEF OpTyped, DiskTyped, RestTyped, TypeOK

LEMMA TypeStep == TypeOK /\ OperationShape /\ [Next]_vars => TypeOK'
<1> SUFFICES ASSUME TypeOK, OperationShape, [Next]_vars PROVE TypeOK'
  OBVIOUS
<1>1. CASE \E i \in Instance, kind \in Kinds \ {"none"}, d \in Digest \cup {None},
              late \in BOOLEAN, key \in Key \cup {None} : Begin(i, kind, d, late, key)
  BY <1>1, BeginTyped
<1>2. CASE Step
  BY <1>2, EndStepsTyped, StayingStepsTyped, ProceedingStepsTyped, RekeyObjectTyped,
     RekeyUnlinkTyped DEF Step
<1>3. CASE CallFails
  BY <1>3, FailsTyped
<1>4. CASE \E i \in Instance : Crash(i)
  BY <1>4, CrashTyped
<1>5. CASE UNCHANGED vars
  BY <1>5 DEF vars, disk, faults, TypeOK
<1> QED
  BY <1>1, <1>2, <1>3, <1>4, <1>5 DEF Next

LEMMA ShapeInit == Init => OperationShape
BY IdleFields DEF Init, OperationShape

\* Nothing is said of an operation that has ended.
LEMMA EndShape == End => OperationShape'
<1> SUFFICES ASSUME End PROVE OperationShape'
  OBVIOUS
<1>1. op' = Idle
  BY DEF End
<1> QED
  BY <1>1, IdleFields DEF OperationShape

LEMMA BeginShape ==
  ASSUME TypeOK, NEW i \in Instance, NEW kind \in Kinds \ {"none"},
         NEW d \in Digest \cup {None}, NEW late \in BOOLEAN, NEW key \in Key \cup {None},
         Begin(i, kind, d, late, key)
  PROVE  OperationShape'
<1> DEFINE at == IF i \in ready THEN "run" ELSE "recover"
<1>1. op' = [by |-> i, kind |-> kind, digest |-> d, late |-> late, key |-> key,
             old |-> None, at |-> at]
  BY DEF Begin
<1>2. op'.by = i /\ op'.kind = kind /\ op'.digest = d /\ op'.late = late /\ op'.key = key
      /\ op'.at = at /\ at \in {"run", "recover"} /\ (at = "run" => i \in ready)
  BY <1>1
<1>3. kept' = kept \ Doomed(kind, d, late) /\ ready' = ready /\ (kind = "rekey" => key \in Key)
  BY DEF Begin
<1>4. (kind = "delete" => d \notin kept') /\ (kind = "gc" /\ late => kept' \cap Expiring = {})
  BY <1>3 DEF Doomed
<1>5. kind # "none"
  OBVIOUS
<1> HIDE DEF at
<1> QED
  BY <1>2, <1>3, <1>4, <1>5 DEF OperationShape

\* A step that keeps an operation where it was, before it writes anything, says
\* nothing of it.
LEMMA StayingShape ==
  ASSUME TypeOK, OperationShape,
         \/ RecoverBackup \/ DeleteObject \/ GcExpiredObject \/ GcExpiredManifest \/ GcOrphan
  PROVE  OperationShape'
<1>1. op' = op /\ ready' = ready /\ kept' = kept /\ op.at \in {"recover", "run"}
  BY DEF RecoverBackup, DeleteObject, GcExpiredObject, GcExpiredManifest, GcOrphan, Does
<1> QED
  BY <1>1 DEF OperationShape

LEMMA ProceedingShape ==
  ASSUME TypeOK, OperationShape, Recovered \/ PutObject \/ RekeyRename \/ RekeyPublish
  PROVE  OperationShape'
<1>1. op \in Operation /\ manifest \in [Digest -> Variant \cup {None}]
  BY DEF TypeOK
<1>2. CASE Recovered
  <2>1. op'.at = "run" /\ op'.by = op.by /\ op'.kind = op.kind /\ op'.digest = op.digest
        /\ op'.late = op.late /\ op'.key = op.key
    BY <1>1, <1>2, Proceeding DEF Recovered
  <2>2. kept' = kept /\ ready' = ready \cup {op.by} /\ op.at = "recover"
    BY <1>2 DEF Recovered
  <2> QED
    BY <2>1, <2>2 DEF OperationShape
<1>3. CASE PutObject
  <2>1. op'.at = "manifest" /\ op'.by = op.by /\ op'.kind = "put" /\ op'.digest = op.digest
    BY <1>1, <1>3, Proceeding DEF PutObject, Does
  <2>2. ready' = ready /\ mode' = mode /\ objects' = objects \cup {<<op.digest, Running>>}
        /\ op.at = "run"
    BY <1>3 DEF PutObject, Does
  <2>3. Sound(op.digest, Running)'
    BY <2>1, <2>2 DEF Sound, Running
  <2> QED
    BY <2>1, <2>2, <2>3 DEF OperationShape
<1>4. CASE RekeyRename
  <2>1. op'.at = "publish" /\ op'.by = op.by /\ op'.kind = "rekey" /\ op'.digest = op.digest
        /\ op'.key = op.key /\ op'.old = op.old
    BY <1>1, <1>4, Proceeding DEF RekeyRename, Does
  <2>2. ready' = ready /\ objects' = objects /\ op.at = "rename" /\ op.digest \in Digest
    BY <1>4 DEF RekeyRename, Does, TypeOK
  <2>3. manifest'[op'.digest] = None /\ OwnBackup' \in backups'
    BY <1>1, <1>4, <2>1, <2>2 DEF RekeyRename, OwnBackup
  <2> QED
    BY <2>1, <2>2, <2>3 DEF OperationShape, Sound
<1>5. CASE RekeyPublish
  <2>1. op'.at = "unlink" /\ op'.by = op.by /\ op'.kind = "rekey" /\ op'.digest = op.digest
        /\ op'.key = op.key
    BY <1>1, <1>5, Proceeding DEF RekeyPublish, Does
  <2>2. ready' = ready /\ objects' = objects /\ op.at = "publish" /\ op.digest \in Digest
    BY <1>5 DEF RekeyPublish, Does, TypeOK
  <2>3. manifest'[op'.digest] = op'.key
    BY <1>1, <1>5, <2>1, <2>2 DEF RekeyPublish
  <2> QED
    BY <2>1, <2>2, <2>3 DEF OperationShape, Sound
<1> QED
  BY <1>2, <1>3, <1>4, <1>5

LEMMA RekeyObjectShape ==
  ASSUME TypeOK, OperationShape, RekeyObject
  PROVE  OperationShape'
<1>1. PICK d \in Outdated :
        /\ CanRekey(d)
        /\ objects' = objects \cup {<<d, op.key>>}
        /\ op'.at = "rename" /\ op'.digest = d /\ op'.old = manifest[d] /\ op'.key = op.key
        /\ op.key \in Key /\ op'.kind = "rekey" /\ op'.by = op.by
  BY RekeyObjectFields
<1>2. ready' = ready /\ manifest' = manifest /\ op.at = "run"
  BY DEF RekeyObject, Does
<1>3. <<d, manifest[d]>> \in objects
  BY <1>1 DEF CanRekey, Readable
<1>4. Sound(op.digest, op.old)' /\ Sound(op.digest, op.key)' /\ manifest'[op'.digest] = op'.old
  BY <1>1, <1>2, <1>3 DEF Sound
<1> QED
  BY <1>1, <1>2, <1>4 DEF OperationShape

LEMMA RekeyUnlinkShape ==
  ASSUME TypeOK, OperationShape, RekeyUnlink
  PROVE  OperationShape'
<1>1. ready' = ready /\ op.at = "unlink"
  BY DEF RekeyUnlink, Does
<1> QED
  BY <1>1, RekeyUnlinkFields DEF OperationShape

LEMMA FailsShape ==
  ASSUME TypeOK, OperationShape, CallFails
  PROVE  OperationShape'
<1>1. op \in Operation /\ failures \in Nat /\ failures' = failures + 1 /\ UNCHANGED <<disk, ready>>
  BY StoreAssumption DEF CallFails, TypeOK
<1>2. CASE Does("rekey", "publish") \/ Does("rekey", "undo")
  <2>1. op'.at = (IF op.at = "publish" THEN "undo" ELSE "redo") /\ op'.by = op.by
        /\ op'.kind = "rekey" /\ op'.digest = op.digest /\ op'.key = op.key /\ op'.old = op.old
    BY <1>1, <1>2, Proceeding DEF CallFails, Does
  <2>2. op.at \in {"publish", "undo"}
    BY <1>2 DEF Does
  <2>3. Sound(op.digest, op.old)' /\ Sound(op.digest, op.key)' /\ OwnBackup' \in backups'
        /\ manifest'[op'.digest] = None /\ op'.by \in ready' /\ op'.key \in Key
    BY <1>1, <2>1, <2>2, <1>2 DEF OperationShape, Sound, OwnBackup, disk, Does
  <2>4. op'.at = "undo" => failures' >= 1
    BY <1>1
  <2>5. op'.at = "redo" => failures' >= 2
    BY <1>1, <2>1, <2>2 DEF OperationShape
  <2> QED
    BY <2>1, <2>2, <2>3, <2>4, <2>5 DEF OperationShape
<1>3. CASE ~(Does("rekey", "publish") \/ Does("rekey", "undo"))
  BY <1>3, EndShape DEF CallFails
<1> QED
  BY <1>2, <1>3

LEMMA CrashShape ==
  ASSUME TypeOK, OperationShape, NEW i \in Instance, Crash(i)
  PROVE  OperationShape'
<1>1. CASE op.by = i
  BY <1>1, EndShape DEF Crash, End
<1>2. CASE op.by # i
  <2>1. op' = op /\ ready' = ready \ {i} /\ kept' = kept /\ failures' = failures
        /\ UNCHANGED disk
    BY <1>2 DEF Crash
  <2>2. Running' = Running
    BY <1>2, <2>1 DEF Crash, Running, TypeOK
  <2> QED
    BY <1>2, <2>1, <2>2 DEF OperationShape, Sound, OwnBackup, disk
<1> QED
  BY <1>1, <1>2

LEMMA ShapeStep == TypeOK /\ OperationShape /\ [Next]_vars => OperationShape'
<1> SUFFICES ASSUME TypeOK, OperationShape, [Next]_vars PROVE OperationShape'
  OBVIOUS
<1>1. CASE \E i \in Instance, kind \in Kinds \ {"none"}, d \in Digest \cup {None},
              late \in BOOLEAN, key \in Key \cup {None} : Begin(i, kind, d, late, key)
  BY <1>1, BeginShape
<1>2. CASE \/ Read \/ PutNothing \/ PutManifest \/ DeleteManifest
           \/ GcEnd \/ RekeyUndo \/ RekeyEnd
  BY <1>2, EndShape DEF Read, PutNothing, PutManifest, DeleteManifest, GcEnd, RekeyUndo, RekeyEnd
<1>3. CASE Step
  BY <1>2, <1>3, StayingShape, ProceedingShape, RekeyObjectShape, RekeyUnlinkShape DEF Step
<1>4. CASE CallFails
  BY <1>4, FailsShape
<1>5. CASE \E i \in Instance : Crash(i)
  BY <1>5, CrashShape
<1>6. CASE UNCHANGED vars
  BY <1>6 DEF vars, disk, faults, OperationShape, Sound, Running, OwnBackup
<1> QED
  BY <1>1, <1>3, <1>4, <1>5, <1>6 DEF Next

\* Every variable keeps its type, whatever crashes and whatever fails, and a step
\* of an operation finds what the steps before it did.
THEOREM TypeCorrect == Spec => [](TypeOK /\ OperationShape)
<1>1. Init => TypeOK /\ OperationShape
  BY TypeInit, ShapeInit
<1>2. TypeOK /\ OperationShape /\ [Next]_vars => (TypeOK /\ OperationShape)'
  BY TypeStep, ShapeStep
<1> QED
  BY <1>1, <1>2, PTL DEF Spec

-----------------------------------------------------------------------------
(* Kept content can be recovered.                                           *)

\* The content of d is where its manifest names it, or where the operation that
\* replaces the manifest, or the next recovery, will have it named.
Stands(d) ==
  \/ manifest[d] # None /\ Sound(d, manifest[d])
  \/ manifest[d] = None /\ Replacing(d) /\ Sound(d, op.old)
  \/ /\ manifest[d] = None /\ ~Replacing(d)
     /\ \E v \in Variant : <<d, v>> \in backups
     /\ \A v \in Variant : <<d, v>> \in backups => Sound(d, v)

LEMMA RecoverableStands == Recoverable = {d \in Digest : Stands(d)}
BY DEF Recoverable, Sources, Stands, Sound

LEMMA RecoverableStandsNext == Recoverable' = {d \in Digest : Stands(d)'}
<1>1. (Recoverable = {d \in Digest : Stands(d)})'
  BY RecoverableStands, PTL
<1> QED
  BY <1>1

LEMMA KeptInit == Init => KeptInv
<1> SUFFICES ASSUME Init PROVE KeptInv
  OBVIOUS
<1>1. op.at = "start" /\ backups = {} /\ kept = {}
  BY IdleFields DEF Init
<1> QED
  BY <1>1 DEF KeptInv, PublishedIsRecoverable, KeptIsPublished, BackupsAreOwn, Sure

\* A digest that stands still does, when neither its manifest, nor its objects, nor
\* the replacement change, and none of its backups comes or goes.
LEMMA StandsStill ==
  ASSUME NEW d, Stands(d), manifest'[d] = manifest[d],
         \A v \in Variant : <<d, v>> \in objects => <<d, v>> \in objects',
         manifest[d] \in Variant \cup {None}, op.old \in Variant \/ ~Replacing(d),
         Replacing(d)' = Replacing(d), Replacing(d) => op'.old = op.old,
         ~Replacing(d) => \A v \in Variant : <<d, v>> \in backups <=> <<d, v>> \in backups'
  PROVE  Stands(d)'
BY DEF Stands, Sound

\* A digest that stands with its manifest, which it keeps with its object.
LEMMA ManifestStands ==
  ASSUME NEW d, manifest'[d] # None, <<d, manifest'[d]>> \in objects'
  PROVE  Stands(d)'
BY DEF Stands, Sound

\* The kept content stands.
LEMMA KeptStands == PublishedIsRecoverable <=> \A d \in Sure : d \in Digest /\ Stands(d)
BY RecoverableStands DEF PublishedIsRecoverable, Sure

LEMMA KeptStandsNext ==
  PublishedIsRecoverable' <=> \A d \in Sure' : d \in Digest /\ Stands(d)'
<1>1. (PublishedIsRecoverable <=> \A d \in Sure : d \in Digest /\ Stands(d))'
  BY KeptStands, PTL
<1> QED
  BY <1>1

Steady == TypeOK /\ OperationShape /\ KeptInv

\* What is known of a kept digest while nothing is being replaced.
LEMMA KeptDigest ==
  ASSUME Steady, NEW d \in Sure
  PROVE  /\ d \in Digest /\ Stands(d) /\ manifest[d] \in Variant \cup {None}
         /\ manifest[d] # None \/ Replacing(d) \/ ready = {}
         /\ manifest[d] # None => Sound(d, manifest[d])
<1>1. d \in Digest /\ Stands(d)
  BY KeptStands DEF Steady, KeptInv
<1>2. manifest[d] \in Variant \cup {None}
  BY <1>1 DEF Steady, TypeOK
<1>3. manifest[d] # None \/ Replacing(d) \/ ready = {}
  BY DEF Steady, KeptInv, KeptIsPublished, Published
<1> QED
  BY <1>1, <1>2, <1>3 DEF Stands

LEMMA NoneIsNoVariant == None \notin Variant
BY StoreAssumption

\* While an operation runs, kept content has its manifest and its object.
LEMMA RunningKept ==
  ASSUME Steady, op.at \in {"run", "manifest", "rename"}, NEW d \in Sure
  PROVE  /\ d \in Digest /\ manifest[d] \in Variant /\ manifest[d] # None
         /\ Sound(d, manifest[d])
<1>1. ready # {} /\ ~Replacing(d)
  BY DEF Steady, OperationShape, Replacing
<1> QED
  BY <1>1, KeptDigest

LEMMA BeginKept ==
  ASSUME Steady, NEW i \in Instance, NEW kind \in Kinds \ {"none"},
         NEW d \in Digest \cup {None}, NEW late \in BOOLEAN, NEW key \in Key \cup {None},
         Begin(i, kind, d, late, key)
  PROVE  KeptInv'
<1> DEFINE at == IF i \in ready THEN "run" ELSE "recover"
<1>1. op' = [by |-> i, kind |-> kind, digest |-> d, late |-> late, key |-> key,
             old |-> None, at |-> at]
  BY DEF Begin
<1>2. op'.at = at /\ at \in {"run", "recover"} /\ (at = "run" => i \in ready)
  BY <1>1
<1>3. Sure' \subseteq Sure /\ UNCHANGED <<objects, manifest, backups, ready, left>>
      /\ op.at = "start"
  BY IdleFields DEF Begin, disk, faults, Sure, Uncertain
<1> HIDE DEF at
<1>4. \A e : ~Replacing(e) /\ ~Replacing(e)'
  BY <1>2, <1>3 DEF Replacing
<1>5. PublishedIsRecoverable'
  BY <1>3, <1>4, KeptStands, KeptStandsNext DEF Stands, Sound, Steady, KeptInv
<1>6. KeptIsPublished'
  BY <1>3, <1>4 DEF KeptIsPublished, Published, Steady, KeptInv
<1>7. BackupsAreOwn'
  BY <1>2, <1>3 DEF BackupsAreOwn, Steady, KeptInv
<1> QED
  BY <1>5, <1>6, <1>7 DEF KeptInv

LEMMA RecoverBackupKept == ASSUME Steady, RecoverBackup PROVE KeptInv'
<1>1. PICK b \in backups :
        /\ backups' = backups \ {b}
        /\ manifest' = IF manifest[b[1]] = None
                       THEN [manifest EXCEPT ![b[1]] = b[2]] ELSE manifest
  BY DEF RecoverBackup
<1>2. UNCHANGED <<objects, ready, op, Sure, left>> /\ op.at = "recover"
  BY DEF RecoverBackup, faults, Sure, Uncertain
<1>3. \A e : ~Replacing(e) /\ ~Replacing(e)'
  BY <1>2 DEF Replacing
<1>4. b[1] \in Digest /\ b[2] \in Variant /\ b = <<b[1], b[2]>> /\ b[2] # None
      /\ manifest \in [Digest -> Variant \cup {None}]
  BY NoneIsNoVariant DEF Steady, TypeOK
<1>5. PublishedIsRecoverable'
  <2> SUFFICES ASSUME NEW d \in Sure' PROVE d \in Digest /\ Stands(d)'
    BY KeptStandsNext
  <2>1. d \in Sure /\ d \in Digest /\ Stands(d)
    BY <1>2, KeptStands DEF Steady, KeptInv
  <2>2. CASE d = b[1] /\ manifest[d] = None
    <3>1. manifest'[d] = b[2]
      BY <1>1, <1>4, <2>1, <2>2
    <3>2. Sound(d, b[2])
      BY <1>3, <1>4, <2>1, <2>2 DEF Stands
    <3> QED
      BY <1>2, <1>4, <2>1, <3>1, <3>2 DEF Stands, Sound
  <2>3. CASE manifest[d] # None
    <3>1. manifest'[d] = manifest[d]
      BY <1>1, <1>4, <2>1, <2>3
    <3> QED
      BY <1>2, <2>1, <2>3, <3>1 DEF Stands, Sound
  <2>4. CASE d # b[1] /\ manifest[d] = None
    <3>1. manifest'[d] = None
      BY <1>1, <1>4, <2>1, <2>4
    <3>2. \A v \in Variant : <<d, v>> \in backups <=> <<d, v>> \in backups'
      BY <1>1, <1>4, <2>4
    <3> QED
      BY <1>2, <1>3, <2>1, <2>4, <3>1, <3>2 DEF Stands, Sound
  <2> QED
    BY <2>2, <2>3, <2>4
<1>6. KeptIsPublished'
  <2> SUFFICES ASSUME NEW d \in Sure' PROVE d \in Published' \/ ready' = {}
    BY DEF KeptIsPublished
  <2>1. d \in Sure /\ d \in Digest /\ (manifest[d] # None \/ ready = {})
    BY <1>2, <1>3, KeptDigest
  <2>2. manifest[d] # None => manifest'[d] # None
    BY <1>1, <1>4, <2>1
  <2> QED
    BY <1>2, <2>1, <2>2 DEF Published
<1>7. BackupsAreOwn'
  BY <1>1, <1>2 DEF BackupsAreOwn, Steady, KeptInv
<1> QED
  BY <1>5, <1>6, <1>7 DEF KeptInv

LEMMA RecoveredKept == ASSUME Steady, Recovered PROVE KeptInv'
<1>1. UNCHANGED <<objects, manifest, backups, Sure, left>> /\ backups = {}
      /\ op.at = "recover"
  BY DEF Recovered, disk, faults, Sure, Uncertain
<1>2. op'.at = "run"
  BY Proceeding DEF Recovered, Steady, TypeOK
<1>3. \A d \in Sure : d \in Digest /\ manifest[d] # None /\ Sound(d, manifest[d])
  BY <1>1, KeptDigest DEF Stands, Replacing
<1>4. PublishedIsRecoverable'
  BY <1>1, <1>3, KeptStandsNext DEF Stands, Sound
<1>5. KeptIsPublished' /\ BackupsAreOwn'
  BY <1>1, <1>2, <1>3 DEF KeptIsPublished, Published, BackupsAreOwn
<1> QED
  BY <1>4, <1>5 DEF KeptInv

\* An operation that has changed nothing on disk ends.
LEMMA EndKept ==
  ASSUME Steady, Read \/ PutNothing \/ GcEnd \/ RekeyEnd
  PROVE  KeptInv'
<1>1. UNCHANGED <<objects, manifest, backups, ready, Sure, left>> /\ op.at = "run"
  BY DEF Read, PutNothing, GcEnd, RekeyEnd, disk, faults, Sure, Uncertain, Does
<1>2. op'.at = "start"
  BY IdleFields DEF Read, PutNothing, GcEnd, RekeyEnd, End
<1>3. \A d \in Sure : d \in Digest /\ manifest[d] # None /\ Sound(d, manifest[d])
  BY <1>1, RunningKept
<1>4. PublishedIsRecoverable'
  BY <1>1, <1>3, KeptStandsNext DEF Stands, Sound
<1>5. KeptIsPublished'
  BY <1>1, <1>3 DEF KeptIsPublished, Published
<1>6. BackupsAreOwn'
  BY <1>1, <1>2 DEF BackupsAreOwn, Steady, KeptInv
<1> QED
  BY <1>4, <1>5, <1>6 DEF KeptInv

LEMMA PutObjectKept == ASSUME Steady, PutObject PROVE KeptInv'
<1>1. UNCHANGED <<manifest, backups, ready, Sure, left>> /\ op.at = "run"
      /\ objects \subseteq objects'
  BY DEF PutObject, faults, Sure, Uncertain, Does
<1>2. op'.at = "manifest"
  BY Proceeding DEF PutObject, Steady, TypeOK
<1>3. \A d \in Sure : d \in Digest /\ manifest[d] # None /\ Sound(d, manifest[d])
  BY <1>1, RunningKept
<1>4. PublishedIsRecoverable'
  BY <1>1, <1>3, KeptStandsNext DEF Stands, Sound
<1>5. KeptIsPublished'
  BY <1>1, <1>3 DEF KeptIsPublished, Published
<1>6. BackupsAreOwn'
  BY <1>1, <1>2 DEF BackupsAreOwn, Steady, KeptInv
<1> QED
  BY <1>4, <1>5, <1>6 DEF KeptInv

LEMMA PutManifestKept == ASSUME Steady, PutManifest PROVE KeptInv'
<1>1. UNCHANGED <<objects, backups, ready, left>> /\ op.at = "manifest"
      /\ Sure' \subseteq Sure \cup {op.digest} /\ op'.at = "start"
  BY IdleFields DEF PutManifest, faults, Sure, Uncertain, Does, End
<1>2. op.digest \in Digest /\ Running \in Variant /\ Sound(op.digest, Running)
  BY Owned, TypeParts DEF PutManifest, Does, Steady, TypeOK, OperationShape, Running
<1>3. manifest' = [manifest EXCEPT ![op.digest] = Running]
      /\ manifest \in [Digest -> Variant \cup {None}]
  BY DEF PutManifest, Steady, TypeOK
<1>4. ASSUME NEW d \in Sure'
      PROVE  d \in Digest /\ manifest'[d] # None /\ <<d, manifest'[d]>> \in objects'
  <2>1. CASE d = op.digest
    BY <1>1, <1>2, <1>3, <2>1, NoneIsNoVariant DEF Sound
  <2>2. CASE d # op.digest
    <3>1. d \in Sure
      BY <1>1, <2>2
    <3>2. d \in Digest /\ manifest[d] # None /\ Sound(d, manifest[d])
      BY <1>1, <3>1, RunningKept
    <3>3. manifest'[d] = manifest[d]
      BY <1>3, <2>2, <3>2
    <3> QED
      BY <1>1, <3>2, <3>3 DEF Sound
  <2> QED
    BY <2>1, <2>2
<1>5. PublishedIsRecoverable'
  BY <1>4, KeptStandsNext, ManifestStands
<1>6. KeptIsPublished'
  BY <1>4 DEF KeptIsPublished, Published
<1>7. BackupsAreOwn'
  BY <1>1 DEF BackupsAreOwn, Steady, KeptInv
<1> QED
  BY <1>5, <1>6, <1>7 DEF KeptInv

\* A caller has asked for what is removed to be dropped; or no manifest names it.
LEMMA RemovalKept ==
  ASSUME Steady,
         \/ DeleteObject \/ DeleteManifest
         \/ GcExpiredObject \/ GcExpiredManifest \/ GcOrphan
  PROVE  KeptInv'
<1>1. UNCHANGED <<backups, ready, Sure, left>> /\ op.at = "run" /\ op'.at \in {"run", "start"}
  BY IdleFields
     DEF DeleteObject, DeleteManifest, GcExpiredObject, GcExpiredManifest, GcOrphan,
         faults, Sure, Uncertain, Does, End
<1>2. manifest \in [Digest -> Variant \cup {None}]
  BY DEF Steady, TypeOK
<1>3. ASSUME NEW d \in Sure
      PROVE  d \in Digest /\ manifest'[d] = manifest[d] /\ manifest[d] # None
             /\ <<d, manifest[d]>> \in objects'
  <2>1. d \in Digest /\ manifest[d] # None /\ <<d, manifest[d]>> \in objects
    BY <1>1, RunningKept DEF Sound
  <2>2. CASE DeleteObject \/ DeleteManifest
    <3>1. d # op.digest
      BY <2>2 DEF DeleteObject, DeleteManifest, Does, Steady, OperationShape, Sure
    <3> QED
      BY <1>2, <2>1, <2>2, <3>1 DEF DeleteObject, DeleteManifest
  <2>3. CASE GcExpiredObject \/ GcExpiredManifest
    <3>1. d \notin Expired
      BY <2>3 DEF GcExpiredObject, GcExpiredManifest, Does, Steady, OperationShape, Expired, Sure
    <3> QED
      BY <1>2, <2>1, <2>3, <3>1 DEF GcExpiredObject, GcExpiredManifest
  <2>4. CASE GcOrphan
    <3>1. <<d, manifest[d]>> \in Referenced
      BY <2>1 DEF Referenced, Published
    <3> QED
      BY <2>1, <2>4, <3>1 DEF GcOrphan
  <2> QED
    BY <2>2, <2>3, <2>4
<1>4. PublishedIsRecoverable'
  BY <1>1, <1>3, KeptStandsNext, ManifestStands
<1>5. KeptIsPublished'
  BY <1>1, <1>3 DEF KeptIsPublished, Published
<1>6. BackupsAreOwn'
  BY <1>1 DEF BackupsAreOwn, Steady, KeptInv
<1> QED
  BY <1>4, <1>5, <1>6 DEF KeptInv

LEMMA RekeyObjectKept == ASSUME Steady, RekeyObject PROVE KeptInv'
<1>1. UNCHANGED <<manifest, backups, ready, Sure, left>> /\ op.at = "run"
  BY DEF RekeyObject, faults, Sure, Uncertain, Does
<1>2. objects \subseteq objects' /\ op'.at = "rename"
  BY RekeyObjectFields DEF Steady
<1>3. \A d \in Sure : d \in Digest /\ manifest[d] # None /\ Sound(d, manifest[d])
  BY <1>1, RunningKept
<1>4. PublishedIsRecoverable'
  BY <1>1, <1>2, <1>3, KeptStandsNext DEF Stands, Sound
<1>5. KeptIsPublished'
  BY <1>1, <1>3 DEF KeptIsPublished, Published
<1>6. BackupsAreOwn'
  BY <1>1, <1>2 DEF BackupsAreOwn, Steady, KeptInv
<1> QED
  BY <1>4, <1>5, <1>6 DEF KeptInv

\* The digest whose manifest is moved away is the one that is being replaced.
LEMMA RekeyRenameKept == ASSUME Steady, RekeyRename PROVE KeptInv'
<1>1. UNCHANGED <<objects, ready, Sure, left>> /\ op.at = "rename"
      /\ manifest' = [manifest EXCEPT ![op.digest] = None]
      /\ backups' = backups \cup {OwnBackup}
  BY DEF RekeyRename, faults, Sure, Uncertain, Does
<1>2. op.digest \in Digest /\ manifest \in [Digest -> Variant \cup {None}]
  BY <1>1 DEF Steady, TypeOK
<1>3. op'.at = "publish" /\ op'.digest = op.digest /\ op'.old = op.old
  BY Proceeding DEF RekeyRename, Steady, TypeOK
<1>4. Sound(op.digest, op.old)
  BY <1>1 DEF Steady, OperationShape
<1>5. \A d : Replacing(d)' <=> d = op.digest
  BY <1>3 DEF Replacing
<1>6. ASSUME NEW d \in Sure'
      PROVE  d \in Digest /\ Stands(d)' /\ (manifest'[d] # None \/ Replacing(d)')
  <2>1. d \in Digest /\ manifest[d] # None /\ Sound(d, manifest[d])
    BY <1>1, RunningKept
  <2>2. CASE d = op.digest
    <3>1. manifest'[d] = None
      BY <1>1, <1>2, <2>2
    <3> QED
      BY <1>1, <1>3, <1>4, <1>5, <2>1, <2>2, <3>1 DEF Stands, Sound
  <2>3. CASE d # op.digest
    <3>1. manifest'[d] = manifest[d]
      BY <1>1, <1>2, <2>1, <2>3
    <3> QED
      BY <1>1, <2>1, <3>1 DEF Stands, Sound
  <2> QED
    BY <2>2, <2>3
<1>7. PublishedIsRecoverable'
  BY <1>6, KeptStandsNext
<1>8. KeptIsPublished'
  BY <1>6 DEF KeptIsPublished, Published
<1>9. BackupsAreOwn'
  <2>1. OwnBackup' = OwnBackup
    BY <1>3 DEF OwnBackup
  <2> QED
    BY <1>1, <1>3, <2>1 DEF BackupsAreOwn, Steady, KeptInv
<1> QED
  BY <1>7, <1>8, <1>9 DEF KeptInv

\* The manifest of the digest being replaced is written, of old or anew.
LEMMA ManifestWritten ==
  ASSUME Steady, op.at \in {"publish", "undo", "redo"}, op'.at \notin {"publish", "undo", "redo"},
         UNCHANGED <<objects, ready, Sure>>,
         NEW v \in Variant, Sound(op.digest, v), manifest' = [manifest EXCEPT ![op.digest] = v],
         \A d \in Digest \ {op.digest} : \A w \in Variant :
            <<d, w>> \in backups <=> <<d, w>> \in backups'
  PROVE  PublishedIsRecoverable' /\ KeptIsPublished'
<1>1. op.digest \in Digest /\ manifest \in [Digest -> Variant \cup {None}] /\ v # None
  BY NoneIsNoVariant DEF Steady, TypeOK
<1>2. \A d : ~Replacing(d)' /\ (Replacing(d) <=> d = op.digest)
  BY DEF Replacing
<1>3. ASSUME NEW d \in Sure'
      PROVE  d \in Digest /\ Stands(d)' /\ (manifest'[d] # None \/ ready' = {})
  <2>1. d \in Sure /\ d \in Digest /\ Stands(d)
        /\ (manifest[d] # None \/ Replacing(d) \/ ready = {})
    BY KeptDigest
  <2>2. CASE d = op.digest
    <3>1. manifest'[d] = v
      BY <1>1, <2>2
    <3> QED
      BY <1>1, <2>1, <2>2, <3>1 DEF Stands, Sound
  <2>3. CASE d # op.digest
    <3>1. manifest'[d] = manifest[d]
      BY <1>1, <2>1, <2>3
    <3> QED
      BY <1>2, <2>1, <2>3, <3>1 DEF Stands, Sound
  <2> QED
    BY <2>2, <2>3
<1>4. PublishedIsRecoverable'
  BY <1>3, KeptStandsNext
<1>5. KeptIsPublished'
  BY <1>3 DEF KeptIsPublished, Published
<1> QED
  BY <1>4, <1>5

LEMMA RekeyPublishKept == ASSUME Steady, RekeyPublish PROVE KeptInv'
<1>1. UNCHANGED <<objects, backups, ready, Sure, left>> /\ op.at = "publish"
      /\ manifest' = [manifest EXCEPT ![op.digest] = op.key]
  BY DEF RekeyPublish, faults, Sure, Uncertain, Does
<1>2. op'.at = "unlink" /\ op'.digest = op.digest /\ op'.old = op.old
  BY Proceeding DEF RekeyPublish, Steady, TypeOK
<1>3. op.key \in Variant /\ Sound(op.digest, op.key)
  BY <1>1 DEF Steady, TypeOK, OperationShape, Variant
<1>4. PublishedIsRecoverable' /\ KeptIsPublished'
  BY <1>1, <1>2, <1>3, ManifestWritten
<1>5. BackupsAreOwn'
  <2>1. OwnBackup' = OwnBackup
    BY <1>2 DEF OwnBackup
  <2> QED
    BY <1>1, <1>2, <2>1 DEF BackupsAreOwn, Steady, KeptInv
<1> QED
  BY <1>4, <1>5 DEF KeptInv

LEMMA RekeyUndoKept == ASSUME Steady, RekeyUndo PROVE KeptInv'
<1>1. UNCHANGED <<objects, ready, Sure, left>> /\ op.at \in {"undo", "redo"}
      /\ manifest' = [manifest EXCEPT ![op.digest] = op.old]
      /\ backups' = backups \ {OwnBackup} /\ op'.at = "start"
  BY IdleFields DEF RekeyUndo, faults, Sure, Uncertain, Does, End
<1>2. op.old \in Variant /\ Sound(op.digest, op.old)
  BY <1>1 DEF Steady, TypeOK, OperationShape
<1>3. PublishedIsRecoverable' /\ KeptIsPublished'
  <2>1. \A d \in Digest \ {op.digest} : \A w \in Variant :
          <<d, w>> \in backups <=> <<d, w>> \in backups'
    BY <1>1 DEF OwnBackup
  <2> QED
    BY <1>1, <1>2, <2>1, ManifestWritten
<1>4. BackupsAreOwn'
  BY <1>1 DEF BackupsAreOwn, Steady, KeptInv
<1> QED
  BY <1>3, <1>4 DEF KeptInv

\* The backup that is removed is of a digest that has its new manifest.
LEMMA RekeyUnlinkKept == ASSUME Steady, RekeyUnlink PROVE KeptInv'
<1>1. UNCHANGED <<objects, manifest, ready, Sure, left>> /\ op.at = "unlink"
      /\ backups' = backups \ {OwnBackup}
  BY DEF RekeyUnlink, faults, Sure, Uncertain, Does
<1>2. op'.at = "run"
  BY RekeyUnlinkFields DEF Steady
<1>3. \A d : ~Replacing(d) /\ ~Replacing(d)'
  BY <1>1, <1>2 DEF Replacing
<1>4. ready # {}
  BY <1>1 DEF Steady, OperationShape
<1>5. \A d \in Sure : d \in Digest /\ manifest[d] # None /\ Sound(d, manifest[d])
  BY <1>3, <1>4, KeptDigest
<1>6. PublishedIsRecoverable'
  BY <1>1, <1>5, KeptStandsNext DEF Stands, Sound
<1>7. KeptIsPublished'
  BY <1>1, <1>5 DEF KeptIsPublished, Published
<1>8. BackupsAreOwn'
  BY <1>1, <1>2 DEF BackupsAreOwn, Steady, KeptInv
<1> QED
  BY <1>6, <1>7, <1>8 DEF KeptInv

\* An operation ends where it was; but a replacement goes on to be undone, and when
\* that has failed twice its content is uncertain.
LEMMA FailsKept == ASSUME Steady, CallFails PROVE KeptInv'
<1>1. UNCHANGED <<objects, manifest, backups, ready, kept, crashes>>
      /\ failures' = failures + 1 /\ failures \in Nat /\ left \subseteq left'
      /\ (op.at \in {"unlink", "redo"} => op.digest \in left')
  BY StoreAssumption DEF CallFails, disk, Steady, TypeOK
<1>2. Sure' \subseteq Sure
  BY <1>1 DEF Sure, Uncertain
<1>3. op.at = "redo" => op.digest \notin Sure'
  BY <1>1 DEF Sure, Uncertain, Steady, OperationShape
<1>4. CASE Does("rekey", "publish") \/ Does("rekey", "undo")
  <2>1. op'.at \in {"undo", "redo"} /\ op'.digest = op.digest /\ op'.old = op.old
        /\ op.at \in {"publish", "undo"}
    BY <1>4, Proceeding DEF CallFails, Steady, TypeOK, Does
  <2>2. \A d : Replacing(d)' = Replacing(d)
    BY <2>1 DEF Replacing
  <2>3. PublishedIsRecoverable'
    BY <1>1, <1>2, <2>1, <2>2, KeptStands, KeptStandsNext DEF Stands, Sound, Steady, KeptInv
  <2>4. KeptIsPublished'
    BY <1>1, <1>2, <2>2 DEF KeptIsPublished, Published, Steady, KeptInv
  <2>5. BackupsAreOwn'
    BY <1>1, <2>1 DEF BackupsAreOwn, OwnBackup, Steady, KeptInv
  <2> QED
    BY <2>3, <2>4, <2>5 DEF KeptInv
<1>5. CASE ~(Does("rekey", "publish") \/ Does("rekey", "undo"))
  <2>1. op'.at = "start"
    BY <1>5, IdleFields DEF CallFails, End
  <2>2. op.at \notin {"publish", "undo"}
    BY <1>5 DEF Does, Steady, OperationShape
  <2>3. \A d \in Sure' : d \in Sure /\ ~Replacing(d) /\ ~Replacing(d)'
    BY <1>2, <1>3, <2>1, <2>2 DEF Replacing
  <2>4. PublishedIsRecoverable'
    BY <1>1, <2>3, KeptStands, KeptStandsNext DEF Stands, Sound, Steady, KeptInv
  <2>5. KeptIsPublished'
    BY <1>1, <2>3 DEF KeptIsPublished, Published, Steady, KeptInv
  <2>6. BackupsAreOwn'
    BY <1>1, <2>1, <2>2 DEF BackupsAreOwn, OwnBackup, Steady, KeptInv
  <2> QED
    BY <2>4, <2>5, <2>6 DEF KeptInv
<1> QED
  BY <1>4, <1>5

\* With its only instance the store stops; what a replacement has moved away is the
\* only backup there is.
LEMMA CrashKept ==
  ASSUME Steady, NEW i \in Instance, Crash(i), Survivable'
  PROVE  KeptInv'
<1>1. UNCHANGED <<objects, manifest, backups, left>> /\ ready' = ready \ {i}
  BY DEF Crash, disk
<1>0. Sure' \subseteq Sure /\ Sure' \cap left = {}
  BY StoreAssumption DEF Crash, Sure, Uncertain, Steady, TypeOK
<1>2. \A j \in Instance : j = i
  BY StoreAssumption DEF Crash, Survivable, Steady, TypeOK
<1>3. ready' = {}
  BY <1>1, <1>2 DEF Steady, TypeOK
<1>4. op'.at = "start"
  <2>1. CASE op.by = i
    BY <2>1, IdleFields DEF Crash
  <2>2. CASE op.by # i
    BY <1>2, <2>2, IdleFields DEF Crash, Steady, TypeOK
  <2> QED
    BY <2>1, <2>2
<1>5. PublishedIsRecoverable'
  <2> SUFFICES ASSUME NEW d \in Sure' PROVE d \in Digest /\ Stands(d)'
    BY KeptStandsNext
  <2>1. d \in Digest /\ Stands(d) /\ d \notin left
    BY <1>0, KeptDigest
  <2>2. CASE manifest[d] # None \/ ~Replacing(d)
    BY <1>1, <1>4, <2>1, <2>2 DEF Stands, Sound, Replacing
  <2>3. CASE manifest[d] = None /\ Replacing(d)
    <3>1. op.old \in Variant /\ Sound(d, op.old) /\ <<d, op.old>> \in backups
      BY <2>3 DEF Replacing, Steady, TypeOK, OperationShape, OwnBackup
    <3>2. \A v \in Variant : <<d, v>> \in backups => v = op.old
      BY <2>1, <2>3 DEF Replacing, Steady, KeptInv, BackupsAreOwn, OwnBackup
    <3> QED
      BY <1>1, <1>4, <2>1, <2>3, <3>1, <3>2 DEF Stands, Sound, Replacing
  <2> QED
    BY <2>2, <2>3
<1>6. KeptIsPublished'
  BY <1>3 DEF KeptIsPublished
<1>7. BackupsAreOwn'
  <2> SUFFICES ASSUME NEW b \in backups, b[1] \notin left,
                      NEW c \in backups, c[1] = b[1]
               PROVE  c = b
    BY <1>1, <1>3, <1>4 DEF BackupsAreOwn
  <2> QED
    BY DEF BackupsAreOwn, Steady, KeptInv
<1> QED
  BY <1>5, <1>6, <1>7 DEF KeptInv

\* What a store survives, it has survived before.
LEMMA SurvivableBefore == TypeOK /\ [Next]_vars /\ Survivable' => Survivable
<1> SUFFICES ASSUME TypeOK, [Next]_vars, Survivable' PROVE Survivable
  OBVIOUS
<1>1. crashes \in Nat
  BY StoreAssumption DEF TypeOK
<1>2. crashes' = crashes \/ crashes' = crashes + 1
  <2>1. CASE CallFails \/ \E i \in Instance : Crash(i)
    BY <2>1 DEF CallFails, Crash
  <2>2. CASE Step
    BY <2>2 DEF Step, RecoverBackup, Recovered, Read, PutNothing, PutObject, PutManifest,
      DeleteObject, DeleteManifest, GcExpiredObject, GcExpiredManifest, GcOrphan, GcEnd,
      RekeyObject, RekeyRename, RekeyPublish, RekeyUnlink, RekeyUndo, RekeyEnd, faults
  <2>3. CASE \E i \in Instance, kind \in Kinds \ {"none"}, d \in Digest \cup {None},
                late \in BOOLEAN, key \in Key \cup {None} : Begin(i, kind, d, late, key)
    BY <2>3 DEF Begin, faults
  <2>4. CASE UNCHANGED vars
    BY <2>4 DEF vars, faults
  <2> QED
    BY <2>1, <2>2, <2>3, <2>4 DEF Next
<1> QED
  BY <1>1, <1>2 DEF Survivable

LEMMA KeptStep == Steady /\ [Next]_vars /\ Survivable' => KeptInv'
<1> SUFFICES ASSUME Steady, [Next]_vars, Survivable' PROVE KeptInv'
  OBVIOUS
<1>1. CASE \E i \in Instance, kind \in Kinds \ {"none"}, d \in Digest \cup {None},
              late \in BOOLEAN, key \in Key \cup {None} : Begin(i, kind, d, late, key)
  BY <1>1, BeginKept
<1>2. CASE Step
  BY <1>2, RecoverBackupKept, RecoveredKept, EndKept, PutObjectKept, PutManifestKept, RemovalKept,
     RekeyObjectKept, RekeyRenameKept, RekeyPublishKept, RekeyUnlinkKept, RekeyUndoKept DEF Step
<1>3. CASE CallFails
  BY <1>3, FailsKept
<1>4. CASE \E i \in Instance : Crash(i)
  BY <1>4, CrashKept
<1>5. CASE UNCHANGED vars
  <2>1. PublishedIsRecoverable'
    BY <1>5, KeptStands, KeptStandsNext
       DEF vars, disk, faults, Sure, Uncertain, Stands, Sound, Replacing, Steady, KeptInv
  <2>2. KeptIsPublished' /\ BackupsAreOwn'
    BY <1>5 DEF vars, disk, faults, Sure, Uncertain, KeptIsPublished, Published, Replacing,
                BackupsAreOwn, OwnBackup, Steady, KeptInv
  <2> QED
    BY <2>1, <2>2 DEF KeptInv
<1> QED
  BY <1>1, <1>2, <1>3, <1>4, <1>5 DEF Next

\* The inductive invariant, which the theorems about kept content rest on.
LEMMA StoreInvariant == Spec => []StoreInv
<1>1. Init => StoreInv
  BY TypeInit, ShapeInit, KeptInit DEF StoreInv
<1>2. StoreInv /\ [Next]_vars => StoreInv'
  BY TypeStep, ShapeStep, KeptStep, SurvivableBefore DEF StoreInv, Steady
<1> QED
  BY <1>1, <1>2, PTL DEF Spec

\* Published content stays recoverable, whatever operations do: for all the faults
\* that a store survives.
THEOREM KeptCanBeRecovered == Spec => [](Survivable => PublishedIsRecoverable)
<1>1. StoreInv => (Survivable => PublishedIsRecoverable)
  BY DEF StoreInv, KeptInv
<1> QED
  BY <1>1, StoreInvariant, PTL

\* And an operation that runs finds all of it with its manifest and its object.
THEOREM KeptCanBeRead == Spec => [](Survivable => PublishedIsReadable)
<1>1. StoreInv => (Survivable => PublishedIsReadable)
  <2> SUFFICES ASSUME StoreInv, Survivable, op.at = "run", NEW d \in Sure
               PROVE  d \in Published /\ <<d, manifest[d]>> \in objects
    BY DEF PublishedIsReadable, Sure
  <2>1. d \in Digest /\ manifest[d] # None /\ Sound(d, manifest[d])
    BY RunningKept DEF StoreInv, Steady
  <2> QED
    BY <2>1 DEF Published, Sound
<1> QED
  BY <1>1, StoreInvariant, PTL

-----------------------------------------------------------------------------
(* The quota.                                                               *)

QuotaInv == IsFiniteSet(objects) /\ QuotaKept

\* Objects only go, or one comes that there is room for.
LEMMA ObjectsStep ==
  ASSUME [Next]_vars
  PROVE  \/ objects' \subseteq objects
         \/ HasRoom /\ \E o : objects' = objects \cup {o}
<1>1. CASE PutObject
  BY <1>1 DEF PutObject
<1>2. CASE RekeyObject
  <2>1. PICK d \in Outdated : CanRekey(d) /\ objects' = objects \cup {<<d, op.key>>}
    BY <1>2 DEF RekeyObject
  <2>2. <<d, op.key>> \in objects \/ HasRoom
    BY <2>1 DEF CanRekey, RekeyFits
  <2> QED
    BY <2>1, <2>2
<1>3. CASE Step /\ ~PutObject /\ ~RekeyObject
  BY <1>3 DEF Step, RecoverBackup, Recovered, Read, PutNothing, PutManifest, DeleteObject,
    DeleteManifest, GcExpiredObject, GcExpiredManifest, GcOrphan, GcEnd, RekeyRename,
    RekeyPublish, RekeyUnlink, RekeyUndo, RekeyEnd, disk
<1>4. CASE \E i \in Instance, kind \in Kinds \ {"none"}, d \in Digest \cup {None},
              late \in BOOLEAN, key \in Key \cup {None} : Begin(i, kind, d, late, key)
  BY <1>4 DEF Begin, disk
<1>5. CASE CallFails \/ (\E i \in Instance : Crash(i)) \/ UNCHANGED vars
  BY <1>5 DEF CallFails, Crash, disk, vars
<1> QED
  BY <1>1, <1>2, <1>3, <1>4, <1>5 DEF Next

LEMMA QuotaStep == QuotaInv /\ [Next]_vars => QuotaInv'
<1> SUFFICES ASSUME QuotaInv, [Next]_vars PROVE QuotaInv'
  OBVIOUS
<1>1. IsFiniteSet(objects) /\ Cardinality(objects) \in Nat /\ Cardinality(objects) <= Quota
  BY FS_CardinalityType DEF QuotaInv, QuotaKept
<1>2. CASE objects' \subseteq objects
  <2>1. IsFiniteSet(objects') /\ Cardinality(objects') <= Cardinality(objects)
    BY <1>1, <1>2, FS_Subset
  <2>2. Cardinality(objects') \in Nat
    BY <2>1, FS_CardinalityType
  <2> QED
    BY <1>1, <2>1, <2>2, StoreAssumption DEF QuotaInv, QuotaKept
<1>3. CASE HasRoom /\ \E o : objects' = objects \cup {o}
  <2>1. IsFiniteSet(objects') /\ Cardinality(objects') <= Cardinality(objects) + 1
    BY <1>1, <1>3, FS_AddElement
  <2>2. Cardinality(objects') \in Nat
    BY <2>1, FS_CardinalityType
  <2> QED
    BY <1>1, <1>3, <2>1, <2>2, StoreAssumption DEF HasRoom, QuotaInv, QuotaKept
<1> QED
  BY <1>2, <1>3, ObjectsStep

\* The object files never outgrow the quota, whatever crashes and whatever fails.
THEOREM QuotaHolds == Spec => []QuotaKept
<1>1. Init => QuotaInv
  BY FS_EmptySet, StoreAssumption DEF Init, QuotaInv, QuotaKept
<1>2. QuotaInv => QuotaKept
  BY DEF QuotaInv
<1> QED
  BY <1>1, <1>2, QuotaStep, PTL DEF Spec

-----------------------------------------------------------------------------
(* The store implements the promise of ContentStore.                        *)

\* What becomes of the stored content in one step.
Moves == Promise!Ask \/ \E d \in Digest : Promise!Add(d) \/ Promise!Drop(d)

LEMMA SameContent ==
  ASSUME \A d \in Digest : Stands(d)' <=> Stands(d)
  PROVE  Moves
BY RecoverableStands, RecoverableStandsNext DEF Moves, Promise!Ask

\* The content that a caller puts, or that a failed call has left, is all that comes.
LEMMA OneMore ==
  ASSUME NEW d \in Digest, d \in LeftBehind \/ (op.kind = "put" /\ d = op.digest),
         Stands(d) => Stands(d)',
         \A e \in Digest \ {d} : Stands(e)' <=> Stands(e)
  PROVE  Moves
<1>1. CASE Stands(d)' /\ ~Stands(d)
  <2>1. Recoverable' = Recoverable \cup {d}
    BY <1>1, RecoverableStands, RecoverableStandsNext
  <2> QED
    BY <2>1 DEF Moves, Promise!Add
<1>2. CASE Stands(d)' <=> Stands(d)
  BY <1>2, SameContent
<1> QED
  BY <1>1, <1>2

\* The content that a caller asks to be dropped, or that a failed call has left and
\* that has no manifest any more, is all that goes.
LEMMA OneLess ==
  ASSUME NEW d \in Digest,
         d \in LeftBehind \ Published \/ d \in Doomed(op.kind, op.digest, op.late),
         Stands(d)' => Stands(d),
         \A e \in Digest \ {d} : Stands(e)' <=> Stands(e)
  PROVE  Moves
<1>1. CASE ~Stands(d)' /\ Stands(d)
  <2>1. Recoverable' = Recoverable \ {d}
    BY <1>1, RecoverableStands, RecoverableStandsNext
  <2> QED
    BY <2>1 DEF Moves, Promise!Drop
<1>2. CASE Stands(d)' <=> Stands(d)
  BY <1>2, SameContent
<1> QED
  BY <1>1, <1>2

\* The steps that change nothing on disk, and do not begin or end a replacement.
LEMMA QuietMoves ==
  ASSUME UNCHANGED <<objects, manifest, backups>>,
         \A d \in Digest : Replacing(d)' = Replacing(d) /\ (Replacing(d) => op'.old = op.old)
  PROVE  Moves
<1>1. \A d \in Digest : Stands(d)' <=> Stands(d)
  BY DEF Stands, Sound
<1> QED
  BY <1>1, SameContent

LEMMA QuietStepsMove ==
  ASSUME Steady, Recovered \/ Read \/ PutNothing \/ GcEnd \/ RekeyEnd
  PROVE  Moves
<1>1. UNCHANGED <<objects, manifest, backups>> /\ op.at \in {"recover", "run"}
  BY DEF Recovered, Read, PutNothing, GcEnd, RekeyEnd, disk, Does
<1>2. op'.at \in {"run", "start"}
  BY IdleFields, Proceeding DEF Recovered, Read, PutNothing, GcEnd, RekeyEnd, End, Steady, TypeOK
<1> QED
  BY <1>1, <1>2, QuietMoves DEF Replacing

LEMMA BeginMoves ==
  ASSUME Steady, NEW i \in Instance, NEW kind \in Kinds \ {"none"},
         NEW d \in Digest \cup {None}, NEW late \in BOOLEAN, NEW key \in Key \cup {None},
         Begin(i, kind, d, late, key)
  PROVE  Moves
<1> DEFINE at == IF i \in ready THEN "run" ELSE "recover"
<1>1. op' = [by |-> i, kind |-> kind, digest |-> d, late |-> late, key |-> key,
             old |-> None, at |-> at]
  BY DEF Begin
<1>2. op'.at \in {"run", "recover"}
  BY <1>1
<1>3. UNCHANGED <<objects, manifest, backups>> /\ op.at = "start"
  BY IdleFields DEF Begin, disk
<1> QED
  BY <1>2, <1>3, QuietMoves DEF Replacing

\* What recovery brings back was recoverable; unless a failed call had left more
\* than one backup of it.
LEMMA RecoverBackupMoves == ASSUME Steady, RecoverBackup PROVE Moves
<1>1. PICK b \in backups :
        /\ backups' = backups \ {b}
        /\ manifest' = IF manifest[b[1]] = None
                       THEN [manifest EXCEPT ![b[1]] = b[2]] ELSE manifest
  BY DEF RecoverBackup
<1>2. UNCHANGED <<objects, op>> /\ op.at = "recover"
  BY DEF RecoverBackup
<1>3. \A e : ~Replacing(e) /\ ~Replacing(e)'
  BY <1>2 DEF Replacing
<1>4. b[1] \in Digest /\ b[2] \in Variant /\ b = <<b[1], b[2]>> /\ b[2] # None
      /\ manifest \in [Digest -> Variant \cup {None}]
  BY NoneIsNoVariant DEF Steady, TypeOK
<1>5. ASSUME NEW e \in Digest, e # b[1] \/ manifest[b[1]] # None
      PROVE  Stands(e)' <=> Stands(e)
  <2>1. manifest'[e] = manifest[e]
    BY <1>1, <1>4, <1>5
  <2>2. CASE manifest[e] # None
    BY <1>2, <2>1, <2>2 DEF Stands, Sound
  <2>3. CASE manifest[e] = None
    <3>1. \A v \in Variant : <<e, v>> \in backups <=> <<e, v>> \in backups'
      BY <1>1, <1>4, <1>5, <2>3
    <3> QED
      BY <1>2, <1>3, <2>1, <2>3, <3>1 DEF Stands, Sound
  <2> QED
    BY <2>2, <2>3
<1>6. CASE manifest[b[1]] # None
  BY <1>5, <1>6, SameContent
<1>7. CASE manifest[b[1]] = None
  <2>1. manifest'[b[1]] = b[2]
    BY <1>1, <1>4, <1>7
  <2>2. Stands(b[1])' <=> Sound(b[1], b[2])
    BY <1>2, <1>4, <2>1 DEF Stands, Sound
  <2>3. Stands(b[1]) => Sound(b[1], b[2])
    BY <1>3, <1>4, <1>7 DEF Stands
  <2>4. CASE b[1] \notin left
    <3>1. \A v \in Variant : <<b[1], v>> \in backups => v = b[2]
      <4>1. \A c \in backups : c[1] = b[1] => c = b
        BY <1>2, <2>4 DEF Steady, KeptInv, BackupsAreOwn
      <4> QED
        BY <1>4, <4>1
    <3>2. Sound(b[1], b[2]) => Stands(b[1])
      BY <1>3, <1>4, <1>7, <3>1 DEF Stands
    <3> QED
      BY <1>5, <2>2, <2>3, <3>2, SameContent
  <2>5. CASE b[1] \in left
    <3>1. b[1] \in LeftBehind
      BY <1>4, <2>5 DEF LeftBehind
    <3> QED
      BY <1>4, <1>5, <2>2, <2>3, <3>1, OneMore
  <2> QED
    BY <2>4, <2>5
<1> QED
  BY <1>6, <1>7

LEMMA PutMoves == ASSUME Steady, PutObject \/ PutManifest PROVE Moves
<1>1. op.kind = "put" /\ op.digest \in Digest /\ op.by \in Instance
  BY Owned, TypeParts DEF PutObject, PutManifest, Does, Steady, TypeOK
<1>0. PICK d \in Digest : d = op.digest
  BY <1>1
<1>2. Running \in Variant /\ manifest \in [Digest -> Variant \cup {None}]
  BY <1>1 DEF Running, Steady, TypeOK
<1>3. CASE PutObject
  <2>1. UNCHANGED <<manifest, backups>> /\ objects' = objects \cup {<<d, Running>>}
        /\ manifest[d] = None /\ op.at = "run"
    BY <1>0, <1>1, <1>3 DEF PutObject, Does, Published
  <2>2. op'.at = "manifest"
    BY <1>3, Proceeding DEF PutObject, Steady, TypeOK
  <2>3. \A e : ~Replacing(e) /\ ~Replacing(e)'
    BY <2>1, <2>2 DEF Replacing
  <2>4. \A e \in Digest \ {d} : Stands(e)' <=> Stands(e)
    BY <2>1, <2>3 DEF Stands, Sound
  <2>5. Stands(d) => Stands(d)'
    BY <2>1, <2>3 DEF Stands, Sound
  <2> QED
    BY <1>0, <1>1, <2>4, <2>5, OneMore
<1>4. CASE PutManifest
  <2>1. UNCHANGED <<objects, backups>> /\ manifest' = [manifest EXCEPT ![d] = Running]
        /\ op.at = "manifest" /\ op'.at = "start"
    BY <1>0, <1>4, IdleFields DEF PutManifest, Does, End
  <2>2. \A e : ~Replacing(e) /\ ~Replacing(e)'
    BY <2>1 DEF Replacing
  <2>3. \A e \in Digest \ {d} : manifest'[e] = manifest[e]
    BY <1>2, <2>1
  <2>4. \A e \in Digest \ {d} : Stands(e)' <=> Stands(e)
    BY <2>1, <2>2, <2>3 DEF Stands, Sound
  <2>5. manifest'[d] = Running /\ Sound(d, Running)
    BY <1>0, <1>1, <1>2, <2>1 DEF Steady, OperationShape
  <2>6. Stands(d)'
    BY <1>2, <2>1, <2>5, NoneIsNoVariant DEF Stands, Sound
  <2> QED
    BY <1>0, <1>1, <2>4, <2>6, OneMore
<1> QED
  BY <1>3, <1>4

\* What loses an object that was asked to be dropped may cease to stand; what loses a
\* manifest has no object any more.
LEMMA ObjectLost ==
  ASSUME NEW d \in Digest, NEW v \in Variant, objects' = objects \ {<<d, v>>},
         UNCHANGED <<manifest, backups, op>>
  PROVE  /\ Stands(d)' => Stands(d)
         /\ \A e \in Digest \ {d} : Stands(e)' <=> Stands(e)
<1>1. \A e : Replacing(e)' = Replacing(e)
  BY DEF Replacing
<1> QED
  BY <1>1 DEF Stands, Sound

LEMMA ManifestLost ==
  ASSUME NEW d \in Digest, manifest \in [Digest -> Variant \cup {None}],
         \A e : ~Replacing(e) /\ ~Replacing(e)',
         Variants(d) = {}, manifest' = [manifest EXCEPT ![d] = None],
         UNCHANGED <<objects, backups>>
  PROVE  Moves
<1>1. \A e \in Digest \ {d} : manifest'[e] = manifest[e]
  OBVIOUS
<1>2. \A e \in Digest \ {d} : Stands(e)' <=> Stands(e)
  BY <1>1 DEF Stands, Sound
<1>3. \A v \in Variant : <<d, v>> \notin objects
  BY DEF Variants
<1>4. ~Stands(d)
  BY <1>3 DEF Stands, Sound
<1>5. manifest'[d] = None
  OBVIOUS
<1>6. ~Stands(d)'
  BY <1>3, <1>5 DEF Stands, Sound
<1> QED
  BY <1>2, <1>4, <1>6, SameContent

LEMMA RemovalMoves ==
  ASSUME Steady,
         \/ DeleteObject \/ DeleteManifest
         \/ GcExpiredObject \/ GcExpiredManifest
  PROVE  Moves
<1>1. op.at = "run" /\ op'.at \in {"run", "start"}
  BY IdleFields DEF DeleteObject, DeleteManifest, GcExpiredObject, GcExpiredManifest, Does, End
<1>2. \A e : ~Replacing(e) /\ ~Replacing(e)'
  BY <1>1 DEF Replacing
<1>3. manifest \in [Digest -> Variant \cup {None}]
  BY DEF Steady, TypeOK
<1>4. CASE DeleteObject
  <2>1. op.digest \in Digest /\ op.digest \in Doomed(op.kind, op.digest, op.late)
    BY <1>4 DEF DeleteObject, Does, Doomed, Steady, TypeOK
  <2>2. PICK v \in Variant : objects' = objects \ {<<op.digest, v>>}
    BY <1>4 DEF DeleteObject, Variants
  <2>3. UNCHANGED <<manifest, backups, op>>
    BY <1>4 DEF DeleteObject
  <2> QED
    BY <2>1, <2>2, <2>3, ObjectLost, OneLess
<1>5. CASE DeleteManifest
  <2>1. op.digest \in Digest
    BY <1>5 DEF DeleteManifest, Does, Steady, TypeOK
  <2> QED
    BY <1>2, <1>3, <1>5, <2>1, ManifestLost DEF DeleteManifest
<1>6. CASE GcExpiredObject
  <2>1. PICK d \in Expired : \E v \in Variants(d) : objects' = objects \ {<<d, v>>}
    BY <1>6 DEF GcExpiredObject
  <2>2. PICK v \in Variant : objects' = objects \ {<<d, v>>}
    BY <2>1 DEF Variants
  <2>3. d \in Digest /\ d \in Doomed(op.kind, op.digest, op.late)
    BY <1>6 DEF GcExpiredObject, Does, Doomed, Expired, Published
  <2>4. UNCHANGED <<manifest, backups, op>>
    BY <1>6 DEF GcExpiredObject
  <2> QED
    BY <2>2, <2>3, <2>4, ObjectLost, OneLess
<1>7. CASE GcExpiredManifest
  <2>1. PICK d \in Expired : Variants(d) = {} /\ manifest' = [manifest EXCEPT ![d] = None]
    BY <1>7 DEF GcExpiredManifest
  <2>2. d \in Digest /\ UNCHANGED <<objects, backups>>
    BY <1>7 DEF GcExpiredManifest, Expired, Published
  <2> QED
    BY <1>2, <1>3, <2>1, <2>2, ManifestLost
<1> QED
  BY <1>4, <1>5, <1>6, <1>7

\* An orphan is nobody's, unless a backup that a failed call has left names it.
LEMMA GcOrphanMoves == ASSUME Steady, GcOrphan PROVE Moves
<1>1. PICK o \in objects \ Referenced : objects' = objects \ {o}
  BY DEF GcOrphan
<1>2. o = <<o[1], o[2]>> /\ o[1] \in Digest /\ o[2] \in Variant
  BY DEF Steady, TypeOK
<1>3. UNCHANGED <<manifest, backups, op>> /\ op.at = "run"
  BY DEF GcOrphan, Does
<1>4. objects' = objects \ {<<o[1], o[2]>>}
  BY <1>1, <1>2
<1>5. /\ Stands(o[1])' => Stands(o[1])
      /\ \A e \in Digest \ {o[1]} : Stands(e)' <=> Stands(e)
  BY <1>2, <1>3, <1>4, ObjectLost
<1>6. ~Replacing(o[1]) /\ ~Replacing(o[1])'
  BY <1>3 DEF Replacing
<1>7. CASE manifest[o[1]] # None
  <2>1. manifest[o[1]] # o[2]
    BY <1>1, <1>2, <1>7 DEF Referenced, Published
  <2>2. Stands(o[1])' <=> Stands(o[1])
    BY <1>3, <1>4, <1>7, <2>1 DEF Stands, Sound
  <2> QED
    BY <1>5, <2>2, SameContent
<1>8. CASE manifest[o[1]] = None /\ o \notin backups
  <2>1. Stands(o[1])' <=> Stands(o[1])
    BY <1>2, <1>3, <1>4, <1>6, <1>8 DEF Stands, Sound
  <2> QED
    BY <1>5, <2>1, SameContent
<1>9. CASE manifest[o[1]] = None /\ o \in backups
  <2>1. o[1] \in left
    BY <1>3, <1>9 DEF Steady, KeptInv, BackupsAreOwn
  <2>2. o[1] \in LeftBehind \ Published
    BY <1>2, <1>9, <2>1 DEF LeftBehind, Published
  <2> QED
    BY <1>2, <1>5, <2>2, OneLess
<1> QED
  BY <1>7, <1>8, <1>9

\* A digest that is rekeyed stands before each step and after it.
LEMMA RekeyObjectMoves == ASSUME Steady, RekeyObject PROVE Moves
<1>1. PICK d \in Outdated :
        /\ CanRekey(d) /\ d \in Digest /\ manifest[d] \in Variant
        /\ objects' = objects \cup {<<d, op.key>>} /\ op'.at = "rename"
  BY RekeyObjectFields DEF Steady
<1>2. UNCHANGED <<manifest, backups>> /\ op.at = "run"
  BY DEF RekeyObject, Does
<1>3. \A e : ~Replacing(e) /\ ~Replacing(e)'
  BY <1>1, <1>2 DEF Replacing
<1>4. Stands(d) /\ Stands(d)'
  BY <1>1, <1>2, NoneIsNoVariant DEF Stands, Sound, CanRekey, Readable
<1>5. \A e \in Digest \ {d} : Stands(e)' <=> Stands(e)
  BY <1>1, <1>2, <1>3 DEF Stands, Sound
<1> QED
  BY <1>4, <1>5, SameContent

\* A replacement changes the manifest and the backup of its digest alone.
LEMMA ReplacementMoves ==
  ASSUME Steady, RekeyRename \/ RekeyPublish \/ RekeyUnlink \/ RekeyUndo
  PROVE  Moves
<1>1. PICK d \in Digest : d = op.digest
  BY DEF RekeyRename, RekeyPublish, RekeyUnlink, RekeyUndo, Does, Steady, TypeOK
<1>2. manifest \in [Digest -> Variant \cup {None}] /\ op.old \in Variant /\ op.key \in Variant
      /\ objects' = objects /\ OwnBackup = <<d, op.old>>
  BY <1>1 DEF RekeyRename, RekeyPublish, RekeyUnlink, RekeyUndo, Does, Steady, TypeOK, Variant,
              OwnBackup
<1>3. op'.at \in {"publish", "undo", "redo"} => op'.digest = d /\ op'.old = op.old
  <2>1. CASE RekeyRename \/ RekeyPublish
    BY <1>1, <2>1, Proceeding DEF RekeyRename, RekeyPublish, Steady, TypeOK
  <2>2. CASE RekeyUnlink
    BY <2>2, RekeyUnlinkFields DEF Steady
  <2>3. CASE RekeyUndo
    BY <2>3, IdleFields DEF RekeyUndo, End
  <2> QED
    BY <2>1, <2>2, <2>3
<1>4. \A e \in Digest \ {d} : ~Replacing(e) /\ ~Replacing(e)'
  BY <1>1, <1>3 DEF Replacing
<1>5. \A e \in Digest \ {d} : manifest'[e] = manifest[e]
  BY <1>1, <1>2 DEF RekeyRename, RekeyPublish, RekeyUnlink, RekeyUndo
<1>6. \A e \in Digest \ {d} : \A v \in Variant : <<e, v>> \in backups <=> <<e, v>> \in backups'
  BY <1>2 DEF RekeyRename, RekeyPublish, RekeyUnlink, RekeyUndo
<1>7. \A e \in Digest \ {d} : Stands(e)' <=> Stands(e)
  BY <1>2, <1>4, <1>5, <1>6 DEF Stands, Sound
<1>8. Stands(d) /\ Stands(d)'
  <2>1. CASE RekeyRename
    <3>1. op.at = "rename" /\ manifest[d] = op.old /\ Sound(d, op.old) /\ manifest'[d] = None
      BY <1>1, <1>2, <2>1 DEF RekeyRename, Does, Steady, OperationShape
    <3>2. Replacing(d)' /\ op'.old = op.old
      BY <1>1, <1>3, <2>1, Proceeding DEF RekeyRename, Replacing, Steady, TypeOK
    <3> QED
      BY <1>2, <3>1, <3>2, NoneIsNoVariant DEF Stands, Sound
  <2>2. CASE RekeyPublish
    <3>1. op.at = "publish" /\ manifest[d] = None /\ Sound(d, op.old) /\ Sound(d, op.key)
          /\ manifest'[d] = op.key
      BY <1>1, <1>2, <2>2 DEF RekeyPublish, Does, Steady, OperationShape
    <3>2. Replacing(d)
      BY <1>1, <3>1 DEF Replacing
    <3> QED
      BY <1>2, <3>1, <3>2, NoneIsNoVariant DEF Stands, Sound
  <2>3. CASE RekeyUnlink
    <3>1. manifest[d] = op.key /\ Sound(d, op.key) /\ manifest' = manifest
      BY <1>1, <2>3 DEF RekeyUnlink, Does, Steady, OperationShape
    <3> QED
      BY <1>2, <3>1, NoneIsNoVariant DEF Stands, Sound
  <2>4. CASE RekeyUndo
    <3>1. op.at \in {"undo", "redo"} /\ manifest[d] = None /\ Sound(d, op.old)
          /\ manifest'[d] = op.old
      BY <1>1, <1>2, <2>4 DEF RekeyUndo, Does, Steady, OperationShape
    <3>2. Replacing(d)
      BY <1>1, <3>1 DEF Replacing
    <3> QED
      BY <1>2, <3>1, <3>2, NoneIsNoVariant DEF Stands, Sound
  <2> QED
    BY <2>1, <2>2, <2>3, <2>4
<1> QED
  BY <1>7, <1>8, SameContent

\* A replacement that stops is still found by its own backup; unless a failed call
\* has left another.
LEMMA ReplacementStops ==
  ASSUME Steady, UNCHANGED <<objects, manifest, backups>>,
         op.at \in {"publish", "undo", "redo"}, \A e : ~Replacing(e)'
  PROVE  Moves
<1>1. PICK d \in Digest : d = op.digest
  BY DEF Steady, TypeOK
<1>2. \A e \in Digest \ {d} : ~Replacing(e)
  BY <1>1 DEF Replacing
<1>3. \A e \in Digest \ {d} : Stands(e)' <=> Stands(e)
  BY <1>2 DEF Stands, Sound
<1>4. Replacing(d) /\ manifest[d] = None /\ op.old \in Variant /\ Sound(d, op.old)
      /\ <<d, op.old>> \in backups
  BY <1>1 DEF Replacing, Steady, TypeOK, OperationShape, OwnBackup
<1>5. CASE d \in left
  <2>1. d \in LeftBehind \ Published
    BY <1>4, <1>5 DEF LeftBehind, Published
  <2>2. Stands(d)
    BY <1>4 DEF Stands
  <2> QED
    BY <1>3, <2>1, <2>2, OneLess
<1>6. CASE d \notin left
  <2>1. \A v \in Variant : <<d, v>> \in backups => v = op.old
    BY <1>1, <1>6 DEF Steady, KeptInv, BackupsAreOwn, OwnBackup
  <2>2. Stands(d) /\ Stands(d)'
    BY <1>4, <2>1 DEF Stands, Sound
  <2> QED
    BY <1>3, <2>2, SameContent
<1> QED
  BY <1>5, <1>6

LEMMA FailsMoves == ASSUME Steady, CallFails PROVE Moves
<1>1. UNCHANGED <<objects, manifest, backups>>
  BY DEF CallFails, disk
<1>2. CASE Does("rekey", "publish") \/ Does("rekey", "undo")
  <2>1. op'.at \in {"undo", "redo"} /\ op'.digest = op.digest /\ op'.old = op.old
    BY <1>2, Proceeding DEF CallFails, Steady, TypeOK
  <2> QED
    BY <1>1, <1>2, <2>1, QuietMoves DEF Replacing, Does
<1>3. CASE ~(Does("rekey", "publish") \/ Does("rekey", "undo"))
  <2>1. op'.at = "start"
    BY <1>3, IdleFields DEF CallFails, End
  <2>2. \A e : ~Replacing(e)'
    BY <2>1 DEF Replacing
  <2> QED
    BY <1>1, <2>2, ReplacementStops, QuietMoves DEF Replacing
<1> QED
  BY <1>2, <1>3

LEMMA CrashMoves ==
  ASSUME Steady, NEW i \in Instance, Crash(i), Survivable'
  PROVE  Moves
<1>1. UNCHANGED <<objects, manifest, backups>>
  BY DEF Crash, disk
<1>2. op'.at = "start"
  <2>1. \A j \in Instance : j = i
    BY StoreAssumption DEF Crash, Survivable, Steady, TypeOK
  <2>2. CASE op.by = i
    BY <2>2, IdleFields DEF Crash
  <2>3. CASE op.by # i
    BY <2>1, <2>3, IdleFields DEF Crash, Steady, TypeOK
  <2> QED
    BY <2>2, <2>3
<1>3. \A e : ~Replacing(e)'
  BY <1>2 DEF Replacing
<1> QED
  BY <1>1, <1>3, ReplacementStops, QuietMoves DEF Replacing

\* What is asked of the store is some of its content.
AskedOfDigests ==
  /\ LeftBehind \cup (IF op.kind = "put" THEN {op.digest} ELSE {}) \in SUBSET Digest
  /\ (LeftBehind \ Published) \cup Doomed(op.kind, op.digest, op.late) \in SUBSET Digest

LEMMA AskedTyped == TypeOK => AskedOfDigests
<1> SUFFICES ASSUME TypeOK PROVE AskedOfDigests
  OBVIOUS
<1>1. LeftBehind \subseteq Digest
  BY DEF LeftBehind, TypeOK
<1>2. op.kind \in {"put", "delete"} => op.digest \in Digest
  BY DEF TypeOK
<1>3. Doomed(op.kind, op.digest, op.late) \subseteq Digest
  BY <1>2, StoreAssumption DEF Doomed
<1> QED
  BY <1>1, <1>2, <1>3 DEF AskedOfDigests

LEMMA AskedTypedNext == TypeOK' => AskedOfDigests'
BY AskedTyped, PTL

LEMMA MovesStep == Steady /\ [Next]_vars /\ Survivable' => Moves
<1> SUFFICES ASSUME Steady, [Next]_vars, Survivable' PROVE Moves
  OBVIOUS
<1>1. CASE \E i \in Instance, kind \in Kinds \ {"none"}, d \in Digest \cup {None},
              late \in BOOLEAN, key \in Key \cup {None} : Begin(i, kind, d, late, key)
  BY <1>1, BeginMoves
<1>2. CASE Step
  BY <1>2, RecoverBackupMoves, QuietStepsMove, PutMoves, RemovalMoves, GcOrphanMoves,
     RekeyObjectMoves, ReplacementMoves DEF Step
<1>3. CASE CallFails
  BY <1>3, FailsMoves
<1>4. CASE \E i \in Instance : Crash(i)
  BY <1>4, CrashMoves
<1>5. CASE UNCHANGED vars
  BY <1>5, QuietMoves DEF vars, disk, Replacing
<1> QED
  BY <1>1, <1>2, <1>3, <1>4, <1>5 DEF Next

\* The store keeps the promise of ContentStore: content comes to be stored only while
\* it is put, and ceases to be only while it is deleted or collected; except what a
\* failed call has left.  The faults are bounded to those that a store survives.
THEOREM StoreKeepsPromise ==
  ASSUME MaxCrashes = 0 \/ \A i, j \in Instance : i = j
  PROVE  Spec => KeepsPromise
<1>1. Init => Promise!Init
  <2> SUFFICES ASSUME Init PROVE Promise!Init
    OBVIOUS
  <2>1. op.kind = "none" /\ left = {} /\ backups = {} /\ op.at = "start"
        /\ \A d \in Digest : manifest[d] = None
    BY IdleFields DEF Init
  <2>2. \A d : ~Stands(d) \/ d \notin Digest
    BY <2>1 DEF Stands, Replacing
  <2>3. Recoverable = {} /\ LeftBehind = {}
    BY <2>1, <2>2, RecoverableStands DEF LeftBehind
  <2> QED
    BY <2>1, <2>3 DEF Promise!Init, Doomed
<1>2. TypeOK => Survivable
  BY StoreAssumption DEF TypeOK, Survivable
<1>3. TypeOK' => Survivable'
  BY StoreAssumption DEF TypeOK, Survivable
<1>4. ASSUME StoreInv, StoreInv', [Next]_vars PROVE [Promise!Next]_(Promise!vars)
  <2>1. TypeOK /\ TypeOK'
    BY <1>4 DEF StoreInv
  <2>2. Moves
    BY <1>2, <1>3, <1>4, <2>1, MovesStep DEF StoreInv, Steady
  <2>3. AskedOfDigests'
    BY <2>1, AskedTypedNext
  <2> QED
    BY <2>2, <2>3 DEF Moves, AskedOfDigests, Promise!Next
<1> QED
  BY <1>1, <1>4, StoreInvariant, PTL DEF Spec, KeepsPromise, Promise!Spec
==============================================================================
