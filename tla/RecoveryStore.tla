---------------------------- MODULE RecoveryStore ----------------------------
(***************************************************************************)
(* One namespace of the recovery store (src/src/core/recovery-store.ts): a   *)
(* content-addressed store of object files, each published by a manifest     *)
(* file, under crashes and failing file system calls.                       *)
(*                                                                         *)
(* Operations of all instances exclude each other: that is the lock, modelled*)
(* in RecoveryLock.  Within an operation every file system call that changes *)
(* the store is a step, since a crash may follow it.  Published files are    *)
(* complete: they are linked or renamed from a synced temporary file, whose  *)
(* residue changes nothing and is left out.  An object counts one against    *)
(* the quota whatever its size; the key ring of an encrypted instance holds  *)
(* every key, and legacy plaintext is not allowed.                          *)
(***************************************************************************)
EXTENDS Naturals, FiniteSets

CONSTANTS
  Instance,         \* createRecoveryStore() results, in one process or several
  Digest,
  Expiring,         \* the digests put with an expiresAt in their metadata
  Key,
  Plain,            \* the variant of an unencrypted object
  None,
  Quota,            \* maxTotalBytes, in objects
  MaxCrashes, MaxFailures  \* bounds on the faults explored

Variant == Key \cup {Plain}

ASSUME StoreAssumption ==
  /\ Expiring \subseteq Digest
  /\ Plain \notin Key /\ None \notin Variant \cup Digest \cup Instance
  /\ Quota \in Nat /\ MaxCrashes \in Nat /\ MaxFailures \in Nat

VARIABLES
  objects,          \* object files: digest and variant
  manifest,         \* the variant the manifest of each digest names, or None
  backups,          \* the '.recovery-bak-' files: digest and variant it names
  mode,             \* the variant an instance writes: its active key, or Plain
  ready,            \* the instances whose ensureReady() has run
  op,               \* the operation that holds the lock
  kept,             \* digests published and not asked to be dropped (history)
  refusing,         \* the instances whose ensureReady() was rejected, as it stays
  crashes, failures,
  left              \* digests of which a failed call has left a backup (history)

disk == <<objects, manifest, backups>>
faults == <<refusing, crashes, failures, left>>
vars == <<disk, mode, ready, op, kept, faults>>

Kinds == {"none", "put", "delete", "gc", "rekey", "read"}

\* at: the step it is at; late: whether gc's now is past the expiry times; key:
\* the target of a rekey; old: the variant its current manifest named.
Operation ==
  [by : Instance \cup {None}, kind : Kinds, digest : Digest \cup {None}, late : BOOLEAN,
   key : Key \cup {None}, old : Variant \cup {None},
   at : {"start", "recover", "run", "manifest", "rename", "publish", "unlink", "undo", "redo"}]

Idle == [by |-> None, kind |-> "none", digest |-> None, late |-> FALSE, key |-> None,
         old |-> None, at |-> "start"]

Does(kind, at) == op.kind = kind /\ op.at = at

Running == mode[op.by]

Variants(d) == {v \in Variant : <<d, v>> \in objects}

Published == {d \in Digest : manifest[d] # None}

HasRoom == Cardinality(objects) < Quota

\* readStored(): of an instance that writes variant m, for a manifest naming v.
Readable(d, v, m, legacy) ==
  /\ <<d, v>> \in objects
  /\ IF v = Plain THEN m = Plain \/ legacy ELSE m # Plain

Init ==
  /\ objects = {} /\ manifest = [d \in Digest |-> None] /\ backups = {}
  /\ mode \in [Instance -> Variant]
  /\ ready = {} /\ op = Idle /\ kept = {}
  /\ refusing = {} /\ crashes = 0 /\ failures = 0 /\ left = {}

-----------------------------------------------------------------------------
(* enqueue() and ensureReady().                                             *)

\* The content an operation may drop, as soon as it begins.
Doomed(kind, d, late) ==
  IF kind = "delete" THEN {d}
  ELSE IF kind = "gc" /\ late THEN Expiring ELSE {}

Begin(i, kind, d, late, key) ==
  /\ op = Idle /\ i \notin refusing
  /\ kind \in {"put", "delete"} <=> d # None
  /\ kind # "gc" => ~late
  /\ kind = "rekey" <=> key # None
  /\ op' = [by |-> i, kind |-> kind, digest |-> d, late |-> late, key |-> key, old |-> None,
            at |-> IF i \in ready THEN "run" ELSE "recover"]
  /\ kept' = kept \ Doomed(kind, d, late)
  /\ UNCHANGED <<disk, mode, ready, faults>>

Proceed(at) == op' = [op EXCEPT !.at = at]
End == op' = Idle

\* recoverManifestBackups(), in whatever order the directory is listed.
RecoverBackup ==
  /\ op.at = "recover"
  /\ \E b \in backups :
       /\ backups' = backups \ {b}
       /\ manifest' = IF manifest[b[1]] = None
                      THEN [manifest EXCEPT ![b[1]] = b[2]] ELSE manifest
  /\ UNCHANGED <<objects, mode, ready, op, kept, faults>>

Recovered ==
  /\ op.at = "recover" /\ backups = {}
  /\ ready' = ready \cup {op.by}
  /\ Proceed("run")
  /\ UNCHANGED <<disk, mode, kept, faults>>

\* get(), verify(), manifest(), list() and backup() change nothing here.
Read ==
  /\ Does("read", "run")
  /\ End
  /\ UNCHANGED <<disk, mode, ready, kept, faults>>

-----------------------------------------------------------------------------
(* put() and putBounded().                                                  *)

\* Content that is there already, or that cannot be put, changes nothing: an
\* object without its manifest is refused, never adopted.
PutNothing ==
  /\ Does("put", "run")
  /\ op.digest \in Published \/ Variants(op.digest) # {} \/ ~HasRoom
  /\ End
  /\ UNCHANGED <<disk, mode, ready, kept, faults>>

PutObject ==
  /\ Does("put", "run")
  /\ op.digest \notin Published /\ Variants(op.digest) = {} /\ HasRoom
  /\ objects' = objects \cup {<<op.digest, Running>>}
  /\ Proceed("manifest")
  /\ UNCHANGED <<manifest, backups, mode, ready, kept, faults>>

PutManifest ==
  /\ Does("put", "manifest")
  /\ manifest' = [manifest EXCEPT ![op.digest] = Running]
  /\ kept' = kept \cup {op.digest}
  /\ End
  /\ UNCHANGED <<objects, backups, mode, ready, faults>>

-----------------------------------------------------------------------------
(* delete() and gc().                                                       *)

DeleteObject ==
  /\ Does("delete", "run")
  /\ \E v \in Variants(op.digest) : objects' = objects \ {<<op.digest, v>>}
  /\ UNCHANGED <<manifest, backups, mode, ready, op, kept, faults>>

DeleteManifest ==
  /\ Does("delete", "run") /\ Variants(op.digest) = {}
  /\ manifest' = [manifest EXCEPT ![op.digest] = None]
  /\ End
  /\ UNCHANGED <<objects, backups, mode, ready, kept, faults>>

Expired == IF op.late THEN Published \cap Expiring ELSE {}

GcExpiredObject ==
  /\ Does("gc", "run")
  /\ \E d \in Expired : \E v \in Variants(d) : objects' = objects \ {<<d, v>>}
  /\ UNCHANGED <<manifest, backups, mode, ready, op, kept, faults>>

GcExpiredManifest ==
  /\ Does("gc", "run")
  /\ \E d \in Expired :
       Variants(d) = {} /\ manifest' = [manifest EXCEPT ![d] = None]
  /\ UNCHANGED <<objects, backups, mode, ready, op, kept, faults>>

Referenced == {<<d, manifest[d]>> : d \in Published}

\* Mutant of GcOrphan: a referenced object is known by the collecting
\* instance's key, not by the one that its manifest names.
GcOtherVariants ==
  /\ Does("gc", "run") /\ Expired = {}
  /\ \E o \in objects : o[2] # Running /\ objects' = objects \ {o}
  /\ UNCHANGED <<manifest, backups, mode, ready, op, kept, faults>>

\* The objects that no manifest names; backups are not manifests.
GcOrphan ==
  /\ Does("gc", "run") /\ Expired = {}
  /\ \E o \in objects \ Referenced : objects' = objects \ {o}
  /\ UNCHANGED <<manifest, backups, mode, ready, op, kept, faults>>

GcEnd ==
  /\ Does("gc", "run") /\ Expired = {} /\ objects \subseteq Referenced
  /\ End
  /\ UNCHANGED <<disk, mode, ready, kept, faults>>

-----------------------------------------------------------------------------
(* rekey(), one manifest after the other, and replaceManifestAtomic().      *)

Outdated == {d \in Published : manifest[d] # op.key}

\* Mutant of RekeyFits: the re-encrypted copy is not metered.
RekeyAlwaysFits(d) == TRUE

\* The re-encrypted object is there already, or there is room for it.
RekeyFits(d) == <<d, op.key>> \in objects \/ HasRoom

CanRekey(d) == Readable(d, manifest[d], Running, TRUE) /\ RekeyFits(d)

RekeyObject ==
  /\ Does("rekey", "run") /\ Running # Plain
  /\ \E d \in Outdated :
       /\ CanRekey(d)
       /\ objects' = objects \cup {<<d, op.key>>}
       /\ op' = [op EXCEPT !.at = "rename", !.digest = d, !.old = manifest[d]]
  /\ UNCHANGED <<manifest, backups, mode, ready, kept, faults>>

OwnBackup == <<op.digest, op.old>>

\* Mutant of RekeyRename: the old manifest is removed, not renamed.
RekeyRemove ==
  /\ Does("rekey", "rename")
  /\ manifest' = [manifest EXCEPT ![op.digest] = None]
  /\ Proceed("publish")
  /\ UNCHANGED <<objects, backups, mode, ready, kept, faults>>

\* rename(path, backup).
RekeyRename ==
  /\ Does("rekey", "rename")
  /\ manifest' = [manifest EXCEPT ![op.digest] = None]
  /\ backups' = backups \cup {OwnBackup}
  /\ Proceed("publish")
  /\ UNCHANGED <<objects, mode, ready, kept, faults>>

\* rename(temporary, path).
RekeyPublish ==
  /\ Does("rekey", "publish")
  /\ manifest' = [manifest EXCEPT ![op.digest] = op.key]
  /\ Proceed("unlink")
  /\ UNCHANGED <<objects, backups, mode, ready, kept, faults>>

\* rm(backup), after which the next manifest is looked for.
RekeyUnlink ==
  /\ Does("rekey", "unlink")
  /\ backups' = backups \ {OwnBackup}
  /\ op' = [op EXCEPT !.at = "run", !.digest = None, !.old = None]
  /\ UNCHANGED <<objects, manifest, mode, ready, kept, faults>>

\* Mutant of RekeyUndo: only the temporary file is removed.
RekeyGiveUp ==
  /\ Does("rekey", "undo") \/ Does("rekey", "redo")
  /\ End
  /\ UNCHANGED <<disk, mode, ready, kept, faults>>

\* The rename to path failed: the backup is renamed back, in two attempts.
RekeyUndo ==
  /\ Does("rekey", "undo") \/ Does("rekey", "redo")
  /\ manifest' = [manifest EXCEPT ![op.digest] = op.old]
  /\ backups' = backups \ {OwnBackup}
  /\ End
  /\ UNCHANGED <<objects, mode, ready, kept, faults>>

\* All is current; or one cannot be read or written, which ends the operation.
RekeyEnd ==
  /\ Does("rekey", "run")
  /\ Running = Plain \/ Outdated = {} \/ \E d \in Outdated : ~CanRekey(d)
  /\ End
  /\ UNCHANGED <<disk, mode, ready, kept, faults>>

-----------------------------------------------------------------------------
(* Faults, in any order.                                                    *)

\* A call fails and the operation with it; what it did stays done.  An instance
\* whose recovery failed keeps the rejected promise of it.
CallFails ==
  /\ op.at # "start" /\ failures < MaxFailures
  /\ failures' = failures + 1
  /\ IF Does("rekey", "publish") THEN Proceed("undo")
     ELSE IF Does("rekey", "undo") THEN Proceed("redo") ELSE End
  /\ left' = IF op.at \in {"unlink", "redo"} THEN left \cup {op.digest} ELSE left
  /\ refusing' = IF op.at = "recover" THEN refusing \cup {op.by} ELSE refusing
  /\ UNCHANGED <<disk, mode, ready, kept, crashes>>

\* An instance is lost with its process; another takes its place, maybe with
\* another active key.
Crash(i) ==
  /\ crashes < MaxCrashes
  /\ crashes' = crashes + 1
  /\ ready' = ready \ {i} /\ refusing' = refusing \ {i}
  /\ op' = IF op.by = i THEN Idle ELSE op
  /\ \E m \in Variant : mode' = [mode EXCEPT ![i] = m]
  /\ UNCHANGED <<disk, kept, failures, left>>

Step ==
  \/ RecoverBackup \/ Recovered \/ Read
  \/ PutNothing \/ PutObject \/ PutManifest
  \/ DeleteObject \/ DeleteManifest
  \/ GcExpiredObject \/ GcExpiredManifest \/ GcOrphan \/ GcEnd
  \/ RekeyObject \/ RekeyRename \/ RekeyPublish \/ RekeyUnlink \/ RekeyUndo \/ RekeyEnd

Next ==
  \/ \E i \in Instance, kind \in Kinds \ {"none"}, d \in Digest \cup {None}, late \in BOOLEAN,
        key \in Key \cup {None} :
       Begin(i, kind, d, late, key)
  \/ Step
  \/ CallFails
  \/ \E i \in Instance : Crash(i)

Spec == Init /\ [][Next]_vars
-----------------------------------------------------------------------------
(* Properties.                                                              *)

\* The variables have the types the code gives them, and an operation has the
\* digest its step needs.
TypeOK ==
  /\ objects \subseteq Digest \X Variant
  /\ manifest \in [Digest -> Variant \cup {None}]
  /\ backups \subseteq Digest \X Variant
  /\ mode \in [Instance -> Variant]
  /\ ready \subseteq Instance
  /\ op \in Operation
  /\ op = Idle \/ op.by \in Instance
  /\ op.kind \in {"put", "delete"} => op.digest \in Digest
  /\ op.at \in {"rename", "publish", "unlink", "undo", "redo"}
       => op.digest \in Digest /\ op.old \in Variant /\ op.key \in Key
  /\ kept \subseteq Digest /\ left \subseteq Digest
  /\ refusing \subseteq Instance
  /\ crashes \in 0..MaxCrashes /\ failures \in 0..MaxFailures

\* The manifest of d is being replaced, or the replacement undone.
Replacing(d) == op.at \in {"publish", "undo", "redo"} /\ d = op.digest

\* The variants that a manifest names, or may name after a recovery; while it is
\* being replaced it is the operation's own backup that is renamed back.
Sources(d) ==
  IF manifest[d] # None THEN {manifest[d]}
  ELSE IF Replacing(d) THEN {op.old}
  ELSE {v \in Variant : <<d, v>> \in backups}

\* Whatever recovery chooses, the content is there to be read.
Recoverable ==
  {d \in Digest : Sources(d) # {} /\ \A v \in Sources(d) : <<d, v>> \in objects}

\* A failed call that leaves a backup puts its content at the mercy of the next
\* recovery, or of a collection if a replacement was not undone in two attempts.
Uncertain == IF crashes = 0 /\ failures <= 2 THEN {} ELSE left

\* Content once published stays readable, at once or after a recovery, until a
\* caller asks to delete it or to collect it expired: however operations were
\* cut short by crashes and failing calls, or the active key was changed.  The
\* one exception is content of which a failed call has left a backup, once a
\* crash makes the store recover backups.
PublishedIsRecoverable == kept \ Uncertain \subseteq Recoverable

\* At each step between the changes of an operation, and so at the start of one,
\* published content is readable by its manifest: no failing call leaves it for
\* a later recovery, and recovery leaves none unreadable.
PublishedIsReadable ==
  op.at = "run" =>
    kept \ Uncertain \subseteq {d \in Published : <<d, manifest[d]>> \in objects}

\* The object files never outgrow the quota, re-encrypted copies included.
QuotaKept == Cardinality(objects) <= Quota

\* Content with an old manifest that a failed call has left.
LeftBehind == {d \in left : \E v \in Variant : <<d, v>> \in backups}

\* The store implements the promise of ContentStore.  What a failed call left
\* behind may come back by a recovery; and while its manifest is away it may go, by
\* a recovery that has two backups to take, or by a collection.
Promise == INSTANCE ContentStore WITH
  stored <- Recoverable,
  adding <- LeftBehind \cup (IF op.kind = "put" THEN {op.digest} ELSE {}),
  dropping <- (LeftBehind \ Published) \cup Doomed(op.kind, op.digest, op.late)

KeepsPromise == Promise!Spec
==============================================================================
