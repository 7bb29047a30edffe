---------------------------- MODULE RecoveryLock ----------------------------
(***************************************************************************)
(* The inter-process lock of the recovery store                            *)
(* (src/src/core/recovery-store.ts, acquireRecoveryLock() and enqueue()): a *)
(* file created exclusively, whose mtime its holder refreshes, and which a  *)
(* waiter removes once the mtime is older than the lease.                   *)
(*                                                                         *)
(* A process runs one store operation at a time: enqueue() chains them.     *)
(* Every file system call is a step of its own, because processes           *)
(* interleave between the calls.  Time is counted in heartbeat intervals.   *)
(* A running process completes a call within a tick; a process may stall    *)
(* (suspended, or its event loop blocked) and resume, or crash and restart. *)
(***************************************************************************)
EXTENDS Naturals, FiniteSets

CONSTANTS
  Process,
  Nobody,
  Lease,          \* RECOVERY_LOCK_STALE_MS, in ticks
  Wait,           \* RECOVERY_LOCK_WAIT_MS
  Beat,           \* RECOVERY_LOCK_HEARTBEAT_MS
  MaxCrashes,     \* bounds on the crashes and stalls explored
  MaxStalls

ASSUME LockAssumption ==
  /\ Nobody \notin Process
  /\ Wait \in Nat \ {0} /\ Beat \in Nat \ {0}
  /\ Lease \in Nat /\ Beat < Lease
  /\ MaxCrashes \in Nat /\ MaxStalls \in Nat

VARIABLES
  lock,           \* the lock file: its token, whether it is written, its age
  pc,             \* where each process is in acquire, operate, release
  waited,         \* ticks since its acquireRecoveryLock() began
  stalled,        \* the processes that take no step at present
  current,        \* those whose last look at the lock file is still true of it:
                  \* it may have aged, but was not touched since (history)
  crashes, stalls

vars == <<lock, pc, waited, stalled, current, crashes, stalls>>
faults == <<stalled, crashes, stalls>>

NoLock == [owner |-> Nobody, content |-> "empty", age |-> 0]

\* The calls a process is about to make.
Places ==
  {"idle", "open", "stat", "sleep", "break", "write", "operate", "read", "remove"}

Running(p) == p \notin stalled

At(p, place) == pc[p] = place /\ Running(p)

Go(p, place) == pc' = [pc EXCEPT ![p] = place]

\* What a call does to the lock file, and what its process then knows of it.
LooksAtLock(p) == lock' = lock /\ current' = current \cup {p}
TouchesLock(file) == lock' = file /\ current' = {}
CreatesLock(p) ==
  /\ lock' = [owner |-> p, content |-> "empty", age |-> 0]
  /\ current' = {p}

Init ==
  /\ lock = NoLock
  /\ pc = [p \in Process |-> "idle"]
  /\ waited = [p \in Process |-> 0]
  /\ stalled = {} /\ current = {}
  /\ crashes = 0 /\ stalls = 0

-----------------------------------------------------------------------------
(* acquireRecoveryLock().                                                   *)

Acquire(p) ==
  /\ At(p, "idle")
  /\ Go(p, "open")
  /\ waited' = [waited EXCEPT ![p] = 0]
  /\ UNCHANGED <<lock, current, faults>>

\* The operation is rejected without having started.
TimeOut(p) ==
  /\ At(p, "open") /\ waited[p] >= Wait
  /\ Go(p, "idle")
  /\ UNCHANGED <<lock, waited, current, faults>>

\* open(lockPath, 'wx').
Create(p) ==
  /\ At(p, "open") /\ waited[p] < Wait
  /\ IF lock = NoLock
     THEN CreatesLock(p) /\ Go(p, "write")
     ELSE Go(p, "stat") /\ UNCHANGED <<lock, current>>
  /\ UNCHANGED <<waited, faults>>

\* Mutant of StatLock: a lock is stale after one heartbeat interval.
StatImpatiently(p) ==
  /\ At(p, "stat")
  /\ LooksAtLock(p)
  /\ IF lock.age >= Beat THEN Go(p, "break")
     ELSE IF lock = NoLock THEN Go(p, "open") ELSE Go(p, "sleep")
  /\ UNCHANGED <<waited, faults>>

\* Mutant of StatLock: a stale lock is waited for like any other.
StatPatiently(p) ==
  /\ At(p, "stat")
  /\ LooksAtLock(p)
  /\ IF lock = NoLock THEN Go(p, "open") ELSE Go(p, "sleep")
  /\ UNCHANGED <<waited, faults>>

\* stat(lockPath): a stale lock is broken, one that is gone tried again at once.
StatLock(p) ==
  /\ At(p, "stat")
  /\ LooksAtLock(p)
  /\ IF lock.age >= Lease THEN Go(p, "break")
     ELSE IF lock = NoLock THEN Go(p, "open") ELSE Go(p, "sleep")
  /\ UNCHANGED <<waited, faults>>

\* waitForRecoveryLock().
Wake(p) ==
  /\ At(p, "sleep")
  /\ Go(p, "open")
  /\ UNCHANGED <<lock, waited, current, faults>>

\* rm(lockPath, force): whatever is there by now.
Break(p) ==
  /\ At(p, "break")
  /\ TouchesLock(NoLock)
  /\ Go(p, "open")
  /\ UNCHANGED <<waited, faults>>

\* file.writeFile() and sync(), on the open file: lost when it was removed.
WriteRecord(p) ==
  /\ At(p, "write")
  /\ IF lock.owner = p
     THEN lock' = [owner |-> p, content |-> "record", age |-> 0] /\ current' = {p}
     ELSE UNCHANGED <<lock, current>>
  /\ Go(p, "operate")
  /\ UNCHANGED <<waited, faults>>

\* The write fails: the lock is removed by path and the acquire rejects.
WriteFails(p) ==
  /\ At(p, "write")
  /\ TouchesLock(NoLock)
  /\ Go(p, "idle")
  /\ UNCHANGED <<waited, faults>>

-----------------------------------------------------------------------------
(* The operation, with its heartbeat, and the release.                      *)

\* utimes(lockPath): by path, whoever's lock that is.
Heartbeat(p) ==
  /\ At(p, "operate") /\ lock # NoLock
  /\ TouchesLock([lock EXCEPT !.age = 0])
  /\ UNCHANGED <<pc, waited, faults>>

\* The operation settles; the heartbeat is cleared.
Finish(p) ==
  /\ At(p, "operate")
  /\ Go(p, "read")
  /\ UNCHANGED <<lock, waited, current, faults>>

\* Mutant of ReadToken: the lock is removed without looking whose it is.
RemoveUnread(p) ==
  /\ At(p, "read")
  /\ LooksAtLock(p)
  /\ Go(p, "remove")
  /\ UNCHANGED <<waited, faults>>

\* readFile() and the comparison of tokens.  A missing file ends the release;
\* so does another's, but with a rejection when that is not yet written.
ReadToken(p) ==
  /\ At(p, "read")
  /\ LooksAtLock(p)
  /\ IF lock.owner = p /\ lock.content = "record" THEN Go(p, "remove") ELSE Go(p, "idle")
  /\ UNCHANGED <<waited, faults>>

\* rm(lockPath, force) of the release.
Remove(p) ==
  /\ At(p, "remove")
  /\ TouchesLock(NoLock)
  /\ Go(p, "idle")
  /\ UNCHANGED <<waited, faults>>

-----------------------------------------------------------------------------
(* The environment.                                                         *)

Crash(p) ==
  /\ pc[p] # "idle" /\ crashes < MaxCrashes
  /\ crashes' = crashes + 1
  /\ stalled' = stalled \ {p}
  /\ Go(p, "idle")
  /\ UNCHANGED <<lock, waited, current, stalls>>

Stall(p) ==
  /\ pc[p] # "idle" /\ Running(p) /\ stalls < MaxStalls
  /\ stalls' = stalls + 1
  /\ stalled' = stalled \cup {p}
  /\ UNCHANGED <<lock, pc, waited, current, crashes>>

Resume(p) ==
  /\ p \in stalled
  /\ stalled' = stalled \ {p}
  /\ UNCHANGED <<lock, pc, waited, current, crashes, stalls>>

Waiting(p) == pc[p] \in {"open", "stat", "sleep", "break"}

UpTo(n, bound) == IF n < bound THEN n + 1 ELSE bound

\* A running process is not in the middle of a call, and its heartbeat is not due.
Punctual(p) ==
  /\ pc[p] \in {"idle", "sleep", "operate"}
  /\ pc[p] = "operate" /\ lock # NoLock => lock.age < Beat

Tick ==
  /\ \A p \in Process : Running(p) => Punctual(p)
  /\ lock' = IF lock = NoLock THEN lock ELSE [lock EXCEPT !.age = UpTo(@, Lease)]
  /\ waited' = [p \in Process |-> IF Waiting(p) THEN UpTo(waited[p], Wait) ELSE waited[p]]
  /\ UNCHANGED <<pc, current, faults>>

Step(p) ==
  \/ TimeOut(p) \/ Create(p) \/ StatLock(p) \/ Wake(p) \/ Break(p)
  \/ WriteRecord(p) \/ Finish(p) \/ ReadToken(p) \/ Remove(p)

Next ==
  \/ \E p \in Process :
       Acquire(p) \/ Step(p) \/ WriteFails(p) \/ Heartbeat(p)
         \/ Crash(p) \/ Stall(p) \/ Resume(p)
  \/ Tick

Spec == Init /\ [][Next]_vars

\* Time passes without end; a process that runs takes its next step and a stalled one
\* resumes; callers keep using the store.
FairSpec ==
  /\ Spec
  /\ []<><<Tick>>_vars
  /\ \A p \in Process : WF_vars(Acquire(p)) /\ WF_vars(Step(p)) /\ WF_vars(Resume(p))
-----------------------------------------------------------------------------
(* Properties.                                                              *)

\* The variables have the types the code gives them; a file that is gone has
\* neither owner nor content.
TypeOK ==
  /\ lock \in [owner : Process \cup {Nobody}, content : {"empty", "record"}, age : 0..Lease]
  /\ lock.owner = Nobody => lock = NoLock
  /\ pc \in [Process -> Places]
  /\ waited \in [Process -> 0..Wait]
  /\ stalled \subseteq Process /\ current \subseteq Process
  /\ crashes \in 0..MaxCrashes /\ stalls \in 0..MaxStalls

Tenure == {"write", "operate", "read", "remove"}

Faultless == crashes = 0 /\ stalls = 0

\* Until a process has crashed or stalled, at most one operates on the store,
\* however long its operation takes and however many wait.
Exclusive ==
  Faultless => \A p, q \in Process : pc[p] = "operate" /\ pc[q] = "operate" => p = q

\* The lock belongs to the one process in its tenure, its heartbeats keep up with
\* the lease, and so nobody ever breaks it; its release finds its own, written,
\* record.
OrderlyTenures ==
  /\ stalled = {}
  /\ \A p \in Process :
       /\ pc[p] \in Tenure => lock.owner = p
       /\ pc[p] \in Tenure \ {"write"} => lock.content = "record"
       /\ pc[p] # "break"
  /\ lock # NoLock => pc[lock.owner] \in Tenure /\ lock.age <= Beat

\* Why Exclusive holds: tenures are orderly until the first fault.
TenureOwnsLock == Faultless => OrderlyTenures

\* Whatever crashes and stalls, a process that removes the lock file of another
\* within its lease acts on an outdated look at it: the file was replaced or
\* refreshed between that process's stat, read or create and its rm.
UpToDateLooksSpareLiveLocks ==
  [][\A p, q \in Process :
       /\ p # q /\ pc[p] # pc'[p]
       /\ lock.owner = q /\ lock.age < Lease /\ lock' = NoLock
       => p \notin current]_vars

\* Why: what a process with an up-to-date look is about to remove is its own, or
\* past its lease, or already gone.
LooksAreTrue ==
  \A p \in current :
    /\ pc[p] = "break" => lock = NoLock \/ lock.age = Lease
    /\ pc[p] \in {"write", "remove"} => lock = NoLock \/ lock.owner = p

\* A lock left behind by a crash does not block the store for ever.
LockIsFreedAgain == []<>(lock = NoLock)
==============================================================================
