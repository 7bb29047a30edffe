------------------------- MODULE RecoveryLockProofs -------------------------
(***************************************************************************)
(* What holds of RecoveryLock for every number of processes, every lease,   *)
(* and every number of crashes and stalls: an up-to-date look never leads   *)
(* to the removal of a live lock; and, without crashes and stalls, mutual   *)
(* exclusion.                                                              *)
(***************************************************************************)
EXTENDS RecoveryLock, TLAPS

\* The clauses of TypeOK about the lock file.
LockTyped(file) ==
  /\ file \in [owner : Process \cup {Nobody}, content : {"empty", "record"}, age : 0..Lease]
  /\ file.owner = Nobody => file = NoLock

\* A lock file that has an owner is well typed.
LEMMA OwnedLockTyped ==
  ASSUME NEW p \in Process, NEW w \in {"empty", "record"}, NEW a \in 0..Lease
  PROVE  LockTyped([owner |-> p, content |-> w, age |-> a])
<1>1. p # Nobody
  BY LockAssumption
<1> QED
  BY <1>1 DEF LockTyped

\* The type invariant, of every process and every fault.
LEMMA TypeInit == Init => TypeOK
BY LockAssumption DEF Init, TypeOK, NoLock, Places

LEMMA TypeStep == TypeOK /\ [Next]_vars => TypeOK'
<1> SUFFICES ASSUME TypeOK, [Next]_vars PROVE TypeOK'
  OBVIOUS
<1> USE LockAssumption DEF TypeOK, NoLock, Places, Go, At, TouchesLock, LooksAtLock, faults
<1>1. ASSUME NEW p \in Process, Acquire(p) PROVE TypeOK'
  BY <1>1 DEF Acquire
<1>2. ASSUME NEW p \in Process, TimeOut(p) PROVE TypeOK'
  BY <1>2 DEF TimeOut
<1>3. ASSUME NEW p \in Process, Create(p) PROVE TypeOK'
  <2>1. LockTyped(lock')
    <3>1. CASE lock = NoLock
      <4>1. lock' = [owner |-> p, content |-> "empty", age |-> 0]
        BY <1>3, <3>1 DEF Create, CreatesLock
      <4>2. 0 \in 0..Lease
        BY LockAssumption
      <4> QED
        BY <4>1, <4>2, OwnedLockTyped
    <3>2. CASE lock # NoLock
      BY <1>3, <3>2 DEF Create, LockTyped
    <3> QED
      BY <3>1, <3>2
  <2>2. current' \subseteq Process /\ pc' \in [Process -> Places]
    BY <1>3 DEF Create, CreatesLock
  <2>3. UNCHANGED <<waited, stalled, crashes, stalls>>
    BY <1>3 DEF Create
  <2> QED
    BY <2>1, <2>2, <2>3 DEF LockTyped
<1>4. ASSUME NEW p \in Process, StatLock(p) PROVE TypeOK'
  BY <1>4 DEF StatLock
<1>5. ASSUME NEW p \in Process, Wake(p) PROVE TypeOK'
  BY <1>5 DEF Wake
<1>6. ASSUME NEW p \in Process, Break(p) PROVE TypeOK'
  BY <1>6 DEF Break
<1>7. ASSUME NEW p \in Process, WriteRecord(p) PROVE TypeOK'
  <2>1. ASSUME lock.owner = p PROVE LockTyped(lock')
    <3>1. lock' = [owner |-> p, content |-> "record", age |-> 0]
      BY <1>7, <2>1 DEF WriteRecord
    <3>2. 0 \in 0..Lease /\ "record" \in {"empty", "record"}
      BY LockAssumption
    <3>3. LockTyped([owner |-> p, content |-> "record", age |-> 0])
      BY <3>2, OwnedLockTyped
    <3> QED
      BY <3>1, <3>3
  <2>2. ASSUME lock.owner # p PROVE LockTyped(lock')
    BY <1>7, <2>2 DEF WriteRecord, LockTyped
  <2>3. LockTyped(lock')
    BY <2>1, <2>2
  <2>4. current' \subseteq Process /\ pc' \in [Process -> Places]
    BY <1>7 DEF WriteRecord
  <2>5. UNCHANGED <<waited, stalled, crashes, stalls>>
    BY <1>7 DEF WriteRecord
  <2>6. waited' \in [Process -> 0..Wait] /\ stalled' \subseteq Process
    BY <2>5
  <2>7. crashes' \in 0..MaxCrashes /\ stalls' \in 0..MaxStalls
    BY <2>5
  <2> QED
    BY <2>3, <2>4, <2>6, <2>7 DEF LockTyped
<1>8. ASSUME NEW p \in Process, WriteFails(p) PROVE TypeOK'
  BY <1>8 DEF WriteFails
<1>9. ASSUME NEW p \in Process, Heartbeat(p) PROVE TypeOK'
  BY <1>9 DEF Heartbeat
<1>10. ASSUME NEW p \in Process, Finish(p) PROVE TypeOK'
  BY <1>10 DEF Finish
<1>11. ASSUME NEW p \in Process, ReadToken(p) PROVE TypeOK'
  BY <1>11 DEF ReadToken
<1>12. ASSUME NEW p \in Process, Remove(p) PROVE TypeOK'
  BY <1>12 DEF Remove
<1>13. ASSUME NEW p \in Process, Crash(p) PROVE TypeOK'
  BY <1>13 DEF Crash
<1>14. ASSUME NEW p \in Process, Stall(p) PROVE TypeOK'
  BY <1>14 DEF Stall
<1>15. ASSUME NEW p \in Process, Resume(p) PROVE TypeOK'
  BY <1>15 DEF Resume
<1>16. CASE Tick
  <2>1. lock' = lock \/ (lock # NoLock /\ lock' = [lock EXCEPT !.age = UpTo(lock.age, Lease)])
    BY <1>16 DEF Tick
  <2>2. UpTo(lock.age, Lease) \in 0..Lease
    BY DEF UpTo
  <2>5. LockTyped(lock')
    BY <2>1, <2>2 DEF LockTyped
  <2>3. waited' \in [Process -> 0..Wait]
    BY <1>16 DEF Tick, UpTo
  <2>4. UNCHANGED <<pc, current, stalled, crashes, stalls>>
    BY <1>16 DEF Tick
  <2> QED
    BY <2>3, <2>4, <2>5 DEF LockTyped
<1>17. CASE UNCHANGED vars
  BY <1>17 DEF vars
<1> QED
  BY <1>1, <1>2, <1>3, <1>4, <1>5, <1>6, <1>7, <1>8, <1>9, <1>10, <1>11, <1>12,
     <1>13, <1>14, <1>15, <1>16, <1>17 DEF Next, Step

\* The variables of the lock protocol have their types.
THEOREM TypeCorrect == Spec => []TypeOK
BY TypeInit, TypeStep, PTL DEF Spec

-----------------------------------------------------------------------------
(* Looks.                                                                   *)

LEMMA LooksInit == Init => LooksAreTrue
BY DEF Init, LooksAreTrue

LEMMA LooksStep == TypeOK /\ LooksAreTrue /\ [Next]_vars => LooksAreTrue'
<1> SUFFICES ASSUME TypeOK, LooksAreTrue, [Next]_vars PROVE LooksAreTrue'
  OBVIOUS
<1> USE LockAssumption DEF TypeOK, LooksAreTrue, NoLock, Go, At, TouchesLock, LooksAtLock, faults
<1>1. ASSUME NEW p \in Process, Acquire(p) PROVE LooksAreTrue'
  BY <1>1 DEF Acquire
<1>2. ASSUME NEW p \in Process, TimeOut(p) PROVE LooksAreTrue'
  BY <1>2 DEF TimeOut
<1>3. ASSUME NEW p \in Process, Create(p) PROVE LooksAreTrue'
  BY <1>3 DEF Create, CreatesLock
<1>4. ASSUME NEW p \in Process, StatLock(p) PROVE LooksAreTrue'
  BY <1>4 DEF StatLock
<1>5. ASSUME NEW p \in Process, Wake(p) PROVE LooksAreTrue'
  BY <1>5 DEF Wake
<1>6. ASSUME NEW p \in Process, Break(p) PROVE LooksAreTrue'
  BY <1>6 DEF Break
<1>7. ASSUME NEW p \in Process, WriteRecord(p) PROVE LooksAreTrue'
  BY <1>7 DEF WriteRecord
<1>8. ASSUME NEW p \in Process, WriteFails(p) PROVE LooksAreTrue'
  BY <1>8 DEF WriteFails
<1>9. ASSUME NEW p \in Process, Heartbeat(p) PROVE LooksAreTrue'
  BY <1>9 DEF Heartbeat
<1>10. ASSUME NEW p \in Process, Finish(p) PROVE LooksAreTrue'
  BY <1>10 DEF Finish
<1>11. ASSUME NEW p \in Process, ReadToken(p) PROVE LooksAreTrue'
  BY <1>11 DEF ReadToken
<1>12. ASSUME NEW p \in Process, Remove(p) PROVE LooksAreTrue'
  BY <1>12 DEF Remove
<1>13. ASSUME NEW p \in Process, Crash(p) PROVE LooksAreTrue'
  BY <1>13 DEF Crash
<1>14. ASSUME NEW p \in Process, Stall(p) PROVE LooksAreTrue'
  BY <1>14 DEF Stall
<1>15. ASSUME NEW p \in Process, Resume(p) PROVE LooksAreTrue'
  BY <1>15 DEF Resume
\* A lock that is past its lease stays so, and ageing changes no owner.
<1>16. CASE Tick
  <2>1. lock' = NoLock \/ (lock # NoLock /\ lock'.owner = lock.owner)
    BY <1>16 DEF Tick
  <2>2. lock # NoLock /\ lock.age = Lease => lock'.age = Lease
    BY <1>16 DEF Tick, UpTo
  <2>3. lock = NoLock => lock' = NoLock
    BY <1>16 DEF Tick
  <2> QED
    BY <1>16, <2>1, <2>2, <2>3 DEF Tick
<1>17. CASE UNCHANGED vars
  BY <1>17 DEF vars
<1> QED
  BY <1>1, <1>2, <1>3, <1>4, <1>5, <1>6, <1>7, <1>8, <1>9, <1>10, <1>11, <1>12,
     <1>13, <1>14, <1>15, <1>16, <1>17 DEF Next, Step

\* An up-to-date look at the lock file is true of what its process removes.
THEOREM LooksHold == Spec => []LooksAreTrue
<1>1. Init => TypeOK /\ LooksAreTrue
  BY TypeInit, LooksInit
<1>2. TypeOK /\ LooksAreTrue /\ [Next]_vars => (TypeOK /\ LooksAreTrue)'
  BY TypeStep, LooksStep
<1> QED
  BY <1>1, <1>2, PTL DEF Spec

\* One step of UpToDateLooksSpareLiveLocks.
SparesLiveLocks ==
  \A p, q \in Process :
    /\ p # q /\ pc[p] # pc'[p]
    /\ lock.owner = q /\ lock.age < Lease /\ lock' = NoLock
    => p \notin current

LEMMA SparesStep == TypeOK /\ LooksAreTrue /\ [Next]_vars => SparesLiveLocks
<1> SUFFICES ASSUME TypeOK, LooksAreTrue, [Next]_vars,
                    NEW p \in Process, NEW q \in Process,
                    p # q, pc[p] # pc'[p],
                    lock.owner = q, lock.age < Lease, lock' = NoLock
             PROVE  p \notin current
  BY DEF SparesLiveLocks
<1> USE LockAssumption DEF TypeOK, NoLock, Go, At, TouchesLock, LooksAtLock, faults
<1>1. lock # NoLock
  OBVIOUS
\* Only these steps remove a lock, and each moves its own process alone.
<1>2. PICK r \in Process : Break(r) \/ WriteFails(r) \/ Remove(r)
  <2>1. ~Tick
    BY <1>1 DEF Tick, UpTo
  <2>2. lock' # lock /\ ~UNCHANGED vars
    BY <1>1 DEF vars
  <2>3. ASSUME NEW s \in Process PROVE ~WriteRecord(s) /\ ~Heartbeat(s)
    BY <1>1, <2>3 DEF WriteRecord, Heartbeat
  <2>4. ASSUME NEW s \in Process
        PROVE  ~Acquire(s) /\ ~TimeOut(s) /\ ~StatLock(s) /\ ~Wake(s) /\ ~Finish(s) /\ ~ReadToken(s)
    BY <2>2, <2>4 DEF Acquire, TimeOut, StatLock, Wake, Finish, ReadToken
  <2>5. ASSUME NEW s \in Process PROVE ~Create(s) /\ ~Crash(s) /\ ~Stall(s) /\ ~Resume(s)
    BY <1>1, <2>2, <2>5 DEF Create, CreatesLock, Crash, Stall, Resume
  <2> QED
    BY <2>1, <2>2, <2>3, <2>4, <2>5 DEF Next, Step
<1>3. r = p
  BY <1>2 DEF Break, WriteFails, Remove
<1>4. pc[p] \in {"break", "write", "remove"}
  BY <1>2, <1>3 DEF Break, WriteFails, Remove
<1> QED
  BY <1>1, <1>4 DEF LooksAreTrue

\* For any number of processes, crashes and stalls: whoever removes a live lock
\* of another acts on a look that something has since made outdated.
THEOREM LiveLocksSpared == Spec => UpToDateLooksSpareLiveLocks
<1>1. Init => TypeOK /\ LooksAreTrue
  BY TypeInit, LooksInit
<1>2. TypeOK /\ LooksAreTrue /\ [Next]_vars => (TypeOK /\ LooksAreTrue)'
  BY TypeStep, LooksStep
<1>3. TypeOK /\ LooksAreTrue /\ [Next]_vars => [SparesLiveLocks]_vars
  BY SparesStep
<1>4. Spec => [][SparesLiveLocks]_vars
  BY <1>1, <1>2, <1>3, PTL DEF Spec
<1> QED
  BY <1>4 DEF UpToDateLooksSpareLiveLocks, SparesLiveLocks

-----------------------------------------------------------------------------
(* Mutual exclusion, without faults.                                        *)

LEMMA TenureInit == Init => TenureOwnsLock
BY LockAssumption DEF Init, TenureOwnsLock, OrderlyTenures, Tenure, NoLock

LEMMA TenureStep ==
  ASSUME TypeOK, OrderlyTenures, Faultless', [Next]_vars
  PROVE  OrderlyTenures'
<1> USE LockAssumption DEF TypeOK, OrderlyTenures, Tenure, NoLock, Places, Go, At,
                           TouchesLock, LooksAtLock, faults
<1>1. ASSUME NEW p \in Process, Acquire(p) PROVE OrderlyTenures'
  BY <1>1 DEF Acquire
<1>2. ASSUME NEW p \in Process, TimeOut(p) PROVE OrderlyTenures'
  BY <1>2 DEF TimeOut
<1>3. ASSUME NEW p \in Process, Create(p) PROVE OrderlyTenures'
  BY <1>3 DEF Create, CreatesLock
\* The lock is within its lease, so the verdict is to wait.
<1>4. ASSUME NEW p \in Process, StatLock(p) PROVE OrderlyTenures'
  <2>1. lock.age < Lease
    OBVIOUS
  <2> QED
    BY <1>4, <2>1 DEF StatLock
<1>5. ASSUME NEW p \in Process, Wake(p) PROVE OrderlyTenures'
  BY <1>5 DEF Wake
<1>6. ASSUME NEW p \in Process, Break(p) PROVE FALSE
  BY <1>6 DEF Break
<1>7. ASSUME NEW p \in Process, WriteRecord(p) PROVE OrderlyTenures'
  <2>1. lock' = [owner |-> p, content |-> "record", age |-> 0]
    <3>1. lock.owner = p
      BY <1>7 DEF WriteRecord
    <3> QED
      BY <1>7, <3>1 DEF WriteRecord
  <2>2. pc' = [pc EXCEPT ![p] = "operate"] /\ stalled' = stalled
    BY <1>7 DEF WriteRecord
  <2>3. pc[p] = "write" /\ lock.owner = p
    BY <1>7 DEF WriteRecord
  <2>4. ASSUME NEW q \in Process, pc'[q] \in Tenure PROVE q = p
    BY <2>2, <2>3, <2>4
  <2>5. \A q \in Process : pc'[q] # "break"
    BY <2>2
  <2> QED
    BY <2>1, <2>2, <2>4, <2>5
<1>8. ASSUME NEW p \in Process, WriteFails(p) PROVE OrderlyTenures'
  BY <1>8 DEF WriteFails
<1>9. ASSUME NEW p \in Process, Heartbeat(p) PROVE OrderlyTenures'
  BY <1>9 DEF Heartbeat
<1>10. ASSUME NEW p \in Process, Finish(p) PROVE OrderlyTenures'
  BY <1>10 DEF Finish
<1>11. ASSUME NEW p \in Process, ReadToken(p) PROVE OrderlyTenures'
  BY <1>11 DEF ReadToken
<1>12. ASSUME NEW p \in Process, Remove(p) PROVE OrderlyTenures'
  BY <1>12 DEF Remove
<1>13. ASSUME NEW p \in Process, Crash(p) \/ Stall(p) \/ Resume(p) PROVE FALSE
  BY <1>13 DEF Faultless, Crash, Stall, Resume
\* The owner is in its tenure; time passes only while it operates and its
\* heartbeat is not due.
<1>14. CASE Tick
  <2>1. lock # NoLock => lock.age < Beat
    BY <1>14 DEF Tick, Punctual, Running
  <2>2. lock' # NoLock => lock # NoLock /\ lock'.age <= Beat
    <3>1. CASE lock = NoLock
      BY <1>14, <3>1 DEF Tick
    <3>2. CASE lock # NoLock
      <4>1. lock'.age = UpTo(lock.age, Lease)
        BY <1>14, <3>2 DEF Tick
      <4>2. lock.age \in Nat /\ UpTo(lock.age, Lease) = lock.age + 1
        BY <2>1, <3>2 DEF UpTo
      <4> QED
        BY <2>1, <3>2, <4>1, <4>2
    <3> QED
      BY <3>1, <3>2
  <2>3. lock'.owner = lock.owner /\ lock'.content = lock.content
    BY <1>14 DEF Tick
  <2> QED
    BY <1>14, <2>2, <2>3 DEF Tick
<1>15. CASE UNCHANGED vars
  BY <1>15 DEF vars
<1> QED
  BY <1>1, <1>2, <1>3, <1>4, <1>5, <1>6, <1>7, <1>8, <1>9, <1>10, <1>11, <1>12,
     <1>13, <1>14, <1>15 DEF Next, Step

LEMMA FaultlessBefore ==
  ASSUME TypeOK, [Next]_vars, Faultless'
  PROVE  Faultless
BY DEF TypeOK, Faultless, Next, Step, vars, Acquire, TimeOut, Create, StatLock, Wake, Break,
       WriteRecord, WriteFails, Heartbeat, Finish, ReadToken, Remove, Crash, Stall, Resume, Tick,
       faults

\* Until the first crash or stall, any number of processes use the store one at a
\* time: the lease cannot be lost by waiting, however long an operation takes.
THEOREM MutualExclusion == Spec => []Exclusive
<1>1. Init => TypeOK /\ TenureOwnsLock
  BY TypeInit, TenureInit
<1>2. TypeOK /\ TenureOwnsLock /\ [Next]_vars => (TypeOK /\ TenureOwnsLock)'
  BY TypeStep, TenureStep, FaultlessBefore DEF TenureOwnsLock
<1>3. TenureOwnsLock => Exclusive
  BY DEF TenureOwnsLock, OrderlyTenures, Tenure, Exclusive
<1> QED
  BY <1>1, <1>2, <1>3, PTL DEF Spec
==============================================================================
