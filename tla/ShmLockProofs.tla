---------------------------- MODULE ShmLockProofs ----------------------------
(***************************************************************************)
(* Proofs about ShmLock, for any number of processes, any crash points and *)
(* any detection threshold.  The exclusion theorems assume that every      *)
(* process initialised its own context (OwnPids): with an inherited one    *)
(* they do not hold.                                                       *)
(***************************************************************************)
EXTENDS ShmLock, TLAPS

OwnPids == \A p \in Procs : CtxPid[p] = p

\* The dead are not running.
DeadAreDead == \A p \in Procs : pc[p] # "dead" <=> Alive(p)

\* The pid in shared memory is that of the mutex owner.
PidNamesOwner == lockPid # Nobody => mutex = lockPid

\* Who is inside owns the mutex, and lock.pid says so or says nothing.
Holds(p) == pc[p] \in {"got", "cs", "change", "done", "unlock"}
OwnerInside == \A p \in Procs :
  /\ Holds(p) => mutex = p
  /\ pc[p] \in {"got", "unlock"} => lockPid = Nobody

\* Recoveries are serialised by the file lock, each after somebody gone.
FileLocked == \A p \in Procs :
  pc[p] \in {"check", "wipe", "clear", "release", "funlock"} => fileOwner = p
SuspectGone == \A p \in Procs :
  /\ pc[p] = "probe" => suspect[p] \in Procs
  /\ pc[p] \in {"flock", "check", "wipe"} =>
       suspect[p] \in Procs /\ status[suspect[p]] = "gone"
  /\ pc[p] = "wipe" => lockPid = suspect[p]

\* A recovery past the wipe stands in for a dead owner.
DeadOwner == \A p \in Procs : pc[p] \in {"clear", "release"} =>
  /\ lockPid = Nobody
  /\ mutex \in Procs
  /\ ~Alive(mutex)

\* Who may have left the table half changed.
CleanTable ==
  /\ mutex = Nobody => dirty = Nobody
  /\ \A p \in Procs :
       pc[p] \in {"got", "cs", "done", "unlock", "release"} => dirty = Nobody

LockInv == /\ TypeOK
           /\ DeadAreDead
           /\ PidNamesOwner
           /\ OwnerInside
           /\ FileLocked
           /\ SuspectGone
           /\ DeadOwner
           /\ CleanTable
-----------------------------------------------------------------------------
\* The type invariant alone needs nothing about pids.
LEMMA TypeStep == TypeOK /\ [Next]_vars => TypeOK'
<1> SUFFICES ASSUME TypeOK, [Next]_vars
             PROVE  TypeOK'
  OBVIOUS
<1> USE LockAssumption DEF TypeOK, Locations, Goto
<1>1. CASE UNCHANGED vars
  BY <1>1 DEF vars
<1>2. ASSUME NEW p \in Procs, Call(p) PROVE TypeOK'
  BY <1>2 DEF Call
<1>3. ASSUME NEW p \in Procs, TryLock(p) PROVE TypeOK'
  BY <1>3 DEF TryLock
<1>4. ASSUME NEW p \in Procs, TryLockBusy(p) PROVE TypeOK'
  BY <1>4 DEF TryLockBusy
<1>5. ASSUME NEW p \in Procs, ReadPid(p) PROVE TypeOK'
  BY <1>5 DEF ReadPid, DeadlockSuspected
<1>6. ASSUME NEW p \in Procs, Probe(p) PROVE TypeOK'
  BY <1>6 DEF Probe
<1>7. ASSUME NEW p \in Procs, StorePid(p) PROVE TypeOK'
  BY <1>7 DEF StorePid
<1>8. ASSUME NEW p \in Procs, LockFile(p) PROVE TypeOK'
  BY <1>8 DEF LockFile
<1>9. ASSUME NEW p \in Procs, CheckPid(p) PROVE TypeOK'
  BY <1>9 DEF CheckPid
<1>10. ASSUME NEW p \in Procs, WipePid(p) PROVE TypeOK'
  BY <1>10 DEF WipePid
<1>11. ASSUME NEW p \in Procs, ClearTable(p) PROVE TypeOK'
  BY <1>11 DEF ClearTable
<1>12. ASSUME NEW p \in Procs, ReleaseMutex(p) PROVE TypeOK'
  BY <1>12 DEF ReleaseMutex
<1>13. ASSUME NEW p \in Procs, UnlockFile(p) PROVE TypeOK'
  BY <1>13 DEF UnlockFile
<1>14. ASSUME NEW p \in Procs, BeginChange(p) PROVE TypeOK'
  BY <1>14 DEF BeginChange
<1>15. ASSUME NEW p \in Procs, EndChange(p) PROVE TypeOK'
  BY <1>15 DEF EndChange
<1>16. ASSUME NEW p \in Procs, ErasePid(p) PROVE TypeOK'
  BY <1>16 DEF ErasePid
<1>17. ASSUME NEW p \in Procs, Unlock(p) PROVE TypeOK'
  BY <1>17 DEF Unlock
<1>18. ASSUME NEW p \in Procs, Crash(p) PROVE TypeOK'
  BY <1>18 DEF Crash
<1>19. ASSUME NEW p \in Procs, Reap(p) PROVE TypeOK'
  BY <1>19 DEF Reap
<1> QED
  BY <1>1, <1>2, <1>3, <1>4, <1>5, <1>6, <1>7, <1>8, <1>9, <1>10, <1>11, <1>12, <1>13, <1>14, <1>15, <1>16, <1>17, <1>18, <1>19 DEF Next, Step

\* lock.pid, the mutex, the file lock and every process's locals always hold
\* values of their type, whoever crashes where.
THEOREM TypeCorrect == Spec => []TypeOK
<1>1. Init => TypeOK
  BY LockAssumption DEF Init, TypeOK, Locations
<1> QED
  BY <1>1, TypeStep, PTL DEF Spec

LEMMA InvInit == Init => LockInv
  BY LockAssumption DEF Init, LockInv, TypeOK, Locations, DeadAreDead, Alive,
     PidNamesOwner, OwnerInside, Holds, FileLocked, SuspectGone, DeadOwner,
     CleanTable

LEMMA InvStep == OwnPids /\ LockInv /\ [Next]_vars => LockInv'
<1> SUFFICES ASSUME OwnPids, LockInv, [Next]_vars
             PROVE  LockInv'
  OBVIOUS
<1>0. TypeOK'
  BY TypeStep DEF LockInv
<1> USE LockAssumption, <1>0 DEF LockInv, TypeOK, Goto, Alive, Holds,
    DeadAreDead, PidNamesOwner, OwnerInside, FileLocked, SuspectGone,
    DeadOwner, CleanTable
<1>1. CASE UNCHANGED vars
  BY <1>1 DEF vars
<1>2. ASSUME NEW p \in Procs, Call(p) PROVE LockInv'
  BY <1>2 DEF Call
<1>3. ASSUME NEW p \in Procs, TryLock(p) PROVE LockInv'
  BY <1>3 DEF TryLock
<1>4. ASSUME NEW p \in Procs, TryLockBusy(p) PROVE LockInv'
  BY <1>4 DEF TryLockBusy
<1>5. ASSUME NEW p \in Procs, ReadPid(p) PROVE LockInv'
  BY <1>5 DEF ReadPid, DeadlockSuspected
<1>6. ASSUME NEW p \in Procs, Probe(p) PROVE LockInv'
  BY <1>6 DEF Probe
<1>7. ASSUME NEW p \in Procs, StorePid(p) PROVE LockInv'
  BY <1>7 DEF StorePid, OwnPids
<1>8. ASSUME NEW p \in Procs, LockFile(p) PROVE LockInv'
  BY <1>8 DEF LockFile
<1>9. ASSUME NEW p \in Procs, CheckPid(p) PROVE LockInv'
  BY <1>9 DEF CheckPid, OwnerUnchanged
<1>10. ASSUME NEW p \in Procs, WipePid(p) PROVE LockInv'
  BY <1>10 DEF WipePid
<1>11. ASSUME NEW p \in Procs, ClearTable(p) PROVE LockInv'
  BY <1>11 DEF ClearTable
<1>12. ASSUME NEW p \in Procs, ReleaseMutex(p) PROVE LockInv'
  BY <1>12 DEF ReleaseMutex
<1>13. ASSUME NEW p \in Procs, UnlockFile(p) PROVE LockInv'
  BY <1>13 DEF UnlockFile
<1>14. ASSUME NEW p \in Procs, BeginChange(p) PROVE LockInv'
  BY <1>14 DEF BeginChange
<1>15. ASSUME NEW p \in Procs, EndChange(p) PROVE LockInv'
  BY <1>15 DEF EndChange
<1>16. ASSUME NEW p \in Procs, ErasePid(p) PROVE LockInv'
  BY <1>16 DEF ErasePid
<1>17. ASSUME NEW p \in Procs, Unlock(p) PROVE LockInv'
  BY <1>17 DEF Unlock
<1>18. ASSUME NEW p \in Procs, Crash(p) PROVE LockInv'
  BY <1>18 DEF Crash
<1>19. ASSUME NEW p \in Procs, Reap(p) PROVE LockInv'
  BY <1>19 DEF Reap
<1> QED
  BY <1>1, <1>2, <1>3, <1>4, <1>5, <1>6, <1>7, <1>8, <1>9, <1>10, <1>11, <1>12, <1>13, <1>14, <1>15, <1>16, <1>17, <1>18, <1>19 DEF Next, Step

THEOREM Invariance == OwnPids => (Spec => []LockInv)
<1> SUFFICES ASSUME OwnPids PROVE Spec => []LockInv
  OBVIOUS
<1>1. LockInv /\ [Next]_vars => LockInv'
  BY InvStep
<1> QED
  BY <1>1, InvInit, PTL DEF Spec

\* shm_lock and shm_detect_deadlock together let one live process at a time
\* into the table, whatever crashes.
THEOREM Exclusion == OwnPids => (Spec => []MutualExclusion)
<1> SUFFICES ASSUME OwnPids PROVE Spec => []MutualExclusion
  OBVIOUS
<1>1. LockInv => MutualExclusion
  <2> SUFFICES ASSUME LockInv, NEW p \in Procs, NEW q \in Procs,
                      InTable(p), InTable(q)
               PROVE  p = q
    BY DEF MutualExclusion
  <2>1. CASE pc[p] = "clear" /\ pc[q] = "clear"
    BY <2>1 DEF LockInv, FileLocked
  <2>2. CASE pc[p] = "clear" /\ pc[q] # "clear"
    BY <2>2 DEF LockInv, DeadOwner, DeadAreDead, OwnerInside, Holds, InTable
  <2>3. CASE pc[p] # "clear" /\ pc[q] = "clear"
    BY <2>3 DEF LockInv, DeadOwner, DeadAreDead, OwnerInside, Holds, InTable
  <2>4. CASE pc[p] # "clear" /\ pc[q] # "clear"
    BY <2>4 DEF LockInv, OwnerInside, Holds, InTable
  <2> QED
    BY <2>1, <2>2, <2>3, <2>4
<1> QED
  BY <1>1, Invariance, PTL

\* The table a crashed owner left half changed is never seen by the next one.
THEOREM TornTableCleared == OwnPids => (Spec => []NoTornTable)
<1> SUFFICES ASSUME OwnPids PROVE Spec => []NoTornTable
  OBVIOUS
<1>1. LockInv => NoTornTable
  BY DEF LockInv, CleanTable, NoTornTable
<1> QED
  BY <1>1, Invariance, PTL

\* The mutex is taken away from dead processes only.
THEOREM RobsTheDead == OwnPids => (Spec => OnlyTheDeadAreRobbed)
<1> SUFFICES ASSUME OwnPids PROVE Spec => OnlyTheDeadAreRobbed
  OBVIOUS
<1> DEFINE Fair == \A p \in Procs : mutex = p /\ mutex' # p =>
                                     ~Alive(p) \/ pc[p] = "unlock"
<1>1. LockInv /\ [Next]_vars => [Fair]_vars
  <2> SUFFICES ASSUME LockInv, Next, NEW q \in Procs, mutex = q, mutex' # q
               PROVE  ~Alive(q) \/ pc[q] = "unlock"
    OBVIOUS
  <2>1. PICK p \in Procs :
          Call(p) \/ Step(p) \/ BeginChange(p) \/ Crash(p) \/ Reap(p)
    BY DEF Next
  <2>2. CASE ReleaseMutex(p)
    BY <2>2 DEF ReleaseMutex, Goto, LockInv, DeadOwner
  <2>3. CASE Unlock(p)
    BY <2>3 DEF Unlock, Goto, LockInv, OwnerInside, Holds
  <2>4. CASE TryLock(p)
    BY <2>4, LockAssumption DEF TryLock
  <2>5. CASE mutex' = mutex
    BY <2>5
  <2> QED
    BY <2>1, <2>2, <2>3, <2>4, <2>5 DEF Step, Call, TryLockBusy, ReadPid, Probe,
       StorePid, LockFile, CheckPid, WipePid, ClearTable, UnlockFile,
       BeginChange, EndChange, ErasePid, Crash, Reap
<1> QED
  BY <1>1, Invariance, PTL DEF OnlyTheDeadAreRobbed, Spec
=============================================================================
