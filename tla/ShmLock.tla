------------------------------- MODULE ShmLock -------------------------------
(***************************************************************************)
(* The cache lock (shm_lock.c): a process-shared mutex that is neither     *)
(* robust nor owner-checked, next to it the pid of its owner, and the      *)
(* recovery a waiter performs when that pid no longer names a process.     *)
(* Recoveries exclude each other by a file lock.                           *)
(*                                                                         *)
(* Every access to shared memory, every system call and every crash is a   *)
(* step of its own.  What an operation does to the hashtable between       *)
(* shm_lock and shm_unlock is abstracted to dirty: who has left it half    *)
(* changed.                                                                *)
(***************************************************************************)
EXTENDS Integers

CONSTANTS
  Procs,         \* the processes; a process is identified with its pid
  Nobody,        \* pid 0, and an unlocked mutex
  CtxPid,        \* context->pid: getpid() when shmcache_init ran
  DetectClocks,  \* context->detect_deadlock_clocks
  CrashPoints,   \* where a process may be killed
  MaxFileFaults  \* how often shm_lock_file may fail (bound)

Locations == {"idle", "try", "busy", "probe", "flock", "check", "wipe",
              "clear", "release", "funlock", "got", "cs", "change", "done",
              "unlock"}

ASSUME LockAssumption == /\ Nobody \notin Procs
                         /\ CtxPid \in [Procs -> Procs]
                         /\ DetectClocks \in Nat
                         /\ CrashPoints \subseteq Locations
                         /\ MaxFileFaults \in Nat

VARIABLES
  pc,         \* where each process is; "dead" once it has been killed
  status,     \* "alive", "zombie" (killed, not reaped) or "gone"
  mutex,      \* who holds lock.mutex
  lockPid,    \* lock.pid
  fileOwner,  \* who holds the file lock
  clocks,     \* the local clocks of shm_lock
  suspect,    \* the local pid of shm_lock, last_pid of shm_detect_deadlock
  dirty,      \* who has left the hashtable half changed
  faults      \* failures of shm_lock_file so far

vars == <<pc, status, mutex, lockPid, fileOwner, clocks, suspect, dirty, faults>>

\* Whoever probes, and recovers after it, does so for the pid of a process:
\* kill(0, 0) would ask for the process group, and always succeed.
TypeOK == /\ pc \in [Procs -> Locations \cup {"dead"}]
          /\ status \in [Procs -> {"alive", "zombie", "gone"}]
          /\ mutex \in Procs \cup {Nobody}
          /\ lockPid \in Procs \cup {Nobody}
          /\ fileOwner \in Procs \cup {Nobody}
          /\ clocks \in [Procs -> 0..(DetectClocks + 1)]
          /\ suspect \in [Procs -> Procs \cup {Nobody}]
          /\ dirty \in Procs \cup {Nobody}
          /\ faults \in 0..MaxFileFaults
          /\ \A p \in Procs : pc[p] \in {"probe", "flock", "check"} => suspect[p] \in Procs

\* shm_lock_init: an unlocked mutex and no owner.
Init == /\ pc = [p \in Procs |-> "idle"]
        /\ status = [p \in Procs |-> "alive"]
        /\ mutex = Nobody
        /\ lockPid = Nobody
        /\ fileOwner = Nobody
        /\ clocks = [p \in Procs |-> 0]
        /\ suspect = [p \in Procs |-> Nobody]
        /\ dirty = Nobody
        /\ faults = 0

Goto(p, from, to) == /\ pc[p] = from
                     /\ pc' = [pc EXCEPT ![p] = to]
-----------------------------------------------------------------------------
(* shm_lock                                                                *)

\* An operation of the cache calls shm_lock.
Call(p) == /\ Goto(p, "idle", "try")
           /\ clocks' = [clocks EXCEPT ![p] = 0]
           /\ UNCHANGED <<status, mutex, lockPid, fileOwner, suspect, dirty, faults>>

TryLock(p) == /\ mutex = Nobody
              /\ Goto(p, "try", "got")
              /\ mutex' = p
              /\ UNCHANGED <<status, lockPid, fileOwner, clocks, suspect, dirty, faults>>

\* EBUSY: sleep, and count; a count past the threshold need not be told apart.
TryLockBusy(p) ==
  /\ mutex # Nobody
  /\ Goto(p, "try", "busy")
  /\ clocks' = [clocks EXCEPT ![p] = IF @ > DetectClocks THEN @ ELSE @ + 1]
  /\ UNCHANGED <<status, mutex, lockPid, fileOwner, suspect, dirty, faults>>

\* Mutant: a lock that nobody has signed is probed too.
UnsignedSuspected(p) == clocks[p] > DetectClocks

DeadlockSuspected(p) == clocks[p] > DetectClocks /\ lockPid # Nobody

ReadPid(p) ==
  /\ IF DeadlockSuspected(p)
     THEN /\ Goto(p, "busy", "probe")
          /\ suspect' = [suspect EXCEPT ![p] = lockPid]
          /\ clocks' = [clocks EXCEPT ![p] = 0]
     ELSE /\ Goto(p, "busy", "try")
          /\ UNCHANGED <<suspect, clocks>>
  /\ UNCHANGED <<status, mutex, lockPid, fileOwner, dirty, faults>>

\* Mutant: the answer of kill is not looked at.
ProbeIgnored(p) ==
  /\ Goto(p, "probe", "flock")
  /\ UNCHANGED <<status, mutex, lockPid, fileOwner, clocks, suspect, dirty, faults>>

\* kill(pid, 0): it succeeds on a zombie.
Probe(p) ==
  /\ \/ Goto(p, "probe", "flock") /\ status[suspect[p]] = "gone"
     \/ Goto(p, "probe", "try") /\ status[suspect[p]] # "gone"
  /\ UNCHANGED <<status, mutex, lockPid, fileOwner, clocks, suspect, dirty, faults>>

StorePid(p) == /\ Goto(p, "got", "cs")
               /\ lockPid' = CtxPid[p]
               /\ UNCHANGED <<status, mutex, fileOwner, clocks, suspect, dirty, faults>>
-----------------------------------------------------------------------------
(* shm_detect_deadlock                                                     *)

LockFile(p) ==
  /\ \/ /\ fileOwner = Nobody
        /\ Goto(p, "flock", "check")
        /\ fileOwner' = p
        /\ UNCHANGED faults
     \/ /\ faults < MaxFileFaults
        /\ Goto(p, "flock", "try")
        /\ faults' = faults + 1
        /\ UNCHANGED fileOwner
  /\ UNCHANGED <<status, mutex, lockPid, clocks, suspect, dirty>>

\* Mutant: last_pid is not compared again under the file lock.
OwnerNotCompared(p) == suspect[p] # Nobody

OwnerUnchanged(p) == suspect[p] = lockPid

CheckPid(p) ==
  /\ \/ Goto(p, "check", "wipe") /\ OwnerUnchanged(p)
     \/ Goto(p, "check", "funlock") /\ ~OwnerUnchanged(p)
  /\ UNCHANGED <<status, mutex, lockPid, fileOwner, clocks, suspect, dirty, faults>>

\* lock.pid = 0, and shm_ht_clear begins ...
WipePid(p) == /\ Goto(p, "wipe", "clear")
              /\ lockPid' = Nobody
              /\ dirty' = p
              /\ UNCHANGED <<status, mutex, fileOwner, clocks, suspect, faults>>

\* Mutant: recovery does not clear the table.
ClearNothing(p) == /\ Goto(p, "clear", "release")
                   /\ UNCHANGED <<status, mutex, lockPid, fileOwner, clocks, suspect,
                                  dirty, faults>>

\* ... and ends.
ClearTable(p) == /\ Goto(p, "clear", "release")
                 /\ dirty' = Nobody
                 /\ UNCHANGED <<status, mutex, lockPid, fileOwner, clocks, suspect, faults>>

ReleaseMutex(p) == /\ Goto(p, "release", "funlock")
                   /\ mutex' = Nobody
                   /\ UNCHANGED <<status, lockPid, fileOwner, clocks, suspect, dirty, faults>>

\* Mutant: shm_unlock_file forgets to close the file.
KeepFileLocked(p) == /\ Goto(p, "funlock", "try")
                     /\ UNCHANGED <<status, mutex, lockPid, fileOwner, clocks,
                                    suspect, dirty, faults>>

UnlockFile(p) == /\ Goto(p, "funlock", "try")
                 /\ fileOwner' = Nobody
                 /\ UNCHANGED <<status, mutex, lockPid, clocks, suspect, dirty, faults>>
-----------------------------------------------------------------------------
(* The operation under the lock, which may change the table, and shm_unlock *)

BeginChange(p) == /\ Goto(p, "cs", "change")
                  /\ dirty' = p
                  /\ UNCHANGED <<status, mutex, lockPid, fileOwner, clocks, suspect, faults>>

EndChange(p) == /\ Goto(p, "change", "done")
                /\ dirty' = Nobody
                /\ UNCHANGED <<status, mutex, lockPid, fileOwner, clocks, suspect, faults>>

ErasePid(p) == /\ Goto(p, "cs", "unlock") \/ Goto(p, "done", "unlock")
               /\ lockPid' = Nobody
               /\ UNCHANGED <<status, mutex, fileOwner, clocks, suspect, dirty, faults>>

Unlock(p) == /\ Goto(p, "unlock", "idle")
             /\ mutex' = Nobody
             /\ UNCHANGED <<status, lockPid, fileOwner, clocks, suspect, dirty, faults>>
-----------------------------------------------------------------------------
(* The system: a process is killed, and reaped by its parent.  Its file     *)
(* locks go with it; the mutex and lock.pid stay as they are.               *)

Crash(p) == /\ status[p] = "alive"
            /\ pc[p] \in CrashPoints
            /\ status' = [status EXCEPT ![p] = "zombie"]
            /\ pc' = [pc EXCEPT ![p] = "dead"]
            /\ fileOwner' = IF fileOwner = p THEN Nobody ELSE fileOwner
            /\ UNCHANGED <<mutex, lockPid, clocks, suspect, dirty, faults>>

Reap(p) == /\ status[p] = "zombie"
           /\ status' = [status EXCEPT ![p] = "gone"]
           /\ UNCHANGED <<pc, mutex, lockPid, fileOwner, clocks, suspect, dirty, faults>>
-----------------------------------------------------------------------------
\* What a live process does once it has called shm_lock.
Step(p) == \/ TryLock(p) \/ TryLockBusy(p) \/ ReadPid(p) \/ Probe(p)
           \/ StorePid(p) \/ LockFile(p) \/ CheckPid(p) \/ WipePid(p)
           \/ ClearTable(p) \/ ReleaseMutex(p) \/ UnlockFile(p)
           \/ EndChange(p) \/ ErasePid(p) \/ Unlock(p)

Next == \E p \in Procs :
          Call(p) \/ Step(p) \/ BeginChange(p) \/ Crash(p) \/ Reap(p)

Spec == Init /\ [][Next]_vars

\* A process inside the library keeps running until it is killed, ends its
\* operation, and a killed process is reaped.
Fairness == \A p \in Procs : WF_vars(Step(p)) /\ WF_vars(Reap(p))
FairSpec == Spec /\ Fairness
-----------------------------------------------------------------------------
(* Properties                                                              *)

Alive(p) == status[p] = "alive"

\* "pthread mutex lock on write": two live processes never touch the table at
\* the same time, whoever crashed before and whoever recovers from it.
InTable(p) == pc[p] \in {"cs", "change", "done", "clear"}
MutualExclusion == \A p, q \in Procs : InTable(p) /\ InTable(q) => p = q

\* A table that a killed owner left half changed is cleared before any
\* process gets in again.
NoTornTable == \A p \in Procs : pc[p] \in {"got", "cs", "done"} => dirty = Nobody

\* A live owner loses the mutex only by its own shm_unlock: recovery robs
\* the dead, even when the suspicion is old and several waiters share it.
OnlyTheDeadAreRobbed ==
  [][\A p \in Procs : mutex = p /\ mutex' # p => ~Alive(p) \/ pc[p] = "unlock"]_vars

Waiting(p) == pc[p] \in {"try", "busy", "probe", "flock", "check", "wipe",
                         "clear", "release", "funlock"}
AnyWaiting == \E p \in Procs : Waiting(p)
Served == ~AnyWaiting \/ \E p \in Procs : pc[p] = "got"

\* "deadlock detection and auto unlock that caused by other crushed process":
\* while somebody waits, somebody gets the lock.
AutoUnlock == AnyWaiting ~> Served

\* The same but for the one way in which a kill goes undetected: the mutex
\* is held by a dead process, lock.pid names nobody, and nobody is recovering.
Orphaned == /\ \E p \in Procs : mutex = p /\ ~Alive(p)
            /\ lockPid = Nobody
            /\ \A p \in Procs : pc[p] \notin {"clear", "release"}
AutoUnlockUnlessOrphaned == AnyWaiting ~> (Served \/ Orphaned)
=============================================================================
