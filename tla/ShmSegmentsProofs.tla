-------------------------- MODULE ShmSegmentsProofs --------------------------
(***************************************************************************)
(* Proofs about ShmSegments, for any number of processes, of               *)
(* configurations and of segments.                                         *)
(*                                                                         *)
(* The two looks at memory->status order the phases of the memory: while   *)
(* it is "init" only the holder of the lock of the file writes to it, and  *)
(* all who use the mutex have seen "normal".  IInv says so, step by step.  *)
(***************************************************************************)
EXTENDS ShmSegments, TLAPS

\* Steps under the lock of the file, and under the mutex.
UnderFileLock == {"recheck", "first", "addFirst", "publish", "unlockFile"}
UnderMutex == {"min", "addMin", "unlockMin", "set", "addSet", "unlockSet", "meet"}

\* Steps of the process that initialises the memory, and steps after it.
Initialising == {"first", "addFirst", "publish"}
Attached == {"open", "lockMin", "get", "lockSet"} \cup UnderMutex

\* Each lock is held by the process at a step under it.
LocksHeld == \A p \in Proc : /\ pc[p] \in UnderFileLock <=> fileLock = p
                             /\ pc[p] \in UnderMutex <=> mutex = p

\* The phases of the memory.
Phases == \A p \in Proc :
            /\ pc[p] \in Initialising => status = "init"
            /\ pc[p] \in Attached => status = "normal"
            /\ pc[p] = "unlockFile" /\ result[p] = "ok" => status = "normal"
            /\ pc[p] = "ready" /\ mode[p].create => status = "normal"

\* No process has mapped a segment that is not counted, and none at all
\* before the memory is initialised, but the one that initialises it.
MappedCounted == \A p \in Proc :
                   /\ mapped[p] <= segCount
                   /\ mapped[p] # 0 => status = "normal" \/ pc[p] = "publish"

\* min_memory is reached before shmcache_init succeeds.
MinReached == \A p \in Proc :
                /\ pc[p] \in OpSteps /\ mode[p].create =>
                      segCount >= MinSegments \/ Full
                /\ pc[p] = "unlockMin" /\ result[p] = "ok" =>
                      segCount >= MinSegments \/ Full

\* A context that does not create segments is ready after the check.
Creators == \A p \in Proc : pc[p] \in InitSteps \ {"map", "check"} => mode[p].create

\* The check is passed with initialised memory only, which stays.
CheckPassed == \A p \in Proc :
                 pc[p] \notin {"idle", "map", "check"} /\ existed[p] /\ mode[p].check
                   => status = "normal" /\ CheckedPart(layout) = CheckedPart(LayoutOf[p])

IInv == /\ TypeOK
        /\ LocksHeld
        /\ Phases
        /\ MappedCounted
        /\ MinReached
        /\ Creators
        /\ CheckPassed
-----------------------------------------------------------------------------
\* IInv holds when no segment exists yet.
LEMMA InitIInv == Init => IInv
<1> SUFFICES ASSUME Init PROVE IInv
  OBVIOUS
<1> USE SegmentsAssumption DEF Init
<1>1. TypeOK
  <2>1. /\ exists \in BOOLEAN
        /\ existed \in [Proc -> BOOLEAN]
        /\ mode \in [Proc -> [create : BOOLEAN, check : BOOLEAN]]
    BY Zenon DEF NoContext
  <2>2. /\ segCount \in 0..MaxSegments
        /\ mapped \in [Proc -> 0..MaxSegments]
    OBVIOUS
  <2> QED
    BY <2>1, <2>2 DEF TypeOK, InitSteps, OpSteps, Results
<1>2. LocksHeld /\ Phases
  BY DEF LocksHeld, Phases, UnderFileLock, UnderMutex, Initialising, Attached
<1>3. MappedCounted /\ MinReached /\ Creators /\ CheckPassed
  BY DEF MappedCounted, MinReached, Creators, CheckPassed, OpSteps, InitSteps
<1> QED
  BY <1>1, <1>2, <1>3 DEF IInv

\* What each step of a process keeps of the invariant.
LEMMA StepIInv == ASSUME IInv, NEW p \in Proc,
                         \/ Call(p) \/ Step(p) \/ CallSet(p) \/ CallGet(p)
                         \/ LockFileFails(p) \/ Destroy(p) \/ Crash(p)
                  PROVE  IInv'
<1> USE SegmentsAssumption
    DEF IInv, shared, Goto, Returns, Full, TypeOK, LocksHeld, Phases,
        MappedCounted, MinReached, Creators, CheckPassed, InitSteps, OpSteps, Results,
        UnderFileLock, UnderMutex, Initialising, Attached
<1>1. CASE Call(p)
  BY <1>1 DEF Call
<1>2. CASE MapTable(p)
  BY <1>2 DEF MapTable
<1>3. CASE MapTableFails(p)
  BY <1>3 DEF MapTableFails, Leave, NoContext
<1>4. CASE Check(p)
  BY <1>4 DEF Check, Consistent
<1>5. CASE CheckFails(p)
  BY <1>5 DEF CheckFails, Leave, NoContext
<1>6. CASE ReadStatus(p)
  BY <1>6 DEF ReadStatus
<1>7. CASE LockFile(p)
  BY <1>7 DEF LockFile
<1>8. CASE LockFileFails(p)
  BY <1>8 DEF LockFileFails, Leave, NoContext
<1>9. CASE Found(p)
  BY <1>9 DEF Found
<1>10. CASE Reset(p)
  BY <1>10 DEF Reset
<1>11. CASE CreateSegment(p)
  BY <1>11 DEF CreateSegment, Creating, Wanted, Behind
<1>12. CASE CreateSegmentFails(p)
  BY <1>12 DEF CreateSegmentFails, Creating, Wanted
<1>13. CASE Added(p)
  BY <1>13 DEF Added, Adding
<1>14. CASE Publish(p)
  BY <1>14 DEF Publish
<1>15. CASE UnlockFile(p)
  <2>1. CASE result[p] = "ok"
    <3>1. /\ pc[p] = "unlockFile"
          /\ pc' = [pc EXCEPT ![p] = "open"]
          /\ fileLock' = Nobody
          /\ UNCHANGED <<exists, status, layout, segCount, mutex,
                         mode, existed, mapped, result>>
      BY <1>15, <2>1 DEF UnlockFile, Leave
    <3> QED
      BY <2>1, <3>1
  <2>2. CASE result[p] # "ok"
    <3>1. /\ pc[p] = "unlockFile"
          /\ Leave(p)
          /\ fileLock' = Nobody
          /\ UNCHANGED <<exists, status, layout, segCount, mutex>>
      BY <1>15, <2>2 DEF UnlockFile
    <3> QED
      BY <2>2, <3>1 DEF Leave, NoContext
  <2> QED
    BY <2>1, <2>2
<1>16. CASE OpenSegment(p)
  BY <1>16 DEF OpenSegment
<1>17. CASE Opened(p)
  BY <1>17 DEF Opened
<1>18. CASE OpenFails(p)
  BY <1>18 DEF OpenFails, Leave, NoContext
<1>19. CASE Lock(p)
  BY <1>19 DEF Lock
<1>20. CASE Enough(p)
  BY <1>20 DEF Enough, Wanted
<1>21. CASE Unlock(p)
  <2>1. CASE pc[p] = "unlockMin" /\ result[p] # "ok"
    <3>1. /\ Leave(p)
          /\ mutex' = Nobody
          /\ UNCHANGED <<exists, status, layout, segCount, fileLock>>
      BY <1>21, <2>1 DEF Unlock
    <3> QED
      BY <2>1, <3>1 DEF Leave, NoContext
  <2>2. CASE pc[p] = "unlockMin" => result[p] = "ok"
    <3>1. /\ pc[p] \in {"unlockMin", "unlockSet"}
          /\ pc' = [pc EXCEPT ![p] = "ready"]
          /\ result' = [result EXCEPT ![p] = "ok"]
          /\ mutex' = Nobody
          /\ UNCHANGED <<exists, status, layout, segCount, fileLock,
                         mode, existed, mapped>>
      BY <1>21, <2>2 DEF Unlock
    <3> QED
      BY <2>2, <3>1
  <2> QED
    BY <2>1, <2>2
<1>22. CASE CallSet(p)
  BY <1>22 DEF CallSet
<1>23. CASE CallGet(p)
  BY <1>23 DEF CallGet
<1>24. CASE Meet(p)
  BY <1>24 DEF Meet
<1>25. CASE Met(p)
  BY <1>25 DEF Met
<1>26. CASE MeetFails(p)
  BY <1>26 DEF MeetFails
<1>27. CASE SetReturns(p)
  BY <1>27 DEF SetReturns
<1>28. CASE Destroy(p)
  BY <1>28 DEF Destroy, Leave, NoContext
<1>29. CASE Crash(p)
  BY <1>29 DEF Crash, Leave, NoContext
<1> QED
  BY <1>1, <1>2, <1>3, <1>4, <1>5, <1>6, <1>7, <1>8, <1>9, <1>10, <1>11,
     <1>12, <1>13, <1>14, <1>15, <1>16, <1>17, <1>18, <1>19, <1>20, <1>21,
     <1>22, <1>23, <1>24, <1>25, <1>26, <1>27, <1>28, <1>29
  DEF Step

\* IInv holds in every reachable state.
LEMMA Invariance == Spec => []IInv
<1>1. IInv /\ [Next]_vars => IInv'
  <2> SUFFICES ASSUME IInv, [Next]_vars PROVE IInv'
    OBVIOUS
  <2>1. CASE Next
    BY <2>1, StepIInv DEF Next
  <2>2. CASE UNCHANGED vars
    BY <2>2 DEF vars, shared, IInv, TypeOK, LocksHeld, Phases, MappedCounted,
                MinReached, Creators, CheckPassed, Full
  <2> QED
    BY <2>1, <2>2
<1> QED
  BY InitIInv, <1>1, PTL DEF Spec

\* The counts, the locks and the steps of shmcache_init stay in range; the
\* number of value segments never passes count.max.
THEOREM TypeCorrect == Spec => []TypeOK
<1>1. IInv => TypeOK
  BY DEF IInv
<1> QED
  BY Invariance, <1>1, PTL

\* However many processes start, end and are killed, no two of them create a
\* value segment at the same time (shmopt_create_value_segment), although the
\* first one is created under another lock than the others.
THEOREM CreatesAlone == Spec => []OneCreator
<1>1. IInv => OneCreator
  BY SegmentsAssumption
  DEF IInv, OneCreator, LocksHeld, Phases, Adding, UnderFileLock, UnderMutex,
      Initialising, Attached
<1> QED
  BY Invariance, <1>1, PTL

\* A context for which shmcache_init succeeded has initialised memory, of at
\* least min_memory, and has mapped nothing that is not there.
THEOREM InitSucceeds == Spec => []UsableWhenReady
<1>1. IInv => UsableWhenReady
  BY DEF IInv, UsableWhenReady, Phases, MappedCounted, MinReached, OpSteps,
         UnderMutex, Attached
<1> QED
  BY Invariance, <1>1, PTL

\* shmcache_check lets nobody work with memory of another configuration who
\* found the segment there when shmcache_init started.
THEOREM CheckHolds == Spec => []CheckedAgree
<1>1. IInv => CheckedAgree
  BY DEF IInv, CheckedAgree, CheckPassed, OpSteps
<1> QED
  BY Invariance, <1>1, PTL

\* Initialised memory is never initialised again by a late or restarted
\* process (the second look at the status in shmcache_do_lock_init).
THEOREM NeverAgain == Spec => InitialisedOnce
<1> DEFINE Keeps == status = "normal" => /\ status' = "normal"
                                        /\ layout' = layout
                                        /\ segCount' >= segCount
<1>1. IInv /\ [Next]_vars => [Keeps]_vars
  <2> SUFFICES ASSUME IInv, status = "normal", NEW p \in Proc,
                      \/ Call(p) \/ Step(p) \/ CallSet(p) \/ CallGet(p)
                      \/ LockFileFails(p) \/ Destroy(p) \/ Crash(p)
               PROVE  Keeps
    BY DEF Next
  <2>1. segCount \in Nat
    BY DEF IInv, TypeOK
  <2> QED
    BY <2>1 DEF Step, shared, Call, MapTable, MapTableFails, Check, CheckFails,
       ReadStatus, LockFile, LockFileFails, Found, Reset, CreateSegment,
       CreateSegmentFails, Added, Publish, UnlockFile, OpenSegment, Opened,
       OpenFails, Lock, Enough, Unlock, CallSet, CallGet, Meet, Met, MeetFails, SetReturns,
       Destroy, Crash
<1> QED
  BY Invariance, <1>1, PTL DEF Spec, InitialisedOnce
=============================================================================
