----------------------------- MODULE ShmSegments -----------------------------
(***************************************************************************)
(* The segments of the shared memory: how processes that start together,   *)
(* or after one that was killed, create and attach the hashtable segment   *)
(* (shmcache_init), and how value segments are created by one process      *)
(* (shmopt_create_value_segment) and mapped by the others                  *)
(* (shmopt_open_value_segments).  The table, the entries and the stripings *)
(* are those of ShmCache; the mutex and its recovery are those of ShmLock, *)
(* here a lock that a waiter may take over from a killed owner.            *)
(*                                                                         *)
(* Every access to the shared header that another process can see between  *)
(* is a step.  A process that was killed or that destroyed its context may *)
(* start again.                                                            *)
(***************************************************************************)
EXTENDS Naturals

CONSTANTS
  Proc,         \* processes
  Layouts,      \* sizes, counts and offsets in the shared memory
  LayoutOf,     \* [Proc -> Layouts]: by the configuration of each process
  CheckedPart(_),  \* what shmcache_check compares of a layout
  Modes,        \* create_segment and check_segment of the calls made
  MaxSegments,  \* vm_info.segment.count.max
  MinSegments,  \* value segments that min_memory asks for
  Nobody,       \* no process
  Killed        \* a killed process, as the owner of the mutex

ASSUME SegmentsAssumption ==
  /\ LayoutOf \in [Proc -> Layouts]
  /\ Modes \subseteq [create : BOOLEAN, check : BOOLEAN]
  /\ MaxSegments \in Nat \ {0}
  /\ MinSegments \in Nat
  /\ Nobody \notin Proc
  /\ Killed \notin Proc \cup {Nobody}

VARIABLES
  exists,     \* the hashtable segment can be opened
  status,     \* memory->status: "init" is 0, what a new segment is filled with
  layout,     \* vm_info and max_key_count; Nobody before the first initialisation
  segCount,   \* memory->vm_info.segment.count.current
  fileLock,   \* the process that holds the lock of the file
  mutex,      \* the owner of memory->lock.mutex
  pc,         \* where each process is
  mode,       \* create_segment and check_segment of its context
  existed,    \* ht_segemnt_exists
  mapped,     \* context->segments.values.count
  result      \* what the running call returns: 0 or an error

shared == <<exists, status, layout, segCount, fileLock, mutex>>
vars == <<shared, pc, mode, existed, mapped, result>>

\* Steps of shmcache_init, of a later operation, and of creating a segment.
InitSteps == {"map", "check", "status", "lockFile", "recheck", "first",
              "addFirst", "publish", "unlockFile", "open", "lockMin", "min",
              "addMin", "unlockMin"}
OpSteps == {"ready", "lockSet", "set", "addSet", "unlockSet", "get", "meet"}
Adding == {"addFirst", "addMin", "addSet"}

Results == {"ok", "error"}

\* The context of a process before shmcache_init and after its end.
NoContext == [create |-> FALSE, check |-> FALSE]
Leave(p) == /\ pc' = [pc EXCEPT ![p] = "idle"]
            /\ mode' = [mode EXCEPT ![p] = NoContext]
            /\ existed' = [existed EXCEPT ![p] = FALSE]
            /\ mapped' = [mapped EXCEPT ![p] = 0]
            /\ result' = [result EXCEPT ![p] = "ok"]

Init == /\ exists = FALSE
        /\ status = "init"
        /\ layout = Nobody
        /\ segCount = 0
        /\ fileLock = Nobody
        /\ mutex = Nobody
        /\ pc = [p \in Proc |-> "idle"]
        /\ mode = [p \in Proc |-> NoContext]
        /\ existed = [p \in Proc |-> FALSE]
        /\ mapped = [p \in Proc |-> 0]
        /\ result = [p \in Proc |-> "ok"]

Goto(p, step) == pc' = [pc EXCEPT ![p] = step]
Returns(p, r) == result' = [result EXCEPT ![p] = r]
------------------------------------------------------------------------------
(* shmcache_init                                                           *)

\* shmcache_init starts with an empty context and asks whether the segment is
\* there already.
Call(p) == /\ pc[p] = "idle"
           /\ \E m \in Modes : mode' = [mode EXCEPT ![p] = m]
           /\ existed' = [existed EXCEPT ![p] = exists]
           /\ Goto(p, "map")
           /\ UNCHANGED <<shared, mapped, result>>

\* shm_mmap opens the segment, or creates it filled with zeros.
MapTable(p) == /\ pc[p] = "map"
               /\ exists \/ mode[p].create
               /\ exists' = TRUE
               /\ Goto(p, "check")
               /\ UNCHANGED <<status, layout, segCount, fileLock, mutex, mode,
                              existed, mapped, result>>

\* It may fail, also after it created the file; without create_segment it
\* fails when there is none.
MapTableFails(p) == /\ pc[p] = "map"
                    /\ exists' \in {exists, exists \/ mode[p].create}
                    /\ Leave(p)
                    /\ UNCHANGED <<status, layout, segCount, fileLock, mutex>>

\* Changed form of Consistent: the size and status are not compared.
ConsistentAnyStatus(p) == layout # Nobody => CheckedPart(layout) = CheckedPart(LayoutOf[p])

\* shmcache_check: the memory is initialised, and in what is compared as this
\* configuration would have it.
Consistent(p) == status = "normal" /\ CheckedPart(layout) = CheckedPart(LayoutOf[p])

Check(p) == /\ pc[p] = "check"
            /\ existed[p] /\ mode[p].check => Consistent(p)
            /\ Goto(p, IF mode[p].create THEN "status" ELSE "ready")
            /\ UNCHANGED <<shared, mode, existed, mapped, result>>

CheckFails(p) == /\ pc[p] = "check"
                 /\ existed[p] /\ mode[p].check
                 /\ ~Consistent(p)
                 /\ Leave(p)
                 /\ UNCHANGED shared

ReadStatus(p) == /\ pc[p] = "status"
                 /\ Goto(p, IF status = "init" THEN "lockFile" ELSE "open")
                 /\ UNCHANGED <<shared, mode, existed, mapped, result>>

\* shm_lock_file waits for the lock of the file.
LockFile(p) == /\ pc[p] = "lockFile"
               /\ fileLock = Nobody
               /\ fileLock' = p
               /\ Goto(p, "recheck")
               /\ UNCHANGED <<exists, status, layout, segCount, mutex, mode,
                              existed, mapped, result>>

LockFileFails(p) == /\ pc[p] = "lockFile"
                    /\ Leave(p)
                    /\ UNCHANGED shared

\* Somebody else was faster.
Found(p) == /\ pc[p] = "recheck"
            /\ status = "normal"
            /\ Goto(p, "unlockFile")
            /\ UNCHANGED <<shared, mode, existed, mapped, result>>

\* Changed form of Reset: the status is not looked at again under the lock.
ResetAnyway(p) == /\ pc[p] = "recheck"
                  /\ layout' = LayoutOf[p]
                  /\ segCount' = 0
                  /\ mutex' = Nobody
                  /\ Goto(p, "first")
                  /\ UNCHANGED <<exists, status, fileLock, mode, existed,
                                 mapped, result>>

\* Changed form of Reset: the status is stored first instead of last.
ResetPublished(p) == /\ pc[p] = "recheck"
                     /\ status # "normal"
                     /\ status' = "normal"
                     /\ layout' = LayoutOf[p]
                     /\ segCount' = 0
                     /\ mutex' = Nobody
                     /\ Goto(p, "first")
                     /\ UNCHANGED <<exists, fileLock, mode, existed, mapped,
                                    result>>

\* The sizes, the table, the list, the mutex and the pools are initialised,
\* whatever a killed initialiser left.
Reset(p) == /\ pc[p] = "recheck"
            /\ status # "normal"
            /\ layout' = LayoutOf[p]
            /\ segCount' = 0
            /\ mutex' = Nobody
            /\ Goto(p, "first")
            /\ UNCHANGED <<exists, status, fileLock, mode, existed, mapped,
                           result>>
------------------------------------------------------------------------------
(* shmopt_create_value_segment, called by the first initialisation, for    *)
(* min_memory and by a set.  The segment is mapped and counted, then its   *)
(* stripings are added and the process counts it as mapped.                *)

Creating == [first |-> [add |-> "addFirst", out |-> "unlockFile"],
             min   |-> [add |-> "addMin",   out |-> "unlockMin"],
             set   |-> [add |-> "addSet",   out |-> "unlockSet"]]

\* Changed form of Full: one segment too many.
FullLate == segCount > MaxSegments

Full == segCount >= MaxSegments

\* The process has not mapped all the segments of others.
Behind(p) == mapped[p] # segCount

\* Changed form of Wanted: the loop stops one segment early.
WantedLess(p) == /\ mode[p].create
                 /\ pc[p] = "min" => segCount + 1 < MinSegments

\* The loop of shmcache_init goes on until there is min_memory; a set may
\* find no room in the segments there are.  The callers that do not create
\* segments delete and read only.
Wanted(p) == /\ mode[p].create
             /\ pc[p] = "min" => segCount < MinSegments

CreateSegment(p) == /\ pc[p] \in DOMAIN Creating
                    /\ Wanted(p)
                    /\ ~Full
                    /\ ~Behind(p)
                    /\ segCount' = segCount + 1
                    /\ Goto(p, Creating[pc[p]].add)
                    /\ UNCHANGED <<exists, status, layout, fileLock, mutex,
                                   mode, existed, mapped, result>>

\* It fails for a process that has not mapped the segments of others, at the
\* limit, and when the segment cannot be created.
CreateSegmentFails(p) == /\ pc[p] \in DOMAIN Creating
                         /\ Wanted(p)
                         /\ Returns(p, "error")
                         /\ Goto(p, Creating[pc[p]].out)
                         /\ UNCHANGED <<shared, mode, existed, mapped>>

\* The stripings are there; the loop of shmcache_init asks again unless the
\* limit is reached.
Added(p) == /\ pc[p] \in Adding
            /\ mapped' = [mapped EXCEPT ![p] = segCount]
            /\ Goto(p, CASE pc[p] = "addFirst" -> "publish"
                         [] pc[p] = "addMin" -> IF Full THEN "unlockMin"
                                                ELSE "min"
                         [] pc[p] = "addSet" -> "unlockSet")
            /\ UNCHANGED <<shared, mode, existed, result>>

\* memory->size, max_key_count and status are stored last.
Publish(p) == /\ pc[p] = "publish"
              /\ status' = "normal"
              /\ Goto(p, "unlockFile")
              /\ UNCHANGED <<exists, layout, segCount, fileLock, mutex, mode,
                             existed, mapped, result>>

\* Changed form of UnlockFile: a failure returns without releasing the lock.
UnlockUnlessFailed(p) == /\ pc[p] = "unlockFile"
                         /\ \/ /\ result[p] = "ok"
                               /\ fileLock' = Nobody
                               /\ Goto(p, "open")
                               /\ UNCHANGED <<mode, existed, mapped, result>>
                            \/ /\ result[p] # "ok"
                               /\ Leave(p)
                               /\ UNCHANGED fileLock
                         /\ UNCHANGED <<exists, status, layout, segCount, mutex>>

UnlockFile(p) == /\ pc[p] = "unlockFile"
                 /\ fileLock' = Nobody
                 /\ \/ /\ result[p] = "ok"
                       /\ Goto(p, "open")
                       /\ UNCHANGED <<mode, existed, mapped, result>>
                    \/ result[p] # "ok" /\ Leave(p)
                 /\ UNCHANGED <<exists, status, layout, segCount, mutex>>
------------------------------------------------------------------------------
(* shmopt_open_value_segments, called by shmcache_init and, through        *)
(* shmopt_get_value_segment, by an operation that meets an entry in a      *)
(* segment it has not mapped.  It takes no lock and reads the count again  *)
(* for each segment.                                                       *)

OpenSegment(p) == /\ pc[p] \in {"open", "get", "meet"}
                  /\ mapped[p] < segCount
                  /\ mapped' = [mapped EXCEPT ![p] = @ + 1]
                  /\ UNCHANGED <<shared, pc, mode, existed, result>>

Opened(p) == /\ pc[p] = "open"
             /\ mapped[p] >= segCount
             /\ Goto(p, IF Full THEN "ready" ELSE "lockMin")
             /\ UNCHANGED <<shared, mode, existed, mapped, result>>

OpenFails(p) == /\ pc[p] = "open"
                /\ mapped[p] < segCount
                /\ Leave(p)
                /\ UNCHANGED shared

\* shm_lock, and a waiter's recovery of the mutex of a killed process.
Lock(p) == /\ pc[p] \in {"lockMin", "lockSet"}
           /\ mutex \in {Nobody, Killed}
           /\ mutex' = p
           /\ Goto(p, IF pc[p] = "lockMin" THEN "min" ELSE "set")
           /\ UNCHANGED <<exists, status, layout, segCount, fileLock, mode,
                          existed, mapped, result>>

\* min_memory is there.
Enough(p) == /\ pc[p] = "min"
             /\ ~Wanted(p)
             /\ Goto(p, "unlockMin")
             /\ UNCHANGED <<shared, mode, existed, mapped, result>>

\* shm_unlock; a failure of the last part of shmcache_init is its result.
Unlock(p) == /\ pc[p] \in {"unlockMin", "unlockSet"}
             /\ mutex' = Nobody
             /\ \/ /\ pc[p] = "unlockMin" => result[p] = "ok"
                   /\ Goto(p, "ready")
                   /\ Returns(p, "ok")
                   /\ UNCHANGED <<mode, existed, mapped>>
                \/ pc[p] = "unlockMin" /\ result[p] # "ok" /\ Leave(p)
             /\ UNCHANGED <<exists, status, layout, segCount, fileLock>>
------------------------------------------------------------------------------
(* Operations of an initialised context.  Without entries, in a memory     *)
(* that is not initialised, none of them meets a segment.                  *)

\* A set or delete.
CallSet(p) == /\ pc[p] = "ready"
              /\ status = "normal"
              /\ Goto(p, "lockSet")
              /\ UNCHANGED <<shared, mode, existed, mapped, result>>

\* A get, without the lock.
CallGet(p) == /\ pc[p] = "ready"
              /\ status = "normal"
              /\ Behind(p)
              /\ Goto(p, "get")
              /\ UNCHANGED <<shared, mode, existed, mapped, result>>

\* A set meets an entry of its bucket, or room, in a segment that is not
\* mapped.
Meet(p) == /\ pc[p] = "set"
           /\ Behind(p)
           /\ Goto(p, "meet")
           /\ UNCHANGED <<shared, mode, existed, mapped, result>>

\* All segments are mapped.
Met(p) == /\ pc[p] \in {"get", "meet"}
          /\ ~Behind(p)
          /\ Goto(p, IF pc[p] = "get" THEN "ready" ELSE "set")
          /\ UNCHANGED <<shared, mode, existed, mapped, result>>

\* One cannot be: room in it is passed over.  The address of an entry in it is
\* NULL, which the callers follow: they are killed (Crash).
MeetFails(p) == /\ pc[p] = "meet"
                /\ Behind(p)
                /\ Goto(p, "set")
                /\ UNCHANGED <<shared, mode, existed, mapped, result>>

\* A set that found room, or a delete.
SetReturns(p) == /\ pc[p] = "set"
                 /\ Goto(p, "unlockSet")
                 /\ UNCHANGED <<shared, mode, existed, mapped, result>>

\* shmcache_destroy.
Destroy(p) == /\ pc[p] = "ready"
              /\ Leave(p)
              /\ UNCHANGED shared

\* The process is killed: its file locks are released, its mutex is not.
Crash(p) == /\ pc[p] # "idle"
            /\ fileLock' = IF fileLock = p THEN Nobody ELSE fileLock
            /\ mutex' = IF mutex = p THEN Killed ELSE mutex
            /\ Leave(p)
            /\ UNCHANGED <<exists, status, layout, segCount>>

\* The steps a process takes by itself once a call has started; a failing open
\* or fcntl is not something to rely on.
Step(p) == \/ MapTable(p) \/ MapTableFails(p)
           \/ Check(p) \/ CheckFails(p)
           \/ ReadStatus(p) \/ LockFile(p) \/ Found(p) \/ Reset(p)
           \/ CreateSegment(p) \/ CreateSegmentFails(p) \/ Added(p)
           \/ Publish(p) \/ UnlockFile(p)
           \/ OpenSegment(p) \/ Opened(p) \/ OpenFails(p)
           \/ Lock(p) \/ Enough(p) \/ Unlock(p)
           \/ Meet(p) \/ Met(p) \/ MeetFails(p) \/ SetReturns(p)

Next == \E p \in Proc : \/ Call(p) \/ Step(p)
                        \/ CallSet(p) \/ CallGet(p)
                        \/ LockFileFails(p) \/ Destroy(p) \/ Crash(p)

Spec == Init /\ [][Next]_vars
\* A process that is not killed is scheduled; file_write_lock (F_SETLKW) waits
\* in the kernel, which does not let a process wait for ever for a lock that
\* is released again and again.
Fairness == \A p \in Proc : WF_vars(Step(p)) /\ SF_vars(LockFile(p))
FairSpec == Spec /\ Fairness
------------------------------------------------------------------------------
(* Properties                                                              *)

\* Counts, locks and steps in range: count.current passes count.max in no
\* interleaving of initialisers and writers (shmopt.c:53).
TypeOK == /\ exists \in BOOLEAN
          /\ status \in {"init", "normal"}
          /\ layout \in Layouts \cup {Nobody}
          /\ segCount \in 0..MaxSegments
          /\ fileLock \in Proc \cup {Nobody}
          /\ mutex \in Proc \cup {Nobody, Killed}
          /\ pc \in [Proc -> InitSteps \cup OpSteps \cup {"idle"}]
          /\ mode \in [Proc -> [create : BOOLEAN, check : BOOLEAN]]
          /\ existed \in [Proc -> BOOLEAN]
          /\ mapped \in [Proc -> 0..MaxSegments]
          /\ result \in [Proc -> Results]

\* Memory that was initialised is never initialised again, whoever starts and
\* is killed when: the second look at the status under the lock of the file
\* (shmcache.c:191) protects what live processes use.
InitialisedOnce == [][status = "normal" => /\ status' = "normal"
                                           /\ layout' = layout
                                           /\ segCount' >= segCount]_vars

\* The first segment is created under the lock of the file and all others
\* under the mutex (shmcache.c:209, 427); still no two processes add
\* stripings and allocators at the same time, nor does one while another
\* resets the pools.
OneCreator == \A p, q \in Proc :
                 pc[p] \in Adding \cup {"first"} /\ pc[q] \in Adding \cup {"first"}
                   => p = q

\* When shmcache_init has succeeded for a process that creates segments, the
\* memory is initialised, min_memory of it is there, and the process has
\* mapped none that is not.
UsableWhenReady == \A p \in Proc : pc[p] \in OpSteps /\ mode[p].create =>
                      /\ status = "normal"
                      /\ segCount >= MinSegments \/ Full
                      /\ mapped[p] <= segCount

\* A process that found the segment there and checks it works with initialised
\* memory that has its own sizes and counts, also if another process was
\* initialising it or was killed doing so.
CheckedAgree == \A p \in Proc : pc[p] \in OpSteps /\ existed[p] /\ mode[p].check
                                  => /\ status = "normal"
                                     /\ CheckedPart(layout) = CheckedPart(LayoutOf[p])

\* README.md:23: "check some key fields for consistency when init, old share
\* memories should be cleaned and reinit when the memory related parameters
\* changed": every process that asks for the check and found the segment there
\* works with memory laid out as by its own configuration.
AgreedLayout == \A p \in Proc : pc[p] \in OpSteps /\ existed[p] /\ mode[p].check
                                  => layout = LayoutOf[p]

\* Every process that waits for the lock of the file gets it or is killed:
\* each way out of shmcache_do_lock_init releases it, and a kill does.
FileLockServed == \A p \in Proc : pc[p] = "lockFile" ~> pc[p] # "lockFile"
=============================================================================
