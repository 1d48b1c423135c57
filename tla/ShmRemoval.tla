----------------------------- MODULE ShmRemoval -----------------------------
(***************************************************************************)
(* The files of the shared memory and their removal (shmcache_remove_all,  *)
(* which the tool of that name calls) while other processes start, map,    *)
(* grow and are killed.                                                    *)
(*                                                                         *)
(* A name leads to a file, and a file that was removed lives on for those  *)
(* who have mapped it.  So there may be several generations of the memory: *)
(* one for each file that was the hashtable segment.  The count of value   *)
(* segments is in that file, the segments are found by name and number.    *)
(*                                                                         *)
(* What shmcache_init does in between is in ShmSegments; here it is the    *)
(* part that touches files.  late, torn and relinked are history: the      *)
(* generations that were mapped further after their name was gone, those   *)
(* that a removal did not remove to the end, and the numbers of the        *)
(* segments that one of the first created.                                 *)
(***************************************************************************)
EXTENDS Naturals, Sequences, FiniteSetsExt

CONSTANTS
  Proc,         \* processes: users of the cache, or the tool
  MaxSegments,  \* vm_info.segment.count.max
  Gens,         \* hashtable files
  Files,        \* files of a value segment
  MaxRemovals,  \* bound: how often the tool is called
  Nil           \* no file, no process

ASSUME RemovalAssumption ==
  /\ MaxSegments \in Nat \ {0} /\ MaxRemovals \in Nat
  /\ IsFiniteSet(Proc) /\ IsFiniteSet(Gens) /\ IsFiniteSet(Files)
  /\ Gens \subseteq Nat /\ Cardinality(Gens) > Cardinality(Proc)
  /\ Files \subseteq Nat /\ Cardinality(Files) > Cardinality(Proc)
  /\ Nil \notin Proc \cup Gens \cup Files

VARIABLES
  table,     \* the file that the name of the hashtable segment leads to
  value,     \* the file that the name of each value segment leads to
  ready,     \* memory->status of each generation is normal
  count,     \* memory->vm_info.segment.count.current of each generation
  fileLock,  \* the process that holds the lock of the file
  pc,        \* where each process is
  gen,       \* the hashtable file it has mapped
  map,       \* the value files it has mapped
  index,     \* segment_index of the removal
  result,    \* result of the removal
  failed,    \* a file was not removed by it
  removals,  \* calls of the tool so far
  late, torn, relinked

names == <<table, value>>
memory == <<ready, count>>
tool == <<index, result, failed>>
history == <<late, torn, relinked>>
vars == <<names, memory, fileLock, pc, gen, map, tool, removals, history>>

Init == /\ table = Nil
        /\ value = [i \in 1..MaxSegments |-> Nil]
        /\ ready = [g \in Gens |-> FALSE]
        /\ count = [g \in Gens |-> 0]
        /\ fileLock = Nil
        /\ pc = [p \in Proc |-> "idle"]
        /\ gen = [p \in Proc |-> Nil]
        /\ map = [p \in Proc |-> <<>>]
        /\ index = [p \in Proc |-> 0]
        /\ result = [p \in Proc |-> "ok"]
        /\ failed = [p \in Proc |-> FALSE]
        /\ removals = 0
        /\ late = {} /\ torn = {} /\ relinked = {}

Goto(p, step) == pc' = [pc EXCEPT ![p] = step]
MyCount(p) == count[gen[p]]

\* The system frees a hashtable file without a name that nobody has mapped.
Freed(g) == ~(g = table' \/ \E p \in Proc : gen'[p] = g)
Release(cutShort) == /\ ready' = [g \in Gens |-> ready[g] /\ ~Freed(g)]
                     /\ count' = [g \in Gens |-> IF Freed(g) THEN 0 ELSE count[g]]
                     /\ late' = {g \in late : ~Freed(g)}
                     /\ torn' = {g \in torn \cup cutShort : ~Freed(g)}

Leave(p) == /\ Goto(p, "idle")
            /\ gen' = [gen EXCEPT ![p] = Nil]
            /\ map' = [map EXCEPT ![p] = <<>>]
            /\ index' = [index EXCEPT ![p] = 0]
            /\ result' = [result EXCEPT ![p] = "ok"]
            /\ failed' = [failed EXCEPT ![p] = FALSE]
-----------------------------------------------------------------------------
(* shmcache_init with create_segment, and the use of its context           *)

\* A new file is none that has a name or that somebody has mapped.
NewGen == Min(Gens \ ({table} \cup {gen[p] : p \in Proc}))
NewFile(i) == Min(Files \ ({value[i]} \cup {map[p][i] : p \in {q \in Proc : Len(map[q]) >= i}}))

\* shmopt_init_segment of the hashtable opens the file or creates it.
Attach(p) ==
  /\ pc[p] = "idle"
  /\ table' = IF table = Nil THEN NewGen ELSE table
  /\ gen' = [gen EXCEPT ![p] = table']
  /\ Goto(p, "status")
  /\ UNCHANGED <<value, memory, fileLock, map, tool, history>>

ReadStatus(p) == /\ pc[p] = "status"
                 /\ Goto(p, IF ready[gen[p]] THEN "ready" ELSE "lockInit")
                 /\ UNCHANGED <<names, memory, fileLock, gen, map, tool, history>>

\* The steps of a removal in their order.
\* Changed form of RemovalOrder: the hashtable segment is removed last.
RemovalOrderTableLast == <<"unlinkValues", "unlinkTable", "unlockRemove">>

RemovalOrder == <<"unlinkTable", "unlinkValues", "unlockRemove">>

AfterStep(s) == RemovalOrder[1 + CHOOSE i \in 1..2 : RemovalOrder[i] = s]

\* Changed form of LockFile: an initialiser does not wait for a removal.
LockFileUnlessInit(p) ==
  /\ \/ pc[p] = "lockInit" /\ Goto(p, "recheck") /\ UNCHANGED fileLock
     \/ pc[p] = "lockRemove" /\ Goto(p, RemovalOrder[1]) /\ fileLock = Nil /\ fileLock' = p
  /\ UNCHANGED <<names, memory, gen, map, tool, history>>

\* shm_lock_file
LockFile(p) == /\ pc[p] \in {"lockInit", "lockRemove"}
               /\ fileLock = Nil
               /\ fileLock' = p
               /\ Goto(p, IF pc[p] = "lockInit" THEN "recheck" ELSE RemovalOrder[1])
               /\ relinked' = {}
               /\ UNCHANGED <<names, memory, gen, map, tool, late, torn>>

\* Whether the file it has mapped still has its name is not looked at.
Recheck(p) == /\ pc[p] = "recheck"
              /\ \/ ready[gen[p]] /\ Goto(p, "unlockInit") /\ UNCHANGED count
                 \/ /\ ~ready[gen[p]]
                    /\ count' = [count EXCEPT ![gen[p]] = 0]
                    /\ Goto(p, "createFirst")
              /\ UNCHANGED <<names, ready, fileLock, gen, map, tool, history>>

\* shmopt_init_value_segment with create_segment: whatever the name leads to,
\* else a new file.
MapValue(p, i) ==
  LET f == IF value[i] = Nil THEN NewFile(i) ELSE value[i]
  IN  /\ value' = [value EXCEPT ![i] = f]
      /\ map' = [map EXCEPT ![p] = Append(@, f)]
      /\ late' = IF gen[p] = table THEN late ELSE late \cup {gen[p]}
      /\ relinked' = IF gen[p] = table \/ value[i] # Nil THEN relinked ELSE relinked \cup {i}

\* shmopt_create_value_segment, the first time under the lock of the file and
\* then under the mutex of the generation.
Creating == {"countFirst", "count"}
CreateValue(p) ==
  /\ \/ pc[p] = "createFirst" /\ Goto(p, "countFirst")
     \/ /\ pc[p] = "ready" /\ Len(map[p]) = MyCount(p)
        /\ \A q \in Proc : gen[q] = gen[p] => pc[q] \notin Creating
        /\ Goto(p, "count")
  /\ MyCount(p) < MaxSegments
  /\ MapValue(p, MyCount(p) + 1)
  /\ UNCHANGED <<table, memory, fileLock, gen, tool, torn>>

Counted(p) ==
  /\ pc[p] \in Creating
  /\ count' = [count EXCEPT ![gen[p]] = @ + 1]
  /\ ready' = [ready EXCEPT ![gen[p]] = TRUE]
  /\ Goto(p, IF pc[p] = "countFirst" THEN "unlockInit" ELSE "ready")
  /\ IF gen[p] = table THEN UNCHANGED <<late, relinked>>
     ELSE late' = late \cup {gen[p]} /\ relinked' = relinked \cup {count'[gen[p]]}
  /\ UNCHANGED <<names, fileLock, gen, map, tool, torn>>

\* shmopt_open_value_segments: with create_segment a segment of another process
\* whose name is gone is created.
OpenValue(p) ==
  /\ pc[p] = "ready"
  /\ Len(map[p]) < MyCount(p)
  /\ MapValue(p, Len(map[p]) + 1)
  /\ UNCHANGED <<table, memory, fileLock, pc, gen, tool, torn>>
-----------------------------------------------------------------------------
(* shmcache_remove_all by the tool, whose context creates no segments      *)

CallRemove(p) == /\ pc[p] = "idle"
                 /\ table # Nil
                 /\ removals < MaxRemovals /\ removals' = removals + 1
                 /\ gen' = [gen EXCEPT ![p] = table]
                 /\ Goto(p, "lockRemove")
                 /\ UNCHANGED <<names, memory, fileLock, map, tool, history>>

\* The name is removed, of whichever generation it is now.
UnlinkTable(p) ==
  /\ pc[p] = "unlinkTable"
  /\ UNCHANGED gen
  /\ \/ /\ table # Nil
        /\ table' = Nil
        /\ Release({table} \ {gen[p]})
        /\ UNCHANGED tool
     \/ /\ UNCHANGED table
        /\ Release({gen[p], table} \ {Nil})
        /\ result' = [result EXCEPT ![p] = "error"]
        /\ failed' = [failed EXCEPT ![p] = TRUE]
        /\ UNCHANGED index
  /\ Goto(p, AfterStep("unlinkTable"))
  /\ UNCHANGED <<value, fileLock, map, relinked>>

\* Changed form of More: the last segment is left out.
MoreButOne(p) == index[p] + 1 < MyCount(p)

\* The count is read again for every segment.
More(p) == index[p] < MyCount(p)

\* Opening the segment overwrites the result of the removals before it.
UnlinkValue(p) ==
  /\ pc[p] = "unlinkValues" /\ More(p)
  /\ value[index[p] + 1] # Nil
  /\ index' = [index EXCEPT ![p] = @ + 1]
  /\ \/ /\ value' = [value EXCEPT ![index[p] + 1] = Nil]
        /\ relinked' = relinked \ {index[p] + 1}
        /\ result' = [result EXCEPT ![p] = "ok"]
        /\ UNCHANGED <<failed, torn>>
     \/ /\ result' = [result EXCEPT ![p] = "error"]
        /\ failed' = [failed EXCEPT ![p] = TRUE]
        /\ torn' = torn \cup {gen[p]}
        /\ UNCHANGED <<value, relinked>>
  /\ UNCHANGED <<table, memory, fileLock, pc, gen, map, late>>

\* A segment that cannot be opened ends the removal.
OpenFails(p) == /\ pc[p] = "unlinkValues" /\ More(p)
                /\ result' = [result EXCEPT ![p] = "error"]
                /\ torn' = torn \cup {gen[p]}
                /\ Goto(p, AfterStep("unlinkValues"))
                /\ UNCHANGED <<names, memory, fileLock, gen, map, index, failed, late, relinked>>

UnlinkedAll(p) == /\ pc[p] = "unlinkValues" /\ ~More(p)
                  /\ Goto(p, AfterStep("unlinkValues"))
                  /\ UNCHANGED <<names, memory, fileLock, gen, map, tool, history>>

\* shm_unlock_file; the tool ends.
Unlock(p) == /\ pc[p] \in {"unlockInit", "unlockRemove"}
             /\ fileLock' = Nil
             /\ relinked' = {}
             /\ UNCHANGED names
             /\ IF pc[p] = "unlockInit"
                THEN Goto(p, "ready") /\ UNCHANGED <<memory, gen, map, tool, late, torn>>
                ELSE Leave(p) /\ Release({})

\* A user destroys its context, or any process is killed.
End(p) == /\ pc[p] # "idle"
          /\ UNCHANGED names
          /\ Leave(p)
          /\ fileLock' = IF fileLock = p THEN Nil ELSE fileLock
          /\ Release(IF pc[p] \in {"unlinkTable", "unlinkValues"} THEN {gen[p]} ELSE {})
          /\ UNCHANGED relinked

Step(p) == \/ Attach(p) \/ ReadStatus(p) \/ LockFile(p) \/ Recheck(p)
           \/ CreateValue(p) \/ Counted(p) \/ OpenValue(p)
           \/ UnlinkTable(p) \/ UnlinkValue(p) \/ OpenFails(p) \/ UnlinkedAll(p)
           \/ Unlock(p) \/ End(p)

Next == \E p \in Proc : CallRemove(p) \/ (Step(p) /\ UNCHANGED removals)

Spec == Init /\ [][Next]_vars
-----------------------------------------------------------------------------
(* Properties                                                              *)

\* Generations that were, or just are, mapped further after the name of their
\* hashtable segment was gone, or whose removal did not come to its end.
Growing == {gen[p] : p \in {q \in Proc : pc[q] \in Creating /\ gen[q] # table}}
Disturbed == late \cup torn \cup Growing

\* Processes may stay attached to memory that is removed and go on with what
\* they have mapped: the files of a generation are never those of another.
\* Only mapping more segments, or a removal that was cut short, mixes them.
FilesApart == \A p, q \in Proc :
  /\ gen[p] # gen[q]
  /\ \E i \in DOMAIN map[p] \cap DOMAIN map[q] : map[p][i] = map[q][i]
  => {gen[p], gen[q]} \cap Disturbed # {}

\* Under the same condition all processes of a generation have the same file
\* for each of its segments.
SameFiles == \A p, q \in Proc :
  gen[p] = gen[q] /\ gen[p] \notin Disturbed =>
    \A i \in DOMAIN map[p] \cap DOMAIN map[q] : map[p][i] = map[q][i]

\* The names of the memory that the tool has mapped are gone, but for those
\* that others of its memory made again meanwhile.
NamesGone(p) == /\ table # gen[p]
                /\ \A i \in 1..MyCount(p) : value[i] = Nil \/ i \in relinked
Succeeded(p) == pc[p] = "unlockRemove" /\ result[p] = "ok"

\* A removal in which no name resisted and which reports success has removed
\* all of them, however others grew the memory meanwhile.
RemovedMeansGone == \A p \in Proc : Succeeded(p) /\ ~failed[p] => NamesGone(p)
=============================================================================
