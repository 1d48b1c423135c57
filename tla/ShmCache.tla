------------------------------- MODULE ShmCache -------------------------------
(***************************************************************************)
(* The cache under its lock: hashtable (shm_hashtable.c), FIFO list        *)
(* (shm_list.h), value allocator with its striping allocators              *)
(* (shm_value_allocator.c, shm_striping_allocator.c) and value segments    *)
(* (shmopt.c), driven by the operations of shmcache.c.                     *)
(*                                                                         *)
(* ShmLock lets one operation run at a time, so there is one program       *)
(* counter.  shm_ht_set, the operation that recycles, grows and rearranges *)
(* memory, takes many steps and may be killed at each; the others are      *)
(* single steps.  A killed operation is followed by the recovery of        *)
(* shm_detect_deadlock, which clears the table.                            *)
(*                                                                         *)
(* Buckets are abstracted to the function ht, the doing and done rings to  *)
(* sequences (module ObjectPool), bytes to units.  A striping is           *)
(* identified with its allocator.  An operation runs within one second.    *)
(***************************************************************************)
EXTENDS Integers, FiniteSets, SequencesExt

CONSTANTS
  Keys,                 \* the keys
  MaxVal,               \* values are 1..MaxVal
  MaxNumber,            \* the values up to this one are decimal integers (bound)
  SizeOf,               \* units of an entry that holds a value
  StripingSize,         \* vm_info.striping.size
  StripingsPerSegment,  \* vm_info.segment.size / vm_info.striping.size
  SegmentSlack,         \* vm_info.segment.size % vm_info.striping.size
  MaxSegments,          \* vm_info.segment.count.max
  MaxKeyCount,          \* config.max_key_count
  ValueLimits,          \* config.max_value_size of the processes: the longest
                        \* value each accepts, longer values being greater
  MaxKeyValueSize,      \* SHMCACHE_MAX_KEY_SIZE + config.max_value_size of each
  DiscardMemorySize,    \* va_policy.discard_memory_size
  MaxFailTimes,         \* va_policy.max_fail_times
  AvgKeyTTL,            \* va_policy.avg_key_ttl
  RecycleKeyOnce,       \* config.recycle_key_once
  RecycleValidEntries,  \* config.recycle_valid_entries
  TTLs,                 \* the ttl arguments of callers, 0 for never expired
  MaxTime               \* the last second of a behaviour (bound)

Values == 1..MaxVal
MaxStripings == MaxSegments * StripingsPerSegment
Stripings == 1..MaxStripings

\* shmcache.c sizes a striping to hold any entry.
ASSUME CacheAssumption ==
  /\ MaxVal \in Nat /\ MaxNumber \in 0..MaxVal
  /\ SizeOf \in [Values -> 1..StripingSize]
  /\ StripingSize \in Nat \ {0}
  /\ StripingsPerSegment \in Nat \ {0}
  /\ SegmentSlack \in 0..(StripingSize - 1)
  /\ MaxSegments \in Nat \ {0}
  /\ MaxKeyCount \in Nat \ {0}
  /\ ValueLimits \subseteq Values
  /\ MaxKeyValueSize \in [ValueLimits -> Nat]
  /\ DiscardMemorySize \in Nat
  /\ MaxFailTimes \in Nat
  /\ AvgKeyTTL \in Nat
  /\ RecycleKeyOnce \in Nat
  /\ RecycleValidEntries \in BOOLEAN
  /\ TTLs \subseteq Nat
  /\ MaxTime \in Nat \ {0}

VARIABLES
  ht,          \* the hashtable: the entry of each key
  count,       \* hashtable.count
  list,        \* the FIFO list: entry offsets, oldest first
  strip,       \* the striping allocators
  doing, done, \* value_allocator.doing and value_allocator.done
  usedEntry,   \* usage.used.entry
  segCount,    \* vm_info.segment.count.current
  nstr,        \* vm_info.striping.count.current
  alloced,     \* usage.alloced of the value segments, in segments
  now,         \* the time
  pc,          \* where the operation under the lock is
  limit,       \* config.max_value_size of the process that runs it
  stack,       \* the activations of shm_ht_set, innermost last
  cur,         \* the position of the scan of doing or of list
  cleared,     \* clear_count of shm_value_allocator_recycle
  recycled,    \* recycled of shm_value_allocator_recycle
  new          \* new_entry of shm_ht_set

table == <<ht, count, list>>
memory == <<strip, doing, done, usedEntry>>
segments == <<segCount, nstr, alloced>>
locals == <<limit, stack, cur, cleared, recycled, new>>
vars == <<table, memory, segments, now, pc, locals>>

\* An entry is a value, its expiration and the memory it occupies.
Entry == [val : 0..MaxVal, exp : Nat, str : 0..MaxStripings, off : 0..StripingSize]
NoEntry == [val |-> 0, exp |-> 0, str |-> 0, off |-> 0]
Live(k) == ht[k].str # 0
Offset(e) == <<e.str, e.off>>

Item == [key : Keys, val : Values, exp : Nat]
Frame == [key : Keys, val : Values, exp : Nat, todo : Seq(Item)]
Top == stack[Len(stack)]

Locations == {"idle", "recycleKey", "alloc1", "recycleMem", "create", "striping",
              "tryRearrange", "toArray", "rearrange", "alloc2", "link", "fail",
              "crashed"}

TypeOK ==
  /\ ht \in [Keys -> Entry]
  /\ count \in Int
  /\ list \in Seq(Stripings \X (0..StripingSize))
  /\ strip \in [Stripings -> [free : 0..StripingSize, used : Int, fail : 0..(MaxFailTimes + 1),
                              last : Nat, pool : {"doing", "done"}]]
  /\ doing \in Seq(Stripings) /\ done \in Seq(Stripings)
  /\ usedEntry \in Int
  /\ segCount \in 0..MaxSegments
  /\ nstr \in 0..MaxStripings
  /\ alloced \in 0..MaxSegments
  /\ now \in Nat
  /\ pc \in Locations
  /\ limit \in 0..MaxVal
  /\ stack \in Seq(Frame)
  /\ cur \in Nat \ {0}
  /\ cleared \in Nat
  /\ recycled \in BOOLEAN
  /\ new \in Entry

IsValidAt(exp, t) == exp = 0 \/ exp >= t
CalcExpires(t, ttl) == IF ttl = 0 THEN 0 ELSE t + ttl
-----------------------------------------------------------------------------
(* Striping allocators and the two queues                                  *)

\* shm_striping_allocator_reset leaves nothing but the queue it is in.
ResetStriping(pool) == [free |-> 0, used |-> 0, fail |-> 0, last |-> 0, pool |-> pool]

\* Mutant: nothing is taken out.
WithoutNothing(s, x) == s

Without(s, x) == IF Contains(s, x)
                 THEN RemoveAt(s, CHOOSE i \in 1..Len(s) : s[i] = x) ELSE s

\* Mutant: one unit too many.
FitsOneMore(s, size) == StripingSize - strip[s].free + 1 >= size

Fits(s, size) == StripingSize - strip[s].free >= size

\* What shm_object_pool_remove(&doing) returns for the object at position i:
\* the slot is read after the objects ahead of it have moved into it.
RemoveResult(i) == IF i = 1 THEN doing[1] ELSE doing[i - 1]

\* Mutants: one unit is freed whatever the size; a striping counts as empty
\* while as much as was freed is left; the queue it is in is not looked at.
FreesOneUnit(e) == strip[e.str].used - 1
EmptiedEarly(e) == strip[e.str].used - SizeOf[e.val] <= SizeOf[e.val]
RequeuedAlways(e) == strip[e.str].used - SizeOf[e.val] <= 0

\* shm_value_allocator_free: an empty striping is reset and, if it was
\* filed as done, queued again.
UsedAfterFree(e) == strip[e.str].used - SizeOf[e.val]
Emptied(e) == UsedAfterFree(e) <= 0
Requeued(e) == /\ Emptied(e)
               /\ strip[e.str].pool = "done"
               /\ Contains(done, e.str)

FreeValue(e) ==
  /\ usedEntry' = usedEntry - SizeOf[e.val]
  /\ strip' = [strip EXCEPT ![e.str] =
                 IF Emptied(e)
                 THEN ResetStriping(IF Requeued(e) THEN "doing" ELSE strip[e.str].pool)
                 ELSE [strip[e.str] EXCEPT !.used = UsedAfterFree(e)]]
  /\ done' = IF Requeued(e) THEN Without(done, e.str) ELSE done
  /\ doing' = IF Requeued(e) THEN Append(doing, e.str) ELSE doing

\* shm_ht_clear
ClearTable ==
  /\ ht' = [k \in Keys |-> NoEntry]
  /\ count' = 0
  /\ list' = <<>>
  /\ doing' = [i \in 1..nstr |-> i]
  /\ done' = <<>>
  /\ strip' = [s \in Stripings |->
                 IF s <= nstr THEN ResetStriping("doing") ELSE strip[s]]
  /\ usedEntry' = 0
-----------------------------------------------------------------------------
\* shmcache_init: one value segment, all of it in the doing queue.
Init ==
  /\ ht = [k \in Keys |-> NoEntry]
  /\ count = 0 /\ list = <<>>
  /\ strip = [s \in Stripings |-> ResetStriping("doing")]
  /\ doing = [i \in 1..StripingsPerSegment |-> i] /\ done = <<>>
  /\ usedEntry = 0
  /\ segCount = 1 /\ nstr = StripingsPerSegment /\ alloced = 1
  /\ now = 1
  /\ pc = "idle" /\ limit = 0 /\ stack = <<>> /\ cur = 1
  /\ cleared = 0 /\ recycled = FALSE /\ new = NoEntry

\* Control passes to a loop of the operation, which begins at its first element.
Enter(loop) == /\ pc' = loop
               /\ cur' = 1 /\ cleared' = 0 /\ recycled' = FALSE

\* Mutant: room is made one entry too late.
TableOverfull == count > MaxKeyCount

\* shm_ht_set is called: it refuses a value that is too long and makes room
\* in a table that is full.
TableFull == count >= MaxKeyCount
Activation(x) == [key |-> x.key, val |-> x.val, exp |-> x.exp, todo |-> <<>>]
CallSet(callers, x) == /\ stack' = Append(callers, Activation(x))
                       /\ new' = NoEntry
                       /\ Enter(IF x.val > limit' THEN "fail"
                                ELSE IF TableFull THEN "recycleKey"
                                ELSE "alloc1")

\* shmcache_set, shmcache_set_ex
Set(k, v, ttl) ==
  /\ pc = "idle"
  /\ limit' \in ValueLimits
  /\ CallSet(<<>>, [key |-> k, val |-> v, exp |-> CalcExpires(now, ttl)])
  /\ UNCHANGED <<table, memory, segments, now>>

\* shmcache_incr by one: a missing or expired entry counts as zero, a value
\* that is not a decimal integer is refused.
Counted(k) == IF Live(k) /\ IsValidAt(ht[k].exp, now) THEN ht[k].val ELSE 0
Incr(k, ttl) ==
  /\ pc = "idle"
  /\ Counted(k) < MaxNumber
  /\ limit' \in ValueLimits
  /\ CallSet(<<>>, [key |-> k, val |-> Counted(k) + 1, exp |-> CalcExpires(now, ttl)])
  /\ UNCHANGED <<table, memory, segments, now>>

\* shmcache_delete
Delete(k) == /\ pc = "idle"
             /\ Live(k)
             /\ ht' = [ht EXCEPT ![k] = NoEntry]
             /\ count' = count - 1
             /\ list' = Without(list, Offset(ht[k]))
             /\ FreeValue(ht[k])
             /\ UNCHANGED <<segments, now, pc, locals>>

\* shmcache_set_ttl, shmcache_set_expires
SetExpires(k, exp) == /\ pc = "idle"
                      /\ Live(k) /\ IsValidAt(ht[k].exp, now)
                      /\ ht' = [ht EXCEPT ![k].exp = exp]
                      /\ UNCHANGED <<count, list, memory, segments, now, pc, locals>>

\* shmcache_clear
Clear == /\ pc = "idle"
         /\ ClearTable
         /\ UNCHANGED <<segments, now, pc, locals>>

Tick == /\ pc = "idle"
        /\ now < MaxTime
        /\ now' = now + 1
        /\ UNCHANGED <<table, memory, segments, pc, locals>>
-----------------------------------------------------------------------------
(* shm_value_allocator_recycle: for keys when the table is full, for memory *)
(* when no striping has room                                                *)

Recycling == pc \in {"recycleKey", "recycleMem"}
KeysOnce == IF pc = "recycleKey" THEN RecycleKeyOnce ELSE 0
Enough(clear_count, emptied) == IF KeysOnce > 0 THEN clear_count >= KeysOnce ELSE emptied
EntryAt(k) == cur <= Len(list) /\ Live(k) /\ Offset(ht[k]) = list[cur]
\* Mutants: valid entries are not spared; expired ones are.
MayRecycleAny(k) == ht[k].exp \in Nat
MayRecycleValid(k) == IsValidAt(ht[k].exp, now)

MayRecycle(k) == RecycleValidEntries \/ ~IsValidAt(ht[k].exp, now)

RecycleSkip ==
  /\ Recycling
  /\ \E k \in Keys : EntryAt(k) /\ ~MayRecycle(k)
  /\ cur' = cur + 1
  /\ UNCHANGED <<table, memory, segments, now, pc, limit, stack, cleared, recycled, new>>

RecycleEntry ==
  /\ Recycling
  /\ \E k \in Keys :
       /\ EntryAt(k) /\ MayRecycle(k)
       /\ ht' = [ht EXCEPT ![k] = NoEntry]
       /\ count' = count - 1
       /\ list' = Without(list, Offset(ht[k]))
       /\ FreeValue(ht[k])
       /\ IF Enough(cleared + 1, recycled \/ Emptied(ht[k]))
          THEN Enter(IF pc = "recycleKey" THEN "alloc1" ELSE "alloc2")
          ELSE /\ cleared' = cleared + 1
               /\ recycled' = (recycled \/ Emptied(ht[k]))
               /\ UNCHANGED <<pc, cur>>
  /\ UNCHANGED <<segments, now, limit, stack, new>>

\* ENOMEM.  Only memory that may not be taken from valid entries is looked
\* for elsewhere.
RecycleFails ==
  /\ Recycling
  /\ cur > Len(list)
  /\ Enter(IF pc = "recycleKey" \/ RecycleValidEntries THEN "fail"
           ELSE IF segCount < MaxSegments THEN "create" ELSE "tryRearrange")
  /\ UNCHANGED <<table, memory, segments, now, limit, stack, new>>
-----------------------------------------------------------------------------
(* shm_value_allocator_do_alloc: first fit over the doing queue             *)

Allocating == pc \in {"alloc1", "alloc2"}

AllocFits ==
  /\ Allocating
  /\ cur <= Len(doing)
  /\ LET s == doing[cur]
         size == SizeOf[Top.val]
     IN  /\ Fits(s, size)
         /\ new' = [val |-> Top.val, exp |-> Top.exp, str |-> s, off |-> strip[s].free]
         /\ strip' = [strip EXCEPT ![s].free = @ + size, ![s].used = @ + size,
                                   ![s].last = now]
         /\ usedEntry' = usedEntry + size
  /\ Enter("link")
  /\ UNCHANGED <<table, doing, done, segments, now, limit, stack>>

\* One more failure, counted up to where it no longer matters.  A striping
\* that is almost full or failed too often leaves the doing queue, and is
\* filed as done when the queue says that it is the one removed.
FailTimes(s) == IF strip[s].fail > MaxFailTimes THEN strip[s].fail ELSE strip[s].fail + 1
Discarded(s) == \/ StripingSize - strip[s].free <= DiscardMemorySize
                \/ FailTimes(s) > MaxFailTimes

AllocMisses ==
  /\ Allocating
  /\ cur <= Len(doing)
  /\ LET s == doing[cur]
         filed == Discarded(s) /\ RemoveResult(cur) = s
     IN  /\ ~Fits(s, SizeOf[Top.val])
         /\ strip' = [strip EXCEPT ![s].fail = FailTimes(s),
                                   ![s].pool = IF filed THEN "done" ELSE @]
         /\ doing' = IF Discarded(s) THEN RemoveAt(doing, cur) ELSE doing
         /\ done' = IF filed THEN Append(done, s) ELSE done
         /\ cur' = IF Discarded(s) THEN cur ELSE cur + 1
  /\ UNCHANGED <<table, usedEntry, segments, now, pc, limit, stack, cleared, recycled, new>>

\* shm_value_allocator_alloc after a first scan in vain: recycle when there
\* can be no more segments or the oldest done striping is old enough.
OldEnough == /\ done # <<>>
             /\ AvgKeyTTL > 0
             /\ now - strip[done[1]].last >= AvgKeyTTL
AllocFails ==
  /\ Allocating
  /\ cur > Len(doing)
  /\ Enter(IF pc = "alloc2" THEN "fail"
           ELSE IF segCount >= MaxSegments \/ OldEnough THEN "recycleMem" ELSE "create")
  /\ UNCHANGED <<table, memory, segments, now, limit, stack, new>>
-----------------------------------------------------------------------------
(* shmopt_create_value_segment: the segment is counted first, then its      *)
(* stripings one by one, then its memory.                                   *)

CreateSegment == /\ pc = "create"
                 /\ segCount < MaxSegments
                 /\ segCount' = segCount + 1
                 /\ Enter("striping")
                 /\ UNCHANGED <<table, memory, nstr, alloced, now, limit, stack, new>>

\* The segment cannot be mapped, or the caller has not mapped the others.
CreateSegmentFails == /\ pc = "create"
                      /\ Enter("fail")
                      /\ UNCHANGED <<table, memory, segments, now, limit, stack, new>>

AddStriping == /\ pc = "striping"
               /\ cur <= StripingsPerSegment
               /\ nstr' = nstr + 1
               /\ strip' = [strip EXCEPT ![nstr + 1] = ResetStriping("doing")]
               /\ doing' = Append(doing, nstr + 1)
               /\ cur' = cur + 1
               /\ UNCHANGED <<table, done, usedEntry, segCount, alloced, now, pc, limit, stack,
                              cleared, recycled, new>>

SegmentCreated == /\ pc = "striping"
                  /\ cur > StripingsPerSegment
                  /\ alloced' = alloced + 1
                  /\ Enter("alloc2")
                  /\ UNCHANGED <<table, memory, segCount, nstr, now, limit, stack, new>>
-----------------------------------------------------------------------------
(* shm_value_allocator_try_rearrange: copy the valid entries out, clear the *)
(* table and set them again.                                                *)

\* What a segment has beyond its stripings counts as free too.
SegmentSize == StripingsPerSegment * StripingSize + SegmentSlack
FreeMemory == alloced * SegmentSize - usedEntry
WorthRearranging ==
  FreeMemory >= MaxKeyValueSize[limit] + nstr * DiscardMemorySize + StripingSize

TryRearrange == /\ pc = "tryRearrange"
                /\ Enter(IF WorthRearranging THEN "toArray" ELSE "fail")
                /\ UNCHANGED <<table, memory, segments, now, limit, stack, new>>

\* shm_ht_to_array
ItemAt(k) == [key |-> k, val |-> ht[k].val, exp |-> ht[k].exp]
CopyEntry ==
  /\ pc = "toArray"
  /\ \E k \in Keys :
       /\ EntryAt(k)
       /\ stack' = IF IsValidAt(ht[k].exp, now)
                   THEN [stack EXCEPT ![Len(stack)].todo = Append(@, ItemAt(k))]
                   ELSE stack
  /\ cur' = cur + 1
  /\ UNCHANGED <<table, memory, segments, now, pc, limit, cleared, recycled, new>>

\* There is no memory for the array or for a copy.
CopyFails == /\ pc = "toArray"
             /\ cur <= Len(list)
             /\ stack' = [stack EXCEPT ![Len(stack)].todo = <<>>]
             /\ Enter("fail")
             /\ UNCHANGED <<table, memory, segments, now, limit, new>>

Copied == /\ pc = "toArray"
          /\ cur > Len(list)
          /\ ClearTable
          /\ Enter("rearrange")
          /\ UNCHANGED <<segments, now, limit, stack, new>>

RearrangeEntry ==
  /\ pc = "rearrange"
  /\ Top.todo # <<>>
  /\ UNCHANGED limit
  /\ CallSet([stack EXCEPT ![Len(stack)].todo = Tail(@)], Head(Top.todo))
  /\ UNCHANGED <<table, memory, segments, now>>

\* Mutant: the allocation starts over, not only its last scan.
RearrangedAnew == /\ pc = "rearrange"
                  /\ Top.todo = <<>>
                  /\ Enter("alloc1")
                  /\ UNCHANGED <<table, memory, segments, now, limit, stack, new>>

Rearranged == /\ pc = "rearrange"
              /\ Top.todo = <<>>
              /\ Enter("alloc2")
              /\ UNCHANGED <<table, memory, segments, now, limit, stack, new>>
-----------------------------------------------------------------------------
(* The end of shm_ht_set                                                    *)

\* Return to the caller, who is a client or shm_value_allocator_try_rearrange.
Return(toRearrange) == /\ stack' = Front(stack)
                       /\ limit' = IF Len(stack) = 1 THEN 0 ELSE limit
                       /\ new' = NoEntry
                       /\ Enter(IF Len(stack) = 1 THEN "idle" ELSE toRearrange)

\* The new entry takes the place of the old one in its bucket, and the last
\* place in the list.
Link ==
  /\ pc = "link"
  /\ LET k == Top.key
     IN  /\ ht' = [ht EXCEPT ![k] = new]
         /\ IF Live(k)
            THEN /\ FreeValue(ht[k])
                 /\ UNCHANGED count
                 /\ list' = Append(Without(list, Offset(ht[k])), Offset(new))
            ELSE /\ count' = count + 1
                 /\ list' = Append(list, Offset(new))
                 /\ UNCHANGED memory
  /\ Return("rearrange")
  /\ UNCHANGED <<segments, now>>

\* An error is returned: a client gets it, a rearrangement gives up, clears
\* the table and fails in its turn.
ReturnError ==
  /\ pc = "fail"
  /\ IF Len(stack) = 1 THEN UNCHANGED <<table, memory>> ELSE ClearTable
  /\ Return("fail")
  /\ UNCHANGED <<segments, now>>

\* The process is killed under the lock, in a set or in an operation that
\* is one step here ...
Crash == /\ pc # "crashed"
         /\ stack' = <<>> /\ limit' = 0
         /\ Enter("crashed")
         /\ UNCHANGED <<table, memory, segments, now, new>>

\* ... and shm_detect_deadlock clears the table before it unlocks.
Recover == /\ pc = "crashed"
           /\ ClearTable
           /\ new' = NoEntry
           /\ Enter("idle")
           /\ UNCHANGED <<segments, now, limit, stack>>
-----------------------------------------------------------------------------
Step == \/ RecycleSkip \/ RecycleEntry \/ RecycleFails
        \/ AllocFits \/ AllocMisses \/ AllocFails
        \/ CreateSegment \/ CreateSegmentFails \/ AddStriping \/ SegmentCreated
        \/ TryRearrange \/ CopyEntry \/ CopyFails \/ Copied \/ RearrangeEntry \/ Rearranged
        \/ Link \/ ReturnError \/ Recover

Request == \/ \E k \in Keys, v \in Values, ttl \in TTLs : Set(k, v, ttl)
           \/ \E k \in Keys, ttl \in TTLs : Incr(k, ttl)
           \/ \E k \in Keys : Delete(k)
           \/ \E k \in Keys, ttl \in TTLs : SetExpires(k, CalcExpires(now, ttl))
           \/ Clear

Next == Request \/ Step \/ Tick \/ Crash

Spec == Init /\ [][Next]_vars

\* A process under the lock runs on until it is killed, and a killed one is
\* recovered from (ShmLock).
FairSpec == Spec /\ WF_vars(Step)
-----------------------------------------------------------------------------
(* Properties                                                              *)

LiveKeys == {k \in Keys : Live(k)}

\* The units an entry occupies, and those of all entries and of the one that
\* is about to be linked.
Units(e) == {e.str} \X (e.off .. (e.off + SizeOf[e.val] - 1))
Occupied == (UNION {Units(ht[k]) : k \in LiveKeys}) \cup
            (IF new.str # 0 THEN Units(new) ELSE {})

\* No two entries share memory, and none lies where the next allocation of
\* its striping would go: a striping is reset only when nothing in it is live.
NoOverlap ==
  /\ \A k \in LiveKeys :
       /\ ht[k].off + SizeOf[ht[k].val] <= strip[ht[k].str].free
       /\ \A l \in LiveKeys \ {k} : Units(ht[k]) \cap Units(ht[l]) = {}
       /\ new.str # 0 => Units(ht[k]) \cap Units(new) = {}
  /\ new.str # 0 => new.off + SizeOf[new.val] <= strip[new.str].free

\* size.used of every striping, and usage.used.entry, are what the entries
\* occupy: the reset and the rearrangement rely on them.
UsedExact == /\ \A s \in 1..nstr :
                  strip[s].used = Cardinality({u \in Occupied : u[1] = s})
             /\ usedEntry = Cardinality(Occupied)

\* Table, list and count always name the same entries.
IndexesAgree == /\ {list[i] : i \in DOMAIN list} = {Offset(ht[k]) : k \in LiveKeys}
                /\ Len(list) = Cardinality(LiveKeys)
                /\ count = Len(list)
                /\ count <= MaxKeyCount

\* No striping is queued twice, and in_which_pool says done exactly for those
\* in the done queue: else a recycled striping would not be found or would be
\* handed out twice.
QueuesSound == /\ \A i, j \in DOMAIN doing : doing[i] = doing[j] => i = j
               /\ \A i, j \in DOMAIN done : done[i] = done[j] => i = j
               /\ \A s \in 1..nstr : strip[s].pool = "done" <=> Contains(done, s)
               /\ \A s \in 1..nstr : Contains(doing, s) => strip[s].pool = "doing"

\* The four of them together: memory, sizes, indexes and queues.
MemorySound == NoOverlap /\ UsedExact /\ IndexesAgree /\ QueuesSound

\* Every operation ends: recycling, growing and rearranging do not chase
\* each other.
OperationEnds == pc # "idle" ~> pc = "idle"

\* What the cache promises, with its oldest entry first: the entries in the
\* list, and those that a rearrangement is still to set again.
Contents == [i \in 1..Len(list) |->
               ItemAt(CHOOSE k \in Keys : Live(k) /\ Offset(ht[k]) = list[i])]
ItemOf(x) == [key |-> x.key, val |-> x.val, exp |-> x.exp]
Pending ==
  LET P[i \in 0..Len(stack)] ==
        IF i = 0 THEN <<>>
        ELSE (IF pc = "toArray" /\ i = Len(stack) THEN <<>> ELSE stack[i].todo)
             \o (IF i > 1 THEN <<ItemOf(stack[i])>> ELSE <<>>) \o P[i - 1]
  IN  P[Len(stack)]
\* A rearrangement in which an entry cannot be set again is about to clear.
Held == IF pc = "crashed" \/ (pc = "fail" /\ Len(stack) > 1) THEN <<>>
        ELSE IF pc = "fail" THEN Contents ELSE Contents \o Pending
RequestNow == IF stack = <<>> THEN <<>> ELSE <<ItemOf(stack[1])>>
Fifo == INSTANCE FifoCache WITH
          SmallestLimit <- Min(ValueLimits),
          fifo <- Held,
          request <- RequestNow,
          up <- pc # "crashed"

\* A valid entry stays as it was set until it is deleted, overwritten,
\* cleared or, with recycle_valid_entries only ("if recycle valid entries by
\* FIFO", libshmcache.conf:43), the oldest one when room is needed; a failed set
\* changes nothing else, and a rearrangement nothing, unless max_value_size is
\* not the same for all processes.
ImplementsFifoCache == Fifo!Spec

\* Without recycle_valid_entries there is one more way to lose entries: a
\* rearrangement has found no memory for one that it copied, although it had
\* checked that enough was free, and is about to clear the table.
OutOfRoom == /\ ~RecycleValidEntries
             /\ pc \notin {"rearrange", "fail"} /\ pc' = "fail" /\ Len(stack') > 1
             /\ Held' = <<>>
             /\ UNCHANGED <<RequestNow, now>>

\* Apart from that step the cache is the FIFO cache: however recycling and
\* nested rearrangements are stacked, no other entry is lost, changed or moved.
FifoUnlessOutOfRoom == Fifo!Init /\ [][Fifo!Next \/ OutOfRoom]_(Fifo!vars)

\* "put this allocator in the doing queue to the done queue": a striping
\* that leaves the one is in the other.
NoStripingLost == \A s \in 1..nstr : Contains(doing, s) \/ Contains(done, s)
=============================================================================
