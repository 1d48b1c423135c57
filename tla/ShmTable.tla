------------------------------- MODULE ShmTable -------------------------------
(***************************************************************************)
(* The hashtable and the FIFO list at the level of their links, and the    *)
(* lockless get.  ShmCache has a function for the table and a sequence for *)
(* the list; here there are the buckets, ht_next and prev/next of every    *)
(* entry, stored one after the other by the process that holds the lock,   *)
(* while readers walk the chains without the lock and callers copy the     *)
(* value after shmcache_get has returned its address; so does the tool     *)
(* shmcache_dump, which walks the list.                                    *)
(*                                                                         *)
(* All entries have one size, so an entry lies in a cell that is reused as *)
(* a whole; a reader whose memory was reused may nevertheless meet any     *)
(* bytes (Stray), as entries of different sizes let it.  Which striping    *)
(* serves an allocation, growing and rearranging are in ShmCache.  The     *)
(* data of an entry is the key it was set for.                             *)
(***************************************************************************)
EXTENDS Integers, FiniteSets, SequencesExt

CONSTANTS
  Keys, Buckets,
  BucketOf,             \* HT_GET_BUCKET_INDEX of each key
  Mortal,               \* the keys that are set with a ttl
  Stripings,            \* the number of stripings
  PerStriping,          \* the entries a striping holds
  MaxKeyCount,          \* config.max_key_count
  Configs,              \* recycle_key_once and recycle_valid_entries of the
                        \* processes that set
  Sleeps,               \* sleep_us_when_recycle_valid_entries > 0
  WithinLock,           \* the values of read_within_lock among the readers
  Dumps,                \* offset, count and matching keys that shmcache_dump
                        \* is called with
  Readers,              \* processes that get or dump, once each
  Opening,              \* bound: the sets with which every behaviour begins
  MaxOps,               \* bound on the operations that take the lock to write,
                        \* with the kills among them
  NoKey                 \* what is in a cell that was never written

Cells == 1..(Stripings * PerStriping)
ListHead == 0               \* context->list.head.offset
Nil == 0                \* the end of a chain

ASSUME TableAssumption ==
  /\ BucketOf \in [Keys -> Buckets]
  /\ Mortal \subseteq Keys
  /\ Stripings \in Nat \ {0} /\ PerStriping \in Nat \ {0}
  /\ MaxKeyCount \in Nat \ {0}
  /\ Configs # {} /\ Configs \subseteq [once : Int, valid : BOOLEAN]
  /\ Sleeps \in BOOLEAN
  /\ WithinLock \subseteq BOOLEAN
  /\ Dumps \subseteq [offset : Nat, count : Nat, match : SUBSET Keys]
  /\ Opening \in Seq(Keys) /\ MaxOps \in Nat
  /\ NoKey \notin Keys
  /\ Readers \cap {"free", "writer"} = {}

VARIABLES
  bucket,       \* hashtable.buckets
  cell,         \* key, data, expiry and ht_next of the entry in each cell
  prev, next,   \* list.prev and list.next of the head and of each entry
  count,        \* hashtable.count
  free, used,   \* of each striping: cells handed out, and those in use
  lock,         \* "free", "writer" or the reader that holds the lock
  pc,           \* where the operation that changes the table is
  op,           \* what it is
  ops,          \* how many there were, and kills
  key,          \* its key
  config,       \* the configuration of its process
  new,          \* new_entry
  old,          \* old_entry, or the entry being deleted
  at,           \* entry_offset of the loop of shm_value_allocator_recycle
  cleared,      \* clear_count
  valid,        \* valid_count > 0
  awaited,      \* the gets under way when the writer fell asleep
  get           \* what each reader is doing, and what it met; of a dump,
                \* the rows to skip and to copy

table == <<bucket, cell, prev, next, count, free, used>>
loop == <<at, cleared, valid>>
writer == <<lock, pc, op, ops, key, config, new, old, loop, awaited>>
vars == <<table, writer, get>>

NoGet == [pc |-> "idle", key |-> NoKey, at |-> Nil, locked |-> FALSE,
          match |-> {}, skip |-> 0, rows |-> 0,
          present |-> FALSE, cut |-> FALSE, spoilt |-> FALSE]
NoConfig == CHOOSE g \in Configs : TRUE
Active == {r \in Readers : get[r].pc \notin {"idle", "done"}}
Dumping == {r \in Readers : get[r].pc \in {"entry", "row"}}
StripingOf(c) == (c - 1) \div PerStriping + 1
-----------------------------------------------------------------------------
(* Chains and list                                                         *)

\* The entries that a walk from the bucket meets.
Chain(b) ==
  LET Within[n \in Nat] ==
        {bucket[b]} \cup (IF n = 0 THEN {} ELSE {cell[c].next : c \in Within[n - 1] \ {Nil}})
  IN  Within[Cardinality(Cells)] \ {Nil}
Holds(k) == \E c \in Chain(BucketOf[k]) : cell[c].key = k
Present == {k \in Keys : Holds(k)}
EntryOf(k) == CHOOSE c \in Chain(BucketOf[k]) : cell[c].key = k

\* The walk under the lock: what points to entry c, a cell or the bucket
\* itself, and the end of the chain for Nil.
Previous(b, c) == {p \in Chain(b) : cell[p].next = c}
PointTo(b, c, to) ==
  /\ bucket' = IF Previous(b, c) = {} THEN [bucket EXCEPT ![b] = to] ELSE bucket
  /\ cell' = [p \in Cells |-> IF p \in Previous(b, c) THEN [cell[p] EXCEPT !.next = to]
                              ELSE cell[p]]

\* Changed form of ListAddTail: the entry is put first.
ListAddFirst(c) ==
  /\ next' = [next EXCEPT ![c] = next[ListHead], ![ListHead] = c]
  /\ prev' = [prev EXCEPT ![c] = ListHead, ![next[ListHead]] = c]

\* shm_list_add_tail
ListAddTail(c) ==
  /\ next' = [next EXCEPT ![c] = ListHead, ![prev[ListHead]] = c]
  /\ prev' = [prev EXCEPT ![c] = prev[ListHead], ![ListHead] = c]

\* Changed form of ListDelete: only the forward link is taken out.
ListDeleteForward(c) ==
  /\ next' = [next EXCEPT ![prev[c]] = next[c], ![c] = c]
  /\ prev' = [prev EXCEPT ![c] = c]

\* shm_list_delete: an entry that is in no list points to itself.
ListDelete(c) ==
  IF next[c] = c THEN UNCHANGED <<prev, next>>
  ELSE /\ next' = [next EXCEPT ![prev[c]] = next[c], ![c] = c]
       /\ prev' = [prev EXCEPT ![next[c]] = prev[c], ![c] = c]

\* The list, oldest first, by next.
Listed ==
  LET Nth[n \in Nat] == IF n = 0 THEN ListHead ELSE next[Nth[n - 1]]
      InList == {n \in Cells : \A m \in 1..n : Nth[m] # ListHead}
  IN  [n \in 1..Cardinality(InList) |-> Nth[n]]
-----------------------------------------------------------------------------
Init ==
  /\ bucket = [b \in Buckets |-> Nil]
  /\ cell = [c \in Cells |-> [key |-> NoKey, data |-> NoKey, expired |-> FALSE, next |-> Nil]]
  /\ next = [c \in Cells \cup {ListHead} |-> c] /\ prev = [c \in Cells \cup {ListHead} |-> c]
  /\ count = 0
  /\ free = [s \in 1..Stripings |-> 0] /\ used = [s \in 1..Stripings |-> 0]
  /\ lock = "free" /\ pc = "idle" /\ op = "none" /\ ops = 0 /\ key = NoKey /\ config = NoConfig
  /\ new = Nil /\ old = Nil /\ at = ListHead /\ cleared = 0 /\ valid = FALSE
  /\ awaited = {} /\ get = [r \in Readers |-> NoGet]

\* The steps of a writer have no effect on a reader but through the table.
\* What they mean to the gets under way is recorded for the properties: their
\* key was there all the time; an entry of their bucket was freed; memory they
\* may look at became free without a sleep, by entries of the buckets touched.
\* A dump, which no sleep is long enough for, is spoilt by whatever is freed.
Observed(freed, touched) ==
  get' = [r \in Readers |->
            IF r \notin Active THEN get[r]
            ELSE IF r \in Dumping THEN [get[r] EXCEPT !.spoilt = @ \/ count' < count]
            ELSE LET k == get[r].key
                 IN  [get[r] EXCEPT
                        !.present = @ /\ k \in Present',
                        !.cut = @ \/ \E c \in freed : BucketOf[cell[c].key] = BucketOf[k],
                        !.spoilt = @ \/ BucketOf[k] \in touched]]
Unslept(cond) == IF cond THEN Buckets ELSE {}
-----------------------------------------------------------------------------
(* Operations under the lock                                               *)

\* Control of the operation passes to step p.
Goto(p) == pc' = p
EnterLoop(p) == /\ Goto(p)
                /\ at' = next[ListHead] /\ cleared' = 0 /\ valid' = FALSE

LeaveLoop == at' = ListHead /\ cleared' = 0 /\ valid' = FALSE /\ config' = NoConfig

Finish == /\ lock' = "free" /\ op' = "none" /\ key' = NoKey
          /\ new' = Nil /\ old' = Nil /\ LeaveLoop
          /\ Goto("idle")

Opened == ops >= Len(Opening)
Acquire(o, k) == /\ lock = "free" /\ lock' = "writer"
                 /\ ops < MaxOps /\ ops' = ops + 1
                 /\ ~Opened => o = "set" /\ k = Opening[ops + 1]
                 /\ op' = o /\ key' = k

\* shmcache_set: recycle in a table that is full, else allocate.
Set(k) == /\ Acquire("set", k)
          /\ config' \in Configs
          /\ IF count >= MaxKeyCount THEN EnterLoop("recycleKey")
             ELSE Goto("alloc") /\ UNCHANGED loop
          /\ UNCHANGED <<table, new, old, awaited, get>>

\* Changed form of Unlink: ht_next is set to 0 before the entry is out of
\* readers' way.
UnlinkCleared(c) == /\ bucket' = [bucket EXCEPT ![BucketOf[cell[c].key]] = IF @ = c THEN cell[c].next ELSE @]
                    /\ cell' = [p \in Cells |->
                         IF p = c THEN [cell[p] EXCEPT !.next = Nil]
                         ELSE IF cell[p].next = c THEN [cell[p] EXCEPT !.next = cell[c].next]
                         ELSE cell[p]]
                    /\ old' = c
                    /\ Goto("freeEntry")

\* shm_ht_delete_ex: the chain passes by the entry, which still leads on ...
Unlink(c) == /\ PointTo(BucketOf[cell[c].key], c, cell[c].next)
             /\ old' = c
             /\ Goto("freeEntry")

\* shmcache_delete
Delete(k) == /\ Acquire("delete", k)
             /\ Holds(k)
             /\ Unlink(EntryOf(k))
             /\ UNCHANGED <<prev, next, count, free, used, new, loop, awaited, config>>
             /\ Observed({}, {})

Emptied(c) == used[StripingOf(c)] = 1

\* Changed form of FreeValue: a striping starts again while entries are left.
FreeAlways(c) == /\ used' = [used EXCEPT ![StripingOf(c)] = @ - 1]
                 /\ free' = [free EXCEPT ![StripingOf(c)] = 0]

\* shm_value_allocator_free: an empty striping starts again at its base.
FreeValue(c) == /\ used' = [used EXCEPT ![StripingOf(c)] = @ - 1]
                /\ free' = IF Emptied(c) THEN [free EXCEPT ![StripingOf(c)] = 0] ELSE free

\* ... until shm_ht_free_entry has taken it out of the list and set ht_next.
FreeEntry(c) == /\ count' = count - 1
                /\ ListDelete(c)
                /\ FreeValue(c)
                /\ cell' = [cell EXCEPT ![c].next = Nil]

Deleted == /\ pc = "freeEntry" /\ op = "delete"
           /\ FreeEntry(old)
           /\ Finish
           /\ UNCHANGED <<bucket, awaited, ops>>
           /\ Observed({old}, {BucketOf[cell[old].key]})
-----------------------------------------------------------------------------
(* shm_value_allocator_recycle                                             *)

Recycling == pc \in {"recycleKey", "recycleMem"}
MayRecycle(c) == config.valid \/ cell[c].expired

Skip == /\ Recycling
        /\ at # ListHead /\ ~MayRecycle(at)
        /\ at' = next[at]
        /\ UNCHANGED <<table, lock, pc, op, key, new, old, cleared, valid, awaited, get, ops, config>>

Recycle == /\ Recycling
           /\ at # ListHead /\ MayRecycle(at)
           /\ at' = next[at]
           /\ valid' = (valid \/ ~cell[at].expired)
           /\ Unlink(at)
           /\ op' = pc
           /\ UNCHANGED <<prev, next, count, free, used, lock, ops, key, new, cleared, awaited, config>>
           /\ Observed({}, {})

\* Changed form of FallAsleep: nobody sleeps.
StayAwake(then) == Goto(then) /\ awaited' = {}

\* usleep: a get, with the use of its result, takes less time than the sleep,
\* so those that were under way are over when it ends.
FallAsleep(then) == /\ awaited' = IF Sleeps THEN Active \ Dumping ELSE {}
                    /\ Goto(then)

\* The entry is freed.  When that is enough, and it was valid entries that
\* went, other processes are given the time to finish reading them.
Enough(emptied) == IF op = "recycleKey" /\ config.once > 0
                   THEN cleared + 1 >= config.once ELSE emptied
Recycled == /\ pc = "freeEntry" /\ op \in {"recycleKey", "recycleMem"}
            /\ FreeEntry(old)
            /\ cleared' = cleared + 1
            /\ old' = Nil /\ op' = "set"
            /\ IF ~Enough(Emptied(old)) THEN Goto(op) /\ UNCHANGED awaited
               ELSE IF valid THEN FallAsleep("sleepAlloc")
               ELSE Goto("alloc") /\ UNCHANGED awaited
            /\ UNCHANGED <<bucket, lock, key, new, at, valid, ops, config>>
            /\ Observed({old}, Unslept(Enough(Emptied(old)) /\ ~(valid /\ Sleeps)))

\* ENOMEM, whatever was cleared, and no sleep.
RecycleFails == /\ Recycling
                /\ at = ListHead
                /\ Finish
                /\ UNCHANGED <<table, awaited, ops>>
                /\ Observed({}, Unslept(cleared > 0))

Awake == /\ pc \in {"sleepAlloc", "sleepEnd"}
         /\ awaited = {}
         /\ IF pc = "sleepAlloc" THEN Goto("alloc") /\ UNCHANGED <<lock, op, key, config, new, old, loop>>
            ELSE Finish
         /\ UNCHANGED <<table, awaited, get, ops>>
-----------------------------------------------------------------------------
(* shm_ht_set                                                              *)

Room(s) == free[s] < PerStriping

\* Stripings come into use one after the other; the one that serves is any
\* that has room.
Begun(s) == cell[(s - 1) * PerStriping + 1].key # NoKey
Serves(s) == Room(s) /\ \A t \in 1..(s - 1) : Begun(t)

\* Changed form of StoreNext: ht_next of an entry that replaces none is that of
\* an insertion at the head of the bucket, which Link does not do.
StoreNextFirst(c, o) ==
  cell' = [cell EXCEPT ![c].next = IF o = Nil THEN bucket[BucketOf[key]] ELSE cell[o].next]

\* The chain is searched for the key, and ht_next of the new entry stored.
StoreNext(c, o) == cell' = [cell EXCEPT ![c].next = IF o = Nil THEN Nil ELSE cell[o].next]

Alloc == /\ pc = "alloc"
         /\ \E s \in 1..Stripings :
              /\ Serves(s)
              /\ new' = (s - 1) * PerStriping + free[s] + 1
              /\ free' = [free EXCEPT ![s] = @ + 1]
              /\ used' = [used EXCEPT ![s] = @ + 1]
         /\ old' = IF Holds(key) THEN EntryOf(key) ELSE Nil
         /\ StoreNext(new', old')
         /\ Goto(IF Holds(key) THEN "freeOld" ELSE "storeKey")
         /\ LeaveLoop
         /\ UNCHANGED <<bucket, prev, next, count, lock, op, ops, key, awaited, get>>

\* After a recycling there is room, unless it was for a key only.
NoRoom == /\ pc = "alloc"
          /\ \A s \in 1..Stripings : ~Room(s)
          /\ EnterLoop("recycleMem")
          /\ UNCHANGED <<table, lock, op, ops, key, new, old, awaited, get, config>>

\* The entry that is replaced is freed while the chain still leads to it.
FreeOld == /\ pc = "freeOld"
           /\ FreeEntry(old)
           /\ Goto("storeKey")
           /\ UNCHANGED <<bucket, lock, op, key, new, old, loop, awaited, ops, config>>
           /\ Observed({old}, {BucketOf[cell[old].key]})

StoreKey == /\ pc = "storeKey"
            /\ cell' = [cell EXCEPT ![new].key = key]
            /\ Goto("storeValue")
            /\ UNCHANGED <<bucket, prev, next, count, free, used, lock, op, key, new, old,
                           loop, awaited, get, ops, config>>

StoreValue == /\ pc = "storeValue"
              /\ cell' = [cell EXCEPT ![new].data = key, ![new].expired = FALSE]
              /\ Goto("link")
              /\ UNCHANGED <<bucket, prev, next, count, free, used, lock, op, key, new, old,
                             loop, awaited, get, ops, config>>

\* In the place of the old entry, or at the tail of the chain.
Link == /\ pc = "link"
        /\ PointTo(BucketOf[key], old, new)
        /\ Goto("append")
        /\ UNCHANGED <<prev, next, count, free, used, lock, op, key, new, old, loop, awaited, ops, config>>
        /\ Observed({}, {})

AppendEntry == /\ pc = "append"
               /\ count' = count + 1
               /\ ListAddTail(new)
               /\ Finish
               /\ UNCHANGED <<bucket, cell, free, used, awaited, get, ops>>
-----------------------------------------------------------------------------
(* shm_ht_clear, by shmcache_clear and by the recovery from a killed writer *)

\* next of the entries is left as it is, and leads to the head.  So is prev, but
\* nobody reads it until the cell is in the list again.
ClearTable ==
  /\ bucket' = [b \in Buckets |-> Nil]
  /\ count' = 0
  /\ next' = [next EXCEPT ![ListHead] = ListHead]
  /\ prev' = [c \in DOMAIN prev |-> c]
  /\ free' = [s \in 1..Stripings |-> 0] /\ used' = [s \in 1..Stripings |-> 0]
  /\ UNCHANGED cell

Clear == /\ Acquire("clear", NoKey)
         /\ ClearTable
         /\ IF count > 0 THEN FallAsleep("sleepEnd") ELSE Goto("sleepEnd") /\ UNCHANGED awaited
         /\ UNCHANGED <<new, old, loop, config>>
         /\ Observed({}, Unslept(~Sleeps))

Crash == /\ lock = "writer" /\ pc # "crashed" /\ Opened
         /\ ops < MaxOps /\ ops' = ops + 1
         /\ Goto("crashed")
         /\ op' = "none" /\ key' = NoKey /\ new' = Nil /\ old' = Nil /\ LeaveLoop
         /\ awaited' = {}
         /\ UNCHANGED <<table, lock, get>>

Recover == /\ pc = "crashed"
           /\ ClearTable
           /\ IF count > 0 THEN FallAsleep("sleepEnd") ELSE Goto("sleepEnd") /\ UNCHANGED awaited
           /\ UNCHANGED <<lock, op, key, new, old, loop, ops, config>>
           /\ Observed({}, Unslept(~Sleeps \/ count = 0))

\* Time passes.
Expire(c) == /\ pc = "idle"
             /\ Opened /\ Contains(Listed, c) /\ cell[c].key \in Mortal /\ ~cell[c].expired
             /\ cell' = [cell EXCEPT ![c].expired = TRUE]
             /\ UNCHANGED <<bucket, prev, next, count, free, used, writer, get>>
-----------------------------------------------------------------------------
(* shmcache_get and the use of its result                                  *)

\* shm_ht_get begins with a load of the bucket.  A chain in which an entry is
\* being replaced is already cut.
BeingReplaced(k) == /\ pc \in {"storeKey", "storeValue", "link"} /\ old # Nil
                    /\ BucketOf[cell[old].key] = BucketOf[k]
BeginGet(r, k, locked) ==
  /\ get[r].pc = "idle" /\ Opened
  /\ locked => lock = "free"
  /\ lock' = IF locked THEN r ELSE lock
  /\ get' = [get EXCEPT ![r] = [NoGet EXCEPT
                !.pc = "walk", !.key = k, !.at = bucket[BucketOf[k]], !.locked = locked,
                !.present = Holds(k), !.cut = BeingReplaced(k), !.spoilt = BeingReplaced(k)]]
  /\ UNCHANGED <<table, pc, op, key, new, old, loop, awaited, ops, config>>

\* shmcache_get returns and, for a reader within the lock, unlocks.
Unlock(r) == lock' = IF lock = r THEN "free" ELSE lock
EndGet(r) == /\ get' = [get EXCEPT ![r] = [NoGet EXCEPT !.pc = "done"]]
             /\ awaited' = awaited \ {r}

Compare(r) ==
  /\ get[r].pc = "walk" /\ get[r].at # Nil
  /\ get' = [get EXCEPT ![r].pc = IF cell[get[r].at].key = get[r].key
                                  THEN "found" ELSE "step"]
  /\ UNCHANGED <<table, writer>>

Advance(r) ==
  /\ get[r].pc = "step"
  /\ get' = [get EXCEPT ![r].pc = "walk", ![r].at = cell[get[r].at].next]
  /\ UNCHANGED <<table, writer>>

\* ENOENT
Miss(r) ==
  /\ get[r].pc = "walk" /\ get[r].at = Nil
  /\ Unlock(r) /\ EndGet(r)
  /\ UNCHANGED <<table, pc, op, key, new, old, loop, ops, config>>

\* ETIMEDOUT
TimedOut(r) ==
  /\ get[r].pc = "found" /\ cell[get[r].at].expired
  /\ Unlock(r) /\ EndGet(r)
  /\ UNCHANGED <<table, pc, op, key, new, old, loop, ops, config>>

\* ShmCache::get of PHP with returnExpired goes on with the value.
ReturnExpired(r) ==
  /\ get[r].pc = "found" /\ cell[get[r].at].expired
  /\ get' = [get EXCEPT ![r].pc = "use"]
  /\ Unlock(r)
  /\ UNCHANGED <<table, pc, op, key, new, old, loop, awaited, ops, config>>

Found(r) ==
  /\ get[r].pc = "found" /\ ~cell[get[r].at].expired
  /\ get' = [get EXCEPT ![r].pc = "use"]
  /\ Unlock(r)
  /\ UNCHANGED <<table, pc, op, key, new, old, loop, awaited, ops, config>>

\* The caller copies or decodes what value->data points to.
Use(r) ==
  /\ get[r].pc = "use"
  /\ EndGet(r)
  /\ UNCHANGED <<table, lock, pc, op, key, new, old, loop, ops, config>>
-----------------------------------------------------------------------------
(* shm_ht_to_array_ex, by shmcache_dump                                    *)

RowCount(d) == LET rest == count - d.offset
               IN  IF d.count > 0 /\ d.count < rest THEN d.count ELSE rest

BeginDump(r, d, locked) ==
  /\ get[r].pc = "idle" /\ Opened
  /\ RowCount(d) > 0
  /\ locked => lock = "free"
  /\ lock' = IF locked THEN r ELSE lock
  /\ get' = [get EXCEPT ![r] = [NoGet EXCEPT
                !.pc = "entry", !.at = next[ListHead], !.locked = locked,
                !.match = d.match, !.skip = d.offset, !.rows = RowCount(d)]]
  /\ UNCHANGED <<table, pc, op, key, new, old, loop, awaited, ops, config>>

\* HT_KEY_MATCHED of an entry that is not expired
Matched(r) == ~cell[get[r].at].expired /\ cell[get[r].at].key \in get[r].match

\* An entry is passed by, or is to be copied.
Examine(r) ==
  /\ get[r].pc = "entry" /\ get[r].at # ListHead
  /\ get' = IF Matched(r) /\ get[r].skip = 0 THEN [get EXCEPT ![r].pc = "row"]
            ELSE [get EXCEPT ![r].at = next[get[r].at],
                             ![r].skip = IF Matched(r) THEN @ - 1 ELSE @]
  /\ UNCHANGED <<table, writer>>

CopyRow(r) ==
  /\ get[r].pc = "row" /\ get[r].rows > 1
  /\ get' = [get EXCEPT ![r].pc = "entry", ![r].at = next[get[r].at], ![r].rows = @ - 1]
  /\ UNCHANGED <<table, writer>>

\* The end of the list, the last row, or no memory for a row.
EndDump(r) ==
  /\ \/ get[r].pc = "entry" /\ get[r].at = ListHead
     \/ get[r].pc = "row"
  /\ Unlock(r) /\ EndGet(r)
  /\ UNCHANGED <<table, pc, op, key, new, old, loop, ops, config>>

\* Memory that was freed under a reader without a sleep may be filled by
\* entries that begin elsewhere: what it takes for a key, ht_next or list.next
\* is then any bytes.  It goes on, finds its key, or is killed.  Where it goes
\* makes no difference, for it may do the same there.
Lost(r) == get[r].spoilt /\ (get[r].cut \/ ~get[r].present)
Stray(r) ==
  /\ r \in Active /\ Lost(r) /\ get[r].at # Nil
  /\ \/ /\ \/ get[r].pc = "step" /\ get' = [get EXCEPT ![r].pc = "walk"]
           \/ get[r].pc = "walk" /\ get' = [get EXCEPT ![r].pc = "found"]
           \/ get[r].pc = "row" /\ get' = [get EXCEPT ![r].pc = "entry"]
        /\ UNCHANGED <<lock, awaited>>
     \/ Unlock(r) /\ EndGet(r)
  /\ UNCHANGED <<table, pc, op, key, new, old, loop, ops, config>>
-----------------------------------------------------------------------------
Reading(r) == \/ Compare(r) \/ Advance(r) \/ Miss(r) \/ TimedOut(r) \/ ReturnExpired(r)
              \/ Found(r) \/ Use(r) \/ Examine(r) \/ CopyRow(r) \/ EndDump(r)
              \/ Stray(r)

Writing == \/ Deleted \/ Skip \/ Recycle \/ Recycled \/ RecycleFails \/ Awake
           \/ Alloc \/ NoRoom \/ FreeOld \/ StoreKey \/ StoreValue \/ Link
           \/ AppendEntry \/ Recover

Next == \/ \E k \in Keys : Set(k) \/ Delete(k)
        \/ Clear \/ Writing \/ Crash
        \/ \E c \in Cells : Expire(c)
        \/ \E r \in Readers, k \in Keys, l \in WithinLock : BeginGet(r, k, l)
        \/ \E r \in Readers, d \in Dumps, l \in WithinLock : BeginDump(r, d, l)
        \/ \E r \in Readers : Reading(r)

Spec == Init /\ [][Next]_vars
\* Every process inside the library or using what it got runs on.
FairSpec == Spec /\ WF_vars(Writing) /\ \A r \in Readers : WF_vars(Reading(r))
-----------------------------------------------------------------------------
(* Properties                                                              *)

TypeOK ==
  /\ bucket \in [Buckets -> Cells \cup {Nil}]
  /\ cell \in [Cells -> [key : Keys \cup {NoKey}, data : Keys \cup {NoKey},
                         expired : BOOLEAN, next : Cells \cup {Nil}]]
  /\ next \in [Cells \cup {ListHead} -> Cells \cup {ListHead}]
  /\ prev \in [Cells \cup {ListHead} -> Cells \cup {ListHead}]
  /\ count \in 0..MaxKeyCount
  /\ free \in [1..Stripings -> 0..PerStriping]
  /\ used \in [1..Stripings -> 0..PerStriping]
  /\ lock \in {"free", "writer"} \cup Readers
  /\ new \in Cells \cup {Nil} /\ old \in Cells \cup {Nil} /\ at \in Cells \cup {ListHead}
  /\ awaited \subseteq Active

\* Whenever the lock is free, the chains and the list hold the same entries,
\* each key once and in its own bucket, and the list read backwards is the
\* list read forwards.
LinksAgree == lock = "free" =>
  /\ UNION {Chain(b) : b \in Buckets} = ToSet(Listed)
  /\ \A b \in Buckets : \A c \in Chain(b) :
       /\ BucketOf[cell[c].key] = b
       /\ cell[c].data = cell[c].key
       /\ \A d \in Chain(b) : cell[c].key = cell[d].key => c = d
  /\ \A c \in ToSet(Listed) \cup {ListHead} : prev[next[c]] = c
  /\ count = Len(Listed)

\* README: "add sleep time to avoid other processes reading dirty data when
\* recycle more than one valid (not expired) hash/KV entries".  With the sleep
\* the data that a caller copies is that of its own key, unless an entry was
\* deleted, replaced or recycled without a sleep while the get was under way.
\* A row of a dump has the key and the data of one entry unless an entry was
\* freed since the dump began.
NoDirtyRead == \A r \in Readers : ~get[r].spoilt =>
  /\ get[r].pc = "use" => cell[get[r].at].data = get[r].key
  /\ get[r].pc = "row" => cell[get[r].at].data = cell[get[r].at].key

\* A get misses a key that is in the table all the time only if an entry of
\* its bucket was freed meanwhile: ht_next = 0 ends the walk of a reader
\* that stands on it (shm_hashtable.c:173).
NoFalseMiss == \A r \in Readers :
  get[r].pc = "walk" /\ get[r].at = Nil /\ get[r].present => get[r].cut

\* Whatever is unlinked, freed and linked again under a reader, its walk ends
\* when the writers' operations are over: chains and list lead into no ring,
\* also for one that stands on an entry which has left them.  Nothing is said
\* of a get under which memory was freed without a sleep (Stray), nor of a dump
\* under which an entry was freed, whose link leads to itself (shm_list.h:104).
GetEnds == \A r \in Readers : r \in Active ~> r \notin Active \/ get[r].spoilt

\* The client's view: the entries in the order of the list.  A set takes
\* effect when it frees the entry that it replaces, else at the end.
Item(c) == [key |-> cell[c].key, val |-> 1, exp |-> IF cell[c].expired THEN -1 ELSE 0]
Items(l) == [i \in DOMAIN l |-> Item(l[i])]
Committed == pc \in {"storeKey", "storeValue", "link", "append"} /\ old # Nil
ItemSet == [key |-> key, val |-> 1, exp |-> 0]
Fifo == INSTANCE FifoCache WITH
          RecycleValidEntries <- \E g \in Configs : g.valid,
          MaxVal <- 1, SmallestLimit <- 1, now <- 1, up <- pc # "crashed",
          fifo <- IF pc = "crashed" THEN <<>>
                  ELSE Items(Listed)
                       \o (IF Committed THEN <<ItemSet>> ELSE <<>>),
          request <- IF op \in {"set", "recycleKey", "recycleMem"} /\ ~Committed
                     THEN <<ItemSet>> ELSE <<>>

\* The links implement the sequence of entries that ShmCache works with: this
\* is Fifo!Spec, for a step that leaves all variables of the mapping alone, as
\* those of readers do, stutters.
mapped == <<cell, next, pc, op, key, old>>
LinksImplementFifo == Fifo!Init /\ [][UNCHANGED mapped \/ Fifo!Next]_(Fifo!vars)
=============================================================================
