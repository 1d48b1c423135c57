# Verification of libshmcache

libshmcache is a cache of key/value entries in shared memory, used by many
processes at once. Writers exclude each other by a process-shared mutex, reads
are lockless by default, and a process that finds the mutex held by a dead
process clears the cache and takes the mutex over. This directory holds TLA+
models of its core, TLC configurations that check them on small instances, and
TLAPS proofs of theorems about them for every instance. `PROJECT.json` lists the
runs, the mutants that show each property can fail, the source lines of every
definition, the hazards of the code with the properties that cover them, and the
findings.

## Inventory

| Part | State | Operations |
|---|---|---|
| lock (`shm_lock.c`) | `memory->lock`: mutex and owner pid; the lock of a file; per process `clocks`, the suspected pid | `shm_lock`, `shm_unlock`, `shm_detect_deadlock`, `shm_lock_file` |
| object pool (`shm_object_pool.c`) | a ring of offsets, head, tail, and a scan position in each process | alloc/pop, free/push, first/next, remove, remove_by |
| hashtable (`shm_hashtable.c`) | buckets of chained entries, count | set, get, delete, set_expires, clear, to_array |
| FIFO list (`shm_list.h`) | doubly linked list through the entries, oldest first | add_tail, delete, first, next |
| striping allocators (`shm_striping_allocator.*`) | base, free, end, used, fail_times, in_which_pool, last_alloc_time | alloc (advance free), free (only lowers used), reset |
| value allocator (`shm_value_allocator.c`) | the queues doing and done of stripings, usage counters | alloc (first fit, discard, recycle, grow, rearrange), free, recycle |
| value segments (`shmopt.c`) | count of segments and stripings; per process what it has mapped | create, open, get_value_segment, remove_all |
| shared memory wrapper (`shm_op_wrapper.c`) | files or System V segments | map/create, exists, unmap, remove |
| initialisation (`shmcache.c`) | `memory->status`, sizes, `max_key_count` | `shmcache_init`, the check, the sizing arithmetic, configuration file |
| cache operations (`shmcache.c`) | statistics; everything above | set, get, delete, incr, set_ttl, set_expires, clear, remove_all, destroy, stats |
| tools, PHP and Java bindings, serializers, tsar module, configuration annotation | none of their own that the cache reads | convert arguments and call one operation |

How they interact: a cache operation takes the lock, calls the hashtable, which
calls the value allocator for memory; the allocator goes through the queues of
stripings, recycles the oldest entries through the hashtable's delete, asks
`shmopt` for a new segment, or rearranges: it copies all entries, clears the
table and calls the hashtable's set for each (which may recycle and rearrange in
turn). The lock's recovery calls the hashtable's clear. Processes share only the
memory and the lock file; each has its own mappings and its own configuration.

What is hard: a process may be killed at any instruction, with the mutex held
and the table half changed; several waiters suspect the same owner; processes
start at the same time or while another one initialises; a process works with a
stale view of how many segments there are, or knows an owner by a pid that may
be another's by now; accounting (`used`, the queues,
`in_which_pool`) must stay exact over arbitrary sequences of operations because
a striping is handed out again when its `used` reaches zero; and the nested,
fallible rearrangement runs on a cleared table.

What makes each part correct: the lock excludes live processes, robs only dead
ones and recovers (unless a kill falls where it cannot be seen); the pool is a
FIFO queue whose scan sees every object; entries never overlap and the counters
are exact; table, list and count agree; the cache drops valid entries only
oldest first and only if configured to; every operation ends; memory is
initialised once and is complete when `shmcache_init` returns.

## Modules

| Module | Models |
|---|---|
| `ObjectPool` | the ring and its iterator, operation by operation; `FifoPool` is the queue it implements |
| `ShmLock` | lock, unlock and recovery, one step per shared memory access or system call |
| `ShmConfig` | which configuration files are accepted, and the sizes and the layout computed from them, with the widths of their integers |
| `ShmSegments` | `shmcache_init`, creation and mapping of segments, by several processes |
| `ShmRemoval` | the names and files of the segments: removal and recreation while others are attached |
| `ShmTable` | buckets, chains and list store by store, the lockless get with the use of its result, and the dump |
| `ShmCache` | hashtable, list, value and striping allocators, segments under the lock |
| `FifoCache` | the client's view, which both `ShmTable` and `ShmCache` implement |
| `ShmLockProofs`, `ShmSegmentsProofs`, `ShmCacheProofs`, `ShmCacheMemoryProofs`, `ObjectPoolProofs`, `ShmConfigProofs`, `ShmRemovalProofs`, `ShmTableProofs` | theorems |
| `MC*` | values of constants for TLC; `MCShmSegments` puts `ShmSegments` and `ShmConfig` together, `MCShmCrowded` lets the clients of `ShmCache` fill its memory first |

Definitions whose comment starts with "Changed form of", and a few small ones
placed directly before the definition they vary, are deliberate errors that show
that a property can fail; no specification uses them.

**ObjectPool.** The slots `offsets`, `head`, `tail`, the iterator's `index`, what
the last call returned, and two history variables of the caller's scan. Remove
shifts the part of the ring ahead of the removed slot as the code
does, and the caller goes on scanning (`shm_value_allocator_do_alloc`). Both
callers of `shm_object_pool_remove` stand on an object that they have just found,
so its error returns (an empty ring, no index) are unreachable and left out.

**ShmLock.** `mutex`, `lockPid` (`lock.pid`), `fileOwner`, the local `clocks`
and `suspect` of each process, its `status` for `kill(pid, 0)` (a killed process
answers until it is reaped), and `dirty`: who left the table half changed.
`CtxPid` is the pid in each process's context: its own, or its parent's after a
fork. `CrashPoints` says where processes are killed. A pid is not given to a
new process: before a waiter's probe that would only put a recovery off, as a zombie
does, but after it a live owner could be robbed (see Findings). The runs and the
theorems are about systems that use no pid again between a probe and the comparison
that follows it.

**ShmConfig.** Pure operators over a record of the file's items. `Accepted` is
what `shmcache_load_config` checks (the items that are no sizes are one boolean),
`Config` what it stores: defaults, the correction of `segment_size`, an `int64_t`
stored in an `int`. `Segment`, `Striping`, `Areas` and `Layout` are
`shmcache_get_ht_segment_size` and the functions it calls: areas for the
stripings of all of `max_memory`, then the counts of a second pass over what the
hashtable segment leaves. `Checked` is the part `shmcache_check` compares. The
sizes of C types, of a page and of a megabyte are constants. The only action is
an edit of the file.

**ShmSegments.** The header of the memory as far as initialisation and growth
read it (`exists`, `status`, `layout`, `segCount`), the two locks, and for each
process its step, its flags, what `shm_exists` told it and how many segments it
has mapped. `LayoutOf` is what a process computes from its configuration,
`CheckedPart` what the check compares of it. The mutex may be taken over from a
killed owner, as ShmLock shows. A killed process starts again. An entry in a
segment that cannot be mapped has the address NULL, which the callers follow:
that is a kill, as is the first use of a segment whose mmap failed (the wrapper
reports success then). `CreateSegment` checks, maps and counts the segment in one
step: all of it is under one of the two locks, and a kill before the count leaves
what a kill before the step leaves, but for a file that nobody has counted and the
next creator finds.

**ShmRemoval.** `table` and `value` are the files that the names lead to, `gen`
and `map` those that each process has mapped, `ready` and `count` the header of
each file that ever was the hashtable segment. Users attach, initialise under the
file lock, create and open segments by name; the tool removes the hashtable
segment and then segment after segment by name, rereading the count, with any
removal or opening failing. Any process may end or be killed at each step; a file
without name and user is freed. Of the mutex only that one process of a
generation creates at a time is kept. Three history variables say which
generations were mapped further after their name was gone, which removals were
cut short, and which names were made again during a removal. `Counted` counts the
first segment and sets the status in one step; between the two only the holder of
the file lock reads either.

**ShmTable.** `bucket`, `cell` (key, data, expiry and `ht_next` of the entry in a
cell), `prev`/`next` of the head and of each entry, `count`, and `free`/`used` of
each striping. All entries have one size, so memory is reused in whole cells; as
real entries have many, a reader whose memory was freed without a sleep may meet
any bytes in place of a key or a link and go anywhere, be killed, or take what it
finds for its entry (`Stray`). A
writer makes one store, or one group of stores that no reader tells apart, per
step: a set allocates, stores `ht_next`, frees the old entry, stores key and
value, links and appends; a delete or a recycling unlinks and then frees; clear
and recovery empty the table. A writer is killed between any two of its steps
after the opening sets. A reader loads the bucket, compares, steps on, and uses the value after
`shmcache_get` returned, with or without the lock; a dump walks the list,
skipping and copying rows. The sleep lasts until the gets under way when it
began are over, which is what the option is for, and no longer. Of each get the
model records whether its key was there throughout, whether an entry of its
bucket was freed, and whether memory became free without a sleep.

**ShmCache.** As ShmLock admits one operation at a time, there is one program
counter. `ht` maps a key to its entry (striping, offset, value, expiry), the list
is a sequence of offsets, the two queues are sequences (their ring is ObjectPool,
including what remove returns), bytes are units. `shm_ht_set` takes a step per
entry recycled, striping tried, striping added, entry copied and entry set again,
with `stack` for its nested activations; delete, incr without a set, set_expires
and clear are single steps. A kill may follow each step, and the recovery then
clears the table. A get changes no state but statistics. Time advances between
operations only. The count, the initialisation and the queueing of a striping are
one step (a kill between them leaves an allocator of no room, in which no entry is
ever put). `SizeOf`, `MaxKeyValueSize`, the limits and policies are constants, and
so is `SegmentSlack`, what a segment has beyond its stripings, which counts as
free when a rearrangement is considered; processes may differ in `max_value_size` (`ValueLimits`), which
`shmcache_check` does not compare.

**FifoCache.** Entries in the order they were set and the set being served. A
set succeeds or fails; on the way expired entries, and with
`recycle_valid_entries` the oldest one, may be evicted. `Lose` is the one other
way to lose entries: a rearrangement, run by a process whose `max_value_size` is
too small for one of them, drops them all. One that runs out of room drops them
too: that is `OutOfRoom` of `ShmCache`, no step of the FIFO cache, and
`FifoUnlessOutOfRoom` is the refinement with that step beside it. In the
refinement mapping of ShmCache the entries that a rearrangement has copied and not
yet set again are still held; in that of ShmTable a set takes effect when the entry
it replaces is freed, else when the new one is in the list.

## Runs

| Run | Shows | Bounds |
|---|---|---|
| `pool` | no object twice, a scan misses none, and the ring is a FIFO queue | four slots, so three objects at most: full, empty, wrapped and removed in the middle |
| `lock` | exclusion, no torn table, only the dead lose the mutex, and service goes on unless Orphaned | three processes: an owner, a recoverer and a second waiter with the same suspicion; killed anywhere; one failure of the file lock; detection at the first poll, which only makes more behaviours possible |
| `lock_window` | violation of AutoUnlock | two processes |
| `lock_fork` | violation of MutualExclusion with an inherited context | a child, its parent and a waiter |
| `segments` | layouts fit, stay within `max_memory`, hold every value and number every segment and striping; initialised once, one creator, usable when ready, checked memory agrees, file lock served | 35,424 files of all sizes and the rejected ones, then two processes of different layouts with all four combinations of flags, at most three segments, two by min_memory, so that both initialisation and a set create one |
| `segments_check` | violation of AgreedLayout | two callers of `shmcache_init_from_file` whose `max_memory` differs by one |
| `cache_fifo` | NoOverlap, UsedExact, IndexesAgree, QueuesSound and the implementation of FifoCache, with recycle_valid_entries | three keys, two sizes, two stripings of three units in two segments, two entries at most, three seconds |
| `cache_expire` | the same (MemorySound is their conjunction) without recycle_valid_entries, with expiration, avg_key_ttl and recycle_key_once = 2 | stripings of three units, two units of slack in each segment; a kill in the middle of creating the second leaves one striping, within which a rearrangement makes room |
| `cache_crowded` | every operation ends, MemorySound and FifoUnlessOutOfRoom with valid entries only, where room is made by rearranging, which fails for an entry that is too large or for want of room | see below |
| `cache_lost` | violation of NoStripingLost | three keys, two stripings in one segment |
| `table` | chains and list agree and implement FifoCache; readers end, and read another's data or miss an entry only in the cases named | see below |
| `removal` | generations keep to their own files; a removal in which no name resisted and that reports success removed everything | three processes, two segments, two removals; four files each, one more than can be in use |

The bounds are the smallest at which each branch of the code is taken: between
them the passing runs take every action. For every invariant that a run checks, the
theorems below remove the bounds. Keys are symmetric in
`cache_fifo`, `cache_expire` and `cache_lost`, processes in `removal`.

*Sizes of ShmConfig.* A page is 4, a megabyte 8, the unit of striping 16, an
`int` at most 31, a `short` at most 3, and three segments stand for 255. The
proportions that matter are kept: a page is larger than the number of segments
(the correction of `segment_size` is rounded down, the size then aligned up), an
entry's header is small for a striping, all limits are passed by some file. The
assumption of the module states them.

*Bounds of cache_crowded.* One segment of five stripings of five units, three
units of slack, nine keys, sizes one to four, processes of two `max_value_size`s,
no recycling of valid entries. Every behaviour begins with one of two openings; then
any two requests, and kills at each step, follow. `Mixed` leaves a single unit and a
hole in the first striping, a two and a three in each of the others, all twos older
than all threes (pairs of twos, deleted and set again one by one from the last
striping to the first, make each two go to a striping of its own). What is free
passes the check of `shm_value_allocator_try_rearrange`; set again in the order of the
list two twos share a striping and every three needs one of its own, one too many, so
that a set within the rearrangement goes through the queues, recycles in vain and
rearranges in turn. Activations nest three deep. `Large` leaves a four in each
striping, which a process of the smaller `max_value_size` cannot set again. (A set
within a rearrangement never grows the memory: no rearrangement begins before the
last segment is there.)

*Bounds of ShmTable.* Three keys of which two collide, two stripings of two
cells, one reader. Every behaviour begins with the sets of `Opening`, which leave
a chain of two entries one of which was replaced; then `MaxOps` allows three more
operations or kills, enough to free, reuse and relink the cells a reader stands
on and to kill a writer that does so. A reader gets or dumps once: a second reader
could only act through the sleep, as readers change nothing in the table.
Two configurations of writers recycle in the two ways.

**Fairness.** `ShmLock`: each live process inside the library takes its next step
(it spins and never waits for good), and killed processes are reaped; nothing is
assumed about who wins a trylock, so only "somebody is served" is claimed.
`ShmSegments`: each process takes its next step, and `F_SETLKW` serves each
waiter (strong fairness of `LockFile`). `ShmCache`: the running operation takes
its next step. `ShmTable`: the writer inside the library and each reader take
their next step. No call and no kill is ever assumed to happen. GetEnds is about
readers whose memory was not freed without a sleep (`spoilt`); a reader lost in
reused memory may go round for ever. `MaxOps` bounds the operations of the writers:
under writers that go on for ever a reader may be carried along for ever.

## Findings

1. *lock_window.* `lock.pid` is stored after the mutex is taken, erased before it
   is released, and erased early by the recovery. A process killed in one of
   these windows leaves a locked mutex that names nobody, and nobody recovers.
   `lock` shows that this (Orphaned) is the only way.
2. *lock_fork.* A child that goes on with its parent's context signs with the
   parent's pid; after the parent's death its lock is taken from it while it works.
3. *cache_lost.* `shm_object_pool_remove` returns the neighbour of the object it
   removes, so a striping discarded in the middle of doing leaves both queues.
4. *segments_check.* The offsets of the queues and allocators come from the first
   pass of the sizing, what `shmcache_check` compares from the second. A process
   whose `max_memory` was changed can pass the check and compute other offsets.

Visible in the conditions of the properties and of the models rather than in a run
of their own, although a document says otherwise:

- A rearrangement may run out of room and drop all entries, valid as they are, with
  `recycle_valid_entries` off, of which `conf/libshmcache.conf:43` says "if recycle
  valid entries by FIFO". The reserve for which it asks (a largest entry,
  `discard_memory_size` per striping and one striping) does not bound what first fit
  in the order of the list wastes. `cache_crowded` takes this step (`OutOfRoom`,
  `shm_value_allocator.c:251`): with ImplementsFifoCache as its property TLC finds it
  violated. The run, and `CacheRefinesFifo` for all configurations, show that besides
  `Lose` it is the only way to lose valid entries out of order.
- `shmcache_remove_all` may return 0, and the tool print that all segments are removed,
  although a removal failed: opening the next segment overwrites the result
  (`shmopt.c:149`, against `shmcache.h:168` and `shmcache_remove_all.c:75`). The
  premise `~failed` of RemovedMeansGone is there for it.
- The recovery knows an owner by its pid. When the pid of a gone owner is given to a
  new process after a waiter's probe, the mutex has become free, and the new process
  owns it when the first waiter compares (`shm_lock.c:106`), its lock is taken
  from it while it works, which is not what `README.md:22` calls a lock "caused by
  other crushed process". A step of ShmLock that revives the pid of a process that is
  gone makes MutualExclusion fail.

Contradicted by no document, and visible in the same way:

- A get without the lock can miss a key that is there all the time, when an entry
  ahead of it in the chain is freed (`cut` in NoFalseMiss, `shm_hashtable.c:173`),
  and read another's data after a delete or an overwrite, which do not sleep, or
  after a recycling that failed (`spoilt` in NoDirtyRead).
- A get that stands on such memory when it is filled again takes any bytes for a
  link, and may go round for ever or be killed (`Stray`, `spoilt` in GetEnds).
- A dump without the lock that stands on an entry while it is deleted stays there
  (`spoilt` in GetEnds, `shm_list.h:104`).
- Whoever still has removed memory mapped and maps more segments, or creates one,
  gets files of, or leaves files to, the next generation (`late` in FilesApart).
- A rearrangement by a process with a smaller `max_value_size` loses all entries
  (`Lose`); `max_value_size` and `hash_function` are not compared by the check.
- A value may fit into no striping if twice `max_value_size` is no `int`, and
  stripings may outnumber a `short` above 32,768 megabytes (the conditions of
  EveryValueFits and StripingsTold).

## Proofs

All theorems are of the form Spec => [](...) or Spec => [][...]_vars, from the
named assumptions on the constants only, unless stated.

*ShmLockProofs* (any set of processes, any crash points, any detection
threshold). `TypeCorrect`; and, assuming that each process initialised its own
context (OwnPids), `Exclusion`, `TornTableCleared` and `RobsTheDead`. Exclusion
is not inductive: that a recoverer may enter rests on its suspect being gone, on
`lock.pid` naming only the owner of the mutex, on recoveries being serialised by
the file lock, and on a dead owner staying the owner until the recoverer
releases the mutex. These are the conjuncts of the invariant.

*ShmSegmentsProofs* (any number of processes, configurations and segments).
`TypeCorrect`, `CreatesAlone`, `InitSucceeds`, `CheckHolds` and `NeverAgain`. The
invariant says which steps are under which lock, that whoever initialises has
status INIT before it and whoever uses the mutex has NORMAL, that nobody has
mapped more than is counted (nothing at all before NORMAL), that min_memory is
reached before the lock is released, and that a passed check stays true. That a
reset of the mutex disturbs nobody, and that the first segment, created under
the file lock, is not created together with another one, follows from the phases.

*ShmCacheProofs* (every configuration). `TypeCorrect`: free never leaves the
striping, the queues hold stripings that exist, and no striping is numbered past
the allocators' array, also after kills in the middle of creating a segment. The
types are not inductive: the array bound needs that a segment being created still
has room for the stripings it is to add, and that entries in the table lie in
existing stripings, because an emptied striping goes back to the queue.

*ShmCacheMemoryProofs* (every configuration, every size of the entries).
`EntriesApart`, `SizesExact`, `IndexesSound`, `QueuesCorrect`, and `MemoryCorrect`,
their conjunction. One invariant, SoundInv, proves them together, for none is
inductive alone: that a striping whose used size fell to zero may start again at
its base needs that used is exactly what its entries occupy; that in turn needs
that entries are disjoint, that no two keys share an entry, and that the list
names each entry of the table once, because recycling walks the list and deletes
from the table. SpaceInv says where entries lie, IndexInv that the list has the
offset of every entry of the table once, and RoomInv why count never passes
max_key_count: a rearrangement sets keys again within the set that called for it,
so the keys in the table together with those still to be set again must leave
room for one more. Sizes are cardinalities of sets of units, so that freeing is
the removal of a subset.

The second half is the refinement of `FifoCache`. `CacheRefinesFifo`: in every
configuration the client's view starts as, and takes the steps of, the FIFO cache,
or takes the one other step, `OutOfRoom` (`FifoUnlessOutOfRoom`).
`RecyclersRefineFifo`: with
`recycle_valid_entries` there is no such step, and `Spec` implies
`ImplementsFifoCache`. RefineInv is needed besides SoundInv: FrameInv says what the
activations of `shm_ht_set` hold at each place of control; ScanInv that what a scan
of the list has passed by is valid and spared, so that with `recycle_valid_entries`
the entry recycled is the oldest one, and that a rearrangement has copied exactly
what it passed, so that clearing the table then loses nothing; ApartInv that no key
is both in the table and still to be set again, so that setting it again appends.
The lemmas are about two sequences: Contents, the entries in the order of the list
(one more, one less, or one with another expiration per step), and Pending, what
the nested activations still have to set, a recursive function over the stack,
for which the step from a stack to one with another frame is proved from its
least counterexample.

`OutOfRoom` is a step that the code takes: `cache_crowded` reaches it with five
stripings.

*ObjectPoolProofs* (every capacity and every set of objects). `TypeCorrect`,
`NeverTwice`, `ScanComplete` and `RingRefinesFifo`, the refinement of `FifoPool`:
the initial states agree, and every step of head, tail and slots is a step of the
sequence that the ring contains, or leaves it alone. The work is the geometry of
the ring (the distance of a slot from the head, modulo the capacity, is its place
in the queue, also after a removal shifts the others towards the head or the
tail); the scan's invariant says that what was seen is what was queued up to the
iterator.

*ShmConfigProofs* (every configuration file and all the code's sizes and limits).
`AreasAlwaysFit`, `MemoryAlwaysBounded`, `SegmentsAlwaysTold`, `ValuesAlwaysFit` and
`StripingsAlwaysTold`. There is nothing to induct over, the file may be any file
at any time; the lemmas are about rounding up, rounding down and division in the
two passes of the sizing: the second has less memory and the same striping size,
so it never has more segments or stripings than the first laid out, and what the
correction of segment_size rounds down is less than a page. The assumption that
MaxIndex (255) is at most ShortMax (32767) was found to be needed here.

*ShmRemovalProofs* (any number of processes, segments and removals; the sets are
finite, and there are more files than processes, so a new one is always found).
`GenerationsApart`, `OneFilePerSegment` and `SuccessMeansGone`. RemovalInv says, beside
which step is under the file lock and what is mapped at each, that the generation
that gets the name while a removal is going on waits for its end without a value
file (FreshInv); that processes of the named generation have the named files
(NamedInv), and those of a generation that lost its name have none of them but
those that its removal still has before it (LostInv). The files of a new
generation are therefore new to all others.

*ShmTableProofs* (any keys and buckets, any number of cells and readers, all
configurations of writers; the only assumption about names is that no reader is
called `"free"` or `"writer"`, the other values of `lock`). `TypeCorrect`,
`LinksCorrect`, `CleanReads` and `NoLostKey`, and the refinement of `FifoCache`:
`LinksRefineFifo`, step by step as the run checks it, and `LinksAreFifo`, that
`Spec` implies `Fifo!Spec`.

- *Links.* Chains and list are recursive functions of the links. The proofs speak
  of `Reach`, the least set of cells that contains the first one and is closed
  under the link, and of `Line`: each cell is met once, from one cell only, and
  the walk ends. The lemmas at the beginning say what one store to a link does to
  both, and relate them to the recursive functions (`AllNumbers` is induction on
  a set of naturals, which needs no operator as parameter).
- *Writers.* WriterInv: the list is a line, `prev` and `next` are inverse,
  `count` is its size (ListInv); each chain is a line, of keys of its own bucket,
  each once (ChainInv); chains and list differ by the one entry that the step
  under way has in one of them only (AgreeInv); `used` of a striping is the
  number of its cells in use and `free` is past all of them (SpaceInv). While a
  set replaces an entry, `ht_next` of the old one is already 0 and the chain is
  cut; ChainInv holds of `Virtual`, the links as they were before, with `ht_next`
  of the new entry in the place of the old one's (ReplaceInv). A crash leaves
  only that what can still be reached in a chain is whole, which is all that a
  reader needs until the recovery.
- *Readers.* ReaderInv says where a get may stand. While nothing is spoilt it is
  on the chain of its bucket, on the entry that a writer has just unlinked
  there, or on one that was freed and whose memory the writer will not use
  before the get has ended (Guarded: the sleep waits for it, or a recycling that
  has freed it will sleep). While nothing of its bucket is cut, a key that was
  there throughout is ahead of it. A dump that is not spoilt is on the list. Of
  one that is lost (`Stray`) it says only that the properties exempt it.
- *Refinement.* ServeInv adds which entry is recycled: the first of the list, or
  one that has expired, also in the middle of a pass over the list that skips
  others. A deletion is then RemoveAt of the sequence and the rest follows from
  the shape of the list. Expiry, kills and recoveries are steps of `FifoCache`,
  and the steps of readers stutter.

Only model-checked: liveness (`AutoUnlockUnlessOrphaned`, `FileLockServed`,
`OperationEnds`, `GetEnds`: the prover handles neither fairness nor ENABLED), the
implementation of `FifoCache` by `ShmCache` without `recycle_valid_entries` and
without `OutOfRoom` on the instance of `cache_expire`, whose two stripings cannot run
out of room so, and what the violation runs show. `OperationEnds` is checked on
`cache_crowded` only. The project uses no RECURSIVE operator.

## Plan

All parts that keep state of the cache are modelled, every invariant that a run
checks is proved, and so are the refinements, up to `OutOfRoom`. What would be left
is the reserve that shm_value_allocator_try_rearrange had to ask for, in terms of
the sizes of the entries, to exclude `OutOfRoom`.

## Not modelled

- Statistics: no decision of the code reads them, and what is counted without the
  lock is a single atomic instruction. They, and the stats tool and the tsar
  module that print them, would add counters and no behaviour.
- The annotation for other programs' ini files: it initialises a context, gets one
  key and copies its value, as the modelled get and its use do. The parsing of
  the cache's own configuration: `ShmConfig` starts from its items.
- The other tools, and the other methods of the PHP and Java bindings: they
  convert arguments, call one operation and convert its result. The get of both,
  whose use of the value outlives the lock, and the tools that remove and dump
  are modelled. Serializers are functions on bytes.
- Threads that share one context, as in Java's `getInstance`: every context is
  used by one thread at a time in the models.
- Processes with different hash functions; reuse of a pid (see Findings); a segment
  that exists but cannot be mapped in the middle of an allocation; what System V segments do
  differently from files.
- Kills between the count, the initialisation and the queueing of one striping
  (`shmopt.c:90-100`), and between the creation and the count of a segment, which are
  one step each in `ShmCache` and `ShmSegments` (see there).
