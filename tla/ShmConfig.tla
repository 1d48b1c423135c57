------------------------------ MODULE ShmConfig ------------------------------
(***************************************************************************)
(* What a configuration file means: which files shmcache_load_config       *)
(* accepts and what it makes of them, and the sizes and the layout of the  *)
(* shared memory that shmcache_get_ht_segment_size computes from that.     *)
(*                                                                         *)
(* The layout is computed in two passes.  The areas of the hashtable       *)
(* segment are laid out for the stripings of all of max_memory; then the   *)
(* size of that segment is subtracted, and the stripings counted again.    *)
(*                                                                         *)
(* The sizes of C types, pages and the literals of the code are parameters *)
(* so that the limits of the types are reached with small numbers.         *)
(***************************************************************************)
EXTENDS Integers

CONSTANTS
  PageSize,       \* getpagesize()
  Mega,           \* 1024 * 1024
  StripingUnit,   \* 128 * 1024 * 1024: one mega of striping for each of segment
  MaxIndex,       \* 255: the segments that the low byte of proj_id tells apart
  IntMax,         \* the largest int
  ShortMax,       \* the largest short
  HeaderSize,     \* sizeof(struct shm_memory_info)
  WordSize,       \* sizeof(int64_t)
  AllocatorSize,  \* sizeof(struct shm_striping_allocator)
  EntrySize,      \* sizeof(struct shm_hash_entry) + SHMCACHE_MAX_KEY_SIZE
  Capacity(_),    \* shm_ht_get_capacity
  Files,          \* the configuration files considered
  Absent,         \* an item that is not in the file
  Malformed       \* an item that parse_bytes cannot read

VARIABLE file     \* the configuration file

Bounds == {PageSize, Mega, StripingUnit, MaxIndex, IntMax, ShortMax, HeaderSize, WordSize,
           AllocatorSize, EntrySize}

\* Items of a file: those about memory, and whether all others (type,
\* filename, hash_function, discard_memory_size and the intervals of the lock)
\* pass their checks.
Items == Int \cup {Absent, Malformed}
File == [max_memory : Items, min_memory : Items, segment_size : Items,
         max_key_count : Int, max_value_size : Items, others : BOOLEAN]

\* The low byte of proj_id, and a page, are enough for the correction of a
\* segment_size that is too small; EntrySize is small for a striping; there
\* are fewer segments than a short counts.
ASSUME ConfigAssumption ==
  /\ Bounds \subseteq Nat \ {0}
  /\ PageSize > MaxIndex /\ MaxIndex <= ShortMax
  /\ Mega >= 2 * EntrySize /\ Mega <= IntMax
  /\ \A f \in Files : Capacity(f.max_key_count + 1) \in Nat
  /\ Absent \notin Int /\ Malformed \notin Int
  /\ Files \subseteq File
-----------------------------------------------------------------------------
(* shmcache_load_config                                                    *)

\* shmcache_parse_bytes
BytesOK(v) == v \notin {Absent, Malformed} /\ v > 0

\* shmcache_parse_bytes_with_default: also what cannot be read is the default,
\* for the result is overwritten by that of the next item.
BytesOr(v, default) == IF v \in {Absent, Malformed} THEN default ELSE v

\* An int64_t stored in an int.
ToInt(x) == ((x + IntMax + 1) % (2 * (IntMax + 1))) - (IntMax + 1)

\* Changed form of SegmentSize: the file's size is taken as it is.
SegmentSizeGiven(f) == f.segment_size

\* A size that would make too many segments is corrected.
SegmentSize(f) ==
  IF f.max_memory \div f.segment_size > MaxIndex THEN f.max_memory \div MaxIndex
  ELSE f.segment_size

Accepted(f) == /\ BytesOK(f.max_memory)
               /\ BytesOK(f.segment_size)
               /\ f.max_key_count > 0
               /\ BytesOK(f.max_value_size)
               /\ f.others

Config(f) == [max_memory |-> f.max_memory,
              min_memory |-> BytesOr(f.min_memory, 0),
              segment_size |-> SegmentSize(f),
              max_key_count |-> f.max_key_count,
              max_value_size |-> ToInt(f.max_value_size)]
-----------------------------------------------------------------------------
(* Sizes and counts                                                        *)

\* SHMCACE_MEM_ALIGN
Align(x) == ((x + PageSize - 1) \div PageSize) * PageSize
\* A quotient in C, which is rounded to 0.
Quotient(a, b) == IF a >= 0 THEN a \div b ELSE -((-a) \div b)

\* get_value_segment_count_size
Segment(config, memory) ==
  LET size == Align(config.segment_size)
      n == Quotient(memory, size)
  IN  [size |-> size, max |-> IF n = 0 THEN 1 ELSE n]

\* mb_count
MegaCount(size) == LET n == size \div StripingUnit
                   IN  CASE n = 0 -> 1
                         [] n > 8 -> 8
                         [] n = 3 -> 2
                         [] n \in 5..7 -> 4
                         [] OTHER -> n

\* Changed form of StripingSize: one value fills a striping.
StripingSizeOnce(config, segment) ==
  LET values == ToInt(config.max_value_size)
      megas == MegaCount(segment.size) * Mega
      size == Align(IF megas < values THEN values ELSE megas)
  IN  IF size > segment.size THEN segment.size ELSE size

\* Changed form of StripingSize: the smaller of the two sizes is taken.
StripingSizeSmaller(config, segment) ==
  LET values == ToInt(config.max_value_size * 2)
      megas == MegaCount(segment.size) * Mega
      size == Align(IF values \in 1..megas THEN values ELSE megas)
  IN  IF size > segment.size THEN segment.size ELSE size

\* get_value_striping_count_size: room for two of the largest values, which
\* are an int.
StripingSize(config, segment) ==
  LET values == ToInt(config.max_value_size * 2)
      megas == MegaCount(segment.size) * Mega
      size == Align(IF megas < values THEN values ELSE megas)
  IN  IF size > segment.size THEN segment.size ELSE size

Striping(config, segment) ==
  LET size == StripingSize(config, segment)
  IN  [size |-> size, max |-> segment.max * (segment.size \div size)]
-----------------------------------------------------------------------------
(* The layout of the hashtable segment                                     *)

\* shm_object_pool_get_queue_memory_size, shm_ht_get_memory_size
Words(n) == WordSize * n

\* Offsets for so many stripings.
Areas(config, stripings) ==
  LET buckets == HeaderSize
      pool == buckets + Words(Capacity(config.max_key_count + 1))
      doing == pool + Words(config.max_key_count + 1)
      done == doing + Words(stripings + 1)
      objects == done + Words(stripings + 1)
  IN  [buckets |-> buckets, pool |-> pool, doing |-> doing, done |-> done,
       objects |-> objects, size |-> objects + AllocatorSize * stripings]

\* Changed form of Layout: the passes are exchanged.
LayoutOnePass(config) ==
  LET wholeSegment == Segment(config, config.max_memory)
      areas == Areas(config, Striping(config, wholeSegment).max)
      segment == Segment(config, config.max_memory - areas.size)
  IN  [areas |-> Areas(config, Striping(config, segment).max), segment |-> wholeSegment,
       striping |-> Striping(config, wholeSegment), max_key_count |-> config.max_key_count]

\* shmcache_get_ht_segment_size
Layout(config) ==
  LET wholeSegment == Segment(config, config.max_memory)
      areas == Areas(config, Striping(config, wholeSegment).max)
      segment == Segment(config, config.max_memory - areas.size)
  IN  [areas |-> areas, segment |-> segment, striping |-> Striping(config, segment),
       max_key_count |-> config.max_key_count]

\* What shmcache_check compares of it.
Checked(layout) == [segment |-> layout.segment, striping |-> layout.striping,
                    max_key_count |-> layout.max_key_count]

\* The file is edited before a process reads it.
FileInit == file \in Files
Edit(new) == file' = new
-----------------------------------------------------------------------------
(* Properties, of a file that is accepted                                  *)

TheConfig == Config(file)
TheLayout == Layout(TheConfig)

\* The areas were laid out for the stripings of the first pass; they hold the
\* queues and the allocators of those of the second, which shmcache_do_init
\* and shmopt_create_value_segment put there.
FitsAreas(layout) ==
  /\ layout.areas.doing + Words(layout.striping.max + 1) <= layout.areas.done
  /\ layout.areas.done + Words(layout.striping.max + 1) <= layout.areas.objects
  /\ layout.areas.objects + AllocatorSize * layout.striping.max <= layout.areas.size
AreasFit == Accepted(file) => FitsAreas(TheLayout)

\* All segments together stay within max_memory, unless one value segment is
\* already too much.
WithinMemory(config, layout) ==
  layout.segment.max > 1 =>
    layout.areas.size + layout.segment.max * layout.segment.size <= config.max_memory
MemoryBounded == Accepted(file) => WithinMemory(TheConfig, TheLayout)

\* The keys of the segments (ftok with the low byte of proj_id) are different:
\* there are never more than MaxIndex value segments, although the corrected
\* segment_size is rounded down (shmcache.c:623).
SegmentsTold == Accepted(file) => TheLayout.segment.max <= MaxIndex

\* A value that shm_ht_set accepts fits into an empty striping, if it fits into
\* a segment and if twice max_value_size is an int: shm_value_allocator_alloc
\* finds room for it once enough entries are recycled.
HoldsEntry(config, layout) ==
  LET entry == EntrySize + config.max_value_size
  IN  entry <= layout.segment.size /\ config.max_value_size * 2 <= IntMax
        => entry <= layout.striping.size
EveryValueFits == Accepted(file) => HoldsEntry(TheConfig, TheLayout)

\* index.striping is a short: striping numbers are told apart as long as there
\* is a mega of memory for each short (shmcache_types.h:88).
NumbersStripings(config, layout) ==
  config.max_memory <= Mega * (ShortMax + 1) /\ layout.segment.size <= config.max_memory
    => layout.striping.max - 1 <= ShortMax
StripingsTold == Accepted(file) => NumbersStripings(TheConfig, TheLayout)
=============================================================================
