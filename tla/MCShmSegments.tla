---------------------------- MODULE MCShmSegments ----------------------------
(* Model checking ShmSegments with the layouts of ShmConfig.               *)
EXTENDS ShmSegments, ShmConfig

CONSTANTS p1, p2, a, b

\* A table of the primes is external; here there is a bucket for every key.
PrimeCapacity(n) == n

MemoryItems == 1..120 \cup {144, 200, 300}
SegmentItems == {1, 2, 3, 5, 8, 9, 12, 16, 17, 24, 32, 40, 48, 64, 80, 100, 150, 200}
ManyFiles ==
  [max_memory : MemoryItems, min_memory : {0}, segment_size : SegmentItems,
   max_key_count : {1, 3}, max_value_size : {1, 2, 7, 15, 16, 31, 33, 70},
   others : {TRUE}]
  \cup
  [max_memory : {Absent, -1, 96}, min_memory : {Absent, Malformed, 40},
   segment_size : {Malformed, 0, 32}, max_key_count : {0, 3},
   max_value_size : {Absent, 4}, others : BOOLEAN]

StandardFile(memory) ==
  [max_memory |-> memory, min_memory |-> 40, segment_size |-> 32,
   max_key_count |-> 3, max_value_size |-> 4, others |-> TRUE]
Standard == StandardFile(96)
LayoutFor(memory) == Layout(Config(StandardFile(memory)))
CommonLimit == LayoutFor(96).segment.max

\* Any file can be there before the first process starts; the processes of the
\* run start with this one.
MCInit == Init /\ FileInit
MCNext == \/ file = Standard /\ Next /\ UNCHANGED file
          \/ file # Standard /\ Edit(Standard) /\ UNCHANGED vars
MCSpec == MCInit /\ [][MCNext]_<<vars, file>> /\ Fairness

\* Two processes of layouts that the check tells apart.
TheirOwn == [p \in Proc |-> IF p = p1 THEN a ELSE b]
Whole(l) == l

\* Two processes whose files differ in max_memory, which was changed from just
\* below a number of segments to that number.
ChangedMemory == [p \in Proc |-> IF p = p1 THEN LayoutFor(95) ELSE LayoutFor(96)]
ChangedSpec == Init /\ file = Standard /\ [][MCNext]_<<vars, file>>
TheirLayouts == {LayoutOf[p] : p \in Proc}

\* shmcache_init_from_file.
Initialisers == {[create |-> TRUE, check |-> TRUE]}

\* Also the tools, which do not create, some of which do not check, and
\* creation without a check, the remaining choice of the interface.
AllCallers == [create : BOOLEAN, check : BOOLEAN]
=============================================================================
