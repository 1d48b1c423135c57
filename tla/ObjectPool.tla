------------------------------ MODULE ObjectPool ------------------------------
(***************************************************************************)
(* The ring queue of striping allocators kept in shared memory             *)
(* (shm_object_pool.c, shm_object_pool.h).  The value allocator owns two   *)
(* of them, doing and done; both have room for every striping allocator.   *)
(*                                                                         *)
(* An object is the offset of a striping allocator, numbered from 1.  An   *)
(* operation runs under the cache lock, so each one is a single action.    *)
(* The variable cur is the local variable of the caller's scan loop, the   *)
(* offset the last shm_object_pool_first or shm_object_pool_next returned; *)
(* snap and seen are history variables of that scan.                       *)
(***************************************************************************)
EXTENDS Integers, Sequences

CONSTANTS NumObjects,  \* striping allocators are numbered 1..NumObjects
          Capacity     \* queue.capacity, one more than the queue can hold

\* A queue of striping.count.max + 1 slots, and at least as many allocators
\* as shm_object_pool_init_full puts in it.
ASSUME PoolAssumption == /\ NumObjects \in Nat
                         /\ Capacity \in Nat
                         /\ Capacity >= 2
                         /\ NumObjects >= Capacity - 1

VARIABLES offsets,  \* op->offsets: the slots of the ring
          head,     \* queue.head: the slot to pop
          tail,     \* queue.tail: the slot to push
          index,    \* op->index: the slot the iterator stands on
          ret,      \* what the last operation returned
          cur,      \* what the scan stands on, -1 when there is no scan
          snap,     \* history: the queue when the scan began
          seen      \* history: what the scan has visited

ring == <<offsets, head, tail>>
scan == <<cur, snap, seen>>
vars == <<ring, index, ret, scan>>

Objects == 1..NumObjects
Slots == 0..(Capacity - 1)
None == -1
ENOSPC == 28

\* Mutant: the ring does not wrap around.
IncNoWrap(i) == i + 1

Inc(i) == (i + 1) % Capacity
Dec(i) == IF i = 0 THEN Capacity - 1 ELSE i - 1

IsEmpty == head = tail

\* shm_object_pool_get_count
Count == IF head = tail THEN 0
         ELSE IF head < tail THEN tail - head
         ELSE (Capacity - head) + tail

\* How far slot i is behind the head, and whether it holds a queued object.
Dist(i) == IF i >= head THEN i - head ELSE (Capacity - head) + i
Occupied(i) == Dist(i) < Count

\* The queue the ring stands for, oldest first.
Contents == [d \in 1..Count |-> offsets[(head + d - 1) % Capacity]]
InPool(o) == \E i \in Slots : Occupied(i) /\ offsets[i] = o

TypeOK == /\ offsets \in [Slots -> Objects \cup {0}]
          /\ head \in Slots
          /\ tail \in Slots
          /\ index \in Slots \cup {None}
          /\ ret \in Objects \cup {None, 0, ENOSPC}
          /\ cur \in Objects \cup {None}

-----------------------------------------------------------------------------
NoScan == cur' = None /\ snap' = <<>> /\ seen' = <<>>

Init == /\ offsets = [i \in Slots |-> 0]
        /\ head = 0 /\ tail = 0
        /\ index = None /\ ret = 0
        /\ cur = None /\ snap = <<>> /\ seen = <<>>

\* shm_object_pool_init_empty: what the slots hold is left behind.
InitEmpty == /\ cur = None
             /\ head' = 0 /\ tail' = 0
             /\ NoScan
             /\ UNCHANGED <<offsets, index, ret>>

InitFull == /\ cur = None
            /\ offsets' = [i \in Slots |->
                             IF i < Capacity - 1 THEN i + 1 ELSE offsets[i]]
            /\ head' = 0 /\ tail' = Capacity - 1
            /\ NoScan
            /\ UNCHANGED <<index, ret>>

\* shm_object_pool_free, alias push.  A caller pushes an allocator it holds:
\* one that is new or that it took out of the other queue.
Push(o) == /\ cur = None
           /\ ~InPool(o)
           /\ IF Inc(tail) = head
              THEN /\ ret' = ENOSPC
                   /\ UNCHANGED ring
              ELSE /\ offsets' = [offsets EXCEPT ![tail] = o]
                   /\ tail' = Inc(tail)
                   /\ ret' = 0
                   /\ UNCHANGED head
           /\ NoScan
           /\ UNCHANGED index

\* shm_object_pool_alloc, alias pop.
Alloc == /\ cur = None
         /\ ret' = IF IsEmpty THEN None ELSE offsets[head]
         /\ head' = IF IsEmpty THEN head ELSE Inc(head)
         /\ NoScan
         /\ UNCHANGED <<offsets, tail, index>>

\* shm_object_pool_first: a scan begins.
First == /\ cur = None
         /\ index' = IF IsEmpty THEN None ELSE head
         /\ ret' = IF IsEmpty THEN None ELSE offsets[head]
         /\ cur' = ret'
         /\ snap' = Contents
         /\ seen' = IF IsEmpty THEN <<>> ELSE <<offsets[head]>>
         /\ UNCHANGED ring

\* shm_object_pool_next: the loop of the scan goes on while cur > 0.
AdvanceIndex == IF index = None \/ index = tail THEN None ELSE Inc(index)
NextObject ==
  /\ cur > 0
  /\ index' = AdvanceIndex
  /\ ret' = IF index' \in {None, tail} THEN None ELSE offsets[index']
  /\ cur' = ret'
  /\ seen' = IF ret' = None THEN seen ELSE Append(seen, ret')
  /\ UNCHANGED <<ring, snap>>

\* The caller leaves the loop: it has what it wanted.
StopScan == /\ cur > 0
            /\ NoScan
            /\ UNCHANGED <<ring, index, ret>>

\* Mutants: the hole is filled with the head; the head does not follow; the
\* objects behind move forward instead.
FillFromHead(s) == [offsets EXCEPT ![s] = offsets[head]]
RemoveKeepsHead(s) ==
  /\ offsets' = [i \in Slots |-> IF Dist(i) > 0 /\ Dist(i) <= Dist(s)
                                THEN offsets[Dec(i)] ELSE offsets[i]]
  /\ ret' = offsets'[s]
  /\ UNCHANGED <<head, tail>>
RemoveFromTail(s) ==
  /\ offsets' = [i \in Slots |-> IF Dist(s) <= Dist(i) /\ Dist(i) < Count - 1
                                THEN offsets[Inc(i)] ELSE offsets[i]]
  /\ tail' = Dec(tail)
  /\ ret' = offsets[s]
  /\ UNCHANGED head

\* The removal loop of shm_object_pool_remove: every object ahead of slot s
\* moves one slot back, and the head follows.
ShiftOut(s) == [i \in Slots |-> IF Dist(i) > 0 /\ Dist(i) <= Dist(s)
                                THEN offsets[Dec(i)] ELSE offsets[i]]
RemoveSlot(s) == /\ offsets' = ShiftOut(s)
                 /\ head' = Inc(head)
                 /\ ret' = offsets'[s]
                 /\ UNCHANGED tail

\* shm_object_pool_remove: called from the loop, at most once on each object,
\* and on the slot the iterator stands on, so that its two error returns (no
\* object, no index) are reached from neither of its callers.
Remove == /\ cur > 0
          /\ InPool(cur)
          /\ RemoveSlot(index)
          /\ UNCHANGED <<index, scan>>

\* shm_object_pool_remove_by: its own scan up to the object, then the removal.
RemoveBy(o) ==
  /\ cur = None
  /\ \/ \E s \in Slots : /\ Occupied(s) /\ offsets[s] = o
                         /\ index' = s
                         /\ RemoveSlot(s)
     \/ /\ ~InPool(o)
        /\ index' = IF IsEmpty THEN None ELSE tail
        /\ ret' = None
        /\ UNCHANGED ring
  /\ NoScan

Next == \/ InitEmpty
        \/ InitFull
        \/ \E o \in Objects : Push(o) \/ RemoveBy(o)
        \/ Alloc
        \/ First
        \/ NextObject
        \/ StopScan
        \/ Remove

Spec == Init /\ [][Next]_vars
-----------------------------------------------------------------------------
(* Properties                                                              *)

\* No allocator is queued twice, however pushes, pops and removals wrap
\* around the ring: two queues that both handed it out would fill the same
\* memory twice.
NoDuplicates == \A i, j \in Slots :
                  Occupied(i) /\ Occupied(j) /\ offsets[i] = offsets[j] => i = j

\* The queue promised by the header, over the ring's contents: a push joins
\* at the tail, a pop leaves at the head, a removal anywhere keeps the order
\* of the others.
Fifo == INSTANCE FifoPool WITH queue <- Contents
RingImplementsFifo == Fifo!Spec

\* A scan that removes some of the objects it stands on (the loop of
\* shm_value_allocator_do_alloc) visits what was queued when it began in
\* order, and has visited all of it when shm_object_pool_next says -1.
ScanVisitsAll == /\ Len(seen) <= Len(snap)
                 /\ seen = SubSeq(snap, 1, Len(seen))
                 /\ cur = None => seen = snap
=============================================================================
