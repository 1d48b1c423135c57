---------------------------- MODULE ShmCacheProofs ----------------------------
(***************************************************************************)
(* Proofs about ShmCache, for every configuration.                         *)
(***************************************************************************)
EXTENDS ShmCache, SequenceTheorems, FiniteSetTheorems, TLAPS

(***************************************************************************)
(* The inductive invariant behind TypeOK, by the parts of the state.  An   *)
(* entry that is in the table, or about to be, must hold a value and lie   *)
(* in a striping that exists; only stripings that exist are queued; and    *)
(* there is room for those that a segment being created is still to add.   *)
(***************************************************************************)
Placed(e) == e.str # 0 => e.str \in 1..nstr /\ e.val \in Values

TableInv == /\ ht \in [Keys -> Entry]
            /\ \A k \in Keys : Placed(ht[k])
            /\ count \in Int
            /\ list \in Seq(Stripings \X (0..StripingSize))

StripingType == [free : 0..StripingSize, used : Int, fail : 0..(MaxFailTimes + 1),
                 last : Nat, pool : {"doing", "done"}]

MemoryInv == /\ strip \in [Stripings -> StripingType]
             /\ doing \in Seq(1..nstr)
             /\ done \in Seq(1..nstr)
             /\ usedEntry \in Int

SegmentInv == /\ segCount \in 0..MaxSegments
              /\ nstr \in Nat
              /\ alloced \in Nat
              /\ pc # "striping" => nstr <= segCount * StripingsPerSegment
              /\ pc = "striping" =>
                   /\ cur <= StripingsPerSegment + 1
                   /\ nstr + (StripingsPerSegment + 1 - cur) <= segCount * StripingsPerSegment
              /\ alloced <= segCount
              /\ pc = "striping" => alloced < segCount

\* A set that is running has an activation, and has a new entry exactly
\* between its allocation and its link.
ControlInv == /\ now \in Nat
              /\ pc \in Locations
              /\ limit \in 0..MaxVal
              /\ stack \in Seq(Frame)
              /\ cur \in Nat \ {0}
              /\ cleared \in Nat
              /\ recycled \in BOOLEAN
              /\ new \in Entry
              /\ Placed(new)
              /\ pc \notin {"idle", "crashed"} => stack # <<>>
              /\ pc = "link" => new.str # 0
              /\ pc \notin {"link", "crashed"} => new = NoEntry

TypeInv == TableInv /\ MemoryInv /\ SegmentInv /\ ControlInv
-----------------------------------------------------------------------------
(* Sequences                                                               *)

LEMMA RemoveAtType == ASSUME NEW T, NEW s \in Seq(T), NEW i \in 1..Len(s)
                      PROVE  RemoveAt(s, i) \in Seq(T)
  BY DEF RemoveAt

LEMMA WithoutType == ASSUME NEW T, NEW s \in Seq(T), NEW x
                     PROVE  Without(s, x) \in Seq(T)
<1>1. CASE Contains(s, x)
  <2>1. \E i \in 1..Len(s) : s[i] = x
    BY <1>1 DEF Contains
  <2>2. (CHOOSE i \in 1..Len(s) : s[i] = x) \in 1..Len(s)
    BY <2>1
  <2> QED
    BY <1>1, <2>2, RemoveAtType DEF Without
<1>2. CASE ~Contains(s, x)
  BY <1>2 DEF Without
<1> QED
  BY <1>1, <1>2

LEMMA FrontType == ASSUME NEW T, NEW s \in Seq(T), s # <<>>
                   PROVE  Front(s) \in Seq(T)
<1>1. Len(s) \in Nat
  OBVIOUS
<1> QED
  BY <1>1 DEF Front

LEMMA FrontLen == ASSUME NEW T, NEW s \in Seq(T), s # <<>>
                  PROVE  Len(Front(s)) = Len(s) - 1
<1>1. Len(s) \in Nat /\ Len(s) # 0 /\ \A i \in 1..(Len(s) - 1) : s[i] \in T
  OBVIOUS
<1>2. Len(Front(s)) = IF 1 <= Len(s) - 1 THEN Len(s) - 1 - 1 + 1 ELSE 0
  BY <1>1, SubSeqProperties DEF Front
<1>3. ASSUME NEW n \in Nat, n # 0
      PROVE  (IF 1 <= n - 1 THEN n - 1 - 1 + 1 ELSE 0) = n - 1
  BY <1>3
<1> QED
  BY <1>1, <1>2, <1>3, Zenon

LEMMA WidenSeq == ASSUME NEW m \in Nat, NEW n \in Nat, m <= n, NEW s \in Seq(1..m)
                  PROVE  s \in Seq(1..n)
  OBVIOUS

LEMMA Times == ASSUME NEW a \in Nat, NEW b \in Nat, NEW c \in Nat, a <= b
               PROVE  a * c <= b * c /\ (a + 1) * c = a * c + c /\ a * c \in Nat
  OBVIOUS
-----------------------------------------------------------------------------
(* Types                                                                   *)

LEMMA Bounds == /\ MaxStripings \in Nat
                /\ StripingsPerSegment \in Nat
                /\ MaxSegments \in Nat
                /\ StripingSize \in Nat
                /\ \A v \in Values : SizeOf[v] \in Nat /\ SizeOf[v] >= 1
  BY CacheAssumption, Times DEF MaxStripings

LEMMA NoEntryType == NoEntry \in Entry /\ NoEntry.str = 0
  BY Bounds, CacheAssumption DEF NoEntry, Entry

\* There is room for the stripings of all segments.
LEMMA Room == ASSUME TypeInv
              PROVE  nstr \in 0..MaxStripings
<1>1. segCount * StripingsPerSegment <= MaxStripings
  BY Bounds, Times DEF TypeInv, SegmentInv, MaxStripings
<1>2. segCount * StripingsPerSegment \in Nat
  BY Bounds, Times DEF TypeInv, SegmentInv
<1> QED
  BY <1>1, <1>2, Bounds DEF TypeInv, SegmentInv, ControlInv

LEMMA InvImpliesTypeOK == ASSUME TypeInv PROVE TypeOK
<1>1. nstr \in Nat /\ nstr <= MaxStripings /\ MaxStripings \in Nat
  BY Room, Bounds
<1>2. doing \in Seq(Stripings)
  BY <1>1, WidenSeq DEF TypeInv, MemoryInv, Stripings
<1>3. done \in Seq(Stripings)
  BY <1>1, WidenSeq DEF TypeInv, MemoryInv, Stripings
<1>4. alloced \in 0..MaxSegments
  BY Bounds DEF TypeInv, SegmentInv
<1> QED
  BY <1>1, <1>2, <1>3, <1>4
  DEF TypeInv, TypeOK, TableInv, MemoryInv, SegmentInv, ControlInv, StripingType

\* shm_value_allocator_free keeps the memory sound.
LEMMA FreeValueType ==
  ASSUME TypeInv, NEW k \in Keys, Live(k), FreeValue(ht[k]), UNCHANGED nstr
  PROVE  MemoryInv'
<1> DEFINE e == ht[k]
<1>0. e.str \in 1..nstr /\ e.val \in Values
  BY DEF TypeInv, TableInv, Placed, Live
<1>1. e.str \in Stripings
  BY <1>0, Room, Bounds DEF Stripings
<1>2. SizeOf[e.val] \in Int
  BY <1>0, Bounds
<1>3. strip \in [Stripings -> StripingType]
  BY DEF TypeInv, MemoryInv
<1>4. strip[e.str] \in StripingType
  BY <1>1, <1>3
<1>5. usedEntry' \in Int
  BY <1>2 DEF TypeInv, MemoryInv, FreeValue
<1>6. strip' \in [Stripings -> StripingType]
  <2>1. \A p \in {"doing", "done"} : ResetStriping(p) \in StripingType
    BY Bounds, CacheAssumption DEF ResetStriping, StripingType
  <2>2. UsedAfterFree(e) \in Int
    BY <1>2, <1>4 DEF UsedAfterFree, StripingType
  <2>3. [strip[e.str] EXCEPT !.used = UsedAfterFree(e)] \in StripingType
    BY <2>2, <1>4 DEF StripingType
  <2>4. strip[e.str].pool \in {"doing", "done"}
    BY <1>4 DEF StripingType
  <2> QED
    BY <2>1, <2>3, <2>4, <1>1, <1>3 DEF FreeValue
<1>7. doing' \in Seq(1..nstr)
  <2>1. e.str \in 1..nstr /\ doing \in Seq(1..nstr)
    BY <1>0 DEF TypeInv, MemoryInv
  <2>2. Append(doing, e.str) \in Seq(1..nstr)
    BY <2>1
  <2> QED
    BY <2>1, <2>2 DEF FreeValue
<1>8. done' \in Seq(1..nstr)
  BY WithoutType DEF TypeInv, MemoryInv, FreeValue
<1> QED
  BY <1>5, <1>6, <1>7, <1>8 DEF MemoryInv

\* So does shm_ht_clear, and it leaves no entry.
LEMMA ClearTableType ==
  ASSUME TypeInv, ClearTable, UNCHANGED nstr
  PROVE  TableInv' /\ MemoryInv'
<1>1. ht' \in [Keys -> Entry] /\ \A k \in Keys : Placed(ht[k])'
  BY NoEntryType DEF ClearTable, Placed
<1>2. strip' \in [Stripings -> StripingType]
  <2>1. ResetStriping("doing") \in StripingType
    BY Bounds, CacheAssumption DEF ResetStriping, StripingType
  <2>2. strip \in [Stripings -> StripingType]
    BY DEF TypeInv, MemoryInv
  <2> QED
    BY <2>1, <2>2 DEF ClearTable
<1>3. count' \in Int /\ list' \in Seq(Stripings \X (0..StripingSize)) /\ usedEntry' \in Int
  BY DEF ClearTable
<1>4. doing' \in Seq(1..nstr) /\ done' \in Seq(1..nstr)
  BY DEF ClearTable, TypeInv, SegmentInv
<1> QED
  BY <1>1, <1>2, <1>3, <1>4 DEF TableInv, MemoryInv

\* Taking an entry out of the table keeps it sound.
LEMMA UnlinkType ==
  ASSUME TypeInv, NEW k \in Keys, UNCHANGED nstr,
         ht' = [ht EXCEPT ![k] = NoEntry], count' = count - 1,
         list' = Without(list, Offset(ht[k]))
  PROVE  TableInv'
<1>1. ht' \in [Keys -> Entry] /\ \A l \in Keys : Placed(ht[l])'
  BY NoEntryType DEF TypeInv, TableInv, Placed
<1>2. list' \in Seq(Stripings \X (0..StripingSize))
  BY WithoutType DEF TypeInv, TableInv
<1> QED
  BY <1>1, <1>2 DEF TypeInv, TableInv

\* What a step leaves alone stays sound.
LEMMA SameTable == ASSUME TypeInv, UNCHANGED <<table, nstr>>
                   PROVE  TableInv'
  BY DEF TypeInv, TableInv, table, Placed

LEMMA SameMemory == ASSUME TypeInv, UNCHANGED <<memory, nstr>>
                    PROVE  MemoryInv'
  BY DEF TypeInv, MemoryInv, memory

LEMMA SameSegments == ASSUME TypeInv, UNCHANGED segments, pc # "striping", pc' # "striping"
                      PROVE  SegmentInv'
  BY DEF TypeInv, SegmentInv, segments

\* A step that only moves control, within an operation or into or out of one.
LEMMA ControlStep ==
  ASSUME TypeInv, UNCHANGED <<table, memory, segments, new>>,
         pc # "striping", pc' # "striping",
         ControlInv'
  PROVE  TypeInv'
  BY SameTable, SameMemory, SameSegments DEF TypeInv, segments

LEMMA ActivationType == ASSUME NEW x \in Item PROVE Activation(x) \in Frame
  BY DEF Activation, Item, Frame

\* A request starts and ends nothing but itself.
LEMMA CallSetType ==
  ASSUME TypeInv, NEW c \in Seq(Frame), NEW x \in Item, CallSet(c, x),
         limit' \in 0..MaxVal, UNCHANGED <<now, nstr>>
  PROVE  ControlInv' /\ pc' # "striping"
<1>1. stack' \in Seq(Frame) /\ stack' # <<>>
  BY ActivationType DEF CallSet
<1>2. new' = NoEntry /\ new' \in Entry /\ Placed(new)'
  BY NoEntryType DEF CallSet, Placed
<1>3. pc' \in {"fail", "recycleKey", "alloc1"} /\ cur' = 1 /\ cleared' = 0
  BY DEF CallSet, Enter
<1>4. recycled' \in BOOLEAN
  BY DEF CallSet, Enter
<1>5. now' \in Nat
  BY DEF TypeInv, ControlInv
<1> QED
  BY <1>1, <1>2, <1>3, <1>4, <1>5 DEF ControlInv, Locations

LEMMA ReturnType ==
  ASSUME TypeInv, NEW to \in {"rearrange", "fail"}, Return(to), stack # <<>>, UNCHANGED <<now, nstr>>
  PROVE  ControlInv' /\ pc' # "striping"
<1>1. stack' \in Seq(Frame)
  BY FrontType DEF Return, TypeInv, ControlInv
<1>2. new' = NoEntry /\ new' \in Entry /\ Placed(new)'
  BY NoEntryType DEF Return, Placed
<1>3. pc' \in {"rearrange", "fail", "idle"} /\ cur' = 1 /\ cleared' = 0
  BY DEF Return, Enter
<1>4. pc' # "idle" => stack' # <<>>
  <2>1. Len(stack) \in Nat /\ Len(stack) # 0
    BY DEF TypeInv, ControlInv
  <2>2. pc' # "idle" => Len(stack) # 1
    BY DEF Return, Enter
  <2>3. Len(stack') = Len(stack) - 1
    BY <2>1, FrontLen DEF Return, TypeInv, ControlInv
  <2> QED
    BY <2>1, <2>2, <2>3
<1>5. limit' \in 0..MaxVal
  BY CacheAssumption DEF Return, TypeInv, ControlInv
<1>6. recycled' \in BOOLEAN
  BY DEF Return, Enter
<1>7. now' \in Nat
  BY DEF TypeInv, ControlInv
<1> QED
  BY <1>1, <1>2, <1>3, <1>4, <1>5, <1>6, <1>7 DEF ControlInv, Locations
-----------------------------------------------------------------------------
LEMMA TypeInit == Init => TypeInv
<1> SUFFICES ASSUME Init PROVE TypeInv
  OBVIOUS
<1>1. TableInv
  BY NoEntryType DEF Init, TableInv, Placed
<1>2. MemoryInv
  <2>1. ResetStriping("doing") \in StripingType
    BY Bounds, CacheAssumption DEF ResetStriping, StripingType
  <2> QED
    BY <2>1, Bounds DEF Init, MemoryInv
<1>3. SegmentInv
  BY CacheAssumption, Bounds DEF Init, SegmentInv
<1>4. ControlInv
  <2>1. recycled \in BOOLEAN
    BY DEF Init
  <2>2. new \in Entry /\ Placed(new)
    BY NoEntryType DEF Init, Placed
  <2>3. limit \in 0..MaxVal
    BY CacheAssumption DEF Init
  <2> QED
    BY <2>1, <2>2, <2>3 DEF Init, ControlInv, Locations
<1> QED
  BY <1>1, <1>2, <1>3, <1>4 DEF TypeInv

\* Leaving a loop of a running set for another place of it keeps control sound.
LEMMA EnterType ==
  ASSUME TypeInv, NEW l \in Locations \ {"idle", "link", "crashed"}, Enter(l),
         pc \notin {"idle", "crashed", "link"}, UNCHANGED <<now, nstr, limit, stack, new>>
  PROVE  ControlInv'
<1>1. recycled' \in BOOLEAN
  BY DEF Enter
<1>2. new \in Entry /\ Placed(new)'
  BY DEF TypeInv, ControlInv, Placed
<1> QED
  BY <1>1, <1>2 DEF TypeInv, ControlInv, Enter

\* A set that only goes from one place to another.
LEMMA JumpType ==
  ASSUME TypeInv, NEW l \in Locations \ {"idle", "link", "crashed", "striping"}, Enter(l),
         pc \notin {"idle", "crashed", "link", "striping"},
         UNCHANGED <<table, memory, segments, now, limit, stack, new>>
  PROVE  TypeInv'
<1>1. UNCHANGED nstr /\ pc' # "striping"
  BY DEF segments, Enter
<1>2. ControlInv'
  BY <1>1, EnterType
<1> QED
  BY <1>1, <1>2, ControlStep

LEMMA RequestType == ASSUME TypeInv, Request PROVE TypeInv'
<1>1. ASSUME NEW k \in Keys, NEW v \in Values, NEW ttl \in TTLs, Set(k, v, ttl)
      PROVE  TypeInv'
  <2>1. CalcExpires(now, ttl) \in Nat
    BY CacheAssumption DEF TypeInv, ControlInv, CalcExpires
  <2>2. [key |-> k, val |-> v, exp |-> CalcExpires(now, ttl)] \in Item
    BY <2>1 DEF Item
  <2>3. limit' \in 0..MaxVal
    BY <1>1, CacheAssumption DEF Set, Values
  <2>4. ControlInv' /\ pc' # "striping"
    <3>1. CallSet(<<>>, [key |-> k, val |-> v, exp |-> CalcExpires(now, ttl)])
      BY <1>1 DEF Set
    <3>2. <<>> \in Seq(Frame) /\ UNCHANGED <<now, nstr>>
      BY <1>1 DEF Set, segments
    <3> QED
      BY <2>2, <2>3, <3>1, <3>2, CallSetType
  <2> QED
    BY <1>1, <2>4, SameTable, SameMemory, SameSegments DEF Set, TypeInv, segments
<1>2. ASSUME NEW k \in Keys, NEW ttl \in TTLs, Incr(k, ttl)
      PROVE  TypeInv'
  <2>1. CalcExpires(now, ttl) \in Nat
    BY CacheAssumption DEF TypeInv, ControlInv, CalcExpires
  <2>2. Counted(k) + 1 \in Values
    <3>1. ht[k] \in Entry /\ MaxNumber \in Nat /\ MaxVal \in Nat /\ MaxNumber <= MaxVal
      BY CacheAssumption DEF TypeInv, TableInv
    <3>2. Counted(k) \in Nat
      BY <3>1 DEF Counted, Entry
    <3>3. Counted(k) < MaxNumber
      BY <1>2 DEF Incr
    <3> QED
      BY <3>1, <3>2, <3>3 DEF Values
  <2>3. [key |-> k, val |-> Counted(k) + 1, exp |-> CalcExpires(now, ttl)] \in Item
    BY <2>1, <2>2 DEF Item
  <2>4. limit' \in 0..MaxVal
    BY <1>2, CacheAssumption DEF Incr, Values
  <2>5. ControlInv' /\ pc' # "striping"
    <3>1. CallSet(<<>>, [key |-> k, val |-> Counted(k) + 1, exp |-> CalcExpires(now, ttl)])
      BY <1>2 DEF Incr
    <3>2. <<>> \in Seq(Frame) /\ UNCHANGED <<now, nstr>>
      BY <1>2 DEF Incr, segments
    <3> QED
      BY <2>3, <2>4, <3>1, <3>2, CallSetType
  <2> QED
    BY <1>2, <2>5, SameTable, SameMemory, SameSegments DEF Incr, TypeInv, segments
<1>3. ASSUME NEW k \in Keys, Delete(k)
      PROVE  TypeInv'
  <2>1. TableInv' /\ MemoryInv'
    BY <1>3, UnlinkType, FreeValueType DEF Delete, segments
  <2>2. SegmentInv' /\ ControlInv'
    BY <1>3 DEF Delete, TypeInv, SegmentInv, ControlInv, segments, locals, Placed
  <2> QED
    BY <2>1, <2>2 DEF TypeInv
<1>4. ASSUME NEW k \in Keys, NEW ttl \in TTLs, SetExpires(k, CalcExpires(now, ttl))
      PROVE  TypeInv'
  <2>1. CalcExpires(now, ttl) \in Nat
    BY CacheAssumption DEF TypeInv, ControlInv, CalcExpires
  <2>2. TableInv'
    BY <1>4, <2>1 DEF SetExpires, TypeInv, TableInv, Entry, Placed, segments
  <2>3. MemoryInv' /\ SegmentInv' /\ ControlInv'
    BY <1>4 DEF SetExpires, TypeInv, MemoryInv, SegmentInv, ControlInv, memory, segments, locals,
                Placed
  <2> QED
    BY <2>2, <2>3 DEF TypeInv
<1>5. ASSUME Clear
      PROVE  TypeInv'
  <2>1. TableInv' /\ MemoryInv'
    BY <1>5, ClearTableType DEF Clear, segments
  <2>2. SegmentInv' /\ ControlInv'
    BY <1>5 DEF Clear, TypeInv, SegmentInv, ControlInv, segments, locals, Placed
  <2> QED
    BY <2>1, <2>2 DEF TypeInv
<1> QED
  BY <1>1, <1>2, <1>3, <1>4, <1>5 DEF Request

\* The value of the innermost activation.
LEMMA TopType == ASSUME TypeInv, pc \notin {"idle", "crashed"}
                 PROVE  /\ Top \in Frame
                        /\ Len(stack) \in 1..Len(stack)
                        /\ stack \in Seq(Frame) /\ stack # <<>>
<1>1. stack \in Seq(Frame) /\ stack # <<>>
  BY DEF TypeInv, ControlInv
<1>2. Len(stack) \in 1..Len(stack)
  BY <1>1
<1> QED
  BY <1>1, <1>2 DEF Top

LEMMA RecycleType ==
  ASSUME TypeInv, RecycleSkip \/ RecycleEntry \/ RecycleFails
  PROVE  TypeInv'
<1>1. CASE RecycleSkip
  <2>1. ControlInv' /\ pc # "striping" /\ pc' # "striping"
    BY <1>1 DEF RecycleSkip, Recycling, TypeInv, ControlInv, segments, Placed
  <2> QED
    BY <1>1, <2>1, ControlStep DEF RecycleSkip
<1>2. CASE RecycleEntry
  <2>1. PICK k \in Keys : RecycleEntry!2!(k)
    BY <1>2 DEF RecycleEntry
  <2>2. UNCHANGED <<segCount, nstr, alloced, now, limit, stack, new>>
    BY <1>2 DEF RecycleEntry, segments
  <2>3. TableInv' /\ MemoryInv'
    BY <2>1, <2>2, UnlinkType, FreeValueType DEF EntryAt
  <2>4. pc \in {"recycleKey", "recycleMem"}
    BY <1>2 DEF RecycleEntry, Recycling
  <2>5. ControlInv' /\ pc' # "striping"
    <3>1. CASE Enough(cleared + 1, recycled \/ Emptied(ht[k]))
      <4>1. Enter(IF pc = "recycleKey" THEN "alloc1" ELSE "alloc2")
        BY <2>1, <3>1
      <4>2. (IF pc = "recycleKey" THEN "alloc1" ELSE "alloc2") \in Locations \ {"idle", "link", "crashed"}
        BY DEF Locations
      <4>3. pc' # "striping"
        BY <4>1 DEF Enter
      <4> QED
        BY <2>2, <2>4, <4>1, <4>2, <4>3, EnterType
    <3>2. CASE ~Enough(cleared + 1, recycled \/ Emptied(ht[k]))
      <4>1. cleared' = cleared + 1 /\ pc' = pc /\ cur' = cur
        BY <2>1, <3>2
      <4>2. recycled' \in BOOLEAN
        BY <2>1, <3>2
      <4> QED
        BY <2>2, <2>4, <4>1, <4>2 DEF TypeInv, ControlInv, Placed
    <3> QED
      BY <3>1, <3>2
  <2> QED
    BY <2>2, <2>3, <2>4, <2>5, SameSegments DEF TypeInv, segments
<1>3. CASE RecycleFails
  <2> DEFINE to == IF pc = "recycleKey" \/ RecycleValidEntries THEN "fail"
                   ELSE IF segCount < MaxSegments THEN "create" ELSE "tryRearrange"
  <2>1. to \in Locations \ {"idle", "link", "crashed", "striping"}
    BY DEF Locations
  <2>2. Enter(to) /\ pc \in {"recycleKey", "recycleMem"}
    BY <1>3 DEF RecycleFails, Recycling
  <2>3. UNCHANGED <<table, memory, segments, now, limit, stack, new>>
    BY <1>3 DEF RecycleFails
  <2> HIDE DEF to
  <2> QED
    BY <2>1, <2>2, <2>3, JumpType
<1> QED
  BY <1>1, <1>2, <1>3

LEMMA AllocType ==
  ASSUME TypeInv, AllocFits \/ AllocMisses \/ AllocFails
  PROVE  TypeInv'
<1>0. pc \in {"alloc1", "alloc2"} /\ Top \in Frame
  BY TopType DEF AllocFits, AllocMisses, AllocFails, Allocating
<1>1. CASE AllocFits
  <2> DEFINE s == doing[cur]
             size == SizeOf[Top.val]
  <2>1. s \in 1..nstr /\ s \in Stripings
    <3>1. doing \in Seq(1..nstr) /\ cur \in Nat \ {0} /\ cur <= Len(doing)
      BY <1>1 DEF AllocFits, TypeInv, MemoryInv, ControlInv
    <3>2. \A T : \A q \in Seq(T) : Len(q) \in Nat /\ \A i \in 1..Len(q) : q[i] \in T
      OBVIOUS
    <3>3. cur \in 1..Len(doing)
      BY <3>1, <3>2
    <3>4. s \in 1..nstr
      BY <3>1, <3>2, <3>3, Zenon
    <3>5. nstr \in 0..MaxStripings /\ MaxStripings \in Nat
      BY Room, Bounds
    <3> HIDE DEF s
    <3> QED
      BY <3>4, <3>5 DEF Stripings
  <2>2. Top.val \in Values /\ Top.exp \in Nat /\ size \in Nat /\ size >= 1
    BY <1>0, Bounds DEF Frame
  <2>3. strip[s] \in StripingType /\ strip \in [Stripings -> StripingType]
    BY <2>1 DEF TypeInv, MemoryInv
  <2>4. strip[s].free \in 0..StripingSize /\ strip[s].used \in Int
    BY <2>3 DEF StripingType
  <2>5. strip[s].free + size \in 0..StripingSize
    <3>1. StripingSize - strip[s].free >= size
      BY <1>1 DEF AllocFits, Fits
    <3> QED
      BY <2>2, <2>4, <3>1, Bounds
  <2>6. MemoryInv'
    <3>1. strip' = [strip EXCEPT ![s] = [strip[s] EXCEPT !.free = strip[s].free + size,
                                                         !.used = strip[s].used + size,
                                                         !.last = now]]
      BY <1>1 DEF AllocFits
    <3>2. [strip[s] EXCEPT !.free = strip[s].free + size, !.used = strip[s].used + size,
                           !.last = now] \in StripingType
      <4>1. now \in Nat /\ strip[s].used + size \in Int
        BY <2>2, <2>4 DEF TypeInv, ControlInv
      <4> QED
        BY <2>3, <2>5, <4>1 DEF StripingType
    <3>3. usedEntry' \in Int
      BY <1>1, <2>2 DEF AllocFits, TypeInv, MemoryInv
    <3>4. UNCHANGED <<doing, done, nstr>>
      BY <1>1 DEF AllocFits, segments
    <3> QED
      BY <2>1, <2>3, <3>1, <3>2, <3>3, <3>4 DEF TypeInv, MemoryInv
  <2>7. new' = [val |-> Top.val, exp |-> Top.exp, str |-> s, off |-> strip[s].free]
    BY <1>1 DEF AllocFits
  <2>8. new' \in Entry
    BY <2>1, <2>2, <2>4, <2>7, Bounds DEF Entry, Values, Stripings
  <2>9. ControlInv' /\ pc' # "striping"
    <3>1. new'.str = s /\ new'.val = Top.val
      BY <2>7
    <3>2. UNCHANGED <<now, limit, stack, nstr>> /\ Enter("link")
      BY <1>1 DEF AllocFits, segments
    <3>3. Placed(new)' /\ new'.str # 0
      BY <2>1, <2>2, <3>1, <3>2 DEF Placed
    <3>4. recycled' \in BOOLEAN
      BY <3>2 DEF Enter
    <3> QED
      BY <1>0, <2>8, <3>2, <3>3, <3>4 DEF TypeInv, ControlInv, Enter, Locations
  <2> QED
    BY <1>0, <1>1, <2>6, <2>9, SameTable, SameSegments DEF TypeInv, AllocFits, segments
<1>2. CASE AllocMisses
  <2> DEFINE s == doing[cur]
             filed == Discarded(s) /\ RemoveResult(cur) = s
  <2>1. s \in 1..nstr /\ s \in Stripings /\ cur \in 1..Len(doing)
    <3>1. cur \in 1..Len(doing)
      BY <1>2 DEF AllocMisses, TypeInv, MemoryInv, ControlInv
    <3>2. doing \in Seq(1..nstr)
      BY DEF TypeInv, MemoryInv
    <3>3. s \in 1..nstr
      BY <3>1, <3>2, Room, Bounds
    <3> QED
      BY <3>1, <3>3, Room, Bounds DEF Stripings
  <2>2. strip[s] \in StripingType /\ strip \in [Stripings -> StripingType]
    BY <2>1 DEF TypeInv, MemoryInv
  <2>3. FailTimes(s) \in 0..(MaxFailTimes + 1)
    BY <2>2, CacheAssumption DEF FailTimes, StripingType
  <2>4. MemoryInv'
    <3>1. strip' = [strip EXCEPT ![s] = [strip[s] EXCEPT !.fail = FailTimes(s),
                                             !.pool = IF filed THEN "done" ELSE strip[s].pool]]
      BY <1>2 DEF AllocMisses
    <3>2. [strip[s] EXCEPT !.fail = FailTimes(s),
                           !.pool = IF filed THEN "done" ELSE strip[s].pool] \in StripingType
      BY <2>2, <2>3 DEF StripingType
    <3>3. doing' \in Seq(1..nstr)
      BY <1>2, <2>1, RemoveAtType DEF AllocMisses, TypeInv, MemoryInv
    <3>4. done' \in Seq(1..nstr)
      <4>1. Append(done, s) \in Seq(1..nstr) /\ done \in Seq(1..nstr)
        BY <2>1 DEF TypeInv, MemoryInv
      <4> QED
        BY <1>2, <4>1 DEF AllocMisses
    <3>5. UNCHANGED <<usedEntry, nstr>>
      BY <1>2 DEF AllocMisses, segments
    <3> HIDE DEF filed
    <3> QED
      BY <2>1, <2>2, <3>1, <3>2, <3>3, <3>4, <3>5 DEF TypeInv, MemoryInv
  <2>5. ControlInv' /\ pc' # "striping"
    <3>1. cur' \in Nat \ {0}
      BY <1>2 DEF AllocMisses, TypeInv, ControlInv
    <3>2. UNCHANGED <<now, nstr, pc, limit, stack, cleared, recycled, new>>
      BY <1>2 DEF AllocMisses, segments
    <3> QED
      BY <1>0, <3>1, <3>2 DEF TypeInv, ControlInv, Placed
  <2> QED
    BY <1>0, <1>2, <2>4, <2>5, SameTable, SameSegments DEF TypeInv, AllocMisses, segments
<1>3. CASE AllocFails
  <2> DEFINE to == IF pc = "alloc2" THEN "fail"
                   ELSE IF segCount >= MaxSegments \/ OldEnough THEN "recycleMem" ELSE "create"
  <2>1. to \in Locations \ {"idle", "link", "crashed", "striping"}
    BY DEF Locations
  <2>2. Enter(to) /\ UNCHANGED <<table, memory, segments, now, limit, stack, new>>
    BY <1>3 DEF AllocFails
  <2> HIDE DEF to
  <2> QED
    BY <1>0, <2>1, <2>2, JumpType
<1> QED
  BY <1>1, <1>2, <1>3

LEMMA SegmentType ==
  ASSUME TypeInv, CreateSegment \/ CreateSegmentFails \/ AddStriping \/ SegmentCreated
  PROVE  TypeInv'
<1>1. CASE CreateSegment
  <2>1. pc = "create" /\ segCount < MaxSegments /\ segCount' = segCount + 1
    BY <1>1 DEF CreateSegment
  <2>2. UNCHANGED <<table, memory, nstr, alloced, now, limit, stack, new>> /\ Enter("striping")
    BY <1>1 DEF CreateSegment
  <2>3. ControlInv'
    BY <2>1, <2>2, EnterType DEF Locations
  <2>4. SegmentInv'
    <3>1. segCount \in Nat /\ nstr \in Nat /\ nstr <= segCount * StripingsPerSegment
      BY <2>1 DEF TypeInv, SegmentInv
    <3>2. (segCount + 1) * StripingsPerSegment
            = segCount * StripingsPerSegment + StripingsPerSegment
          /\ segCount * StripingsPerSegment \in Nat
      BY <3>1, Bounds, Times
    <3>3. nstr + StripingsPerSegment <= segCount' * StripingsPerSegment
      BY <2>1, <3>1, <3>2, Bounds
    <3>4. cur' = 1 /\ pc' = "striping"
      BY <2>2 DEF Enter
    <3>5. segCount' \in 0..MaxSegments /\ alloced \in Nat /\ alloced < segCount'
      BY <2>1, Bounds DEF TypeInv, SegmentInv
    <3>6. nstr' \in Nat /\ alloced' \in Nat /\ alloced' < segCount' /\ alloced' <= segCount'
      BY <2>2, <3>1, <3>5, Bounds
    <3>7. nstr' + (StripingsPerSegment + 1 - cur') <= segCount' * StripingsPerSegment
      BY <2>2, <3>1, <3>3, <3>4, Bounds
    <3>8. cur' <= StripingsPerSegment + 1
      BY <3>4, Bounds
    <3> QED
      BY <3>4, <3>5, <3>6, <3>7, <3>8 DEF SegmentInv
  <2> QED
    BY <2>2, <2>3, <2>4, SameTable, SameMemory DEF TypeInv
<1>2. CASE CreateSegmentFails
  BY <1>2, JumpType DEF CreateSegmentFails, Locations
<1>3. CASE AddStriping
  <2>1. pc = "striping" /\ pc' = pc /\ cur <= StripingsPerSegment /\ cur' = cur + 1
        /\ nstr' = nstr + 1
        /\ strip' = [strip EXCEPT ![nstr + 1] = ResetStriping("doing")]
        /\ doing' = Append(doing, nstr + 1)
        /\ UNCHANGED <<done, usedEntry, segCount, alloced, now, limit, stack, cleared, recycled, new>>
        /\ UNCHANGED <<ht, count, list>>
    BY <1>3 DEF AddStriping, table
  <2>2. nstr \in Nat /\ cur \in Nat /\ cur # 0
    BY DEF TypeInv, SegmentInv, ControlInv
  <2>3. TableInv'
    BY <2>1, <2>2 DEF TypeInv, TableInv, Placed
  <2>4. MemoryInv'
    <3>1. doing \in Seq(1..(nstr + 1)) /\ done \in Seq(1..(nstr + 1))
      BY <2>2, WidenSeq DEF TypeInv, MemoryInv
    <3>2. nstr + 1 \in 1..(nstr + 1)
      BY <2>2
    <3>3. doing' \in Seq(1..nstr') /\ done' \in Seq(1..nstr')
      BY <2>1, <3>1, <3>2
    <3>4. ResetStriping("doing") \in StripingType
      BY Bounds, CacheAssumption DEF ResetStriping, StripingType
    <3>5. strip' \in [Stripings -> StripingType]
      BY <2>1, <3>4 DEF TypeInv, MemoryInv
    <3> QED
      BY <2>1, <3>3, <3>5 DEF TypeInv, MemoryInv
  <2>5. SegmentInv'
    <3>1. segCount * StripingsPerSegment \in Nat
      BY Bounds, Times DEF TypeInv, SegmentInv
    <3>2. cur' <= StripingsPerSegment + 1 /\ nstr' \in Nat
      BY <2>1, <2>2, Bounds
    <3>3. nstr' + (StripingsPerSegment + 1 - cur') <= segCount * StripingsPerSegment
      BY <2>1, <2>2, <3>1, Bounds DEF TypeInv, SegmentInv
    <3> QED
      BY <2>1, <3>2, <3>3 DEF TypeInv, SegmentInv
  <2>6. ControlInv'
    BY <2>1, <2>2 DEF TypeInv, ControlInv, Placed
  <2> QED
    BY <2>3, <2>4, <2>5, <2>6 DEF TypeInv
<1>4. CASE SegmentCreated
  <2>1. pc = "striping" /\ cur > StripingsPerSegment /\ alloced' = alloced + 1
    BY <1>4 DEF SegmentCreated
  <2>2. UNCHANGED <<table, memory, segCount, nstr, now, limit, stack, new>> /\ Enter("alloc2")
    BY <1>4 DEF SegmentCreated
  <2>3. ControlInv'
    BY <2>1, <2>2, EnterType DEF Locations
  <2>4. SegmentInv'
    <3>1. segCount * StripingsPerSegment \in Nat
      BY Bounds, Times DEF TypeInv, SegmentInv
    <3>2. nstr <= segCount * StripingsPerSegment
      BY <2>1, <3>1, Bounds DEF TypeInv, SegmentInv, ControlInv
    <3>3. pc' = "alloc2"
      BY <2>2 DEF Enter
    <3> QED
      BY <2>1, <2>2, <3>2, <3>3 DEF TypeInv, SegmentInv
  <2> QED
    BY <2>2, <2>3, <2>4, SameTable, SameMemory DEF TypeInv
<1> QED
  BY <1>1, <1>2, <1>3, <1>4

LEMMA RearrangeType ==
  ASSUME TypeInv, TryRearrange \/ CopyEntry \/ CopyFails \/ Copied \/ RearrangeEntry \/ Rearranged
  PROVE  TypeInv'
<1>0. pc \in {"tryRearrange", "toArray", "rearrange"}
  BY DEF TryRearrange, CopyEntry, CopyFails, Copied, RearrangeEntry, Rearranged
<1>1. CASE TryRearrange
  <2> DEFINE to == IF WorthRearranging THEN "toArray" ELSE "fail"
  <2>1. to \in Locations \ {"idle", "link", "crashed", "striping"}
    BY DEF Locations
  <2>2. Enter(to) /\ UNCHANGED <<table, memory, segments, now, limit, stack, new>>
    BY <1>1 DEF TryRearrange
  <2> HIDE DEF to
  <2> QED
    BY <1>0, <2>1, <2>2, JumpType
<1>2. CASE CopyEntry
  <2>1. PICK k \in Keys : CopyEntry!2!(k)
    BY <1>2 DEF CopyEntry
  <2>2. ItemAt(k) \in Item
    BY <2>1 DEF EntryAt, Live, ItemAt, Item, TypeInv, TableInv, Entry, Placed
  <2>3. stack' \in Seq(Frame) /\ stack' # <<>>
    <3>1. Top \in Frame /\ stack \in Seq(Frame) /\ Len(stack) \in 1..Len(stack)
      BY <1>0, TopType
    <3>2. Append(Top.todo, ItemAt(k)) \in Seq(Item)
      BY <2>2, <3>1 DEF Frame
    <3>3. [Top EXCEPT !.todo = Append(Top.todo, ItemAt(k))] \in Frame
      BY <3>1, <3>2 DEF Frame
    <3>4. [stack EXCEPT ![Len(stack)] = [Top EXCEPT !.todo = Append(Top.todo, ItemAt(k))]]
            \in Seq(Frame)
      BY <3>1, <3>3
    <3>5. stack' = IF IsValidAt(ht[k].exp, now)
                   THEN [stack EXCEPT ![Len(stack)]
                                        = [Top EXCEPT !.todo = Append(Top.todo, ItemAt(k))]]
                   ELSE stack
      BY <2>1 DEF Top
    <3> QED
      BY <3>1, <3>4, <3>5
  <2>4. ControlInv' /\ pc' # "striping"
    BY <1>0, <1>2, <2>3 DEF CopyEntry, TypeInv, ControlInv, segments, Placed
  <2> QED
    BY <1>0, <1>2, <2>4, ControlStep DEF CopyEntry
<1>3. CASE CopyFails
  <2>1. stack' \in Seq(Frame) /\ stack' # <<>>
    <3>1. Top \in Frame /\ stack \in Seq(Frame) /\ Len(stack) \in 1..Len(stack)
      BY <1>0, TopType
    <3>2. [Top EXCEPT !.todo = <<>>] \in Frame
      <4>1. <<>> \in Seq(Item)
        OBVIOUS
      <4> QED
        BY <3>1, <4>1 DEF Frame
    <3>3. stack' = [stack EXCEPT ![Len(stack)] = [Top EXCEPT !.todo = <<>>]]
      BY <1>3 DEF CopyFails, Top
    <3> QED
      BY <3>1, <3>2, <3>3
  <2>2. recycled' \in BOOLEAN /\ pc' = "fail" /\ cur' = 1 /\ cleared' = 0
    BY <1>3 DEF CopyFails, Enter
  <2>3. ControlInv'
    BY <1>0, <1>3, <2>1, <2>2 DEF CopyFails, TypeInv, ControlInv, segments, Placed, Locations
  <2> QED
    BY <1>0, <1>3, <2>2, <2>3, ControlStep DEF CopyFails
<1>4. CASE Copied
  <2>1. TableInv' /\ MemoryInv'
    BY <1>4, ClearTableType DEF Copied, segments
  <2>2. Enter("rearrange") /\ UNCHANGED <<segments, now, nstr, limit, stack, new>>
    BY <1>4 DEF Copied, segments
  <2>3. ControlInv' /\ pc' # "striping"
    BY <1>0, <2>2, EnterType DEF Locations, Enter
  <2> QED
    BY <1>0, <2>1, <2>2, <2>3, SameSegments DEF TypeInv
<1>5. CASE RearrangeEntry
  <2>1. Top \in Frame /\ stack \in Seq(Frame) /\ Len(stack) \in 1..Len(stack)
    BY <1>0, TopType
  <2>2. Top.todo \in Seq(Item) /\ Top.todo # <<>>
    BY <1>5, <2>1 DEF RearrangeEntry, Frame
  <2>3. Head(Top.todo) \in Item /\ Tail(Top.todo) \in Seq(Item)
    BY <2>2
  <2>4. [Top EXCEPT !.todo = Tail(Top.todo)] \in Frame
    BY <2>1, <2>3 DEF Frame
  <2> DEFINE callers == [stack EXCEPT ![Len(stack)] = [Top EXCEPT !.todo = Tail(Top.todo)]]
  <2>5. callers \in Seq(Frame)
    BY <2>1, <2>4
  <2>6. CallSet(callers, Head(Top.todo)) /\ limit' = limit
        /\ UNCHANGED <<table, memory, segments, now, nstr>>
    BY <1>5 DEF RearrangeEntry, Top, segments
  <2> HIDE DEF callers
  <2>7. ControlInv' /\ pc' # "striping"
    BY <2>3, <2>5, <2>6, CallSetType DEF TypeInv, ControlInv
  <2> QED
    BY <1>0, <2>6, <2>7, SameTable, SameMemory, SameSegments DEF TypeInv
<1>6. CASE Rearranged
  BY <1>6, JumpType DEF Rearranged, Locations
<1> QED
  BY <1>1, <1>2, <1>3, <1>4, <1>5, <1>6

LEMMA EndType ==
  ASSUME TypeInv, Link \/ ReturnError \/ Crash \/ Recover
  PROVE  TypeInv'
<1>1. CASE Link
  <2> DEFINE k == Top.key
  <2>1. pc = "link" /\ k \in Keys /\ stack # <<>>
    BY <1>1, TopType DEF Link, Frame
  <2>2. new \in Entry /\ Placed(new) /\ new.str # 0
    BY <2>1 DEF TypeInv, ControlInv
  <2>3. UNCHANGED <<segments, now, nstr>> /\ Return("rearrange") /\ ht' = [ht EXCEPT ![k] = new]
    BY <1>1 DEF Link, segments
  <2>4. ControlInv' /\ pc' # "striping"
    BY <2>1, <2>3, ReturnType
  <2>5. Offset(new) \in Stripings \X (0..StripingSize)
    BY <2>2, Bounds DEF Offset, Entry, Stripings
  <2>6. ht' \in [Keys -> Entry] /\ \A l \in Keys : Placed(ht[l])'
    BY <2>1, <2>2, <2>3 DEF TypeInv, TableInv, Placed
  <2>7. list' \in Seq(Stripings \X (0..StripingSize)) /\ count' \in Int
    <3>1. list \in Seq(Stripings \X (0..StripingSize)) /\ count \in Int
      BY DEF TypeInv, TableInv
    <3>2. Without(list, Offset(ht[k])) \in Seq(Stripings \X (0..StripingSize))
      BY <3>1, WithoutType
    <3>a. /\ Append(list, Offset(new)) \in Seq(Stripings \X (0..StripingSize))
          /\ Append(Without(list, Offset(ht[k])), Offset(new))
               \in Seq(Stripings \X (0..StripingSize))
      BY <2>5, <3>1, <3>2, AppendProperties
    <3>3. CASE Live(k)
      <4>1. list' = Append(Without(list, Offset(ht[k])), Offset(new)) /\ count' = count
        BY <1>1, <3>3 DEF Link
      <4> QED
        BY <3>a, <3>1, <4>1
    <3>4. CASE ~Live(k)
      <4>1. list' = Append(list, Offset(new)) /\ count' = count + 1
        BY <1>1, <3>4 DEF Link
      <4> QED
        BY <3>a, <3>1, <4>1
    <3> QED
      BY <3>3, <3>4
  <2>8. MemoryInv'
    <3>1. CASE Live(k)
      <4>1. FreeValue(ht[k])
        BY <1>1, <3>1 DEF Link
      <4> QED
        BY <2>1, <2>3, <3>1, <4>1, FreeValueType
    <3>2. CASE ~Live(k)
      BY <1>1, <2>3, <3>2, SameMemory DEF Link
    <3> QED
      BY <3>1, <3>2
  <2> QED
    BY <2>1, <2>3, <2>4, <2>6, <2>7, <2>8, SameSegments DEF TypeInv, TableInv
<1>2. CASE ReturnError
  <2>1. pc = "fail" /\ stack # <<>> /\ Return("fail") /\ UNCHANGED <<segments, now, nstr>>
    BY <1>2 DEF ReturnError, TypeInv, ControlInv, segments
  <2>2. ControlInv' /\ pc' # "striping"
    BY <2>1, ReturnType
  <2>3. TableInv' /\ MemoryInv'
    BY <1>2, <2>1, SameTable, SameMemory, ClearTableType DEF ReturnError
  <2> QED
    BY <2>1, <2>2, <2>3, SameSegments DEF TypeInv
<1>3. CASE Crash
  <2>1. UNCHANGED <<table, memory, segments, now, new>> /\ UNCHANGED <<segCount, nstr, alloced>>
    BY <1>3 DEF Crash, segments
  <2>2. pc' = "crashed" /\ cur' = 1 /\ cleared' = 0 /\ stack' = <<>> /\ limit' = 0
    BY <1>3 DEF Crash, Enter
  <2>3. recycled' \in BOOLEAN
    BY <1>3 DEF Crash, Enter
  <2>4. ControlInv'
    BY <2>1, <2>2, <2>3, CacheAssumption DEF TypeInv, ControlInv, Placed, Locations
  <2>5. SegmentInv'
    <3>1. segCount * StripingsPerSegment \in Nat
      BY Bounds, Times DEF TypeInv, SegmentInv
    <3>2. nstr <= segCount * StripingsPerSegment
      BY <3>1, Bounds DEF TypeInv, SegmentInv, ControlInv
    <3> QED
      BY <2>1, <2>2, <3>2 DEF TypeInv, SegmentInv
  <2> QED
    BY <2>1, <2>4, <2>5, SameTable, SameMemory DEF TypeInv
<1>4. CASE Recover
  <2>1. TableInv' /\ MemoryInv'
    BY <1>4, ClearTableType DEF Recover, segments
  <2>2. pc = "crashed" /\ pc' = "idle" /\ cur' = 1 /\ cleared' = 0 /\ new' = NoEntry
        /\ UNCHANGED <<segments, now, nstr, limit, stack>>
    BY <1>4 DEF Recover, Enter, segments
  <2>3. recycled' \in BOOLEAN
    BY <1>4 DEF Recover, Enter
  <2>4. ControlInv'
    BY <2>2, <2>3, NoEntryType DEF TypeInv, ControlInv, Placed, Locations
  <2> QED
    BY <2>1, <2>2, <2>4, SameSegments DEF TypeInv
<1> QED
  BY <1>1, <1>2, <1>3, <1>4

LEMMA TypeStep == TypeInv /\ [Next]_vars => TypeInv'
<1> SUFFICES ASSUME TypeInv, [Next]_vars PROVE TypeInv'
  OBVIOUS
<1>1. CASE Request
  BY <1>1, RequestType
<1>2. CASE Step
  BY <1>2, RecycleType, AllocType, SegmentType, RearrangeType, EndType DEF Step
<1>3. CASE Tick
  <2>1. UNCHANGED <<table, memory, segments, new>> /\ pc = "idle" /\ pc' = "idle"
    BY <1>3 DEF Tick, locals
  <2>2. ControlInv'
    BY <1>3 DEF Tick, TypeInv, ControlInv, segments, locals, Placed
  <2> QED
    BY <2>1, <2>2, ControlStep
<1>4. CASE Crash
  BY <1>4, EndType
<1>5. CASE UNCHANGED vars
  <2>1. UNCHANGED <<table, memory, segments, nstr>>
    BY <1>5 DEF vars, segments
  <2>2. SegmentInv' /\ ControlInv'
    BY <1>5 DEF TypeInv, SegmentInv, ControlInv, vars, segments, locals, Placed
  <2> QED
    BY <2>1, <2>2, SameTable, SameMemory DEF TypeInv
<1> QED
  BY <1>1, <1>2, <1>3, <1>4, <1>5 DEF Next

\* Every reachable state of the cache is well typed, whatever the sizes, the
\* policy and the number of keys: in particular no free size of a striping
\* leaves 0..StripingSize and no striping is numbered past MaxStripings, so
\* that shmopt_create_value_segment never writes past the allocators' array.
THEOREM TypeCorrect == Spec => []TypeOK
<1>1. Init => TypeInv
  BY TypeInit
<1>2. TypeInv /\ [Next]_vars => TypeInv'
  BY TypeStep
<1>3. TypeInv => TypeOK
  BY InvImpliesTypeOK
<1> QED
  BY <1>1, <1>2, <1>3, PTL DEF Spec

=============================================================================
