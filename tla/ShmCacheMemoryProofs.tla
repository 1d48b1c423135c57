------------------------- MODULE ShmCacheMemoryProofs -------------------------
(***************************************************************************)
(* Proofs that the memory of ShmCache stays sound, for every configuration *)
(* and any number of keys, stripings and segments, nested rearrangements   *)
(* and kills included, and that what a client sees is the FIFO cache of    *)
(* FifoCache.                                                              *)
(***************************************************************************)
EXTENDS ShmCacheProofs, NaturalsInduction, WellFoundedInduction

(***************************************************************************)
(* What a step does to the table and the memory.  Most steps only move     *)
(* control, and the others do one of six things.                           *)
(***************************************************************************)
Stays == UNCHANGED <<table, memory, nstr, new>>

Clears == ClearTable /\ new' = NoEntry /\ UNCHANGED nstr

Unlinks(k) == /\ Live(k)
              /\ ht' = [ht EXCEPT ![k] = NoEntry]
              /\ count' = count - 1
              /\ list' = Without(list, Offset(ht[k]))
              /\ FreeValue(ht[k])
              /\ new = NoEntry /\ UNCHANGED <<nstr, new>>

Touches(k) == /\ Live(k)
              /\ \E exp \in Nat : ht' = [ht EXCEPT ![k].exp = exp]
              /\ UNCHANGED <<count, list, memory, nstr, new>>

\* The activation that is running links what it allocated.
Links == Link /\ UNCHANGED nstr /\ new.str # 0 /\ new' = NoEntry

Effect == \/ Stays
          \/ Clears
          \/ \E k \in Keys : Unlinks(k) \/ Touches(k)
          \/ AllocFits \/ AllocMisses \/ AddStriping \/ Links

LEMMA NoNew == ASSUME TypeInv, pc \notin {"link", "crashed"} PROVE new = NoEntry
  BY DEF TypeInv, ControlInv

LEMMA StepEffect == ASSUME TypeInv, [Next]_vars PROVE Effect
<1>1. ASSUME NEW k \in Keys, NEW v \in Values, NEW ttl \in TTLs, Set(k, v, ttl)
      PROVE  Stays
  BY <1>1, NoNew DEF Set, CallSet, Stays, segments
<1>2. ASSUME NEW k \in Keys, NEW ttl \in TTLs, Incr(k, ttl)
      PROVE  Stays
  BY <1>2, NoNew DEF Incr, CallSet, Stays, segments
<1>3. ASSUME NEW k \in Keys, Delete(k)
      PROVE  Unlinks(k)
  BY <1>3, NoNew DEF Delete, Unlinks, segments, locals
<1>4. ASSUME NEW k \in Keys, NEW ttl \in TTLs, SetExpires(k, CalcExpires(now, ttl))
      PROVE  Touches(k)
  <2>1. CalcExpires(now, ttl) \in Nat
    BY CacheAssumption DEF CalcExpires, TypeInv, ControlInv
  <2> QED
    BY <1>4, <2>1 DEF SetExpires, Touches, segments, locals
<1>5. CASE Clear
  BY <1>5, NoNew DEF Effect, Clear, Clears, segments, locals
<1>6. CASE Tick \/ Crash \/ UNCHANGED vars
  BY <1>6 DEF Effect, Tick, Crash, vars, Stays, segments, locals
<1>7. CASE RecycleSkip \/ RecycleFails \/ AllocFails
  BY <1>7 DEF Effect, RecycleSkip, RecycleFails, AllocFails, Stays, segments
<1>8. CASE RecycleEntry
  <2>1. PICK k \in Keys : /\ EntryAt(k)
                          /\ ht' = [ht EXCEPT ![k] = NoEntry]
                          /\ count' = count - 1
                          /\ list' = Without(list, Offset(ht[k]))
                          /\ FreeValue(ht[k])
    BY <1>8 DEF RecycleEntry
  <2>2. new = NoEntry /\ UNCHANGED <<nstr, new>>
    BY <1>8, NoNew DEF RecycleEntry, Recycling, segments
  <2>3. Unlinks(k)
    BY <2>1, <2>2 DEF Unlinks, EntryAt
  <2> QED
    BY <2>3 DEF Effect
<1>9. CASE CreateSegment \/ CreateSegmentFails \/ SegmentCreated \/ TryRearrange
  BY <1>9 DEF Effect, CreateSegment, CreateSegmentFails, SegmentCreated, TryRearrange, Stays, segments
<1>10. CASE CopyEntry \/ CopyFails \/ Rearranged
  BY <1>10 DEF Effect, CopyEntry, CopyFails, Rearranged, Stays, segments
<1>11. CASE RearrangeEntry
  BY <1>11, NoNew DEF Effect, RearrangeEntry, CallSet, Stays, segments
<1>12. CASE Copied
  BY <1>12, NoNew DEF Effect, Copied, Clears, segments
<1>13. CASE Recover
  BY <1>13 DEF Effect, Recover, Clears, segments
<1>14. CASE ReturnError
  <2>1. new = NoEntry /\ new' = NoEntry /\ UNCHANGED nstr
    BY <1>14, NoNew DEF ReturnError, Return, segments
  <2> QED
    BY <1>14, <2>1 DEF ReturnError, Effect, Stays, Clears
<1>15. CASE Link
  BY <1>15 DEF Link, Links, Return, segments, Effect, TypeInv, ControlInv
<1> QED
  BY <1>1, <1>2, <1>3, <1>4, <1>5, <1>6, <1>7, <1>8, <1>9, <1>10, <1>11, <1>12, <1>13, <1>14, <1>15
  DEF Next, Request, Step, Effect
-----------------------------------------------------------------------------
(* Sequences without duplicates                                            *)

Distinct(s) == \A i, j \in DOMAIN s : s[i] = s[j] => i = j

LEMMA RemoveAtElements ==
  ASSUME NEW T, NEW s \in Seq(T), NEW i \in 1..Len(s)
  PROVE  /\ Len(RemoveAt(s, i)) = Len(s) - 1
         /\ \A j \in 1..(Len(s) - 1) : RemoveAt(s, i)[j] = IF j < i THEN s[j] ELSE s[j + 1]
<1> DEFINE a == SubSeq(s, 1, i - 1)
           b == SubSeq(s, i + 1, Len(s))
<1>1. Len(s) \in Nat /\ i \in Nat /\ i >= 1 /\ i <= Len(s)
  OBVIOUS
<1>2. a \in Seq(T) /\ Len(a) = i - 1 /\ \A j \in 1..(i - 1) : a[j] = s[j]
  BY <1>1
<1>3. b \in Seq(T) /\ Len(b) = Len(s) - i /\ \A j \in 1..(Len(s) - i) : b[j] = s[i + j]
  BY <1>1
<1>4. RemoveAt(s, i) = a \o b
  BY DEF RemoveAt
<1> HIDE DEF a, b
<1>5. /\ Len(a \o b) = Len(a) + Len(b)
      /\ \A j \in 1..(Len(a) + Len(b)) :
           (a \o b)[j] = IF j <= Len(a) THEN a[j] ELSE b[j - Len(a)]
  BY <1>2, <1>3, ConcatProperties, Zenon
<1>6. Len(a) + Len(b) = Len(s) - 1
  BY <1>1, <1>2, <1>3
<1>7. ASSUME NEW j \in 1..(Len(s) - 1)
      PROVE  (a \o b)[j] = IF j < i THEN s[j] ELSE s[j + 1]
  <2>1. CASE j < i
    BY <2>1, <1>1, <1>2, <1>5, <1>6
  <2>2. CASE ~(j < i)
    <3>1. j - Len(a) \in 1..(Len(s) - i) /\ ~(j <= Len(a)) /\ i + (j - Len(a)) = j + 1
      BY <2>2, <1>1, <1>2
    <3> QED
      BY <2>2, <3>1, <1>3, <1>5, <1>6
  <2> QED
    BY <2>1, <2>2
<1> QED
  BY <1>4, <1>5, <1>6, <1>7

LEMMA RemoveAtDistinct ==
  ASSUME NEW T, NEW s \in Seq(T), NEW i \in 1..Len(s), Distinct(s)
  PROVE  /\ Distinct(RemoveAt(s, i))
         /\ \A x : Contains(RemoveAt(s, i), x) <=> Contains(s, x) /\ x # s[i]
<1> DEFINE r == RemoveAt(s, i)
           n == Len(s)
<1>1. n \in Nat /\ i \in Nat /\ i >= 1 /\ i <= n /\ DOMAIN s = 1..n
  OBVIOUS
<1>2. r \in Seq(T) /\ Len(r) = n - 1 /\ DOMAIN r = 1..(n - 1)
  <2>1. r \in Seq(T) /\ Len(r) = n - 1
    BY RemoveAtElements, RemoveAtType
  <2> HIDE DEF r
  <2> QED
    BY <2>1
<1>3. \A j \in 1..(n - 1) : r[j] = IF j < i THEN s[j] ELSE s[j + 1]
  BY RemoveAtElements
<1>4. \A j, k \in 1..n : s[j] = s[k] => j = k
  BY <1>1 DEF Distinct
<1> HIDE DEF r, n
<1>5. ASSUME NEW j \in 1..(n - 1), NEW k \in 1..(n - 1), r[j] = r[k]
      PROVE  j = k
  <2> DEFINE From(m) == IF m < i THEN m ELSE m + 1
  <2>1. From(j) \in 1..n /\ From(k) \in 1..n
    BY <1>1
  <2>2. r[j] = s[From(j)] /\ r[k] = s[From(k)]
    BY <1>3
  <2>3. From(j) = From(k)
    BY <1>4, <1>5, <2>1, <2>2
  <2> QED
    BY <1>1, <2>3
<1>6. ASSUME NEW x, Contains(r, x) PROVE Contains(s, x) /\ x # s[i]
  <2>1. PICK j \in 1..(n - 1) : r[j] = x
    BY <1>2, <1>6 DEF Contains
  <2>2. j \in 1..n /\ j + 1 \in 1..n
    BY <1>1
  <2> QED
    BY <1>1, <1>3, <1>4, <2>1, <2>2 DEF Contains, n
<1>7. ASSUME NEW x, Contains(s, x), x # s[i] PROVE Contains(r, x)
  <2>1. PICK j \in 1..n : s[j] = x
    BY <1>7 DEF Contains, n
  <2>2. CASE j < i
    <3>1. j \in 1..(n - 1) /\ r[j] = x
      BY <2>1, <2>2, <1>1, <1>3
    <3> QED
      BY <3>1, <1>2 DEF Contains
  <2>3. CASE j > i
    <3>1. j - 1 \in 1..(n - 1) /\ ~(j - 1 < i) /\ (j - 1) + 1 = j
      BY <2>1, <2>3, <1>1
    <3>2. r[j - 1] = x
      BY <3>1, <2>1, <1>3
    <3> QED
      BY <3>1, <3>2, <1>2 DEF Contains
  <2> QED
    BY <1>7, <2>1, <2>2, <2>3, <1>1
<1> QED
  BY <1>2, <1>5, <1>6, <1>7 DEF Distinct, r

LEMMA AppendDistinct ==
  ASSUME NEW T, NEW s \in Seq(T), NEW x \in T, Distinct(s), ~Contains(s, x)
  PROVE  /\ Distinct(Append(s, x))
         /\ \A y : Contains(Append(s, x), y) <=> Contains(s, y) \/ y = x
<1> DEFINE n == Len(s)
           a == Append(s, x)
<1>1. n \in Nat /\ Len(a) = n + 1 /\ DOMAIN s = 1..n /\ DOMAIN a = 1..(n + 1)
  OBVIOUS
<1>2. a[n + 1] = x /\ \A i \in 1..n : a[i] = s[i]
  OBVIOUS
<1>3. \A i, j \in 1..n : s[i] = s[j] => i = j
  BY <1>1 DEF Distinct
<1>4. \A i \in 1..n : s[i] # x
  BY DEF Contains
<1>5. \A y : Contains(s, y) <=> \E i \in 1..n : s[i] = y
  BY DEF Contains
<1>6. \A y : Contains(a, y) <=> \E i \in 1..(n + 1) : a[i] = y
  BY <1>1 DEF Contains
<1> HIDE DEF n, a
<1>7. 1..(n + 1) = 1..n \cup {n + 1}
  BY <1>1
<1>8. \A i, j \in 1..(n + 1) : a[i] = a[j] => i = j
  BY <1>1, <1>2, <1>3, <1>4, <1>7
<1>9. \A y : Contains(a, y) <=> Contains(s, y) \/ y = x
  BY <1>2, <1>5, <1>6, <1>7
<1> QED
  BY <1>1, <1>8, <1>9 DEF Distinct, a

LEMMA WithoutDistinct ==
  ASSUME NEW T, NEW s \in Seq(T), NEW x, Distinct(s)
  PROVE  /\ Distinct(Without(s, x))
         /\ \A y : Contains(Without(s, x), y) <=> Contains(s, y) /\ y # x
         /\ Contains(s, x) => Len(Without(s, x)) = Len(s) - 1
<1>1. CASE Contains(s, x)
  <2> DEFINE i == CHOOSE j \in 1..Len(s) : s[j] = x
  <2>1. i \in 1..Len(s) /\ s[i] = x
    BY <1>1 DEF Contains
  <2>2. Without(s, x) = RemoveAt(s, i)
    BY <1>1 DEF Without
  <2> HIDE DEF i
  <2> QED
    BY <2>1, <2>2, RemoveAtDistinct, RemoveAtElements
<1>2. CASE ~Contains(s, x)
  <2>1. Without(s, x) = s
    BY <1>2 DEF Without
  <2> QED
    BY <1>2, <2>1
<1> QED
  BY <1>1, <1>2
-----------------------------------------------------------------------------
(* The two queues                                                          *)

\* A live entry lies in a striping that exists.
LEMMA LivePlaced ==
  ASSUME TypeInv, NEW k \in Keys, Live(k)
  PROVE  /\ ht[k] \in Entry
         /\ ht[k].str \in 1..nstr /\ ht[k].str \in Stripings
         /\ ht[k].val \in Values
         /\ strip \in [Stripings -> StripingType]
         /\ strip[ht[k].str] \in StripingType
         /\ ht[k].off \in 0..StripingSize
         /\ SizeOf[ht[k].val] \in Nat /\ SizeOf[ht[k].val] >= 1
<1>1. ht[k] \in Entry /\ ht[k].str \in 1..nstr /\ ht[k].val \in Values
  BY DEF TypeInv, TableInv, Placed, Live
<1>2. ht[k].str \in Stripings
  BY <1>1, Room, Bounds DEF Stripings
<1>3. strip \in [Stripings -> StripingType]
  BY DEF TypeInv, MemoryInv
<1>4. strip[ht[k].str] \in StripingType
  BY <1>2, <1>3
<1> QED
  BY <1>1, <1>2, <1>3, <1>4, Bounds DEF Entry

LEMMA SomeStripings == ASSUME TypeInv
                       PROVE  /\ 1..nstr \subseteq Stripings
                              /\ strip \in [Stripings -> StripingType]
                              /\ doing \in Seq(1..nstr) /\ done \in Seq(1..nstr)
                              /\ nstr \in Nat
  BY Room, Bounds DEF TypeInv, MemoryInv, Stripings, SegmentInv

\* What shm_value_allocator_free does to the allocators.
LEMMA FreedStripings ==
  ASSUME TypeInv, NEW k \in Keys, Live(k), FreeValue(ht[k])
  PROVE  LET e == ht[k]
         IN  /\ \A s \in Stripings \ {e.str} : strip'[s] = strip[s]
             /\ Emptied(e) => /\ strip'[e.str].free = 0
                              /\ strip'[e.str].used = 0
             /\ ~Emptied(e) => /\ strip'[e.str].free = strip[e.str].free
                               /\ strip'[e.str].used = UsedAfterFree(e)
             /\ strip'[e.str].pool = IF Requeued(e) THEN "doing" ELSE strip[e.str].pool
<1> DEFINE e == ht[k]
<1>1. e.str \in Stripings /\ strip \in [Stripings -> StripingType] /\ strip[e.str] \in StripingType
  BY LivePlaced
<1>2. strip' = [strip EXCEPT ![e.str] =
                 IF Emptied(e)
                 THEN ResetStriping(IF Requeued(e) THEN "doing" ELSE strip[e.str].pool)
                 ELSE [strip[e.str] EXCEPT !.used = UsedAfterFree(e)]]
  BY DEF FreeValue
<1>3. Requeued(e) => Emptied(e)
  BY DEF Requeued
<1> HIDE DEF e
<1>4. \A s \in Stripings \ {e.str} : strip'[s] = strip[s]
  BY <1>1, <1>2
<1>5. CASE Emptied(e)
  <2>1. strip'[e.str] = ResetStriping(IF Requeued(e) THEN "doing" ELSE strip[e.str].pool)
    BY <1>1, <1>2, <1>5
  <2> QED
    BY <1>4, <1>5, <2>1 DEF ResetStriping, e
<1>6. CASE ~Emptied(e)
  <2>1. strip'[e.str] = [strip[e.str] EXCEPT !.used = UsedAfterFree(e)]
    BY <1>1, <1>2, <1>6
  <2>2. /\ strip'[e.str].free = strip[e.str].free
        /\ strip'[e.str].used = UsedAfterFree(e)
        /\ strip'[e.str].pool = strip[e.str].pool
    BY <1>1, <2>1 DEF StripingType
  <2> QED
    BY <1>3, <1>4, <1>6, <2>2 DEF e
<1> QED
  BY <1>5, <1>6

LEMMA FreedQueues ==
  ASSUME TypeInv, QueuesSound, NEW k \in Keys, Live(k), FreeValue(ht[k]), UNCHANGED nstr
  PROVE  QueuesSound'
<1> DEFINE e == ht[k]
<1>1. e.str \in 1..nstr /\ e.str \in Stripings
  BY LivePlaced
<1>2. 1..nstr \subseteq Stripings /\ doing \in Seq(1..nstr) /\ done \in Seq(1..nstr)
  BY SomeStripings
<1>3. /\ \A s \in Stripings \ {e.str} : strip'[s] = strip[s]
      /\ strip'[e.str].pool = IF Requeued(e) THEN "doing" ELSE strip[e.str].pool
  BY FreedStripings
<1>4. /\ done' = IF Requeued(e) THEN Without(done, e.str) ELSE done
      /\ doing' = IF Requeued(e) THEN Append(doing, e.str) ELSE doing
  BY DEF FreeValue
<1>5. Distinct(doing) /\ Distinct(done)
  BY DEF QueuesSound, Distinct
<1>6. \A s \in 1..nstr : /\ strip[s].pool = "done" <=> Contains(done, s)
                         /\ Contains(doing, s) => strip[s].pool = "doing"
  BY DEF QueuesSound
<1> HIDE DEF e
<1>7. CASE Requeued(e)
  <2>1. ~Contains(doing, e.str)
    BY <1>1, <1>6, <1>7 DEF Requeued
  <2>2. /\ Distinct(doing')
        /\ \A s : Contains(doing', s) <=> Contains(doing, s) \/ s = e.str
    <3>1. doing' = Append(doing, e.str)
      BY <1>4, <1>7
    <3>2. \A x \in 1..nstr : ~Contains(doing, x) =>
            /\ Distinct(Append(doing, x))
            /\ \A s : Contains(Append(doing, x), s) <=> Contains(doing, s) \/ s = x
      BY <1>2, <1>5, AppendDistinct
    <3> QED
      BY <1>1, <2>1, <3>1, <3>2, Zenon
  <2>3. /\ Distinct(done')
        /\ \A s : Contains(done', s) <=> Contains(done, s) /\ s # e.str
    BY <1>2, <1>4, <1>5, <1>7, WithoutDistinct
  <2> QED
    BY <1>1, <1>2, <1>3, <1>6, <1>7, <2>2, <2>3 DEF QueuesSound, Distinct
<1>8. CASE ~Requeued(e)
  BY <1>2, <1>3, <1>4, <1>5, <1>6, <1>8 DEF QueuesSound, Distinct
<1> QED
  BY <1>7, <1>8

LEMMA ClearedQueues ==
  ASSUME TypeInv, ClearTable, UNCHANGED nstr
  PROVE  QueuesSound'
<1>1. nstr \in Nat /\ 1..nstr \subseteq Stripings
  BY SomeStripings
<1>2. \A s \in 1..nstr : strip'[s].pool = "doing"
  BY <1>1 DEF ClearTable, ResetStriping
<1>3. done' = <<>> /\ doing' = [i \in 1..nstr |-> i]
  BY DEF ClearTable
<1>4. \A s : ~Contains(done', s)
  BY <1>3 DEF Contains
<1> QED
  BY <1>1, <1>2, <1>3, <1>4 DEF QueuesSound

LEMMA MissedQueues ==
  ASSUME TypeInv, QueuesSound, AllocMisses
  PROVE  QueuesSound'
<1> DEFINE s == doing[cur]
           filed == Discarded(s) /\ RemoveResult(cur) = s
<1>1. cur \in 1..Len(doing) /\ UNCHANGED nstr
  BY DEF AllocMisses, TypeInv, ControlInv, segments
<1>2. 1..nstr \subseteq Stripings /\ doing \in Seq(1..nstr) /\ done \in Seq(1..nstr)
      /\ strip \in [Stripings -> StripingType]
  BY SomeStripings
<1>3. s \in 1..nstr /\ s \in Stripings /\ Contains(doing, s)
  <2>1. s \in 1..nstr
    BY <1>1, <1>2, ElementOfSeq, Zenon
  <2>2. Contains(doing, s)
    BY <1>1, Zenon DEF Contains
  <2> QED
    BY <1>2, <2>1, <2>2
<1>4. /\ strip' = [strip EXCEPT ![s].fail = FailTimes(s),
                                ![s].pool = IF filed THEN "done" ELSE @]
      /\ doing' = IF Discarded(s) THEN RemoveAt(doing, cur) ELSE doing
      /\ done' = IF filed THEN Append(done, s) ELSE done
  BY DEF AllocMisses
<1>5. Distinct(doing) /\ Distinct(done)
  BY DEF QueuesSound, Distinct
<1>6. \A t \in 1..nstr : /\ strip[t].pool = "done" <=> Contains(done, t)
                         /\ Contains(doing, t) => strip[t].pool = "doing"
  BY DEF QueuesSound
<1>7. ~Contains(done, s)
  BY <1>3, <1>6
<1>8. filed => Discarded(s)
  OBVIOUS
<1>9. /\ \A t \in 1..nstr \ {s} : strip'[t].pool = strip[t].pool
      /\ strip'[s].pool = IF filed THEN "done" ELSE strip[s].pool
  <2> HIDE DEF filed
  <2> QED
    BY <1>2, <1>3, <1>4 DEF StripingType
<1> HIDE DEF filed
<1>10. /\ Distinct(doing')
       /\ \A t : Contains(doing', t) <=> Contains(doing, t) /\ (Discarded(s) => t # s)
  BY <1>1, <1>2, <1>4, <1>5, RemoveAtDistinct
<1>11. /\ Distinct(done')
       /\ \A t : Contains(done', t) <=> Contains(done, t) \/ (filed /\ t = s)
  <2>1. CASE filed
    <3>1. done' = Append(done, s)
      BY <1>4, <2>1
    <3>2. \A x \in 1..nstr : ~Contains(done, x) =>
            /\ Distinct(Append(done, x))
            /\ \A t : Contains(Append(done, x), t) <=> Contains(done, t) \/ t = x
      BY <1>2, <1>5, AppendDistinct
    <3> QED
      BY <1>3, <1>7, <2>1, <3>1, <3>2, Zenon
  <2>2. CASE ~filed
    BY <1>4, <1>5, <2>2
  <2> QED
    BY <2>1, <2>2
<1> HIDE DEF s
<1> QED
  BY <1>1, <1>3, <1>6, <1>7, <1>8, <1>9, <1>10, <1>11 DEF QueuesSound, Distinct

\* There is an allocator for the striping that is added.
LEMMA NextStriping == ASSUME TypeInv, AddStriping PROVE nstr + 1 \in Stripings
<1>1. segCount * StripingsPerSegment <= MaxStripings
  BY Bounds, Times DEF TypeInv, SegmentInv, MaxStripings
<1>2. segCount * StripingsPerSegment \in Nat
  BY Bounds, Times DEF TypeInv, SegmentInv
<1>3. nstr \in Nat
  BY SomeStripings
<1> QED
  BY <1>1, <1>2, <1>3, Bounds DEF AddStriping, TypeInv, SegmentInv, ControlInv, Stripings

LEMMA AddedQueues ==
  ASSUME TypeInv, QueuesSound, AddStriping
  PROVE  QueuesSound'
<1> DEFINE n == nstr + 1
<1>1. /\ 1..nstr \subseteq Stripings /\ doing \in Seq(1..nstr) /\ done \in Seq(1..nstr)
      /\ strip \in [Stripings -> StripingType] /\ nstr \in Nat
  BY SomeStripings
<1>2. n \in Stripings
  BY NextStriping
<1>3. /\ nstr' = n /\ strip' = [strip EXCEPT ![n] = ResetStriping("doing")]
      /\ doing' = Append(doing, n) /\ done' = done
  BY DEF AddStriping
<1>4. ~Contains(doing, n) /\ ~Contains(done, n)
  BY <1>1 DEF Contains
<1>5. Distinct(doing) /\ Distinct(done)
  BY DEF QueuesSound, Distinct
<1>6. \A s \in 1..nstr : /\ strip[s].pool = "done" <=> Contains(done, s)
                         /\ Contains(doing, s) => strip[s].pool = "doing"
  BY DEF QueuesSound
<1>7. /\ Distinct(doing')
      /\ \A s : Contains(doing', s) <=> Contains(doing, s) \/ s = n
  <2>1. doing \in Seq(1..n) /\ n \in 1..n
    BY <1>1, WidenSeq
  <2> QED
    BY <1>3, <1>4, <1>5, <2>1, AppendDistinct
<1>8. /\ \A s \in 1..nstr : strip'[s] = strip[s]
      /\ strip'[n].pool = "doing"
      /\ 1..n = 1..nstr \cup {n}
  BY <1>1, <1>2, <1>3 DEF ResetStriping
<1> HIDE DEF n
<1> QED
  BY <1>3, <1>4, <1>5, <1>6, <1>7, <1>8 DEF QueuesSound, Distinct

LEMMA QueuesStep == ASSUME TypeInv, QueuesSound, Effect PROVE QueuesSound'
<1>1. CASE Stays
  BY <1>1 DEF Stays, memory, QueuesSound, Contains
<1>2. CASE Clears
  BY <1>2, ClearedQueues DEF Clears
<1>3. ASSUME NEW k \in Keys, Unlinks(k) PROVE QueuesSound'
  BY <1>3, FreedQueues DEF Unlinks
<1>4. ASSUME NEW k \in Keys, Touches(k) PROVE QueuesSound'
  BY <1>4 DEF Touches, memory, QueuesSound, Contains
<1>5. CASE AllocFits
  <2> DEFINE s == doing[cur]
             size == SizeOf[Top.val]
  <2>1. UNCHANGED <<doing, done, nstr>>
    BY <1>5 DEF AllocFits, segments
  <2>2. cur \in 1..Len(doing)
    BY <1>5 DEF AllocFits, TypeInv, ControlInv
  <2>3. 1..nstr \subseteq Stripings /\ doing \in Seq(1..nstr) /\ strip \in [Stripings -> StripingType]
    BY SomeStripings
  <2>4. strip' = [strip EXCEPT ![s].free = @ + size, ![s].used = @ + size, ![s].last = now]
    BY <1>5 DEF AllocFits
  <2> HIDE DEF s, size
  <2>5. \A t \in 1..nstr : strip'[t].pool = strip[t].pool
    BY <2>3, <2>4 DEF StripingType
  <2> QED
    BY <2>1, <2>5 DEF QueuesSound, Contains
<1>6. CASE AllocMisses
  BY <1>6, MissedQueues
<1>7. CASE AddStriping
  BY <1>7, AddedQueues
<1>8. CASE Links
  <2>1. Top.key \in Keys
    <3>1. Top \in Frame
      BY <1>8, TopType DEF Links, Link
    <3> QED
      BY <3>1 DEF Frame
  <2>2. CASE Live(Top.key)
    <3>1. FreeValue(ht[Top.key]) /\ UNCHANGED nstr
      BY <1>8, <2>2 DEF Links, Link
    <3> QED
      BY <2>1, <2>2, <3>1, FreedQueues
  <2>3. CASE ~Live(Top.key)
    <3>1. UNCHANGED memory /\ UNCHANGED nstr
      BY <1>8, <2>3 DEF Links, Link
    <3> QED
      BY <3>1 DEF memory, QueuesSound, Contains
  <2> QED
    BY <2>2, <2>3
<1> QED
  BY <1>1, <1>2, <1>3, <1>4, <1>5, <1>6, <1>7, <1>8 DEF Effect
-----------------------------------------------------------------------------
(* What entries occupy                                                     *)

LEMMA UnitsOf ==
  ASSUME NEW e, e.off \in Nat, e.val \in Values
  PROVE  /\ IsFiniteSet(Units(e))
         /\ Cardinality(Units(e)) = SizeOf[e.val]
         /\ \A u \in Units(e) : /\ u[1] = e.str
                                /\ u[2] \in Nat /\ e.off <= u[2]
                                /\ u[2] < e.off + SizeOf[e.val]
         /\ Offset(e) \in Units(e)
<1> DEFINE a == e.off
           b == e.off + SizeOf[e.val] - 1
<1>1. a \in Nat /\ b \in Int /\ SizeOf[e.val] \in Nat /\ a <= b /\ b - a + 1 = SizeOf[e.val]
  BY Bounds
<1>2. Units(e) = {e.str} \X (a..b)
  BY DEF Units
<1>3. \A u \in Units(e) : /\ u[1] = e.str
                          /\ u[2] \in Nat /\ e.off <= u[2]
                          /\ u[2] < e.off + SizeOf[e.val]
  BY <1>1, <1>2
<1>4. Offset(e) \in Units(e)
  BY <1>1, <1>2 DEF Offset
<1> HIDE DEF a, b
<1>5. IsFiniteSet(a..b) /\ Cardinality(a..b) = b - a + 1
  <2>1. \A x, y \in Int : /\ IsFiniteSet(x..y)
                         /\ Cardinality(x..y) = IF x > y THEN 0 ELSE y - x + 1
    BY FS_Interval, Zenon
  <2>2. a \in Int /\ b \in Int /\ ~(a > b)
    BY <1>1
  <2> QED
    BY <2>1, <2>2, Zenon
<1>6. IsFiniteSet({e.str}) /\ Cardinality({e.str}) = 1
  BY FS_Singleton, Zenon
<1>7. IsFiniteSet(Units(e)) /\ Cardinality(Units(e)) = 1 * Cardinality(a..b)
  <2>1. \A S, T : IsFiniteSet(S) /\ IsFiniteSet(T) =>
                    /\ IsFiniteSet(S \X T)
                    /\ Cardinality(S \X T) = Cardinality(S) * Cardinality(T)
    BY FS_Product, Zenon
  <2>2. /\ IsFiniteSet({e.str} \X (a..b))
        /\ Cardinality({e.str} \X (a..b)) = Cardinality({e.str}) * Cardinality(a..b)
    BY <1>5, <1>6, <2>1, Zenon
  <2> QED
    BY <1>2, <1>6, <2>2, Zenon
<1> QED
  BY <1>1, <1>3, <1>4, <1>5, <1>7

\* A live entry, and one about to be linked, have units.
LEMMA LiveUnits ==
  ASSUME TypeInv, NEW k \in LiveKeys
  PROVE  /\ k \in Keys /\ Live(k) /\ ht[k].off \in Nat /\ ht[k].val \in Values
         /\ Units(ht[k]) \subseteq Occupied
<1>1. k \in Keys /\ Live(k)
  BY DEF LiveKeys
<1>2. ht[k].off \in Nat /\ ht[k].val \in Values
  BY <1>1, LivePlaced, Bounds
<1> QED
  BY <1>1, <1>2 DEF Occupied

LEMMA NewUnits ==
  ASSUME TypeInv, new.str # 0
  PROVE  /\ new \in Entry /\ new.off \in Nat /\ new.val \in Values
         /\ new.str \in 1..nstr /\ new.str \in Stripings
         /\ Units(new) \subseteq Occupied
<1>1. new \in Entry /\ new.str \in 1..nstr /\ new.val \in Values
  BY DEF TypeInv, ControlInv, Placed
<1>2. new.off \in Nat
  BY <1>1, Bounds DEF Entry
<1>3. new.str \in Stripings
  BY <1>1, SomeStripings
<1>4. Units(new) \subseteq Occupied
  BY DEF Occupied
<1> QED
  BY <1>1, <1>2, <1>3, <1>4

\* The units in one striping.
Within(s) == {u \in Occupied : u[1] = s}

\* What the entries occupy is finite and the sizes count it.
CountInv == UsedExact /\ IsFiniteSet(Occupied)

LEMMA WithinFinite ==
  ASSUME CountInv, NEW s
  PROVE  /\ IsFiniteSet(Within(s)) /\ Cardinality(Within(s)) \in Nat
         /\ IsFiniteSet(Occupied) /\ Cardinality(Occupied) \in Nat
<1>1. IsFiniteSet(Occupied) /\ Within(s) \in SUBSET Occupied
  BY DEF CountInv, Within
<1> QED
  BY <1>1, FS_Subset, FS_CardinalityType

\* A striping is reset only when nothing else is live in it.
LEMMA EmptiedAlone ==
  ASSUME TypeInv, NoOverlap, CountInv, NEW k \in LiveKeys, Emptied(ht[k])
  PROVE  /\ Within(ht[k].str) = Units(ht[k])
         /\ \A l \in LiveKeys \ {k} : ht[l].str # ht[k].str
         /\ new.str # 0 => new.str # ht[k].str
<1> DEFINE e == ht[k]
           S == Within(e.str)
           T == Units(e)
<1>1. /\ e.str \in 1..nstr /\ SizeOf[e.val] \in Nat /\ e.off \in Nat /\ e.val \in Values
      /\ k \in Keys /\ Live(k)
  BY LiveUnits, LivePlaced
<1>2. IsFiniteSet(S) /\ Cardinality(S) \in Nat
  BY WithinFinite
<1>3. Cardinality(T) = SizeOf[e.val] /\ \A u \in T : u[1] = e.str
  BY <1>1, UnitsOf
<1>4. T \in SUBSET S
  BY <1>3, LiveUnits DEF Within
<1>5. Cardinality(S) <= SizeOf[e.val]
  <2>1. strip[e.str].used = Cardinality(S)
    BY <1>1 DEF CountInv, UsedExact, Within
  <2> QED
    BY <1>1, <1>2, <2>1 DEF Emptied, UsedAfterFree
<1> HIDE DEF S, T
<1>6. S = T
  <2>1. Cardinality(T) <= Cardinality(S) /\ (Cardinality(S) = Cardinality(T) => S = T)
    BY <1>2, <1>4, FS_Subset
  <2> QED
    BY <1>1, <1>2, <1>3, <1>5, <2>1
<1>7. ASSUME NEW l \in LiveKeys \ {k}, ht[l].str = ht[k].str PROVE FALSE
  <2>1. Offset(ht[l]) \in Units(ht[l]) /\ Offset(ht[l]) \in Occupied
    BY LiveUnits, UnitsOf
  <2>2. Offset(ht[l]) \in S
    BY <1>7, <2>1 DEF S, Within, Offset
  <2>3. Units(ht[k]) \cap Units(ht[l]) = {}
    BY DEF NoOverlap
  <2> QED
    BY <1>6, <2>1, <2>2, <2>3 DEF T
<1>8. ASSUME new.str # 0, new.str = ht[k].str PROVE FALSE
  <2>1. Offset(new) \in Units(new) /\ Offset(new) \in Occupied
    BY <1>8, NewUnits, UnitsOf
  <2>2. Offset(new) \in S
    BY <1>8, <2>1 DEF S, Within, Offset
  <2>3. Units(ht[k]) \cap Units(new) = {}
    BY <1>8 DEF NoOverlap
  <2> QED
    BY <1>6, <2>1, <2>2, <2>3 DEF T
<1> QED
  BY <1>6, <1>7, <1>8 DEF S, T

\* What is freed is no longer counted.
LEMMA FreedCount ==
  ASSUME TypeInv, NoOverlap, CountInv, NEW k \in LiveKeys, FreeValue(ht[k]), UNCHANGED nstr,
         Occupied' = Occupied \ Units(ht[k])
  PROVE  CountInv'
<1> DEFINE e == ht[k]
           T == Units(e)
<1>1. /\ e.str \in 1..nstr /\ e.str \in Stripings /\ SizeOf[e.val] \in Nat
      /\ e.off \in Nat /\ e.val \in Values /\ k \in Keys /\ Live(k)
      /\ T \subseteq Occupied
  BY LiveUnits, LivePlaced
<1>2. /\ IsFiniteSet(T) /\ Cardinality(T) = SizeOf[e.val]
      /\ \A u \in T : u[1] = e.str
  BY <1>1, UnitsOf
<1>3. IsFiniteSet(Occupied) /\ Cardinality(Occupied) \in Nat
  BY WithinFinite
<1>4. /\ IsFiniteSet(Occupied \ T)
      /\ Cardinality(Occupied \ T) = Cardinality(Occupied) - SizeOf[e.val]
  <2>1. Occupied \cap T = T
    BY <1>1
  <2> HIDE DEF T
  <2>2. /\ IsFiniteSet(Occupied \ T)
        /\ Cardinality(Occupied \ T) = Cardinality(Occupied) - Cardinality(Occupied \cap T)
    BY <1>3, FS_Difference
  <2> QED
    BY <1>2, <2>1, <2>2
<1>5. usedEntry' = Cardinality(Occupied')
  BY <1>4 DEF CountInv, UsedExact, FreeValue
<1>6. 1..nstr \subseteq Stripings
  BY SomeStripings
<1>7. ASSUME NEW s \in 1..nstr PROVE strip'[s].used = Cardinality({u \in Occupied' : u[1] = s})
  <2> DEFINE S == {u \in Occupied : u[1] = s}
             S2 == {u \in Occupied' : u[1] = s}
  <2>1. strip[s].used = Cardinality(S)
    BY DEF CountInv, UsedExact
  <2>2. CASE s # e.str
    <3>1. S2 = S
      BY <1>2, <2>2
    <3>2. strip'[s] = strip[s]
      BY <1>1, <1>6, <2>2, FreedStripings
    <3> QED
      BY <2>1, <3>1, <3>2
  <2>3. CASE s = e.str /\ Emptied(e)
    <3>1. S = T
      BY <2>3, EmptiedAlone DEF Within
    <3>2. S2 = {}
      BY <3>1
    <3>3. strip'[s].used = 0
      BY <1>1, <2>3, FreedStripings
    <3> QED
      BY <3>2, <3>3, FS_EmptySet
  <2>4. CASE s = e.str /\ ~Emptied(e)
    <3>1. T = S \cap T /\ S2 = S \ T
      BY <1>1, <1>2, <2>4
    <3>2. strip'[s].used = strip[s].used - SizeOf[e.val]
      BY <1>1, <2>4, FreedStripings DEF UsedAfterFree
    <3>3. IsFiniteSet(S)
      BY WithinFinite DEF Within
    <3> HIDE DEF S, T
    <3>4. Cardinality(S \ T) = Cardinality(S) - Cardinality(S \cap T)
      BY <3>3, FS_Difference
    <3> HIDE DEF S2
    <3>5. strip'[s].used = Cardinality(S2)
      BY <1>2, <2>1, <3>1, <3>2, <3>4
    <3> QED
      BY <3>5 DEF S2
  <2> QED
    BY <2>2, <2>3, <2>4
<1> QED
  BY <1>4, <1>5, <1>7 DEF CountInv, UsedExact

\* Nothing that stays has its striping reset.
LEMMA FreedFree ==
  ASSUME TypeInv, NoOverlap, CountInv, NEW k \in LiveKeys, FreeValue(ht[k])
  PROVE  /\ \A l \in LiveKeys \ {k} : strip'[ht[l].str].free = strip[ht[l].str].free
         /\ new.str # 0 => strip'[new.str].free = strip[new.str].free
<1> DEFINE e == ht[k]
<1>1. k \in Keys /\ Live(k) /\ \A l \in LiveKeys : ht[l].str \in Stripings
  BY LiveUnits, LivePlaced
<1>2. new.str # 0 => new.str \in Stripings
  BY NewUnits
<1>3. /\ \A s \in Stripings \ {e.str} : strip'[s] = strip[s]
      /\ ~Emptied(e) => strip'[e.str].free = strip[e.str].free
  BY <1>1, FreedStripings
<1>4. Emptied(e) => /\ \A l \in LiveKeys \ {k} : ht[l].str # e.str
                    /\ new.str # 0 => new.str # e.str
  BY EmptiedAlone
<1> HIDE DEF e
<1> QED
  BY <1>1, <1>2, <1>3, <1>4

SpaceInv == NoOverlap /\ CountInv

\* A step that moves no entry.
LEMMA SameUnits ==
  ASSUME LiveKeys' = LiveKeys, new' = new,
         \A k \in LiveKeys : /\ ht'[k].str = ht[k].str
                             /\ ht'[k].off = ht[k].off
                             /\ ht'[k].val = ht[k].val
  PROVE  Occupied' = Occupied /\ \A k \in LiveKeys : Units(ht'[k]) = Units(ht[k])
<1>1. \A k \in LiveKeys : Units(ht'[k]) = Units(ht[k])
  BY DEF Units
<1>2. {Units(ht'[k]) : k \in LiveKeys} = {Units(ht[k]) : k \in LiveKeys}
  BY <1>1, Zenon
<1> QED
  BY <1>1, <1>2 DEF Occupied

LEMMA SameSpace ==
  ASSUME TypeInv, SpaceInv, LiveKeys' = LiveKeys, UNCHANGED <<new, usedEntry, nstr>>,
         \A k \in LiveKeys : /\ ht'[k].str = ht[k].str
                             /\ ht'[k].off = ht[k].off
                             /\ ht'[k].val = ht[k].val,
         \A s \in 1..nstr : strip'[s].free = strip[s].free /\ strip'[s].used = strip[s].used
  PROVE  SpaceInv'
<1>1. Occupied' = Occupied /\ \A k \in LiveKeys : Units(ht'[k]) = Units(ht[k])
  BY SameUnits
<1>2. \A k \in LiveKeys : ht[k].str \in 1..nstr
  BY LiveUnits, LivePlaced
<1>3. new.str # 0 => new.str \in 1..nstr
  BY NewUnits
<1>4. NoOverlap'
  BY <1>1, <1>2, <1>3 DEF SpaceInv, NoOverlap
<1>5. CountInv'
  BY <1>1 DEF SpaceInv, CountInv, UsedExact
<1> QED
  BY <1>4, <1>5 DEF SpaceInv

LEMMA ClearedSpace ==
  ASSUME TypeInv, ClearTable, new' = NoEntry, UNCHANGED nstr
  PROVE  SpaceInv'
<1>1. LiveKeys' = {}
  BY NoEntryType DEF LiveKeys, Live, ClearTable
<1>2. new'.str = 0
  BY NoEntryType
<1>3. Occupied' = {}
  BY <1>1, <1>2 DEF Occupied
<1>4. \A s \in 1..nstr : strip'[s].used = 0
  <2>1. nstr \in Nat /\ 1..nstr \subseteq Stripings
    BY SomeStripings
  <2> QED
    BY <2>1 DEF ClearTable, ResetStriping
<1>5. usedEntry' = 0
  BY DEF ClearTable
<1>6. \A s : {u \in Occupied' : u[1] = s} = {}
  BY <1>3
<1>7. NoOverlap'
  BY <1>1, <1>2 DEF NoOverlap
<1>8. CountInv'
  <2>1. IsFiniteSet({}) /\ Cardinality({}) = 0
    BY FS_EmptySet, Zenon
  <2>2. \A s \in 1..nstr : strip'[s].used = Cardinality({u \in Occupied' : u[1] = s})
    BY <1>4, <1>6, <2>1
  <2> QED
    BY <1>3, <1>5, <2>1, <2>2 DEF CountInv, UsedExact
<1> QED
  BY <1>7, <1>8 DEF SpaceInv

LEMMA UnlinkedSpace ==
  ASSUME TypeInv, SpaceInv, NEW k \in Keys, Unlinks(k)
  PROVE  SpaceInv'
<1>1. k \in LiveKeys /\ FreeValue(ht[k]) /\ UNCHANGED <<nstr, new>> /\ new.str = 0
  BY NoEntryType DEF Unlinks, LiveKeys
<1>2. LiveKeys' = LiveKeys \ {k} /\ \A l \in LiveKeys \ {k} : ht'[l] = ht[l]
  BY NoEntryType DEF Unlinks, LiveKeys, Live, TypeInv, TableInv
<1>3. \A l \in LiveKeys \ {k} : Units(ht[k]) \cap Units(ht[l]) = {}
  BY <1>1 DEF SpaceInv, NoOverlap
<1>4. Occupied' = Occupied \ Units(ht[k])
  <2>1. Occupied = UNION {Units(ht[l]) : l \in LiveKeys}
    BY <1>1 DEF Occupied
  <2>2. Occupied' = UNION {Units(ht[l]) : l \in LiveKeys \ {k}}
    BY <1>1, <1>2 DEF Occupied
  <2> QED
    BY <1>1, <1>3, <2>1, <2>2
<1>5. CountInv'
  BY <1>1, <1>4, FreedCount DEF SpaceInv
<1>6. \A l \in LiveKeys \ {k} : strip'[ht[l].str].free = strip[ht[l].str].free
  BY <1>1, FreedFree DEF SpaceInv
<1>7. NoOverlap'
  BY <1>1, <1>2, <1>6 DEF SpaceInv, NoOverlap
<1> QED
  BY <1>5, <1>7 DEF SpaceInv

LEMMA LinkedSpace ==
  ASSUME TypeInv, SpaceInv, Links
  PROVE  SpaceInv'
<1> DEFINE k == Top.key
<1>1. k \in Keys
  <2>1. Top \in Frame
    BY TopType DEF Links, Link
  <2> QED
    BY <2>1 DEF Frame
<1>2. ht' = [ht EXCEPT ![k] = new] /\ new.str # 0 /\ new' = NoEntry /\ new'.str = 0 /\ UNCHANGED nstr
  BY NoEntryType DEF Links, Link
<1>3. Live(k) => FreeValue(ht[k])
  BY DEF Links, Link
<1>4. ~Live(k) => UNCHANGED memory
  BY DEF Links, Link
<1> HIDE DEF k
<1>5. LiveKeys' = LiveKeys \cup {k} /\ ht'[k] = new /\ \A l \in LiveKeys \ {k} : ht'[l] = ht[l]
  BY <1>1, <1>2 DEF LiveKeys, Live, TypeInv, TableInv
<1>6. Occupied = (UNION {Units(ht[l]) : l \in LiveKeys}) \cup Units(new)
  BY <1>2 DEF Occupied
<1>7. Occupied' = (UNION {Units(ht[l]) : l \in LiveKeys \ {k}}) \cup Units(new)
  <2>1. Occupied' = UNION {Units(ht'[l]) : l \in LiveKeys \cup {k}}
    BY <1>2, <1>5 DEF Occupied
  <2> QED
    BY <1>5, <2>1
<1>8. CASE Live(k)
  <2>1. k \in LiveKeys
    BY <1>1, <1>8 DEF LiveKeys
  <2>2. \A l \in LiveKeys \ {k} : Units(ht[k]) \cap Units(ht[l]) = {}
    BY <2>1 DEF SpaceInv, NoOverlap
  <2>3. Units(ht[k]) \cap Units(new) = {}
    BY <1>2, <2>1 DEF SpaceInv, NoOverlap
  <2>4. Occupied' = Occupied \ Units(ht[k])
    BY <1>6, <1>7, <2>1, <2>2, <2>3
  <2>5. CountInv'
    BY <1>2, <1>3, <1>8, <2>1, <2>4, FreedCount DEF SpaceInv
  <2>6. /\ \A l \in LiveKeys \ {k} : strip'[ht[l].str].free = strip[ht[l].str].free
        /\ strip'[new.str].free = strip[new.str].free
    BY <1>2, <1>3, <1>8, <2>1, FreedFree DEF SpaceInv
  <2>7. NoOverlap'
    BY <1>2, <1>5, <2>6 DEF SpaceInv, NoOverlap
  <2> QED
    BY <2>5, <2>7 DEF SpaceInv
<1>9. CASE ~Live(k)
  <2>1. k \notin LiveKeys /\ UNCHANGED <<strip, usedEntry>>
    BY <1>4, <1>9 DEF LiveKeys, memory
  <2>2. Occupied' = Occupied
    <3>1. LiveKeys \ {k} = LiveKeys
      BY <2>1
    <3> QED
      BY <1>6, <1>7, <3>1
  <2>3. CountInv'
    BY <1>2, <2>1, <2>2 DEF SpaceInv, CountInv, UsedExact
  <2>4. NoOverlap'
    BY <1>2, <1>5, <2>1 DEF SpaceInv, NoOverlap
  <2> QED
    BY <2>3, <2>4 DEF SpaceInv
<1> QED
  BY <1>8, <1>9

\* Allocation takes what lies behind everything in the striping.
LEMMA AllocatedSpace ==
  ASSUME TypeInv, SpaceInv, AllocFits
  PROVE  SpaceInv'
<1> DEFINE s == doing[cur]
           size == SizeOf[Top.val]
<1>1. cur \in 1..Len(doing) /\ pc \in {"alloc1", "alloc2"}
  BY DEF AllocFits, Allocating, TypeInv, ControlInv
<1>2. /\ 1..nstr \subseteq Stripings /\ doing \in Seq(1..nstr)
      /\ strip \in [Stripings -> StripingType]
  BY SomeStripings
<1>3. s \in 1..nstr
  BY <1>1, <1>2, ElementOfSeq, Zenon
<1>4. Top.val \in Values /\ size \in Nat /\ size >= 1
  <2>1. Top \in Frame
    BY <1>1, TopType
  <2>2. Top.val \in Values
    BY <2>1 DEF Frame
  <2> QED
    BY <2>2, Bounds
<1>5. /\ new' = [val |-> Top.val, exp |-> Top.exp, str |-> s, off |-> strip[s].free]
      /\ strip' = [strip EXCEPT ![s].free = @ + size, ![s].used = @ + size, ![s].last = now]
      /\ usedEntry' = usedEntry + size
      /\ UNCHANGED <<ht, nstr>>
  BY DEF AllocFits, table, segments
<1>6. new = NoEntry /\ new.str = 0
  BY <1>1, NoNew, NoEntryType
<1>7. new'.str = s /\ new'.off = strip[s].free /\ SizeOf[new'.val] = size /\ new'.val \in Values
  BY <1>4, <1>5
<1> HIDE DEF s, size
<1>8. /\ \A t \in Stripings \ {s} : strip'[t] = strip[t]
      /\ strip'[s].free = strip[s].free + size /\ strip'[s].used = strip[s].used + size
      /\ strip[s].free \in Nat /\ s # 0
  BY <1>2, <1>3, <1>4, <1>5, Bounds DEF StripingType
<1>9. LiveKeys' = LiveKeys
  BY <1>5 DEF LiveKeys, Live
<1> DEFINE T == Units(new')
<1>10. /\ IsFiniteSet(T) /\ Cardinality(T) = size
       /\ \A u \in T : u[1] = s /\ u[2] \in Nat /\ strip[s].free <= u[2]
  BY <1>7, <1>8, UnitsOf
<1>11. \A l \in LiveKeys : /\ ht[l].str \in 1..nstr
                           /\ ht[l].off \in Nat /\ ht[l].val \in Values
                           /\ SizeOf[ht[l].val] \in Nat
  BY LiveUnits, LivePlaced
<1>12. ASSUME NEW l \in LiveKeys PROVE Units(ht[l]) \cap T = {}
  <2> SUFFICES ASSUME NEW u \in Units(ht[l]), u \in T PROVE FALSE
    OBVIOUS
  <2>1. u[1] = ht[l].str /\ u[2] \in Nat /\ u[2] < ht[l].off + SizeOf[ht[l].val]
    BY <1>11, UnitsOf
  <2>2. u[1] = s /\ strip[s].free <= u[2]
    BY <1>10
  <2>3. ht[l].off + SizeOf[ht[l].val] <= strip[ht[l].str].free
    BY DEF SpaceInv, NoOverlap
  <2> QED
    BY <1>8, <1>11, <2>1, <2>2, <2>3
<1>13. Occupied' = Occupied \cup T /\ Occupied \cap T = {}
  <2>1. Occupied = UNION {Units(ht[l]) : l \in LiveKeys}
    BY <1>6 DEF Occupied
  <2>2. Occupied' = (UNION {Units(ht[l]) : l \in LiveKeys}) \cup T
    BY <1>5, <1>7, <1>8, <1>9 DEF Occupied
  <2> HIDE DEF T
  <2> QED
    BY <1>12, <2>1, <2>2
<1>14. NoOverlap'
  <2>1. \A k \in LiveKeys : ht[k].off + SizeOf[ht[k].val] <= strip'[ht[k].str].free
    <3> TAKE k \in LiveKeys
    <3>1. ht[k].off + SizeOf[ht[k].val] <= strip[ht[k].str].free
      BY DEF SpaceInv, NoOverlap
    <3>2. CASE ht[k].str = s
      BY <1>4, <1>8, <1>11, <3>1, <3>2
    <3>3. CASE ht[k].str # s
      BY <1>2, <1>8, <1>11, <3>1, <3>3
    <3> QED
      BY <3>2, <3>3
  <2>2. new'.off + SizeOf[new'.val] <= strip'[new'.str].free
    BY <1>4, <1>7, <1>8
  <2> QED
    BY <1>5, <1>9, <1>12, <2>1, <2>2 DEF SpaceInv, NoOverlap
<1>15. CountInv'
  <2> HIDE DEF T
  <2>1. IsFiniteSet(Occupied) /\ Cardinality(Occupied) \in Nat
    BY WithinFinite DEF SpaceInv
  <2>2. \A A : IsFiniteSet(A) /\ A \cap T = {} =>
               /\ IsFiniteSet(A \cup T)
               /\ Cardinality(A \cup T) = Cardinality(A) + size
    <3> TAKE A
    <3> HAVE IsFiniteSet(A) /\ A \cap T = {}
    <3>1. /\ IsFiniteSet(A \cup T)
          /\ Cardinality(A \cup T) = Cardinality(A) + Cardinality(T) - Cardinality(A \cap T)
      BY <1>10, FS_Union
    <3>2. Cardinality(A \cap T) = 0 /\ Cardinality(A) \in Nat
      BY FS_EmptySet, FS_CardinalityType
    <3> QED
      BY <1>4, <1>10, <3>1, <3>2
  <2>3. IsFiniteSet(Occupied') /\ usedEntry' = Cardinality(Occupied')
    <3>1. /\ IsFiniteSet(Occupied \cup T)
          /\ Cardinality(Occupied \cup T) = Cardinality(Occupied) + size
      BY <1>13, <2>1, <2>2
    <3> QED
      BY <1>5, <1>13, <3>1 DEF SpaceInv, CountInv, UsedExact
  <2>4. ASSUME NEW t \in 1..nstr PROVE strip'[t].used = Cardinality({u \in Occupied' : u[1] = t})
    <3>1. strip[t].used = Cardinality(Within(t)) /\ IsFiniteSet(Within(t))
      BY WithinFinite DEF SpaceInv, CountInv, UsedExact, Within
    <3>2. CASE t # s
      <4>1. {u \in Occupied' : u[1] = t} = Within(t)
        BY <1>10, <1>13, <3>2 DEF Within
      <4> QED
        BY <1>2, <1>8, <3>1, <3>2, <4>1
    <3>3. CASE t = s
      <4>1. {u \in Occupied' : u[1] = t} = Within(t) \cup T /\ Within(t) \cap T = {}
        BY <1>10, <1>13, <3>3 DEF Within
      <4>2. Cardinality(Within(t) \cup T) = Cardinality(Within(t)) + size
        BY <2>2, <3>1, <4>1
      <4> QED
        BY <1>8, <3>1, <3>3, <4>1, <4>2
    <3> QED
      BY <3>2, <3>3
  <2> QED
    BY <1>5, <2>3, <2>4 DEF CountInv, UsedExact
<1> QED
  BY <1>14, <1>15 DEF SpaceInv

LEMMA AddedSpace ==
  ASSUME TypeInv, SpaceInv, AddStriping
  PROVE  SpaceInv'
<1> DEFINE n == nstr + 1
<1>1. /\ nstr' = n /\ strip' = [strip EXCEPT ![n] = ResetStriping("doing")]
      /\ UNCHANGED <<ht, new, usedEntry>>
  BY DEF AddStriping, table
<1>2. nstr \in Nat /\ strip \in [Stripings -> StripingType] /\ 1..nstr \subseteq Stripings
  BY SomeStripings
<1>3. n \in Stripings
  BY NextStriping
<1>4. /\ \A s \in 1..nstr : strip'[s] = strip[s]
      /\ strip'[n].used = 0
      /\ 1..n = 1..nstr \cup {n} /\ n \notin 1..nstr
  BY <1>1, <1>2, <1>3 DEF ResetStriping
<1> HIDE DEF n
<1>5. LiveKeys' = LiveKeys /\ Occupied' = Occupied
  <2>1. LiveKeys' = LiveKeys
    BY <1>1 DEF LiveKeys, Live
  <2> QED
    BY <1>1, <2>1, SameUnits
<1>6. \A k \in LiveKeys : /\ ht[k].str \in 1..nstr
                          /\ \A u \in Units(ht[k]) : u[1] \in 1..nstr
  BY LiveUnits, LivePlaced, UnitsOf
<1>7. new.str # 0 => /\ new.str \in 1..nstr
                     /\ \A u \in Units(new) : u[1] \in 1..nstr
  BY NewUnits, UnitsOf
<1>8. \A u \in Occupied : u[1] \in 1..nstr
  BY <1>6, <1>7 DEF Occupied
<1>9. Cardinality({u \in Occupied : u[1] = n}) = 0
  <2>1. {u \in Occupied : u[1] = n} = {}
    BY <1>4, <1>8
  <2> QED
    BY <2>1, FS_EmptySet
<1>10. NoOverlap'
  BY <1>1, <1>4, <1>5, <1>6, <1>7 DEF SpaceInv, NoOverlap
<1>11. CountInv'
  <2>1. \A s \in 1..nstr : strip'[s].used = Cardinality({u \in Occupied : u[1] = s})
    BY <1>4 DEF SpaceInv, CountInv, UsedExact
  <2>2. \A s \in 1..n : strip'[s].used = Cardinality({u \in Occupied : u[1] = s})
    BY <1>4, <1>9, <2>1, Zenon
  <2> QED
    BY <1>1, <1>5, <2>2 DEF SpaceInv, CountInv, UsedExact
<1> QED
  BY <1>10, <1>11 DEF SpaceInv

LEMMA SpaceStep == ASSUME TypeInv, SpaceInv, Effect PROVE SpaceInv'
<1>1. CASE Stays
  <2>1. UNCHANGED <<ht, new, usedEntry, nstr, strip>>
    BY <1>1 DEF Stays, table, memory
  <2>2. LiveKeys' = LiveKeys
    BY <2>1 DEF LiveKeys, Live
  <2> QED
    BY <2>1, <2>2, SameSpace
<1>2. CASE Clears
  BY <1>2, ClearedSpace DEF Clears
<1>3. ASSUME NEW k \in Keys, Unlinks(k) PROVE SpaceInv'
  BY <1>3, UnlinkedSpace
<1>4. ASSUME NEW k \in Keys, Touches(k) PROVE SpaceInv'
  <2>1. UNCHANGED <<new, usedEntry, nstr, strip>>
    BY <1>4 DEF Touches, memory
  <2>2. PICK exp \in Nat : ht' = [ht EXCEPT ![k].exp = exp]
    BY <1>4 DEF Touches
  <2>3. \A l \in Keys : ht'[l].str = ht[l].str /\ ht'[l].off = ht[l].off /\ ht'[l].val = ht[l].val
    BY <2>2 DEF TypeInv, TableInv, Entry
  <2>4. LiveKeys' = LiveKeys /\ LiveKeys \subseteq Keys
    BY <2>3 DEF LiveKeys, Live
  <2> QED
    BY <2>1, <2>3, <2>4, SameSpace
<1>5. CASE AllocFits
  BY <1>5, AllocatedSpace
<1>6. CASE AllocMisses
  <2> DEFINE s == doing[cur]
             filed == Discarded(s) /\ RemoveResult(cur) = s
  <2>1. /\ strip' = [strip EXCEPT ![s].fail = FailTimes(s),
                                  ![s].pool = IF filed THEN "done" ELSE @]
        /\ UNCHANGED <<ht, new, usedEntry, nstr>>
    BY <1>6 DEF AllocMisses, table, segments
  <2>2. 1..nstr \subseteq Stripings /\ strip \in [Stripings -> StripingType]
    BY SomeStripings
  <2> HIDE DEF s, filed
  <2>3. \A t \in 1..nstr : strip'[t].free = strip[t].free /\ strip'[t].used = strip[t].used
    BY <2>1, <2>2 DEF StripingType
  <2>4. LiveKeys' = LiveKeys
    BY <2>1 DEF LiveKeys, Live
  <2> QED
    BY <2>1, <2>3, <2>4, SameSpace
<1>7. CASE AddStriping
  BY <1>7, AddedSpace
<1>8. CASE Links
  BY <1>8, LinkedSpace
<1> QED
  BY <1>1, <1>2, <1>3, <1>4, <1>5, <1>6, <1>7, <1>8 DEF Effect
-----------------------------------------------------------------------------
(* Table, list and count                                                   *)

IndexInv == /\ Distinct(list)
            /\ \A x : Contains(list, x) <=> \E k \in LiveKeys : x = Offset(ht[k])
            /\ IsFiniteSet(LiveKeys)
            /\ Cardinality(LiveKeys) = Len(list)
            /\ count = Len(list)

LEMMA OffsetsDiffer ==
  ASSUME TypeInv, NoOverlap
  PROVE  /\ \A k, l \in LiveKeys : Offset(ht[k]) = Offset(ht[l]) => k = l
         /\ new.str # 0 => \A k \in LiveKeys : Offset(ht[k]) # Offset(new)
<1>1. \A k \in LiveKeys : Offset(ht[k]) \in Units(ht[k])
  BY LiveUnits, UnitsOf
<1>2. new.str # 0 => Offset(new) \in Units(new)
  BY NewUnits, UnitsOf
<1> QED
  BY <1>1, <1>2 DEF NoOverlap

LEMMA ListType == ASSUME TypeInv
                  PROVE  list \in Seq(Stripings \X (0..StripingSize)) /\ Len(list) \in Nat
  BY DEF TypeInv, TableInv

LEMMA SameIndex ==
  ASSUME IndexInv, LiveKeys' = LiveKeys, UNCHANGED <<count, list>>,
         \A k \in LiveKeys : ht'[k].str = ht[k].str /\ ht'[k].off = ht[k].off
  PROVE  IndexInv'
<1>1. \A k \in LiveKeys : Offset(ht'[k]) = Offset(ht[k])
  BY DEF Offset
<1> QED
  BY <1>1 DEF IndexInv, Distinct, Contains

LEMMA ClearedIndex ==
  ASSUME ClearTable
  PROVE  IndexInv'
<1>1. LiveKeys' = {}
  BY NoEntryType DEF LiveKeys, Live, ClearTable
<1>2. list' = <<>> /\ count' = 0 /\ Len(<<>>) = 0
  BY DEF ClearTable
<1>3. Distinct(<<>>) /\ \A x : ~Contains(<<>>, x)
  BY DEF Distinct, Contains
<1>4. IsFiniteSet({}) /\ Cardinality({}) = 0
  BY FS_EmptySet, Zenon
<1> QED
  BY <1>1, <1>2, <1>3, <1>4 DEF IndexInv

\* Taking a live key's offset out of the list.
LEMMA WithoutIndex ==
  ASSUME TypeInv, NoOverlap, IndexInv, NEW k \in LiveKeys
  PROVE  LET r == Without(list, Offset(ht[k]))
         IN  /\ r \in Seq(Stripings \X (0..StripingSize))
             /\ Distinct(r)
             /\ \A x : Contains(r, x) <=> \E l \in LiveKeys \ {k} : x = Offset(ht[l])
             /\ Len(r) = Len(list) - 1
<1> DEFINE r == Without(list, Offset(ht[k]))
           P == Stripings \X (0..StripingSize)
<1>1. list \in Seq(P)
  BY ListType
<1>2. r \in Seq(P)
  BY <1>1, WithoutType
<1> HIDE DEF P
<1>3. /\ Distinct(r)
      /\ \A x : Contains(r, x) <=> Contains(list, x) /\ x # Offset(ht[k])
      /\ Contains(list, Offset(ht[k])) => Len(r) = Len(list) - 1
  BY <1>1, WithoutDistinct DEF IndexInv
<1> HIDE DEF r
<1>4. Contains(list, Offset(ht[k]))
  BY DEF IndexInv
<1>5. \A x : Contains(r, x) <=> \E l \in LiveKeys \ {k} : x = Offset(ht[l])
  BY <1>3, OffsetsDiffer DEF IndexInv
<1> QED
  BY <1>2, <1>3, <1>4, <1>5 DEF r, P

LEMMA UnlinkedIndex ==
  ASSUME TypeInv, NoOverlap, IndexInv, NEW k \in Keys, Unlinks(k)
  PROVE  IndexInv'
<1>1. k \in LiveKeys
  BY DEF Unlinks, LiveKeys
<1>2. LiveKeys' = LiveKeys \ {k} /\ \A l \in LiveKeys \ {k} : ht'[l] = ht[l]
  BY NoEntryType DEF Unlinks, LiveKeys, Live, TypeInv, TableInv
<1>3. list' = Without(list, Offset(ht[k])) /\ count' = count - 1
  BY DEF Unlinks
<1>4. /\ Distinct(list')
      /\ \A x : Contains(list', x) <=> \E l \in LiveKeys \ {k} : x = Offset(ht[l])
      /\ Len(list') = Len(list) - 1
  BY <1>1, <1>3, WithoutIndex
<1>5. /\ IsFiniteSet(LiveKeys \ {k})
      /\ Cardinality(LiveKeys \ {k}) = Cardinality(LiveKeys) - 1
  BY <1>1, FS_RemoveElement DEF IndexInv
<1> QED
  BY <1>2, <1>3, <1>4, <1>5 DEF IndexInv

LEMMA LinkedIndex ==
  ASSUME TypeInv, NoOverlap, IndexInv, Links
  PROVE  /\ IndexInv'
         /\ Top.key \in Keys /\ LiveKeys' = LiveKeys \cup {Top.key}
<1> DEFINE k == Top.key
           P == Stripings \X (0..StripingSize)
<1>1. k \in Keys
  <2>1. Top \in Frame
    BY TopType DEF Links, Link
  <2> QED
    BY <2>1 DEF Frame
<1>2. ht' = [ht EXCEPT ![k] = new] /\ new.str # 0
  BY DEF Links, Link
<1>3. Live(k) => list' = Append(Without(list, Offset(ht[k])), Offset(new)) /\ count' = count
  BY DEF Links, Link
<1>4. ~Live(k) => list' = Append(list, Offset(new)) /\ count' = count + 1
  BY DEF Links, Link
<1>5. Offset(new) \in P
  <2>1. new \in Entry /\ new.str \in Stripings
    BY <1>2, NewUnits
  <2> QED
    BY <2>1 DEF Offset, Entry
<1>6. list \in Seq(P) /\ Len(list) \in Nat
  BY ListType
<1> HIDE DEF k
<1>7. LiveKeys' = LiveKeys \cup {k} /\ ht'[k] = new /\ \A l \in LiveKeys \ {k} : ht'[l] = ht[l]
  BY <1>1, <1>2 DEF LiveKeys, Live, TypeInv, TableInv
<1>8. \A l \in LiveKeys : Offset(ht[l]) # Offset(new)
  BY <1>2, OffsetsDiffer
<1> DEFINE r == IF Live(k) THEN Without(list, Offset(ht[k])) ELSE list
<1>9. /\ r \in Seq(P) /\ Distinct(r)
      /\ \A x : Contains(r, x) <=> \E l \in LiveKeys \ {k} : x = Offset(ht[l])
      /\ Len(r) = IF k \in LiveKeys THEN Len(list) - 1 ELSE Len(list)
  <2>1. CASE Live(k)
    <3>1. k \in LiveKeys
      BY <1>1, <2>1 DEF LiveKeys
    <3> QED
      BY <2>1, <3>1, WithoutIndex
  <2>2. CASE ~Live(k)
    <3>1. k \notin LiveKeys /\ LiveKeys \ {k} = LiveKeys
      BY <2>2 DEF LiveKeys
    <3> QED
      BY <1>6, <2>2, <3>1 DEF IndexInv
  <2> QED
    BY <2>1, <2>2
<1>10. list' = Append(r, Offset(new))
  BY <1>3, <1>4
<1> HIDE DEF r, P
<1>11. /\ Distinct(list')
       /\ \A x : Contains(list', x) <=> Contains(r, x) \/ x = Offset(new)
       /\ Len(list') = Len(r) + 1
  <2>1. ~Contains(r, Offset(new))
    BY <1>8, <1>9
  <2>2. \A x \in P : ~Contains(r, x) =>
          /\ Distinct(Append(r, x))
          /\ \A y : Contains(Append(r, x), y) <=> Contains(r, y) \/ y = x
    BY <1>9, AppendDistinct
  <2>3. \A x \in P : Len(Append(r, x)) = Len(r) + 1
    BY <1>9
  <2> QED
    BY <1>5, <1>10, <2>1, <2>2, <2>3, Zenon
<1>12. \A x : Contains(list', x) <=> \E l \in LiveKeys' : x = Offset(ht'[l])
  BY <1>7, <1>9, <1>11
<1>13. /\ IsFiniteSet(LiveKeys')
       /\ Cardinality(LiveKeys') =
            IF k \in LiveKeys THEN Cardinality(LiveKeys) ELSE Cardinality(LiveKeys) + 1
  BY <1>7, FS_AddElement DEF IndexInv
<1>14. Len(list') = Cardinality(LiveKeys') /\ count' = Len(list')
  <2>1. k \in LiveKeys <=> Live(k)
    BY <1>1 DEF LiveKeys
  <2> QED
    BY <1>3, <1>4, <1>6, <1>9, <1>11, <1>13, <2>1 DEF IndexInv
<1> QED
  BY <1>1, <1>7, <1>11, <1>12, <1>13, <1>14 DEF IndexInv, k

LEMMA IndexStep == ASSUME TypeInv, NoOverlap, IndexInv, Effect PROVE IndexInv'
<1>1. CASE Stays \/ AllocFits \/ AllocMisses \/ AddStriping
  <2>1. UNCHANGED <<ht, count, list>>
    BY <1>1 DEF Stays, AllocFits, AllocMisses, AddStriping, table
  <2>2. LiveKeys' = LiveKeys
    BY <2>1 DEF LiveKeys, Live
  <2> QED
    BY <2>1, <2>2, SameIndex
<1>2. CASE Clears
  BY <1>2, ClearedIndex DEF Clears
<1>3. ASSUME NEW k \in Keys, Unlinks(k) PROVE IndexInv'
  BY <1>3, UnlinkedIndex
<1>4. ASSUME NEW k \in Keys, Touches(k) PROVE IndexInv'
  <2>1. PICK exp \in Nat : ht' = [ht EXCEPT ![k].exp = exp]
    BY <1>4 DEF Touches
  <2>2. UNCHANGED <<count, list>>
    BY <1>4 DEF Touches
  <2>3. \A l \in Keys : ht'[l].str = ht[l].str /\ ht'[l].off = ht[l].off
    BY <2>1 DEF TypeInv, TableInv, Entry
  <2>4. LiveKeys' = LiveKeys /\ LiveKeys \subseteq Keys
    BY <2>3 DEF LiveKeys, Live
  <2> QED
    BY <2>2, <2>3, <2>4, SameIndex
<1>5. CASE Links
  BY <1>5, LinkedIndex
<1> QED
  BY <1>1, <1>2, <1>3, <1>4, <1>5 DEF Effect
-----------------------------------------------------------------------------
(* Room in the table.  A set checks once that the table is not full, then   *)
(* allocates, and a rearrangement within it sets every copied entry again:  *)
(* the keys that are in the table or are still to come back are fewer than  *)
(* max_key_count from that check on.                                        *)

Copies(f, k) == \E j \in 1..Len(f.todo) : f.todo[j].key = k

Wanted == {k \in Keys : \/ Live(k)
                        \/ \E i \in 2..Len(stack) : stack[i].key = k
                        \/ \E i \in 1..Len(stack) : Copies(stack[i], k)}

\* The check is still to come, or will not be needed.
Unchecked == \/ pc \in {"idle", "crashed"}
             \/ Len(stack) = 1 /\ pc \in {"recycleKey", "fail"}

RoomInv == /\ count <= MaxKeyCount
           /\ IsFiniteSet(Wanted)
           /\ ~Unchecked => Cardinality(Wanted) < MaxKeyCount
           /\ pc = "recycleKey" => Len(stack) = 1 /\ stack[1].todo = <<>>

LEMMA WantedLess ==
  ASSUME NEW n, Len(stack') = n, \A k \in Keys : Live(k)' => k \in Wanted,
         \A i \in 2..n : stack'[i].key \in Keys => stack'[i].key \in Wanted,
         \A i \in 1..n : \A j \in 1..Len(stack'[i].todo) :
           stack'[i].todo[j].key \in Keys => stack'[i].todo[j].key \in Wanted
  PROVE  Wanted' \subseteq Wanted
<1> SUFFICES ASSUME NEW k \in Wanted' PROVE k \in Wanted
  OBVIOUS
<1>1. k \in Keys /\ (\/ Live(k)'
                     \/ \E i \in 2..n : stack'[i].key = k
                     \/ \E i \in 1..n : Copies(stack[i], k)')
  BY Zenon DEF Wanted
<1>2. (\E i \in 1..n : Copies(stack[i], k)') => k \in Wanted
  BY <1>1 DEF Copies
<1> QED
  BY <1>1, <1>2

LEMMA FrontElements ==
  ASSUME NEW T, NEW s \in Seq(T), s # <<>>
  PROVE  /\ Len(Front(s)) = Len(s) - 1
         /\ \A i \in 1..(Len(s) - 1) : Front(s)[i] = s[i]
<1>1. Len(s) \in Nat /\ Len(s) # 0
  OBVIOUS
<1>2. \A i \in 1..(Len(s) - 1) : SubSeq(s, 1, Len(s) - 1)[i] = s[i]
  BY <1>1
<1> QED
  BY <1>2, FrontLen DEF Front

\* A step that wants no other key.
LEMMA RoomKept ==
  ASSUME RoomInv, Wanted' \subseteq Wanted, count' <= MaxKeyCount,
         ~Unchecked' => ~Unchecked, pc' # "recycleKey"
  PROVE  RoomInv'
<1>1. IsFiniteSet(Wanted) /\ Wanted' \in SUBSET Wanted
  BY DEF RoomInv
<1>2. IsFiniteSet(Wanted') /\ Cardinality(Wanted') <= Cardinality(Wanted)
  BY <1>1, FS_Subset
<1>3. Cardinality(Wanted) \in Nat /\ Cardinality(Wanted') \in Nat /\ MaxKeyCount \in Nat
  BY <1>1, <1>2, FS_CardinalityType, CacheAssumption
<1>4. ~Unchecked' => Cardinality(Wanted') < MaxKeyCount
  BY <1>2, <1>3 DEF RoomInv
<1> QED
  BY <1>2, <1>4 DEF RoomInv

\* The entries in the table are wanted, and counted.
LEMMA LiveWanted ==
  ASSUME IndexInv, RoomInv
  PROVE  /\ LiveKeys \subseteq Wanted /\ IsFiniteSet(LiveKeys)
         /\ count \in Nat /\ count = Cardinality(LiveKeys)
         /\ count <= Cardinality(Wanted) /\ Cardinality(Wanted) \in Nat
<1>1. LiveKeys \in SUBSET Wanted /\ IsFiniteSet(Wanted) /\ IsFiniteSet(LiveKeys)
  BY DEF LiveKeys, Wanted, RoomInv, IndexInv
<1>2. Cardinality(LiveKeys) <= Cardinality(Wanted)
  BY <1>1, FS_Subset
<1>3. Cardinality(LiveKeys) \in Nat /\ Cardinality(Wanted) \in Nat
  BY <1>1, FS_CardinalityType
<1> QED
  BY <1>1, <1>2, <1>3 DEF IndexInv

\* A set called by a client wants what is in the table.
LEMMA CalledRoom ==
  ASSUME TypeInv, IndexInv, RoomInv, NEW x \in Item, CallSet(<<>>, x), UNCHANGED table
  PROVE  RoomInv'
<1>1. stack' = <<Activation(x)>> /\ Activation(x).todo = <<>>
  BY DEF CallSet, Activation
<1>2. Len(stack') = 1 /\ stack'[1].todo = <<>>
  BY <1>1
<1>3. UNCHANGED <<ht, count>>
  BY DEF table
<1>4. Wanted' = LiveKeys
  BY <1>2, <1>3 DEF Wanted, Copies, LiveKeys, Live
<1>5. count = Cardinality(LiveKeys) /\ count \in Nat /\ IsFiniteSet(LiveKeys)
  BY LiveWanted
<1>6. pc' \in {"fail", "recycleKey"} \/ (pc' = "alloc1" /\ ~(count >= MaxKeyCount))
  BY DEF CallSet, Enter, TableFull
<1>7. ~Unchecked' => count < MaxKeyCount
  BY <1>2, <1>5, <1>6, CacheAssumption DEF Unchecked
<1> QED
  BY <1>2, <1>3, <1>4, <1>5, <1>7 DEF RoomInv

\* Requests that leave the activations alone.
LEMMA IdleRoom ==
  ASSUME RoomInv, LiveKeys' \subseteq LiveKeys, UNCHANGED <<stack, pc>>, pc = "idle",
         count' <= MaxKeyCount
  PROVE  RoomInv'
<1>1. Wanted' \subseteq Wanted
  BY DEF Wanted, Copies, LiveKeys
<1> QED
  BY <1>1, RoomKept DEF Unchecked

LEMMA RequestRoom ==
  ASSUME TypeInv, IndexInv, RoomInv, Request
  PROVE  RoomInv'
<1>0. count \in Nat /\ count = Cardinality(LiveKeys) /\ count <= MaxKeyCount
  BY LiveWanted DEF RoomInv
<1>1. ASSUME NEW k \in Keys, NEW v \in Values, NEW ttl \in TTLs, Set(k, v, ttl)
      PROVE  RoomInv'
  <2>1. CalcExpires(now, ttl) \in Nat
    BY CacheAssumption DEF TypeInv, ControlInv, CalcExpires
  <2>2. [key |-> k, val |-> v, exp |-> CalcExpires(now, ttl)] \in Item
    BY <2>1 DEF Item
  <2> QED
    BY <1>1, <2>2, CalledRoom DEF Set
<1>2. ASSUME NEW k \in Keys, NEW ttl \in TTLs, Incr(k, ttl)
      PROVE  RoomInv'
  <2>1. CalcExpires(now, ttl) \in Nat
    BY CacheAssumption DEF TypeInv, ControlInv, CalcExpires
  <2>2. Counted(k) + 1 \in Values
    <3>1. ht[k] \in Entry /\ MaxNumber \in Nat /\ MaxVal \in Nat /\ MaxNumber <= MaxVal
      BY CacheAssumption DEF TypeInv, TableInv
    <3>2. Counted(k) \in Nat
      BY <3>1 DEF Counted, Entry
    <3>3. Counted(k) < MaxNumber
      BY <1>2 DEF Incr
    <3> QED
      BY <3>1, <3>2, <3>3 DEF Values
  <2>3. [key |-> k, val |-> Counted(k) + 1, exp |-> CalcExpires(now, ttl)] \in Item
    BY <2>1, <2>2 DEF Item
  <2> QED
    BY <1>2, <2>3, CalledRoom DEF Incr
<1>3. ASSUME NEW k \in Keys, Delete(k)
      PROVE  RoomInv'
  <2>1. LiveKeys' \subseteq LiveKeys
    BY <1>3, NoEntryType DEF Delete, LiveKeys, Live, TypeInv, TableInv
  <2>2. count' <= MaxKeyCount /\ pc = "idle" /\ UNCHANGED <<stack, pc>>
    BY <1>0, <1>3, CacheAssumption DEF Delete, locals
  <2> QED
    BY <2>1, <2>2, IdleRoom
<1>4. ASSUME NEW k \in Keys, NEW ttl \in TTLs, SetExpires(k, CalcExpires(now, ttl))
      PROVE  RoomInv'
  <2>1. LiveKeys' \subseteq LiveKeys
    BY <1>4 DEF SetExpires, LiveKeys, Live, TypeInv, TableInv, Entry
  <2>2. count' <= MaxKeyCount /\ pc = "idle" /\ UNCHANGED <<stack, pc>>
    BY <1>0, <1>4 DEF SetExpires, locals
  <2> QED
    BY <2>1, <2>2, IdleRoom
<1>5. CASE Clear
  <2>1. LiveKeys' \subseteq LiveKeys
    BY <1>5, NoEntryType DEF Clear, ClearTable, LiveKeys, Live
  <2>2. count' <= MaxKeyCount /\ pc = "idle" /\ UNCHANGED <<stack, pc>>
    BY <1>5, CacheAssumption DEF Clear, ClearTable, locals
  <2> QED
    BY <2>1, <2>2, IdleRoom
<1> QED
  BY <1>1, <1>2, <1>3, <1>4, <1>5 DEF Request

\* Steps that leave the table and the activations alone.
LEMMA MovedRoom ==
  ASSUME TypeInv, RoomInv,
         \/ RecycleSkip \/ RecycleFails \/ AllocFits \/ AllocMisses \/ AllocFails
         \/ CreateSegment \/ CreateSegmentFails \/ AddStriping \/ SegmentCreated
         \/ TryRearrange \/ Rearranged \/ Tick \/ UNCHANGED vars
  PROVE  RoomInv'
<1>1. UNCHANGED <<ht, count, stack>>
  BY DEF RecycleSkip, RecycleFails, AllocFits, AllocMisses, AllocFails, CreateSegment,
         CreateSegmentFails, AddStriping, SegmentCreated, TryRearrange, Rearranged, Tick,
         vars, locals, table
<1>2. Wanted' = Wanted
  BY <1>1 DEF Wanted, Copies, Live
<1>3. \/ UNCHANGED pc
      \/ pc = "recycleKey" /\ pc' = "fail"
      \/ pc \notin {"idle", "crashed", "recycleKey", "fail"} /\ pc' # "recycleKey"
  <2>1. CASE RecycleSkip \/ AllocMisses \/ AddStriping \/ Tick \/ UNCHANGED vars
    BY <2>1 DEF RecycleSkip, AllocMisses, AddStriping, Tick, vars
  <2>2. CASE RecycleFails
    BY <2>2 DEF RecycleFails, Recycling, Enter
  <2>3. CASE AllocFits \/ AllocFails
    BY <2>3 DEF AllocFits, AllocFails, Allocating, Enter
  <2>4. CASE CreateSegment \/ CreateSegmentFails \/ SegmentCreated \/ TryRearrange \/ Rearranged
    BY <2>4 DEF CreateSegment, CreateSegmentFails, SegmentCreated, TryRearrange, Rearranged, Enter
  <2> QED
    BY <2>1, <2>2, <2>3, <2>4
<1> QED
  BY <1>1, <1>2, <1>3 DEF RoomInv, Unchecked

LEMMA RecycledRoom ==
  ASSUME TypeInv, NoOverlap, IndexInv, RoomInv, RecycleEntry
  PROVE  RoomInv'
<1>1. PICK k \in Keys : /\ EntryAt(k)
                        /\ ht' = [ht EXCEPT ![k] = NoEntry]
                        /\ count' = count - 1
                        /\ list' = Without(list, Offset(ht[k]))
                        /\ FreeValue(ht[k])
  BY DEF RecycleEntry
<1>2. LiveKeys' = LiveKeys \ {k} /\ k \in LiveKeys
  BY <1>1, NoEntryType DEF EntryAt, LiveKeys, Live, TypeInv, TableInv
<1>3. /\ UNCHANGED stack /\ pc \in {"recycleKey", "recycleMem"}
      /\ pc' \in {pc, IF pc = "recycleKey" THEN "alloc1" ELSE "alloc2"}
  BY DEF RecycleEntry, Recycling, Enter
<1>4. Wanted' \subseteq Wanted
  BY <1>2, <1>3 DEF Wanted, Copies, LiveKeys
<1>5. count \in Nat /\ count = Cardinality(LiveKeys) /\ count' < MaxKeyCount
  BY <1>1, LiveWanted, CacheAssumption DEF RoomInv
<1>6. CASE pc = "recycleMem"
  <2>1. count' <= MaxKeyCount /\ pc' # "recycleKey" /\ ~Unchecked /\ ~Unchecked'
    BY <1>1, <1>3, <1>5, <1>6, CacheAssumption DEF Unchecked
  <2> QED
    BY <1>4, <2>1, RoomKept
<1>7. CASE pc = "recycleKey"
  <2>1. Len(stack) = 1 /\ stack[1].todo = <<>>
    BY <1>7 DEF RoomInv
  <2>2. Wanted' = LiveKeys'
    BY <1>3, <2>1 DEF Wanted, Copies, LiveKeys
  <2>3. IsFiniteSet(LiveKeys') /\ Cardinality(LiveKeys') = Cardinality(LiveKeys) - 1
    BY <1>2, FS_RemoveElement DEF IndexInv
  <2>4. Cardinality(Wanted') < MaxKeyCount
    BY <1>1, <1>5, <2>2, <2>3
  <2>5. count' <= MaxKeyCount
    BY <1>1, <1>5, CacheAssumption
  <2> QED
    BY <1>3, <2>1, <2>2, <2>3, <2>4, <2>5 DEF RoomInv
<1> QED
  BY <1>3, <1>6, <1>7

\* The end of a set, and of a killed one.
LEMMA EndedRoom ==
  ASSUME TypeInv, NoOverlap, IndexInv, IndexInv', RoomInv,
         Links \/ ReturnError \/ Crash \/ Recover
  PROVE  RoomInv'
<1>0. MaxKeyCount \in Nat \ {0}
  BY CacheAssumption
<1>1. CASE Crash
  <2>1. UNCHANGED <<ht, count>> /\ stack' = <<>> /\ pc' = "crashed"
    BY <1>1 DEF Crash, table, Enter
  <2>2. Wanted' \subseteq Wanted
    BY <2>1 DEF Wanted, Live
  <2> QED
    BY <2>1, <2>2, RoomKept DEF Unchecked, RoomInv
<1>2. CASE Recover
  <2>1. LiveKeys' = {} /\ count' = 0 /\ UNCHANGED stack /\ pc' = "idle"
    BY <1>2, NoEntryType DEF Recover, ClearTable, LiveKeys, Live, Enter
  <2>2. Wanted' \subseteq Wanted
    BY <2>1 DEF Wanted, Copies, LiveKeys
  <2> QED
    BY <1>0, <2>1, <2>2, RoomKept DEF Unchecked
<1>3. ASSUME NEW to \in {"rearrange", "fail"}, Return(to), stack # <<>>,
             pc \notin {"idle", "crashed"}
      PROVE  /\ stack \in Seq(Frame) /\ Len(stack) \in Nat /\ Len(stack) # 0
             /\ stack' = Front(stack)
             /\ Len(stack') = Len(stack) - 1
             /\ \A i \in 1..(Len(stack) - 1) : stack'[i] = stack[i]
             /\ pc' = IF Len(stack) = 1 THEN "idle" ELSE to
  <2>1. stack \in Seq(Frame) /\ Len(stack) \in Nat /\ Len(stack) # 0
    BY <1>3, TopType
  <2>2. stack' = Front(stack) /\ pc' = IF Len(stack) = 1 THEN "idle" ELSE to
    BY <1>3 DEF Return, Enter
  <2> QED
    BY <1>3, <2>1, <2>2, FrontElements
<1>4. CASE ReturnError
  <2>1. pc = "fail" /\ stack # <<>> /\ Return("fail")
    BY <1>4, TopType DEF ReturnError
  <2>2. /\ Len(stack) \in Nat /\ Len(stack) # 0
        /\ Len(stack') = Len(stack) - 1
        /\ \A i \in 1..(Len(stack) - 1) : stack'[i] = stack[i]
        /\ pc' = IF Len(stack) = 1 THEN "idle" ELSE "fail"
    BY <1>3, <2>1
  <2>3. LiveKeys' \subseteq LiveKeys /\ count' <= MaxKeyCount
    BY <1>0, <1>4, NoEntryType DEF ReturnError, ClearTable, LiveKeys, Live, table, RoomInv
  <2>4. Wanted' \subseteq Wanted
    <3>1. \A k \in Keys : Live(k)' => k \in Wanted
      BY <2>3 DEF Wanted, LiveKeys
    <3>2. \A i \in 1..Len(stack') : i \in 1..Len(stack) /\ stack'[i] = stack[i]
      BY <2>2
    <3>3. \A i \in 2..Len(stack') : i \in 2..Len(stack) /\ i \in 1..Len(stack')
      BY <2>2
    <3>4. \A i \in 2..Len(stack') : stack'[i].key \in Keys => stack'[i].key \in Wanted
      BY <3>2, <3>3 DEF Wanted
    <3>5. \A i \in 1..Len(stack') : \A j \in 1..Len(stack'[i].todo) :
            stack'[i].todo[j].key \in Keys => stack'[i].todo[j].key \in Wanted
      BY <3>2 DEF Wanted, Copies
    <3> QED
      BY <3>1, <3>4, <3>5, WantedLess
  <2>5. ~Unchecked' => ~Unchecked
    BY <2>1, <2>2 DEF Unchecked
  <2> QED
    BY <2>2, <2>3, <2>4, <2>5, RoomKept
<1>5. CASE Links
  <2> DEFINE k == Top.key
  <2>1. pc = "link" /\ stack # <<>> /\ Return("rearrange")
    BY <1>5, TopType DEF Links, Link
  <2>2. /\ Len(stack) \in Nat /\ Len(stack) # 0
        /\ Len(stack') = Len(stack) - 1
        /\ \A i \in 1..(Len(stack) - 1) : stack'[i] = stack[i]
        /\ pc' = IF Len(stack) = 1 THEN "idle" ELSE "rearrange"
    BY <1>3, <2>1
  <2>3. k \in Keys /\ LiveKeys' = LiveKeys \cup {k} /\ k = stack[Len(stack)].key
    BY <1>5, LinkedIndex DEF Top
  <2>4. /\ LiveKeys \subseteq Wanted /\ IsFiniteSet(Wanted) /\ Cardinality(Wanted) \in Nat
        /\ Cardinality(Wanted) < MaxKeyCount
    BY <2>1, LiveWanted DEF RoomInv, Unchecked
  <2>5. count' = Cardinality(LiveKeys') /\ IsFiniteSet(LiveKeys')
    BY DEF IndexInv
  <2> HIDE DEF k
  <2>6. /\ IsFiniteSet(Wanted \cup {k})
        /\ Cardinality(Wanted \cup {k}) =
             IF k \in Wanted THEN Cardinality(Wanted) ELSE Cardinality(Wanted) + 1
    BY <2>4, FS_AddElement
  <2>7. count' <= Cardinality(Wanted \cup {k}) /\ count' \in Nat
    <3>1. LiveKeys' \in SUBSET (Wanted \cup {k})
      BY <2>3, <2>4
    <3>2. Cardinality(LiveKeys') <= Cardinality(Wanted \cup {k})
      BY <2>6, <3>1, FS_Subset
    <3> QED
      BY <2>5, <3>2, FS_CardinalityType
  <2>8. count' <= MaxKeyCount
    BY <1>0, <2>4, <2>6, <2>7
  <2>9. Wanted' \subseteq Wanted \cup {k}
    BY <2>2, <2>3 DEF Wanted, Copies, LiveKeys
  <2>10. CASE Len(stack) = 1
    <3>1. IsFiniteSet(Wanted')
      BY <2>6, <2>9, FS_Subset
    <3>2. pc' = "idle"
      BY <2>2, <2>10
    <3> QED
      BY <2>8, <3>1, <3>2 DEF RoomInv, Unchecked
  <2>11. CASE Len(stack) # 1
    <3>1. k \in Wanted
      BY <2>2, <2>3, <2>11 DEF Wanted
    <3>2. pc' = "rearrange" /\ ~Unchecked
      BY <2>1, <2>2, <2>11 DEF Unchecked
    <3>3. Wanted' \subseteq Wanted
      BY <2>9, <3>1
    <3> QED
      BY <2>8, <3>2, <3>3, RoomKept
  <2> QED
    BY <2>10, <2>11
<1> QED
  BY <1>1, <1>2, <1>4, <1>5

\* The top activation gets another list of copies.
LEMMA TodoChanged ==
  ASSUME TypeInv, pc \notin {"idle", "crashed"}, NEW t \in Seq(Item)
  PROVE  LET s == [stack EXCEPT ![Len(stack)].todo = t]
         IN  /\ s \in Seq(Frame) /\ Len(s) = Len(stack)
             /\ \A i \in 1..Len(stack) : s[i].key = stack[i].key
             /\ \A i \in 1..(Len(stack) - 1) : s[i] = stack[i]
             /\ s[Len(stack)].todo = t
<1> DEFINE n == Len(stack)
           f == [Top EXCEPT !.todo = t]
           s == [stack EXCEPT ![n] = f]
<1>1. stack \in Seq(Frame) /\ n \in 1..n /\ Top \in Frame /\ n \in Nat /\ n # 0
  BY TopType
<1>2. f \in Frame /\ f.key = Top.key /\ f.todo = t
  BY <1>1 DEF Frame
<1>3. s = [stack EXCEPT ![n].todo = t]
  BY DEF Top
<1>4. Top = stack[n]
  BY DEF Top
<1> HIDE DEF f, n
<1>5. s \in Seq(Frame) /\ Len(s) = Len(stack)
  BY <1>1, <1>2 DEF n
<1>6. s[n] = f /\ \A i \in 1..(n - 1) : s[i] = stack[i]
  BY <1>1, <1>2 DEF n
<1>7. 1..n = 1..(n - 1) \cup {n}
  BY <1>1
<1> HIDE DEF s
<1>8. \A i \in 1..n : s[i].key = stack[i].key
  BY <1>2, <1>4, <1>6, <1>7
<1> QED
  BY <1>2, <1>3, <1>5, <1>6, <1>8 DEF n

LEMMA CopiedRoom ==
  ASSUME TypeInv, IndexInv, RoomInv, CopyEntry \/ CopyFails \/ Copied \/ RearrangeEntry
  PROVE  RoomInv'
<1> DEFINE n == Len(stack)
<1>0. pc \in {"toArray", "rearrange"} /\ ~Unchecked
  BY DEF CopyEntry, CopyFails, Copied, RearrangeEntry, Unchecked
<1>1. /\ stack \in Seq(Frame) /\ n \in Nat /\ n # 0 /\ Top = stack[n]
      /\ Top.todo \in Seq(Item)
  <2>1. stack \in Seq(Frame) /\ n \in Nat /\ n # 0 /\ Top \in Frame
    BY <1>0, TopType
  <2> QED
    BY <2>1 DEF Top, Frame
<1>2. /\ LiveKeys \subseteq Wanted
      /\ \A i \in 2..n : stack[i].key \in Wanted
      /\ \A i \in 1..n : \A j \in 1..Len(stack[i].todo) : stack[i].todo[j].key \in Wanted
  <2>1. \A i \in 1..n : stack[i] \in Frame
    BY <1>1
  <2>2. \A i \in 1..n : /\ stack[i].key \in Keys
                        /\ stack[i].todo \in Seq(Item)
    BY <2>1 DEF Frame
  <2>3. \A i \in 1..n : \A j \in 1..Len(stack[i].todo) : stack[i].todo[j] \in Item
    BY <2>2, ElementOfSeq
  <2>4. \A i \in 1..n : \A j \in 1..Len(stack[i].todo) : stack[i].todo[j].key \in Keys
    BY <2>3 DEF Item
  <2> QED
    BY <1>1, <2>2, <2>4 DEF Wanted, Copies, LiveKeys
<1>3. count \in Nat /\ count < MaxKeyCount
  BY <1>0, LiveWanted, CacheAssumption DEF RoomInv
<1>4. CASE CopyEntry
  <2>1. PICK k \in Keys : /\ EntryAt(k)
                          /\ stack' = IF IsValidAt(ht[k].exp, now)
                                      THEN [stack EXCEPT ![n].todo = Append(@, ItemAt(k))]
                                      ELSE stack
    BY <1>4 DEF CopyEntry
  <2>2. UNCHANGED <<ht, count, pc>>
    BY <1>4 DEF CopyEntry, table
  <2>3. ItemAt(k) \in Item /\ ItemAt(k).key = k /\ k \in Wanted
    BY <2>1 DEF EntryAt, Live, ItemAt, Item, TypeInv, TableInv, Entry, Placed, Wanted
  <2> DEFINE t == Append(Top.todo, ItemAt(k))
             s == [stack EXCEPT ![n].todo = t]
  <2>4. /\ t \in Seq(Item)
        /\ \A j \in 1..Len(t) : t[j].key \in Wanted
    <3>1. t \in Seq(Item) /\ Len(t) = Len(Top.todo) + 1 /\ Len(Top.todo) \in Nat
      BY <1>1, <2>3
    <3>2. t[Len(Top.todo) + 1] = ItemAt(k) /\ \A j \in 1..Len(Top.todo) : t[j] = Top.todo[j]
      BY <1>1, <2>3
    <3>3. \A j \in 1..Len(Top.todo) : Top.todo[j].key \in Wanted
      BY <1>1, <1>2
    <3> HIDE DEF t
    <3> QED
      BY <2>3, <3>1, <3>2, <3>3
  <2> HIDE DEF t
  <2>5. /\ Len(s) = n
        /\ \A i \in 1..n : s[i].key = stack[i].key
        /\ \A i \in 1..(n - 1) : s[i] = stack[i]
        /\ s[n].todo = t
    BY <1>0, <2>4, TodoChanged
  <2>6. stack' \in {s, stack}
    BY <2>1 DEF t, Top
  <2> HIDE DEF s
  <2>7. Wanted' \subseteq Wanted
    <3>1. CASE stack' = stack
      BY <2>2, <3>1 DEF Wanted, Copies, Live
    <3>2. CASE stack' = s
      <4>1. \A i \in 2..n : stack'[i].key \in Wanted
        BY <1>1, <1>2, <2>5, <3>2
      <4>2. \A i \in 1..n : \A j \in 1..Len(stack'[i].todo) : stack'[i].todo[j].key \in Wanted
        BY <1>1, <1>2, <2>4, <2>5, <3>2
      <4>3. Len(stack') = n
        BY <2>5, <3>2
      <4>4. \A l \in Keys : Live(l)' => l \in Wanted
        BY <2>2 DEF Wanted, Live
      <4> HIDE DEF n
      <4> QED
        BY <4>1, <4>2, <4>3, <4>4, WantedLess
    <3> QED
      BY <2>6, <3>1, <3>2
  <2> QED
    BY <1>0, <1>3, <2>2, <2>7, RoomKept, CacheAssumption
<1>5. CASE CopyFails
  <2>1. UNCHANGED <<ht, count>> /\ pc' = "fail" /\ stack' = [stack EXCEPT ![n].todo = <<>>]
    BY <1>5 DEF CopyFails, table, Enter
  <2>2. /\ Len(stack') = n
        /\ \A i \in 1..n : stack'[i].key = stack[i].key
        /\ \A i \in 1..(n - 1) : stack'[i] = stack[i]
        /\ stack'[n].todo = <<>>
    <3>1. <<>> \in Seq(Item)
      OBVIOUS
    <3>2. LET s == [stack EXCEPT ![n].todo = <<>>]
          IN  /\ s \in Seq(Frame) /\ Len(s) = n
              /\ \A i \in 1..n : s[i].key = stack[i].key
              /\ \A i \in 1..(n - 1) : s[i] = stack[i]
              /\ s[n].todo = <<>>
      BY <1>0, <3>1, TodoChanged, Zenon
    <3> QED
      BY <2>1, <3>2, Zenon
  <2>3. \A i \in 2..n : stack'[i].key \in Wanted
    BY <1>1, <1>2, <2>2
  <2>4. \A i \in 1..n : \A j \in 1..Len(stack'[i].todo) : stack'[i].todo[j].key \in Wanted
    BY <1>1, <1>2, <2>2
  <2> HIDE DEF n
  <2>5. Wanted' \subseteq Wanted
    BY <2>1, <2>2, <2>3, <2>4 DEF Wanted, Copies, Live
  <2> QED
    BY <1>0, <1>3, <2>1, <2>5, RoomKept, CacheAssumption
<1>6. CASE Copied
  <2>1. LiveKeys' = {} /\ count' = 0 /\ UNCHANGED stack /\ pc' = "rearrange"
    BY <1>6, NoEntryType DEF Copied, ClearTable, LiveKeys, Live, Enter
  <2>2. Wanted' \subseteq Wanted
    BY <2>1 DEF Wanted, Copies, LiveKeys
  <2> QED
    BY <1>0, <2>1, <2>2, RoomKept, CacheAssumption
<1>7. CASE RearrangeEntry
  <2> DEFINE x == Head(Top.todo)
             t == Tail(Top.todo)
             s == [stack EXCEPT ![n].todo = t]
  <2>1. UNCHANGED <<ht, count>> /\ Top.todo # <<>>
    BY <1>7 DEF RearrangeEntry, table
  <2>2. CallSet(s, x)
    BY <1>7 DEF RearrangeEntry, Top
  <2>3. /\ x \in Item /\ t \in Seq(Item) /\ x.key \in Wanted
        /\ \A j \in 1..Len(t) : t[j].key \in Wanted
    <3>1. \A j \in 1..Len(Top.todo) : Top.todo[j].key \in Wanted
      BY <1>1, <1>2
    <3>2. /\ x = Top.todo[1] /\ x \in Item /\ t \in Seq(Item)
          /\ Len(Top.todo) \in Nat /\ Len(Top.todo) # 0
          /\ Len(t) = Len(Top.todo) - 1
          /\ \A j \in 1..Len(t) : t[j] = Top.todo[j + 1]
      BY <1>1, <2>1
    <3> HIDE DEF x, t
    <3> QED
      BY <3>1, <3>2
  <2> HIDE DEF x, t
  <2>4. /\ s \in Seq(Frame) /\ Len(s) = n
        /\ \A i \in 1..n : s[i].key = stack[i].key
        /\ \A i \in 1..(n - 1) : s[i] = stack[i]
        /\ s[n].todo = t
    BY <1>0, <2>3, TodoChanged
  <2> HIDE DEF s
  <2>5. /\ stack' = Append(s, Activation(x))
        /\ Activation(x) \in Frame /\ Activation(x).key = x.key /\ Activation(x).todo = <<>>
        /\ pc' \in {"fail", "alloc1"}
    <3>1. ~TableFull
      BY <1>3, CacheAssumption DEF TableFull
    <3> QED
      BY <2>2, <2>3, <3>1, ActivationType DEF CallSet, Activation, Enter
  <2>6. /\ Len(stack') = n + 1 /\ stack'[n + 1] = Activation(x)
        /\ \A i \in 1..n : stack'[i] = s[i]
    BY <1>1, <2>4, <2>5
  <2>7. \A i \in 2..(n + 1) : stack'[i].key \in Wanted
    <3>1. \A i \in 2..(n + 1) : (i \in 2..n /\ i \in 1..n) \/ i = n + 1
      BY <1>1
    <3>2. stack'[n + 1].key = x.key
      BY <2>5, <2>6
    <3>3. \A i \in 1..n : stack'[i].key = stack[i].key
      BY <2>4, <2>6
    <3> QED
      BY <1>2, <2>3, <3>1, <3>2, <3>3, Zenon
  <2>8. \A i \in 1..(n + 1) : \A j \in 1..Len(stack'[i].todo) : stack'[i].todo[j].key \in Wanted
    <3>1. \A i \in 1..(n - 1) : \A j \in 1..Len(stack'[i].todo) : stack'[i].todo[j].key \in Wanted
      BY <1>1, <1>2, <2>4, <2>6
    <3>2. \A j \in 1..Len(stack'[n].todo) : stack'[n].todo[j].key \in Wanted
      BY <1>1, <2>3, <2>4, <2>6
    <3>3. \A j \in 1..Len(stack'[n + 1].todo) : stack'[n + 1].todo[j].key \in Wanted
      BY <2>5, <2>6
    <3>4. \A i \in 1..(n + 1) : i \in 1..(n - 1) \/ i = n \/ i = n + 1
      BY <1>1
    <3> QED
      BY <3>1, <3>2, <3>3, <3>4
  <2> HIDE DEF n
  <2>9. Wanted' \subseteq Wanted
    <3>1. \A k \in Keys : Live(k)' => k \in Wanted
      BY <2>1 DEF Wanted, Live
    <3> QED
      BY <2>6, <2>7, <2>8, <3>1, WantedLess
  <2> QED
    BY <1>0, <1>3, <2>1, <2>5, <2>9, RoomKept, CacheAssumption
<1> QED
  BY <1>4, <1>5, <1>6, <1>7

LEMMA RoomStep ==
  ASSUME TypeInv, NoOverlap, IndexInv, IndexInv', RoomInv, [Next]_vars
  PROVE  RoomInv'
<1>1. CASE Request
  BY <1>1, RequestRoom
<1>2. CASE Link
  <2>1. Links
    BY <1>2 DEF Link, Links, Return, segments, TypeInv, ControlInv
  <2> QED
    BY <2>1, EndedRoom
<1> QED
  BY <1>1, <1>2, MovedRoom, RecycledRoom, CopiedRoom, EndedRoom DEF Next, Step
-----------------------------------------------------------------------------
(* The theorems                                                            *)

SoundInv == TypeInv /\ SpaceInv /\ IndexInv /\ RoomInv /\ QueuesSound

LEMMA SoundInit == Init => SoundInv
<1> SUFFICES ASSUME Init PROVE SoundInv
  OBVIOUS
<1>1. TypeInv
  BY TypeInit
<1>2. LiveKeys = {} /\ new.str = 0
  BY NoEntryType DEF Init, LiveKeys, Live
<1>3. Occupied = {}
  BY <1>2 DEF Occupied
<1>4. IsFiniteSet({}) /\ Cardinality({}) = 0
  BY FS_EmptySet, Zenon
<1>5. SpaceInv
  <2>1. NoOverlap
    BY <1>2 DEF NoOverlap
  <2>2. \A s \in 1..nstr : strip[s].used = 0
    <3>1. 1..nstr \subseteq Stripings
      BY <1>1, SomeStripings
    <3> QED
      BY <3>1 DEF Init, ResetStriping
  <2>3. \A s : {u \in Occupied : u[1] = s} = {}
    BY <1>3
  <2>4. \A s \in 1..nstr : strip[s].used = Cardinality({u \in Occupied : u[1] = s})
    BY <1>4, <2>2, <2>3
  <2>5. usedEntry = 0
    BY DEF Init
  <2> QED
    BY <1>3, <1>4, <2>1, <2>4, <2>5 DEF SpaceInv, CountInv, UsedExact
<1>6. IndexInv
  <2>1. list = <<>> /\ count = 0 /\ Len(<<>>) = 0
    BY DEF Init
  <2>2. Distinct(<<>>) /\ \A x : ~Contains(<<>>, x)
    BY DEF Distinct, Contains
  <2> QED
    BY <1>2, <1>4, <2>1, <2>2 DEF IndexInv
<1>7. RoomInv
  <2>1. stack = <<>> /\ count = 0 /\ pc = "idle"
    BY DEF Init
  <2>2. Wanted = {}
    BY <1>2, <2>1 DEF Wanted, LiveKeys
  <2> QED
    BY <1>4, <2>1, <2>2, CacheAssumption DEF RoomInv, Unchecked
<1>8. QueuesSound
  <2>1. nstr \in Nat /\ 1..nstr \subseteq Stripings
    BY <1>1, SomeStripings
  <2>2. \A s \in 1..nstr : strip[s].pool = "doing"
    BY <2>1 DEF Init, ResetStriping
  <2>3. done = <<>> /\ doing = [i \in 1..nstr |-> i]
    BY DEF Init
  <2>4. \A s : ~Contains(done, s)
    BY <2>3 DEF Contains
  <2> QED
    BY <2>1, <2>2, <2>3, <2>4 DEF QueuesSound
<1> QED
  BY <1>1, <1>5, <1>6, <1>7, <1>8 DEF SoundInv

LEMMA SoundStep == SoundInv /\ [Next]_vars => SoundInv'
<1> SUFFICES ASSUME SoundInv, [Next]_vars PROVE SoundInv'
  OBVIOUS
<1>1. TypeInv /\ SpaceInv /\ NoOverlap /\ IndexInv /\ RoomInv /\ QueuesSound
  BY DEF SoundInv, SpaceInv
<1>2. TypeInv'
  BY <1>1, TypeStep
<1>3. Effect
  BY <1>1, StepEffect
<1>4. SpaceInv'
  BY <1>1, <1>3, SpaceStep
<1>5. IndexInv'
  BY <1>1, <1>3, IndexStep
<1>6. RoomInv'
  BY <1>1, <1>5, RoomStep
<1>7. QueuesSound'
  BY <1>1, <1>3, QueuesStep
<1> QED
  BY <1>2, <1>4, <1>5, <1>6, <1>7 DEF SoundInv

LEMMA SoundImplies == SoundInv => MemorySound
<1> SUFFICES ASSUME SoundInv PROVE MemorySound
  OBVIOUS
<1>1. TypeInv /\ NoOverlap /\ UsedExact /\ IndexInv /\ QueuesSound /\ count <= MaxKeyCount
  BY DEF SoundInv, SpaceInv, CountInv, RoomInv
<1>2. DOMAIN list = 1..Len(list)
  BY <1>1, ListType
<1>3. \A x : x \in {list[i] : i \in DOMAIN list} <=> Contains(list, x)
  BY <1>2 DEF Contains
<1>4. {list[i] : i \in DOMAIN list} = {Offset(ht[k]) : k \in LiveKeys}
  BY <1>1, <1>3 DEF IndexInv
<1>5. IndexesAgree
  BY <1>1, <1>4 DEF IndexesAgree, IndexInv
<1> QED
  BY <1>1, <1>5 DEF MemorySound

\* No two entries of the cache ever share memory, the one that shm_ht_set is
\* about to link included, and none lies in the part of its striping that the
\* next allocation takes: shm_value_allocator_free resets a striping only when
\* nothing in it is live.
THEOREM EntriesApart == Spec => []NoOverlap
<1>1. SoundInv => NoOverlap
  BY DEF SoundInv, SpaceInv
<1> QED
  BY <1>1, SoundInit, SoundStep, PTL DEF Spec

\* size.used of every striping allocator and usage.used.entry are always
\* exactly what the entries occupy, so that neither drifts over any history of
\* allocations, frees, rearrangements and kills.
THEOREM SizesExact == Spec => []UsedExact
<1>1. SoundInv => UsedExact
  BY DEF SoundInv, SpaceInv, CountInv
<1> QED
  BY <1>1, SoundInit, SoundStep, PTL DEF Spec

\* Buckets, FIFO list and count always name the same entries, and there are
\* never more than max_key_count, although only the first activation of
\* shm_ht_set in a rearrangement makes room.
THEOREM IndexesSound == Spec => []IndexesAgree
<1>1. SoundInv => IndexesAgree
  BY SoundImplies DEF MemorySound
<1> QED
  BY <1>1, SoundInit, SoundStep, PTL DEF Spec

\* No striping allocator is ever queued twice, and in_which_pool says done
\* exactly for those in the done queue, although a removal from the doing
\* queue may report another allocator than the one removed.
THEOREM QueuesCorrect == Spec => []QueuesSound
<1>1. SoundInv => QueuesSound
  BY DEF SoundInv
<1> QED
  BY <1>1, SoundInit, SoundStep, PTL DEF Spec

\* All of it together, for every configuration and any number of keys,
\* stripings and segments.
THEOREM MemoryCorrect == Spec => []MemorySound
  BY SoundInit, SoundStep, SoundImplies, PTL DEF Spec
-----------------------------------------------------------------------------
(* The entries in the order of the list                                    *)

\* The sequence s has the entries of the table in the order of the list.
Lists(s) ==
  /\ s \in Seq(Item) /\ Len(s) = Len(list)
  /\ \A i \in 1..Len(list) :
       LET k == s[i].key IN Live(k) /\ Offset(ht[k]) = list[i] /\ s[i] = ItemAt(k)
ContentsListed == Lists(Contents)
ContentsOnly == \A s : Lists(s) => s = Contents

LEMMA ItemAtType ==
  ASSUME TypeInv, NEW k \in Keys, Live(k)
  PROVE  ItemAt(k) \in Item /\ ItemAt(k).key = k
<1>1. ht[k] \in Entry /\ ht[k].val \in Values
  BY DEF TypeInv, TableInv, Live, Placed
<1> QED
  BY <1>1 DEF ItemAt, Item, Entry

LEMMA ContentsAre == SoundInv => ContentsListed /\ ContentsOnly
<1> SUFFICES ASSUME SoundInv PROVE ContentsListed /\ ContentsOnly
  OBVIOUS
<1>0. TypeInv /\ NoOverlap /\ IndexInv
  BY DEF SoundInv, SpaceInv
<1>1. Len(list) \in Nat
  BY <1>0, ListType
<1> DEFINE k(i) == CHOOSE k \in Keys : Live(k) /\ Offset(ht[k]) = list[i]
<1>2. ASSUME NEW i \in 1..Len(list)
      PROVE  k(i) \in Keys /\ Live(k(i)) /\ Offset(ht[k(i)]) = list[i]
  <2>1. Contains(list, list[i])
    BY DEF Contains
  <2>2. \E l \in Keys : Live(l) /\ Offset(ht[l]) = list[i]
    BY <1>0, <2>1 DEF IndexInv, LiveKeys
  <2> QED
    BY <2>2
<1>3. Contents = [i \in 1..Len(list) |-> ItemAt(k(i))]
  BY DEF Contents
<1> HIDE DEF k
<1>4. \A i \in 1..Len(list) : ItemAt(k(i)) \in Item /\ ItemAt(k(i)).key = k(i)
  BY <1>0, <1>2, ItemAtType
<1>5. Contents \in Seq(Item) /\ Len(Contents) = Len(list)
  BY <1>1, <1>3, <1>4
<1>6. \A i \in 1..Len(list) : Contents[i] = ItemAt(k(i))
  BY <1>3
<1>7. Lists(Contents)
  <2>1. \A i \in 1..Len(list) : Contents[i].key = k(i)
    BY <1>4, <1>6
  <2> QED
    BY <1>2, <1>5, <1>6, <2>1 DEF Lists
<1>8. ASSUME NEW s, Lists(s) PROVE s = Contents
  <2>1. s \in Seq(Item) /\ Len(s) = Len(Contents)
    BY <1>5, <1>8 DEF Lists
  <2>2. ASSUME NEW i \in 1..Len(s) PROVE s[i] = Contents[i]
    <3>1. i \in 1..Len(list)
      BY <1>5, <2>1
    <3>2. s[i] \in Item
      BY <2>1
    <3>3. s[i].key \in Keys /\ Live(s[i].key) /\ Offset(ht[s[i].key]) = list[i] /\ s[i] = ItemAt(s[i].key)
      BY <1>8, <3>1, <3>2 DEF Lists, Item
    <3>4. s[i].key = k(i)
      BY <1>0, <1>2, <3>1, <3>3, OffsetsDiffer DEF LiveKeys
    <3> QED
      BY <1>6, <3>1, <3>3, <3>4
  <2> QED
    BY <1>5, <2>1, <2>2, SeqEqual
<1> QED
  BY <1>7, <1>8 DEF ContentsListed, ContentsOnly

\* What Contents is, by what it is made of.
LEMMA ContentsKept ==
  ASSUME UNCHANGED <<ht, list>> PROVE Contents' = Contents
BY DEF Contents, ItemAt, Live, Offset

LEMMA ContentsCleared ==
  ASSUME ClearTable PROVE Contents' = <<>>
<1>1. Len(list') = 0
  BY DEF ClearTable
<1>2. Contents' = [i \in 1..0 |-> ItemAt(CHOOSE k \in Keys : Live(k) /\ Offset(ht[k]) = list[i])']
  BY <1>1 DEF Contents
<1> QED
  BY <1>2

\* Where the entry of a key stands.
LEMMA PlaceOf ==
  ASSUME SoundInv, NEW k \in LiveKeys
  PROVE  \E i \in 1..Len(list) : list[i] = Offset(ht[k]) /\ Contents[i] = ItemAt(k) /\ Contents[i].key = k
<1>1. TypeInv /\ NoOverlap /\ IndexInv /\ Lists(Contents)
  BY ContentsAre DEF SoundInv, SpaceInv, ContentsListed
<1>2. PICK i \in 1..Len(list) : list[i] = Offset(ht[k])
  BY <1>1 DEF IndexInv, Contains
<1>3. Contents[i] \in Item
  BY <1>1 DEF Lists
<1>4. LET l == Contents[i].key
      IN  l \in Keys /\ Live(l) /\ Offset(ht[l]) = list[i] /\ Contents[i] = ItemAt(l)
  BY <1>1, <1>3 DEF Lists, Item
<1>5. Contents[i].key = k
  BY <1>1, <1>2, <1>4, OffsetsDiffer DEF LiveKeys
<1> QED
  BY <1>2, <1>4, <1>5

\* No key has two entries.
KeysApart(s) == \A i, j \in 1..Len(s) : s[i].key = s[j].key => i = j
LEMMA ContentsApart ==
  ASSUME SoundInv PROVE KeysApart(Contents)
<1>1. IndexInv /\ Lists(Contents) /\ Len(list) \in Nat
  BY ContentsAre, ListType DEF SoundInv, ContentsListed
<1>2. \A i, j \in 1..Len(list) : list[i] = list[j] => i = j
  BY <1>1 DEF IndexInv, Distinct
<1>3. Len(Contents) = Len(list) /\ \A i \in 1..Len(list) : Offset(ht[Contents[i].key]) = list[i]
  BY <1>1 DEF Lists
<1> QED
  BY <1>2, <1>3 DEF KeysApart

LEMMA WithoutAt ==
  ASSUME NEW T, NEW s \in Seq(T), Distinct(s), NEW i \in 1..Len(s)
  PROVE  Without(s, s[i]) = RemoveAt(s, i)
<1>1. Contains(s, s[i])
  BY DEF Contains
<1>2. \A j \in 1..Len(s) : s[j] = s[i] => j = i
  BY DEF Distinct
<1>3. (CHOOSE j \in 1..Len(s) : s[j] = s[i]) = i
  BY <1>2
<1> QED
  BY <1>1, <1>3 DEF Without

\* The sequence s has the entries of the offsets l, none of which is that of k.
ListsBut(s, l, k) ==
  /\ s \in Seq(Item) /\ Len(s) = Len(l)
  /\ \A j \in 1..Len(l) : /\ s[j].key \in Keys \ {k} /\ Live(s[j].key)
                          /\ Offset(ht[s[j].key]) = l[j] /\ s[j] = ItemAt(s[j].key)

LEMMA RemovedBut ==
  ASSUME SoundInv, NEW k \in Keys, Live(k)
  PROVE  \E i \in 1..Len(list) :
            /\ list[i] = Offset(ht[k]) /\ Contents[i] = ItemAt(k) /\ Contents[i].key = k
            /\ Len(Contents) = Len(list) /\ Contents \in Seq(Item)
            /\ ListsBut(RemoveAt(Contents, i), Without(list, Offset(ht[k])), k)
<1>1. PICK i \in 1..Len(list) :
         list[i] = Offset(ht[k]) /\ Contents[i] = ItemAt(k) /\ Contents[i].key = k
  BY PlaceOf DEF LiveKeys
<1> DEFINE c == Contents
           n == Len(list)
           r == Without(list, Offset(ht[k]))
           s == RemoveAt(c, i)
<1>3. n \in Nat
  BY ListType DEF SoundInv
<1>4. /\ c \in Seq(Item) /\ Len(c) = n
      /\ \A j \in 1..n : /\ Live(c[j].key) /\ Offset(ht[c[j].key]) = list[j]
                         /\ c[j] = ItemAt(c[j].key)
  BY ContentsAre DEF ContentsListed, Lists
<1>5. \A j \in 1..n : c[j].key = k => j = i
  BY <1>1, <1>4, ContentsApart DEF KeysApart
<1>6. /\ Len(r) = n - 1
      /\ \A j \in 1..(n - 1) : r[j] = IF j < i THEN list[j] ELSE list[j + 1]
  <2>1. list \in Seq(Stripings \X (0..StripingSize)) /\ Distinct(list)
    BY ListType DEF SoundInv, IndexInv
  <2>2. r = RemoveAt(list, i)
    BY <1>1, <2>1, WithoutAt
  <2> HIDE DEF r
  <2> QED
    BY <2>1, <2>2, RemoveAtElements
<1> HIDE DEF c, r
<1>8. /\ s \in Seq(Item) /\ Len(s) = n - 1
      /\ \A j \in 1..(n - 1) : s[j] = IF j < i THEN c[j] ELSE c[j + 1]
  BY <1>4, RemoveAtElements, RemoveAtType
<1> HIDE DEF s, n
<1>9. ASSUME NEW j \in 1..(n - 1)
      PROVE  /\ s[j].key \in Keys \ {k} /\ Live(s[j].key)
             /\ Offset(ht[s[j].key]) = r[j] /\ s[j] = ItemAt(s[j].key)
  <2>1. PICK m \in 1..n : m # i /\ m = IF j < i THEN j ELSE j + 1
    BY <1>1, <1>3 DEF n
  <2>2. s[j] = c[m] /\ r[j] = list[m]
    BY <1>6, <1>8, <2>1
  <2>4. c[m] \in Item
    BY <1>4
  <2> QED
    BY <1>4, <1>5, <2>1, <2>2, <2>4 DEF Item
<1>10. ListsBut(s, r, k)
  BY <1>6, <1>8, <1>9 DEF ListsBut
<1> QED
  BY <1>1, <1>4, <1>10 DEF c, n, r, s

\* Entries of other keys are not touched by a step that stores at k.
LEMMA ButKept ==
  ASSUME SoundInv, NEW k \in Keys, NEW e, ht' = [ht EXCEPT ![k] = e], NEW s, NEW l,
         ListsBut(s, l, k)
  PROVE  ListsBut(s, l, k)'
<1>1. \A m \in Keys \ {k} : ht'[m] = ht[m]
  BY DEF SoundInv, TypeInv, TableInv
<1>2. \A m \in Keys \ {k} : (Live(m) <=> Live(m)') /\ Offset(ht[m])' = Offset(ht[m]) /\ ItemAt(m)' = ItemAt(m)
  BY <1>1 DEF Live, ItemAt, Offset
<1> QED
  BY <1>2 DEF ListsBut

LEMMA ContentsUnlinked ==
  ASSUME SoundInv, SoundInv', NEW k \in Keys, Live(k),
         ht' = [ht EXCEPT ![k] = NoEntry], list' = Without(list, Offset(ht[k]))
  PROVE  \E i \in 1..Len(list) :
            /\ list[i] = Offset(ht[k]) /\ Contents[i] = ItemAt(k) /\ Contents[i].key = k
            /\ Len(Contents) = Len(list) /\ Contents \in Seq(Item)
            /\ Contents' = RemoveAt(Contents, i)
<1>1. PICK i \in 1..Len(list) :
            /\ list[i] = Offset(ht[k]) /\ Contents[i] = ItemAt(k) /\ Contents[i].key = k
            /\ Len(Contents) = Len(list) /\ Contents \in Seq(Item)
            /\ ListsBut(RemoveAt(Contents, i), Without(list, Offset(ht[k])), k)
  BY RemovedBut
<1>2. PICK s : s = RemoveAt(Contents, i)
  OBVIOUS
<1>3. PICK l : l = Without(list, Offset(ht[k]))
  OBVIOUS
<1>4. ListsBut(s, l, k)'
  BY <1>1, <1>2, <1>3, ButKept
<1>5. list' = l
  BY <1>3
<1>6. Lists(s)'
  BY <1>4, <1>5 DEF ListsBut, Lists
<1>7. s = Contents'
  <2>1. SoundInv' => ContentsOnly'
    BY ContentsAre, PTL
  <2> QED
    BY <1>6, <2>1 DEF ContentsOnly
<1> QED
  BY <1>1, <1>2, <1>7

LEMMA ContentsLinked ==
  ASSUME SoundInv, SoundInv', NEW k \in Keys, NEW x, new.str # 0, new.val \in Values,
         x = [key |-> k, val |-> new.val, exp |-> new.exp], ht' = [ht EXCEPT ![k] = new],
         list' = Append(IF Live(k) THEN Without(list, Offset(ht[k])) ELSE list, Offset(new))
  PROVE  IF Live(k)
         THEN \E i \in 1..Len(list) :
                 /\ Contents[i].key = k /\ Len(Contents) = Len(list)
                 /\ Contents' = Append(RemoveAt(Contents, i), x)
         ELSE /\ \A i \in 1..Len(Contents) : Contents[i].key # k
              /\ Contents' = Append(Contents, x)
<1>1. ASSUME NEW s, NEW l, ListsBut(s, l, k), l \in Seq(Stripings \X (0..StripingSize)),
             list' = Append(l, Offset(new))
      PROVE  Contents' = Append(s, x)
  <2>1. ListsBut(s, l, k)'
    BY <1>1, ButKept
  <2>2. PICK n \in Nat : n = Len(l)
    BY <1>1
  <2>3. s \in Seq(Item) /\ Len(s) = n
    BY <1>1, <2>2 DEF ListsBut
  <2>4. ht'[k] = new /\ new \in Entry
    BY DEF SoundInv, TypeInv, TableInv, ControlInv
  <2>5. x \in Item /\ x.key = k /\ Live(k)' /\ ItemAt(k)' = x
    BY <2>4 DEF Live, ItemAt, Item, Entry
  <2>6. PICK o : o = Offset(new)
    OBVIOUS
  <2>7. Len(list') = n + 1 /\ list'[n + 1] = o /\ \A j \in 1..n : list'[j] = l[j]
    <3>1. o \in Stripings \X (0..StripingSize)
      BY <2>4, <2>6, Bounds DEF Offset, Entry, Stripings
    <3>2. list' = Append(l, o)
      BY <1>1, <2>6
    <3>3. PICK T : l \in Seq(T) /\ o \in T
      BY <1>1, <3>1
    <3>4. PICK q : q = Append(l, o)
      OBVIOUS
    <3>5. Len(q) = n + 1 /\ q[n + 1] = o /\ \A j \in 1..n : q[j] = l[j]
      BY <2>2, <3>3, <3>4
    <3> QED
      BY <3>2, <3>4, <3>5, Zenon
  <2>8. PICK a : a = Append(s, x)
    OBVIOUS
  <2>9. a \in Seq(Item) /\ Len(a) = n + 1 /\ a[n + 1] = x /\ \A j \in 1..n : a[j] = s[j]
    BY <2>3, <2>5, <2>8
  <2>10. \A j \in 1..(n + 1) :
           LET m == a[j].key IN Live(m)' /\ Offset(ht'[m]) = list'[j] /\ a[j] = ItemAt(m)'
    <3> SUFFICES ASSUME NEW j \in 1..(n + 1)
                 PROVE  LET m == a[j].key IN Live(m)' /\ Offset(ht'[m]) = list'[j] /\ a[j] = ItemAt(m)'
      OBVIOUS
    <3>1. CASE j = n + 1
      BY <2>4, <2>5, <2>6, <2>7, <2>9, <3>1
    <3>2. CASE j \in 1..n
      <4>1. a[j] = s[j] /\ list'[j] = l[j]
        BY <2>7, <2>9, <3>2
      <4>2. PICK m : m = s[j].key
        OBVIOUS
      <4>3. Live(m)' /\ Offset(ht'[m]) = l[j] /\ s[j] = ItemAt(m)'
        BY <2>1, <2>2, <3>2, <4>2 DEF ListsBut
      <4> QED
        BY <4>1, <4>2, <4>3
    <3>3. j = n + 1 \/ j \in 1..n
      BY <2>2
    <3> QED
      BY <3>1, <3>2, <3>3, Zenon
  <2>11. Lists(a)'
    BY <2>7, <2>9, <2>10 DEF Lists
  <2>12. SoundInv' => ContentsOnly'
    BY ContentsAre, PTL
  <2> QED
    BY <2>8, <2>11, <2>12 DEF ContentsOnly
<1>2. list \in Seq(Stripings \X (0..StripingSize))
  BY ListType DEF SoundInv
<1>3. CASE Live(k)
  <2>1. PICK i \in 1..Len(list) :
            /\ list[i] = Offset(ht[k]) /\ Contents[i] = ItemAt(k) /\ Contents[i].key = k
            /\ Len(Contents) = Len(list) /\ Contents \in Seq(Item)
            /\ ListsBut(RemoveAt(Contents, i), Without(list, Offset(ht[k])), k)
    BY <1>3, RemovedBut
  <2>2. PICK s : s = RemoveAt(Contents, i)
    OBVIOUS
  <2>3. PICK l : l = Without(list, Offset(ht[k]))
    OBVIOUS
  <2>4. l \in Seq(Stripings \X (0..StripingSize))
    BY <1>2, <2>3, WithoutType
  <2>5. list' = Append(l, Offset(new)) /\ ListsBut(s, l, k)
    BY <1>3, <2>1, <2>2, <2>3
  <2>6. Contents' = Append(s, x)
    BY <1>1, <2>4, <2>5
  <2> QED
    BY <1>3, <2>1, <2>2, <2>6
<1>4. CASE ~Live(k)
  <2>1. Lists(Contents)
    BY ContentsAre DEF ContentsListed
  <2>2. PICK s : s = Contents
    OBVIOUS
  <2>3. PICK l : l = list
    OBVIOUS
  <2>4. \A i \in 1..Len(list) : s[i] \in Item /\ s[i].key \in Keys \ {k}
    <3>1. s \in Seq(Item) /\ Len(s) = Len(list) /\ \A i \in 1..Len(list) : Live(s[i].key)
      BY <2>1, <2>2 DEF Lists
    <3>2. \A i \in 1..Len(list) : s[i] \in Item
      BY <3>1
    <3>3. \A i \in 1..Len(list) : s[i].key \in Keys
      BY <3>2 DEF Item
    <3> QED
      BY <1>4, <3>1, <3>2, <3>3
  <2>5. ListsBut(s, l, k)
    <3>1. s \in Seq(Item) /\ Len(s) = Len(l)
      BY <2>1, <2>2, <2>3 DEF Lists
    <3>2. \A j \in 1..Len(l) : Live(s[j].key) /\ Offset(ht[s[j].key]) = l[j] /\ s[j] = ItemAt(s[j].key)
      BY <2>1, <2>2, <2>3 DEF Lists
    <3> QED
      BY <2>3, <2>4, <3>1, <3>2 DEF ListsBut
  <2>6. Contents' = Append(s, x)
    BY <1>1, <1>2, <1>4, <2>3, <2>5
  <2> QED
    BY <1>4, <2>1, <2>2, <2>4, <2>6 DEF Lists
<1> QED
  BY <1>3, <1>4

LEMMA ContentsTouched ==
  ASSUME SoundInv, SoundInv', NEW k \in Keys, Live(k), NEW exp \in Nat,
         ht' = [ht EXCEPT ![k].exp = exp], list' = list
  PROVE  \E i \in 1..Len(list) :
            /\ Contents[i] = ItemAt(k) /\ Len(Contents) = Len(list) /\ Contents \in Seq(Item)
            /\ Contents' = [Contents EXCEPT ![i].exp = exp]
<1>1. PICK i \in 1..Len(list) :
         list[i] = Offset(ht[k]) /\ Contents[i] = ItemAt(k) /\ Contents[i].key = k
  BY PlaceOf DEF LiveKeys
<1>2. PICK c : c = Contents
  OBVIOUS
<1>3. PICK n \in Nat : n = Len(list)
  BY ListType DEF SoundInv
<1>4. /\ c \in Seq(Item) /\ Len(c) = n
      /\ \A j \in 1..n : /\ Live(c[j].key) /\ Offset(ht[c[j].key]) = list[j]
                         /\ c[j] = ItemAt(c[j].key)
  BY <1>2, <1>3, ContentsAre DEF ContentsListed, Lists
<1>5. \A j \in 1..n : c[j].key = k => j = i
  BY <1>1, <1>2, <1>3, <1>4, ContentsApart DEF KeysApart
<1>6. ht \in [Keys -> Entry]
  BY DEF SoundInv, TypeInv, TableInv
<1>7. /\ ht'[k].val = ht[k].val /\ ht'[k].str = ht[k].str /\ ht'[k].off = ht[k].off /\ ht'[k].exp = exp
      /\ \A l \in Keys \ {k} : ht'[l] = ht[l]
  BY <1>6 DEF Entry
<1>8. PICK x : x = [key |-> k, val |-> ht[k].val, exp |-> exp]
  OBVIOUS
<1>9. x \in Item /\ x.key = k /\ x = ItemAt(k)' /\ x = [c[i] EXCEPT !.exp = exp]
  <2>1. ItemAt(k) \in Item
    BY ItemAtType DEF SoundInv
  <2> QED
    BY <1>1, <1>2, <1>7, <1>8, <2>1 DEF ItemAt, Item
<1>10. PICK s : s = [c EXCEPT ![i] = x]
  OBVIOUS
<1>11. /\ s \in Seq(Item) /\ Len(s) = n
       /\ \A j \in 1..n : s[j] = IF j = i THEN x ELSE c[j]
  BY <1>3, <1>4, <1>9, <1>10, ExceptSeq
<1>12. \A j \in 1..n : LET l == s[j].key IN Live(l)' /\ Offset(ht'[l]) = list'[j] /\ s[j] = ItemAt(l)'
  <2> SUFFICES ASSUME NEW j \in 1..n
               PROVE  LET l == s[j].key IN Live(l)' /\ Offset(ht'[l]) = list'[j] /\ s[j] = ItemAt(l)'
    OBVIOUS
  <2>1. CASE j = i
    BY <1>1, <1>7, <1>9, <1>11, <2>1 DEF Live, Offset
  <2>2. CASE j # i
    <3>1. c[j] \in Item /\ s[j] = c[j]
      BY <1>4, <1>11, <2>2
    <3>2. PICK l : l = c[j].key
      OBVIOUS
    <3>3. l \in Keys \ {k} /\ Live(l) /\ Offset(ht[l]) = list[j] /\ c[j] = ItemAt(l)
      BY <1>4, <1>5, <2>2, <3>1, <3>2 DEF Item
    <3> QED
      BY <1>7, <3>1, <3>2, <3>3 DEF Live, ItemAt
  <2> QED
    BY <2>1, <2>2
<1>13. Lists(s)'
  BY <1>3, <1>11, <1>12 DEF Lists
<1>14. s = Contents'
  <2>1. SoundInv' => ContentsOnly'
    BY ContentsAre, PTL
  <2> QED
    BY <1>13, <2>1 DEF ContentsOnly
<1>15. s = [c EXCEPT ![i].exp = exp]
  BY <1>9, <1>10
<1> QED
  BY <1>1, <1>2, <1>3, <1>4, <1>14, <1>15
-----------------------------------------------------------------------------
(* What is still to be set again.  Pending is a recursive function over    *)
(* the activations; Pend has the activations as its argument.               *)

Pend(s, b) ==
  LET P[i \in 0..Len(s)] ==
        IF i = 0 THEN <<>>
        ELSE (IF b /\ i = Len(s) THEN <<>> ELSE s[i].todo)
             \o (IF i > 1 THEN <<ItemOf(s[i])>> ELSE <<>>) \o P[i - 1]
  IN  P[Len(s)]

LEMMA PendingIs == Pending = Pend(stack, pc = "toArray")
BY DEF Pending, Pend

\* What one activation adds, and a function that adds them up.
Part(s, b, i) == (IF b /\ i = Len(s) THEN <<>> ELSE s[i].todo)
                 \o (IF i > 1 THEN <<ItemOf(s[i])>> ELSE <<>>)
Adds(s, b, m, g) == /\ g \in [0..m -> Seq(Item)]
                    /\ g[0] = <<>>
                    /\ \A i \in 1..m : g[i] = Part(s, b, i) \o g[i - 1]

LEMMA LeastOf ==
  ASSUME NEW S \in SUBSET Nat, S # {}
  PROVE  \E x \in S : \A y \in S : x <= y
<1> DEFINE R == {s \in Nat \X Nat : s[1] < s[2]}
<1>1. IsWellFoundedOn(R, Nat)
  BY NatLessThanWellFounded, Zenon DEF OpToRel
<1>2. \A x, y \in S : <<y, x>> \notin R => x <= y
  OBVIOUS
<1> HIDE DEF R
<1>3. \E x \in S : \A y \in S : <<y, x>> \notin R
  BY <1>1, WFMin, Zenon
<1> QED
  BY <1>2, <1>3

\* Induction over the numbers of a set.
LEMMA AllUpTo ==
  ASSUME NEW n \in Nat, NEW S, 0 \in S, \A m \in 0..n : m \in S /\ m < n => m + 1 \in S
  PROVE  \A m \in 0..n : m \in S
<1> DEFINE R == {m \in 0..n : m \notin S}
<1> SUFFICES ASSUME R # {} PROVE FALSE
  OBVIOUS
<1>0. R \in SUBSET Nat
  OBVIOUS
<1>1. PICK x \in R : \A y \in R : x <= y
  <2> HIDE DEF R
  <2> QED
    BY <1>0, LeastOf
<1>2. x # 0 /\ x - 1 \in 0..n /\ x - 1 < n
  BY <1>1
<1>3. x - 1 \in S
  BY <1>1, <1>2
<1>4. (x - 1) + 1 = x
  BY <1>1
<1> QED
  BY <1>1, <1>2, <1>3, <1>4

LEMMA ItemOfType == ASSUME NEW f \in Frame PROVE ItemOf(f) \in Item
BY DEF ItemOf, Item, Frame

LEMMA PartType ==
  ASSUME NEW s \in Seq(Frame), NEW b \in BOOLEAN, NEW i \in 1..Len(s)
  PROVE  Part(s, b, i) \in Seq(Item)
<1>1. s[i] \in Frame
  OBVIOUS
<1>2. s[i].todo \in Seq(Item) /\ ItemOf(s[i]) \in Item
  BY <1>1, ItemOfType DEF Frame
<1>3. (IF b /\ i = Len(s) THEN <<>> ELSE s[i].todo) \in Seq(Item)
  BY <1>2
<1>4. (IF i > 1 THEN <<ItemOf(s[i])>> ELSE <<>>) \in Seq(Item)
  BY <1>2
<1> QED
  BY <1>3, <1>4, ConcatProperties DEF Part

LEMMA AddsExists ==
  ASSUME NEW s \in Seq(Frame), NEW b \in BOOLEAN
  PROVE  \E g : Adds(s, b, Len(s), g)
<1> DEFINE n == Len(s)
           S == {m \in 0..n : \E g : Adds(s, b, m, g)}
<1>0. n \in Nat
  OBVIOUS
<1>1. 0 \in S
  <2> DEFINE g == [i \in 0..0 |-> <<>>]
  <2>1. g \in [0..0 -> Seq(Item)] /\ g[0] = <<>> /\ 1..0 = {}
    OBVIOUS
  <2>2. Adds(s, b, 0, g)
    BY <2>1 DEF Adds
  <2> QED
    BY <1>0, <2>2
<1>2. ASSUME NEW m \in 0..n, m \in S, m < n PROVE m + 1 \in S
  <2>1. PICK g : Adds(s, b, m, g)
    BY <1>2
  <2>2. m \in Nat /\ m + 1 \in 1..n
    BY <1>0, <1>2
  <2> DEFINE p == Part(s, b, m + 1)
             h == [i \in 0..(m + 1) |-> IF i = m + 1 THEN p \o g[m] ELSE g[i]]
  <2>3. g \in [0..m -> Seq(Item)] /\ g[0] = <<>> /\ \A i \in 1..m : g[i] = Part(s, b, i) \o g[i - 1]
    BY <2>1 DEF Adds
  <2>4. p \in Seq(Item)
    BY <2>2, PartType
  <2>5. p \o g[m] \in Seq(Item)
    BY <2>2, <2>3, <2>4, ConcatProperties
  <2> HIDE DEF p
  <2>6. h \in [0..(m + 1) -> Seq(Item)] /\ h[0] = <<>>
    BY <2>2, <2>3, <2>5
  <2>7. h[m + 1] = p \o g[m] /\ \A i \in 0..m : h[i] = g[i]
    BY <2>2
  <2> HIDE DEF h
  <2>8. ASSUME NEW i \in 1..(m + 1) PROVE h[i] = Part(s, b, i) \o h[i - 1]
    <3>1. CASE i = m + 1
      <4>1. i - 1 = m /\ m \in 0..m
        BY <2>2, <3>1
      <4> QED
        BY <2>7, <3>1, <4>1 DEF p
    <3>2. CASE i \in 1..m
      <4>1. i - 1 \in 0..m /\ i \in 0..m
        BY <2>2, <3>2
      <4> QED
        BY <2>3, <2>7, <3>2, <4>1
    <3> QED
      BY <2>2, <3>1, <3>2
  <2>9. Adds(s, b, m + 1, h)
    BY <2>6, <2>8 DEF Adds
  <2> QED
    BY <2>2, <2>9
<1>3. n \in S
  <2> HIDE DEF S, n
  <2>1. \A m \in 0..n : m \in S
    BY <1>0, <1>1, <1>2, AllUpTo
  <2> QED
    BY <1>0, <2>1
<1> QED
  BY <1>3

LEMMA PendIs ==
  ASSUME NEW s \in Seq(Frame), NEW b \in BOOLEAN, NEW g, Adds(s, b, Len(s), g)
  PROVE  Pend(s, b) = g[Len(s)]
<1> DEFINE n == Len(s)
           E(f) == [i \in 0..n |->
                      IF i = 0 THEN <<>>
                      ELSE (IF b /\ i = n THEN <<>> ELSE s[i].todo)
                           \o (IF i > 1 THEN <<ItemOf(s[i])>> ELSE <<>>) \o f[i - 1]]
           P == CHOOSE f : f = E(f)
<1>1. Pend(s, b) = P[n]
  BY DEF Pend
<1>0. n \in Nat
  OBVIOUS
<1>2. g \in [0..n -> Seq(Item)] /\ g[0] = <<>> /\ \A i \in 1..n : g[i] = Part(s, b, i) \o g[i - 1]
  BY DEF Adds
<1>3. \A f : E(f) = [i \in 0..n |-> IF i = 0 THEN <<>> ELSE Part(s, b, i) \o f[i - 1]]
  BY DEF Part
<1>4. g = E(g)
  <2>1. g = [i \in 0..n |-> IF i = 0 THEN <<>> ELSE Part(s, b, i) \o g[i - 1]]
    BY <1>0, <1>2
  <2> HIDE DEF E
  <2> QED
    BY <1>3, <2>1
<1>5. P = E(P)
  <2> HIDE DEF E
  <2> QED
    BY <1>4, Zenon
<1> HIDE DEF P
<1>6. P = [i \in 0..n |-> IF i = 0 THEN <<>> ELSE Part(s, b, i) \o P[i - 1]]
  <2> HIDE DEF E
  <2> QED
    BY <1>3, <1>5, Zenon
<1>7. \A m \in 0..n : P[m] = g[m]
  <2> DEFINE S == {m \in 0..n : P[m] = g[m]}
  <2>1. 0 \in S
    BY <1>0, <1>2, <1>6
  <2>2. ASSUME NEW m \in 0..n, m \in S, m < n PROVE m + 1 \in S
    <3>1. m + 1 \in 1..n /\ m + 1 \in 0..n /\ m + 1 # 0 /\ (m + 1) - 1 = m
      BY <1>0, <2>2
    <3>2. P[m + 1] = Part(s, b, m + 1) \o P[m]
      BY <1>6, <3>1
    <3>3. g[m + 1] = Part(s, b, m + 1) \o g[m]
      BY <1>2, <3>1
    <3> QED
      BY <2>2, <3>1, <3>2, <3>3
  <2> HIDE DEF S
  <2>3. \A m \in 0..n : m \in S
    BY <1>0, <2>1, <2>2, AllUpTo
  <2> QED
    BY <2>3 DEF S
<1> QED
  BY <1>0, <1>1, <1>7

LEMMA PendEmpty == ASSUME NEW b \in BOOLEAN PROVE Pend(<<>>, b) = <<>>
<1>1. <<>> \in Seq(Frame) /\ Len(<<>>) = 0
  OBVIOUS
<1>2. PICK g : Adds(<<>>, b, 0, g)
  BY <1>1, AddsExists
<1>3. Pend(<<>>, b) = g[0]
  BY <1>1, <1>2, PendIs
<1> QED
  BY <1>2, <1>3 DEF Adds

LEMMA PendType == ASSUME NEW s \in Seq(Frame), NEW b \in BOOLEAN PROVE Pend(s, b) \in Seq(Item)
<1>1. PICK g : Adds(s, b, Len(s), g)
  BY AddsExists
<1>2. Pend(s, b) = g[Len(s)] /\ Len(s) \in Nat
  BY <1>1, PendIs
<1> QED
  BY <1>1, <1>2 DEF Adds

\* The innermost activation comes first.
LEMMA PendTop ==
  ASSUME NEW s \in Seq(Frame), NEW f \in Frame, NEW b \in BOOLEAN
  PROVE  Pend(Append(s, f), b) =
           (IF b THEN <<>> ELSE f.todo)
           \o (IF s # <<>> THEN <<ItemOf(f)>> ELSE <<>>) \o Pend(s, FALSE)
<1> DEFINE n == Len(s)
           a == Append(s, f)
           p == Part(a, b, n + 1)
<1>0. n \in Nat /\ a \in Seq(Frame) /\ Len(a) = n + 1 /\ a[n + 1] = f /\ \A i \in 1..n : a[i] = s[i]
  OBVIOUS
<1>1. PICK g : Adds(s, FALSE, n, g)
  BY AddsExists
<1>2. Pend(s, FALSE) = g[n]
  BY <1>1, PendIs
<1>3. p = (IF b THEN <<>> ELSE f.todo) \o (IF s # <<>> THEN <<ItemOf(f)>> ELSE <<>>)
  <2>1. (n + 1 > 1) <=> s # <<>>
    BY <1>0
  <2> HIDE DEF n, a
  <2> QED
    BY <1>0, <2>1 DEF Part
<1>4. \A i \in 1..n : Part(a, b, i) = Part(s, FALSE, i)
  <2> HIDE DEF n, a
  <2>1. \A i \in 1..n : i # n + 1
    BY <1>0
  <2> QED
    BY <1>0, <2>1 DEF Part
<1>5. p \in Seq(Item)
  <2> HIDE DEF a
  <2> QED
    BY <1>0, PartType
<1>6. g \in [0..n -> Seq(Item)] /\ g[0] = <<>> /\ \A i \in 1..n : g[i] = Part(a, b, i) \o g[i - 1]
  BY <1>1, <1>4 DEF Adds
<1> DEFINE h == [i \in 0..(n + 1) |-> IF i = n + 1 THEN p \o g[n] ELSE g[i]]
<1> HIDE DEF p, a, n
<1>7. p \o g[n] \in Seq(Item)
  BY <1>0, <1>5, <1>6, ConcatProperties
<1>8. h \in [0..(n + 1) -> Seq(Item)] /\ h[0] = <<>>
  BY <1>0, <1>6, <1>7
<1>9. h[n + 1] = p \o g[n] /\ \A i \in 0..n : h[i] = g[i]
  BY <1>0
<1> HIDE DEF h
<1>10. ASSUME NEW i \in 1..(n + 1) PROVE h[i] = Part(a, b, i) \o h[i - 1]
  <2>1. CASE i = n + 1
    <3>1. i - 1 = n /\ n \in 0..n
      BY <1>0, <2>1
    <3> QED
      BY <1>9, <2>1, <3>1 DEF p
  <2>2. CASE i \in 1..n
    <3>1. i - 1 \in 0..n /\ i \in 0..n
      BY <1>0, <2>2
    <3> QED
      BY <1>6, <1>9, <2>2, <3>1
  <2> QED
    BY <1>0, <2>1, <2>2
<1>11. Adds(a, b, n + 1, h)
  BY <1>8, <1>10 DEF Adds
<1>12. Pend(a, b) = p \o g[n]
  BY <1>0, <1>9, <1>11, PendIs
<1> QED
  BY <1>2, <1>3, <1>12 DEF a, n

LEMMA PendingNext == Pending' = Pend(stack', pc' = "toArray")
BY DEF Pending, Pend

LEMMA FrontAppend ==
  ASSUME NEW T, NEW s \in Seq(T), s # <<>>
  PROVE  Front(s) \in Seq(T) /\ s[Len(s)] \in T /\ s = Append(Front(s), s[Len(s)])
<1> DEFINE n == Len(s)
           f == Front(s)
<1>1. n \in Nat /\ n # 0 /\ s[n] \in T
  OBVIOUS
<1>2. f \in Seq(T) /\ Len(f) = n - 1 /\ \A i \in 1..(n - 1) : f[i] = s[i]
  BY FrontElements, FrontType
<1> HIDE DEF f
<1>3. PICK a : a = Append(f, s[n])
  OBVIOUS
<1>4. a \in Seq(T) /\ Len(a) = n /\ \A i \in 1..n : a[i] = s[i]
  <2>1. a \in Seq(T) /\ Len(a) = n /\ a[n] = s[n] /\ \A i \in 1..(n - 1) : a[i] = f[i]
    BY <1>1, <1>2, <1>3
  <2> QED
    BY <1>1, <1>2, <2>1
<1>5. a = s
  BY <1>4, SeqEqual
<1> QED
  BY <1>1, <1>2, <1>3, <1>5 DEF f

LEMMA ItemsAssociative ==
  ASSUME NEW s \in Seq(Item), NEW t \in Seq(Item), NEW u \in Seq(Item)
  PROVE  (s \o t) \o u = s \o (t \o u)
BY ConcatAssociative

\* What the activations below the innermost one, and its own item, add.
Below(s) == (IF Len(s) > 1 THEN <<ItemOf(s[Len(s)])>> ELSE <<>>) \o Pend(Front(s), FALSE)

LEMMA PendFront ==
  ASSUME NEW s \in Seq(Frame), s # <<>>, NEW b \in BOOLEAN
  PROVE  /\ Below(s) \in Seq(Item) /\ s[Len(s)].todo \in Seq(Item)
         /\ Pend(s, b) = IF b THEN Below(s) ELSE s[Len(s)].todo \o Below(s)
<1> DEFINE n == Len(s)
           f == Front(s)
           x == s[n]
           o == IF n > 1 THEN <<ItemOf(x)>> ELSE <<>>
<1>1. f \in Seq(Frame) /\ x \in Frame /\ s = Append(f, x) /\ n \in Nat /\ n # 0
  BY FrontAppend
<1>2. f # <<>> <=> n > 1
  BY <1>1, FrontElements
<1>3. Pend(f, FALSE) \in Seq(Item)
  BY <1>1, PendType
<1>4. o \in Seq(Item) /\ x.todo \in Seq(Item)
  BY <1>1, ItemOfType DEF Frame
<1> HIDE DEF f, x, n
<1>5. Pend(s, b) = (IF b THEN <<>> ELSE x.todo) \o o \o Pend(f, FALSE)
  BY <1>1, <1>2, PendTop
<1>6. Below(s) = o \o Pend(f, FALSE)
  BY DEF Below, f, x, n
<1> HIDE DEF o
<1>7. Below(s) \in Seq(Item)
  BY <1>3, <1>4, <1>6, ConcatProperties
<1>8. CASE b
  <2>1. <<>> \o o = o
    BY <1>4, ConcatEmptySeq
  <2> QED
    BY <1>4, <1>5, <1>6, <1>7, <1>8, <2>1 DEF x, n
<1>9. CASE ~b
  <2>1. (x.todo \o o) \o Pend(f, FALSE) = x.todo \o (o \o Pend(f, FALSE))
    <3>1. PICK p : p = Pend(f, FALSE)
      OBVIOUS
    <3>2. PICK q : q = x.todo
      OBVIOUS
    <3>3. PICK r : r = o
      OBVIOUS
    <3>4. p \in Seq(Item) /\ q \in Seq(Item) /\ r \in Seq(Item)
      BY <1>3, <1>4, <3>1, <3>2, <3>3, Zenon
    <3>5. (q \o r) \o p = q \o (r \o p)
      BY <3>4, ItemsAssociative
    <3> QED
      BY <3>1, <3>2, <3>3, <3>5, Zenon
  <2>2. Pend(s, b) = (x.todo \o o) \o Pend(f, FALSE)
    BY <1>5, <1>9, Zenon
  <2>3. Pend(s, b) = x.todo \o Below(s)
    BY <1>6, <2>1, <2>2
  <2> QED
    BY <1>4, <1>7, <1>9, <2>3 DEF x, n
<1> QED
  BY <1>8, <1>9

\* The client's set is not pending itself.
LEMMA BelowOne ==
  ASSUME NEW s \in Seq(Frame), Len(s) = 1
  PROVE  Below(s) = <<>>
<1>0. s # <<>>
  BY EmptySeq
<1>1. Front(s) = <<>>
  <2>1. Front(s) \in Seq(Frame) /\ Len(Front(s)) = 0
    BY <1>0, FrontElements, FrontType
  <2> QED
    BY <2>1
<1>2. <<>> \o <<>> = <<>>
  OBVIOUS
<1>3. Pend(<<>>, FALSE) = <<>>
  BY PendEmpty
<1>4. Below(s) = <<>> \o Pend(Front(s), FALSE)
  BY DEF Below
<1> QED
  BY <1>1, <1>2, <1>3, <1>4

\* Below looks at todo of no innermost activation.
LEMMA BelowSame ==
  ASSUME NEW s \in Seq(Frame), NEW t \in Seq(Frame), s # <<>>, Len(t) = Len(s),
         \A i \in 1..(Len(s) - 1) : t[i] = s[i],
         ItemOf(t[Len(s)]) = ItemOf(s[Len(s)])
  PROVE  Below(t) = Below(s)
<1>1. t # <<>> /\ Len(s) \in Nat /\ Len(s) # 0
  OBVIOUS
<1>2. /\ Front(s) \in Seq(Frame) /\ Len(Front(s)) = Len(s) - 1
      /\ \A i \in 1..(Len(s) - 1) : Front(s)[i] = s[i]
  BY <1>1, FrontElements, FrontType
<1>3. /\ Front(t) \in Seq(Frame) /\ Len(Front(t)) = Len(s) - 1
      /\ \A i \in 1..(Len(s) - 1) : Front(t)[i] = t[i]
  BY <1>1, FrontElements, FrontType
<1>4. Front(t) = Front(s)
  BY <1>1, <1>2, <1>3, SeqEqual
<1> QED
  BY <1>4 DEF Below

\* Below of a nested activation begins with its own item.
LEMMA BelowNested ==
  ASSUME NEW s \in Seq(Frame), Len(s) > 1
  PROVE  /\ Front(s) \in Seq(Frame) /\ Front(s) # <<>> /\ ItemOf(s[Len(s)]) \in Item
         /\ Pend(Front(s), FALSE) \in Seq(Item)
         /\ Below(s) = <<ItemOf(s[Len(s)])>> \o Pend(Front(s), FALSE)
<1>1. s # <<>> /\ Len(s) \in Nat
  OBVIOUS
<1>2. Front(s) \in Seq(Frame) /\ s[Len(s)] \in Frame /\ Len(Front(s)) = Len(s) - 1
  BY <1>1, FrontAppend, FrontElements
<1>3. Front(s) # <<>>
  BY <1>1, <1>2
<1> QED
  BY <1>2, <1>3, PendType, ItemOfType DEF Below
-----------------------------------------------------------------------------
(* The invariant behind the refinement of FifoCache                        *)

\* All entries of the client's view, unless a rearrangement is to fail.
Whole == Contents \o Pending
Rest == IF stack = <<>> THEN <<>> ELSE Below(stack)

Spares(x) == ~RecycleValidEntries /\ IsValidAt(x.exp, now)

\* Which activations there are and what they hold.
FrameInv ==
  /\ pc \in {"idle", "crashed"} => stack = <<>>
  /\ stack # <<>> => limit \in ValueLimits
  /\ pc \in {"tryRearrange", "toArray", "rearrange"} \/ Len(stack) > 1 => ~RecycleValidEntries
  /\ pc \notin {"idle", "crashed", "toArray", "rearrange", "fail"} => Top.todo = <<>>
  /\ pc = "link" => new.val = Top.val /\ new.exp = Top.exp

\* What a scan of the list has passed by is spared, so a rearrangement copies
\* all entries.
ScanInv ==
  /\ Recycling => \A i \in 1..Len(Contents) : i < cur => Spares(Contents[i])
  /\ pc \in {"tryRearrange", "toArray"} => \A i \in 1..Len(Contents) : Spares(Contents[i])
  /\ pc = "toArray" => cur <= Len(Contents) + 1 /\ Top.todo = SubSeq(Contents, 1, cur - 1)

\* What is still to be set again is not in the table.
ApartInv == pc \notin {"fail", "crashed"} => KeysApart(Whole)

RefineInv == FrameInv /\ ScanInv /\ ApartInv

\* The parts of the client's view.
ViewFacts ==
  /\ Contents \in Seq(Item) /\ Len(Contents) = Len(list) /\ Len(list) \in Nat
  /\ stack \in Seq(Frame) /\ Rest \in Seq(Item)
  /\ stack # <<>> => Top \in Frame /\ Top.todo \in Seq(Item)
  /\ Pending = IF stack = <<>> \/ pc = "toArray" THEN Rest ELSE Top.todo \o Rest
  /\ Len(stack) <= 1 => Rest = <<>>
  /\ pc \notin {"rearrange", "fail"} => Pending = Rest
  /\ Pending \in Seq(Item)

LEMMA View == SoundInv /\ FrameInv => ViewFacts
<1> SUFFICES ASSUME SoundInv, FrameInv PROVE ViewFacts
  OBVIOUS
<1>1. Contents \in Seq(Item) /\ Len(Contents) = Len(list) /\ Len(list) \in Nat
  BY ContentsAre, ListType DEF SoundInv, ContentsListed, Lists
<1>2. stack \in Seq(Frame)
  BY DEF SoundInv, TypeInv, ControlInv
<1>3. PICK b \in BOOLEAN : b <=> pc = "toArray"
  OBVIOUS
<1>4. Pending = Pend(stack, b)
  <2>1. Pending = Pend(stack, pc = "toArray")
    BY PendingIs
  <2>2. b = (pc = "toArray")
    BY <1>3
  <2> QED
    BY <2>1, <2>2
<1>5. CASE stack = <<>>
  <2>1. Pending = <<>> /\ Rest = <<>> /\ Len(stack) = 0
    BY <1>4, <1>5, PendEmpty DEF Rest
  <2>2. <<>> \in Seq(Item)
    OBVIOUS
  <2> QED
    BY <1>1, <1>2, <1>5, <2>1, <2>2 DEF ViewFacts
<1>6. CASE stack # <<>>
  <2>1. /\ Below(stack) \in Seq(Item) /\ Top.todo \in Seq(Item)
        /\ Pend(stack, b) = IF b THEN Below(stack) ELSE Top.todo \o Below(stack)
    BY <1>2, <1>6, PendFront DEF Top
  <2>2. Rest = Below(stack) /\ Top \in Frame
    BY <1>2, <1>6 DEF Rest, Top
  <2>3. Len(stack) <= 1 => Rest = <<>>
    <3>1. Len(stack) \in Nat \ {0}
      BY <1>2, <1>6, EmptySeq, Zenon
    <3>2. Len(stack) <= 1 => Len(stack) = 1
      <4>1. \A n \in Nat \ {0} : n <= 1 => n = 1
        OBVIOUS
      <4> QED
        BY <3>1, <4>1, Zenon
    <3>3. Len(stack) = 1 => Below(stack) = <<>>
      BY <1>2, BelowOne
    <3> QED
      BY <2>2, <3>2, <3>3
  <2>4. Pending = IF stack = <<>> \/ pc = "toArray" THEN Rest ELSE Top.todo \o Rest
    BY <1>3, <1>4, <1>6, <2>1, <2>2, Zenon
  <2>5. Rest \in Seq(Item) /\ Top.todo \o Rest \in Seq(Item)
    BY <2>1, <2>2, ConcatProperties
  <2>6. pc \notin {"rearrange", "fail"} => Pending = Rest
    <3>1. CASE pc = "toArray"
      BY <2>4, <3>1
    <3>2. CASE pc \notin {"rearrange", "fail", "toArray"}
      <4>1. Top.todo = <<>>
        BY <1>6, <3>2 DEF FrameInv
      <4>2. <<>> \o Rest = Rest
        BY <2>5, ConcatEmptySeq
      <4> QED
        BY <2>4, <3>2, <4>1, <4>2
    <3> QED
      BY <3>1, <3>2
  <2>7. Pending \in Seq(Item)
    BY <2>4, <2>5
  <2> QED
    BY <1>1, <1>2, <2>1, <2>2, <2>3, <2>4, <2>5, <2>6, <2>7 DEF ViewFacts
<1> QED
  BY <1>5, <1>6

LEMMA RestKept == ASSUME UNCHANGED stack PROVE Rest' = Rest /\ RequestNow' = RequestNow
<1>1. Rest' = Rest
  BY DEF Rest, Below, Pend, ItemOf
<1> QED
  BY <1>1 DEF RequestNow, ItemOf
-----------------------------------------------------------------------------
(* The steps of the client's view                                          *)

CacheStep == [Fifo!Next \/ OutOfRoom]_(Fifo!vars)

LEMMA CacheStutters ==
  ASSUME Held' = Held, RequestNow' = RequestNow, now' = now, (pc' = "crashed") <=> (pc = "crashed")
  PROVE  CacheStep
<1>1. (pc' # "crashed") = (pc # "crashed")
  OBVIOUS
<1> QED
  BY <1>1 DEF CacheStep, Fifo!vars, RequestNow

LEMMA CacheAsks ==
  ASSUME Held' = Held, RequestNow = <<>>, NEW x \in Item, RequestNow' = <<x>>, now' = now,
         pc # "crashed", pc' # "crashed"
  PROVE  CacheStep
<1>1. Len(<<x>>) = 1 /\ <<x>>[1] = x /\ x.key \in Keys /\ x.val \in 1..MaxVal
  BY DEF Item, Values
<1>2. Fifo!Ask
  BY <1>1 DEF Fifo!Ask, Fifo!Idle, RequestNow
<1> QED
  BY <1>2 DEF CacheStep, Fifo!Next

LEMMA CacheEvicts ==
  ASSUME stack # <<>>, UNCHANGED <<RequestNow, now>>, NEW i \in DOMAIN Held,
         (Held[i].exp # 0 /\ Held[i].exp < now) \/ (RecycleValidEntries /\ i = 1),
         Held' = RemoveAt(Held, i), pc # "crashed", pc' # "crashed"
  PROVE  CacheStep
<1>1. Held' = Fifo!RemoveAt(Held, i)
  BY DEF RemoveAt, Fifo!RemoveAt
<1>2. RequestNow # <<>>
  BY DEF RequestNow
<1>3. Fifo!Evict
  BY <1>1, <1>2 DEF Fifo!Evict, Fifo!Expired, Fifo!Idle, RequestNow
<1> QED
  BY <1>3 DEF CacheStep, Fifo!Next

LEMMA CachePuts ==
  ASSUME stack # <<>>, NEW x, RequestNow = <<x>>, RequestNow' = <<>>, UNCHANGED now,
         \/ /\ \A i \in DOMAIN Held : Held[i].key # x.key
            /\ Held' = Append(Held, x)
         \/ \E i \in DOMAIN Held : Held[i].key = x.key /\ Held' = Append(RemoveAt(Held, i), x),
         pc # "crashed", pc' # "crashed"
  PROVE  CacheStep
<1>1. \A i : RemoveAt(Held, i) = Fifo!RemoveAt(Held, i)
  BY DEF RemoveAt, Fifo!RemoveAt
<1>2. RequestNow # <<>> /\ RequestNow[1] = x
  OBVIOUS
<1>3. Fifo!Put
  BY <1>1, <1>2, Zenon DEF Fifo!Put, Fifo!Idle, RequestNow
<1> QED
  BY <1>3 DEF CacheStep, Fifo!Next

LEMMA CacheGivesUp ==
  ASSUME stack # <<>>, RequestNow' = <<>>, UNCHANGED <<Held, now>>, pc # "crashed", pc' # "crashed"
  PROVE  CacheStep
<1>1. RequestNow # <<>>
  BY DEF RequestNow
<1>2. Fifo!GiveUp
  BY <1>1 DEF Fifo!GiveUp, Fifo!Idle, RequestNow
<1> QED
  BY <1>2 DEF CacheStep, Fifo!Next

LEMMA CacheLoses ==
  ASSUME stack # <<>>, UNCHANGED <<RequestNow, now>>, NEW i \in DOMAIN Held,
         Held[i].val > Min(ValueLimits), Held' = <<>>, pc # "crashed", pc' # "crashed"
  PROVE  CacheStep
<1>1. RequestNow # <<>>
  BY DEF RequestNow
<1>2. Fifo!Lose
  BY <1>1, Zenon DEF Fifo!Lose, Fifo!Idle, RequestNow
<1> QED
  BY <1>2 DEF CacheStep, Fifo!Next

LEMMA CacheDeletes ==
  ASSUME stack = <<>>, UNCHANGED <<RequestNow, now>>, NEW i \in DOMAIN Held,
         Held' = RemoveAt(Held, i), pc # "crashed", pc' # "crashed"
  PROVE  CacheStep
<1>1. Held' = Fifo!RemoveAt(Held, i)
  BY DEF RemoveAt, Fifo!RemoveAt
<1>2. Fifo!Delete
  BY <1>1 DEF Fifo!Delete, Fifo!Idle, RequestNow
<1> QED
  BY <1>2 DEF CacheStep, Fifo!Next

LEMMA CacheTouches ==
  ASSUME stack = <<>>, UNCHANGED <<RequestNow, now>>, NEW i \in DOMAIN Held, NEW e,
         ~(Held[i].exp # 0 /\ Held[i].exp < now), Len(Held') = Len(Held),
         Held' = [Held EXCEPT ![i].exp = e], Held'[i].exp = e,
         pc # "crashed", pc' # "crashed"
  PROVE  CacheStep
<1>1. Held' = [Held EXCEPT ![i].exp = Held'[i].exp]
  OBVIOUS
<1>2. Fifo!Touch
  BY <1>1 DEF Fifo!Touch, Fifo!Expired, Fifo!Idle, RequestNow
<1> QED
  BY <1>2 DEF CacheStep, Fifo!Next

LEMMA CacheRests ==
  ASSUME stack = <<>>, UNCHANGED RequestNow, pc # "crashed", pc' # "crashed",
         \/ Held' = <<>> /\ now' = now
         \/ Held' = Held /\ now' = now + 1
  PROVE  CacheStep
<1>1. Fifo!Clear \/ Fifo!Tick
  BY DEF Fifo!Clear, Fifo!Tick, Fifo!Idle, RequestNow
<1> QED
  BY <1>1 DEF CacheStep, Fifo!Next

LEMMA CacheDies ==
  ASSUME UNCHANGED now,
         \/ pc # "crashed" /\ pc' = "crashed" /\ Held' = <<>> /\ RequestNow' = <<>>
         \/ pc = "crashed" /\ pc' # "crashed" /\ UNCHANGED <<Held, RequestNow>>
  PROVE  CacheStep
<1>1. Fifo!Crash \/ Fifo!Recover
  BY DEF Fifo!Crash, Fifo!Recover, RequestNow
<1> QED
  BY <1>1 DEF CacheStep, Fifo!Next
-----------------------------------------------------------------------------
(* Steps that only move control                                            *)

LEMMA EntryIs ==
  ASSUME SoundInv, NEW k \in Keys, EntryAt(k)
  PROVE  /\ cur \in 1..Len(list) /\ Len(Contents) = Len(list)
         /\ Contents[cur] = ItemAt(k) /\ Contents[cur].key = k
         /\ Contents[cur].exp = ht[k].exp
<1>1. cur \in Nat \ {0} /\ Len(list) \in Nat /\ Distinct(list) /\ DOMAIN list = 1..Len(list)
  BY ListType DEF SoundInv, TypeInv, ControlInv, IndexInv
<1>2. cur \in 1..Len(list) /\ k \in LiveKeys /\ Offset(ht[k]) = list[cur]
  BY <1>1 DEF EntryAt, LiveKeys
<1>3. PICK i \in 1..Len(list) : list[i] = Offset(ht[k]) /\ Contents[i] = ItemAt(k) /\ Contents[i].key = k
  BY <1>2, PlaceOf
<1>4. i = cur
  BY <1>1, <1>2, <1>3 DEF Distinct
<1>5. Len(Contents) = Len(list)
  BY ContentsAre DEF ContentsListed, Lists
<1>6. ItemAt(k).exp = ht[k].exp
  BY DEF ItemAt
<1> QED
  BY <1>2, <1>3, <1>4, <1>5, <1>6

\* The client's view in each phase.
LEMMA HeldNow ==
  /\ pc \notin {"fail", "crashed"} => Held = Whole
  /\ pc = "crashed" => Held = <<>>
  /\ pc = "fail" /\ Len(stack) > 1 => Held = <<>>
  /\ pc = "fail" /\ ~(Len(stack) > 1) => Held = Contents
BY DEF Held, Whole

LEMMA HeldNext ==
  /\ pc' \notin {"fail", "crashed"} => Held' = Whole'
  /\ pc' = "crashed" => Held' = <<>>
  /\ pc' = "fail" /\ Len(stack') > 1 => Held' = <<>>
  /\ pc' = "fail" /\ ~(Len(stack') > 1) => Held' = Contents'
BY DEF Held, Whole

LEMMA ViewNext == ASSUME SoundInv', FrameInv' PROVE ViewFacts'
<1>1. SoundInv' /\ FrameInv' => ViewFacts'
  BY View, PTL
<1> QED
  BY <1>1

WholeFacts ==
  /\ pc \notin {"rearrange", "fail"} => Whole = Contents \o Rest
  /\ Whole \in Seq(Item)
  /\ Len(stack) <= 1 /\ pc \notin {"rearrange", "fail"} => Whole = Contents

LEMMA WholeIs == ViewFacts => WholeFacts
<1> SUFFICES ASSUME ViewFacts PROVE WholeFacts
  OBVIOUS
<1>1. Contents \in Seq(Item) /\ Pending \in Seq(Item) /\ Rest \in Seq(Item)
  BY DEF ViewFacts
<1>2. pc \notin {"rearrange", "fail"} => Whole = Contents \o Rest
  BY DEF ViewFacts, Whole
<1>3. Contents \o <<>> = Contents
  BY <1>1, ConcatEmptySeq
<1>4. Len(stack) <= 1 => Rest = <<>>
  BY DEF ViewFacts
<1>5. Whole \in Seq(Item)
  BY <1>1, ConcatProperties DEF Whole
<1> QED
  BY <1>2, <1>3, <1>4, <1>5 DEF WholeFacts

LEMMA WholeNext == ASSUME ViewFacts' PROVE WholeFacts'
<1>1. ViewFacts' => WholeFacts'
  BY WholeIs, PTL
<1> QED
  BY <1>1

LEMMA Moves ==
  ASSUME SoundInv, SoundInv', RefineInv, FrameInv', UNCHANGED <<ht, list, stack, now>>,
         pc \notin {"idle", "crashed", "fail"}, pc = "rearrange" => Top.todo = <<>>,
         pc' \notin {"idle", "crashed", "fail", "rearrange"}
  PROVE  CacheStep /\ ApartInv' /\ Contents' = Contents
<1>1. ViewFacts /\ ViewFacts'
  BY View, ViewNext DEF RefineInv
<1>2. Contents' = Contents /\ Rest' = Rest /\ RequestNow' = RequestNow
  BY ContentsKept, RestKept
<1>3. Whole' = Contents' \o Rest'
  BY <1>1, WholeNext DEF WholeFacts
<1>4. Whole = Contents \o Rest
  <2>1. CASE pc = "rearrange"
    <3>1. stack # <<>> /\ Rest \in Seq(Item)
      BY <1>1, <2>1 DEF SoundInv, TypeInv, ControlInv, ViewFacts
    <3>2. Pending = <<>> \o Rest
      BY <1>1, <2>1, <3>1 DEF ViewFacts
    <3>3. <<>> \o Rest = Rest
      BY <3>1, ConcatEmptySeq
    <3> QED
      BY <3>2, <3>3 DEF Whole
  <2>2. CASE pc # "rearrange"
    BY <1>1, <2>2, WholeIs DEF WholeFacts
  <2> QED
    BY <2>1, <2>2
<1>5. Whole' = Whole
  BY <1>2, <1>3, <1>4
<1>6. Held' = Whole' /\ Held = Whole
  BY HeldNow, HeldNext
<1>7. CacheStep
  BY <1>2, <1>5, <1>6, CacheStutters
<1>8. ApartInv'
  <2>1. KeysApart(Whole)
    BY DEF RefineInv, ApartInv
  <2>2. PICK w : w = Whole
    OBVIOUS
  <2>3. KeysApart(w) /\ Whole' = w
    BY <1>5, <2>1, <2>2
  <2> QED
    BY <2>3 DEF ApartInv, KeysApart
<1> QED
  BY <1>2, <1>7, <1>8

LEMMA Fails ==
  ASSUME SoundInv, RefineInv, UNCHANGED <<ht, list, now>>,
         pc \notin {"idle", "crashed", "fail", "rearrange"}, pc' = "fail",
         Len(stack') = Len(stack), RequestNow' = RequestNow
  PROVE  CacheStep
<1>1. ViewFacts
  BY View DEF RefineInv
<1>2. Contents' = Contents /\ Len(stack) \in Nat
  BY <1>1, ContentsKept DEF ViewFacts
<1>3. CASE Len(stack) > 1
  <2>1. ~RecycleValidEntries /\ Held' = <<>>
    BY <1>3, HeldNext DEF RefineInv, FrameInv
  <2> QED
    BY <1>3, <2>1 DEF CacheStep, OutOfRoom
<1>4. CASE ~(Len(stack) > 1)
  <2>1. Held' = Contents'
    BY <1>4, HeldNext
  <2>2. Held = Whole
    BY HeldNow
  <2>3. Whole = Contents
    BY <1>1, <1>2, <1>4, WholeIs DEF WholeFacts
  <2> QED
    BY <1>2, <2>1, <2>2, <2>3, CacheStutters
<1> QED
  BY <1>3, <1>4

\* What both have in common: nothing but the place changes.
LEMMA FramesKept ==
  ASSUME RefineInv, UNCHANGED <<stack, limit, new>>,
         pc \notin {"idle", "crashed", "fail", "toArray", "link"},
         pc = "rearrange" => Top.todo = <<>>,
         pc' \notin {"idle", "crashed", "rearrange", "link"},
         pc' \in {"tryRearrange", "toArray"} => ~RecycleValidEntries
  PROVE  FrameInv'
<1>1. Top' = Top
  BY DEF Top
<1> QED
  BY <1>1 DEF RefineInv, FrameInv

Refines == RefineInv' /\ CacheStep

LEMMA RecyclingMoves ==
  ASSUME SoundInv, SoundInv', RefineInv, RecycleSkip \/ RecycleFails
  PROVE  Refines
<1>0. Recycling /\ pc \in {"recycleKey", "recycleMem"} /\ UNCHANGED <<ht, list, stack, now, limit, new>>
  BY DEF RecycleSkip, RecycleFails, table, Recycling
<1>1. ViewFacts
  BY View DEF RefineInv
<1>2. Contents' = Contents
  BY <1>0, ContentsKept
<1>3. PICK c : c = Contents
  OBVIOUS
<1>4. \A i \in 1..Len(c) : i < cur => Spares(c[i])
  BY <1>0, <1>3 DEF RefineInv, ScanInv
<1>5. \A x : Spares(x) => Spares(x)'
  BY <1>0 DEF Spares
<1>6. cur \in Nat /\ Len(c) = Len(list) /\ Len(c) \in Nat
  BY <1>1, <1>3 DEF ViewFacts, SoundInv, TypeInv, ControlInv
<1>7. CASE RecycleSkip
  <2>1. PICK k \in Keys : EntryAt(k) /\ ~MayRecycle(k)
    BY <1>7 DEF RecycleSkip
  <2>2. pc' = pc /\ cur' = cur + 1
    BY <1>7 DEF RecycleSkip
  <2>3. Spares(c[cur])
    BY <1>3, <2>1, EntryIs DEF MayRecycle, Spares
  <2>4. \A i \in 1..Len(c) : i < cur' => Spares(c[i])'
    <3>1. \A i \in 1..Len(c) : i < cur' => i < cur \/ i = cur
      BY <1>6, <2>2
    <3> QED
      BY <1>4, <1>5, <2>3, <3>1
  <2>5. ScanInv'
    BY <1>0, <1>2, <1>3, <2>2, <2>4 DEF ScanInv
  <2>6. FrameInv'
    BY <1>0, <2>2, FramesKept
  <2>7. CacheStep /\ ApartInv'
    BY <1>0, <2>2, <2>6, Moves
  <2> QED
    BY <2>5, <2>6, <2>7 DEF Refines, RefineInv
<1>8. CASE RecycleFails
  <2>1. /\ pc' \in {"fail", "create", "tryRearrange"} /\ cur > Len(list)
        /\ pc' = "tryRearrange" => ~RecycleValidEntries
    BY <1>8, CacheAssumption DEF RecycleFails, Enter
  <2>2. \A i \in 1..Len(c) : Spares(c[i])'
    BY <1>4, <1>5, <1>6, <2>1
  <2>3. ScanInv'
    BY <1>2, <1>3, <2>1, <2>2 DEF ScanInv, Recycling
  <2>4. FrameInv'
    BY <1>0, <2>1, FramesKept
  <2>5. CASE pc' = "fail"
    <3>1. RequestNow' = RequestNow /\ Len(stack') = Len(stack)
      BY <1>0, RestKept
    <3>2. CacheStep
      BY <1>0, <2>5, <3>1, Fails
    <3>3. ApartInv'
      BY <2>5 DEF ApartInv
    <3> QED
      BY <2>3, <2>4, <3>2, <3>3 DEF Refines, RefineInv
  <2>6. CASE pc' # "fail"
    <3>1. CacheStep /\ ApartInv'
      BY <1>0, <2>1, <2>4, <2>6, Moves
    <3> QED
      BY <2>3, <2>4, <3>1 DEF Refines, RefineInv
  <2> QED
    BY <2>5, <2>6
<1> QED
  BY <1>7, <1>8

LEMMA ScanBegins ==
  ASSUME pc' \notin {"tryRearrange", "toArray"},
         pc' \in {"recycleKey", "recycleMem"} => cur' = 1
  PROVE  ScanInv'
<1>1. pc' \in {"recycleKey", "recycleMem"} => \A i \in 1..Len(Contents') : ~(i < cur')
  OBVIOUS
<1> QED
  BY <1>1 DEF ScanInv, Recycling

\* Only the place changes, or the set fails.
LEMMA PlaceMoves ==
  ASSUME SoundInv, SoundInv', RefineInv, UNCHANGED <<ht, list, stack, now, limit, new>>,
         pc \notin {"idle", "crashed", "fail", "toArray", "link"},
         pc = "rearrange" => Top.todo = <<>> /\ pc' # "fail",
         pc' \notin {"idle", "crashed", "rearrange", "link", "tryRearrange", "toArray"},
         pc' \in {"recycleKey", "recycleMem"} => cur' = 1
  PROVE  Refines
<1>1. ScanInv' /\ FrameInv'
  BY ScanBegins, FramesKept
<1>2. CASE pc' = "fail"
  <2>1. RequestNow' = RequestNow /\ Len(stack') = Len(stack)
    BY RestKept
  <2>2. CacheStep
    BY <1>2, <2>1, Fails
  <2>3. ApartInv'
    BY <1>2 DEF ApartInv
  <2> QED
    BY <1>1, <2>2, <2>3 DEF Refines, RefineInv
<1>3. CASE pc' # "fail"
  <2>1. CacheStep /\ ApartInv'
    BY <1>1, <1>3, Moves
  <2> QED
    BY <1>1, <2>1 DEF Refines, RefineInv
<1> QED
  BY <1>2, <1>3

LEMMA AllocationMoves ==
  ASSUME SoundInv, SoundInv', RefineInv, AllocMisses \/ AllocFails
  PROVE  Refines
<1>1. pc \in {"alloc1", "alloc2"} /\ UNCHANGED <<ht, list, stack, now, limit, new>>
  BY DEF AllocMisses, AllocFails, table, Allocating
<1>2. /\ pc' \in {"alloc1", "alloc2", "fail", "recycleMem", "create"}
      /\ pc' = "recycleMem" => cur' = 1
  BY <1>1 DEF AllocMisses, AllocFails, Enter
<1> QED
  BY <1>1, <1>2, PlaceMoves

LEMMA AllocationFits ==
  ASSUME SoundInv, SoundInv', RefineInv, AllocFits
  PROVE  Refines
<1>1. pc \in {"alloc1", "alloc2"} /\ UNCHANGED <<ht, list, stack, now, limit>> /\ pc' = "link"
  BY DEF AllocFits, table, Allocating, Enter
<1>2. new'.val = Top.val /\ new'.exp = Top.exp
  BY DEF AllocFits
<1>3. Top' = Top
  BY <1>1 DEF Top
<1>4. FrameInv'
  BY <1>1, <1>2, <1>3 DEF RefineInv, FrameInv
<1>5. ScanInv'
  BY <1>1, ScanBegins
<1>6. CacheStep /\ ApartInv'
  BY <1>1, <1>4, Moves
<1> QED
  BY <1>4, <1>5, <1>6 DEF Refines, RefineInv

LEMMA SegmentMoves ==
  ASSUME SoundInv, SoundInv', RefineInv,
         CreateSegment \/ CreateSegmentFails \/ AddStriping \/ SegmentCreated
  PROVE  Refines
<1>1. pc \in {"create", "striping"} /\ UNCHANGED <<ht, list, stack, now, limit, new>>
  BY DEF CreateSegment, CreateSegmentFails, AddStriping, SegmentCreated, table
<1>2. pc' \in {"striping", "fail", "alloc2"}
  BY <1>1 DEF CreateSegment, CreateSegmentFails, AddStriping, SegmentCreated, Enter
<1> QED
  BY <1>1, <1>2, PlaceMoves

LEMMA RearrangementEnds ==
  ASSUME SoundInv, SoundInv', RefineInv, Rearranged
  PROVE  Refines
<1>1. /\ pc = "rearrange" /\ UNCHANGED <<ht, list, stack, now, limit, new>>
      /\ Top.todo = <<>> /\ pc' = "alloc2"
  BY DEF Rearranged, table, Enter
<1> QED
  BY <1>1, PlaceMoves

LEMMA RearrangementBegins ==
  ASSUME SoundInv, SoundInv', RefineInv, TryRearrange
  PROVE  Refines
<1>1. /\ pc = "tryRearrange" /\ UNCHANGED <<ht, list, stack, now, limit, new>>
      /\ pc' \in {"toArray", "fail"} /\ cur' = 1
  BY DEF TryRearrange, table, Enter
<1>2. CASE pc' = "fail"
  BY <1>1, <1>2, PlaceMoves
<1>3. CASE pc' = "toArray"
  <2>1. FrameInv'
    BY <1>1, <1>3, FramesKept DEF RefineInv, FrameInv
  <2>2. CacheStep /\ ApartInv' /\ Contents' = Contents
    BY <1>1, <1>3, <2>1, Moves
  <2>3. PICK c : c = Contents
    OBVIOUS
  <2>4. c \in Seq(Item) /\ Len(c) \in Nat
    BY <2>3, View DEF RefineInv, ViewFacts
  <2>5. SubSeq(c, 1, 0) = <<>>
    BY <2>4, SubSeqEmpty
  <2>6. Top' = Top /\ Top.todo = <<>>
    BY <1>1 DEF Top, RefineInv, FrameInv
  <2>7. \A i \in 1..Len(c) : Spares(c[i])'
    BY <1>1, <2>3 DEF RefineInv, ScanInv, Spares
  <2>8. cur' - 1 = 0 /\ cur' <= Len(c) + 1
    BY <1>1, <2>4
  <2>9. ScanInv'
    BY <1>3, <2>2, <2>3, <2>5, <2>6, <2>7, <2>8 DEF ScanInv, Recycling
  <2> QED
    BY <2>1, <2>2, <2>9 DEF Refines, RefineInv
<1> QED
  BY <1>1, <1>2, <1>3
-----------------------------------------------------------------------------
(* Copying the entries                                                     *)

LEMMA CopyingFails ==
  ASSUME SoundInv, SoundInv', RefineInv, CopyFails
  PROVE  Refines
<1>1. /\ pc = "toArray" /\ UNCHANGED <<ht, list, now, limit, new>> /\ pc' = "fail"
      /\ stack' = [stack EXCEPT ![Len(stack)].todo = <<>>]
  BY DEF CopyFails, table, Enter
<1>2. stack \in Seq(Frame) /\ stack # <<>> /\ Len(stack) \in Nat /\ Len(stack) # 0
  BY <1>1 DEF SoundInv, TypeInv, ControlInv
<1>3. Len(stack') = Len(stack) /\ stack' # <<>>
  BY <1>1, <1>2
<1>4. ItemOf(stack'[1]) = ItemOf(stack[1])
  <2>1. stack[1] \in Frame /\ 1 \in 1..Len(stack)
    BY <1>2
  <2>2. stack'[1] \in {stack[1], [stack[1] EXCEPT !.todo = <<>>]}
    BY <1>1, <1>2, <2>1
  <2> QED
    BY <2>1, <2>2 DEF ItemOf, Frame
<1>5. RequestNow' = RequestNow
  BY <1>2, <1>3, <1>4 DEF RequestNow
<1>6. CacheStep
  BY <1>1, <1>3, <1>5, Fails
<1>7. FrameInv'
  BY <1>1, <1>2, <1>3 DEF RefineInv, FrameInv
<1>8. ScanInv' /\ ApartInv'
  BY <1>1, ScanBegins DEF ApartInv
<1> QED
  BY <1>6, <1>7, <1>8 DEF Refines, RefineInv

LEMMA EntryCopied ==
  ASSUME SoundInv, SoundInv', RefineInv, CopyEntry
  PROVE  Refines
<1>1. /\ pc = "toArray" /\ UNCHANGED <<ht, list, now, limit, new, pc>> /\ cur' = cur + 1
  BY DEF CopyEntry, table
<1>2. PICK k \in Keys :
        /\ EntryAt(k)
        /\ stack' = IF IsValidAt(ht[k].exp, now)
                    THEN [stack EXCEPT ![Len(stack)].todo = Append(@, ItemAt(k))]
                    ELSE stack
  BY DEF CopyEntry
<1>3. PICK c : c = Contents
  OBVIOUS
<1>4. ViewFacts
  BY View DEF RefineInv
<1>5. PICK n \in Nat : n = Len(stack) /\ n # 0
  BY <1>1 DEF SoundInv, TypeInv, ControlInv
<1>6. /\ c \in Seq(Item) /\ cur \in 1..Len(c) /\ c[cur] = ItemAt(k) /\ c[cur] \in Item /\ Len(c) \in Nat
  <2>1. c \in Seq(Item) /\ Len(c) \in Nat /\ Len(c) = Len(list)
    BY <1>3, <1>4 DEF ViewFacts
  <2>2. cur \in 1..Len(c) /\ c[cur] = ItemAt(k)
    BY <1>2, <1>3, <2>1, EntryIs
  <2> QED
    BY <2>1, <2>2, ElementOfSeq
<1>7. IsValidAt(ht[k].exp, now)
  <2>1. Spares(c[cur])
    BY <1>1, <1>3, <1>6 DEF RefineInv, ScanInv
  <2>2. c[cur].exp = ht[k].exp
    BY <1>2, <1>3, EntryIs
  <2> QED
    BY <2>1, <2>2 DEF Spares
<1>8. PICK t : t = Append(Top.todo, ItemAt(k))
  OBVIOUS
<1>9. t = SubSeq(c, 1, cur) /\ t \in Seq(Item)
  <2>1. Top.todo = SubSeq(c, 1, cur - 1)
    BY <1>1, <1>3 DEF RefineInv, ScanInv
  <2>2. SubSeq(c, 1, cur) = SubSeq(c, 1, cur - 1) \o <<c[cur]>>
    BY <1>6, SubSeqRecursiveSecond
  <2>3. SubSeq(c, 1, cur - 1) \in Seq(Item)
    BY <1>6
  <2>4. Append(SubSeq(c, 1, cur - 1), c[cur]) = SubSeq(c, 1, cur - 1) \o <<c[cur]>>
    BY <1>6, <2>3
  <2> QED
    BY <1>6, <1>8, <2>1, <2>2, <2>3, <2>4
<1>10. stack' = [stack EXCEPT ![n].todo = t]
  BY <1>2, <1>5, <1>7, <1>8 DEF Top
<1>11. /\ stack' \in Seq(Frame) /\ Len(stack') = n
       /\ \A i \in 1..(n - 1) : stack'[i] = stack[i]
       /\ stack'[n].todo = t
  <2>1. TypeInv
    BY DEF SoundInv
  <2>2. LET s == [stack EXCEPT ![Len(stack)].todo = t]
        IN  /\ s \in Seq(Frame) /\ Len(s) = Len(stack)
            /\ \A i \in 1..Len(stack) : s[i].key = stack[i].key
            /\ \A i \in 1..(Len(stack) - 1) : s[i] = stack[i]
            /\ s[Len(stack)].todo = t
    BY <1>1, <1>9, <2>1, TodoChanged
  <2> QED
    BY <1>5, <1>10, <2>2, Zenon
<1>12. ItemOf(stack'[n]) = ItemOf(stack[n]) /\ stack \in Seq(Frame) /\ stack # <<>>
  <2>1. stack \in Seq(Frame) /\ stack # <<>>
    BY <1>1 DEF SoundInv, TypeInv, ControlInv
  <2>2. stack[n] \in Frame /\ n \in 1..Len(stack)
    BY <1>5, <2>1
  <2>3. stack'[n] = [stack[n] EXCEPT !.todo = t]
    BY <1>10, <2>1, <2>2
  <2> QED
    BY <2>1, <2>2, <2>3 DEF ItemOf, Frame
<1>13. Below(stack') = Below(stack)
  BY <1>5, <1>11, <1>12, BelowSame
<1>14. Rest' = Rest /\ RequestNow' = RequestNow
  <2>1. stack' # <<>>
    BY <1>5, <1>11
  <2>2. Rest' = Below(stack') /\ Rest = Below(stack)
    BY <1>12, <2>1 DEF Rest, Below, Pend, ItemOf
  <2>3. ItemOf(stack'[1]) = ItemOf(stack[1])
    <3>1. CASE n = 1
      BY <1>12, <3>1
    <3>2. CASE n # 1
      BY <1>5, <1>11, <3>2
    <3> QED
      BY <3>1, <3>2
  <2>4. RequestNow' = <<ItemOf(stack'[1])>> /\ RequestNow = <<ItemOf(stack[1])>>
    BY <1>12, <2>1 DEF RequestNow, ItemOf
  <2> QED
    BY <1>13, <2>2, <2>3, <2>4
<1>15. FrameInv'
  <2>1. stack' # <<>> /\ Len(stack') = Len(stack)
    BY <1>5, <1>11
  <2> QED
    BY <1>1, <1>12, <2>1 DEF RefineInv, FrameInv
<1>16. Contents' = Contents
  BY <1>1, ContentsKept
<1>17. Whole' = Whole
  <2>1. Whole = Contents \o Rest
    BY <1>1, <1>4, WholeIs DEF WholeFacts
  <2>2. ViewFacts'
    BY <1>15, ViewNext
  <2>3. Whole' = Contents' \o Rest'
    BY <1>1, <2>2, WholeNext DEF WholeFacts
  <2> QED
    BY <1>14, <1>16, <2>1, <2>3
<1>18. CacheStep
  BY <1>1, <1>14, <1>17, HeldNow, HeldNext, CacheStutters
<1>19. ApartInv'
  <2>1. PICK w : w = Whole
    OBVIOUS
  <2>2. KeysApart(w) /\ Whole' = w
    BY <1>1, <1>17, <2>1 DEF RefineInv, ApartInv
  <2> QED
    BY <2>2 DEF ApartInv, KeysApart
<1>20. ScanInv'
  <2>1. \A i \in 1..Len(c) : Spares(c[i])'
    BY <1>1, <1>3 DEF RefineInv, ScanInv, Spares
  <2>2. cur' - 1 = cur /\ cur' <= Len(c) + 1
    BY <1>1, <1>6
  <2>3. Top'.todo = t
    BY <1>11 DEF Top
  <2> QED
    BY <1>1, <1>3, <1>9, <1>16, <2>1, <2>2, <2>3 DEF ScanInv, Recycling
<1> QED
  BY <1>15, <1>18, <1>19, <1>20 DEF Refines, RefineInv

LEMMA SameApart == ASSUME Whole' = Whole, KeysApart(Whole) PROVE ApartInv'
<1>1. PICK w : w = Whole
  OBVIOUS
<1>2. KeysApart(w) /\ Whole' = w
  BY <1>1
<1> QED
  BY <1>2 DEF ApartInv, KeysApart

\* All entries were copied, so clearing the table loses none.
LEMMA TableCopied ==
  ASSUME SoundInv, SoundInv', RefineInv, Copied
  PROVE  Refines
<1>1. /\ pc = "toArray" /\ UNCHANGED <<stack, now, limit, new>> /\ pc' = "rearrange"
      /\ ClearTable /\ cur > Len(list)
  BY DEF Copied, Enter
<1>2. ViewFacts
  BY View DEF RefineInv
<1>3. Contents' = <<>> /\ Rest' = Rest /\ RequestNow' = RequestNow /\ Top' = Top
  BY <1>1, ContentsCleared, RestKept DEF Top
<1>4. Top.todo = Contents
  <2>1. PICK c : c = Contents
    OBVIOUS
  <2>2. c \in Seq(Item) /\ Len(c) = Len(list) /\ Len(c) \in Nat /\ cur \in Nat
    BY <1>2, <2>1 DEF ViewFacts, SoundInv, TypeInv, ControlInv
  <2>3. cur <= Len(c) + 1 /\ Top.todo = SubSeq(c, 1, cur - 1)
    BY <1>1, <2>1 DEF RefineInv, ScanInv
  <2>4. cur - 1 = Len(c)
    BY <1>1, <2>2, <2>3
  <2>5. SubSeq(c, 1, Len(c)) = c
    BY <2>2, SubSeqFull
  <2> QED
    BY <2>1, <2>3, <2>4, <2>5
<1>5. FrameInv'
  BY <1>1, <1>3 DEF RefineInv, FrameInv
<1>6. stack # <<>>
  BY <1>1 DEF SoundInv, TypeInv, ControlInv
<1>7. Whole' = Whole
  <2>1. ViewFacts'
    BY <1>5, ViewNext
  <2>2. Pending' = Top'.todo \o Rest'
    BY <1>1, <1>6, <2>1 DEF ViewFacts
  <2>3. Pending' = Contents \o Rest
    BY <1>3, <1>4, <2>2
  <2>4. Contents \o Rest \in Seq(Item)
    BY <1>2, ConcatProperties DEF ViewFacts
  <2>5. Whole' = <<>> \o (Contents \o Rest)
    BY <1>3, <2>3 DEF Whole
  <2>6. <<>> \o (Contents \o Rest) = Contents \o Rest
    BY <2>4, ConcatEmptySeq
  <2>7. Whole = Contents \o Rest
    BY <1>1, <1>2, WholeIs DEF WholeFacts
  <2> QED
    BY <2>5, <2>6, <2>7
<1>8. CacheStep
  BY <1>1, <1>3, <1>7, HeldNow, HeldNext, CacheStutters
<1>9. ApartInv'
  BY <1>1, <1>7, SameApart DEF RefineInv, ApartInv
<1>10. ScanInv'
  BY <1>1, ScanBegins
<1> QED
  BY <1>5, <1>8, <1>9, <1>10 DEF Refines, RefineInv

LEMMA SmallestIsLeast ==
  ASSUME NEW m \in ValueLimits PROVE Min(ValueLimits) <= m /\ Min(ValueLimits) \in Nat
<1>1. ValueLimits \in SUBSET Nat /\ ValueLimits # {}
  BY CacheAssumption DEF Values
<1>2. \E x \in ValueLimits : \A y \in ValueLimits : x <= y
  BY <1>1, LeastOf
<1>3. /\ Min(ValueLimits) \in ValueLimits
      /\ \A y \in ValueLimits : Min(ValueLimits) <= y
  BY <1>2 DEF Min
<1> QED
  BY <1>1, <1>3

\* An entry that was copied is set again.
LEMMA EntrySetAgain ==
  ASSUME SoundInv, SoundInv', RefineInv, RearrangeEntry
  PROVE  Refines
<1>1. /\ pc = "rearrange" /\ UNCHANGED <<ht, list, now, limit>> /\ Top.todo # <<>>
      /\ CallSet([stack EXCEPT ![Len(stack)].todo = Tail(@)], Head(Top.todo))
  BY DEF RearrangeEntry, table
<1>2. ViewFacts /\ TypeInv
  BY View DEF RefineInv, SoundInv
<1>3. stack \in Seq(Frame) /\ stack # <<>> /\ Len(stack) \in Nat /\ Len(stack) # 0
  BY <1>1 DEF SoundInv, TypeInv, ControlInv
<1>4. PICK n \in Nat : n = Len(stack) /\ n # 0
  BY <1>3
<1>5. PICK todo : todo = Top.todo
  OBVIOUS
<1>6. todo \in Seq(Item) /\ todo # <<>> /\ todo = stack[n].todo
  BY <1>1, <1>2, <1>3, <1>4, <1>5 DEF ViewFacts, Top
<1>7. PICK x : x = Head(todo)
  OBVIOUS
<1>8. PICK t : t = Tail(todo)
  OBVIOUS
<1>9. x \in Item /\ t \in Seq(Item) /\ todo = <<x>> \o t /\ <<x>> \in Seq(Item)
  BY <1>6, <1>7, <1>8, HeadTailProperties
<1>10. PICK s : s = [stack EXCEPT ![n].todo = t]
  OBVIOUS
<1>11. s = [stack EXCEPT ![Len(stack)].todo = Tail(@)]
  BY <1>3, <1>4, <1>6, <1>8, <1>10
<1>12. /\ s \in Seq(Frame) /\ Len(s) = n /\ s # <<>>
       /\ \A i \in 1..(n - 1) : s[i] = stack[i]
       /\ s[n].todo = t
  <2>1. LET q == [stack EXCEPT ![Len(stack)].todo = t]
        IN  /\ q \in Seq(Frame) /\ Len(q) = Len(stack)
            /\ \A i \in 1..Len(stack) : q[i].key = stack[i].key
            /\ \A i \in 1..(Len(stack) - 1) : q[i] = stack[i]
            /\ q[Len(stack)].todo = t
    BY <1>1, <1>2, <1>9, TodoChanged
  <2>2. /\ s \in Seq(Frame) /\ Len(s) = n
        /\ \A i \in 1..(n - 1) : s[i] = stack[i]
        /\ s[n].todo = t
    BY <1>4, <1>10, <2>1, Zenon
  <2> QED
    BY <1>4, <2>2
<1>13. ItemOf(s[n]) = ItemOf(stack[n])
  <2>1. stack[n] \in Frame /\ n \in 1..Len(stack)
    BY <1>3, <1>4
  <2>2. s[n] = [stack[n] EXCEPT !.todo = t]
    BY <1>3, <1>10, <2>1
  <2> QED
    BY <2>1, <2>2 DEF ItemOf, Frame
<1>14. Below(s) = Below(stack) /\ Rest = Below(stack)
  BY <1>3, <1>4, <1>12, <1>13, BelowSame DEF Rest
<1>15. PICK f : f = Activation(x)
  OBVIOUS
<1>16. f \in Frame /\ f.todo = <<>> /\ ItemOf(f) = x /\ stack' = Append(s, f)
  <2>1. f \in Frame /\ f.todo = <<>> /\ ItemOf(f) = x
    BY <1>9, <1>15 DEF Activation, Frame, ItemOf, Item
  <2>2. stack' = Append(s, Activation(x))
    BY <1>1, <1>5, <1>7, <1>11 DEF CallSet
  <2> QED
    BY <1>15, <2>1, <2>2
<1>17. /\ stack' \in Seq(Frame) /\ Len(stack') = n + 1 /\ stack' # <<>> /\ stack'[n + 1] = f
       /\ \A i \in 1..n : stack'[i] = s[i]
  BY <1>4, <1>12, <1>16
<1>18. Front(stack') = s
  <2>1. Len(Front(stack')) = n /\ Front(stack') \in Seq(Frame)
    BY <1>4, <1>17, FrontElements, FrontType
  <2>2. \A i \in 1..n : Front(stack')[i] = stack'[i]
    BY <1>4, <1>17, FrontElements
  <2> QED
    BY <1>12, <1>17, <2>1, <2>2, SeqEqual
<1>19. Rest' = <<x>> \o (t \o Rest)
  <2>1. Rest' = Below(stack')
    BY <1>17 DEF Rest, Below, Pend, ItemOf
  <2>2. Len(stack') > 1
    BY <1>4, <1>17
  <2>3. Below(stack') = <<ItemOf(stack'[Len(stack')])>> \o Pend(Front(stack'), FALSE)
    BY <1>17, <2>2, BelowNested
  <2>4. ItemOf(stack'[Len(stack')]) = x
    BY <1>16, <1>17
  <2>5. Pend(s, FALSE) = s[Len(s)].todo \o Below(s)
    BY <1>12, PendFront
  <2> QED
    BY <1>12, <1>14, <1>18, <2>1, <2>3, <2>4, <2>5
<1>20. Whole = Contents \o Rest'
  <2>1. Pending = todo \o Rest
    BY <1>1, <1>2, <1>3, <1>5 DEF ViewFacts
  <2>2. PICK r : r = Rest
    OBVIOUS
  <2>3. r \in Seq(Item)
    BY <1>2, <2>2 DEF ViewFacts
  <2>4. (<<x>> \o t) \o r = <<x>> \o (t \o r)
    BY <1>9, <2>3, ItemsAssociative
  <2> QED
    BY <1>9, <1>19, <2>1, <2>2, <2>4 DEF Whole
<1>21. Contents' = Contents
  BY <1>1, ContentsKept
<1>22. RequestNow' = RequestNow
  <2>1. stack'[1] = s[1] /\ 1 \in 1..n
    BY <1>4, <1>17
  <2>2. ItemOf(s[1]) = ItemOf(stack[1])
    <3>1. CASE n = 1
      BY <1>13, <3>1
    <3>2. CASE n # 1
      BY <1>4, <1>12, <3>2
    <3> QED
      BY <3>1, <3>2
  <2>3. RequestNow' = <<ItemOf(stack'[1])>> /\ RequestNow = <<ItemOf(stack[1])>>
    BY <1>3, <1>17 DEF RequestNow, ItemOf
  <2> QED
    BY <2>1, <2>2, <2>3
<1>23. pc' \in {"fail", "recycleKey", "alloc1"} /\ cur' = 1 /\ (pc' = "fail" => x.val > limit)
  BY <1>1, <1>5, <1>7 DEF CallSet, Enter
<1>24. FrameInv'
  <2>1. Top'.todo = <<>>
    BY <1>16, <1>17 DEF Top
  <2> QED
    BY <1>1, <1>3, <1>23, <2>1 DEF RefineInv, FrameInv
<1>25. ScanInv'
  BY <1>23, ScanBegins
<1>26. CASE pc' = "fail"
  <2>1. Held' = <<>> /\ Held = Whole
    BY <1>1, <1>4, <1>17, <1>26, HeldNow, HeldNext
  <2>2. PICK w : w = Whole
    OBVIOUS
  <2>3. PICK c : c = Contents
    OBVIOUS
  <2>4. PICK r : r = t \o Rest
    OBVIOUS
  <2>5. c \in Seq(Item) /\ r \in Seq(Item)
    BY <1>2, <1>9, <2>3, <2>4, ConcatProperties DEF ViewFacts
  <2>6. w = c \o (<<x>> \o r)
    BY <1>19, <1>20, <2>2, <2>3, <2>4
  <2>7. Len(c) + 1 \in DOMAIN w /\ w[Len(c) + 1] = x
    BY <1>9, <2>5, <2>6
  <2>8. x.val > Min(ValueLimits)
    <3>1. limit \in ValueLimits
      BY <1>3 DEF RefineInv, FrameInv
    <3>2. Min(ValueLimits) <= limit /\ Min(ValueLimits) \in Nat /\ limit \in Nat /\ x.val \in Nat
      BY <1>9, <3>1, SmallestIsLeast, CacheAssumption DEF Item, Values
    <3> QED
      BY <1>23, <1>26, <3>2
  <2>9. PICK i : i = Len(c) + 1
    OBVIOUS
  <2>10. i \in DOMAIN Held /\ Held[i].val > Min(ValueLimits)
    BY <2>1, <2>2, <2>7, <2>8, <2>9
  <2>11. CacheStep
    BY <1>1, <1>3, <1>22, <1>26, <2>1, <2>10, CacheLoses
  <2>12. ApartInv'
    BY <1>26 DEF ApartInv
  <2> QED
    BY <1>24, <1>25, <2>11, <2>12 DEF Refines, RefineInv
<1>27. CASE pc' # "fail"
  <2>1. ViewFacts'
    BY <1>24, ViewNext
  <2>2. Whole' = Contents' \o Rest'
    BY <1>23, <1>27, <2>1, WholeNext DEF WholeFacts
  <2>3. Whole' = Whole
    BY <1>20, <1>21, <2>2
  <2>4. CacheStep
    BY <1>1, <1>22, <1>23, <1>27, <2>3, HeldNow, HeldNext, CacheStutters
  <2>5. ApartInv'
    BY <1>1, <2>3, SameApart DEF RefineInv, ApartInv
  <2> QED
    BY <1>24, <1>25, <2>4, <2>5 DEF Refines, RefineInv
<1> QED
  BY <1>26, <1>27
-----------------------------------------------------------------------------
(* The requests of clients                                                 *)

LEMMA ExpiresType == ASSUME TypeInv, NEW ttl \in TTLs PROVE CalcExpires(now, ttl) \in Nat
BY CacheAssumption DEF TypeInv, ControlInv, CalcExpires

\* Nobody is in a set.
IdleFacts == /\ stack = <<>> /\ RequestNow = <<>> /\ Rest = <<>>
             /\ Held = Contents /\ Whole = Contents
             /\ Contents \in Seq(Item) /\ Len(Contents) = Len(list)
LEMMA WhenIdle == SoundInv /\ FrameInv /\ pc = "idle" => IdleFacts
<1> SUFFICES ASSUME SoundInv, FrameInv, pc = "idle" PROVE IdleFacts
  OBVIOUS
<1>1. stack = <<>>
  BY DEF FrameInv
<1>2. Len(stack) = 0
  BY <1>1
<1>3. ViewFacts /\ WholeFacts
  BY View, WholeIs
<1>4. Held = Whole /\ Whole = Contents
  BY <1>2, <1>3, HeldNow DEF WholeFacts
<1> QED
  BY <1>1, <1>3, <1>4 DEF IdleFacts, RequestNow, Rest, ViewFacts

\* No key has two entries, before and after a step.
ContentsOnce == KeysApart(Contents)
LEMMA OnceNow == SoundInv => ContentsOnce
BY ContentsApart DEF ContentsOnce
LEMMA OnceNext == ASSUME SoundInv', Whole' = Contents' PROVE ApartInv'
<1>1. SoundInv' => ContentsOnce'
  BY OnceNow, PTL
<1> QED
  BY <1>1 DEF ContentsOnce, ApartInv, KeysApart

LEMMA StaysIdle ==
  ASSUME SoundInv, SoundInv', RefineInv, pc = "idle", pc' = "idle", UNCHANGED <<stack, limit, new>>
  PROVE  RefineInv' /\ IdleFacts /\ IdleFacts' /\ UNCHANGED RequestNow
<1>1. IdleFacts
  BY WhenIdle DEF RefineInv
<1>2. FrameInv'
  BY <1>1 DEF FrameInv, IdleFacts
<1>3. IdleFacts'
  <2>1. (SoundInv /\ FrameInv /\ pc = "idle" => IdleFacts)'
    BY WhenIdle, PTL
  <2> QED
    BY <1>2, <2>1
<1>4. ApartInv'
  BY <1>3, OnceNext DEF IdleFacts
<1>5. ScanInv'
  BY ScanBegins
<1> QED
  BY <1>1, <1>2, <1>3, <1>4, <1>5, RestKept DEF RefineInv

\* shm_ht_set is called by a client.
LEMMA SetAsked ==
  ASSUME SoundInv, SoundInv', RefineInv, pc = "idle", NEW x \in Item, limit' \in ValueLimits,
         CallSet(<<>>, x), UNCHANGED <<table, memory, segments, now>>
  PROVE  Refines
<1>1. IdleFacts
  BY WhenIdle DEF RefineInv
<1>2. UNCHANGED <<ht, list>>
  BY DEF table
<1>3. Contents' = Contents
  BY <1>2, ContentsKept
<1>4. PICK f : f = Activation(x)
  OBVIOUS
<1>5. f \in Frame /\ f.todo = <<>> /\ ItemOf(f) = x
  BY <1>4, ActivationType DEF Activation, ItemOf, Item
<1>6. stack' = <<f>> /\ Len(stack') = 1 /\ stack'[1] = f /\ stack' # <<>>
  BY <1>4 DEF CallSet
<1>7. RequestNow' = <<x>>
  BY <1>5, <1>6 DEF RequestNow, ItemOf
<1>8. pc' \in {"fail", "recycleKey", "alloc1"} /\ cur' = 1
  BY DEF CallSet, Enter
<1>9. FrameInv'
  <2>1. Top' = f
    BY <1>6 DEF Top
  <2>2. ~(Len(stack') > 1)
    BY <1>6
  <2> QED
    BY <1>5, <1>6, <1>8, <2>1, <2>2 DEF FrameInv
<1>10. ScanInv'
  BY <1>8, ScanBegins
<1>11. ~(Len(stack') > 1) /\ Len(stack') <= 1
  BY <1>6
<1>12. CASE pc' = "fail"
  <2>1. Held' = Contents'
    BY <1>11, <1>12, HeldNext
  <2>2. ApartInv'
    BY <1>12 DEF ApartInv
  <2>3. CacheStep
    BY <1>1, <1>3, <1>7, <1>12, <2>1, CacheAsks DEF IdleFacts
  <2> QED
    BY <1>9, <1>10, <2>2, <2>3 DEF Refines, RefineInv
<1>13. CASE pc' # "fail"
  <2>1. ViewFacts'
    BY <1>9, ViewNext
  <2>2. Whole' = Contents'
    BY <1>8, <1>11, <1>13, <2>1, WholeNext DEF WholeFacts
  <2>3. Held' = Contents'
    BY <1>8, <1>13, <2>2, HeldNext
  <2>4. ApartInv'
    BY <2>2, OnceNext
  <2>5. CacheStep
    BY <1>1, <1>3, <1>7, <1>8, <2>3, CacheAsks DEF IdleFacts
  <2> QED
    BY <1>9, <1>10, <2>4, <2>5 DEF Refines, RefineInv
<1> QED
  BY <1>12, <1>13

LEMMA SetRequested ==
  ASSUME SoundInv, SoundInv', RefineInv, NEW k \in Keys, NEW v \in Values, NEW ttl \in TTLs,
         Set(k, v, ttl)
  PROVE  Refines
<1>1. PICK x : x = [key |-> k, val |-> v, exp |-> CalcExpires(now, ttl)]
  OBVIOUS
<1>2. x \in Item
  BY <1>1, ExpiresType DEF Item, SoundInv
<1> QED
  BY <1>1, <1>2, SetAsked DEF Set

LEMMA IncrRequested ==
  ASSUME SoundInv, SoundInv', RefineInv, NEW k \in Keys, NEW ttl \in TTLs, Incr(k, ttl)
  PROVE  Refines
<1>1. PICK x : x = [key |-> k, val |-> Counted(k) + 1, exp |-> CalcExpires(now, ttl)]
  OBVIOUS
<1>2. Counted(k) + 1 \in Values
  <2>1. ht[k] \in Entry /\ Counted(k) < MaxNumber
    BY DEF Incr, SoundInv, TypeInv, TableInv
  <2>2. Counted(k) \in 0..MaxVal
    BY <2>1, CacheAssumption DEF Counted, Entry
  <2> QED
    BY <2>1, <2>2, CacheAssumption DEF Values
<1>3. x \in Item
  BY <1>1, <1>2, ExpiresType DEF Item, SoundInv
<1> QED
  BY <1>1, <1>3, SetAsked DEF Incr

LEMMA DeleteRequested ==
  ASSUME SoundInv, SoundInv', RefineInv, NEW k \in Keys, Delete(k)
  PROVE  Refines
<1>1. /\ pc = "idle" /\ pc' = "idle" /\ UNCHANGED <<stack, limit, new, now>> /\ Live(k)
      /\ ht' = [ht EXCEPT ![k] = NoEntry] /\ list' = Without(list, Offset(ht[k]))
  BY DEF Delete, locals
<1>2. RefineInv' /\ IdleFacts /\ IdleFacts' /\ UNCHANGED RequestNow
  BY <1>1, StaysIdle
<1>3. PICK i \in 1..Len(list) :
         Len(Contents) = Len(list) /\ Contents \in Seq(Item) /\ Contents' = RemoveAt(Contents, i)
  BY <1>1, ContentsUnlinked
<1>4. i \in DOMAIN Contents
  BY <1>3
<1>5. i \in DOMAIN Held /\ Held' = RemoveAt(Held, i)
  BY <1>2, <1>3, <1>4 DEF IdleFacts
<1>6. CacheStep
  BY <1>1, <1>2, <1>5, CacheDeletes DEF IdleFacts
<1> QED
  BY <1>2, <1>6 DEF Refines

LEMMA ExpiresRequested ==
  ASSUME SoundInv, SoundInv', RefineInv, NEW k \in Keys, NEW exp \in Nat, SetExpires(k, exp)
  PROVE  Refines
<1>1. /\ pc = "idle" /\ pc' = "idle" /\ UNCHANGED <<stack, limit, new, now, list>> /\ Live(k)
      /\ ht' = [ht EXCEPT ![k].exp = exp] /\ IsValidAt(ht[k].exp, now)
  BY DEF SetExpires, locals
<1>2. RefineInv' /\ IdleFacts /\ IdleFacts' /\ UNCHANGED RequestNow
  BY <1>1, StaysIdle
<1>3. PICK i \in 1..Len(list) :
            /\ Contents[i] = ItemAt(k) /\ Len(Contents) = Len(list) /\ Contents \in Seq(Item)
            /\ Contents' = [Contents EXCEPT ![i].exp = exp]
  BY <1>1, ContentsTouched
<1>4. PICK c : c = Contents
  OBVIOUS
<1>5. c \in Seq(Item) /\ i \in DOMAIN c /\ c[i] \in Item /\ Len(c) \in Nat
  BY <1>3, <1>4
<1>6. PICK d : d = [c EXCEPT ![i].exp = exp]
  OBVIOUS
<1>7. d[i].exp = exp /\ Len(d) = Len(c)
  BY <1>5, <1>6 DEF Item
<1>8. Held = c /\ Held' = d
  BY <1>2, <1>3, <1>4, <1>6 DEF IdleFacts
<1>9. ~(c[i].exp # 0 /\ c[i].exp < now)
  <2>1. c[i].exp = ht[k].exp
    BY <1>3, <1>4 DEF ItemAt
  <2>2. c[i].exp \in Nat /\ now \in Nat
    BY <1>5 DEF Item, SoundInv, TypeInv, ControlInv
  <2> QED
    BY <1>1, <2>1, <2>2 DEF IsValidAt
<1>10. CacheStep
  BY <1>1, <1>2, <1>5, <1>6, <1>7, <1>8, <1>9, CacheTouches DEF IdleFacts
<1> QED
  BY <1>2, <1>10 DEF Refines

LEMMA ClearRequested ==
  ASSUME SoundInv, SoundInv', RefineInv, Clear \/ Tick
  PROVE  Refines
<1>1. pc = "idle" /\ pc' = "idle" /\ UNCHANGED <<stack, limit, new>>
  BY DEF Clear, Tick, locals
<1>2. RefineInv' /\ IdleFacts /\ IdleFacts' /\ UNCHANGED RequestNow
  BY <1>1, StaysIdle
<1>3. \/ Contents' = <<>> /\ now' = now
      \/ Contents' = Contents /\ now' = now + 1
  BY ContentsCleared, ContentsKept DEF Clear, Tick, table
<1>4. CacheStep
  BY <1>1, <1>2, <1>3, CacheRests DEF IdleFacts
<1> QED
  BY <1>2, <1>4 DEF Refines

LEMMA RequestRefines ==
  ASSUME SoundInv, SoundInv', RefineInv, Request
  PROVE  Refines
BY SetRequested, IncrRequested, DeleteRequested, ExpiresRequested, ClearRequested, ExpiresType
   DEF Request, SoundInv
-----------------------------------------------------------------------------
(* A process is killed, and its lock is taken from it                      *)

LEMMA KillRefines ==
  ASSUME SoundInv, SoundInv', RefineInv, Crash
  PROVE  Refines
<1>1. pc # "crashed" /\ pc' = "crashed" /\ stack' = <<>> /\ UNCHANGED <<now, new>>
  BY DEF Crash, Enter
<1>2. FrameInv'
  <2>1. ~(Len(stack') > 1)
    BY <1>1
  <2> QED
    BY <1>1, <2>1 DEF FrameInv
<1>3. ScanInv' /\ ApartInv'
  BY <1>1, ScanBegins DEF ApartInv
<1>4. Held' = <<>> /\ RequestNow' = <<>>
  BY <1>1, HeldNext DEF RequestNow
<1>5. CacheStep
  BY <1>1, <1>4, CacheDies
<1> QED
  BY <1>2, <1>3, <1>5 DEF Refines, RefineInv

LEMMA RecoveryRefines ==
  ASSUME SoundInv, SoundInv', RefineInv, Recover
  PROVE  Refines
<1>1. pc = "crashed" /\ pc' = "idle" /\ ClearTable /\ UNCHANGED <<now, stack>>
  BY DEF Recover, Enter
<1>2. stack' = <<>> /\ ~(Len(stack') > 1)
  BY <1>1 DEF RefineInv, FrameInv
<1>3. FrameInv'
  BY <1>1, <1>2 DEF FrameInv
<1>4. ScanInv'
  BY <1>1, ScanBegins
<1>5. IdleFacts'
  <2>1. (SoundInv /\ FrameInv /\ pc = "idle" => IdleFacts)'
    BY WhenIdle, PTL
  <2> QED
    BY <1>1, <1>3, <2>1
<1>6. ApartInv'
  BY <1>5, OnceNext DEF IdleFacts
<1>7. Held' = <<>> /\ Held = <<>>
  BY <1>1, <1>5, ContentsCleared, HeldNow DEF IdleFacts
<1>8. CacheStep
  BY <1>1, <1>7, RestKept, CacheDies
<1> QED
  BY <1>3, <1>4, <1>6, <1>8 DEF Refines, RefineInv
-----------------------------------------------------------------------------
(* An entry is recycled                                                    *)

LEMMA RemoveAtConcat ==
  ASSUME NEW c \in Seq(Item), NEW r \in Seq(Item), NEW i \in 1..Len(c)
  PROVE  RemoveAt(c, i) \o r = RemoveAt(c \o r, i)
<1> DEFINE w == c \o r
           a == RemoveAt(c, i)
           n == Len(c)
           m == Len(r)
<1>1. n \in Nat /\ m \in Nat /\ n >= 1
  OBVIOUS
<1>2. /\ w \in Seq(Item) /\ Len(w) = n + m
      /\ \A j \in 1..(n + m) : w[j] = IF j <= n THEN c[j] ELSE r[j - n]
  BY ConcatProperties, Zenon
<1>3. /\ a \in Seq(Item) /\ Len(a) = n - 1
      /\ \A j \in 1..(n - 1) : a[j] = IF j < i THEN c[j] ELSE c[j + 1]
  BY RemoveAtElements, RemoveAtType
<1> HIDE DEF w, a
<1>4. i \in 1..Len(w)
  BY <1>1, <1>2
<1> DEFINE b == RemoveAt(w, i)
<1>5. /\ b \in Seq(Item) /\ Len(b) = (n + m) - 1
      /\ \A j \in 1..((n + m) - 1) : b[j] = IF j < i THEN w[j] ELSE w[j + 1]
  <2>1. /\ b \in Seq(Item) /\ Len(b) = Len(w) - 1
        /\ \A j \in 1..(Len(w) - 1) : b[j] = IF j < i THEN w[j] ELSE w[j + 1]
    BY <1>2, <1>4, RemoveAtElements, RemoveAtType
  <2> HIDE DEF b, n, m
  <2> QED
    BY <1>2, <2>1
<1> DEFINE d == a \o r
<1>6. /\ d \in Seq(Item) /\ Len(d) = Len(a) + m
      /\ \A j \in 1..(Len(a) + m) : d[j] = IF j <= Len(a) THEN a[j] ELSE r[j - Len(a)]
  BY <1>3, ConcatProperties, Zenon
<1> HIDE DEF b, d, n, m
<1>7. Len(d) = Len(b)
  BY <1>1, <1>3, <1>5, <1>6
<1>8. ASSUME NEW j \in 1..Len(d) PROVE d[j] = b[j]
  <2>0. i \in 1..n
    BY DEF n
  <2>1. j \in 1..((n + m) - 1) /\ j \in 1..(Len(a) + m)
    BY <1>5, <1>6, <1>7
  <2>2. CASE j <= n - 1
    <3>1. j \in 1..(n - 1) /\ j \in 1..(n + m) /\ j + 1 \in 1..(n + m) /\ j <= n /\ j + 1 <= n
      BY <1>1, <2>1, <2>2
    <3>2. d[j] = a[j]
      BY <1>3, <1>6, <2>1, <2>2
    <3>3. w[j] = c[j] /\ w[j + 1] = c[j + 1]
      BY <1>2, <3>1
    <3>4. a[j] = (IF j < i THEN c[j] ELSE c[j + 1]) /\ b[j] = (IF j < i THEN w[j] ELSE w[j + 1])
      BY <1>3, <1>5, <2>1, <3>1
    <3> QED
      BY <3>2, <3>3, <3>4
  <2>3. CASE ~(j <= n - 1)
    <3>1. (j + 1) - n = j - (n - 1) /\ ~(j < i) /\ ~(j + 1 <= n) /\ j + 1 \in 1..(n + m)
      BY <1>1, <2>0, <2>1, <2>3
    <3>2. d[j] = r[j - (n - 1)]
      BY <1>3, <1>6, <2>1, <2>3
    <3>3. b[j] = w[j + 1]
      BY <1>5, <2>1, <3>1
    <3>4. w[j + 1] = r[(j + 1) - n]
      BY <1>2, <3>1, Zenon
    <3> QED
      BY <3>1, <3>2, <3>3, <3>4
  <2> QED
    BY <2>2, <2>3
<1>9. d = b
  BY <1>5, <1>6, <1>7, <1>8, SeqEqual
<1> QED
  BY <1>9 DEF d, b, a, w

LEMMA RemoveAtApart ==
  ASSUME NEW w \in Seq(Item), NEW i \in 1..Len(w), KeysApart(w)
  PROVE  KeysApart(RemoveAt(w, i))
<1> DEFINE b == RemoveAt(w, i)
           n == Len(w)
<1>1. n \in Nat /\ i \in 1..n
  OBVIOUS
<1>2. Len(b) = n - 1 /\ \A j \in 1..(n - 1) : b[j] = IF j < i THEN w[j] ELSE w[j + 1]
  BY RemoveAtElements
<1>3. \A j, k \in 1..n : w[j].key = w[k].key => j = k
  BY DEF KeysApart
<1> HIDE DEF b, n
<1>4. ASSUME NEW j \in 1..(n - 1), NEW k \in 1..(n - 1), b[j].key = b[k].key
      PROVE  j = k
  <2>1. PICK p \in 1..n : p = (IF j < i THEN j ELSE j + 1) /\ b[j] = w[p]
    BY <1>1, <1>2
  <2>2. PICK q \in 1..n : q = (IF k < i THEN k ELSE k + 1) /\ b[k] = w[q]
    BY <1>1, <1>2
  <2>3. p = q
    BY <1>3, <1>4, <2>1, <2>2
  <2> QED
    BY <1>1, <2>1, <2>2, <2>3
<1> QED
  BY <1>2, <1>4 DEF KeysApart, b

LEMMA EntryRecycled ==
  ASSUME SoundInv, SoundInv', RefineInv, RecycleEntry
  PROVE  Refines
<1>1. PICK k \in Keys :
        /\ EntryAt(k) /\ MayRecycle(k)
        /\ ht' = [ht EXCEPT ![k] = NoEntry] /\ list' = Without(list, Offset(ht[k]))
        /\ \/ pc' \in {"alloc1", "alloc2"}
           \/ UNCHANGED <<pc, cur>>
  BY DEF RecycleEntry, Enter
<1>2. Recycling /\ pc \in {"recycleKey", "recycleMem"} /\ UNCHANGED <<now, limit, stack, new>>
  BY DEF RecycleEntry, Recycling
<1>3. pc' \in {"alloc1", "alloc2", "recycleKey", "recycleMem"}
  BY <1>1, <1>2
<1>4. ViewFacts /\ WholeFacts
  BY View, WholeIs DEF RefineInv
<1>5. FrameInv'
  BY <1>2, <1>3, FramesKept
<1>6. ViewFacts' /\ WholeFacts'
  BY <1>5, ViewNext, WholeNext
<1>7. PICK c : c = Contents
  OBVIOUS
<1>8. PICK r : r = Rest
  OBVIOUS
<1>9. c \in Seq(Item) /\ Len(c) = Len(list) /\ r \in Seq(Item)
  BY <1>4, <1>7, <1>8 DEF ViewFacts
<1>10. /\ cur \in 1..Len(c) /\ c[cur].key = k /\ c[cur].exp = ht[k].exp
  BY <1>1, <1>7, EntryIs
<1>11. Contents' = RemoveAt(c, cur)
  <2>1. PICK i \in 1..Len(list) : Contents[i].key = k /\ Contents' = RemoveAt(Contents, i)
    BY <1>1, ContentsUnlinked DEF EntryAt
  <2>2. i = cur
    BY <1>7, <1>9, <1>10, <2>1, ContentsApart DEF KeysApart
  <2> QED
    BY <1>7, <2>1, <2>2
<1>12. Rest' = r /\ RequestNow' = RequestNow
  BY <1>2, <1>8, RestKept
<1>13. Whole = c \o r
  BY <1>2, <1>4, <1>7, <1>8 DEF WholeFacts
<1>14. Whole' = RemoveAt(c \o r, cur)
  <2>1. Whole' = Contents' \o Rest'
    BY <1>3, <1>6 DEF WholeFacts
  <2> QED
    BY <1>9, <1>10, <1>11, <1>12, <2>1, RemoveAtConcat
<1>15. PICK w : w = c \o r
  OBVIOUS
<1>16. /\ w \in Seq(Item) /\ Len(w) = Len(c) + Len(r) /\ w[cur] = c[cur] /\ cur \in 1..Len(w)
       /\ cur \in DOMAIN w
  <2>1. /\ w \in Seq(Item) /\ Len(w) = Len(c) + Len(r)
        /\ \A j \in 1..(Len(c) + Len(r)) : w[j] = IF j <= Len(c) THEN c[j] ELSE r[j - Len(c)]
    BY <1>9, <1>15, ConcatProperties, Zenon
  <2>2. Len(c) \in Nat /\ Len(r) \in Nat
    BY <1>9
  <2>3. cur \in 1..(Len(c) + Len(r)) /\ cur <= Len(c)
    BY <1>10, <2>2
  <2> QED
    BY <2>1, <2>3
<1>17. KeysApart(w)
  BY <1>2, <1>13, <1>15 DEF RefineInv, ApartInv
<1>18. ApartInv'
  <2>1. PICK v : v = RemoveAt(w, cur)
    OBVIOUS
  <2>2. KeysApart(v)
    BY <1>16, <1>17, <2>1, RemoveAtApart
  <2>3. Whole' = v
    BY <1>14, <1>15, <2>1
  <2> QED
    BY <2>2, <2>3 DEF ApartInv, KeysApart
<1>19. Held = w /\ Held' = RemoveAt(w, cur)
  BY <1>2, <1>3, <1>13, <1>14, <1>15, HeldNow, HeldNext
<1>20. \A i \in 1..Len(c) : i < cur => Spares(c[i])
  BY <1>2, <1>7 DEF RefineInv, ScanInv
<1>21. (w[cur].exp # 0 /\ w[cur].exp < now) \/ (RecycleValidEntries /\ cur = 1)
  <2>1. CASE RecycleValidEntries
    <3>1. ~(1 < cur)
      BY <1>9, <1>10, <1>20, <2>1 DEF Spares
    <3> QED
      BY <1>10, <2>1, <3>1
  <2>2. CASE ~RecycleValidEntries
    <3>1. c[cur] \in Item /\ now \in Nat
      BY <1>9, <1>10 DEF SoundInv, TypeInv, ControlInv
    <3>2. c[cur].exp \in Nat /\ ~IsValidAt(c[cur].exp, now)
      BY <1>1, <1>10, <2>2, <3>1 DEF MayRecycle, Item
    <3> QED
      BY <1>16, <3>1, <3>2 DEF IsValidAt
  <2> QED
    BY <2>1, <2>2
<1>22. CacheStep
  <2>1. stack # <<>>
    BY <1>2 DEF SoundInv, TypeInv, ControlInv
  <2>2. cur \in DOMAIN Held
    BY <1>16, <1>19
  <2>3. (Held[cur].exp # 0 /\ Held[cur].exp < now) \/ (RecycleValidEntries /\ cur = 1)
    BY <1>19, <1>21
  <2>4. PICK i : i = cur
    OBVIOUS
  <2> QED
    BY <1>2, <1>3, <1>12, <1>19, <2>1, <2>2, <2>3, <2>4, CacheEvicts
<1>23. ScanInv'
  <2>1. CASE pc' \in {"alloc1", "alloc2"}
    BY <2>1, ScanBegins
  <2>2. CASE UNCHANGED <<pc, cur>>
    <3>1. PICK d : d = RemoveAt(c, cur)
      OBVIOUS
    <3>2. Len(d) = Len(c) - 1 /\ \A i \in 1..(Len(c) - 1) : i < cur => d[i] = c[i]
      BY <1>9, <1>10, <3>1, RemoveAtElements
    <3>3. Len(c) \in Nat
      BY <1>9
    <3>4. \A i \in 1..Len(d) : i < cur => i \in 1..Len(c) /\ d[i] = c[i]
      BY <3>2, <3>3
    <3>5. \A i \in 1..Len(d) : i < cur' => Spares(d[i])'
      BY <1>2, <1>20, <2>2, <3>4 DEF Spares
    <3> QED
      BY <1>2, <1>11, <2>2, <3>1, <3>5 DEF ScanInv
  <2> QED
    BY <1>1, <2>1, <2>2
<1> QED
  BY <1>5, <1>18, <1>22, <1>23 DEF Refines, RefineInv
-----------------------------------------------------------------------------
(* The end of a set                                                        *)

LEMMA Returned ==
  ASSUME SoundInv, SoundInv', RefineInv, NEW to, Return(to), pc \notin {"idle", "crashed"}
  PROVE  /\ stack \in Seq(Frame) /\ stack # <<>> /\ Len(stack) \in Nat \ {0}
         /\ stack' = Front(stack) /\ Len(stack') = Len(stack) - 1
         /\ Len(stack) = 1 => pc' = "idle" /\ RequestNow' = <<>> /\ FrameInv'
         /\ Len(stack) # 1 => /\ pc' = to /\ Len(stack) > 1 /\ stack' # <<>>
                              /\ UNCHANGED <<limit, RequestNow>>
<1>1. stack \in Seq(Frame) /\ stack # <<>>
  BY DEF SoundInv, TypeInv, ControlInv
<1>2. Len(stack) \in Nat \ {0}
  BY <1>1, EmptySeq, Zenon
<1>3. stack' = Front(stack) /\ pc' = IF Len(stack) = 1 THEN "idle" ELSE to
  BY DEF Return, Enter
<1>4. Len(stack') = Len(stack) - 1 /\ \A i \in 1..(Len(stack) - 1) : stack'[i] = stack[i]
  BY <1>1, <1>3, FrontElements
<1>5. CASE Len(stack) = 1
  <2>1. stack' \in Seq(Frame) /\ Len(stack') = 0
    BY <1>1, <1>3, <1>4, <1>5, FrontType
  <2>2. stack' = <<>>
    BY <2>1, EmptySeq
  <2>3. ~(Len(stack') > 1)
    BY <2>1
  <2>4. FrameInv'
    BY <1>3, <1>5, <2>2, <2>3 DEF FrameInv
  <2> QED
    BY <1>1, <1>2, <1>3, <1>4, <1>5, <2>2, <2>4 DEF RequestNow
<1>6. CASE Len(stack) # 1
  <2>1. Len(stack) > 1 /\ Len(stack) - 1 \in Nat \ {0} /\ 1 \in 1..(Len(stack) - 1)
    <3>1. \A n \in Nat \ {0} : n # 1 => n > 1 /\ n - 1 \in Nat \ {0} /\ 1 \in 1..(n - 1)
      OBVIOUS
    <3> QED
      BY <1>2, <1>6, <3>1, Zenon
  <2>2. stack' # <<>> /\ stack'[1] = stack[1]
    <3>1. Len(<<>>) = 0
      OBVIOUS
    <3>2. Len(stack') \in Nat \ {0}
      BY <1>4, <2>1, Zenon
    <3> QED
      BY <1>4, <2>1, <3>1, <3>2
  <2>3. UNCHANGED RequestNow
    BY <1>1, <2>2 DEF RequestNow, ItemOf
  <2>4. UNCHANGED limit
    BY <1>6 DEF Return
  <2> QED
    BY <1>1, <1>2, <1>3, <1>4, <1>6, <2>1, <2>2, <2>3, <2>4
<1> QED
  BY <1>5, <1>6

LEMMA ErrorReturned ==
  ASSUME SoundInv, SoundInv', RefineInv, ReturnError
  PROVE  Refines
<1>1. pc = "fail" /\ Return("fail") /\ UNCHANGED now
  BY DEF ReturnError
<1>2. /\ stack \in Seq(Frame) /\ stack # <<>> /\ Len(stack) \in Nat \ {0}
      /\ stack' = Front(stack) /\ Len(stack') = Len(stack) - 1
      /\ Len(stack) = 1 => pc' = "idle" /\ RequestNow' = <<>> /\ FrameInv'
      /\ Len(stack) # 1 => /\ pc' = "fail" /\ Len(stack) > 1 /\ stack' # <<>>
                           /\ UNCHANGED <<limit, RequestNow>>
  BY <1>1, Returned
<1>3. ScanInv'
  BY <1>2, ScanBegins
<1>4. CASE Len(stack) = 1
  <2>1. Contents' = Contents
    BY <1>4, ContentsKept DEF ReturnError, table
  <2>2. IdleFacts'
    <3>1. (SoundInv /\ FrameInv /\ pc = "idle" => IdleFacts)'
      BY WhenIdle, PTL
    <3> QED
      BY <1>2, <1>4, <3>1
  <2>3. Held = Contents
    <3>1. ~(Len(stack) > 1)
      BY <1>4
    <3> QED
      BY <1>1, <3>1, HeldNow
  <2>4. Held' = Held
    BY <2>1, <2>2, <2>3 DEF IdleFacts
  <2>5. CacheStep
    BY <1>1, <1>2, <1>4, <2>4, CacheGivesUp
  <2>6. ApartInv'
    BY <2>2, OnceNext DEF IdleFacts
  <2> QED
    BY <1>2, <1>3, <1>4, <2>5, <2>6 DEF Refines, RefineInv
<1>5. CASE Len(stack) # 1
  <2>1. Contents' = <<>>
    BY <1>5, ContentsCleared DEF ReturnError
  <2>2. Held = <<>> /\ Held' = <<>>
    BY <1>1, <1>2, <1>5, <2>1, HeldNow, HeldNext
  <2>3. CacheStep
    BY <1>1, <1>2, <1>5, <2>2, CacheStutters
  <2>4. FrameInv'
    BY <1>2, <1>5 DEF RefineInv, FrameInv
  <2>5. ApartInv'
    BY <1>2, <1>5 DEF ApartInv
  <2> QED
    BY <1>3, <2>3, <2>4, <2>5 DEF Refines, RefineInv
<1> QED
  BY <1>4, <1>5

LEMMA EntryLinked ==
  ASSUME SoundInv, SoundInv', RefineInv, Link
  PROVE  Refines
<1>1. pc = "link" /\ Return("rearrange") /\ UNCHANGED now
  BY DEF Link
<1>2. /\ stack \in Seq(Frame) /\ stack # <<>> /\ Len(stack) \in Nat \ {0}
      /\ stack' = Front(stack) /\ Len(stack') = Len(stack) - 1
      /\ Len(stack) = 1 => pc' = "idle" /\ RequestNow' = <<>> /\ FrameInv'
      /\ Len(stack) # 1 => /\ pc' = "rearrange" /\ Len(stack) > 1 /\ stack' # <<>>
                           /\ UNCHANGED <<limit, RequestNow>>
  BY <1>1, Returned
<1>3. ScanInv'
  BY <1>2, ScanBegins
<1>4. ViewFacts /\ WholeFacts
  BY View, WholeIs DEF RefineInv
<1>5. PICK k : k = Top.key
  OBVIOUS
<1>6. PICK x : x = ItemOf(Top)
  OBVIOUS
<1>7. /\ k \in Keys /\ x \in Item /\ x.key = k
      /\ x = [key |-> k, val |-> new.val, exp |-> new.exp] /\ new.val \in Values
  <2>1. Top \in Frame
    BY <1>2, <1>4 DEF ViewFacts
  <2>2. new.val = Top.val /\ new.exp = Top.exp
    BY <1>1 DEF RefineInv, FrameInv
  <2> QED
    BY <1>5, <1>6, <2>1, <2>2 DEF ItemOf, Frame, Item
<1>8. new.str # 0
  BY <1>1 DEF SoundInv, TypeInv, ControlInv
<1>9. /\ ht' = [ht EXCEPT ![k] = new]
      /\ list' = Append(IF Live(k) THEN Without(list, Offset(ht[k])) ELSE list, Offset(new))
  BY <1>5 DEF Link
<1>10. IF Live(k)
       THEN \E i \in 1..Len(list) :
               /\ Contents[i].key = k /\ Len(Contents) = Len(list)
               /\ Contents' = Append(RemoveAt(Contents, i), x)
       ELSE /\ \A i \in 1..Len(Contents) : Contents[i].key # k
            /\ Contents' = Append(Contents, x)
  BY <1>7, <1>8, <1>9, ContentsLinked
<1>11. PICK c : c = Contents
  OBVIOUS
<1>12. c \in Seq(Item) /\ Len(c) = Len(list) /\ DOMAIN c = 1..Len(c) /\ Len(c) \in Nat
  BY <1>4, <1>11 DEF ViewFacts
<1>13. CASE Len(stack) = 1
  <2>1. Len(stack) <= 1
    BY <1>13
  <2>2. Held = c
    BY <1>1, <1>4, <1>11, <2>1, HeldNow DEF WholeFacts
  <2>3. IdleFacts'
    <3>1. (SoundInv /\ FrameInv /\ pc = "idle" => IdleFacts)'
      BY WhenIdle, PTL
    <3> QED
      BY <1>2, <1>13, <3>1
  <2>4. Held' = Contents' /\ Whole' = Contents'
    BY <2>3 DEF IdleFacts
  <2>5. RequestNow = <<x>>
    BY <1>2, <1>6, <1>13 DEF RequestNow, Top
  <2>6. \/ /\ \A i \in DOMAIN Held : Held[i].key # x.key
           /\ Held' = Append(Held, x)
        \/ \E i \in DOMAIN Held : Held[i].key = x.key /\ Held' = Append(RemoveAt(Held, i), x)
    BY <1>7, <1>10, <1>11, <1>12, <2>2, <2>4, Zenon
  <2>7. CacheStep
    BY <1>1, <1>2, <1>13, <2>5, <2>6, CachePuts
  <2>8. ApartInv'
    BY <2>4, OnceNext
  <2> QED
    BY <1>2, <1>3, <1>13, <2>7, <2>8 DEF Refines, RefineInv
<1>14. CASE Len(stack) # 1
  <2>1. PICK p : p = Pend(Front(stack), FALSE)
    OBVIOUS
  <2>2. p \in Seq(Item) /\ Rest = <<x>> \o p /\ stack' \in Seq(Frame)
    BY <1>2, <1>6, <1>14, <2>1, BelowNested DEF Rest, Top
  <2>3. PICK w : w = c \o (<<x>> \o p)
    OBVIOUS
  <2>4. Whole = w
    BY <1>1, <1>4, <1>11, <2>2, <2>3 DEF WholeFacts
  <2>5. KeysApart(w)
    BY <1>1, <2>4 DEF RefineInv, ApartInv
  <2>6. Contents' = Append(c, x)
    <3>1. /\ Len(c) + 1 \in 1..Len(w) /\ w[Len(c) + 1] = x
          /\ \A i \in 1..Len(c) : i \in 1..Len(w) /\ w[i] = c[i] /\ i # Len(c) + 1
      <4>1. PICK o : o = <<x>> \o p
        OBVIOUS
      <4>2. o \in Seq(Item) /\ Len(o) = 1 + Len(p) /\ o[1] = x /\ Len(p) \in Nat
        BY <1>7, <2>2, <4>1
      <4>3. /\ Len(w) = Len(c) + Len(o)
            /\ \A j \in 1..(Len(c) + Len(o)) : w[j] = IF j <= Len(c) THEN c[j] ELSE o[j - Len(c)]
        <5>1. w = c \o o /\ c \in Seq(Item) /\ o \in Seq(Item)
          BY <1>12, <2>3, <4>1, <4>2
        <5> QED
          BY <5>1, ConcatProperties, Zenon
      <4>4. /\ Len(c) + 1 \in 1..(Len(c) + Len(o)) /\ ~(Len(c) + 1 <= Len(c))
            /\ (Len(c) + 1) - Len(c) = 1
            /\ \A i \in 1..Len(c) : i \in 1..(Len(c) + Len(o)) /\ i <= Len(c) /\ i # Len(c) + 1
        BY <1>12, <4>2
      <4> QED
        BY <4>2, <4>3, <4>4, Zenon
    <3>2. \A i \in 1..Len(c) : c[i].key # k
      BY <1>7, <2>5, <3>1 DEF KeysApart
    <3> QED
      BY <1>10, <1>11, <1>12, <3>2
  <2>7. Pending' = p
    <3>1. Pending' = Pend(stack', pc' = "toArray")
      BY PendingNext
    <3>2. (pc' = "toArray") = FALSE
      BY <1>2, <1>14
    <3> QED
      BY <1>2, <2>1, <3>1, <3>2
  <2>8. Whole' = Whole
    <3>1. Append(c, x) = c \o <<x>> /\ <<x>> \in Seq(Item)
      BY <1>7, <1>12
    <3>2. (c \o <<x>>) \o p = c \o (<<x>> \o p)
      BY <1>12, <2>2, <3>1, ItemsAssociative
    <3>3. Whole' = Contents' \o Pending'
      BY DEF Whole
    <3> QED
      BY <2>3, <2>4, <2>6, <2>7, <3>1, <3>2, <3>3
  <2>9. CacheStep
    BY <1>1, <1>2, <1>14, <2>8, HeldNow, HeldNext, CacheStutters
  <2>10. ApartInv'
    BY <2>4, <2>5, <2>8, SameApart
  <2>11. FrameInv'
    BY <1>2, <1>14 DEF RefineInv, FrameInv
  <2> QED
    BY <1>3, <2>9, <2>10, <2>11 DEF Refines, RefineInv
<1> QED
  BY <1>13, <1>14
-----------------------------------------------------------------------------
(* The refinement                                                          *)

LEMMA RefineStart == Init => RefineInv /\ Fifo!Init
<1> SUFFICES ASSUME Init PROVE RefineInv /\ Fifo!Init
  OBVIOUS
<1>1. /\ pc = "idle" /\ stack = <<>> /\ list = <<>> /\ now = 1 /\ Len(stack) = 0 /\ ~(Len(stack) > 1)
  BY DEF Init
<1>2. SoundInv
  BY SoundInit
<1>3. FrameInv
  BY <1>1 DEF FrameInv
<1>4. ScanInv
  BY <1>1 DEF ScanInv, Recycling
<1>5. IdleFacts
  BY <1>1, <1>2, <1>3, WhenIdle
<1>6. ApartInv
  BY <1>2, <1>5, ContentsApart DEF ApartInv, IdleFacts
<1>7. Contents = <<>>
  <2>1. Len(Contents) = 0 /\ Contents \in Seq(Item)
    BY <1>1, <1>5 DEF IdleFacts
  <2> QED
    BY <2>1, EmptySeq
<1>8. Held = <<>> /\ RequestNow = <<>> /\ (pc # "crashed") = TRUE
  BY <1>1, <1>5, <1>7 DEF IdleFacts
<1>9. Fifo!Init
  BY <1>1, <1>8 DEF Fifo!Init, RequestNow
<1> QED
  BY <1>3, <1>4, <1>6, <1>9 DEF RefineInv

LEMMA RefineStep == SoundInv /\ SoundInv' /\ RefineInv /\ [Next]_vars => Refines
<1> SUFFICES ASSUME SoundInv, SoundInv', RefineInv, [Next]_vars PROVE Refines
  OBVIOUS
<1>1. CASE Request
  BY <1>1, RequestRefines
<1>2. CASE Tick
  BY <1>2, ClearRequested
<1>3. CASE Crash
  BY <1>3, KillRefines
<1>4. CASE Step
  BY <1>4, RecyclingMoves, EntryRecycled, AllocationFits, AllocationMoves, SegmentMoves,
     RearrangementBegins, EntryCopied, CopyingFails, TableCopied, EntrySetAgain,
     RearrangementEnds, EntryLinked, ErrorReturned, RecoveryRefines DEF Step
<1>5. CASE UNCHANGED vars
  <2>1. UNCHANGED <<ht, list, stack, now, limit, new, pc, cur>>
    BY <1>5 DEF vars, table, locals
  <2>2. Contents' = Contents /\ Rest' = Rest /\ RequestNow' = RequestNow
    BY <2>1, ContentsKept, RestKept
  <2>3. Pending' = Pending
    BY <2>1, PendingIs, PendingNext
  <2>4. Whole' = Whole /\ Held' = Held
    BY <2>1, <2>2, <2>3 DEF Whole, Held
  <2>5. CacheStep
    BY <2>1, <2>2, <2>4, CacheStutters
  <2>6. FrameInv'
    BY <2>1 DEF RefineInv, FrameInv, Top
  <2>7. ScanInv'
    <3>1. PICK c : c = Contents
      OBVIOUS
    <3> QED
      BY <2>1, <2>2, <3>1 DEF RefineInv, ScanInv, Recycling, Spares, Top
  <2>8. ApartInv'
    <3>1. CASE pc \in {"fail", "crashed"}
      BY <2>1, <3>1 DEF ApartInv
    <3>2. CASE pc \notin {"fail", "crashed"}
      BY <2>4, <3>2, SameApart DEF RefineInv, ApartInv
    <3> QED
      BY <3>1, <3>2
  <2> QED
    BY <2>5, <2>6, <2>7, <2>8 DEF Refines, RefineInv
<1> QED
  BY <1>1, <1>2, <1>3, <1>4, <1>5 DEF Next

\* Whatever the configuration, the cache under its lock gives its clients the
\* FIFO cache of FifoCache, but for one kind of step: without
\* recycle_valid_entries, a rearrangement that finds no memory for an entry
\* that it copied out drops all of them (the shm_ht_clear at the end of
\* shm_value_allocator_try_rearrange).
THEOREM CacheRefinesFifo == Spec => FifoUnlessOutOfRoom
<1>1. Init => Fifo!Init /\ RefineInv
  BY RefineStart
<1>2. SoundInv /\ SoundInv' /\ RefineInv /\ [Next]_vars
      => RefineInv' /\ [Fifo!Next \/ OutOfRoom]_(Fifo!vars)
  BY RefineStep DEF Refines, CacheStep
<1> QED
  BY <1>1, <1>2, SoundInit, SoundStep, PTL DEF Spec, FifoUnlessOutOfRoom

\* With recycle_valid_entries, as the configuration that ships has it, there is
\* no such step: a valid entry is where it was set until it is deleted,
\* overwritten, cleared or the oldest when room is needed, and no failed set,
\* no growing of memory and no recovery shows through.
THEOREM RecyclersRefineFifo ==
  ASSUME RecycleValidEntries PROVE Spec => ImplementsFifoCache
<1>1. [Fifo!Next \/ OutOfRoom]_(Fifo!vars) => [Fifo!Next]_(Fifo!vars)
  BY DEF OutOfRoom
<1>2. ImplementsFifoCache <=> Fifo!Init /\ [][Fifo!Next]_(Fifo!vars)
  BY DEF ImplementsFifoCache, Fifo!Spec
<1> QED
  BY <1>1, <1>2, CacheRefinesFifo, PTL DEF FifoUnlessOutOfRoom
=============================================================================
