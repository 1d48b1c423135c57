---------------------------- MODULE ShmConfigProofs ----------------------------
(***************************************************************************)
(* Proofs about ShmConfig, for any sizes of types, pages and literals that *)
(* ConfigAssumption allows and for any configuration file.                 *)
(*                                                                         *)
(* The file is the whole state, and each property is about what is made of *)
(* it, so the inductive invariant is that the file is one of Files.  The   *)
(* work is in the arithmetic: the two passes of shmcache_get_ht_segment_   *)
(* size use the same sizes of segments and stripings, only the number of   *)
(* segments differs, and it can only become smaller.                       *)
(***************************************************************************)
EXTENDS ShmConfig, TLAPS

\* The file is there when a process reads it, and may be edited between.
FileSpec == FileInit /\ [][\E f \in Files : Edit(f)]_file
-----------------------------------------------------------------------------
(* Arithmetic                                                              *)

LEMMA Numbers ==
  /\ PageSize \in Nat /\ PageSize > 0 /\ Mega \in Nat /\ Mega > 0
  /\ StripingUnit \in Nat /\ StripingUnit > 0 /\ MaxIndex \in Nat /\ MaxIndex > 0
  /\ IntMax \in Nat /\ IntMax > 0 /\ ShortMax \in Nat /\ ShortMax > 0
  /\ HeaderSize \in Nat /\ WordSize \in Nat /\ AllocatorSize \in Nat
  /\ EntrySize \in Nat /\ EntrySize > 0
  /\ PageSize > MaxIndex /\ MaxIndex <= ShortMax /\ Mega >= 2 * EntrySize /\ Mega <= IntMax
  BY ConfigAssumption DEF Bounds

LEMMA Division ==
  ASSUME NEW a \in Nat, NEW b \in Nat, b > 0
  PROVE  a \div b \in Nat /\ b * (a \div b) <= a /\ a < b * (a \div b) + b
<1>1. a \div b \in Nat
  OBVIOUS
<1>2. b * (a \div b) <= a
  OBVIOUS
<1>3. a < b * (a \div b) + b
  OBVIOUS
<1> QED
  BY <1>1, <1>2, <1>3

LEMMA Product ==
  ASSUME NEW a \in Int, NEW b \in Int, NEW c \in Nat, a <= b
  PROVE  a * c <= b * c /\ c * a <= c * b
  OBVIOUS

\* A quotient is what its products say.
LEMMA Bounded ==
  ASSUME NEW q \in Int, NEW r \in Int, NEW c \in Nat, c > 0, q * c < r * c + c
  PROVE  q <= r
<1>1. SUFFICES ASSUME q >= r + 1 PROVE FALSE
  OBVIOUS
<1>2. (r + 1) * c <= q * c
  BY <1>1, Product
<1>3. (r + 1) * c = r * c + c
  OBVIOUS
<1>4. r * c \in Int /\ q * c \in Int
  OBVIOUS
<1> QED
  BY <1>2, <1>3, <1>4

LEMMA AlignFacts ==
  ASSUME NEW x \in Nat, x > 0
  PROVE  Align(x) \in Nat /\ Align(x) >= x /\ Align(x) >= PageSize /\ Align(x) > 0
<1> DEFINE q == (x + PageSize - 1) \div PageSize
<1>1. PageSize \in Nat /\ PageSize > 0 /\ x + PageSize - 1 \in Nat
  BY Numbers
<1>2. q \in Nat /\ x + PageSize - 1 < PageSize * q + PageSize
  BY <1>1, Division
<1> HIDE DEF q
<1>3. q # 0
  BY <1>1, <1>2
<1>4. q * PageSize = PageSize * q /\ q * PageSize \in Nat
  BY <1>1, <1>2
<1>5. q * PageSize >= PageSize
  <2>1. 1 * PageSize <= q * PageSize
    BY <1>1, <1>2, <1>3, Product
  <2> QED
    BY <1>1, <2>1
<1> QED
  BY <1>1, <1>2, <1>4, <1>5 DEF Align, q

LEMMA QuotientFacts ==
  ASSUME NEW m \in Int, NEW a \in Nat, a > 0
  PROVE  /\ Quotient(m, a) \in Int
         /\ m < 0 => Quotient(m, a) <= 0
         /\ m >= 0 => /\ Quotient(m, a) >= 0
                      /\ Quotient(m, a) * a <= m
                      /\ m < Quotient(m, a) * a + a
<1>1. CASE m >= 0
  <2>1. Quotient(m, a) = m \div a /\ m \in Nat
    BY <1>1 DEF Quotient
  <2>2. m \div a \in Nat /\ a * (m \div a) <= m /\ m < a * (m \div a) + a
    BY <2>1, Division
  <2>3. a * (m \div a) = (m \div a) * a
    BY <2>2
  <2> QED
    BY <1>1, <2>1, <2>2, <2>3
<1>2. CASE m < 0
  <2>1. Quotient(m, a) = -((-m) \div a) /\ -m \in Nat
    BY <1>2 DEF Quotient
  <2>2. (-m) \div a \in Nat
    BY <2>1, Division
  <2> QED
    BY <1>2, <2>1, <2>2
<1> QED
  BY <1>1, <1>2

LEMMA ToIntFacts ==
  /\ \A x \in Int : ToInt(x) \in Int
  /\ \A x \in 0..IntMax : ToInt(x) = x
<1>1. IntMax \in Nat /\ 2 * (IntMax + 1) \in Nat /\ 2 * (IntMax + 1) > 0
  BY Numbers
<1>2. \A x \in Int : ToInt(x) \in Int
  BY <1>1 DEF ToInt
<1>3. \A x \in 0..IntMax : ToInt(x) = x
  BY <1>1 DEF ToInt
<1> QED
  BY <1>2, <1>3
-----------------------------------------------------------------------------
(* What is made of a file                                                  *)

LEMMA FileFacts ==
  ASSUME NEW f \in Files, Accepted(f)
  PROVE  /\ f.max_memory \in Nat /\ f.max_memory > 0
         /\ f.segment_size \in Nat /\ f.segment_size > 0
         /\ f.max_key_count \in Nat /\ f.max_key_count > 0
         /\ f.max_value_size \in Nat /\ f.max_value_size > 0
         /\ Capacity(f.max_key_count + 1) \in Nat
<1>1. /\ f.max_memory \in Items /\ f.segment_size \in Items /\ f.max_value_size \in Items
      /\ f.max_key_count \in Int
  BY ConfigAssumption DEF File
<1>2. \A v \in Items : BytesOK(v) => v \in Nat /\ v > 0
  BY DEF BytesOK, Items
<1>3. Capacity(f.max_key_count + 1) \in Nat
  BY ConfigAssumption
<1> QED
  BY <1>1, <1>2, <1>3 DEF Accepted

\* The size of a value segment, of the first and of the second pass.
SegSize(f) == Align(SegmentSize(f))

\* Its number of segments in all of max_memory is at most MaxIndex, because
\* what the correction of segment_size rounds down is less than a page.
LEMMA SegSizeFacts ==
  ASSUME NEW f \in Files, Accepted(f)
  PROVE  /\ SegSize(f) \in Nat /\ SegSize(f) > 0
         /\ Quotient(f.max_memory, SegSize(f)) <= MaxIndex
<1> DEFINE m == f.max_memory
           s == f.segment_size
           a == SegSize(f)
<1>1. m \in Nat /\ m > 0 /\ s \in Nat /\ s > 0 /\ MaxIndex \in Nat /\ MaxIndex > 0
      /\ PageSize \in Nat /\ PageSize > MaxIndex
  BY FileFacts, Numbers
<1>2. CASE m \div s > MaxIndex
  <2> DEFINE t == m \div MaxIndex
  <2>1. SegmentSize(f) = t
    BY <1>2 DEF SegmentSize
  <2>2. t \in Nat /\ MaxIndex * t <= m /\ m < MaxIndex * t + MaxIndex
    BY <1>1, Division
  <2>3. t > 0
    <3>1. m \div s \in Nat /\ s * (m \div s) <= m
      BY <1>1, Division
    <3>2. 1 * (m \div s) <= s * (m \div s)
      BY <1>1, <3>1, Product
    <3>3. m \div s <= m
      BY <1>1, <3>1, <3>2
    <3> HIDE DEF t, m, s
    <3>4. t # 0
      BY <1>1, <1>2, <2>2, <3>1, <3>3
    <3> QED
      BY <2>2, <3>4
  <2>4. a \in Nat /\ a >= t /\ a >= PageSize /\ a > 0
    BY <2>1, <2>2, <2>3, AlignFacts DEF SegSize
  <2> HIDE DEF t, m, s, a
  <2>5. m < MaxIndex * a + a
    <3>1. MaxIndex * t <= MaxIndex * a
      BY <1>1, <2>2, <2>4, Product
    <3>2. MaxIndex * t \in Nat /\ MaxIndex * a \in Nat
      BY <1>1, <2>2, <2>4
    <3> QED
      BY <1>1, <2>2, <2>4, <3>1, <3>2
  <2>6. Quotient(m, a) \in Int /\ Quotient(m, a) * a <= m
    <3>1. m \in Int /\ m >= 0
      BY <1>1
    <3> QED
      BY <2>4, <3>1, QuotientFacts, Zenon
  <2>7. Quotient(m, a) * a < MaxIndex * a + a
    <3>1. Quotient(m, a) * a \in Int /\ MaxIndex * a \in Int
      BY <1>1, <2>4, <2>6
    <3> QED
      BY <1>1, <2>4, <2>5, <2>6, <3>1
  <2>8. Quotient(m, a) <= MaxIndex
    BY <1>1, <2>4, <2>6, <2>7, Bounded
  <2> QED
    BY <2>4, <2>8 DEF m, a
<1>3. CASE ~(m \div s > MaxIndex)
  <2>1. SegmentSize(f) = s
    BY <1>3 DEF SegmentSize
  <2>2. a \in Nat /\ a >= s /\ a > 0
    BY <1>1, <2>1, AlignFacts DEF SegSize
  <2>3. m \div s \in Nat /\ m < s * (m \div s) + s
    BY <1>1, Division
  <2> HIDE DEF m, s, a
  <2>4. m \div s <= MaxIndex
    BY <1>1, <1>3, <2>3
  <2>5. m < MaxIndex * a + a
    <3>1. s * (m \div s) <= s * MaxIndex
      BY <1>1, <2>3, <2>4, Product
    <3>2. MaxIndex * s <= MaxIndex * a
      BY <1>1, <2>2, Product
    <3>3. s * MaxIndex = MaxIndex * s /\ MaxIndex * s \in Nat /\ MaxIndex * a \in Nat
          /\ s * (m \div s) \in Nat
      BY <1>1, <2>2, <2>3
    <3> QED
      BY <1>1, <2>2, <2>3, <3>1, <3>2, <3>3
  <2>6. Quotient(m, a) \in Int /\ Quotient(m, a) * a <= m
    <3>1. m \in Int /\ m >= 0
      BY <1>1
    <3> QED
      BY <2>2, <3>1, QuotientFacts, Zenon
  <2>7. Quotient(m, a) * a < MaxIndex * a + a
    <3>1. Quotient(m, a) * a \in Int /\ MaxIndex * a \in Int
      BY <1>1, <2>2, <2>6
    <3> QED
      BY <1>1, <2>2, <2>5, <2>6, <3>1
  <2>8. Quotient(m, a) <= MaxIndex
    BY <1>1, <2>2, <2>6, <2>7, Bounded
  <2> QED
    BY <2>2, <2>8 DEF m, a
<1> QED
  BY <1>2, <1>3

\* The number of segments in so much memory.
SegCount(f, memory) == IF Quotient(memory, SegSize(f)) = 0 THEN 1
                       ELSE Quotient(memory, SegSize(f))

LEMMA SegmentIs ==
  ASSUME NEW f \in Files, Accepted(f), NEW memory \in Int
  PROVE  Segment(Config(f), memory) = [size |-> SegSize(f), max |-> SegCount(f, memory)]
  BY DEF Segment, Config, SegSize, SegCount

\* Less memory never has more segments.
LEMMA SegCountFacts ==
  ASSUME NEW f \in Files, Accepted(f), NEW memory \in Int, memory <= f.max_memory
  PROVE  /\ SegCount(f, memory) \in Int
         /\ SegCount(f, memory) > 1 => SegCount(f, memory) * SegSize(f) <= memory
         /\ SegCount(f, memory) <= SegCount(f, f.max_memory)
         /\ SegCount(f, f.max_memory) <= MaxIndex
         /\ SegSize(f) <= f.max_memory => SegCount(f, memory) * SegSize(f) <= f.max_memory
<1> DEFINE m == f.max_memory
           a == SegSize(f)
           x == Quotient(memory, a)
           y == Quotient(m, a)
<1>1. m \in Nat /\ a \in Nat /\ a > 0 /\ y <= MaxIndex /\ MaxIndex \in Nat /\ MaxIndex > 0
  BY FileFacts, SegSizeFacts, Numbers
<1>2. /\ x \in Int /\ (memory < 0 => x <= 0) /\ (memory >= 0 => x >= 0 /\ x * a <= memory)
      /\ y \in Int /\ y >= 0 /\ y * a <= m /\ m < y * a + a
  <2>1. m \in Int /\ m >= 0
    BY <1>1
  <2>2. /\ x \in Int /\ (memory < 0 => x <= 0)
        /\ (memory >= 0 => x >= 0 /\ x * a <= memory /\ memory < x * a + a)
    BY <1>1, QuotientFacts, Zenon
  <2>3. y \in Int /\ y >= 0 /\ y * a <= m /\ m < y * a + a
    BY <1>1, <2>1, QuotientFacts, Zenon
  <2> QED
    BY <2>2, <2>3
<1>3. SegCount(f, memory) = IF x = 0 THEN 1 ELSE x
  BY DEF SegCount
<1>4. SegCount(f, m) = IF y = 0 THEN 1 ELSE y
  BY DEF SegCount
<1>5. memory <= m
  OBVIOUS
<1> HIDE DEF m, a, x, y
<1>6. x * a \in Int /\ y * a \in Int /\ 1 * a = a
  BY <1>1, <1>2
<1>7. x <= y
  <2>1. CASE memory < 0
    BY <1>2, <2>1
  <2>2. CASE memory >= 0
    <3>1. x * a < y * a + a
      BY <1>1, <1>2, <1>5, <1>6, <2>2
    <3> QED
      BY <1>1, <1>2, <3>1, Bounded
  <2> QED
    BY <2>1, <2>2
<1>8. x > 1 => x * a <= memory
  BY <1>2
<1>9. ASSUME a <= m PROVE (IF x = 0 THEN 1 ELSE x) * a <= m
  <2>1. CASE x = 0
    BY <1>6, <1>9, <2>1
  <2>2. CASE x > 0
    BY <1>1, <1>2, <1>5, <1>6, <2>2
  <2>3. CASE x < 0
    <3>1. x * a <= 0 * a
      BY <1>1, <1>2, <2>3, Product
    <3> QED
      BY <1>1, <1>6, <2>3, <3>1
  <2> QED
    BY <1>2, <2>1, <2>2, <2>3
<1> QED
  BY <1>1, <1>2, <1>3, <1>4, <1>7, <1>8, <1>9 DEF m, a

\* The size of a striping, which depends on the size of the segment only, and
\* how many of them are in a segment.
StSize(f) == StripingSize(Config(f), [size |-> SegSize(f), max |-> 1])
PerSegment(f) == SegSize(f) \div StSize(f)

LEMMA StripingIs ==
  ASSUME NEW f \in Files, Accepted(f), NEW memory \in Int
  PROVE  Striping(Config(f), Segment(Config(f), memory)) =
           [size |-> StSize(f), max |-> SegCount(f, memory) * PerSegment(f)]
<1> DEFINE g == [size |-> SegSize(f), max |-> SegCount(f, memory)]
<1>1. Segment(Config(f), memory) = g
  BY SegmentIs
<1>2. g.size = SegSize(f) /\ g.max = SegCount(f, memory)
      /\ [size |-> SegSize(f), max |-> 1].size = SegSize(f)
  OBVIOUS
<1>3. StripingSize(Config(f), g) = StSize(f)
  BY <1>2 DEF StripingSize, StSize
<1> HIDE DEF g
<1> QED
  BY <1>1, <1>2, <1>3 DEF Striping, PerSegment

LEMMA MegaCountFacts ==
  ASSUME NEW size \in Nat
  PROVE  MegaCount(size) \in Nat /\ MegaCount(size) >= 1
<1> DEFINE n == size \div StripingUnit
<1>1. n \in Nat
  BY Numbers, Division
<1>2. MegaCount(size) = CASE n = 0 -> 1 [] n > 8 -> 8 [] n = 3 -> 2
                          [] n \in 5..7 -> 4 [] OTHER -> n
  BY DEF MegaCount
<1> HIDE DEF n
<1> QED
  BY <1>1, <1>2

\* A striping is a whole segment or has room for a mega and for two of the
\* largest values.
LEMMA StSizeFacts ==
  ASSUME NEW f \in Files, Accepted(f)
  PROVE  /\ StSize(f) \in Nat /\ StSize(f) > 0 /\ StSize(f) <= SegSize(f)
         /\ StSize(f) = SegSize(f) \/ (/\ StSize(f) >= Mega
                                       /\ StSize(f) >= ToInt(Config(f).max_value_size * 2))
         /\ Config(f).max_value_size \in Int
         /\ PerSegment(f) \in Nat /\ PerSegment(f) * StSize(f) <= SegSize(f)
         /\ StSize(f) = SegSize(f) => PerSegment(f) = 1
<1> DEFINE a == SegSize(f)
           v == Config(f).max_value_size
           values == ToInt(v * 2)
           megas == MegaCount(a) * Mega
           x == IF megas < values THEN values ELSE megas
<1>1. a \in Nat /\ a > 0 /\ Mega \in Nat /\ Mega > 0
  BY SegSizeFacts, Numbers
<1>2. v \in Int
  <2>1. v = ToInt(f.max_value_size)
    BY DEF Config
  <2>2. f.max_value_size \in Int
    BY FileFacts
  <2> QED
    BY <2>1, <2>2, ToIntFacts
<1>3. values \in Int
  BY <1>2, ToIntFacts
<1>4. megas \in Nat /\ megas >= Mega
  <2>1. MegaCount(a) \in Nat /\ MegaCount(a) >= 1
    BY <1>1, MegaCountFacts
  <2>2. 1 * Mega <= MegaCount(a) * Mega
    BY <1>1, <2>1, Product
  <2> QED
    BY <1>1, <2>1, <2>2
<1>5. StSize(f) = IF Align(x) > a THEN a ELSE Align(x)
  BY DEF StSize, StripingSize
<1> HIDE DEF a, v, values, megas
<1>6. x \in Nat /\ x > 0 /\ x >= Mega /\ x >= values
  BY <1>1, <1>3, <1>4
<1> HIDE DEF x
<1>7. Align(x) \in Nat /\ Align(x) >= x /\ Align(x) > 0
  BY <1>6, AlignFacts
<1>8. /\ StSize(f) \in Nat /\ StSize(f) > 0 /\ StSize(f) <= a
      /\ StSize(f) = a \/ (StSize(f) >= Mega /\ StSize(f) >= values)
  BY <1>1, <1>3, <1>5, <1>6, <1>7
<1>9. /\ a \div StSize(f) \in Nat /\ (a \div StSize(f)) * StSize(f) <= a
      /\ a < (a \div StSize(f)) * StSize(f) + StSize(f)
  <2>1. /\ a \div StSize(f) \in Nat /\ StSize(f) * (a \div StSize(f)) <= a
        /\ a < StSize(f) * (a \div StSize(f)) + StSize(f)
    BY <1>1, <1>8, Division
  <2>2. StSize(f) * (a \div StSize(f)) = (a \div StSize(f)) * StSize(f)
    BY <1>8, <2>1
  <2> QED
    BY <2>1, <2>2
<1>10. StSize(f) = a => a \div StSize(f) = 1
  <2>1. a \div a = 1
    BY <1>1
  <2> QED
    BY <2>1
<1> QED
  BY <1>2, <1>8, <1>9, <1>10 DEF PerSegment, a, v, values

\* The number of stripings in so much memory.
StCount(f, memory) == SegCount(f, memory) * PerSegment(f)

\* The memory that is left for values when the hashtable segment is taken off.
TableSize(f) == Layout(Config(f)).areas.size
Rest(f) == f.max_memory - TableSize(f)

LEMMA LayoutIs ==
  ASSUME NEW f \in Files, Accepted(f)
  PROVE  LET l == Layout(Config(f))
             n == StCount(f, f.max_memory)
         IN  /\ l.areas.done = l.areas.doing + WordSize * (n + 1)
             /\ l.areas.objects = l.areas.done + WordSize * (n + 1)
             /\ l.areas.size = l.areas.objects + AllocatorSize * n
             /\ l.areas.doing \in Nat /\ l.areas.done \in Nat /\ l.areas.objects \in Nat
             /\ TableSize(f) \in Nat /\ Rest(f) \in Int /\ Rest(f) <= f.max_memory
             /\ l.segment = [size |-> SegSize(f), max |-> SegCount(f, Rest(f))]
             /\ l.striping = [size |-> StSize(f), max |-> StCount(f, Rest(f))]
             /\ StCount(f, Rest(f)) \in Int /\ n \in Nat /\ StCount(f, Rest(f)) <= n
<1> DEFINE c == Config(f)
           m == f.max_memory
           n == StCount(f, m)
           areas == Areas(c, n)
           l == Layout(c)
<1>1. m \in Nat /\ c.max_memory = m /\ c.max_key_count = f.max_key_count
      /\ f.max_key_count \in Nat /\ Capacity(f.max_key_count + 1) \in Nat
  BY FileFacts DEF Config
<1>2. PerSegment(f) \in Nat
  BY StSizeFacts
<1>3. n \in Nat
  <2>1. SegCount(f, m) \in Int /\ SegCount(f, m) >= 0
    <3>1. SegCount(f, m) \in Int
      BY <1>1, SegCountFacts
    <3>2. Quotient(m, SegSize(f)) >= 0 /\ Quotient(m, SegSize(f)) \in Int
      <4>1. m \in Int /\ m >= 0 /\ SegSize(f) \in Nat /\ SegSize(f) > 0
        BY <1>1, SegSizeFacts
      <4> QED
        BY <4>1, QuotientFacts, Zenon
    <3> QED
      BY <3>1, <3>2 DEF SegCount
  <2>2. SegCount(f, m) * PerSegment(f) \in Nat
    BY <1>2, <2>1
  <2> QED
    BY <2>2 DEF StCount
<1>4. Striping(c, Segment(c, c.max_memory)).max = n
  BY <1>1, StripingIs DEF StCount
<1>5. /\ l.areas = areas
      /\ l.segment = Segment(c, m - areas.size)
      /\ l.striping = Striping(c, Segment(c, m - areas.size))
  BY <1>1, <1>4 DEF Layout
<1>6. /\ areas.done = areas.doing + WordSize * (n + 1)
      /\ areas.objects = areas.done + WordSize * (n + 1)
      /\ areas.size = areas.objects + AllocatorSize * n
      /\ areas.doing = (HeaderSize + WordSize * Capacity(c.max_key_count + 1))
                         + WordSize * (c.max_key_count + 1)
  BY DEF Areas, Words
<1> HIDE DEF areas, n
<1>7. areas.doing \in Nat /\ areas.done \in Nat /\ areas.objects \in Nat /\ areas.size \in Nat
  <2>1. /\ WordSize \in Nat /\ AllocatorSize \in Nat /\ HeaderSize \in Nat
    BY Numbers
  <2>2. /\ WordSize * Capacity(c.max_key_count + 1) \in Nat
        /\ WordSize * (c.max_key_count + 1) \in Nat
        /\ WordSize * (n + 1) \in Nat /\ AllocatorSize * n \in Nat
    BY <1>1, <1>3, <2>1
  <2> QED
    BY <1>6, <2>1, <2>2
<1>8. TableSize(f) = areas.size /\ Rest(f) = m - areas.size
  BY <1>5 DEF TableSize, Rest
<1>9. Rest(f) \in Int /\ Rest(f) <= m
  BY <1>1, <1>7, <1>8
<1>10. /\ l.segment = [size |-> SegSize(f), max |-> SegCount(f, Rest(f))]
       /\ l.striping = [size |-> StSize(f), max |-> StCount(f, Rest(f))]
  BY <1>5, <1>8, <1>9, SegmentIs, StripingIs DEF StCount
<1>11. StCount(f, Rest(f)) \in Int /\ StCount(f, Rest(f)) <= n
  <2>1. /\ SegCount(f, Rest(f)) \in Int /\ SegCount(f, m) \in Int
        /\ SegCount(f, Rest(f)) <= SegCount(f, m)
    BY <1>1, <1>9, SegCountFacts
  <2>2. SegCount(f, Rest(f)) * PerSegment(f) <= SegCount(f, m) * PerSegment(f)
    BY <1>2, <2>1, Product
  <2>3. SegCount(f, Rest(f)) * PerSegment(f) \in Int
    BY <1>2, <2>1
  <2> QED
    BY <2>2, <2>3 DEF StCount, n
<1> QED
  BY <1>3, <1>5, <1>6, <1>7, <1>8, <1>9, <1>10, <1>11 DEF n
-----------------------------------------------------------------------------
(* The properties of an accepted file                                      *)

LEMMA AreasOf ==
  ASSUME NEW f \in Files, Accepted(f)
  PROVE  FitsAreas(Layout(Config(f)))
<1> DEFINE l == Layout(Config(f))
           n == StCount(f, f.max_memory)
           k == StCount(f, Rest(f))
<1>1. /\ l.areas.done = l.areas.doing + WordSize * (n + 1)
      /\ l.areas.objects = l.areas.done + WordSize * (n + 1)
      /\ l.areas.size = l.areas.objects + AllocatorSize * n
      /\ l.areas.doing \in Nat /\ l.areas.done \in Nat /\ l.areas.objects \in Nat
      /\ l.striping = [size |-> StSize(f), max |-> k]
      /\ k \in Int /\ n \in Nat /\ k <= n
  BY LayoutIs
<1>2. l.striping.max = k
  BY <1>1
<1>3. WordSize \in Nat /\ AllocatorSize \in Nat
  BY Numbers
<1> HIDE DEF l, n, k
<1>4. WordSize * (k + 1) <= WordSize * (n + 1)
  BY <1>1, <1>3, Product
<1>5. AllocatorSize * k <= AllocatorSize * n
  BY <1>1, <1>3, Product
<1>6. /\ WordSize * (k + 1) \in Int /\ WordSize * (n + 1) \in Int
      /\ AllocatorSize * k \in Int /\ AllocatorSize * n \in Int
  BY <1>1, <1>3
<1>7. FitsAreas(l)
  BY <1>1, <1>2, <1>4, <1>5, <1>6 DEF FitsAreas, Words
<1> QED
  BY <1>7 DEF l

LEMMA MemoryOf ==
  ASSUME NEW f \in Files, Accepted(f)
  PROVE  WithinMemory(Config(f), Layout(Config(f)))
<1> DEFINE l == Layout(Config(f))
           k == SegCount(f, Rest(f))
           a == SegSize(f)
<1>1. /\ l.segment = [size |-> a, max |-> k] /\ l.areas.size = TableSize(f)
      /\ TableSize(f) \in Nat /\ Rest(f) \in Int /\ Rest(f) <= f.max_memory
      /\ Rest(f) = f.max_memory - TableSize(f)
  BY LayoutIs DEF Rest, TableSize
<1>2. k \in Int /\ (k > 1 => k * a <= Rest(f))
  BY <1>1, SegCountFacts
<1>3. f.max_memory \in Nat /\ Config(f).max_memory = f.max_memory /\ a \in Nat
  BY FileFacts, SegSizeFacts DEF Config
<1>4. l.segment.max = k /\ l.segment.size = a
  BY <1>1
<1> HIDE DEF l, k, a
<1>5. k * a \in Int
  BY <1>2, <1>3
<1>6. k > 1 => TableSize(f) + k * a <= f.max_memory
  BY <1>1, <1>2, <1>3, <1>5
<1>7. WithinMemory(Config(f), l)
  BY <1>1, <1>3, <1>4, <1>6 DEF WithinMemory
<1> QED
  BY <1>7 DEF l

LEMMA SegmentsOf ==
  ASSUME NEW f \in Files, Accepted(f)
  PROVE  Layout(Config(f)).segment.max <= MaxIndex
<1>1. /\ Layout(Config(f)).segment = [size |-> SegSize(f), max |-> SegCount(f, Rest(f))]
      /\ Rest(f) \in Int /\ Rest(f) <= f.max_memory
  BY LayoutIs
<1>2. f.max_memory \in Int /\ f.max_memory <= f.max_memory
  BY FileFacts
<1>3. /\ SegCount(f, Rest(f)) \in Int /\ SegCount(f, f.max_memory) \in Int
      /\ SegCount(f, Rest(f)) <= SegCount(f, f.max_memory)
      /\ SegCount(f, f.max_memory) <= MaxIndex
  BY <1>1, <1>2, SegCountFacts
<1> QED
  BY <1>1, <1>3, Numbers

LEMMA EntryOf ==
  ASSUME NEW f \in Files, Accepted(f)
  PROVE  HoldsEntry(Config(f), Layout(Config(f)))
<1> DEFINE v == Config(f).max_value_size
           l == Layout(Config(f))
           a == SegSize(f)
           s == StSize(f)
<1>1. l.segment.size = a /\ l.striping.size = s
  <2>1. /\ l.segment = [size |-> a, max |-> SegCount(f, Rest(f))]
        /\ l.striping = [size |-> s, max |-> StCount(f, Rest(f))]
    BY LayoutIs
  <2> QED
    BY <2>1
<1>2. /\ s \in Nat /\ v \in Int /\ a \in Nat
      /\ s = a \/ (s >= Mega /\ s >= ToInt(v * 2))
  BY StSizeFacts, SegSizeFacts
<1>3. Mega \in Nat /\ EntrySize \in Nat /\ IntMax \in Nat /\ Mega >= 2 * EntrySize
  BY Numbers
<1>4. v >= 0 /\ v * 2 <= IntMax => ToInt(v * 2) = v * 2
  <2>1. v >= 0 /\ v * 2 <= IntMax => v * 2 \in 0..IntMax
    BY <1>2, <1>3
  <2> QED
    BY <2>1, ToIntFacts
<1> HIDE DEF v, l, a, s
<1>5. EntrySize + v <= a /\ v * 2 <= IntMax => EntrySize + v <= s
  <2> SUFFICES ASSUME EntrySize + v <= a, v * 2 <= IntMax, s >= Mega, s >= ToInt(v * 2)
               PROVE  EntrySize + v <= s
    BY <1>2
  <2>1. CASE v < 0
    BY <1>2, <1>3, <2>1
  <2>2. CASE v >= 0
    <3>1. s >= v * 2
      BY <1>4, <2>2
    <3> QED
      BY <1>2, <1>3, <2>2, <3>1
  <2> QED
    BY <1>2, <2>1, <2>2
<1>6. HoldsEntry(Config(f), l)
  BY <1>1, <1>5 DEF HoldsEntry, v
<1> QED
  BY <1>6 DEF l

LEMMA StripingsOf ==
  ASSUME NEW f \in Files, Accepted(f)
  PROVE  NumbersStripings(Config(f), Layout(Config(f)))
<1> DEFINE m == f.max_memory
           l == Layout(Config(f))
           a == SegSize(f)
           s == StSize(f)
           k == SegCount(f, Rest(f))
           j == PerSegment(f)
           top == ShortMax + 1
<1>1. l.segment.size = a /\ l.striping.max = k * j /\ Rest(f) \in Int /\ Rest(f) <= m
  <2>1. /\ l.segment = [size |-> a, max |-> k]
        /\ l.striping = [size |-> s, max |-> StCount(f, Rest(f))]
        /\ Rest(f) \in Int /\ Rest(f) <= m
    BY LayoutIs
  <2> QED
    BY <2>1 DEF StCount
<1>2. /\ m \in Nat /\ Config(f).max_memory = m /\ a \in Nat /\ a > 0 /\ Mega \in Nat
      /\ Mega > 0 /\ ShortMax \in Nat /\ MaxIndex \in Nat /\ MaxIndex <= ShortMax
  BY FileFacts, SegSizeFacts, Numbers DEF Config
<1>3. k \in Int /\ k <= MaxIndex /\ (a <= m => k * a <= m)
  <2>1. /\ k \in Int /\ k <= SegCount(f, m) /\ SegCount(f, m) <= MaxIndex
        /\ a <= m => k * a <= m
    BY <1>1, SegCountFacts
  <2>2. SegCount(f, m) \in Int
    BY <1>2, SegCountFacts
  <2> QED
    BY <1>2, <2>1, <2>2
<1>4. /\ s \in Nat /\ s > 0 /\ (s = a \/ s >= Mega) /\ j \in Nat /\ j * s <= a
      /\ (s = a => j = 1)
  BY StSizeFacts
<1> HIDE DEF m, l, a, s, k, j
<1>5. ASSUME m <= Mega * top, a <= m
      PROVE  k * j <= top
  <2>1. CASE s = a
    BY <1>2, <1>3, <1>4, <2>1
  <2>2. CASE s >= Mega /\ k >= 0
    <3>1. k * (j * s) <= k * a
      <4>1. k \in Nat /\ j * s \in Int
        BY <1>3, <1>4, <2>2
      <4> QED
        BY <1>2, <1>4, <4>1, Product
    <3>2. k * (j * s) = (k * j) * s /\ (k * j) \in Int /\ (k * j) * s \in Int
      BY <1>3, <1>4
    <3>3. top * Mega <= top * s
      <4>1. top \in Nat
        BY <1>2
      <4> QED
        BY <1>2, <1>4, <2>2, <4>1, Product
    <3>4. top * Mega = Mega * top /\ Mega * top \in Int /\ top * s \in Int /\ k * a \in Int
          /\ top \in Int
      BY <1>2, <1>3, <1>4
    <3>5. (k * j) * s < top * s + s
      BY <1>2, <1>3, <1>4, <1>5, <3>1, <3>2, <3>3, <3>4
    <3> QED
      BY <1>4, <3>2, <3>4, <3>5, Bounded
  <2>3. CASE k < 0
    <3>1. k * j <= 0 * j
      BY <1>3, <1>4, <2>3, Product
    <3>2. k * j \in Int /\ 0 * j = 0
      BY <1>3, <1>4
    <3> QED
      BY <1>2, <3>1, <3>2
  <2> QED
    BY <1>3, <1>4, <2>1, <2>2, <2>3
<1>6. k * j \in Int
  BY <1>3, <1>4
<1>7. NumbersStripings(Config(f), l)
  BY <1>1, <1>2, <1>5, <1>6 DEF NumbersStripings
<1> QED
  BY <1>7 DEF l

LEMMA FileInvariant == FileSpec => [](file \in Files)
<1>1. FileInit => file \in Files
  BY DEF FileInit
<1>2. file \in Files /\ [\E f \in Files : Edit(f)]_file => (file \in Files)'
  BY DEF Edit
<1> QED
  BY <1>1, <1>2, PTL DEF FileSpec
-----------------------------------------------------------------------------
(* The theorems                                                            *)

\* The queues and allocators of the second pass of
\* shmcache_get_ht_segment_size fit into the areas that the first pass laid
\* out, whatever the file says.
THEOREM AreasAlwaysFit == FileSpec => []AreasFit
<1>1. file \in Files => AreasFit
  BY AreasOf DEF AreasFit, TheLayout, TheConfig
<1> QED
  BY <1>1, FileInvariant, PTL

\* The hashtable segment and all value segments stay within max_memory as soon
\* as there is more than the one value segment that is always granted.
THEOREM MemoryAlwaysBounded == FileSpec => []MemoryBounded
<1>1. file \in Files => MemoryBounded
  BY MemoryOf DEF MemoryBounded, TheLayout, TheConfig
<1> QED
  BY <1>1, FileInvariant, PTL

\* shmcache_load_config corrects a segment_size that is too small: there are
\* never more segments than the low byte of proj_id tells apart.
THEOREM SegmentsAlwaysTold == FileSpec => []SegmentsTold
<1>1. file \in Files => SegmentsTold
  BY SegmentsOf DEF SegmentsTold, TheLayout, TheConfig
<1> QED
  BY <1>1, FileInvariant, PTL

\* An accepted value fits into an empty striping under the two conditions of
\* EveryValueFits, also when max_value_size became negative as an int.
THEOREM ValuesAlwaysFit == FileSpec => []EveryValueFits
<1>1. file \in Files => EveryValueFits
  BY EntryOf DEF EveryValueFits, TheLayout, TheConfig
<1> QED
  BY <1>1, FileInvariant, PTL

\* A short numbers all stripings of max_memory, if it is a mega for each short
\* at most.
THEOREM StripingsAlwaysTold == FileSpec => []StripingsTold
<1>1. file \in Files => StripingsTold
  BY StripingsOf DEF StripingsTold, TheLayout, TheConfig
<1> QED
  BY <1>1, FileInvariant, PTL
=============================================================================
