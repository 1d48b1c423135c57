--------------------------- MODULE ObjectPoolProofs ---------------------------
(***************************************************************************)
(* Proofs about ObjectPool, for a ring of any capacity.                    *)
(***************************************************************************)
EXTENDS ObjectPool, SequenceTheorems, TLAPS

(***************************************************************************)
(* The geometry of the ring.  From a head h, slot i is DistFrom(h, i)      *)
(* steps behind, and At(h, d) is the slot d steps behind; the two are      *)
(* inverse to each other, and count is the distance of the tail.           *)
(***************************************************************************)
Cells == Objects \cup {0}
DistFrom(h, i) == IF i >= h THEN i - h ELSE (Capacity - h) + i
At(h, d) == IF h + d < Capacity THEN h + d ELSE h + d - Capacity
Queue(f, h, t) == [d \in 1..DistFrom(h, t) |-> f[At(h, d - 1)]]

LEMMA Modulo ==
  ASSUME NEW n \in Nat, n >= 1, NEW x \in Nat, NEW y \in Nat, x + y < n + n
  PROVE  (x + y) % n = IF x + y < n THEN x + y ELSE x + y - n
<1>1. CASE x + y < n
  BY <1>1
<1>2. CASE x + y >= n
  <2>1. x + y \in n..(2 * n - 1)
    BY <1>2
  <2> QED
    BY <1>2, <2>1
<1> QED
  BY <1>1, <1>2

LEMMA Steps ==
  ASSUME NEW i \in Slots
  PROVE  /\ Inc(i) = IF i = Capacity - 1 THEN 0 ELSE i + 1
         /\ Inc(i) \in Slots
         /\ Dec(Inc(i)) = i
<1>1. i \in Nat /\ i < Capacity /\ Capacity \in Nat /\ Capacity >= 2
  BY PoolAssumption DEF Slots
<1>2. (i + 1) % Capacity = IF i + 1 < Capacity THEN i + 1 ELSE i + 1 - Capacity
  <2>1. Capacity >= 1 /\ 1 \in Nat /\ i + 1 < Capacity + Capacity
    BY <1>1
  <2> QED
    BY <1>1, <2>1, Modulo, Zenon
<1> QED
  BY <1>1, <1>2 DEF Inc, Dec, Slots

LEMMA Geometry ==
  ASSUME NEW h \in Slots
  PROVE  /\ \A i \in Slots : /\ DistFrom(h, i) \in 0..(Capacity - 1)
                             /\ At(h, DistFrom(h, i)) = i
         /\ \A d \in 0..(Capacity - 1) : /\ At(h, d) \in Slots
                                         /\ DistFrom(h, At(h, d)) = d
                                         /\ (h + d) % Capacity = At(h, d)
<1>1. h \in Nat /\ h < Capacity /\ Capacity \in Nat /\ Capacity >= 2
  BY PoolAssumption DEF Slots
<1>2. \A d \in 0..(Capacity - 1) : (h + d) % Capacity = At(h, d)
  <2> TAKE d \in 0..(Capacity - 1)
  <2>1. d \in Nat /\ h + d < Capacity + Capacity /\ Capacity >= 1
    BY <1>1
  <2>2. (h + d) % Capacity = IF h + d < Capacity THEN h + d ELSE h + d - Capacity
    BY <1>1, <2>1, Modulo, Zenon
  <2> QED
    BY <2>2 DEF At
<1> QED
  BY <1>1, <1>2 DEF Slots, DistFrom, At

\* One slot further is one step further, all around the ring.
LEMMA IncDist ==
  ASSUME NEW h \in Slots, NEW i \in Slots
  PROVE  /\ DistFrom(h, Inc(i)) = IF DistFrom(h, i) = Capacity - 1 THEN 0 ELSE DistFrom(h, i) + 1
         /\ DistFrom(Inc(h), i) = IF DistFrom(h, i) = 0 THEN Capacity - 1 ELSE DistFrom(h, i) - 1
<1>1. h \in Nat /\ h < Capacity /\ i \in Nat /\ i < Capacity /\ Capacity \in Nat /\ Capacity >= 2
  BY PoolAssumption DEF Slots
<1> QED
  BY <1>1, Steps DEF DistFrom, Slots

LEMMA ContentsAre ==
  ASSUME head \in Slots, tail \in Slots
  PROVE  /\ Count = DistFrom(head, tail) /\ Count \in 0..(Capacity - 1)
         /\ \A i \in Slots : Dist(i) = DistFrom(head, i)
         /\ Contents = Queue(offsets, head, tail)
<1>1. /\ head \in Nat /\ head < Capacity /\ tail \in Nat /\ tail < Capacity
      /\ Capacity \in Nat /\ Capacity >= 2
  BY PoolAssumption DEF Slots
<1>2. Count = DistFrom(head, tail) /\ Count \in 0..(Capacity - 1)
  BY <1>1 DEF Count, DistFrom
<1>3. \A i \in Slots : Dist(i) = DistFrom(head, i)
  BY DEF Dist, DistFrom
<1>4. \A d \in 1..Count : (head + d - 1) % Capacity = At(head, d - 1)
  <2> TAKE d \in 1..Count
  <2>1. d - 1 \in 0..(Capacity - 1) /\ head + d - 1 = head + (d - 1)
    BY <1>1, <1>2
  <2> QED
    BY <2>1, Geometry
<1> QED
  BY <1>2, <1>3, <1>4 DEF Contents, Queue

LEMMA ContentsBecome ==
  ASSUME head' \in Slots, tail' \in Slots
  PROVE  /\ Count' = DistFrom(head', tail') /\ Count' \in 0..(Capacity - 1)
         /\ \A i \in Slots : Dist(i)' = DistFrom(head', i)
         /\ Contents' = Queue(offsets', head', tail')
<1> DEFINE h == head'
           t == tail'
           f == offsets'
<1>1. h \in Slots /\ t \in Slots /\ h \in Nat /\ h < Capacity
  BY PoolAssumption DEF Slots
<1>2. Count' = IF h = t THEN 0 ELSE IF h < t THEN t - h ELSE (Capacity - h) + t
  BY DEF Count
<1>3. Contents' = [d \in 1..Count' |-> f[(h + d - 1) % Capacity]]
  BY DEF Contents
<1>4. \A i \in Slots : Dist(i)' = IF i >= h THEN i - h ELSE (Capacity - h) + i
  BY DEF Dist
<1> HIDE DEF h, t, f
<1>5. Count' = DistFrom(h, t) /\ Count' \in 0..(Capacity - 1)
  BY <1>1, <1>2, PoolAssumption DEF Slots, DistFrom
<1>6. \A d \in 1..Count' : (h + d - 1) % Capacity = At(h, d - 1)
  <2> TAKE d \in 1..Count'
  <2>1. d - 1 \in 0..(Capacity - 1) /\ h + d - 1 = h + (d - 1)
    BY <1>1, <1>5, PoolAssumption
  <2> QED
    BY <1>1, <2>1, Geometry
<1>7. Contents' = Queue(f, h, t)
  BY <1>3, <1>5, <1>6 DEF Queue
<1>8. \A i \in Slots : Dist(i)' = DistFrom(h, i)
  BY <1>4 DEF DistFrom
<1> QED
  BY <1>5, <1>7, <1>8 DEF h, t, f

LEMMA AtSteps ==
  ASSUME NEW h \in Slots
  PROVE  /\ At(h, 0) = h
         /\ \A d \in 0..(Capacity - 2) : /\ At(Inc(h), d) = At(h, d + 1)
                                         /\ Inc(At(h, d)) = At(h, d + 1)
                                         /\ Dec(At(h, d + 1)) = At(h, d)
<1>1. h \in Nat /\ h < Capacity /\ Capacity \in Nat /\ Capacity >= 2
  BY PoolAssumption DEF Slots
<1>2. \A i \in Slots : Inc(i) = IF i = Capacity - 1 THEN 0 ELSE i + 1
  BY Steps
<1>3. \A d \in 0..(Capacity - 2) : At(h, d) \in Slots /\ At(h, d) \in Nat
  BY <1>1 DEF At, Slots
<1>4. \A d \in 0..(Capacity - 2) : Inc(At(h, d)) = At(h, d + 1)
  BY <1>1, <1>2, <1>3 DEF At
<1>5. \A d \in 0..(Capacity - 2) : At(Inc(h), d) = At(h, d + 1)
  BY <1>1, <1>2 DEF At
<1> QED
  BY <1>1, <1>4, <1>5 DEF At, Dec

LEMMA QueueType ==
  ASSUME NEW f \in [Slots -> Cells], NEW h \in Slots, NEW t \in Slots,
         \A i \in Slots : DistFrom(h, i) < DistFrom(h, t) => f[i] \in Objects
  PROVE  LET n == DistFrom(h, t)
             q == Queue(f, h, t)
         IN  /\ q \in Seq(Objects) /\ Len(q) = n /\ DOMAIN q = 1..n
             /\ n \in 0..(Capacity - 1)
             /\ \A d \in 1..n : At(h, d - 1) \in Slots /\ q[d] = f[At(h, d - 1)]
<1> DEFINE n == DistFrom(h, t)
           q == Queue(f, h, t)
<1>1. n \in 0..(Capacity - 1)
  BY Geometry
<1>2. \A d \in 1..n : d - 1 \in 0..(Capacity - 1) /\ d - 1 < n
  BY <1>1, PoolAssumption
<1>3. \A d \in 1..n : At(h, d - 1) \in Slots /\ DistFrom(h, At(h, d - 1)) = d - 1
  BY <1>2, Geometry
<1>4. \A d \in 1..n : f[At(h, d - 1)] \in Objects
  BY <1>2, <1>3
<1>5. q = [d \in 1..n |-> f[At(h, d - 1)]]
  BY DEF Queue
<1> HIDE DEF q, n
<1>6. q \in Seq(Objects) /\ Len(q) = n /\ DOMAIN q = 1..n
  BY <1>1, <1>4, <1>5
<1> QED
  BY <1>1, <1>3, <1>5, <1>6 DEF q, n

LEMMA QueuePush ==
  ASSUME NEW f \in [Slots -> Cells], NEW h \in Slots, NEW t \in Slots, NEW o \in Objects,
         \A i \in Slots : DistFrom(h, i) < DistFrom(h, t) => f[i] \in Objects,
         Inc(t) # h
  PROVE  LET g == [f EXCEPT ![t] = o]
         IN  /\ Queue(g, h, Inc(t)) = Append(Queue(f, h, t), o)
             /\ \A i \in Slots : DistFrom(h, i) < DistFrom(h, Inc(t)) => g[i] \in Objects
             /\ DistFrom(h, t) < Capacity - 1
<1> DEFINE n == DistFrom(h, t)
           g == [f EXCEPT ![t] = o]
           q == Queue(f, h, t)
           r == Queue(g, h, Inc(t))
<1>1. n \in 0..(Capacity - 1) /\ Inc(t) \in Slots /\ Capacity \in Nat /\ Capacity >= 2
  BY Geometry, Steps, PoolAssumption
<1>2. n # Capacity - 1
  <2>1. At(h, DistFrom(h, Inc(t))) = Inc(t) /\ At(h, 0) = h
    BY <1>1, Geometry, AtSteps
  <2> QED
    BY <2>1, IncDist
<1>3. DistFrom(h, Inc(t)) = n + 1
  BY <1>2, IncDist
<1>4. g \in [Slots -> Cells] /\ g[t] = o /\ \A i \in Slots \ {t} : g[i] = f[i]
  BY DEF Cells
<1>5. \A i \in Slots : DistFrom(h, i) \in Int /\ (DistFrom(h, i) = n => i = t)
  <2> TAKE i \in Slots
  <2>1. At(h, DistFrom(h, i)) = i /\ At(h, n) = t /\ DistFrom(h, i) \in Int
    BY Geometry
  <2> QED
    BY <2>1
<1>6. \A i \in Slots : DistFrom(h, i) < DistFrom(h, Inc(t)) => g[i] \in Objects
  BY <1>1, <1>3, <1>4, <1>5
<1>7. /\ q \in Seq(Objects) /\ Len(q) = n
      /\ \A d \in 1..n : At(h, d - 1) \in Slots /\ q[d] = f[At(h, d - 1)]
  BY QueueType
<1>8. /\ r \in Seq(Objects) /\ Len(r) = n + 1
      /\ \A d \in 1..(n + 1) : r[d] = g[At(h, d - 1)]
  <2> DEFINE u == Inc(t)
             m == DistFrom(h, u)
  <2>1. u \in Slots /\ \A i \in Slots : DistFrom(h, i) < m => g[i] \in Objects
    BY <1>1, <1>6
  <2> HIDE DEF g, u
  <2>2. LET p == Queue(g, h, u)
        IN  p \in Seq(Objects) /\ Len(p) = m /\ \A d \in 1..m : p[d] = g[At(h, d - 1)]
    <3>1. g \in [Slots -> Cells]
      BY <1>4
    <3>2. ASSUME NEW k \in [Slots -> Cells], NEW v \in Slots,
                 \A i \in Slots : DistFrom(h, i) < DistFrom(h, v) => k[i] \in Objects
          PROVE  LET p == Queue(k, h, v)
                 IN  /\ p \in Seq(Objects) /\ Len(p) = DistFrom(h, v)
                     /\ \A d \in 1..DistFrom(h, v) : p[d] = k[At(h, d - 1)]
      BY <3>2, QueueType
    <3> QED
      BY <2>1, <3>1, <3>2, Zenon
  <2> QED
    BY <1>3, <2>2 DEF u
<1>9. \A d \in 1..n : At(h, d - 1) # t
  <2> TAKE d \in 1..n
  <2>1. d - 1 \in 0..(Capacity - 1) /\ d - 1 # n
    BY <1>1
  <2>2. DistFrom(h, At(h, d - 1)) = d - 1
    BY <2>1, Geometry
  <2> QED
    BY <2>1, <2>2
<1>10. At(h, (n + 1) - 1) = t
  <2>1. (n + 1) - 1 = n
    BY <1>1
  <2> QED
    BY <2>1, Geometry
<1> HIDE DEF n, g, q, r
<1>11. r = Append(q, o)
  <2>1. \A d \in 1..n : r[d] = q[d]
    BY <1>1, <1>4, <1>7, <1>8, <1>9
  <2>2. r[n + 1] = o
    BY <1>1, <1>4, <1>8, <1>10
  <2>3. Append(q, o) \in Seq(Objects) /\ Len(Append(q, o)) = n + 1
        /\ \A d \in 1..(n + 1) : Append(q, o)[d] = r[d]
    BY <1>1, <1>7, <2>1, <2>2
  <2> QED
    BY <1>8, <2>3, SeqEqual
<1>12. n < Capacity - 1
  BY <1>1, <1>2
<1> QED
  BY <1>6, <1>11, <1>12 DEF n, g, q, r

LEMMA QueuePop ==
  ASSUME NEW f \in [Slots -> Cells], NEW h \in Slots, NEW t \in Slots, h # t,
         \A i \in Slots : DistFrom(h, i) < DistFrom(h, t) => f[i] \in Objects
  PROVE  /\ Queue(f, h, t) # <<>>
         /\ Queue(f, Inc(h), t) = Tail(Queue(f, h, t))
         /\ \A i \in Slots : DistFrom(Inc(h), i) < DistFrom(Inc(h), t) => f[i] \in Objects
<1> DEFINE n == DistFrom(h, t)
           q == Queue(f, h, t)
           r == Queue(f, Inc(h), t)
<1>1. n \in 0..(Capacity - 1) /\ Inc(h) \in Slots /\ Capacity \in Nat /\ Capacity >= 2
  BY Geometry, Steps, PoolAssumption
<1>2. n # 0
  <2>1. At(h, n) = t /\ At(h, 0) = h
    BY Geometry, AtSteps
  <2> QED
    BY <2>1
<1>3. DistFrom(Inc(h), t) = n - 1
  BY <1>2, IncDist
<1>4. \A i \in Slots : DistFrom(Inc(h), i) < n - 1 => DistFrom(h, i) < n
  <2> TAKE i \in Slots
  <2>1. DistFrom(h, i) \in 0..(Capacity - 1)
    BY Geometry
  <2>2. DistFrom(Inc(h), i) = IF DistFrom(h, i) = 0 THEN Capacity - 1 ELSE DistFrom(h, i) - 1
    BY IncDist
  <2> QED
    BY <1>1, <1>2, <2>1, <2>2
<1>5. \A i \in Slots : DistFrom(Inc(h), i) < DistFrom(Inc(h), t) => f[i] \in Objects
  BY <1>3, <1>4
<1>6. /\ q \in Seq(Objects) /\ Len(q) = n
      /\ \A d \in 1..n : q[d] = f[At(h, d - 1)]
  BY QueueType
<1>7. /\ r \in Seq(Objects) /\ Len(r) = n - 1
      /\ \A d \in 1..(n - 1) : r[d] = f[At(Inc(h), d - 1)]
  <2> DEFINE k == Inc(h)
             m == DistFrom(k, t)
  <2>1. k \in Slots /\ \A i \in Slots : DistFrom(k, i) < m => f[i] \in Objects
    BY <1>1, <1>5
  <2> HIDE DEF k
  <2>2. LET p == Queue(f, k, t)
        IN  p \in Seq(Objects) /\ Len(p) = m /\ \A d \in 1..m : p[d] = f[At(k, d - 1)]
    BY <2>1, QueueType
  <2> QED
    BY <1>3, <2>2 DEF k
<1>8. \A d \in 1..(n - 1) : At(Inc(h), d - 1) = At(h, (d + 1) - 1) /\ d + 1 \in 1..n
  <2> TAKE d \in 1..(n - 1)
  <2>1. d - 1 \in 0..(Capacity - 2) /\ (d - 1) + 1 = (d + 1) - 1 /\ d + 1 \in 1..n
    BY <1>1
  <2> QED
    BY <2>1, AtSteps
<1> HIDE DEF n, q, r
<1>9. q # <<>> /\ r = Tail(q)
  <2>1. q # <<>>
    BY <1>1, <1>2, <1>6
  <2>2. Tail(q) \in Seq(Objects) /\ Len(Tail(q)) = n - 1 /\ \A d \in 1..(n - 1) : Tail(q)[d] = q[d + 1]
    BY <1>1, <1>2, <1>6, <2>1
  <2>3. \A d \in 1..(n - 1) : r[d] = q[d + 1]
    BY <1>6, <1>7, <1>8
  <2> QED
    BY <1>7, <2>1, <2>2, <2>3, SeqEqual
<1> QED
  BY <1>5, <1>9 DEF n, q, r

\* A sequence without its element i.
CutOut(s, i) == SubSeq(s, 1, i - 1) \o SubSeq(s, i + 1, Len(s))

LEMMA CutOutElements ==
  ASSUME NEW T, NEW s \in Seq(T), NEW i \in 1..Len(s)
  PROVE  /\ CutOut(s, i) \in Seq(T)
         /\ Len(CutOut(s, i)) = Len(s) - 1
         /\ \A j \in 1..(Len(s) - 1) : CutOut(s, i)[j] = IF j < i THEN s[j] ELSE s[j + 1]
<1> DEFINE a == SubSeq(s, 1, i - 1)
           b == SubSeq(s, i + 1, Len(s))
<1>1. Len(s) \in Nat /\ i \in Nat /\ i >= 1 /\ i <= Len(s)
  OBVIOUS
<1>2. a \in Seq(T) /\ Len(a) = i - 1 /\ \A j \in 1..(i - 1) : a[j] = s[j]
  BY <1>1
<1>3. b \in Seq(T) /\ Len(b) = Len(s) - i /\ \A j \in 1..(Len(s) - i) : b[j] = s[i + j]
  BY <1>1
<1>4. CutOut(s, i) = a \o b
  BY DEF CutOut
<1> HIDE DEF a, b
<1>5. /\ a \o b \in Seq(T) /\ Len(a \o b) = Len(a) + Len(b)
      /\ \A j \in 1..(Len(a) + Len(b)) :
           (a \o b)[j] = IF j <= Len(a) THEN a[j] ELSE b[j - Len(a)]
  BY <1>2, <1>3, ConcatProperties, Zenon
<1>6. Len(a) + Len(b) = Len(s) - 1
  BY <1>1, <1>2, <1>3
<1>7. ASSUME NEW j \in 1..(Len(s) - 1)
      PROVE  (a \o b)[j] = IF j < i THEN s[j] ELSE s[j + 1]
  <2>1. CASE j < i
    BY <2>1, <1>1, <1>2, <1>5, <1>6
  <2>2. CASE ~(j < i)
    <3>1. j - Len(a) \in 1..(Len(s) - i) /\ ~(j <= Len(a)) /\ i + (j - Len(a)) = j + 1
      BY <2>2, <1>1, <1>2
    <3> QED
      BY <2>2, <3>1, <1>3, <1>5, <1>6
  <2> QED
    BY <2>1, <2>2
<1> QED
  BY <1>4, <1>5, <1>6, <1>7

\* The slots after the objects ahead of slot s have moved one slot back.
Shifted(f, h, s) == [i \in Slots |-> IF DistFrom(h, i) > 0 /\ DistFrom(h, i) <= DistFrom(h, s)
                                     THEN f[Dec(i)] ELSE f[i]]

LEMMA QueueRemove ==
  ASSUME NEW f \in [Slots -> Cells], NEW h \in Slots, NEW t \in Slots, NEW s \in Slots,
         DistFrom(h, s) < DistFrom(h, t),
         \A i \in Slots : DistFrom(h, i) < DistFrom(h, t) => f[i] \in Objects
  PROVE  /\ Shifted(f, h, s) \in [Slots -> Cells]
         /\ Queue(Shifted(f, h, s), Inc(h), t) = CutOut(Queue(f, h, t), DistFrom(h, s) + 1)
         /\ \A i \in Slots :
              DistFrom(Inc(h), i) < DistFrom(Inc(h), t) => Shifted(f, h, s)[i] \in Objects
<1> DEFINE n == DistFrom(h, t)
           g == Shifted(f, h, s)
           p == DistFrom(h, s) + 1
           q == Queue(f, h, t)
           k == Inc(h)
           r == Queue(g, k, t)
<1>1. /\ n \in 0..(Capacity - 1) /\ k \in Slots /\ Capacity \in Nat /\ Capacity >= 2
      /\ DistFrom(h, s) \in 0..(Capacity - 1)
  BY Geometry, Steps, PoolAssumption
<1>2. p \in 1..n
  BY <1>1
<1>3. DistFrom(k, t) = n - 1
  BY <1>1, <1>2, IncDist
\* What is now d steps behind the new head.
<1>4. \A d \in 1..(Capacity - 1) : /\ At(h, d) \in Slots /\ At(h, d - 1) \in Slots
                                   /\ DistFrom(h, At(h, d)) = d
                                   /\ Dec(At(h, d)) = At(h, d - 1)
                                   /\ At(k, d - 1) = At(h, d)
  <2> TAKE d \in 1..(Capacity - 1)
  <2>1. d \in 0..(Capacity - 1) /\ d - 1 \in 0..(Capacity - 1) /\ d - 1 \in 0..(Capacity - 2)
        /\ (d - 1) + 1 = d
    BY <1>1
  <2> QED
    BY <2>1, Geometry, AtSteps
<1>5. \A d \in 1..(Capacity - 1) : g[At(h, d)] = IF d < p THEN f[At(h, d - 1)] ELSE f[At(h, d)]
  <2> TAKE d \in 1..(Capacity - 1)
  <2>1. d > 0 /\ (d <= DistFrom(h, s) <=> d < p)
    BY <1>1
  <2> QED
    BY <1>4, <2>1 DEF Shifted
<1>6. g \in [Slots -> Cells]
  <2>1. \A i \in Slots : Dec(i) \in Slots
    BY <1>1 DEF Dec, Slots
  <2> QED
    BY <2>1 DEF Shifted
<1>7. /\ q \in Seq(Objects) /\ Len(q) = n
      /\ \A d \in 1..n : q[d] = f[At(h, d - 1)]
  BY QueueType
<1>8. \A d \in 1..(n - 1) : g[At(h, d)] = IF d < p THEN q[d] ELSE q[d + 1]
  <2> TAKE d \in 1..(n - 1)
  <2>1. d \in 1..(Capacity - 1) /\ d \in 1..n /\ d + 1 \in 1..n /\ (d + 1) - 1 = d
    BY <1>1
  <2> QED
    BY <1>5, <1>7, <2>1
<1>9. \A i \in Slots : DistFrom(k, i) < n - 1 => g[i] \in Objects
  <2> SUFFICES ASSUME NEW i \in Slots, DistFrom(k, i) < n - 1 PROVE g[i] \in Objects
    OBVIOUS
  <2> DEFINE d == DistFrom(h, i)
  <2>1. d \in 0..(Capacity - 1) /\ At(h, d) = i
    BY Geometry
  <2>2. DistFrom(k, i) = IF d = 0 THEN Capacity - 1 ELSE d - 1
    BY IncDist
  <2> HIDE DEF d
  <2>3. d \in 1..(n - 1) /\ d \in 1..n /\ d + 1 \in 1..n
    BY <1>1, <2>1, <2>2
  <2>4. q[d] \in Objects /\ q[d + 1] \in Objects
    BY <1>7, <2>3, ElementOfSeq
  <2> QED
    BY <1>8, <2>1, <2>3, <2>4
<1> HIDE DEF k, g
<1>10. /\ r \in Seq(Objects) /\ Len(r) = n - 1
       /\ \A d \in 1..(n - 1) : r[d] = g[At(k, d - 1)]
  <2> DEFINE m == DistFrom(k, t)
  <2>1. \A i \in Slots : DistFrom(k, i) < m => g[i] \in Objects
    BY <1>3, <1>9
  <2>2. LET u == Queue(g, k, t)
        IN  u \in Seq(Objects) /\ Len(u) = m /\ \A d \in 1..m : u[d] = g[At(k, d - 1)]
    <3>1. ASSUME NEW v \in [Slots -> Cells], NEW l \in Slots,
                 \A i \in Slots : DistFrom(l, i) < DistFrom(l, t) => v[i] \in Objects
          PROVE  LET u == Queue(v, l, t)
                 IN  /\ u \in Seq(Objects) /\ Len(u) = DistFrom(l, t)
                     /\ \A d \in 1..DistFrom(l, t) : u[d] = v[At(l, d - 1)]
      BY <3>1, QueueType
    <3> QED
      BY <1>1, <1>6, <2>1, <3>1, Zenon
  <2> QED
    BY <1>3, <2>2
<1> HIDE DEF n, p, q, r
<1>11. \A d \in 1..(n - 1) : r[d] = IF d < p THEN q[d] ELSE q[d + 1]
  <2> TAKE d \in 1..(n - 1)
  <2>1. d \in 1..(Capacity - 1)
    BY <1>1
  <2> QED
    BY <1>4, <1>8, <1>10, <2>1
<1>12. r = CutOut(q, p)
  <2>1. /\ CutOut(q, p) \in Seq(Objects)
        /\ Len(CutOut(q, p)) = n - 1
        /\ \A j \in 1..(n - 1) : CutOut(q, p)[j] = IF j < p THEN q[j] ELSE q[j + 1]
    BY <1>2, <1>7, CutOutElements
  <2> QED
    BY <1>10, <1>11, <2>1, SeqEqual
<1> QED
  BY <1>3, <1>6, <1>9, <1>12 DEF n, p, q, r, k, g
-----------------------------------------------------------------------------
(***************************************************************************)
(* The inductive invariant.  The occupied slots hold objects, each one     *)
(* once.  A scan has seen the first part of what was queued when it began, *)
(* and the rest is still queued, in order, behind the slot that the        *)
(* iterator stands on: Passed counts the queued objects up to that slot.   *)
(* The object it stands on is queued nowhere else, and the iterator is     *)
(* never beyond the queue.                                                 *)
(***************************************************************************)
RingInv ==
  /\ offsets \in [Slots -> Cells]
  /\ head \in Slots /\ tail \in Slots
  /\ \A i \in Slots : DistFrom(head, i) < DistFrom(head, tail) => offsets[i] \in Objects
  /\ \A d, e \in 1..Count : Contents[d] = Contents[e] => d = e

Passed == DistFrom(head, Inc(index))

ScanInv ==
  /\ index \in Slots \cup {None}
  /\ ret \in Objects \cup {None, 0, ENOSPC}
  /\ cur \in Objects \cup {None}
  /\ snap \in Seq(Objects) /\ seen \in Seq(Objects)
  /\ Len(seen) <= Len(snap)
  /\ \A j \in 1..Len(seen) : seen[j] = snap[j]
  /\ cur = None => Len(seen) = Len(snap)
  /\ cur # None => /\ index \in Slots /\ index # tail
                   /\ Passed <= Count
                   /\ Count - Passed = Len(snap) - Len(seen)
                   /\ \A j \in 1..(Count - Passed) :
                        Contents[Passed + j] = snap[Len(seen) + j]
                   /\ \A d \in 1..Count : Contents[d] = cur => d = Passed

PoolInv == RingInv /\ ScanInv

LEMMA RingFacts ==
  ASSUME RingInv
  PROVE  /\ Contents \in Seq(Objects) /\ Len(Contents) = Count /\ DOMAIN Contents = 1..Count
         /\ Count = DistFrom(head, tail) /\ Count \in 0..(Capacity - 1) /\ Count \in Nat
         /\ \A d \in 1..Count : /\ At(head, d - 1) \in Slots
                                /\ Dist(At(head, d - 1)) = d - 1
                                /\ Contents[d] = offsets[At(head, d - 1)]
         /\ \A i \in Slots : /\ Dist(i) = DistFrom(head, i) /\ Dist(i) \in Nat
                             /\ Occupied(i) => /\ Dist(i) + 1 \in 1..Count
                                               /\ Contents[Dist(i) + 1] = offsets[i]
         /\ \A o : InPool(o) <=> \E d \in 1..Count : Contents[d] = o
<1>1. /\ offsets \in [Slots -> Cells] /\ head \in Slots /\ tail \in Slots
      /\ \A i \in Slots : DistFrom(head, i) < DistFrom(head, tail) => offsets[i] \in Objects
  BY DEF RingInv
<1>2. /\ Count = DistFrom(head, tail) /\ Count \in 0..(Capacity - 1)
      /\ \A i \in Slots : Dist(i) = DistFrom(head, i)
      /\ Contents = Queue(offsets, head, tail)
  BY <1>1, ContentsAre
<1>3. /\ Contents \in Seq(Objects) /\ Len(Contents) = Count /\ DOMAIN Contents = 1..Count
      /\ \A d \in 1..Count : /\ At(head, d - 1) \in Slots
                             /\ Contents[d] = offsets[At(head, d - 1)]
  <2>1. LET n == DistFrom(head, tail)
            q == Queue(offsets, head, tail)
        IN  /\ q \in Seq(Objects) /\ Len(q) = n /\ DOMAIN q = 1..n
            /\ \A d \in 1..n : At(head, d - 1) \in Slots /\ q[d] = offsets[At(head, d - 1)]
    BY <1>1, QueueType
  <2> QED
    BY <1>2, <2>1
<1>4. Count \in Nat /\ \A d \in 1..Count : d - 1 \in 0..(Capacity - 1) /\ d - 1 < Count
  BY <1>2, PoolAssumption
<1>5. \A d \in 1..Count : Dist(At(head, d - 1)) = d - 1
  BY <1>1, <1>2, <1>3, <1>4, Geometry
<1>6. \A i \in Slots : /\ Dist(i) \in 0..(Capacity - 1) /\ Dist(i) \in Nat
                       /\ At(head, Dist(i)) = i
  BY <1>1, <1>2, Geometry, PoolAssumption
<1>7. ASSUME NEW i \in Slots, Occupied(i)
      PROVE  Dist(i) + 1 \in 1..Count /\ Contents[Dist(i) + 1] = offsets[i]
  <2>1. Dist(i) + 1 \in 1..Count /\ (Dist(i) + 1) - 1 = Dist(i)
    BY <1>4, <1>6, <1>7 DEF Occupied
  <2> QED
    BY <1>3, <1>6, <2>1
<1>8. ASSUME NEW d \in 1..Count PROVE Occupied(At(head, d - 1))
  BY <1>4, <1>5 DEF Occupied
<1>9. \A o : InPool(o) <=> \E d \in 1..Count : Contents[d] = o
  <2>1. ASSUME NEW o, NEW i \in Slots, Occupied(i), offsets[i] = o
        PROVE  \E d \in 1..Count : Contents[d] = o
    BY <1>7, <2>1, Zenon
  <2>2. ASSUME NEW o, NEW d \in 1..Count, Contents[d] = o
        PROVE  \E i \in Slots : Occupied(i) /\ offsets[i] = o
    BY <1>3, <1>8, <2>2, Zenon
  <2> QED
    BY <2>1, <2>2, Zenon DEF InPool
<1>10. \A i \in Slots : /\ Dist(i) = DistFrom(head, i) /\ Dist(i) \in Nat
                        /\ Occupied(i) => /\ Dist(i) + 1 \in 1..Count
                                          /\ Contents[Dist(i) + 1] = offsets[i]
  BY <1>2, <1>6, <1>7, Zenon
<1> QED
  BY <1>2, <1>3, <1>4, <1>5, <1>9, <1>10, Zenon

LEMMA InvImpliesTypeOK == PoolInv => TypeOK
  BY DEF PoolInv, RingInv, ScanInv, TypeOK, Cells

LEMMA InvImpliesNoDuplicates == PoolInv => NoDuplicates
<1> SUFFICES ASSUME RingInv, NEW i \in Slots, NEW j \in Slots,
                    Occupied(i), Occupied(j), offsets[i] = offsets[j]
             PROVE  i = j
  BY DEF PoolInv, NoDuplicates
<1>1. Dist(i) + 1 = Dist(j) + 1
  <2>1. /\ Dist(i) + 1 \in 1..Count /\ Contents[Dist(i) + 1] = offsets[i]
        /\ Dist(j) + 1 \in 1..Count /\ Contents[Dist(j) + 1] = offsets[j]
    BY RingFacts
  <2>2. \A d, e \in 1..Count : Contents[d] = Contents[e] => d = e
    BY DEF RingInv
  <2> QED
    BY <2>1, <2>2
<1>2. DistFrom(head, i) = DistFrom(head, j)
  BY <1>1, RingFacts
<1>3. head \in Slots
  BY DEF RingInv
<1> QED
  BY <1>2, <1>3, Geometry

LEMMA InvImpliesScan == PoolInv => ScanVisitsAll
<1> SUFFICES ASSUME ScanInv PROVE ScanVisitsAll
  BY DEF PoolInv
<1>1. /\ snap \in Seq(Objects) /\ seen \in Seq(Objects) /\ Len(seen) <= Len(snap)
      /\ \A j \in 1..Len(seen) : seen[j] = snap[j]
  BY DEF ScanInv
<1> DEFINE s == SubSeq(snap, 1, Len(seen))
<1>2. Len(seen) \in Nat /\ Len(snap) \in Nat
  BY <1>1
<1>3. s \in Seq(Objects) /\ Len(s) = Len(seen) /\ \A j \in 1..Len(seen) : s[j] = snap[j]
  BY <1>1, <1>2
<1> HIDE DEF s
<1>4. seen = s
  BY <1>1, <1>3, SeqEqual
<1>5. cur = None => seen = snap
  <2>1. cur = None => Len(seen) = Len(snap)
    BY DEF ScanInv
  <2> QED
    BY <1>1, <2>1, SeqEqual
<1> QED
  BY <1>1, <1>4, <1>5 DEF ScanVisitsAll, s
-----------------------------------------------------------------------------
(* What the operations do to the contents                                  *)

\* The steps of FifoPool, in which RingImplementsFifo is stated.
Change == \/ Contents' = Contents
          \/ Fifo!Reset \/ Fifo!Push \/ Fifo!Pop \/ Fifo!RemoveOne

LEMMA Become ==
  ASSUME offsets' \in [Slots -> Cells], head' \in Slots, tail' \in Slots,
         \A i \in Slots : DistFrom(head', i) < DistFrom(head', tail') => offsets'[i] \in Objects,
         NEW q \in Seq(Objects), Queue(offsets', head', tail') = q,
         \A d, e \in 1..Len(q) : q[d] = q[e] => d = e
  PROVE  RingInv' /\ Contents' = q /\ Count' = Len(q) /\ Count' = DistFrom(head', tail')
<1>1. Count' = DistFrom(head', tail') /\ Contents' = Queue(offsets', head', tail')
  BY ContentsBecome
<1>2. Contents' = q
  BY <1>1
<1>3. Len(Queue(offsets', head', tail')) = DistFrom(head', tail')
  <2> DEFINE f == offsets'
             h == head'
             t == tail'
  <2>1. /\ f \in [Slots -> Cells] /\ h \in Slots /\ t \in Slots
        /\ \A i \in Slots : DistFrom(h, i) < DistFrom(h, t) => f[i] \in Objects
    OBVIOUS
  <2> HIDE DEF f, h, t
  <2>2. Len(Queue(f, h, t)) = DistFrom(h, t)
    <3>1. ASSUME NEW v \in [Slots -> Cells], NEW k \in Slots, NEW l \in Slots,
                 \A i \in Slots : DistFrom(k, i) < DistFrom(k, l) => v[i] \in Objects
          PROVE  Len(Queue(v, k, l)) = DistFrom(k, l)
      BY <3>1, QueueType
    <3> QED
      BY <2>1, <3>1, Zenon
  <2> QED
    BY <2>2 DEF f, h, t
<1>4. Count' = Len(q)
  BY <1>1, <1>3
<1> QED
  BY <1>1, <1>2, <1>4 DEF RingInv

LEMMA EmptyRing ==
  ASSUME offsets' \in [Slots -> Cells], head' = 0, tail' = 0
  PROVE  RingInv' /\ Contents' = <<>>
<1>1. 0 \in Slots /\ DistFrom(0, 0) = 0
  BY PoolAssumption DEF Slots, DistFrom
<1>2. \A i \in Slots : ~(DistFrom(0, i) < DistFrom(0, 0))
  BY <1>1, Geometry, PoolAssumption
<1>3. <<>> \in Seq(Objects) /\ Len(<<>>) = 0 /\ Queue(offsets', 0, 0) = <<>>
  BY <1>1 DEF Queue
<1>4. \A d, e \in 1..Len(<<>>) : <<>>[d] = <<>>[e] => d = e
  OBVIOUS
<1> QED
  BY <1>1, <1>2, <1>3, <1>4, Become

LEMMA FullRing ==
  ASSUME RingInv, InitFull
  PROVE  RingInv' /\ Contents' = [i \in 1..(Capacity - 1) |-> i]
<1> DEFINE q == [i \in 1..(Capacity - 1) |-> i]
           f == [i \in Slots |-> IF i < Capacity - 1 THEN i + 1 ELSE offsets[i]]
           t == Capacity - 1
<1>1. /\ offsets \in [Slots -> Cells] /\ offsets' = f /\ head' = 0 /\ tail' = t
      /\ Capacity \in Nat /\ Capacity >= 2 /\ NumObjects >= Capacity - 1 /\ NumObjects \in Nat
  BY PoolAssumption DEF RingInv, InitFull
<1>2. 0 \in Slots /\ t \in Slots /\ DistFrom(0, t) = Capacity - 1
  BY <1>1 DEF Slots, DistFrom
<1>3. f \in [Slots -> Cells]
  BY <1>1 DEF Objects, Slots, Cells
<1>4. \A i \in Slots : DistFrom(0, i) < Capacity - 1 => f[i] \in Objects
  BY <1>1 DEF Slots, DistFrom, Objects
<1>5. q \in Seq(Objects) /\ Len(q) = Capacity - 1 /\ \A d \in 1..(Capacity - 1) : q[d] = d
  BY <1>1 DEF Objects
<1>6. Queue(f, 0, t) = q
  <2>1. \A d \in 1..(Capacity - 1) : f[At(0, d - 1)] = d
    BY <1>1 DEF At, Slots
  <2> HIDE DEF f, t
  <2> QED
    BY <1>2, <2>1 DEF Queue
<1> HIDE DEF q, f, t
<1>7. \A d, e \in 1..Len(q) : q[d] = q[e] => d = e
  BY <1>5
<1> QED
  BY <1>1, <1>2, <1>3, <1>4, <1>5, <1>6, <1>7, Become DEF q

LEMMA PushRing ==
  ASSUME RingInv, NEW o \in Objects, ~InPool(o), Inc(tail) # head,
         offsets' = [offsets EXCEPT ![tail] = o], tail' = Inc(tail), head' = head
  PROVE  RingInv' /\ Fifo!Push
<1> DEFINE q == Contents
<1>1. /\ offsets \in [Slots -> Cells] /\ head \in Slots /\ tail \in Slots
      /\ \A i \in Slots : DistFrom(head, i) < DistFrom(head, tail) => offsets[i] \in Objects
      /\ \A d, e \in 1..Count : q[d] = q[e] => d = e
  BY DEF RingInv
<1>2. /\ q \in Seq(Objects) /\ Len(q) = Count /\ Count = DistFrom(head, tail)
      /\ DOMAIN q = 1..Count /\ Count \in Nat /\ \A d \in 1..Count : q[d] # o
  BY RingFacts
<1>3. q = Queue(offsets, head, tail)
  BY <1>1, ContentsAre
<1>4. /\ Queue(offsets', head', tail') = Append(q, o)
      /\ \A i \in Slots : DistFrom(head', i) < DistFrom(head', tail') => offsets'[i] \in Objects
      /\ DistFrom(head, tail) < Capacity - 1
  <2>1. ASSUME NEW f \in [Slots -> Cells], NEW h \in Slots, NEW t \in Slots, Inc(t) # h,
               \A i \in Slots : DistFrom(h, i) < DistFrom(h, t) => f[i] \in Objects
        PROVE  /\ Queue([f EXCEPT ![t] = o], h, Inc(t)) = Append(Queue(f, h, t), o)
               /\ \A i \in Slots : DistFrom(h, i) < DistFrom(h, Inc(t))
                                   => [f EXCEPT ![t] = o][i] \in Objects
               /\ DistFrom(h, t) < Capacity - 1
    BY <2>1, QueuePush
  <2>2. /\ Queue([offsets EXCEPT ![tail] = o], head, Inc(tail)) = Append(Queue(offsets, head, tail), o)
        /\ \A i \in Slots : DistFrom(head, i) < DistFrom(head, Inc(tail))
                            => [offsets EXCEPT ![tail] = o][i] \in Objects
        /\ DistFrom(head, tail) < Capacity - 1
    BY <1>1, <2>1, Zenon
  <2> QED
    BY <1>3, <2>2, Zenon
<1>5. offsets' \in [Slots -> Cells] /\ head' \in Slots /\ tail' \in Slots
  BY <1>1, Steps DEF Cells
<1> HIDE DEF q
<1>6. Append(q, o) \in Seq(Objects) /\ Len(Append(q, o)) = Count + 1
  BY <1>2
<1>7. \A d, e \in 1..(Count + 1) : Append(q, o)[d] = Append(q, o)[e] => d = e
  <2>1. Append(q, o)[Count + 1] = o /\ \A d \in 1..Count : Append(q, o)[d] = q[d]
    BY <1>2
  <2>2. \A d \in 1..(Count + 1) : d \in 1..Count \/ d = Count + 1
    BY <1>2
  <2> QED
    BY <1>1, <1>2, <2>1, <2>2
<1>8. RingInv' /\ Contents' = Append(q, o)
  BY <1>4, <1>5, <1>6, <1>7, Become
<1>9. Fifo!Push
  <2>1. Len(q) < Capacity - 1
    BY <1>2, <1>4
  <2>2. o \in (1..NumObjects) \ Fifo!ToSet(q)
    BY <1>2 DEF Objects, Fifo!ToSet
  <2> QED
    BY <1>8, <2>1, <2>2 DEF Fifo!Push, q
<1> QED
  BY <1>8, <1>9

LEMMA PopRing ==
  ASSUME RingInv, head # tail, head' = Inc(head), UNCHANGED <<offsets, tail>>
  PROVE  RingInv' /\ Fifo!Pop
<1> DEFINE q == Contents
<1>1. /\ offsets \in [Slots -> Cells] /\ head \in Slots /\ tail \in Slots
      /\ \A i \in Slots : DistFrom(head, i) < DistFrom(head, tail) => offsets[i] \in Objects
      /\ \A d, e \in 1..Count : q[d] = q[e] => d = e
  BY DEF RingInv
<1>2. q \in Seq(Objects) /\ Len(q) = Count /\ Count \in Nat
  BY RingFacts
<1>3. q = Queue(offsets, head, tail)
  BY <1>1, ContentsAre
<1>4. /\ q # <<>> /\ Queue(offsets', head', tail') = Tail(q)
      /\ \A i \in Slots : DistFrom(head', i) < DistFrom(head', tail') => offsets'[i] \in Objects
  BY <1>1, <1>3, QueuePop
<1>5. offsets' \in [Slots -> Cells] /\ head' \in Slots /\ tail' \in Slots
  BY <1>1, Steps
<1> HIDE DEF q
<1>6. /\ Tail(q) \in Seq(Objects) /\ Len(Tail(q)) = Count - 1
      /\ \A d \in 1..(Count - 1) : Tail(q)[d] = q[d + 1] /\ d + 1 \in 1..Count
  BY <1>2, <1>4
<1>7. \A d, e \in 1..Len(Tail(q)) : Tail(q)[d] = Tail(q)[e] => d = e
  <2> SUFFICES ASSUME NEW d \in 1..(Count - 1), NEW e \in 1..(Count - 1), Tail(q)[d] = Tail(q)[e]
               PROVE  d = e
    BY <1>6
  <2>1. d + 1 = e + 1
    BY <1>1, <1>6
  <2> QED
    BY <1>2, <2>1
<1>8. RingInv' /\ Contents' = Tail(q)
  BY <1>4, <1>5, <1>6, <1>7, Become
<1> QED
  BY <1>4, <1>8 DEF Fifo!Pop, q

LEMMA RemoveRing ==
  ASSUME RingInv, NEW s \in Slots, Occupied(s), RemoveSlot(s)
  PROVE  /\ RingInv' /\ Fifo!RemoveOne
         /\ Dist(s) + 1 \in 1..Count
         /\ Contents' = CutOut(Contents, Dist(s) + 1)
         /\ Count' = Count - 1
         /\ ret' \in Objects \cup {0}
<1> DEFINE q == Contents
           p == Dist(s) + 1
<1>1. /\ offsets \in [Slots -> Cells] /\ head \in Slots /\ tail \in Slots
      /\ \A i \in Slots : DistFrom(head, i) < DistFrom(head, tail) => offsets[i] \in Objects
      /\ \A d, e \in 1..Count : q[d] = q[e] => d = e
  BY DEF RingInv
<1>2. /\ q \in Seq(Objects) /\ Len(q) = Count /\ Count = DistFrom(head, tail) /\ Count \in Nat
      /\ DOMAIN q = 1..Count
      /\ \A i \in Slots : Dist(i) = DistFrom(head, i)
      /\ p \in 1..Count /\ p = DistFrom(head, s) + 1
  BY RingFacts
<1>3. q = Queue(offsets, head, tail)
  BY <1>1, ContentsAre
<1>4. DistFrom(head, s) < DistFrom(head, tail)
  BY <1>2 DEF Occupied
<1>5. /\ offsets' = Shifted(offsets, head, s)
      /\ head' = Inc(head) /\ tail' = tail /\ ret' = offsets'[s]
  BY <1>2 DEF RemoveSlot, ShiftOut, Shifted
<1>6. /\ offsets' \in [Slots -> Cells]
      /\ Queue(offsets', Inc(head), tail) = CutOut(Queue(offsets, head, tail), DistFrom(head, s) + 1)
      /\ \A i \in Slots : DistFrom(Inc(head), i) < DistFrom(Inc(head), tail) => offsets'[i] \in Objects
  <2>1. /\ Shifted(offsets, head, s) \in [Slots -> Cells]
        /\ Queue(Shifted(offsets, head, s), Inc(head), tail)
             = CutOut(Queue(offsets, head, tail), DistFrom(head, s) + 1)
        /\ \A i \in Slots : DistFrom(Inc(head), i) < DistFrom(Inc(head), tail)
                            => Shifted(offsets, head, s)[i] \in Objects
    BY <1>1, <1>4, QueueRemove
  <2> QED
    BY <1>5, <2>1, Zenon
<1>7. head' \in Slots /\ tail' \in Slots
  BY <1>1, <1>5, Steps
<1> HIDE DEF q, p
<1>8. /\ CutOut(q, p) \in Seq(Objects) /\ Len(CutOut(q, p)) = Count - 1
      /\ \A j \in 1..(Count - 1) : CutOut(q, p)[j] = IF j < p THEN q[j] ELSE q[j + 1]
  BY <1>2, CutOutElements
<1>9. \A d, e \in 1..Len(CutOut(q, p)) : CutOut(q, p)[d] = CutOut(q, p)[e] => d = e
  <2> SUFFICES ASSUME NEW d \in 1..(Count - 1), NEW e \in 1..(Count - 1),
                      CutOut(q, p)[d] = CutOut(q, p)[e]
               PROVE  d = e
    BY <1>8
  <2>1. d \in 1..Count /\ d + 1 \in 1..Count /\ e \in 1..Count /\ e + 1 \in 1..Count
    BY <1>2
  <2> QED
    BY <1>1, <1>2, <1>8, <2>1
<1>10. Queue(offsets', head', tail') = CutOut(q, p)
  BY <1>2, <1>3, <1>5, <1>6
<1>11. RingInv' /\ Contents' = CutOut(q, p) /\ Count' = Count - 1
  BY <1>5, <1>6, <1>7, <1>8, <1>9, <1>10, Become
<1>12. Fifo!RemoveOne
  <2>1. Fifo!RemoveAt(q, p) = CutOut(q, p)
    BY DEF Fifo!RemoveAt, CutOut
  <2> QED
    BY <1>2, <1>11, <2>1 DEF Fifo!RemoveOne, q
<1>13. ret' \in Objects \cup {0}
  BY <1>5, <1>6 DEF Cells
<1> QED
  BY <1>2, <1>11, <1>12, <1>13 DEF q, p
-----------------------------------------------------------------------------
(* Every operation keeps the invariant and changes the contents as FifoPool *)
(* allows.                                                                 *)

LEMMA RingStays ==
  ASSUME RingInv, UNCHANGED ring
  PROVE  RingInv' /\ Contents' = Contents /\ Count' = Count
<1>1. UNCHANGED <<offsets, head, tail>>
  BY DEF ring
<1>2. Count' = Count
  BY <1>1 DEF Count
<1>3. Contents' = Contents
  BY <1>1, <1>2 DEF Contents
<1> QED
  BY <1>1, <1>2, <1>3 DEF RingInv

LEMMA NoScanKeeps ==
  ASSUME NoScan, index' \in Slots \cup {None}, ret' \in Objects \cup {None, 0, ENOSPC}
  PROVE  ScanInv'
<1>1. cur' = None /\ snap' = <<>> /\ seen' = <<>>
  BY DEF NoScan
<1>2. <<>> \in Seq(Objects) /\ Len(<<>>) = 0 /\ 1..0 = {}
  OBVIOUS
<1> QED
  BY <1>1, <1>2 DEF ScanInv

LEMMA HeadObject ==
  ASSUME RingInv, head # tail
  PROVE  Count >= 1 /\ offsets[head] \in Objects /\ Contents[1] = offsets[head]
<1>1. head \in Slots /\ tail \in Slots
  BY DEF RingInv
<1>2. Count # 0
  <2>1. At(head, DistFrom(head, tail)) = tail /\ At(head, 0) = head
    BY <1>1, Geometry, AtSteps
  <2> QED
    BY <1>1, <2>1, RingFacts
<1>3. Count \in Nat /\ 1 \in 1..Count /\ Contents \in Seq(Objects) /\ Len(Contents) = Count
  BY <1>2, RingFacts
<1>4. Contents[1] = offsets[head]
  <2>1. Contents[1] = offsets[At(head, 1 - 1)] /\ 1 - 1 = 0
    BY <1>3, RingFacts
  <2> QED
    BY <1>1, <2>1, AtSteps
<1> QED
  BY <1>3, <1>4, ElementOfSeq

LEMMA FirstKeeps ==
  ASSUME PoolInv, First
  PROVE  PoolInv' /\ Change
<1>1. RingInv /\ ScanInv /\ UNCHANGED ring
  BY DEF PoolInv, First
<1>2. RingInv' /\ Contents' = Contents /\ Count' = Count /\ head' = head /\ tail' = tail
  BY <1>1, RingStays DEF ring
<1>3. Contents \in Seq(Objects) /\ Len(Contents) = Count /\ Count \in Nat
  BY <1>1, RingFacts
<1>4. CASE head = tail
  <2>1. Count = 0
    BY <1>4 DEF Count
  <2>2. index' = None /\ ret' = None /\ cur' = None /\ snap' = Contents /\ seen' = <<>>
    BY <1>4 DEF First, IsEmpty
  <2>3. <<>> \in Seq(Objects) /\ Len(<<>>) = 0 /\ 1..0 = {}
    OBVIOUS
  <2>4. ScanInv'
    BY <1>3, <2>1, <2>2, <2>3 DEF ScanInv
  <2> QED
    BY <1>2, <2>4 DEF PoolInv, Change
<1>5. CASE head # tail
  <2> DEFINE o == offsets[head]
  <2>1. Count >= 1 /\ o \in Objects /\ Contents[1] = o
    BY <1>1, <1>5, HeadObject
  <2>2. index' = head /\ ret' = o /\ cur' = o /\ snap' = Contents /\ seen' = <<o>>
    BY <1>5 DEF First, IsEmpty
  <2>3. head \in Slots /\ tail \in Slots /\ Capacity \in Nat /\ Capacity >= 2
    BY <1>1, PoolAssumption DEF RingInv
  <2>4. DistFrom(head, Inc(head)) = 1
    <3>1. DistFrom(head, head) = 0
      BY <2>3 DEF DistFrom, Slots
    <3> QED
      BY <2>3, <3>1, IncDist
  <2>5. Passed' = 1
    BY <1>2, <2>2, <2>4 DEF Passed
  <2>6. \A d, e \in 1..Count : Contents[d] = Contents[e] => d = e
    BY <1>1 DEF RingInv
  <2> HIDE DEF o
  <2>7. <<o>> \in Seq(Objects) /\ Len(<<o>>) = 1 /\ <<o>>[1] = o
    BY <2>1
  <2>8. \A j \in 1..1 : <<o>>[j] = Contents[j]
    BY <2>1, <2>7
  <2>9. \A d \in 1..Count : Contents[d] = o => d = 1
    <3>1. 1 \in 1..Count
      BY <1>3, <2>1
    <3> QED
      BY <2>1, <2>6, <3>1
  <2>10. o # None
    BY <2>1, PoolAssumption DEF Objects, None
  <2>11. ScanInv'
    <3>1. /\ index' \in Slots \cup {None} /\ ret' \in Objects \cup {None, 0, ENOSPC}
          /\ cur' \in Objects \cup {None} /\ snap' \in Seq(Objects) /\ seen' \in Seq(Objects)
          /\ Len(seen') = 1 /\ Len(snap') = Count /\ index' \in Slots
          /\ index' # tail' /\ cur' # None
      BY <1>2, <1>3, <1>5, <2>1, <2>2, <2>3, <2>7, <2>10
    <3>2. \A j \in 1..Len(seen') : seen'[j] = snap'[j]
      BY <2>2, <2>7, <2>8
    <3>3. \A j \in 1..(Count' - Passed') : Contents'[Passed' + j] = snap'[Len(seen') + j]
      BY <1>2, <2>2, <2>5, <2>7
    <3>4. \A d \in 1..Count' : Contents'[d] = cur' => d = Passed'
      BY <1>2, <2>2, <2>5, <2>9
    <3>5. /\ Len(seen') <= Len(snap') /\ Passed' <= Count'
          /\ Count' - Passed' = Len(snap') - Len(seen')
      BY <1>2, <2>1, <2>5, <3>1
    <3> QED
      BY <3>1, <3>2, <3>3, <3>4, <3>5 DEF ScanInv
  <2> QED
    BY <1>2, <2>11 DEF PoolInv, Change
<1> QED
  BY <1>4, <1>5

\* What a scan that stands on an object knows.
LEMMA ScanFacts ==
  ASSUME PoolInv, cur > 0
  PROVE  /\ cur # None /\ cur \in Objects
         /\ index \in Slots /\ index # tail /\ Inc(index) \in Slots
         /\ head \in Slots /\ tail \in Slots
         /\ Passed = DistFrom(head, Inc(index)) /\ Passed \in Nat /\ Passed <= Count
         /\ (Passed = Count <=> Inc(index) = tail)
<1>1. RingInv /\ ScanInv /\ head \in Slots /\ tail \in Slots
  BY DEF PoolInv, RingInv
<1>2. cur # None /\ cur \in Objects
  <2>1. cur \in Objects \cup {None}
    BY <1>1 DEF ScanInv
  <2> QED
    BY <2>1 DEF None
<1>3. index \in Slots /\ index # tail /\ Passed <= Count
  BY <1>1, <1>2 DEF ScanInv
<1>4. Inc(index) \in Slots
  BY <1>3, Steps
<1>5. Passed = DistFrom(head, Inc(index)) /\ Passed \in Nat
  BY <1>1, <1>4, Geometry, PoolAssumption DEF Passed
<1>6. Passed = Count <=> Inc(index) = tail
  <2>1. Count = DistFrom(head, tail)
    BY <1>1, RingFacts
  <2>2. /\ At(head, DistFrom(head, tail)) = tail
        /\ At(head, DistFrom(head, Inc(index))) = Inc(index)
    BY <1>1, <1>4, Geometry
  <2> QED
    BY <1>5, <2>1, <2>2
<1> QED
  BY <1>1, <1>2, <1>3, <1>4, <1>5, <1>6

LEMMA NextKeeps ==
  ASSUME PoolInv, NextObject
  PROVE  PoolInv' /\ Change
<1> DEFINE i == Inc(index)
           n == Passed
           m == Len(seen)
<1>1. RingInv /\ ScanInv /\ UNCHANGED ring /\ snap' = snap /\ cur > 0
  BY DEF PoolInv, NextObject
<1>2. RingInv' /\ Contents' = Contents /\ Count' = Count /\ head' = head /\ tail' = tail
  BY <1>1, RingStays DEF ring
<1>3. /\ cur # None /\ index \in Slots /\ index # tail /\ i \in Slots /\ head \in Slots
      /\ tail \in Slots /\ n = DistFrom(head, i) /\ n \in Nat /\ n <= Count
      /\ (n = Count <=> i = tail)
  BY <1>1, ScanFacts
<1>4. /\ Contents \in Seq(Objects) /\ Len(Contents) = Count /\ Count \in Nat
      /\ Count \in 0..(Capacity - 1) /\ Capacity \in Nat
  BY <1>1, RingFacts, PoolAssumption
<1>5. /\ snap \in Seq(Objects) /\ seen \in Seq(Objects) /\ m \in Nat /\ Len(snap) \in Nat
      /\ m <= Len(snap) /\ \A j \in 1..m : seen[j] = snap[j]
      /\ Count - n = Len(snap) - m
      /\ \A j \in 1..(Count - n) : Contents[n + j] = snap[m + j]
  BY <1>1, <1>3 DEF ScanInv
<1>6. i # None /\ index # None
  BY <1>3, PoolAssumption DEF Slots, None
<1>7. index' = i
  BY <1>3, <1>6 DEF NextObject, AdvanceIndex
<1>8. CASE i = tail
  <2>1. ret' = None /\ cur' = None /\ seen' = seen
    BY <1>7, <1>8 DEF NextObject
  <2>2. Len(seen) = Len(snap)
    BY <1>3, <1>5, <1>8
  <2>3. ScanInv'
    BY <1>1, <1>3, <1>5, <1>7, <2>1, <2>2 DEF ScanInv
  <2> QED
    BY <1>2, <2>3 DEF PoolInv, Change
<1>9. CASE i # tail
  <2> DEFINE o == offsets[i]
  <2>1. n + 1 \in 1..Count /\ n # Count
    BY <1>3, <1>4, <1>9
  <2>2. ret' = o /\ cur' = o
    BY <1>6, <1>7, <1>9 DEF NextObject
  <2>3. Contents[n + 1] = o
    <3>1. Occupied(i) /\ Dist(i) = n
      <4>1. Dist(i) = n
        BY <1>1, <1>3, RingFacts
      <4> QED
        BY <1>3, <1>4, <2>1, <4>1 DEF Occupied
    <3> QED
      BY <1>1, <1>3, <3>1, RingFacts
  <2>4. o \in Objects
    BY <1>4, <2>1, <2>3, ElementOfSeq
  <2> HIDE DEF o
  <2>5. o # None
    BY <2>4, PoolAssumption DEF Objects, None
  <2>6. seen' = Append(seen, o)
    BY <2>2, <2>5 DEF NextObject
  <2>7. snap[m + 1] = o
    <3>1. 1 \in 1..(Count - n)
      BY <1>3, <1>4, <2>1
    <3> QED
      BY <1>5, <2>3, <3>1
  <2>8. Passed' = n + 1
    <3>1. DistFrom(head, Inc(i)) = n + 1
      <4>1. n # Capacity - 1
        BY <1>3, <1>4, <2>1
      <4> QED
        BY <1>3, <4>1, IncDist
    <3> QED
      BY <1>2, <1>7, <3>1 DEF Passed
  <2> HIDE DEF i, n, m
  <2>9. /\ seen' \in Seq(Objects) /\ Len(seen') = m + 1
        /\ seen'[m + 1] = o /\ \A j \in 1..m : seen'[j] = seen[j]
    BY <1>5, <2>4, <2>6 DEF m
  <2>10. \A j \in 1..Len(seen') : seen'[j] = snap'[j]
    <3>1. \A j \in 1..(m + 1) : j \in 1..m \/ j = m + 1
      BY <1>5
    <3> QED
      BY <1>1, <1>5, <2>7, <2>9, <3>1
  <2>11. \A j \in 1..(Count' - Passed') : Contents'[Passed' + j] = snap'[Len(seen') + j]
    <3> SUFFICES ASSUME NEW j \in 1..(Count - (n + 1))
                 PROVE  Contents[(n + 1) + j] = snap[(m + 1) + j]
      BY <1>1, <1>2, <2>8, <2>9
    <3>1. n \in Int /\ m \in Int /\ Count \in Int
      BY <1>3, <1>4, <1>5
    <3>2. /\ j + 1 \in 1..(Count - n) /\ (n + 1) + j = n + (j + 1)
          /\ (m + 1) + j = m + (j + 1)
      BY <3>1
    <3> QED
      BY <1>5, <3>2
  <2>12. \A d \in 1..Count' : Contents'[d] = cur' => d = Passed'
    <3>1. \A d, e \in 1..Count : Contents[d] = Contents[e] => d = e
      BY <1>1 DEF RingInv
    <3> QED
      BY <1>2, <2>1, <2>2, <2>3, <2>8, <3>1
  <2>13. /\ Len(seen') <= Len(snap') /\ Passed' <= Count'
         /\ Count' - Passed' = Len(snap') - Len(seen')
    <3>1. Count' = Count /\ snap' = snap
      BY <1>1, <1>2
    <3>2. n \in Int /\ m \in Int /\ Count \in Int /\ Len(snap) \in Int
      BY <1>3, <1>4, <1>5
    <3>3. m + 1 <= Len(snap) /\ n + 1 <= Count /\ Count - (n + 1) = Len(snap) - (m + 1)
      BY <1>4, <1>5, <2>1, <3>2
    <3> QED
      BY <2>8, <2>9, <3>1, <3>3
  <2>14. /\ index' \in Slots /\ index' # tail' /\ cur' # None /\ cur' \in Objects
         /\ ret' \in Objects /\ snap' \in Seq(Objects)
    BY <1>1, <1>2, <1>3, <1>5, <1>7, <1>9, <2>2, <2>4, <2>5
  <2>15. ScanInv'
    BY <2>9, <2>10, <2>11, <2>12, <2>13, <2>14 DEF ScanInv
  <2> QED
    BY <1>2, <2>15 DEF PoolInv, Change
<1> QED
  BY <1>8, <1>9

LEMMA RemoveKeeps ==
  ASSUME PoolInv, Remove
  PROVE  PoolInv' /\ Change
<1> DEFINE n == Passed
           q == Contents
<1>1. /\ RingInv /\ ScanInv /\ cur > 0 /\ InPool(cur) /\ RemoveSlot(index)
      /\ index' = index /\ cur' = cur /\ snap' = snap /\ seen' = seen
  BY DEF PoolInv, Remove, scan
<1>2. /\ cur # None /\ cur \in Objects /\ index \in Slots /\ index # tail
      /\ Inc(index) \in Slots /\ head \in Slots
      /\ n = DistFrom(head, Inc(index)) /\ n \in Nat /\ n <= Count
  BY <1>1, ScanFacts
<1>3. /\ q \in Seq(Objects) /\ Len(q) = Count /\ Count \in Nat
      /\ Count \in 0..(Capacity - 1) /\ Capacity \in Nat
      /\ Dist(index) = DistFrom(head, index) /\ Dist(index) \in Nat
  BY <1>1, <1>2, RingFacts, PoolAssumption
<1>4. /\ Count - n = Len(snap) - Len(seen)
      /\ \A j \in 1..(Count - n) : q[n + j] = snap[Len(seen) + j]
      /\ \A d \in 1..Count : q[d] = cur => d = n
  BY <1>1, <1>2 DEF ScanInv
<1>5. n \in 1..Count
  BY <1>1, <1>4, RingFacts
<1>6. Dist(index) + 1 = n
  <2>1. DistFrom(head, index) # Capacity - 1
    BY <1>2, <1>5, IncDist
  <2> QED
    BY <1>2, <1>3, <2>1, IncDist
<1>7. Occupied(index)
  BY <1>3, <1>5, <1>6 DEF Occupied
<1>8. /\ RingInv' /\ Fifo!RemoveOne /\ Contents' = CutOut(q, n) /\ Count' = Count - 1
      /\ ret' \in Objects \cup {0}
  BY <1>1, <1>2, <1>6, <1>7, RemoveRing
<1>9. Passed' = n - 1
  <2>1. DistFrom(Inc(head), Inc(index)) = n - 1
    BY <1>2, <1>5, IncDist
  <2>2. head' = Inc(head) /\ index' = index
    BY <1>1 DEF RemoveSlot
  <2> QED
    BY <2>1, <2>2, Zenon DEF Passed
<1> HIDE DEF n, q
<1>10. \A j \in 1..(Count - 1) : CutOut(q, n)[j] = IF j < n THEN q[j] ELSE q[j + 1]
  BY <1>3, <1>5, CutOutElements
<1>11. \A j \in 1..(Count' - Passed') : Contents'[Passed' + j] = snap'[Len(seen') + j]
  <2> SUFFICES ASSUME NEW j \in 1..(Count - n)
               PROVE  CutOut(q, n)[(n - 1) + j] = snap[Len(seen) + j]
    <3>1. Count' - Passed' = Count - n
      BY <1>3, <1>5, <1>8, <1>9
    <3> QED
      BY <1>1, <1>8, <1>9, <3>1
  <2>1. /\ (n - 1) + j \in 1..(Count - 1) /\ ~((n - 1) + j < n) /\ ((n - 1) + j) + 1 = n + j
    BY <1>3, <1>5
  <2> QED
    BY <1>4, <1>10, <2>1
<1>12. \A d \in 1..Count' : Contents'[d] # cur'
  <2> SUFFICES ASSUME NEW d \in 1..(Count - 1), CutOut(q, n)[d] = cur PROVE FALSE
    BY <1>1, <1>8
  <2>1. d \in 1..Count /\ d + 1 \in 1..Count /\ d \in Nat
    BY <1>3
  <2>2. CASE d < n
    BY <1>4, <1>5, <1>10, <2>1, <2>2
  <2>3. CASE ~(d < n)
    BY <1>4, <1>5, <1>10, <2>1, <2>3
  <2> QED
    BY <2>2, <2>3
<1>13. Passed' <= Count' /\ Count' - Passed' = Len(snap') - Len(seen')
  BY <1>1, <1>2, <1>3, <1>4, <1>5, <1>8, <1>9
<1>14. index' # tail' /\ index' \in Slots
  BY <1>1, <1>2 DEF RemoveSlot
<1>15. /\ snap' \in Seq(Objects) /\ seen' \in Seq(Objects) /\ Len(seen') <= Len(snap')
       /\ \A j \in 1..Len(seen') : seen'[j] = snap'[j]
  BY <1>1 DEF ScanInv
<1>16. ScanInv'
  BY <1>1, <1>2, <1>8, <1>11, <1>12, <1>13, <1>14, <1>15 DEF ScanInv
<1> QED
  BY <1>8, <1>16 DEF PoolInv, Change

LEMMA OthersKeep ==
  ASSUME PoolInv, InitEmpty \/ InitFull \/ Alloc \/ StopScan
  PROVE  PoolInv' /\ Change
<1>1. /\ RingInv /\ ScanInv /\ index \in Slots \cup {None}
      /\ ret \in Objects \cup {None, 0, ENOSPC} /\ offsets \in [Slots -> Cells]
  BY DEF PoolInv, RingInv, ScanInv
<1>2. CASE InitEmpty
  <2>1. ScanInv'
    BY <1>1, <1>2, NoScanKeeps DEF InitEmpty
  <2>2. RingInv' /\ Contents' = <<>>
    BY <1>1, <1>2, EmptyRing DEF InitEmpty
  <2> QED
    BY <2>1, <2>2 DEF PoolInv, Change, Fifo!Reset
<1>3. CASE InitFull
  <2>1. ScanInv'
    BY <1>1, <1>3, NoScanKeeps DEF InitFull
  <2>2. RingInv' /\ Contents' = [i \in 1..(Capacity - 1) |-> i]
    BY <1>1, <1>3, FullRing
  <2> QED
    BY <2>1, <2>2 DEF PoolInv, Change, Fifo!Reset
<1>4. CASE Alloc
  <2>1. CASE head = tail
    <3>1. UNCHANGED ring /\ ret' = None /\ NoScan /\ index' = index
      BY <1>4, <2>1 DEF Alloc, IsEmpty, ring
    <3> QED
      BY <1>1, <3>1, RingStays, NoScanKeeps DEF PoolInv, Change
  <2>2. CASE head # tail
    <3>1. /\ head' = Inc(head) /\ UNCHANGED <<offsets, tail>> /\ ret' = offsets[head]
          /\ NoScan /\ index' = index
      BY <1>4, <2>2 DEF Alloc, IsEmpty
    <3>2. ret' \in Objects \cup {None, 0, ENOSPC}
      BY <1>1, <2>2, <3>1, HeadObject
    <3>3. RingInv' /\ Fifo!Pop
      BY <1>1, <2>2, <3>1, PopRing
    <3>4. ScanInv'
      BY <1>1, <3>1, <3>2, NoScanKeeps
    <3> QED
      BY <3>3, <3>4 DEF PoolInv, Change
  <2> QED
    BY <2>1, <2>2
<1>5. CASE StopScan
  <2>1. UNCHANGED ring /\ NoScan /\ index' = index /\ ret' = ret
    BY <1>5 DEF StopScan
  <2> QED
    BY <1>1, <2>1, RingStays, NoScanKeeps DEF PoolInv, Change
<1> QED
  BY <1>2, <1>3, <1>4, <1>5

LEMMA PushKeeps ==
  ASSUME PoolInv, NEW o \in Objects, Push(o)
  PROVE  PoolInv' /\ Change
<1>1. RingInv /\ ScanInv /\ index \in Slots \cup {None}
  BY DEF PoolInv, ScanInv
<1>2. NoScan /\ index' = index /\ ~InPool(o) /\ ret' \in {0, ENOSPC}
  BY DEF Push
<1>3. ScanInv'
  BY <1>1, <1>2, NoScanKeeps
<1>4. CASE Inc(tail) = head
  BY <1>1, <1>3, <1>4, RingStays DEF Push, PoolInv, Change
<1>5. CASE Inc(tail) # head
  BY <1>1, <1>2, <1>3, <1>5, PushRing DEF Push, PoolInv, Change
<1> QED
  BY <1>4, <1>5

LEMMA RemoveByKeeps ==
  ASSUME PoolInv, NEW o \in Objects, RemoveBy(o)
  PROVE  PoolInv' /\ Change
<1>1. RingInv /\ tail \in Slots
  BY DEF PoolInv, RingInv
<1>2. NoScan
  BY DEF RemoveBy
<1>3. ASSUME NEW s \in Slots, Occupied(s), index' = s, RemoveSlot(s)
      PROVE  PoolInv' /\ Change
  <2>1. RingInv' /\ Fifo!RemoveOne /\ ret' \in Objects \cup {0}
    BY <1>1, <1>3, RemoveRing
  <2>2. ScanInv'
    BY <1>2, <1>3, <2>1, NoScanKeeps
  <2> QED
    BY <2>1, <2>2 DEF PoolInv, Change
<1>4. CASE UNCHANGED ring /\ ret' = None /\ index' \in {None, tail}
  <2>1. ScanInv'
    BY <1>1, <1>2, <1>4, NoScanKeeps
  <2> QED
    BY <1>1, <1>4, <2>1, RingStays DEF PoolInv, Change
<1> QED
  BY <1>3, <1>4 DEF RemoveBy

LEMMA PoolStep ==
  ASSUME PoolInv, Next
  PROVE  PoolInv' /\ Change
  BY OthersKeep, PushKeeps, RemoveByKeeps, FirstKeeps, NextKeeps, RemoveKeeps DEF Next

LEMMA PoolStutter ==
  ASSUME PoolInv, UNCHANGED vars
  PROVE  PoolInv' /\ Change
<1>1. RingInv /\ ScanInv /\ UNCHANGED ring /\ UNCHANGED <<index, ret, cur, snap, seen>>
  BY DEF PoolInv, vars, scan
<1>2. RingInv' /\ Contents' = Contents /\ Count' = Count
  BY <1>1, RingStays
<1>3. Passed' = Passed
  BY <1>1 DEF Passed, ring
<1>4. ScanInv'
  BY <1>1, <1>2, <1>3 DEF ScanInv, ring
<1> QED
  BY <1>2, <1>4 DEF PoolInv, Change

LEMMA PoolInit ==
  ASSUME Init
  PROVE  PoolInv /\ Contents = <<>>
<1>1. /\ offsets = [i \in Slots |-> 0] /\ head = 0 /\ tail = 0 /\ index = None /\ ret = 0
      /\ cur = None /\ snap = <<>> /\ seen = <<>>
  BY DEF Init
<1>2. 0 \in Slots /\ DistFrom(0, 0) = 0 /\ \A i \in Slots : ~(DistFrom(0, i) < 0)
  BY PoolAssumption DEF Slots, DistFrom
<1>3. Count = 0
  BY <1>1 DEF Count
<1>4. RingInv
  BY <1>1, <1>2, <1>3 DEF RingInv, Cells
<1>5. <<>> \in Seq(Objects) /\ Len(<<>>) = 0 /\ 1..0 = {}
  OBVIOUS
<1>6. ScanInv
  BY <1>1, <1>5 DEF ScanInv
<1>7. Contents = <<>>
  BY <1>3, <1>5 DEF Contents
<1> QED
  BY <1>4, <1>6, <1>7 DEF PoolInv

LEMMA PoolInvariant == Spec => []PoolInv
<1>1. Init => PoolInv
  BY PoolInit
<1>2. PoolInv /\ [Next]_vars => PoolInv'
  BY PoolStep, PoolStutter
<1> QED
  BY <1>1, <1>2, PTL DEF Spec
-----------------------------------------------------------------------------
(* The theorems                                                            *)

\* The ring, the iterator and the returned offsets stay within their ranges,
\* for a queue of any capacity: shm_object_pool_next and remove never index
\* op->offsets outside the array.
THEOREM TypeCorrect == Spec => []TypeOK
<1>1. PoolInv => TypeOK
  BY InvImpliesTypeOK
<1> QED
  BY <1>1, PoolInvariant, PTL

\* No striping allocator is ever queued twice, for a queue of any capacity and
\* any order of pushes, pops, removals by offset and removals inside a scan.
THEOREM NeverTwice == Spec => []NoDuplicates
<1>1. PoolInv => NoDuplicates
  BY InvImpliesNoDuplicates
<1> QED
  BY <1>1, PoolInvariant, PTL

\* A scan of shm_object_pool_first and shm_object_pool_next that removes some
\* of the objects it stands on visits the whole queue in order, whatever the
\* capacity and wherever the ring wraps.
THEOREM ScanComplete == Spec => []ScanVisitsAll
<1>1. PoolInv => ScanVisitsAll
  BY InvImpliesScan
<1> QED
  BY <1>1, PoolInvariant, PTL

\* The ring implements the queue of the header: read from head to tail, every
\* operation is a reset, a push at the tail, a pop at the head, a removal that
\* keeps the order of the others, or no change.
THEOREM RingRefinesFifo == Spec => RingImplementsFifo
<1>1. Init => Contents = <<>>
  BY PoolInit
<1>2. PoolInv /\ [Next]_vars => [Fifo!Reset \/ Fifo!Push \/ Fifo!Pop \/ Fifo!RemoveOne]_Contents
  BY PoolStep, PoolStutter DEF Change
<1> QED
  BY <1>1, <1>2, PoolInvariant, PTL DEF Spec, RingImplementsFifo, Fifo!Spec
=============================================================================
