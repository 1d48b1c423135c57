--------------------------- MODULE ShmTableProofs ---------------------------
(***************************************************************************)
(* Proofs about ShmTable, for every set of keys and buckets, any number of *)
(* cells and readers, and every configuration.                             *)
(***************************************************************************)
EXTENDS ShmTable, FiniteSetTheorems, FunctionTheorems, NaturalsInduction,
        SequenceTheorems, WellFoundedInduction, TLAPS
-----------------------------------------------------------------------------
(* What can be reached by a link                                           *)

IsLink(f) == \A c \in Cells : f[c] \in Cells \cup {Nil}

\* A set of cells that no link leads out of.
Closed(f, T) == \A c \in T : f[c] \in T \cup {Nil}

\* The cells that a walk along f meets when it begins at h.
Reach(f, h) == {x \in Cells : \A T \in SUBSET Cells : h \in T \cup {Nil} /\ Closed(f, T) => x \in T}

\* The walk passes each cell once, from one cell only, and comes to an end.
Line(f, h) ==
  /\ \A p \in Reach(f, h) : f[p] # h
  /\ \A p, q \in Reach(f, h) : f[p] = f[q] => p = q
  /\ Reach(f, h) # {} => \E p \in Reach(f, h) : f[p] = Nil

LEMMA NilIsNoCell == Nil \notin Cells
BY DEF Nil, Cells

LEMMA ReachClosed ==
  ASSUME NEW f, IsLink(f), NEW h \in Cells \cup {Nil}
  PROVE  /\ Reach(f, h) \subseteq Cells
         /\ Closed(f, Reach(f, h))
         /\ h \in Reach(f, h) \cup {Nil}
BY DEF Reach, Closed, IsLink

LEMMA ReachLeast ==
  ASSUME NEW f, NEW h, NEW T \in SUBSET Cells, Closed(f, T), h \in T \cup {Nil}
  PROVE  Reach(f, h) \subseteq T
BY DEF Reach

LEMMA ReachNone ==
  ASSUME NEW f
  PROVE  Reach(f, Nil) = {} /\ Line(f, Nil)
<1>1. Closed(f, {})
  BY DEF Closed
<1>2. Reach(f, Nil) = {}
  BY <1>1, ReachLeast
<1> QED
  BY <1>2 DEF Line

\* Whatever is reached is the first or comes after another one.
LEMMA ReachPrevious ==
  ASSUME NEW f, IsLink(f), NEW h \in Cells \cup {Nil}, NEW x \in Reach(f, h), x # h
  PROVE  \E p \in Reach(f, h) : f[p] = x
<1> SUFFICES ASSUME \A p \in Reach(f, h) : f[p] # x PROVE FALSE
  OBVIOUS
<1> DEFINE T == Reach(f, h) \ {x}
<1>1. Reach(f, h) \subseteq Cells /\ Closed(f, Reach(f, h)) /\ h \in Reach(f, h) \cup {Nil}
  BY ReachClosed
<1>2. T \in SUBSET Cells /\ Closed(f, T) /\ h \in T \cup {Nil}
  BY <1>1 DEF Closed
<1> HIDE DEF T
<1>3. Reach(f, h) \subseteq T
  BY <1>2, ReachLeast
<1> QED
  BY <1>3 DEF T

LEMMA ReachWithin ==
  ASSUME NEW f, NEW g, IsLink(f), NEW h \in Cells \cup {Nil},
         \A c \in Reach(f, h) : g[c] \in Reach(f, h) \cup {Nil}
  PROVE  Reach(g, h) \subseteq Reach(f, h)
<1>1. Reach(f, h) \in SUBSET Cells /\ h \in Reach(f, h) \cup {Nil}
  BY ReachClosed
<1>2. Closed(g, Reach(f, h))
  BY DEF Closed
<1> QED
  BY <1>1, <1>2, ReachLeast

\* Links elsewhere do not matter.
LEMMA ReachSame ==
  ASSUME NEW f, NEW g, IsLink(f), IsLink(g), NEW h \in Cells \cup {Nil},
         \A c \in Reach(f, h) : g[c] = f[c]
  PROVE  Reach(g, h) = Reach(f, h) /\ (Line(f, h) => Line(g, h))
<1>1. Closed(f, Reach(f, h))
  BY ReachClosed
<1>2. Reach(g, h) \subseteq Reach(f, h)
  BY <1>1, ReachWithin DEF Closed
<1>3. Closed(g, Reach(g, h))
  BY ReachClosed
<1>4. Reach(f, h) \subseteq Reach(g, h)
  BY <1>2, <1>3, ReachWithin DEF Closed
<1>5. Reach(g, h) = Reach(f, h)
  BY <1>2, <1>4
<1> QED
  BY <1>5 DEF Line

LEMMA LineNoLoop ==
  ASSUME NEW f, IsLink(f), NEW h \in Cells \cup {Nil}, Line(f, h), NEW c \in Reach(f, h)
  PROVE  f[c] # c
<1> SUFFICES ASSUME f[c] = c PROVE FALSE
  OBVIOUS
<1> DEFINE T == Reach(f, h) \ {c}
<1>1. Reach(f, h) \subseteq Cells /\ Closed(f, Reach(f, h)) /\ h \in Reach(f, h) \cup {Nil}
  BY ReachClosed
<1>2. h # c /\ \A p \in T : f[p] # c
  BY DEF Line
<1>3. T \in SUBSET Cells /\ Closed(f, T) /\ h \in T \cup {Nil}
  BY <1>1, <1>2 DEF Closed
<1> HIDE DEF T
<1>4. Reach(f, h) \subseteq T
  BY <1>3, ReachLeast
<1> QED
  BY <1>4 DEF T

\* shm_ht_delete_ex and shm_list_delete: what pointed to c points to what comes
\* after it.
LEMMA LineRemove ==
  ASSUME NEW f, IsLink(f), NEW g, IsLink(g), NEW h \in Cells \cup {Nil}, Line(f, h),
         NEW c \in Reach(f, h), NEW k \in Cells \cup {Nil}, k = (IF h = c THEN f[c] ELSE h),
         \A x \in Reach(f, h) \ {c} : g[x] = IF f[x] = c THEN f[c] ELSE f[x]
  PROVE  Reach(g, k) = Reach(f, h) \ {c} /\ Line(g, k)
<1> DEFINE R == Reach(f, h)
           S == Reach(g, k)
           T == R \ {c}
<1>1. R \subseteq Cells /\ Closed(f, R) /\ h \in R \cup {Nil} /\ f[c] # c /\ c \in R
  BY ReachClosed, LineNoLoop
<1>2. S \subseteq Cells /\ Closed(g, S) /\ k \in S \cup {Nil}
  BY ReachClosed
<1>3. /\ \A p \in R : f[p] # h
      /\ \A p, q \in R : f[p] = f[q] => p = q
      /\ \E p \in R : f[p] = Nil
  BY <1>1 DEF Line
<1>4. h # c => \E p \in R : f[p] = c
  BY ReachPrevious
<1>5. \A x \in T : g[x] = IF f[x] = c THEN f[c] ELSE f[x]
  OBVIOUS
<1>6. Nil \notin R
  BY <1>1, NilIsNoCell
<1>7. \A U \in SUBSET Cells : Closed(f, U) /\ h \in U \cup {Nil} => R \subseteq U
  BY ReachLeast
<1>8. S \subseteq T
  <2>1. T \in SUBSET Cells /\ Closed(g, T) /\ k \in T \cup {Nil}
    BY <1>1, <1>5 DEF Closed
  <2> HIDE DEF T
  <2> QED
    BY <2>1, ReachLeast
<1> HIDE DEF R, S
<1>9. R \subseteq S \cup {c}
  <2>1. CASE h = c
    <3>1. Closed(f, S \cup {c})
      BY <1>1, <1>2, <1>3, <1>5, <1>8, <2>1 DEF Closed
    <3> QED
      BY <1>1, <1>2, <1>7, <2>1, <3>1
  <2>2. CASE h # c
    <3>1. PICK p \in R : f[p] = c
      BY <1>4, <2>2
    <3>2. p \in T
      BY <1>1, <3>1
    <3>3. CASE p \in S
      <4>1. f[c] \in S \cup {Nil}
        BY <1>2, <1>5, <3>1, <3>2, <3>3 DEF Closed
      <4>2. Closed(f, S \cup {c})
        BY <1>1, <1>2, <1>5, <1>8, <4>1 DEF Closed
      <4> QED
        BY <1>1, <1>2, <1>7, <2>2, <4>2
    <3>4. CASE p \notin S
      <4>1. Closed(f, S)
        BY <1>2, <1>3, <1>5, <1>8, <3>1, <3>4 DEF Closed
      <4> QED
        BY <1>2, <1>7, <2>2, <4>1
    <3> QED
      BY <3>3, <3>4
  <2> QED
    BY <2>1, <2>2
<1>10. S = R \ {c}
  BY <1>8, <1>9
<1>11. \A x \in T : g[x] # k
  BY <1>1, <1>3, <1>5
<1>12. \A x, y \in T : g[x] = g[y] => x = y
  BY <1>1, <1>3, <1>5
<1>13. T # {} => \E x \in T : g[x] = Nil
  <2> SUFFICES ASSUME T # {} PROVE \E x \in T : g[x] = Nil
    OBVIOUS
  <2>1. PICK p \in R : f[p] = Nil
    BY <1>3
  <2>2. CASE p # c
    BY <1>1, <1>5, <1>6, <2>1, <2>2
  <2>3. CASE p = c
    <3>1. h # c
      <4> SUFFICES ASSUME h = c PROVE FALSE
        OBVIOUS
      <4>1. k = Nil
        BY <2>1, <2>3
      <4>2. S = {}
        BY <4>1, ReachNone DEF S
      <4> QED
        BY <1>10, <4>2
    <3>2. PICK q \in R : f[q] = c
      BY <1>4, <3>1
    <3> QED
      BY <1>1, <1>5, <2>1, <2>3, <3>2
  <2> QED
    BY <2>2, <2>3
<1> QED
  BY <1>10, <1>11, <1>12, <1>13 DEF Line, R, S

\* The last one, or the beginning of what was empty, now points to c.
LEMMA LineAppend ==
  ASSUME NEW f, IsLink(f), NEW g, IsLink(g), NEW h \in Cells \cup {Nil}, Line(f, h),
         NEW c \in Cells \ Reach(f, h), g[c] = Nil,
         NEW k \in Cells \cup {Nil}, k = (IF Reach(f, h) = {} THEN c ELSE h),
         \A x \in Reach(f, h) : g[x] = IF f[x] = Nil THEN c ELSE f[x]
  PROVE  Reach(g, k) = Reach(f, h) \cup {c} /\ Line(g, k)
<1> DEFINE R == Reach(f, h)
           S == Reach(g, k)
           T == R \cup {c}
<1>1. R \subseteq Cells /\ Closed(f, R) /\ h \in R \cup {Nil} /\ c \notin R
  BY ReachClosed
<1>2. S \subseteq Cells /\ Closed(g, S) /\ k \in S \cup {Nil}
  BY ReachClosed
<1>3. /\ \A p \in R : f[p] # h
      /\ \A p, q \in R : f[p] = f[q] => p = q
      /\ R # {} => \E p \in R : f[p] = Nil
  BY DEF Line
<1>4. h = Nil => R = {}
  BY ReachNone
<1>5. \A x \in R : g[x] = IF f[x] = Nil THEN c ELSE f[x]
  OBVIOUS
<1>6. Nil \notin R /\ c # Nil /\ c \in Cells
  BY <1>1, NilIsNoCell
<1>7. \A U \in SUBSET Cells : Closed(f, U) /\ h \in U \cup {Nil} => R \subseteq U
  BY ReachLeast
<1>8. S \subseteq T
  <2>1. T \in SUBSET Cells /\ Closed(g, T) /\ k \in T \cup {Nil}
    BY <1>1, <1>5 DEF Closed
  <2> HIDE DEF T
  <2> QED
    BY <2>1, ReachLeast
<1>9. k = IF R = {} THEN c ELSE h
  OBVIOUS
<1> HIDE DEF R, S
<1>10. T \subseteq S
  <2>1. CASE R = {}
    BY <1>2, <1>6, <1>9, <2>1
  <2>2. CASE R # {}
    <3>1. Closed(f, S \cap R) /\ h \in (S \cap R) \cup {Nil}
      BY <1>1, <1>2, <1>5, <1>9, <2>2 DEF Closed
    <3>2. R \subseteq S
      BY <1>1, <1>7, <3>1
    <3>3. c \in S
      BY <1>2, <1>3, <1>5, <1>6, <2>2, <3>2 DEF Closed
    <3> QED
      BY <3>2, <3>3
  <2> QED
    BY <2>1, <2>2
<1>11. S = R \cup {c}
  BY <1>8, <1>10
<1>12. \A x \in T : g[x] # k
  BY <1>1, <1>3, <1>4, <1>5, <1>6, <1>9
<1>13. \A x, y \in T : g[x] = g[y] => x = y
  BY <1>1, <1>3, <1>5, <1>6 DEF Closed
<1> QED
  BY <1>11, <1>12, <1>13 DEF Line, R, S

\* shm_ht_set: what pointed to c points to d, which leads on as c did.
LEMMA LineReplace ==
  ASSUME NEW f, IsLink(f), NEW g, IsLink(g), NEW h \in Cells \cup {Nil}, Line(f, h),
         NEW c \in Reach(f, h), NEW d \in Cells \ Reach(f, h), g[d] = f[c],
         NEW k \in Cells \cup {Nil}, k = (IF h = c THEN d ELSE h),
         \A x \in Reach(f, h) \ {c} : g[x] = IF f[x] = c THEN d ELSE f[x]
  PROVE  Reach(g, k) = (Reach(f, h) \ {c}) \cup {d} /\ Line(g, k)
<1> DEFINE R == Reach(f, h)
           S == Reach(g, k)
           T == (R \ {c}) \cup {d}
<1>1. R \subseteq Cells /\ Closed(f, R) /\ h \in R \cup {Nil} /\ f[c] # c /\ c \in R /\ d \notin R
  BY ReachClosed, LineNoLoop
<1>2. S \subseteq Cells /\ Closed(g, S) /\ k \in S \cup {Nil}
  BY ReachClosed
<1>3. /\ \A p \in R : f[p] # h
      /\ \A p, q \in R : f[p] = f[q] => p = q
      /\ \E p \in R : f[p] = Nil
  BY <1>1 DEF Line
<1>4. h # c => \E p \in R : f[p] = c
  BY ReachPrevious
<1>5. \A x \in R \ {c} : g[x] = IF f[x] = c THEN d ELSE f[x]
  OBVIOUS
<1>6. Nil \notin R /\ d # Nil /\ d \in Cells
  BY <1>1, NilIsNoCell
<1>7. \A U \in SUBSET Cells : Closed(f, U) /\ h \in U \cup {Nil} => R \subseteq U
  BY ReachLeast
<1>8. S \subseteq T
  <2>1. T \in SUBSET Cells /\ Closed(g, T) /\ k \in T \cup {Nil}
    BY <1>1, <1>5 DEF Closed
  <2> HIDE DEF T
  <2> QED
    BY <2>1, ReachLeast
<1>9. k = IF h = c THEN d ELSE h
  OBVIOUS
<1>10. h # Nil
  BY <1>1, ReachNone
<1> HIDE DEF R, S
<1>11. d \in S
  <2>1. CASE h = c
    BY <1>2, <1>6, <1>9, <2>1
  <2>2. CASE h # c
    <3>1. PICK p \in R : f[p] = c
      BY <1>4, <2>2
    <3>2. p \in R \ {c}
      BY <1>1, <3>1
    <3>3. SUFFICES ASSUME p \notin S PROVE FALSE
      BY <1>2, <1>5, <1>6, <3>1, <3>2 DEF Closed
    <3>4. Closed(f, S \ {d})
      BY <1>1, <1>2, <1>3, <1>5, <1>8, <3>1, <3>3 DEF Closed
    <3>5. S \ {d} \in SUBSET Cells /\ h \in (S \ {d}) \cup {Nil}
      BY <1>1, <1>2, <1>9, <2>2
    <3>6. R \subseteq S \ {d}
      BY <1>7, <3>4, <3>5
    <3> QED
      BY <3>1, <3>3, <3>6
  <2> QED
    BY <2>1, <2>2
<1>12. R \subseteq (S \ {d}) \cup {c}
  <2> DEFINE U == (S \ {d}) \cup {c}
  <2>1. f[c] \in U \cup {Nil}
    BY <1>1, <1>2, <1>11 DEF Closed
  <2>2. \A x \in S \ {d} : f[x] \in U \cup {Nil}
    <3> SUFFICES ASSUME NEW x \in S \ {d} PROVE f[x] \in U \cup {Nil}
      OBVIOUS
    <3>1. x \in R \ {c}
      BY <1>8
    <3>2. g[x] \in S \cup {Nil} /\ f[x] \in R \cup {Nil}
      BY <1>1, <1>2, <3>1 DEF Closed
    <3> QED
      BY <1>1, <1>5, <3>1, <3>2
  <2>3. U \in SUBSET Cells /\ h \in U \cup {Nil}
    BY <1>1, <1>2, <1>9
  <2>4. Closed(f, U)
    BY <2>1, <2>2 DEF Closed
  <2> HIDE DEF U
  <2>5. R \subseteq U
    BY <1>7, <2>3, <2>4
  <2> QED
    BY <2>5 DEF U
<1>13. S = T
  BY <1>1, <1>8, <1>11, <1>12
<1>14. \A x \in T : g[x] # k
  BY <1>1, <1>3, <1>5, <1>6, <1>9, <1>10 DEF Closed
<1>15. \A x, y \in T : g[x] = g[y] => x = y
  BY <1>1, <1>3, <1>5, <1>6 DEF Closed
<1>16. \E x \in T : g[x] = Nil
  <2>1. PICK p \in R : f[p] = Nil
    BY <1>3
  <2> QED
    BY <1>1, <1>5, <1>6, <2>1
<1> QED
  BY <1>13, <1>14, <1>15, <1>16 DEF Line, R, S

\* The link of c is set to Nil: the walk still comes to c.
LEMMA ReachCut ==
  ASSUME NEW f, IsLink(f), NEW g, IsLink(g), NEW h \in Cells \cup {Nil},
         NEW c \in Reach(f, h), g[c] = Nil, \A x \in Reach(f, h) \ {c} : g[x] = f[x]
  PROVE  Reach(g, h) \subseteq Reach(f, h) /\ c \in Reach(g, h)
<1> DEFINE R == Reach(f, h)
           S == Reach(g, h)
<1>1. R \subseteq Cells /\ Closed(f, R) /\ h \in R \cup {Nil}
  BY ReachClosed
<1>2. S \subseteq Cells /\ Closed(g, S) /\ h \in S \cup {Nil}
  BY ReachClosed
<1>3. S \subseteq R
  BY <1>1, ReachWithin DEF Closed
<1>4. c \in S
  <2> SUFFICES ASSUME c \notin S PROVE FALSE
    OBVIOUS
  <2>1. Closed(f, S)
    BY <1>2, <1>3 DEF Closed
  <2>2. R \subseteq S
    BY <1>2, <2>1, ReachLeast
  <2> QED
    BY <2>2
<1> QED
  BY <1>3, <1>4

\* A walk that has begun when c is taken out meets all the others.
LEMMA RemoveKeeps ==
  ASSUME NEW f, IsLink(f), NEW g, IsLink(g), NEW a \in Cells \cup {Nil}, NEW c \in Cells,
         f[c] # c,
         \A x \in Reach(g, a) : g[x] = IF f[x] = c THEN f[c] ELSE f[x]
  PROVE  Reach(f, a) \subseteq Reach(g, a) \cup {c}
<1> DEFINE S == Reach(g, a)
<1>1. S \subseteq Cells /\ Closed(g, S) /\ a \in S \cup {Nil}
  BY ReachClosed
<1>2. \A x \in S : g[x] = IF f[x] = c THEN f[c] ELSE f[x]
  OBVIOUS
<1> HIDE DEF S
<1>3. CASE c \in S \/ \E x \in S : f[x] = c
  <2>1. f[c] \in S \cup {Nil}
    BY <1>1, <1>2, <1>3 DEF Closed
  <2>2. Closed(f, S \cup {c})
    BY <1>1, <1>2, <2>1 DEF Closed
  <2> QED
    BY <1>1, <2>2, ReachLeast DEF S
<1>4. CASE c \notin S /\ \A x \in S : f[x] # c
  <2>1. Closed(f, S)
    BY <1>1, <1>2, <1>4 DEF Closed
  <2> QED
    BY <1>1, <2>1, ReachLeast DEF S
<1> QED
  BY <1>3, <1>4

\* Links beyond the end of a walk make it longer only.
LEMMA AppendKeeps ==
  ASSUME NEW f, IsLink(f), NEW g, IsLink(g), NEW a \in Cells \cup {Nil},
         \A x \in Reach(f, a) : f[x] # Nil => g[x] = f[x]
  PROVE  Reach(f, a) \subseteq Reach(g, a)
<1> DEFINE R == Reach(f, a)
           S == Reach(g, a)
<1>1. S \subseteq Cells /\ Closed(g, S) /\ a \in S \cup {Nil}
  BY ReachClosed
<1>2. R \subseteq Cells /\ Closed(f, R) /\ a \in R \cup {Nil}
  BY ReachClosed
<1>3. Closed(f, R \cap S) /\ a \in (R \cap S) \cup {Nil}
  BY <1>1, <1>2 DEF Closed
<1> HIDE DEF S
<1>4. R \subseteq R \cap S
  BY <1>2, <1>3, ReachLeast
<1> QED
  BY <1>4 DEF S

\* One step of a walk.
LEMMA ReachStep ==
  ASSUME NEW f, IsLink(f), NEW a \in Cells
  PROVE  /\ Reach(f, a) \subseteq {a} \cup Reach(f, f[a])
         /\ Reach(f, f[a]) \subseteq Reach(f, a)
<1> DEFINE S == Reach(f, f[a])
<1>1. f[a] \in Cells \cup {Nil}
  BY DEF IsLink
<1>2. S \subseteq Cells /\ Closed(f, S) /\ f[a] \in S \cup {Nil}
  BY <1>1, ReachClosed
<1>3. Closed(f, {a} \cup S)
  BY <1>2 DEF Closed
<1>4. Reach(f, a) \subseteq Cells /\ Closed(f, Reach(f, a)) /\ a \in Reach(f, a) \cup {Nil}
  BY ReachClosed
<1>5. f[a] \in Reach(f, a) \cup {Nil}
  BY <1>4, NilIsNoCell DEF Closed
<1>6. Reach(f, f[a]) \subseteq Reach(f, a)
  BY <1>4, <1>5, ReachLeast
<1> HIDE DEF S
<1>7. Reach(f, a) \subseteq {a} \cup S
  BY <1>2, <1>3, ReachLeast
<1> QED
  BY <1>6, <1>7 DEF S

\* What is reached from a cell that is reached is reached.
LEMMA ReachOn ==
  ASSUME NEW f, IsLink(f), NEW h \in Cells \cup {Nil}, NEW a \in Reach(f, h) \cup {Nil}
  PROVE  Reach(f, a) \subseteq Reach(f, h)
BY ReachClosed, ReachLeast
-----------------------------------------------------------------------------
(* Induction.  The theorems of the library take an operator; these take a  *)
(* set, of which the provers can find an instance.                         *)

LEMMA LeastOf ==
  ASSUME NEW S \in SUBSET Nat, S # {}
  PROVE  \E x \in S : \A y \in S : x <= y
<1> DEFINE R == {s \in Nat \X Nat : s[1] < s[2]}
<1>1. IsWellFoundedOn(R, Nat)
  BY NatLessThanWellFounded, Zenon DEF OpToRel
<1>2. \A x, y \in S : <<y, x>> \notin R => x <= y
  OBVIOUS
<1> HIDE DEF R
<1>3. \E x \in S : \A y \in S : <<y, x>> \notin R
  BY <1>1, WFMin, Zenon
<1> QED
  BY <1>2, <1>3

LEMMA AllNumbers ==
  ASSUME NEW S \in SUBSET Nat, 0 \in S, \A n \in S : n + 1 \in S
  PROVE  S = Nat
<1> SUFFICES ASSUME Nat \ S # {} PROVE FALSE
  OBVIOUS
<1>1. PICK x \in Nat \ S : \A y \in Nat \ S : x <= y
  BY LeastOf
<1>2. x # 0 /\ x - 1 \in Nat
  BY <1>1
<1>3. x - 1 \in S
  BY <1>1, <1>2
<1> QED
  BY <1>1, <1>2, <1>3
-----------------------------------------------------------------------------
(* The chain of a bucket                                                   *)

WithinIn(ce, h) ==
  CHOOSE W : W = [n \in Nat |->
    {h} \cup (IF n = 0 THEN {} ELSE {ce[c].next : c \in W[n - 1] \ {Nil}})]

\* The walk of m steps s leads from h to x.
Walk(ce, h, m, s, x) ==
  /\ s[0] = h /\ s[m] = x
  /\ \A i \in 0..(m - 1) : s[i] # Nil /\ s[i + 1] = ce[s[i]].next

LEMMA WithinRec ==
  ASSUME NEW ce, NEW h \in Cells \cup {Nil}, \A c \in Cells : ce[c].next \in Cells \cup {Nil}
  PROVE  \A n \in Nat : WithinIn(ce, h)[n] =
           {h} \cup (IF n = 0 THEN {} ELSE {ce[c].next : c \in WithinIn(ce, h)[n - 1] \ {Nil}})
<1> DEFINE D == Cells \cup {Nil}
           G == [n \in Nat |-> {x \in D : \E m \in 0..n : \E s \in [0..m -> D] : Walk(ce, h, m, s, x)}]
           Step(W) == [n \in Nat |-> {h} \cup (IF n = 0 THEN {} ELSE {ce[c].next : c \in W[n - 1] \ {Nil}})]
<1>1. ASSUME NEW n \in Nat
      PROVE  G[n] = {h} \cup (IF n = 0 THEN {} ELSE {ce[c].next : c \in G[n - 1] \ {Nil}})
  <2>1. h \in G[n]
    <3> DEFINE s == [i \in 0..0 |-> h]
    <3>1. s \in [0..0 -> D] /\ Walk(ce, h, 0, s, h) /\ 0 \in 0..n
      BY DEF Walk
    <3> HIDE DEF s
    <3> QED
      BY <3>1
  <2>2. ASSUME n # 0, NEW y \in G[n - 1] \ {Nil}
        PROVE  ce[y].next \in G[n]
    <3>0. PICK m \in 0..(n - 1) : \E s \in [0..m -> D] : Walk(ce, h, m, s, y)
      BY <2>2
    <3>1. PICK s \in [0..m -> D] : Walk(ce, h, m, s, y)
      BY <3>0
    <3> DEFINE x == ce[y].next
               t == [i \in 0..(m + 1) |-> IF i <= m THEN s[i] ELSE x]
    <3>2. x \in D
      BY <2>2
    <3>3. m + 1 \in 0..n /\ t \in [0..(m + 1) -> D]
      BY <2>2, <3>1, <3>2
    <3>4. Walk(ce, h, m + 1, t, x)
      <4>1. t[0] = h /\ t[m + 1] = x
        BY <3>1 DEF Walk
      <4>2. \A i \in 0..m : t[i] # Nil /\ t[i + 1] = ce[t[i]].next
        <5> SUFFICES ASSUME NEW i \in 0..m PROVE t[i] # Nil /\ t[i + 1] = ce[t[i]].next
          OBVIOUS
        <5>1. CASE i = m
          <6>1. s[m] = y /\ y # Nil
            BY <2>2, <3>1 DEF Walk
          <6> QED
            BY <5>1, <6>1
        <5>2. CASE i # m
          <6>1. i \in 0..(m - 1) /\ i + 1 <= m /\ i + 1 \in 0..(m + 1)
            BY <5>2
          <6> QED
            BY <3>1, <6>1 DEF Walk
        <5> QED
          BY <5>1, <5>2
      <4>3. (m + 1) - 1 = m
        OBVIOUS
      <4> HIDE DEF t, x
      <4> QED
        BY <4>1, <4>2, <4>3 DEF Walk
    <3> HIDE DEF t, x
    <3>5. x \in G[n]
      BY <3>2, <3>3, <3>4
    <3> QED
      BY <3>5 DEF x
  <2>3. ASSUME NEW x \in G[n], x # h
        PROVE  n # 0 /\ x \in {ce[c].next : c \in G[n - 1] \ {Nil}}
    <3>0. PICK m \in 0..n : \E s \in [0..m -> D] : Walk(ce, h, m, s, x)
      BY <2>3
    <3>1. PICK s \in [0..m -> D] : Walk(ce, h, m, s, x)
      BY <3>0
    <3>2. m # 0
      BY <2>3, <3>1 DEF Walk
    <3> DEFINE y == s[m - 1]
               t == [i \in 0..(m - 1) |-> s[i]]
    <3>3. m - 1 \in 0..(n - 1) /\ m - 1 \in 0..(m - 1) /\ n # 0 /\ n - 1 \in Nat
      BY <3>2
    <3>4. y # Nil /\ x = ce[y].next /\ y \in D
      <4>1. (m - 1) + 1 = m
        OBVIOUS
      <4> QED
        BY <3>1, <3>3, <4>1 DEF Walk
    <3>5. t \in [0..(m - 1) -> D] /\ Walk(ce, h, m - 1, t, y)
      BY <3>1, <3>2 DEF Walk
    <3> HIDE DEF y, t
    <3>6. y \in G[n - 1]
      BY <3>3, <3>4, <3>5
    <3> QED
      BY <3>3, <3>4, <3>6
  <2> HIDE DEF G
  <2> QED
    BY <2>1, <2>2, <2>3
<1>2. G = Step(G)
  <2>1. G = [n \in Nat |-> G[n]]
    OBVIOUS
  <2> HIDE DEF G
  <2> QED
    BY <1>1, <2>1
<1> HIDE DEF G
<1>3. WithinIn(ce, h) = Step(WithinIn(ce, h))
  BY <1>2 DEF WithinIn
<1> HIDE DEF Step
<1>4. \A n \in Nat : Step(WithinIn(ce, h))[n] =
        {h} \cup (IF n = 0 THEN {} ELSE {ce[c].next : c \in WithinIn(ce, h)[n - 1] \ {Nil}})
  BY DEF Step
<1> QED
  BY <1>3, <1>4

LEMMA CellsFinite ==
  /\ IsFiniteSet(Cells) /\ Cardinality(Cells) = Stripings * PerStriping
  /\ Stripings * PerStriping \in Nat /\ Cells \subseteq Nat
<1>1. Stripings * PerStriping \in Nat
  BY TableAssumption
<1>2. IsFiniteSet(Cells) /\ Cardinality(Cells) = Stripings * PerStriping
  BY <1>1, FS_Interval DEF Cells
<1> QED
  BY <1>1, <1>2 DEF Cells

\* As many steps as there are cells reach whatever can be reached: as long as
\* the cells met are not closed, each step meets another one.
LEMMA WithinIsReach ==
  ASSUME NEW ce, NEW h \in Cells \cup {Nil}, \A c \in Cells : ce[c].next \in Cells \cup {Nil},
         NEW f, \A c \in Cells : f[c] = ce[c].next
  PROVE  WithinIn(ce, h)[Cardinality(Cells)] \ {Nil} = Reach(f, h)
<1> DEFINE W == WithinIn(ce, h)
           V(n) == W[n] \ {Nil}
           K == Cardinality(Cells)
<1>1. /\ W[0] = {h}
      /\ \A n \in Nat : W[n + 1] = {h} \cup {ce[c].next : c \in V(n)}
  <2>1. \A n \in Nat : W[n] = {h} \cup (IF n = 0 THEN {} ELSE {ce[c].next : c \in W[n - 1] \ {Nil}})
    BY WithinRec
  <2> HIDE DEF W
  <2>2. W[0] = {h}
    BY <2>1
  <2>3. ASSUME NEW n \in Nat PROVE W[n + 1] = {h} \cup {ce[c].next : c \in V(n)}
    <3>1. n + 1 \in Nat /\ n + 1 # 0 /\ (n + 1) - 1 = n
      OBVIOUS
    <3> QED
      BY <2>1, <3>1
  <2> QED
    BY <2>2, <2>3
<1> HIDE DEF W
<1>2. IsLink(f)
  BY DEF IsLink
<1>3. Reach(f, h) \subseteq Cells /\ Closed(f, Reach(f, h)) /\ h \in Reach(f, h) \cup {Nil}
  BY <1>2, ReachClosed
<1>4. \A n \in Nat : V(n) \subseteq Reach(f, h)
  <2> DEFINE S == {n \in Nat : V(n) \subseteq Reach(f, h)}
  <2>1. 0 \in S
    BY <1>1, <1>3
  <2>2. ASSUME NEW n \in S PROVE n + 1 \in S
    BY <1>1, <1>3 DEF Closed
  <2>3. S \in SUBSET Nat
    OBVIOUS
  <2>4. S = Nat
    <3> HIDE DEF S
    <3> QED
      BY <2>1, <2>2, <2>3, AllNumbers
  <2> QED
    BY <2>4
<1>5. \A n \in Nat : V(n) \subseteq V(n + 1)
  <2> DEFINE S == {n \in Nat : V(n) \subseteq V(n + 1)}
  <2>1. 0 \in S
    BY <1>1
  <2>2. ASSUME NEW n \in S PROVE n + 1 \in S
    <3>1. n + 1 \in Nat /\ V(n) \subseteq V(n + 1)
      OBVIOUS
    <3>2. W[n + 1] = {h} \cup {ce[c].next : c \in V(n)}
          /\ W[(n + 1) + 1] = {h} \cup {ce[c].next : c \in V(n + 1)}
      BY <1>1, <3>1
    <3> QED
      BY <3>1, <3>2
  <2>3. S \in SUBSET Nat
    OBVIOUS
  <2>4. S = Nat
    <3> HIDE DEF S
    <3> QED
      BY <2>1, <2>2, <2>3, AllNumbers
  <2> QED
    BY <2>4
<1>6. \A n \in Nat : V(n) \subseteq Cells /\ IsFiniteSet(V(n)) /\ Cardinality(V(n)) \in Nat
                     /\ Cardinality(V(n)) <= K
  <2> SUFFICES ASSUME NEW n \in Nat
               PROVE  /\ V(n) \subseteq Cells /\ IsFiniteSet(V(n)) /\ Cardinality(V(n)) \in Nat
                      /\ Cardinality(V(n)) <= K
    OBVIOUS
  <2>1. V(n) \subseteq Cells
    BY <1>3, <1>4
  <2> QED
    BY <2>1, CellsFinite, FS_Subset, FS_CardinalityType
<1>7. \A n \in Nat : Closed(f, V(n)) \/ Cardinality(V(n)) >= n + 1
  <2> DEFINE S == {n \in Nat : Closed(f, V(n)) \/ Cardinality(V(n)) >= n + 1}
  <2>1. 0 \in S
    <3>1. CASE h = Nil
      BY <1>1, <3>1 DEF Closed
    <3>2. CASE h # Nil
      <4>1. V(0) = {h}
        BY <1>1, <3>2
      <4>2. Cardinality(V(0)) = 1
        BY <4>1, FS_Singleton
      <4> QED
        BY <4>2
    <3> QED
      BY <3>1, <3>2
  <2>2. ASSUME NEW n \in S PROVE n + 1 \in S
    <3>1. n \in Nat /\ n + 1 \in Nat
      OBVIOUS
    <3>2. CASE Closed(f, V(n))
      <4>1. V(n) \subseteq Cells /\ V(n) \subseteq V(n + 1) /\ (h \in V(n) \cup {Nil})
        <5>1. h \in W[0]
          BY <1>1
        <5>2. h \in W[n]
          BY <1>1, <3>1, WithinRec DEF W
        <5> QED
          BY <1>5, <1>6, <3>1, <5>2
      <4>2. V(n + 1) = V(n)
        BY <1>1, <3>1, <3>2, <4>1 DEF Closed
      <4> QED
        BY <3>1, <3>2, <4>2
    <3>3. CASE ~Closed(f, V(n))
      <4>1. Cardinality(V(n)) >= n + 1
        BY <3>3
      <4>2. PICK c \in V(n) : f[c] \notin V(n) \cup {Nil}
        BY <3>3 DEF Closed
      <4>3. f[c] = ce[c].next
        BY <1>6, <3>1
      <4>4. f[c] \in V(n + 1)
        BY <1>1, <3>1, <4>2, <4>3
      <4>5. V(n) \subseteq V(n + 1) /\ V(n) # V(n + 1)
        BY <1>5, <3>1, <4>2, <4>4
      <4>6. IsFiniteSet(V(n + 1)) /\ Cardinality(V(n)) \in Nat /\ Cardinality(V(n + 1)) \in Nat
        BY <1>6, <3>1
      <4>7. Cardinality(V(n)) < Cardinality(V(n + 1))
        BY <4>5, <4>6, FS_Subset
      <4>8. Cardinality(V(n + 1)) >= (n + 1) + 1
        BY <3>1, <4>1, <4>6, <4>7
      <4> QED
        BY <3>1, <4>8
    <3> QED
      BY <3>2, <3>3
  <2>3. S \in SUBSET Nat
    OBVIOUS
  <2>4. S = Nat
    <3> HIDE DEF S
    <3> QED
      BY <2>1, <2>2, <2>3, AllNumbers
  <2> QED
    BY <2>4
<1>8. K \in Nat
  BY CellsFinite
<1>9. Closed(f, V(K))
  <2>1. Cardinality(V(K)) \in Nat /\ Cardinality(V(K)) <= K
    BY <1>6, <1>8
  <2>2. ~(Cardinality(V(K)) >= K + 1)
    BY <1>8, <2>1
  <2> QED
    BY <1>7, <1>8, <2>2
<1>10. h \in V(K) \cup {Nil}
  BY <1>8, WithinRec DEF W
<1>11. Reach(f, h) \subseteq V(K)
  BY <1>6, <1>8, <1>9, <1>10, ReachLeast
<1> QED
  BY <1>4, <1>8, <1>11 DEF W
-----------------------------------------------------------------------------
(* The list                                                                *)

NthIn(nx) == CHOOSE N : N = [n \in Nat |-> IF n = 0 THEN ListHead ELSE nx[N[n - 1]]]
InListIn(nx) == {n \in Cells : \A m \in 1..n : NthIn(nx)[m] # ListHead}
ListedIn(nx) == [n \in 1..Cardinality(InListIn(nx)) |-> NthIn(nx)[n]]

\* The first n steps from the head.
Steps(nx, n, s) == s[0] = ListHead /\ \A i \in 0..(n - 1) : s[i + 1] = nx[s[i]]

LEMMA StepsUnique ==
  ASSUME NEW nx, NEW n \in Nat, NEW s, Steps(nx, n, s), NEW t, Steps(nx, n, t)
  PROVE  s[n] = t[n]
<1> DEFINE S == {i \in Nat : i <= n => s[i] = t[i]}
<1>1. 0 \in S
  BY DEF Steps
<1>2. ASSUME NEW i \in S PROVE i + 1 \in S
  <2>1. CASE i + 1 <= n
    <3>1. i \in 0..(n - 1) /\ s[i] = t[i]
      BY <2>1
    <3> QED
      BY <3>1 DEF Steps
  <2> QED
    BY <2>1
<1>3. S \in SUBSET Nat
  OBVIOUS
<1>4. S = Nat
  <2> HIDE DEF S
  <2> QED
    BY <1>1, <1>2, <1>3, AllNumbers
<1> QED
  BY <1>4

LEMMA StepsExist ==
  ASSUME NEW nx \in [Cells \cup {ListHead} -> Cells \cup {ListHead}], NEW n \in Nat
  PROVE  \E s \in [0..n -> Cells \cup {ListHead}] : Steps(nx, n, s)
<1> DEFINE D == Cells \cup {ListHead}
           S == {i \in Nat : \E s \in [0..i -> D] : Steps(nx, i, s)}
<1>1. 0 \in S
  <2> DEFINE s == [i \in 0..0 |-> ListHead]
  <2>1. s \in [0..0 -> D] /\ Steps(nx, 0, s)
    BY DEF Steps
  <2> HIDE DEF s
  <2> QED
    BY <2>1
<1>2. ASSUME NEW i \in S PROVE i + 1 \in S
  <2>1. PICK s \in [0..i -> D] : Steps(nx, i, s)
    OBVIOUS
  <2> DEFINE t == [j \in 0..(i + 1) |-> IF j <= i THEN s[j] ELSE nx[s[i]]]
  <2>2. nx[s[i]] \in D
    OBVIOUS
  <2>3. t \in [0..(i + 1) -> D]
    BY <2>2
  <2>4. t[0] = ListHead
    BY <2>1 DEF Steps
  <2>5. \A j \in 0..i : t[j + 1] = nx[t[j]]
    <3> SUFFICES ASSUME NEW j \in 0..i PROVE t[j + 1] = nx[t[j]]
      OBVIOUS
    <3>1. CASE j = i
      BY <3>1
    <3>2. CASE j # i
      <4>1. j \in 0..(i - 1) /\ j + 1 <= i /\ j + 1 \in 0..(i + 1)
        BY <3>2
      <4> QED
        BY <2>1, <4>1 DEF Steps
    <3> QED
      BY <3>1, <3>2
  <2>6. (i + 1) - 1 = i
    OBVIOUS
  <2> HIDE DEF t
  <2>7. Steps(nx, i + 1, t)
    BY <2>4, <2>5, <2>6 DEF Steps
  <2> QED
    BY <2>3, <2>7
<1>3. S \in SUBSET Nat
  OBVIOUS
<1>4. S = Nat
  <2> HIDE DEF S
  <2> QED
    BY <1>1, <1>2, <1>3, AllNumbers
<1> QED
  BY <1>4

LEMMA NthRec ==
  ASSUME NEW nx \in [Cells \cup {ListHead} -> Cells \cup {ListHead}]
  PROVE  /\ NthIn(nx)[0] = ListHead
         /\ \A n \in Nat : /\ NthIn(nx)[n] \in Cells \cup {ListHead}
                           /\ NthIn(nx)[n + 1] = nx[NthIn(nx)[n]]
<1> DEFINE D == Cells \cup {ListHead}
           C(n) == CHOOSE s \in [0..n -> D] : Steps(nx, n, s)
           G == [n \in Nat |-> C(n)[n]]
           Step(N) == [n \in Nat |-> IF n = 0 THEN ListHead ELSE nx[N[n - 1]]]
<1>1. \A n \in Nat : C(n) \in [0..n -> D] /\ Steps(nx, n, C(n))
  BY StepsExist
<1>2. ASSUME NEW n \in Nat PROVE G[n] = IF n = 0 THEN ListHead ELSE nx[G[n - 1]]
  <2> HIDE DEF C
  <2>1. CASE n = 0
    BY <1>1, <2>1 DEF Steps
  <2>2. CASE n # 0
    <3>1. n - 1 \in Nat /\ n - 1 \in 0..(n - 1) /\ (n - 1) + 1 = n
      BY <2>2
    <3>2. Steps(nx, n, C(n)) /\ Steps(nx, n - 1, C(n - 1))
      BY <1>1, <3>1
    <3>3. Steps(nx, n - 1, C(n))
      BY <3>1, <3>2 DEF Steps
    <3>4. C(n)[n - 1] = C(n - 1)[n - 1]
      BY <3>1, <3>2, <3>3, StepsUnique
    <3>5. C(n)[n] = nx[C(n)[n - 1]]
      BY <3>1, <3>2 DEF Steps
    <3> QED
      BY <2>2, <3>1, <3>4, <3>5
  <2> QED
    BY <2>1, <2>2
<1>3. G = Step(G)
  <2>1. G = [n \in Nat |-> G[n]]
    OBVIOUS
  <2> HIDE DEF G
  <2> QED
    BY <1>2, <2>1
<1> HIDE DEF G
<1>4. NthIn(nx) = Step(NthIn(nx))
  BY <1>3 DEF NthIn
<1> HIDE DEF Step
<1>5. \A n \in Nat : NthIn(nx)[n] = IF n = 0 THEN ListHead ELSE nx[NthIn(nx)[n - 1]]
  <2>1. \A n \in Nat : Step(NthIn(nx))[n] = IF n = 0 THEN ListHead ELSE nx[NthIn(nx)[n - 1]]
    BY DEF Step
  <2> QED
    BY <1>4, <2>1
<1> DEFINE N == NthIn(nx)
<1> HIDE DEF N
<1>6. N[0] = ListHead /\ \A n \in Nat : N[n + 1] = nx[N[n]]
  <2>1. ASSUME NEW n \in Nat PROVE N[n + 1] = nx[N[n]]
    <3>1. n + 1 \in Nat /\ n + 1 # 0 /\ (n + 1) - 1 = n
      OBVIOUS
    <3> QED
      BY <1>5, <3>1 DEF N
  <2> QED
    BY <1>5, <2>1 DEF N
<1>7. \A n \in Nat : N[n] \in D
  <2> DEFINE S == {i \in Nat : N[i] \in D}
  <2>1. 0 \in S /\ \A i \in S : i + 1 \in S
    BY <1>6
  <2>2. S \in SUBSET Nat
    OBVIOUS
  <2>3. S = Nat
    <3> HIDE DEF S
    <3> QED
      BY <2>1, <2>2, AllNumbers
  <2> QED
    BY <2>3
<1> QED
  BY <1>6, <1>7 DEF N

\* Listed is the walk along next from the head back to it.
LEMMA ListedInIs ==
  ASSUME NEW nx \in [Cells \cup {ListHead} -> Cells \cup {ListHead}], NEW pv,
         \A c \in Reach(nx, nx[ListHead]) \cup {ListHead} : pv[nx[c]] = c
  PROVE  /\ ListedIn(nx) \in Seq(Cells)
         /\ Len(ListedIn(nx)) = Cardinality(Reach(nx, nx[ListHead]))
         /\ ToSet(ListedIn(nx)) = Reach(nx, nx[ListHead])
         /\ \A i, j \in 1..Len(ListedIn(nx)) : ListedIn(nx)[i] = ListedIn(nx)[j] => i = j
         /\ nx[ListHead] = IF ListedIn(nx) = <<>> THEN ListHead ELSE ListedIn(nx)[1]
         /\ \A i \in 1..Len(ListedIn(nx)) :
              nx[ListedIn(nx)[i]] = IF i = Len(ListedIn(nx)) THEN ListHead
                                    ELSE ListedIn(nx)[i + 1]
<1> DEFINE N == NthIn(nx)
           I == InListIn(nx)
           L == Reach(nx, nx[ListHead])
           K == Cardinality(Cells)
<1>1. /\ N[0] = ListHead
      /\ \A n \in Nat : N[n] \in Cells \cup {ListHead} /\ N[n + 1] = nx[N[n]]
  BY NthRec
<1>2. I = {n \in Cells : \A m \in 1..n : N[m] # ListHead}
  BY DEF InListIn
<1>3. K \in Nat /\ Cells = 1..K /\ IsFiniteSet(Cells)
  BY CellsFinite DEF Cells
<1>4. L \subseteq Cells /\ Closed(nx, L) /\ nx[ListHead] \in L \cup {Nil} /\ IsLink(nx)
  <2>1. IsLink(nx) /\ nx[ListHead] \in Cells \cup {Nil}
    BY DEF IsLink, Nil, ListHead
  <2> QED
    BY <2>1, ReachClosed
<1>5. ListHead = Nil /\ Nil \notin Cells /\ \A c \in L \cup {ListHead} : pv[nx[c]] = c
  BY NilIsNoCell DEF ListHead, Nil
<1>6. \A T \in SUBSET Cells : Closed(nx, T) /\ nx[ListHead] \in T \cup {Nil} => L \subseteq T
  BY ReachLeast
<1> HIDE DEF N, I, L, K
<1>7. \E x \in 0..K : I = 1..x
  <2> DEFINE S == {n \in Nat : n + 1 \notin I}
  <2>1. S \in SUBSET Nat /\ K \in S
    BY <1>2, <1>3
  <2>2. PICK x \in S : \A y \in S : x <= y
    <3> HIDE DEF S
    <3> QED
      BY <2>1, LeastOf
  <2>3. \A i \in I : \A j \in 1..i : j \in I
    BY <1>2, <1>3
  <2>4. x <= K
    BY <2>1, <2>2
  <2>5. \A i \in 1..x : i \in I
    <3> SUFFICES ASSUME NEW i \in 1..x PROVE i \in I
      OBVIOUS
    <3>1. i - 1 \in Nat /\ ~(x <= i - 1) /\ (i - 1) + 1 = i
      BY <2>2
    <3> QED
      BY <2>2, <3>1
  <2>6. \A i \in I : i \in 1..x
    <3> SUFFICES ASSUME NEW i \in I, i \notin 1..x PROVE FALSE
      OBVIOUS
    <3>1. i \in Nat /\ x + 1 \in 1..i
      BY <1>2, <1>3, <2>2
    <3> QED
      BY <2>2, <2>3, <3>1
  <2>7. x \in 0..K
    BY <1>3, <2>1, <2>2, <2>4
  <2>8. I = 1..x
    BY <2>5, <2>6
  <2> QED
    BY <2>7, <2>8
<1>8. PICK x \in 0..K : I = 1..x
  BY <1>7
<1>9. Cardinality(I) = x /\ x \in Nat /\ x <= K
  <2>1. x \in Nat /\ x <= K
    BY <1>3
  <2>2. Cardinality(1..x) = x
    BY <2>1, FS_Interval
  <2> QED
    BY <1>8, <2>1, <2>2
<1>10. \A m \in 1..x : N[m] # ListHead /\ N[m] \in Cells
  <2> SUFFICES ASSUME NEW m \in 1..x PROVE N[m] # ListHead /\ N[m] \in Cells
    OBVIOUS
  <2>1. m \in I /\ m \in Nat /\ m \in 1..m
    BY <1>8, <1>9
  <2> QED
    BY <1>1, <1>2, <2>1
<1>11. \A m \in 1..x : N[m] \in L
  <2> DEFINE S == {m \in Nat : m \in 1..x => N[m] \in L}
  <2>1. 0 \in S
    OBVIOUS
  <2>2. ASSUME NEW m \in S PROVE m + 1 \in S
    <3> SUFFICES ASSUME m + 1 \in 1..x PROVE N[m + 1] \in L
      OBVIOUS
    <3>1. N[m + 1] = nx[N[m]] /\ N[m + 1] # Nil
      BY <1>1, <1>5, <1>10
    <3>2. CASE m = 0
      BY <1>1, <1>4, <3>1, <3>2
    <3>3. CASE m # 0
      <4>1. N[m] \in L
        BY <1>9, <3>3
      <4> QED
        BY <1>4, <3>1, <4>1 DEF Closed
    <3> QED
      BY <3>2, <3>3
  <2>3. S \in SUBSET Nat
    OBVIOUS
  <2>4. S = Nat
    <3> HIDE DEF S
    <3> QED
      BY <2>1, <2>2, <2>3, AllNumbers
  <2> QED
    BY <1>9, <2>4
\* Who comes before the one or the other is one.
<1>12. \A i, j \in 0..x : N[i + 1] = N[j + 1] => N[i] = N[j]
  <2> SUFFICES ASSUME NEW i \in 0..x, NEW j \in 0..x, N[i + 1] = N[j + 1] PROVE N[i] = N[j]
    OBVIOUS
  <2>1. N[i] \in L \cup {ListHead} /\ N[j] \in L \cup {ListHead}
    BY <1>1, <1>9, <1>11
  <2>2. N[i + 1] = nx[N[i]] /\ N[j + 1] = nx[N[j]]
    BY <1>1, <1>9
  <2> QED
    BY <1>5, <2>1, <2>2
<1>13. \A i, j \in 0..x : N[i] = N[j] => i = j
  <2> DEFINE S == {i \in Nat : i <= x => \A j \in 0..x : N[i] = N[j] => i = j}
  <2>1. 0 \in S
    <3>1. \A j \in 0..x : j # 0 => j \in 1..x
      BY <1>9
    <3> QED
      BY <1>1, <1>10, <3>1
  <2>2. ASSUME NEW i \in S PROVE i + 1 \in S
    <3> SUFFICES ASSUME i + 1 <= x, NEW j \in 0..x, N[i + 1] = N[j] PROVE i + 1 = j
      OBVIOUS
    <3>1. i + 1 \in 1..x /\ i \in 0..x /\ i \in Nat
      BY <1>9
    <3>2. j # 0
      BY <1>1, <1>10, <3>1
    <3>3. j - 1 \in 0..x /\ (j - 1) + 1 = j
      BY <1>9, <3>2
    <3>4. N[i] = N[j - 1]
      BY <1>12, <3>1, <3>3
    <3>5. i = j - 1
      BY <3>1, <3>3, <3>4
    <3> QED
      BY <3>3, <3>5
  <2>3. S \in SUBSET Nat
    OBVIOUS
  <2>4. S = Nat
    <3> HIDE DEF S
    <3> QED
      BY <2>1, <2>2, <2>3, AllNumbers
  <2> QED
    BY <1>9, <2>4
<1> DEFINE T == {N[m] : m \in 1..x}
<1>14. T \subseteq Cells /\ T \subseteq L
  BY <1>10, <1>11
<1>15. IsFiniteSet(T) /\ Cardinality(T) = x
  <2> DEFINE g == [m \in 1..x |-> N[m]]
  <2>1. \A i, j \in 1..x : N[i] = N[j] => i = j
    BY <1>9, <1>13
  <2>2. g \in Bijection(1..x, T)
    BY <2>1 DEF Bijection, Injection, Surjection, IsInjective
  <2>3. IsFiniteSet(1..x) /\ Cardinality(1..x) = x
    BY <1>9, FS_Interval
  <2> HIDE DEF g, T
  <2> QED
    BY <2>2, <2>3, FS_Bijection DEF ExistsBijection
<1>16. N[x + 1] = ListHead
  <2>1. CASE x < K
    <3>1. x + 1 \in Cells /\ x + 1 \notin I
      BY <1>3, <1>8, <1>9, <2>1
    <3>2. PICK m \in 1..(x + 1) : N[m] = ListHead
      BY <1>2, <3>1
    <3>3. m \notin 1..x
      BY <1>10, <3>2
    <3> QED
      BY <1>9, <3>2, <3>3
  <2>2. CASE x = K
    <3>1. T = Cells
      <4>1. Cardinality(T) = Cardinality(Cells)
        BY <1>15, <2>2 DEF K
      <4> HIDE DEF T
      <4> QED
        BY <1>3, <1>14, <4>1, FS_Subset
    <3> SUFFICES ASSUME N[x + 1] \in Cells PROVE FALSE
      BY <1>1, <1>9
    <3>2. PICK j \in 1..x : N[x + 1] = N[j]
      BY <3>1
    <3>3. j - 1 \in 0..x /\ (j - 1) + 1 = j /\ x \in 0..x /\ j - 1 # x
      BY <1>9
    <3>4. N[x] = N[j - 1]
      BY <1>12, <3>2, <3>3
    <3> QED
      BY <1>13, <3>3, <3>4
  <2> QED
    BY <1>3, <1>9, <2>1, <2>2
<1>17. T = L
  <2>1. \A m \in 0..x : nx[N[m]] \in T \cup {Nil}
    <3> SUFFICES ASSUME NEW m \in 0..x PROVE nx[N[m]] \in T \cup {Nil}
      OBVIOUS
    <3>1. nx[N[m]] = N[m + 1]
      BY <1>1, <1>9
    <3>2. CASE m = x
      BY <1>5, <1>16, <3>1, <3>2
    <3>3. CASE m # x
      <4>1. m + 1 \in 1..x
        BY <1>9, <3>3
      <4> QED
        BY <3>1, <4>1
    <3> QED
      BY <3>2, <3>3
  <2>2. Closed(nx, T)
    <3>1. \A c \in T : \E m \in 0..x : c = N[m]
      BY <1>9
    <3> QED
      BY <2>1, <3>1 DEF Closed
  <2>3. nx[ListHead] \in T \cup {Nil}
    <3>1. 0 \in 0..x
      BY <1>9
    <3> QED
      BY <1>1, <2>1, <3>1
  <2> HIDE DEF T
  <2> QED
    BY <1>6, <1>14, <2>2, <2>3
<1> DEFINE l == ListedIn(nx)
<1>18. l = [n \in 1..x |-> N[n]]
  BY <1>9 DEF ListedIn, N, I
<1>19. l \in Seq(Cells) /\ Len(l) = x /\ \A n \in 1..x : l[n] = N[n]
  BY <1>9, <1>10, <1>18
<1>20. ToSet(l) = L
  BY <1>17, <1>18 DEF ToSet
<1> HIDE DEF l
<1>21. \A i, j \in 1..x : l[i] = l[j] => i = j
  BY <1>9, <1>13, <1>19
<1>22. nx[ListHead] = IF l = <<>> THEN ListHead ELSE l[1]
  <2>1. nx[ListHead] = N[1]
    <3>1. 0 \in Nat /\ 0 + 1 = 1
      OBVIOUS
    <3> QED
      BY <1>1, <3>1
  <2>2. CASE x = 0
    <3>1. l = <<>>
      BY <1>19, <2>2
    <3> QED
      BY <1>16, <2>1, <2>2, <3>1
  <2>3. CASE x # 0
    <3>1. l # <<>> /\ 1 \in 1..x
      BY <1>9, <1>19, <2>3
    <3> QED
      BY <1>19, <2>1, <3>1
  <2> QED
    BY <2>2, <2>3
<1>23. \A i \in 1..x : nx[l[i]] = IF i = x THEN ListHead ELSE l[i + 1]
  <2> SUFFICES ASSUME NEW i \in 1..x PROVE nx[l[i]] = IF i = x THEN ListHead ELSE l[i + 1]
    OBVIOUS
  <2>1. nx[l[i]] = N[i + 1]
    BY <1>1, <1>9, <1>19
  <2>2. i # x => i + 1 \in 1..x
    BY <1>9
  <2> QED
    BY <1>16, <1>19, <2>1, <2>2
<1>24. x = Cardinality(L)
  BY <1>15, <1>17
<1> QED
  BY <1>19, <1>20, <1>21, <1>22, <1>23, <1>24 DEF l, L
-----------------------------------------------------------------------------
(* The invariant                                                           *)

HtNext == [c \in Cells |-> cell[c].next]

\* From its freeing until the new entry is linked in its place, an entry that
\* is replaced ends its chain.  Virtual leads on as it did.
Cut == pc \in {"storeKey", "storeValue", "link"} /\ old # Nil
Virtual == IF Cut THEN [HtNext EXCEPT ![old] = cell[new].next] ELSE HtNext
Entries(b) == Reach(Virtual, bucket[b])
Linked == UNION {Entries(b) : b \in Buckets}
Members == Reach(next, next[ListHead])

Storing == {"freeOld", "storeKey", "storeValue", "link", "append"}
Setting == {"alloc", "sleepAlloc", "recycleMem"} \cup Storing
WriterSteps == {"idle", "recycleKey", "freeEntry", "sleepEnd", "crashed"} \cup Setting
Looking == {"walk", "step", "found", "use"}
Gets == {r \in Readers : get[r].pc \in Looking}

\* The cells that are allocated.
Live == Members \cup (IF pc \in Storing THEN {new} ELSE {})

TypeInv ==
  /\ bucket \in [Buckets -> Cells \cup {Nil}]
  /\ cell \in [Cells -> [key : Keys \cup {NoKey}, data : Keys \cup {NoKey},
                         expired : BOOLEAN, next : Cells \cup {Nil}]]
  /\ next \in [Cells \cup {ListHead} -> Cells \cup {ListHead}]
  /\ prev \in [Cells \cup {ListHead} -> Cells \cup {ListHead}]
  /\ count \in 0..MaxKeyCount
  /\ free \in [1..Stripings -> 0..PerStriping]
  /\ used \in [1..Stripings -> 0..PerStriping]
  /\ new \in Cells \cup {Nil} /\ old \in Cells \cup {Nil} /\ at \in Cells \cup {ListHead}
  /\ cleared \in Nat

LockInv ==
  /\ lock \in {"free", "writer"} \cup Readers
  /\ pc \in WriterSteps
  /\ lock = "writer" <=> pc # "idle"

StepInv ==
  /\ pc \in Setting \cup {"recycleKey"} => op = "set" /\ key \in Keys
  /\ pc = "freeEntry" => /\ op \in {"delete", "recycleKey", "recycleMem"}
                         /\ op # "delete" => key \in Keys
  /\ pc \in Setting \/ (pc = "freeEntry" /\ op = "recycleMem") => count < MaxKeyCount
  /\ pc \in Storing => new \in Cells
  /\ pc \in Storing \cup {"idle", "crashed"} => at = ListHead
  /\ pc \in {"freeEntry", "freeOld"} => old \in Cells

QueueInv == \A c \in Members \cup {ListHead} :
  prev[c] \in Members \cup {ListHead} /\ prev[next[c]] = c /\ next[prev[c]] = c

ListInv ==
  /\ QueueInv
  /\ count = Cardinality(Members)
  /\ \A c \in Members : cell[c].key \in Keys /\ cell[c].data = cell[c].key
  /\ at \in Members \cup {ListHead}
  /\ pc = "freeEntry" /\ op # "delete" => at # old

ChainInv == \A b \in Buckets :
  /\ Line(Virtual, bucket[b])
  /\ \A c \in Entries(b) :
       /\ cell[c].key \in Keys /\ BucketOf[cell[c].key] = b /\ cell[c].data = cell[c].key
       /\ \A d \in Entries(b) : cell[c].key = cell[d].key => c = d

AgreeInv ==
  /\ Linked = (Members \ (IF pc = "freeEntry" THEN {old} ELSE {}))
              \cup (IF Cut THEN {old} ELSE {})
              \cup (IF pc = "append" THEN {new} ELSE {})
  /\ pc \in {"freeEntry", "freeOld"} => old \in Members
  /\ pc \in Storing => new \notin Members

ReplaceInv ==
  /\ pc \in {"freeOld"} \/ Cut => /\ old \in Entries(BucketOf[key]) /\ cell[old].key = key
                              /\ old # new
  /\ pc = "freeEntry" => cell[old].next \in Entries(BucketOf[cell[old].key]) \cup {Nil}
  /\ pc = "freeOld" => cell[new].next = cell[old].next
  /\ Cut => old \notin Members /\ cell[old].next = Nil
  /\ pc \in {"storeKey", "storeValue", "link"} /\ old = Nil =>
       cell[new].next = Nil /\ \A c \in Entries(BucketOf[key]) : cell[c].key # key
  /\ pc \in {"storeValue", "link"} => cell[new].key = key
  /\ pc = "link" => cell[new].data = key

\* The cells of S are what the stripings have handed out and not got back.
Fits(S, fr, us) ==
  /\ \A c \in S : c <= (StripingOf(c) - 1) * PerStriping + fr[StripingOf(c)]
  /\ \A s \in 1..Stripings : /\ us[s] = Cardinality({c \in S : StripingOf(c) = s})
                             /\ us[s] <= fr[s]
SpaceInv == Fits(Live, free, used)

\* What a walk from cell a meets is whole.
Intact(a) == \A c \in Reach(HtNext, a) : cell[c].data = cell[c].key

TableInv ==
  /\ pc # "crashed" => ChainInv /\ AgreeInv /\ ReplaceInv /\ SpaceInv
  /\ pc = "crashed" => \A b \in Buckets : Intact(bucket[b])

GetType == [pc : Looking \cup {"idle", "entry", "row", "done"}, key : Keys \cup {NoKey},
            at : Cells \cup {Nil}, locked : BOOLEAN, match : SUBSET Keys, skip : Int, rows : Int,
            present : BOOLEAN, cut : BOOLEAN, spoilt : BOOLEAN]
GetInv ==
  /\ get \in [Readers -> GetType]
  /\ \A r \in Readers :
       /\ r \in Gets => get[r].key \in Keys
       /\ get[r].pc \in {"step", "found", "use", "row"} => get[r].at \in Cells

AwaitInv == /\ awaited \subseteq Gets
            /\ awaited # {} => pc \in {"sleepAlloc", "sleepEnd"}

\* What may be freed under an unspoilt get is not used again before it ends.
Guarded(r) ==
  \/ pc = "crashed"
  \/ r \in awaited
  \/ cleared > 0 /\ (Recycling \/ (pc = "freeEntry" /\ op # "delete"))

OwnBucket(r) == BucketOf[get[r].key]
OnTheWay(r) ==
  \/ get[r].at \in Entries(OwnBucket(r)) \cup {Nil}
  \/ pc = "freeEntry" /\ get[r].at = old /\ BucketOf[cell[old].key] = OwnBucket(r)

\* A get that is not spoilt meets whole entries only.
Clean(r) == ~get[r].spoilt =>
  /\ Intact(get[r].at)
  /\ Guarded(r) \/ OnTheWay(r)
  /\ get[r].pc \in {"found", "use"} => cell[get[r].at].key = get[r].key

\* A get in a chain that is cut knows it.
Warned(r) == Cut /\ BucketOf[key] = OwnBucket(r) => get[r].spoilt /\ get[r].cut

\* A get that was not cut has the entry of its key before it.
Led(r) == get[r].pc \in {"walk", "step"} /\ get[r].present /\ ~get[r].cut =>
  /\ \E c \in Reach(HtNext, get[r].at) : cell[c].key = get[r].key
  /\ get[r].pc = "step" => cell[get[r].at].key # get[r].key
  /\ pc # "crashed" => OnTheWay(r)

Sound(r) == Clean(r) /\ Warned(r) /\ Led(r)

\* A dump that is not spoilt stands on the list.
Listing(r) == ~get[r].spoilt => get[r].at \in Members \cup {ListHead} /\ count > 0

SoundInv == \A r \in Gets : Sound(r)
DumpInv == \A r \in Dumping : Listing(r)

WriterInv == TypeInv /\ LockInv /\ StepInv /\ ListInv /\ TableInv
ReaderInv == GetInv /\ AwaitInv /\ SoundInv /\ DumpInv
LinkInv == WriterInv /\ ReaderInv
-----------------------------------------------------------------------------
(* The list                                                                *)

LEMMA MembersFacts ==
  ASSUME TypeInv
  PROVE  /\ IsLink(next) /\ next[ListHead] \in Cells \cup {Nil}
         /\ Members \subseteq Cells /\ Closed(next, Members) /\ next[ListHead] \in Members \cup {Nil}
         /\ ListHead = Nil /\ Nil \notin Cells /\ Nil \notin Members
         /\ IsFiniteSet(Members) /\ Cardinality(Members) \in Nat
<1>1. ListHead = Nil /\ Nil \notin Cells
  BY NilIsNoCell DEF ListHead, Nil
<1>2. IsLink(next) /\ next[ListHead] \in Cells \cup {Nil}
  BY <1>1 DEF TypeInv, IsLink
<1>3. Members \subseteq Cells /\ Closed(next, Members) /\ next[ListHead] \in Members \cup {Nil}
  BY <1>2, ReachClosed DEF Members
<1>4. IsFiniteSet(Members) /\ Cardinality(Members) \in Nat
  BY <1>3, CellsFinite, FS_Subset, FS_CardinalityType
<1> QED
  BY <1>1, <1>2, <1>3, <1>4

LEMMA ListLine ==
  ASSUME TypeInv, QueueInv
  PROVE  Line(next, next[ListHead])
<1>1. /\ Closed(next, Members) /\ ListHead = Nil /\ Nil \notin Members /\ Members \subseteq Cells
  BY MembersFacts
<1>2. \A p, q \in Members \cup {ListHead} : next[p] = next[q] => p = q
  BY DEF QueueInv
<1>3. \A p \in Members : next[p] # next[ListHead]
  BY <1>1, <1>2
<1>4. Members # {} => \E p \in Members : next[p] = Nil
  <2>1. prev[ListHead] \in Members \cup {ListHead} /\ next[prev[ListHead]] = ListHead
    BY DEF QueueInv
  <2>2. next[ListHead] = Nil => Members = {}
    BY ReachNone DEF Members
  <2> QED
    BY <1>1, <2>1, <2>2
<1> QED
  BY <1>2, <1>3, <1>4 DEF Line, Members

LEMMA DeleteFromList ==
  ASSUME TypeInv, QueueInv, NEW c \in Members, ListDelete(c)
  PROVE  /\ Members' = Members \ {c} /\ QueueInv' /\ next[c] # c
         /\ next' \in [Cells \cup {ListHead} -> Cells \cup {ListHead}]
         /\ prev' \in [Cells \cup {ListHead} -> Cells \cup {ListHead}]
<1> DEFINE M == Members
           D == M \cup {Nil}
<1>1. /\ IsLink(next) /\ next[Nil] \in Cells \cup {Nil} /\ ListHead = Nil /\ Nil \notin Cells
      /\ M \subseteq Cells /\ Closed(next, M) /\ next[Nil] \in D
  BY MembersFacts
<1>3. Line(next, next[Nil])
  BY <1>1, ListLine
<1>4. next[c] # c
  BY <1>1, <1>3, LineNoLoop DEF Members
<1>5. /\ next \in [Cells \cup {Nil} -> Cells \cup {Nil}]
      /\ prev \in [Cells \cup {Nil} -> Cells \cup {Nil}]
  BY <1>1 DEF TypeInv
<1>6. /\ next' = [next EXCEPT ![prev[c]] = next[c], ![c] = c]
      /\ prev' = [prev EXCEPT ![next[c]] = prev[c], ![c] = c]
  BY <1>4 DEF ListDelete
<1>2. /\ next' \in [Cells \cup {Nil} -> Cells \cup {Nil}]
      /\ prev' \in [Cells \cup {Nil} -> Cells \cup {Nil}]
      /\ IsLink(next') /\ next'[Nil] \in Cells \cup {Nil}
  BY <1>1, <1>5, <1>6 DEF IsLink
<1>7. \A x \in D : /\ prev[x] \in D /\ next[x] \in D /\ x \in Cells \cup {Nil}
                   /\ prev[next[x]] = x /\ next[prev[x]] = x
  BY <1>1 DEF QueueInv, Closed
<1>8. prev[c] # c /\ c \in D /\ c # Nil
  BY <1>1, <1>4, <1>7
<1>9. \A x \in D \ {c} : next'[x] = IF next[x] = c THEN next[c] ELSE next[x]
  BY <1>5, <1>6, <1>7, <1>8
<1>10. \A x \in D \ {c} : prev'[x] = IF x = next[c] THEN prev[c] ELSE prev[x]
  BY <1>5, <1>6, <1>7, <1>8
<1>11. next'[Nil] = IF next[Nil] = c THEN next[c] ELSE next[Nil]
  BY <1>8, <1>9
<1>12. Reach(next', next'[Nil]) = Reach(next, next[Nil]) \ {c}
  <2>1. \A x \in Reach(next, next[Nil]) \ {c} : next'[x] = IF next[x] = c THEN next[c] ELSE next[x]
    BY <1>1, <1>9 DEF Members
  <2>2. c \in Reach(next, next[Nil])
    BY <1>1 DEF Members
  <2> QED
    BY <1>1, <1>2, <1>3, <1>11, <2>1, <2>2, LineRemove
<1>13. Members' = M \ {c}
  BY <1>1, <1>12 DEF Members
<1> HIDE DEF M
<1>14. \A x \in D \ {c} : /\ prev'[x] \in D \ {c}
                          /\ prev'[next'[x]] = x /\ next'[prev'[x]] = x
  <2> SUFFICES ASSUME NEW x \in D \ {c}
               PROVE  /\ prev'[x] \in D \ {c} /\ prev'[next'[x]] = x /\ next'[prev'[x]] = x
    OBVIOUS
  <2>1. prev'[x] \in D \ {c}
    BY <1>4, <1>7, <1>8, <1>10
  <2>2. next'[x] \in D \ {c}
    BY <1>4, <1>7, <1>8, <1>9
  <2>3. prev'[next'[x]] = x
    BY <1>4, <1>7, <1>8, <1>9, <1>10, <2>2
  <2>4. next'[prev'[x]] = x
    BY <1>4, <1>7, <1>8, <1>9, <1>10, <2>1
  <2> QED
    BY <2>1, <2>3, <2>4
<1>15. Members' \cup {ListHead} = D \ {c}
  BY <1>1, <1>8, <1>13
<1>16. QueueInv'
  BY <1>14, <1>15 DEF QueueInv
<1> QED
  BY <1>1, <1>2, <1>4, <1>13, <1>16 DEF M

LEMMA AddToList ==
  ASSUME TypeInv, QueueInv, NEW c \in Cells \ Members, ListAddTail(c)
  PROVE  /\ Members' = Members \cup {c} /\ QueueInv'
         /\ next' \in [Cells \cup {ListHead} -> Cells \cup {ListHead}]
         /\ prev' \in [Cells \cup {ListHead} -> Cells \cup {ListHead}]
<1> DEFINE M == Members
           D == M \cup {Nil}
<1>1. /\ IsLink(next) /\ next[Nil] \in Cells \cup {Nil} /\ ListHead = Nil /\ Nil \notin Cells
      /\ M \subseteq Cells /\ Closed(next, M) /\ next[Nil] \in D
  BY MembersFacts
<1>3. Line(next, next[Nil])
  BY <1>1, ListLine
<1>5. /\ next \in [Cells \cup {Nil} -> Cells \cup {Nil}]
      /\ prev \in [Cells \cup {Nil} -> Cells \cup {Nil}]
  BY <1>1 DEF TypeInv
<1>6. /\ next' = [next EXCEPT ![c] = Nil, ![prev[Nil]] = c]
      /\ prev' = [prev EXCEPT ![c] = prev[Nil], ![Nil] = c]
  BY <1>1 DEF ListAddTail
<1>2. /\ next' \in [Cells \cup {Nil} -> Cells \cup {Nil}]
      /\ prev' \in [Cells \cup {Nil} -> Cells \cup {Nil}]
      /\ IsLink(next') /\ next'[Nil] \in Cells \cup {Nil}
  BY <1>1, <1>5, <1>6 DEF IsLink
<1>7. \A x \in D : /\ prev[x] \in D /\ next[x] \in D /\ x \in Cells \cup {Nil}
                   /\ prev[next[x]] = x /\ next[prev[x]] = x
  BY <1>1 DEF QueueInv, Closed
<1>8. c \notin D /\ c # Nil /\ c \in Cells
  BY <1>1
<1> HIDE DEF M
<1>9. next'[c] = Nil /\ \A x \in D : next'[x] = IF next[x] = Nil THEN c ELSE next[x]
  BY <1>5, <1>6, <1>7, <1>8
<1>10. prev'[c] = prev[Nil] /\ \A x \in D : prev'[x] = IF x = Nil THEN c ELSE prev[x]
  BY <1>5, <1>6, <1>7, <1>8
<1>11. next[Nil] = Nil <=> M = {}
  <2>1. next[Nil] = Nil => M = {}
    BY <1>1, ReachNone DEF Members, M
  <2> QED
    BY <1>1, <2>1
<1>12. Reach(next', next'[Nil]) = Reach(next, next[Nil]) \cup {c}
  <2>1. \A x \in Reach(next, next[Nil]) : next'[x] = IF next[x] = Nil THEN c ELSE next[x]
    BY <1>1, <1>9 DEF Members, M
  <2>2. c \in Cells \ Reach(next, next[Nil])
    BY <1>1 DEF Members
  <2>3. next'[Nil] = IF Reach(next, next[Nil]) = {} THEN c ELSE next[Nil]
    BY <1>1, <1>9, <1>11 DEF Members, M
  <2> QED
    BY <1>1, <1>2, <1>3, <1>9, <2>1, <2>2, <2>3, LineAppend
<1>13. Members' = M \cup {c}
  BY <1>1, <1>12 DEF Members, M
<1>14. \A x \in D \cup {c} : /\ prev'[x] \in D \cup {c}
                          /\ prev'[next'[x]] = x /\ next'[prev'[x]] = x
  <2> SUFFICES ASSUME NEW x \in D \cup {c}
               PROVE  /\ prev'[x] \in D \cup {c} /\ prev'[next'[x]] = x /\ next'[prev'[x]] = x
    OBVIOUS
  <2>1. prev'[x] \in D \cup {c}
    BY <1>7, <1>8, <1>10
  <2>3. prev'[next'[x]] = x
    BY <1>7, <1>8, <1>9, <1>10
  <2>4. next'[prev'[x]] = x
    BY <1>7, <1>8, <1>9, <1>10
  <2> QED
    BY <2>1, <2>3, <2>4
<1>15. Members' \cup {ListHead} = D \cup {c}
  BY <1>1, <1>13
<1>16. QueueInv'
  BY <1>14, <1>15 DEF QueueInv
<1> QED
  BY <1>1, <1>2, <1>13, <1>16 DEF M

\* The list, as TLC and the properties have it.
LEMMA ListedIs ==
  TypeInv /\ QueueInv =>
    /\ Listed \in Seq(Cells) /\ Len(Listed) = Cardinality(Members) /\ ToSet(Listed) = Members
    /\ \A i, j \in 1..Len(Listed) : Listed[i] = Listed[j] => i = j
    /\ next[ListHead] = IF Listed = <<>> THEN ListHead ELSE Listed[1]
    /\ \A i \in 1..Len(Listed) :
         next[Listed[i]] = IF i = Len(Listed) THEN ListHead ELSE Listed[i + 1]
<1> SUFFICES ASSUME TypeInv, QueueInv
             PROVE  /\ Listed \in Seq(Cells) /\ Len(Listed) = Cardinality(Members)
                    /\ ToSet(Listed) = Members
                    /\ \A i, j \in 1..Len(Listed) : Listed[i] = Listed[j] => i = j
                    /\ next[ListHead] = IF Listed = <<>> THEN ListHead ELSE Listed[1]
                    /\ \A i \in 1..Len(Listed) :
                         next[Listed[i]] = IF i = Len(Listed) THEN ListHead ELSE Listed[i + 1]
  OBVIOUS
<1>1. Listed = ListedIn(next)
  BY DEF Listed, ListedIn, InListIn, NthIn
<1>2. next \in [Cells \cup {ListHead} -> Cells \cup {ListHead}]
      /\ \A c \in Reach(next, next[ListHead]) \cup {ListHead} : prev[next[c]] = c
  BY DEF TypeInv, QueueInv, Members
<1> QED
  BY <1>1, <1>2, ListedInIs DEF Members

LEMMA ChainIs ==
  TypeInv => \A b \in Buckets : Chain(b) = Reach(HtNext, bucket[b])
<1> SUFFICES ASSUME TypeInv, NEW b \in Buckets PROVE Chain(b) = Reach(HtNext, bucket[b])
  OBVIOUS
<1>1. Chain(b) = WithinIn(cell, bucket[b])[Cardinality(Cells)] \ {Nil}
  BY DEF Chain, WithinIn
<1>2. \A c \in Cells : cell[c].next \in Cells \cup {Nil} /\ HtNext[c] = cell[c].next
  BY DEF TypeInv, HtNext
<1>3. bucket[b] \in Cells \cup {Nil}
  BY DEF TypeInv
<1> QED
  BY <1>1, <1>2, <1>3, WithinIsReach

LEMMA LinkTypes ==
  ASSUME TypeInv, StepInv
  PROVE  /\ IsLink(HtNext) /\ IsLink(Virtual)
         /\ \A b \in Buckets : bucket[b] \in Cells \cup {Nil}
         /\ \A c \in Cells : HtNext[c] = cell[c].next
         /\ ~Cut => Virtual = HtNext
         /\ Cut => /\ old \in Cells /\ new \in Cells
                   /\ \A c \in Cells : Virtual[c] = IF c = old THEN cell[new].next ELSE cell[c].next
<1>1. \A c \in Cells : cell[c].next \in Cells \cup {Nil}
  BY DEF TypeInv
<1>2. \A c \in Cells : HtNext[c] = cell[c].next
  BY DEF HtNext
<1>3. Cut => old \in Cells /\ new \in Cells
  BY DEF Cut, TypeInv, StepInv, Storing
<1>4. Cut => \A c \in Cells : Virtual[c] = IF c = old THEN cell[new].next ELSE cell[c].next
  BY <1>2 DEF Virtual, HtNext
<1>5. ~Cut => Virtual = HtNext
  BY DEF Virtual
<1>6. IsLink(HtNext) /\ IsLink(Virtual)
  BY <1>1, <1>2, <1>3, <1>4, <1>5 DEF IsLink
<1>7. \A b \in Buckets : bucket[b] \in Cells \cup {Nil}
  BY DEF TypeInv
<1> QED
  BY <1>2, <1>3, <1>4, <1>5, <1>6, <1>7

LEMMA VirtualIs ==
  TypeInv /\ StepInv =>
    /\ IsLink(HtNext) /\ IsLink(Virtual) /\ (~Cut => Virtual = HtNext)
    /\ (Cut => \A c \in Cells : Virtual[c] = IF c = old THEN cell[new].next ELSE cell[c].next)
<1> SUFFICES ASSUME TypeInv, StepInv
             PROVE  /\ IsLink(HtNext) /\ IsLink(Virtual) /\ (~Cut => Virtual = HtNext)
                    /\ (Cut => \A c \in Cells : Virtual[c] = IF c = old THEN cell[new].next ELSE cell[c].next)
  OBVIOUS
<1> QED
  BY LinkTypes

LEMMA EntriesFacts ==
  ASSUME TypeInv, StepInv, NEW b \in Buckets
  PROVE  /\ Entries(b) \subseteq Cells /\ Closed(Virtual, Entries(b))
         /\ bucket[b] \in Entries(b) \cup {Nil} /\ Nil \notin Entries(b)
BY LinkTypes, ReachClosed, NilIsNoCell DEF Entries
-----------------------------------------------------------------------------
(* Steps that leave the table alone                                        *)

Plain == {"idle", "recycleKey", "recycleMem", "alloc", "sleepAlloc", "sleepEnd"}

\* At a plain step the invariant of the table says this.
Settled ==
  /\ \A b \in Buckets :
       /\ Line(HtNext, bucket[b])
       /\ \A c \in Reach(HtNext, bucket[b]) :
            /\ cell[c].key \in Keys /\ BucketOf[cell[c].key] = b /\ cell[c].data = cell[c].key
            /\ \A d \in Reach(HtNext, bucket[b]) : cell[c].key = cell[d].key => c = d
  /\ UNION {Reach(HtNext, bucket[b]) : b \in Buckets} = Members
  /\ Fits(Members, free, used)

LEMMA PlainSettled == pc \in Plain => (TableInv <=> Settled)
<1> SUFFICES ASSUME pc \in Plain PROVE TableInv <=> Settled
  OBVIOUS
<1>1. pc \notin Storing /\ pc \notin {"freeEntry", "append", "crashed", "freeOld", "storeKey", "storeValue", "link"}
  BY DEF Plain, Storing
<1>2. ~Cut /\ Virtual = HtNext /\ Live = Members
  BY <1>1 DEF Cut, Virtual, Live
<1>3. \A b : Entries(b) = Reach(HtNext, bucket[b])
  BY <1>2 DEF Entries
<1>4. Linked = UNION {Reach(HtNext, bucket[b]) : b \in Buckets}
  BY <1>3 DEF Linked
<1>5. ReplaceInv
  BY <1>1, <1>2 DEF ReplaceInv
<1>6. AgreeInv <=> UNION {Reach(HtNext, bucket[b]) : b \in Buckets} = Members
  BY <1>1, <1>2, <1>4 DEF AgreeInv
<1>7. SpaceInv <=> Fits(Members, free, used)
  BY <1>2 DEF SpaceInv
<1>8. ChainInv <=> \A b \in Buckets :
       /\ Line(HtNext, bucket[b])
       /\ \A c \in Reach(HtNext, bucket[b]) :
            /\ cell[c].key \in Keys /\ BucketOf[cell[c].key] = b /\ cell[c].data = cell[c].key
            /\ \A d \in Reach(HtNext, bucket[b]) : cell[c].key = cell[d].key => c = d
  BY <1>2, <1>3 DEF ChainInv
<1> QED
  BY <1>1, <1>5, <1>6, <1>7, <1>8 DEF TableInv, Settled

LEMMA TableAlone ==
  ASSUME pc \in Plain, pc' \in Plain, TableInv, UNCHANGED table
  PROVE  TableInv'
<1>1. Settled
  BY PlainSettled
<1>2. Settled'
  <2>1. HtNext' = HtNext /\ Members' = Members /\ UNCHANGED <<bucket, cell, free, used>>
    BY DEF table, HtNext, Members
  <2> QED
    BY <1>1, <2>1 DEF Settled
<1>3. (pc \in Plain => (TableInv <=> Settled))'
  BY PlainSettled, PTL
<1> QED
  BY <1>2, <1>3

LEMMA ListAlone ==
  ASSUME ListInv, UNCHANGED table, at' \in Members \cup {ListHead}, pc' # "freeEntry"
  PROVE  ListInv'
<1>1. Members' = Members
  BY DEF Members, table
<1> QED
  BY <1>1 DEF ListInv, QueueInv, table

\* The loop of shm_value_allocator_recycle stays within the list.
LEMMA NextMember ==
  ASSUME TypeInv, NEW c \in Members \cup {ListHead}
  PROVE  next[c] \in Members \cup {ListHead} /\ next[c] \in Cells \cup {ListHead}
BY MembersFacts DEF Closed

LEMMA SetStep ==
  ASSUME WriterInv, NEW k \in Keys, Set(k)
  PROVE  WriterInv'
<1>1. /\ TypeInv /\ LockInv /\ StepInv /\ ListInv /\ TableInv
      /\ lock = "free" /\ lock' = "writer" /\ op' = "set" /\ key' = k
      /\ UNCHANGED table /\ UNCHANGED new /\ UNCHANGED old
      /\ \/ pc' = "recycleKey" /\ at' = next[ListHead] /\ cleared' = 0
         \/ pc' = "alloc" /\ count < MaxKeyCount /\ UNCHANGED at /\ UNCHANGED cleared
  <2>1. count \in Int /\ MaxKeyCount \in Int
    BY TableAssumption DEF WriterInv, TypeInv
  <2>2. /\ TypeInv /\ LockInv /\ StepInv /\ ListInv /\ TableInv
        /\ lock = "free" /\ lock' = "writer" /\ op' = "set" /\ key' = k
        /\ UNCHANGED table /\ UNCHANGED new /\ UNCHANGED old
    BY DEF WriterInv, Set, Acquire
  <2>3. IF count >= MaxKeyCount THEN EnterLoop("recycleKey") ELSE Goto("alloc") /\ UNCHANGED loop
    BY DEF Set
  <2>4. CASE count >= MaxKeyCount
    BY <2>2, <2>3, <2>4 DEF EnterLoop, Goto
  <2>5. CASE ~(count >= MaxKeyCount)
    BY <2>1, <2>2, <2>3, <2>5 DEF Goto, loop
  <2> QED
    BY <2>4, <2>5
<1>2. pc = "idle"
  BY <1>1 DEF LockInv
<1>3. at' \in Members \cup {ListHead} /\ at' \in Cells \cup {ListHead} /\ cleared' \in Nat
  BY <1>1, NextMember DEF ListInv, TypeInv
<1>4. TypeInv'
  BY <1>1, <1>3 DEF TypeInv, table
<1>5. LockInv'
  BY <1>1 DEF LockInv, WriterSteps, Setting
<1>6. StepInv'
  BY <1>1 DEF StepInv, Setting, Storing, table
<1>7. ListInv'
  BY <1>1, <1>3, ListAlone
<1>8. TableInv'
  BY <1>1, <1>2, TableAlone DEF Plain
<1> QED
  BY <1>4, <1>5, <1>6, <1>7, <1>8 DEF WriterInv

LEMMA SkipStep ==
  ASSUME WriterInv, Skip
  PROVE  WriterInv'
<1>1. /\ TypeInv /\ LockInv /\ StepInv /\ ListInv /\ TableInv
      /\ pc \in {"recycleKey", "recycleMem"} /\ at # ListHead /\ at' = next[at]
      /\ UNCHANGED table /\ UNCHANGED <<lock, pc, op, key, new, old, cleared>>
  BY DEF WriterInv, Skip, Recycling
<1>2. at' \in Members \cup {ListHead} /\ at' \in Cells \cup {ListHead}
  BY <1>1, NextMember DEF ListInv
<1>3. TypeInv'
  BY <1>1, <1>2 DEF TypeInv, table
<1>4. LockInv' /\ StepInv'
  BY <1>1 DEF LockInv, StepInv, table
<1>5. ListInv'
  BY <1>1, <1>2, ListAlone
<1>6. TableInv'
  BY <1>1, TableAlone DEF Plain
<1> QED
  BY <1>3, <1>4, <1>5, <1>6 DEF WriterInv

LEMMA FinishFacts ==
  ASSUME Finish
  PROVE  /\ lock' = "free" /\ pc' = "idle" /\ new' = Nil /\ old' = Nil /\ at' = ListHead
         /\ cleared' = 0 /\ op' = "none"
BY DEF Finish, LeaveLoop, Goto

LEMMA FinishStep ==
  ASSUME TypeInv, LockInv, Finish
  PROVE  LockInv' /\ StepInv'
<1>1. pc' = "idle" /\ lock' = "free" /\ at' = ListHead
  BY FinishFacts
<1> QED
  BY <1>1 DEF LockInv, StepInv, WriterSteps, Setting, Storing

LEMMA FinishAlone ==
  ASSUME WriterInv, Finish, UNCHANGED table, pc \in Plain
  PROVE  WriterInv'
<1>1. /\ TypeInv /\ LockInv /\ StepInv /\ ListInv /\ TableInv
  BY DEF WriterInv
<1>2. pc' = "idle" /\ new' = Nil /\ old' = Nil /\ at' = ListHead /\ cleared' = 0
  BY FinishFacts
<1>3. TypeInv'
  BY <1>1, <1>2 DEF TypeInv, table
<1>4. LockInv' /\ StepInv'
  BY <1>1, FinishStep
<1>5. ListInv'
  BY <1>1, <1>2, ListAlone
<1>6. TableInv'
  BY <1>1, <1>2, TableAlone DEF Plain
<1> QED
  BY <1>3, <1>4, <1>5, <1>6 DEF WriterInv

LEMMA RecycleFailsStep ==
  ASSUME WriterInv, RecycleFails
  PROVE  WriterInv'
BY FinishAlone DEF RecycleFails, Recycling, Plain

LEMMA AwakeStep ==
  ASSUME WriterInv, Awake
  PROVE  WriterInv'
<1>1. CASE pc = "sleepEnd"
  BY <1>1, FinishAlone DEF Awake, Plain
<1>2. CASE pc = "sleepAlloc"
  <2>1. /\ TypeInv /\ LockInv /\ StepInv /\ ListInv /\ TableInv
        /\ pc' = "alloc" /\ UNCHANGED table /\ UNCHANGED <<lock, op, key, new, old, at, cleared>>
    BY <1>2 DEF WriterInv, Awake, Goto, loop
  <2>2. TypeInv'
    BY <2>1 DEF TypeInv, table
  <2>3. LockInv' /\ StepInv'
    BY <1>2, <2>1 DEF LockInv, StepInv, WriterSteps, Setting, Storing, table
  <2>4. ListInv'
    BY <2>1, ListAlone DEF ListInv
  <2>5. TableInv'
    BY <1>2, <2>1, TableAlone DEF Plain
  <2> QED
    BY <2>2, <2>3, <2>4, <2>5 DEF WriterInv
<1> QED
  BY <1>1, <1>2 DEF Awake

LEMMA NoRoomStep ==
  ASSUME WriterInv, NoRoom
  PROVE  WriterInv'
<1>1. /\ TypeInv /\ LockInv /\ StepInv /\ ListInv /\ TableInv
      /\ pc = "alloc" /\ pc' = "recycleMem" /\ at' = next[ListHead] /\ cleared' = 0
      /\ UNCHANGED table /\ UNCHANGED <<lock, op, key, new, old>>
  BY DEF WriterInv, NoRoom, EnterLoop, Goto
<1>2. at' \in Members \cup {ListHead} /\ at' \in Cells \cup {ListHead}
  BY <1>1, NextMember
<1>3. TypeInv'
  BY <1>1, <1>2 DEF TypeInv, table
<1>4. LockInv' /\ StepInv'
  BY <1>1 DEF LockInv, StepInv, WriterSteps, Setting, Storing, table
<1>5. ListInv'
  BY <1>1, <1>2, ListAlone
<1>6. TableInv'
  BY <1>1, TableAlone DEF Plain
<1> QED
  BY <1>3, <1>4, <1>5, <1>6 DEF WriterInv

\* A walk through a chain, also a cut one, meets entries of the bucket only.
LEMMA ChainWithin ==
  ASSUME TypeInv, StepInv, ReplaceInv, NEW b \in Buckets
  PROVE  Reach(HtNext, bucket[b]) \subseteq Entries(b)
<1>1. IsLink(HtNext) /\ IsLink(Virtual) /\ bucket[b] \in Cells \cup {Nil}
  BY LinkTypes
<1>2. Entries(b) \subseteq Cells /\ Closed(Virtual, Entries(b)) /\ bucket[b] \in Entries(b) \cup {Nil}
  BY EntriesFacts
<1>3. CASE ~Cut
  BY <1>3, LinkTypes DEF Entries
<1>4. CASE Cut /\ cell[old].next = Nil
  <2>1. \A c \in Cells : c # old => HtNext[c] = Virtual[c]
    BY <1>4, LinkTypes
  <2>2. HtNext[old] = Nil
    BY <1>4, LinkTypes
  <2>3. Closed(HtNext, Entries(b))
    BY <1>2, <2>1, <2>2 DEF Closed
  <2> QED
    BY <1>2, <2>3, ReachLeast
<1> QED
  BY <1>3, <1>4 DEF ReplaceInv
-----------------------------------------------------------------------------
(* shm_ht_delete_ex                                                        *)

LEMMA SettledFacts ==
  ASSUME TypeInv, Settled
  PROVE  /\ IsLink(HtNext)
         /\ \A b \in Buckets : bucket[b] \in Cells \cup {Nil} /\ Reach(HtNext, bucket[b]) \subseteq Members
         /\ \A c \in Members : /\ cell[c].key \in Keys /\ BucketOf[cell[c].key] \in Buckets
                               /\ c \in Reach(HtNext, bucket[BucketOf[cell[c].key]])
<1>1. IsLink(HtNext) /\ \A b \in Buckets : bucket[b] \in Cells \cup {Nil}
  BY DEF TypeInv, IsLink, HtNext
<1>2. \A b \in Buckets : Reach(HtNext, bucket[b]) \subseteq Members
  BY DEF Settled
<1>3. ASSUME NEW c \in Members
      PROVE  /\ cell[c].key \in Keys /\ BucketOf[cell[c].key] \in Buckets
             /\ c \in Reach(HtNext, bucket[BucketOf[cell[c].key]])
  <2>1. PICK b \in Buckets : c \in Reach(HtNext, bucket[b])
    BY DEF Settled
  <2> QED
    BY <2>1 DEF Settled
<1> QED
  BY <1>1, <1>2, <1>3

\* What pointed to the entry, a cell of its chain or the bucket, points past it.
LEMMA UnlinkEffect ==
  ASSUME TypeInv, Settled, NEW c \in Members, Unlink(c)
  PROVE  LET b == BucketOf[cell[c].key]
             R == Reach(HtNext, bucket[b])
         IN  /\ bucket' \in [Buckets -> Cells \cup {Nil}]
             /\ cell' \in [Cells -> [key : Keys \cup {NoKey}, data : Keys \cup {NoKey},
                                     expired : BOOLEAN, next : Cells \cup {Nil}]]
             /\ \A x \in Cells : /\ cell'[x].key = cell[x].key /\ cell'[x].data = cell[x].data
                                 /\ HtNext'[x] = IF x \in R /\ HtNext[x] = c THEN HtNext[c] ELSE HtNext[x]
             /\ bucket'[b] = IF bucket[b] = c THEN HtNext[c] ELSE bucket[b]
             /\ \A d \in Buckets : d # b => bucket'[d] = bucket[d]
             /\ IsLink(HtNext')
             /\ pc' = "freeEntry" /\ old' = c /\ c \in R /\ b \in Buckets /\ HtNext[c] # c
<1> DEFINE b == BucketOf[cell[c].key]
           R == Reach(HtNext, bucket[b])
           P == Previous(b, c)
           to == cell[c].next
<1>1. /\ IsLink(HtNext) /\ b \in Buckets /\ c \in R /\ c \in Cells
      /\ bucket[b] \in Cells \cup {Nil} /\ R \subseteq Cells /\ Line(HtNext, bucket[b])
  BY SettledFacts, MembersFacts, ReachClosed DEF Settled
<1>2. P = {p \in R : cell[p].next = c}
  BY <1>1, ChainIs DEF Previous
<1>3. HtNext[c] # c /\ \A x \in Cells : HtNext[x] = cell[x].next
  BY <1>1, LineNoLoop DEF HtNext
<1>4. P = {} <=> bucket[b] = c
  <2>1. bucket[b] = c => P = {}
    BY <1>1, <1>2, <1>3 DEF Line
  <2>2. bucket[b] # c => P # {}
    BY <1>1, <1>2, <1>3, ReachPrevious
  <2> QED
    BY <2>1, <2>2
<1>5. /\ bucket' = IF P = {} THEN [bucket EXCEPT ![b] = to] ELSE bucket
      /\ cell' = [p \in Cells |-> IF p \in P THEN [cell[p] EXCEPT !.next = to] ELSE cell[p]]
      /\ pc' = "freeEntry" /\ old' = c
  BY DEF Unlink, PointTo, Goto
<1>6. to \in Cells \cup {Nil} /\ to = HtNext[c]
  BY <1>1, <1>3 DEF IsLink
<1> HIDE DEF P, to, R, b
<1>7. bucket' \in [Buckets -> Cells \cup {Nil}]
  BY <1>1, <1>5, <1>6 DEF TypeInv
<1>8. cell' \in [Cells -> [key : Keys \cup {NoKey}, data : Keys \cup {NoKey},
                           expired : BOOLEAN, next : Cells \cup {Nil}]]
  BY <1>5, <1>6 DEF TypeInv
<1>9. \A x \in Cells : cell'[x].key = cell[x].key /\ cell'[x].data = cell[x].data
  BY <1>5 DEF TypeInv
<1>10. \A x \in Cells : cell'[x].next = IF x \in P THEN to ELSE cell[x].next
  BY <1>5 DEF TypeInv
<1>11. \A x \in Cells : HtNext'[x] = cell'[x].next
  BY DEF HtNext
<1>12. \A x \in Cells : HtNext'[x] = IF x \in R /\ HtNext[x] = c THEN HtNext[c] ELSE HtNext[x]
  BY <1>2, <1>3, <1>6, <1>10, <1>11
<1>13. bucket'[b] = IF bucket[b] = c THEN HtNext[c] ELSE bucket[b]
  BY <1>1, <1>4, <1>5, <1>6 DEF TypeInv
<1>14. \A d \in Buckets : d # b => bucket'[d] = bucket[d]
  BY <1>1, <1>5 DEF TypeInv
<1>15. IsLink(HtNext')
  BY <1>8, <1>11 DEF IsLink
<1> QED
  BY <1>1, <1>3, <1>5, <1>7, <1>8, <1>9, <1>12, <1>13, <1>14, <1>15 DEF b, R

LEMMA UnlinkTable ==
  ASSUME TypeInv, Settled, NEW c \in Members, Unlink(c), UNCHANGED <<prev, next, free, used>>
  PROVE  /\ TableInv' /\ Members' = Members
         /\ \A d \in Buckets : Reach(HtNext', bucket'[d]) = Reach(HtNext, bucket[d]) \ {c}
<1> DEFINE b == BucketOf[cell[c].key]
           R == Reach(HtNext, bucket[b])
<1>1. /\ \A x \in Cells : /\ cell'[x].key = cell[x].key /\ cell'[x].data = cell[x].data
                          /\ HtNext'[x] = IF x \in R /\ HtNext[x] = c THEN HtNext[c] ELSE HtNext[x]
      /\ bucket'[b] = IF bucket[b] = c THEN HtNext[c] ELSE bucket[b]
      /\ \A d \in Buckets : d # b => bucket'[d] = bucket[d]
      /\ IsLink(HtNext') /\ bucket' \in [Buckets -> Cells \cup {Nil}]
      /\ pc' = "freeEntry" /\ old' = c /\ c \in R /\ b \in Buckets
  BY UnlinkEffect
<1>2. /\ IsLink(HtNext) /\ \A d \in Buckets : bucket[d] \in Cells \cup {Nil}
      /\ \A d \in Buckets : Reach(HtNext, bucket[d]) \subseteq Cells
  BY SettledFacts, ReachClosed
<1>3. \A d \in Buckets : d # b => Reach(HtNext, bucket[d]) \cap R = {}
  BY <1>1 DEF Settled
<1>4. ASSUME NEW d \in Buckets
      PROVE  Reach(HtNext', bucket'[d]) = Reach(HtNext, bucket[d]) \ {c} /\ Line(HtNext', bucket'[d])
  <2>1. Line(HtNext, bucket[d]) /\ bucket'[d] \in Cells \cup {Nil}
    BY <1>1 DEF Settled
  <2>2. CASE d = b
    <3>1. \A x \in Reach(HtNext, bucket[b]) \ {c} : HtNext'[x] = IF HtNext[x] = c THEN HtNext[c] ELSE HtNext[x]
      BY <1>1, <1>2
    <3> HIDE DEF b
    <3> QED
      BY <1>1, <1>2, <2>1, <2>2, <3>1, LineRemove
  <2>3. CASE d # b
    <3>1. \A x \in Reach(HtNext, bucket[d]) : HtNext'[x] = HtNext[x]
      BY <1>1, <1>2, <1>3, <2>3
    <3>2. bucket'[d] = bucket[d]
      BY <1>1, <2>3
    <3>3. Reach(HtNext', bucket'[d]) = Reach(HtNext, bucket[d]) /\ Line(HtNext', bucket'[d])
      BY <1>1, <1>2, <2>1, <3>1, <3>2, ReachSame
    <3>4. c \notin Reach(HtNext, bucket[d])
      BY <1>1, <1>3, <2>3
    <3> QED
      BY <3>3, <3>4
  <2> QED
    BY <2>2, <2>3
<1>5. Members' = Members
  BY DEF Members
<1>6. ~Cut' /\ Virtual' = HtNext' /\ \A d : Entries(d)' = Reach(HtNext', bucket'[d])
  BY <1>1 DEF Cut, Virtual, Entries
<1>7. ChainInv'
  <2> SUFFICES ASSUME NEW d \in Buckets
               PROVE  /\ Line(HtNext', bucket'[d])
                      /\ \A x \in Reach(HtNext, bucket[d]) \ {c} :
                           /\ cell'[x].key \in Keys /\ BucketOf[cell'[x].key] = d /\ cell'[x].data = cell'[x].key
                           /\ \A y \in Reach(HtNext, bucket[d]) \ {c} : cell'[x].key = cell'[y].key => x = y
    BY <1>4, <1>6 DEF ChainInv
  <2>1. \A x \in Reach(HtNext, bucket[d]) : cell'[x].key = cell[x].key /\ cell'[x].data = cell[x].data
    BY <1>1, <1>2
  <2>2. \A x \in Reach(HtNext, bucket[d]) :
          /\ cell[x].key \in Keys /\ BucketOf[cell[x].key] = d /\ cell[x].data = cell[x].key
          /\ \A y \in Reach(HtNext, bucket[d]) : cell[x].key = cell[y].key => x = y
    BY DEF Settled
  <2> QED
    BY <1>4, <2>1, <2>2
<1>8. AgreeInv'
  <2>1. Linked' = UNION {Reach(HtNext', bucket'[d]) : d \in Buckets}
    BY <1>6 DEF Linked
  <2>2. UNION {Reach(HtNext', bucket'[d]) : d \in Buckets} = (UNION {Reach(HtNext, bucket[d]) : d \in Buckets}) \ {c}
    <3>1. \A d \in Buckets : Reach(HtNext', bucket'[d]) = Reach(HtNext, bucket[d]) \ {c}
      BY <1>4
    <3> QED
      BY <3>1
  <2>3. UNION {Reach(HtNext, bucket[d]) : d \in Buckets} = Members
    BY DEF Settled
  <2>4. Linked' = Members \ {c}
    BY <2>1, <2>2, <2>3
  <2>5. pc' = "freeEntry" /\ old' = c /\ ~Cut' /\ pc' \notin Storing
    BY <1>1, <1>6 DEF Storing
  <2> QED
    BY <1>5, <2>4, <2>5 DEF AgreeInv
<1>9. ReplaceInv'
  <2>1. HtNext[c] \in R \cup {Nil} /\ HtNext[c] # c /\ c \in Cells
    BY <1>1, <1>2, UnlinkEffect, ReachClosed DEF Closed
  <2>2. HtNext'[c] = HtNext[c] /\ HtNext'[c] = cell'[c].next /\ cell'[c].key = cell[c].key
    BY <1>1, <2>1 DEF HtNext
  <2>3. \A d \in Buckets : Entries(d)' = Reach(HtNext, bucket[d]) \ {c}
    BY <1>4, <1>6
  <2>4. PICK d \in Buckets : d = b
    BY <1>1
  <2>5. cell'[c].next \in Entries(d)' \cup {Nil}
    BY <2>1, <2>2, <2>3, <2>4
  <2>6. BucketOf[cell'[old'].key] = d
    BY <1>1, <2>2, <2>4
  <2> QED
    BY <1>1, <1>6, <2>5, <2>6 DEF ReplaceInv
<1>10. SpaceInv'
  <2>1. Live' = Members
    BY <1>1, <1>5 DEF Live, Storing
  <2> QED
    BY <2>1 DEF SpaceInv, Settled
<1>11. TableInv'
  BY <1>1, <1>7, <1>8, <1>9, <1>10 DEF TableInv
<1> QED
  BY <1>4, <1>5, <1>11

LEMMA DeleteStep ==
  ASSUME WriterInv, NEW k \in Keys, Delete(k)
  PROVE  /\ WriterInv' /\ pc = "idle" /\ EntryOf(k) \in Members /\ cell[EntryOf(k)].key = k
         /\ Unlink(EntryOf(k))
<1> DEFINE c == EntryOf(k)
<1>1. /\ TypeInv /\ LockInv /\ StepInv /\ ListInv /\ TableInv
      /\ lock = "free" /\ lock' = "writer" /\ op' = "delete" /\ key' = k /\ Holds(k)
      /\ Unlink(c) /\ UNCHANGED <<prev, next, count, free, used, new, loop>>
  BY DEF WriterInv, Delete, Acquire
<1>2. pc = "idle" /\ Settled
  BY <1>1, PlainSettled DEF LockInv, Plain
<1>3. c \in Chain(BucketOf[k]) /\ cell[c].key = k
  BY <1>1 DEF Holds, EntryOf
<1>4. c \in Members /\ c \in Cells
  BY <1>1, <1>2, <1>3, ChainIs, SettledFacts, MembersFacts, TableAssumption
<1> HIDE DEF c
<1>5. /\ bucket' \in [Buckets -> Cells \cup {Nil}]
      /\ cell' \in [Cells -> [key : Keys \cup {NoKey}, data : Keys \cup {NoKey},
                              expired : BOOLEAN, next : Cells \cup {Nil}]]
      /\ \A x \in Cells : cell'[x].key = cell[x].key /\ cell'[x].data = cell[x].data
      /\ pc' = "freeEntry" /\ old' = c
  BY <1>1, <1>2, <1>4, UnlinkEffect
<1>6. TableInv' /\ Members' = Members
  BY <1>1, <1>2, <1>4, UnlinkTable
<1>7. TypeInv'
  BY <1>1, <1>4, <1>5 DEF TypeInv, loop
<1>8. LockInv'
  BY <1>1, <1>5 DEF LockInv, WriterSteps
<1>9. StepInv'
  BY <1>1, <1>4, <1>5 DEF StepInv, Setting, Storing
<1>10. ListInv'
  <2>1. QueueInv'
    BY <1>1, <1>6 DEF ListInv, QueueInv
  <2>2. \A x \in Members : cell'[x].key \in Keys /\ cell'[x].data = cell'[x].key
    BY <1>1, <1>5, MembersFacts DEF ListInv
  <2> QED
    BY <1>1, <1>6, <2>1, <2>2 DEF ListInv, loop
<1> QED
  BY <1>1, <1>2, <1>3, <1>4, <1>6, <1>7, <1>8, <1>9, <1>10 DEF WriterInv, c

LEMMA RecycleStep ==
  ASSUME WriterInv, Recycle
  PROVE  /\ WriterInv' /\ pc \in {"recycleKey", "recycleMem"} /\ at \in Members /\ op' = pc
         /\ Unlink(at)
<1>1. /\ TypeInv /\ LockInv /\ StepInv /\ ListInv /\ TableInv
      /\ pc \in {"recycleKey", "recycleMem"} /\ at # ListHead /\ at' = next[at] /\ op' = pc
      /\ Unlink(at) /\ UNCHANGED <<prev, next, count, free, used, lock, key, new, cleared>>
  BY DEF WriterInv, Recycle, Recycling
<1>2. Settled
  BY <1>1, PlainSettled DEF Plain
<1>3. at \in Members /\ at \in Cells
  BY <1>1, MembersFacts DEF ListInv
<1>4. at' \in Members \cup {ListHead} /\ at' \in Cells \cup {ListHead}
  BY <1>1, <1>3, NextMember
<1>5. /\ bucket' \in [Buckets -> Cells \cup {Nil}]
      /\ cell' \in [Cells -> [key : Keys \cup {NoKey}, data : Keys \cup {NoKey},
                              expired : BOOLEAN, next : Cells \cup {Nil}]]
      /\ \A x \in Cells : cell'[x].key = cell[x].key /\ cell'[x].data = cell[x].data
      /\ pc' = "freeEntry" /\ old' = at
  BY <1>1, <1>2, <1>3, UnlinkEffect
<1>6. TableInv' /\ Members' = Members
  BY <1>1, <1>2, <1>3, UnlinkTable
<1>7. TypeInv'
  BY <1>1, <1>3, <1>4, <1>5 DEF TypeInv
<1>8. LockInv'
  BY <1>1, <1>5 DEF LockInv, WriterSteps
<1>9. StepInv'
  BY <1>1, <1>3, <1>5 DEF StepInv, Setting, Storing
<1>10. ListInv'
  <2>1. QueueInv'
    BY <1>1, <1>6 DEF ListInv, QueueInv
  <2>2. \A x \in Members : cell'[x].key \in Keys /\ cell'[x].data = cell'[x].key
    BY <1>1, <1>5, MembersFacts DEF ListInv
  <2>3. next[at] # at
    BY <1>1, <1>3, MembersFacts, ListLine, LineNoLoop DEF ListInv, Members
  <2> QED
    BY <1>1, <1>4, <1>5, <1>6, <2>1, <2>2, <2>3 DEF ListInv
<1> QED
  BY <1>1, <1>3, <1>6, <1>7, <1>8, <1>9, <1>10 DEF WriterInv
-----------------------------------------------------------------------------
(* Cells and stripings                                                     *)

LEMMA StripingFacts ==
  ASSUME NEW c \in Cells
  PROVE  StripingOf(c) \in 1..Stripings
<1>1. /\ Stripings \in Nat /\ PerStriping \in Nat /\ PerStriping > 0
      /\ c \in Nat /\ c >= 1 /\ c <= Stripings * PerStriping
  BY TableAssumption DEF Cells
<1> DEFINE q == (c - 1) \div PerStriping
<1>2. q \in Nat /\ q * PerStriping <= c - 1
  BY <1>1
<1>3. q < Stripings
  <2> HIDE DEF q
  <2> SUFFICES ASSUME q >= Stripings PROVE FALSE
    BY <1>1, <1>2
  <2>1. q * PerStriping >= Stripings * PerStriping
    BY <1>1, <1>2
  <2> QED
    BY <1>1, <1>2, <2>1
<1> HIDE DEF q
<1>4. q + 1 \in 1..Stripings
  BY <1>1, <1>2, <1>3
<1> QED
  BY <1>4 DEF q, StripingOf

LEMMA CellOf ==
  ASSUME NEW s \in 1..Stripings, NEW i \in 1..PerStriping
  PROVE  (s - 1) * PerStriping + i \in Cells /\ StripingOf((s - 1) * PerStriping + i) = s
<1> DEFINE P == (s - 1) * PerStriping
<1>1. /\ Stripings \in Nat /\ PerStriping \in Nat /\ PerStriping > 0 /\ s - 1 \in Nat
      /\ i \in Nat /\ i >= 1 /\ i <= PerStriping /\ s <= Stripings
  BY TableAssumption
<1>2. P \in Nat
  BY <1>1
<1>3. P + PerStriping <= Stripings * PerStriping
  <2>1. s * PerStriping <= Stripings * PerStriping
    BY <1>1
  <2>2. P + PerStriping = s * PerStriping
    BY <1>1
  <2> QED
    BY <2>1, <2>2
<1>4. Stripings * PerStriping \in Nat
  BY <1>1
<1>5. P + i \in Cells
  <2> HIDE DEF P
  <2> QED
    BY <1>1, <1>2, <1>3, <1>4 DEF Cells
<1>6. (P + i - 1) \div PerStriping = s - 1
  <2>1. P + i - 1 = (s - 1) * PerStriping + (i - 1) /\ i - 1 \in 0..(PerStriping - 1)
    BY <1>1, <1>2
  <2> QED
    BY <1>1, <1>2, <2>1
<1> QED
  BY <1>1, <1>5, <1>6 DEF StripingOf

LEMMA FitsRemove ==
  ASSUME NEW S \in SUBSET Cells, NEW c \in S,
         free \in [1..Stripings -> 0..PerStriping], used \in [1..Stripings -> 0..PerStriping],
         Fits(S, free, used), FreeValue(c)
  PROVE  /\ Fits(S \ {c}, free', used')
         /\ free' \in [1..Stripings -> 0..PerStriping] /\ used' \in [1..Stripings -> 0..PerStriping]
<1> DEFINE s == StripingOf(c)
           T == S \ {c}
           In(U, t) == {x \in U : StripingOf(x) = t}
<1>1. s \in 1..Stripings /\ PerStriping \in Nat /\ \A x \in S : StripingOf(x) \in 1..Stripings
  BY StripingFacts, TableAssumption
<1>2. IsFiniteSet(S) /\ \A t : IsFiniteSet(In(S, t)) /\ Cardinality(In(S, t)) \in Nat
  BY CellsFinite, FS_Subset, FS_CardinalityType
<1>3. \A t \in 1..Stripings : used[t] = Cardinality(In(S, t)) /\ used[t] <= free[t]
  BY DEF Fits
<1>0. \A t \in 1..Stripings : used[t] <= free[t]
  BY DEF Fits
<1>4. In(T, s) = In(S, s) \ {c} /\ c \in In(S, s)
  OBVIOUS
<1>5. Cardinality(In(T, s)) = used[s] - 1
  <2> DEFINE A == In(S, s)
  <2>1. IsFiniteSet(A) /\ used[s] = Cardinality(A) /\ In(T, s) = A \ {c} /\ c \in A
    BY <1>1, <1>2, <1>3, <1>4
  <2> HIDE DEF In, s, T, A
  <2>2. Cardinality(A \ {c}) = Cardinality(A) - 1
    BY <2>1, FS_RemoveElement
  <2> QED
    BY <2>1, <2>2
<1>6. used[s] >= 1
  <2>1. In(T, s) \subseteq In(S, s)
    OBVIOUS
  <2>2. Cardinality(In(T, s)) \in Nat
    BY <1>2, <2>1, FS_Subset, FS_CardinalityType
  <2> HIDE DEF In, s, T
  <2> QED
    BY <1>1, <1>5, <2>2
<1>7. \A t \in 1..Stripings : t # s => In(T, t) = In(S, t)
  OBVIOUS
<1>8. /\ used' \in [1..Stripings -> 0..PerStriping] /\ used'[s] = used[s] - 1
      /\ \A t \in 1..Stripings : t # s => used'[t] = used[t]
  BY <1>1, <1>6 DEF FreeValue
<1>9. /\ free' \in [1..Stripings -> 0..PerStriping]
      /\ free'[s] = IF used[s] = 1 THEN 0 ELSE free[s]
      /\ \A t \in 1..Stripings : t # s => free'[t] = free[t]
  BY <1>1 DEF FreeValue, Emptied
<1>10. \A t \in 1..Stripings : used'[t] = Cardinality(In(T, t))
  BY <1>3, <1>5, <1>7, <1>8
<1>11. \A t \in 1..Stripings : used'[t] <= free'[t]
  <2>1. used'[s] <= free'[s]
    <3>0. used[s] \in 0..PerStriping /\ free[s] \in 0..PerStriping
      BY <1>1
    <3>1. used[s] \in Int /\ free[s] \in Int /\ used[s] <= free[s]
      BY <1>0, <1>1, <3>0
    <3>2. used'[s] = used[s] - 1 /\ free'[s] = IF used[s] = 1 THEN 0 ELSE free[s]
      BY <1>8, <1>9
    <3> HIDE DEF s
    <3> QED
      BY <3>1, <3>2
  <2> QED
    BY <1>3, <1>8, <1>9, <2>1
<1>12. used[s] = 1 => In(T, s) = {}
  <2> SUFFICES ASSUME used[s] = 1 PROVE In(T, s) = {}
    OBVIOUS
  <2>1. Cardinality(In(T, s)) = 0
    BY <1>5
  <2>2. IsFiniteSet(In(T, s))
    <3>1. In(T, s) \subseteq In(S, s)
      OBVIOUS
    <3> QED
      BY <1>2, <3>1, FS_Subset
  <2> HIDE DEF In, s, T
  <2> QED
    BY <2>1, <2>2, FS_EmptySet
<1>13. \A x \in T : free'[StripingOf(x)] = free[StripingOf(x)]
  BY <1>1, <1>9, <1>12
<1>14. \A x \in T : x <= (StripingOf(x) - 1) * PerStriping + free'[StripingOf(x)]
  BY <1>13 DEF Fits
<1> QED
  BY <1>8, <1>9, <1>10, <1>11, <1>14 DEF Fits

LEMMA FitsAdd ==
  ASSUME NEW S \in SUBSET Cells, NEW s \in 1..Stripings, NEW c,
         free \in [1..Stripings -> 0..PerStriping], used \in [1..Stripings -> 0..PerStriping],
         Fits(S, free, used), free[s] < PerStriping, c = (s - 1) * PerStriping + free[s] + 1,
         used' = [used EXCEPT ![s] = @ + 1], free' = [free EXCEPT ![s] = @ + 1]
  PROVE  /\ c \in Cells /\ c \notin S /\ Fits(S \cup {c}, free', used')
         /\ free' \in [1..Stripings -> 0..PerStriping] /\ used' \in [1..Stripings -> 0..PerStriping]
<1> DEFINE T == S \cup {c}
           In(U, t) == {x \in U : StripingOf(x) = t}
           P == (s - 1) * PerStriping
<1>1. PerStriping \in Nat /\ free[s] \in Nat /\ free[s] + 1 \in 1..PerStriping
      /\ P \in Int /\ s \in Int /\ c = P + (free[s] + 1)
  <2>1. PerStriping \in Nat /\ s \in Int /\ free[s] \in Nat
    BY TableAssumption
  <2>2. P \in Int
    BY <2>1
  <2>3. c = P + free[s] + 1
    OBVIOUS
  <2> HIDE DEF P
  <2> QED
    BY <2>1, <2>2, <2>3
<1>2. c \in Cells /\ StripingOf(c) = s
  BY <1>1, CellOf
<1>3. c \notin S
  <2> SUFFICES ASSUME c \in S PROVE FALSE
    OBVIOUS
  <2>1. c <= P + free[s]
    BY <1>2 DEF Fits
  <2> HIDE DEF P
  <2> QED
    BY <1>1, <2>1
<1>4. IsFiniteSet(S) /\ \A t : IsFiniteSet(In(S, t)) /\ Cardinality(In(S, t)) \in Nat
  BY CellsFinite, FS_Subset, FS_CardinalityType
<1>5. \A t \in 1..Stripings : used[t] = Cardinality(In(S, t)) /\ used[t] <= free[t]
  BY DEF Fits
<1>0. \A t \in 1..Stripings : used[t] <= free[t]
  BY DEF Fits
<1>6. In(T, s) = In(S, s) \cup {c} /\ c \notin In(S, s)
  BY <1>2, <1>3
<1>7. Cardinality(In(T, s)) = used[s] + 1
  <2> DEFINE A == In(S, s)
  <2>1. IsFiniteSet(A) /\ used[s] = Cardinality(A) /\ In(T, s) = A \cup {c} /\ c \notin A
    BY <1>4, <1>5, <1>6
  <2> HIDE DEF In, T, A
  <2>2. Cardinality(A \cup {c}) = Cardinality(A) + 1
    BY <2>1, FS_AddElement
  <2> QED
    BY <2>1, <2>2
<1>8. \A t \in 1..Stripings : t # s => In(T, t) = In(S, t)
  BY <1>2
<1>9. /\ used' \in [1..Stripings -> 0..PerStriping] /\ used'[s] = used[s] + 1
      /\ \A t \in 1..Stripings : t # s => used'[t] = used[t]
  <2>0. used[s] \in 0..PerStriping
    OBVIOUS
  <2>1. used[s] \in Nat /\ used[s] <= free[s] /\ free[s] \in Nat
    BY <1>0, <1>1, <2>0
  <2>2. used[s] + 1 \in 0..PerStriping
    BY <1>1, <2>1
  <2> QED
    BY <2>2
<1>10. /\ free' \in [1..Stripings -> 0..PerStriping] /\ free'[s] = free[s] + 1
       /\ \A t \in 1..Stripings : t # s => free'[t] = free[t]
  BY <1>1
<1>11. \A t \in 1..Stripings : used'[t] = Cardinality(In(T, t))
  BY <1>5, <1>7, <1>8, <1>9
<1>12. \A t \in 1..Stripings : used'[t] <= free'[t]
  <2>1. used'[s] <= free'[s]
    <3>0. used[s] \in 0..PerStriping /\ free[s] \in 0..PerStriping
      OBVIOUS
    <3>1. used[s] \in Int /\ free[s] \in Int /\ used[s] <= free[s]
      BY <1>0, <1>1, <3>0
    <3>2. used'[s] = used[s] + 1 /\ free'[s] = free[s] + 1
      BY <1>9, <1>10
    <3> QED
      BY <3>1, <3>2
  <2> QED
    BY <1>5, <1>9, <1>10, <2>1
<1>13. ASSUME NEW x \in T PROVE x <= (StripingOf(x) - 1) * PerStriping + free'[StripingOf(x)]
  <2>1. CASE x = c
    BY <1>1, <1>2, <1>10, <2>1
  <2>2. CASE x \in S
    <3>1. StripingOf(x) \in 1..Stripings /\ x \in Int
      BY <2>2, StripingFacts, CellsFinite
    <3> DEFINE t == StripingOf(x)
               Q == (t - 1) * PerStriping
    <3>2. x <= Q + free[t]
      BY <2>2 DEF Fits
    <3>3. free[t] \in Int /\ free'[t] \in Int /\ free[t] <= free'[t] /\ Q \in Int
      BY <1>1, <1>10, <3>1
    <3> HIDE DEF Q, t
    <3>4. x <= Q + free'[t]
      BY <3>1, <3>2, <3>3
    <3> QED
      BY <3>4 DEF Q, t
  <2> QED
    BY <2>1, <2>2
<1> QED
  BY <1>2, <1>3, <1>9, <1>10, <1>11, <1>12, <1>13 DEF Fits
-----------------------------------------------------------------------------
(* shm_ht_free_entry                                                       *)

LEMMA FreeEffect ==
  ASSUME TypeInv, ListInv, NEW S \in SUBSET Cells, Fits(S, free, used),
         NEW c \in Members, c \in S, FreeEntry(c)
  PROVE  /\ Members' = Members \ {c} /\ QueueInv'
         /\ next' \in [Cells \cup {ListHead} -> Cells \cup {ListHead}]
         /\ prev' \in [Cells \cup {ListHead} -> Cells \cup {ListHead}]
         /\ count' = count - 1 /\ count' \in 0..MaxKeyCount /\ count' = Cardinality(Members')
         /\ count' < count
         /\ free' \in [1..Stripings -> 0..PerStriping] /\ used' \in [1..Stripings -> 0..PerStriping]
         /\ Fits(S \ {c}, free', used')
         /\ cell' \in [Cells -> [key : Keys \cup {NoKey}, data : Keys \cup {NoKey},
                                 expired : BOOLEAN, next : Cells \cup {Nil}]]
         /\ \A x \in Cells : /\ cell'[x].key = cell[x].key /\ cell'[x].data = cell[x].data
                             /\ cell'[x].next = IF x = c THEN Nil ELSE cell[x].next
<1>1. /\ count' = count - 1 /\ ListDelete(c) /\ FreeValue(c)
      /\ cell' = [cell EXCEPT ![c].next = Nil]
  BY DEF FreeEntry
<1>2. c \in Cells /\ IsFiniteSet(Members) /\ Cardinality(Members) \in Nat
  BY MembersFacts
<1>3. /\ Members' = Members \ {c} /\ QueueInv'
      /\ next' \in [Cells \cup {ListHead} -> Cells \cup {ListHead}]
      /\ prev' \in [Cells \cup {ListHead} -> Cells \cup {ListHead}]
  BY <1>1, DeleteFromList DEF ListInv
<1>4. Cardinality(Members') = count - 1 /\ Cardinality(Members') \in Nat
  <2>1. Cardinality(Members \ {c}) = Cardinality(Members) - 1 /\ IsFiniteSet(Members \ {c})
    BY <1>2, FS_RemoveElement
  <2>2. Cardinality(Members \ {c}) \in Nat
    BY <2>1, FS_CardinalityType
  <2> QED
    BY <1>3, <2>1, <2>2 DEF ListInv
<1>5. count \in 0..MaxKeyCount /\ MaxKeyCount \in Nat
  BY TableAssumption DEF TypeInv
<1>6. count' \in 0..MaxKeyCount /\ count' < count
  BY <1>1, <1>4, <1>5
<1>7. /\ cell' \in [Cells -> [key : Keys \cup {NoKey}, data : Keys \cup {NoKey},
                              expired : BOOLEAN, next : Cells \cup {Nil}]]
      /\ \A x \in Cells : /\ cell'[x].key = cell[x].key /\ cell'[x].data = cell[x].data
                          /\ cell'[x].next = IF x = c THEN Nil ELSE cell[x].next
  BY <1>1, <1>2 DEF TypeInv
<1>9. free \in [1..Stripings -> 0..PerStriping] /\ used \in [1..Stripings -> 0..PerStriping]
  BY DEF TypeInv
<1>10. /\ free' \in [1..Stripings -> 0..PerStriping] /\ used' \in [1..Stripings -> 0..PerStriping]
       /\ Fits(S \ {c}, free', used')
  BY <1>1, <1>9, FitsRemove
<1> QED
  BY <1>1, <1>3, <1>4, <1>6, <1>7, <1>10

LEMMA EntryFreed ==
  ASSUME WriterInv, pc = "freeEntry", FreeEntry(old), UNCHANGED bucket, pc' \in Plain,
         new' \in Cells \cup {Nil}, old' \in Cells \cup {Nil}, cleared' \in Nat,
         at' \in Members' \cup {ListHead}
  PROVE  /\ TypeInv' /\ ListInv' /\ TableInv' /\ count' < count /\ Members' = Members \ {old}
         /\ old \in Members /\ UNCHANGED Linked
         /\ \A x \in Cells : /\ cell'[x].key = cell[x].key /\ cell'[x].data = cell[x].data
                             /\ cell'[x].next = IF x = old THEN Nil ELSE cell[x].next
         /\ \A b \in Buckets : Reach(HtNext', bucket'[b]) = Entries(b)
<1>1. TypeInv /\ StepInv /\ ListInv /\ TableInv
  BY DEF WriterInv
<1>2. ChainInv /\ AgreeInv /\ SpaceInv /\ ~Cut /\ pc \notin Storing
  BY <1>1 DEF TableInv, Cut, Storing
<1>3. old \in Members /\ Linked = Members \ {old} /\ Live = Members
  BY <1>2 DEF AgreeInv, Live, Cut
<1>4. Members \subseteq Cells /\ Fits(Members, free, used)
  BY <1>1, <1>2, <1>3, MembersFacts DEF SpaceInv
<1>5. /\ Members' = Members \ {old} /\ QueueInv'
      /\ next' \in [Cells \cup {ListHead} -> Cells \cup {ListHead}]
      /\ prev' \in [Cells \cup {ListHead} -> Cells \cup {ListHead}]
      /\ count' \in 0..MaxKeyCount /\ count' = Cardinality(Members') /\ count' < count
      /\ free' \in [1..Stripings -> 0..PerStriping] /\ used' \in [1..Stripings -> 0..PerStriping]
      /\ Fits(Members \ {old}, free', used')
      /\ cell' \in [Cells -> [key : Keys \cup {NoKey}, data : Keys \cup {NoKey},
                              expired : BOOLEAN, next : Cells \cup {Nil}]]
  BY <1>1, <1>3, <1>4, FreeEffect
<1>6. \A x \in Cells : /\ cell'[x].key = cell[x].key /\ cell'[x].data = cell[x].data
                       /\ cell'[x].next = IF x = old THEN Nil ELSE cell[x].next
  BY <1>1, <1>3, <1>4, FreeEffect
<1>7. TypeInv'
  <2>1. at' \in Cells \cup {ListHead}
    BY <1>4, <1>5
  <2> QED
    BY <1>1, <1>5, <2>1 DEF TypeInv
<1>8. ListInv'
  <2>1. \A x \in Members' : cell'[x].key \in Keys /\ cell'[x].data = cell'[x].key
    BY <1>1, <1>4, <1>5, <1>6 DEF ListInv
  <2>2. pc' # "freeEntry"
    BY DEF Plain
  <2> QED
    BY <1>5, <2>1, <2>2 DEF ListInv
<1>9. /\ IsLink(HtNext) /\ IsLink(HtNext') /\ Virtual = HtNext
      /\ \A x \in Cells : x # old => HtNext'[x] = HtNext[x]
  <2>1. \A x \in Cells : HtNext'[x] = cell'[x].next /\ HtNext[x] = cell[x].next
    BY DEF HtNext
  <2> QED
    BY <1>1, <1>2, <1>5, <1>6, <2>1, LinkTypes DEF IsLink
<1>10. \A b \in Buckets : Entries(b) \subseteq Cells /\ old \notin Entries(b)
  BY <1>1, <1>3, EntriesFacts DEF Linked
<1>11. ASSUME NEW b \in Buckets
       PROVE  Reach(HtNext', bucket'[b]) = Entries(b) /\ Line(HtNext', bucket'[b])
  <2>1. Entries(b) = Reach(HtNext, bucket[b]) /\ Line(HtNext, bucket[b])
    BY <1>2, <1>9 DEF Entries, ChainInv
  <2>2. \A x \in Reach(HtNext, bucket[b]) : HtNext'[x] = HtNext[x]
    BY <1>9, <1>10, <2>1
  <2>3. bucket[b] \in Cells \cup {Nil}
    BY <1>1 DEF TypeInv
  <2>4. Reach(HtNext', bucket[b]) = Reach(HtNext, bucket[b]) /\ Line(HtNext', bucket[b])
    BY <1>9, <2>1, <2>2, <2>3, ReachSame
  <2> QED
    BY <2>1, <2>4
<1>12. Settled'
  <2>1. UNION {Reach(HtNext', bucket'[b]) : b \in Buckets} = Members'
    <3>1. UNION {Reach(HtNext', bucket'[b]) : b \in Buckets} = Linked
      BY <1>11 DEF Linked
    <3> QED
      BY <1>3, <1>5, <3>1
  <2>2. ASSUME NEW b \in Buckets
        PROVE  \A c \in Entries(b) :
                 /\ cell'[c].key \in Keys /\ BucketOf[cell'[c].key] = b /\ cell'[c].data = cell'[c].key
                 /\ \A d \in Entries(b) : cell'[c].key = cell'[d].key => c = d
    <3>1. \A c \in Entries(b) :
             /\ cell[c].key \in Keys /\ BucketOf[cell[c].key] = b /\ cell[c].data = cell[c].key
             /\ \A d \in Entries(b) : cell[c].key = cell[d].key => c = d
      BY <1>2 DEF ChainInv
    <3>2. \A c \in Entries(b) : cell'[c].key = cell[c].key /\ cell'[c].data = cell[c].data
      BY <1>6, <1>10
    <3> QED
      BY <3>1, <3>2
  <2>3. Fits(Members', free', used')
    BY <1>5
  <2> QED
    BY <1>11, <2>1, <2>2, <2>3 DEF Settled
<1>13. TableInv'
  <2>1. (pc \in Plain => (TableInv <=> Settled))'
    BY PlainSettled, PTL
  <2> QED
    BY <1>12, <2>1
<1>14. Linked' = Linked
  <2>1. pc' \notin {"storeKey", "storeValue", "link"}
    BY DEF Plain
  <2>2. ~Cut' /\ Virtual' = HtNext' /\ \A b : Entries(b)' = Reach(HtNext', bucket'[b])
    BY <2>1 DEF Cut, Virtual, Entries
  <2> QED
    BY <1>11, <2>2 DEF Linked
<1> QED
  BY <1>3, <1>5, <1>6, <1>7, <1>8, <1>11, <1>13, <1>14

LEMMA DeletedStep ==
  ASSUME WriterInv, Deleted
  PROVE  WriterInv'
<1>1. /\ TypeInv /\ LockInv /\ pc = "freeEntry" /\ FreeEntry(old) /\ UNCHANGED bucket /\ Finish
  BY DEF WriterInv, Deleted
<1>2. pc' = "idle" /\ new' = Nil /\ old' = Nil /\ at' = ListHead /\ cleared' = 0
  BY <1>1, FinishFacts
<1>3. LockInv' /\ StepInv'
  BY <1>1, FinishStep
<1>4. TypeInv' /\ ListInv' /\ TableInv'
  BY <1>1, <1>2, EntryFreed DEF Plain
<1> QED
  BY <1>3, <1>4 DEF WriterInv

LEMMA RecycledStep ==
  ASSUME WriterInv, Recycled
  PROVE  /\ WriterInv'
         /\ pc' \in {"sleepAlloc", "alloc", "recycleKey", "recycleMem"} /\ cleared' > 0
         /\ at' \in Members' \cup {ListHead}
<1>1. /\ TypeInv /\ LockInv /\ StepInv /\ ListInv /\ TableInv
      /\ pc = "freeEntry" /\ op \in {"recycleKey", "recycleMem"}
      /\ FreeEntry(old) /\ cleared' = cleared + 1 /\ old' = Nil /\ op' = "set"
      /\ UNCHANGED <<bucket, lock, key, new, at>>
  BY DEF WriterInv, Recycled
<1>2. pc' \in {op, "sleepAlloc", "alloc"}
  BY DEF Recycled, Goto, FallAsleep
<1>3. old \in Members /\ Members' = Members \ {old}
  <2>1. AgreeInv /\ pc \notin Storing /\ SpaceInv
    BY <1>1 DEF TableInv, Storing
  <2>2. old \in Members /\ Members \subseteq Cells /\ Fits(Members, free, used)
    BY <1>1, <2>1, MembersFacts DEF AgreeInv, SpaceInv, Live
  <2> QED
    BY <1>1, <2>2, FreeEffect
<1>4. at' \in Members' \cup {ListHead}
  BY <1>1, <1>3 DEF ListInv
<1>5. cleared' \in Nat /\ cleared' > 0 /\ new' \in Cells \cup {Nil} /\ old' \in Cells \cup {Nil}
  BY <1>1 DEF TypeInv
<1>6. pc' \in Plain /\ pc' \in {"sleepAlloc", "alloc", "recycleKey", "recycleMem"}
  BY <1>1, <1>2 DEF Plain
<1>7. TypeInv' /\ ListInv' /\ TableInv' /\ count' < count
  BY <1>1, <1>4, <1>5, <1>6, EntryFreed
<1>8. LockInv'
  BY <1>1, <1>6 DEF LockInv, WriterSteps, Setting
<1>9. StepInv'
  <2>1. count \in Int /\ count' \in Int /\ MaxKeyCount \in Int /\ count <= MaxKeyCount
    BY <1>1, <1>7, TableAssumption DEF TypeInv
  <2>2. count' < MaxKeyCount
    BY <1>7, <2>1
  <2>3. key' \in Keys /\ op' = "set"
    BY <1>1 DEF StepInv
  <2> QED
    BY <1>6, <2>2, <2>3 DEF StepInv, Storing
<1> QED
  BY <1>4, <1>5, <1>6, <1>7, <1>8, <1>9 DEF WriterInv
-----------------------------------------------------------------------------
(* shm_ht_set                                                              *)

\* The new entry lies in a cell that is not in use and leads on as the entry
\* of the key does, if there is one.
LEMMA AllocEffect ==
  ASSUME WriterInv, Alloc
  PROVE  /\ TypeInv' /\ Members' = Members /\ new' \in Cells \ Members
         /\ Fits(Members \cup {new'}, free', used')
         /\ \A x \in Cells : /\ cell'[x].key = cell[x].key /\ cell'[x].data = cell[x].data
                             /\ x # new' => HtNext'[x] = HtNext[x]
         /\ UNCHANGED <<bucket, key, lock, op>>
         /\ \/ /\ pc' = "freeOld" /\ old' \in Reach(HtNext, bucket[BucketOf[key]])
               /\ cell[old'].key = key /\ cell'[new'].next = cell[old'].next
            \/ /\ pc' = "storeKey" /\ old' = Nil /\ cell'[new'].next = Nil
               /\ \A c \in Reach(HtNext, bucket[BucketOf[key]]) : cell[c].key # key
         /\ \A b \in Buckets : /\ Reach(HtNext', bucket[b]) = Reach(HtNext, bucket[b])
                               /\ Line(HtNext', bucket[b])
<1>1. TypeInv /\ StepInv /\ ListInv /\ Settled /\ pc = "alloc" /\ key \in Keys
  BY PlainSettled DEF WriterInv, Alloc, Plain, StepInv, Setting
<1> DEFINE b == BucketOf[key]
           R == Reach(HtNext, bucket[b])
<1>2. b \in Buckets /\ Chain(b) = R
  BY <1>1, ChainIs, TableAssumption
<1>3. Members \subseteq Cells /\ R \subseteq Members /\ IsLink(HtNext)
  BY <1>1, <1>2, MembersFacts, SettledFacts
<1>4. /\ old' = IF Holds(key) THEN EntryOf(key) ELSE Nil
      /\ pc' = IF Holds(key) THEN "freeOld" ELSE "storeKey"
      /\ cell' = [cell EXCEPT ![new'].next = IF old' = Nil THEN Nil ELSE cell[old'].next]
      /\ at' = ListHead /\ cleared' = 0
      /\ UNCHANGED <<bucket, prev, next, count, lock, op, key>>
  BY DEF Alloc, StoreNext, Goto, LeaveLoop
<1>5. PICK s \in 1..Stripings :
        /\ Room(s) /\ new' = (s - 1) * PerStriping + free[s] + 1
        /\ free' = [free EXCEPT ![s] = @ + 1] /\ used' = [used EXCEPT ![s] = @ + 1]
  BY DEF Alloc, Serves
<1>6. /\ new' \in Cells /\ new' \notin Members /\ Fits(Members \cup {new'}, free', used')
      /\ free' \in [1..Stripings -> 0..PerStriping] /\ used' \in [1..Stripings -> 0..PerStriping]
  <2>1. free \in [1..Stripings -> 0..PerStriping] /\ used \in [1..Stripings -> 0..PerStriping]
    BY <1>1 DEF TypeInv
  <2>2. Fits(Members, free, used) /\ free[s] < PerStriping
    BY <1>1, <1>5 DEF Settled, Room
  <2> QED
    BY <1>3, <1>5, <2>1, <2>2, FitsAdd
<1>7. \/ Holds(key) /\ old' \in R /\ cell[old'].key = key
      \/ ~Holds(key) /\ old' = Nil /\ \A c \in R : cell[c].key # key
  BY <1>2, <1>4 DEF Holds, EntryOf
<1> HIDE DEF b, R
<1>8. old' \in Cells \cup {Nil} /\ (old' # Nil => old' \in Cells /\ cell[old'].next \in Cells \cup {Nil})
  BY <1>1, <1>3, <1>7 DEF TypeInv
<1>9. /\ cell' \in [Cells -> [key : Keys \cup {NoKey}, data : Keys \cup {NoKey},
                              expired : BOOLEAN, next : Cells \cup {Nil}]]
      /\ \A x \in Cells : /\ cell'[x].key = cell[x].key /\ cell'[x].data = cell[x].data
                          /\ x # new' => cell'[x].next = cell[x].next
      /\ cell'[new'].next = IF old' = Nil THEN Nil ELSE cell[old'].next
  BY <1>1, <1>4, <1>6, <1>8 DEF TypeInv
<1>10. TypeInv'
  BY <1>1, <1>4, <1>6, <1>8, <1>9 DEF TypeInv
<1>11. Members' = Members
  BY <1>4 DEF Members
<1>12. IsLink(HtNext') /\ \A x \in Cells : x # new' => HtNext'[x] = HtNext[x]
  <2>1. \A x \in Cells : HtNext'[x] = cell'[x].next /\ HtNext[x] = cell[x].next
    BY DEF HtNext
  <2> QED
    BY <1>9, <2>1 DEF IsLink
<1>13. ASSUME NEW d \in Buckets
       PROVE  Reach(HtNext', bucket[d]) = Reach(HtNext, bucket[d]) /\ Line(HtNext', bucket[d])
  <2>1. bucket[d] \in Cells \cup {Nil} /\ Reach(HtNext, bucket[d]) \subseteq Members /\ Line(HtNext, bucket[d])
    BY <1>1, SettledFacts DEF Settled
  <2>2. \A x \in Reach(HtNext, bucket[d]) : HtNext'[x] = HtNext[x]
    BY <1>3, <1>6, <1>12, <2>1
  <2> QED
    BY <1>3, <1>12, <2>1, <2>2, ReachSame
<1>14. \/ /\ pc' = "freeOld" /\ old' \in R /\ cell[old'].key = key /\ cell'[new'].next = cell[old'].next
       \/ /\ pc' = "storeKey" /\ old' = Nil /\ cell'[new'].next = Nil /\ \A c \in R : cell[c].key # key
  <2>1. old' \in R => old' # Nil
    BY <1>3, NilIsNoCell
  <2> QED
    BY <1>4, <1>7, <1>9, <2>1
<1> QED
  BY <1>4, <1>6, <1>9, <1>10, <1>11, <1>12, <1>13, <1>14 DEF b, R

LEMMA AllocStep ==
  ASSUME WriterInv, Alloc
  PROVE  WriterInv'
<1>1. /\ TypeInv /\ LockInv /\ StepInv /\ ListInv /\ Settled /\ pc = "alloc"
      /\ at' = ListHead /\ UNCHANGED <<prev, next, count, lock, op, key, bucket>>
  BY PlainSettled DEF WriterInv, Alloc, Plain, LeaveLoop
<1> DEFINE k == BucketOf[key]
<1>2. /\ TypeInv' /\ Members' = Members /\ new' \in Cells \ Members
      /\ Fits(Members \cup {new'}, free', used')
      /\ \A x \in Cells : cell'[x].key = cell[x].key /\ cell'[x].data = cell[x].data
      /\ \/ /\ pc' = "freeOld" /\ old' \in Reach(HtNext, bucket[k])
            /\ cell[old'].key = key /\ cell'[new'].next = cell[old'].next
         \/ /\ pc' = "storeKey" /\ old' = Nil /\ cell'[new'].next = Nil
            /\ \A c \in Reach(HtNext, bucket[k]) : cell[c].key # key
      /\ \A b \in Buckets : /\ Reach(HtNext', bucket[b]) = Reach(HtNext, bucket[b])
                            /\ Line(HtNext', bucket[b])
  BY AllocEffect
<1>3. pc' \in Storing /\ pc' \in {"freeOld", "storeKey"} /\ ~Cut'
  BY <1>2 DEF Storing, Cut
<1>4. key \in Keys /\ k \in Buckets /\ op = "set" /\ count < MaxKeyCount
  BY <1>1, TableAssumption DEF StepInv, Setting
<1>5. Members \subseteq Cells /\ Reach(HtNext, bucket[k]) \subseteq Members
  BY <1>1, <1>4, MembersFacts, SettledFacts
<1>6. LockInv'
  BY <1>1, <1>3 DEF LockInv, WriterSteps, Setting, Storing
<1>7. StepInv'
  BY <1>1, <1>2, <1>3, <1>4, <1>5 DEF StepInv
<1>8. ListInv'
  <2>1. QueueInv'
    BY <1>1, <1>2 DEF ListInv, QueueInv
  <2>2. \A c \in Members : cell'[c].key \in Keys /\ cell'[c].data = cell'[c].key
    BY <1>1, <1>2, <1>5 DEF ListInv
  <2> QED
    BY <1>1, <1>2, <1>3, <2>1, <2>2 DEF ListInv
<1>9. Virtual' = HtNext' /\ \A b \in Buckets : Entries(b)' = Reach(HtNext, bucket[b]) /\ Line(Virtual', bucket[b])
  BY <1>1, <1>2, <1>3 DEF Virtual, Entries
<1>10. ChainInv'
  <2> SUFFICES ASSUME NEW b \in Buckets
               PROVE  /\ Line(Virtual', bucket[b])
                      /\ \A c \in Reach(HtNext, bucket[b]) :
                           /\ cell'[c].key \in Keys /\ BucketOf[cell'[c].key] = b /\ cell'[c].data = cell'[c].key
                           /\ \A d \in Reach(HtNext, bucket[b]) : cell'[c].key = cell'[d].key => c = d
    BY <1>1, <1>9 DEF ChainInv
  <2>1. \A x \in Reach(HtNext, bucket[b]) : cell'[x].key = cell[x].key /\ cell'[x].data = cell[x].data
    BY <1>1, <1>2, <1>5, SettledFacts
  <2> QED
    BY <1>1, <1>9, <2>1 DEF Settled
<1>11. AgreeInv'
  <2>1. Linked' = Members
    <3>1. Linked' = UNION {Reach(HtNext, bucket[b]) : b \in Buckets}
      BY <1>9 DEF Linked
    <3> QED
      BY <1>1, <3>1 DEF Settled
  <2>2. pc' = "freeOld" => old' \in Members
    BY <1>2, <1>5
  <2> QED
    BY <1>2, <1>3, <2>1, <2>2 DEF AgreeInv
<1>12. ReplaceInv'
  <2>1. k' = k /\ key' = key /\ Entries(k)' = Reach(HtNext, bucket[k])
    BY <1>1, <1>4, <1>9
  <2>2. CASE pc' = "freeOld"
    <3>1. old' \in Cells /\ old' \in Members /\ old' # new'
      BY <1>2, <1>5, <2>2
    <3>2. cell'[new'].next = cell'[old'].next
      <4>1. HtNext'[old'] = HtNext[old']
        BY <3>1, AllocEffect
      <4>2. HtNext'[old'] = cell'[old'].next /\ HtNext[old'] = cell[old'].next
        BY <3>1 DEF HtNext
      <4> QED
        BY <1>2, <2>2, <4>1, <4>2
    <3> QED
      BY <1>2, <1>3, <2>1, <2>2, <3>1, <3>2 DEF ReplaceInv
  <2>3. CASE pc' = "storeKey"
    <3>1. \A c \in Reach(HtNext, bucket[k]) : cell'[c].key # key
      BY <1>2, <1>5, <2>3
    <3> QED
      BY <1>2, <1>3, <2>1, <2>3, <3>1 DEF ReplaceInv
  <2> QED
    BY <1>3, <2>2, <2>3
<1>13. SpaceInv'
  <2>1. Live' = Members \cup {new'}
    BY <1>2, <1>3 DEF Live
  <2> QED
    BY <1>2, <2>1 DEF SpaceInv
<1>14. TableInv'
  BY <1>3, <1>10, <1>11, <1>12, <1>13 DEF TableInv
<1> QED
  BY <1>2, <1>6, <1>7, <1>8, <1>14 DEF WriterInv

\* What happens off the chains leaves them as they are.
LEMMA ChainKept ==
  ASSUME TypeInv, StepInv, ChainInv, IsLink(Virtual'), UNCHANGED bucket,
         \A b \in Buckets : \A c \in Entries(b) :
           Virtual'[c] = Virtual[c] /\ cell'[c].key = cell[c].key /\ cell'[c].data = cell[c].data
  PROVE  ChainInv' /\ Linked' = Linked /\ \A b \in Buckets : Entries(b)' = Entries(b)
<1>1. ASSUME NEW b \in Buckets
      PROVE  Entries(b)' = Entries(b) /\ Line(Virtual', bucket'[b])
  <2>1. IsLink(Virtual) /\ bucket[b] \in Cells \cup {Nil} /\ Line(Virtual, bucket[b])
    BY LinkTypes DEF ChainInv
  <2>2. \A c \in Reach(Virtual, bucket[b]) : Virtual'[c] = Virtual[c]
    BY DEF Entries
  <2>3. Reach(Virtual', bucket[b]) = Reach(Virtual, bucket[b]) /\ Line(Virtual', bucket[b])
    BY <2>1, <2>2, ReachSame
  <2> QED
    BY <2>3 DEF Entries
<1>2. Linked' = Linked
  BY <1>1 DEF Linked
<1>3. ChainInv'
  <2> SUFFICES ASSUME NEW b \in Buckets
               PROVE  /\ Line(Virtual', bucket'[b])
                      /\ \A c \in Entries(b) :
                           /\ cell'[c].key \in Keys /\ BucketOf[cell'[c].key] = b /\ cell'[c].data = cell'[c].key
                           /\ \A d \in Entries(b) : cell'[c].key = cell'[d].key => c = d
    BY <1>1 DEF ChainInv
  <2> QED
    BY <1>1 DEF ChainInv
<1> QED
  BY <1>1, <1>2, <1>3

LEMMA FreeOldStep ==
  ASSUME WriterInv, FreeOld
  PROVE  /\ WriterInv' /\ Members' = Members \ {old} /\ count' < count
         /\ \A x \in Cells : /\ cell'[x].key = cell[x].key /\ cell'[x].data = cell[x].data
                             /\ cell'[x].next = IF x = old THEN Nil ELSE cell[x].next
         /\ \A b \in Buckets : Entries(b)' = Entries(b)
<1>1. /\ TypeInv /\ LockInv /\ StepInv /\ ListInv /\ ChainInv /\ AgreeInv /\ ReplaceInv /\ SpaceInv
      /\ pc = "freeOld" /\ pc' = "storeKey" /\ FreeEntry(old)
      /\ UNCHANGED <<bucket, lock, op, key, new, old, at, cleared>>
  BY DEF WriterInv, TableInv, FreeOld, Goto, loop
<1>2. /\ ~Cut /\ Virtual = HtNext /\ Live = Members \cup {new}
      /\ old \in Members /\ new \notin Members /\ new \in Cells /\ old # new
      /\ cell[new].next = cell[old].next /\ old \in Entries(BucketOf[key]) /\ cell[old].key = key
      /\ Linked = Members /\ op = "set" /\ key \in Keys /\ count < MaxKeyCount
  BY <1>1 DEF Cut, Virtual, Live, Storing, Setting, AgreeInv, ReplaceInv, StepInv
<1> DEFINE S == Members \cup {new}
<1>3. /\ Members \subseteq Cells /\ Nil \notin Members /\ Fits(S, free, used)
      /\ S \in SUBSET Cells /\ old \in S
  BY <1>1, <1>2, MembersFacts DEF SpaceInv
<1> HIDE DEF S
<1>4. /\ Members' = Members \ {old} /\ QueueInv'
      /\ next' \in [Cells \cup {ListHead} -> Cells \cup {ListHead}]
      /\ prev' \in [Cells \cup {ListHead} -> Cells \cup {ListHead}]
      /\ count' \in 0..MaxKeyCount /\ count' = Cardinality(Members') /\ count' < count
      /\ free' \in [1..Stripings -> 0..PerStriping] /\ used' \in [1..Stripings -> 0..PerStriping]
      /\ Fits(S \ {old}, free', used')
      /\ cell' \in [Cells -> [key : Keys \cup {NoKey}, data : Keys \cup {NoKey},
                              expired : BOOLEAN, next : Cells \cup {Nil}]]
  BY <1>1, <1>2, <1>3, FreeEffect
<1>5. \A x \in Cells : /\ cell'[x].key = cell[x].key /\ cell'[x].data = cell[x].data
                       /\ cell'[x].next = IF x = old THEN Nil ELSE cell[x].next
  BY <1>1, <1>2, <1>3, FreeEffect
<1>6. TypeInv'
  BY <1>1, <1>4 DEF TypeInv
<1>7. LockInv'
  BY <1>1 DEF LockInv, WriterSteps, Setting, Storing
<1>8. StepInv'
  <2>1. count \in Int /\ count' \in Int /\ MaxKeyCount \in Int
    BY <1>1, <1>4, TableAssumption DEF TypeInv
  <2>2. count' < MaxKeyCount
    BY <1>2, <1>4, <2>1
  <2> QED
    BY <1>1, <1>2, <2>2 DEF StepInv, Storing
<1>9. Cut'
  BY <1>1, <1>2, <1>3 DEF Cut
<1>10. IsLink(Virtual') /\ \A x \in Cells : Virtual'[x] = Virtual[x]
  <2>0. (TypeInv /\ StepInv =>
          /\ IsLink(HtNext) /\ IsLink(Virtual) /\ (~Cut => Virtual = HtNext)
          /\ (Cut => \A c \in Cells : Virtual[c] = IF c = old THEN cell[new].next ELSE cell[c].next))'
    BY VirtualIs, PTL
  <2>1. /\ IsLink(Virtual') /\ old' = old /\ new' = new
        /\ \A c \in Cells : Virtual'[c] = IF c = old' THEN cell'[new'].next ELSE cell'[c].next
    BY <1>1, <1>6, <1>8, <1>9, <2>0
  <2>2. \A x \in Cells : Virtual'[x] = IF x = old THEN cell'[new].next ELSE cell'[x].next
    BY <2>1
  <2>3. \A x \in Cells : Virtual[x] = cell[x].next
    BY <1>2 DEF HtNext
  <2>4. cell'[new].next = cell[old].next
    BY <1>2, <1>5
  <2> QED
    BY <1>5, <2>1, <2>2, <2>3, <2>4
<1>11. \A b \in Buckets : Entries(b) \subseteq Cells
  BY <1>1, EntriesFacts
<1>12. ChainInv' /\ Linked' = Linked /\ \A b \in Buckets : Entries(b)' = Entries(b)
  BY <1>1, <1>5, <1>10, <1>11, ChainKept
<1>13. ListInv'
  <2>1. \A c \in Members' : cell'[c].key \in Keys /\ cell'[c].data = cell'[c].key
    BY <1>1, <1>3, <1>4, <1>5 DEF ListInv
  <2>2. at' = ListHead
    BY <1>1 DEF StepInv, Storing
  <2> QED
    BY <1>1, <1>4, <2>1, <2>2 DEF ListInv
<1>14. AgreeInv'
  <2>1. Linked' = (Members' \ {}) \cup {old} /\ new \notin Members'
    BY <1>2, <1>4, <1>12
  <2>2. old' = old /\ new' = new
    BY <1>1
  <2> QED
    BY <1>1, <1>9, <2>1, <2>2 DEF AgreeInv
<1>15. ReplaceInv'
  <2>1. /\ old' = old /\ new' = new /\ key' = key /\ old # Nil
        /\ old \in Entries(BucketOf[key])'
    BY <1>1, <1>2, <1>3, <1>12, TableAssumption
  <2>2. cell'[old].key = key /\ cell'[old].next = Nil /\ old \notin Members'
    BY <1>2, <1>3, <1>4, <1>5
  <2> QED
    BY <1>1, <1>2, <1>9, <2>1, <2>2 DEF ReplaceInv
<1>16. SpaceInv'
  <2>1. Live' = S \ {old}
    BY <1>1, <1>2, <1>4 DEF Live, Storing, S
  <2> QED
    BY <1>4, <2>1 DEF SpaceInv
<1>17. TableInv'
  BY <1>1, <1>12, <1>14, <1>15, <1>16 DEF TableInv
<1> QED
  BY <1>4, <1>5, <1>6, <1>7, <1>8, <1>12, <1>13, <1>17 DEF WriterInv

\* The new entry is not linked while its key and its data are stored.
LEMMA StoreEffect ==
  ASSUME WriterInv, pc \in {"storeKey", "storeValue"}, pc' \in {"storeValue", "link"},
         UNCHANGED <<bucket, prev, next, count, free, used, lock, op, key, new, old, loop>>,
         cell' \in [Cells -> [key : Keys \cup {NoKey}, data : Keys \cup {NoKey},
                              expired : BOOLEAN, next : Cells \cup {Nil}]],
         \A x \in Cells : /\ cell'[x].next = cell[x].next
                          /\ x # new => cell'[x].key = cell[x].key /\ cell'[x].data = cell[x].data,
         cell'[new].key = key, pc' = "link" => cell'[new].data = key
  PROVE  /\ WriterInv' /\ Members' = Members /\ new \notin Linked /\ new \in Cells /\ HtNext' = HtNext
         /\ \A b \in Buckets : Entries(b)' = Entries(b)
<1>1. /\ TypeInv /\ LockInv /\ StepInv /\ ListInv /\ ChainInv /\ AgreeInv /\ ReplaceInv /\ SpaceInv
      /\ new \in Cells /\ new \notin Members /\ (Cut => old # new)
      /\ pc \in Storing /\ pc' \in Storing
  BY DEF WriterInv, TableInv, Storing, StepInv, AgreeInv, ReplaceInv
<1>2. new \notin Linked /\ Linked = Members \cup (IF Cut THEN {old} ELSE {})
  BY <1>1 DEF AgreeInv
<1>3. Members' = Members /\ Cut' = Cut /\ (Live' = Live)
  BY <1>1 DEF Members, Cut, Live
<1>4. HtNext' = HtNext
  BY DEF HtNext
<1>5. Virtual' = Virtual
  BY <1>1, <1>3, <1>4 DEF Virtual
<1>6. \A b \in Buckets : Entries(b) \subseteq Cells /\ new \notin Entries(b)
  BY <1>1, <1>2, EntriesFacts DEF Linked
<1>7. ChainInv' /\ Linked' = Linked /\ \A b \in Buckets : Entries(b)' = Entries(b)
  <2>1. IsLink(Virtual')
    BY <1>1, <1>5, LinkTypes
  <2>2. \A b \in Buckets : \A c \in Entries(b) :
          Virtual'[c] = Virtual[c] /\ cell'[c].key = cell[c].key /\ cell'[c].data = cell[c].data
    BY <1>5, <1>6
  <2> QED
    BY <1>1, <2>1, <2>2, ChainKept
<1>8. TypeInv'
  BY <1>1 DEF TypeInv, loop
<1>9. LockInv' /\ StepInv'
  BY <1>1 DEF LockInv, StepInv, WriterSteps, Setting, Storing, loop
<1>10. ListInv'
  <2>1. QueueInv'
    BY <1>1, <1>3 DEF ListInv, QueueInv
  <2>2. \A c \in Members : cell'[c].key \in Keys /\ cell'[c].data = cell'[c].key
    BY <1>1, MembersFacts DEF ListInv
  <2>3. at' = ListHead
    BY <1>1 DEF StepInv, loop
  <2> QED
    BY <1>1, <1>3, <2>1, <2>2, <2>3 DEF ListInv
<1>11. AgreeInv'
  BY <1>1, <1>2, <1>3, <1>7 DEF AgreeInv
<1>12. ReplaceInv'
  <2>1. key \in Keys /\ BucketOf[key] \in Buckets
    BY <1>1, TableAssumption DEF StepInv, Setting
  <2>2. Entries(BucketOf[key])' = Entries(BucketOf[key]) /\ Entries(BucketOf[key]) \subseteq Cells
    BY <1>6, <1>7, <2>1
  <2>3. CASE Cut
    <3>1. cell'[old].key = cell[old].key /\ cell'[old].next = cell[old].next
      BY <1>1, <2>2, <2>3 DEF ReplaceInv
    <3> QED
      BY <1>1, <1>3, <2>2, <2>3, <3>1 DEF ReplaceInv, Cut
  <2>4. CASE ~Cut
    <3>1. old = Nil /\ cell'[new].next = Nil
      BY <1>1, <2>4 DEF ReplaceInv, Cut
    <3>2. \A c \in Entries(BucketOf[key]) : cell'[c].key # key
      BY <1>1, <1>6, <2>1, <3>1 DEF ReplaceInv
    <3> QED
      BY <1>1, <1>3, <2>2, <2>4, <3>1, <3>2 DEF ReplaceInv
  <2> QED
    BY <2>3, <2>4
<1>13. SpaceInv'
  BY <1>1, <1>3 DEF SpaceInv
<1>14. TableInv'
  BY <1>7, <1>11, <1>12, <1>13 DEF TableInv
<1> QED
  BY <1>1, <1>2, <1>3, <1>4, <1>7, <1>8, <1>9, <1>10, <1>14 DEF WriterInv

LEMMA StoreKeyStep ==
  ASSUME WriterInv, StoreKey
  PROVE  /\ WriterInv' /\ Members' = Members /\ new \notin Linked /\ HtNext' = HtNext
         /\ \A x \in Cells : x # new => cell'[x].key = cell[x].key /\ cell'[x].data = cell[x].data
         /\ \A b \in Buckets : Entries(b)' = Entries(b)
<1>1. new \in Cells /\ key \in Keys /\ cell \in [Cells -> [key : Keys \cup {NoKey}, data : Keys \cup {NoKey},
                              expired : BOOLEAN, next : Cells \cup {Nil}]]
  BY DEF WriterInv, StepInv, TypeInv, StoreKey, Setting, Storing
<1>2. pc = "storeKey" /\ pc' = "storeValue" /\ cell' = [cell EXCEPT ![new].key = key]
      /\ UNCHANGED <<bucket, prev, next, count, free, used, lock, op, key, new, old, loop>>
  BY DEF StoreKey, Goto
<1>3. /\ cell' \in [Cells -> [key : Keys \cup {NoKey}, data : Keys \cup {NoKey},
                              expired : BOOLEAN, next : Cells \cup {Nil}]]
      /\ cell'[new].key = key
  BY <1>1, <1>2
<1>4. \A x \in Cells : /\ cell'[x].next = cell[x].next
                       /\ x # new => cell'[x].key = cell[x].key /\ cell'[x].data = cell[x].data
  BY <1>1, <1>2
<1> QED
  BY <1>2, <1>3, <1>4, StoreEffect

LEMMA StoreValueStep ==
  ASSUME WriterInv, StoreValue
  PROVE  /\ WriterInv' /\ Members' = Members /\ new \notin Linked /\ HtNext' = HtNext
         /\ \A x \in Cells : x # new => cell'[x].key = cell[x].key /\ cell'[x].data = cell[x].data
         /\ \A b \in Buckets : Entries(b)' = Entries(b)
<1>1. new \in Cells /\ key \in Keys /\ cell \in [Cells -> [key : Keys \cup {NoKey}, data : Keys \cup {NoKey},
                              expired : BOOLEAN, next : Cells \cup {Nil}]]
      /\ cell[new].key = key
  BY DEF WriterInv, TableInv, ReplaceInv, StepInv, TypeInv, StoreValue, Setting, Storing
<1>2. pc = "storeValue" /\ pc' = "link"
      /\ cell' = [cell EXCEPT ![new].data = key, ![new].expired = FALSE]
      /\ UNCHANGED <<bucket, prev, next, count, free, used, lock, op, key, new, old, loop>>
  BY DEF StoreValue, Goto
<1>3. /\ cell' \in [Cells -> [key : Keys \cup {NoKey}, data : Keys \cup {NoKey},
                              expired : BOOLEAN, next : Cells \cup {Nil}]]
      /\ cell'[new].key = key /\ cell'[new].data = key
  BY <1>1, <1>2
<1>4. \A x \in Cells : /\ cell'[x].next = cell[x].next
                       /\ x # new => cell'[x].key = cell[x].key /\ cell'[x].data = cell[x].data
  BY <1>1, <1>2
<1> QED
  BY <1>2, <1>3, <1>4, StoreEffect

LEMMA LinkEffect ==
  ASSUME WriterInv, Link
  PROVE  LET b == BucketOf[key]
             E == Entries(b)
             P == {p \in Reach(HtNext, bucket[b]) : HtNext[p] = old}
         IN  /\ b \in Buckets /\ E \subseteq Cells /\ P \subseteq E /\ new \in Cells /\ new \notin Linked
             /\ bucket' \in [Buckets -> Cells \cup {Nil}]
             /\ cell' \in [Cells -> [key : Keys \cup {NoKey}, data : Keys \cup {NoKey},
                                     expired : BOOLEAN, next : Cells \cup {Nil}]]
             /\ \A x \in Cells : /\ cell'[x].key = cell[x].key /\ cell'[x].data = cell[x].data
                                 /\ HtNext'[x] = IF x \in P THEN new ELSE HtNext[x]
             /\ \A d \in Buckets : d # b => bucket'[d] = bucket[d]
             /\ bucket'[b] = IF P = {} THEN new ELSE bucket[b]
             /\ IsLink(HtNext')
             /\ Reach(HtNext', bucket'[b]) = (E \ {old}) \cup {new} /\ Line(HtNext', bucket'[b])
<1> DEFINE b == BucketOf[key]
           h == bucket[b]
           E == Entries(b)
           R == Reach(HtNext, h)
           P == {p \in R : HtNext[p] = old}
<1>1. /\ TypeInv /\ StepInv /\ ChainInv /\ AgreeInv /\ ReplaceInv /\ pc = "link"
      /\ PointTo(b, old, new)
  BY DEF WriterInv, TableInv, Link
<1>2. /\ key \in Keys /\ b \in Buckets /\ new \in Cells /\ new \notin Linked /\ (Cut <=> old # Nil)
  BY <1>1, TableAssumption DEF StepInv, Setting, Storing, AgreeInv, ReplaceInv, Cut
<1>3. /\ IsLink(HtNext) /\ IsLink(Virtual) /\ h \in Cells \cup {Nil} /\ Line(Virtual, h) /\ E = Reach(Virtual, h)
      /\ E \subseteq Cells /\ Nil \notin E /\ new \notin E /\ R \subseteq E /\ Closed(Virtual, E)
  BY <1>1, <1>2, LinkTypes, EntriesFacts, ChainWithin DEF ChainInv, Linked, Entries
<1>4. \A x \in Cells : HtNext[x] = cell[x].next
  BY DEF HtNext
<1>5. Previous(b, old) = P
  <2>1. Chain(b) = R
    BY <1>1, <1>2, ChainIs
  <2> QED
    BY <1>3, <1>4, <2>1 DEF Previous
<1>6. /\ bucket' = IF P = {} THEN [bucket EXCEPT ![b] = new] ELSE bucket
      /\ cell' = [p \in Cells |-> IF p \in P THEN [cell[p] EXCEPT !.next = new] ELSE cell[p]]
  BY <1>1, <1>5 DEF PointTo
<1>7. P \subseteq E
  BY <1>3
<1>8. cell[new].next = IF old = Nil THEN Nil ELSE Virtual[old]
  <2>1. CASE old = Nil
    BY <1>1, <2>1 DEF ReplaceInv
  <2>2. CASE old # Nil
    BY <1>1, <1>2, <2>2, LinkTypes
  <2> QED
    BY <2>1, <2>2
<1>9. old = Nil => /\ Virtual = HtNext /\ R = E
                   /\ (P = {} <=> E = {})
  <2> SUFFICES ASSUME old = Nil PROVE Virtual = HtNext /\ R = E /\ (P = {} <=> E = {})
    OBVIOUS
  <2>1. Virtual = HtNext /\ R = E
    BY <1>1, <1>2, <1>3, LinkTypes
  <2> QED
    BY <1>3, <2>1 DEF Line
<1>10. old # Nil => /\ old \in E /\ HtNext[old] = Nil /\ \A x \in Cells : x # old => HtNext[x] = Virtual[x]
  <2> SUFFICES ASSUME old # Nil
               PROVE  old \in E /\ HtNext[old] = Nil /\ \A x \in Cells : x # old => HtNext[x] = Virtual[x]
    OBVIOUS
  <2>1. old \in E /\ cell[old].next = Nil
    BY <1>1, <1>2 DEF ReplaceInv
  <2> QED
    BY <1>1, <1>2, <1>3, <1>4, <2>1, LinkTypes
<1>11. old # Nil => /\ old \in R
                    /\ (P = {} <=> h = old)
                    /\ \A x \in E \ {old} : x \in P <=> Virtual[x] = old
  <2> SUFFICES ASSUME old # Nil
               PROVE  old \in R /\ (P = {} <=> h = old) /\ \A x \in E \ {old} : x \in P <=> Virtual[x] = old
    OBVIOUS
  <2>1. \A x \in Reach(Virtual, h) \ {old} : HtNext[x] = Virtual[x]
    BY <1>3, <1>10
  <2>2. old \in R
    BY <1>3, <1>10, <2>1, ReachCut
  <2>3. h # old => \E p \in R : HtNext[p] = old
    BY <1>3, <2>2, ReachPrevious
  <2>4. \A p \in P : p \in E /\ p # old /\ Virtual[p] = old
    BY <1>3, <1>10
  <2>5. h = old => P = {}
    BY <1>3, <2>4 DEF Line
  <2>6. ASSUME NEW x \in E \ {old}, Virtual[x] = old PROVE x \in P
    <3>1. h # old
      BY <1>3, <2>6 DEF Line
    <3>2. PICK p \in P : TRUE
      BY <2>3, <3>1
    <3>3. p = x
      BY <1>3, <2>4, <2>6, <3>2 DEF Line
    <3> QED
      BY <3>2, <3>3
  <2> QED
    BY <2>2, <2>3, <2>4, <2>5, <2>6
<1> HIDE DEF P, R, E, b, h
<1>12. bucket' \in [Buckets -> Cells \cup {Nil}]
  BY <1>1, <1>2, <1>6 DEF TypeInv
<1>13. cell' \in [Cells -> [key : Keys \cup {NoKey}, data : Keys \cup {NoKey},
                            expired : BOOLEAN, next : Cells \cup {Nil}]]
  BY <1>1, <1>2, <1>6 DEF TypeInv
<1>14. \A x \in Cells : /\ cell'[x].key = cell[x].key /\ cell'[x].data = cell[x].data
                        /\ cell'[x].next = IF x \in P THEN new ELSE cell[x].next
  BY <1>1, <1>6 DEF TypeInv
<1>15. \A x \in Cells : HtNext'[x] = IF x \in P THEN new ELSE HtNext[x]
  <2>1. \A x \in Cells : HtNext'[x] = cell'[x].next
    BY DEF HtNext
  <2> QED
    BY <1>4, <1>14, <2>1
<1>16. IsLink(HtNext')
  BY <1>2, <1>3, <1>15 DEF IsLink
<1>17. /\ bucket'[b] = IF P = {} THEN new ELSE bucket[b]
       /\ \A d \in Buckets : d # b => bucket'[d] = bucket[d]
  BY <1>1, <1>2, <1>6 DEF TypeInv
<1>18. HtNext'[new] = cell[new].next
  BY <1>2, <1>3, <1>4, <1>7, <1>15
<1>19. Reach(HtNext', bucket'[b]) = (E \ {old}) \cup {new} /\ Line(HtNext', bucket'[b])
  <2>0. bucket'[b] \in Cells \cup {Nil} /\ bucket[b] = h
    BY <1>2, <1>12 DEF h
  <2>1. CASE old = Nil
    <3>1. \A x \in Reach(HtNext, h) : HtNext'[x] = IF HtNext[x] = Nil THEN new ELSE HtNext[x]
      BY <1>3, <1>9, <1>15, <2>1 DEF P, R
    <3>2. bucket'[b] = (IF Reach(HtNext, h) = {} THEN new ELSE h)
      BY <1>9, <1>17, <2>0, <2>1 DEF R
    <3>3. new \in Cells \ Reach(HtNext, h) /\ HtNext'[new] = Nil /\ Line(HtNext, h)
      BY <1>2, <1>3, <1>8, <1>9, <1>18, <2>1 DEF R
    <3>4. Reach(HtNext', bucket'[b]) = Reach(HtNext, h) \cup {new} /\ Line(HtNext', bucket'[b])
      BY <1>3, <1>16, <2>0, <3>1, <3>2, <3>3, LineAppend
    <3>5. E \ {old} = E /\ Reach(HtNext, h) = E
      BY <1>3, <1>9, <2>1 DEF R
    <3> QED
      BY <3>4, <3>5
  <2>2. CASE old # Nil
    <3>1. \A x \in Reach(Virtual, h) \ {old} : HtNext'[x] = IF Virtual[x] = old THEN new ELSE Virtual[x]
      BY <1>3, <1>10, <1>11, <1>15, <2>2
    <3>2. bucket'[b] = (IF h = old THEN new ELSE h)
      BY <1>11, <1>17, <2>0, <2>2
    <3>3. new \in Cells \ Reach(Virtual, h) /\ HtNext'[new] = Virtual[old] /\ old \in Reach(Virtual, h)
      BY <1>2, <1>3, <1>8, <1>10, <1>18, <2>2
    <3>4. Reach(HtNext', bucket'[b]) = (Reach(Virtual, h) \ {old}) \cup {new} /\ Line(HtNext', bucket'[b])
      BY <1>3, <1>16, <2>0, <3>1, <3>2, <3>3, LineReplace
    <3> QED
      BY <1>3, <3>4
  <2> QED
    BY <2>1, <2>2
<1> QED
  BY <1>2, <1>3, <1>7, <1>12, <1>13, <1>14, <1>15, <1>16, <1>17, <1>19 DEF b, h, E, R, P

LEMMA LinkStep ==
  ASSUME WriterInv, Link
  PROVE  /\ WriterInv' /\ Members' = Members
         /\ \A d \in Buckets :
              Entries(d)' = IF d = BucketOf[key] THEN (Entries(d) \ {old}) \cup {new} ELSE Entries(d)
<1> DEFINE b == BucketOf[key]
           P == {p \in Reach(HtNext, bucket[b]) : HtNext[p] = old}
<1>1. /\ TypeInv /\ LockInv /\ StepInv /\ ListInv /\ ChainInv /\ AgreeInv /\ ReplaceInv /\ SpaceInv
      /\ pc = "link" /\ pc' = "append"
      /\ UNCHANGED <<prev, next, count, free, used, lock, op, key, new, old, loop>>
  BY DEF WriterInv, TableInv, Link, Goto
<1>2. /\ b \in Buckets /\ Entries(b) \subseteq Cells /\ P \subseteq Entries(b)
      /\ new \in Cells /\ new \notin Linked
      /\ bucket' \in [Buckets -> Cells \cup {Nil}]
      /\ cell' \in [Cells -> [key : Keys \cup {NoKey}, data : Keys \cup {NoKey},
                              expired : BOOLEAN, next : Cells \cup {Nil}]]
      /\ \A x \in Cells : cell'[x].key = cell[x].key /\ cell'[x].data = cell[x].data
      /\ \A x \in Cells : HtNext'[x] = IF x \in P THEN new ELSE HtNext[x]
      /\ \A d \in Buckets : d # b => bucket'[d] = bucket[d]
      /\ IsLink(HtNext')
      /\ Reach(HtNext', bucket'[b]) = (Entries(b) \ {old}) \cup {new} /\ Line(HtNext', bucket'[b])
  BY LinkEffect
<1> HIDE DEF P
<1>3. key \in Keys /\ (Cut <=> old # Nil) /\ cell[new].key = key /\ cell[new].data = key
  BY <1>1 DEF StepInv, Setting, Storing, ReplaceInv, Cut
<1>4. ~Cut' /\ Virtual' = HtNext' /\ Members' = Members
  BY <1>1 DEF Cut, Virtual, Members
<1>5. \A d \in Buckets : Entries(d)' = Reach(HtNext', bucket'[d])
  BY <1>4 DEF Entries
<1>6. \A d \in Buckets : d # b => Entries(d) \cap Entries(b) = {} /\ Entries(d) \subseteq Cells
  BY <1>1, <1>2, EntriesFacts DEF ChainInv
<1>7. old # Nil => old \in Entries(b) /\ cell[old].key = key /\ old \notin Members
  BY <1>1, <1>3 DEF ReplaceInv
<1>8. ASSUME NEW d \in Buckets
      PROVE  /\ Entries(d)' = IF d = b THEN (Entries(d) \ {old}) \cup {new} ELSE Entries(d)
             /\ Line(HtNext', bucket'[d])
  <2>1. CASE d = b
    BY <1>2, <1>5, <2>1
  <2>2. CASE d # b
    <3>1. /\ IsLink(Virtual) /\ bucket[d] \in Cells \cup {Nil} /\ Line(Virtual, bucket[d])
          /\ Entries(d) = Reach(Virtual, bucket[d]) /\ bucket'[d] = bucket[d]
      BY <1>1, <1>2, <2>2, LinkTypes DEF ChainInv, Entries
    <3>2. \A x \in Entries(d) : x \notin P /\ x # old /\ x \in Cells
      <4>1. \A x \in Entries(d) : x \in Cells /\ x \notin Entries(b) /\ x # Nil
        BY <1>6, <2>2, NilIsNoCell
      <4> QED
        BY <1>2, <1>7, <4>1
    <3>3. \A x \in Cells : x # old => HtNext[x] = Virtual[x]
      BY <1>1, LinkTypes
    <3>4. \A x \in Reach(Virtual, bucket[d]) : HtNext'[x] = Virtual[x]
      BY <1>2, <3>1, <3>2, <3>3
    <3>5. Reach(HtNext', bucket[d]) = Reach(Virtual, bucket[d]) /\ Line(HtNext', bucket[d])
      BY <1>2, <3>1, <3>4, ReachSame
    <3> QED
      BY <1>5, <2>2, <3>1, <3>5
  <2> QED
    BY <2>1, <2>2
<1>9. ChainInv'
  <2> SUFFICES ASSUME NEW d \in Buckets
               PROVE  \A x \in Entries(d)' :
                           /\ cell'[x].key \in Keys /\ BucketOf[cell'[x].key] = d /\ cell'[x].data = cell'[x].key
                           /\ \A y \in Entries(d)' : cell'[x].key = cell'[y].key => x = y
    BY <1>4, <1>8 DEF ChainInv
  <2>1. \A x \in Entries(d) :
          /\ cell[x].key \in Keys /\ BucketOf[cell[x].key] = d /\ cell[x].data = cell[x].key
          /\ \A y \in Entries(d) : cell[x].key = cell[y].key => x = y
    BY <1>1 DEF ChainInv
  <2>2. \A x \in Entries(d) \cup {new} : cell'[x].key = cell[x].key /\ cell'[x].data = cell[x].data
    BY <1>2, <1>6
  <2>3. d = b => \A x \in Entries(d) \ {old} : cell[x].key # key
    <3>1. CASE old = Nil
      BY <1>1, <1>3, <3>1 DEF ReplaceInv
    <3>2. CASE old # Nil
      BY <1>7, <2>1, <3>2
    <3> QED
      BY <3>1, <3>2
  <2>4. CASE d # b
    BY <1>8, <2>1, <2>2, <2>4
  <2>5. CASE d = b
    <3>1. Entries(d)' = (Entries(d) \ {old}) \cup {new}
      BY <1>8, <2>5
    <3>2. \A x \in (Entries(d) \ {old}) \cup {new} :
            cell'[x].key \in Keys /\ BucketOf[cell'[x].key] = d /\ cell'[x].data = cell'[x].key
      BY <1>3, <2>1, <2>2, <2>5
    <3>3. \A x, y \in (Entries(d) \ {old}) \cup {new} : cell'[x].key = cell'[y].key => x = y
      BY <1>3, <2>1, <2>2, <2>3, <2>5
    <3> QED
      BY <3>1, <3>2, <3>3
  <2> QED
    BY <2>4, <2>5
<1>10. Linked = Members \cup (IF Cut THEN {old} ELSE {}) /\ new \notin Members
  BY <1>1 DEF AgreeInv, Storing
<1>11. Linked' = Members \cup {new}
  <2>1. Linked' = (Linked \ {old}) \cup {new}
    <3>1. \A x : x \in Linked' <=> \E d \in Buckets : x \in Entries(d)'
      BY DEF Linked
    <3>2. \A x : x \in Linked <=> \E d \in Buckets : x \in Entries(d)
      BY DEF Linked
    <3>3. \A d \in Buckets : d # b => old \notin Entries(d)
      <4>1. \A d \in Buckets : Nil \notin Entries(d)
        BY <1>1, EntriesFacts
      <4> QED
        BY <1>6, <1>7, <4>1
    <3>4. \A d \in Buckets : \A x : x \in Entries(d)' <=>
            IF d = b THEN (x \in Entries(d) /\ x # old) \/ x = new ELSE x \in Entries(d)
      BY <1>8
    <3>5. \A x : x \in Linked' => x \in (Linked \ {old}) \cup {new}
      BY <3>1, <3>2, <3>3, <3>4
    <3>6. \A x : x \in (Linked \ {old}) \cup {new} => x \in Linked'
      BY <1>2, <3>1, <3>2, <3>4
    <3> QED
      BY <3>5, <3>6
  <2>2. old \notin Members
    BY <1>1, <1>7, MembersFacts
  <2> QED
    BY <1>3, <1>10, <2>1, <2>2
<1>12. AgreeInv'
  BY <1>1, <1>4, <1>10, <1>11 DEF AgreeInv
<1>13. ReplaceInv'
  BY <1>1, <1>4 DEF ReplaceInv
<1>14. SpaceInv'
  <2>1. Live' = Live
    BY <1>1, <1>4 DEF Live, Storing
  <2> QED
    BY <1>1, <2>1 DEF SpaceInv
<1>15. TypeInv'
  BY <1>1, <1>2 DEF TypeInv, loop
<1>16. LockInv' /\ StepInv'
  BY <1>1 DEF LockInv, StepInv, WriterSteps, Setting, Storing, loop
<1>17. ListInv'
  <2>1. QueueInv'
    BY <1>1, <1>4 DEF ListInv, QueueInv
  <2>2. \A c \in Members : cell'[c].key \in Keys /\ cell'[c].data = cell'[c].key
    BY <1>1, <1>2, MembersFacts DEF ListInv
  <2>3. at' = ListHead
    BY <1>1 DEF StepInv, Storing, loop
  <2> QED
    BY <1>1, <1>4, <2>1, <2>2, <2>3 DEF ListInv
<1>18. TableInv'
  BY <1>1, <1>9, <1>12, <1>13, <1>14 DEF TableInv
<1> QED
  BY <1>4, <1>8, <1>15, <1>16, <1>17, <1>18 DEF WriterInv

LEMMA AppendStep ==
  ASSUME WriterInv, AppendEntry
  PROVE  /\ WriterInv' /\ Members' = Members \cup {new} /\ pc = "append" /\ pc' = "idle"
         /\ UNCHANGED <<bucket, cell>> /\ count' > count
<1>1. /\ TypeInv /\ LockInv /\ StepInv /\ ListInv /\ ChainInv /\ AgreeInv /\ ReplaceInv /\ SpaceInv
      /\ pc = "append" /\ count' = count + 1 /\ ListAddTail(new) /\ Finish
      /\ UNCHANGED <<bucket, cell, free, used>>
  BY DEF WriterInv, TableInv, AppendEntry
<1>2. pc' = "idle" /\ new' = Nil /\ old' = Nil /\ at' = ListHead /\ cleared' = 0
  BY <1>1, FinishFacts
<1>3. /\ ~Cut /\ Virtual = HtNext /\ Live = Members \cup {new} /\ new \in Cells \ Members
      /\ Linked = Members \cup {new} /\ count < MaxKeyCount
  BY <1>1 DEF Cut, Virtual, Live, Storing, Setting, AgreeInv, StepInv
<1>4. /\ Members' = Members \cup {new} /\ QueueInv'
      /\ next' \in [Cells \cup {ListHead} -> Cells \cup {ListHead}]
      /\ prev' \in [Cells \cup {ListHead} -> Cells \cup {ListHead}]
  BY <1>1, <1>3, AddToList DEF ListInv
<1>5. Cardinality(Members') = count + 1
  <2>1. IsFiniteSet(Members) /\ new \notin Members
    BY <1>1, <1>3, MembersFacts
  <2>2. Cardinality(Members \cup {new}) = Cardinality(Members) + 1
    BY <2>1, FS_AddElement
  <2> QED
    BY <1>1, <1>4, <2>2 DEF ListInv
<1>6. count' \in 0..MaxKeyCount /\ count' > count
  BY <1>1, <1>3, TableAssumption DEF TypeInv
<1>7. TypeInv'
  BY <1>1, <1>2, <1>4, <1>6 DEF TypeInv
<1>8. LockInv' /\ StepInv'
  BY <1>1, FinishStep
<1>9. cell[new].key \in Keys /\ cell[new].data = cell[new].key
  <2>1. PICK b \in Buckets : new \in Entries(b)
    BY <1>3 DEF Linked
  <2> QED
    BY <1>1, <2>1 DEF ChainInv
<1>10. ListInv'
  <2>1. \A c \in Members' : cell'[c].key \in Keys /\ cell'[c].data = cell'[c].key
    BY <1>1, <1>4, <1>9 DEF ListInv
  <2> QED
    BY <1>1, <1>2, <1>4, <1>5, <2>1 DEF ListInv
<1>11. Settled'
  <2>1. HtNext' = HtNext /\ bucket' = bucket /\ cell' = cell
    BY <1>1 DEF HtNext
  <2>2. \A b \in Buckets : Entries(b) = Reach(HtNext, bucket[b])
    BY <1>3 DEF Entries
  <2>3. UNION {Reach(HtNext, bucket[b]) : b \in Buckets} = Members'
    BY <1>3, <1>4, <2>2 DEF Linked
  <2>4. Fits(Members', free', used')
    BY <1>1, <1>3, <1>4 DEF SpaceInv
  <2> QED
    BY <1>1, <1>3, <2>1, <2>2, <2>3, <2>4 DEF Settled, ChainInv
<1>12. TableInv'
  <2>1. (pc \in Plain => (TableInv <=> Settled))'
    BY PlainSettled, PTL
  <2> QED
    BY <1>2, <1>11, <2>1 DEF Plain
<1> QED
  BY <1>1, <1>2, <1>4, <1>6, <1>7, <1>8, <1>10, <1>12 DEF WriterInv
-----------------------------------------------------------------------------
(* shm_ht_clear                                                            *)

LEMMA ClearEffect ==
  ASSUME TypeInv, ClearTable, pc' = "sleepEnd", at' = ListHead, UNCHANGED <<new, old, cleared>>
  PROVE  /\ TypeInv' /\ ListInv' /\ TableInv' /\ Members' = {} /\ UNCHANGED <<cell, HtNext>>
         /\ \A b \in Buckets : bucket'[b] = Nil
<1>1. /\ bucket' = [b \in Buckets |-> Nil] /\ count' = 0
      /\ next' = [next EXCEPT ![ListHead] = ListHead] /\ prev' = [c \in DOMAIN prev |-> c]
      /\ free' = [s \in 1..Stripings |-> 0] /\ used' = [s \in 1..Stripings |-> 0] /\ cell' = cell
  BY DEF ClearTable
<1>2. /\ next \in [Cells \cup {ListHead} -> Cells \cup {ListHead}]
      /\ prev \in [Cells \cup {ListHead} -> Cells \cup {ListHead}]
  BY DEF TypeInv
<1>3. /\ next' \in [Cells \cup {ListHead} -> Cells \cup {ListHead}] /\ next'[ListHead] = ListHead
      /\ prev' \in [Cells \cup {ListHead} -> Cells \cup {ListHead}] /\ prev'[ListHead] = ListHead
  BY <1>1, <1>2
<1>4. /\ free' \in [1..Stripings -> 0..PerStriping] /\ used' \in [1..Stripings -> 0..PerStriping]
      /\ count' \in 0..MaxKeyCount
  BY <1>1, TableAssumption
<1>5. TypeInv'
  BY <1>1, <1>3, <1>4 DEF TypeInv
<1>6. Members' = {}
  BY <1>3, ReachNone DEF Members, ListHead, Nil
<1>7. Cardinality(Members') = 0
  BY <1>6, FS_EmptySet
<1>8. ListInv'
  BY <1>1, <1>3, <1>6, <1>7 DEF ListInv, QueueInv
<1>9. \A b \in Buckets : bucket'[b] = Nil /\ Reach(HtNext', bucket'[b]) = {} /\ Line(HtNext', bucket'[b])
  BY <1>1, ReachNone
<1>10. Fits({}, free', used')
  <2>1. \A s \in 1..Stripings : {c \in {} : StripingOf(c) = s} = {}
    OBVIOUS
  <2>2. \A s \in 1..Stripings : used'[s] = Cardinality({c \in {} : StripingOf(c) = s})
    BY <1>1, <2>1, FS_EmptySet
  <2>3. \A s \in 1..Stripings : used'[s] <= free'[s]
    BY <1>1
  <2> QED
    BY <2>2, <2>3 DEF Fits
<1>11. Settled'
  BY <1>6, <1>9, <1>10 DEF Settled
<1>12. TableInv'
  <2>1. (pc \in Plain => (TableInv <=> Settled))'
    BY PlainSettled, PTL
  <2> QED
    BY <1>11, <2>1 DEF Plain
<1>13. HtNext' = HtNext
  BY <1>1 DEF HtNext
<1> QED
  BY <1>1, <1>5, <1>6, <1>8, <1>9, <1>12, <1>13

LEMMA ClearStep ==
  ASSUME WriterInv, Clear \/ Recover
  PROVE  /\ WriterInv' /\ Members' = {} /\ UNCHANGED <<cell, HtNext>> /\ pc' = "sleepEnd"
         /\ \A b \in Buckets : bucket'[b] = Nil
<1>1. /\ TypeInv /\ LockInv /\ StepInv /\ ClearTable /\ pc' = "sleepEnd" /\ pc \in {"idle", "crashed"}
      /\ lock' = "writer" /\ UNCHANGED <<new, old, loop>>
  BY DEF WriterInv, Clear, Recover, Acquire, FallAsleep, Goto, LockInv
<1>2. at' = ListHead /\ cleared' = cleared
  BY <1>1 DEF StepInv, loop
<1>3. /\ TypeInv' /\ ListInv' /\ TableInv' /\ Members' = {} /\ UNCHANGED <<cell, HtNext>>
      /\ \A b \in Buckets : bucket'[b] = Nil
  BY <1>1, <1>2, ClearEffect
<1>4. LockInv' /\ StepInv'
  BY <1>1 DEF LockInv, StepInv, WriterSteps, Setting, Storing
<1> QED
  BY <1>1, <1>3, <1>4 DEF WriterInv

\* A kill leaves chains that lead to whole entries only.
LEMMA CrashStep ==
  ASSUME WriterInv, Crash
  PROVE  /\ WriterInv' /\ UNCHANGED <<table, HtNext, Members>> /\ pc # "crashed" /\ pc' = "crashed"
<1>1. /\ TypeInv /\ LockInv /\ StepInv /\ ListInv /\ ChainInv /\ ReplaceInv
      /\ pc # "crashed" /\ pc' = "crashed" /\ lock = "writer"
      /\ new' = Nil /\ old' = Nil /\ at' = ListHead /\ cleared' = 0
      /\ UNCHANGED table /\ UNCHANGED lock
  BY DEF WriterInv, TableInv, Crash, Goto, LeaveLoop
<1>2. HtNext' = HtNext /\ Members' = Members /\ bucket' = bucket /\ cell' = cell
  BY <1>1 DEF HtNext, Members, table
<1>3. TypeInv'
  BY <1>1 DEF TypeInv, table
<1>4. LockInv' /\ StepInv'
  BY <1>1 DEF LockInv, StepInv, WriterSteps, Setting, Storing
<1>5. ListInv'
  BY <1>1, ListAlone
<1>6. \A b \in Buckets : \A c \in Reach(HtNext, bucket[b]) : cell[c].data = cell[c].key
  BY <1>1, ChainWithin DEF ChainInv
<1>7. TableInv'
  BY <1>1, <1>2, <1>6 DEF TableInv, Intact
<1> QED
  BY <1>1, <1>2, <1>3, <1>4, <1>5, <1>7 DEF WriterInv

LEMMA ExpireStep ==
  ASSUME WriterInv, NEW e \in Cells, Expire(e)
  PROVE  /\ WriterInv' /\ UNCHANGED <<HtNext, Members, bucket, count, next>> /\ UNCHANGED writer /\ UNCHANGED get
         /\ \A x \in Cells : cell'[x].key = cell[x].key /\ cell'[x].data = cell[x].data
         /\ pc = "idle"
<1>1. /\ TypeInv /\ LockInv /\ StepInv /\ ListInv /\ TableInv /\ pc = "idle" /\ pc' = "idle"
      /\ cell' = [cell EXCEPT ![e].expired = TRUE]
      /\ UNCHANGED <<bucket, prev, next, count, free, used, writer, get>>
  BY DEF WriterInv, Expire, writer
<1>2. /\ cell' \in [Cells -> [key : Keys \cup {NoKey}, data : Keys \cup {NoKey},
                              expired : BOOLEAN, next : Cells \cup {Nil}]]
      /\ \A x \in Cells : cell'[x].key = cell[x].key /\ cell'[x].data = cell[x].data /\ cell'[x].next = cell[x].next
  BY <1>1 DEF TypeInv
<1>3. HtNext' = HtNext /\ Members' = Members
  BY <1>1, <1>2 DEF HtNext, Members
<1>4. TypeInv'
  BY <1>1, <1>2 DEF TypeInv, writer, loop
<1>5. LockInv' /\ StepInv'
  BY <1>1 DEF LockInv, StepInv, writer, loop
<1>6. ListInv'
  <2>1. \A c \in Members : cell'[c].key \in Keys /\ cell'[c].data = cell'[c].key
    BY <1>1, <1>2, MembersFacts DEF ListInv
  <2> QED
    BY <1>1, <1>3, <2>1 DEF ListInv, QueueInv, writer, loop
<1>7. Settled
  BY <1>1, PlainSettled DEF Plain
<1>8. Settled'
  <2>1. \A b \in Buckets : Reach(HtNext, bucket[b]) \subseteq Cells
    BY <1>1, <1>7, SettledFacts, MembersFacts
  <2>2. \A b \in Buckets : \A c \in Reach(HtNext, bucket[b]) :
            /\ cell'[c].key \in Keys /\ BucketOf[cell'[c].key] = b /\ cell'[c].data = cell'[c].key
            /\ \A d \in Reach(HtNext, bucket[b]) : cell'[c].key = cell'[d].key => c = d
    BY <1>2, <1>7, <2>1 DEF Settled
  <2>3. bucket' = bucket /\ free' = free /\ used' = used
    BY <1>1
  <2> QED
    BY <1>3, <1>7, <2>2, <2>3 DEF Settled
<1>9. TableInv'
  <2>1. (pc \in Plain => (TableInv <=> Settled))'
    BY PlainSettled, PTL
  <2> QED
    BY <1>1, <1>8, <2>1 DEF Plain
<1> QED
  BY <1>1, <1>2, <1>3, <1>4, <1>5, <1>6, <1>9 DEF WriterInv
-----------------------------------------------------------------------------
(* Steps of readers                                                        *)

\* What the invariant of the table is made of.
linked == <<table, pc, op, key, new, old, loop>>

LEMMA SameTable ==
  ASSUME UNCHANGED linked
  PROVE  /\ UNCHANGED <<HtNext, Virtual, Members, Linked, Live>> /\ Cut' = Cut
         /\ \A b : Entries(b)' = Entries(b)
<1>1. UNCHANGED <<bucket, cell, next, pc, new, old>>
  BY DEF linked, table
<1>2. HtNext' = HtNext /\ Members' = Members /\ Cut' = Cut /\ Live' = Live
  BY <1>1 DEF HtNext, Members, Cut, Live
<1>3. Virtual' = Virtual
  BY <1>1, <1>2 DEF Virtual
<1>4. \A b : Entries(b)' = Entries(b)
  BY <1>1, <1>3 DEF Entries
<1>5. Linked' = Linked
  BY <1>4 DEF Linked
<1> QED
  BY <1>2, <1>3, <1>4, <1>5

LEMMA WriterAlone ==
  ASSUME WriterInv, UNCHANGED linked, LockInv'
  PROVE  WriterInv'
<1>1. /\ UNCHANGED <<bucket, cell, prev, next, count, free, used, pc, op, key, new, old, at, cleared>>
      /\ TypeInv /\ StepInv /\ ListInv /\ TableInv
  BY DEF linked, table, loop, WriterInv
<1>2. /\ HtNext' = HtNext /\ Virtual' = Virtual /\ Members' = Members /\ Linked' = Linked /\ Live' = Live
      /\ Cut' = Cut /\ \A b : Entries(b)' = Entries(b)
  BY SameTable
<1>3. TypeInv' /\ StepInv'
  BY <1>1 DEF TypeInv, StepInv
<1>4. ListInv'
  BY <1>1, <1>2 DEF ListInv, QueueInv
<1>5. ChainInv => ChainInv'
  BY <1>1, <1>2 DEF ChainInv
<1>6. (AgreeInv => AgreeInv') /\ (ReplaceInv => ReplaceInv') /\ (SpaceInv => SpaceInv')
  BY <1>1, <1>2 DEF AgreeInv, ReplaceInv, SpaceInv
<1>7. \A b \in Buckets : Intact(bucket[b]) => Intact(bucket[b])'
  BY <1>1, <1>2 DEF Intact
<1>8. TableInv'
  BY <1>1, <1>5, <1>6, <1>7 DEF TableInv
<1> QED
  BY <1>3, <1>4, <1>8 DEF WriterInv

LEMMA ReadingLeaves ==
  ASSUME WriterInv, NEW r \in Readers, Reading(r)
  PROVE  WriterInv' /\ UNCHANGED linked
<1>1. UNCHANGED linked /\ (Unlock(r) \/ UNCHANGED lock)
  BY DEF Reading, Compare, Advance, Miss, TimedOut, ReturnExpired, Found, Use, Examine, CopyRow,
         EndDump, Stray, EndGet, linked, writer
<1>2. LockInv /\ pc' = pc /\ r # "writer" /\ r # "free"
  BY <1>1, TableAssumption DEF WriterInv, linked
<1>3. LockInv'
  BY <1>1, <1>2 DEF LockInv, Unlock
<1> QED
  BY <1>1, <1>3, WriterAlone

LEMMA BeginLeaves ==
  ASSUME WriterInv, NEW r \in Readers, NEW l \in WithinLock,
         (\E k \in Keys : BeginGet(r, k, l)) \/ (\E d \in Dumps : BeginDump(r, d, l))
  PROVE  WriterInv' /\ UNCHANGED linked
<1>1. UNCHANGED linked /\ lock' = (IF l THEN r ELSE lock) /\ (l => lock = "free")
  BY DEF BeginGet, BeginDump, linked
<1>2. LockInv /\ pc' = pc /\ r # "writer" /\ r # "free"
  BY <1>1, TableAssumption DEF WriterInv, linked
<1>3. LockInv'
  BY <1>1, <1>2 DEF LockInv
<1> QED
  BY <1>1, <1>3, WriterAlone

LEMMA WriterInit == Init => WriterInv
<1> SUFFICES ASSUME Init PROVE WriterInv
  OBVIOUS
<1>1. TypeInv
  BY TableAssumption DEF Init, TypeInv
<1>2. LockInv /\ StepInv
  BY DEF Init, LockInv, StepInv, WriterSteps, Setting, Storing
<1>3. Members = {}
  BY ReachNone DEF Init, Members, ListHead, Nil
<1>4. ListInv
  <2>1. Cardinality(Members) = 0
    BY <1>3, FS_EmptySet
  <2> QED
    BY <1>3, <2>1 DEF Init, ListInv, QueueInv
<1>5. \A b \in Buckets : Reach(HtNext, bucket[b]) = {} /\ Line(HtNext, bucket[b])
  BY ReachNone DEF Init
<1>6. Fits({}, free, used)
  <2>1. \A s \in 1..Stripings : {c \in {} : StripingOf(c) = s} = {}
    OBVIOUS
  <2>2. \A s \in 1..Stripings : used[s] = Cardinality({c \in {} : StripingOf(c) = s})
    BY <2>1, FS_EmptySet DEF Init
  <2>3. \A s \in 1..Stripings : used[s] <= free[s]
    BY DEF Init
  <2> QED
    BY <2>2, <2>3 DEF Fits
<1>7. TableInv
  <2>1. Settled
    BY <1>3, <1>5, <1>6 DEF Settled
  <2> QED
    BY <2>1, PlainSettled DEF Init, Plain
<1> QED
  BY <1>1, <1>2, <1>4, <1>7 DEF WriterInv

LEMMA WriterStep ==
  ASSUME WriterInv, [Next]_vars
  PROVE  WriterInv'
<1>1. CASE \E k \in Keys : Set(k) \/ Delete(k)
  BY <1>1, SetStep, DeleteStep
<1>2. CASE Clear
  BY <1>2, ClearStep
<1>3. CASE Writing
  BY <1>3, DeletedStep, SkipStep, RecycleStep, RecycledStep, RecycleFailsStep, AwakeStep, AllocStep,
     NoRoomStep, FreeOldStep, StoreKeyStep, StoreValueStep, LinkStep, AppendStep, ClearStep DEF Writing
<1>4. CASE Crash
  BY <1>4, CrashStep
<1>5. CASE \E c \in Cells : Expire(c)
  BY <1>5, ExpireStep
<1>6. CASE \E r \in Readers, k \in Keys, l \in WithinLock : BeginGet(r, k, l)
  BY <1>6, BeginLeaves
<1>7. CASE \E r \in Readers, d \in Dumps, l \in WithinLock : BeginDump(r, d, l)
  BY <1>7, BeginLeaves
<1>8. CASE \E r \in Readers : Reading(r)
  BY <1>8, ReadingLeaves
<1>9. CASE UNCHANGED vars
  <2>1. UNCHANGED linked /\ lock' = lock /\ pc' = pc /\ LockInv
    BY <1>9 DEF vars, writer, linked, WriterInv
  <2>2. LockInv'
    BY <2>1 DEF LockInv
  <2> QED
    BY <2>1, <2>2, WriterAlone
<1> QED
  BY <1>1, <1>2, <1>3, <1>4, <1>5, <1>6, <1>7, <1>8, <1>9 DEF Next

LEMMA AgreeImplied == WriterInv => LinksAgree
<1> SUFFICES ASSUME WriterInv, lock = "free" PROVE LinksAgree
  BY DEF LinksAgree
<1>1. TypeInv /\ ListInv /\ QueueInv /\ pc = "idle" /\ Settled
  BY PlainSettled DEF WriterInv, LockInv, ListInv, Plain
<1>2. \A b \in Buckets : Chain(b) = Reach(HtNext, bucket[b])
  BY <1>1, ChainIs
<1>3. ToSet(Listed) = Members /\ Len(Listed) = Cardinality(Members)
  BY <1>1, ListedIs
<1>4. UNION {Chain(b) : b \in Buckets} = ToSet(Listed)
  <2>1. UNION {Chain(b) : b \in Buckets} = UNION {Reach(HtNext, bucket[b]) : b \in Buckets}
    BY <1>2
  <2> QED
    BY <1>1, <1>3, <2>1 DEF Settled
<1>5. \A b \in Buckets : \A c \in Chain(b) :
       /\ BucketOf[cell[c].key] = b
       /\ cell[c].data = cell[c].key
       /\ \A d \in Chain(b) : cell[c].key = cell[d].key => c = d
  BY <1>1, <1>2 DEF Settled
<1>6. \A c \in ToSet(Listed) \cup {ListHead} : prev[next[c]] = c
  BY <1>1, <1>3 DEF QueueInv
<1>7. count = Len(Listed)
  BY <1>1, <1>3 DEF ListInv
<1> QED
  BY <1>4, <1>5, <1>6, <1>7 DEF LinksAgree

\* Whenever no operation is under way, chains and list agree.
THEOREM LinksCorrect == Spec => []LinksAgree
<1>1. WriterInv /\ [Next]_vars => WriterInv'
  BY WriterStep
<1> QED
  BY <1>1, WriterInit, AgreeImplied, PTL DEF Spec
-----------------------------------------------------------------------------
(* Readers                                                                 *)

\* A walk that is in a chain stays in it and meets whole entries only.
Ways == \A b \in Buckets :
  /\ Entries(b) \subseteq Cells /\ Closed(HtNext, Entries(b)) /\ bucket[b] \in Entries(b) \cup {Nil}
  /\ \A a \in Entries(b) \cup {Nil} : Reach(HtNext, a) \subseteq Entries(b) /\ Intact(a)

LEMMA WayWithin == WriterInv /\ pc # "crashed" => Ways
<1> SUFFICES ASSUME WriterInv, pc # "crashed", NEW b \in Buckets
             PROVE  /\ Entries(b) \subseteq Cells /\ Closed(HtNext, Entries(b)) /\ bucket[b] \in Entries(b) \cup {Nil}
                    /\ \A a \in Entries(b) \cup {Nil} : Reach(HtNext, a) \subseteq Entries(b) /\ Intact(a)
  BY DEF Ways
<1>1. TypeInv /\ StepInv /\ ReplaceInv /\ ChainInv
  BY DEF WriterInv, TableInv
<1>2. Entries(b) \subseteq Cells /\ Closed(Virtual, Entries(b)) /\ bucket[b] \in Entries(b) \cup {Nil}
  BY <1>1, EntriesFacts
<1>3. Closed(HtNext, Entries(b))
  <2>1. CASE ~Cut
    BY <1>1, <1>2, <2>1, LinkTypes
  <2>2. CASE Cut
    <3>1. \A c \in Cells : c # old => HtNext[c] = Virtual[c]
      BY <1>1, <2>2, LinkTypes
    <3>2. HtNext[old] = Nil
      BY <1>1, <2>2, LinkTypes DEF ReplaceInv
    <3> QED
      BY <1>2, <3>1, <3>2 DEF Closed
  <2> QED
    BY <2>1, <2>2
<1>4. ASSUME NEW a \in Entries(b) \cup {Nil}
      PROVE  Reach(HtNext, a) \subseteq Entries(b) /\ Intact(a)
  <2>1. Reach(HtNext, a) \subseteq Entries(b)
    BY <1>2, <1>3, ReachLeast
  <2> QED
    BY <1>1, <2>1 DEF Intact, ChainInv
<1> QED
  BY <1>2, <1>3, <1>4

\* What a step of the writer may do to the record of a get.
Kept(r) ==
  /\ get'[r].pc = get[r].pc /\ get'[r].key = get[r].key /\ get'[r].at = get[r].at
  /\ get[r].spoilt => get'[r].spoilt
  /\ get[r].cut => get'[r].cut
  /\ get'[r].present => get[r].present

LEMMA GetFacts ==
  ASSUME GetInv, NEW r \in Gets
  PROVE  /\ r \in Readers /\ get[r].key \in Keys /\ OwnBucket(r) \in Buckets
         /\ get[r].at \in Cells \cup {Nil}
         /\ get[r].pc \in {"step", "found", "use"} => get[r].at \in Cells
BY TableAssumption DEF GetInv, Gets, GetType, OwnBucket

\* A get that is spoilt and cut is promised nothing.
LEMMA SpoiltSound ==
  ASSUME NEW r, get'[r].spoilt, get'[r].cut
  PROVE  Sound(r)'
BY DEF Sound, Clean, Warned, Led

\* Links and entries that are not on the way of a get do not matter to it.
LEMMA QuietWay ==
  ASSUME WriterInv, WriterInv', pc # "crashed", pc' # "crashed", GetInv, NEW r \in Gets, Kept(r),
         LET E == Entries(OwnBucket(r)) IN
           /\ Entries(OwnBucket(r))' = E
           /\ \A x \in E : HtNext'[x] = HtNext[x] /\ cell'[x].key = cell[x].key
           /\ get[r].at \in E \cup {Nil}
  PROVE  /\ OnTheWay(r)' /\ Intact(get[r].at)'
         /\ Reach(HtNext', get[r].at) = Reach(HtNext, get[r].at)
         /\ \A x \in Reach(HtNext, get[r].at) : cell'[x].key = cell[x].key
         /\ get[r].at \in Cells => cell'[get[r].at].key = cell[get[r].at].key
<1> DEFINE B == OwnBucket(r)
           A == get[r].at
<1>1. B \in Buckets /\ A \in Cells \cup {Nil} /\ B' = B /\ A' = A
  BY GetFacts DEF Kept, OwnBucket
<1>2. /\ Entries(B) \subseteq Cells /\ Reach(HtNext, A) \subseteq Entries(B)
  BY <1>1, WayWithin DEF Ways
<1>3. OnTheWay(r)'
  BY <1>1 DEF OnTheWay
<1>4. Intact(A)'
  <2>1. (WriterInv /\ pc # "crashed" => Ways)'
    BY WayWithin, PTL
  <2>2. PICK d \in Buckets : d = B
    BY <1>1
  <2>3. PICK e \in Cells \cup {Nil} : e = A
    BY <1>1
  <2>4. e \in Entries(d)' \cup {Nil}
    BY <1>1, <2>2, <2>3
  <2>5. Intact(e)'
    BY <2>1, <2>4 DEF Ways
  <2> QED
    BY <1>1, <2>3, <2>5 DEF Intact
<1>5. Reach(HtNext', A) = Reach(HtNext, A)
  <2>1. IsLink(HtNext)
    BY LinkTypes DEF WriterInv
  <2>2. IsLink(HtNext')
    BY DEF WriterInv, TypeInv, IsLink, HtNext
  <2>3. \A x \in Reach(HtNext, A) : HtNext'[x] = HtNext[x]
    BY <1>2
  <2> QED
    BY <1>1, <2>1, <2>2, <2>3, ReachSame
<1>6. \A x \in Reach(HtNext, A) : cell'[x].key = cell[x].key
  BY <1>2
<1>7. A \in Cells => cell'[A].key = cell[A].key
  BY NilIsNoCell
<1> QED
  BY <1>1, <1>3, <1>4, <1>5, <1>6, <1>7

LEMMA QuietLed ==
  ASSUME WriterInv, WriterInv', pc # "crashed", pc' # "crashed", GetInv, NEW r \in Gets, Kept(r), Led(r),
         LET E == Entries(OwnBucket(r)) IN
           /\ Entries(OwnBucket(r))' = E
           /\ \A x \in E : HtNext'[x] = HtNext[x] /\ cell'[x].key = cell[x].key,
         pc = "freeEntry" /\ BucketOf[cell[old].key] = OwnBucket(r) => get'[r].cut
  PROVE  Led(r)'
<1> SUFFICES ASSUME get'[r].pc \in {"walk", "step"}, get'[r].present, ~get'[r].cut
             PROVE  /\ \E c \in Reach(HtNext', get'[r].at) : cell'[c].key = get'[r].key
                    /\ get'[r].pc = "step" => cell'[get'[r].at].key # get'[r].key
                    /\ OnTheWay(r)'
  BY DEF Led
<1>1. /\ get[r].pc \in {"walk", "step"} /\ get[r].present /\ ~get[r].cut
      /\ get'[r].pc = get[r].pc /\ get'[r].key = get[r].key /\ get'[r].at = get[r].at
  BY DEF Kept
<1>2. /\ \E c \in Reach(HtNext, get[r].at) : cell[c].key = get[r].key
      /\ get[r].pc = "step" => cell[get[r].at].key # get[r].key
      /\ OnTheWay(r)
  BY <1>1 DEF Led
<1>3. get[r].at \in Entries(OwnBucket(r)) \cup {Nil}
  BY <1>2 DEF OnTheWay
<1>4. /\ OnTheWay(r)' /\ Reach(HtNext', get[r].at) = Reach(HtNext, get[r].at)
      /\ \A x \in Reach(HtNext, get[r].at) : cell'[x].key = cell[x].key
      /\ get[r].at \in Cells => cell'[get[r].at].key = cell[get[r].at].key
  BY <1>3, QuietWay
<1>5. get[r].pc = "step" => get[r].at \in Cells
  BY GetFacts
<1> QED
  BY <1>1, <1>2, <1>4, <1>5

LEMMA QuietSound ==
  ASSUME WriterInv, WriterInv', pc # "crashed", pc' # "crashed", GetInv, NEW r \in Gets, Kept(r), Sound(r),
         Warned(r)', ~Guarded(r),
         LET E == Entries(OwnBucket(r)) IN
           /\ Entries(OwnBucket(r))' = E
           /\ \A x \in E : HtNext'[x] = HtNext[x] /\ cell'[x].key = cell[x].key,
         pc = "freeEntry" /\ BucketOf[cell[old].key] = OwnBucket(r) => get'[r].cut /\ get'[r].spoilt
  PROVE  Sound(r)'
<1>1. Led(r)'
  BY QuietLed DEF Sound
<1>2. Clean(r)'
  <2> SUFFICES ASSUME ~get'[r].spoilt
               PROVE  /\ Intact(get[r].at)' /\ OnTheWay(r)'
                      /\ get'[r].pc \in {"found", "use"} => cell'[get'[r].at].key = get'[r].key
    BY DEF Clean
  <2>1. /\ ~get[r].spoilt
        /\ get'[r].pc = get[r].pc /\ get'[r].key = get[r].key /\ get'[r].at = get[r].at
    BY DEF Kept
  <2>2. OnTheWay(r) /\ (get[r].pc \in {"found", "use"} => cell[get[r].at].key = get[r].key)
    BY <2>1 DEF Sound, Clean
  <2>3. get[r].at \in Entries(OwnBucket(r)) \cup {Nil}
    BY <2>2 DEF OnTheWay
  <2>4. /\ OnTheWay(r)' /\ Intact(get[r].at)'
        /\ get[r].at \in Cells => cell'[get[r].at].key = cell[get[r].at].key
    BY <2>3, QuietWay
  <2>5. get[r].pc \in {"found", "use"} => get[r].at \in Cells
    BY GetFacts
  <2> QED
    BY <2>1, <2>2, <2>4, <2>5
<1> QED
  BY <1>1, <1>2 DEF Sound

\* Steps that leave the links alone.
LEMMA StillSound ==
  ASSUME pc \in Plain, pc' \in Plain, UNCHANGED <<bucket, HtNext>>, GetInv, NEW r \in Gets, Kept(r), Sound(r),
         \A x \in Cells : cell'[x].key = cell[x].key /\ cell'[x].data = cell[x].data,
         ~get'[r].spoilt /\ Guarded(r) => Guarded(r)'
  PROVE  Sound(r)'
<1>1. /\ pc \notin {"crashed", "freeEntry", "storeKey", "storeValue", "link"}
      /\ pc' \notin {"crashed", "freeEntry", "storeKey", "storeValue", "link"}
  BY DEF Plain
<1>2. ~Cut /\ ~Cut' /\ Virtual = HtNext /\ Virtual' = HtNext
  BY <1>1 DEF Cut, Virtual
<1>3. \A b : Entries(b)' = Entries(b)
  BY <1>2 DEF Entries
<1>4. /\ get'[r].pc = get[r].pc /\ get'[r].key = get[r].key /\ get'[r].at = get[r].at
      /\ (~get'[r].spoilt => ~get[r].spoilt) /\ (~get'[r].cut => ~get[r].cut)
      /\ (get'[r].present => get[r].present) /\ OwnBucket(r)' = OwnBucket(r)
  BY DEF Kept, OwnBucket
<1>5. OnTheWay(r) => OnTheWay(r)'
  BY <1>1, <1>3, <1>4 DEF OnTheWay
<1>6. \A x \in Reach(HtNext, get[r].at) : x \in Cells
  BY DEF Reach
<1>7. Intact(get[r].at) => Intact(get[r].at)'
  BY <1>4, <1>6 DEF Intact
<1>8. get[r].pc \in {"step", "found", "use"} => get[r].at \in Cells
  BY GetFacts
<1>9. Clean(r)'
  BY <1>4, <1>5, <1>7, <1>8 DEF Sound, Clean
<1>10. Warned(r)'
  BY <1>2 DEF Warned
<1>11. Led(r)'
  <2> SUFFICES ASSUME get'[r].pc \in {"walk", "step"}, get'[r].present, ~get'[r].cut
               PROVE  /\ \E c \in Reach(HtNext', get'[r].at) : cell'[c].key = get'[r].key
                      /\ get'[r].pc = "step" => cell'[get'[r].at].key # get'[r].key
                      /\ OnTheWay(r)'
    BY DEF Led
  <2>1. /\ \E c \in Reach(HtNext, get[r].at) : cell[c].key = get[r].key
        /\ get[r].pc = "step" => cell[get[r].at].key # get[r].key
        /\ OnTheWay(r)
    BY <1>1, <1>4 DEF Sound, Led
  <2> QED
    BY <1>4, <1>5, <1>6, <1>8, <2>1
<1> QED
  BY <1>9, <1>10, <1>11 DEF Sound

\* Follow: the steps of the writer leave the readers where they are.
LEMMA ObservedFacts ==
  ASSUME GetInv, NEW freed, NEW touched, Observed(freed, touched)
  PROVE  /\ GetInv' /\ Gets' = Gets /\ Dumping' = Dumping /\ Active' = Active
         /\ \A r \in Gets :
              /\ Kept(r)
              /\ get'[r].present => get[r].key \in Present'
              /\ (\E c \in freed : BucketOf[cell[c].key] = OwnBucket(r)) => get'[r].cut
              /\ OwnBucket(r) \in touched => get'[r].spoilt
         /\ \A r \in Dumping : /\ get'[r].at = get[r].at /\ (get[r].spoilt => get'[r].spoilt)
                               /\ count' < count => get'[r].spoilt
<1>1. /\ get \in [Readers -> GetType]
      /\ Gets \subseteq Readers /\ Dumping \subseteq Readers /\ Gets \cap Dumping = {}
      /\ \A r \in Readers : r \in Active <=> r \in Gets \/ r \in Dumping
  <2>1. get \in [Readers -> GetType]
    BY DEF GetInv
  <2>2. \A r \in Readers : get[r].pc \in Looking \cup {"idle", "entry", "row", "done"}
    BY <2>1 DEF GetType
  <2> QED
    BY <2>1, <2>2 DEF Gets, Dumping, Active, Looking
<1>2. \A r \in Readers : r \notin Active => get'[r] = get[r]
  BY DEF Observed
<1>3. \A r \in Dumping : get'[r] = [get[r] EXCEPT !.spoilt = @ \/ count' < count]
  BY <1>1 DEF Observed
<1>4. \A r \in Gets :
        get'[r] = [get[r] EXCEPT
                     !.present = @ /\ get[r].key \in Present',
                     !.cut = @ \/ \E c \in freed : BucketOf[cell[c].key] = BucketOf[get[r].key],
                     !.spoilt = @ \/ BucketOf[get[r].key] \in touched]
  BY <1>1 DEF Observed
<1>5. \A r \in Readers : get[r] \in GetType
  BY <1>1
<1>6. \A r \in Dumping : /\ get'[r].pc = get[r].pc /\ get'[r].key = get[r].key /\ get'[r].at = get[r].at
                         /\ (get[r].spoilt => get'[r].spoilt) /\ (count' < count => get'[r].spoilt)
                         /\ get'[r] \in GetType
  <2> SUFFICES ASSUME NEW r \in Dumping
               PROVE  /\ get'[r].pc = get[r].pc /\ get'[r].key = get[r].key /\ get'[r].at = get[r].at
                      /\ (get[r].spoilt => get'[r].spoilt) /\ (count' < count => get'[r].spoilt)
                      /\ get'[r] \in GetType
    OBVIOUS
  <2> DEFINE s == get[r].spoilt \/ count' < count
  <2>1. get'[r] = [get[r] EXCEPT !.spoilt = s] /\ s \in BOOLEAN
    BY <1>3, Zenon
  <2>2. (get[r].spoilt => s) /\ (count' < count => s)
    OBVIOUS
  <2>3. get[r] \in GetType
    BY <1>1, <1>5
  <2> HIDE DEF s
  <2>4. /\ get'[r].pc = get[r].pc /\ get'[r].key = get[r].key /\ get'[r].at = get[r].at
        /\ get'[r].spoilt = s /\ get'[r] \in GetType
    BY <2>1, <2>3 DEF GetType
  <2> QED
    BY <2>2, <2>4, Zenon
<1>7. \A r \in Gets : /\ get'[r].pc = get[r].pc /\ get'[r].key = get[r].key /\ get'[r].at = get[r].at
                      /\ get'[r] \in GetType
                      /\ get'[r].present => get[r].present /\ get[r].key \in Present'
                      /\ get[r].cut => get'[r].cut
                      /\ (\E c \in freed : BucketOf[cell[c].key] = OwnBucket(r)) => get'[r].cut
                      /\ get[r].spoilt => get'[r].spoilt
                      /\ OwnBucket(r) \in touched => get'[r].spoilt
  <2> SUFFICES ASSUME NEW r \in Gets
               PROVE  /\ get'[r].pc = get[r].pc /\ get'[r].key = get[r].key /\ get'[r].at = get[r].at
                      /\ get'[r] \in GetType
                      /\ get'[r].present => get[r].present /\ get[r].key \in Present'
                      /\ get[r].cut => get'[r].cut
                      /\ (\E c \in freed : BucketOf[cell[c].key] = OwnBucket(r)) => get'[r].cut
                      /\ get[r].spoilt => get'[r].spoilt
                      /\ OwnBucket(r) \in touched => get'[r].spoilt
    BY Zenon
  <2> DEFINE s == get[r].spoilt \/ BucketOf[get[r].key] \in touched
             p == get[r].present /\ get[r].key \in Present'
             u == get[r].cut \/ \E c \in freed : BucketOf[cell[c].key] = BucketOf[get[r].key]
  <2>1. get'[r] = [get[r] EXCEPT !.present = p, !.cut = u, !.spoilt = s]
        /\ s \in BOOLEAN /\ p \in BOOLEAN /\ u \in BOOLEAN
    BY <1>4, Zenon
  <2>2. /\ get[r].spoilt => s
        /\ OwnBucket(r) \in touched => s
        /\ get[r].cut => u
        /\ (\E c \in freed : BucketOf[cell[c].key] = OwnBucket(r)) => u
        /\ p => get[r].present /\ get[r].key \in Present'
    BY Zenon DEF OwnBucket
  <2>3. get[r] \in GetType
    BY <1>1, <1>5
  <2> HIDE DEF s, p, u
  <2>4. /\ get'[r].pc = get[r].pc /\ get'[r].key = get[r].key /\ get'[r].at = get[r].at
        /\ get'[r].spoilt = s /\ get'[r].present = p /\ get'[r].cut = u /\ get'[r] \in GetType
    BY <2>1, <2>3 DEF GetType
  <2> QED
    BY <2>2, <2>4, Zenon
<1>8. \A r \in Readers : get'[r].pc = get[r].pc /\ get'[r].key = get[r].key /\ get'[r].at = get[r].at
                         /\ get'[r] \in GetType
  BY <1>1, <1>2, <1>5, <1>6, <1>7
<1>9. get' \in [Readers -> GetType]
  <2>1. get' = [r \in Readers |-> get'[r]]
    BY DEF Observed
  <2> QED
    BY <1>8, <2>1
<1>10. Gets' = Gets /\ Dumping' = Dumping /\ Active' = Active
  BY <1>8 DEF Gets, Dumping, Active
<1>11. GetInv'
  BY <1>8, <1>9, <1>10 DEF GetInv
<1>12. \A r \in Gets : Kept(r)
  BY <1>7 DEF Kept
<1> QED
  BY <1>6, <1>7, <1>10, <1>11, <1>12

\* The readers after a step of the writer.
Followed ==
  /\ GetInv' /\ Gets' = Gets /\ Dumping' = Dumping
  /\ \A r \in Gets : Kept(r)
  /\ \A r \in Dumping : get'[r].at = get[r].at /\ (get[r].spoilt => get'[r].spoilt)

LEMMA UnseenFollowed ==
  ASSUME GetInv, UNCHANGED get
  PROVE  Followed
BY DEF Followed, GetInv, Gets, Dumping, Kept

LEMMA ObservedFollowed ==
  ASSUME GetInv, NEW freed, NEW touched, Observed(freed, touched)
  PROVE  Followed
BY ObservedFacts DEF Followed

LEMMA DumpKept ==
  ASSUME DumpInv, TypeInv, TypeInv', Followed,
         \/ count' >= count /\ Members \subseteq Members'
         \/ count = 0
         \/ \A r \in Dumping : get'[r].spoilt
  PROVE  DumpInv'
<1> SUFFICES ASSUME NEW r \in Dumping, ~get'[r].spoilt
             PROVE  get'[r].at \in Members' \cup {ListHead} /\ count' > 0
  BY DEF DumpInv, Listing, Followed
<1>1. get'[r].at = get[r].at /\ ~get[r].spoilt
  BY DEF Followed
<1>2. get[r].at \in Members \cup {ListHead} /\ count > 0
  BY <1>1 DEF DumpInv, Listing
<1>3. count \in Int /\ count' \in Int
  BY DEF TypeInv
<1> QED
  BY <1>1, <1>2, <1>3

LEMMA NobodyAwaited ==
  ASSUME AwaitInv, pc \notin {"sleepAlloc", "sleepEnd"}
  PROVE  awaited = {}
BY DEF AwaitInv

LEMMA NotGuarded ==
  ASSUME AwaitInv, NEW r, pc \notin {"crashed", "sleepAlloc", "sleepEnd"},
         cleared = 0 \/ pc \notin {"recycleKey", "recycleMem", "freeEntry"} \/ (pc = "freeEntry" /\ op = "delete")
  PROVE  ~Guarded(r)
<1>1. awaited = {}
  BY NobodyAwaited
<1>2. ~(cleared > 0 /\ (Recycling \/ (pc = "freeEntry" /\ op # "delete")))
  BY DEF Recycling
<1> QED
  BY <1>1, <1>2 DEF Guarded

LEMMA StillReaders ==
  ASSUME LinkInv, WriterInv', pc \in Plain, pc' \in Plain, UNCHANGED <<bucket, HtNext, next, count>>, Followed,
         \A x \in Cells : cell'[x].key = cell[x].key /\ cell'[x].data = cell[x].data,
         awaited' = awaited, pc' \in {"sleepAlloc", "sleepEnd"} \/ awaited = {},
         \A r \in Gets : ~get'[r].spoilt /\ Guarded(r) => Guarded(r)'
  PROVE  LinkInv'
<1>1. GetInv /\ AwaitInv /\ SoundInv /\ DumpInv /\ TypeInv /\ TypeInv'
  BY DEF LinkInv, ReaderInv, WriterInv
<1>2. GetInv' /\ Gets' = Gets /\ \A r \in Gets : Kept(r)
  BY DEF Followed
<1>3. AwaitInv'
  BY <1>1, <1>2 DEF AwaitInv
<1>4. SoundInv'
  BY <1>1, <1>2, StillSound DEF SoundInv
<1>5. DumpInv'
  <2>1. Members' = Members /\ count' >= count
    BY <1>1 DEF Members, TypeInv
  <2> QED
    BY <1>1, <2>1, DumpKept
<1> QED
  BY <1>2, <1>3, <1>4, <1>5 DEF LinkInv, ReaderInv

LEMMA SetReaders ==
  ASSUME LinkInv, NEW k \in Keys, Set(k)
  PROVE  LinkInv'
<1>1. WriterInv /\ GetInv /\ AwaitInv /\ LockInv
  BY DEF LinkInv, ReaderInv, WriterInv
<1>2. WriterInv'
  BY <1>1, SetStep
<1>3. pc = "idle" /\ UNCHANGED table /\ UNCHANGED awaited /\ UNCHANGED get
      /\ pc' \in {"recycleKey", "alloc"}
  BY <1>1 DEF Set, Acquire, LockInv, EnterLoop, Goto
<1>4. awaited = {} /\ \A r \in Gets : ~Guarded(r)
  BY <1>1, <1>3, NobodyAwaited, NotGuarded
<1>5. UNCHANGED <<bucket, HtNext, next, count, cell>> /\ Followed
  BY <1>1, <1>3, UnseenFollowed DEF table, HtNext
<1> QED
  BY <1>2, <1>3, <1>4, <1>5, StillReaders DEF Plain

LEMMA SkipReaders ==
  ASSUME LinkInv, Skip
  PROVE  LinkInv'
<1>1. WriterInv /\ GetInv /\ AwaitInv
  BY DEF LinkInv, ReaderInv
<1>2. WriterInv'
  BY <1>1, SkipStep
<1>3. /\ pc \in {"recycleKey", "recycleMem"} /\ UNCHANGED table /\ UNCHANGED <<awaited, pc, cleared, op>> /\ UNCHANGED get
  BY DEF Skip, Recycling
<1>4. awaited = {}
  BY <1>1, <1>3, NobodyAwaited
<1>5. UNCHANGED <<bucket, HtNext, next, count, cell>> /\ Followed
  BY <1>1, <1>3, UnseenFollowed DEF table, HtNext
<1>6. \A r \in Gets : Guarded(r) => Guarded(r)'
  BY <1>3 DEF Guarded, Recycling
<1> QED
  BY <1>2, <1>3, <1>4, <1>5, <1>6, StillReaders DEF Plain

LEMMA RecycleFailsReaders ==
  ASSUME LinkInv, RecycleFails
  PROVE  LinkInv'
<1>1. WriterInv /\ GetInv /\ AwaitInv /\ TypeInv
  BY DEF LinkInv, ReaderInv, WriterInv
<1>2. WriterInv'
  BY <1>1, RecycleFailsStep
<1>3. /\ pc \in {"recycleKey", "recycleMem"} /\ pc' = "idle" /\ UNCHANGED table /\ UNCHANGED awaited
      /\ Observed({}, Unslept(cleared > 0))
  BY FinishFacts DEF RecycleFails, Recycling
<1>4. awaited = {}
  BY <1>1, <1>3, NobodyAwaited
<1>5. UNCHANGED <<bucket, HtNext, next, count, cell>> /\ Followed
  BY <1>1, <1>3, ObservedFollowed DEF table, HtNext
<1>6. ASSUME NEW r \in Gets, ~get'[r].spoilt PROVE ~Guarded(r)
  <2>1. OwnBucket(r) \in Buckets
    BY <1>1, GetFacts
  <2>2. OwnBucket(r) \notin Unslept(cleared > 0)
    BY <1>1, <1>3, <1>6, ObservedFacts
  <2>3. cleared = 0
    BY <1>1, <2>1, <2>2 DEF Unslept, TypeInv
  <2> QED
    BY <1>1, <1>3, <2>3, NotGuarded
<1> QED
  BY <1>2, <1>3, <1>4, <1>5, <1>6, StillReaders DEF Plain

LEMMA AwakeReaders ==
  ASSUME LinkInv, Awake
  PROVE  LinkInv'
<1>1. WriterInv /\ GetInv /\ AwaitInv
  BY DEF LinkInv, ReaderInv
<1>2. WriterInv'
  BY <1>1, AwakeStep
<1>3. /\ pc \in {"sleepAlloc", "sleepEnd"} /\ pc' \in {"alloc", "idle"} /\ UNCHANGED table
      /\ UNCHANGED awaited /\ awaited = {} /\ UNCHANGED get
  BY FinishFacts DEF Awake, Goto
<1>4. UNCHANGED <<bucket, HtNext, next, count, cell>> /\ Followed
  BY <1>1, <1>3, UnseenFollowed DEF table, HtNext
<1>5. \A r \in Gets : ~Guarded(r)
  BY <1>3 DEF Guarded, Recycling
<1> QED
  BY <1>2, <1>3, <1>4, <1>5, StillReaders DEF Plain

LEMMA NoRoomReaders ==
  ASSUME LinkInv, NoRoom
  PROVE  LinkInv'
<1>1. WriterInv /\ GetInv /\ AwaitInv
  BY DEF LinkInv, ReaderInv
<1>2. WriterInv'
  BY <1>1, NoRoomStep
<1>3. /\ pc = "alloc" /\ pc' = "recycleMem" /\ UNCHANGED table
      /\ UNCHANGED awaited /\ UNCHANGED get
  BY DEF NoRoom, EnterLoop, Goto
<1>4. UNCHANGED <<bucket, HtNext, next, count, cell>> /\ Followed
  BY <1>1, <1>3, UnseenFollowed DEF table, HtNext
<1>5. awaited = {} /\ \A r \in Gets : ~Guarded(r)
  BY <1>1, <1>3, NobodyAwaited, NotGuarded
<1> QED
  BY <1>2, <1>3, <1>4, <1>5, StillReaders DEF Plain

LEMMA ExpireReaders ==
  ASSUME LinkInv, NEW e \in Cells, Expire(e)
  PROVE  LinkInv'
<1>1. WriterInv /\ GetInv /\ AwaitInv
  BY DEF LinkInv, ReaderInv
<1>2. /\ WriterInv' /\ UNCHANGED <<HtNext, bucket, count, next>> /\ UNCHANGED <<pc, awaited>> /\ UNCHANGED get
      /\ \A x \in Cells : cell'[x].key = cell[x].key /\ cell'[x].data = cell[x].data
      /\ pc = "idle"
  BY <1>1, ExpireStep DEF writer
<1>3. Followed
  BY <1>1, <1>2, UnseenFollowed
<1>4. awaited = {} /\ \A r \in Gets : ~Guarded(r)
  BY <1>1, <1>2, NobodyAwaited, NotGuarded
<1> QED
  BY <1>2, <1>3, <1>4, StillReaders DEF Plain
-----------------------------------------------------------------------------
(* Steps off the chains                                                    *)

LEMMA OwnEntries ==
  ASSUME GetInv, NEW r \in Gets, Kept(r), \A b \in Buckets : Entries(b)' = Entries(b)
  PROVE  Entries(OwnBucket(r))' = Entries(OwnBucket(r))
<1>1. OwnBucket(r) \in Buckets /\ OwnBucket(r)' = OwnBucket(r)
  BY GetFacts DEF Kept, OwnBucket
<1>2. PICK b \in Buckets : b = OwnBucket(r)
  BY <1>1
<1>3. Entries(b)' = Entries(b)
  OBVIOUS
<1> QED
  BY <1>1, <1>2, <1>3

LEMMA QuietReaders ==
  ASSUME LinkInv, WriterInv', pc \notin {"crashed", "sleepAlloc", "sleepEnd"}, pc' # "crashed", Followed,
         awaited' = awaited, \A b \in Buckets : Entries(b)' = Entries(b),
         \A r \in Gets : ~Guarded(r),
         \A r \in Gets :
           \/ get'[r].spoilt /\ get'[r].cut
           \/ /\ Warned(r)' /\ ~(pc = "freeEntry" /\ BucketOf[cell[old].key] = OwnBucket(r))
              /\ \A x \in Entries(OwnBucket(r)) : HtNext'[x] = HtNext[x] /\ cell'[x].key = cell[x].key,
         \/ count' >= count /\ Members \subseteq Members'
         \/ \A r \in Dumping : get'[r].spoilt
  PROVE  LinkInv'
<1>1. GetInv /\ AwaitInv /\ SoundInv /\ DumpInv /\ TypeInv /\ TypeInv' /\ WriterInv
  BY DEF LinkInv, ReaderInv, WriterInv
<1>2. GetInv' /\ Gets' = Gets /\ \A r \in Gets : Kept(r)
  BY DEF Followed
<1>3. AwaitInv'
  BY <1>1, <1>2, NobodyAwaited DEF AwaitInv
<1>4. ASSUME NEW r \in Gets PROVE Sound(r)'
  <2>1. CASE get'[r].spoilt /\ get'[r].cut
    BY <2>1, SpoiltSound
  <2>2. CASE /\ Warned(r)' /\ ~(pc = "freeEntry" /\ BucketOf[cell[old].key] = OwnBucket(r))
             /\ \A x \in Entries(OwnBucket(r)) : HtNext'[x] = HtNext[x] /\ cell'[x].key = cell[x].key
    <3>1. Entries(OwnBucket(r))' = Entries(OwnBucket(r)) /\ Kept(r) /\ Sound(r) /\ ~Guarded(r)
      BY <1>1, <1>2, OwnEntries DEF SoundInv
    <3> QED
      BY <1>1, <2>2, <3>1, QuietSound
  <2> QED
    BY <2>1, <2>2
<1>5. SoundInv'
  BY <1>2, <1>4 DEF SoundInv
<1>6. DumpInv'
  BY <1>1, DumpKept
<1> QED
  BY <1>2, <1>3, <1>5, <1>6 DEF LinkInv, ReaderInv

LEMMA DeletedReaders ==
  ASSUME LinkInv, Deleted
  PROVE  LinkInv'
<1>1. WriterInv /\ GetInv /\ AwaitInv /\ TypeInv /\ StepInv
  BY DEF LinkInv, ReaderInv, WriterInv
<1>2. WriterInv'
  BY <1>1, DeletedStep
<1>3. /\ pc = "freeEntry" /\ op = "delete" /\ pc' = "idle" /\ UNCHANGED <<awaited, bucket>>
      /\ Observed({old}, {BucketOf[cell[old].key]}) /\ FreeEntry(old)
      /\ new' = Nil /\ old' = Nil /\ at' = ListHead /\ cleared' = 0
  BY FinishFacts DEF Deleted
<1>4. /\ count' < count /\ Linked = Members \ {old}
      /\ \A x \in Cells : cell'[x].key = cell[x].key /\ cell'[x].next = IF x = old THEN Nil ELSE cell[x].next
      /\ \A b \in Buckets : Reach(HtNext', bucket'[b]) = Entries(b)
  <2>1. Linked = Members \ {old}
    BY <1>1, <1>3 DEF WriterInv, TableInv, AgreeInv, Cut
  <2> QED
    BY <1>1, <1>3, <2>1, EntryFreed DEF Plain
<1>5. Followed /\ \A r \in Dumping : get'[r].spoilt
  BY <1>1, <1>3, <1>4, ObservedFacts, ObservedFollowed
<1>6. ~Cut' /\ \A b \in Buckets : Entries(b)' = Entries(b)
  BY <1>3, <1>4 DEF Cut, Virtual, Entries
<1>7. \A r \in Gets : ~Guarded(r)
  BY <1>1, <1>3, NotGuarded
<1>8. \A b \in Buckets : \A x \in Entries(b) : HtNext'[x] = HtNext[x] /\ cell'[x].key = cell[x].key
  <2>1. \A b \in Buckets : Entries(b) \subseteq Cells /\ old \notin Entries(b)
    BY <1>1, <1>4, EntriesFacts DEF Linked
  <2> QED
    BY <1>4, <2>1 DEF HtNext
<1>9. ASSUME NEW r \in Gets
      PROVE  \/ get'[r].spoilt /\ get'[r].cut
             \/ /\ Warned(r)' /\ ~(pc = "freeEntry" /\ BucketOf[cell[old].key] = OwnBucket(r))
                /\ \A x \in Entries(OwnBucket(r)) : HtNext'[x] = HtNext[x] /\ cell'[x].key = cell[x].key
  <2>1. OwnBucket(r) \in Buckets
    BY <1>1, GetFacts
  <2>2. CASE BucketOf[cell[old].key] = OwnBucket(r)
    BY <1>1, <1>3, <2>2, ObservedFacts
  <2>3. CASE BucketOf[cell[old].key] # OwnBucket(r)
    BY <1>6, <1>8, <2>1, <2>3 DEF Warned
  <2> QED
    BY <2>2, <2>3
<1> QED
  BY <1>2, <1>3, <1>5, <1>6, <1>7, <1>9, QuietReaders

LEMMA AllocReaders ==
  ASSUME LinkInv, Alloc
  PROVE  LinkInv'
<1>1. WriterInv /\ GetInv /\ AwaitInv /\ TypeInv /\ StepInv
  BY DEF LinkInv, ReaderInv, WriterInv
<1>2. WriterInv'
  BY <1>1, AllocStep
<1>3. /\ pc = "alloc" /\ UNCHANGED <<awaited, bucket, count>> /\ UNCHANGED get
  BY DEF Alloc
<1>4. /\ Members' = Members /\ new' \notin Members
      /\ \A x \in Cells : cell'[x].key = cell[x].key /\ (x # new' => HtNext'[x] = HtNext[x])
      /\ \A b \in Buckets : Reach(HtNext', bucket[b]) = Reach(HtNext, bucket[b])
      /\ (pc' = "freeOld" \/ (pc' = "storeKey" /\ old' = Nil))
  BY <1>1, AllocEffect
<1>5. Followed /\ count' >= count
  BY <1>1, <1>3, UnseenFollowed DEF TypeInv
<1>6. ~Cut /\ ~Cut' /\ \A b \in Buckets : Entries(b) = Reach(HtNext, bucket[b]) /\ Entries(b)' = Entries(b)
  BY <1>3, <1>4 DEF Cut, Virtual, Entries
<1>7. \A r \in Gets : ~Guarded(r)
  BY <1>1, <1>3, NotGuarded
<1>8. \A b \in Buckets : \A x \in Entries(b) : HtNext'[x] = HtNext[x] /\ cell'[x].key = cell[x].key
  <2>1. Linked = Members
    BY <1>1, <1>3, <1>6 DEF WriterInv, TableInv, AgreeInv
  <2>2. \A b \in Buckets : Entries(b) \subseteq Cells /\ new' \notin Entries(b)
    BY <1>1, <1>4, <2>1, EntriesFacts DEF Linked
  <2> QED
    BY <1>4, <2>2
<1>9. ASSUME NEW r \in Gets
      PROVE  /\ Warned(r)' /\ ~(pc = "freeEntry" /\ BucketOf[cell[old].key] = OwnBucket(r))
             /\ \A x \in Entries(OwnBucket(r)) : HtNext'[x] = HtNext[x] /\ cell'[x].key = cell[x].key
  <2>1. OwnBucket(r) \in Buckets
    BY <1>1, GetFacts
  <2> QED
    BY <1>3, <1>6, <1>8, <2>1 DEF Warned
<1> QED
  BY <1>2, <1>3, <1>4, <1>5, <1>6, <1>7, <1>9, QuietReaders

LEMMA FreeOldReaders ==
  ASSUME LinkInv, FreeOld
  PROVE  LinkInv'
<1>1. WriterInv /\ GetInv /\ AwaitInv /\ TypeInv /\ StepInv /\ ReplaceInv /\ ChainInv
  BY DEF LinkInv, ReaderInv, WriterInv, TableInv, FreeOld
<1>2. /\ WriterInv' /\ count' < count
      /\ \A x \in Cells : cell'[x].key = cell[x].key /\ cell'[x].next = IF x = old THEN Nil ELSE cell[x].next
      /\ \A b \in Buckets : Entries(b)' = Entries(b)
  BY <1>1, FreeOldStep
<1>3. /\ pc = "freeOld" /\ pc' = "storeKey" /\ UNCHANGED <<awaited, bucket, key>>
      /\ Observed({old}, {BucketOf[cell[old].key]}) /\ cell[old].key = key /\ old \in Entries(BucketOf[key])
      /\ BucketOf[key] \in Buckets
  BY <1>1, TableAssumption DEF FreeOld, Goto, ReplaceInv, StepInv, Setting, Storing
<1>4. Followed /\ \A r \in Dumping : get'[r].spoilt
  BY <1>1, <1>2, <1>3, ObservedFacts, ObservedFollowed
<1>5. \A r \in Gets : ~Guarded(r)
  BY <1>1, <1>3, NotGuarded
<1>6. ASSUME NEW r \in Gets
      PROVE  \/ get'[r].spoilt /\ get'[r].cut
             \/ /\ Warned(r)' /\ ~(pc = "freeEntry" /\ BucketOf[cell[old].key] = OwnBucket(r))
                /\ \A x \in Entries(OwnBucket(r)) : HtNext'[x] = HtNext[x] /\ cell'[x].key = cell[x].key
  <2>1. OwnBucket(r) \in Buckets /\ OwnBucket(r)' = OwnBucket(r)
    BY <1>1, <1>4, GetFacts DEF Followed, Kept, OwnBucket
  <2>2. CASE BucketOf[key] = OwnBucket(r)
    BY <1>1, <1>3, <2>2, ObservedFacts
  <2>3. CASE BucketOf[key] # OwnBucket(r)
    <3>1. Warned(r)'
      BY <1>3, <2>1, <2>3 DEF Warned
    <3>2. \A x \in Entries(OwnBucket(r)) : x \in Cells /\ x # old
      BY <1>1, <1>3, <2>1, <2>3, EntriesFacts DEF ChainInv
    <3>3. \A x \in Entries(OwnBucket(r)) : HtNext'[x] = HtNext[x] /\ cell'[x].key = cell[x].key
      BY <1>2, <3>2 DEF HtNext
    <3> QED
      BY <1>3, <3>1, <3>3
  <2> QED
    BY <2>2, <2>3
<1> QED
  BY <1>2, <1>3, <1>4, <1>5, <1>6, QuietReaders

LEMMA StoreReaders ==
  ASSUME LinkInv, StoreKey \/ StoreValue
  PROVE  LinkInv'
<1>1. WriterInv /\ GetInv /\ AwaitInv /\ TypeInv /\ StepInv /\ SoundInv
  BY DEF LinkInv, ReaderInv, WriterInv
<1>2. /\ WriterInv' /\ Members' = Members /\ new \notin Linked /\ HtNext' = HtNext
      /\ \A x \in Cells : x # new => cell'[x].key = cell[x].key
      /\ \A b \in Buckets : Entries(b)' = Entries(b)
  BY <1>1, StoreKeyStep, StoreValueStep
<1>3. /\ pc \in {"storeKey", "storeValue"} /\ pc' \in {"storeValue", "link"}
      /\ UNCHANGED <<awaited, bucket, key, count, old>> /\ UNCHANGED get
  BY DEF StoreKey, StoreValue, Goto
<1>4. Followed /\ count' >= count
  BY <1>1, <1>3, UnseenFollowed DEF TypeInv
<1>5. \A r \in Gets : ~Guarded(r)
  BY <1>1, <1>3, NotGuarded
<1>6. ASSUME NEW r \in Gets
      PROVE  /\ Warned(r)' /\ ~(pc = "freeEntry" /\ BucketOf[cell[old].key] = OwnBucket(r))
             /\ \A x \in Entries(OwnBucket(r)) : HtNext'[x] = HtNext[x] /\ cell'[x].key = cell[x].key
  <2>1. OwnBucket(r) \in Buckets /\ Warned(r)
    BY <1>1, GetFacts DEF SoundInv, Sound
  <2>2. \A x \in Entries(OwnBucket(r)) : x \in Cells /\ x # new
    BY <1>1, <1>2, <2>1, EntriesFacts DEF Linked
  <2>3. Warned(r)'
    BY <1>3, <2>1 DEF Warned, Cut, OwnBucket
  <2> QED
    BY <1>2, <1>3, <2>2, <2>3
<1> QED
  BY <1>2, <1>3, <1>4, <1>5, <1>6, QuietReaders

LEMMA AppendReaders ==
  ASSUME LinkInv, AppendEntry
  PROVE  LinkInv'
<1>1. WriterInv /\ GetInv /\ AwaitInv /\ TypeInv
  BY DEF LinkInv, ReaderInv, WriterInv
<1>2. /\ WriterInv' /\ Members' = Members \cup {new} /\ pc = "append" /\ pc' = "idle"
      /\ UNCHANGED <<bucket, cell>> /\ count' > count
  BY <1>1, AppendStep
<1>3. UNCHANGED awaited /\ UNCHANGED get
  BY DEF AppendEntry
<1>4. Followed /\ count' >= count
  <2>1. count \in Int /\ count' \in Int
    BY <1>1, <1>2 DEF WriterInv, TypeInv
  <2> QED
    BY <1>1, <1>2, <1>3, <2>1, UnseenFollowed
<1>5. \A r \in Gets : ~Guarded(r)
  BY <1>1, <1>2, NotGuarded
<1>6. HtNext' = HtNext /\ ~Cut' /\ \A b \in Buckets : Entries(b)' = Entries(b)
  BY <1>2 DEF HtNext, Cut, Virtual, Entries
<1>7. ASSUME NEW r \in Gets
      PROVE  /\ Warned(r)' /\ ~(pc = "freeEntry" /\ BucketOf[cell[old].key] = OwnBucket(r))
             /\ \A x \in Entries(OwnBucket(r)) : HtNext'[x] = HtNext[x] /\ cell'[x].key = cell[x].key
  BY <1>2, <1>6 DEF Warned
<1> QED
  BY <1>2, <1>3, <1>4, <1>5, <1>6, <1>7, QuietReaders
-----------------------------------------------------------------------------
(* Steps on the chains                                                     *)

\* What is in the table, as the record of a get has it.
Reachable == \A k \in Present :
  k \in Keys /\ \E c \in Reach(HtNext, bucket[BucketOf[k]]) : cell[c].key = k

LEMMA PresentIs == TypeInv => Reachable
<1> SUFFICES ASSUME TypeInv, NEW k \in Present
             PROVE  k \in Keys /\ \E c \in Reach(HtNext, bucket[BucketOf[k]]) : cell[c].key = k
  BY DEF Reachable
<1>1. k \in Keys /\ Holds(k) /\ BucketOf[k] \in Buckets
  BY TableAssumption DEF Present
<1> QED
  BY <1>1, ChainIs DEF Holds

LEMMA UnlinkSound ==
  ASSUME WriterInv, WriterInv', pc \in Plain, NEW c \in Members, Unlink(c),
         UNCHANGED <<prev, next, free, used>>,
         GetInv, NEW r \in Gets, Kept(r), Sound(r), get'[r].present => get[r].key \in Present',
         Guarded(r) => Guarded(r)'
  PROVE  Sound(r)'
<1> DEFINE a == get[r].at
           w == OwnBucket(r)
           b == BucketOf[cell[c].key]
           R(d) == Reach(HtNext, bucket[d])
           S(d) == Reach(HtNext', bucket'[d])
<1>1. TypeInv /\ TypeInv' /\ Settled /\ pc # "crashed"
  BY PlainSettled DEF WriterInv, Plain
<1>2. /\ \A x \in Cells : /\ cell'[x].key = cell[x].key /\ cell'[x].data = cell[x].data
                          /\ HtNext'[x] = IF x \in R(b) /\ HtNext[x] = c THEN HtNext[c] ELSE HtNext[x]
      /\ IsLink(HtNext') /\ pc' = "freeEntry" /\ old' = c /\ c \in R(b) /\ b \in Buckets /\ HtNext[c] # c
  BY <1>1, UnlinkEffect
<1>3. \A d \in Buckets : S(d) = R(d) \ {c}
  BY <1>1, UnlinkTable
<1>4. /\ IsLink(HtNext) /\ c \in Cells /\ a \in Cells \cup {Nil} /\ w \in Buckets /\ w' = w
      /\ \A d \in Buckets : R(d) \subseteq Cells /\ Closed(HtNext, R(d)) /\ bucket[d] \in Cells \cup {Nil}
  BY <1>1, SettledFacts, MembersFacts, GetFacts, ReachClosed DEF Kept, OwnBucket
<1>5. /\ ~Cut /\ ~Cut' /\ (\A d : Entries(d) = R(d)) /\ (\A d : Entries(d)' = S(d)) /\ pc # "freeEntry"
  BY <1>2 DEF Cut, Virtual, Entries, Plain
<1>6. /\ get'[r].pc = get[r].pc /\ get'[r].key = get[r].key /\ get'[r].at = a
      /\ (~get'[r].spoilt => ~get[r].spoilt) /\ (~get'[r].cut => ~get[r].cut)
      /\ (get'[r].present => get[r].present)
  BY DEF Kept
<1>7. \A d \in Buckets : \A x \in R(d) :
        /\ cell[x].key \in Keys /\ BucketOf[cell[x].key] = d
        /\ \A y \in R(d) : cell[x].key = cell[y].key => x = y
  BY <1>1 DEF Settled
<1>8. OnTheWay(r) => a \in R(w) \cup {Nil}
  BY <1>5 DEF OnTheWay
<1>9. OnTheWay(r) => OnTheWay(r)'
  <2> SUFFICES ASSUME OnTheWay(r) PROVE OnTheWay(r)'
    OBVIOUS
  <2>1. PICK d \in Buckets : d = w
    BY <1>4
  <2>2. Entries(w)' = R(w) \ {c}
    <3>1. Entries(d)' = R(d) \ {c}
      BY <1>3, <1>5
    <3> QED
      BY <1>4, <2>1, <3>1
  <2>3. CASE a = c
    <3>1. BucketOf[cell'[c].key] = w
      BY <1>2, <1>4, <1>7, <1>8, <2>3, NilIsNoCell
    <3> QED
      BY <1>2, <1>4, <1>6, <2>3, <3>1 DEF OnTheWay
  <2>4. CASE a # c
    BY <1>4, <1>6, <1>8, <2>2, <2>4 DEF OnTheWay
  <2> QED
    BY <2>3, <2>4
<1>10. Reach(HtNext', a) \subseteq Reach(HtNext, a) /\ Reach(HtNext, a) \subseteq Cells
  <2>1. Closed(HtNext, Reach(HtNext, a)) /\ Reach(HtNext, a) \subseteq Cells
    BY <1>4, ReachClosed
  <2>2. \A x \in Reach(HtNext, a) : HtNext'[x] \in Reach(HtNext, a) \cup {Nil}
    <3> SUFFICES ASSUME NEW x \in Reach(HtNext, a) PROVE HtNext'[x] \in Reach(HtNext, a) \cup {Nil}
      OBVIOUS
    <3>1. HtNext[x] \in Reach(HtNext, a) \cup {Nil} /\ x \in Cells
      BY <2>1 DEF Closed
    <3>2. HtNext'[x] = HtNext[x] \/ (HtNext[x] = c /\ HtNext'[x] = HtNext[c])
      BY <1>2, <3>1
    <3>3. HtNext[x] = c => HtNext[c] \in Reach(HtNext, a) \cup {Nil}
      BY <1>4, <2>1, <3>1, NilIsNoCell DEF Closed
    <3> QED
      BY <3>1, <3>2, <3>3
  <2> QED
    BY <1>4, <2>1, <2>2, ReachWithin
<1>11. Intact(a) => Intact(a)'
  BY <1>2, <1>6, <1>10 DEF Intact
<1>12. get[r].pc \in {"step", "found", "use"} => a \in Cells
  BY GetFacts
<1>13. Clean(r)'
  BY <1>2, <1>6, <1>9, <1>11, <1>12 DEF Sound, Clean
<1>14. Warned(r)'
  BY <1>5 DEF Warned
<1>15. Led(r)'
  <2> SUFFICES ASSUME get'[r].pc \in {"walk", "step"}, get'[r].present, ~get'[r].cut
               PROVE  /\ \E x \in Reach(HtNext', get'[r].at) : cell'[x].key = get'[r].key
                      /\ get'[r].pc = "step" => cell'[get'[r].at].key # get'[r].key
                      /\ OnTheWay(r)'
    BY DEF Led
  <2>1. /\ \E x \in Reach(HtNext, a) : cell[x].key = get[r].key
        /\ get[r].pc = "step" => cell[a].key # get[r].key
        /\ OnTheWay(r)
    BY <1>1, <1>6 DEF Sound, Led
  <2>2. PICK x \in Reach(HtNext, a) : cell[x].key = get[r].key
    BY <2>1
  <2>3. Reach(HtNext, a) \subseteq R(w)
    BY <1>4, <1>8, <2>1, ReachOn
  <2>4. PICK y \in R(w) \ {c} : cell[y].key = get[r].key
    <3>1. (TypeInv => Reachable)'
      BY PresentIs, PTL
    <3>2. get[r].key \in Present'
      OBVIOUS
    <3>3. \E z \in S(w) : cell'[z].key = get[r].key
      BY <1>1, <3>1, <3>2 DEF OwnBucket, Reachable
    <3> QED
      BY <1>2, <1>3, <1>4, <3>3
  <2>5. x # c
    BY <1>4, <1>7, <2>2, <2>3, <2>4
  <2>6. \A z \in Reach(HtNext', a) : HtNext'[z] = IF HtNext[z] = c THEN HtNext[c] ELSE HtNext[z]
    <3> SUFFICES ASSUME NEW z \in Reach(HtNext', a)
                 PROVE  HtNext'[z] = IF HtNext[z] = c THEN HtNext[c] ELSE HtNext[z]
      OBVIOUS
    <3>1. z \in R(w) /\ z \in Cells
      BY <1>10, <2>3
    <3>2. CASE w = b
      BY <1>2, <3>1, <3>2
    <3>3. CASE w # b
      <4>1. HtNext[z] \in R(w) \cup {Nil}
        BY <1>4, <3>1 DEF Closed
      <4>2. c \notin R(w) \cup {Nil}
        BY <1>2, <1>4, <1>7, <3>3, NilIsNoCell
      <4> QED
        BY <1>2, <3>1, <4>1, <4>2
    <3> QED
      BY <3>2, <3>3
  <2>7. Reach(HtNext, a) \subseteq Reach(HtNext', a) \cup {c}
    BY <1>2, <1>4, <2>6, RemoveKeeps
  <2>8. x \in Reach(HtNext', a) /\ cell'[x].key = cell[x].key
    BY <1>2, <1>10, <2>2, <2>5, <2>7
  <2> QED
    BY <1>2, <1>6, <1>9, <1>12, <2>1, <2>2, <2>8
<1> QED
  BY <1>13, <1>14, <1>15 DEF Sound

LEMMA UnlinkReaders ==
  ASSUME LinkInv, WriterInv', pc \in Plain, NEW c \in Members, Unlink(c), Observed({}, {}),
         UNCHANGED <<prev, next, count, free, used>>, awaited' = {},
         \A r \in Gets : Guarded(r) => Guarded(r)'
  PROVE  LinkInv'
<1>1. GetInv /\ AwaitInv /\ SoundInv /\ DumpInv /\ TypeInv /\ TypeInv' /\ WriterInv
  BY DEF LinkInv, ReaderInv, WriterInv
<1>2. Followed /\ GetInv' /\ Gets' = Gets /\ \A r \in Gets : Kept(r) /\ (get'[r].present => get[r].key \in Present')
  BY <1>1, ObservedFacts, ObservedFollowed
<1>3. AwaitInv'
  BY DEF AwaitInv
<1>4. SoundInv'
  BY <1>1, <1>2, UnlinkSound DEF SoundInv
<1>5. DumpInv'
  <2>1. Members' = Members /\ count' >= count
    BY <1>1 DEF Members, TypeInv
  <2> QED
    BY <1>1, <1>2, <2>1, DumpKept
<1> QED
  BY <1>2, <1>3, <1>4, <1>5 DEF LinkInv, ReaderInv

LEMMA DeleteReaders ==
  ASSUME LinkInv, NEW k \in Keys, Delete(k)
  PROVE  LinkInv'
<1>1. WriterInv /\ AwaitInv
  BY DEF LinkInv, ReaderInv
<1>2. WriterInv' /\ pc = "idle" /\ EntryOf(k) \in Members /\ Unlink(EntryOf(k))
  BY <1>1, DeleteStep
<1>3. Observed({}, {}) /\ UNCHANGED <<prev, next, count, free, used, awaited>>
  BY DEF Delete
<1>4. awaited = {} /\ \A r \in Gets : ~Guarded(r)
  BY <1>1, <1>2, NobodyAwaited, NotGuarded
<1> QED
  BY <1>2, <1>3, <1>4, UnlinkReaders DEF Plain

LEMMA RecycleReaders ==
  ASSUME LinkInv, Recycle
  PROVE  LinkInv'
<1>1. WriterInv /\ AwaitInv
  BY DEF LinkInv, ReaderInv
<1>2. WriterInv' /\ pc \in {"recycleKey", "recycleMem"} /\ at \in Members /\ op' = pc /\ Unlink(at)
  BY <1>1, RecycleStep
<1>3. Observed({}, {}) /\ UNCHANGED <<prev, next, count, free, used, awaited, cleared>> /\ pc' = "freeEntry"
  BY <1>2 DEF Recycle, Unlink, Goto
<1>4. awaited = {}
  BY <1>1, <1>2, NobodyAwaited
<1>5. \A r \in Gets : Guarded(r) => Guarded(r)'
  BY <1>2, <1>3, <1>4 DEF Guarded, Recycling
<1> QED
  BY <1>2, <1>3, <1>4, <1>5, UnlinkReaders DEF Plain

LEMMA GetsAre ==
  ASSUME GetInv
  PROVE  Active \ Dumping = Gets
<1>1. \A r \in Readers : get[r].pc \in Looking \cup {"idle", "entry", "row", "done"}
  BY DEF GetInv, GetType
<1> QED
  BY <1>1 DEF Active, Dumping, Gets, Looking

\* A get that stands on what is recycled is guarded until it is over, or spoilt.
LEMMA RecycledReaders ==
  ASSUME LinkInv, Recycled
  PROVE  LinkInv'
<1>1. GetInv /\ AwaitInv /\ SoundInv /\ DumpInv /\ TypeInv /\ StepInv /\ WriterInv
  BY DEF LinkInv, ReaderInv, WriterInv
<1>2. /\ WriterInv' /\ pc' \in {"sleepAlloc", "alloc", "recycleKey", "recycleMem"} /\ cleared' > 0
      /\ at' \in Members' \cup {ListHead}
  BY <1>1, RecycledStep
<1> DEFINE enough == Enough(Emptied(old))
<1>3. /\ pc = "freeEntry" /\ op \in {"recycleKey", "recycleMem"} /\ UNCHANGED bucket /\ FreeEntry(old)
      /\ Observed({old}, Unslept(enough /\ ~(valid /\ Sleeps)))
      /\ old' = Nil /\ cleared' = cleared + 1 /\ new' = new
      /\ \/ ~enough /\ pc' = op /\ awaited' = awaited
         \/ enough /\ valid /\ pc' = "sleepAlloc" /\ awaited' = IF Sleeps THEN Active \ Dumping ELSE {}
         \/ enough /\ ~valid /\ pc' = "alloc" /\ awaited' = awaited
  BY DEF Recycled, FallAsleep, Goto
<1> HIDE DEF enough
<1>4. awaited = {} /\ Active \ Dumping = Gets
  BY <1>1, <1>3, NobodyAwaited, GetsAre
<1>5. Followed /\ GetInv' /\ Gets' = Gets /\ \A r \in Gets : Kept(r)
  BY <1>1, <1>3, ObservedFacts, ObservedFollowed
<1>6. AwaitInv'
  BY <1>3, <1>4, <1>5 DEF AwaitInv
<1>7. /\ count' < count /\ Linked = Members \ {old}
      /\ \A x \in Cells : /\ cell'[x].key = cell[x].key /\ cell'[x].data = cell[x].data
                          /\ cell'[x].next = IF x = old THEN Nil ELSE cell[x].next
      /\ \A b \in Buckets : Reach(HtNext', bucket'[b]) = Entries(b)
  <2>1. Linked = Members \ {old}
    BY <1>1, <1>3 DEF WriterInv, TableInv, AgreeInv, Cut
  <2>2. cleared' \in Nat /\ new' \in Cells \cup {Nil} /\ old' \in Cells \cup {Nil} /\ pc' \in Plain
    BY <1>1, <1>2, <1>3 DEF TypeInv, Plain
  <2> QED
    BY <1>1, <1>2, <1>3, <2>1, <2>2, EntryFreed
<1>8. ~Cut' /\ \A b \in Buckets : Entries(b)' = Entries(b)
  BY <1>2, <1>7 DEF Cut, Virtual, Entries
<1>9. \A x \in Cells : HtNext'[x] = IF x = old THEN Nil ELSE HtNext[x]
  BY <1>7 DEF HtNext
<1>10. DumpInv'
  <2>1. \A r \in Dumping : get'[r].spoilt
    BY <1>1, <1>3, <1>7, ObservedFacts
  <2>2. TypeInv'
    BY <1>2 DEF WriterInv
  <2> QED
    BY <1>1, <1>5, <2>1, <2>2, DumpKept
<1>11. ASSUME NEW r \in Gets PROVE Sound(r)'
  <2>1. OwnBucket(r) \in Buckets /\ get[r].at \in Cells \cup {Nil} /\ Kept(r) /\ Sound(r)
    BY <1>1, <1>5, GetFacts DEF SoundInv
  <2>2. Led(r)'
    <3>1. CASE BucketOf[cell[old].key] = OwnBucket(r)
      <4>1. get'[r].cut
        BY <1>1, <1>3, <3>1, ObservedFacts
      <4> QED
        BY <4>1 DEF Led
    <3>2. CASE BucketOf[cell[old].key] # OwnBucket(r)
      <4>1. Entries(OwnBucket(r))' = Entries(OwnBucket(r)) /\ Led(r)
        BY <1>1, <1>8, <2>1, OwnEntries DEF Sound
      <4>2. \A x \in Entries(OwnBucket(r)) : x \in Cells /\ x # old
        BY <1>1, <1>7, <2>1, EntriesFacts DEF Linked
      <4>3. \A x \in Entries(OwnBucket(r)) : HtNext'[x] = HtNext[x] /\ cell'[x].key = cell[x].key
        BY <1>7, <1>9, <4>2
      <4>4. pc # "crashed" /\ pc' # "crashed"
        BY <1>2, <1>3
      <4> QED
        BY <1>1, <1>2, <2>1, <3>2, <4>1, <4>3, <4>4, QuietLed
    <3> QED
      BY <3>1, <3>2
  <2>3. Clean(r)'
    <3> SUFFICES ASSUME ~get'[r].spoilt
                 PROVE  /\ Intact(get[r].at)' /\ Guarded(r)'
                        /\ get'[r].pc \in {"found", "use"} => cell'[get'[r].at].key = get'[r].key
      BY DEF Clean
    <3>1. /\ ~get[r].spoilt /\ get'[r].pc = get[r].pc /\ get'[r].key = get[r].key /\ get'[r].at = get[r].at
      BY <2>1 DEF Kept
    <3>2. Intact(get[r].at) /\ (get[r].pc \in {"found", "use"} => cell[get[r].at].key = get[r].key)
      BY <2>1, <3>1 DEF Sound, Clean
    <3>3. ~(enough /\ ~(valid /\ Sleeps))
      <4>1. OwnBucket(r) \notin Unslept(enough /\ ~(valid /\ Sleeps))
        BY <1>1, <1>3, ObservedFacts
      <4> QED
        BY <2>1, <4>1 DEF Unslept
    <3>4. Guarded(r)'
      <4>1. CASE ~enough
        BY <1>2, <1>3, <4>1 DEF Guarded, Recycling
      <4>2. CASE enough /\ valid /\ Sleeps
        BY <1>3, <1>4, <4>2 DEF Guarded
      <4> QED
        BY <3>3, <4>1, <4>2
    <3>5. Intact(get[r].at)'
      <4> DEFINE a == get[r].at
      <4>1. IsLink(HtNext)
        BY <1>1, LinkTypes
      <4>2. Closed(HtNext, Reach(HtNext, a)) /\ Reach(HtNext, a) \subseteq Cells
        BY <2>1, <4>1, ReachClosed
      <4>3. \A x \in Reach(HtNext, a) : HtNext'[x] \in Reach(HtNext, a) \cup {Nil}
        BY <1>9, <4>2 DEF Closed
      <4>4. Reach(HtNext', a) \subseteq Reach(HtNext, a)
        BY <2>1, <4>1, <4>3, ReachWithin
      <4> QED
        BY <1>7, <3>1, <3>2, <4>2, <4>4 DEF Intact
    <3>6. get[r].pc \in {"found", "use"} => get[r].at \in Cells
      BY <1>1, GetFacts
    <3> QED
      BY <1>7, <3>1, <3>2, <3>4, <3>5, <3>6
  <2>4. Warned(r)'
    BY <1>8 DEF Warned
  <2> QED
    BY <2>2, <2>3, <2>4 DEF Sound
<1>12. SoundInv'
  BY <1>5, <1>11 DEF SoundInv
<1> QED
  BY <1>2, <1>5, <1>6, <1>10, <1>12 DEF LinkInv, ReaderInv

LEMMA LinkReaders ==
  ASSUME LinkInv, Link
  PROVE  LinkInv'
<1>1. GetInv /\ AwaitInv /\ SoundInv /\ DumpInv /\ TypeInv /\ StepInv /\ WriterInv /\ ChainInv /\ ReplaceInv
  BY DEF LinkInv, ReaderInv, WriterInv, TableInv, Link
<1>2. /\ WriterInv' /\ Members' = Members
      /\ \A d \in Buckets :
           Entries(d)' = IF d = BucketOf[key] THEN (Entries(d) \ {old}) \cup {new} ELSE Entries(d)
  BY <1>1, LinkStep
<1>3. /\ pc = "link" /\ pc' = "append" /\ UNCHANGED <<count, awaited>> /\ Observed({}, {})
  BY DEF Link, Goto
<1> DEFINE b == BucketOf[key]
           P == {p \in Reach(HtNext, bucket[b]) : HtNext[p] = old}
<1>4. /\ b \in Buckets /\ P \subseteq Entries(b)
      /\ \A x \in Cells : cell'[x].key = cell[x].key /\ cell'[x].data = cell[x].data
      /\ \A x \in Cells : HtNext'[x] = IF x \in P THEN new ELSE HtNext[x]
      /\ IsLink(HtNext')
  BY <1>1, LinkEffect
<1>5. awaited = {} /\ \A r \in Gets : ~Guarded(r)
  BY <1>1, <1>3, NobodyAwaited, NotGuarded
<1>6. Followed /\ GetInv' /\ Gets' = Gets /\ \A r \in Gets : Kept(r)
  BY <1>1, <1>3, ObservedFacts, ObservedFollowed
<1>7. AwaitInv'
  BY <1>3, <1>5, <1>6 DEF AwaitInv
<1>8. DumpInv'
  <2>1. TypeInv' /\ count' >= count
    BY <1>1, <1>2, <1>3 DEF WriterInv, TypeInv
  <2> QED
    BY <1>1, <1>2, <1>6, <2>1, DumpKept
<1>9. ~Cut' /\ (Cut <=> old # Nil)
  BY <1>3 DEF Cut
<1>10. ASSUME NEW r \in Gets PROVE Sound(r)'
  <2>1. /\ OwnBucket(r) \in Buckets /\ get[r].at \in Cells \cup {Nil} /\ Kept(r) /\ Sound(r) /\ ~Guarded(r)
        /\ OwnBucket(r)' = OwnBucket(r)
    BY <1>1, <1>5, <1>6, GetFacts DEF SoundInv, Kept, OwnBucket
  <2>2. Warned(r)'
    BY <1>9 DEF Warned
  <2>3. PICK d \in Buckets : d = OwnBucket(r)
    BY <2>1
  <2>4. CASE OwnBucket(r) # b
    <3>1. Entries(d)' = Entries(d)
      BY <1>2, <2>3, <2>4
    <3>2. Entries(OwnBucket(r))' = Entries(OwnBucket(r))
      BY <2>1, <2>3, <3>1
    <3>3. \A x \in Entries(OwnBucket(r)) : x \in Cells /\ x \notin Entries(b)
      BY <1>1, <1>4, <2>1, <2>4, EntriesFacts DEF ChainInv
    <3>4. \A x \in Entries(OwnBucket(r)) : HtNext'[x] = HtNext[x] /\ cell'[x].key = cell[x].key
      BY <1>4, <3>3
    <3>5. pc # "crashed" /\ pc' # "crashed" /\ pc # "freeEntry"
      BY <1>3
    <3> QED
      BY <1>1, <1>2, <2>1, <2>2, <3>2, <3>4, <3>5, QuietSound
  <2>5. CASE OwnBucket(r) = b /\ Cut
    <3>1. get[r].spoilt /\ get[r].cut
      BY <2>1, <2>5 DEF Sound, Warned
    <3>2. get'[r].spoilt /\ get'[r].cut
      BY <2>1, <3>1 DEF Kept
    <3> QED
      BY <3>2, SpoiltSound
  <2>6. CASE OwnBucket(r) = b /\ ~Cut
    <3> DEFINE a == get[r].at
    <3>1. old = Nil /\ Nil \notin Entries(d) /\ Entries(d)' = Entries(d) \cup {new}
      BY <1>1, <1>2, <1>9, <2>3, <2>6, EntriesFacts
    <3>2. /\ get'[r].pc = get[r].pc /\ get'[r].key = get[r].key /\ get'[r].at = a
          /\ (~get'[r].spoilt => ~get[r].spoilt) /\ (~get'[r].cut => ~get[r].cut)
          /\ (get'[r].present => get[r].present)
      BY <2>1 DEF Kept
    <3>3. OnTheWay(r) => a \in Entries(d)' \cup {Nil}
      BY <1>3, <2>3, <3>1 DEF OnTheWay
    <3>4. OnTheWay(r) => OnTheWay(r)' /\ Intact(a)'
      <4> SUFFICES ASSUME OnTheWay(r) PROVE OnTheWay(r)' /\ Intact(a)'
        OBVIOUS
      <4>1. (WriterInv /\ pc # "crashed" => Ways)'
        BY WayWithin, PTL
      <4>2. PICK e \in Cells \cup {Nil} : e = a
        BY <2>1
      <4>3. e \in Entries(d)' \cup {Nil}
        BY <3>3, <4>2
      <4>4. Intact(e)'
        BY <1>2, <1>3, <4>1, <4>3 DEF Ways
      <4>5. Intact(a)'
        BY <3>2, <4>2, <4>4 DEF Intact
      <4>6. get'[r].at \in Entries(OwnBucket(r))' \cup {Nil}
        BY <2>1, <2>3, <3>2, <3>3
      <4> QED
        BY <4>5, <4>6 DEF OnTheWay
    <3>5. get[r].pc \in {"step", "found", "use"} => a \in Cells
      BY <1>1, GetFacts
    <3>6. Clean(r)'
      BY <1>4, <2>1, <3>2, <3>4, <3>5 DEF Sound, Clean
    <3>7. Led(r)'
      <4> SUFFICES ASSUME get'[r].pc \in {"walk", "step"}, get'[r].present, ~get'[r].cut
                   PROVE  /\ \E x \in Reach(HtNext', get'[r].at) : cell'[x].key = get'[r].key
                          /\ get'[r].pc = "step" => cell'[get'[r].at].key # get'[r].key
                          /\ OnTheWay(r)'
        BY DEF Led
      <4>1. /\ \E x \in Reach(HtNext, a) : cell[x].key = get[r].key
            /\ get[r].pc = "step" => cell[a].key # get[r].key
            /\ OnTheWay(r)
        BY <1>3, <2>1, <3>2 DEF Sound, Led
      <4>2. IsLink(HtNext) /\ Reach(HtNext, a) \subseteq Cells
        BY <1>1, <2>1, LinkTypes, ReachClosed
      <4>3. \A x \in Reach(HtNext, a) : HtNext[x] # Nil => HtNext'[x] = HtNext[x]
        BY <1>4, <3>1, <4>2
      <4>4. Reach(HtNext, a) \subseteq Reach(HtNext', a)
        BY <1>4, <2>1, <4>2, <4>3, AppendKeeps
      <4>5. PICK x \in Reach(HtNext, a) : cell[x].key = get[r].key
        BY <4>1
      <4>6. x \in Reach(HtNext', a) /\ cell'[x].key = get[r].key
        BY <1>4, <4>2, <4>4, <4>5
      <4> QED
        BY <1>4, <3>2, <3>4, <3>5, <4>1, <4>6
    <3> QED
      BY <2>2, <3>6, <3>7 DEF Sound
  <2> QED
    BY <2>4, <2>5, <2>6
<1>11. SoundInv'
  BY <1>6, <1>10 DEF SoundInv
<1> QED
  BY <1>2, <1>6, <1>7, <1>8, <1>11 DEF LinkInv, ReaderInv
-----------------------------------------------------------------------------
(* shm_ht_clear and a kill                                                 *)

LEMMA ClearReaders ==
  ASSUME LinkInv, Clear \/ Recover
  PROVE  LinkInv'
<1>1. GetInv /\ AwaitInv /\ SoundInv /\ DumpInv /\ TypeInv /\ LockInv /\ ListInv /\ WriterInv
  BY DEF LinkInv, ReaderInv, WriterInv
<1>2. /\ WriterInv' /\ Members' = {} /\ UNCHANGED <<cell, HtNext>> /\ pc' = "sleepEnd"
      /\ \A b \in Buckets : bucket'[b] = Nil
  BY <1>1, ClearStep
<1>3. PICK cond \in BOOLEAN : Observed({}, Unslept(cond)) /\ (~Sleeps => cond) /\ (pc = "crashed" /\ count = 0 => cond)
  <2>1. CASE Clear
    <3>1. pc = "idle" /\ Observed({}, Unslept(~Sleeps)) /\ (~Sleeps) \in BOOLEAN
      BY <1>1, <2>1, TableAssumption DEF Clear, Acquire, LockInv
    <3> QED
      BY <3>1
  <2>2. CASE Recover
    <3>1. Observed({}, Unslept(~Sleeps \/ count = 0)) /\ (~Sleeps \/ count = 0) \in BOOLEAN
      BY <2>2 DEF Recover
    <3> QED
      BY <3>1
  <2> QED
    BY <2>1, <2>2
<1>4. /\ pc \in {"idle", "crashed"} /\ count' = 0
      /\ awaited' = IF count > 0 THEN (IF Sleeps THEN Active \ Dumping ELSE {}) ELSE awaited
  BY <1>1 DEF Clear, Recover, ClearTable, FallAsleep, Goto, Acquire, LockInv
<1>5. awaited = {} /\ Active \ Dumping = Gets
  BY <1>1, <1>4, NobodyAwaited, GetsAre
<1>6. /\ Followed /\ GetInv' /\ Gets' = Gets
      /\ \A r \in Gets : Kept(r) /\ (get'[r].present => get[r].key \in Present')
  BY <1>1, <1>3, ObservedFacts, ObservedFollowed
<1>7. AwaitInv'
  BY <1>2, <1>4, <1>5, <1>6 DEF AwaitInv
<1>8. DumpInv'
  <2>1. TypeInv' /\ (count = 0 \/ count' < count)
    BY <1>1, <1>2, <1>4 DEF WriterInv, TypeInv
  <2>2. CASE count = 0
    BY <1>1, <1>6, <2>1, <2>2, DumpKept
  <2>3. CASE count' < count
    <3>1. \A r \in Dumping : get'[r].spoilt
      BY <1>1, <1>3, <2>3, ObservedFacts
    <3> QED
      BY <1>1, <1>6, <2>1, <3>1, DumpKept
  <2> QED
    BY <2>1, <2>2, <2>3
<1>9. ~Cut'
  BY <1>2 DEF Cut
<1>10. ASSUME NEW r \in Gets PROVE Sound(r)'
  <2>1. OwnBucket(r) \in Buckets /\ get[r].at \in Cells \cup {Nil} /\ Kept(r) /\ Sound(r) /\ get[r].key \in Keys
    BY <1>1, <1>6, GetFacts DEF SoundInv
  <2>2. ~get'[r].present
    <3> SUFFICES ASSUME get'[r].present PROVE FALSE
      OBVIOUS
    <3>1. (TypeInv => Reachable)'
      BY PresentIs, PTL
    <3>2. get[r].key \in Present' /\ TypeInv'
      BY <1>2, <1>6 DEF WriterInv
    <3>3. \E c \in Reach(HtNext', bucket'[OwnBucket(r)]) : TRUE
      BY <3>1, <3>2 DEF Reachable, OwnBucket
    <3> QED
      BY <1>2, <2>1, <3>3, ReachNone
  <2>3. Clean(r)'
    <3> SUFFICES ASSUME ~get'[r].spoilt
                 PROVE  /\ Intact(get[r].at)' /\ (Guarded(r)' \/ OnTheWay(r)')
                        /\ get'[r].pc \in {"found", "use"} => cell'[get'[r].at].key = get'[r].key
      BY DEF Clean
    <3>1. /\ ~get[r].spoilt /\ get'[r].pc = get[r].pc /\ get'[r].key = get[r].key /\ get'[r].at = get[r].at
      BY <2>1 DEF Kept
    <3>2. /\ Intact(get[r].at) /\ (get[r].pc \in {"found", "use"} => cell[get[r].at].key = get[r].key)
          /\ Guarded(r) \/ OnTheWay(r)
      BY <2>1, <3>1 DEF Sound, Clean
    <3>3. ~cond
      <4>1. OwnBucket(r) \notin Unslept(cond)
        BY <1>1, <1>3, ObservedFacts
      <4> QED
        BY <2>1, <4>1 DEF Unslept
    <3>4. CASE count > 0
      <4>1. Guarded(r)'
        BY <1>3, <1>4, <1>5, <3>3, <3>4 DEF Guarded
      <4> QED
        BY <1>2, <3>1, <3>2, <4>1 DEF Intact
    <3>5. CASE ~(count > 0)
      <4>1. count = 0 /\ pc = "idle"
        BY <1>1, <1>3, <1>4, <3>3, <3>5 DEF TypeInv
      <4>2. Members = {}
        BY <1>1, <4>1, MembersFacts, FS_EmptySet DEF ListInv
      <4>3. Entries(OwnBucket(r)) = {}
        BY <1>1, <2>1, <4>1, <4>2 DEF WriterInv, TableInv, AgreeInv, Cut, Linked
      <4>4. ~Guarded(r)
        BY <1>1, <4>1, NotGuarded
      <4>5. get'[r].at = Nil
        BY <3>1, <3>2, <4>1, <4>3, <4>4 DEF OnTheWay
      <4>6. OnTheWay(r)'
        BY <4>5 DEF OnTheWay
      <4> QED
        BY <1>2, <3>1, <3>2, <4>6 DEF Intact
    <3> QED
      BY <3>4, <3>5
  <2> QED
    BY <1>9, <2>2, <2>3 DEF Sound, Led, Warned
<1>11. SoundInv'
  BY <1>6, <1>10 DEF SoundInv
<1> QED
  BY <1>2, <1>6, <1>7, <1>8, <1>11 DEF LinkInv, ReaderInv

LEMMA CrashReaders ==
  ASSUME LinkInv, Crash
  PROVE  LinkInv'
<1>1. GetInv /\ AwaitInv /\ SoundInv /\ DumpInv /\ TypeInv /\ WriterInv
  BY DEF LinkInv, ReaderInv, WriterInv
<1>2. WriterInv' /\ UNCHANGED <<table, HtNext, Members>> /\ pc # "crashed" /\ pc' = "crashed"
  BY <1>1, CrashStep
<1>3. UNCHANGED get /\ awaited' = {}
  BY DEF Crash
<1>4. Followed /\ GetInv' /\ Gets' = Gets /\ UNCHANGED <<cell, bucket, count>>
  BY <1>1, <1>2, <1>3, UnseenFollowed DEF Followed, table
<1>5. AwaitInv'
  BY <1>3 DEF AwaitInv
<1>6. DumpInv'
  <2>1. TypeInv' /\ count' >= count
    BY <1>1, <1>2, <1>4 DEF WriterInv, TypeInv
  <2> QED
    BY <1>1, <1>2, <1>4, <2>1, DumpKept
<1>7. ASSUME NEW r \in Gets PROVE Sound(r)'
  <2>1. Sound(r)
    BY <1>1 DEF SoundInv
  <2>2. Clean(r)'
    BY <1>2, <1>3, <1>4, <2>1 DEF Sound, Clean, Intact, Guarded
  <2>3. Warned(r)'
    BY <1>2 DEF Warned, Cut
  <2>4. Led(r)'
    BY <1>2, <1>3, <1>4, <2>1 DEF Sound, Led
  <2> QED
    BY <2>2, <2>3, <2>4 DEF Sound
<1>8. SoundInv'
  BY <1>4, <1>7 DEF SoundInv
<1> QED
  BY <1>2, <1>4, <1>5, <1>6, <1>8 DEF LinkInv, ReaderInv
-----------------------------------------------------------------------------
(* The readers' own steps                                                  *)

LEMMA OwnStep ==
  ASSUME LinkInv, WriterInv', UNCHANGED linked, NEW r \in Readers,
         get' \in [Readers -> GetType], \A q \in Readers \ {r} : get'[q] = get[q],
         awaited' = awaited \ {r} \/ (awaited' = awaited /\ (r \in Gets => r \in Gets')),
         r \in Gets' => get'[r].key \in Keys /\ Sound(r)',
         r \in Dumping' => Listing(r)',
         get'[r].pc \in {"step", "found", "use", "row"} => get'[r].at \in Cells
  PROVE  LinkInv'
<1>1. GetInv /\ AwaitInv /\ SoundInv /\ DumpInv
  BY DEF LinkInv, ReaderInv
<1>2. GetInv'
  BY <1>1 DEF GetInv, Gets
<1>3. UNCHANGED <<bucket, cell, next, count, pc, op, key, new, old, cleared>>
  BY DEF linked, table, loop
<1>4. \A q \in Readers \ {r} : (q \in Gets' <=> q \in Gets) /\ (q \in Dumping' <=> q \in Dumping)
  BY DEF Gets, Dumping
<1>5. AwaitInv'
  <2>1. awaited' \subseteq awaited /\ awaited \subseteq Gets /\ Gets \subseteq Readers
    BY <1>1 DEF AwaitInv, Gets
  <2> QED
    BY <1>1, <1>3, <1>4, <2>1 DEF AwaitInv
<1>6. HtNext' = HtNext /\ Members' = Members /\ Cut' = Cut /\ \A b : Entries(b)' = Entries(b)
  BY SameTable
<1>7. ASSUME NEW q \in Gets, q # r PROVE Sound(q)'
  <2>1. Sound(q) /\ get'[q] = get[q] /\ (q \in awaited => q \in awaited')
    BY <1>1, <1>7 DEF SoundInv, Gets
  <2>2. OwnBucket(q)' = OwnBucket(q) /\ (OnTheWay(q)' <=> OnTheWay(q)) /\ (Guarded(q) => Guarded(q)')
    BY <1>3, <1>6, <2>1 DEF OwnBucket, OnTheWay, Guarded, Recycling
  <2>3. Clean(q)'
    BY <1>3, <1>6, <2>1, <2>2 DEF Sound, Clean, Intact
  <2>4. Warned(q)'
    BY <1>3, <1>6, <2>1, <2>2 DEF Sound, Warned
  <2>5. Led(q)'
    BY <1>3, <1>6, <2>1, <2>2 DEF Sound, Led
  <2> QED
    BY <2>3, <2>4, <2>5 DEF Sound
<1>8. SoundInv'
  BY <1>4, <1>7 DEF SoundInv, Gets
<1>9. DumpInv'
  BY <1>1, <1>3, <1>4, <1>6 DEF DumpInv, Listing, Dumping
<1> QED
  BY <1>2, <1>5, <1>8, <1>9 DEF LinkInv, ReaderInv

\* What a reader writes down when it begins.
LEMMA NoGetType == NoGet \in GetType
BY DEF NoGet, GetType

LEMMA EndedRecord ==
  ASSUME NEW g \in GetType
  PROVE  [g EXCEPT !.pc = "done"] \in GetType /\ [g EXCEPT !.pc = "done"].pc = "done"
BY DEF GetType

\* The end of a get or of a dump.
LEMMA EndReaders ==
  ASSUME LinkInv, WriterInv', UNCHANGED linked, NEW r \in Readers, EndGet(r)
  PROVE  LinkInv'
<1>1. get \in [Readers -> GetType]
  BY DEF LinkInv, ReaderInv, GetInv
<1>2. get' = [get EXCEPT ![r] = [NoGet EXCEPT !.pc = "done"]] /\ awaited' = awaited \ {r}
  BY DEF EndGet
<1>3. [NoGet EXCEPT !.pc = "done"] \in GetType /\ [NoGet EXCEPT !.pc = "done"].pc = "done"
  BY NoGetType, EndedRecord
<1>4. get' \in [Readers -> GetType] /\ get'[r].pc = "done" /\ \A q \in Readers \ {r} : get'[q] = get[q]
  BY <1>1, <1>2, <1>3
<1>5. r \notin Gets' /\ r \notin Dumping'
  BY <1>4 DEF Gets, Dumping, Looking
<1> QED
  BY <1>2, <1>4, <1>5, OwnStep

LEMMA BeginGetReaders ==
  ASSUME LinkInv, NEW r \in Readers, NEW k \in Keys, NEW l \in WithinLock, BeginGet(r, k, l)
  PROVE  LinkInv'
<1>1. GetInv /\ AwaitInv /\ WriterInv /\ TypeInv /\ StepInv
  BY DEF LinkInv, ReaderInv, WriterInv
<1>2. WriterInv' /\ UNCHANGED linked
  BY <1>1, BeginLeaves
<1> DEFINE b == BucketOf[k]
           g == [NoGet EXCEPT !.pc = "walk", !.key = k, !.at = bucket[b], !.locked = l,
                   !.present = Holds(k), !.cut = BeingReplaced(k), !.spoilt = BeingReplaced(k)]
<1>3. /\ get' = [get EXCEPT ![r] = g] /\ awaited' = awaited /\ get[r].pc = "idle"
  BY DEF BeginGet
<1>4. b \in Buckets /\ bucket[b] \in Cells \cup {Nil}
  BY <1>1, TableAssumption DEF TypeInv
<1>5. Holds(k) \in BOOLEAN /\ BeingReplaced(k) \in BOOLEAN /\ l \in BOOLEAN
  BY TableAssumption DEF Holds, BeingReplaced
<1>6. /\ g \in GetType /\ g.pc = "walk" /\ g.key = k /\ g.at = bucket[b] /\ g.present = Holds(k)
      /\ g.cut = BeingReplaced(k) /\ g.spoilt = BeingReplaced(k)
  <2> DEFINE a == bucket[b]
             p == Holds(k)
             c == BeingReplaced(k)
  <2>1. a \in Cells \cup {Nil} /\ p \in BOOLEAN /\ c \in BOOLEAN
    BY <1>4, <1>5
  <2> PICK n \in GetType : n = NoGet
    BY NoGetType
  <2>2. g = [n EXCEPT !.pc = "walk", !.key = k, !.at = a, !.locked = l,
                   !.present = p, !.cut = c, !.spoilt = c]
    OBVIOUS
  <2> HIDE DEF a, p, c, g
  <2>3. /\ g \in GetType /\ g.pc = "walk" /\ g.key = k /\ g.at = a /\ g.present = p
        /\ g.cut = c /\ g.spoilt = c
    BY <1>5, <2>1, <2>2 DEF GetType, Looking
  <2> QED
    BY <2>3 DEF a, p, c
<1> HIDE DEF g
<1>7. get' \in [Readers -> GetType] /\ get'[r] = g /\ \A q \in Readers \ {r} : get'[q] = get[q]
  BY <1>1, <1>3, <1>6 DEF GetInv
<1>8. r \notin Dumping' /\ r \notin Gets
  BY <1>3, <1>6, <1>7 DEF Dumping, Gets, Looking
<1>9. UNCHANGED <<bucket, cell, pc, key, old>>
  BY <1>2 DEF linked, table
<1>10. HtNext' = HtNext /\ Cut' = Cut /\ \A d : Entries(d)' = Entries(d)
  BY <1>2, SameTable
<1>11. bucket[b] \in Entries(b) \cup {Nil} /\ Intact(bucket[b])
  <2>1. CASE pc = "crashed"
    BY <1>1, <1>4, <2>1, EntriesFacts DEF WriterInv, TableInv
  <2>2. CASE pc # "crashed"
    BY <1>1, <1>4, <2>2, WayWithin DEF Ways
  <2> QED
    BY <2>1, <2>2
<1>12. OwnBucket(r)' = b /\ OnTheWay(r)'
  BY <1>6, <1>7, <1>10, <1>11 DEF OwnBucket, OnTheWay
<1>13. Clean(r)'
  <2>1. Intact(bucket[b])'
    BY <1>9, <1>10, <1>11 DEF Intact
  <2>2. get'[r].at = bucket[b] /\ get'[r].pc = "walk"
    BY <1>6, <1>7
  <2>3. Intact(get[r].at)'
    BY <1>9, <1>10, <1>11, <2>2 DEF Intact
  <2> QED
    BY <1>12, <2>2, <2>3 DEF Clean
<1>14. Warned(r)'
  <2> SUFFICES ASSUME Cut, BucketOf[key] = b PROVE BeingReplaced(k)
    BY <1>6, <1>7, <1>9, <1>10, <1>12 DEF Warned
  <2>1. pc # "crashed" /\ cell[old].key = key
    BY <1>1 DEF WriterInv, TableInv, ReplaceInv, Cut
  <2> QED
    BY <2>1 DEF BeingReplaced, Cut
<1>15. Led(r)'
  <2> SUFFICES ASSUME Holds(k)
               PROVE  \E c \in Reach(HtNext, bucket[b]) : cell[c].key = k
    BY <1>6, <1>7, <1>9, <1>10, <1>12 DEF Led
  <2> QED
    BY <1>1, <1>4, ChainIs DEF Holds
<1>16. Sound(r)' /\ get'[r].key \in Keys /\ get'[r].pc = "walk"
  BY <1>6, <1>7, <1>13, <1>14, <1>15 DEF Sound
<1> QED
  BY <1>2, <1>3, <1>7, <1>8, <1>16, OwnStep

LEMMA BeginDumpReaders ==
  ASSUME LinkInv, NEW r \in Readers, NEW d \in Dumps, NEW l \in WithinLock, BeginDump(r, d, l)
  PROVE  LinkInv'
<1>1. GetInv /\ AwaitInv /\ WriterInv /\ TypeInv
  BY DEF LinkInv, ReaderInv, WriterInv
<1>2. WriterInv' /\ UNCHANGED linked
  BY <1>1, BeginLeaves
<1> DEFINE g == [NoGet EXCEPT !.pc = "entry", !.at = next[ListHead], !.locked = l,
                   !.match = d.match, !.skip = d.offset, !.rows = RowCount(d)]
<1>3. /\ get' = [get EXCEPT ![r] = g] /\ awaited' = awaited /\ get[r].pc = "idle" /\ RowCount(d) > 0
  BY DEF BeginDump
<1>4. d.match \in SUBSET Keys /\ d.offset \in Nat /\ d.count \in Nat /\ count \in Nat /\ l \in BOOLEAN
  BY <1>1, TableAssumption DEF TypeInv
<1>5. RowCount(d) \in Int /\ count > 0
  BY <1>3, <1>4 DEF RowCount
<1>6. next[ListHead] \in Members \cup {ListHead} /\ next[ListHead] \in Cells \cup {Nil}
  BY <1>1, NextMember DEF ListHead, Nil
<1>7. g \in GetType /\ g.pc = "entry" /\ g.at = next[ListHead]
  <2> PICK n \in GetType : n = NoGet
    BY NoGetType
  <2> HIDE DEF g
  <2>1. g = [n EXCEPT !.pc = "entry", !.at = next[ListHead], !.locked = l,
                   !.match = d.match, !.skip = d.offset, !.rows = RowCount(d)]
    BY DEF g
  <2>2. d.offset \in Int
    BY <1>4
  <2> QED
    BY <1>4, <1>5, <1>6, <2>1, <2>2 DEF GetType
<1> HIDE DEF g
<1>8. get' \in [Readers -> GetType] /\ get'[r] = g /\ \A q \in Readers \ {r} : get'[q] = get[q]
  BY <1>1, <1>3, <1>7 DEF GetInv
<1>9. r \notin Gets' /\ r \notin Gets /\ get'[r].pc = "entry"
  BY <1>3, <1>7, <1>8 DEF Gets, Looking
<1>10. Listing(r)'
  <2>1. Members' = Members /\ count' = count
    BY <1>2, SameTable DEF linked, table
  <2> QED
    BY <1>5, <1>6, <1>7, <1>8, <2>1 DEF Listing
<1> QED
  BY <1>2, <1>3, <1>8, <1>9, <1>10, OwnStep

\* A get goes on from the entry it stands on.
LEMMA TurnReaders ==
  ASSUME LinkInv, WriterInv', UNCHANGED linked, NEW r \in Gets, awaited' = awaited,
         NEW x \in {"step", "found", "use"}, get' = [get EXCEPT ![r].pc = x], get[r].at \in Cells,
         x = "step" => get[r].pc = "walk" /\ cell[get[r].at].key # get[r].key,
         x \in {"found", "use"} => get[r].pc = "found" \/ cell[get[r].at].key = get[r].key
  PROVE  LinkInv'
<1>1. GetInv /\ SoundInv /\ r \in Readers /\ get[r].key \in Keys /\ get[r] \in GetType
  BY GetFacts DEF LinkInv, ReaderInv, GetInv
<1>2. /\ [get[r] EXCEPT !.pc = x] \in GetType /\ [get[r] EXCEPT !.pc = x].pc = x
      /\ \A f \in {"key", "at", "spoilt", "cut", "present"} : [get[r] EXCEPT !.pc = x][f] = get[r][f]
  BY <1>1 DEF GetType, Looking
<1>3. get' = [get EXCEPT ![r] = [get[r] EXCEPT !.pc = x]]
  BY <1>1 DEF GetInv
<1>4. /\ get' \in [Readers -> GetType] /\ \A q \in Readers \ {r} : get'[q] = get[q]
      /\ get'[r].pc = x /\ get'[r].at = get[r].at /\ get'[r].key = get[r].key
      /\ get'[r].spoilt = get[r].spoilt /\ get'[r].cut = get[r].cut /\ get'[r].present = get[r].present
  BY <1>1, <1>2, <1>3 DEF GetInv
<1>5. r \in Gets' /\ r \notin Dumping' /\ Sound(r)
  BY <1>1, <1>4 DEF Gets, Dumping, Looking, SoundInv
<1>6. UNCHANGED <<bucket, cell, pc, op, key, old, cleared>>
  BY DEF linked, table, loop
<1>7. HtNext' = HtNext /\ Cut' = Cut /\ \A b : Entries(b)' = Entries(b)
  BY SameTable
<1>8. OwnBucket(r)' = OwnBucket(r) /\ (OnTheWay(r)' <=> OnTheWay(r)) /\ (Guarded(r) => Guarded(r)')
  BY <1>4, <1>6, <1>7 DEF OwnBucket, OnTheWay, Guarded, Recycling
<1>9. Clean(r)'
  BY <1>4, <1>5, <1>6, <1>7, <1>8 DEF Sound, Clean, Intact
<1>10. Warned(r)'
  BY <1>4, <1>5, <1>6, <1>7, <1>8 DEF Sound, Warned
<1>11. Led(r)'
  BY <1>4, <1>5, <1>6, <1>7, <1>8 DEF Sound, Led
<1>12. Sound(r)'
  BY <1>9, <1>10, <1>11 DEF Sound
<1> QED
  BY <1>1, <1>4, <1>5, <1>12, OwnStep

LEMMA CompareReaders ==
  ASSUME LinkInv, NEW r \in Readers, Compare(r)
  PROVE  LinkInv'
<1>1. WriterInv' /\ UNCHANGED linked
  BY ReadingLeaves DEF Reading, LinkInv
<1>2. r \in Gets /\ get[r].at \in Cells /\ get[r].pc = "walk"
  BY DEF Compare, Gets, Looking, LinkInv, ReaderInv, GetInv, GetType
<1>3. awaited' = awaited
  BY DEF Compare, writer
<1>4. CASE cell[get[r].at].key = get[r].key
  <2>1. get' = [get EXCEPT ![r].pc = "found"]
    BY <1>4 DEF Compare
  <2> QED
    BY <1>1, <1>2, <1>3, <1>4, <2>1, TurnReaders
<1>5. CASE cell[get[r].at].key # get[r].key
  <2>1. get' = [get EXCEPT ![r].pc = "step"]
    BY <1>5 DEF Compare
  <2> QED
    BY <1>1, <1>2, <1>3, <1>5, <2>1, TurnReaders
<1> QED
  BY <1>4, <1>5

LEMMA FoundReaders ==
  ASSUME LinkInv, NEW r \in Readers, Found(r) \/ ReturnExpired(r)
  PROVE  LinkInv'
<1>1. WriterInv' /\ UNCHANGED linked
  BY ReadingLeaves DEF Reading, LinkInv
<1>2. r \in Gets /\ get[r].pc = "found" /\ get' = [get EXCEPT ![r].pc = "use"] /\ awaited' = awaited
  BY DEF Found, ReturnExpired, Gets, Looking
<1>3. get[r].at \in Cells
  BY <1>2, GetFacts DEF LinkInv, ReaderInv
<1> QED
  BY <1>1, <1>2, <1>3, TurnReaders

LEMMA EndsReaders ==
  ASSUME LinkInv, NEW r \in Readers, Miss(r) \/ TimedOut(r) \/ Use(r) \/ EndDump(r)
  PROVE  LinkInv'
<1>1. WriterInv' /\ UNCHANGED linked
  BY ReadingLeaves DEF Reading, LinkInv
<1>2. EndGet(r)
  BY DEF Miss, TimedOut, Use, EndDump
<1> QED
  BY <1>1, <1>2, EndReaders

\* The walk goes on to what ht_next leads to.
LEMMA AdvanceReaders ==
  ASSUME LinkInv, NEW r \in Readers, Advance(r)
  PROVE  LinkInv'
<1>1. WriterInv' /\ UNCHANGED linked
  BY ReadingLeaves DEF Reading, LinkInv
<1>2. r \in Gets /\ get[r].pc = "step" /\ awaited' = awaited
  BY DEF Advance, Gets, Looking, writer
<1>3. GetInv /\ WriterInv /\ TypeInv /\ StepInv /\ SoundInv
  BY DEF LinkInv, ReaderInv, WriterInv
<1>4. /\ get[r] \in GetType /\ get[r].key \in Keys /\ get[r].at \in Cells /\ OwnBucket(r) \in Buckets
      /\ Sound(r)
  BY <1>2, <1>3, GetFacts DEF GetInv, SoundInv
<1> DEFINE a == get[r].at
<1>5. PICK n \in Cells \cup {Nil} : n = cell[a].next /\ n = HtNext[a] /\ IsLink(HtNext)
  <2>1. IsLink(HtNext) /\ HtNext[a] = cell[a].next
    BY <1>3, <1>4, LinkTypes DEF HtNext
  <2> QED
    BY <1>4, <2>1 DEF IsLink
<1>6. /\ [get[r] EXCEPT !.pc = "walk", !.at = n] \in GetType
      /\ [get[r] EXCEPT !.pc = "walk", !.at = n].pc = "walk"
      /\ [get[r] EXCEPT !.pc = "walk", !.at = n].at = n
      /\ \A f \in {"key", "spoilt", "cut", "present"} :
           [get[r] EXCEPT !.pc = "walk", !.at = n][f] = get[r][f]
  BY <1>4, <1>5 DEF GetType, Looking
<1>7. get' = [get EXCEPT ![r] = [get[r] EXCEPT !.pc = "walk", !.at = n]]
  BY <1>3, <1>5 DEF GetInv, Advance
<1>8. /\ get' \in [Readers -> GetType] /\ \A q \in Readers \ {r} : get'[q] = get[q]
      /\ get'[r].pc = "walk" /\ get'[r].at = n /\ get'[r].key = get[r].key
      /\ get'[r].spoilt = get[r].spoilt /\ get'[r].cut = get[r].cut /\ get'[r].present = get[r].present
  BY <1>3, <1>6, <1>7 DEF GetInv
<1>9. r \in Gets' /\ r \notin Dumping'
  BY <1>8 DEF Gets, Dumping, Looking
<1>10. UNCHANGED <<bucket, cell, pc, op, key, old, cleared>>
  BY <1>1 DEF linked, table, loop
<1>11. HtNext' = HtNext /\ Cut' = Cut /\ \A b : Entries(b)' = Entries(b)
  BY <1>1, SameTable
<1>12. OwnBucket(r)' = OwnBucket(r) /\ (Guarded(r) => Guarded(r)')
  BY <1>2, <1>8, <1>10 DEF OwnBucket, Guarded, Recycling
<1>13. Reach(HtNext, a) \subseteq {a} \cup Reach(HtNext, n) /\ Reach(HtNext, n) \subseteq Reach(HtNext, a)
  BY <1>4, <1>5, ReachStep
<1>14. ASSUME OnTheWay(r), pc # "crashed" PROVE OnTheWay(r)'
  <2>1. Ways
    BY <1>3, <1>14, WayWithin
  <2>2. CASE a \in Entries(OwnBucket(r))
    <3>1. n \in Entries(OwnBucket(r)) \cup {Nil}
      BY <1>4, <1>5, <2>1, <2>2 DEF Ways, Closed
    <3> QED
      BY <1>8, <1>11, <1>12, <3>1 DEF OnTheWay
  <2>3. CASE pc = "freeEntry" /\ a = old /\ BucketOf[cell[old].key] = OwnBucket(r)
    <3>1. n \in Entries(OwnBucket(r)) \cup {Nil}
      BY <1>3, <1>5, <1>14, <2>3 DEF WriterInv, TableInv, ReplaceInv
    <3> QED
      BY <1>8, <1>11, <1>12, <3>1 DEF OnTheWay
  <2>4. a # Nil
    BY <1>4, NilIsNoCell
  <2> QED
    BY <1>14, <2>2, <2>3, <2>4 DEF OnTheWay
<1>15. Clean(r)'
  <2> SUFFICES ASSUME ~get[r].spoilt PROVE Intact(n)' /\ (Guarded(r)' \/ OnTheWay(r)')
    BY <1>8 DEF Clean, Intact
  <2>1. Intact(a) /\ (Guarded(r) \/ OnTheWay(r))
    BY <1>4 DEF Sound, Clean
  <2>2. Intact(n)'
    BY <1>10, <1>11, <1>13, <2>1 DEF Intact
  <2>3. pc = "crashed" => Guarded(r)
    BY DEF Guarded
  <2> QED
    BY <1>12, <1>14, <2>1, <2>2, <2>3
<1>16. Warned(r)'
  BY <1>4, <1>8, <1>10, <1>11, <1>12 DEF Sound, Warned
<1>17. Led(r)'
  <2> SUFFICES ASSUME get[r].present, ~get[r].cut
               PROVE  /\ \E c \in Reach(HtNext, n)' : cell'[c].key = get[r].key
                      /\ pc # "crashed" => OnTheWay(r)'
    BY <1>8, <1>10 DEF Led
  <2>1. /\ \E c \in Reach(HtNext, a) : cell[c].key = get[r].key
        /\ cell[a].key # get[r].key /\ (pc # "crashed" => OnTheWay(r))
    BY <1>2, <1>4 DEF Sound, Led
  <2>2. \E c \in Reach(HtNext, n) : cell[c].key = get[r].key
    BY <1>13, <2>1
  <2>3. pc # "crashed" => OnTheWay(r)'
    BY <1>14, <2>1
  <2> QED
    BY <1>10, <1>11, <2>2, <2>3
<1>18. Sound(r)'
  BY <1>15, <1>16, <1>17 DEF Sound
<1> QED
  BY <1>1, <1>2, <1>4, <1>8, <1>9, <1>18, OwnStep

\* A dump goes on along the list, or stops to copy an entry.
LEMMA DumpOn ==
  ASSUME LinkInv, NEW r \in Dumping, Reading(r), awaited' = awaited,
         NEW h \in GetType, get' = [get EXCEPT ![r] = h], h.pc \in {"entry", "row"},
         h.spoilt = get[r].spoilt, h.at \in {get[r].at, next[get[r].at]},
         h.pc = "row" => h.at # ListHead
  PROVE  LinkInv'
<1>1. r \in Readers /\ GetInv /\ WriterInv /\ TypeInv /\ DumpInv
  BY DEF Dumping, LinkInv, ReaderInv, WriterInv
<1>2. WriterInv' /\ UNCHANGED linked
  BY <1>1, ReadingLeaves
<1>3. get' \in [Readers -> GetType] /\ get'[r] = h /\ \A q \in Readers \ {r} : get'[q] = get[q]
  BY <1>1 DEF GetInv
<1>4. r \notin Gets' /\ r \notin Gets
  BY <1>3 DEF Gets, Dumping, Looking
<1>5. Listing(r)'
  <2> SUFFICES ASSUME ~get[r].spoilt PROVE (h.at \in Members \cup {ListHead} /\ count > 0)'
    BY <1>3 DEF Listing
  <2>1. get[r].at \in Members \cup {ListHead} /\ count > 0
    BY <1>1 DEF DumpInv, Listing
  <2>2. h.at \in Members \cup {ListHead}
    BY <1>1, <2>1, NextMember
  <2> QED
    BY <1>2, <2>1, <2>2, SameTable DEF linked, table
<1>6. get'[r].pc \in {"step", "found", "use", "row"} => get'[r].at \in Cells
  BY <1>3 DEF GetType, Nil, ListHead
<1> QED
  BY <1>1, <1>2, <1>3, <1>4, <1>5, <1>6, OwnStep

LEMMA ExamineReaders ==
  ASSUME LinkInv, NEW r \in Readers, Examine(r)
  PROVE  LinkInv'
<1>1. r \in Dumping /\ Reading(r) /\ awaited' = awaited /\ get[r].pc = "entry" /\ get[r].at # ListHead
  BY DEF Examine, Dumping, Reading, writer
<1>2. get[r] \in GetType /\ get \in [Readers -> GetType] /\ TypeInv
  BY DEF LinkInv, ReaderInv, GetInv, WriterInv
<1>3. get[r].at \in Cells /\ next[get[r].at] \in Cells \cup {Nil}
  BY <1>1, <1>2 DEF GetType, TypeInv, Nil, ListHead
<1>4. CASE Matched(r) /\ get[r].skip = 0
  <2> DEFINE h == [get[r] EXCEPT !.pc = "row"]
  <2>1. get' = [get EXCEPT ![r] = h]
    BY <1>2, <1>4 DEF Examine
  <2>2. h \in GetType /\ h.pc = "row" /\ h.spoilt = get[r].spoilt /\ h.at = get[r].at
    BY <1>2 DEF GetType
  <2> HIDE DEF h
  <2> QED
    BY <1>1, <2>1, <2>2, DumpOn
<1>5. CASE ~(Matched(r) /\ get[r].skip = 0)
  <2>1. PICK s \in Int : s = IF Matched(r) THEN get[r].skip - 1 ELSE get[r].skip
    BY <1>2 DEF GetType
  <2>2. PICK n \in Cells \cup {Nil} : n = next[get[r].at]
    BY <1>3
  <2> DEFINE h == [get[r] EXCEPT !.at = n, !.skip = s]
  <2>3. get' = [get EXCEPT ![r] = h]
    BY <1>2, <1>5, <2>1, <2>2 DEF Examine
  <2>4. h \in GetType /\ h.pc = "entry" /\ h.spoilt = get[r].spoilt /\ h.at = n
    BY <1>1, <1>2 DEF GetType
  <2> HIDE DEF h
  <2> QED
    BY <1>1, <2>2, <2>3, <2>4, DumpOn
<1> QED
  BY <1>4, <1>5

LEMMA CopyRowReaders ==
  ASSUME LinkInv, NEW r \in Readers, CopyRow(r)
  PROVE  LinkInv'
<1>1. r \in Dumping /\ Reading(r) /\ awaited' = awaited /\ get[r].pc = "row"
  BY DEF CopyRow, Dumping, Reading, writer
<1>2. get[r] \in GetType /\ get \in [Readers -> GetType] /\ TypeInv /\ get[r].at \in Cells
  BY <1>1 DEF LinkInv, ReaderInv, GetInv, WriterInv
<1>3. PICK n \in Cells \cup {Nil} : n = next[get[r].at]
  BY <1>2 DEF TypeInv, Nil, ListHead
<1>4. PICK w \in Int : w = get[r].rows - 1
  BY <1>2 DEF GetType
<1> DEFINE h == [get[r] EXCEPT !.pc = "entry", !.at = n, !.rows = w]
<1>5. get' = [get EXCEPT ![r] = h]
  BY <1>2, <1>3, <1>4 DEF CopyRow
<1>6. h \in GetType /\ h.pc = "entry" /\ h.spoilt = get[r].spoilt /\ h.at = n
  BY <1>2 DEF GetType
<1> HIDE DEF h
<1> QED
  BY <1>1, <1>3, <1>5, <1>6, DumpOn

\* Of a reader that is lost the invariant says only what Warned does.
LEMMA StrayOn ==
  ASSUME LinkInv, WriterInv', UNCHANGED linked, NEW r \in Gets, awaited' = awaited,
         Lost(r), get[r].at # Nil, NEW x \in {"walk", "found"}, get' = [get EXCEPT ![r].pc = x]
  PROVE  LinkInv'
<1>1. GetInv /\ SoundInv /\ r \in Readers
  BY DEF LinkInv, ReaderInv, Gets
<1>2. /\ get[r] \in GetType /\ get[r].key \in Keys /\ get[r].at \in Cells
      /\ [get[r] EXCEPT !.pc = x] \in GetType
  BY <1>1 DEF GetInv, GetType, Looking
<1>3. get' = [get EXCEPT ![r] = [get[r] EXCEPT !.pc = x]]
  BY <1>1 DEF GetInv
<1>4. /\ get' \in [Readers -> GetType] /\ \A q \in Readers \ {r} : get'[q] = get[q]
      /\ get'[r].pc = x /\ get'[r].at = get[r].at /\ get'[r].key = get[r].key
      /\ get'[r].spoilt = get[r].spoilt /\ get'[r].cut = get[r].cut /\ get'[r].present = get[r].present
  BY <1>1, <1>2, <1>3 DEF GetInv
<1>5. r \in Gets' /\ r \notin Dumping' /\ Sound(r)
  BY <1>1, <1>4 DEF Gets, Dumping, Looking, SoundInv
<1>6. UNCHANGED key /\ Cut' = Cut /\ OwnBucket(r)' = OwnBucket(r)
  BY <1>4, SameTable DEF linked, OwnBucket
<1>7. Clean(r)' /\ Led(r)'
  BY <1>4 DEF Clean, Led, Lost
<1>8. Warned(r)'
  BY <1>4, <1>5, <1>6 DEF Sound, Warned
<1>9. Sound(r)'
  BY <1>7, <1>8 DEF Sound
<1> QED
  BY <1>1, <1>2, <1>4, <1>5, <1>9, OwnStep

LEMMA StrayReaders ==
  ASSUME LinkInv, NEW r \in Readers, Stray(r)
  PROVE  LinkInv'
<1>1. WriterInv' /\ UNCHANGED linked /\ Reading(r)
  BY ReadingLeaves DEF Reading, LinkInv
<1>2. CASE EndGet(r)
  BY <1>1, <1>2, EndReaders
<1>3. CASE awaited' = awaited /\ get[r].pc = "step" /\ get' = [get EXCEPT ![r].pc = "walk"]
  <2>1. r \in Gets /\ Lost(r) /\ get[r].at # Nil
    BY <1>3 DEF Stray, Gets, Looking
  <2> QED
    BY <1>1, <1>3, <2>1, StrayOn
<1>4. CASE awaited' = awaited /\ get[r].pc = "walk" /\ get' = [get EXCEPT ![r].pc = "found"]
  <2>1. r \in Gets /\ Lost(r) /\ get[r].at # Nil
    BY <1>4 DEF Stray, Gets, Looking
  <2> QED
    BY <1>1, <1>4, <2>1, StrayOn
<1>5. CASE awaited' = awaited /\ get[r].pc = "row" /\ get' = [get EXCEPT ![r].pc = "entry"]
  <2> DEFINE h == [get[r] EXCEPT !.pc = "entry"]
  <2>1. r \in Dumping /\ get \in [Readers -> GetType]
    BY <1>5 DEF Dumping, LinkInv, ReaderInv, GetInv
  <2>2. get' = [get EXCEPT ![r] = h]
    BY <1>5, <2>1
  <2>3. h \in GetType /\ h.pc = "entry" /\ h.spoilt = get[r].spoilt /\ h.at = get[r].at
    BY <2>1 DEF GetType
  <2> HIDE DEF h
  <2> QED
    BY <1>1, <1>5, <2>1, <2>2, <2>3, DumpOn
<1> QED
  BY <1>2, <1>3, <1>4, <1>5 DEF Stray

LEMMA ReadingReaders ==
  ASSUME LinkInv, NEW r \in Readers, Reading(r)
  PROVE  LinkInv'
BY CompareReaders, AdvanceReaders, FoundReaders, EndsReaders, ExamineReaders, CopyRowReaders,
   StrayReaders DEF Reading
-----------------------------------------------------------------------------
(* The theorems on readers                                                 *)

LEMMA LinkInit == Init => LinkInv
<1> SUFFICES ASSUME Init PROVE LinkInv
  OBVIOUS
<1>1. WriterInv
  BY WriterInit
<1>2. get \in [Readers -> GetType] /\ \A r \in Readers : get[r].pc = "idle"
  BY NoGetType DEF Init, NoGet
<1>3. Gets = {} /\ Dumping = {} /\ awaited = {}
  BY <1>2 DEF Gets, Dumping, Looking, Init
<1> QED
  BY <1>1, <1>2, <1>3 DEF LinkInv, ReaderInv, GetInv, AwaitInv, SoundInv, DumpInv

LEMMA LinkedStep ==
  ASSUME LinkInv, [Next]_vars
  PROVE  LinkInv'
<1>1. CASE \E k \in Keys : Set(k) \/ Delete(k)
  BY <1>1, SetReaders, DeleteReaders
<1>2. CASE Clear
  BY <1>2, ClearReaders
<1>3. CASE Writing
  BY <1>3, DeletedReaders, SkipReaders, RecycleReaders, RecycledReaders, RecycleFailsReaders, AwakeReaders,
     AllocReaders, NoRoomReaders, FreeOldReaders, StoreReaders, LinkReaders, AppendReaders, ClearReaders
     DEF Writing
<1>4. CASE Crash
  BY <1>4, CrashReaders
<1>5. CASE \E c \in Cells : Expire(c)
  BY <1>5, ExpireReaders
<1>6. CASE \E r \in Readers, k \in Keys, l \in WithinLock : BeginGet(r, k, l)
  BY <1>6, BeginGetReaders
<1>7. CASE \E r \in Readers, d \in Dumps, l \in WithinLock : BeginDump(r, d, l)
  BY <1>7, BeginDumpReaders
<1>8. CASE \E r \in Readers : Reading(r)
  BY <1>8, ReadingReaders
<1>9. CASE UNCHANGED vars
  <2>1. UNCHANGED linked /\ get' = get /\ awaited' = awaited /\ WriterInv'
    BY <1>9, WriterStep DEF vars, writer, linked, LinkInv
  <2>2. UNCHANGED <<bucket, cell, next, count, pc, op, key, new, old, cleared>>
    BY <2>1 DEF linked, table, loop
  <2>3. HtNext' = HtNext /\ Members' = Members /\ Cut' = Cut /\ \A b : Entries(b)' = Entries(b)
    BY <2>1, SameTable
  <2>4. Gets' = Gets /\ Dumping' = Dumping
    BY <2>1 DEF Gets, Dumping
  <2>5. GetInv' /\ AwaitInv' /\ DumpInv'
    BY <2>1, <2>2, <2>3, <2>4 DEF LinkInv, ReaderInv, GetInv, AwaitInv, DumpInv, Listing
  <2>6. ASSUME NEW r \in Gets PROVE Sound(r)'
    <3>1. Sound(r)
      BY DEF LinkInv, ReaderInv, SoundInv
    <3>2. OwnBucket(r)' = OwnBucket(r) /\ (OnTheWay(r)' <=> OnTheWay(r)) /\ (Guarded(r) => Guarded(r)')
      BY <2>1, <2>2, <2>3 DEF OwnBucket, OnTheWay, Guarded, Recycling
    <3>3. Clean(r)'
      BY <2>1, <2>2, <2>3, <3>1, <3>2 DEF Sound, Clean, Intact
    <3>4. Warned(r)' /\ Led(r)'
      BY <2>1, <2>2, <2>3, <3>1, <3>2 DEF Sound, Warned, Led
    <3> QED
      BY <3>3, <3>4 DEF Sound
  <2> QED
    BY <2>1, <2>4, <2>5, <2>6 DEF LinkInv, ReaderInv, SoundInv
<1> QED
  BY <1>1, <1>2, <1>3, <1>4, <1>5, <1>6, <1>7, <1>8, <1>9 DEF Next

LEMMA TypesImplied == LinkInv => TypeOK
<1> SUFFICES ASSUME LinkInv PROVE TypeOK
  OBVIOUS
<1>1. TypeInv /\ LockInv /\ AwaitInv /\ GetInv
  BY DEF LinkInv, WriterInv, ReaderInv
<1>2. awaited \subseteq Active
  BY <1>1 DEF AwaitInv, Gets, Active, Looking
<1> QED
  BY <1>1, <1>2 DEF TypeOK, TypeInv, LockInv

LEMMA CleanImplied == LinkInv => NoDirtyRead
<1> SUFFICES ASSUME LinkInv, NEW r \in Readers, ~get[r].spoilt
             PROVE  /\ get[r].pc = "use" => cell[get[r].at].data = get[r].key
                    /\ get[r].pc = "row" => cell[get[r].at].data = cell[get[r].at].key
  BY DEF NoDirtyRead
<1>1. TypeInv /\ StepInv /\ ListInv /\ GetInv /\ SoundInv /\ DumpInv
  BY DEF LinkInv, WriterInv, ReaderInv
<1>2. get[r].pc \in {"use", "row"} => get[r].at \in Cells
  BY <1>1 DEF GetInv
<1>3. ASSUME get[r].pc = "use" PROVE cell[get[r].at].data = get[r].key
  <2>1. Clean(r)
    BY <1>1, <1>3 DEF SoundInv, Sound, Gets, Looking
  <2>2. Intact(get[r].at) /\ cell[get[r].at].key = get[r].key
    BY <1>3, <2>1 DEF Clean
  <2>3. get[r].at \in Reach(HtNext, get[r].at)
    BY <1>1, <1>2, <1>3, LinkTypes, ReachClosed, NilIsNoCell
  <2> QED
    BY <2>2, <2>3 DEF Intact
<1>4. ASSUME get[r].pc = "row" PROVE cell[get[r].at].data = cell[get[r].at].key
  <2>1. Listing(r)
    BY <1>1, <1>4 DEF DumpInv, Dumping
  <2>2. get[r].at \in Members
    BY <1>2, <1>4, <2>1, NilIsNoCell DEF Listing, Nil, ListHead
  <2> QED
    BY <1>1, <2>2 DEF ListInv
<1> QED
  BY <1>3, <1>4

LEMMA LedImplied == LinkInv => NoFalseMiss
<1> SUFFICES ASSUME LinkInv, NEW r \in Readers, get[r].pc = "walk", get[r].at = Nil,
                    get[r].present, ~get[r].cut
             PROVE  FALSE
  BY DEF NoFalseMiss
<1>1. Led(r)
  BY DEF LinkInv, ReaderInv, SoundInv, Sound, Gets, Looking
<1>2. Reach(HtNext, Nil) = {}
  BY ReachNone
<1> QED
  BY <1>1, <1>2 DEF Led

LEMMA LinkCorrect == Spec => []LinkInv
<1>1. LinkInv /\ [Next]_vars => LinkInv'
  BY LinkedStep
<1> QED
  BY <1>1, LinkInit, PTL DEF Spec

\* However the operations, the readers and the kills interleave, links lead to
\* cells, the counters of entries and of stripings keep their bounds, and the
\* writer waits for gets only.
THEOREM TypeCorrect == Spec => []TypeOK
BY LinkCorrect, TypesImplied, PTL

\* What is copied after shmcache_get has returned, and what shmcache_dump
\* copies, is whole, unless an entry was freed without a sleep meanwhile.
THEOREM CleanReads == Spec => []NoDirtyRead
BY LinkCorrect, CleanImplied, PTL

\* A walk without the lock misses a key that is in the table all the time only
\* if an entry of its bucket was freed meanwhile.
THEOREM NoLostKey == Spec => []NoFalseMiss
BY LinkCorrect, LedImplied, PTL
-----------------------------------------------------------------------------
(* The refinement of FifoCache                                             *)

\* What the operation under way is, what it has stored, and which entry it
\* recycles: the oldest one, or one that has expired.
ServeInv ==
  /\ config \in Configs
  /\ pc \in {"idle", "crashed"} => op = "none"
  /\ pc = "sleepEnd" => op \in {"clear", "none"}
  /\ pc \in {"storeValue", "link", "append"} => cell[new].key = key
  /\ pc \in {"link", "append"} => ~cell[new].expired
  /\ Recycling /\ config.valid => at = next[ListHead]
  /\ pc = "freeEntry" /\ op # "delete" =>
       IF config.valid THEN next[ListHead] = old /\ at = next[old] ELSE cell[old].expired

\* The sequence s is the list along nx.
Along(nx, s) ==
  /\ s \in Seq(Cells)
  /\ nx[ListHead] = IF s = <<>> THEN ListHead ELSE s[1]
  /\ \A i \in 1..Len(s) : nx[s[i]] = IF i = Len(s) THEN ListHead ELSE s[i + 1]

LEMMA HeadIsNoCell == ListHead \notin Cells
BY NilIsNoCell DEF ListHead, Nil

LEMMA AlongPrefix ==
  ASSUME NEW nx, NEW s, NEW t, Along(nx, s), Along(nx, t)
  PROVE  Len(s) <= Len(t) /\ \A i \in 1..Len(s) : s[i] = t[i]
<1>1. s \in Seq(Cells) /\ t \in Seq(Cells) /\ Len(s) \in Nat /\ Len(t) \in Nat
  BY DEF Along
<1> DEFINE S == {n \in Nat : n <= Len(s) => n <= Len(t) /\ \A i \in 1..n : s[i] = t[i]}
<1>2. 0 \in S
  BY <1>1
<1>3. ASSUME NEW n \in S PROVE n + 1 \in S
  <2> SUFFICES ASSUME n + 1 <= Len(s)
               PROVE  n + 1 <= Len(t) /\ \A i \in 1..(n + 1) : s[i] = t[i]
    OBVIOUS
  <2>1. n \in Nat /\ n <= Len(s) /\ n <= Len(t) /\ \A i \in 1..n : s[i] = t[i]
    BY <1>1
  <2>2. s[n + 1] \in Cells /\ s # <<>>
    BY <1>1, <2>1
  <2>3. CASE n = 0
    <3>1. nx[ListHead] = s[1] /\ s[1] \in Cells
      BY <2>2, <2>3 DEF Along
    <3>2. t # <<>> /\ t[1] = s[1]
      BY <3>1, HeadIsNoCell DEF Along
    <3>3. 1 <= Len(t)
      BY <1>1, <3>2
    <3> QED
      BY <2>3, <3>2, <3>3
  <2>4. CASE n # 0
    <3>1. n \in 1..Len(s) /\ n \in 1..Len(t) /\ n # Len(s) /\ s[n] = t[n]
      BY <1>1, <2>1, <2>4
    <3>2. nx[s[n]] = s[n + 1]
      BY <3>1 DEF Along
    <3>3. n # Len(t) /\ t[n + 1] = s[n + 1]
      BY <2>2, <3>1, <3>2, HeadIsNoCell DEF Along
    <3>4. n + 1 <= Len(t)
      BY <1>1, <2>1, <3>3
    <3> QED
      BY <2>1, <3>3, <3>4
  <2> QED
    BY <2>3, <2>4
<1>4. S = Nat
  <2>1. S \in SUBSET Nat
    OBVIOUS
  <2> HIDE DEF S
  <2> QED
    BY <1>2, <1>3, <2>1, AllNumbers
<1>5. Len(s) \in S
  BY <1>1, <1>4
<1> QED
  BY <1>1, <1>5

LEMMA AlongUnique ==
  ASSUME NEW nx, NEW s, NEW t, Along(nx, s), Along(nx, t)
  PROVE  s = t
<1>1. s \in Seq(Cells) /\ t \in Seq(Cells) /\ Len(s) \in Nat /\ Len(t) \in Nat
  BY DEF Along
<1>2. Len(s) <= Len(t) /\ Len(t) <= Len(s) /\ \A i \in 1..Len(s) : s[i] = t[i]
  BY AlongPrefix
<1>3. Len(s) = Len(t)
  BY <1>1, <1>2
<1> QED
  BY <1>1, <1>2, <1>3

LEMMA ListedAlong ==
  ASSUME TypeInv, QueueInv
  PROVE  /\ Along(next, Listed) /\ ToSet(Listed) = Members /\ Listed = ListedIn(next)
         /\ \A i, j \in 1..Len(Listed) : Listed[i] = Listed[j] => i = j
<1>1. Listed = ListedIn(next)
  BY DEF Listed, ListedIn, InListIn, NthIn
<1> QED
  BY <1>1, ListedIs DEF Along

ListIsAlong == Along(next, Listed)

LEMMA AlongListed == TypeInv /\ QueueInv => ListIsAlong
BY ListedAlong DEF ListIsAlong

LEMMA AlongIsListed ==
  ASSUME TypeInv', QueueInv', NEW s, Along(next', s)
  PROVE  Listed' = s
<1>1. (TypeInv /\ QueueInv => ListIsAlong)'
  BY AlongListed, PTL
<1>2. Along(next', Listed')
  BY <1>1 DEF ListIsAlong
<1> QED
  BY <1>2, AlongUnique

\* A sequence without one of its elements.
LEMMA RemoveAtElements ==
  ASSUME NEW T, NEW s \in Seq(T), NEW i \in 1..Len(s)
  PROVE  /\ RemoveAt(s, i) \in Seq(T) /\ Len(RemoveAt(s, i)) = Len(s) - 1
         /\ \A j \in 1..(Len(s) - 1) : RemoveAt(s, i)[j] = IF j < i THEN s[j] ELSE s[j + 1]
<1> DEFINE a == SubSeq(s, 1, i - 1)
           b == SubSeq(s, i + 1, Len(s))
<1>1. Len(s) \in Nat /\ i \in Nat /\ i >= 1 /\ i <= Len(s)
  OBVIOUS
<1>2. a \in Seq(T) /\ Len(a) = i - 1 /\ \A j \in 1..(i - 1) : a[j] = s[j]
  BY <1>1
<1>3. b \in Seq(T) /\ Len(b) = Len(s) - i /\ \A j \in 1..(Len(s) - i) : b[j] = s[i + j]
  BY <1>1
<1>4. RemoveAt(s, i) = a \o b
  BY DEF RemoveAt
<1> HIDE DEF a, b
<1>5. /\ a \o b \in Seq(T) /\ Len(a \o b) = Len(a) + Len(b)
      /\ \A j \in 1..(Len(a) + Len(b)) :
           (a \o b)[j] = IF j <= Len(a) THEN a[j] ELSE b[j - Len(a)]
  BY <1>2, <1>3, ConcatProperties, Zenon
<1>6. Len(a) + Len(b) = Len(s) - 1
  BY <1>1, <1>2, <1>3
<1>7. ASSUME NEW j \in 1..(Len(s) - 1)
      PROVE  (a \o b)[j] = IF j < i THEN s[j] ELSE s[j + 1]
  <2>1. CASE j < i
    BY <2>1, <1>1, <1>2, <1>5, <1>6
  <2>2. CASE ~(j < i)
    <3>1. j - Len(a) \in 1..(Len(s) - i) /\ ~(j <= Len(a)) /\ i + (j - Len(a)) = j + 1
      BY <2>2, <1>1, <1>2
    <3> QED
      BY <2>2, <3>1, <1>3, <1>5, <1>6
  <2> QED
    BY <2>1, <2>2
<1> QED
  BY <1>4, <1>5, <1>6, <1>7

\* What shm_list_delete and shm_list_add_tail make of the sequence.
LEMMA ListedRemove ==
  ASSUME TypeInv, QueueInv, TypeInv', QueueInv', NEW i \in 1..Len(Listed), ListDelete(Listed[i])
  PROVE  Listed' = RemoveAt(Listed, i)
<1>1. PICK l : l = Listed
  OBVIOUS
<1>2. Along(next, l) /\ ToSet(l) = Members /\ \A x, y \in 1..Len(l) : l[x] = l[y] => x = y
  BY <1>1, ListedAlong
<1>3. l \in Seq(Cells) /\ Len(l) \in Nat /\ i \in 1..Len(l) /\ ListDelete(l[i])
  BY <1>1, <1>2 DEF Along
<1> DEFINE c == l[i]
           n == Len(l)
           p == IF i = 1 THEN ListHead ELSE l[i - 1]
<1>4. c \in Members /\ c \in Cells /\ \A x \in 1..n : l[x] \in Members /\ l[x] \in Cells
  BY <1>2, <1>3 DEF ToSet
<1>5. p \in Cells \cup {ListHead} /\ next[p] = c /\ prev[c] = p
  <2>1. CASE i = 1
    <3>1. next[ListHead] = c
      BY <1>2, <1>3, <2>1 DEF Along
    <3> QED
      BY <2>1, <3>1 DEF QueueInv
  <2>2. CASE i # 1
    <3>1. i - 1 \in 1..n /\ i - 1 # n /\ (i - 1) + 1 = i
      BY <1>3, <2>2
    <3>2. next[l[i - 1]] = c
      BY <1>2, <3>1 DEF Along
    <3> QED
      BY <1>4, <2>2, <3>1, <3>2 DEF QueueInv
  <2> QED
    BY <2>1, <2>2
<1>6. next' = [next EXCEPT ![p] = next[c], ![c] = c]
  BY <1>3, <1>4, <1>5, DeleteFromList DEF ListDelete
<1>7. next \in [Cells \cup {ListHead} -> Cells \cup {ListHead}]
  BY DEF TypeInv
<1>8. \A x \in Cells \cup {ListHead} :
        next'[x] = IF x = c THEN c ELSE IF x = p THEN next[c] ELSE next[x]
  BY <1>4, <1>5, <1>6, <1>7
<1>9. /\ RemoveAt(l, i) \in Seq(Cells) /\ Len(RemoveAt(l, i)) = n - 1
      /\ \A j \in 1..(n - 1) : RemoveAt(l, i)[j] = IF j < i THEN l[j] ELSE l[j + 1]
  BY <1>3, RemoveAtElements
<1>10. next[c] = IF i = n THEN ListHead ELSE l[i + 1]
  BY <1>2, <1>3 DEF Along
<1>11. PICK t : t = RemoveAt(l, i)
  OBVIOUS
<1>12. next'[ListHead] = IF t = <<>> THEN ListHead ELSE t[1]
  <2>1. t = <<>> <=> n = 1
    BY <1>3, <1>9, <1>11
  <2>2. CASE i = 1
    <3>1. next'[ListHead] = next[c]
      BY <1>4, <1>8, <2>2, HeadIsNoCell
    <3>2. n # 1 => t[1] = l[2]
      BY <1>3, <1>9, <1>11, <2>2
    <3> QED
      BY <1>3, <1>10, <2>1, <2>2, <3>1, <3>2
  <2>3. CASE i # 1
    <3>1. p \in Cells
      BY <1>3, <1>4, <2>3
    <3>2. next'[ListHead] = next[ListHead] /\ n # 1
      BY <1>3, <1>4, <1>8, <2>3, <3>1, HeadIsNoCell
    <3>3. t[1] = l[1] /\ l # <<>>
      BY <1>3, <1>9, <1>11, <2>3
    <3> QED
      BY <1>2, <2>1, <3>2, <3>3 DEF Along
  <2> QED
    BY <2>2, <2>3
<1>13. ASSUME NEW j \in 1..(n - 1)
       PROVE  next'[t[j]] = IF j = n - 1 THEN ListHead ELSE t[j + 1]
  <2>1. \A x \in 1..n : next[l[x]] = IF x = n THEN ListHead ELSE l[x + 1]
    BY <1>2 DEF Along
  <2>2. j # n - 1 => t[j + 1] = IF j + 1 < i THEN l[j + 1] ELSE l[j + 2]
    <3>1. j # n - 1 => j + 1 \in 1..(n - 1) /\ (j + 1) + 1 = j + 2
      BY <1>3
    <3> QED
      BY <1>9, <1>11, <3>1
  <2>3. CASE j + 1 < i
    <3>1. t[j] = l[j] /\ j \in 1..n /\ j # n /\ j # n - 1 /\ j # i /\ j # i - 1
      BY <1>3, <1>9, <1>11, <2>3
    <3>2. l[j] # c /\ l[j] # p /\ l[j] \in Cells
      <4>1. i # 1 /\ i - 1 \in 1..n
        BY <1>3, <2>3
      <4> QED
        BY <1>2, <1>3, <1>4, <3>1, <4>1
    <3>3. next'[t[j]] = next[l[j]]
      BY <1>8, <3>1, <3>2
    <3> QED
      BY <2>1, <2>2, <2>3, <3>1, <3>3
  <2>4. CASE j + 1 = i
    <3>1. t[j] = l[j] /\ j \in 1..n /\ p = l[j] /\ j # i /\ i # 1
      BY <1>3, <1>9, <1>11, <2>4
    <3>2. l[j] # c /\ l[j] \in Cells
      BY <1>2, <1>3, <1>4, <3>1
    <3>3. next'[t[j]] = next[c]
      BY <1>8, <3>1, <3>2
    <3>4. (i = n <=> j = n - 1) /\ ~(j + 1 < i) /\ j + 2 = i + 1
      BY <1>3, <2>4
    <3> QED
      BY <1>10, <2>2, <3>3, <3>4
  <2>5. CASE j + 1 > i
    <3>1. t[j] = l[j + 1] /\ j + 1 \in 1..n /\ j + 1 # i /\ (j + 1) + 1 = j + 2
      BY <1>3, <1>9, <1>11, <2>5
    <3>2. l[j + 1] # c /\ l[j + 1] # p /\ l[j + 1] \in Cells
      <4>1. l[j + 1] # c /\ l[j + 1] \in Cells
        BY <1>2, <1>3, <1>4, <3>1
      <4>2. i # 1 => i - 1 \in 1..n /\ i - 1 # j + 1
        BY <1>3, <2>5
      <4> QED
        BY <1>2, <3>1, <4>1, <4>2, HeadIsNoCell
    <3>3. next'[t[j]] = next[l[j + 1]]
      BY <1>8, <3>1, <3>2
    <3>4. (j + 1 = n <=> j = n - 1) /\ ~(j + 1 < i)
      BY <1>3, <2>5
    <3> QED
      BY <2>1, <2>2, <3>1, <3>3, <3>4
  <2> QED
    BY <1>3, <2>3, <2>4, <2>5
<1>14. Along(next', t)
  <2>1. Len(t) = n - 1 /\ t \in Seq(Cells)
    BY <1>9, <1>11
  <2> QED
    BY <1>12, <1>13, <2>1 DEF Along
<1> QED
  BY <1>1, <1>11, <1>14, AlongIsListed

LEMMA ListedAppend ==
  ASSUME TypeInv, QueueInv, TypeInv', QueueInv', NEW c \in Cells \ Members, ListAddTail(c)
  PROVE  Listed' = Append(Listed, c)
<1>1. PICK l : l = Listed
  OBVIOUS
<1>2. Along(next, l) /\ ToSet(l) = Members /\ \A x, y \in 1..Len(l) : l[x] = l[y] => x = y
  BY <1>1, ListedAlong
<1>3. l \in Seq(Cells) /\ Len(l) \in Nat
  BY <1>2 DEF Along
<1> DEFINE n == Len(l)
           p == IF n = 0 THEN ListHead ELSE l[n]
<1>4. \A x \in 1..n : l[x] \in Members /\ l[x] \in Cells
  BY <1>2, <1>3 DEF ToSet
<1>5. p \in Cells \cup {ListHead} /\ prev[ListHead] = p
  <2>1. CASE n = 0
    <3>1. next[ListHead] = ListHead
      BY <1>2, <1>3, <2>1 DEF Along
    <3> QED
      BY <2>1, <3>1 DEF QueueInv
  <2>2. CASE n # 0
    <3>1. n \in 1..n
      BY <1>3, <2>2
    <3>2. next[l[n]] = ListHead
      BY <1>2, <3>1 DEF Along
    <3> QED
      BY <1>4, <2>2, <3>1, <3>2 DEF QueueInv
  <2> QED
    BY <2>1, <2>2
<1>6. next' = [next EXCEPT ![c] = ListHead, ![p] = c]
  BY <1>5 DEF ListAddTail
<1>7. next \in [Cells \cup {ListHead} -> Cells \cup {ListHead}]
  BY DEF TypeInv
<1>8. c # p
  BY <1>3, <1>4, HeadIsNoCell
<1>9. \A x \in Cells \cup {ListHead} :
        next'[x] = IF x = p THEN c ELSE IF x = c THEN ListHead ELSE next[x]
  BY <1>5, <1>6, <1>7, <1>8
<1>10. PICK t : t = Append(l, c)
  OBVIOUS
<1>11. t \in Seq(Cells) /\ Len(t) = n + 1 /\ t[n + 1] = c /\ \A x \in 1..n : t[x] = l[x]
  BY <1>3, <1>10
<1>12. next'[ListHead] = IF t = <<>> THEN ListHead ELSE t[1]
  <2>1. t # <<>>
    BY <1>3, <1>11
  <2>2. CASE n = 0
    BY <1>9, <1>11, <2>1, <2>2
  <2>3. CASE n # 0
    <3>1. p \in Cells /\ 1 \in 1..n /\ l # <<>>
      BY <1>3, <1>4, <2>3
    <3>2. next'[ListHead] = next[ListHead]
      BY <1>9, <3>1, HeadIsNoCell
    <3> QED
      BY <1>2, <1>11, <2>1, <3>1, <3>2 DEF Along
  <2> QED
    BY <2>2, <2>3
<1>13. ASSUME NEW j \in 1..(n + 1)
       PROVE  next'[t[j]] = IF j = n + 1 THEN ListHead ELSE t[j + 1]
  <2>1. CASE j = n + 1
    BY <1>8, <1>9, <1>11, <2>1
  <2>2. CASE j = n
    <3>1. t[j] = p /\ j # n + 1
      BY <1>3, <1>11, <2>2
    <3> QED
      BY <1>5, <1>9, <1>11, <2>2, <3>1
  <2>3. CASE j # n /\ j # n + 1
    <3>1. j \in 1..n /\ j + 1 \in 1..n /\ n \in 1..n /\ n # 0
      BY <1>3, <2>3
    <3>2. t[j] = l[j] /\ t[j + 1] = l[j + 1] /\ l[j] # p /\ l[j] # c /\ l[j] \in Cells
      BY <1>2, <1>4, <1>11, <2>3, <3>1
    <3>3. next[l[j]] = l[j + 1]
      BY <1>2, <2>3, <3>1 DEF Along
    <3> QED
      BY <1>9, <2>3, <3>2, <3>3
  <2> QED
    BY <2>1, <2>2, <2>3
<1>14. Along(next', t)
  BY <1>11, <1>12, <1>13 DEF Along
<1> QED
  BY <1>1, <1>10, <1>14, AlongIsListed

LEMMA NoConfigIs == NoConfig \in Configs
BY TableAssumption DEF NoConfig

LEMMA ServeInit == Init => ServeInv
BY NoConfigIs DEF Init, ServeInv, Recycling

\* Steps after which nothing is claimed but what the operation is.
LEMMA FinishServes ==
  ASSUME Finish
  PROVE  ServeInv'
BY NoConfigIs DEF Finish, LeaveLoop, Goto, ServeInv, Recycling

LEMMA SetServes ==
  ASSUME NEW k \in Keys, Set(k)
  PROVE  ServeInv'
<1>1. /\ config' \in Configs /\ pc' \in {"alloc", "recycleKey"} /\ next' = next
      /\ pc' = "recycleKey" => at' = next[ListHead]
  BY DEF Set, EnterLoop, Goto, table
<1> QED
  BY <1>1 DEF ServeInv, Recycling

LEMMA UnlinkServes ==
  ASSUME WriterInv, NEW c \in Members, Unlink(c)
  PROVE  pc' = "freeEntry" /\ old' = c /\ \A x \in Cells : cell'[x].expired = cell[x].expired
<1>1. pc' = "freeEntry" /\ old' = c
  BY DEF Unlink, Goto
<1>2. cell' = [p \in Cells |-> IF p \in Previous(BucketOf[cell[c].key], c)
                               THEN [cell[p] EXCEPT !.next = cell[c].next] ELSE cell[p]]
  BY DEF Unlink, PointTo
<1>3. \A x \in Cells : cell[x] \in [key : Keys \cup {NoKey}, data : Keys \cup {NoKey},
                                    expired : BOOLEAN, next : Cells \cup {Nil}]
  BY DEF WriterInv, TypeInv
<1> QED
  BY <1>1, <1>2, <1>3

LEMMA DeleteServes ==
  ASSUME ServeInv, NEW k \in Keys, Delete(k)
  PROVE  ServeInv'
<1>1. pc' = "freeEntry" /\ op' = "delete" /\ config' = config
  BY DEF Delete, Acquire, Unlink, Goto
<1> QED
  BY <1>1 DEF ServeInv, Recycling

LEMMA RecycleServes ==
  ASSUME WriterInv, ServeInv, Recycle
  PROVE  ServeInv'
<1>1. /\ pc \in {"recycleKey", "recycleMem"} /\ at # ListHead /\ MayRecycle(at) /\ at' = next[at]
      /\ Unlink(at) /\ op' = pc /\ next' = next /\ config' = config
  BY DEF Recycle, Recycling
<1>2. at \in Members /\ at \in Cells
  BY <1>1, MembersFacts DEF WriterInv, ListInv
<1>3. pc' = "freeEntry" /\ old' = at /\ cell'[at].expired = cell[at].expired
  BY <1>1, <1>2, UnlinkServes
<1>4. config \in Configs /\ (config.valid => at = next[ListHead])
  BY <1>1 DEF ServeInv, Recycling
<1> QED
  BY <1>1, <1>3, <1>4 DEF ServeInv, Recycling, MayRecycle

LEMMA RecycledServes ==
  ASSUME WriterInv, ServeInv, Recycled
  PROVE  ServeInv'
<1>1. /\ pc = "freeEntry" /\ op \in {"recycleKey", "recycleMem"} /\ FreeEntry(old)
      /\ pc' \in {"sleepAlloc", "alloc", "recycleKey", "recycleMem"} /\ at' = at /\ config' = config
  BY DEF Recycled, Goto, FallAsleep
<1>2. TypeInv /\ QueueInv /\ AgreeInv
  BY <1>1 DEF WriterInv, ListInv, TableInv
<1>3. old \in Members /\ old \in Cells
  BY <1>1, <1>2, MembersFacts DEF AgreeInv
<1>4. next[old] # old /\ ListDelete(old)
  BY <1>1, <1>2, <1>3, DeleteFromList DEF FreeEntry
<1>5. next' = [next EXCEPT ![prev[old]] = next[old], ![old] = old]
  BY <1>4 DEF ListDelete
<1>6. ASSUME config.valid PROVE at = next'[ListHead]
  <2>1. next[ListHead] = old /\ at = next[old]
    BY <1>1, <1>6 DEF ServeInv
  <2>2. prev[old] = ListHead
    BY <1>2, <2>1 DEF QueueInv
  <2> QED
    BY <1>2, <1>3, <1>5, <2>1, <2>2, HeadIsNoCell DEF TypeInv
<1> QED
  BY <1>1, <1>6 DEF ServeInv, Recycling

LEMMA AwakeServes ==
  ASSUME ServeInv, Awake
  PROVE  ServeInv'
<1>1. CASE pc = "sleepAlloc"
  <2>1. pc' = "alloc" /\ config' = config
    BY <1>1 DEF Awake, Goto
  <2> QED
    BY <2>1 DEF ServeInv, Recycling
<1>2. CASE pc # "sleepAlloc"
  BY <1>2, FinishServes DEF Awake
<1> QED
  BY <1>1, <1>2

LEMMA StoreServes ==
  ASSUME WriterInv, ServeInv, Alloc \/ NoRoom \/ FreeOld \/ StoreKey \/ StoreValue
  PROVE  ServeInv'
<1>1. CASE Alloc
  <2>1. pc' \in {"freeOld", "storeKey"} /\ config' = NoConfig
    BY <1>1 DEF Alloc, Goto, LeaveLoop
  <2> QED
    BY <2>1, NoConfigIs DEF ServeInv, Recycling
<1>2. CASE NoRoom
  <2>1. pc' = "recycleMem" /\ config' = config /\ at' = next[ListHead] /\ next' = next
    BY <1>2 DEF NoRoom, EnterLoop, Goto, table
  <2> QED
    BY <2>1 DEF ServeInv, Recycling
<1>3. CASE FreeOld
  <2>1. pc' = "storeKey" /\ config' = config
    BY <1>3 DEF FreeOld, Goto
  <2> QED
    BY <2>1 DEF ServeInv, Recycling
<1>4. CASE StoreKey \/ StoreValue
  <2>1. new \in Cells /\ cell[new] \in [key : Keys \cup {NoKey}, data : Keys \cup {NoKey},
                                        expired : BOOLEAN, next : Cells \cup {Nil}]
    BY <1>4 DEF WriterInv, TypeInv, StepInv, Storing, StoreKey, StoreValue
  <2>2. CASE StoreKey
    <3>1. pc' = "storeValue" /\ config' = config /\ new' = new /\ key' = key
      BY <2>2 DEF StoreKey, Goto
    <3>2. cell'[new].key = key
      BY <2>1, <2>2 DEF StoreKey, WriterInv, TypeInv
    <3> QED
      BY <3>1, <3>2 DEF ServeInv, Recycling
  <2>3. CASE StoreValue
    <3>1. pc' = "link" /\ config' = config /\ new' = new /\ key' = key /\ cell[new].key = key
      BY <2>3 DEF StoreValue, Goto, ServeInv
    <3>2. cell'[new].key = cell[new].key /\ cell'[new].expired = FALSE
      BY <2>1, <2>3 DEF StoreValue, WriterInv, TypeInv
    <3> QED
      BY <3>1, <3>2 DEF ServeInv, Recycling
  <2> QED
    BY <1>4, <2>2, <2>3
<1> QED
  BY <1>1, <1>2, <1>3, <1>4

LEMMA LinkServes ==
  ASSUME WriterInv, ServeInv, Link
  PROVE  ServeInv'
<1>1. pc = "link" /\ pc' = "append" /\ config' = config /\ new' = new /\ key' = key
  BY DEF Link, Goto
<1>2. new \in Cells /\ cell[new].key = key /\ ~cell[new].expired
  BY <1>1 DEF WriterInv, StepInv, Storing, ServeInv
<1>3. cell' = [p \in Cells |-> IF p \in Previous(BucketOf[key], old)
                               THEN [cell[p] EXCEPT !.next = new] ELSE cell[p]]
  BY DEF Link, PointTo
<1>4. cell[new] \in [key : Keys \cup {NoKey}, data : Keys \cup {NoKey},
                     expired : BOOLEAN, next : Cells \cup {Nil}]
  BY <1>2 DEF WriterInv, TypeInv
<1>5. cell'[new].key = cell[new].key /\ cell'[new].expired = cell[new].expired
  BY <1>2, <1>3, <1>4
<1> QED
  BY <1>1, <1>2, <1>5 DEF ServeInv, Recycling

LEMMA ClearServes ==
  ASSUME ServeInv, Clear \/ Recover
  PROVE  ServeInv'
<1>1. pc' = "sleepEnd" /\ config' = config /\ op' \in {"clear", "none"}
  BY DEF Clear, Recover, Acquire, FallAsleep, Goto, ServeInv
<1> QED
  BY <1>1 DEF ServeInv, Recycling

LEMMA CrashServes ==
  ASSUME Crash
  PROVE  ServeInv'
BY NoConfigIs DEF Crash, Goto, LeaveLoop, ServeInv, Recycling

LEMMA ServeStep ==
  ASSUME WriterInv, ServeInv, [Next]_vars
  PROVE  ServeInv'
<1>1. CASE \E k \in Keys : Set(k) \/ Delete(k)
  BY <1>1, SetServes, DeleteServes
<1>2. CASE Clear
  BY <1>2, ClearServes
<1>3. CASE Writing
  <2>1. CASE Deleted \/ RecycleFails \/ AppendEntry
    BY <2>1, FinishServes DEF Deleted, RecycleFails, AppendEntry
  <2>2. CASE Skip
    <3>1. /\ Recycling /\ ~config.valid /\ UNCHANGED <<pc, op, config>>
      BY <2>2 DEF Skip, MayRecycle
    <3> QED
      BY <3>1 DEF ServeInv, Recycling
  <2> QED
    BY <1>3, <2>1, <2>2, RecycleServes, RecycledServes, AwakeServes, StoreServes, LinkServes, ClearServes
    DEF Writing
<1>4. CASE Crash
  BY <1>4, CrashServes
<1>5. CASE \E c \in Cells : Expire(c)
  <2>1. pc = "idle" /\ UNCHANGED <<pc, op, config>>
    BY <1>5 DEF Expire, writer
  <2> QED
    BY <2>1 DEF ServeInv, Recycling
<1>6. CASE UNCHANGED <<cell, next, pc, op, key, config, new, old, at>>
  BY <1>6 DEF ServeInv, Recycling
<1>7. CASE \E r \in Readers, k \in Keys, l \in WithinLock : BeginGet(r, k, l)
  BY <1>6, <1>7 DEF BeginGet, table, loop
<1>8. CASE \E r \in Readers, d \in Dumps, l \in WithinLock : BeginDump(r, d, l)
  BY <1>6, <1>8 DEF BeginDump, table, loop
<1>9. CASE \E r \in Readers : Reading(r)
  BY <1>6, <1>9 DEF Reading, Compare, Advance, Miss, TimedOut, ReturnExpired, Found, Use, Examine,
     CopyRow, EndDump, Stray, table, loop, writer
<1>10. CASE UNCHANGED vars
  BY <1>6, <1>10 DEF vars, table, loop, writer
<1> QED
  BY <1>1, <1>2, <1>3, <1>4, <1>5, <1>7, <1>8, <1>9, <1>10 DEF Next

\* What a client sees of a sequence of cells.
ItemIn(ce, c) == [key |-> ce[c].key, val |-> 1, exp |-> IF ce[c].expired THEN -1 ELSE 0]
ItemsIn(ce, l) == [i \in 1..Len(l) |-> ItemIn(ce, l[i])]
ItemType == [key : Keys \cup {NoKey}, val : {1}, exp : {-1, 0}]
CellType == [key : Keys \cup {NoKey}, data : Keys \cup {NoKey}, expired : BOOLEAN, next : Cells \cup {Nil}]

LEMMA ItemFacts ==
  ASSUME NEW ce \in [Cells -> CellType], NEW c \in Cells
  PROVE  ItemIn(ce, c) \in ItemType /\ ItemIn(ce, c).key = ce[c].key
         /\ ItemIn(ce, c).exp = (IF ce[c].expired THEN -1 ELSE 0)
<1>1. ce[c].key \in Keys \cup {NoKey}
  BY DEF CellType
<1> QED
  BY <1>1 DEF ItemIn, ItemType

LEMMA ItemsFacts ==
  ASSUME NEW ce \in [Cells -> CellType], NEW l \in Seq(Cells)
  PROVE  /\ ItemsIn(ce, l) \in Seq(ItemType) /\ Len(ItemsIn(ce, l)) = Len(l)
         /\ \A i \in 1..Len(l) : ItemsIn(ce, l)[i] = ItemIn(ce, l[i])
<1>1. \A i \in 1..Len(l) : ItemIn(ce, l[i]) \in ItemType
  BY ItemFacts
<1> QED
  BY <1>1 DEF ItemsIn

LEMMA ItemsSame ==
  ASSUME NEW ce, NEW cf, NEW l \in Seq(Cells),
         \A i \in 1..Len(l) : ce[l[i]].key = cf[l[i]].key /\ ce[l[i]].expired = cf[l[i]].expired
  PROVE  ItemsIn(ce, l) = ItemsIn(cf, l)
<1>1. \A i \in 1..Len(l) : ItemIn(ce, l[i]) = ItemIn(cf, l[i])
  BY DEF ItemIn
<1> QED
  BY <1>1 DEF ItemsIn

LEMMA ItemsRemove ==
  ASSUME NEW ce \in [Cells -> CellType], NEW l \in Seq(Cells), NEW i \in 1..Len(l)
  PROVE  ItemsIn(ce, RemoveAt(l, i)) = RemoveAt(ItemsIn(ce, l), i)
<1>1. /\ RemoveAt(l, i) \in Seq(Cells) /\ Len(RemoveAt(l, i)) = Len(l) - 1
      /\ \A j \in 1..(Len(l) - 1) : RemoveAt(l, i)[j] = IF j < i THEN l[j] ELSE l[j + 1]
  BY RemoveAtElements
<1>2. /\ ItemsIn(ce, l) \in Seq(ItemType) /\ Len(ItemsIn(ce, l)) = Len(l)
      /\ \A j \in 1..Len(l) : ItemsIn(ce, l)[j] = ItemIn(ce, l[j])
  BY ItemsFacts
<1> DEFINE s == ItemsIn(ce, RemoveAt(l, i))
           t == RemoveAt(ItemsIn(ce, l), i)
<1>3. /\ t \in Seq(ItemType) /\ Len(t) = Len(l) - 1
      /\ \A j \in 1..(Len(l) - 1) : t[j] = IF j < i THEN ItemsIn(ce, l)[j] ELSE ItemsIn(ce, l)[j + 1]
  BY <1>2, RemoveAtElements
<1>4. /\ s \in Seq(ItemType) /\ Len(s) = Len(l) - 1
      /\ \A j \in 1..(Len(l) - 1) : s[j] = ItemIn(ce, RemoveAt(l, i)[j])
  BY <1>1, ItemsFacts
<1> HIDE DEF s, t
<1>5. ASSUME NEW j \in 1..(Len(l) - 1) PROVE s[j] = t[j]
  <2>1. j \in 1..Len(l) /\ j + 1 \in 1..Len(l)
    OBVIOUS
  <2> QED
    BY <1>1, <1>2, <1>3, <1>4, <2>1
<1>6. s = t
  <2>1. Len(s) = Len(t) /\ \A j \in 1..Len(s) : s[j] = t[j]
    BY <1>3, <1>4, <1>5
  <2>2. s \in Seq(ItemType) /\ t \in Seq(ItemType)
    BY <1>3, <1>4
  <2> QED
    BY <2>1, <2>2, SeqEqual, Zenon
<1> QED
  BY <1>6 DEF s, t

LEMMA ItemsAppend ==
  ASSUME NEW ce \in [Cells -> CellType], NEW l \in Seq(Cells), NEW c \in Cells
  PROVE  ItemsIn(ce, Append(l, c)) = Append(ItemsIn(ce, l), ItemIn(ce, c))
<1>1. /\ Append(l, c) \in Seq(Cells) /\ Len(Append(l, c)) = Len(l) + 1
      /\ \A j \in 1..(Len(l) + 1) : Append(l, c)[j] = IF j = Len(l) + 1 THEN c ELSE l[j]
  OBVIOUS
<1>2. /\ ItemsIn(ce, l) \in Seq(ItemType) /\ Len(ItemsIn(ce, l)) = Len(l)
      /\ \A j \in 1..Len(l) : ItemsIn(ce, l)[j] = ItemIn(ce, l[j])
  BY ItemsFacts
<1>3. ItemIn(ce, c) \in ItemType
  BY ItemFacts
<1> DEFINE s == ItemsIn(ce, Append(l, c))
           t == Append(ItemsIn(ce, l), ItemIn(ce, c))
<1>4. /\ t \in Seq(ItemType) /\ Len(t) = Len(l) + 1
      /\ \A j \in 1..(Len(l) + 1) : t[j] = IF j = Len(l) + 1 THEN ItemIn(ce, c) ELSE ItemsIn(ce, l)[j]
  BY <1>2, <1>3
<1>5. /\ s \in Seq(ItemType) /\ Len(s) = Len(l) + 1
      /\ \A j \in 1..(Len(l) + 1) : s[j] = ItemIn(ce, Append(l, c)[j])
  BY <1>1, ItemsFacts
<1> HIDE DEF s, t
<1>6. ASSUME NEW j \in 1..(Len(l) + 1) PROVE s[j] = t[j]
  <2>1. j # Len(l) + 1 => j \in 1..Len(l)
    OBVIOUS
  <2> QED
    BY <1>1, <1>2, <1>4, <1>5, <2>1
<1>7. s = t
  <2>1. Len(s) = Len(t) /\ \A j \in 1..Len(s) : s[j] = t[j]
    BY <1>4, <1>5, <1>6
  <2>2. s \in Seq(ItemType) /\ t \in Seq(ItemType)
    BY <1>4, <1>5
  <2> QED
    BY <2>1, <2>2, SeqEqual, Zenon
<1> QED
  BY <1>7 DEF s, t

\* The entries in the order of the list, as the refinement mapping has them.
Stored == ItemsIn(cell, Listed)
FifoNow == IF pc = "crashed" THEN <<>>
           ELSE Items(Listed) \o (IF Committed THEN <<ItemSet>> ELSE <<>>)
RequestNow == IF op \in {"set", "recycleKey", "recycleMem"} /\ ~Committed THEN <<ItemSet>> ELSE <<>>

FifoIsStored ==
  /\ Stored \in Seq(ItemType) /\ Len(Stored) = Len(Listed) /\ Listed \in Seq(Cells)
  /\ FifoNow = IF pc = "crashed" THEN <<>> ELSE IF Committed THEN Append(Stored, ItemSet) ELSE Stored

LEMMA FifoIs == WriterInv => FifoIsStored
<1> SUFFICES ASSUME WriterInv PROVE FifoIsStored
  OBVIOUS
<1>1. cell \in [Cells -> CellType] /\ Listed \in Seq(Cells)
  BY ListedIs DEF WriterInv, TypeInv, ListInv, CellType
<1>2. Stored \in Seq(ItemType) /\ Len(Stored) = Len(Listed)
  BY <1>1, ItemsFacts DEF Stored
<1>3. Items(Listed) = Stored
  <2>1. DOMAIN Listed = 1..Len(Listed)
    BY <1>1
  <2> QED
    BY <2>1 DEF Items, Item, Stored, ItemsIn, ItemIn
<1>4. Stored \o <<>> = Stored
  BY <1>2
<1>5. Stored \o <<ItemSet>> = Append(Stored, ItemSet)
  BY <1>2
<1> QED
  BY <1>1, <1>2, <1>3, <1>4, <1>5 DEF FifoIsStored, FifoNow

LEMMA StoredKept ==
  ASSUME WriterInv, WriterInv', next' = next,
         \A c \in Members : cell'[c].key = cell[c].key /\ cell'[c].expired = cell[c].expired
  PROVE  Stored' = Stored
<1>1. Listed \in Seq(Cells) /\ ToSet(Listed) = Members
  BY ListedIs DEF WriterInv, ListInv
<1>2. Listed' = Listed
  BY DEF Listed
<1>3. \A i \in 1..Len(Listed) : Listed[i] \in Members
  BY <1>1 DEF ToSet
<1>4. ItemsIn(cell', Listed) = ItemsIn(cell, Listed)
  BY <1>1, <1>3, ItemsSame
<1> QED
  BY <1>2, <1>4 DEF Stored

LEMMA StoredFreed ==
  ASSUME WriterInv, WriterInv', NEW c \in Members, FreeEntry(c)
  PROVE  \E i \in 1..Len(Stored) :
           /\ Stored[i] = ItemIn(cell, c) /\ Stored' = RemoveAt(Stored, i)
           /\ next[ListHead] = c => i = 1
<1>1. TypeInv /\ QueueInv /\ TypeInv' /\ QueueInv'
  BY DEF WriterInv, ListInv
<1>2. /\ Listed \in Seq(Cells) /\ ToSet(Listed) = Members /\ Along(next, Listed)
      /\ \A i, j \in 1..Len(Listed) : Listed[i] = Listed[j] => i = j
  BY <1>1, ListedAlong DEF Along
<1>3. PICK i \in 1..Len(Listed) : Listed[i] = c
  BY <1>2 DEF ToSet
<1>4. ListDelete(Listed[i]) /\ cell' = [cell EXCEPT ![c].next = Nil]
  BY <1>3 DEF FreeEntry
<1>5. Listed' = RemoveAt(Listed, i)
  BY <1>1, <1>4, ListedRemove
<1>6. cell \in [Cells -> CellType] /\ cell' \in [Cells -> CellType] /\ c \in Cells
  BY <1>1, MembersFacts DEF TypeInv, CellType
<1>7. \A x \in Cells : cell'[x].key = cell[x].key /\ cell'[x].expired = cell[x].expired
  BY <1>4, <1>6 DEF CellType
<1>8. RemoveAt(Listed, i) \in Seq(Cells)
  BY <1>2, RemoveAtElements
<1>9. Stored' = ItemsIn(cell, RemoveAt(Listed, i))
  <2>1. \A j \in 1..Len(RemoveAt(Listed, i)) : RemoveAt(Listed, i)[j] \in Cells
    BY <1>8
  <2>2. ItemsIn(cell', RemoveAt(Listed, i)) = ItemsIn(cell, RemoveAt(Listed, i))
    BY <1>7, <1>8, <2>1, ItemsSame
  <2> QED
    BY <1>5, <2>2 DEF Stored
<1>10. Stored' = RemoveAt(Stored, i)
  BY <1>2, <1>6, <1>9, ItemsRemove DEF Stored
<1>11. Len(Stored) = Len(Listed) /\ Stored[i] = ItemIn(cell, c)
  BY <1>2, <1>3, <1>6, ItemsFacts DEF Stored
<1>12. next[ListHead] = c => i = 1
  <2>1. next[ListHead] = Listed[1] /\ 1 \in 1..Len(Listed)
    BY <1>2, <1>3 DEF Along
  <2> QED
    BY <1>2, <1>3, <2>1
<1> QED
  BY <1>10, <1>11, <1>12

LEMMA StoredAppend ==
  ASSUME WriterInv, WriterInv', NEW c \in Cells \ Members, ListAddTail(c), cell' = cell
  PROVE  Stored' = Append(Stored, ItemIn(cell, c))
<1>1. TypeInv /\ QueueInv /\ TypeInv' /\ QueueInv'
  BY DEF WriterInv, ListInv
<1>2. Listed \in Seq(Cells) /\ cell \in [Cells -> CellType]
  BY <1>1, ListedIs DEF TypeInv, CellType
<1>3. Listed' = Append(Listed, c)
  BY <1>1, ListedAppend
<1> QED
  BY <1>2, <1>3, ItemsAppend DEF Stored

LEMMA StoredCleared ==
  ASSUME WriterInv', next'[ListHead] = ListHead
  PROVE  Stored' = <<>>
<1>1. Along(next', <<>>)
  BY DEF Along
<1>2. Listed' = <<>>
  BY <1>1, AlongIsListed DEF WriterInv, ListInv
<1> QED
  BY <1>2 DEF Stored, ItemsIn
-----------------------------------------------------------------------------
\* The mapping after the step.
LEMMA FifoNext ==
  ASSUME WriterInv'
  PROVE  /\ Stored' \in Seq(ItemType)
         /\ FifoNow' = IF pc' = "crashed" THEN <<>>
                       ELSE IF Committed' THEN Append(Stored', ItemSet') ELSE Stored'
<1>1. (WriterInv => FifoIsStored)'
  BY FifoIs, PTL
<1> QED
  BY <1>1 DEF FifoIsStored

\* The steps of FifoCache under the mapping.
Same == FifoNow' = FifoNow /\ RequestNow' = RequestNow /\ (pc' = "crashed" <=> pc = "crashed")

LEMMA IsStutter == ASSUME Same PROVE UNCHANGED Fifo!vars
BY DEF Same, Fifo!vars, FifoNow, RequestNow

LEMMA RemoveAtIs == \A s, i : Fifo!RemoveAt(s, i) = RemoveAt(s, i)
BY DEF Fifo!RemoveAt, RemoveAt

LEMMA IsAsk ==
  ASSUME pc # "crashed", pc' # "crashed", RequestNow = <<>>, FifoNow' = FifoNow,
         NEW k \in Keys, RequestNow' = <<[key |-> k, val |-> 1, exp |-> 0]>>
  PROVE  Fifo!Ask
<1>1. /\ Len(RequestNow') = 1 /\ RequestNow'[1].key \in Keys /\ RequestNow'[1].val \in 1..1
  OBVIOUS
<1> QED
  BY <1>1 DEF Fifo!Ask, Fifo!Idle, FifoNow, RequestNow

LEMMA IsGiveUp ==
  ASSUME pc # "crashed", pc' # "crashed", RequestNow # <<>>, FifoNow' = FifoNow, RequestNow' = <<>>
  PROVE  Fifo!GiveUp
BY DEF Fifo!GiveUp, Fifo!Idle, FifoNow, RequestNow

LEMMA IsPut ==
  ASSUME pc # "crashed", pc' # "crashed", RequestNow # <<>>, RequestNow' = <<>>,
         \/ /\ \A i \in DOMAIN FifoNow : FifoNow[i].key # RequestNow[1].key
            /\ FifoNow' = Append(FifoNow, RequestNow[1])
         \/ \E i \in DOMAIN FifoNow :
              /\ FifoNow[i].key = RequestNow[1].key
              /\ FifoNow' = Append(RemoveAt(FifoNow, i), RequestNow[1])
  PROVE  Fifo!Put
BY RemoveAtIs DEF Fifo!Put, Fifo!Idle, FifoNow, RequestNow

LEMMA IsEvict ==
  ASSUME pc # "crashed", pc' # "crashed", RequestNow # <<>>, RequestNow' = RequestNow,
         NEW i \in DOMAIN FifoNow, FifoNow' = RemoveAt(FifoNow, i),
         FifoNow[i].exp = -1 \/ ((\E g \in Configs : g.valid) /\ i = 1)
  PROVE  Fifo!Evict
<1>1. Fifo!Expired(FifoNow[i]) \/ ((\E g \in Configs : g.valid) /\ i = 1)
  BY DEF Fifo!Expired
<1> QED
  BY <1>1, RemoveAtIs DEF Fifo!Evict, Fifo!Idle, FifoNow, RequestNow

LEMMA IsDelete ==
  ASSUME pc # "crashed", pc' # "crashed", RequestNow = <<>>, RequestNow' = <<>>,
         NEW i \in DOMAIN FifoNow, FifoNow' = RemoveAt(FifoNow, i)
  PROVE  Fifo!Delete
BY RemoveAtIs DEF Fifo!Delete, Fifo!Idle, FifoNow, RequestNow

LEMMA IsTouch ==
  ASSUME pc # "crashed", pc' # "crashed", RequestNow = <<>>, RequestNow' = <<>>,
         NEW i \in DOMAIN FifoNow, FifoNow[i].exp = 0, Len(FifoNow') = Len(FifoNow),
         FifoNow' = [FifoNow EXCEPT ![i].exp = FifoNow'[i].exp]
  PROVE  Fifo!Touch
<1>1. ~Fifo!Expired(FifoNow[i])
  BY DEF Fifo!Expired
<1> QED
  BY <1>1 DEF Fifo!Touch, Fifo!Idle, FifoNow, RequestNow

LEMMA IsClear ==
  ASSUME pc # "crashed", pc' # "crashed", RequestNow = <<>>, RequestNow' = <<>>, FifoNow' = <<>>
  PROVE  Fifo!Clear
BY DEF Fifo!Clear, Fifo!Idle, FifoNow, RequestNow

LEMMA IsCrash ==
  ASSUME pc # "crashed", pc' = "crashed", RequestNow' = <<>>
  PROVE  Fifo!Crash
BY DEF Fifo!Crash, FifoNow, RequestNow

LEMMA IsRecover ==
  ASSUME pc = "crashed", pc' # "crashed", RequestNow' = RequestNow, FifoNow' = FifoNow
  PROVE  Fifo!Recover
BY DEF Fifo!Recover, FifoNow, RequestNow

FifoStep == UNCHANGED mapped \/ Fifo!Next \/ UNCHANGED Fifo!vars

\* A step that stores links or goes on in the loop is not seen.
LEMMA Unseen ==
  ASSUME WriterInv, WriterInv', Stored' = Stored, ItemSet' = ItemSet, Committed' <=> Committed,
         pc # "crashed", pc' # "crashed", RequestNow' = RequestNow
  PROVE  FifoStep
<1>1. FifoNow' = FifoNow
  BY FifoIs, FifoNext DEF FifoIsStored
<1> QED
  BY <1>1, IsStutter DEF Same, FifoStep

LEMMA SetRefines ==
  ASSUME WriterInv, WriterInv', ServeInv, NEW k \in Keys, Set(k)
  PROVE  FifoStep
<1>1. /\ lock = "free" /\ op' = "set" /\ key' = k /\ pc' \in {"alloc", "recycleKey"}
      /\ next' = next /\ cell' = cell
  BY DEF Set, Acquire, EnterLoop, Goto, table
<1>2. pc = "idle" /\ op = "none"
  BY <1>1 DEF WriterInv, LockInv, ServeInv
<1>3. ~Committed /\ ~Committed'
  BY <1>1, <1>2 DEF Committed
<1>4. Stored' = Stored
  BY <1>1, StoredKept
<1>5. FifoNow' = FifoNow
  BY <1>1, <1>2, <1>3, <1>4, FifoIs, FifoNext DEF FifoIsStored
<1>6. RequestNow = <<>> /\ RequestNow' = <<[key |-> k, val |-> 1, exp |-> 0]>>
  BY <1>1, <1>2, <1>3 DEF RequestNow, ItemSet
<1>7. Fifo!Ask
  BY <1>1, <1>2, <1>5, <1>6, IsAsk
<1> QED
  BY <1>7 DEF FifoStep, Fifo!Next

LEMMA UnlinkKeeps ==
  ASSUME WriterInv, WriterInv', NEW c \in Members, Unlink(c), next' = next
  PROVE  Stored' = Stored
<1>1. cell' = [p \in Cells |-> IF p \in Previous(BucketOf[cell[c].key], c)
                               THEN [cell[p] EXCEPT !.next = cell[c].next] ELSE cell[p]]
  BY DEF Unlink, PointTo
<1>2. cell \in [Cells -> CellType] /\ Members \subseteq Cells
  BY MembersFacts DEF WriterInv, TypeInv, CellType
<1>3. \A x \in Members : cell'[x].key = cell[x].key /\ cell'[x].expired = cell[x].expired
  BY <1>1, <1>2 DEF CellType
<1> QED
  BY <1>3, StoredKept

LEMMA DeleteRefines ==
  ASSUME WriterInv, WriterInv', ServeInv, NEW k \in Keys, Delete(k)
  PROVE  FifoStep
<1>1. /\ lock = "free" /\ op' = "delete" /\ Unlink(EntryOf(k)) /\ pc' = "freeEntry" /\ next' = next
      /\ Holds(k) /\ old' = EntryOf(k)
  BY DEF Delete, Acquire, Unlink, Goto
<1>2. pc = "idle" /\ op = "none"
  BY <1>1 DEF WriterInv, LockInv, ServeInv
<1>3. EntryOf(k) \in Members
  BY DeleteStep
<1>4. Stored' = Stored
  BY <1>1, <1>3, UnlinkKeeps
<1>5. ~Committed /\ ~Committed' /\ RequestNow = <<>> /\ RequestNow' = <<>>
  BY <1>1, <1>2 DEF Committed, RequestNow
<1>6. FifoNow' = FifoNow
  BY <1>1, <1>2, <1>4, <1>5, FifoIs, FifoNext DEF FifoIsStored
<1> QED
  BY <1>1, <1>2, <1>5, <1>6, IsStutter DEF Same, FifoStep

LEMMA DeletedRefines ==
  ASSUME WriterInv, WriterInv', ServeInv, Deleted
  PROVE  FifoStep
<1>1. pc = "freeEntry" /\ op = "delete" /\ FreeEntry(old) /\ pc' = "idle" /\ op' = "none"
  BY DEF Deleted, Finish, Goto
<1>2. old \in Members
  BY <1>1 DEF WriterInv, TableInv, AgreeInv
<1>3. ~Committed /\ ~Committed' /\ RequestNow = <<>> /\ RequestNow' = <<>>
  BY <1>1 DEF Committed, RequestNow
<1>4. FifoNow = Stored /\ FifoNow' = Stored' /\ Stored \in Seq(ItemType)
  BY <1>1, <1>3, FifoIs, FifoNext DEF FifoIsStored
<1>5. PICK i \in 1..Len(Stored) : Stored' = RemoveAt(Stored, i)
  BY <1>1, <1>2, StoredFreed
<1>6. i \in DOMAIN FifoNow
  BY <1>4
<1>7. Fifo!Delete
  BY <1>1, <1>3, <1>4, <1>5, <1>6, IsDelete
<1> QED
  BY <1>7 DEF FifoStep, Fifo!Next

LEMMA RecycledRefines ==
  ASSUME WriterInv, WriterInv', ServeInv, Recycled
  PROVE  FifoStep
<1>1. /\ pc = "freeEntry" /\ op \in {"recycleKey", "recycleMem"} /\ FreeEntry(old) /\ op' = "set"
      /\ pc' \in {"sleepAlloc", "alloc", "recycleKey", "recycleMem"} /\ key' = key
  BY DEF Recycled, Goto, FallAsleep
<1>2. old \in Members
  BY <1>1 DEF WriterInv, TableInv, AgreeInv
<1>3. ~Committed /\ ~Committed'
  BY <1>1 DEF Committed
<1>4. RequestNow # <<>> /\ RequestNow' = RequestNow
  BY <1>1, <1>3 DEF RequestNow, ItemSet
<1>5. FifoNow = Stored /\ FifoNow' = Stored' /\ Stored \in Seq(ItemType)
  BY <1>1, <1>3, FifoIs, FifoNext DEF FifoIsStored
<1>6. PICK i \in 1..Len(Stored) : /\ Stored[i] = ItemIn(cell, old) /\ Stored' = RemoveAt(Stored, i)
                                  /\ next[ListHead] = old => i = 1
  BY <1>1, <1>2, StoredFreed
<1>7. i \in DOMAIN FifoNow
  BY <1>5
<1>8. FifoNow[i].exp = -1 \/ ((\E g \in Configs : g.valid) /\ i = 1)
  <2>1. config \in Configs /\ (IF config.valid THEN next[ListHead] = old ELSE cell[old].expired)
    BY <1>1 DEF ServeInv
  <2>2. CASE config.valid
    BY <1>6, <2>1, <2>2
  <2>3. CASE ~config.valid
    <3>1. cell \in [Cells -> CellType] /\ old \in Cells
      BY <1>2, MembersFacts DEF WriterInv, TypeInv, CellType
    <3> QED
      BY <1>5, <1>6, <2>1, <2>3, <3>1, ItemFacts
  <2> QED
    BY <2>2, <2>3
<1>9. Fifo!Evict
  BY <1>1, <1>4, <1>5, <1>6, <1>7, <1>8, IsEvict
<1> QED
  BY <1>9 DEF FifoStep, Fifo!Next

LEMMA RecycleRefines ==
  ASSUME WriterInv, WriterInv', Recycle
  PROVE  FifoStep
<1>1. /\ pc \in {"recycleKey", "recycleMem"} /\ at # ListHead /\ Unlink(at) /\ op' = pc
      /\ next' = next /\ key' = key /\ pc' = "freeEntry"
  BY DEF Recycle, Recycling, Unlink, Goto
<1>2. at \in Members /\ op = "set"
  BY <1>1 DEF WriterInv, ListInv, StepInv, Setting
<1>3. Stored' = Stored
  BY <1>1, <1>2, UnlinkKeeps
<1>4. ~Committed /\ ~Committed' /\ ItemSet' = ItemSet
  BY <1>1 DEF Committed, ItemSet
<1>5. RequestNow' = RequestNow
  BY <1>1, <1>2, <1>4 DEF RequestNow
<1> QED
  BY <1>1, <1>3, <1>4, <1>5, Unseen

LEMMA RecycleFailsRefines ==
  ASSUME WriterInv, WriterInv', RecycleFails
  PROVE  FifoStep
<1>1. /\ pc \in {"recycleKey", "recycleMem"} /\ pc' = "idle" /\ op' = "none"
      /\ next' = next /\ cell' = cell
  BY DEF RecycleFails, Recycling, Finish, Goto, table
<1>2. op = "set"
  BY <1>1 DEF WriterInv, StepInv, Setting
<1>3. Stored' = Stored
  BY <1>1, StoredKept
<1>4. ~Committed /\ ~Committed' /\ RequestNow # <<>> /\ RequestNow' = <<>>
  BY <1>1, <1>2 DEF Committed, RequestNow
<1>5. FifoNow' = FifoNow
  BY <1>1, <1>3, <1>4, FifoIs, FifoNext DEF FifoIsStored
<1>6. Fifo!GiveUp
  BY <1>1, <1>4, <1>5, IsGiveUp
<1> QED
  BY <1>6 DEF FifoStep, Fifo!Next

\* The steps that leave cells and list alone, and those of readers.
LEMMA WaitRefines ==
  ASSUME WriterInv, WriterInv', ServeInv, Skip \/ NoRoom \/ Awake
  PROVE  FifoStep
<1>1. next' = next /\ cell' = cell
  BY DEF Skip, NoRoom, Awake, table
<1>2. Stored' = Stored
  BY <1>1, StoredKept
<1>3. CASE Skip \/ NoRoom \/ pc = "sleepAlloc"
  <2>1. /\ pc \in {"recycleKey", "recycleMem", "alloc", "sleepAlloc"}
        /\ pc' \in {"recycleKey", "recycleMem", "alloc"} /\ op' = op /\ key' = key
    BY <1>3 DEF Skip, NoRoom, Awake, Recycling, EnterLoop, Goto
  <2>2. ~Committed /\ ~Committed' /\ ItemSet' = ItemSet
    BY <2>1 DEF Committed, ItemSet
  <2>3. RequestNow' = RequestNow
    BY <2>1, <2>2 DEF RequestNow
  <2> QED
    BY <1>2, <2>1, <2>2, <2>3, Unseen
<1>4. CASE Awake /\ pc # "sleepAlloc"
  <2>1. pc = "sleepEnd" /\ pc' = "idle" /\ op \in {"clear", "none"} /\ op' = "none"
    BY <1>4 DEF Awake, Finish, Goto, ServeInv
  <2>2. ~Committed /\ ~Committed' /\ RequestNow = <<>> /\ RequestNow' = <<>>
    BY <2>1 DEF Committed, RequestNow
  <2>3. FifoNow' = FifoNow
    BY <1>2, <2>1, <2>2, FifoIs, FifoNext DEF FifoIsStored
  <2> QED
    BY <2>1, <2>2, <2>3, IsStutter DEF Same, FifoStep
<1> QED
  BY <1>3, <1>4

LEMMA AllocRefines ==
  ASSUME WriterInv, WriterInv', Alloc
  PROVE  FifoStep
<1>1. /\ pc = "alloc" /\ next' = next /\ op' = op /\ key' = key
      /\ \/ pc' = "freeOld"
         \/ pc' = "storeKey" /\ old' = Nil
      /\ cell' = [cell EXCEPT ![new'].next = IF old' = Nil THEN Nil ELSE cell[old'].next]
  BY DEF Alloc, Goto, StoreNext
<1>2. cell \in [Cells -> CellType] /\ Members \subseteq Cells
  BY MembersFacts DEF WriterInv, TypeInv, CellType
<1>3. \A x \in Members : cell'[x].key = cell[x].key /\ cell'[x].expired = cell[x].expired
  BY <1>1, <1>2 DEF CellType
<1>4. Stored' = Stored
  BY <1>1, <1>3, StoredKept
<1>5. ~Committed /\ ~Committed' /\ ItemSet' = ItemSet
  BY <1>1 DEF Committed, ItemSet
<1>6. RequestNow' = RequestNow
  BY <1>1, <1>5 DEF RequestNow
<1> QED
  BY <1>1, <1>4, <1>5, <1>6, Unseen

LEMMA FreeOldRefines ==
  ASSUME WriterInv, WriterInv', FreeOld
  PROVE  FifoStep
<1>1. /\ pc = "freeOld" /\ FreeEntry(old) /\ pc' = "storeKey" /\ UNCHANGED <<op, key, old>>
  BY DEF FreeOld, Goto
<1>2. old \in Members /\ old \in Cells /\ old # Nil /\ op = "set" /\ cell[old].key = key
  <2>1. old \in Members /\ cell[old].key = key /\ op = "set" /\ old \in Cells
    BY <1>1 DEF WriterInv, StepInv, TableInv, AgreeInv, ReplaceInv, Setting, Storing
  <2> QED
    BY <2>1, NilIsNoCell
<1>3. ~Committed /\ Committed' /\ ItemSet' = ItemSet
  BY <1>1, <1>2 DEF Committed, ItemSet
<1>4. /\ RequestNow # <<>> /\ RequestNow' = <<>> /\ RequestNow[1] = ItemSet /\ RequestNow[1].key = key
  BY <1>2, <1>3 DEF RequestNow, ItemSet
<1>5. FifoNow = Stored /\ FifoNow' = Append(Stored', ItemSet) /\ Stored \in Seq(ItemType)
  BY <1>1, <1>3, FifoIs, FifoNext DEF FifoIsStored
<1>6. PICK i \in 1..Len(Stored) : Stored[i] = ItemIn(cell, old) /\ Stored' = RemoveAt(Stored, i)
  BY <1>1, <1>2, StoredFreed
<1>7. i \in DOMAIN FifoNow
  BY <1>5
<1>8. FifoNow[i].key = RequestNow[1].key
  BY <1>2, <1>4, <1>5, <1>6 DEF ItemIn
<1>9. Fifo!Put
  BY <1>1, <1>4, <1>5, <1>6, <1>7, <1>8, IsPut
<1> QED
  BY <1>9 DEF FifoStep, Fifo!Next

LEMMA StoreRefines ==
  ASSUME WriterInv, WriterInv', StoreKey \/ StoreValue \/ Link
  PROVE  FifoStep
<1>1. /\ pc \in {"storeKey", "storeValue", "link"} /\ pc' \in {"storeValue", "link", "append"}
      /\ UNCHANGED <<next, op, key, old>>
  BY DEF StoreKey, StoreValue, Link, Goto
<1>2. cell \in [Cells -> CellType] /\ Members \subseteq Cells /\ new \notin Members
  BY <1>1, MembersFacts DEF WriterInv, TypeInv, CellType, TableInv, AgreeInv, Storing
<1>3. \A x \in Members : cell'[x].key = cell[x].key /\ cell'[x].expired = cell[x].expired
  <2>1. CASE StoreKey
    BY <1>2, <2>1 DEF StoreKey, CellType
  <2>2. CASE StoreValue
    BY <1>2, <2>2 DEF StoreValue, CellType
  <2>3. CASE Link
    <3>1. cell' = [p \in Cells |-> IF p \in Previous(BucketOf[key], old)
                                   THEN [cell[p] EXCEPT !.next = new] ELSE cell[p]]
      BY <2>3 DEF Link, PointTo
    <3> QED
      BY <1>2, <3>1 DEF CellType
  <2> QED
    BY <2>1, <2>2, <2>3
<1>4. Stored' = Stored
  BY <1>1, <1>3, StoredKept
<1>5. (Committed' <=> Committed) /\ ItemSet' = ItemSet
  BY <1>1 DEF Committed, ItemSet
<1>6. RequestNow' = RequestNow
  BY <1>1, <1>5 DEF RequestNow
<1> QED
  BY <1>1, <1>4, <1>5, <1>6, Unseen

LEMMA AppendRefines ==
  ASSUME WriterInv, WriterInv', ServeInv, AppendEntry
  PROVE  FifoStep
<1>1. pc = "append" /\ ListAddTail(new) /\ pc' = "idle" /\ op' = "none" /\ cell' = cell
  BY DEF AppendEntry, Finish, Goto
<1>2. /\ new \in Cells \ Members /\ op = "set" /\ key \in Keys /\ cell[new].key = key /\ ~cell[new].expired
  BY <1>1 DEF WriterInv, StepInv, TableInv, AgreeInv, Setting, Storing, ServeInv
<1>3. ItemIn(cell, new) = ItemSet
  BY <1>2 DEF ItemIn, ItemSet
<1>4. Stored' = Append(Stored, ItemSet)
  BY <1>1, <1>2, <1>3, StoredAppend
<1>5. ~Committed' /\ RequestNow' = <<>>
  BY <1>1 DEF Committed, RequestNow
<1>6. /\ FifoNow = (IF Committed THEN Append(Stored, ItemSet) ELSE Stored) /\ FifoNow' = Stored'
      /\ Stored \in Seq(ItemType)
  BY <1>1, <1>5, FifoIs, FifoNext DEF FifoIsStored
<1>7. CASE Committed
  <2>1. RequestNow = <<>> /\ FifoNow' = FifoNow
    BY <1>4, <1>6, <1>7 DEF RequestNow
  <2> QED
    BY <1>1, <1>5, <2>1, IsStutter DEF Same, FifoStep
<1>8. CASE ~Committed
  <2>1. RequestNow # <<>> /\ RequestNow[1] = ItemSet /\ RequestNow[1].key = key
    BY <1>2, <1>8 DEF RequestNow, ItemSet
  <2>2. \A c \in Members : cell[c].key # key
    <3> SUFFICES ASSUME NEW c \in Members, cell[c].key = key PROVE FALSE
      OBVIOUS
    <3>1. ChainInv /\ Linked = Members \cup {new}
      BY <1>1 DEF WriterInv, TableInv, AgreeInv, Cut
    <3>2. PICK b \in Buckets : c \in Entries(b)
      BY <3>1 DEF Linked
    <3>3. PICK d \in Buckets : new \in Entries(d)
      BY <3>1 DEF Linked
    <3>4. b = BucketOf[key] /\ d = BucketOf[key]
      BY <1>2, <3>1, <3>2, <3>3 DEF ChainInv
    <3>5. c = new
      BY <1>2, <3>1, <3>2, <3>3, <3>4 DEF ChainInv
    <3> QED
      BY <1>2, <3>5
  <2>3. \A i \in DOMAIN FifoNow : FifoNow[i].key # RequestNow[1].key
    <3>1. Listed \in Seq(Cells) /\ ToSet(Listed) = Members /\ cell \in [Cells -> CellType]
      BY ListedIs DEF WriterInv, ListInv, TypeInv, CellType
    <3>2. Len(Stored) = Len(Listed) /\ \A i \in 1..Len(Listed) : Stored[i] = ItemIn(cell, Listed[i])
      BY <3>1, ItemsFacts DEF Stored
    <3>3. \A i \in 1..Len(Listed) : Stored[i].key = cell[Listed[i]].key /\ Listed[i] \in Members
      <4> SUFFICES ASSUME NEW i \in 1..Len(Listed)
                   PROVE  Stored[i].key = cell[Listed[i]].key /\ Listed[i] \in Members
        OBVIOUS
      <4>1. Listed[i] \in Members /\ Listed[i] \in Cells
        BY <3>1 DEF ToSet
      <4> QED
        BY <3>1, <3>2, <4>1, ItemFacts
    <3>4. DOMAIN FifoNow = 1..Len(Listed) /\ FifoNow = Stored
      BY <1>6, <1>8, <3>2
    <3> QED
      BY <2>1, <2>2, <3>3, <3>4
  <2>4. FifoNow' = Append(FifoNow, RequestNow[1])
    BY <1>4, <1>6, <1>8, <2>1
  <2>5. Fifo!Put
    BY <1>1, <1>5, <2>1, <2>3, <2>4, IsPut
  <2> QED
    BY <2>5 DEF FifoStep, Fifo!Next
<1> QED
  BY <1>7, <1>8

LEMMA ClearRefines ==
  ASSUME WriterInv, WriterInv', ServeInv, Clear \/ Recover
  PROVE  FifoStep
<1>1. pc' = "sleepEnd" /\ ClearTable /\ next' = [next EXCEPT ![ListHead] = ListHead]
  BY DEF Clear, Recover, FallAsleep, Goto, ClearTable
<1>2. next'[ListHead] = ListHead
  BY <1>1 DEF WriterInv, TypeInv
<1>3. Stored' = <<>>
  BY <1>2, StoredCleared
<1>4. ~Committed' /\ FifoNow' = <<>>
  BY <1>1, <1>3, FifoNext DEF Committed
<1>5. CASE Clear
  <2>1. lock = "free" /\ op' = "clear"
    BY <1>5 DEF Clear, Acquire
  <2>2. pc = "idle" /\ op = "none"
    BY <2>1 DEF WriterInv, LockInv, ServeInv
  <2>3. RequestNow = <<>> /\ RequestNow' = <<>>
    BY <2>1, <2>2 DEF RequestNow
  <2>4. Fifo!Clear
    BY <1>1, <1>4, <2>2, <2>3, IsClear
  <2> QED
    BY <2>4 DEF FifoStep, Fifo!Next
<1>6. CASE Recover
  <2>1. pc = "crashed" /\ op = "none" /\ op' = "none"
    BY <1>6 DEF Recover, ServeInv
  <2>2. RequestNow = <<>> /\ RequestNow' = <<>> /\ FifoNow = <<>>
    BY <2>1 DEF RequestNow, FifoNow
  <2>3. Fifo!Recover
    BY <1>1, <1>4, <2>1, <2>2, IsRecover
  <2> QED
    BY <2>3 DEF FifoStep, Fifo!Next
<1> QED
  BY <1>5, <1>6

LEMMA CrashRefines ==
  ASSUME Crash
  PROVE  FifoStep
<1>1. pc # "crashed" /\ pc' = "crashed" /\ op' = "none"
  BY DEF Crash, Goto
<1>2. RequestNow' = <<>>
  BY <1>1 DEF RequestNow
<1>3. Fifo!Crash
  BY <1>1, <1>2, IsCrash
<1> QED
  BY <1>3 DEF FifoStep, Fifo!Next

LEMMA ExpireRefines ==
  ASSUME WriterInv, WriterInv', ServeInv, NEW c \in Cells, Expire(c)
  PROVE  FifoStep
<1>1. /\ pc = "idle" /\ pc' = "idle" /\ op' = op /\ next' = next
      /\ Contains(Listed, c) /\ ~cell[c].expired /\ cell' = [cell EXCEPT ![c].expired = TRUE]
  BY DEF Expire, writer
<1>2. ~Committed /\ ~Committed' /\ RequestNow = <<>> /\ RequestNow' = <<>>
  BY <1>1 DEF ServeInv, Committed, RequestNow
<1>3. FifoNow = Stored /\ FifoNow' = Stored' /\ Stored \in Seq(ItemType) /\ Stored' \in Seq(ItemType)
  BY <1>1, <1>2, FifoIs, FifoNext DEF FifoIsStored
<1>4. /\ Listed \in Seq(Cells) /\ cell \in [Cells -> CellType]
      /\ \A i, j \in 1..Len(Listed) : Listed[i] = Listed[j] => i = j
  BY ListedIs DEF WriterInv, ListInv, TypeInv, CellType
<1>5. PICK i \in 1..Len(Listed) : Listed[i] = c
  BY <1>1 DEF Contains
<1>6. Listed' = Listed
  BY <1>1 DEF Listed
<1>7. cell' \in [Cells -> CellType] /\ cell'[c].expired = TRUE /\ cell'[c].key = cell[c].key
      /\ \A x \in Cells : x # c => cell'[x] = cell[x]
  BY <1>1, <1>4 DEF CellType
<1>8. /\ Len(Stored) = Len(Listed) /\ \A j \in 1..Len(Listed) : Stored[j] = ItemIn(cell, Listed[j])
  BY <1>4, ItemsFacts DEF Stored
<1>9. /\ Len(Stored') = Len(Listed) /\ \A j \in 1..Len(Listed) : Stored'[j] = ItemIn(cell', Listed[j])
  BY <1>4, <1>6, <1>7, ItemsFacts DEF Stored
<1>10. Stored[i].exp = 0
  BY <1>1, <1>4, <1>5, <1>8, ItemFacts
<1>11. \A j \in 1..Len(Listed) : j # i => Stored'[j] = Stored[j]
  <2> SUFFICES ASSUME NEW j \in 1..Len(Listed), j # i PROVE Stored'[j] = Stored[j]
    OBVIOUS
  <2>1. Listed[j] # c /\ Listed[j] \in Cells
    BY <1>4, <1>5
  <2>2. ItemIn(cell', Listed[j]) = ItemIn(cell, Listed[j])
    BY <1>7, <2>1 DEF ItemIn
  <2> QED
    BY <1>8, <1>9, <2>2
<1>12. Stored'[i] = [Stored[i] EXCEPT !.exp = Stored'[i].exp]
  <2>1. Stored'[i] = ItemIn(cell', c) /\ Stored[i] = ItemIn(cell, c)
    BY <1>5, <1>8, <1>9
  <2> QED
    BY <1>7, <2>1 DEF ItemIn
<1>13. Stored' = [Stored EXCEPT ![i].exp = Stored'[i].exp]
  <2> DEFINE t == [Stored EXCEPT ![i] = [Stored[i] EXCEPT !.exp = Stored'[i].exp]]
  <2>1. Stored[i] \in ItemType /\ Stored'[i] \in ItemType /\ i \in 1..Len(Stored)
    BY <1>3, <1>8, <1>9
  <2>2. t = [Stored EXCEPT ![i] = Stored'[i]]
    BY <1>12
  <2> HIDE DEF t
  <2>3. t \in Seq(ItemType) /\ Len(t) = Len(Listed)
        /\ \A j \in 1..Len(Listed) : t[j] = IF j = i THEN Stored'[i] ELSE Stored[j]
    <3>1. PICK x \in ItemType : x = Stored'[i]
      BY <2>1
    <3>2. PICK s \in Seq(ItemType) : s = Stored
      BY <1>3
    <3>3. i \in 1..Len(s) /\ Len(s) = Len(Listed) /\ t = [s EXCEPT ![i] = x]
      BY <1>8, <2>1, <2>2, <3>1, <3>2
    <3>4. t \in Seq(ItemType) /\ Len(t) = Len(s) /\ \A j \in 1..Len(s) : t[j] = IF j = i THEN x ELSE s[j]
      BY <3>3
    <3> QED
      BY <3>1, <3>2, <3>3, <3>4
  <2>4. t = Stored'
    <3>1. Len(t) = Len(Stored') /\ \A j \in 1..Len(t) : t[j] = Stored'[j]
      BY <1>9, <1>11, <2>3
    <3> QED
      BY <1>3, <2>3, <3>1
  <2> QED
    BY <2>4 DEF t
<1>14. i \in DOMAIN FifoNow
  BY <1>3, <1>5, <1>8
<1>15. Fifo!Touch
  BY <1>1, <1>2, <1>3, <1>8, <1>9, <1>10, <1>13, <1>14, IsTouch
<1> QED
  BY <1>15 DEF FifoStep, Fifo!Next

LEMMA RefinesStep ==
  ASSUME WriterInv, WriterInv', ServeInv, [Next]_vars
  PROVE  FifoStep
<1>1. CASE \E k \in Keys : Set(k) \/ Delete(k)
  BY <1>1, SetRefines, DeleteRefines
<1>2. CASE Clear
  BY <1>2, ClearRefines
<1>3. CASE Writing
  BY <1>3, DeletedRefines, WaitRefines, RecycleRefines, RecycledRefines, RecycleFailsRefines, AllocRefines,
     FreeOldRefines, StoreRefines, AppendRefines, ClearRefines DEF Writing
<1>4. CASE Crash
  BY <1>4, CrashRefines
<1>5. CASE \E c \in Cells : Expire(c)
  BY <1>5, ExpireRefines
<1>6. CASE \E r \in Readers, k \in Keys, l \in WithinLock : BeginGet(r, k, l)
  BY <1>6 DEF BeginGet, table, mapped, FifoStep
<1>7. CASE \E r \in Readers, d \in Dumps, l \in WithinLock : BeginDump(r, d, l)
  BY <1>7 DEF BeginDump, table, mapped, FifoStep
<1>8. CASE \E r \in Readers : Reading(r)
  BY <1>8 DEF Reading, Compare, Advance, Miss, TimedOut, ReturnExpired, Found, Use, Examine, CopyRow,
     EndDump, Stray, table, writer, mapped, FifoStep
<1>9. CASE UNCHANGED vars
  BY <1>9 DEF vars, table, writer, mapped, FifoStep
<1> QED
  BY <1>1, <1>2, <1>3, <1>4, <1>5, <1>6, <1>7, <1>8, <1>9 DEF Next

LEMMA RefinesInit == Init => Fifo!Init
<1> SUFFICES ASSUME Init PROVE Fifo!Init
  OBVIOUS
<1>1. WriterInv /\ pc = "idle" /\ op = "none" /\ ~Committed
  BY WriterInit DEF Init, Committed
<1>2. RequestNow = <<>>
  BY <1>1 DEF RequestNow
<1>3. next[ListHead] = ListHead
  BY DEF Init
<1>4. Stored = <<>>
  <2>1. Along(next, Listed) /\ Along(next, <<>>)
    BY <1>1, <1>3, ListedAlong DEF Along, WriterInv, ListInv
  <2>2. Listed = <<>>
    BY <2>1, AlongUnique
  <2> QED
    BY <2>2 DEF Stored, ItemsIn
<1>5. FifoNow = <<>>
  BY <1>1, <1>4, FifoIs DEF FifoIsStored
<1> QED
  BY <1>1, <1>2, <1>5 DEF Fifo!Init, FifoNow, RequestNow

\* The buckets, ht_next and the list's links, stored one by one while processes
\* are killed and readers go by, are the sequence of entries that FifoCache
\* promises: every step of theirs is one of its steps, or is not seen.
THEOREM LinksRefineFifo == Spec => LinksImplementFifo
<1> DEFINE Inv == WriterInv /\ ServeInv
<1>1. Init => Inv
  BY WriterInit, ServeInit
<1>2. Inv /\ [Next]_vars => Inv'
  BY WriterStep, ServeStep
<1>3. Inv /\ Inv' /\ [Next]_vars => [UNCHANGED mapped \/ Fifo!Next]_(Fifo!vars)
  BY RefinesStep DEF FifoStep
<1> HIDE DEF Inv
<1> QED
  BY <1>1, <1>2, <1>3, RefinesInit, PTL DEF Spec, LinksImplementFifo

\* LinksImplementFifo has the steps that leave the variables of the mapping
\* alone apart; they stutter, so it says as much as the specification itself.
LEMMA MappedStutters == UNCHANGED mapped => UNCHANGED Fifo!vars
<1> SUFFICES ASSUME UNCHANGED mapped PROVE Same
  BY IsStutter
<1>1. UNCHANGED <<cell, next, pc, op, key, old>>
  BY DEF mapped
<1>2. Listed' = Listed /\ ItemSet' = ItemSet /\ (Committed' <=> Committed)
  BY <1>1 DEF Listed, ItemSet, Committed
<1>3. Items(Listed)' = Items(Listed)
  BY <1>1, <1>2 DEF Items, Item
<1> QED
  BY <1>1, <1>2, <1>3 DEF Same, FifoNow, RequestNow

\* The table as a whole implements FifoCache.
THEOREM LinksAreFifo == Spec => Fifo!Spec
<1>1. [UNCHANGED mapped \/ Fifo!Next]_(Fifo!vars) => [Fifo!Next]_(Fifo!vars)
  BY MappedStutters
<1> QED
  BY <1>1, LinksRefineFifo, PTL DEF LinksImplementFifo, Fifo!Spec
==============================================================================
