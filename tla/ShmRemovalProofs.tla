--------------------------- MODULE ShmRemovalProofs ---------------------------
(***************************************************************************)
(* Proofs about ShmRemoval, for any number of processes, segments, files   *)
(* and removals.                                                           *)
(***************************************************************************)
EXTENDS ShmRemoval, FiniteSetTheorems, WellFoundedInduction, TLAPS

\* Steps under the lock of the file; steps of a process without value files.
Locking == {"recheck", "createFirst", "countFirst", "unlockInit",
            "unlinkTable", "unlinkValues", "unlockRemove"}
Waiting == {"status", "lockInit", "lockRemove"}
Bare == Waiting \cup {"idle", "recheck", "createFirst", "unlinkTable", "unlinkValues",
                      "unlockRemove"}
Steps == Bare \cup {"countFirst", "unlockInit", "ready", "count"}

TypeInv ==
  /\ table \in Gens \cup {Nil}
  /\ value \in [1..MaxSegments -> Files \cup {Nil}]
  /\ ready \in [Gens -> BOOLEAN]
  /\ count \in [Gens -> 0..MaxSegments]
  /\ pc \in [Proc -> Steps]
  /\ gen \in [Proc -> Gens \cup {Nil}]
  /\ map \in [Proc -> Seq(Files)]
  /\ index \in [Proc -> 0..MaxSegments]
  /\ result \in [Proc -> {"ok", "error"}]
  /\ failed \in [Proc -> BOOLEAN]
  /\ late \subseteq Gens /\ torn \subseteq Gens /\ relinked \subseteq Nat

\* The lock of the file is exclusive.
LockInv == \A p \in Proc : pc[p] \in Locking => fileLock = p

\* What a process has mapped at each step.
StepOf(p) ==
  /\ pc[p] = "idle" <=> gen[p] = Nil
  /\ Len(map[p]) <= MaxSegments
  /\ pc[p] \in Bare => map[p] = <<>>
  /\ pc[p] \notin {"unlinkValues", "unlockRemove"} => index[p] = 0
  /\ pc[p] \in {"createFirst", "countFirst"} => ~ready[gen[p]]
  /\ pc[p] \in {"unlockInit", "ready", "count"} => ready[gen[p]]
  /\ pc[p] \in Creating => Len(map[p]) = count[gen[p]] + 1
  /\ pc[p] \notin Creating /\ gen[p] # Nil => Len(map[p]) <= count[gen[p]]
OneCreating == \A p, q \in Proc :
  pc[p] \in Creating /\ pc[q] \in Creating /\ gen[p] = gen[q] => p = q
StepInv == OneCreating /\ \A p \in Proc : StepOf(p)

\* A generation is counted when it is ready, and forgotten when it is freed.
GenInv == \A g \in Gens :
  /\ ~ready[g] => count[g] = 0
  /\ g # table /\ (\A p \in Proc : gen[p] # g) => ~ready[g]

\* The generation that got the name while a removal goes on waits for it.
Fresh(g) == ~ready[g] /\ \A p \in Proc : gen[p] = g => pc[p] \in Waiting
FreshInv == \A r \in Proc :
  pc[r] \in {"unlinkValues", "unlockRemove"} /\ table # Nil =>
    Fresh(table) \/ (failed[r] /\ table \in torn)

Dirty == late \cup torn

\* The processes of the generation with the name have the files with the
\* names; those of a generation that lost it keep what they have.
NamedInv == \A p \in Proc : gen[p] = table /\ table \notin Dirty =>
  \A i \in DOMAIN map[p] : map[p][i] = value[i] /\ value[i] # Nil
AgreeInv == \A p, q \in Proc : gen[p] = gen[q] /\ gen[p] \notin Dirty =>
  \A i \in DOMAIN map[p] \cap DOMAIN map[q] : map[p][i] = map[q][i]

\* A generation that lost its name also lost those of its files, but for those
\* that its removal still has before it.
Removing(g, i) == \E r \in Proc : pc[r] = "unlinkValues" /\ gen[r] = g /\ index[r] < i
Old(g) == g # table /\ g # Nil /\ g \notin Dirty
LostInv == \A p \in Proc : Old(gen[p]) =>
  \A i \in DOMAIN map[p] : i <= count[gen[p]] =>
    value[i] # map[p][i] \/ Removing(gen[p], i)

\* Files of different generations, but for one that is just created.
Has(p, i) == i \in DOMAIN map[p] /\ (gen[p] = table \/ i <= count[gen[p]])
ApartInv == \A p, q \in Proc : gen[p] # gen[q] /\ gen[p] \notin Dirty /\ gen[q] \notin Dirty =>
  \A i \in 1..MaxSegments : Has(p, i) /\ Has(q, i) => map[p][i] # map[q][i]

\* What a removal has removed so far.
GoneInv == \A r \in Proc : ~failed[r] =>
  /\ pc[r] \in {"unlinkValues", "unlockRemove"} => table # gen[r]
  /\ pc[r] = "unlinkValues" =>
       \A i \in 1..index[r] : value[i] = Nil \/ i \in relinked
  /\ pc[r] = "unlockRemove" /\ result[r] = "ok" =>
       \A i \in 1..count[gen[r]] : value[i] = Nil \/ i \in relinked

RemovalInv == /\ TypeInv /\ LockInv /\ StepInv /\ GenInv /\ FreshInv
              /\ NamedInv /\ AgreeInv /\ LostInv /\ ApartInv /\ GoneInv
-----------------------------------------------------------------------------
(* New files                                                               *)

LEMMA MinIn ==
  ASSUME NEW S \in SUBSET Nat, S # {}
  PROVE  Min(S) \in S
<1> DEFINE R == {s \in Nat \X Nat : s[1] < s[2]}
<1>1. IsWellFoundedOn(R, Nat)
  BY NatLessThanWellFounded, Zenon DEF OpToRel
<1>2. \A x, y \in S : <<y, x>> \notin R => x <= y
  OBVIOUS
<1> HIDE DEF R
<1>3. \E x \in S : \A y \in S : <<y, x>> \notin R
  BY <1>1, WFMin, Zenon
<1>4. \E x \in S : \A y \in S : x <= y
  BY <1>2, <1>3
<1> QED
  BY <1>4 DEF Min

\* As many processes as there are cannot use all of more files than that.
LEMMA SomeLeft ==
  ASSUME NEW F \in SUBSET Nat, IsFiniteSet(F), Cardinality(F) > Cardinality(Proc),
         NEW P \in SUBSET Proc, NEW f, f = [p \in P |-> f[p]]
  PROVE  F \ {f[p] : p \in P} # {}
<1> DEFINE T == {f[p] : p \in P}
<1>1. IsFiniteSet(P) /\ Cardinality(P) <= Cardinality(Proc)
      /\ Cardinality(P) \in Nat /\ Cardinality(Proc) \in Nat
  BY RemovalAssumption, FS_Subset, FS_CardinalityType
<1>2. f \in Surjection(P, T)
  BY DEF Surjection
<1>3. IsFiniteSet(T) /\ Cardinality(T) <= Cardinality(P)
  BY <1>1, <1>2, FS_Surjection
<1>4. SUFFICES ASSUME F \subseteq T PROVE FALSE
  OBVIOUS
<1>5. Cardinality(F) <= Cardinality(T) /\ Cardinality(F) \in Nat /\ Cardinality(T) \in Nat
  BY <1>3, <1>4, FS_Subset, FS_CardinalityType
<1> QED
  BY <1>1, <1>3, <1>5

LEMMA NewGenFacts ==
  ASSUME TypeInv, table = Nil
  PROVE  NewGen \in Gens /\ NewGen # Nil /\ \A p \in Proc : gen[p] # NewGen
<1> DEFINE S == Gens \ ({table} \cup {gen[p] : p \in Proc})
<1>1. Gens \subseteq Nat /\ IsFiniteSet(Gens) /\ Cardinality(Gens) > Cardinality(Proc)
      /\ Nil \notin Gens
  BY RemovalAssumption
<1>2. gen = [p \in Proc |-> gen[p]]
  BY DEF TypeInv
<1>3. Gens \ {gen[p] : p \in Proc} # {}
  BY <1>1, <1>2, SomeLeft
<1>4. S # {} /\ S \subseteq Nat
  BY <1>1, <1>3
<1>5. Min(S) \in S
  BY <1>4, MinIn
<1> QED
  BY <1>1, <1>5 DEF NewGen

LEMMA NewFileFacts ==
  ASSUME TypeInv, NEW i \in 1..MaxSegments, value[i] = Nil
  PROVE  /\ NewFile(i) \in Files /\ NewFile(i) # Nil
         /\ \A p \in Proc : i \in DOMAIN map[p] => map[p][i] # NewFile(i)
<1> DEFINE P == {q \in Proc : Len(map[q]) >= i}
           f == [p \in P |-> map[p][i]]
           S == Files \ ({value[i]} \cup {map[p][i] : p \in P})
<1>1. Files \subseteq Nat /\ IsFiniteSet(Files) /\ Cardinality(Files) > Cardinality(Proc)
      /\ Nil \notin Files
  BY RemovalAssumption
<1>2. {map[p][i] : p \in P} = {f[p] : p \in P} /\ P \in SUBSET Proc
  OBVIOUS
<1>3. Files \ {f[p] : p \in P} # {}
  <2>1. f = [p \in P |-> f[p]]
    OBVIOUS
  <2> HIDE DEF f, P
  <2> QED
    BY <1>1, <1>2, <2>1, SomeLeft
<1>4. S # {} /\ S \subseteq Nat
  BY <1>1, <1>2, <1>3
<1>5. Min(S) \in S
  BY <1>4, MinIn
<1>6. \A p \in Proc : i \in DOMAIN map[p] => p \in P
  BY DEF TypeInv
<1> QED
  BY <1>1, <1>5, <1>6 DEF NewFile
-----------------------------------------------------------------------------
(* What the helpers of the actions do                                      *)

LEMMA Order ==
  /\ RemovalOrder[1] = "unlinkTable"
  /\ AfterStep("unlinkTable") = "unlinkValues"
  /\ AfterStep("unlinkValues") = "unlockRemove"
<1>1. RemovalOrder[1] = "unlinkTable" /\ RemovalOrder[2] = "unlinkValues"
      /\ RemovalOrder[3] = "unlockRemove"
  BY DEF RemovalOrder
<1>2. \A i \in 1..2 : i = 1 \/ i = 2
  OBVIOUS
<1>3. (CHOOSE i \in 1..2 : RemovalOrder[i] = "unlinkTable") = 1
  BY <1>1, <1>2
<1>4. (CHOOSE i \in 1..2 : RemovalOrder[i] = "unlinkValues") = 2
  BY <1>1, <1>2
<1> QED
  BY <1>1, <1>3, <1>4 DEF AfterStep

\* A generation that has its name or is mapped keeps its state, all others
\* are forgotten.
Kept(g) == g = table' \/ \E p \in Proc : gen'[p] = g

LEMMA ReleaseFacts ==
  ASSUME TypeInv, NEW C \in SUBSET Gens, Release(C)
  PROVE  /\ ready' \in [Gens -> BOOLEAN] /\ count' \in [Gens -> 0..MaxSegments]
         /\ late' \subseteq Gens /\ torn' \subseteq Gens
         /\ \A g \in Gens : Kept(g) => /\ ready'[g] = ready[g] /\ count'[g] = count[g]
                                       /\ g \in late' <=> g \in late
                                       /\ g \in torn' <=> g \in torn \cup C
         /\ \A g \in Gens : ~Kept(g) => ~ready'[g] /\ count'[g] = 0
<1>1. \A g : Freed(g) <=> ~Kept(g)
  BY DEF Freed, Kept
<1>2. /\ ready \in [Gens -> BOOLEAN] /\ count \in [Gens -> 0..MaxSegments]
      /\ late \subseteq Gens /\ torn \subseteq Gens /\ 0 \in 0..MaxSegments
  BY RemovalAssumption DEF TypeInv
<1>3. ready' \in [Gens -> BOOLEAN] /\ \A g \in Gens : ready'[g] = (ready[g] /\ ~Freed(g))
  BY <1>2 DEF Release
<1>4. /\ count' \in [Gens -> 0..MaxSegments]
      /\ \A g \in Gens : count'[g] = IF Freed(g) THEN 0 ELSE count[g]
  BY <1>2 DEF Release
<1>5. late' = {g \in late : ~Freed(g)} /\ torn' = {g \in torn \cup C : ~Freed(g)}
  BY DEF Release
<1> QED
  BY <1>1, <1>2, <1>3, <1>4, <1>5

LEMMA MapFacts ==
  ASSUME TypeInv, NEW p \in Proc, NEW i \in 1..MaxSegments, Len(map[p]) + 1 = i, MapValue(p, i)
  PROVE  \E f \in Files :
           /\ f # Nil
           /\ value[i] # Nil => f = value[i]
           /\ value[i] = Nil => \A q \in Proc : i \in DOMAIN map[q] => map[q][i] # f
           /\ value' = [value EXCEPT ![i] = f]
           /\ map' \in [Proc -> Seq(Files)]
           /\ Len(map'[p]) = i /\ DOMAIN map'[p] = DOMAIN map[p] \cup {i}
           /\ map'[p][i] = f /\ i \notin DOMAIN map[p]
           /\ \A j \in DOMAIN map[p] : map'[p][j] = map[p][j]
           /\ \A q \in Proc \ {p} : map'[q] = map[q]
<1> DEFINE f == IF value[i] = Nil THEN NewFile(i) ELSE value[i]
<1>1. /\ f \in Files /\ f # Nil
      /\ value[i] # Nil => f = value[i]
      /\ value[i] = Nil => \A q \in Proc : i \in DOMAIN map[q] => map[q][i] # f
  <2>1. value[i] \in Files \cup {Nil} /\ Nil \notin Files
    BY RemovalAssumption DEF TypeInv
  <2> QED
    BY <2>1, NewFileFacts
<1>2. value' = [value EXCEPT ![i] = f] /\ map' = [map EXCEPT ![p] = Append(@, f)]
  BY DEF MapValue
<1> HIDE DEF f
<1>3. map[p] \in Seq(Files) /\ map \in [Proc -> Seq(Files)]
  BY DEF TypeInv
<1>4. Append(map[p], f) \in Seq(Files) /\ Len(Append(map[p], f)) = i
      /\ Append(map[p], f)[i] = f
      /\ \A j \in 1..Len(map[p]) : Append(map[p], f)[j] = map[p][j]
  BY <1>1, <1>3
<1>5. map'[p] = Append(map[p], f) /\ map' \in [Proc -> Seq(Files)]
      /\ \A q \in Proc \ {p} : map'[q] = map[q]
  BY <1>2, <1>3, <1>4
<1>6. DOMAIN map[p] = 1..Len(map[p]) /\ DOMAIN Append(map[p], f) = 1..i
      /\ 1..i = (1..Len(map[p])) \cup {i} /\ i \notin 1..Len(map[p])
  BY <1>3, <1>4
<1> QED
  BY <1>1, <1>2, <1>4, <1>5, <1>6
-----------------------------------------------------------------------------
(* Every action keeps the invariant                                        *)

LEMMA Ranges ==
  ASSUME TypeInv, NEW p \in Proc
  PROVE  /\ MaxSegments \in Nat
         /\ Len(map[p]) \in Nat /\ DOMAIN map[p] = 1..Len(map[p])
         /\ gen[p] # Nil => /\ gen[p] \in Gens
                            /\ count[gen[p]] \in 0..MaxSegments /\ count[gen[p]] \in Nat
<1>1. MaxSegments \in Nat
  BY RemovalAssumption
<1>2. /\ map[p] \in Seq(Files) /\ count \in [Gens -> 0..MaxSegments]
      /\ gen[p] \in Gens \cup {Nil}
  BY DEF TypeInv
<1> QED
  BY <1>1, <1>2

LEMMA Segments ==
  ASSUME RemovalInv, NEW q \in Proc, NEW i \in DOMAIN map[q]
  PROVE  i \in 1..MaxSegments /\ i \in Nat /\ map[q][i] \in Files
<1>1. map[q] \in Seq(Files) /\ Len(map[q]) <= MaxSegments
  BY DEF RemovalInv, TypeInv, StepInv, StepOf
<1> QED
  BY <1>1, RemovalAssumption

LEMMA FilesKept ==
  ASSUME NamedInv, AgreeInv, ApartInv, UNCHANGED <<table, value, gen, map, count>>,
         \A g : g \in Dirty => g \in Dirty'
  PROVE  NamedInv' /\ AgreeInv' /\ ApartInv'
<1>1. NamedInv'
  BY DEF NamedInv
<1>2. AgreeInv'
  BY DEF AgreeInv
<1>3. ApartInv'
  BY DEF ApartInv, Has
<1> QED
  BY <1>1, <1>2, <1>3

LEMMA ReadStatusKeeps ==
  ASSUME RemovalInv, NEW p \in Proc, ReadStatus(p)
  PROVE  RemovalInv'
<1> USE DEF RemovalInv, ReadStatus, Goto, names, memory, tool, history
<1>1. TypeInv'
  BY DEF TypeInv, Steps, Bare, Waiting
<1>2. LockInv'
  BY DEF TypeInv, LockInv, Locking
<1>3. StepInv'
  BY DEF TypeInv, StepInv, StepOf, OneCreating, Bare, Waiting, Creating
<1>4. GenInv'
  BY DEF GenInv
<1>5. FreshInv'
  BY DEF TypeInv, FreshInv, Fresh, Waiting
<1>6. NamedInv' /\ AgreeInv' /\ ApartInv'
  BY FilesKept DEF Dirty
<1>7. LostInv'
  BY DEF TypeInv, LostInv, Old, Removing, Dirty
<1>8. GoneInv'
  BY DEF TypeInv, GoneInv
<1> QED
  BY <1>1, <1>2, <1>3, <1>4, <1>5, <1>6, <1>7, <1>8

LEMMA LockFileKeeps ==
  ASSUME RemovalInv, NEW p \in Proc, LockFile(p)
  PROVE  RemovalInv'
<1>1. PICK x \in {"recheck", "unlinkTable"} :
        /\ pc' = [pc EXCEPT ![p] = x] /\ fileLock = Nil /\ fileLock' = p /\ relinked' = {}
        /\ pc[p] \in {"lockInit", "lockRemove"}
        /\ UNCHANGED <<table, value, ready, count, gen, map, index, result, failed, late, torn>>
  BY Order DEF LockFile, Goto, names, memory, tool
<1>2. \A q \in Proc : pc[q] \notin Locking
  BY <1>1, RemovalAssumption DEF RemovalInv, LockInv
<1>3. \A q \in Proc : pc'[q] = IF q = p THEN x ELSE pc[q]
  BY <1>1 DEF RemovalInv, TypeInv
<1> USE DEF RemovalInv
<1>4. TypeInv'
  BY <1>1 DEF TypeInv, Steps, Bare, Waiting
<1>5. LockInv'
  BY <1>1, <1>2, <1>3 DEF LockInv
<1>6. StepInv'
  BY <1>1, <1>3 DEF StepInv, StepOf, OneCreating, Bare, Waiting, Creating
<1>7. GenInv'
  BY <1>1 DEF GenInv
<1>8. \A q \in Proc : pc'[q] \notin {"unlinkValues", "unlockRemove"}
  BY <1>1, <1>2, <1>3 DEF Locking
<1>9. FreshInv' /\ GoneInv'
  BY <1>8 DEF FreshInv, GoneInv
<1>10. NamedInv' /\ AgreeInv' /\ ApartInv'
  BY <1>1, FilesKept DEF Dirty
<1>11. LostInv'
  <2>1. \A g, i : ~Removing(g, i)
    BY <1>2 DEF Removing, Locking
  <2> QED
    BY <1>1, <2>1 DEF LostInv, Old, Dirty
<1> QED
  BY <1>4, <1>5, <1>6, <1>7, <1>9, <1>10, <1>11

LEMMA RecheckKeeps ==
  ASSUME RemovalInv, NEW p \in Proc, Recheck(p)
  PROVE  RemovalInv'
<1>1. /\ pc[p] = "recheck" /\ gen[p] \in Gens /\ count[gen[p]] \in 0..MaxSegments
      /\ UNCHANGED <<table, value, ready, fileLock, gen, map, index, result, failed,
                     late, torn, relinked>>
  BY DEF Recheck, RemovalInv, TypeInv, StepInv, StepOf, names, tool, history
<1>2. PICK x \in {"unlockInit", "createFirst"} :
        /\ pc' = [pc EXCEPT ![p] = x]
        /\ x = "unlockInit" <=> ready[gen[p]]
  BY DEF Recheck, Goto
<1>3. count' = count
  <2>1. ~ready[gen[p]] => count[gen[p]] = 0
    BY <1>1 DEF RemovalInv, GenInv
  <2>2. count \in [Gens -> 0..MaxSegments]
    BY DEF RemovalInv, TypeInv
  <2> QED
    BY <2>1, <2>2 DEF Recheck
<1>4. \A q \in Proc : pc'[q] = IF q = p THEN x ELSE pc[q]
  BY <1>2 DEF RemovalInv, TypeInv
<1> USE DEF RemovalInv
<1>5. TypeInv'
  BY <1>1, <1>2, <1>3 DEF TypeInv, Steps, Bare, Waiting
<1>6. LockInv'
  BY <1>1, <1>4 DEF LockInv, Locking
<1>7. StepInv'
  BY <1>1, <1>2, <1>3, <1>4 DEF StepInv, StepOf, OneCreating, Bare, Waiting, Creating
<1>8. GenInv'
  BY <1>1, <1>3 DEF GenInv
<1>9. \A q \in Proc : pc'[q] \notin {"unlinkValues", "unlockRemove"}
  BY <1>1, <1>4 DEF LockInv, Locking
<1>10. FreshInv' /\ GoneInv'
  BY <1>9 DEF FreshInv, GoneInv
<1>11. NamedInv' /\ AgreeInv' /\ ApartInv'
  BY <1>1, <1>3, FilesKept DEF Dirty
<1>12. LostInv'
  <2>1. \A g, i : ~Removing(g, i)
    BY <1>1 DEF Removing, LockInv, Locking
  <2> QED
    BY <1>1, <1>3, <2>1 DEF LostInv, Old, Dirty
<1> QED
  BY <1>5, <1>6, <1>7, <1>8, <1>10, <1>11, <1>12

LEMMA UnlinkedAllKeeps ==
  ASSUME RemovalInv, NEW p \in Proc, UnlinkedAll(p)
  PROVE  RemovalInv'
<1>1. /\ pc[p] = "unlinkValues" /\ pc' = [pc EXCEPT ![p] = "unlockRemove"]
      /\ ~(index[p] < count[gen[p]])
      /\ UNCHANGED <<table, value, ready, count, fileLock, gen, map, index, result, failed,
                     late, torn, relinked>>
  BY Order DEF UnlinkedAll, Goto, More, MyCount, names, memory, tool, history
<1>2. \A q \in Proc : pc'[q] = IF q = p THEN "unlockRemove" ELSE pc[q]
  BY <1>1 DEF RemovalInv, TypeInv
<1>3. gen[p] \in Gens /\ count[gen[p]] \in Nat /\ index[p] \in Nat
  BY <1>1 DEF RemovalInv, StepInv, StepOf, TypeInv
<1>4. \A q \in Proc : pc[q] \in Locking => q = p
  BY <1>1 DEF RemovalInv, LockInv, Locking
<1> USE DEF RemovalInv
<1>5. TypeInv'
  BY <1>1 DEF TypeInv, Steps, Bare, Waiting
<1>6. LockInv'
  BY <1>1, <1>2 DEF LockInv, Locking
<1>7. StepInv'
  BY <1>1, <1>2 DEF StepInv, StepOf, OneCreating, Bare, Waiting, Creating
<1>8. GenInv'
  BY <1>1 DEF GenInv
<1>9. FreshInv'
  BY <1>1, <1>2 DEF FreshInv, Fresh, Waiting
<1>10. NamedInv' /\ AgreeInv' /\ ApartInv'
  BY <1>1, FilesKept DEF Dirty
<1>11. LostInv'
  <2> SUFFICES ASSUME NEW q \in Proc, Old(gen[q]), NEW i \in DOMAIN map[q], i <= count[gen[q]]
               PROVE  value[i] # map[q][i]
    BY <1>1 DEF LostInv, Old, Dirty
  <2>1. value[i] # map[q][i] \/ Removing(gen[q], i)
    BY DEF LostInv
  <2>2. Removing(gen[q], i) => gen[q] = gen[p] /\ index[p] < i
    BY <1>4 DEF Removing, Locking
  <2>3. i \in Nat
    BY DEF TypeInv
  <2> QED
    BY <1>1, <1>3, <2>1, <2>2, <2>3
<1>12. GoneInv'
  <2>1. \A i \in 1..count[gen[p]] : i \in 1..index[p]
    BY <1>1, <1>3
  <2> QED
    BY <1>1, <1>2, <2>1 DEF GoneInv
<1> QED
  BY <1>5, <1>6, <1>7, <1>8, <1>9, <1>10, <1>11, <1>12

LEMMA OpenFailsKeeps ==
  ASSUME RemovalInv, NEW p \in Proc, OpenFails(p)
  PROVE  RemovalInv'
<1>1. /\ pc[p] = "unlinkValues" /\ pc' = [pc EXCEPT ![p] = "unlockRemove"]
      /\ result' = [result EXCEPT ![p] = "error"] /\ torn' = torn \cup {gen[p]}
      /\ UNCHANGED <<table, value, ready, count, fileLock, gen, map, index, failed,
                     late, relinked>>
  BY Order DEF OpenFails, Goto, names, memory
<1>2. \A q \in Proc : pc'[q] = IF q = p THEN "unlockRemove" ELSE pc[q]
  BY <1>1 DEF RemovalInv, TypeInv
<1>3. gen[p] \in Gens
  BY <1>1 DEF RemovalInv, StepInv, StepOf, TypeInv
<1>4. \A q \in Proc : pc[q] \in Locking => q = p
  BY <1>1 DEF RemovalInv, LockInv, Locking
<1> USE DEF RemovalInv
<1>5. TypeInv'
  BY <1>1, <1>3 DEF TypeInv, Steps, Bare, Waiting
<1>6. LockInv'
  BY <1>1, <1>2 DEF LockInv, Locking
<1>7. StepInv'
  BY <1>1, <1>2 DEF StepInv, StepOf, OneCreating, Bare, Waiting, Creating
<1>8. GenInv'
  BY <1>1 DEF GenInv
<1>9. FreshInv'
  BY <1>1, <1>2 DEF FreshInv, Fresh, Waiting
<1>10. NamedInv' /\ AgreeInv' /\ ApartInv'
  BY <1>1, FilesKept DEF Dirty
<1>11. LostInv'
  <2>1. \A g, i : Removing(g, i) => g = gen[p]
    BY <1>4 DEF Removing, Locking
  <2> QED
    BY <1>1, <2>1 DEF LostInv, Old, Dirty
<1>12. GoneInv'
  <2>1. \A q \in Proc : q # p => result'[q] = result[q]
    BY <1>1 DEF TypeInv
  <2>2. result'[p] # "ok"
    BY <1>1 DEF TypeInv
  <2> QED
    BY <1>1, <1>2, <2>1, <2>2 DEF GoneInv
<1> QED
  BY <1>5, <1>6, <1>7, <1>8, <1>9, <1>10, <1>11, <1>12

\* A process starts and maps the hashtable file g.
LEMMA EnterKeeps ==
  ASSUME RemovalInv, NEW p \in Proc, pc[p] = "idle", NEW g \in Gens,
         table # Nil => g = table,
         table = Nil => \A q \in Proc : gen[q] # g,
         NEW x \in {"status", "lockRemove"},
         table' = g, gen' = [gen EXCEPT ![p] = g], pc' = [pc EXCEPT ![p] = x],
         UNCHANGED <<value, ready, count, fileLock, map, index, result, failed,
                     late, torn, relinked>>
  PROVE  RemovalInv'
<1>1. /\ gen[p] = Nil /\ map[p] = <<>> /\ index[p] = 0 /\ g # Nil
      /\ count[g] \in Nat /\ Len(map[p]) = 0 /\ DOMAIN map[p] = {}
  <2>1. StepOf(p) /\ count[g] \in Nat /\ g # Nil
    BY RemovalAssumption DEF RemovalInv, StepInv, TypeInv
  <2>2. gen[p] = Nil /\ map[p] = <<>> /\ index[p] = 0
    BY <2>1 DEF StepOf, Bare
  <2> QED
    BY <2>1, <2>2
<1>2. \A q \in Proc : /\ pc'[q] = IF q = p THEN x ELSE pc[q]
                      /\ gen'[q] = IF q = p THEN g ELSE gen[q]
  BY DEF RemovalInv, TypeInv
<1>3. table = Nil => ~ready[g]
  BY <1>1 DEF RemovalInv, GenInv
<1> USE DEF RemovalInv
<1>4. TypeInv'
  BY DEF TypeInv, Steps, Bare, Waiting
<1>5. LockInv'
  BY <1>2 DEF LockInv, Locking
<1>6. StepInv'
  BY <1>1, <1>2 DEF StepInv, StepOf, OneCreating, Bare, Waiting, Creating
<1>7. GenInv'
  <2> SUFFICES ASSUME NEW h \in Gens, h # table', \A q \in Proc : gen'[q] # h
               PROVE  ~ready[h]
    BY DEF GenInv
  <2>1. h # table /\ \A q \in Proc : gen[q] # h
    BY <1>1, <1>2, RemovalAssumption
  <2> QED
    BY <2>1 DEF GenInv
<1>8. FreshInv'
  <2>1. CASE table = Nil
    <3>1. Fresh(table)'
      BY <1>2, <1>3, <2>1 DEF Fresh, Waiting
    <3> QED
      BY <3>1 DEF FreshInv
  <2>2. CASE table # Nil
    BY <1>2, <2>2 DEF FreshInv, Fresh, Waiting
  <2> QED
    BY <2>1, <2>2
<1>9. NamedInv'
  BY <1>1, <1>2 DEF NamedInv, Dirty
<1>10. AgreeInv'
  BY <1>1, <1>2 DEF AgreeInv, Dirty
<1>11. LostInv'
  <2> SUFFICES ASSUME NEW q \in Proc, Old(gen[q])', NEW i \in DOMAIN map[q],
                      i <= count[gen'[q]]
               PROVE  value[i] # map[q][i] \/ Removing(gen[q], i)'
    BY <1>2 DEF LostInv, Old
  <2>1. q # p /\ gen'[q] = gen[q] /\ Old(gen[q])
    BY <1>2 DEF Old, Dirty
  <2>2. value[i] # map[q][i] \/ Removing(gen[q], i)
    BY <2>1 DEF LostInv
  <2>3. Removing(gen[q], i) => Removing(gen[q], i)'
    BY <1>2, <2>1 DEF Removing
  <2> QED
    BY <2>2, <2>3
<1>12. ApartInv'
  <2>1. \A q \in Proc, i \in 1..MaxSegments : Has(q, i)' => q # p /\ Has(q, i)
    BY <1>1, <1>2 DEF Has
  <2> QED
    BY <1>2, <2>1 DEF ApartInv, Dirty
<1>13. GoneInv'
  BY <1>2 DEF GoneInv
<1> QED
  BY <1>4, <1>5, <1>6, <1>7, <1>8, <1>9, <1>10, <1>11, <1>12, <1>13

LEMMA AttachKeeps ==
  ASSUME RemovalInv, NEW p \in Proc, Attach(p)
  PROVE  RemovalInv'
<1> DEFINE g == IF table = Nil THEN NewGen ELSE table
<1>1. /\ pc[p] = "idle" /\ table' = g /\ gen' = [gen EXCEPT ![p] = g]
      /\ pc' = [pc EXCEPT ![p] = "status"]
      /\ UNCHANGED <<value, ready, count, fileLock, map, index, result, failed,
                     late, torn, relinked>>
  BY DEF Attach, Goto, memory, tool, history
<1>2. g \in Gens /\ (table # Nil => g = table) /\ (table = Nil => \A q \in Proc : gen[q] # g)
  <2>1. table \in Gens \cup {Nil} /\ TypeInv
    BY DEF RemovalInv, TypeInv
  <2> QED
    BY <2>1, NewGenFacts
<1> HIDE DEF g
<1> QED
  BY <1>1, <1>2, EnterKeeps

LEMMA CallRemoveKeeps ==
  ASSUME RemovalInv, NEW p \in Proc, CallRemove(p)
  PROVE  RemovalInv'
<1>1. /\ pc[p] = "idle" /\ table # Nil /\ table' = table /\ gen' = [gen EXCEPT ![p] = table]
      /\ pc' = [pc EXCEPT ![p] = "lockRemove"]
      /\ UNCHANGED <<value, ready, count, fileLock, map, index, result, failed,
                     late, torn, relinked>>
  BY DEF CallRemove, Goto, names, memory, tool, history
<1>2. table \in Gens
  BY <1>1 DEF RemovalInv, TypeInv
<1> QED
  BY <1>1, <1>2, EnterKeeps

\* A process maps the value file f as its next segment i.  The conditions of
\* the step on pc are those of StepInv, FreshInv and LockInv that they need.
LEMMA MapKeeps ==
  ASSUME RemovalInv, NEW p \in Proc, NEW i \in 1..MaxSegments, Len(map[p]) + 1 = i,
         MapValue(p, i), gen[p] # Nil, pc[p] \in {"createFirst", "ready"},
         NEW x \in {"countFirst", "count", "ready"}, pc' = [pc EXCEPT ![p] = x],
         x \in Creating => i = count[gen[p]] + 1,
         x \notin Creating => i <= count[gen[p]],
         x = "countFirst" <=> pc[p] = "createFirst",
         x = "count" => \A q \in Proc : gen[q] = gen[p] => pc[q] \notin Creating,
         UNCHANGED <<table, ready, count, fileLock, gen, index, result, failed, torn>>
  PROVE  RemovalInv'
<1> DEFINE g == gen[p]
<1>1. PICK f \in Files :
        /\ f # Nil
        /\ value[i] # Nil => f = value[i]
        /\ value[i] = Nil => \A q \in Proc : i \in DOMAIN map[q] => map[q][i] # f
        /\ value' = [value EXCEPT ![i] = f]
        /\ map' \in [Proc -> Seq(Files)]
        /\ Len(map'[p]) = i /\ DOMAIN map'[p] = DOMAIN map[p] \cup {i}
        /\ map'[p][i] = f /\ i \notin DOMAIN map[p]
        /\ \A j \in DOMAIN map[p] : map'[p][j] = map[p][j]
        /\ \A q \in Proc \ {p} : map'[q] = map[q]
  BY MapFacts DEF RemovalInv
<1>2. /\ late' = IF g = table THEN late ELSE late \cup {g}
      /\ relinked' = IF g = table \/ value[i] # Nil THEN relinked ELSE relinked \cup {i}
  BY DEF MapValue
<1>3. \A q \in Proc : pc'[q] = IF q = p THEN x ELSE pc[q]
  BY DEF RemovalInv, TypeInv
<1>4. g \in Gens /\ i \in Nat /\ \A q \in Proc : DOMAIN map[q] \subseteq Nat
  BY RemovalAssumption DEF RemovalInv, TypeInv
<1>5. /\ \A j \in 1..MaxSegments : value'[j] = IF j = i THEN f ELSE value[j]
      /\ value' \in [1..MaxSegments -> Files \cup {Nil}]
  BY <1>1 DEF RemovalInv, TypeInv
<1>6. /\ \A h : h \in Dirty => h \in Dirty'
      /\ g # table => g \in Dirty'
      /\ \A h \in Gens : h # g => (h \in Dirty' <=> h \in Dirty)
  BY <1>2 DEF Dirty
\* While a removal goes on, the file is not mapped by the generation with
\* the name.
<1>7. ASSUME NEW r \in Proc, pc[r] \in {"unlinkValues", "unlockRemove"}
      PROVE  g = table => failed[r] /\ table \in Dirty
  BY <1>7 DEF RemovalInv, FreshInv, Fresh, Waiting, Dirty
<1> USE DEF RemovalInv
<1>8. TypeInv'
  BY <1>1, <1>2, <1>4, <1>5 DEF TypeInv, Steps, Bare, Waiting
<1>9. LockInv'
  BY <1>3 DEF LockInv, Locking
<1>10. StepInv'
  <2>1. OneCreating'
    <3>1. ASSUME NEW q \in Proc, pc[q] \in Creating, gen[q] = gen[p], x \in Creating
          PROVE  FALSE
      <4>1. StepOf(q) /\ StepOf(p)
        BY DEF StepInv
      <4>2. x = "countFirst" /\ pc[p] = "createFirst" /\ pc[q] = "countFirst"
        BY <3>1, <4>1 DEF StepOf, Creating
      <4> QED
        BY <4>2 DEF LockInv, Locking
    <3>2. OneCreating
      BY DEF StepInv
    <3> QED
      BY <1>3, <3>1, <3>2 DEF OneCreating
  <2>2. ASSUME NEW q \in Proc, q # p PROVE StepOf(q)'
    <3>1. StepOf(q)
      BY DEF StepInv
    <3> QED
      BY <1>1, <1>3, <2>2, <3>1 DEF StepOf
  <2>3. StepOf(p)'
    <3>1. StepOf(p)
      BY DEF StepInv
    <3>2. x \notin Bare /\ x \notin {"unlinkValues", "unlockRemove", "idle", "createFirst", "unlockInit"}
      BY DEF Bare, Waiting
    <3> QED
      BY <1>1, <1>3, <3>1, <3>2 DEF StepOf, Creating
  <2> QED
    BY <2>1, <2>2, <2>3 DEF StepInv
<1>11. GenInv'
  BY DEF GenInv
<1>12. FreshInv'
  BY <1>3, <1>4, <1>7 DEF FreshInv, Fresh, Waiting, Dirty
<1>13. NamedInv'
  <2> SUFFICES ASSUME NEW q \in Proc, gen[q] = table, table \notin Dirty', NEW j \in DOMAIN map'[q]
               PROVE  map'[q][j] = value'[j] /\ value'[j] # Nil
    BY DEF NamedInv
  <2>1. table \notin Dirty
    BY <1>6
  <2>2. j \in DOMAIN map[q] => map'[q][j] = map[q][j] /\ map[q][j] = value[j] /\ value[j] # Nil
    BY <1>1, <2>1 DEF NamedInv
  <2>3. j \in 1..MaxSegments
    BY <1>1, Segments
  <2> QED
    BY <1>1, <1>5, <2>2, <2>3
<1>14. AgreeInv'
  <2> SUFFICES ASSUME NEW q \in Proc, NEW r \in Proc, gen[q] = gen[r], gen[q] \notin Dirty',
                      NEW j \in DOMAIN map'[q] \cap DOMAIN map'[r]
               PROVE  map'[q][j] = map'[r][j]
    BY DEF AgreeInv
  <2>1. CASE gen[q] = g
    <3>1. gen[q] = table /\ gen[r] = table /\ table \notin Dirty'
      BY <1>6, <2>1
    <3>2. \A u \in Proc : gen[u] = table =>
            \A m \in DOMAIN map'[u] : map'[u][m] = value'[m]
      BY <1>13, <3>1 DEF NamedInv
    <3> QED
      BY <3>1, <3>2
  <2>2. CASE gen[q] # g
    <3>1. map'[q] = map[q] /\ map'[r] = map[r] /\ gen[q] \notin Dirty
      BY <1>1, <1>6, <2>2
    <3> QED
      BY <3>1 DEF AgreeInv
  <2> QED
    BY <2>1, <2>2
<1>15. \A h, j : Removing(h, j) => Removing(h, j)'
  BY <1>3 DEF Removing
<1>16. LostInv'
  <2> SUFFICES ASSUME NEW q \in Proc, Old(gen[q])', NEW j \in DOMAIN map'[q], j <= count[gen[q]]
               PROVE  value'[j] # map'[q][j] \/ Removing(gen[q], j)'
    BY DEF LostInv, Old
  <2>1. Old(gen[q]) /\ q # p
    BY <1>6 DEF Old
  <2>2. map'[q] = map[q] /\ j \in DOMAIN map[q]
    BY <1>1, <2>1
  <2>3. j \in 1..MaxSegments
    BY <2>2, Segments
  <2>4. value[j] # map[q][j] \/ Removing(gen[q], j)
    BY <2>1, <2>2 DEF LostInv
  <2> QED
    BY <1>1, <1>5, <1>15, <2>2, <2>3, <2>4
<1>17. ApartInv'
  <2>1. ASSUME NEW q \in Proc, gen[q] # g, g \notin Dirty', gen[q] \notin Dirty',
               NEW j \in 1..MaxSegments, Has(p, j)', Has(q, j)'
        PROVE  map'[p][j] # map'[q][j]
    <3>1. g = table /\ g \notin Dirty /\ gen[q] \notin Dirty /\ q # p
      BY <1>6, <2>1
    <3>2. map'[q] = map[q] /\ j \in DOMAIN map[q] /\ j <= count[gen[q]] /\ Has(q, j)
      BY <1>1, <2>1, <3>1 DEF Has
    <3>3. CASE j \in DOMAIN map[p]
      <4>1. Has(p, j)
        BY <3>1, <3>3 DEF Has
      <4> QED
        BY <1>1, <2>1, <3>1, <3>2, <3>3, <4>1 DEF ApartInv
    <3>4. CASE j = i
      <4>1. ~Removing(gen[q], i)
        BY <1>7, <3>1 DEF Removing
      <4>2. Old(gen[q])
        <5>1. gen[q] # Nil
          BY <3>2 DEF StepInv, StepOf, Bare
        <5> QED
          BY <2>1, <3>1, <5>1 DEF Old
      <4>3. value[i] # map[q][i]
        BY <3>2, <3>4, <4>1, <4>2 DEF LostInv
      <4> QED
        BY <1>1, <3>2, <3>4, <4>3
    <3> QED
      BY <1>1, <2>1, <3>3, <3>4 DEF Has
  <2>2. ASSUME NEW q \in Proc, NEW r \in Proc, q # p, r # p, gen[q] # gen[r],
               gen[q] \notin Dirty', gen[r] \notin Dirty',
               NEW j \in 1..MaxSegments, Has(q, j)', Has(r, j)'
        PROVE  map'[q][j] # map'[r][j]
    <3>1. map'[q] = map[q] /\ map'[r] = map[r] /\ gen[q] \notin Dirty /\ gen[r] \notin Dirty
      BY <1>1, <1>6, <2>2
    <3>2. Has(q, j) /\ Has(r, j)
      BY <2>2, <3>1 DEF Has
    <3> QED
      BY <2>2, <3>1, <3>2 DEF ApartInv
  <2> QED
    BY <2>1, <2>2 DEF ApartInv
<1>18. GoneInv'
  <2> SUFFICES ASSUME NEW r \in Proc, ~failed[r], pc[r] \in {"unlinkValues", "unlockRemove"},
                      NEW j \in 1..MaxSegments, value[j] = Nil \/ j \in relinked
               PROVE  value'[j] = Nil \/ j \in relinked'
    <3>1. \A r \in Proc : pc'[r] \in {"unlinkValues", "unlockRemove"} => pc[r] = pc'[r]
      BY <1>3
    <3>2. ASSUME NEW r \in Proc, pc[r] \in {"unlinkValues", "unlockRemove"}
          PROVE  /\ \A j \in 1..index[r] : j \in 1..MaxSegments
                 /\ \A j \in 1..count[gen[r]] : j \in 1..MaxSegments
      <4>1. gen[r] # Nil
        BY <3>2 DEF StepInv, StepOf
      <4>2. /\ MaxSegments \in Nat /\ index[r] \in 0..MaxSegments
            /\ count[gen[r]] \in 0..MaxSegments
        BY <4>1, RemovalAssumption DEF TypeInv
      <4> QED
        BY <4>2
    <3> SUFFICES ASSUME NEW r \in Proc, ~failed[r], pc[r] \in {"unlinkValues", "unlockRemove"}
                 PROVE  /\ table # gen[r]
                        /\ pc[r] = "unlinkValues" =>
                             \A j \in 1..index[r] : value'[j] = Nil \/ j \in relinked'
                        /\ pc[r] = "unlockRemove" /\ result[r] = "ok" =>
                             \A j \in 1..count[gen[r]] : value'[j] = Nil \/ j \in relinked'
      BY <3>1 DEF GoneInv
    <3> QED
      BY <3>2 DEF GoneInv
  <2>1. g # table
    BY <1>7
  <2> QED
    BY <1>1, <1>2, <1>5, <2>1
<1> QED
  BY <1>8, <1>9, <1>10, <1>11, <1>12, <1>13, <1>14, <1>16, <1>17, <1>18

LEMMA CreateValueKeeps ==
  ASSUME RemovalInv, NEW p \in Proc, CreateValue(p)
  PROVE  RemovalInv'
<1> DEFINE i == count[gen[p]] + 1
<1>1. /\ pc[p] \in {"createFirst", "ready"} /\ count[gen[p]] < MaxSegments /\ MapValue(p, i)
      /\ UNCHANGED <<table, ready, count, fileLock, gen, index, result, failed, torn>>
  BY DEF CreateValue, MyCount, memory, tool
<1>2. PICK x \in {"countFirst", "count"} :
        /\ pc' = [pc EXCEPT ![p] = x]
        /\ x = "countFirst" <=> pc[p] = "createFirst"
        /\ x = "count" => /\ Len(map[p]) = count[gen[p]]
                          /\ \A q \in Proc : gen[q] = gen[p] => pc[q] \notin Creating
  BY DEF CreateValue, MyCount, Goto
<1>3. StepOf(p) /\ GenInv /\ TypeInv
  BY DEF RemovalInv, StepInv
<1>4. gen[p] # Nil /\ gen[p] \in Gens
  BY <1>1, <1>3 DEF StepOf, TypeInv
<1>5. count[gen[p]] \in Nat /\ MaxSegments \in Nat
  BY <1>3, <1>4, Ranges
<1>6. Len(map[p]) = count[gen[p]]
  <2>1. CASE x = "count"
    BY <1>2, <2>1
  <2>2. CASE pc[p] = "createFirst"
    <3>1. map[p] = <<>> /\ ~ready[gen[p]]
      BY <1>3, <2>2 DEF StepOf, Bare
    <3>2. count[gen[p]] = 0
      BY <1>3, <1>4, <3>1 DEF GenInv
    <3> QED
      BY <3>1, <3>2
  <2> QED
    BY <1>2, <2>1, <2>2
<1>7. i \in 1..MaxSegments /\ Len(map[p]) + 1 = i /\ x \in Creating
  BY <1>1, <1>5, <1>6 DEF Creating
<1>8. x \in {"countFirst", "count", "ready"} /\ i = count[gen[p]] + 1
  OBVIOUS
<1> HIDE DEF i
<1> QED
  BY <1>1, <1>2, <1>4, <1>7, <1>8, MapKeeps

LEMMA OpenValueKeeps ==
  ASSUME RemovalInv, NEW p \in Proc, OpenValue(p)
  PROVE  RemovalInv'
<1> DEFINE i == Len(map[p]) + 1
<1>1. /\ pc[p] = "ready" /\ Len(map[p]) < count[gen[p]] /\ MapValue(p, i)
      /\ UNCHANGED <<table, ready, count, fileLock, pc, gen, index, result, failed, torn>>
  BY DEF OpenValue, MyCount, memory, tool
<1>2. pc' = [pc EXCEPT ![p] = "ready"]
  BY <1>1 DEF RemovalInv, TypeInv
<1>3. gen[p] # Nil /\ gen[p] \in Gens
  BY <1>1 DEF RemovalInv, StepInv, StepOf, TypeInv
<1>4. count[gen[p]] \in 0..MaxSegments /\ MaxSegments \in Nat /\ Len(map[p]) \in Nat
  BY <1>3, Ranges DEF RemovalInv
<1>5. i \in 1..MaxSegments /\ i <= count[gen[p]] /\ "ready" \notin Creating
  BY <1>1, <1>4 DEF Creating
<1> HIDE DEF i
<1>6. Len(map[p]) + 1 = i
  BY DEF i
<1> QED
  BY <1>1, <1>2, <1>3, <1>5, <1>6, MapKeeps

LEMMA CountedKeeps ==
  ASSUME RemovalInv, NEW p \in Proc, Counted(p)
  PROVE  RemovalInv'
<1> DEFINE g == gen[p]
           n == count[g] + 1
<1>1. /\ pc[p] \in Creating
      /\ count' = [count EXCEPT ![g] = @ + 1] /\ ready' = [ready EXCEPT ![g] = TRUE]
      /\ UNCHANGED <<table, value, fileLock, gen, map, index, result, failed, torn>>
  BY DEF Counted, names, tool
<1>2. PICK x \in {"unlockInit", "ready"} :
        pc' = [pc EXCEPT ![p] = x] /\ (x = "unlockInit" <=> pc[p] = "countFirst")
  BY DEF Counted, Goto
<1>3. StepOf(p) /\ TypeInv /\ g \in Gens /\ g # Nil
  BY <1>1, RemovalAssumption DEF RemovalInv, StepInv, StepOf, TypeInv, Creating
<1>4. count[g] \in Nat /\ n = Len(map[p]) /\ n <= MaxSegments /\ n \in 0..MaxSegments
  <2>1. count[g] \in Nat /\ MaxSegments \in Nat
    BY <1>3, Ranges
  <2>2. n = Len(map[p]) /\ Len(map[p]) <= MaxSegments
    BY <1>1, <1>3 DEF StepOf
  <2> QED
    BY <2>1, <2>2
<1>5. /\ \A h \in Gens : /\ count'[h] = IF h = g THEN n ELSE count[h]
                         /\ ready'[h] = IF h = g THEN TRUE ELSE ready[h]
      /\ \A q \in Proc : pc'[q] = IF q = p THEN x ELSE pc[q]
  BY <1>1, <1>2, <1>3 DEF TypeInv
<1>6. /\ g = table => late' = late /\ relinked' = relinked
      /\ g # table => late' = late \cup {g} /\ relinked' = relinked \cup {n}
  <2>1. count'[g] = n
    BY <1>3, <1>5
  <2> HIDE DEF n
  <2>2. g = table => late' = late /\ relinked' = relinked
    BY DEF Counted
  <2>3. g # table => late' = late \cup {g} /\ relinked' = relinked \cup {count'[g]}
    BY DEF Counted
  <2> QED
    BY <2>1, <2>2, <2>3
<1> QED
  <2>1. /\ \A h : h \in Dirty => h \in Dirty'
        /\ g # table => g \in Dirty'
    BY <1>1, <1>6 DEF Dirty
  <2>2. \A q \in Proc : gen[q] \in Gens \cup {Nil}
    BY <1>3 DEF TypeInv
  <2> USE DEF RemovalInv
  <2>3. TypeInv'
    <3>1. count' \in [Gens -> 0..MaxSegments] /\ ready' \in [Gens -> BOOLEAN]
      BY <1>1, <1>3, <1>4 DEF TypeInv
    <3>2. late' \subseteq Gens /\ relinked' \subseteq Nat
      <4>1. n \in Nat
        BY <1>4
      <4> HIDE DEF n
      <4> QED
        BY <1>3, <1>6, <4>1 DEF TypeInv
    <3>3. pc' \in [Proc -> Steps]
      BY <1>2, <1>3 DEF TypeInv, Steps
    <3> QED
      BY <1>1, <1>3, <3>1, <3>2, <3>3 DEF TypeInv
  <2>4. LockInv'
    BY <1>1, <1>2, <1>5 DEF LockInv, Locking, Creating
  <2>5. StepInv'
    <3>1. OneCreating'
      BY <1>1, <1>5 DEF StepInv, OneCreating, Creating
    <3>2. StepOf(p)'
      <4>1. /\ pc'[p] = x /\ gen'[p] = g /\ map'[p] = map[p] /\ index'[p] = index[p]
            /\ ready'[g] = TRUE /\ count'[g] = Len(map[p])
        BY <1>1, <1>3, <1>4, <1>5
      <4>2. index[p] = 0 /\ Len(map[p]) <= MaxSegments /\ Len(map[p]) \in Nat
        BY <1>1, <1>3, Ranges DEF StepOf, Creating
      <4>3. x \notin Bare \cup Creating \cup {"idle", "createFirst", "countFirst"}
        BY DEF Bare, Waiting, Creating
      <4> QED
        BY <1>3, <4>1, <4>2, <4>3 DEF StepOf
    <3>3. ASSUME NEW q \in Proc, q # p PROVE StepOf(q)'
      <4>1. StepOf(q) /\ map[q] \in Seq(Files)
        BY DEF StepInv, TypeInv
      <4>2. CASE gen[q] # g
        <5>1. gen[q] # Nil => ready'[gen[q]] = ready[gen[q]] /\ count'[gen[q]] = count[gen[q]]
          BY <1>5, <2>2, <4>2
        <5>2. pc'[q] = pc[q] /\ map'[q] = map[q] /\ gen'[q] = gen[q] /\ index'[q] = index[q]
          BY <1>1, <1>5, <3>3
        <5> QED
          BY <4>1, <5>1, <5>2 DEF StepOf, Creating
      <4>3. CASE gen[q] = g
        <5>1. pc[q] \notin Creating
          BY <1>1, <3>3, <4>3 DEF StepInv, OneCreating
        <5>2. pc[q] \notin {"createFirst", "countFirst"}
          <6>1. pc[p] = "count" => ready[g]
            BY <1>3 DEF StepOf
          <6>2. pc[p] = "countFirst" => pc[q] \notin Locking
            BY <3>3 DEF LockInv, Locking
          <6> QED
            BY <1>1, <4>1, <4>3, <6>1, <6>2 DEF Creating, StepOf, Locking
        <5>3. Len(map[q]) <= count[g] /\ Len(map[q]) \in Nat
          BY <1>3, <4>1, <4>3, <5>1 DEF StepOf
        <5>4. /\ pc'[q] = pc[q] /\ map'[q] = map[q] /\ gen'[q] = g /\ index'[q] = index[q]
              /\ ready'[g] = TRUE /\ count'[g] = n
          BY <1>1, <1>3, <1>5, <3>3, <4>3
        <5> QED
          BY <1>3, <1>4, <4>1, <4>3, <5>1, <5>2, <5>3, <5>4 DEF StepOf
      <4> QED
        BY <4>2, <4>3
    <3> QED
      BY <3>1, <3>2, <3>3 DEF StepInv
  <2>6. GenInv'
    BY <1>1, <1>3, <1>5 DEF GenInv
  <2>7. FreshInv'
    <3>1. \A r \in Proc : pc'[r] \in {"unlinkValues", "unlockRemove"} => r # p /\ pc[r] = pc'[r]
      BY <1>2, <1>5
    <3>2. ~Fresh(g)
      BY <1>1 DEF Fresh, Waiting, Creating
    <3>3. table \in Gens /\ table # g /\ Fresh(table) => Fresh(table)'
      BY <1>1, <1>5 DEF Fresh
    <3>4. table \in Gens \cup {Nil}
      BY DEF TypeInv
    <3> QED
      BY <1>1, <3>1, <3>2, <3>3, <3>4 DEF FreshInv
  <2>8. NamedInv'
    BY <1>1, <2>1 DEF NamedInv
  <2>9. AgreeInv'
    BY <1>1, <2>1 DEF AgreeInv
  <2>10. \A q \in Proc : gen[q] # Nil /\ gen[q] # g => count'[gen[q]] = count[gen[q]]
    BY <1>5, <2>2
  <2>11. \A h, j : Removing(h, j) => Removing(h, j)'
    BY <1>1, <1>5 DEF Removing, Creating
  <2>12. LostInv'
    <3> SUFFICES ASSUME NEW q \in Proc, Old(gen[q])', NEW j \in DOMAIN map[q],
                        j <= count'[gen[q]]
                 PROVE  value[j] # map[q][j] \/ Removing(gen[q], j)'
      BY <1>1 DEF LostInv, Old
    <3>1. Old(gen[q]) /\ gen[q] # g
      BY <1>1, <2>1 DEF Old
    <3> QED
      <4>1. count'[gen[q]] = count[gen[q]]
        BY <2>10, <3>1 DEF Old
      <4>2. value[j] # map[q][j] \/ Removing(gen[q], j)
        BY <3>1, <4>1 DEF LostInv
      <4> QED
        BY <1>1, <2>11, <4>2
  <2>13. ApartInv'
    <3>1. ASSUME NEW q \in Proc, gen[q] \notin Dirty', NEW j \in 1..MaxSegments, Has(q, j)'
          PROVE  Has(q, j)
      <4>1. CASE gen[q] = table
        BY <1>1, <3>1, <4>1 DEF Has
      <4>2. CASE gen[q] # table
        <5>1. gen[q] # g /\ j \in DOMAIN map[q] /\ j <= count'[gen[q]]
          BY <1>1, <2>1, <3>1, <4>2 DEF Has
        <5>2. gen[q] # Nil
          BY <5>1 DEF StepInv, StepOf, Bare
        <5> QED
          BY <2>10, <5>1, <5>2 DEF Has
      <4> QED
        BY <4>1, <4>2
    <3> QED
      BY <1>1, <2>1, <3>1 DEF ApartInv
  <2>14. GoneInv'
    <3>1. \A r \in Proc : pc'[r] \in {"unlinkValues", "unlockRemove"} => pc[r] = pc'[r]
      BY <1>2, <1>5
    <3>2. \A j \in relinked : j \in relinked'
      BY <1>6
    <3>3. ASSUME NEW r \in Proc, ~failed[r], pc[r] = "unlockRemove", result[r] = "ok",
                 NEW j \in 1..count'[gen[r]]
          PROVE  value[j] = Nil \/ j \in relinked'
      <4>1. /\ table # gen[r] /\ gen[r] # Nil
            /\ \A k \in 1..count[gen[r]] : value[k] = Nil \/ k \in relinked
        BY <3>3 DEF GoneInv, StepInv, StepOf
      <4>2. CASE gen[r] = g
        <5>1. j \in 1..n
          BY <1>3, <1>5, <4>2
        <5>2. j \in 1..count[g] \/ j = n
          BY <1>4, <5>1
        <5> QED
          BY <1>6, <3>2, <4>1, <4>2, <5>2
      <4>3. CASE gen[r] # g
        BY <2>10, <3>2, <4>1, <4>3
      <4> QED
        BY <4>2, <4>3
    <3> QED
      BY <1>1, <3>1, <3>2, <3>3 DEF GoneInv
  <2> QED
    BY <2>3, <2>4, <2>5, <2>6, <2>7, <2>8, <2>9, <2>12, <2>13, <2>14

\* The names are taken away or not: what is mapped keeps its state.
LEMMA MappedKept ==
  ASSUME TypeInv, NEW C \in SUBSET Gens, Release(C), NEW h \in Gens,
         NEW q \in Proc, gen'[q] = h
  PROVE  /\ ready'[h] = ready[h] /\ count'[h] = count[h]
         /\ h \in Dirty' <=> h \in Dirty \cup C
<1>1. Kept(h)
  BY DEF Kept
<1>2. /\ ready'[h] = ready[h] /\ count'[h] = count[h]
      /\ h \in late' <=> h \in late
      /\ h \in torn' <=> h \in torn \cup C
  BY <1>1, ReleaseFacts
<1> QED
  BY <1>2 DEF Dirty

LEMMA UnlinkTableKeeps ==
  ASSUME RemovalInv, NEW p \in Proc, UnlinkTable(p)
  PROVE  RemovalInv'
<1>1. /\ pc[p] = "unlinkTable" /\ pc' = [pc EXCEPT ![p] = "unlinkValues"]
      /\ UNCHANGED <<value, fileLock, gen, map, index, relinked>>
  BY Order DEF UnlinkTable, Goto, tool
<1>2. TypeInv /\ \A q \in Proc : StepOf(q)
  BY DEF RemovalInv, StepInv
<1>3. /\ gen[p] \in Gens /\ Nil \notin Gens /\ table \in Gens \cup {Nil}
      /\ \A q \in Proc : gen[q] \in Gens \cup {Nil}
  BY <1>1, <1>2, RemovalAssumption DEF TypeInv, StepOf
<1>4. PICK C \in SUBSET Gens :
        /\ Release(C)
        /\ \/ table # Nil /\ table' = Nil /\ C = {table} \ {gen[p]} /\ failed' = failed
              /\ result' = result
           \/ table' = table /\ C = {gen[p], table} \ {Nil} /\ failed' = [failed EXCEPT ![p] = TRUE]
              /\ result' = [result EXCEPT ![p] = "error"]
  <2>1. {table} \ {gen[p]} \in SUBSET Gens \/ table = Nil
    BY <1>3
  <2>2. {gen[p], table} \ {Nil} \in SUBSET Gens
    BY <1>3
  <2> QED
    BY <2>1, <2>2 DEF UnlinkTable, tool
<1>5. /\ ready' \in [Gens -> BOOLEAN] /\ count' \in [Gens -> 0..MaxSegments]
      /\ late' \subseteq Gens /\ torn' \subseteq Gens
      /\ \A g \in Gens : Kept(g) => /\ ready'[g] = ready[g] /\ count'[g] = count[g]
                                    /\ g \in torn' <=> g \in torn \cup C
      /\ \A g \in Gens : ~Kept(g) => ~ready'[g] /\ count'[g] = 0
  BY <1>2, <1>4, ReleaseFacts
<1>6. \A q \in Proc : gen[q] # Nil =>
        /\ ready'[gen[q]] = ready[gen[q]] /\ count'[gen[q]] = count[gen[q]]
        /\ gen[q] \in Dirty' <=> gen[q] \in Dirty \cup C
  BY <1>1, <1>2, <1>3, <1>4, MappedKept
<1>7. \A q \in Proc : gen[q] = Nil => pc[q] = "idle" /\ DOMAIN map[q] = {}
  <2>1. \A q \in Proc : gen[q] = Nil => pc[q] = "idle" /\ map[q] = <<>>
    BY <1>2 DEF StepOf, Bare
  <2> QED
    BY <2>1
<1>8. \A q \in Proc : /\ pc'[q] = IF q = p THEN "unlinkValues" ELSE pc[q]
                      /\ q # p => pc[q] \notin Locking
  BY <1>1, <1>2 DEF TypeInv, RemovalInv, LockInv, Locking
<1>9. \A q \in Proc : pc'[q] \in {"unlinkValues", "unlockRemove"} => q = p
  BY <1>8 DEF Locking
<1> USE DEF RemovalInv
<1>10. TypeInv'
  <2>1. table' \in Gens \cup {Nil} /\ failed' \in [Proc -> BOOLEAN]
        /\ result' \in [Proc -> {"ok", "error"}]
    BY <1>2, <1>4 DEF TypeInv
  <2>2. pc' \in [Proc -> Steps]
    BY <1>1, <1>2 DEF TypeInv, Steps, Bare
  <2> QED
    BY <1>1, <1>2, <1>5, <2>1, <2>2 DEF TypeInv
<1>11. LockInv'
  BY <1>1, <1>8 DEF LockInv, Locking
<1>12. StepInv'
  <2>1. OneCreating'
    BY <1>1, <1>8 DEF StepInv, OneCreating, Creating
  <2>2. ASSUME NEW q \in Proc PROVE StepOf(q)'
    <3>1. StepOf(q) /\ gen'[q] = gen[q] /\ map'[q] = map[q] /\ index'[q] = index[q]
      BY <1>1, <1>2
    <3>2. CASE q = p
      <4>1. pc'[p] = "unlinkValues" /\ gen[p] # Nil /\ map[p] = <<>> /\ Len(map[p]) <= MaxSegments
            /\ count'[gen[p]] = count[gen[p]] /\ Len(map[p]) <= count[gen[p]]
        BY <1>1, <1>3, <1>6, <1>8, <3>1, <3>2 DEF StepOf, Bare, Creating
      <4> QED
        BY <3>1, <3>2, <4>1 DEF StepOf, Creating
    <3>3. CASE q # p
      BY <1>6, <1>7, <1>8, <3>1, <3>3 DEF StepOf, Creating
    <3> QED
      BY <3>2, <3>3
  <2> QED
    BY <2>1, <2>2 DEF StepInv
<1>13. GenInv'
  BY <1>5 DEF GenInv, Kept
<1>14. FreshInv'
  <2>1. CASE table' = Nil
    BY <2>1 DEF FreshInv
  <2>2. CASE table' # Nil
    <3>1. table' = table /\ table \in C /\ table \in Gens /\ failed'[p]
      BY <1>2, <1>3, <1>4, <2>2 DEF TypeInv
    <3>2. table' \in torn'
      BY <1>5, <3>1 DEF Kept
    <3> QED
      BY <1>9, <3>1, <3>2 DEF FreshInv
  <2> QED
    BY <2>1, <2>2
<1>15. NamedInv'
  <2> SUFFICES ASSUME NEW q \in Proc, gen[q] = table', table' \notin Dirty', gen[q] # Nil
               PROVE  FALSE
    BY <1>1, <1>7 DEF NamedInv
  <2> QED
    BY <1>4, <1>6
<1>16. \A q \in Proc : gen[q] \notin Dirty' => gen[q] = Nil \/ gen[q] \notin Dirty
  BY <1>6
<1>17. AgreeInv'
  BY <1>1, <1>7, <1>16 DEF AgreeInv
<1>18. LostInv'
  <2> SUFFICES ASSUME NEW q \in Proc, Old(gen[q])', NEW j \in DOMAIN map[q], j <= count'[gen[q]]
               PROVE  value[j] # map[q][j] \/ Removing(gen[q], j)'
    BY <1>1 DEF LostInv, Old
  <2>1. gen[q] # table' /\ gen[q] # Nil /\ gen[q] \notin Dirty' /\ gen[q] \notin Dirty
        /\ gen[q] \notin C /\ j <= count[gen[q]]
    BY <1>1, <1>6 DEF Old
  <2>2. CASE gen[q] # table
    <3>1. ~Removing(gen[q], j)
      BY <1>1, <1>8 DEF Removing, Locking
    <3> QED
      BY <2>1, <2>2, <3>1 DEF LostInv, Old
  <2>3. CASE gen[q] = table
    <3>1. gen[q] = gen[p]
      BY <1>4, <2>1, <2>3
    <3>2. index[p] < j
      BY <1>1, <1>2, Segments DEF StepOf
    <3> QED
      BY <1>1, <1>8, <3>1, <3>2 DEF Removing
  <2> QED
    BY <2>2, <2>3
<1>19. ApartInv'
  <2>1. ASSUME NEW q \in Proc, NEW j \in 1..MaxSegments, Has(q, j)'
        PROVE  Has(q, j) /\ gen[q] # Nil
    <3>1. j \in DOMAIN map[q] /\ (gen[q] = table' \/ j <= count'[gen[q]]) /\ gen[q] # Nil
      BY <1>1, <1>7, <2>1 DEF Has
    <3> QED
      BY <1>4, <1>6, <3>1 DEF Has
  <2> QED
    BY <1>1, <1>16, <2>1 DEF ApartInv
<1>20. GoneInv'
  <2>1. index[p] = 0
    BY <1>1, <1>2 DEF StepOf
  <2>2. ~failed'[p] => table' # gen[p]
    BY <1>2, <1>3, <1>4 DEF TypeInv
  <2> QED
    BY <1>1, <1>8, <1>9, <2>1, <2>2 DEF GoneInv
<1> QED
  BY <1>10, <1>11, <1>12, <1>13, <1>14, <1>15, <1>17, <1>18, <1>19, <1>20

LEMMA UnlinkValueKeeps ==
  ASSUME RemovalInv, NEW p \in Proc, UnlinkValue(p)
  PROVE  RemovalInv'
<1> DEFINE n == index[p] + 1
<1>1. /\ pc[p] = "unlinkValues" /\ index[p] < count[gen[p]]
      /\ index' = [index EXCEPT ![p] = n]
      /\ UNCHANGED <<table, ready, count, fileLock, pc, gen, map, late>>
  BY DEF UnlinkValue, More, MyCount, memory
<1>2. TypeInv /\ \A q \in Proc : StepOf(q)
  BY DEF RemovalInv, StepInv
<1>3. gen[p] # Nil /\ gen[p] \in Gens /\ map[p] = <<>>
  BY <1>1, <1>2 DEF TypeInv, StepOf, Bare
<1>4. /\ index[p] \in Nat /\ MaxSegments \in Nat /\ count[gen[p]] \in 0..MaxSegments
      /\ n \in 1..MaxSegments /\ n \in 0..MaxSegments
  <2>1. index[p] \in 0..MaxSegments /\ MaxSegments \in Nat /\ count[gen[p]] \in 0..MaxSegments
    BY <1>2, <1>3, Ranges DEF TypeInv
  <2> QED
    BY <1>1, <2>1
<1>5. \A q \in Proc : /\ index'[q] = IF q = p THEN n ELSE index[q]
                      /\ pc[q] \in Locking => q = p
  BY <1>1, <1>2 DEF TypeInv, RemovalInv, LockInv, Locking
\* The removal works, or it fails.
<1>6. \/ /\ value' = [value EXCEPT ![n] = Nil] /\ relinked' = relinked \ {n}
         /\ result' = [result EXCEPT ![p] = "ok"] /\ failed' = failed /\ torn' = torn
      \/ /\ value' = value /\ relinked' = relinked /\ torn' = torn \cup {gen[p]}
         /\ result' = [result EXCEPT ![p] = "error"] /\ failed' = [failed EXCEPT ![p] = TRUE]
  BY DEF UnlinkValue
<1> HIDE DEF n
<1>7. /\ \A h : h \in Dirty => h \in Dirty'
      /\ \A q \in Proc : failed[q] => failed'[q]
      /\ \A q \in Proc : ~failed'[q] => ~failed[q]
  BY <1>1, <1>2, <1>6 DEF Dirty, TypeInv
<1>8. \A j \in 1..MaxSegments : value'[j] = value[j] \/ (j = n /\ value'[j] = Nil)
  BY <1>2, <1>6 DEF TypeInv
<1> USE DEF RemovalInv
<1>9. TypeInv'
  <2>1. value' \in [1..MaxSegments -> Files \cup {Nil}]
    BY <1>2, <1>4, <1>6 DEF TypeInv
  <2>2. /\ torn' \subseteq Gens /\ relinked' \subseteq Nat /\ failed' \in [Proc -> BOOLEAN]
        /\ result' \in [Proc -> {"ok", "error"}]
    BY <1>2, <1>3, <1>6 DEF TypeInv
  <2>3. index' \in [Proc -> 0..MaxSegments]
    BY <1>1, <1>2, <1>4 DEF TypeInv
  <2> QED
    BY <1>1, <1>2, <2>1, <2>2, <2>3 DEF TypeInv
<1>10. LockInv'
  BY <1>1 DEF LockInv
<1>11. StepInv'
  <2>1. OneCreating'
    BY <1>1 DEF StepInv, OneCreating
  <2>2. ASSUME NEW q \in Proc PROVE StepOf(q)'
    BY <1>1, <1>2, <1>5 DEF StepOf
  <2> QED
    BY <2>1, <2>2 DEF StepInv
<1>12. GenInv'
  BY <1>1 DEF GenInv
<1>13. FreshInv'
  <2>1. Fresh(table) => Fresh(table)'
    BY <1>1 DEF Fresh
  <2>2. table \in torn => table \in torn'
    BY <1>6
  <2> QED
    BY <1>1, <1>7, <2>1, <2>2 DEF FreshInv
\* The generation with the name has mapped none of the files, or a removal of
\* it failed.
<1>14. NamedInv'
  <2> SUFFICES ASSUME NEW q \in Proc, gen[q] = table, table \notin Dirty', NEW i \in DOMAIN map[q]
               PROVE  FALSE
    BY <1>1 DEF NamedInv
  <2>1. map[q] # <<>>
    OBVIOUS
  <2>2. table # Nil
    BY <1>2, <2>1 DEF StepOf, Bare
  <2>3. Fresh(table)
    BY <1>1, <1>7, <2>2 DEF FreshInv, Dirty
  <2> QED
    BY <1>2, <2>1, <2>3 DEF Fresh, StepOf, Bare
<1>15. AgreeInv'
  BY <1>1, <1>7 DEF AgreeInv
<1>16. LostInv'
  <2> SUFFICES ASSUME NEW q \in Proc, Old(gen[q])', NEW j \in DOMAIN map[q], j <= count[gen[q]]
               PROVE  value'[j] # map[q][j] \/ Removing(gen[q], j)'
    BY <1>1 DEF LostInv, Old
  <2>1. Old(gen[q])
    BY <1>1, <1>7 DEF Old
  <2>2. j \in 1..MaxSegments /\ j \in Nat /\ map[q][j] \in Files /\ Nil \notin Files
    BY Segments, RemovalAssumption
  <2>3. value[j] # map[q][j] \/ Removing(gen[q], j)
    BY <2>1 DEF LostInv
  <2>4. CASE value[j] # map[q][j]
    BY <1>8, <2>2, <2>4
  <2>5. CASE Removing(gen[q], j)
    <3>1. gen[q] = gen[p] /\ index[p] < j
      BY <1>5, <2>5 DEF Removing, Locking
    <3>2. n < j \/ n = j
      BY <1>4, <2>2, <3>1 DEF n
    <3>3. CASE n < j
      BY <1>1, <1>5, <3>1, <3>3 DEF Removing
    <3>4. CASE n = j
      <4>1. gen[p] \notin torn'
        BY <1>1, <3>1 DEF Old, Dirty
      <4>2. value' = [value EXCEPT ![n] = Nil]
        BY <1>6, <4>1
      <4> QED
        BY <1>2, <2>2, <3>4, <4>2 DEF TypeInv
    <3> QED
      BY <3>2, <3>3, <3>4
  <2> QED
    BY <2>3, <2>4, <2>5
<1>17. ApartInv'
  BY <1>1, <1>7 DEF ApartInv, Has
<1>18. GoneInv'
  <2> SUFFICES ASSUME ~failed'[p]
               PROVE  table # gen[p] /\ \A i \in 1..n : value'[i] = Nil \/ i \in relinked'
    <3>1. \A r \in Proc : pc'[r] \in {"unlinkValues", "unlockRemove"} => r = p
      BY <1>1, <1>5 DEF Locking
    <3>2. pc'[p] = "unlinkValues" /\ index'[p] = n
      BY <1>1, <1>5
    <3> QED
      BY <1>1, <3>1, <3>2 DEF GoneInv
  <2>1. ~failed[p] /\ value' = [value EXCEPT ![n] = Nil] /\ relinked' = relinked \ {n}
    BY <1>2, <1>6 DEF TypeInv
  <2>2. table # gen[p] /\ \A i \in 1..index[p] : value[i] = Nil \/ i \in relinked
    BY <1>1, <2>1 DEF GoneInv
  <2>3. ASSUME NEW i \in 1..n PROVE value'[i] = Nil \/ i \in relinked'
    <3>1. i \in 1..MaxSegments /\ (i = n \/ i \in 1..index[p])
      BY <1>4 DEF n
    <3>2. value'[i] = IF i = n THEN Nil ELSE value[i]
      BY <1>2, <2>1, <3>1 DEF TypeInv
    <3> QED
      BY <2>1, <2>2, <3>1, <3>2
  <2> QED
    BY <2>2, <2>3
<1> QED
  BY <1>9, <1>10, <1>11, <1>12, <1>13, <1>14, <1>15, <1>16, <1>17, <1>18

\* A process ends: it unmaps all and unlocks the file, and the generations
\* whose removal it did not bring to its end count as torn.
LEMMA LeaveKeeps ==
  ASSUME RemovalInv, NEW p \in Proc, pc[p] # "idle", Leave(p), NEW C \in SUBSET Gens, Release(C),
         UNCHANGED <<table, value>>,
         fileLock' = IF fileLock = p THEN Nil ELSE fileLock,
         relinked' = relinked \/ (relinked' = {} /\ pc[p] = "unlockRemove"),
         pc[p] \in {"unlinkTable", "unlinkValues"} => gen[p] \in C
  PROVE  RemovalInv'
<1>1. /\ pc' = [pc EXCEPT ![p] = "idle"] /\ gen' = [gen EXCEPT ![p] = Nil]
      /\ map' = [map EXCEPT ![p] = <<>>] /\ index' = [index EXCEPT ![p] = 0]
      /\ result' = [result EXCEPT ![p] = "ok"] /\ failed' = [failed EXCEPT ![p] = FALSE]
  BY DEF Leave, Goto
<1>2. TypeInv /\ \A q \in Proc : StepOf(q)
  BY DEF RemovalInv, StepInv
<1>3. /\ gen[p] \in Gens /\ Nil \notin Gens /\ MaxSegments \in Nat
      /\ \A q \in Proc : gen[q] \in Gens \cup {Nil}
  BY <1>2, RemovalAssumption DEF TypeInv, StepOf
<1>4. <<>> \in Seq(Files) /\ Len(<<>>) = 0 /\ DOMAIN <<>> = {} /\ 0 \in 0..MaxSegments
  BY <1>3
<1>5. /\ pc'[p] = "idle" /\ gen'[p] = Nil /\ map'[p] = <<>> /\ index'[p] = 0
      /\ \A q \in Proc : q # p => /\ pc'[q] = pc[q] /\ gen'[q] = gen[q] /\ map'[q] = map[q]
                                  /\ index'[q] = index[q] /\ result'[q] = result[q]
                                  /\ failed'[q] = failed[q]
  BY <1>1, <1>2 DEF TypeInv
<1>6. /\ ready' \in [Gens -> BOOLEAN] /\ count' \in [Gens -> 0..MaxSegments]
      /\ late' \subseteq Gens /\ torn' \subseteq Gens
      /\ \A g \in Gens : Kept(g) => /\ ready'[g] = ready[g] /\ count'[g] = count[g]
                                    /\ g \in late' <=> g \in late
                                    /\ g \in torn' <=> g \in torn \cup C
      /\ \A g \in Gens : ~Kept(g) => ~ready'[g] /\ count'[g] = 0
  BY <1>2, ReleaseFacts
<1>7. \A q \in Proc : q # p /\ gen[q] # Nil =>
        /\ ready'[gen[q]] = ready[gen[q]] /\ count'[gen[q]] = count[gen[q]]
        /\ gen[q] \in Dirty' <=> gen[q] \in Dirty \cup C
  BY <1>2, <1>3, <1>5, MappedKept
<1>8. \A q \in Proc : gen[q] = Nil => pc[q] = "idle" /\ DOMAIN map[q] = {}
  <2>1. \A q \in Proc : gen[q] = Nil => pc[q] = "idle" /\ map[q] = <<>>
    BY <1>2 DEF StepOf, Bare
  <2> QED
    BY <2>1
<1>9. \A q \in Proc : q # p /\ gen[q] \notin Dirty' => gen[q] = Nil \/ gen[q] \notin Dirty
  BY <1>7
<1> USE DEF RemovalInv
<1>10. TypeInv'
  <2>1. /\ pc' \in [Proc -> Steps] /\ gen' \in [Proc -> Gens \cup {Nil}]
        /\ map' \in [Proc -> Seq(Files)] /\ index' \in [Proc -> 0..MaxSegments]
    BY <1>1, <1>2, <1>4 DEF TypeInv, Steps, Bare
  <2>2. result' \in [Proc -> {"ok", "error"}] /\ failed' \in [Proc -> BOOLEAN]
        /\ relinked' \subseteq Nat
    BY <1>1, <1>2 DEF TypeInv
  <2> QED
    BY <1>2, <1>6, <2>1, <2>2 DEF TypeInv
<1>11. LockInv'
  <2> SUFFICES ASSUME NEW q \in Proc, pc'[q] \in Locking PROVE fileLock' = q
    BY DEF LockInv
  <2>1. q # p /\ pc[q] \in Locking
    BY <1>5 DEF Locking
  <2> QED
    BY <2>1 DEF LockInv
<1>12. StepInv'
  <2>1. OneCreating'
    BY <1>5 DEF StepInv, OneCreating, Creating
  <2>2. StepOf(p)'
    BY <1>3, <1>4, <1>5 DEF StepOf, Creating
  <2>3. ASSUME NEW q \in Proc, q # p PROVE StepOf(q)'
    <3>1. StepOf(q)
      BY <1>2
    <3> QED
      BY <1>5, <1>7, <1>8, <2>3, <3>1 DEF StepOf, Creating
  <2> QED
    BY <2>1, <2>2, <2>3 DEF StepInv
<1>13. GenInv'
  <2>1. \A g \in Gens : ~ready[g] => count[g] = 0
    BY DEF GenInv
  <2> QED
    BY <1>6, <2>1 DEF GenInv, Kept
<1>14. FreshInv'
  <2> SUFFICES ASSUME NEW r \in Proc, pc'[r] \in {"unlinkValues", "unlockRemove"}, table # Nil
               PROVE  Fresh(table)' \/ (failed'[r] /\ table \in torn')
    BY DEF FreshInv
  <2>1. r # p /\ pc[r] \in {"unlinkValues", "unlockRemove"} /\ failed'[r] = failed[r]
    BY <1>5
  <2>2. table \in Gens /\ Kept(table)
    BY <1>2 DEF TypeInv, Kept
  <2>3. ready'[table] = ready[table] /\ (table \in torn => table \in torn')
    BY <1>6, <2>2
  <2>4. Fresh(table) => Fresh(table)'
    BY <1>3, <1>5, <2>2, <2>3 DEF Fresh
  <2> QED
    BY <2>1, <2>3, <2>4 DEF FreshInv
<1>15. NamedInv'
  <2> SUFFICES ASSUME NEW q \in Proc, gen'[q] = table, table \notin Dirty', NEW i \in DOMAIN map'[q]
               PROVE  map'[q][i] = value[i] /\ value[i] # Nil
    BY DEF NamedInv
  <2>1. q # p
    BY <1>4, <1>5
  <2>2. gen[q] = table /\ map'[q] = map[q] /\ gen[q] # Nil
    BY <1>5, <1>8, <2>1
  <2> QED
    BY <1>9, <2>1, <2>2 DEF NamedInv
<1>16. AgreeInv'
  <2> SUFFICES ASSUME NEW q \in Proc, NEW r \in Proc, gen'[q] = gen'[r], gen'[q] \notin Dirty',
                      NEW i \in DOMAIN map'[q] \cap DOMAIN map'[r]
               PROVE  map'[q][i] = map'[r][i]
    BY DEF AgreeInv
  <2>1. q # p /\ r # p
    BY <1>4, <1>5
  <2>2. gen[q] = gen[r] /\ map'[q] = map[q] /\ map'[r] = map[r] /\ gen[q] # Nil
        /\ gen[q] \notin Dirty'
    BY <1>5, <1>8, <2>1
  <2> QED
    BY <1>9, <2>1, <2>2 DEF AgreeInv
<1>17. LostInv'
  <2> SUFFICES ASSUME NEW q \in Proc, Old(gen[q])', NEW j \in DOMAIN map'[q],
                      j <= count'[gen'[q]]
               PROVE  value[j] # map'[q][j] \/ Removing(gen[q], j)'
    BY DEF LostInv, Old
  <2>1. q # p
    BY <1>4, <1>5
  <2>2. gen'[q] = gen[q] /\ map'[q] = map[q] /\ gen[q] # Nil /\ gen[q] \notin Dirty'
        /\ gen[q] # table
    BY <1>5, <2>1 DEF Old
  <2>3. Old(gen[q]) /\ j \in DOMAIN map[q] /\ j <= count[gen[q]] /\ gen[q] \notin C
    BY <1>7, <2>1, <2>2 DEF Old
  <2>4. value[j] # map[q][j] \/ Removing(gen[q], j)
    BY <2>3 DEF LostInv
  <2>5. Removing(gen[q], j) => Removing(gen[q], j)'
    <3> SUFFICES ASSUME NEW r \in Proc, pc[r] = "unlinkValues", gen[r] = gen[q], index[r] < j
                 PROVE  Removing(gen[q], j)'
      BY DEF Removing
    <3>1. r # p
      BY <2>3
    <3> QED
      BY <1>5, <2>1, <3>1 DEF Removing
  <2> QED
    BY <2>2, <2>4, <2>5
<1>18. ApartInv'
  <2>1. ASSUME NEW q \in Proc, NEW j \in 1..MaxSegments, Has(q, j)'
        PROVE  q # p /\ gen[q] # Nil /\ Has(q, j)
    <3>1. q # p
      BY <1>4, <1>5, <2>1 DEF Has
    <3>2. j \in DOMAIN map[q] /\ (gen[q] = table \/ j <= count'[gen[q]]) /\ gen[q] # Nil
      BY <1>5, <1>8, <2>1, <3>1 DEF Has
    <3> QED
      BY <1>7, <3>1, <3>2 DEF Has
  <2> QED
    BY <1>5, <1>9, <2>1 DEF ApartInv
<1>19. GoneInv'
  <2> SUFFICES ASSUME NEW r \in Proc, ~failed'[r],
                      pc'[r] \in {"unlinkValues", "unlockRemove"}
               PROVE  /\ table # gen'[r]
                      /\ pc'[r] = "unlinkValues" =>
                           \A i \in 1..index'[r] : value[i] = Nil \/ i \in relinked'
                      /\ pc'[r] = "unlockRemove" /\ result'[r] = "ok" =>
                           \A i \in 1..count'[gen'[r]] : value[i] = Nil \/ i \in relinked'
    BY DEF GoneInv
  <2>1. r # p /\ pc[r] = pc'[r] /\ gen'[r] = gen[r] /\ ~failed[r] /\ index'[r] = index[r]
        /\ result'[r] = result[r]
    BY <1>5
  <2>2. gen[r] # Nil /\ count'[gen[r]] = count[gen[r]]
    BY <1>7, <1>8, <2>1
  <2>3. relinked' = relinked
    BY <2>1 DEF LockInv, Locking
  <2> QED
    BY <2>1, <2>2, <2>3 DEF GoneInv
<1> QED
  BY <1>10, <1>11, <1>12, <1>13, <1>14, <1>15, <1>16, <1>17, <1>18, <1>19

LEMMA EndKeeps ==
  ASSUME RemovalInv, NEW p \in Proc, End(p)
  PROVE  RemovalInv'
<1> DEFINE C == IF pc[p] \in {"unlinkTable", "unlinkValues"} THEN {gen[p]} ELSE {}
<1>1. /\ pc[p] # "idle" /\ Leave(p) /\ Release(C) /\ UNCHANGED <<table, value>>
      /\ fileLock' = IF fileLock = p THEN Nil ELSE fileLock
      /\ relinked' = relinked
  BY DEF End, names
<1>2. C \in SUBSET Gens /\ (pc[p] \in {"unlinkTable", "unlinkValues"} => gen[p] \in C)
  BY <1>1 DEF RemovalInv, StepInv, StepOf, TypeInv
<1> HIDE DEF C
<1> QED
  BY <1>1, <1>2, LeaveKeeps

LEMMA UnlockKeeps ==
  ASSUME RemovalInv, NEW p \in Proc, Unlock(p)
  PROVE  RemovalInv'
<1>1. /\ fileLock' = Nil /\ relinked' = {} /\ UNCHANGED <<table, value>>
      /\ pc[p] \in {"unlockInit", "unlockRemove"} /\ fileLock = p
  BY DEF Unlock, names, RemovalInv, LockInv, Locking
<1>2. CASE pc[p] = "unlockRemove"
  <2>1. Leave(p) /\ Release({}) /\ {} \in SUBSET Gens /\ pc[p] # "idle"
    BY <1>2 DEF Unlock
  <2>2. pc[p] \notin {"unlinkTable", "unlinkValues"}
    BY <1>2
  <2> QED
    BY <1>1, <1>2, <2>1, <2>2, LeaveKeeps
<1>3. CASE pc[p] = "unlockInit"
  <2>1. /\ pc' = [pc EXCEPT ![p] = "ready"]
        /\ UNCHANGED <<ready, count, gen, map, index, result, failed, late, torn>>
    BY <1>3 DEF Unlock, Goto, memory, tool
  <2>2. \A q \in Proc : /\ pc'[q] = IF q = p THEN "ready" ELSE pc[q]
                        /\ q # p => pc[q] \notin Locking
    BY <1>1, <2>1 DEF RemovalInv, TypeInv, LockInv
  <2>3. \A q \in Proc : pc'[q] \notin Locking /\ pc[q] # "unlinkValues"
    BY <1>3, <2>2 DEF Locking
  <2> USE DEF RemovalInv
  <2>4. TypeInv'
    BY <1>1, <2>1 DEF TypeInv, Steps
  <2>5. LockInv'
    BY <2>3 DEF LockInv
  <2>6. StepInv'
    <3>1. OneCreating'
      BY <2>1, <2>2 DEF StepInv, OneCreating, Creating
    <3>2. ASSUME NEW q \in Proc PROVE StepOf(q)'
      <4>1. StepOf(q) /\ gen'[q] = gen[q] /\ map'[q] = map[q] /\ index'[q] = index[q]
        BY <2>1 DEF StepInv
      <4> QED
        BY <1>3, <2>1, <2>2, <4>1 DEF StepOf, Bare, Waiting, Creating
    <3> QED
      BY <3>1, <3>2 DEF StepInv
  <2>7. GenInv'
    BY <1>1, <2>1 DEF GenInv
  <2>8. FreshInv' /\ GoneInv'
    BY <2>3 DEF FreshInv, GoneInv, Locking
  <2>9. NamedInv' /\ AgreeInv' /\ ApartInv'
    BY <1>1, <2>1, FilesKept DEF Dirty
  <2>10. LostInv'
    <3>1. \A g, i : ~Removing(g, i)
      BY <2>3 DEF Removing
    <3> QED
      BY <1>1, <2>1, <3>1 DEF LostInv, Old, Dirty
  <2> QED
    BY <2>4, <2>5, <2>6, <2>7, <2>8, <2>9, <2>10
<1> QED
  BY <1>1, <1>2, <1>3
-----------------------------------------------------------------------------
(* The theorems                                                            *)

LEMMA RemovalInit == Init => RemovalInv
<1> SUFFICES ASSUME Init PROVE RemovalInv
  OBVIOUS
<1>1. MaxSegments \in Nat /\ 0 \in 0..MaxSegments /\ Nil \notin Gens
  BY RemovalAssumption
<1>2. TypeInv
  <2>1. <<>> \in Seq(Files)
    OBVIOUS
  <2> QED
    BY <1>1, <2>1 DEF Init, TypeInv, Steps, Bare
<1>3. \A p \in Proc : pc[p] = "idle" /\ gen[p] = Nil /\ map[p] = <<>> /\ index[p] = 0
  BY DEF Init
<1>4. LockInv
  BY <1>3 DEF LockInv, Locking
<1>5. StepInv
  <2>1. Len(<<>>) = 0
    OBVIOUS
  <2> QED
    BY <1>1, <1>3, <2>1 DEF StepInv, OneCreating, StepOf, Creating
<1>6. GenInv
  BY DEF Init, GenInv
<1>7. FreshInv /\ GoneInv
  BY <1>3 DEF FreshInv, GoneInv
<1>8. \A p \in Proc : DOMAIN map[p] = {}
  BY <1>3
<1>9. NamedInv /\ AgreeInv /\ LostInv /\ ApartInv
  BY <1>8 DEF NamedInv, AgreeInv, LostInv, ApartInv, Has
<1> QED
  BY <1>2, <1>4, <1>5, <1>6, <1>7, <1>9 DEF RemovalInv

LEMMA RemovalStep == RemovalInv /\ [Next]_vars => RemovalInv'
<1> SUFFICES ASSUME RemovalInv, [Next]_vars PROVE RemovalInv'
  OBVIOUS
<1>1. ASSUME NEW p \in Proc, CallRemove(p) PROVE RemovalInv'
  BY <1>1, CallRemoveKeeps
<1>2. ASSUME NEW p \in Proc, Step(p) PROVE RemovalInv'
  <2>1. CASE Attach(p) \/ ReadStatus(p) \/ LockFile(p) \/ Recheck(p)
    BY <2>1, AttachKeeps, ReadStatusKeeps, LockFileKeeps, RecheckKeeps
  <2>2. CASE CreateValue(p) \/ Counted(p) \/ OpenValue(p)
    BY <2>2, CreateValueKeeps, CountedKeeps, OpenValueKeeps
  <2>3. CASE UnlinkTable(p) \/ UnlinkValue(p) \/ OpenFails(p) \/ UnlinkedAll(p)
    BY <2>3, UnlinkTableKeeps, UnlinkValueKeeps, OpenFailsKeeps, UnlinkedAllKeeps
  <2>4. CASE Unlock(p) \/ End(p)
    BY <2>4, UnlockKeeps, EndKeeps
  <2> QED
    BY <1>2, <2>1, <2>2, <2>3, <2>4 DEF Step
<1>3. CASE UNCHANGED vars
  <2>1. UNCHANGED <<table, value, ready, count, fileLock, pc, gen, map, index, result, failed,
                    late, torn, relinked>>
    BY <1>3 DEF vars, names, memory, tool, history
  <2> QED
    BY <2>1 DEF RemovalInv, TypeInv, LockInv, StepInv, StepOf, OneCreating, GenInv, FreshInv,
                Fresh, NamedInv, AgreeInv, LostInv, Old, Removing, ApartInv, Has, GoneInv, Dirty
<1> QED
  BY <1>1, <1>2, <1>3 DEF Next

LEMMA RemovalInvariant == Spec => []RemovalInv
  BY RemovalInit, RemovalStep, PTL DEF Spec

\* A generation that is not disturbed is not dirty and, without its name, not
\* just given a segment: what its processes have mapped is counted.
LEMMA Undisturbed ==
  ASSUME RemovalInv, NEW p \in Proc, gen[p] \notin Disturbed
  PROVE  gen[p] \notin Dirty /\ \A i \in DOMAIN map[p] : i \in 1..MaxSegments /\ Has(p, i)
<1>1. gen[p] \notin Dirty /\ (pc[p] \in Creating => gen[p] = table)
  BY DEF Disturbed, Growing, Dirty
<1>2. StepOf(p) /\ TypeInv
  BY DEF RemovalInv, StepInv
<1>3. ASSUME NEW i \in DOMAIN map[p]
      PROVE  i \in 1..MaxSegments /\ Has(p, i)
  <2>1. i \in 1..MaxSegments
    BY Segments
  <2>2. gen[p] # Nil
    BY <1>2 DEF StepOf, Bare
  <2>3. gen[p] # table => Len(map[p]) <= count[gen[p]]
    BY <1>1, <1>2, <2>2 DEF StepOf
  <2>4. Len(map[p]) \in Nat /\ DOMAIN map[p] = 1..Len(map[p]) /\ count[gen[p]] \in Nat
    BY <1>2, <2>2, Ranges
  <2> QED
    BY <2>1, <2>3, <2>4 DEF Has
<1> QED
  BY <1>1, <1>3

\* Processes that stay attached to removed memory share no value file with
\* those of the memory that shmcache_init created in its place, unless one of
\* the two was mapped further after its removal or was not removed to the end.
THEOREM GenerationsApart == Spec => []FilesApart
<1>1. RemovalInv => FilesApart
  <2> SUFFICES ASSUME RemovalInv, NEW p \in Proc, NEW q \in Proc, gen[p] # gen[q],
                      NEW i \in DOMAIN map[p] \cap DOMAIN map[q], map[p][i] = map[q][i],
                      gen[p] \notin Disturbed, gen[q] \notin Disturbed
               PROVE  FALSE
    BY DEF FilesApart
  <2>1. /\ gen[p] \notin Dirty /\ gen[q] \notin Dirty /\ i \in 1..MaxSegments
        /\ Has(p, i) /\ Has(q, i)
    BY Undisturbed
  <2> QED
    BY <2>1 DEF RemovalInv, ApartInv
<1> QED
  BY RemovalInvariant, <1>1, PTL

\* All processes of a generation have mapped the same file as each of its
\* value segments (shmopt_open_value_segments finds them by name), under the
\* same condition.
THEOREM OneFilePerSegment == Spec => []SameFiles
<1>1. RemovalInv => SameFiles
  <2> SUFFICES ASSUME RemovalInv, NEW p \in Proc, NEW q \in Proc, gen[p] = gen[q],
                      gen[p] \notin Disturbed, NEW i \in DOMAIN map[p] \cap DOMAIN map[q]
               PROVE  map[p][i] = map[q][i]
    BY DEF SameFiles
  <2>1. gen[p] \notin Dirty
    BY DEF Disturbed, Dirty
  <2> QED
    BY <2>1 DEF RemovalInv, AgreeInv
<1> QED
  BY RemovalInvariant, <1>1, PTL

\* When shmcache_remove_all returns 0 and no removal failed, the names of the
\* memory it was called for are gone, but for those made again meanwhile.
THEOREM SuccessMeansGone == Spec => []RemovedMeansGone
<1>1. RemovalInv => RemovedMeansGone
  BY DEF RemovalInv, GoneInv, RemovedMeansGone, Succeeded, NamesGone, MyCount
<1> QED
  BY RemovalInvariant, <1>1, PTL
=============================================================================
