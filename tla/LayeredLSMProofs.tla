-------------------------- MODULE LayeredLSMProofs ---------------------------
(***************************************************************************)
(* AppL's LSM-tree, for every number of blocks, levels and runs: merges    *)
(* and forced rewrites keep runs, slots, pool and counters exact; and,     *)
(* where none of the disagreements of the README applies, reads find the   *)
(* last copy and no stale copy is ever taken for it.                       *)
(***************************************************************************)
EXTENDS LayeredLSM, FiniteSetTheorems, SequenceTheorems, TLAPS

-----------------------------------------------------------------------------
(* The inductive invariant.                                                *)

(* A level: its slots hold runs, each run once, and the recency list names  *)
(* the slots in use, once each.                                            *)
LevelOK(lev, n) ==
    /\ lev.slot \in [1..n -> Idx \cup {None}] /\ lev.order \in Seq(1..n)
    /\ lev = [slot |-> lev.slot, order |-> lev.order]
    /\ IsInjective(lev.order)
    /\ \A s \in 1..n : lev.slot[s] # None <=> s \in ToSet(lev.order)
    /\ \A s, t \in ToSet(lev.order) : lev.slot[s] = lev.slot[t] => s = t

Held(lev) == {lev.slot[s] : s \in ToSet(lev.order)}

(* Every run is the memtable or in one level, the rest of the indices in    *)
(* the pool, and only the level a compaction looks at may be full.         *)
PlacesInv ==
    /\ \A i \in Lev : LevelOK(disk[i], LevelMax(i)) /\ mem \notin Held(disk[i])
    /\ \A i, j \in Lev : i # j => Held(disk[i]) \cap Held(disk[j]) = {}
    /\ Live = {mem} \cup UNION {Held(disk[i]) : i \in Lev}
    /\ IsInjective(free_q) /\ ToSet(free_q) = Idx \ Live
    /\ \A i \in Lev : Len(disk[i].order) < LevelMax(i) \/ (pc = "compact" /\ i = at)

(* The table names live runs that hold the block.                          *)
NamesLive == \A k \in Lba : sc[k] # None => sc[k] \in Live /\ k \in LbasOf(sc[k])

(* It names the memtable no more once that is flushed.                     *)
NoFlushedMem == pc # "idle" => \A k \in Lba : sc[k] # mem

(* The blocks of a sorted run are disjoint.                                *)
BlocksApart ==
    \A x \in Live \ {mem} : \A i, j \in DOMAIN info[x].stes :
        i # j => info[x].stes[i].lbas \cap info[x].stes[j].lbas = {}

NamesInv ==
    /\ NamesLive /\ NoFlushedMem /\ BlocksApart /\ UnlinkedExact
    /\ \A k \in written : sc[k] # None
    /\ info[mem].entries > 0 => info[mem].stes # <<>>

BooksInv == TypeOK /\ PlacesInv /\ NamesInv

(* The copies that are not exempt from the validity checks.                *)
Checked == Live \ (IF pc = "idle" THEN {} ELSE {mem})

(* Entry k of block ste in run x is older than the copy the table names.    *)
Older(x, ste, k) ==
    Newer(info[sc[k]], info[x]) \/ (ste.copied /\ Newer(info[sc[k]], ste))

LevelsInv ==
    /\ info[mem].level = 0
    /\ \A i \in Lev : \A x \in Held(disk[i]) : info[x].level = i
    /\ \A x \in Live : info[x].recency < now_recency
    /\ \A x \in Live : \A j \in DOMAIN info[x].stes :
          /\ info[x].stes[j].twice = {}
          /\ info[x].stes[j].copied => x # mem /\ info[x].stes[j].level <= info[x].level

CopiesInv ==
    /\ \A x \in Checked : \A j \in DOMAIN info[x].stes : \A k \in info[x].stes[j].lbas :
          sc[k] # None /\ (sc[k] # x => Older(x, info[x].stes[j], k))
    /\ \A k \in written : k \in info[sc[k]].fresh

-----------------------------------------------------------------------------
(* Least and greatest elements, and induction over a set of numbers.       *)

LEMMA LeastOf ==
    ASSUME NEW R, IsWellFoundedOn(R, Nat), \A x, y \in Nat : y < x => <<y, x>> \in R,
           NEW T, T \subseteq Nat, T # {}
    PROVE  \E x \in T : \A y \in T : x <= y
<1>1. PICK x \in T : \A y \in T : ~(<<y, x>> \in R)
  BY WFMin, Zenon
<1>2. \A y \in T : x \in Nat /\ y \in Nat /\ ~(y < x)
  BY <1>1
<1>3. \A y \in T : x <= y
  BY <1>2
<1> QED BY <1>3

LEMMA LessIsRelation == \A x, y \in Nat : y < x => <<y, x>> \in OpToRel(<, Nat)
  BY DEF OpToRel

LEMMA Least ==
    ASSUME NEW T, T \subseteq Nat, T # {}
    PROVE  \E x \in T : \A y \in T : x <= y
  BY LeastOf, LessIsRelation, NatLessThanWellFounded, Zenon

(* Induction over the natural numbers, for a set.                          *)
LEMMA SetInduction ==
    ASSUME NEW S, S \subseteq Nat, 0 \in S, \A n \in S : n + 1 \in S
    PROVE  Nat \subseteq S
<1> SUFFICES ASSUME Nat \ S # {} PROVE FALSE
  OBVIOUS
<1>1. PICK x \in Nat \ S : \A y \in Nat \ S : x <= y
  BY Least
<1>2. x - 1 \in Nat /\ x - 1 \notin Nat \ S
  BY <1>1
<1> QED BY <1>1, <1>2

LEMMA MinLeast ==
    ASSUME NEW T, T \subseteq Nat, T # {}
    PROVE  Min(T) \in T /\ \A y \in T : Min(T) <= y
<1>1. \E x \in T : \A y \in T : x <= y
  BY Least
<1> QED BY <1>1 DEF Min

(* A finite set without its element u has one element less.                *)
LEMMA OneLess ==
    ASSUME NEW n \in Nat, NEW U, IsFiniteSet(U), Cardinality(U) = n + 1
    PROVE  \E u \in U : IsFiniteSet(U \ {u}) /\ Cardinality(U \ {u}) = n
<1>1. U # {}
  BY FS_EmptySet
<1>2. \A u \in U : IsFiniteSet(U \ {u}) /\ Cardinality(U \ {u}) = n
  BY FS_RemoveElement
<1> QED BY <1>1, <1>2

LEMMA Greatest ==
    ASSUME NEW T, T \subseteq Nat, IsFiniteSet(T), T # {}
    PROVE  \E x \in T : \A y \in T : x >= y
<1> DEFINE C == {n \in Nat : \A U \in SUBSET T : Cardinality(U) = n + 1
                              => \E x \in U : \A y \in U : x >= y}
<1>1. 0 \in C
  <2> SUFFICES ASSUME NEW U \in SUBSET T, Cardinality(U) = 1
               PROVE  \E x \in U : \A y \in U : x >= y
    OBVIOUS
  <2>1. PICK x : U = {x}
    BY FS_Subset, FS_Singleton
  <2> QED BY <2>1
<1>2. ASSUME NEW n \in C PROVE n + 1 \in C
  <2> SUFFICES ASSUME NEW U \in SUBSET T, Cardinality(U) = (n + 1) + 1
               PROVE  \E x \in U : \A y \in U : x >= y
    OBVIOUS
  <2>0. n \in Nat /\ n + 1 \in Nat
    OBVIOUS
  <2>1. IsFiniteSet(U)
    BY FS_Subset
  <2>2. PICK u \in U : Cardinality(U \ {u}) = n + 1
    BY <2>0, <2>1, OneLess
  <2>3. PICK x \in U \ {u} : \A y \in U \ {u} : x >= y
    BY <2>2, <1>2
  <2>4. x \in Nat /\ u \in Nat /\ \A y \in U : y \in Nat
    OBVIOUS
  <2>5. CASE x >= u
    BY <2>3, <2>5
  <2>6. CASE u >= x
    <3>1. \A y \in U : u >= y
      BY <2>3, <2>4, <2>6
    <3> QED BY <3>1
  <2> QED BY <2>4, <2>5, <2>6
<1>3. Nat \subseteq C
  <2>1. C \subseteq Nat
    OBVIOUS
  <2> HIDE DEF C
  <2> QED BY <1>1, <1>2, <2>1, SetInduction
<1>4. Cardinality(T) \in Nat /\ Cardinality(T) # 0
  BY FS_CardinalityType, FS_EmptySet
<1>5. Cardinality(T) - 1 \in C
  BY <1>3, <1>4
<1> QED BY <1>4, <1>5

LEMMA MaxGreatest ==
    ASSUME NEW T, T \subseteq Nat, IsFiniteSet(T), T # {}
    PROVE  Max(T) \in T /\ \A y \in T : Max(T) >= y
<1>1. \E x \in T : \A y \in T : x >= y
  BY Greatest
<1> QED BY <1>1 DEF Max

-----------------------------------------------------------------------------
(* Sequences of distinct elements.                                         *)

LEMMA DistinctLen ==
    ASSUME NEW S, NEW s \in Seq(S), IsInjective(s)
    PROVE  /\ IsFiniteSet(ToSet(s)) /\ Cardinality(ToSet(s)) = Len(s)
           /\ ToSet(s) \subseteq S
<1>1. Len(s) \in Nat /\ DOMAIN s = 1..Len(s) /\ s \in [1..Len(s) -> S]
  BY LenProperties
<1>2. s \in Bijection(1..Len(s), ToSet(s))
  BY <1>1 DEF Bijection, Injection, Surjection, IsInjective, ToSet
<1>3. ExistsBijection(1..Len(s), ToSet(s))
  BY <1>2 DEF ExistsBijection
<1>4. IsFiniteSet(1..Len(s)) /\ Cardinality(1..Len(s)) = Len(s)
  BY <1>1, FS_Interval
<1>5. ToSet(s) \subseteq S
  BY <1>1 DEF ToSet
<1> QED BY <1>3, <1>4, <1>5, FS_Bijection

LEMMA SeqOfFunction ==
    ASSUME NEW S, NEW n \in Nat, NEW f \in [1..n -> S]
    PROVE  f \in Seq(S) /\ Len(f) = n
<1>1. f \in Seq(S)
  BY SeqDef
<1>2. DOMAIN f = 1..n /\ DOMAIN f = 1..Len(f) /\ Len(f) \in Nat
  BY <1>1, LenProperties
<1> QED BY <1>1, <1>2

LEMMA ConsDistinct ==
    ASSUME NEW S, NEW s \in Seq(S), NEW e \in S, e \notin ToSet(s), IsInjective(s)
    PROVE  /\ <<e>> \o s \in Seq(S) /\ IsInjective(<<e>> \o s)
           /\ ToSet(<<e>> \o s) = ToSet(s) \cup {e} /\ Len(<<e>> \o s) = Len(s) + 1
<1>1. Len(s) \in Nat /\ DOMAIN s = 1..Len(s) /\ \A i \in 1..Len(s) : s[i] \in S
  BY LenProperties, ElementOfSeq
<1>2. /\ <<e>> \o s \in Seq(S) /\ Len(<<e>> \o s) = Len(s) + 1
      /\ DOMAIN (<<e>> \o s) = 1..Len(s) + 1
      /\ \A i \in 1..Len(s) + 1 : (<<e>> \o s)[i] = IF i = 1 THEN e ELSE s[i - 1]
  BY <1>1
<1> DEFINE c == <<e>> \o s
<1> HIDE DEF c
<1>3. \A i \in 1..Len(s) + 1 : i = 1 \/ i - 1 \in 1..Len(s)
  BY <1>1
<1>4. IsInjective(c)
  BY <1>1, <1>2, <1>3 DEF IsInjective, ToSet, c
<1>5. ToSet(c) = ToSet(s) \cup {e}
  <2>1. c[1] = e /\ 1 \in DOMAIN c /\ \A i \in 1..Len(s) : i + 1 \in DOMAIN c /\ c[i + 1] = s[i]
    BY <1>1, <1>2 DEF c
  <2>2. \A i \in DOMAIN c : c[i] = e \/ (i - 1 \in 1..Len(s) /\ c[i] = s[i - 1])
    BY <1>1, <1>2, <1>3 DEF c
  <2>3. ToSet(c) \subseteq ToSet(s) \cup {e}
    BY <1>1, <2>2 DEF ToSet
  <2>4. ToSet(s) \cup {e} \subseteq ToSet(c)
    BY <1>1, <2>1 DEF ToSet
  <2> QED BY <2>3, <2>4
<1> QED BY <1>2, <1>4, <1>5 DEF c

LEMMA RemoveDistinct ==
    ASSUME NEW S, NEW s \in Seq(S), IsInjective(s), NEW p \in 1..Len(s)
    PROVE  /\ RemoveAt(s, p) \in Seq(S) /\ IsInjective(RemoveAt(s, p))
           /\ ToSet(RemoveAt(s, p)) = ToSet(s) \ {s[p]} /\ Len(RemoveAt(s, p)) = Len(s) - 1
<1>1. Len(s) \in Nat /\ DOMAIN s = 1..Len(s) /\ \A i \in 1..Len(s) : s[i] \in S
  BY LenProperties, ElementOfSeq
<1> DEFINE c == RemoveAt(s, p)
<1> DEFINE a == SubSeq(s, 1, p - 1)
           b == SubSeq(s, p + 1, Len(s))
<1>2. a \in Seq(S) /\ Len(a) = p - 1 /\ \A i \in 1..p - 1 : a[i] = s[i]
  <2>1. 1 \in Int /\ p - 1 \in Int /\ \A i \in 1..p - 1 : s[i] \in S
    BY <1>1
  <2>2. /\ a \in Seq(S) /\ Len(a) = IF 1 <= p - 1 THEN (p - 1) - 1 + 1 ELSE 0
        /\ \A i \in 1..(p - 1) - 1 + 1 : a[i] = s[1 + i - 1]
    BY <2>1, SubSeqProperties
  <2> HIDE DEF a
  <2>3. (p - 1) - 1 + 1 = p - 1 /\ \A i \in 1..p - 1 : 1 + i - 1 = i
    BY <1>1
  <2> QED BY <1>1, <2>2, <2>3
<1>3. b \in Seq(S) /\ Len(b) = Len(s) - p /\ \A i \in 1..Len(s) - p : b[i] = s[p + i]
  <2>1. p + 1 \in Int /\ Len(s) \in Int /\ \A i \in p + 1..Len(s) : s[i] \in S
    BY <1>1
  <2>2. /\ b \in Seq(S) /\ Len(b) = IF p + 1 <= Len(s) THEN Len(s) - (p + 1) + 1 ELSE 0
        /\ \A i \in 1..Len(s) - (p + 1) + 1 : b[i] = s[(p + 1) + i - 1]
    BY <2>1, SubSeqProperties
  <2> HIDE DEF b
  <2>3. Len(s) - (p + 1) + 1 = Len(s) - p /\ \A i \in 1..Len(s) - p : (p + 1) + i - 1 = p + i
    BY <1>1
  <2>4. Len(b) = Len(s) - p
    <3>1. p \in Int /\ Len(s) \in Int /\ p <= Len(s)
      BY <1>1
    <3>2. Len(b) = IF p + 1 <= Len(s) THEN Len(s) - (p + 1) + 1 ELSE 0
      BY <2>2
    <3> QED BY <3>1, <3>2
  <2> QED BY <2>2, <2>3, <2>4
<1>4. /\ c \in Seq(S) /\ Len(c) = Len(s) - 1 /\ DOMAIN c = 1..Len(s) - 1
      /\ \A i \in 1..Len(s) - 1 : c[i] = IF i < p THEN s[i] ELSE s[i + 1]
  <2>1. c = a \o b
    BY DEF RemoveAt
  <2> HIDE DEF a, b, c
  <2>2. /\ c \in Seq(S) /\ Len(c) = Len(a) + Len(b)
        /\ \A i \in 1..Len(a) + Len(b) : c[i] = IF i <= Len(a) THEN a[i] ELSE b[i - Len(a)]
    BY <1>2, <1>3, <2>1, ConcatProperties
  <2>3. Len(a) + Len(b) = Len(s) - 1 /\ DOMAIN c = 1..Len(c)
    BY <1>1, <1>2, <1>3, <2>2, LenProperties
  <2>4. ASSUME NEW i \in 1..Len(s) - 1 PROVE c[i] = IF i < p THEN s[i] ELSE s[i + 1]
    <3>1. CASE i < p
      <4>1. i \in 1..p - 1 /\ i <= Len(a)
        BY <1>1, <1>2, <3>1
      <4> QED BY <1>2, <2>2, <2>3, <3>1, <4>1
    <3>2. CASE ~(i < p)
      <4>1. i - Len(a) \in 1..Len(s) - p /\ ~(i <= Len(a)) /\ p + (i - Len(a)) = i + 1
        BY <1>1, <1>2, <3>2
      <4> QED BY <1>3, <2>2, <2>3, <3>2, <4>1
    <3> QED BY <3>1, <3>2
  <2> QED BY <2>2, <2>3, <2>4
<1> HIDE DEF c
<1>5. \A i, j \in 1..Len(s) : s[i] = s[j] => i = j
  BY <1>1 DEF IsInjective
<1>6. IsInjective(c)
  BY <1>1, <1>4, <1>5 DEF IsInjective
<1>7. ToSet(c) \subseteq ToSet(s) \ {s[p]}
  BY <1>1, <1>4, <1>5 DEF ToSet
<1>8. ASSUME NEW x \in ToSet(s) \ {s[p]} PROVE x \in ToSet(c)
  <2>1. PICK i \in 1..Len(s) : x = s[i] /\ i # p
    BY <1>1 DEF ToSet
  <2>2. CASE i < p
    BY <1>1, <1>4, <2>1, <2>2 DEF ToSet
  <2>3. CASE i > p
    <3>1. i - 1 \in 1..Len(s) - 1 /\ ~(i - 1 < p) /\ (i - 1) + 1 = i
      BY <1>1, <2>3
    <3> QED BY <1>4, <2>1, <3>1 DEF ToSet
  <2> QED BY <2>1, <2>2, <2>3
<1> QED BY <1>4, <1>6, <1>7, <1>8 DEF c

-----------------------------------------------------------------------------
(* Levels.                                                                 *)

LEMMA Shape ==
    /\ \A i \in Lev : LevelMax(i) \in Nat /\ LevelMax(i) >= 2
    /\ Lev \subseteq Nat /\ 1 \in Lev /\ TotalLevel \in Lev /\ 1 # TotalLevel
    /\ \A i \in Lev : i # TotalLevel => i + 1 \in Lev /\ i < TotalLevel
    /\ \A x \in Idx : x \in Nat /\ x # None
  BY ShapeAssumption, NoneAssumption, PoolAssumption DEF LevelMax, Lev, Idx

LEMMA EmptyLevel ==
    ASSUME NEW i \in Lev
    PROVE  /\ LevelOK(LevelInit(i), LevelMax(i)) /\ Held(LevelInit(i)) = {}
           /\ Len(LevelInit(i).order) = 0
<1>1. <<>> \in Seq(1..LevelMax(i)) /\ Len(<<>>) = 0 /\ DOMAIN <<>> = {} /\ ToSet(<<>>) = {}
  BY DEF ToSet
<1>2. IsInjective(<<>>)
  BY <1>1 DEF IsInjective
<1> QED BY <1>1, <1>2 DEF LevelInit, LevelOK, Held

(* level_insert_run finds an empty slot in a level that is not full.       *)
LEMMA FreeSlotFound ==
    ASSUME NEW n \in Nat, NEW lev, LevelOK(lev, n), Len(lev.order) < n
    PROVE  FreeSlot(lev) \in 1..n /\ FreeSlot(lev) \notin ToSet(lev.order)
<1> DEFINE empty == {s \in DOMAIN lev.slot : lev.slot[s] = None}
           later == {s \in empty : s > Len(lev.order)}
<1>1. DOMAIN lev.slot = 1..n /\ empty \subseteq Nat /\ later \subseteq Nat
  BY DEF LevelOK
<1>2. empty # {}
  <2> SUFFICES ASSUME empty = {} PROVE FALSE
    OBVIOUS
  <2>1. /\ Cardinality(ToSet(lev.order)) = Len(lev.order) /\ ToSet(lev.order) \subseteq 1..n
    BY DistinctLen DEF LevelOK
  <2>2. ToSet(lev.order) = 1..n
    BY <1>1, <2>1 DEF LevelOK
  <2>3. Cardinality(1..n) = n
    BY FS_Interval
  <2> QED BY <2>1, <2>2, <2>3
<1>3. FreeSlot(lev) = IF later # {} THEN Min(later) ELSE Min(empty)
  BY DEF FreeSlot
<1>4. FreeSlot(lev) \in empty
  <2>1. later # {} => Min(later) \in later
    BY <1>1, MinLeast
  <2>2. Min(empty) \in empty
    BY <1>1, <1>2, MinLeast
  <2>3. later \subseteq empty
    OBVIOUS
  <2> HIDE DEF empty, later
  <2> QED BY <1>3, <2>1, <2>2, <2>3
<1> QED BY <1>1, <1>4 DEF LevelOK

LEMMA InsertLevel ==
    ASSUME NEW n \in Nat, NEW lev, LevelOK(lev, n), Len(lev.order) < n, NEW x \in Idx, x \notin Held(lev)
    PROVE  /\ LevelOK(LevelInsertRun(lev, x), n)
           /\ Held(LevelInsertRun(lev, x)) = Held(lev) \cup {x}
           /\ Len(LevelInsertRun(lev, x).order) = Len(lev.order) + 1
<1> DEFINE f == FreeSlot(lev)
           new == LevelInsertRun(lev, x)
<1>1. f \in 1..n /\ f \notin ToSet(lev.order)
  BY FreeSlotFound
<1>2. /\ new.slot = [lev.slot EXCEPT ![f] = x] /\ new.order = <<f>> \o lev.order
      /\ new = [slot |-> new.slot, order |-> new.order]
  BY DEF LevelInsertRun
<1> HIDE DEF f, new
<1>3. /\ lev.order \in Seq(1..n) /\ IsInjective(lev.order) /\ ToSet(lev.order) \subseteq 1..n
      /\ lev.slot \in [1..n -> Idx \cup {None}]
  BY DistinctLen DEF LevelOK
<1>4. /\ new.order \in Seq(1..n) /\ IsInjective(new.order)
      /\ ToSet(new.order) = ToSet(lev.order) \cup {f} /\ Len(new.order) = Len(lev.order) + 1
  BY <1>1, <1>2, <1>3, ConsDistinct
<1>5. /\ new.slot \in [1..n -> Idx \cup {None}]
      /\ \A s \in 1..n : new.slot[s] = IF s = f THEN x ELSE lev.slot[s]
  BY <1>1, <1>2, <1>3
<1>6. \A s \in 1..n : new.slot[s] # None <=> s \in ToSet(new.order)
  BY <1>1, <1>4, <1>5, Shape DEF LevelOK
<1>7. \A s, t \in ToSet(new.order) : new.slot[s] = new.slot[t] => s = t
  BY <1>1, <1>3, <1>4, <1>5 DEF LevelOK, Held
<1>8. Held(new) = Held(lev) \cup {x}
  BY <1>1, <1>3, <1>4, <1>5 DEF Held
<1>9. LevelOK(new, n)
  BY <1>2, <1>4, <1>5, <1>6, <1>7 DEF LevelOK
<1> QED BY <1>4, <1>8, <1>9 DEF new

LEMMA PlaceFound ==
    ASSUME NEW n \in Nat, NEW lev, LevelOK(lev, n), NEW s \in ToSet(lev.order)
    PROVE  PlaceOf(lev, s) \in 1..Len(lev.order) /\ lev.order[PlaceOf(lev, s)] = s
<1>1. \E i \in DOMAIN lev.order : lev.order[i] = s
  BY DEF ToSet
<1>2. DOMAIN lev.order = 1..Len(lev.order)
  BY LenProperties DEF LevelOK
<1> QED BY <1>1, <1>2 DEF PlaceOf

LEMMA RemoveLevel ==
    ASSUME NEW n \in Nat, NEW lev, LevelOK(lev, n), NEW s \in ToSet(lev.order)
    PROVE  /\ LevelOK(LevelRemove(lev, s), n)
           /\ Held(LevelRemove(lev, s)) = Held(lev) \ {lev.slot[s]}
           /\ Len(LevelRemove(lev, s).order) = Len(lev.order) - 1
           /\ ToSet(LevelRemove(lev, s).order) = ToSet(lev.order) \ {s}
           /\ \A t \in ToSet(lev.order) \ {s} : LevelRemove(lev, s).slot[t] = lev.slot[t]
<1> DEFINE p == PlaceOf(lev, s)
           new == LevelRemove(lev, s)
<1>1. p \in 1..Len(lev.order) /\ lev.order[p] = s
  BY PlaceFound
<1>2. /\ new.slot = [lev.slot EXCEPT ![s] = None] /\ new.order = RemoveAt(lev.order, p)
      /\ new = [slot |-> new.slot, order |-> new.order]
  BY DEF LevelRemove
<1> HIDE DEF p, new
<1>3. /\ lev.order \in Seq(1..n) /\ IsInjective(lev.order) /\ ToSet(lev.order) \subseteq 1..n
      /\ lev.slot \in [1..n -> Idx \cup {None}] /\ s \in 1..n
  BY DistinctLen DEF LevelOK
<1>4. /\ new.order \in Seq(1..n) /\ IsInjective(new.order)
      /\ ToSet(new.order) = ToSet(lev.order) \ {s} /\ Len(new.order) = Len(lev.order) - 1
  <2>1. /\ RemoveAt(lev.order, p) \in Seq(1..n) /\ IsInjective(RemoveAt(lev.order, p))
        /\ ToSet(RemoveAt(lev.order, p)) = ToSet(lev.order) \ {lev.order[p]}
        /\ Len(RemoveAt(lev.order, p)) = Len(lev.order) - 1
    BY <1>1, <1>3, RemoveDistinct
  <2> QED BY <1>1, <1>2, <2>1
<1>5. /\ new.slot \in [1..n -> Idx \cup {None}]
      /\ \A t \in 1..n : new.slot[t] = IF t = s THEN None ELSE lev.slot[t]
  BY <1>2, <1>3
<1>6. \A t \in 1..n : new.slot[t] # None <=> t \in ToSet(new.order)
  BY <1>4, <1>5 DEF LevelOK
<1>7. \A t, u \in ToSet(new.order) : new.slot[t] = new.slot[u] => t = u
  BY <1>3, <1>4, <1>5 DEF LevelOK
<1>8. Held(new) = Held(lev) \ {lev.slot[s]}
  <2>1. \A t, u \in ToSet(lev.order) : lev.slot[t] = lev.slot[u] => t = u
    BY DEF LevelOK
  <2> QED BY <1>3, <1>4, <1>5, <2>1 DEF Held
<1>9. LevelOK(new, n)
  BY <1>2, <1>4, <1>5, <1>6, <1>7 DEF LevelOK
<1> QED BY <1>3, <1>4, <1>5, <1>8, <1>9 DEF new

(* The runs a merge of the last level leaves are all put back.             *)
LEMMA RebuildLevel ==
    ASSUME NEW i \in Lev, NEW lev, LevelOK(lev, LevelMax(i)), Len(lev.order) # 2
    PROVE  /\ LevelOK(Rebuild(lev, i), LevelMax(i)) /\ Held(Rebuild(lev, i)) = Held(lev)
           /\ Len(Rebuild(lev, i).order) = Len(lev.order)
<1> DEFINE n == Len(lev.order)
           m == LevelMax(i)
           new == Rebuild(lev, i)
<1>1. /\ new.slot = [s \in 1..m |-> IF s <= n THEN lev.slot[lev.order[n + 1 - s]] ELSE None]
      /\ new.order = [j \in 1..n |-> n + 1 - j]
      /\ new = [slot |-> new.slot, order |-> new.order]
  BY DEF Rebuild
<1>2. /\ lev.order \in Seq(1..m) /\ IsInjective(lev.order) /\ DOMAIN lev.order = 1..n
      /\ lev.slot \in [1..m -> Idx \cup {None}] /\ n \in Nat /\ m \in Nat
      /\ \A j \in 1..n : lev.order[j] \in 1..m
      /\ ToSet(lev.order) = {lev.order[j] : j \in 1..n}
  BY LenProperties, ElementOfSeq, Shape DEF LevelOK, ToSet
<1>3. n <= m
  <2>1. Cardinality(ToSet(lev.order)) = n /\ ToSet(lev.order) \subseteq 1..m
    BY <1>2, DistinctLen
  <2>2. Cardinality(1..m) = m /\ IsFiniteSet(1..m)
    BY <1>2, FS_Interval
  <2>3. Cardinality(ToSet(lev.order)) <= Cardinality(1..m)
    BY <2>1, <2>2, FS_Subset
  <2> QED BY <2>1, <2>2, <2>3
<1> HIDE DEF n, m, new
<1>4. \A j \in 1..n : n + 1 - j \in 1..n /\ n + 1 - j \in 1..m /\ n + 1 - (n + 1 - j) = j
  BY <1>2, <1>3
<1>5. /\ new.order \in Seq(1..m) /\ DOMAIN new.order = 1..n /\ Len(new.order) = n
      /\ \A j \in 1..n : new.order[j] = n + 1 - j
  <2>1. /\ new.order \in [1..n -> 1..m] /\ DOMAIN new.order = 1..n
        /\ \A j \in 1..n : new.order[j] = n + 1 - j
    BY <1>1, <1>2, <1>4
  <2> QED BY <1>2, <2>1, SeqOfFunction
<1>6. ToSet(new.order) = 1..n /\ IsInjective(new.order)
  <2>1. IsInjective(new.order)
    <3> SUFFICES ASSUME NEW a \in 1..n, NEW b \in 1..n, n + 1 - a = n + 1 - b PROVE a = b
      BY <1>5 DEF IsInjective
    <3> QED BY <1>2
  <2>2. ToSet(new.order) = 1..n
    <3>1. ToSet(new.order) \subseteq 1..n
      BY <1>4, <1>5 DEF ToSet
    <3>2. ASSUME NEW j \in 1..n PROVE j \in ToSet(new.order)
      <4>1. n + 1 - j \in DOMAIN new.order /\ new.order[n + 1 - j] = j
        BY <1>4, <1>5
      <4> QED BY <4>1 DEF ToSet
    <3> QED BY <3>1, <3>2
  <2> QED BY <2>1, <2>2
<1>7. /\ \A s \in 1..n : new.slot[s] = lev.slot[lev.order[n + 1 - s]] /\ lev.order[n + 1 - s] \in ToSet(lev.order)
      /\ \A s \in 1..m : s \notin 1..n => new.slot[s] = None
      /\ new.slot \in [1..m -> Idx \cup {None}]
  <2>1. \A s \in 1..m : s <= n <=> s \in 1..n
    BY <1>2
  <2>2. \A s \in 1..n : lev.order[n + 1 - s] \in ToSet(lev.order) /\ lev.order[n + 1 - s] \in 1..m
    BY <1>2, <1>4
  <2>3. \A s \in 1..n : s \in 1..m
    BY <1>2, <1>3
  <2> QED BY <1>1, <1>2, <2>1, <2>2, <2>3
<1>8. \A s \in 1..m : new.slot[s] # None <=> s \in ToSet(new.order)
  <2>1. \A s \in ToSet(lev.order) : lev.slot[s] # None
    BY <1>2 DEF LevelOK, m
  <2> QED BY <1>6, <1>7, <2>1
<1>9. \A s, t \in ToSet(new.order) : new.slot[s] = new.slot[t] => s = t
  <2> SUFFICES ASSUME NEW s \in 1..n, NEW t \in 1..n, new.slot[s] = new.slot[t]
               PROVE  s = t
    BY <1>6
  <2>1. lev.order[n + 1 - s] = lev.order[n + 1 - t]
    BY <1>7 DEF LevelOK, m
  <2>2. n + 1 - s = n + 1 - t
    BY <1>2, <1>4, <2>1 DEF IsInjective
  <2> QED BY <1>2, <2>2
<1>10. Held(new) = Held(lev)
  <2>1. Held(new) \subseteq Held(lev)
    BY <1>6, <1>7 DEF Held
  <2>2. ASSUME NEW x \in Held(lev) PROVE x \in Held(new)
    <3>1. PICK j \in 1..n : x = lev.slot[lev.order[j]]
      BY <1>2 DEF Held
    <3>2. n + 1 - j \in 1..n /\ new.slot[n + 1 - j] = x
      BY <1>4, <1>7, <3>1
    <3> QED BY <1>6, <3>2 DEF Held
  <2> QED BY <2>1, <2>2
<1>11. LevelOK(new, m)
  BY <1>1, <1>5, <1>6, <1>7, <1>8, <1>9 DEF LevelOK
<1> QED BY <1>5, <1>10, <1>11 DEF n, m, new

-----------------------------------------------------------------------------
(* The scan for the largest unlinked share.                                *)

LEMMA TimesMonotone ==
    ASSUME NEW x \in Nat, NEW y \in Nat, NEW z \in Nat, x <= y
    PROVE  x * z <= y * z
  OBVIOUS

LEMMA TimesStrict ==
    ASSUME NEW x \in Nat, NEW y \in Nat, NEW z \in Nat \ {0}, x < y
    PROVE  x * z < y * z
  OBVIOUS

(* Shares are compared by cross-multiplication, which is transitive.        *)
LEMMA SharesOrdered ==
    ASSUME NEW a \in Nat, NEW b \in Nat, NEW c \in Nat,
           NEW ae \in Nat \ {0}, NEW be \in Nat \ {0}, NEW ce \in Nat \ {0},
           a * be > b * ae, c * be <= b * ce
    PROVE  a * ce > c * ae
<1>1. (b * ae) * ce < (a * be) * ce
  BY TimesStrict, b * ae \in Nat, a * be \in Nat
<1>2. (c * be) * ae <= (b * ce) * ae
  BY TimesMonotone, c * be \in Nat, b * ce \in Nat
<1>3. (b * ce) * ae = (b * ae) * ce /\ (a * be) * ce = (a * ce) * be /\ (c * be) * ae = (c * ae) * be
  OBVIOUS
<1>4. (c * ae) * be < (a * ce) * be
  <2>1. (c * be) * ae \in Nat /\ (b * ce) * ae \in Nat /\ (a * be) * ce \in Nat
    OBVIOUS
  <2> QED BY <1>1, <1>2, <1>3, <2>1
<1> QED BY <1>4, TimesMonotone, c * ae \in Nat, a * ce \in Nat

(* The slots a scan looks at hold runs with entries.                       *)
Scannable(lev, S) ==
    \A s \in S : info[lev.slot[s]].unlinked \in Nat /\ info[lev.slot[s]].entries \in Nat \ {0}

(* Slot s holds the first of the largest shares among those of S.          *)
FirstOfMost(lev, S, s) ==
    \A t \in S \ {s} : IF t < s THEN MoreUnlinked(lev.slot[s], lev.slot[t])
                                ELSE ~MoreUnlinked(lev.slot[t], lev.slot[s])

LEMMA FirstExists ==
    ASSUME NEW lev, NEW S, S \subseteq Nat, IsFiniteSet(S), S # {}, Scannable(lev, S)
    PROVE  \E s \in S : FirstOfMost(lev, S, s)
<1> DEFINE C == {n \in Nat : \A U \in SUBSET S : Cardinality(U) = n + 1
                              => \E s \in U : FirstOfMost(lev, U, s)}
<1>1. 0 \in C
  <2> SUFFICES ASSUME NEW U \in SUBSET S, Cardinality(U) = 1
               PROVE  \E s \in U : FirstOfMost(lev, U, s)
    OBVIOUS
  <2>1. PICK x : U = {x}
    BY FS_Subset, FS_Singleton
  <2> QED BY <2>1 DEF FirstOfMost
<1>2. ASSUME NEW n \in C PROVE n + 1 \in C
  <2> SUFFICES ASSUME NEW U \in SUBSET S, Cardinality(U) = (n + 1) + 1
               PROVE  \E s \in U : FirstOfMost(lev, U, s)
    OBVIOUS
  <2>0. /\ n \in Nat /\ n + 1 \in Nat
        /\ \A V \in SUBSET S : Cardinality(V) = n + 1 => \E s \in V : FirstOfMost(lev, V, s)
    OBVIOUS
  <2> HIDE DEF C
  <2>1. IsFiniteSet(U) /\ U # {} /\ U \subseteq Nat
    <3>1. IsFiniteSet(U)
      BY FS_Subset
    <3>2. Cardinality(U) # 0
      BY <2>0
    <3> QED BY <3>1, <3>2, FS_EmptySet
  <2>2. PICK g \in U : \A y \in U : g >= y
    BY <2>1, Greatest
  <2>3. Cardinality(U \ {g}) = n + 1
    <3>1. Cardinality(U \ {g}) = Cardinality(U) - 1
      BY <2>1, <2>2, FS_RemoveElement
    <3> QED BY <2>0, <3>1
  <2>4. PICK s \in U \ {g} : FirstOfMost(lev, U \ {g}, s)
    BY <2>0, <2>3
  <2>5. g \in Nat /\ s \in Nat /\ s < g /\ \A t \in U \ {g} : t \in Nat /\ t < g
    BY <2>1, <2>2
  <2>6. CASE ~MoreUnlinked(lev.slot[g], lev.slot[s])
    <3>1. FirstOfMost(lev, U, s)
      BY <2>4, <2>5, <2>6 DEF FirstOfMost
    <3> QED BY <3>1
  <2>7. CASE MoreUnlinked(lev.slot[g], lev.slot[s])
    <3>1. ASSUME NEW t \in U \ {g} PROVE t < g /\ MoreUnlinked(lev.slot[g], lev.slot[t])
      <4>1. CASE t = s
        BY <2>5, <2>7, <4>1
      <4>2. CASE t # s
        <5> DEFINE a == info[lev.slot[g]].unlinked
                   ae == info[lev.slot[g]].entries
                   b == info[lev.slot[s]].unlinked
                   be == info[lev.slot[s]].entries
                   c == info[lev.slot[t]].unlinked
                   ce == info[lev.slot[t]].entries
        <5>1. /\ a \in Nat /\ b \in Nat /\ c \in Nat
              /\ ae \in Nat \ {0} /\ be \in Nat \ {0} /\ ce \in Nat \ {0}
          BY <2>1 DEF Scannable
        <5>2. a * be > b * ae
          BY <2>7 DEF MoreUnlinked
        <5>3. b * ce > c * be \/ ~(c * be > b * ce)
          BY <2>4, <4>2 DEF FirstOfMost, MoreUnlinked
        <5>4. (a * ce > c * ae) = MoreUnlinked(lev.slot[g], lev.slot[t])
          BY DEF MoreUnlinked
        <5> HIDE DEF a, ae, b, be, c, ce
        <5>5. c * be <= b * ce
          BY <5>1, <5>3, c * be \in Nat, b * ce \in Nat
        <5>6. a * ce > c * ae
          BY <5>1, <5>2, <5>5, SharesOrdered
        <5> QED BY <5>4, <5>6, <2>5
      <4> QED BY <4>1, <4>2
    <3>2. FirstOfMost(lev, U, g)
      BY <3>1 DEF FirstOfMost
    <3> QED BY <3>2
  <2> QED BY <2>6, <2>7
<1>3. Nat \subseteq C
  <2>1. C \subseteq Nat
    OBVIOUS
  <2> HIDE DEF C
  <2> QED BY <1>1, <1>2, <2>1, SetInduction
<1>4. Cardinality(S) \in Nat /\ Cardinality(S) # 0
  BY FS_CardinalityType, FS_EmptySet
<1>5. Cardinality(S) - 1 \in C
  BY <1>3, <1>4
<1> QED BY <1>4, <1>5

LEMMA MostUnlinkedFound ==
    ASSUME NEW lev, NEW S, S \subseteq Nat, IsFiniteSet(S), S # {}, Scannable(lev, S)
    PROVE  MostUnlinkedSlot(lev, S) \in S
<1>1. PICK s \in S : FirstOfMost(lev, S, s)
  BY FirstExists
<1>2. \A t \in S \ {s} : IF t < s THEN MoreUnlinked(lev.slot[s], lev.slot[t])
                                  ELSE ~MoreUnlinked(lev.slot[t], lev.slot[s])
  BY <1>1 DEF FirstOfMost
<1> HIDE DEF MoreUnlinked
<1> QED BY <1>2 DEF MostUnlinkedSlot

LEMMA ScannedUsed ==
    ASSUME NEW n \in Nat, NEW lev, LevelOK(lev, n), Held(lev) \subseteq Live, TypeOK
    PROVE  /\ ScannedSlots(lev) \subseteq ToSet(lev.order) /\ ToSet(lev.order) \subseteq 1..n
           /\ ScannedSlots(lev) \subseteq Nat /\ IsFiniteSet(ScannedSlots(lev))
           /\ Scannable(lev, ScannedSlots(lev))
<1>1. /\ Len(lev.order) \in Nat /\ ToSet(lev.order) \subseteq 1..n
      /\ Cardinality(ToSet(lev.order)) = Len(lev.order)
  BY LenProperties, DistinctLen DEF LevelOK
<1>2. Len(lev.order) <= n
  <2>1. IsFiniteSet(1..n) /\ Cardinality(1..n) = n
    BY FS_Interval
  <2>2. Cardinality(ToSet(lev.order)) <= Cardinality(1..n)
    BY <1>1, <2>1, FS_Subset
  <2> QED BY <1>1, <2>1, <2>2
<1>3. ScannedSlots(lev) \subseteq 1..Len(lev.order)
  BY DEF ScannedSlots
<1>4. ScannedSlots(lev) \subseteq 1..n
  BY <1>1, <1>2, <1>3
<1>5. ScannedSlots(lev) \subseteq ToSet(lev.order)
  BY <1>4 DEF ScannedSlots, LevelOK
<1>6. IsFiniteSet(ScannedSlots(lev))
  <2>1. IsFiniteSet(1..Len(lev.order))
    BY <1>1, FS_Interval
  <2> QED BY <1>3, <2>1, FS_Subset
<1>7. ASSUME NEW s \in ScannedSlots(lev)
      PROVE  info[lev.slot[s]].unlinked \in Nat /\ info[lev.slot[s]].entries \in Nat \ {0}
  <2>1. lev.slot[s] \in Live
    BY <1>5 DEF Held
  <2>2. info[lev.slot[s]] \in RunSet
    BY <2>1 DEF Live, TypeOK
  <2>3. info[lev.slot[s]].entries > 0
    BY DEF ScannedSlots
  <2> QED BY <2>2, <2>3 DEF RunSet
<1> QED BY <1>1, <1>4, <1>5, <1>6, <1>7 DEF Scannable

(* level_get_compaction_target chooses two slots in use.                    *)
LEMMA TwoFound ==
    ASSUME NEW n \in Nat, NEW lev, LevelOK(lev, n), Held(lev) \subseteq Live, TypeOK,
           Len(lev.order) >= 2, TargetsExist(lev)
    PROVE  \E a, b \in ToSet(lev.order) : a # b /\ TwoTargets(lev) = <<a, b>>
<1> DEFINE S == ScannedSlots(lev)
           first == MostUnlinkedSlot(lev, S)
           second == MostUnlinkedSlot(lev, S \ {first})
<1>1. /\ S \subseteq ToSet(lev.order) /\ S \subseteq Nat /\ IsFiniteSet(S) /\ Scannable(lev, S)
  BY ScannedUsed
<1>2. /\ 1 \in DOMAIN lev.order /\ 2 \in DOMAIN lev.order /\ lev.order[1] # lev.order[2]
      /\ lev.order[1] \in ToSet(lev.order) /\ lev.order[2] \in ToSet(lev.order)
  <2>1. Len(lev.order) \in Nat /\ DOMAIN lev.order = 1..Len(lev.order)
    BY LenProperties DEF LevelOK
  <2>2. 1 \in DOMAIN lev.order /\ 2 \in DOMAIN lev.order
    BY <2>1
  <2> QED BY <2>2 DEF LevelOK, IsInjective, ToSet
<1>3. ASSUME Len(lev.order) # 2 PROVE first \in S /\ second \in S \ {first}
  <2>1. Cardinality(S) >= 2
    BY <1>3 DEF TargetsExist
  <2>2. S # {}
    BY <2>1, FS_EmptySet
  <2>3. first \in S
    BY <1>1, <2>2, MostUnlinkedFound
  <2>4. IsFiniteSet(S \ {first}) /\ Cardinality(S \ {first}) = Cardinality(S) - 1
    BY <1>1, <2>3, FS_RemoveElement
  <2>5. S \ {first} # {}
    <3>1. Cardinality(S) \in Nat
      BY <1>1, FS_CardinalityType
    <3> QED BY <2>1, <2>4, <3>1, FS_EmptySet
  <2>6. Scannable(lev, S \ {first}) /\ S \ {first} \subseteq Nat
    BY <1>1 DEF Scannable
  <2> QED BY <2>3, <2>4, <2>5, <2>6, MostUnlinkedFound
<1>4. TwoTargets(lev) = IF Len(lev.order) = 2 \/ info[lev.slot[second]].unlinked = 0
                        THEN <<lev.order[1], lev.order[2]>>
                        ELSE IF PlaceOf(lev, first) < PlaceOf(lev, second)
                        THEN <<first, second>> ELSE <<second, first>>
  BY DEF TwoTargets
<1> HIDE DEF S, first, second
<1> QED BY <1>1, <1>2, <1>3, <1>4

-----------------------------------------------------------------------------
(* What a merge takes over.                                                *)

(* The sources of a merge: live runs, each once.                           *)
Sources(srcs) == srcs \in Seq(Live) /\ IsInjective(srcs)

LEMMA RunTyped ==
    ASSUME TypeOK, NEW x \in Live
    PROVE  /\ x \in Idx /\ info[x] \in RunSet /\ info[x].stes \in Seq(SteSet)
           /\ \A j \in DOMAIN info[x].stes : info[x].stes[j] \in SteSet
           /\ DOMAIN info[x].stes = 1..Len(info[x].stes) /\ Len(info[x].stes) \in Nat
<1>1. x \in Idx /\ info[x] \in RunSet
  BY DEF Live, TypeOK
<1>2. info[x].stes \in Seq(SteSet)
  BY <1>1 DEF RunSet
<1> QED BY <1>1, <1>2, LenProperties, ElementOfSeq

LEMMA LbaIn ==
    ASSUME NEW x, NEW k
    PROVE  k \in LbasOf(x) <=> \E j \in DOMAIN info[x].stes : k \in info[x].stes[j].lbas
  BY DEF LbasOf, ToSet

LEMMA SteBounds ==
    ASSUME NEW a \in SteSet
    PROVE  /\ a.lbas \subseteq Nat /\ IsFiniteSet(a.lbas) /\ a.lbas # {} /\ a.lbas \subseteq Lba
           /\ Start(a) \in a.lbas /\ \A k \in a.lbas : Start(a) <= k /\ k <= End(a)
<1>1. a.lbas \subseteq Lba /\ a.lbas # {}
  BY DEF SteSet
<1>2. a.lbas \subseteq Nat /\ IsFiniteSet(a.lbas)
  <2>1. Lba \subseteq Nat /\ IsFiniteSet(Lba)
    BY LbaAssumption
  <2>2. a.lbas \in SUBSET Lba
    BY <1>1
  <2>3. IsFiniteSet(a.lbas)
    BY <2>1, <2>2, FS_Subset
  <2> QED BY <2>1, <2>2, <2>3
<1>3. Min(a.lbas) \in a.lbas /\ \A k \in a.lbas : Min(a.lbas) <= k
  BY <1>1, <1>2, MinLeast
<1>4. Max(a.lbas) \in a.lbas /\ \A k \in a.lbas : Max(a.lbas) >= k
  BY <1>1, <1>2, MaxGreatest
<1> HIDE DEF Min, Max
<1>5. Max(a.lbas) \in Nat /\ \A k \in a.lbas : k \in Nat
  BY <1>2, <1>4
<1> QED BY <1>1, <1>2, <1>3, <1>4, <1>5 DEF Start, End

(* Blocks with a common entry overlap.                                     *)
LEMMA CommonOverlap ==
    ASSUME NEW a \in SteSet, NEW b \in SteSet, NEW k \in a.lbas, k \in b.lbas
    PROVE  Overlap(a, b)
<1>1. Start(a) <= k /\ k <= End(a) /\ Start(b) <= k /\ k <= End(b)
  BY SteBounds
<1>2. k \in Nat /\ Start(a) \in Nat /\ Start(b) \in Nat
  BY SteBounds
<1>3. End(a) \in Nat /\ End(b) \in Nat
  BY SteBounds, MaxGreatest DEF End
<1> QED BY <1>1, <1>2, <1>3 DEF Overlap

LEMMA BlockPair ==
    ASSUME NEW srcs, NEW e
    PROVE  e \in Blocks(srcs) <=>
             \E i \in DOMAIN srcs : \E j \in DOMAIN info[srcs[i]].stes : e = <<i, j>>
  BY DEF Blocks

LEMMA BlockTyped ==
    ASSUME TypeOK, NEW srcs, Sources(srcs), NEW e \in Blocks(srcs)
    PROVE  /\ SteOf(srcs, e) \in SteSet /\ srcs[e[1]] \in Live /\ e[1] \in DOMAIN srcs
           /\ e[2] \in DOMAIN info[srcs[e[1]]].stes /\ e = <<e[1], e[2]>>
<1>1. PICK i \in DOMAIN srcs : \E j \in DOMAIN info[srcs[i]].stes : e = <<i, j>>
  BY BlockPair
<1>2. PICK j \in DOMAIN info[srcs[i]].stes : e = <<i, j>>
  BY <1>1
<1>3. srcs[i] \in Live
  BY LenProperties, ElementOfSeq DEF Sources
<1> QED BY <1>2, <1>3, RunTyped DEF SteOf

LEMMA MovedAre ==
    ASSUME NEW srcs, NEW force, NEW e \in MovedBlocks(srcs, force)
    PROVE  e \in Blocks(srcs) /\ NonCopy(srcs, e[1], e[2])
<1>1. e \in Blocks(srcs) /\ e[2] \in Moved(srcs, e[1])
  BY DEF MovedBlocks
<1>2. e[2] \in {j \in DOMAIN info[srcs[e[1]]].stes : NonCopy(srcs, e[1], j)}
  BY <1>1 DEF Moved
<1> QED BY <1>1, <1>2

(* A moved block has no entry in common with another block of the sources.  *)
LEMMA MovedApart ==
    ASSUME TypeOK, BlocksApart, NEW srcs, Sources(srcs), NEW force,
           NEW e \in MovedBlocks(srcs, force), NEW d \in Blocks(srcs), d # e
    PROVE  SteOf(srcs, e).lbas \cap SteOf(srcs, d).lbas = {}
<1> SUFFICES ASSUME NEW k \in SteOf(srcs, e).lbas, k \in SteOf(srcs, d).lbas
             PROVE  FALSE
  OBVIOUS
<1>1. e \in Blocks(srcs) /\ NonCopy(srcs, e[1], e[2])
  BY MovedAre
<1>2. /\ SteOf(srcs, e) \in SteSet /\ e[1] \in DOMAIN srcs /\ srcs[e[1]] \in Live
      /\ e[2] \in DOMAIN info[srcs[e[1]]].stes /\ e = <<e[1], e[2]>>
  BY <1>1, BlockTyped
<1>3. /\ SteOf(srcs, d) \in SteSet /\ d[1] \in DOMAIN srcs
      /\ d[2] \in DOMAIN info[srcs[d[1]]].stes /\ d = <<d[1], d[2]>>
  BY BlockTyped
<1>4. Overlap(SteOf(srcs, e), SteOf(srcs, d))
  BY <1>2, <1>3, CommonOverlap
<1>5. d[1] = e[1] /\ (d[2] = e[2] \/ srcs[e[1]] # mem)
  BY <1>1, <1>3, <1>4 DEF NonCopy, SteOf
<1>6. d[2] # e[2] /\ srcs[e[1]] # mem
  BY <1>2, <1>3, <1>5
<1>7. info[srcs[e[1]]].stes[e[2]].lbas \cap info[srcs[e[1]]].stes[d[2]].lbas = {}
  BY <1>2, <1>3, <1>5, <1>6 DEF BlocksApart
<1> QED BY <1>5, <1>7 DEF SteOf

(* Copied entries come from blocks that are not moved.                     *)
LEMMA CopiedFrom ==
    ASSUME NEW srcs, NEW mv, NEW k \in Copied(srcs, mv)
    PROVE  /\ k \in Lba
           /\ \E d \in Blocks(srcs) \ mv : /\ k \in SteOf(srcs, d).lbas
                                           /\ EntryValid(srcs[d[1]], SteOf(srcs, d), k)
<1>1. k \in Lba /\ Offers(srcs, mv, k) # {}
  BY DEF Copied
<1>2. PICK i \in DOMAIN srcs : \E j \in DOMAIN info[srcs[i]].stes :
        /\ <<i, j>> \notin mv /\ k \in info[srcs[i]].stes[j].lbas
        /\ EntryValid(srcs[i], info[srcs[i]].stes[j], k)
  BY <1>1 DEF Offers
<1>3. PICK j \in DOMAIN info[srcs[i]].stes :
        /\ <<i, j>> \notin mv /\ k \in info[srcs[i]].stes[j].lbas
        /\ EntryValid(srcs[i], info[srcs[i]].stes[j], k)
  BY <1>2
<1>4. <<i, j>> \in Blocks(srcs)
  BY BlockPair
<1>5. SteOf(srcs, <<i, j>>) = info[srcs[i]].stes[j] /\ <<i, j>>[1] = i
  BY DEF SteOf
<1> HIDE DEF EntryValid
<1> QED BY <1>1, <1>3, <1>4, <1>5

LEMMA CopiedNotMoved ==
    ASSUME TypeOK, BlocksApart, NEW srcs, Sources(srcs), NEW force
    PROVE  Copied(srcs, MovedBlocks(srcs, force)) \cap MovedIn(srcs, MovedBlocks(srcs, force)) = {}
<1> DEFINE mv == MovedBlocks(srcs, force)
<1> SUFFICES ASSUME NEW k \in Copied(srcs, mv), k \in MovedIn(srcs, mv)
             PROVE  FALSE
  OBVIOUS
<1>1. PICK d \in Blocks(srcs) \ mv : k \in SteOf(srcs, d).lbas
  BY CopiedFrom
<1>2. PICK e \in mv : k \in SteOf(srcs, e).lbas
  BY DEF MovedIn
<1> QED BY <1>1, <1>2, MovedApart

(* Pack spreads the copied entries over disjoint blocks.                   *)
LEMMA PackParts ==
    ASSUME NEW copied \in SUBSET Lba, NEW starts
    PROVE  /\ \A b \in Pack(copied, starts) :
                /\ b \in SteSet /\ b.lbas \subseteq copied /\ ~b.copied /\ b.twice = {}
                /\ \A c \in Pack(copied, starts) : b # c => b.lbas \cap c.lbas = {}
           /\ \A k \in copied : \E b \in Pack(copied, starts) : k \in b.lbas
<1> DEFINE class(k) == {h \in copied : /\ Gap(starts, h) = Gap(starts, k)
                                       /\ Nth(copied, starts, h) = Nth(copied, starts, k)}
<1>1. Pack(copied, starts) = {Ste(class(k)) : k \in copied}
  BY DEF Pack
<1>2. \A k \in copied : k \in class(k) /\ class(k) \subseteq copied
  OBVIOUS
<1>3. \A k, h \in copied : class(k) \cap class(h) # {} => class(k) = class(h)
  OBVIOUS
<1> HIDE DEF class
<1>4. \A K : Ste(K).lbas = K /\ Ste(K).copied = FALSE /\ Ste(K).twice = {}
  BY DEF Ste
<1>5. \A k \in copied : Ste(class(k)) \in SteSet
  <2> SUFFICES ASSUME NEW k \in copied PROVE Ste(class(k)) \in SteSet
    OBVIOUS
  <2>1. class(k) \in (SUBSET Lba) \ {{}}
    BY <1>2
  <2> QED BY <2>1, ShapeAssumption DEF Ste, SteSet
<1>6. ASSUME NEW b \in Pack(copied, starts)
      PROVE  /\ b \in SteSet /\ b.lbas \subseteq copied /\ ~b.copied /\ b.twice = {}
             /\ \A c \in Pack(copied, starts) : b # c => b.lbas \cap c.lbas = {}
  <2>1. PICK k \in copied : b = Ste(class(k))
    BY <1>1
  <2>2. ASSUME NEW c \in Pack(copied, starts), b # c PROVE b.lbas \cap c.lbas = {}
    <3>1. PICK h \in copied : c = Ste(class(h))
      BY <1>1
    <3>2. class(k) # class(h)
      BY <2>1, <2>2, <3>1
    <3> QED BY <1>3, <1>4, <2>1, <3>1, <3>2
  <2> QED BY <1>2, <1>4, <1>5, <2>1, <2>2
<1>7. ASSUME NEW k \in copied PROVE \E b \in Pack(copied, starts) : k \in b.lbas
  <2>1. Ste(class(k)) \in Pack(copied, starts)
    BY <1>1
  <2> QED BY <1>2, <1>4, <2>1
<1> QED BY <1>6, <1>7

-----------------------------------------------------------------------------
(* The blocks of the new run.                                              *)

LEMMA FlagKeeps ==
    ASSUME TypeOK, NEW ste \in SteSet, NEW x \in Live
    PROVE  /\ FlagMoved(ste, x) \in SteSet
           /\ FlagMoved(ste, x).lbas = ste.lbas /\ FlagMoved(ste, x).twice = ste.twice
           /\ FlagMoved(ste, x).copied = \E k \in ste.lbas : ~ValidLba(x, k)
           /\ FlagMoved(ste, x).level = info[x].level /\ FlagMoved(ste, x).recency = info[x].recency
<1>1. info[x].level \in 0..TotalLevel /\ info[x].recency \in Nat
  BY RunTyped DEF RunSet
<1> DEFINE c == \E k \in ste.lbas : ~ValidLba(x, k)
<1>2. c \in BOOLEAN
  OBVIOUS
<1>3. FlagMoved(ste, x) = [ste EXCEPT !.copied = c, !.level = info[x].level, !.recency = info[x].recency]
  BY DEF FlagMoved, FlagMovedWith
<1> HIDE DEF c
<1>4. /\ FlagMoved(ste, x) \in SteSet
      /\ FlagMoved(ste, x).lbas = ste.lbas /\ FlagMoved(ste, x).twice = ste.twice
      /\ FlagMoved(ste, x).copied = c
      /\ FlagMoved(ste, x).level = info[x].level /\ FlagMoved(ste, x).recency = info[x].recency
  BY <1>1, <1>2, <1>3 DEF SteSet
<1> QED BY <1>4 DEF c

(* A block of the new run is a moved one or packed from copied entries.    *)
LEMMA MergedFrom ==
    ASSUME TypeOK, NEW srcs, Sources(srcs), NEW force, NEW mv, mv = MovedBlocks(srcs, force),
           NEW b \in MergedBlocks(srcs, mv)
    PROVE  \/ \E e \in mv : b = FlagMoved(SteOf(srcs, e), srcs[e[1]]) /\ b \in SteSet
                            /\ b.lbas = SteOf(srcs, e).lbas /\ b.twice = SteOf(srcs, e).twice
           \/ /\ b \in Pack(Copied(srcs, mv), {Start(SteOf(srcs, e)) : e \in mv})
              /\ b \in SteSet /\ b.lbas \subseteq Copied(srcs, mv) /\ ~b.copied /\ b.twice = {}
<1>1. CASE b \in {FlagMoved(SteOf(srcs, e), srcs[e[1]]) : e \in mv}
  <2>1. PICK e \in mv : b = FlagMoved(SteOf(srcs, e), srcs[e[1]])
    BY <1>1
  <2>2. SteOf(srcs, e) \in SteSet /\ srcs[e[1]] \in Live
    BY MovedAre, BlockTyped
  <2> QED BY <2>1, <2>2, FlagKeeps
<1>2. CASE b \in Pack(Copied(srcs, mv), {Start(SteOf(srcs, e)) : e \in mv})
  <2>1. Copied(srcs, mv) \in SUBSET Lba
    BY DEF Copied
  <2> QED BY <1>2, <2>1, PackParts
<1> QED BY <1>1, <1>2 DEF MergedBlocks

LEMMA MergedParts ==
    ASSUME TypeOK, NEW srcs, Sources(srcs), NEW force, NEW mv, mv = MovedBlocks(srcs, force),
           NEW b \in MergedBlocks(srcs, mv)
    PROVE  \/ \E e \in mv : b = FlagMoved(SteOf(srcs, e), srcs[e[1]])
           \/ b.lbas \subseteq Copied(srcs, mv) /\ ~b.copied /\ b.twice = {}
<1>1. CASE b \in {FlagMoved(SteOf(srcs, e), srcs[e[1]]) : e \in mv}
  BY <1>1
<1>2. CASE b \in Pack(Copied(srcs, mv), {Start(SteOf(srcs, e)) : e \in mv})
  <2>1. Copied(srcs, mv) \in SUBSET Lba
    BY DEF Copied
  <2> QED BY <1>2, <2>1, PackParts
<1> QED BY <1>1, <1>2 DEF MergedBlocks

LEMMA MergedApart ==
    ASSUME TypeOK, BlocksApart, NEW srcs, Sources(srcs), NEW force, NEW mv, mv = MovedBlocks(srcs, force)
    PROVE  /\ MergedBlocks(srcs, mv) \subseteq SteSet
           /\ \A b, c \in MergedBlocks(srcs, mv) : b # c => b.lbas \cap c.lbas = {}
           /\ UNION {b.lbas : b \in MergedBlocks(srcs, mv)} = Copied(srcs, mv) \cup MovedIn(srcs, mv)
           /\ IsFiniteSet(MergedBlocks(srcs, mv))
<1> DEFINE P == Pack(Copied(srcs, mv), {Start(SteOf(srcs, e)) : e \in mv})
           B == MergedBlocks(srcs, mv)
<1>1. Copied(srcs, mv) \in SUBSET Lba
  BY DEF Copied
<1>2. B \subseteq SteSet
  BY MergedFrom
<1>3. ASSUME NEW b \in B, NEW c \in B, b # c PROVE b.lbas \cap c.lbas = {}
  <2>1. \A e \in mv : SteOf(srcs, e).lbas \subseteq MovedIn(srcs, mv)
    BY DEF MovedIn
  <2>2. Copied(srcs, mv) \cap MovedIn(srcs, mv) = {}
    BY CopiedNotMoved
  <2>3. CASE b \in P /\ c \in P
    BY <1>1, <1>3, <2>3, PackParts
  <2>4. ASSUME NEW e \in mv, NEW d \in mv, b = FlagMoved(SteOf(srcs, e), srcs[e[1]]),
               c = FlagMoved(SteOf(srcs, d), srcs[d[1]]),
               b.lbas = SteOf(srcs, e).lbas, c.lbas = SteOf(srcs, d).lbas
        PROVE  b.lbas \cap c.lbas = {}
    <3>1. e # d
      BY <1>3, <2>4
    <3>2. d \in Blocks(srcs)
      BY MovedAre
    <3> QED BY <2>4, <3>1, <3>2, MovedApart
  <2>5. \A a \in B : \/ \E e \in mv : a = FlagMoved(SteOf(srcs, e), srcs[e[1]]) /\ a.lbas = SteOf(srcs, e).lbas
                     \/ a \in P /\ a.lbas \subseteq Copied(srcs, mv)
    BY MergedFrom
  <2> HIDE DEF P, B
  <2>6. \A a \in B : a.lbas \subseteq MovedIn(srcs, mv) \/ (a \in P /\ a.lbas \subseteq Copied(srcs, mv))
    BY <2>1, <2>5
  <2>a. \A a \in P : a.lbas \subseteq Copied(srcs, mv)
    BY <1>1, PackParts DEF P
  <2>7. CASE b \in P /\ c \notin P
    <3>1. b.lbas \subseteq Copied(srcs, mv) /\ c.lbas \subseteq MovedIn(srcs, mv)
      BY <2>6, <2>7, <2>a
    <3> QED BY <2>2, <3>1
  <2>8. CASE b \notin P /\ c \in P
    <3>1. c.lbas \subseteq Copied(srcs, mv) /\ b.lbas \subseteq MovedIn(srcs, mv)
      BY <2>6, <2>8, <2>a
    <3> QED BY <2>2, <3>1
  <2>9. CASE b \notin P /\ c \notin P
    BY <2>4, <2>5, <2>9, <1>3
  <2> QED BY <2>3, <2>7, <2>8, <2>9
<1>4. UNION {b.lbas : b \in B} = Copied(srcs, mv) \cup MovedIn(srcs, mv)
  <2>1. ASSUME NEW b \in B PROVE b.lbas \subseteq Copied(srcs, mv) \cup MovedIn(srcs, mv)
    <3>1. \A e \in mv : SteOf(srcs, e).lbas \subseteq MovedIn(srcs, mv)
      BY DEF MovedIn
    <3>2. b.lbas \subseteq Copied(srcs, mv) \/ \E e \in mv : b.lbas = SteOf(srcs, e).lbas
      BY MergedFrom
    <3> QED BY <3>1, <3>2
  <2>2. ASSUME NEW k \in Copied(srcs, mv) PROVE \E b \in B : k \in b.lbas
    <3>0. \A S : \A h \in Copied(srcs, mv) : \E b \in Pack(Copied(srcs, mv), S) : h \in b.lbas
      BY <1>1, PackParts
    <3>1. PICK b \in P : k \in b.lbas
      BY <3>0
    <3> QED BY <3>1 DEF MergedBlocks
  <2>3. ASSUME NEW k \in MovedIn(srcs, mv) PROVE \E b \in B : k \in b.lbas
    <3>1. PICK e \in mv : k \in SteOf(srcs, e).lbas
      BY DEF MovedIn
    <3>2. FlagMoved(SteOf(srcs, e), srcs[e[1]]) \in B
      BY DEF MergedBlocks
    <3>3. SteOf(srcs, e) \in SteSet /\ srcs[e[1]] \in Live
      BY MovedAre, BlockTyped
    <3> QED BY <3>1, <3>2, <3>3, FlagKeeps
  <2> HIDE DEF B
  <2> QED BY <2>1, <2>2, <2>3
<1>5. IsFiniteSet(B)
  <2> DEFINE f == [b \in B |-> b.lbas]
  <2>1. \A b \in B : b.lbas \in SUBSET Lba /\ b.lbas # {}
    BY <1>2, SteBounds
  <2> HIDE DEF B
  <2>2. f \in [B -> SUBSET Lba]
    BY <2>1
  <2>3. \A b, c \in B : f[b] = f[c] => b = c
    BY <1>3, <2>1
  <2>4. f \in Injection(B, SUBSET Lba)
    BY <2>2, <2>3 DEF Injection, IsInjective
  <2>5. IsFiniteSet(SUBSET Lba)
    BY LbaAssumption, FS_SUBSET
  <2> QED BY <2>4, <2>5, FS_Injection
<1> QED BY <1>2, <1>3, <1>4, <1>5

(* Blocks without common entries can be put in the order of their first    *)
(* entries.                                                                *)
InOrder(s, n) == \A i, j \in 1..n : i < j => Start(s[i]) < Start(s[j])

LEMMA OrderExists ==
    ASSUME NEW S, S \subseteq SteSet, IsFiniteSet(S), \A b, c \in S : b # c => b.lbas \cap c.lbas = {}
    PROVE  \E s \in [1..Cardinality(S) -> S] : InOrder(s, Cardinality(S))
<1> DEFINE C == {n \in Nat : \A U \in SUBSET S : Cardinality(U) = n
                              => \E s \in [1..n -> U] : InOrder(s, n)}
<1>1. 0 \in C
  <2> SUFFICES ASSUME NEW U \in SUBSET S PROVE \E s \in [1..0 -> U] : InOrder(s, 0)
    OBVIOUS
  <2>0. 1..0 = {}
    OBVIOUS
  <2>1. [i \in 1..0 |-> i] \in [1..0 -> U]
    BY <2>0
  <2> QED BY <2>0, <2>1 DEF InOrder
<1>2. ASSUME NEW n \in C PROVE n + 1 \in C
  <2> SUFFICES ASSUME NEW U \in SUBSET S, Cardinality(U) = n + 1
               PROVE  \E s \in [1..n + 1 -> U] : InOrder(s, n + 1)
    OBVIOUS
  <2>0. /\ n \in Nat
        /\ \A V \in SUBSET S : Cardinality(V) = n => \E s \in [1..n -> V] : InOrder(s, n)
    OBVIOUS
  <2> HIDE DEF C
  <2> DEFINE T == {Start(a) : a \in U}
  <2>1. IsFiniteSet(U) /\ U # {}
    <3>1. IsFiniteSet(U)
      BY FS_Subset
    <3>2. Cardinality(U) # 0
      BY <2>0
    <3> QED BY <3>1, <3>2, FS_EmptySet
  <2>2. IsFiniteSet(T) /\ T # {} /\ T \subseteq Nat
    <3> DEFINE f == [a \in U |-> Start(a)]
    <3>1. f \in Surjection(U, T)
      BY DEF Surjection
    <3>2. IsFiniteSet(T)
      BY <2>1, <3>1, FS_Surjection
    <3>3. \A a \in U : Start(a) \in Nat
      BY SteBounds
    <3> QED BY <2>1, <3>2, <3>3
  <2>3. PICK g \in T : \A y \in T : g >= y
    BY <2>2, Greatest
  <2>4. PICK u \in U : g = Start(u)
    BY <2>3
  <2>5. Cardinality(U \ {u}) = n
    <3>1. Cardinality(U \ {u}) = Cardinality(U) - 1
      BY <2>1, <2>4, FS_RemoveElement
    <3> QED BY <2>0, <3>1
  <2>6. PICK s \in [1..n -> U \ {u}] : InOrder(s, n)
    BY <2>0, <2>5
  <2> DEFINE t == [i \in 1..n + 1 |-> IF i = n + 1 THEN u ELSE s[i]]
  <2>7. \A i \in 1..n + 1 : i = n + 1 \/ i \in 1..n
    BY <2>0
  <2>8. t \in [1..n + 1 -> U]
    BY <2>6, <2>7
  <2>9. ASSUME NEW a \in U \ {u} PROVE Start(a) < Start(u)
    <3>1. Start(a) \in a.lbas /\ Start(u) \in u.lbas /\ Start(a) \in Nat /\ Start(u) \in Nat
      BY SteBounds
    <3>2. a.lbas \cap u.lbas = {}
      OBVIOUS
    <3>3. Start(a) <= Start(u)
      BY <2>3, <2>4, <3>1
    <3> QED BY <3>1, <3>2, <3>3
  <2>10. ASSUME NEW i \in 1..n + 1, NEW j \in 1..n + 1, i < j PROVE Start(t[i]) < Start(t[j])
    <3>1. i \in 1..n /\ t[i] = s[i] /\ s[i] \in U \ {u}
      BY <2>0, <2>6, <2>10
    <3>2. CASE j = n + 1
      <4>1. t[j] = u
        BY <3>2
      <4> QED BY <2>9, <3>1, <4>1
    <3>3. CASE j # n + 1
      <4>1. j \in 1..n /\ t[j] = s[j]
        BY <2>0, <2>7, <3>3
      <4> QED BY <2>6, <2>10, <3>1, <4>1 DEF InOrder
    <3> QED BY <3>2, <3>3
  <2>11. InOrder(t, n + 1)
    BY <2>10 DEF InOrder
  <2> QED BY <2>8, <2>11
<1>3. Nat \subseteq C
  <2>1. C \subseteq Nat
    OBVIOUS
  <2> HIDE DEF C
  <2> QED BY <1>1, <1>2, <2>1, SetInduction
<1>4. Cardinality(S) \in Nat
  BY FS_CardinalityType
<1>5. Cardinality(S) \in C
  BY <1>3, <1>4
<1> QED BY <1>5

LEMMA OrderHolds ==
    ASSUME NEW S, S \subseteq SteSet, IsFiniteSet(S), \A b, c \in S : b # c => b.lbas \cap c.lbas = {}
    PROVE  /\ InLbaOrder(S) \in Seq(SteSet) /\ ToSet(InLbaOrder(S)) = S
           /\ IsInjective(InLbaOrder(S))
<1> DEFINE n == Cardinality(S)
           s == InLbaOrder(S)
<1>1. n \in Nat /\ IsFiniteSet(1..n) /\ Cardinality(1..n) = n
  BY FS_CardinalityType, FS_Interval
<1>2. \E t \in [1..n -> S] : \A i, j \in 1..n : i < j => Start(t[i]) < Start(t[j])
  BY OrderExists DEF InOrder
<1>3. s \in [1..n -> S] /\ \A i, j \in 1..n : i < j => Start(s[i]) < Start(s[j])
  BY <1>2 DEF InLbaOrder
<1> HIDE DEF n, s
<1>4. \A i, j \in 1..n : s[i] = s[j] => i = j
  <2> SUFFICES ASSUME NEW i \in 1..n, NEW j \in 1..n, s[i] = s[j], i < j PROVE FALSE
    BY <1>1
  <2>1. Start(s[i]) < Start(s[i]) /\ s[i] \in SteSet
    BY <1>3
  <2>2. Start(s[i]) \in Nat
    BY <2>1, SteBounds
  <2> QED BY <2>1, <2>2
<1>5. s \in Injection(1..n, S)
  BY <1>3, <1>4 DEF Injection, IsInjective
<1>6. s \in Surjection(1..n, S)
  <2>1. Cardinality(1..n) = Cardinality(S)
    BY <1>1 DEF n
  <2> QED BY <1>5, <2>1, FS_Injection
<1>7. ToSet(s) = S /\ IsInjective(s)
  BY <1>3, <1>4, <1>6 DEF ToSet, IsInjective, Surjection
<1>8. s \in Seq(S)
  BY <1>1, <1>3, SeqOfFunction
<1>9. s \in Seq(SteSet)
  BY <1>8, SeqMonotonic
<1> QED BY <1>7, <1>9 DEF s

-----------------------------------------------------------------------------
(* What run_merge yields.                                                  *)

(* The stale entries of the moved blocks, counted as pairs or as entries.  *)
LEMMA StaleCount ==
    ASSUME TypeOK, BlocksApart, NEW srcs, Sources(srcs), NEW force, NEW mv, mv = MovedBlocks(srcs, force)
    PROVE  /\ MovedIn(srcs, mv) \subseteq Lba /\ LinkedBy(srcs, mv) \subseteq Copied(srcs, mv) \cup MovedIn(srcs, mv)
           /\ StaleIn(srcs, mv) = Cardinality(MovedIn(srcs, mv) \ LinkedBy(srcs, mv))
<1> DEFINE M == MovedIn(srcs, mv)
           K == LinkedBy(srcs, mv)
           E == {e \in mv \X Lba : e[2] \in SteOf(srcs, e[1]).lbas /\ ~ValidLba(srcs[e[1][1]], e[2])}
           f == [e \in E |-> e[2]]
<1>1. \A e \in mv : e \in Blocks(srcs) /\ SteOf(srcs, e).lbas \subseteq Lba
  BY MovedAre, BlockTyped, SteBounds
<1>2. M \subseteq Lba /\ K \subseteq Copied(srcs, mv) \cup M
  BY <1>1 DEF MovedIn, LinkedBy
<1>3. \A k \in M : \E e \in mv : k \in SteOf(srcs, e).lbas
  BY DEF MovedIn
<1>4. \A e, d \in mv : \A k \in SteOf(srcs, e).lbas : k \in SteOf(srcs, d).lbas => e = d
  BY <1>1, MovedApart
<1>5. \A k \in M : k \notin Copied(srcs, mv)
  BY CopiedNotMoved
<1>6. ASSUME NEW e \in mv, NEW k \in SteOf(srcs, e).lbas
      PROVE  k \in M /\ (k \in K <=> ValidLba(srcs[e[1]], k))
  <2>1. k \in M
    BY DEF MovedIn
  <2>2. k \in K <=> \E d \in mv : k \in SteOf(srcs, d).lbas /\ ValidLba(srcs[d[1]], k)
    BY <1>5, <2>1 DEF LinkedBy
  <2> QED BY <1>4, <1>6, <2>1, <2>2
<1>7. f \in [E -> M \ K]
  <2> SUFFICES ASSUME NEW e \in E PROVE e[2] \in M \ K
    OBVIOUS
  <2>1. e[1] \in mv /\ e[2] \in SteOf(srcs, e[1]).lbas /\ ~ValidLba(srcs[e[1][1]], e[2])
    OBVIOUS
  <2> QED BY <1>6, <2>1
<1>8. ASSUME NEW k \in M \ K PROVE \E e \in E : f[e] = k
  <2>1. PICK e \in mv : k \in SteOf(srcs, e).lbas
    BY <1>3
  <2>2. ~ValidLba(srcs[e[1]], k) /\ k \in Lba
    BY <1>2, <1>6, <2>1
  <2>3. <<e, k>> \in mv \X Lba /\ <<e, k>>[1] = e /\ <<e, k>>[2] = k
    BY <2>2
  <2>4. <<e, k>> \in E
    BY <2>1, <2>2, <2>3
  <2> QED BY <2>3, <2>4
<1>9. ASSUME NEW d \in E, NEW e \in E, f[d] = f[e] PROVE d = e
  <2>1. /\ d[1] \in mv /\ d[2] \in SteOf(srcs, d[1]).lbas /\ d = <<d[1], d[2]>>
        /\ e[1] \in mv /\ e[2] \in SteOf(srcs, e[1]).lbas /\ e = <<e[1], e[2]>>
    OBVIOUS
  <2>2. d[2] = e[2]
    BY <1>9
  <2>3. d[1] = e[1]
    BY <1>4, <2>1, <2>2
  <2> QED BY <2>1, <2>2, <2>3
<1>10. StaleIn(srcs, mv) = Cardinality(E)
  BY DEF StaleIn
<1> HIDE DEF E, M, K
<1>11. f \in Injection(E, M \ K) /\ f \in Surjection(E, M \ K)
  BY <1>7, <1>8, <1>9 DEF Injection, Surjection, IsInjective
<1>12. IsFiniteSet(M \ K)
  <2>1. IsFiniteSet(Lba) /\ M \ K \in SUBSET Lba
    BY <1>2, LbaAssumption
  <2> QED BY <2>1, FS_Subset
<1>13. Cardinality(E) = Cardinality(M \ K)
  BY <1>11, <1>12, FS_Injection
<1> QED BY <1>2, <1>10, <1>13 DEF M, K

LEMMA MergeTyped ==
    ASSUME TypeOK, BlocksApart, NEW srcs, Sources(srcs), NEW force, NEW mv, mv = MovedBlocks(srcs, force),
           NEW lv \in 0..TotalLevel, NEW R, R = Merge(srcs, mv, lv), NEW K, K = LinkedBy(srcs, mv)
    PROVE  /\ R \in RunSet /\ R.level = lv /\ R.recency = now_recency
           /\ ToSet(R.stes) = MergedBlocks(srcs, mv)
           /\ \A i, j \in DOMAIN R.stes : i # j => R.stes[i].lbas \cap R.stes[j].lbas = {}
           /\ K \subseteq Lba /\ R.unlinked = R.entries - Cardinality(K)
           /\ \A k \in K : \E j \in DOMAIN R.stes : k \in R.stes[j].lbas
<1> DEFINE B == MergedBlocks(srcs, mv)
           C == Copied(srcs, mv)
           M == MovedIn(srcs, mv)
           F == {k \in Copied(srcs, mv) : k \in info[srcs[Min(Offers(srcs, mv, k))]].fresh}
                 \cup UNION {(SteOf(srcs, e).lbas \ SteOf(srcs, e).twice)
                                 \cap info[srcs[e[1]]].fresh : e \in mv}
<1>1. /\ B \subseteq SteSet /\ \A b, c \in B : b # c => b.lbas \cap c.lbas = {}
      /\ UNION {b.lbas : b \in B} = C \cup M /\ IsFiniteSet(B)
  BY MergedApart
<1>2. M \subseteq Lba /\ K \subseteq C \cup M /\ StaleIn(srcs, mv) = Cardinality(M \ K) /\ C \cap M = {}
  BY StaleCount, CopiedNotMoved
<1>3. C \subseteq Lba
  BY DEF Copied
<1>4. F \subseteq Lba
  <2>1. \A e \in mv : SteOf(srcs, e).lbas \subseteq Lba
    BY <1>2 DEF MovedIn
  <2> QED BY <1>3, <2>1
<1>5. C \subseteq K
  BY DEF LinkedBy
<1>6. InLbaOrder(B) \in Seq(SteSet) /\ ToSet(InLbaOrder(B)) = B /\ IsInjective(InLbaOrder(B))
  BY <1>1, OrderHolds
<1>7. R = [level |-> lv, recency |-> now_recency, entries |-> Cardinality(C) + Cardinality(M),
           unlinked |-> StaleIn(srcs, mv), stes |-> InLbaOrder(B), fresh |-> F]
  BY DEF Merge
<1> HIDE DEF B, C, M, F
<1>8. IsFiniteSet(C) /\ IsFiniteSet(M) /\ IsFiniteSet(K)
  <2>1. IsFiniteSet(Lba) /\ C \in SUBSET Lba /\ M \in SUBSET Lba /\ K \in SUBSET Lba
    BY <1>2, <1>3, LbaAssumption
  <2> QED BY <2>1, FS_Subset
<1>9. /\ Cardinality(C) \in Nat /\ Cardinality(M) \in Nat /\ Cardinality(K) \in Nat
  BY <1>8, FS_CardinalityType
<1>10. IsFiniteSet(M \ K) /\ Cardinality(M \ K) = Cardinality(M) - Cardinality(M \cap K)
  BY <1>8, FS_Difference
<1>11. Cardinality(K) = Cardinality(C) + Cardinality(M \cap K)
  <2>1. K = C \cup (M \cap K) /\ C \cap (M \cap K) = {}
    BY <1>2, <1>5
  <2>2. IsFiniteSet(M \cap K)
    BY <1>8, FS_Intersection
  <2>3. Cardinality(C \cup (M \cap K)) = Cardinality(C) + Cardinality(M \cap K) - Cardinality(C \cap (M \cap K))
    BY <1>8, <2>2, FS_Union
  <2>4. Cardinality({}) = 0 /\ Cardinality(M \cap K) \in Nat
    BY <2>2, FS_EmptySet, FS_CardinalityType
  <2>5. Cardinality(K) = Cardinality(C \cup (M \cap K)) /\ Cardinality(C \cap (M \cap K)) = 0
    BY <2>1, <2>4
  <2> QED BY <1>9, <2>3, <2>4, <2>5
<1>12. Cardinality(M \cap K) \in Nat /\ Cardinality(M \ K) \in Nat
  BY <1>8, <1>10, FS_Intersection, FS_CardinalityType
<1>13. R \in RunSet
  <2>1. now_recency \in Nat
    BY DEF TypeOK
  <2>2. Cardinality(C) + Cardinality(M) \in Nat /\ StaleIn(srcs, mv) \in Nat
    BY <1>2, <1>9, <1>12
  <2> QED BY <1>4, <1>6, <1>7, <2>1, <2>2 DEF RunSet
<1>14. R.level = lv /\ R.recency = now_recency /\ R.stes = InLbaOrder(B)
  BY <1>7
<1>15. R.unlinked = R.entries - Cardinality(K)
  <2>1. R.unlinked = Cardinality(M \ K) /\ R.entries = Cardinality(C) + Cardinality(M)
    BY <1>2, <1>7
  <2> QED BY <1>9, <1>10, <1>11, <1>12, <2>1
<1>16. ASSUME NEW i \in DOMAIN R.stes, NEW j \in DOMAIN R.stes, i # j
       PROVE  R.stes[i].lbas \cap R.stes[j].lbas = {}
  <2>1. R.stes[i] \in B /\ R.stes[j] \in B
    BY <1>6, <1>14 DEF ToSet
  <2>2. R.stes[i] # R.stes[j]
    BY <1>6, <1>14, <1>16 DEF IsInjective
  <2> QED BY <1>1, <2>1, <2>2
<1>17. ASSUME NEW k \in K PROVE \E j \in DOMAIN R.stes : k \in R.stes[j].lbas
  <2>1. PICK b \in B : k \in b.lbas
    BY <1>1, <1>2
  <2>2. PICK j \in DOMAIN R.stes : R.stes[j] = b
    BY <1>6, <1>14 DEF ToSet
  <2> QED BY <2>1, <2>2
<1>18. K \subseteq Lba
  BY <1>2, <1>3
<1> QED BY <1>6, <1>13, <1>14, <1>15, <1>16, <1>17, <1>18 DEF B

(* An entry of the sources that the table names is linked to the new run.  *)
LEMMA NamedLinked ==
    ASSUME TypeOK, NEW srcs, Sources(srcs), NEW mv, NEW k \in Lba, sc[k] \in ToSet(srcs), k \in LbasOf(sc[k])
    PROVE  k \in LinkedBy(srcs, mv)
<1>1. PICK i \in DOMAIN srcs : srcs[i] = sc[k]
  BY DEF ToSet
<1>2. PICK j \in DOMAIN info[srcs[i]].stes : k \in info[srcs[i]].stes[j].lbas
  BY <1>1, LbaIn
<1>3. sc[k] \in Live /\ info[sc[k]].level \in Nat /\ info[sc[k]].recency \in Nat
  <2>1. sc[k] \in Live
    BY <1>1, LenProperties, ElementOfSeq DEF Sources
  <2> QED BY <2>1, RunTyped DEF RunSet
<1>4. ValidLba(srcs[i], k)
  BY <1>1, <1>3 DEF ValidLba, Newer
<1>5. EntryValid(srcs[i], info[srcs[i]].stes[j], k)
  BY <1>1, <1>4 DEF EntryValid, ValidByValue
<1>6. SteOf(srcs, <<i, j>>) = info[srcs[i]].stes[j] /\ <<i, j>>[1] = i
  BY DEF SteOf
<1> HIDE DEF ValidLba, EntryValid
<1>7. CASE <<i, j>> \in mv
  BY <1>2, <1>4, <1>6, <1>7 DEF LinkedBy
<1>8. CASE <<i, j>> \notin mv
  <2>1. i \in Offers(srcs, mv, k)
    BY <1>2, <1>5, <1>8 DEF Offers
  <2> QED BY <2>1 DEF Copied, LinkedBy
<1> QED BY <1>7, <1>8

(* The queue of free indices.                                              *)
LEMMA TailDistinct ==
    ASSUME NEW S, NEW q \in Seq(S), q # <<>>, IsInjective(q)
    PROVE  /\ Tail(q) \in Seq(S) /\ IsInjective(Tail(q)) /\ Head(q) \in ToSet(q) /\ Head(q) \in S
           /\ ToSet(Tail(q)) = ToSet(q) \ {Head(q)}
<1>1. /\ Head(q) \in S /\ Tail(q) \in Seq(S) /\ Len(Tail(q)) = Len(q) - 1
      /\ \A i \in 1..Len(Tail(q)) : Tail(q)[i] = q[i + 1]
  BY HeadTailProperties
<1>2. /\ DOMAIN q = 1..Len(q) /\ Len(q) \in Nat /\ Len(q) # 0
      /\ DOMAIN Tail(q) = 1..Len(Tail(q))
  BY <1>1, LenProperties, EmptySeq
<1>3. Head(q) = q[1] /\ 1 \in DOMAIN q
  BY <1>2
<1>4. \A i \in DOMAIN Tail(q) : i + 1 \in DOMAIN q /\ i + 1 # 1 /\ Tail(q)[i] = q[i + 1] /\ i \in Nat
  BY <1>1, <1>2
<1>5. \A i \in DOMAIN q \ {1} : i - 1 \in DOMAIN Tail(q) /\ q[i] = Tail(q)[i - 1]
  <2> SUFFICES ASSUME NEW i \in DOMAIN q \ {1} PROVE i - 1 \in DOMAIN Tail(q) /\ q[i] = Tail(q)[i - 1]
    OBVIOUS
  <2>1. i - 1 \in DOMAIN Tail(q) /\ (i - 1) + 1 = i
    BY <1>1, <1>2
  <2> QED BY <1>4, <2>1
<1>6. IsInjective(Tail(q))
  <2> SUFFICES ASSUME NEW i \in DOMAIN Tail(q), NEW j \in DOMAIN Tail(q), Tail(q)[i] = Tail(q)[j]
               PROVE  i = j
    BY DEF IsInjective
  <2>1. i + 1 = j + 1
    BY <1>4 DEF IsInjective
  <2> QED BY <1>4, <2>1
<1>7. ToSet(Tail(q)) \subseteq ToSet(q) \ {Head(q)}
  BY <1>3, <1>4 DEF ToSet, IsInjective
<1>8. ToSet(q) \ {Head(q)} \subseteq ToSet(Tail(q))
  BY <1>3, <1>5 DEF ToSet
<1>9. Head(q) \in ToSet(q)
  BY <1>3 DEF ToSet
<1> QED BY <1>1, <1>6, <1>7, <1>8, <1>9

LEMMA ConcatDistinct ==
    ASSUME NEW S, NEW p \in Seq(S), NEW q \in Seq(S), IsInjective(p), IsInjective(q),
           ToSet(p) \cap ToSet(q) = {}
    PROVE  p \o q \in Seq(S) /\ IsInjective(p \o q) /\ ToSet(p \o q) = ToSet(p) \cup ToSet(q)
<1> DEFINE r == p \o q
<1>1. /\ r \in Seq(S) /\ Len(r) = Len(p) + Len(q)
      /\ \A i \in 1..Len(p) + Len(q) : r[i] = IF i <= Len(p) THEN p[i] ELSE q[i - Len(p)]
  BY ConcatProperties
<1>2. /\ DOMAIN p = 1..Len(p) /\ Len(p) \in Nat /\ DOMAIN q = 1..Len(q) /\ Len(q) \in Nat
      /\ DOMAIN r = 1..Len(p) + Len(q)
  BY <1>1, LenProperties
<1> HIDE DEF r
<1>3. \A i \in DOMAIN r : \/ i \in DOMAIN p /\ r[i] = p[i]
                          \/ i - Len(p) \in DOMAIN q /\ r[i] = q[i - Len(p)] /\ i \in Nat
  BY <1>1, <1>2
<1>4. \A i \in DOMAIN p : i \in DOMAIN r /\ r[i] = p[i]
  BY <1>1, <1>2
<1>5. \A i \in DOMAIN q : i + Len(p) \in DOMAIN r /\ r[i + Len(p)] = q[i]
  <2> SUFFICES ASSUME NEW i \in DOMAIN q PROVE i + Len(p) \in DOMAIN r /\ r[i + Len(p)] = q[i]
    OBVIOUS
  <2>1. i + Len(p) \in DOMAIN r /\ ~(i + Len(p) <= Len(p)) /\ (i + Len(p)) - Len(p) = i
    BY <1>2
  <2> QED BY <1>1, <1>2, <2>1
<1>6. ToSet(r) = ToSet(p) \cup ToSet(q)
  BY <1>3, <1>4, <1>5 DEF ToSet
<1>7. ASSUME NEW i \in DOMAIN r, NEW j \in DOMAIN r, r[i] = r[j] PROVE i = j
  <2>1. CASE i \in DOMAIN p /\ r[i] = p[i] /\ j \in DOMAIN p /\ r[j] = p[j]
    BY <1>7, <2>1 DEF IsInjective
  <2>2. CASE /\ i - Len(p) \in DOMAIN q /\ r[i] = q[i - Len(p)] /\ i \in Nat
             /\ j - Len(p) \in DOMAIN q /\ r[j] = q[j - Len(p)] /\ j \in Nat
    <3>1. i - Len(p) = j - Len(p)
      BY <1>7, <2>2 DEF IsInjective
    <3> QED BY <1>2, <2>2, <3>1
  <2>3. \A a \in DOMAIN p, b \in DOMAIN q : p[a] # q[b]
    BY DEF ToSet
  <2> QED BY <1>3, <1>7, <2>1, <2>2, <2>3
<1> QED BY <1>1, <1>6, <1>7 DEF r, IsInjective

-----------------------------------------------------------------------------
(* One merge, whatever its sources: the runs afterwards.                   *)

(* Runs that a merge leaves alone lose only links.                         *)
SameRun(y) ==
    /\ info'[y].level = info[y].level /\ info'[y].recency = info[y].recency
    /\ info'[y].entries = info[y].entries /\ info'[y].stes = info[y].stes /\ info'[y].fresh = info[y].fresh

LEMMA LoseLinks ==
    ASSUME NEW r \in RunSet, NEW c \in Nat, NEW q, q = [r EXCEPT !.unlinked = @ + c]
    PROVE  /\ q \in RunSet /\ q.unlinked = r.unlinked + c
           /\ q.level = r.level /\ q.recency = r.recency /\ q.entries = r.entries
           /\ q.stes = r.stes /\ q.fresh = r.fresh
<1>1. r.unlinked + c \in Nat
  BY DEF RunSet
<1> QED BY <1>1 DEF RunSet

LEMMA MergeRuns ==
    ASSUME BooksInv, free_q # <<>>, NEW srcs, Sources(srcs), NEW force, NEW lv \in 0..TotalLevel,
           NEW dead \in Seq(Idx), IsInjective(dead), ToSet(dead) \subseteq ToSet(srcs),
           MergeInto(srcs, lv, force, dead), NEW mv, mv = MovedBlocks(srcs, force),
           NEW des, des = Head(free_q), NEW K, K = LinkedBy(srcs, mv), NEW R, R = Merge(srcs, mv, lv)
    PROVE  /\ des \in Idx \ Live /\ ToSet(srcs) \subseteq Live
           /\ info' \in [Idx -> RunSet \cup {None}]
           /\ Live' = (Live \cup {des}) \ ToSet(dead) /\ info'[des] = R
           /\ \A y \in Live \ ToSet(dead) :
                SameRun(y) /\ info'[y].unlinked = info[y].unlinked + Cardinality({k \in K : sc[k] = y})
           /\ sc' \in [Lba -> Idx \cup {None}]
           /\ \A k \in Lba : sc'[k] = IF k \in K THEN des ELSE sc[k]
           /\ now_recency' = now_recency + 1
<1>1. TypeOK /\ BlocksApart /\ ToSet(free_q) = Idx \ Live /\ IsInjective(free_q)
  BY DEF BooksInv, PlacesInv, NamesInv
<1>2. des \in Idx \ Live
  <2>1. free_q \in Seq(Idx)
    BY <1>1 DEF TypeOK
  <2> QED BY <1>1, <2>1, TailDistinct
<1>3. R \in RunSet /\ K \subseteq Lba
  BY <1>1, MergeTyped
<1>4. ToSet(srcs) \subseteq Live
  BY DistinctLen DEF Sources
<1> DEFINE inf == [info EXCEPT ![des] = R]
           lnk == Linked(inf, K, des)
<1>5. /\ info' = FreeRuns(lnk, dead) /\ now_recency' = now_recency + 1
      /\ sc' = [k \in Lba |-> IF k \in K THEN des ELSE sc[k]]
  BY DEF MergeInto
<1>6. /\ info \in [Idx -> RunSet \cup {None}] /\ None \notin RunSet
  BY <1>1, NoneAssumption DEF TypeOK
<1>7. \A y \in Idx : inf[y] = IF y = des THEN R ELSE info[y]
  BY <1>6
<1>8. \A y \in Idx : lnk[y] = IF inf[y] = None \/ y = des THEN inf[y]
                              ELSE [inf[y] EXCEPT !.unlinked = @ + Cardinality({k \in K : sc[k] = y})]
  BY DEF Linked
<1>9. \A y \in Idx : info'[y] = IF y \in ToSet(dead) THEN None ELSE lnk[y]
  BY <1>5 DEF FreeRuns
<1>10. DOMAIN info' = Idx
  BY <1>5 DEF FreeRuns
<1> HIDE DEF inf, lnk
<1>11. \A y : Cardinality({k \in K : sc[k] = y}) \in Nat
  <2> SUFFICES ASSUME NEW y PROVE Cardinality({k \in K : sc[k] = y}) \in Nat
    OBVIOUS
  <2>1. {k \in K : sc[k] = y} \in SUBSET Lba /\ IsFiniteSet(Lba)
    BY <1>3, LbaAssumption
  <2>2. IsFiniteSet({k \in K : sc[k] = y})
    BY <2>1, FS_Subset
  <2> QED BY <2>2, FS_CardinalityType
<1>12. info'[des] = R
  BY <1>2, <1>4, <1>7, <1>8, <1>9
<1>13. ASSUME NEW y \in Live \ ToSet(dead)
       PROVE  /\ SameRun(y) /\ info'[y].unlinked = info[y].unlinked + Cardinality({k \in K : sc[k] = y})
              /\ info'[y] \in RunSet
  <2>1. info[y] \in RunSet /\ y \in Idx /\ y # des
    BY <1>2, <1>6 DEF Live
  <2>2. info'[y] = [info[y] EXCEPT !.unlinked = @ + Cardinality({k \in K : sc[k] = y})]
    BY <1>6, <1>7, <1>8, <1>9, <2>1
  <2> DEFINE c == Cardinality({k \in K : sc[k] = y})
  <2>3. c \in Nat /\ info'[y] = [info[y] EXCEPT !.unlinked = @ + c]
    BY <1>11, <2>2
  <2> HIDE DEF c
  <2>4. SameRun(y) /\ info'[y].unlinked = info[y].unlinked + c /\ info'[y] \in RunSet
    BY <2>1, <2>3, LoseLinks DEF SameRun
  <2> QED BY <2>4 DEF c
<1>14. ASSUME NEW y \in Idx \ ((Live \cup {des}) \ ToSet(dead)) PROVE info'[y] = None
  BY <1>7, <1>8, <1>9 DEF Live
<1>15. (Live \cup {des}) \ ToSet(dead) \subseteq Idx /\ des \notin ToSet(dead)
  BY <1>2, <1>4 DEF Live
<1>16. info' \in [Idx -> RunSet \cup {None}]
  <2>1. \A y \in Idx : info'[y] \in RunSet \cup {None}
    BY <1>3, <1>12, <1>13, <1>14
  <2>2. info' = [y \in Idx |-> info'[y]]
    BY <1>5 DEF FreeRuns
  <2> QED BY <2>1, <2>2
<1>17. Live' = {y \in Idx : info'[y] # None}
  BY DEF Live
<1>18. Live' = (Live \cup {des}) \ ToSet(dead)
  <2>1. \A y \in (Live \cup {des}) \ ToSet(dead) : info'[y] # None
    BY <1>3, <1>6, <1>12, <1>13
  <2> QED BY <1>14, <1>15, <1>17, <2>1
<1>19. sc' \in [Lba -> Idx \cup {None}]
  BY <1>1, <1>2, <1>5 DEF TypeOK
<1>20. \A k \in Lba : sc'[k] = IF k \in K THEN des ELSE sc[k]
  BY <1>5
<1> QED BY <1>2, <1>4, <1>5, <1>12, <1>13, <1>16, <1>18, <1>19, <1>20

(* The pool gets the dead runs back and gives one.                         *)
LEMMA MergePool ==
    ASSUME BooksInv, free_q # <<>>, NEW srcs, Sources(srcs), NEW force, NEW lv \in 0..TotalLevel,
           NEW dead \in Seq(Idx), IsInjective(dead), ToSet(dead) \subseteq ToSet(srcs),
           MergeInto(srcs, lv, force, dead)
    PROVE  /\ free_q' \in Seq(Idx) /\ IsInjective(free_q')
           /\ ToSet(free_q') = Idx \ Live'
<1> DEFINE des == Head(free_q)
           mv == MovedBlocks(srcs, force)
           K == LinkedBy(srcs, mv)
           R == Merge(srcs, mv, lv)
<1> HIDE DEF des, mv, K, R
<1>0. mv = MovedBlocks(srcs, force) /\ des = Head(free_q) /\ K = LinkedBy(srcs, mv) /\ R = Merge(srcs, mv, lv)
  BY DEF des, mv, K, R
<1>1. /\ des \in Idx \ Live /\ ToSet(srcs) \subseteq Live
      /\ Live' = (Live \cup {des}) \ ToSet(dead)
  BY <1>0, MergeRuns
<1>2. free_q \in Seq(Idx) /\ ToSet(free_q) = Idx \ Live /\ IsInjective(free_q)
  BY DEF BooksInv, PlacesInv, TypeOK
<1>3. /\ Tail(free_q) \in Seq(Idx) /\ IsInjective(Tail(free_q))
      /\ ToSet(Tail(free_q)) = ToSet(free_q) \ {des}
  BY <1>2, TailDistinct DEF des
<1>4. free_q' = Tail(free_q) \o dead
  BY DEF MergeInto, Returned
<1>5. ToSet(Tail(free_q)) \cap ToSet(dead) = {}
  BY <1>1, <1>2, <1>3
<1>6. /\ free_q' \in Seq(Idx) /\ IsInjective(free_q')
      /\ ToSet(free_q') = ToSet(Tail(free_q)) \cup ToSet(dead)
  <2>1. PICK p : p = Tail(free_q)
    OBVIOUS
  <2>2. p \in Seq(Idx) /\ IsInjective(p) /\ ToSet(p) \cap ToSet(dead) = {}
    BY <1>3, <1>5, <2>1
  <2>3. p \o dead \in Seq(Idx) /\ IsInjective(p \o dead) /\ ToSet(p \o dead) = ToSet(p) \cup ToSet(dead)
    BY <2>2, ConcatDistinct
  <2> QED BY <1>4, <2>1, <2>3
<1>7. ToSet(dead) \subseteq Idx /\ Live \subseteq Idx
  BY <1>1 DEF Live
<1> QED BY <1>1, <1>2, <1>3, <1>6, <1>7

(* The table after a merge.                                                *)
LEMMA MergeNames ==
    ASSUME BooksInv, free_q # <<>>, NEW srcs, Sources(srcs), NEW force, NEW lv \in 0..TotalLevel,
           NEW dead \in Seq(Idx), IsInjective(dead), ToSet(dead) \subseteq ToSet(srcs),
           MergeInto(srcs, lv, force, dead), mem' = mem
    PROVE  /\ NamesLive' /\ BlocksApart' /\ UnlinkedExact'
           /\ \A k \in Lba : sc[k] # None => sc'[k] # None
           /\ (mem \in ToSet(srcs) \/ \A k \in Lba : sc[k] # mem) => \A k \in Lba : sc'[k] # mem
<1> DEFINE des == Head(free_q)
           mv == MovedBlocks(srcs, force)
           K == LinkedBy(srcs, mv)
           R == Merge(srcs, mv, lv)
<1> HIDE DEF des, mv, K, R
<1>0. mv = MovedBlocks(srcs, force) /\ des = Head(free_q) /\ K = LinkedBy(srcs, mv) /\ R = Merge(srcs, mv, lv)
  BY DEF des, mv, K, R
<1>1. /\ des \in Idx \ Live /\ ToSet(srcs) \subseteq Live
      /\ Live' = (Live \cup {des}) \ ToSet(dead) /\ info'[des] = R
      /\ \A y \in Live \ ToSet(dead) :
           SameRun(y) /\ info'[y].unlinked = info[y].unlinked + Cardinality({k \in K : sc[k] = y})
      /\ \A k \in Lba : sc'[k] = IF k \in K THEN des ELSE sc[k]
  BY <1>0, MergeRuns
<1>2. TypeOK /\ NamesLive /\ BlocksApart /\ UnlinkedExact /\ mem \in Live
  BY DEF BooksInv, NamesInv, PlacesInv
<1>3. /\ R \in RunSet
      /\ \A i, j \in DOMAIN R.stes : i # j => R.stes[i].lbas \cap R.stes[j].lbas = {}
      /\ K \subseteq Lba /\ R.unlinked = R.entries - Cardinality(K)
      /\ \A k \in K : \E j \in DOMAIN R.stes : k \in R.stes[j].lbas
  BY <1>0, <1>2, MergeTyped
<1>4. \A k \in Lba : sc[k] \in ToSet(srcs) => k \in K
  <2> SUFFICES ASSUME NEW k \in Lba, sc[k] \in ToSet(srcs) PROVE k \in K
    OBVIOUS
  <2>1. sc[k] # None
    BY <1>1, NoneAssumption DEF Live, Idx
  <2>2. k \in LbasOf(sc[k])
    BY <1>2, <2>1 DEF NamesLive
  <2> QED BY <1>0, <1>2, <2>2, NamedLinked
<1>5. None \notin Live /\ None \notin Idx /\ des # None
  BY <1>1, NoneAssumption DEF Live, Idx
<1>6. \A k \in Lba : sc[k] # None => sc'[k] # None
  BY <1>1, <1>5
<1>7. ASSUME NEW k \in Lba, sc'[k] # None
      PROVE  sc'[k] \in Live' /\ \E j \in DOMAIN info'[sc'[k]].stes : k \in info'[sc'[k]].stes[j].lbas
  <2>1. CASE k \in K
    BY <1>1, <1>3, <2>1
  <2>2. CASE k \notin K
    <3>1. sc'[k] = sc[k] /\ sc[k] \in Live /\ k \in LbasOf(sc[k]) /\ sc[k] \notin ToSet(dead)
      BY <1>1, <1>2, <1>4, <1>7, <2>2 DEF NamesLive
    <3>2. \E j \in DOMAIN info[sc[k]].stes : k \in info[sc[k]].stes[j].lbas
      BY <3>1, LbaIn
    <3>3. info'[sc[k]].stes = info[sc[k]].stes
      BY <1>1, <3>1 DEF SameRun
    <3> QED BY <1>1, <3>1, <3>2, <3>3
  <2> QED BY <2>1, <2>2
<1>8. NamesLive'
  <2>1. \A k \in Lba : sc'[k] # None => sc'[k] \in Live' /\ k \in LbasOf(sc[k])'
    BY <1>7 DEF LbasOf, ToSet
  <2> QED BY <2>1 DEF NamesLive
<1>9. BlocksApart'
  <2> SUFFICES ASSUME NEW x \in Live' \ {mem}, NEW i \in DOMAIN info'[x].stes, NEW j \in DOMAIN info'[x].stes, i # j
               PROVE  info'[x].stes[i].lbas \cap info'[x].stes[j].lbas = {}
    BY DEF BlocksApart
  <2>1. CASE x = des
    BY <1>1, <1>3, <2>1
  <2>2. CASE x # des
    <3>1. x \in Live \ ToSet(dead) /\ info'[x].stes = info[x].stes
      BY <1>1, <2>2 DEF SameRun
    <3> QED BY <1>2, <3>1 DEF BlocksApart
  <2> QED BY <2>1, <2>2
<1>10. ASSUME NEW x \in Live'
       PROVE  info'[x].unlinked = info'[x].entries - Cardinality({k \in Lba : sc'[k] = x})
  <2>1. CASE x = des
    <3>1. \A k \in Lba : sc[k] # des
      BY <1>1, <1>2, <1>5 DEF NamesLive
    <3>2. {k \in Lba : sc'[k] = des} = K
      BY <1>1, <1>3, <3>1
    <3> QED BY <1>1, <1>3, <2>1, <3>2
  <2>2. CASE x # des
    <3> DEFINE A == {k \in Lba : sc[k] = x}
    <3>1. x \in Live \ ToSet(dead) /\ info'[x].entries = info[x].entries
      BY <1>1, <2>2 DEF SameRun
    <3>2. {k \in Lba : sc'[k] = x} = A \ K /\ {k \in K : sc[k] = x} = A \cap K
      BY <1>1, <1>3, <2>2
    <3>3. info[x].unlinked = info[x].entries - Cardinality(A)
      BY <1>2, <3>1 DEF UnlinkedExact
    <3>4. IsFiniteSet(A)
      <4>1. IsFiniteSet(Lba) /\ A \in SUBSET Lba
        BY LbaAssumption
      <4> QED BY <4>1, FS_Subset
    <3> HIDE DEF A
    <3>5. Cardinality(A \ K) = Cardinality(A) - Cardinality(A \cap K)
      BY <3>4, FS_Difference
    <3>6. Cardinality(A) \in Nat /\ Cardinality(A \cap K) \in Nat
      BY <3>4, FS_Intersection, FS_CardinalityType
    <3>7. info[x].entries \in Nat
      BY <1>2, <3>1, RunTyped DEF RunSet
    <3>8. info'[x].unlinked = info[x].unlinked + Cardinality(A \cap K)
      BY <1>1, <3>1, <3>2
    <3>9. info'[x].unlinked = info'[x].entries - Cardinality(A \ K)
      BY <3>1, <3>3, <3>5, <3>6, <3>7, <3>8
    <3> QED BY <3>2, <3>9
  <2> QED BY <2>1, <2>2
<1>11. UnlinkedExact'
  BY <1>10 DEF UnlinkedExact
<1>12. ASSUME mem \in ToSet(srcs) \/ \A k \in Lba : sc[k] # mem, NEW k \in Lba PROVE sc'[k] # mem
  BY <1>1, <1>2, <1>4, <1>12
<1> QED BY <1>6, <1>8, <1>9, <1>11, <1>12

-----------------------------------------------------------------------------
(* __lsm_populate_new_run finds an index: the runs fit the slots of the     *)
(* levels but one, and the pool is larger than that.                       *)

(* The places of all levels in one row.                                    *)
Place(i, s) == (i - 1) * SizeFactor + s

LEMMA PlacesDiffer ==
    /\ \A i \in Lev : \A s \in 1..LevelMax(i) : Place(i, s) \in 1..(TotalLevel * SizeFactor + Spare)
    /\ \A i, j \in Lev : \A s \in 1..LevelMax(i), t \in 1..LevelMax(j) :
          Place(i, s) = Place(j, t) => i = j /\ s = t
<1>0. /\ TotalLevel \in Nat /\ SizeFactor \in Nat \ {0} /\ Spare \in Nat
      /\ \A i \in Lev : i \in Nat /\ i >= 1 /\ i <= TotalLevel
  BY ShapeAssumption DEF Lev
<1>1. ASSUME NEW i \in Lev, NEW j \in Lev, NEW s \in 1..LevelMax(i), NEW t \in 1..LevelMax(j), j < i
      PROVE  Place(j, t) < Place(i, s)
  <2>1. j # TotalLevel /\ t <= SizeFactor /\ s >= 1 /\ s \in Nat /\ t \in Nat
    BY <1>0, <1>1, Shape DEF LevelMax
  <2>2. j * SizeFactor <= (i - 1) * SizeFactor
    BY <1>0, <1>1, TimesMonotone
  <2>3. (j - 1) * SizeFactor + SizeFactor = j * SizeFactor
    BY <1>0
  <2>4. (j - 1) * SizeFactor \in Int /\ (i - 1) * SizeFactor \in Int
    BY <1>0
  <2> QED BY <1>0, <2>1, <2>2, <2>3, <2>4 DEF Place
<1>2. ASSUME NEW i \in Lev, NEW s \in 1..LevelMax(i)
      PROVE  Place(i, s) \in 1..(TotalLevel * SizeFactor + Spare)
  <2>1. s \in Nat /\ s >= 1 /\ s <= SizeFactor + (IF i = TotalLevel THEN Spare ELSE 0)
    BY <1>0, Shape DEF LevelMax
  <2>2. (i - 1) * SizeFactor \in Nat /\ (i - 1) * SizeFactor + SizeFactor = i * SizeFactor
    BY <1>0
  <2>3. i * SizeFactor <= TotalLevel * SizeFactor /\ i * SizeFactor \in Nat /\ TotalLevel * SizeFactor \in Nat
    BY <1>0, TimesMonotone
  <2> QED BY <1>0, <2>1, <2>2, <2>3 DEF Place
<1>3. ASSUME NEW i \in Lev, NEW j \in Lev, NEW s \in 1..LevelMax(i), NEW t \in 1..LevelMax(j),
             Place(i, s) = Place(j, t)
      PROVE  i = j /\ s = t
  <2>1. Place(i, s) \in Nat /\ Place(j, t) \in Nat
    BY <1>2
  <2>2. ~(j < i) /\ ~(i < j)
    BY <1>1, <1>3, <2>1
  <2>3. i = j
    BY <1>0, <2>2
  <2>4. (i - 1) * SizeFactor \in Int /\ s \in Int /\ t \in Int
    BY <1>0, Shape
  <2> QED BY <1>3, <2>3, <2>4 DEF Place
<1> QED BY <1>2, <1>3

LEMMA PoolHolds ==
    ASSUME TypeOK, PlacesInv
    PROVE  free_q # <<>>
<1> DEFINE N == TotalLevel * SizeFactor + Spare
<1>1. N \in Nat /\ Pool \in Nat /\ Pool > N
  BY ShapeAssumption, PoolAssumption
<1>2. PICK i0 \in Lev : i0 # at
  <2>1. 1 \in Lev /\ TotalLevel \in Lev /\ 1 # TotalLevel
    BY Shape
  <2> QED BY <2>1
<1>3. PICK s0 \in 1..LevelMax(i0) : s0 \notin ToSet(disk[i0].order)
  <2>1. LevelOK(disk[i0], LevelMax(i0)) /\ Len(disk[i0].order) < LevelMax(i0) /\ LevelMax(i0) \in Nat
    BY <1>2, Shape DEF PlacesInv
  <2> QED BY <2>1, FreeSlotFound
<1>4. ASSUME NEW x \in Live \ {mem}
      PROVE  \E i \in Lev : \E s \in ToSet(disk[i].order) : disk[i].slot[s] = x
  <2>1. PICK i \in Lev : x \in Held(disk[i])
    BY DEF PlacesInv
  <2> QED BY <2>1 DEF Held
<1>5. \A i \in Lev : ToSet(disk[i].order) \subseteq 1..LevelMax(i)
  <2> SUFFICES ASSUME NEW i \in Lev PROVE ToSet(disk[i].order) \subseteq 1..LevelMax(i)
    OBVIOUS
  <2>1. LevelOK(disk[i], LevelMax(i))
    BY DEF PlacesInv
  <2> QED BY <2>1, DistinctLen DEF LevelOK
<1> DEFINE at0(x, n) == \E i \in Lev : \E s \in ToSet(disk[i].order) : disk[i].slot[s] = x /\ n = Place(i, s)
           h == [x \in Live |-> IF x = mem THEN Place(i0, s0) ELSE CHOOSE n \in 1..N : at0(x, n)]
<1>6. \A x \in Live \ {mem} : h[x] \in 1..N /\ at0(x, h[x])
  <2> SUFFICES ASSUME NEW x \in Live \ {mem} PROVE h[x] \in 1..N /\ at0(x, h[x])
    OBVIOUS
  <2>1. PICK i \in Lev : \E s \in ToSet(disk[i].order) : disk[i].slot[s] = x
    BY <1>4
  <2>2. PICK s \in ToSet(disk[i].order) : disk[i].slot[s] = x
    BY <2>1
  <2>3. Place(i, s) \in 1..N
    BY <1>5, PlacesDiffer
  <2>4. at0(x, Place(i, s))
    BY <2>2
  <2>5. h[x] = CHOOSE n \in 1..N : at0(x, n)
    OBVIOUS
  <2> HIDE DEF at0, h
  <2> QED BY <2>3, <2>4, <2>5
<1>7. mem \in Live => h[mem] = Place(i0, s0) /\ h[mem] \in 1..N
  BY PlacesDiffer
<1>8. h = [x \in Live |-> h[x]]
  OBVIOUS
<1> HIDE DEF h
<1>9. h \in [Live -> 1..N]
  BY <1>6, <1>7, <1>8
<1>10. ASSUME NEW x \in Live \ {mem}, NEW y \in Live \ {mem}, h[x] = h[y] PROVE x = y
  <2>0. PICK i \in Lev : \E s \in ToSet(disk[i].order) : disk[i].slot[s] = x /\ h[x] = Place(i, s)
    BY <1>6
  <2>1. PICK s \in ToSet(disk[i].order) : disk[i].slot[s] = x /\ h[x] = Place(i, s)
    BY <2>0
  <2>a. PICK j \in Lev : \E t \in ToSet(disk[j].order) : disk[j].slot[t] = y /\ h[y] = Place(j, t)
    BY <1>6
  <2>2. PICK t \in ToSet(disk[j].order) : disk[j].slot[t] = y /\ h[y] = Place(j, t)
    BY <2>a
  <2>3. s \in 1..LevelMax(i) /\ t \in 1..LevelMax(j) /\ Place(i, s) = Place(j, t)
    BY <1>5, <1>10, <2>1, <2>2
  <2>4. i = j /\ s = t
    BY <2>3, PlacesDiffer
  <2> QED BY <2>1, <2>2, <2>4
<1>11. ASSUME NEW x \in Live \ {mem}, mem \in Live PROVE h[x] # h[mem]
  <2> SUFFICES ASSUME h[x] = h[mem] PROVE FALSE
    OBVIOUS
  <2>0. PICK i \in Lev : \E s \in ToSet(disk[i].order) : disk[i].slot[s] = x /\ h[x] = Place(i, s)
    BY <1>6
  <2>1. PICK s \in ToSet(disk[i].order) : disk[i].slot[s] = x /\ h[x] = Place(i, s)
    BY <2>0
  <2>2. s \in 1..LevelMax(i) /\ Place(i, s) = Place(i0, s0)
    BY <1>5, <1>7, <1>11, <2>1
  <2>3. i = i0 /\ s = s0
    BY <2>2, PlacesDiffer
  <2> QED BY <1>3, <2>1, <2>3
<1>12. h \in Injection(Live, 1..N)
  BY <1>9, <1>10, <1>11 DEF Injection, IsInjective
<1>13. IsFiniteSet(1..N) /\ Cardinality(1..N) = N
  BY <1>1, FS_Interval
<1>14. IsFiniteSet(Live) /\ Cardinality(Live) <= N
  BY <1>12, <1>13, FS_Injection
<1>15. IsFiniteSet(Idx) /\ Cardinality(Idx) = Pool
  <2>0. 0 \in Int /\ Pool - 1 \in Int
    BY <1>1
  <2>1. IsFiniteSet(0 .. Pool - 1) /\ Cardinality(0 .. Pool - 1) = IF 0 > Pool - 1 THEN 0 ELSE (Pool - 1) - 0 + 1
    BY <2>0, FS_Interval
  <2> HIDE DEF N
  <2>2. ~(0 > Pool - 1) /\ (Pool - 1) - 0 + 1 = Pool
    BY <1>1
  <2> QED BY <2>1, <2>2 DEF Idx
<1>16. Idx \ Live # {}
  <2> SUFFICES ASSUME Idx \ Live = {} PROVE FALSE
    OBVIOUS
  <2>1. Idx = Live
    BY DEF Live
  <2>2. Cardinality(Idx) = Cardinality(Live) /\ Cardinality(Live) \in Nat
    BY <1>14, <2>1, FS_CardinalityType
  <2> HIDE DEF N
  <2> QED BY <1>1, <1>14, <1>15, <2>2
<1>17. ToSet(free_q) # {}
  BY <1>16 DEF PlacesInv
<1> QED BY <1>17 DEF ToSet

-----------------------------------------------------------------------------
(* Every step keeps the books.                                             *)

LEMMA RunsOfLevel ==
    ASSUME NEW n \in Nat, NEW lev, LevelOK(lev, n), NEW S, Held(lev) \subseteq S
    PROVE  /\ RunsOf(lev) \in Seq(S) /\ IsInjective(RunsOf(lev)) /\ ToSet(RunsOf(lev)) = Held(lev)
<1> DEFINE r == RunsOf(lev)
           m == Len(lev.order)
<1>1. m \in Nat /\ DOMAIN lev.order = 1..m /\ r = [i \in 1..m |-> lev.slot[lev.order[i]]]
  BY LenProperties DEF LevelOK, RunsOf
<1> HIDE DEF r, m
<1>2. \A i \in 1..m : lev.order[i] \in ToSet(lev.order) /\ r[i] = lev.slot[lev.order[i]]
  BY <1>1 DEF ToSet
<1>3. \A i \in 1..m : r[i] \in Held(lev)
  BY <1>2 DEF Held
<1>4. r \in [1..m -> S]
  BY <1>1, <1>3
<1>5. r \in Seq(S) /\ DOMAIN r = 1..m
  BY <1>1, <1>4, SeqOfFunction
<1>6. ToSet(r) = Held(lev)
  <2>1. \A s \in ToSet(lev.order) : \E i \in 1..m : s = lev.order[i]
    BY <1>1 DEF ToSet
  <2>2. Held(lev) \subseteq ToSet(r)
    <3> SUFFICES ASSUME NEW s \in ToSet(lev.order) PROVE lev.slot[s] \in ToSet(r)
      BY DEF Held
    <3>1. PICK i \in 1..m : s = lev.order[i]
      BY <2>1
    <3>2. r[i] = lev.slot[s]
      BY <1>2, <3>1
    <3> QED BY <1>5, <3>2 DEF ToSet
  <2> QED BY <1>3, <1>5, <2>2 DEF ToSet
<1>7. IsInjective(r)
  <2> SUFFICES ASSUME NEW i \in 1..m, NEW j \in 1..m, r[i] = r[j] PROVE i = j
    BY <1>5 DEF IsInjective
  <2>1. lev.order[i] = lev.order[j]
    BY <1>2 DEF LevelOK
  <2> QED BY <1>1, <2>1 DEF LevelOK, IsInjective
<1> QED BY <1>5, <1>6, <1>7 DEF r

(* The runs D leave their levels, run des enters level v, and no level but  *)
(* the one looked at is full.                                              *)
LevelsAfter(D, v, des) ==
    \A i \in Lev : /\ LevelOK(disk'[i], LevelMax(i))
                   /\ Held(disk'[i]) = (Held(disk[i]) \ D) \cup (IF i = v THEN {des} ELSE {})
                   /\ Len(disk'[i].order) < LevelMax(i) \/ (pc' = "compact" /\ i = at')

LEMMA PlacesStep ==
    ASSUME PlacesInv, NEW des \in Idx \ Live, NEW D, D \subseteq Live \ {mem}, NEW v \in Lev,
           mem' = mem, Live' = (Live \cup {des}) \ D,
           LevelsAfter(D, v, des),
           IsInjective(free_q'), ToSet(free_q') = Idx \ Live'
    PROVE  PlacesInv'
<1>1. /\ \A i \in Lev : mem \notin Held(disk[i])
      /\ \A i, j \in Lev : i # j => Held(disk[i]) \cap Held(disk[j]) = {}
      /\ Live = {mem} \cup UNION {Held(disk[i]) : i \in Lev}
  BY DEF PlacesInv
<1>2. \A i \in Lev : Held(disk[i]) \subseteq Live
  BY <1>1
<1>a. \A i \in Lev : Held(disk'[i]) = (Held(disk[i]) \ D) \cup (IF i = v THEN {des} ELSE {})
  BY DEF LevelsAfter
<1>3. \A i \in Lev : mem \notin Held(disk'[i])
  BY <1>1, <1>a
<1>4. ASSUME NEW i \in Lev, NEW j \in Lev, i # j PROVE Held(disk'[i]) \cap Held(disk'[j]) = {}
  <2> SUFFICES ASSUME NEW x \in Held(disk'[i]), x \in Held(disk'[j]) PROVE FALSE
    OBVIOUS
  <2>1. x \in Held(disk[i]) \/ (x = des /\ i = v)
    BY <1>a
  <2>2. x \in Held(disk[j]) \/ (x = des /\ j = v)
    BY <1>a
  <2>3. des \notin Held(disk[i]) /\ des \notin Held(disk[j]) /\ Held(disk[i]) \cap Held(disk[j]) = {}
    BY <1>1, <1>2, <1>4
  <2> QED BY <1>4, <2>1, <2>2, <2>3
<1>5. Live' = {mem} \cup UNION {Held(disk'[i]) : i \in Lev}
  <2>1. \A x : (\E i \in Lev : x \in Held(disk'[i])) <=> (x = des \/ \E i \in Lev : x \in Held(disk[i])) /\ x \notin D
    <3>1. des \notin D
      OBVIOUS
    <3> QED BY <1>a, <3>1
  <2>2. \A x : x \in Live <=> x = mem \/ \E i \in Lev : x \in Held(disk[i])
    BY <1>1
  <2>3. \A x : x \in Live' <=> x = mem \/ \E i \in Lev : x \in Held(disk'[i])
    BY <2>1, <2>2
  <2> QED BY <2>3
<1>6. \A i \in Lev : LevelOK(disk'[i], LevelMax(i)) /\ (Len(disk'[i].order) < LevelMax(i) \/ (pc' = "compact" /\ i = at'))
  BY DEF LevelsAfter
<1> QED BY <1>3, <1>4, <1>5, <1>6 DEF PlacesInv

(* A merge into a run of level v, with the rest of the step.               *)
MergeStep(srcs, lv, force, dead, v) ==
    /\ Sources(srcs) /\ dead \in Seq(Idx) /\ IsInjective(dead) /\ ToSet(dead) \subseteq ToSet(srcs) \ {mem}
    /\ MergeInto(srcs, lv, force, dead) /\ (mem \in ToSet(srcs) \/ pc # "idle")
    /\ mem' = mem /\ written' = written /\ pc' \in {"compact", "space"} /\ at' \in Lev /\ forced' \in Nat
    /\ DOMAIN disk' = Lev /\ LevelsAfter(ToSet(dead), v, Head(free_q))

LEMMA MergeBooks ==
    ASSUME BooksInv, NEW srcs, NEW force, NEW lv \in 0..TotalLevel, NEW dead, NEW v \in Lev,
           MergeStep(srcs, lv, force, dead, v)
    PROVE  BooksInv'
<1> USE DEF MergeStep
<1> DEFINE des == Head(free_q)
           mv == MovedBlocks(srcs, force)
           K == LinkedBy(srcs, mv)
           R == Merge(srcs, mv, lv)
<1> HIDE DEF des, mv, K, R
<1>0. mv = MovedBlocks(srcs, force) /\ des = Head(free_q) /\ K = LinkedBy(srcs, mv) /\ R = Merge(srcs, mv, lv)
  BY DEF des, mv, K, R
<1>1. TypeOK /\ PlacesInv /\ NamesInv /\ mem \in Live
  BY DEF BooksInv, PlacesInv
<1>2. free_q # <<>> /\ ToSet(dead) \subseteq ToSet(srcs)
  BY <1>1, PoolHolds
<1>a. /\ des \in Idx \ Live /\ ToSet(srcs) \subseteq Live
      /\ info' \in [Idx -> RunSet \cup {None}]
      /\ Live' = (Live \cup {des}) \ ToSet(dead) /\ info'[des] = R
      /\ \A y \in Live \ ToSet(dead) :
           SameRun(y) /\ info'[y].unlinked = info[y].unlinked + Cardinality({k \in K : sc[k] = y})
      /\ sc' \in [Lba -> Idx \cup {None}]
      /\ \A k \in Lba : sc'[k] = IF k \in K THEN des ELSE sc[k]
      /\ now_recency' = now_recency + 1
  BY <1>0, <1>2, MergeRuns
<1>3. /\ des \in Idx \ Live /\ ToSet(srcs) \subseteq Live
      /\ info' \in [Idx -> RunSet \cup {None}]
      /\ Live' = (Live \cup {des}) \ ToSet(dead)
      /\ \A y \in Live \ ToSet(dead) : SameRun(y)
      /\ sc' \in [Lba -> Idx \cup {None}]
      /\ now_recency' = now_recency + 1
  BY <1>a
<1>4. free_q' \in Seq(Idx) /\ IsInjective(free_q') /\ ToSet(free_q') = Idx \ Live'
  BY <1>2, MergePool
<1>5. /\ NamesLive' /\ BlocksApart' /\ UnlinkedExact'
      /\ \A k \in Lba : sc[k] # None => sc'[k] # None
      /\ (mem \in ToSet(srcs) \/ \A k \in Lba : sc[k] # mem) => \A k \in Lba : sc'[k] # mem
  BY <1>2, MergeNames
<1>6. TypeOK'
  <2>1. \A i \in Lev : /\ disk'[i].slot \in [1..LevelMax(i) -> Idx \cup {None}]
                       /\ disk'[i].order \in Seq(1..LevelMax(i))
    BY DEF LevelOK, LevelsAfter
  <2>2. now_recency' \in Nat /\ mem' \in Idx /\ written' \subseteq Lba
    BY <1>1, <1>3 DEF TypeOK
  <2> QED BY <1>3, <1>4, <2>1, <2>2 DEF TypeOK
<1>7. PlacesInv'
  BY <1>0, <1>1, <1>3, <1>4, PlacesStep
<1>8. NamesInv'
  <2>1. NoFlushedMem'
    <3>1. \A k \in Lba : sc'[k] # mem
      BY <1>1, <1>5 DEF NamesInv, NoFlushedMem
    <3> QED BY <3>1 DEF NoFlushedMem
  <2>2. \A k \in written' : sc'[k] # None
    BY <1>1, <1>5 DEF NamesInv, TypeOK
  <2>3. info'[mem'].entries > 0 => info'[mem'].stes # <<>>
    BY <1>1, <1>3 DEF NamesInv, SameRun
  <2> QED BY <1>5, <2>1, <2>2, <2>3 DEF NamesInv
<1> QED BY <1>6, <1>7, <1>8 DEF BooksInv

LEMMA FlushMerges ==
    ASSUME BooksInv, Flush
    PROVE  MergeStep(<<mem>>, 1, FALSE, <<>>, 1) /\ ToSet(<<mem>>) = {mem} /\ ToSet(<<>>) = {} /\ pc = "idle"
<1> DEFINE des == Head(free_q)
<1>1. TypeOK /\ PlacesInv /\ mem \in Live
  BY DEF BooksInv, PlacesInv
<1>2. Sources(<<mem>>) /\ ToSet(<<mem>>) = {mem}
  BY <1>1 DEF Sources, IsInjective, ToSet
<1>3. <<>> \in Seq(Idx) /\ IsInjective(<<>>) /\ ToSet(<<>>) = {}
  BY DEF IsInjective, ToSet
<1>4. free_q # <<>> /\ des \in Idx \ Live
  <2>1. free_q # <<>>
    BY <1>1, PoolHolds
  <2>2. free_q \in Seq(Idx) /\ IsInjective(free_q) /\ ToSet(free_q) = Idx \ Live
    BY <1>1 DEF TypeOK, PlacesInv
  <2> QED BY <2>1, <2>2, TailDistinct
<1>5. /\ pc = "idle" /\ MergeInto(<<mem>>, 1, FALSE, <<>>)
      /\ disk' = [disk EXCEPT ![1] = LevelInsertRun(disk[1], des)]
      /\ pc' = "compact" /\ at' = 1 /\ mem' = mem /\ forced' = forced /\ written' = written
  BY DEF Flush
<1> HIDE DEF des
<1>6. 1 \in Lev /\ 1 \in 0..TotalLevel
  BY Shape, ShapeAssumption DEF Lev
<1>7. /\ DOMAIN disk = Lev /\ forced \in Nat
      /\ \A i \in Lev : LevelOK(disk[i], LevelMax(i)) /\ LevelMax(i) \in Nat /\ Held(disk[i]) \subseteq Live
      /\ \A i \in Lev : Len(disk[i].order) < LevelMax(i)
  BY <1>1, <1>5, Shape DEF PlacesInv, TypeOK
<1>8. DOMAIN disk' = Lev /\ \A i \in Lev : disk'[i] = IF i = 1 THEN LevelInsertRun(disk[1], des) ELSE disk[i]
  BY <1>5, <1>7
<1>9. /\ LevelOK(LevelInsertRun(disk[1], des), LevelMax(1))
      /\ Held(LevelInsertRun(disk[1], des)) = Held(disk[1]) \cup {des}
  BY <1>4, <1>6, <1>7, InsertLevel
<1>10. LevelsAfter({}, 1, des)
  BY <1>5, <1>7, <1>8, <1>9 DEF LevelsAfter
<1>11. pc' \in {"compact", "space"} /\ at' \in Lev /\ forced' \in Nat /\ mem \in ToSet(<<mem>>)
  BY <1>2, <1>5, <1>6, <1>7
<1>12. LevelsAfter(ToSet(<<>>), 1, Head(free_q)) /\ ToSet(<<>>) \subseteq ToSet(<<mem>>) \ {mem}
  BY <1>3, <1>10 DEF des
<1> QED BY <1>2, <1>3, <1>5, <1>6, <1>8, <1>11, <1>12 DEF MergeStep

LEMMA NewIndex ==
    ASSUME BooksInv
    PROVE  free_q # <<>> /\ Head(free_q) \in Idx \ Live
<1>1. free_q # <<>>
  BY PoolHolds DEF BooksInv
<1>2. free_q \in Seq(Idx) /\ IsInjective(free_q) /\ ToSet(free_q) = Idx \ Live
  BY DEF BooksInv, TypeOK, PlacesInv
<1> QED BY <1>1, <1>2, TailDistinct

LEMMA LevelFacts ==
    ASSUME BooksInv
    PROVE  /\ TypeOK /\ PlacesInv /\ mem \in Live /\ DOMAIN disk = Lev /\ forced \in Nat /\ at \in Lev
           /\ \A i \in Lev : /\ LevelOK(disk[i], LevelMax(i)) /\ LevelMax(i) \in Nat /\ LevelMax(i) >= 2
                             /\ Held(disk[i]) \subseteq Live /\ mem \notin Held(disk[i])
                             /\ Len(disk[i].order) \in Nat /\ Len(disk[i].order) <= LevelMax(i)
                             /\ Len(disk[i].order) < LevelMax(i) \/ (pc = "compact" /\ i = at)
           /\ \A i, j \in Lev : i # j => Held(disk[i]) \cap Held(disk[j]) = {}
<1>1. TypeOK /\ PlacesInv /\ mem \in Live /\ DOMAIN disk = Lev /\ forced \in Nat /\ at \in Lev
  BY DEF BooksInv, PlacesInv, TypeOK
<1>2. \A i \in Lev : /\ LevelOK(disk[i], LevelMax(i)) /\ mem \notin Held(disk[i])
                     /\ Len(disk[i].order) < LevelMax(i) \/ (pc = "compact" /\ i = at)
  BY <1>1 DEF PlacesInv
<1>3. \A i \in Lev : Held(disk[i]) \subseteq Live
  BY <1>1 DEF PlacesInv
<1>4. \A i, j \in Lev : i # j => Held(disk[i]) \cap Held(disk[j]) = {}
  BY <1>1 DEF PlacesInv
<1>5. ASSUME NEW i \in Lev PROVE Len(disk[i].order) \in Nat /\ Len(disk[i].order) <= LevelMax(i)
  <2>1. disk[i].order \in Seq(1..LevelMax(i)) /\ IsInjective(disk[i].order) /\ LevelMax(i) \in Nat
    BY <1>2, Shape DEF LevelOK
  <2>2. /\ Cardinality(ToSet(disk[i].order)) = Len(disk[i].order)
        /\ ToSet(disk[i].order) \in SUBSET (1..LevelMax(i)) /\ Len(disk[i].order) \in Nat
    BY <2>1, DistinctLen, LenProperties
  <2>3. IsFiniteSet(1..LevelMax(i)) /\ Cardinality(1..LevelMax(i)) = LevelMax(i)
    BY <2>1, FS_Interval
  <2>4. Cardinality(ToSet(disk[i].order)) <= Cardinality(1..LevelMax(i))
    BY <2>2, <2>3, FS_Subset
  <2> QED BY <2>2, <2>3, <2>4
<1> QED BY <1>1, <1>2, <1>3, <1>4, <1>5, Shape

LEMMA CompactUpperMerges ==
    ASSUME BooksInv, CompactUpper
    PROVE  /\ MergeStep(RunsOf(disk[at]), at + 1, FALSE, RunsOf(disk[at]), at + 1)
           /\ at + 1 \in Lev /\ at \in Lev /\ ToSet(RunsOf(disk[at])) = Held(disk[at]) /\ pc = "compact"
<1> DEFINE des == Head(free_q)
           srcs == RunsOf(disk[at])
<1>1. /\ pc = "compact" /\ at < TotalLevel /\ MergeInto(srcs, at + 1, FALSE, srcs)
      /\ disk' = [disk EXCEPT ![at] = LevelInit(at), ![at + 1] = LevelInsertRun(@, des)]
      /\ at' = at + 1 /\ mem' = mem /\ pc' = pc /\ forced' = forced /\ written' = written
  BY DEF CompactUpper
<1>2. free_q # <<>> /\ des \in Idx \ Live
  BY NewIndex
<1>3. /\ TypeOK /\ mem \in Live /\ DOMAIN disk = Lev /\ forced \in Nat /\ at \in Lev
      /\ \A i \in Lev : /\ LevelOK(disk[i], LevelMax(i)) /\ LevelMax(i) \in Nat /\ LevelMax(i) >= 2
                        /\ Held(disk[i]) \subseteq Live /\ mem \notin Held(disk[i])
                        /\ Len(disk[i].order) < LevelMax(i) \/ (pc = "compact" /\ i = at)
      /\ \A i, j \in Lev : i # j => Held(disk[i]) \cap Held(disk[j]) = {}
  BY LevelFacts
<1>4. at \in Nat /\ at + 1 \in Lev /\ at + 1 # at /\ at + 1 \in 0..TotalLevel
  BY <1>1, <1>3, ShapeAssumption DEF Lev
<1>5. srcs \in Seq(Live) /\ IsInjective(srcs) /\ ToSet(srcs) = Held(disk[at])
  BY <1>3, RunsOfLevel
<1>6. srcs \in Seq(Idx)
  <2>1. Live \subseteq Idx
    BY DEF Live
  <2> QED BY <1>5, <2>1, SeqMonotonic
<1>7. /\ DOMAIN disk' = Lev
      /\ \A i \in Lev : disk'[i] = IF i = at THEN LevelInit(at)
                                   ELSE IF i = at + 1 THEN LevelInsertRun(disk[i], des) ELSE disk[i]
  BY <1>1, <1>3, <1>4
<1> HIDE DEF des, srcs
<1>8. /\ LevelOK(LevelInit(at), LevelMax(at)) /\ Held(LevelInit(at)) = {} /\ Len(LevelInit(at).order) = 0
  BY <1>3, EmptyLevel
<1>9. /\ LevelOK(LevelInsertRun(disk[at + 1], des), LevelMax(at + 1))
      /\ Held(LevelInsertRun(disk[at + 1], des)) = Held(disk[at + 1]) \cup {des}
  <2>1. des \notin Held(disk[at + 1]) /\ Len(disk[at + 1].order) < LevelMax(at + 1)
    BY <1>2, <1>3, <1>4
  <2> QED BY <1>2, <1>3, <1>4, <2>1, InsertLevel
<1>10. ASSUME NEW i \in Lev
       PROVE  /\ LevelOK(disk'[i], LevelMax(i))
              /\ Held(disk'[i]) = (Held(disk[i]) \ ToSet(srcs)) \cup (IF i = at + 1 THEN {des} ELSE {})
              /\ Len(disk'[i].order) < LevelMax(i) \/ (pc' = "compact" /\ i = at')
  <2>1. CASE i = at
    BY <1>3, <1>4, <1>5, <1>7, <1>8, <2>1
  <2>2. CASE i = at + 1
    <3>1. Held(disk[i]) \ ToSet(srcs) = Held(disk[i])
      BY <1>3, <1>4, <1>5, <2>2
    <3> QED BY <1>1, <1>4, <1>7, <1>9, <2>2, <3>1
  <2>3. CASE i # at /\ i # at + 1
    <3>1. Held(disk[i]) \ ToSet(srcs) = Held(disk[i])
      BY <1>3, <1>5, <2>3
    <3> QED BY <1>3, <1>7, <2>3, <3>1
  <2> QED BY <2>1, <2>2, <2>3
<1>11. LevelsAfter(ToSet(srcs), at + 1, Head(free_q))
  BY <1>10 DEF LevelsAfter, des
<1>12. pc' \in {"compact", "space"} /\ at' \in Lev /\ forced' \in Nat /\ pc # "idle"
  BY <1>1, <1>3, <1>4
<1>13. Sources(srcs) /\ ToSet(srcs) \subseteq ToSet(srcs) \ {mem}
  BY <1>3, <1>5 DEF Sources
<1>14. MergeStep(srcs, at + 1, FALSE, srcs, at + 1)
  BY <1>1, <1>5, <1>6, <1>7, <1>11, <1>12, <1>13 DEF MergeStep
<1> QED BY <1>1, <1>3, <1>4, <1>5, <1>14 DEF srcs

LEMMA CompactLastMerges ==
    ASSUME BooksInv, CompactLast
    PROVE  /\ \E x, y \in Held(disk[TotalLevel]) :
                /\ MergeStep(<<x, y>>, TotalLevel, FALSE, <<x, y>>, TotalLevel)
                /\ ToSet(<<x, y>>) = {x, y}
           /\ TotalLevel \in Lev /\ pc = "compact"
<1> DEFINE des == Head(free_q)
           T == TotalLevel
           lev == disk[T]
           n == LevelMax(T)
<1>0. /\ pc = "compact" /\ at = T /\ LevelIsFull(lev) /\ TargetsExist(lev)
      /\ pc' = "space" /\ mem' = mem /\ at' = at /\ forced' = forced /\ written' = written
  BY DEF CompactLast
<1>1. free_q # <<>> /\ des \in Idx \ Live
  BY NewIndex
<1>2. /\ TypeOK /\ mem \in Live /\ DOMAIN disk = Lev /\ forced \in Nat /\ at \in Lev
      /\ \A i \in Lev : /\ LevelOK(disk[i], LevelMax(i)) /\ LevelMax(i) \in Nat /\ LevelMax(i) >= 2
                        /\ Held(disk[i]) \subseteq Live /\ mem \notin Held(disk[i])
                        /\ Len(disk[i].order) \in Nat /\ Len(disk[i].order) <= LevelMax(i)
                        /\ Len(disk[i].order) < LevelMax(i) \/ (pc = "compact" /\ i = at)
      /\ \A i, j \in Lev : i # j => Held(disk[i]) \cap Held(disk[j]) = {}
  BY LevelFacts
<1>3. T \in Lev /\ LevelOK(lev, n) /\ n \in Nat /\ n >= 2 /\ Held(lev) \subseteq Live /\ mem \notin Held(lev)
  BY <1>2, Shape
<1>4. Len(lev.order) = n /\ n # 4
  <2>0. DOMAIN lev.slot = 1..n
    BY <1>3 DEF LevelOK
  <2>a. Cardinality(1..n) = n
    <3> HIDE DEF n
    <3> QED BY <1>3, FS_Interval
  <2>1. DOMAIN lev.slot = 1..n /\ Cardinality(1..n) = n
    BY <2>0, <2>a
  <2>2. Len(lev.order) >= n
    BY <1>0, <2>1 DEF LevelIsFull
  <2>3. Len(lev.order) <= n /\ Len(lev.order) \in Nat
    BY <1>2, <1>3
  <2>4. n = SizeFactor + Spare
    BY DEF LevelMax
  <2> QED BY <1>3, <2>2, <2>3, <2>4, LastLevelAssumption
<1>5. PICK a \in ToSet(lev.order), b \in ToSet(lev.order) : a # b /\ TwoTargets(lev) = <<a, b>>
  BY <1>0, <1>2, <1>3, <1>4, TwoFound
<1> DEFINE x == lev.slot[a]
           y == lev.slot[b]
           srcs == <<x, y>>
           one == LevelRemove(lev, a)
           two == LevelRemove(one, b)
           reb == Rebuild(two, T)
<1>6. /\ MergeInto(srcs, T, FALSE, srcs)
      /\ disk' = [disk EXCEPT ![T] = LevelInsertRun(reb, des)]
  <2>1. TwoTargets(lev)[1] = a /\ TwoTargets(lev)[2] = b
    BY <1>5
  <2> QED BY <1>0, <2>1 DEF CompactLast
<1>7. x \in Held(lev) /\ y \in Held(lev) /\ x # y
  BY <1>3, <1>5 DEF Held, LevelOK
<1>8. /\ LevelOK(one, n) /\ Held(one) = Held(lev) \ {x} /\ Len(one.order) = n - 1
      /\ b \in ToSet(one.order) /\ one.slot[b] = y
  <2>1. /\ LevelOK(one, n) /\ Held(one) = Held(lev) \ {x} /\ Len(one.order) = Len(lev.order) - 1
        /\ ToSet(one.order) = ToSet(lev.order) \ {a}
        /\ \A t \in ToSet(lev.order) \ {a} : one.slot[t] = lev.slot[t]
    <3>1. n \in Nat /\ LevelOK(lev, n) /\ a \in ToSet(lev.order)
      BY <1>3, <1>5
    <3> HIDE DEF n, lev
    <3> QED BY <3>1, RemoveLevel
  <2> HIDE DEF one
  <2> QED BY <1>4, <1>5, <2>1
<1> HIDE DEF one
<1>9. LevelOK(two, n) /\ Held(two) = (Held(lev) \ {x}) \ {y} /\ Len(two.order) = n - 2
  <2>1. LevelOK(two, n) /\ Held(two) = Held(one) \ {one.slot[b]} /\ Len(two.order) = Len(one.order) - 1
    BY <1>3, <1>8, RemoveLevel
  <2> HIDE DEF two
  <2> QED BY <1>3, <1>8, <2>1
<1> HIDE DEF two
<1>10. LevelOK(reb, n) /\ Held(reb) = (Held(lev) \ {x}) \ {y} /\ Len(reb.order) = n - 2
  <2>1. Len(two.order) # 2
    BY <1>3, <1>4, <1>9
  <2> QED BY <1>3, <1>9, <2>1, RebuildLevel
<1> HIDE DEF reb
<1>11. /\ LevelOK(LevelInsertRun(reb, des), n)
       /\ Held(LevelInsertRun(reb, des)) = Held(reb) \cup {des}
       /\ Len(LevelInsertRun(reb, des).order) = (n - 2) + 1
  <2>1. des \in Idx /\ des \notin Held(reb) /\ Len(reb.order) < n
    BY <1>1, <1>3, <1>10
  <2> QED BY <1>3, <1>10, <2>1, InsertLevel
<1>12. DOMAIN disk' = Lev /\ \A i \in Lev : disk'[i] = IF i = T THEN LevelInsertRun(reb, des) ELSE disk[i]
  BY <1>2, <1>6
<1>13. srcs \in Seq(Live) /\ srcs \in Seq(Idx) /\ IsInjective(srcs) /\ ToSet(srcs) = {x, y}
  <2>1. x \in Live /\ y \in Live /\ x \in Idx /\ y \in Idx
    BY <1>3, <1>7 DEF Live
  <2> HIDE DEF x, y
  <2>2. srcs \in Seq(Live) /\ srcs \in Seq(Idx) /\ DOMAIN srcs = {1, 2} /\ srcs[1] = x /\ srcs[2] = y
    BY <2>1
  <2> HIDE DEF srcs
  <2> QED BY <1>7, <2>2 DEF IsInjective, ToSet
<1> HIDE DEF des, srcs, x, y
<1>14. ASSUME NEW i \in Lev
       PROVE  /\ LevelOK(disk'[i], LevelMax(i))
              /\ Held(disk'[i]) = (Held(disk[i]) \ ToSet(srcs)) \cup (IF i = T THEN {des} ELSE {})
              /\ Len(disk'[i].order) < LevelMax(i) \/ (pc' = "compact" /\ i = at')
  <2>1. CASE i = T
    <3>1. (n - 2) + 1 < n
      BY <1>3
    <3>2. disk'[i] = LevelInsertRun(reb, des)
      BY <1>12, <2>1
    <3> QED BY <1>10, <1>11, <1>13, <2>1, <3>1, <3>2
  <2>2. CASE i # T
    <3>1. disk'[i] = disk[i]
      BY <1>12, <2>2
    <3>2. Held(disk[i]) \ ToSet(srcs) = Held(disk[i])
      BY <1>2, <1>3, <1>7, <1>13, <2>2
    <3> QED BY <1>0, <1>2, <2>2, <3>1, <3>2
  <2> QED BY <2>1, <2>2
<1>15. LevelsAfter(ToSet(srcs), T, Head(free_q))
  BY <1>14 DEF LevelsAfter, des
<1>16. pc' \in {"compact", "space"} /\ at' \in Lev /\ forced' \in Nat /\ pc # "idle" /\ T \in 0..TotalLevel
  BY <1>0, <1>2, ShapeAssumption
<1>17. Sources(srcs) /\ ToSet(srcs) \subseteq ToSet(srcs) \ {mem}
  BY <1>3, <1>7, <1>13 DEF Sources
<1>18. MergeStep(srcs, T, FALSE, srcs, T)
  BY <1>0, <1>3, <1>6, <1>12, <1>13, <1>15, <1>16, <1>17 DEF MergeStep
<1> QED BY <1>0, <1>3, <1>7, <1>13, <1>18 DEF srcs

LEMMA ForceMerges ==
    ASSUME BooksInv, ForceRewrite
    PROVE  /\ \E x \in Held(disk[TotalLevel]) : MergeStep(<<x>>, ForcedLevel, TRUE, <<x>>, TotalLevel)
           /\ TotalLevel \in Lev /\ ForcedLevel \in 0..TotalLevel
<1> DEFINE des == Head(free_q)
           T == TotalLevel
           lev == disk[T]
           n == LevelMax(T)
           s == ForceTarget(lev)
           x == lev.slot[s]
           srcs == <<x>>
           one == LevelRemove(lev, s)
<1>0. /\ pc = "space" /\ x # None /\ MergeInto(srcs, ForcedLevel, TRUE, srcs)
      /\ disk' = [disk EXCEPT ![T] = LevelInsertRun(one, des)] /\ forced' = forced + 1
      /\ pc' = pc /\ mem' = mem /\ at' = at /\ written' = written
  BY DEF ForceRewrite
<1>1. free_q # <<>> /\ des \in Idx \ Live
  BY NewIndex
<1>2. /\ TypeOK /\ mem \in Live /\ DOMAIN disk = Lev /\ forced \in Nat /\ at \in Lev
      /\ \A i \in Lev : /\ LevelOK(disk[i], LevelMax(i)) /\ LevelMax(i) \in Nat /\ LevelMax(i) >= 2
                        /\ Held(disk[i]) \subseteq Live /\ mem \notin Held(disk[i])
                        /\ Len(disk[i].order) \in Nat /\ Len(disk[i].order) <= LevelMax(i)
                        /\ Len(disk[i].order) < LevelMax(i) \/ (pc = "compact" /\ i = at)
      /\ \A i, j \in Lev : i # j => Held(disk[i]) \cap Held(disk[j]) = {}
  BY LevelFacts
<1>3. T \in Lev /\ LevelOK(lev, n) /\ n \in Nat /\ n >= 2 /\ Held(lev) \subseteq Live /\ mem \notin Held(lev)
  BY <1>2, Shape
<1>4. s \in ToSet(lev.order)
  <2> DEFINE S == ScannedSlots(lev)
  <2>1. S \subseteq ToSet(lev.order) /\ S \subseteq Nat /\ IsFiniteSet(S) /\ Scannable(lev, S)
    BY <1>2, <1>3, ScannedUsed
  <2>2. s = IF S = {} THEN 1 ELSE MostUnlinkedSlot(lev, S)
    BY DEF ForceTarget
  <2>3. CASE S = {}
    <3>1. s = 1 /\ 1 \in 1..n
      BY <1>3, <2>2, <2>3
    <3> QED BY <1>0, <1>3, <3>1 DEF LevelOK
  <2>4. CASE S # {}
    <3>1. MostUnlinkedSlot(lev, S) \in S
      BY <2>1, <2>4, MostUnlinkedFound
    <3> QED BY <2>1, <2>2, <2>4, <3>1
  <2> QED BY <2>3, <2>4
<1> HIDE DEF s
<1>5. x \in Held(lev)
  BY <1>4 DEF Held
<1>6. LevelOK(one, n) /\ Held(one) = Held(lev) \ {x} /\ Len(one.order) = Len(lev.order) - 1
  BY <1>3, <1>4, RemoveLevel
<1>7. Len(lev.order) < n /\ Len(lev.order) \in Nat
  BY <1>0, <1>2, <1>3
<1> HIDE DEF one
<1>8. /\ LevelOK(LevelInsertRun(one, des), n)
      /\ Held(LevelInsertRun(one, des)) = Held(one) \cup {des}
      /\ Len(LevelInsertRun(one, des).order) = Len(one.order) + 1
  <2>1. des \in Idx /\ des \notin Held(one) /\ Len(one.order) < n
    BY <1>1, <1>3, <1>6, <1>7
  <2> QED BY <1>3, <1>6, <2>1, InsertLevel
<1>9. DOMAIN disk' = Lev /\ \A i \in Lev : disk'[i] = IF i = T THEN LevelInsertRun(one, des) ELSE disk[i]
  BY <1>0, <1>2
<1>10. srcs \in Seq(Live) /\ srcs \in Seq(Idx) /\ IsInjective(srcs) /\ ToSet(srcs) = {x}
  <2>1. x \in Live /\ x \in Idx
    BY <1>3, <1>5 DEF Live
  <2> HIDE DEF x
  <2> QED BY <2>1 DEF IsInjective, ToSet
<1> HIDE DEF des, srcs, x
<1>11. ASSUME NEW i \in Lev
       PROVE  /\ LevelOK(disk'[i], LevelMax(i))
              /\ Held(disk'[i]) = (Held(disk[i]) \ ToSet(srcs)) \cup (IF i = T THEN {des} ELSE {})
              /\ Len(disk'[i].order) < LevelMax(i) \/ (pc' = "compact" /\ i = at')
  <2>1. CASE i = T
    <3>1. Len(one.order) + 1 < n
      BY <1>3, <1>6, <1>7
    <3>2. disk'[i] = LevelInsertRun(one, des)
      BY <1>9, <2>1
    <3> QED BY <1>6, <1>8, <1>10, <2>1, <3>1, <3>2
  <2>2. CASE i # T
    <3>1. disk'[i] = disk[i]
      BY <1>9, <2>2
    <3>2. Held(disk[i]) \ ToSet(srcs) = Held(disk[i])
      BY <1>2, <1>3, <1>5, <1>10, <2>2
    <3> QED BY <1>0, <1>2, <2>2, <3>1, <3>2
  <2> QED BY <2>1, <2>2
<1>12. LevelsAfter(ToSet(srcs), T, Head(free_q))
  BY <1>11 DEF LevelsAfter, des
<1>13. pc' \in {"compact", "space"} /\ at' \in Lev /\ forced' \in Nat /\ pc # "idle" /\ ForcedLevel \in 0..TotalLevel
  BY <1>0, <1>2, ShapeAssumption DEF ForcedLevel
<1>14. Sources(srcs) /\ ToSet(srcs) \subseteq ToSet(srcs) \ {mem}
  BY <1>3, <1>5, <1>10 DEF Sources
<1>15. MergeStep(srcs, ForcedLevel, TRUE, srcs, T)
  BY <1>0, <1>3, <1>9, <1>10, <1>12, <1>13, <1>14 DEF MergeStep
<1> QED BY <1>3, <1>5, <1>13, <1>15 DEF srcs

(* One more entry in the memtable's blocks.                                *)
Arrived(stes, n, k, new) ==
    /\ new \in Seq(SteSet) /\ new # <<>>
    /\ \A j \in DOMAIN new :
         /\ \A h \in new[j].lbas : h = k \/ (j \in DOMAIN stes /\ h \in stes[j].lbas)
         /\ new[j].copied => j \in DOMAIN stes /\ stes[j].copied
         /\ k \notin OpenSte(stes, n) => new[j].twice = {} \/ (j \in DOMAIN stes /\ new[j].twice = stes[j].twice)
    /\ \A j \in DOMAIN stes : j \in DOMAIN new /\ stes[j].lbas \subseteq new[j].lbas
    /\ \E j \in DOMAIN new : k \in new[j].lbas

LEMMA ArriveFacts ==
    ASSUME NEW stes \in Seq(SteSet), NEW n \in Nat, n > 0 => stes # <<>>, NEW k \in Lba,
           NEW new, new = Arrive(stes, n, k)
    PROVE  Arrived(stes, n, k, new)
<1> USE DEF Arrived
<1>0. Len(stes) \in Nat /\ DOMAIN stes = 1..Len(stes) /\ \A j \in DOMAIN stes : stes[j] \in SteSet
  BY LenProperties, ElementOfSeq
<1>1. CASE n % BlockSectors = 0
  <2>1. new = Append(stes, Ste({k}))
    BY <1>1 DEF Arrive
  <2>2. Ste({k}) \in SteSet /\ Ste({k}).lbas = {k} /\ Ste({k}).copied = FALSE /\ Ste({k}).twice = {}
    <3>1. {k} \in (SUBSET Lba) \ {{}} /\ 0 \in 0..TotalLevel
      BY ShapeAssumption
    <3> QED BY <3>1 DEF Ste, SteSet
  <2>3. /\ new \in Seq(SteSet) /\ new # <<>> /\ Len(new) = Len(stes) + 1
        /\ \A i \in 1..Len(stes) : new[i] = stes[i]
        /\ new[Len(stes) + 1] = Ste({k})
    BY <2>1, <2>2, AppendProperties
  <2>4. DOMAIN new = 1..(Len(stes) + 1)
    BY <2>3, LenProperties
  <2>5. \A j \in DOMAIN new : j = Len(stes) + 1 \/ j \in DOMAIN stes
    BY <1>0, <2>4
  <2>6. Len(stes) + 1 \in DOMAIN new /\ \A j \in DOMAIN stes : j \in DOMAIN new /\ new[j] = stes[j]
    BY <1>0, <2>3, <2>4
  <2> QED BY <2>2, <2>3, <2>5, <2>6
<1>2. CASE n % BlockSectors # 0
  <2>0. n # 0 /\ stes # <<>> /\ Len(stes) \in DOMAIN stes
    <3>1. n # 0
      BY <1>2, ShapeAssumption
    <3> QED BY <1>0, <3>1, EmptySeq
  <2> DEFINE open == stes[Len(stes)]
             sor == open.sorted /\ k >= End(open)
             w == [open EXCEPT !.lbas = open.lbas \cup {k}, !.twice = open.twice \cup (open.lbas \cap {k}),
                               !.sorted = sor]
  <2>1. new = [stes EXCEPT ![Len(stes)] = w]
    BY <1>2 DEF Arrive
  <2>2. open \in SteSet /\ sor \in BOOLEAN
    BY <1>0, <2>0
  <2>3. OpenSte(stes, n) = open.lbas
    BY <1>2 DEF OpenSte
  <2> HIDE DEF open, sor
  <2>4. /\ w \in SteSet /\ w.lbas = open.lbas \cup {k} /\ w.copied = open.copied
        /\ w.twice = open.twice \cup (open.lbas \cap {k})
    BY <2>2 DEF SteSet
  <2> HIDE DEF w
  <2>5. new \in Seq(SteSet) /\ Len(new) = Len(stes)
    BY <2>0, <2>1, <2>4, <1>0, ExceptSeq
  <2>6. DOMAIN new = DOMAIN stes /\ new[Len(stes)] = w /\ \A j \in DOMAIN stes : j # Len(stes) => new[j] = stes[j]
    BY <1>0, <2>0, <2>1
  <2>7. new # <<>>
    BY <2>0, <2>6
  <2>8. open = stes[Len(stes)]
    BY DEF open
  <2>9. \A j \in DOMAIN new : j = Len(stes) \/ new[j] = stes[j]
    BY <2>6
  <2>10. ASSUME NEW j \in DOMAIN new
         PROVE  /\ \A h \in new[j].lbas : h = k \/ (j \in DOMAIN stes /\ h \in stes[j].lbas)
                /\ new[j].copied => j \in DOMAIN stes /\ stes[j].copied
                /\ k \notin OpenSte(stes, n) => new[j].twice = {} \/ (j \in DOMAIN stes /\ new[j].twice = stes[j].twice)
    <3>1. CASE j = Len(stes)
      <4>1. k \notin open.lbas => w.twice = open.twice
        BY <2>4
      <4> QED BY <2>3, <2>4, <2>6, <2>8, <3>1, <4>1
    <3>2. CASE new[j] = stes[j]
      BY <2>6, <3>2
    <3> QED BY <2>9, <3>1, <3>2
  <2>11. \A j \in DOMAIN stes : j \in DOMAIN new /\ stes[j].lbas \subseteq new[j].lbas
    BY <2>4, <2>6, <2>8
  <2>12. \E j \in DOMAIN new : k \in new[j].lbas
    BY <2>0, <2>4, <2>6
  <2> QED BY <2>5, <2>7, <2>10, <2>11, <2>12
<1> QED BY <1>1, <1>2

LEMMA CompactDoneBooks == ASSUME BooksInv, CompactDone PROVE BooksInv'
<1>1. /\ pc = "compact" /\ ~LevelIsFull(disk[at]) /\ pc' = "space"
      /\ sc' = sc /\ info' = info /\ free_q' = free_q /\ now_recency' = now_recency /\ mem' = mem
      /\ disk' = disk /\ at' = at /\ forced' = forced /\ written' = written
  BY DEF CompactDone
<1>2. TypeOK'
  BY <1>1 DEF BooksInv, TypeOK
<1>3. Live' = Live
  BY <1>1 DEF Live
<1>4. Len(disk[at].order) < LevelMax(at)
  <2>1. at \in Lev /\ LevelOK(disk[at], LevelMax(at)) /\ LevelMax(at) \in Nat /\ Len(disk[at].order) \in Nat
    BY LevelFacts
  <2>2. DOMAIN disk[at].slot = 1..LevelMax(at)
    BY <2>1 DEF LevelOK
  <2>3. Cardinality(1..LevelMax(at)) = LevelMax(at)
    BY <2>1, FS_Interval
  <2> QED BY <1>1, <2>1, <2>2, <2>3 DEF LevelIsFull
<1>5. PlacesInv'
  <2>1. PlacesInv
    BY DEF BooksInv
  <2> QED BY <1>1, <1>3, <1>4, <2>1 DEF PlacesInv
<1>6. NamesInv'
  <2>1. NamesInv
    BY DEF BooksInv
  <2>2. NamesLive' /\ BlocksApart' /\ UnlinkedExact'
    BY <1>1, <1>3, <2>1 DEF NamesInv, NamesLive, BlocksApart, UnlinkedExact, LbasOf
  <2>3. NoFlushedMem'
    BY <1>1, <2>1 DEF NamesInv, NoFlushedMem
  <2> QED BY <1>1, <2>1, <2>2, <2>3 DEF NamesInv
<1> QED BY <1>2, <1>5, <1>6 DEF BooksInv

(* The end of a flush: m is the index of the new memtable.                 *)
FlushEnds(m) ==
    /\ m \in Idx /\ m \in (Idx \ Live) \cup {mem} /\ pc = "space" /\ mem' = m
    /\ now_recency' = now_recency + 1 /\ pc' = "idle" /\ at' = 1 /\ forced' = 0
    /\ sc' = sc /\ disk' = disk /\ written' = written
    /\ free_q' \in Seq(Idx) /\ IsInjective(free_q') /\ ToSet(free_q') = ((Idx \ Live) \cup {mem}) \ {m}
    /\ \A y \in Idx : info'[y] = IF y = m THEN NewMem(now_recency) ELSE IF y = mem THEN None ELSE info[y]
    /\ info' \in [Idx -> RunSet \cup {None}]
    /\ Live' = (Live \ {mem}) \cup {m}
    /\ \A k \in Lba : sc[k] # mem /\ sc[k] # m

LEMMA FinishFlushFacts == ASSUME BooksInv, FinishFlush PROVE \E m : FlushEnds(m)
<1>0. TypeOK /\ PlacesInv /\ NamesInv /\ mem \in Live /\ mem \in Idx
  BY DEF BooksInv, PlacesInv, TypeOK
<1>1. PICK q : q = free_q \o <<mem>>
  OBVIOUS
<1>2. PICK m : m = Head(q)
  OBVIOUS
<1>3. /\ pc = "space" /\ mem' = m /\ free_q' = Tail(q)
      /\ info' = [FreeRuns(info, <<mem>>) EXCEPT ![m] = NewMem(now_recency)]
      /\ now_recency' = now_recency + 1 /\ pc' = "idle" /\ at' = 1 /\ forced' = 0
      /\ sc' = sc /\ disk' = disk /\ written' = written
  BY <1>1, <1>2 DEF FinishFlush, Returned
<1>4. q \in Seq(Idx) /\ IsInjective(q) /\ ToSet(q) = (Idx \ Live) \cup {mem}
  <2>1. <<mem>> \in Seq(Idx) /\ IsInjective(<<mem>>) /\ ToSet(<<mem>>) = {mem}
    BY <1>0 DEF IsInjective, ToSet
  <2>2. free_q \in Seq(Idx) /\ IsInjective(free_q) /\ ToSet(free_q) = Idx \ Live
    BY <1>0 DEF TypeOK, PlacesInv
  <2>3. PICK o : o = <<mem>>
    OBVIOUS
  <2>4. o \in Seq(Idx) /\ IsInjective(o) /\ ToSet(o) = {mem} /\ ToSet(free_q) \cap ToSet(o) = {}
    BY <1>0, <2>1, <2>2, <2>3
  <2>5. /\ free_q \o o \in Seq(Idx) /\ IsInjective(free_q \o o)
        /\ ToSet(free_q \o o) = ToSet(free_q) \cup ToSet(o)
    BY <2>2, <2>4, ConcatDistinct
  <2> QED BY <1>1, <2>2, <2>3, <2>4, <2>5
<1>5. /\ Tail(q) \in Seq(Idx) /\ IsInjective(Tail(q)) /\ m \in Idx /\ m \in (Idx \ Live) \cup {mem}
      /\ ToSet(Tail(q)) = ((Idx \ Live) \cup {mem}) \ {m}
  <2>1. q # <<>>
    <3>1. mem \in ToSet(q)
      BY <1>4
    <3>2. PICK i : i \in DOMAIN q
      BY <3>1 DEF ToSet
    <3>3. DOMAIN <<>> = {}
      OBVIOUS
    <3> QED BY <3>2, <3>3
  <2> QED BY <1>2, <1>4, <2>1, TailDistinct
<1>6. \A y \in Idx : info'[y] = IF y = m THEN NewMem(now_recency) ELSE IF y = mem THEN None ELSE info[y]
  <2>1. ToSet(<<mem>>) = {mem}
    BY DEF ToSet
  <2> QED BY <1>3, <1>5, <2>1 DEF FreeRuns
<1>7. NewMem(now_recency) \in RunSet
  <2>1. now_recency \in Nat /\ <<>> \in Seq(SteSet) /\ 0 \in 0..TotalLevel
    BY <1>0, ShapeAssumption DEF TypeOK
  <2> QED BY <2>1 DEF NewMem, RunSet
<1>8. info' \in [Idx -> RunSet \cup {None}] /\ info \in [Idx -> RunSet \cup {None}] /\ None \notin RunSet
  <2>1. info \in [Idx -> RunSet \cup {None}] /\ None \notin RunSet
    BY <1>0, NoneAssumption DEF TypeOK
  <2>2. info' = [y \in Idx |-> info'[y]]
    BY <1>3, <1>5 DEF FreeRuns
  <2> QED BY <1>6, <1>7, <2>1, <2>2
<1>9. Live' = (Live \ {mem}) \cup {m}
  <2>1. Live' = {y \in Idx : info'[y] # None} /\ Live = {y \in Idx : info[y] # None}
    BY DEF Live
  <2> QED BY <1>5, <1>6, <1>7, <1>8, <2>1
<1>10. \A k \in Lba : sc[k] # mem /\ sc[k] # m
  <2>1. \A k \in Lba : sc[k] # mem /\ (sc[k] # None => sc[k] \in Live)
    BY <1>0, <1>3 DEF NamesInv, NoFlushedMem, NamesLive
  <2>2. m # None
    BY <1>5, Shape
  <2> QED BY <1>5, <2>1, <2>2
<1>11. FlushEnds(m)
  BY <1>3, <1>5, <1>6, <1>8, <1>9, <1>10 DEF FlushEnds
<1> QED BY <1>11

LEMMA FinishFlushBooks == ASSUME BooksInv, FinishFlush PROVE BooksInv'
<1>0. TypeOK /\ PlacesInv /\ NamesInv /\ mem \in Live /\ mem \in Idx
  BY DEF BooksInv, PlacesInv, TypeOK
<1>1. PICK m : FlushEnds(m)
  BY FinishFlushFacts
<1>2. /\ pc = "space" /\ mem' = m /\ now_recency' = now_recency + 1 /\ pc' = "idle" /\ at' = 1 /\ forced' = 0
      /\ sc' = sc /\ disk' = disk /\ written' = written
  BY <1>1 DEF FlushEnds
<1>3. /\ free_q' \in Seq(Idx) /\ IsInjective(free_q') /\ m \in Idx /\ m \in (Idx \ Live) \cup {mem}
      /\ ToSet(free_q') = ((Idx \ Live) \cup {mem}) \ {m}
  BY <1>1 DEF FlushEnds
<1>4. \A y \in Idx : info'[y] = IF y = m THEN NewMem(now_recency) ELSE IF y = mem THEN None ELSE info[y]
  BY <1>1 DEF FlushEnds
<1>5. info' \in [Idx -> RunSet \cup {None}]
  BY <1>1 DEF FlushEnds
<1>6. Live' = (Live \ {mem}) \cup {m}
  BY <1>1 DEF FlushEnds
<1>7. \A k \in Lba : sc[k] # mem /\ sc[k] # m
  BY <1>1 DEF FlushEnds
<1>8. TypeOK'
  <2>1. 1 \in Lev
    BY Shape
  <2> QED BY <1>0, <1>2, <1>3, <1>5, <2>1 DEF TypeOK
<1>9. PlacesInv'
  <2>1. /\ \A i \in Lev : LevelOK(disk[i], LevelMax(i)) /\ mem \notin Held(disk[i])
        /\ \A i, j \in Lev : i # j => Held(disk[i]) \cap Held(disk[j]) = {}
        /\ \A i \in Lev : Len(disk[i].order) < LevelMax(i)
        /\ \A y : y \in Live <=> y = mem \/ \E i \in Lev : y \in Held(disk[i])
    BY <1>0, <1>2 DEF PlacesInv
  <2>2. \A i \in Lev : m \notin Held(disk[i])
    BY <1>3, <2>1
  <2>3. Live' = {m} \cup UNION {Held(disk[i]) : i \in Lev}
    <3>1. \A y : y \in Live' <=> y = m \/ \E i \in Lev : y \in Held(disk[i])
      BY <1>6, <2>1
    <3> QED BY <3>1
  <2>4. IsInjective(free_q') /\ ToSet(free_q') = Idx \ Live'
    <3>1. Live \subseteq Idx
      BY DEF Live
    <3>2. ((Idx \ Live) \cup {mem}) \ {m} = Idx \ ((Live \ {mem}) \cup {m})
      BY <1>0, <1>3, <3>1
    <3>3. ToSet(free_q') = Idx \ ((Live \ {mem}) \cup {m})
      BY <1>3, <3>2, Zenon
    <3> QED BY <1>3, <1>6, <3>3, Zenon
  <2>5. /\ \A i \in Lev : LevelOK(disk[i], LevelMax(i))' /\ mem' \notin Held(disk'[i])
        /\ \A i, j \in Lev : i # j => Held(disk'[i]) \cap Held(disk'[j]) = {}
        /\ \A i \in Lev : Len(disk'[i].order) < LevelMax(i) \/ (pc' = "compact" /\ i = at')
    BY <1>2, <2>1, <2>2
  <2>6. Live' = {mem'} \cup UNION {Held(disk'[i]) : i \in Lev}
    BY <1>2, <2>3
  <2> QED BY <2>4, <2>5, <2>6 DEF PlacesInv
<1>10. NamesInv'
  <2>1. NamesLive'
    <3>1. ASSUME NEW k \in Lba, sc[k] # None PROVE sc[k] \in Live' /\ info'[sc[k]] = info[sc[k]] /\ k \in LbasOf(sc[k])
      <4>1. sc[k] \in Live /\ k \in LbasOf(sc[k])
        BY <1>0, <3>1 DEF NamesInv, NamesLive
      <4> QED BY <1>4, <1>6, <1>7, <4>1 DEF Live
    <3>2. \A k \in Lba : sc[k] # None => sc[k] \in Live' /\ k \in LbasOf(sc[k])'
      BY <1>2, <3>1 DEF LbasOf
    <3> QED BY <1>2, <3>2 DEF NamesLive
  <2>2. NoFlushedMem'
    BY <1>2 DEF NoFlushedMem
  <2>3. \A y \in Live' \ {m} : y \in Live \ {mem} /\ info'[y] = info[y]
    BY <1>4, <1>6 DEF Live
  <2>4. BlocksApart'
    BY <1>0, <1>2, <2>3 DEF NamesInv, BlocksApart
  <2>5. UnlinkedExact'
    <3> SUFFICES ASSUME NEW y \in Live'
                 PROVE  info'[y].unlinked = info'[y].entries - Cardinality({k \in Lba : sc[k] = y})
      BY <1>2 DEF UnlinkedExact
    <3>1. CASE y = m
      <4>1. {k \in Lba : sc[k] = m} = {} /\ Cardinality({}) = 0
        BY <1>7, FS_EmptySet
      <4>2. info'[m].unlinked = 0 /\ info'[m].entries = 0
        BY <1>3, <1>4 DEF NewMem
      <4> QED BY <3>1, <4>1, <4>2
    <3>2. CASE y # m
      BY <1>0, <2>3, <3>2 DEF NamesInv, UnlinkedExact
    <3> QED BY <3>1, <3>2
  <2>6. info'[m].entries = 0
    BY <1>3, <1>4 DEF NewMem
  <2>7. \A k \in written' : sc'[k] # None
    BY <1>0, <1>2 DEF NamesInv
  <2> QED BY <1>2, <2>1, <2>2, <2>4, <2>5, <2>6, <2>7 DEF NamesInv
<1> QED BY <1>8, <1>9, <1>10 DEF BooksInv

(* A host write: the runs and the table.                                   *)
LEMMA InsertFacts ==
    ASSUME BooksInv, NEW k \in Lba, Insert(k)
    PROVE  /\ TypeOK /\ PlacesInv /\ NamesInv /\ pc = "idle" /\ mem \in Live /\ mem \in Idx /\ mem # None
           /\ info' \in [Idx -> RunSet \cup {None}] /\ Live' = Live
           /\ sc' \in [Lba -> Idx \cup {None}]
           /\ UNCHANGED <<free_q, now_recency, mem, disk, pc, at, forced>> /\ written' = written \cup {k}
           /\ \A x \in Live : /\ info'[x].level = info[x].level /\ info'[x].recency = info[x].recency
                              /\ x # mem \/ ~ValidLba(mem, k) =>
                                    /\ info'[x].entries = info[x].entries /\ info'[x].stes = info[x].stes
                                    /\ info'[x].fresh = info[x].fresh \ {k}
           /\ ValidLba(mem, k) =>
                /\ sc' = [sc EXCEPT ![k] = mem]
                /\ info'[mem].entries = info[mem].entries + 1
                /\ info'[mem].stes = Arrive(info[mem].stes, info[mem].entries, k)
                /\ info'[mem].fresh = info[mem].fresh \cup {k}
                /\ \A x \in Live : info'[x].unlinked = info[x].unlinked + (IF sc[k] = x THEN 1 ELSE 0)
           /\ ~ValidLba(mem, k) => sc' = sc /\ \A x \in Live : info'[x].unlinked = info[x].unlinked
<1>0. TypeOK /\ PlacesInv /\ NamesInv /\ mem \in Live /\ mem \in Idx /\ mem # None
  BY Shape DEF BooksInv, PlacesInv, TypeOK
<1>1. /\ pc = "idle" /\ UNCHANGED <<free_q, now_recency, mem, disk, pc, at, forced>> /\ written' = written \cup {k}
  BY DEF Insert
<1>2. /\ info \in [Idx -> RunSet \cup {None}] /\ None \notin RunSet /\ sc \in [Lba -> Idx \cup {None}]
      /\ \A x \in Live : x \in Idx /\ info[x] \in RunSet
  BY <1>0, NoneAssumption DEF TypeOK, Live
<1>3. /\ \A x \in Live : info[x].unlinked \in Nat /\ info[x].entries \in Nat /\ info[x].fresh \subseteq Lba
      /\ info[mem].stes \in Seq(SteSet) /\ info[mem].entries \in Nat
  BY <1>0, <1>2 DEF RunSet
<1>4. CASE ValidLba(mem, k)
  <2> DEFINE a == Arrive(info[mem].stes, info[mem].entries, k)
             u(x) == info[x].unlinked + (IF sc[k] = x THEN 1 ELSE 0)
             e(x) == info[x].entries + (IF x = mem THEN 1 ELSE 0)
             s(x) == IF x = mem THEN a ELSE info[x].stes
             f(x) == IF x = mem THEN info[x].fresh \cup {k} ELSE info[x].fresh \ {k}
  <2>1. /\ sc' = [sc EXCEPT ![k] = mem]
        /\ info' = [x \in Idx |->
             IF info[x] = None THEN None
             ELSE [info[x] EXCEPT !.unlinked = @ + (IF sc[k] = x THEN 1 ELSE 0),
                                  !.entries = @ + (IF x = mem THEN 1 ELSE 0),
                                  !.stes = IF x = mem THEN Arrive(@, info[x].entries, k) ELSE @,
                                  !.fresh = IF x = mem THEN @ \cup {k} ELSE @ \ {k}]]
    BY <1>4 DEF Insert
  <2>2. \A x \in Live : info'[x] = [info[x] EXCEPT !.unlinked = u(x), !.entries = e(x), !.stes = s(x), !.fresh = f(x)]
    BY <1>2, <2>1 DEF Live
  <2>3. a \in Seq(SteSet)
    <3>1. info[mem].entries > 0 => info[mem].stes # <<>>
      BY <1>0 DEF NamesInv
    <3> QED BY <1>3, <3>1, ArriveFacts DEF Arrived
  <2> HIDE DEF a
  <2>4. \A x \in Live : u(x) \in Nat /\ e(x) \in Nat /\ s(x) \in Seq(SteSet) /\ f(x) \subseteq Lba
    <3>1. \A x \in Live : info[x].stes \in Seq(SteSet)
      BY <1>2 DEF RunSet
    <3> QED BY <1>3, <2>3, <3>1
  <2> HIDE DEF u, e, s, f
  <2>5. ASSUME NEW x \in Live
        PROVE  /\ info'[x] \in RunSet /\ info'[x].level = info[x].level /\ info'[x].recency = info[x].recency
               /\ info'[x].unlinked = u(x) /\ info'[x].entries = e(x) /\ info'[x].stes = s(x) /\ info'[x].fresh = f(x)
    <3>1. PICK r : r = info'[x]
      OBVIOUS
    <3>2. r = [info[x] EXCEPT !.unlinked = u(x), !.entries = e(x), !.stes = s(x), !.fresh = f(x)]
      BY <2>2, <3>1
    <3>3. /\ r \in RunSet /\ r.level = info[x].level /\ r.recency = info[x].recency
          /\ r.unlinked = u(x) /\ r.entries = e(x) /\ r.stes = s(x) /\ r.fresh = f(x)
      BY <1>2, <2>4, <3>2 DEF RunSet
    <3> QED BY <3>1, <3>3
  <2>6. \A x \in Idx \ Live : info'[x] = None
    BY <2>1 DEF Live
  <2>7. Live' = Live
    <3>1. Live' = {y \in Idx : info'[y] # None}
      BY DEF Live
    <3> QED BY <1>2, <2>5, <2>6, <3>1
  <2>8. info' \in [Idx -> RunSet \cup {None}]
    <3>1. info' = [y \in Idx |-> info'[y]]
      BY <2>1
    <3> QED BY <2>5, <2>6, <3>1
  <2>9. \A x \in Live : /\ u(x) = info[x].unlinked + (IF sc[k] = x THEN 1 ELSE 0)
                        /\ x # mem => e(x) = info[x].entries /\ s(x) = info[x].stes /\ f(x) = info[x].fresh \ {k}
    BY <1>3 DEF u, e, s, f
  <2>10. /\ e(mem) = info[mem].entries + 1 /\ s(mem) = Arrive(info[mem].stes, info[mem].entries, k)
         /\ f(mem) = info[mem].fresh \cup {k}
    BY DEF e, s, f, a
  <2>11. sc' \in [Lba -> Idx \cup {None}]
    BY <1>0, <1>2, <2>1
  <2>12. \A x \in Live : /\ info'[x].level = info[x].level /\ info'[x].recency = info[x].recency
                         /\ x # mem \/ ~ValidLba(mem, k) =>
                               /\ info'[x].entries = info[x].entries /\ info'[x].stes = info[x].stes
                               /\ info'[x].fresh = info[x].fresh \ {k}
    BY <1>4, <2>5, <2>9
  <2>13. /\ info'[mem].entries = info[mem].entries + 1
         /\ info'[mem].stes = Arrive(info[mem].stes, info[mem].entries, k)
         /\ info'[mem].fresh = info[mem].fresh \cup {k}
    BY <1>0, <2>5, <2>10
  <2>14. \A x \in Live : info'[x].unlinked = info[x].unlinked + (IF sc[k] = x THEN 1 ELSE 0)
    BY <2>5, <2>9
  <2> QED BY <1>0, <1>1, <1>4, <2>1, <2>7, <2>8, <2>11, <2>12, <2>13, <2>14
<1>5. CASE ~ValidLba(mem, k)
  <2>1. /\ sc' = sc
        /\ info' = [x \in Idx |-> IF info[x] = None THEN None ELSE [info[x] EXCEPT !.fresh = @ \ {k}]]
    BY <1>5 DEF Insert
  <2>2. \A x \in Live : info'[x] = [info[x] EXCEPT !.fresh = info[x].fresh \ {k}]
    BY <1>2, <2>1 DEF Live
  <2>3. ASSUME NEW x \in Live
        PROVE  /\ info'[x] \in RunSet /\ info'[x].level = info[x].level /\ info'[x].recency = info[x].recency
               /\ info'[x].unlinked = info[x].unlinked /\ info'[x].entries = info[x].entries
               /\ info'[x].stes = info[x].stes /\ info'[x].fresh = info[x].fresh \ {k}
    <3>1. PICK r : r = info'[x]
      OBVIOUS
    <3>2. PICK f : f = info[x].fresh \ {k}
      OBVIOUS
    <3>3. f \subseteq Lba /\ r = [info[x] EXCEPT !.fresh = f]
      BY <1>3, <2>2, <3>1, <3>2
    <3>4. /\ r \in RunSet /\ r.level = info[x].level /\ r.recency = info[x].recency
          /\ r.unlinked = info[x].unlinked /\ r.entries = info[x].entries /\ r.stes = info[x].stes /\ r.fresh = f
      BY <1>2, <3>3 DEF RunSet
    <3> QED BY <3>1, <3>2, <3>4
  <2>4. \A x \in Idx \ Live : info'[x] = None
    BY <2>1 DEF Live
  <2>5. Live' = Live
    <3>1. Live' = {y \in Idx : info'[y] # None}
      BY DEF Live
    <3> QED BY <1>2, <2>3, <2>4, <3>1
  <2>6. info' \in [Idx -> RunSet \cup {None}]
    <3>1. info' = [y \in Idx |-> info'[y]]
      BY <2>1
    <3> QED BY <2>3, <2>4, <3>1
  <2> QED BY <1>0, <1>1, <1>2, <1>5, <2>1, <2>3, <2>5, <2>6
<1> QED BY <1>4, <1>5

LEMMA InsertBooks == ASSUME BooksInv, NEW k \in Lba, Insert(k) PROVE BooksInv'
<1>1. /\ TypeOK /\ PlacesInv /\ NamesInv /\ pc = "idle" /\ mem \in Live /\ mem \in Idx /\ mem # None
      /\ info' \in [Idx -> RunSet \cup {None}] /\ Live' = Live
      /\ sc' \in [Lba -> Idx \cup {None}]
      /\ UNCHANGED <<free_q, now_recency, mem, disk, pc, at, forced>> /\ written' = written \cup {k}
      /\ \A x \in Live : /\ info'[x].level = info[x].level /\ info'[x].recency = info[x].recency
                         /\ x # mem \/ ~ValidLba(mem, k) =>
                               /\ info'[x].entries = info[x].entries /\ info'[x].stes = info[x].stes
                               /\ info'[x].fresh = info[x].fresh \ {k}
      /\ ValidLba(mem, k) =>
           /\ sc' = [sc EXCEPT ![k] = mem]
           /\ info'[mem].entries = info[mem].entries + 1
           /\ info'[mem].stes = Arrive(info[mem].stes, info[mem].entries, k)
           /\ info'[mem].fresh = info[mem].fresh \cup {k}
           /\ \A x \in Live : info'[x].unlinked = info[x].unlinked + (IF sc[k] = x THEN 1 ELSE 0)
      /\ ~ValidLba(mem, k) => sc' = sc /\ \A x \in Live : info'[x].unlinked = info[x].unlinked
  BY InsertFacts
<1> HIDE DEF ValidLba
<1>2. /\ sc \in [Lba -> Idx \cup {None}]
      /\ \A x \in Live : info[x].entries \in Nat /\ info[x].unlinked \in Nat
  BY <1>1, RunTyped DEF TypeOK, RunSet
<1>3. TypeOK'
  BY <1>1 DEF TypeOK
<1>4. PlacesInv'
  <2>1. PlacesInv /\ Live' = Live /\ disk' = disk /\ mem' = mem /\ free_q' = free_q /\ pc' = pc /\ at' = at
    BY <1>1
  <2> QED BY <2>1 DEF PlacesInv
<1>5. \A h \in Lba : sc'[h] = IF ValidLba(mem, k) /\ h = k THEN mem ELSE sc[h]
  BY <1>1, <1>2
<1>6. ValidLba(mem, k) =>
         /\ info'[mem].stes # <<>>
         /\ \A h : h = k \/ h \in LbasOf(mem) => \E j \in DOMAIN info'[mem].stes : h \in info'[mem].stes[j].lbas
  <2> SUFFICES ASSUME ValidLba(mem, k)
               PROVE  /\ info'[mem].stes # <<>>
                      /\ \A h : h = k \/ h \in LbasOf(mem) => \E j \in DOMAIN info'[mem].stes : h \in info'[mem].stes[j].lbas
    OBVIOUS
  <2>1. PICK new : new = info'[mem].stes
    OBVIOUS
  <2>2. new = Arrive(info[mem].stes, info[mem].entries, k)
    BY <1>1, <2>1
  <2>3. info[mem].stes \in Seq(SteSet) /\ info[mem].entries \in Nat /\ (info[mem].entries > 0 => info[mem].stes # <<>>)
    BY <1>1, <1>2, RunTyped DEF NamesInv
  <2>4. /\ new # <<>> /\ \E j \in DOMAIN new : k \in new[j].lbas
        /\ \A j \in DOMAIN info[mem].stes : j \in DOMAIN new /\ info[mem].stes[j].lbas \subseteq new[j].lbas
    <3>1. Arrived(info[mem].stes, info[mem].entries, k, new)
      BY <2>2, <2>3, ArriveFacts
    <3> QED BY <3>1 DEF Arrived
  <2>5. \A h \in LbasOf(mem) : \E j \in DOMAIN info[mem].stes : h \in info[mem].stes[j].lbas
    BY LbaIn
  <2> QED BY <2>1, <2>4, <2>5
<1>7. ASSUME NEW h \in Lba, sc'[h] # None
      PROVE  sc'[h] \in Live /\ \E j \in DOMAIN info'[sc'[h]].stes : h \in info'[sc'[h]].stes[j].lbas
  <2>1. CASE ValidLba(mem, k) /\ h = k
    BY <1>1, <1>5, <1>6, <2>1
  <2>2. CASE ~(ValidLba(mem, k) /\ h = k)
    <3>1. sc'[h] = sc[h] /\ sc[h] \in Live /\ h \in LbasOf(sc[h])
      BY <1>1, <1>5, <1>7, <2>2 DEF NamesInv, NamesLive
    <3>2. CASE ValidLba(mem, k) /\ sc[h] = mem
      BY <1>6, <3>1, <3>2
    <3>3. CASE ~ValidLba(mem, k) \/ sc[h] # mem
      <4>1. info'[sc[h]].stes = info[sc[h]].stes
        BY <1>1, <3>1, <3>3
      <4>2. \E j \in DOMAIN info[sc[h]].stes : h \in info[sc[h]].stes[j].lbas
        BY <3>1, LbaIn
      <4> QED BY <3>1, <4>1, <4>2
    <3> QED BY <3>2, <3>3
  <2> QED BY <2>1, <2>2
<1>8. NamesLive'
  <2>1. \A h \in Lba : sc'[h] # None => sc'[h] \in Live' /\ h \in LbasOf(sc[h])'
    BY <1>1, <1>7 DEF LbasOf, ToSet
  <2> QED BY <2>1 DEF NamesLive
<1>9. NoFlushedMem'
  BY <1>1 DEF NoFlushedMem
<1>10. BlocksApart'
  <2>1. \A x \in Live \ {mem} : info'[x].stes = info[x].stes
    BY <1>1
  <2>2. BlocksApart
    BY <1>1 DEF NamesInv
  <2> QED BY <1>1, <2>1, <2>2 DEF BlocksApart
<1>11. UnlinkedExact'
  <2> SUFFICES ASSUME NEW x \in Live
               PROVE  info'[x].unlinked = info'[x].entries - Cardinality({h \in Lba : sc'[h] = x})
    BY <1>1 DEF UnlinkedExact
  <2> DEFINE A == {h \in Lba : sc[h] = x}
             B == {h \in Lba : sc'[h] = x}
  <2>1. info[x].unlinked = info[x].entries - Cardinality(A)
    BY <1>1 DEF NamesInv, UnlinkedExact
  <2>2. IsFiniteSet(A) /\ IsFiniteSet(B)
    <3>1. IsFiniteSet(Lba) /\ A \in SUBSET Lba /\ B \in SUBSET Lba
      BY LbaAssumption
    <3> QED BY <3>1, FS_Subset
  <2>3. Cardinality(A) \in Nat /\ Cardinality(B) \in Nat
    BY <2>2, FS_CardinalityType
  <2>4. CASE ~ValidLba(mem, k)
    <3>1. A = B
      BY <1>1, <2>4
    <3> HIDE DEF A, B
    <3>2. info'[x].unlinked = info'[x].entries - Cardinality(B)
      BY <1>1, <2>1, <2>4, <3>1
    <3> QED BY <3>2 DEF B
  <2>5. CASE ValidLba(mem, k)
    <3>1. info'[x].unlinked = info[x].unlinked + (IF sc[k] = x THEN 1 ELSE 0)
      BY <1>1, <2>5
    <3>2. info'[x].entries = info[x].entries + (IF x = mem THEN 1 ELSE 0)
      BY <1>1, <1>2, <2>5
    <3>3. CASE x = mem /\ sc[k] # mem
      <4>1. B = A \cup {k} /\ k \notin A
        BY <1>5, <2>5, <3>3
      <4> HIDE DEF A, B
      <4>2. Cardinality(A \cup {k}) = Cardinality(A) + 1
        BY <2>2, <4>1, FS_AddElement
      <4>3. Cardinality(B) = Cardinality(A) + 1
        BY <4>1, <4>2
      <4>4. info'[x].unlinked = info'[x].entries - Cardinality(B)
        BY <1>2, <2>1, <2>3, <3>1, <3>2, <3>3, <4>3
      <4> QED BY <4>4 DEF B
    <3>4. CASE x # mem /\ sc[k] = x
      <4>1. B = A \ {k} /\ k \in A
        BY <1>5, <2>5, <3>4
      <4> HIDE DEF A, B
      <4>2. Cardinality(A \ {k}) = Cardinality(A) - 1
        BY <2>2, <4>1, FS_RemoveElement
      <4>3. Cardinality(B) = Cardinality(A) - 1
        BY <4>1, <4>2
      <4>4. info'[x].unlinked = info'[x].entries - Cardinality(B)
        BY <1>2, <2>1, <2>3, <3>1, <3>2, <3>4, <4>3
      <4> QED BY <4>4 DEF B
    <3>5. CASE ~(x = mem /\ sc[k] # mem) /\ ~(x # mem /\ sc[k] = x)
      <4>1. B = A
        BY <1>5, <2>5, <3>5
      <4> HIDE DEF A, B
      <4>2. info'[x].unlinked = info'[x].entries - Cardinality(B)
        BY <1>2, <2>1, <2>3, <3>1, <3>2, <3>5, <4>1
      <4> QED BY <4>2 DEF B
    <3> QED BY <3>3, <3>4, <3>5
  <2> QED BY <2>4, <2>5
<1>12. \A h \in written' : sc'[h] # None
  <2>1. ~ValidLba(mem, k) => sc[k] # None
    BY DEF ValidLba
  <2>2. \A h \in written : sc[h] # None /\ h \in Lba
    BY <1>1 DEF NamesInv, TypeOK
  <2> QED BY <1>1, <1>5, <2>1, <2>2
<1>13. info'[mem'].entries > 0 => info'[mem'].stes # <<>>
  <2>1. info[mem].entries > 0 => info[mem].stes # <<>>
    BY <1>1 DEF NamesInv
  <2> QED BY <1>1, <1>6, <2>1
<1>14. NamesInv'
  BY <1>8, <1>9, <1>10, <1>11, <1>12, <1>13 DEF NamesInv
<1> QED BY <1>3, <1>4, <1>14 DEF BooksInv

-----------------------------------------------------------------------------
LEMMA BooksInit == ASSUME Init PROVE BooksInv
<1>1. 0 \in Idx /\ Pool - 1 \in Nat /\ Pool \in Nat
  BY PoolAssumption, ShapeAssumption DEF Idx
<1>2. NewMem(0) \in RunSet /\ None \notin RunSet
  <2>1. <<>> \in Seq(SteSet) /\ 0 \in 0..TotalLevel
    BY ShapeAssumption
  <2> QED BY <2>1, NoneAssumption DEF NewMem, RunSet
<1>3. Live = {0}
  BY <1>1, <1>2 DEF Live, Init
<1>4. /\ free_q \in Seq(Idx) /\ IsInjective(free_q) /\ ToSet(free_q) = Idx \ {0}
  <2>1. free_q = [i \in 1 .. Pool - 1 |-> i]
    BY DEF Init
  <2>2. free_q \in [1 .. Pool - 1 -> Idx]
    BY <1>1, <2>1 DEF Idx
  <2>3. free_q \in Seq(Idx)
    BY <1>1, <2>2, SeqOfFunction
  <2>4. IsInjective(free_q)
    BY <2>1 DEF IsInjective
  <2>5. ToSet(free_q) = 1 .. Pool - 1
    BY <2>1 DEF ToSet
  <2>6. 1 .. Pool - 1 = Idx \ {0}
    BY <1>1 DEF Idx
  <2> QED BY <2>3, <2>4, <2>5, <2>6
<1>5. \A i \in Lev : /\ disk[i] = LevelInit(i) /\ LevelOK(disk[i], LevelMax(i)) /\ Held(disk[i]) = {}
                     /\ Len(disk[i].order) < LevelMax(i)
  <2> SUFFICES ASSUME NEW i \in Lev
               PROVE  /\ disk[i] = LevelInit(i) /\ LevelOK(disk[i], LevelMax(i)) /\ Held(disk[i]) = {}
                      /\ Len(disk[i].order) < LevelMax(i)
    OBVIOUS
  <2>1. disk[i] = LevelInit(i)
    BY DEF Init
  <2> QED BY <2>1, EmptyLevel, Shape
<1>6. TypeOK
  <2>1. \A i \in Lev : /\ disk[i].slot \in [1..LevelMax(i) -> Idx \cup {None}]
                       /\ disk[i].order \in Seq(1..LevelMax(i))
    BY <1>5 DEF LevelOK
  <2>2. DOMAIN disk = Lev /\ 1 \in Lev
    BY Shape DEF Init
  <2> QED BY <1>1, <1>2, <1>4, <2>1, <2>2 DEF Init, TypeOK
<1>7. PlacesInv
  <2>1. mem = 0
    BY DEF Init
  <2>2. UNION {Held(disk[i]) : i \in Lev} = {}
    BY <1>5
  <2> QED BY <1>3, <1>4, <1>5, <2>1, <2>2 DEF PlacesInv
<1>8. NamesInv
  <2>1. mem = 0 /\ sc = [k \in Lba |-> None] /\ written = {} /\ info[0] = NewMem(0) /\ 0 # None /\ pc = "idle"
    BY <1>1, Shape DEF Init
  <2>2. UnlinkedExact
    <3>1. {k \in Lba : sc[k] = 0} = {} /\ Cardinality({}) = 0
      BY <2>1, FS_EmptySet
    <3>2. info[0].unlinked = 0 /\ info[0].entries = 0
      BY <2>1 DEF NewMem
    <3> QED BY <1>3, <3>1, <3>2 DEF UnlinkedExact
  <2>3. NamesLive /\ NoFlushedMem /\ BlocksApart
    BY <1>3, <2>1 DEF NamesLive, NoFlushedMem, BlocksApart
  <2> QED BY <2>1, <2>2, <2>3 DEF NamesInv, NewMem
<1> QED BY <1>6, <1>7, <1>8 DEF BooksInv

LEMMA BooksStep == ASSUME BooksInv, [Next]_vars PROVE BooksInv'
<1>1. ASSUME NEW k \in Lba, Insert(k) PROVE BooksInv'
  BY <1>1, InsertBooks
<1>2. CASE Flush
  <2>1. MergeStep(<<mem>>, 1, FALSE, <<>>, 1)
    BY <1>2, FlushMerges
  <2>2. 1 \in Lev /\ 1 \in 0..TotalLevel
    BY ShapeAssumption DEF Lev
  <2> QED BY <2>1, <2>2, MergeBooks
<1>3. CASE CompactUpper
  <2>1. MergeStep(RunsOf(disk[at]), at + 1, FALSE, RunsOf(disk[at]), at + 1) /\ at + 1 \in Lev
    BY <1>3, CompactUpperMerges
  <2>2. at + 1 \in 0..TotalLevel
    BY <2>1, ShapeAssumption DEF Lev
  <2> QED BY <2>1, <2>2, MergeBooks
<1>4. CASE CompactLast
  <2>1. PICK x, y : MergeStep(<<x, y>>, TotalLevel, FALSE, <<x, y>>, TotalLevel)
    BY <1>4, CompactLastMerges
  <2>2. TotalLevel \in Lev /\ TotalLevel \in 0..TotalLevel
    BY Shape, ShapeAssumption
  <2> QED BY <2>1, <2>2, MergeBooks
<1>5. CASE CompactDone
  BY <1>5, CompactDoneBooks
<1>6. CASE ForceRewrite
  <2>1. PICK x : MergeStep(<<x>>, ForcedLevel, TRUE, <<x>>, TotalLevel)
    BY <1>6, ForceMerges
  <2>2. TotalLevel \in Lev /\ ForcedLevel \in 0..TotalLevel
    BY <1>6, ForceMerges
  <2> QED BY <2>1, <2>2, MergeBooks
<1>7. CASE FinishFlush
  BY <1>7, FinishFlushBooks
<1>8. CASE UNCHANGED vars
  <2>1. /\ sc' = sc /\ info' = info /\ free_q' = free_q /\ now_recency' = now_recency /\ mem' = mem
        /\ disk' = disk /\ pc' = pc /\ at' = at /\ forced' = forced /\ written' = written
    BY <1>8 DEF vars
  <2>2. TypeOK' /\ Live' = Live
    BY <2>1 DEF BooksInv, TypeOK, Live
  <2>3. PlacesInv'
    BY <2>1, <2>2 DEF BooksInv, PlacesInv
  <2>4. NamesInv'
    BY <2>1, <2>2 DEF BooksInv, NamesInv, NamesLive, NoFlushedMem, BlocksApart, UnlinkedExact, LbasOf
  <2> QED BY <2>2, <2>3, <2>4 DEF BooksInv
<1> QED BY <1>1, <1>2, <1>3, <1>4, <1>5, <1>6, <1>7, <1>8 DEF Next

(* The property from the invariant.                                        *)
LEMMA InPlace == ASSUME BooksInv PROVE RunsInPlace
<1>0. TypeOK /\ PlacesInv /\ NamesInv
  BY DEF BooksInv
<1>1. /\ \A i \in Lev : /\ LevelOK(disk[i], LevelMax(i)) /\ LevelMax(i) \in Nat
                        /\ Held(disk[i]) \subseteq Live /\ mem \notin Held(disk[i])
                        /\ Len(disk[i].order) \in Nat
                        /\ Len(disk[i].order) < LevelMax(i) \/ (pc = "compact" /\ i = at)
      /\ \A i, j \in Lev : i # j => Held(disk[i]) \cap Held(disk[j]) = {}
  BY LevelFacts
<1>2. PoolNeverEmpty
  BY <1>0, PoolHolds DEF PoolNeverEmpty
<1>3. NoLevelOverflows
  BY <1>1 DEF NoLevelOverflows
<1> DEFINE used(i) == {s \in DOMAIN disk[i].slot : disk[i].slot[s] # None}
           placed == UNION {{i} \X used(i) : i \in Lev}
           runs == {disk[p[1]].slot[p[2]] : p \in placed}
           f == [p \in placed |-> disk[p[1]].slot[p[2]]]
<1>4. ASSUME NEW i \in Lev
      PROVE  /\ ToSet(disk[i].order) = used(i)
             /\ Len(disk[i].order) = Cardinality(ToSet(disk[i].order))
  <2>1. LevelOK(disk[i], LevelMax(i))
    BY <1>1
  <2>2. ToSet(disk[i].order) \subseteq 1..LevelMax(i) /\ Len(disk[i].order) = Cardinality(ToSet(disk[i].order))
    BY <2>1, DistinctLen DEF LevelOK
  <2>3. DOMAIN disk[i].slot = 1..LevelMax(i) /\ \A s \in 1..LevelMax(i) : disk[i].slot[s] # None <=> s \in ToSet(disk[i].order)
    BY <2>1 DEF LevelOK
  <2> QED BY <2>2, <2>3
<1>5. \A p : p \in placed <=> \E i \in Lev : \E s \in ToSet(disk[i].order) : p = <<i, s>>
  BY <1>4
<1> HIDE DEF used
<1>6. \A i \in Lev : \A s \in ToSet(disk[i].order) : <<i, s>> \in placed /\ disk[i].slot[s] \in Held(disk[i])
  BY <1>5 DEF Held
<1> HIDE DEF placed
<1>7. ASSUME NEW p \in placed, NEW q \in placed, f[p] = f[q] PROVE p = q
  <2>1. PICK i \in Lev : \E s \in ToSet(disk[i].order) : p = <<i, s>>
    BY <1>5
  <2>2. PICK s \in ToSet(disk[i].order) : p = <<i, s>>
    BY <2>1
  <2>3. PICK j \in Lev : \E t \in ToSet(disk[j].order) : q = <<j, t>>
    BY <1>5
  <2>4. PICK t \in ToSet(disk[j].order) : q = <<j, t>>
    BY <2>3
  <2>5. disk[i].slot[s] = disk[j].slot[t]
    BY <1>7, <2>2, <2>4
  <2>6. i = j
    <3>1. disk[i].slot[s] \in Held(disk[i]) /\ disk[j].slot[t] \in Held(disk[j])
      BY <1>6
    <3> QED BY <1>1, <2>5, <3>1
  <2>7. s = t
    BY <1>1, <2>5, <2>6 DEF LevelOK
  <2> QED BY <2>2, <2>4, <2>6, <2>7
<1>8. f \in Injection(placed, runs) /\ f \in Surjection(placed, runs)
  <2>1. f \in [placed -> runs] /\ \A x \in runs : \E p \in placed : f[p] = x
    OBVIOUS
  <2> HIDE DEF f, runs
  <2> QED BY <1>7, <2>1 DEF Injection, Surjection, IsInjective
<1>9. \A x : x \in runs <=> \E i \in Lev : x \in Held(disk[i])
  <2>1. ASSUME NEW x \in runs PROVE \E i \in Lev : x \in Held(disk[i])
    <3>1. PICK p \in placed : x = disk[p[1]].slot[p[2]]
      OBVIOUS
    <3>2. PICK i \in Lev : \E s \in ToSet(disk[i].order) : p = <<i, s>>
      BY <1>5
    <3> QED BY <1>6, <3>1, <3>2
  <2>2. ASSUME NEW i \in Lev, NEW x \in Held(disk[i]) PROVE x \in runs
    <3>1. PICK s \in ToSet(disk[i].order) : x = disk[i].slot[s]
      BY DEF Held
    <3>2. <<i, s>> \in placed /\ <<i, s>>[1] = i /\ <<i, s>>[2] = s
      BY <1>6
    <3> QED BY <3>1, <3>2
  <2> QED BY <2>1, <2>2
<1>10. Live = runs \cup {mem} /\ mem \notin runs
  <2>1. Live = {mem} \cup UNION {Held(disk[i]) : i \in Lev}
    BY <1>0 DEF PlacesInv
  <2> HIDE DEF runs
  <2> QED BY <1>1, <1>9, <2>1
<1>11. IsFiniteSet(runs)
  <2>1. IsFiniteSet(Idx)
    <3>1. 0 \in Int /\ Pool - 1 \in Int
      BY PoolAssumption
    <3> QED BY <3>1, FS_Interval DEF Idx
  <2>2. runs \in SUBSET Idx
    <3> HIDE DEF runs
    <3> QED BY <1>10 DEF Live
  <2> QED BY <2>1, <2>2, FS_Subset
<1>12. Cardinality(runs) = Cardinality(placed)
  <2> HIDE DEF runs, f
  <2> QED BY <1>8, <1>11, FS_Injection
<1>13. ToSet(free_q) = Idx \ Live /\ Len(free_q) = Cardinality(Idx \ Live)
  <2>1. free_q \in Seq(Idx) /\ IsInjective(free_q) /\ ToSet(free_q) = Idx \ Live
    BY <1>0 DEF TypeOK, PlacesInv
  <2> QED BY <2>1, DistinctLen
<1>14. EveryRunInPlace
  BY <1>4, <1>10, <1>12, <1>13 DEF EveryRunInPlace, placed, used
<1> QED BY <1>0, <1>2, <1>3, <1>14 DEF RunsInPlace, NamesInv

(***************************************************************************)
(* Whatever flushes, compactions and forced rewrites happen, for every     *)
(* number of blocks, levels and runs: every live run is the memtable or    *)
(* sits in one slot of one level, the other indices are in the pool once   *)
(* each and the pool never runs dry, no level overflows, and               *)
(* unlinked_lba_num is exact.                                              *)
(***************************************************************************)
THEOREM RunsAlwaysInPlace == Spec => []RunsInPlace
<1>1. Init => BooksInv
  BY BooksInit
<1>2. BooksInv /\ [Next]_vars => BooksInv'
  BY BooksStep
<1>3. BooksInv => RunsInPlace
  BY InPlace
<1> QED BY <1>1, <1>2, <1>3, PTL DEF Spec

-----------------------------------------------------------------------------
(* Reads find the last copy, and stale copies are refused.                 *)

(* An entry older than what the table names fails the validity checks.     *)
LEMMA OlderRefused ==
    ASSUME NEW x, NEW ste, NEW k, sc[k] # None, sc[k] # x, Older(x, ste, k)
    PROVE  ~EntryValid(x, ste, k) /\ (~ste.copied => ~ValidLba(x, k))
  BY DEF Older, EntryValid, ValidLba, ValidByValue

LEMMA LevelsOf ==
    ASSUME BooksInv, LevelsInv
    PROVE  /\ \A x \in Live : /\ info[x].level \in Nat /\ info[x].recency \in Nat /\ info[x].recency < now_recency
                              /\ info[x].level = 0 <=> x = mem
           /\ now_recency \in Nat
<1>1. TypeOK /\ PlacesInv /\ mem \in Live /\ now_recency \in Nat
  BY DEF BooksInv, PlacesInv, TypeOK
<1>2. \A x \in Live : info[x].level \in Nat /\ info[x].recency \in Nat /\ info[x].recency < now_recency
  BY <1>1, RunTyped DEF RunSet, LevelsInv
<1>3. ASSUME NEW x \in Live, x # mem PROVE info[x].level # 0
  <2>1. PICK i \in Lev : x \in Held(disk[i])
    BY <1>1, <1>3 DEF PlacesInv
  <2> QED BY <2>1 DEF LevelsInv, Lev
<1> QED BY <1>1, <1>2, <1>3 DEF LevelsInv

(* The sources of a merge, and where the new run goes.                     *)
MergeFits(srcs, dead, lv) ==
    /\ Sources(srcs) /\ ToSet(srcs) \subseteq Checked
    /\ ToSet(dead) \subseteq ToSet(srcs) \ {mem} /\ ToSet(srcs) \subseteq ToSet(dead) \cup {mem}
    /\ \A y \in ToSet(srcs) : info[y].level <= lv
    /\ \A y \in ToSet(srcs) : \A x \in Live \ (ToSet(srcs) \cup {mem}) :
          info[y].level <= info[x].level => lv <= info[x].level

(* The entries a merge links are those the table names in its sources.     *)
LEMMA LinkedExactly ==
    ASSUME BooksInv, CopiesInv, NEW srcs, Sources(srcs), ToSet(srcs) \subseteq Checked,
           NEW force, NEW mv, mv = MovedBlocks(srcs, force)
    PROVE  /\ \A k \in LinkedBy(srcs, mv) : k \in Lba /\ sc[k] \in ToSet(srcs)
           /\ \A d \in Blocks(srcs) : \A k \in SteOf(srcs, d).lbas :
                EntryValid(srcs[d[1]], SteOf(srcs, d), k) => sc[k] = srcs[d[1]]
           /\ \A e \in mv : \A k \in SteOf(srcs, e).lbas :
                ValidLba(srcs[e[1]], k) => sc[k] = srcs[e[1]]
<1>0. TypeOK
  BY DEF BooksInv
<1>1. ASSUME NEW d \in Blocks(srcs), NEW k \in SteOf(srcs, d).lbas
      PROVE  /\ k \in Lba /\ sc[k] # None /\ srcs[d[1]] \in ToSet(srcs)
             /\ sc[k] # srcs[d[1]] => Older(srcs[d[1]], SteOf(srcs, d), k)
  <2>1. /\ SteOf(srcs, d) \in SteSet /\ srcs[d[1]] \in Live /\ d[1] \in DOMAIN srcs
        /\ d[2] \in DOMAIN info[srcs[d[1]]].stes
    BY <1>0, BlockTyped
  <2>2. srcs[d[1]] \in ToSet(srcs)
    BY <2>1 DEF ToSet
  <2>3. k \in Lba
    BY <2>1, SteBounds
  <2>4. k \in info[srcs[d[1]]].stes[d[2]].lbas /\ SteOf(srcs, d) = info[srcs[d[1]]].stes[d[2]]
    BY DEF SteOf
  <2>5. srcs[d[1]] \in Checked
    BY <2>2
  <2>6. sc[k] # None /\ (sc[k] # srcs[d[1]] => Older(srcs[d[1]], info[srcs[d[1]]].stes[d[2]], k))
    BY <2>1, <2>4, <2>5 DEF CopiesInv
  <2> QED BY <2>2, <2>3, <2>4, <2>6
<1>2. \A e \in mv : e \in Blocks(srcs) /\ ~SteOf(srcs, e).copied
  BY MovedAre DEF NonCopy, SteOf
<1>3. ASSUME NEW d \in Blocks(srcs), NEW k \in SteOf(srcs, d).lbas, EntryValid(srcs[d[1]], SteOf(srcs, d), k)
      PROVE  sc[k] = srcs[d[1]]
  BY <1>1, <1>3, OlderRefused
<1>4. ASSUME NEW e \in mv, NEW k \in SteOf(srcs, e).lbas, ValidLba(srcs[e[1]], k)
      PROVE  sc[k] = srcs[e[1]]
  BY <1>1, <1>2, <1>4, OlderRefused
<1>5. ASSUME NEW k \in LinkedBy(srcs, mv) PROVE k \in Lba /\ sc[k] \in ToSet(srcs)
  <2>1. CASE k \in Copied(srcs, mv)
    <3>1. PICK d \in Blocks(srcs) \ mv : /\ k \in SteOf(srcs, d).lbas
                                         /\ EntryValid(srcs[d[1]], SteOf(srcs, d), k)
      BY <2>1, CopiedFrom
    <3> QED BY <1>1, <1>3, <3>1
  <2>2. CASE k \notin Copied(srcs, mv)
    <3>1. PICK e \in mv : k \in SteOf(srcs, e).lbas /\ ValidLba(srcs[e[1]], k)
      BY <1>5, <2>2 DEF LinkedBy
    <3> QED BY <1>1, <1>2, <1>4, <3>1
  <2> QED BY <2>1, <2>2
<1> QED BY <1>3, <1>4, <1>5

(* The new run holds the last copy of what it is named for.                *)
LEMMA MergeFresh ==
    ASSUME BooksInv, LevelsInv, CopiesInv, NEW srcs, Sources(srcs), ToSet(srcs) \subseteq Checked,
           NEW force, NEW mv, mv = MovedBlocks(srcs, force), NEW lv, NEW k \in LinkedBy(srcs, mv), k \in written
    PROVE  k \in Merge(srcs, mv, lv).fresh
<1>0. TypeOK
  BY DEF BooksInv
<1> DEFINE F == {h \in Copied(srcs, mv) : h \in info[srcs[Min(Offers(srcs, mv, h))]].fresh}
           G == UNION {(SteOf(srcs, e).lbas \ SteOf(srcs, e).twice) \cap info[srcs[e[1]]].fresh : e \in mv}
<1>1. Merge(srcs, mv, lv).fresh = F \cup G
  BY DEF Merge
<1>2. /\ \A d \in Blocks(srcs) : \A h \in SteOf(srcs, d).lbas :
           EntryValid(srcs[d[1]], SteOf(srcs, d), h) => sc[h] = srcs[d[1]]
      /\ \A e \in mv : \A h \in SteOf(srcs, e).lbas :
           ValidLba(srcs[e[1]], h) => sc[h] = srcs[e[1]]
  BY LinkedExactly
<1>3. k \in info[sc[k]].fresh
  BY DEF CopiesInv
<1> HIDE DEF F, G, EntryValid, ValidLba
<1>4. CASE k \in Copied(srcs, mv)
  <2>1. Offers(srcs, mv, k) # {} /\ Offers(srcs, mv, k) \subseteq DOMAIN srcs
    BY <1>4 DEF Copied, Offers
  <2>2. DOMAIN srcs = 1..Len(srcs) /\ Len(srcs) \in Nat
    BY LenProperties DEF Sources
  <2>3. IsFiniteSet(Offers(srcs, mv, k)) /\ Offers(srcs, mv, k) \subseteq Nat
    <3>1. IsFiniteSet(1..Len(srcs)) /\ Offers(srcs, mv, k) \in SUBSET (1..Len(srcs))
      BY <2>1, <2>2, FS_Interval
    <3> QED BY <3>1, FS_Subset
  <2>4. PICK i : i = Min(Offers(srcs, mv, k))
    OBVIOUS
  <2>5. i \in Offers(srcs, mv, k)
    BY <2>1, <2>3, <2>4, MinLeast
  <2>6. PICK j \in DOMAIN info[srcs[i]].stes :
          k \in info[srcs[i]].stes[j].lbas /\ EntryValid(srcs[i], info[srcs[i]].stes[j], k)
    BY <2>5 DEF Offers
  <2>7. <<i, j>> \in Blocks(srcs) /\ SteOf(srcs, <<i, j>>) = info[srcs[i]].stes[j] /\ <<i, j>>[1] = i
    BY <2>1, <2>5, BlockPair DEF SteOf
  <2>8. sc[k] = srcs[i]
    BY <1>2, <2>6, <2>7
  <2>9. k \in F
    BY <1>3, <1>4, <2>4, <2>8 DEF F
  <2> QED BY <1>1, <2>9
<1>5. CASE k \notin Copied(srcs, mv)
  <2>1. PICK e \in mv : k \in SteOf(srcs, e).lbas /\ ValidLba(srcs[e[1]], k)
    BY <1>5 DEF LinkedBy
  <2>2. sc[k] = srcs[e[1]]
    BY <1>2, <2>1
  <2>3. SteOf(srcs, e).twice = {}
    <3>1. e \in Blocks(srcs)
      BY MovedAre
    <3>2. srcs[e[1]] \in Live /\ e[2] \in DOMAIN info[srcs[e[1]]].stes
      BY <1>0, <3>1, BlockTyped
    <3> QED BY <3>2 DEF LevelsInv, SteOf
  <2>4. k \in G
    BY <1>3, <2>1, <2>2, <2>3 DEF G
  <2> QED BY <1>1, <2>4
<1> QED BY <1>4, <1>5

LEMMA MergeLatest ==
    ASSUME BooksInv, LevelsInv, CopiesInv, NEW srcs, NEW force, NEW lv \in Lev,
           NEW dead, MergeFits(srcs, dead, lv), MergeStep(srcs, lv, force, dead, lv)
    PROVE  LevelsInv' /\ CopiesInv'
<1> DEFINE des == Head(free_q)
           mv == MovedBlocks(srcs, force)
           K == LinkedBy(srcs, mv)
           R == Merge(srcs, mv, lv)
<1> HIDE DEF des, mv, K, R
<1>0. mv = MovedBlocks(srcs, force) /\ des = Head(free_q) /\ K = LinkedBy(srcs, mv) /\ R = Merge(srcs, mv, lv)
  BY DEF des, mv, K, R
<1>a. /\ dead \in Seq(Idx) /\ IsInjective(dead) /\ MergeInto(srcs, lv, force, dead)
      /\ LevelsAfter(ToSet(dead), lv, Head(free_q)) /\ mem' = mem /\ written' = written /\ pc' # "idle"
  BY DEF MergeStep
<1>1. /\ Sources(srcs) /\ ToSet(srcs) \subseteq Checked /\ ToSet(dead) \subseteq ToSet(srcs) /\ mem \notin ToSet(dead)
      /\ ToSet(srcs) \subseteq ToSet(dead) \cup {mem}
      /\ \A y \in ToSet(srcs) : info[y].level <= lv
      /\ \A y \in ToSet(srcs) : \A x \in Live \ (ToSet(srcs) \cup {mem}) :
            info[y].level <= info[x].level => lv <= info[x].level
  BY DEF MergeFits
<1>2. TypeOK /\ BlocksApart /\ NamesLive /\ mem \in Live /\ free_q # <<>> /\ lv \in 0..TotalLevel /\ PlacesInv
  <2>1. lv \in 0..TotalLevel
    BY ShapeAssumption DEF Lev
  <2> QED BY <2>1, NewIndex DEF BooksInv, NamesInv, PlacesInv
<1>3. /\ des \in Idx \ Live /\ ToSet(srcs) \subseteq Live
      /\ info' \in [Idx -> RunSet \cup {None}]
      /\ Live' = (Live \cup {des}) \ ToSet(dead) /\ info'[des] = R
      /\ \A y \in Live \ ToSet(dead) :
           SameRun(y) /\ info'[y].unlinked = info[y].unlinked + Cardinality({k \in K : sc[k] = y})
      /\ sc' \in [Lba -> Idx \cup {None}]
      /\ \A k \in Lba : sc'[k] = IF k \in K THEN des ELSE sc[k]
      /\ now_recency' = now_recency + 1
  <2>1. /\ free_q # <<>> /\ Sources(srcs) /\ lv \in 0..TotalLevel /\ dead \in Seq(Idx) /\ IsInjective(dead)
        /\ ToSet(dead) \subseteq ToSet(srcs) /\ MergeInto(srcs, lv, force, dead)
    BY <1>1, <1>2, <1>a
  <2> QED BY <1>0, <2>1, MergeRuns
<1>4. /\ R \in RunSet /\ R.level = lv /\ R.recency = now_recency
      /\ ToSet(R.stes) = MergedBlocks(srcs, mv)
  BY <1>0, <1>1, <1>2, MergeTyped
<1>5. \A k \in Lba : sc[k] \in ToSet(srcs) => k \in K
  <2> SUFFICES ASSUME NEW k \in Lba, sc[k] \in ToSet(srcs) PROVE k \in K
    OBVIOUS
  <2>1. sc[k] # None
    BY <1>3, NoneAssumption DEF Live, Idx
  <2>2. k \in LbasOf(sc[k])
    BY <1>2, <2>1 DEF NamesLive
  <2> QED BY <1>0, <1>1, <1>2, <2>2, NamedLinked
<1>6. \A k \in K : k \in Lba /\ sc[k] \in ToSet(srcs)
  BY <1>0, <1>1, LinkedExactly
<1>7. /\ now_recency \in Nat
      /\ \A x \in Live : info[x].level \in Nat /\ info[x].recency \in Nat /\ info[x].recency < now_recency
  BY LevelsOf
<1>8. \A y \in Live \ ToSet(dead) : /\ info'[y].level = info[y].level /\ info'[y].recency = info[y].recency
                                    /\ info'[y].stes = info[y].stes /\ info'[y].fresh = info[y].fresh
  BY <1>3 DEF SameRun
\* The blocks of the new run.
<1>9. ASSUME NEW j \in DOMAIN R.stes
      PROVE  \/ /\ ~R.stes[j].copied /\ R.stes[j].twice = {} /\ R.stes[j].lbas \subseteq K
             \/ \E e \in mv : /\ R.stes[j].lbas = SteOf(srcs, e).lbas /\ R.stes[j].twice = SteOf(srcs, e).twice
                              /\ R.stes[j].copied = \E k \in SteOf(srcs, e).lbas : ~ValidLba(srcs[e[1]], k)
                              /\ R.stes[j].level = info[srcs[e[1]]].level
                              /\ R.stes[j].recency = info[srcs[e[1]]].recency
  <2>1. PICK b : b = R.stes[j]
    OBVIOUS
  <2>2. b \in MergedBlocks(srcs, mv)
    BY <1>4, <2>1 DEF ToSet
  <2>3. \/ \E e \in mv : b = FlagMoved(SteOf(srcs, e), srcs[e[1]])
        \/ b.lbas \subseteq Copied(srcs, mv) /\ ~b.copied /\ b.twice = {}
    BY <1>0, <1>1, <1>2, <2>2, MergedParts
  <2>4. CASE b.lbas \subseteq Copied(srcs, mv) /\ ~b.copied /\ b.twice = {}
    <3>1. Copied(srcs, mv) \subseteq K
      BY DEF K, LinkedBy
    <3> QED BY <2>1, <2>4, <3>1
  <2>5. ASSUME NEW e \in mv, b = FlagMoved(SteOf(srcs, e), srcs[e[1]])
        PROVE  /\ b.lbas = SteOf(srcs, e).lbas /\ b.twice = SteOf(srcs, e).twice
               /\ b.copied = \E k \in SteOf(srcs, e).lbas : ~ValidLba(srcs[e[1]], k)
               /\ b.level = info[srcs[e[1]]].level /\ b.recency = info[srcs[e[1]]].recency
    <3>1. SteOf(srcs, e) \in SteSet /\ srcs[e[1]] \in Live
      BY <1>0, <1>1, <1>2, MovedAre, BlockTyped
    <3> QED BY <1>2, <2>5, <3>1, FlagKeeps
  <2> QED BY <2>1, <2>3, <2>4, <2>5
<1>10. ASSUME NEW e \in mv
       PROVE  /\ srcs[e[1]] \in ToSet(srcs) /\ srcs[e[1]] \in Live /\ SteOf(srcs, e).twice = {}
              /\ \A k \in SteOf(srcs, e).lbas : /\ k \in Lba /\ sc[k] # None
                                                /\ ValidLba(srcs[e[1]], k) => k \in K
  <2>1. e \in Blocks(srcs)
    BY <1>0, MovedAre
  <2>2. /\ SteOf(srcs, e) \in SteSet /\ srcs[e[1]] \in Live /\ e[1] \in DOMAIN srcs
        /\ e[2] \in DOMAIN info[srcs[e[1]]].stes
    BY <1>1, <1>2, <2>1, BlockTyped
  <2>3. srcs[e[1]] \in ToSet(srcs)
    BY <2>2 DEF ToSet
  <2>4. SteOf(srcs, e).twice = {}
    BY <2>2 DEF LevelsInv, SteOf
  <2>5. \A k \in SteOf(srcs, e).lbas : k \in Lba /\ sc[k] # None
    BY <1>1, <2>2, <2>3, SteBounds DEF CopiesInv, SteOf
  <2>6. \A k \in SteOf(srcs, e).lbas : ValidLba(srcs[e[1]], k) => k \in K
    BY DEF K, LinkedBy
  <2> QED BY <2>2, <2>3, <2>4, <2>5, <2>6
<1> HIDE DEF ValidLba
<1>11. LevelsInv'
  <2>1. info'[mem].level = 0
    BY <1>1, <1>2, <1>8 DEF LevelsInv
  <2>2. ASSUME NEW i \in Lev, NEW x \in Held(disk'[i]) PROVE info'[x].level = i
    <3>1. Held(disk'[i]) = (Held(disk[i]) \ ToSet(dead)) \cup (IF i = lv THEN {des} ELSE {})
      BY <1>0, <1>a DEF LevelsAfter
    <3>2. CASE x = des /\ i = lv
      BY <1>3, <1>4, <3>2
    <3>3. CASE x \in Held(disk[i]) \ ToSet(dead)
      <4>1. x \in Live /\ info[x].level = i
        BY <1>2, <3>3 DEF PlacesInv, LevelsInv
      <4> QED BY <1>8, <3>3, <4>1
    <3> QED BY <2>2, <3>1, <3>2, <3>3
  <2>3. ASSUME NEW x \in Live' PROVE info'[x].recency < now_recency'
    <3>1. CASE x = des
      BY <1>3, <1>4, <1>7, <3>1
    <3>2. CASE x # des
      <4>1. x \in Live \ ToSet(dead)
        BY <1>3, <3>2
      <4> QED BY <1>3, <1>7, <1>8, <4>1
    <3> QED BY <3>1, <3>2
  <2>4. ASSUME NEW x \in Live', NEW j \in DOMAIN info'[x].stes
        PROVE  /\ info'[x].stes[j].twice = {}
               /\ info'[x].stes[j].copied => x # mem /\ info'[x].stes[j].level <= info'[x].level
    <3>1. CASE x = des
      <4>1. j \in DOMAIN R.stes /\ des # mem
        BY <1>2, <1>3, <2>4, <3>1
      <4>2. R.stes[j].twice = {} /\ (R.stes[j].copied => R.stes[j].level <= lv)
        <5>1. CASE ~R.stes[j].copied /\ R.stes[j].twice = {}
          BY <5>1
        <5>2. ASSUME NEW e \in mv, R.stes[j].twice = SteOf(srcs, e).twice,
                     R.stes[j].level = info[srcs[e[1]]].level
              PROVE  R.stes[j].twice = {} /\ (R.stes[j].copied => R.stes[j].level <= lv)
          BY <1>1, <1>10, <5>2
        <5> QED BY <1>9, <4>1, <5>1, <5>2
      <4> QED BY <1>3, <1>4, <3>1, <4>1, <4>2
    <3>2. CASE x # des
      <4>1. x \in Live \ ToSet(dead) /\ info'[x].stes = info[x].stes /\ info'[x].level = info[x].level
        BY <1>3, <1>8, <3>2
      <4> QED BY <2>4, <4>1 DEF LevelsInv
    <3> QED BY <3>1, <3>2
  <2> QED BY <1>a, <2>1, <2>2, <2>3, <2>4 DEF LevelsInv
<1>12. Checked' = Live' \ {mem}
  BY <1>a DEF Checked
\* Entries of the new run.
<1>13. ASSUME NEW j \in DOMAIN R.stes, NEW k \in R.stes[j].lbas
       PROVE  /\ k \in Lba /\ sc'[k] # None
              /\ sc'[k] # des => /\ R.stes[j].copied /\ sc'[k] = sc[k] /\ sc[k] \in Live \ ToSet(dead)
                                 /\ Newer(info[sc[k]], R.stes[j])
  <2>1. des # None
    BY <1>3, Shape
  <2>2. CASE k \in K
    BY <1>3, <1>6, <2>1, <2>2
  <2>3. CASE k \notin K
    <3>1. PICK e \in mv : /\ R.stes[j].lbas = SteOf(srcs, e).lbas
                          /\ R.stes[j].copied = \E h \in SteOf(srcs, e).lbas : ~ValidLba(srcs[e[1]], h)
                          /\ R.stes[j].level = info[srcs[e[1]]].level
                          /\ R.stes[j].recency = info[srcs[e[1]]].recency
      BY <1>9, <1>13, <2>3
    <3>2. k \in Lba /\ sc[k] # None /\ ~ValidLba(srcs[e[1]], k)
      BY <1>10, <1>13, <2>3, <3>1
    <3>3. R.stes[j].copied
      BY <1>13, <3>1, <3>2
    <3>4. Newer(info[sc[k]], info[srcs[e[1]]])
      BY <3>2 DEF ValidLba
    <3>5. Newer(info[sc[k]], R.stes[j])
      BY <3>1, <3>4 DEF Newer
    <3>6. sc'[k] = sc[k] /\ sc[k] \in Live \ ToSet(dead)
      BY <1>1, <1>2, <1>3, <1>5, <2>3, <3>2 DEF NamesLive
    <3> QED BY <3>2, <3>3, <3>5, <3>6
  <2> QED BY <2>2, <2>3
\* Entries of the runs the merge leaves alone.
<1>14. ASSUME NEW x \in Live \ (ToSet(dead) \cup {mem}), NEW j \in DOMAIN info[x].stes, NEW k \in info[x].stes[j].lbas
       PROVE  /\ k \in Lba /\ sc'[k] # None
              /\ sc'[k] = des => Newer(R, info[x])
              /\ sc'[k] # des /\ sc'[k] # x =>
                    sc'[k] = sc[k] /\ sc[k] \in Live \ ToSet(dead) /\ Older(x, info[x].stes[j], k)
  <2>1. x \in Checked /\ info[x].stes[j] \in SteSet /\ x \notin ToSet(srcs)
    BY <1>1, <1>2, RunTyped DEF Checked
  <2>2. k \in Lba /\ sc[k] # None /\ (sc[k] # x => Older(x, info[x].stes[j], k))
    BY <2>1, SteBounds DEF CopiesInv
  <2>3. CASE k \in K
    <3>1. sc'[k] = des /\ sc[k] \in ToSet(srcs) /\ sc[k] # x /\ sc[k] \in Live /\ des # None
      BY <1>3, <1>6, <2>1, <2>3, Shape
    <3>2. Older(x, info[x].stes[j], k)
      BY <2>2, <3>1
    <3>3. info[x].stes[j].copied => info[x].stes[j].level <= info[x].level
      BY DEF LevelsInv
    <3>4. info[x].stes[j].level \in Nat
      BY <2>1 DEF SteSet
    <3>5. info[sc[k]].level \in Nat /\ info[x].level \in Nat /\ info[x].recency \in Nat /\ info[x].recency < now_recency
      BY <1>7, <3>1
    <3>6. info[sc[k]].level <= info[x].level
      BY <3>2, <3>3, <3>4, <3>5 DEF Older, Newer
    <3>7. lv <= info[x].level
      BY <1>1, <2>1, <3>1, <3>6
    <3>8. lv \in Nat /\ now_recency \in Nat
      BY <1>7, Shape
    <3>9. Newer(R, info[x])
      BY <1>4, <3>5, <3>7, <3>8 DEF Newer
    <3> QED BY <2>2, <3>1, <3>9
  <2>4. CASE k \notin K
    <3>1. sc'[k] = sc[k] /\ sc[k] \in Live \ ToSet(dead)
      BY <1>1, <1>2, <1>3, <1>5, <2>2, <2>4 DEF NamesLive
    <3>2. sc[k] # des
      BY <1>3, <3>1
    <3> QED BY <2>2, <3>1, <3>2
  <2> QED BY <2>3, <2>4
<1>15. ASSUME NEW x \in Live' \ {mem}, NEW j \in DOMAIN info'[x].stes, NEW k \in info'[x].stes[j].lbas
       PROVE  /\ sc'[k] # None
              /\ sc'[k] # x => \/ Newer(info'[sc'[k]], info'[x])
                               \/ (info'[x].stes[j].copied /\ Newer(info'[sc'[k]], info'[x].stes[j]))
  <2>1. \A y \in Live \ ToSet(dead) : \A b : Newer(info[y], b) => Newer(info'[y], b)
    BY <1>8 DEF Newer
  <2>2. CASE x = des
    <3>1. info'[x].stes = R.stes /\ j \in DOMAIN R.stes /\ k \in R.stes[j].lbas
      BY <1>3, <1>15, <2>2
    <3> QED BY <1>13, <2>1, <2>2, <3>1
  <2>3. CASE x # des
    <3>1. x \in Live \ (ToSet(dead) \cup {mem})
      BY <1>3, <2>3
    <3>2. info'[x].stes = info[x].stes /\ info'[x].level = info[x].level /\ info'[x].recency = info[x].recency
      BY <1>8, <3>1
    <3>3. j \in DOMAIN info[x].stes /\ k \in info[x].stes[j].lbas
      BY <1>15, <3>2
    <3>4. /\ sc'[k] # None
          /\ sc'[k] = des => Newer(R, info[x])
          /\ sc'[k] # des /\ sc'[k] # x =>
                sc'[k] = sc[k] /\ sc[k] \in Live \ ToSet(dead) /\ Older(x, info[x].stes[j], k)
      BY <1>14, <3>1, <3>3
    <3>5. \A a : Newer(a, info[x]) => Newer(a, info'[x])
      BY <3>2 DEF Newer
    <3>6. CASE sc'[k] = des
      BY <1>3, <3>4, <3>5, <3>6
    <3>7. CASE sc'[k] # des /\ sc'[k] # x
      <4>1. sc'[k] = sc[k] /\ sc[k] \in Live \ ToSet(dead)
        BY <3>4, <3>7
      <4>2. \/ Newer(info[sc[k]], info[x])
            \/ info[x].stes[j].copied /\ Newer(info[sc[k]], info[x].stes[j])
        BY <3>4, <3>7 DEF Older
      <4> QED BY <2>1, <3>2, <3>4, <3>5, <4>1, <4>2
    <3> QED BY <3>4, <3>6, <3>7
  <2> QED BY <2>2, <2>3
<1>16. ASSUME NEW k \in written PROVE k \in info'[sc'[k]].fresh
  <2>1. k \in Lba /\ sc[k] # None /\ k \in info[sc[k]].fresh
    BY DEF BooksInv, TypeOK, NamesInv, CopiesInv
  <2>2. CASE k \in K
    <3>1. k \in R.fresh
      BY <1>0, <1>1, <2>2, MergeFresh
    <3> QED BY <1>3, <2>1, <2>2, <3>1
  <2>3. CASE k \notin K
    <3>1. sc'[k] = sc[k] /\ sc[k] \in Live \ ToSet(dead)
      BY <1>1, <1>2, <1>3, <1>5, <2>1, <2>3 DEF NamesLive
    <3> QED BY <1>8, <2>1, <3>1
  <2> QED BY <2>2, <2>3
<1>17. CopiesInv'
  BY <1>12, <1>15, <1>16, <1>a DEF CopiesInv, Older
<1> QED BY <1>11, <1>17

LEMMA FlushLatest == ASSUME BooksInv, LevelsInv, CopiesInv, Flush PROVE LevelsInv' /\ CopiesInv'
<1>1. MergeStep(<<mem>>, 1, FALSE, <<>>, 1) /\ ToSet(<<mem>>) = {mem} /\ ToSet(<<>>) = {} /\ pc = "idle"
  BY FlushMerges
<1>2. Sources(<<mem>>)
  BY <1>1 DEF MergeStep
<1>3. /\ mem \in Checked /\ info[mem].level = 0 /\ 1 \in Lev
      /\ \A x \in Live \ {mem} : info[x].level \in Nat /\ info[x].level # 0
  <2>1. \A x \in Live : info[x].level \in Nat /\ (info[x].level = 0 <=> x = mem)
    BY LevelsOf
  <2>2. mem \in Live
    BY DEF BooksInv, PlacesInv
  <2> QED BY <1>1, <2>1, <2>2, Shape DEF Checked
<1>4. MergeFits(<<mem>>, <<>>, 1)
  <2>1. \A x \in Live \ ({mem} \cup {mem}) : 1 <= info[x].level
    BY <1>3
  <2> QED BY <1>1, <1>2, <1>3, <2>1 DEF MergeFits
<1> QED BY <1>1, <1>3, <1>4, MergeLatest

(* The runs of a level, and those that are not in it.                      *)
LEMMA OtherLevels ==
    ASSUME BooksInv, LevelsInv, NEW i \in Lev
    PROVE  /\ \A y \in Held(disk[i]) : y \in Live \ {mem} /\ info[y].level = i
           /\ \A x \in Live \ (Held(disk[i]) \cup {mem}) : info[x].level \in Nat /\ info[x].level # i
<1>1. PlacesInv
  BY DEF BooksInv
<1>2. ASSUME NEW y \in Held(disk[i]) PROVE y \in Live \ {mem} /\ info[y].level = i
  BY <1>1, <1>2 DEF PlacesInv, LevelsInv
<1>3. ASSUME NEW x \in Live \ (Held(disk[i]) \cup {mem}) PROVE info[x].level \in Nat /\ info[x].level # i
  <2>1. PICK j \in Lev : x \in Held(disk[j])
    BY <1>1, <1>3 DEF PlacesInv
  <2>2. j # i /\ info[x].level = j /\ j \in Nat
    BY <1>3, <2>1 DEF LevelsInv, Lev
  <2> QED BY <2>2
<1> QED BY <1>2, <1>3

LEMMA CompactUpperLatest ==
    ASSUME BooksInv, LevelsInv, CopiesInv, CompactUpper PROVE LevelsInv' /\ CopiesInv'
<1>1. PICK srcs : srcs = RunsOf(disk[at])
  OBVIOUS
<1>2. /\ MergeStep(srcs, at + 1, FALSE, srcs, at + 1)
      /\ at + 1 \in Lev /\ at \in Lev /\ ToSet(srcs) = Held(disk[at]) /\ pc = "compact"
  BY <1>1, CompactUpperMerges
<1>3. Sources(srcs)
  BY <1>2 DEF MergeStep
<1>4. /\ \A y \in ToSet(srcs) : y \in Live \ {mem} /\ info[y].level = at
      /\ \A x \in Live \ (ToSet(srcs) \cup {mem}) : info[x].level \in Nat /\ info[x].level # at
  BY <1>2, OtherLevels
<1>5. at \in Nat
  BY <1>2, Shape
<1>6. ToSet(srcs) \subseteq Checked
  BY <1>2, <1>4 DEF Checked
<1>7. MergeFits(srcs, srcs, at + 1)
  <2>1. \A y \in ToSet(srcs) : info[y].level <= at + 1
    BY <1>4, <1>5
  <2>2. \A y \in ToSet(srcs) : \A x \in Live \ (ToSet(srcs) \cup {mem}) :
          info[y].level <= info[x].level => at + 1 <= info[x].level
    BY <1>4, <1>5
  <2> QED BY <1>3, <1>4, <1>6, <2>1, <2>2 DEF MergeFits
<1> QED BY <1>2, <1>7, MergeLatest

LEMMA CompactLastLatest ==
    ASSUME BooksInv, LevelsInv, CopiesInv, CompactLast PROVE LevelsInv' /\ CopiesInv'
<1>1. /\ \E x, y \in Held(disk[TotalLevel]) :
           /\ MergeStep(<<x, y>>, TotalLevel, FALSE, <<x, y>>, TotalLevel)
           /\ ToSet(<<x, y>>) = {x, y}
      /\ TotalLevel \in Lev /\ pc = "compact"
  BY CompactLastMerges
<1>2. PICK srcs : /\ MergeStep(srcs, TotalLevel, FALSE, srcs, TotalLevel)
                  /\ ToSet(srcs) \subseteq Held(disk[TotalLevel])
  <2>1. PICK x \in Held(disk[TotalLevel]), y \in Held(disk[TotalLevel]) :
           /\ MergeStep(<<x, y>>, TotalLevel, FALSE, <<x, y>>, TotalLevel)
           /\ ToSet(<<x, y>>) = {x, y}
    BY <1>1
  <2>2. ToSet(<<x, y>>) \subseteq Held(disk[TotalLevel])
    BY <2>1
  <2> QED BY <2>1, <2>2
<1>3. Sources(srcs)
  BY <1>2 DEF MergeStep
<1>4. \A y \in ToSet(srcs) : y \in Live \ {mem} /\ info[y].level = TotalLevel
  BY <1>1, <1>2, OtherLevels
<1>5. TotalLevel \in Nat
  BY ShapeAssumption
<1>6. ToSet(srcs) \subseteq Checked
  BY <1>1, <1>4 DEF Checked
<1>7. MergeFits(srcs, srcs, TotalLevel)
  <2>1. \A y \in ToSet(srcs) : info[y].level <= TotalLevel
    BY <1>4, <1>5
  <2>2. \A y \in ToSet(srcs) : \A x \in Live \ (ToSet(srcs) \cup {mem}) :
          info[y].level <= info[x].level => TotalLevel <= info[x].level
    BY <1>4
  <2> QED BY <1>3, <1>4, <1>6, <2>1, <2>2 DEF MergeFits
<1> QED BY <1>1, <1>2, <1>7, MergeLatest

LEMMA CompactDoneLatest ==
    ASSUME BooksInv, LevelsInv, CopiesInv, CompactDone PROVE LevelsInv' /\ CopiesInv'
<1>1. /\ pc = "compact" /\ pc' = "space"
      /\ sc' = sc /\ info' = info /\ now_recency' = now_recency /\ mem' = mem
      /\ disk' = disk /\ written' = written
  BY DEF CompactDone
<1>2. Live' = Live
  BY <1>1 DEF Live
<1>3. Checked' = Checked
  BY <1>1, <1>2 DEF Checked
<1>4. LevelsInv'
  BY <1>1, <1>2 DEF LevelsInv
<1>5. CopiesInv'
  BY <1>1, <1>3 DEF CopiesInv, Older
<1> QED BY <1>4, <1>5

LEMMA FinishFlushLatest ==
    ASSUME BooksInv, LevelsInv, CopiesInv, FinishFlush PROVE LevelsInv' /\ CopiesInv'
<1>1. PICK m : FlushEnds(m)
  BY FinishFlushFacts
<1>2. /\ pc = "space" /\ pc' = "idle" /\ mem' = m /\ now_recency' = now_recency + 1
      /\ sc' = sc /\ disk' = disk /\ written' = written /\ m \in Idx /\ m \in (Idx \ Live) \cup {mem}
      /\ Live' = (Live \ {mem}) \cup {m}
      /\ \A k \in Lba : sc[k] # mem /\ sc[k] # m
  BY <1>1 DEF FlushEnds
<1>3. info'[m] = NewMem(now_recency) /\ \A y \in Live \ {mem} : y # m /\ info'[y] = info[y]
  BY <1>1 DEF FlushEnds, Live
<1>4. /\ info'[m].level = 0 /\ info'[m].recency = now_recency /\ DOMAIN info'[m].stes = {}
  BY <1>3 DEF NewMem
<1>5. /\ PlacesInv /\ now_recency \in Nat
      /\ \A x \in Live : info[x].recency \in Nat /\ info[x].recency < now_recency
  BY LevelsOf DEF BooksInv
<1>6. \A k \in Lba : sc[k] # None => sc[k] \in Live \ {mem}
  BY <1>2 DEF BooksInv, NamesInv, NamesLive
<1>7. LevelsInv'
  <2>1. \A i \in Lev : \A x \in Held(disk[i]) : x \in Live \ {mem} /\ info[x].level = i
    BY <1>5 DEF PlacesInv, LevelsInv
  <2>2. \A i \in Lev : \A x \in Held(disk[i]) : info'[x].level = i
    BY <1>3, <2>1
  <2>3. \A x \in Live' : info'[x].recency < now_recency + 1
    BY <1>2, <1>3, <1>4, <1>5
  <2>4. ASSUME NEW x \in Live', NEW j \in DOMAIN info'[x].stes
        PROVE  /\ info'[x].stes[j].twice = {}
               /\ info'[x].stes[j].copied => x # m /\ info'[x].stes[j].level <= info'[x].level
    <3>1. x # m /\ x \in Live \ {mem} /\ info'[x] = info[x]
      BY <1>2, <1>3, <1>4, <2>4
    <3> QED BY <2>4, <3>1 DEF LevelsInv
  <2> QED BY <1>2, <1>4, <2>2, <2>3, <2>4 DEF LevelsInv
<1>8. ASSUME NEW x \in Live', NEW j \in DOMAIN info'[x].stes, NEW k \in info'[x].stes[j].lbas
      PROVE  /\ sc[k] # None
             /\ sc[k] # x => \/ Newer(info'[sc[k]], info'[x])
                             \/ (info'[x].stes[j].copied /\ Newer(info'[sc[k]], info'[x].stes[j]))
  <2>1. x \in Live \ {mem} /\ info'[x] = info[x]
    BY <1>2, <1>3, <1>4, <1>8
  <2>2. x \in Checked /\ j \in DOMAIN info[x].stes /\ k \in info[x].stes[j].lbas
    BY <1>2, <1>8, <2>1 DEF Checked
  <2>3. sc[k] # None /\ (sc[k] # x => Older(x, info[x].stes[j], k))
    BY <2>2 DEF CopiesInv
  <2>4. k \in Lba
    BY <2>1, <2>2, RunTyped, SteBounds DEF BooksInv
  <2>5. info'[sc[k]] = info[sc[k]]
    BY <1>3, <1>6, <2>3, <2>4
  <2> QED BY <2>1, <2>3, <2>5 DEF Older
<1>9. ASSUME NEW k \in written PROVE k \in info'[sc[k]].fresh
  <2>1. k \in Lba /\ sc[k] # None /\ k \in info[sc[k]].fresh
    BY DEF BooksInv, TypeOK, NamesInv, CopiesInv
  <2> QED BY <1>3, <1>6, <2>1
<1>10. Checked' = Live'
  BY <1>2 DEF Checked
<1>11. CopiesInv'
  BY <1>2, <1>8, <1>9, <1>10 DEF CopiesInv, Older
<1> QED BY <1>7, <1>11

(* A host write into the memtable, the only run of level 0.                *)
LEMMA InsertLatest ==
    ASSUME BooksInv, LevelsInv, CopiesInv, Plain, NEW k \in Lba, Insert(k)
    PROVE  LevelsInv' /\ CopiesInv'
<1>1. /\ \A x \in Live : info[x].level \in Nat /\ info[x].recency \in Nat /\ info[x].recency < now_recency
      /\ \A x \in Live \ {mem} : info[x].level # 0
      /\ mem \in Live /\ info[mem].level = 0
  <2>1. \A x \in Live : /\ info[x].level \in Nat /\ info[x].recency \in Nat /\ info[x].recency < now_recency
                        /\ info[x].level = 0 <=> x = mem
    BY LevelsOf
  <2>2. mem \in Live
    BY DEF BooksInv, PlacesInv
  <2> QED BY <2>1, <2>2
<1>2. \A x \in Live : ~Newer(info[x], info[mem])
  BY <1>1 DEF Newer
<1>3. ValidLba(mem, k)
  <2>1. sc[k] # None => sc[k] \in Live
    BY DEF BooksInv, NamesInv, NamesLive
  <2> QED BY <1>2, <2>1 DEF ValidLba
<1>4. /\ TypeOK /\ PlacesInv /\ NamesInv /\ pc = "idle" /\ mem # None /\ Live' = Live
      /\ UNCHANGED <<free_q, now_recency, mem, disk, pc, at, forced>> /\ written' = written \cup {k}
      /\ \A x \in Live : info'[x].level = info[x].level /\ info'[x].recency = info[x].recency
      /\ \A x \in Live \ {mem} : info'[x].stes = info[x].stes /\ info'[x].fresh = info[x].fresh \ {k}
      /\ sc' = [sc EXCEPT ![k] = mem]
      /\ info'[mem].stes = Arrive(info[mem].stes, info[mem].entries, k)
      /\ info'[mem].fresh = info[mem].fresh \cup {k}
  BY <1>3, InsertFacts
<1>5. k \notin OpenSte(info[mem].stes, info[mem].entries)
  BY DEF Insert, Plain
<1>6. \A h \in Lba : sc'[h] = IF h = k THEN mem ELSE sc[h]
  BY <1>4 DEF TypeOK
<1>7. PICK new : new = info'[mem].stes
  OBVIOUS
<1>8. /\ new \in Seq(SteSet)
      /\ \A j \in DOMAIN new :
           /\ \A h \in new[j].lbas : h = k \/ (j \in DOMAIN info[mem].stes /\ h \in info[mem].stes[j].lbas)
           /\ new[j].copied => j \in DOMAIN info[mem].stes /\ info[mem].stes[j].copied
           /\ k \notin OpenSte(info[mem].stes, info[mem].entries) =>
                new[j].twice = {} \/ (j \in DOMAIN info[mem].stes /\ new[j].twice = info[mem].stes[j].twice)
  <2>1. info[mem].stes \in Seq(SteSet) /\ info[mem].entries \in Nat /\ (info[mem].entries > 0 => info[mem].stes # <<>>)
    BY <1>1, <1>4, RunTyped DEF NamesInv, RunSet
  <2>2. new = Arrive(info[mem].stes, info[mem].entries, k)
    BY <1>4, <1>7
  <2>3. PICK old, n : old = info[mem].stes /\ n = info[mem].entries
    OBVIOUS
  <2>4. old \in Seq(SteSet) /\ n \in Nat /\ (n > 0 => old # <<>>) /\ new = Arrive(old, n, k)
    BY <2>1, <2>2, <2>3
  <2>5. Arrived(old, n, k, new)
    BY <2>4, ArriveFacts
  <2> QED BY <2>3, <2>5 DEF Arrived
<1>9. LevelsInv'
  <2>1. info'[mem].level = 0 /\ \A x \in Live : info'[x].recency < now_recency
    BY <1>1, <1>4
  <2>2. \A i \in Lev : \A x \in Held(disk[i]) : info'[x].level = i
    <3>1. \A i \in Lev : \A x \in Held(disk[i]) : x \in Live /\ info[x].level = i
      BY <1>4 DEF PlacesInv, LevelsInv
    <3> QED BY <1>4, <3>1
  <2>3. ASSUME NEW x \in Live, NEW j \in DOMAIN info'[x].stes
        PROVE  /\ info'[x].stes[j].twice = {}
               /\ info'[x].stes[j].copied => x # mem /\ info'[x].stes[j].level <= info'[x].level
    <3>1. CASE x = mem
      <4>1. j \in DOMAIN new
        BY <1>7, <2>3, <3>1
      <4>2. \A i \in DOMAIN info[mem].stes : info[mem].stes[i].twice = {} /\ ~info[mem].stes[i].copied
        BY <1>1 DEF LevelsInv
      <4>3. new[j].twice = {} /\ ~new[j].copied
        BY <1>5, <1>8, <4>1, <4>2
      <4> QED BY <1>7, <3>1, <4>3
    <3>2. CASE x # mem
      <4>1. info'[x].stes = info[x].stes /\ info'[x].level = info[x].level
        BY <1>4, <3>2
      <4> QED BY <2>3, <4>1 DEF LevelsInv
    <3> QED BY <3>1, <3>2
  <2>4. mem' = mem /\ disk' = disk /\ now_recency' = now_recency
    BY <1>4
  <2> QED BY <1>4, <2>1, <2>2, <2>3, <2>4 DEF LevelsInv
<1>10. Checked' = Live /\ Checked = Live
  BY <1>4 DEF Checked
<1>11. ASSUME NEW x \in Live, NEW j \in DOMAIN info'[x].stes, NEW h \in info'[x].stes[j].lbas
       PROVE  /\ sc'[h] # None
              /\ sc'[h] # x => \/ Newer(info'[sc'[h]], info'[x])
                               \/ (info'[x].stes[j].copied /\ Newer(info'[sc'[h]], info'[x].stes[j]))
  <2>1. \A y, z \in Live : Newer(info[y], info[z]) => Newer(info'[y], info'[z])
    BY <1>4 DEF Newer
  <2>2. CASE x = mem
    <3>1. j \in DOMAIN new /\ h \in new[j].lbas
      BY <1>7, <1>11, <2>2
    <3>2. CASE h = k
      BY <1>4, <1>6, <2>2, <3>2
    <3>3. CASE h # k
      <4>1. j \in DOMAIN info[mem].stes /\ h \in info[mem].stes[j].lbas
        BY <1>8, <3>1, <3>3
      <4>2. info[mem].stes[j] \in SteSet /\ ~info[mem].stes[j].copied
        BY <1>1, <1>4, <4>1, RunTyped DEF LevelsInv
      <4>3. h \in Lba
        BY <4>1, <4>2, SteBounds
      <4>4. sc[h] # None /\ (sc[h] # mem => Older(mem, info[mem].stes[j], h))
        BY <1>1, <1>10, <4>1 DEF CopiesInv
      <4>5. sc[h] \in Live
        BY <1>4, <4>3, <4>4 DEF NamesInv, NamesLive
      <4>6. sc[h] = mem
        BY <1>2, <4>2, <4>4, <4>5 DEF Older
      <4> QED BY <1>4, <1>6, <2>2, <3>3, <4>3, <4>6
    <3> QED BY <3>2, <3>3
  <2>3. CASE x # mem
    <3>1. info'[x].stes = info[x].stes /\ j \in DOMAIN info[x].stes /\ h \in info[x].stes[j].lbas
      BY <1>4, <1>11, <2>3
    <3>2. h \in Lba
      BY <1>4, <3>1, RunTyped, SteBounds
    <3>3. CASE h = k
      <4>1. Newer(info[mem], info[x])
        BY <1>1, <2>3 DEF Newer
      <4> QED BY <1>1, <1>4, <1>6, <2>1, <3>2, <3>3, <4>1
    <3>4. CASE h # k
      <4>1. sc'[h] = sc[h] /\ sc[h] # None /\ (sc[h] # x => Older(x, info[x].stes[j], h))
        BY <1>6, <1>10, <3>1, <3>2, <3>4 DEF CopiesInv
      <4>2. sc[h] \in Live
        BY <1>4, <3>2, <4>1 DEF NamesInv, NamesLive
      <4>3. \A b : Newer(info[sc[h]], b) => Newer(info'[sc[h]], b)
        BY <1>4, <4>2 DEF Newer
      <4> QED BY <2>1, <3>1, <4>1, <4>2, <4>3 DEF Older
    <3> QED BY <3>3, <3>4
  <2> QED BY <2>2, <2>3
<1>12. ASSUME NEW h \in written \cup {k} PROVE h \in info'[sc'[h]].fresh
  <2>1. CASE h = k
    BY <1>4, <1>6, <2>1
  <2>2. CASE h # k
    <3>1. h \in Lba /\ sc[h] # None /\ h \in info[sc[h]].fresh
      BY <1>4, <1>12, <2>2 DEF TypeOK, NamesInv, CopiesInv
    <3>2. sc'[h] = sc[h] /\ sc[h] \in Live
      BY <1>4, <1>6, <2>2, <3>1 DEF NamesInv, NamesLive
    <3> QED BY <1>4, <2>2, <3>1, <3>2
  <2> QED BY <2>1, <2>2
<1>13. CopiesInv'
  <2>1. Checked' = Live /\ written' = written \cup {k}
    BY <1>4, <1>10
  <2> QED BY <1>11, <1>12, <2>1 DEF CopiesInv, Older
<1> QED BY <1>9, <1>13

LEMMA LatestInit == ASSUME Init PROVE LevelsInv /\ CopiesInv
<1>1. BooksInv
  BY BooksInit
<1>2. /\ mem = 0 /\ written = {} /\ now_recency = 1 /\ 0 \in Idx
      /\ info = [x \in Idx |-> IF x = 0 THEN NewMem(0) ELSE None]
      /\ disk = [i \in Lev |-> LevelInit(i)]
  BY <1>1 DEF Init, BooksInv, TypeOK
<1>3. Live \subseteq {0} /\ info[0] = NewMem(0)
  BY <1>2 DEF Live
<1>4. info[0].level = 0 /\ info[0].recency = 0 /\ DOMAIN info[0].stes = {}
  BY <1>3 DEF NewMem
<1>5. \A i \in Lev : Held(disk[i]) = {}
  BY <1>2, EmptyLevel
<1>6. LevelsInv
  BY <1>2, <1>3, <1>4, <1>5 DEF LevelsInv
<1>7. CopiesInv
  BY <1>2, <1>3, <1>4 DEF CopiesInv, Checked
<1> QED BY <1>6, <1>7

LEMMA LatestStep ==
    ASSUME Plain, BooksInv, LevelsInv, CopiesInv, [Next]_vars
    PROVE  LevelsInv' /\ CopiesInv'
<1>1. ASSUME NEW k \in Lba, Insert(k) PROVE LevelsInv' /\ CopiesInv'
  BY <1>1, InsertLatest
<1>2. CASE Flush
  BY <1>2, FlushLatest
<1>3. CASE CompactUpper
  BY <1>3, CompactUpperLatest
<1>4. CASE CompactLast
  BY <1>4, CompactLastLatest
<1>5. CASE CompactDone
  BY <1>5, CompactDoneLatest
<1>6. CASE ForceRewrite
  <2>1. forced \in Nat /\ forced < 0
    BY <1>6 DEF ForceRewrite, BooksInv, TypeOK, Plain
  <2> QED BY <2>1
<1>7. CASE FinishFlush
  BY <1>7, FinishFlushLatest
<1>8. CASE UNCHANGED vars
  <2>1. /\ sc' = sc /\ info' = info /\ now_recency' = now_recency /\ mem' = mem
        /\ disk' = disk /\ pc' = pc /\ written' = written
    BY <1>8 DEF vars
  <2>2. Live' = Live /\ Checked' = Checked
    BY <2>1 DEF Live, Checked
  <2> QED BY <2>1, <2>2 DEF LevelsInv, CopiesInv, Older
<1> QED BY <1>1, <1>2, <1>3, <1>4, <1>5, <1>6, <1>7, <1>8 DEF Next

(* The property from the invariants.                                       *)
LEMMA Latest == ASSUME BooksInv, CopiesInv PROVE LatestOnly
<1>1. TypeOK /\ NamesInv /\ NamesLive
  BY DEF BooksInv, NamesInv
<1>2. ReadsLatest
  <2> SUFFICES ASSUME NEW k \in written
               PROVE  /\ sc[k] # None /\ info[sc[k]] # None /\ k \in LbasOf(sc[k]) /\ k \in info[sc[k]].fresh
    BY DEF ReadsLatest
  <2>1. k \in Lba /\ sc[k] # None /\ k \in info[sc[k]].fresh
    BY <1>1 DEF TypeOK, NamesInv, CopiesInv
  <2>2. sc[k] \in Live /\ k \in LbasOf(sc[k])
    BY <1>1, <2>1 DEF NamesLive
  <2> QED BY <2>1, <2>2 DEF Live
<1>3. StaleCopiesRefused
  <2> SUFFICES ASSUME NEW x \in Checked, NEW j \in DOMAIN info[x].stes, NEW k \in info[x].stes[j].lbas, sc[k] # x
               PROVE  ~EntryValid(x, info[x].stes[j], k)
    BY DEF StaleCopiesRefused, Checked
  <2>1. sc[k] # None /\ Older(x, info[x].stes[j], k)
    BY DEF CopiesInv
  <2> QED BY <2>1, OlderRefused
<1> QED BY <1>2, <1>3 DEF LatestOnly

(***************************************************************************)
(* Reads through the shortcut table find the last copy of every block that *)
(* was written, and __pick_smallest_pair refuses every other copy a merge  *)
(* meets, for any number of blocks, levels, runs and STE size: trivial     *)
(* moves carry stale entries along, and the level and recency they are     *)
(* flagged with keep them recognisable.  LatestOnly is about the plain     *)
(* loads, and that is where the code really loses it otherwise: no         *)
(* reconstruction is forced (the run it creates gets the level number of   *)
(* the level above), and the host does not write a block again within one  *)
(* STE of the memtable (a lookup in a moved STE finds the older copy).     *)
(***************************************************************************)
THEOREM LatestAlwaysRead == Spec => []LatestOnly
<1> DEFINE Inv == BooksInv /\ (Plain => LevelsInv /\ CopiesInv)
<1>1. Init => Inv
  BY BooksInit, LatestInit
<1>2. Inv /\ [Next]_vars => Inv'
  <2> SUFFICES ASSUME Inv, [Next]_vars PROVE Inv'
    OBVIOUS
  <2>1. BooksInv'
    BY BooksStep
  <2>2. load' = load
    BY DEF Next, vars
  <2>3. Plain' => Plain
    BY <2>2 DEF Plain
  <2>4. ASSUME Plain' PROVE LevelsInv' /\ CopiesInv'
    BY <2>3, <2>4, LatestStep
  <2> QED BY <2>1, <2>4
<1>3. Inv => LatestOnly
  <2>1. ASSUME Inv, Plain PROVE LatestOnly
    BY <2>1, Latest
  <2> QED BY <2>1 DEF LatestOnly
<1> QED BY <1>1, <1>2, <1>3, PTL DEF Spec

=============================================================================
