------------------------ MODULE BlockFrontEndProofs ------------------------
(***************************************************************************)
(* A theorem about what a reader is given, for every value of the          *)
(* constants: by the block device front end, and, with the invariants of   *)
(* DeviceProofs, by the parallel unit manager and the slabs.               *)
(***************************************************************************)
EXTENDS DeviceProofs, FunctionTheorems

-----------------------------------------------------------------------------
(* The block device front end.                                             *)

FrontOp == {"R", "W", "D"}
FrontContents == [Front!Lba -> Nat \cup {Front!NoVer}]
SlotRecord == [op : FrontOp, pos : Nat, len : Nat, send : BOOLEAN, recv : BOOLEAN,
               buf : FrontContents, floor : FrontContents]
VecRecord == [slot : Front!Slot, op : FrontOp, pos : Nat, len : Nat \ {0}, ver : [Front!Lba -> Nat \ {0}]]
Buffers == [index : {0, 1}, at : [{0, 1} -> FrontContents], job : {"none", "queued", "running"}, waiting : BOOLEAN]
Disks == [scanned : [Front!Lba -> Nat], acked : [Front!Lba -> Nat], ftl : [Front!Lba -> Nat]]
Flying == [r : VecRecord, b : Front!Lba, ver : Nat]
FrontTypeOK ==
    /\ gwb \in BOOLEAN /\ done \in Nat
    /\ slot \in [Front!Slot -> SlotRecord] /\ \A i \in Front!Slot : slot[i].pos + slot[i].len <= Blocks
    /\ \A i \in Front!Slot : slot[i].send => slot[i].len # 0
    /\ scan \in [order : Seq(Front!Slot), previous : Front!Slot, arr : Seq(VecRecord)]
    /\ reqq \in Seq(VecRecord)
    /\ flight \subseteq Flying /\ IsFiniteSet(flight)
    /\ buffer \in Buffers /\ disk \in Disks

\* The requests the main thread has not finished, and the blocks of each still
\* to be done.
InLine == reqq \o scan.arr
Pending(n, b) == b \in Front!Pages(InLine[n]) /\ (n = 1 => b >= InLine[1].pos + done)
Writes(n, b) == InLine[n].op # "R" /\ b \in Front!Pages(InLine[n])

\* What was written last to a block.
Newest(b) ==
    LET new == buffer.at[buffer.index][b]
        old == buffer.at[1 - buffer.index][b]
    IN IF new # Front!NoVer THEN new ELSE IF old # Front!NoVer THEN old ELSE disk.ftl[b]

FrontLine ==
    /\ \A n \in DOMAIN InLine : InLine[n].pos + InLine[n].len <= Blocks
    /\ IF reqq = <<>> THEN done = 0 ELSE done < Head(reqq).len
    /\ \A f \in flight : f.b \in Front!Pages(f.r)

FrontSlots ==
    /\ Distinct(scan.order)
    /\ \A n \in DOMAIN scan.order : slot[scan.order[n]].send
    /\ \A i \in Front!Slot : slot[i].send => ~slot[i].recv
    /\ \A b \in Front!Lba : disk.acked[b] <= disk.scanned[b]
    /\ \A i \in Front!Slot : slot[i].op = "R" => \A b \in Front!Lba : slot[i].floor[b] <= disk.scanned[b]

FrontBuffers ==
    /\ buffer.job = "none" => \A b \in Front!Lba : buffer.at[1 - buffer.index][b] = Front!NoVer
    /\ ~gwb => /\ buffer.job = "none" /\ ~buffer.waiting
               /\ \A n \in {0, 1} : \A b \in Front!Lba : buffer.at[n][b] = Front!NoVer

\* The writes of a block that are still to be done bring it, one by one and in
\* order, from what was written last to what was scanned last.
FrontVersions ==
    \A b \in Front!Lba :
        /\ \A n \in DOMAIN InLine :
             /\ InLine[n].ver[b] <= disk.scanned[b] + 1
             /\ Writes(n, b) => InLine[n].ver[b] <= disk.scanned[b]
             /\ Writes(n, b) /\ Pending(n, b) => InLine[n].ver[b] > Newest(b)
        /\ \A m, n \in DOMAIN InLine : m < n =>
             /\ InLine[m].ver[b] <= InLine[n].ver[b]
             /\ Writes(m, b) => InLine[m].ver[b] < InLine[n].ver[b]
        /\ Newest(b) <= disk.scanned[b]
        /\ \A v \in Nat : Newest(b) < v /\ v <= disk.scanned[b] =>
             \E n \in DOMAIN InLine : Writes(n, b) /\ Pending(n, b) /\ InLine[n].ver[b] = v

\* A read in progress is of its slot as that is, and the only one of the slot.
ReadOf(r, i) == r.op = "R" /\ r.slot = i
FrontReads ==
    \A i \in Front!Slot :
        /\ \A r \in Elems(InLine) \cup {f.r : f \in flight} : ReadOf(r, i) =>
             /\ slot[i].op = "R" /\ ~slot[i].send /\ ~slot[i].recv
             /\ r.pos = slot[i].pos /\ r.len = slot[i].len
             /\ \A b \in Front!Lba : slot[i].floor[b] < r.ver[b]
        /\ \A m, n \in DOMAIN InLine : ReadOf(InLine[m], i) /\ ReadOf(InLine[n], i) => m = n
        /\ \A f \in flight : \A n \in DOMAIN InLine : ReadOf(f.r, i) /\ ReadOf(InLine[n], i) =>
             n = 1 /\ InLine[1] = f.r /\ f.b < InLine[1].pos + done
        /\ \A f, g \in flight : ReadOf(f.r, i) /\ ReadOf(g.r, i) => f.r = g.r

\* Each block of a read is still to be asked for, on its way, or in its slot, and
\* no older than the floor.
FrontBlocks ==
    ~gwb =>
        /\ \A f \in flight : f.r.op = "R" => f.ver >= slot[f.r.slot].floor[f.b]
        /\ \A i \in Front!Slot : slot[i].op = "R" /\ ~slot[i].send =>
             \A b \in Front!Pages(slot[i]) :
                \/ \E n \in DOMAIN InLine : ReadOf(InLine[n], i) /\ Pending(n, b)
                \/ \E f \in flight : ReadOf(f.r, i) /\ f.b = b
                \/ slot[i].buf[b] >= slot[i].floor[b]

FrontInv ==
    FrontTypeOK /\ FrontLine /\ FrontSlots /\ FrontBuffers /\ FrontVersions /\ FrontReads /\ FrontBlocks

-----------------------------------------------------------------------------
(* Queues one after the other.                                             *)

LEMMA ChainAppend ==
    ASSUME NEW S, NEW s \in Seq(S), NEW t \in Seq(S), NEW e \in S
    PROVE  s \o Append(t, e) = Append(s \o t, e)
<1>1. Len(s) \in Nat /\ Len(t) \in Nat
  BY LenProperties
<1>2. Append(t, e) \in Seq(S) /\ Len(Append(t, e)) = Len(t) + 1 /\ Append(t, e)[Len(t) + 1] = e
      /\ \A i \in 1 .. Len(t) : Append(t, e)[i] = t[i]
  BY AppendProperties
<1>3. s \o t \in Seq(S) /\ Len(s \o t) = Len(s) + Len(t)
      /\ \A i \in 1 .. Len(s) + Len(t) : (s \o t)[i] = IF i <= Len(s) THEN s[i] ELSE t[i - Len(s)]
  BY ConcatProperties
<1>4. /\ s \o Append(t, e) \in Seq(S) /\ Len(s \o Append(t, e)) = Len(s) + (Len(t) + 1)
      /\ \A i \in 1 .. Len(s) + (Len(t) + 1) :
            (s \o Append(t, e))[i] = IF i <= Len(s) THEN s[i] ELSE Append(t, e)[i - Len(s)]
  BY <1>2, ConcatProperties
<1>5. /\ Append(s \o t, e) \in Seq(S) /\ Len(Append(s \o t, e)) = Len(s \o t) + 1
      /\ Append(s \o t, e)[Len(s \o t) + 1] = e
      /\ \A i \in 1 .. Len(s \o t) : Append(s \o t, e)[i] = (s \o t)[i]
  BY <1>3, AppendProperties
<1>6. ASSUME NEW i \in 1 .. Len(s) + (Len(t) + 1)
      PROVE  (s \o Append(t, e))[i] = Append(s \o t, e)[i]
  <2>1. CASE i = Len(s) + Len(t) + 1
    BY <1>1, <1>2, <1>3, <1>4, <1>5, <2>1
  <2>2. CASE i <= Len(s)
    BY <1>1, <1>2, <1>3, <1>4, <1>5, <2>2
  <2>3. CASE i > Len(s) /\ i # Len(s) + Len(t) + 1
    <3>1. i - Len(s) \in 1 .. Len(t) /\ i \in 1 .. Len(s) + Len(t)
      BY <1>1, <2>3
    <3> QED  BY <1>1, <1>2, <1>3, <1>4, <1>5, <2>3, <3>1
  <2> QED  BY <1>1, <2>1, <2>2, <2>3
<1> QED  BY <1>1, <1>3, <1>4, <1>5, <1>6, SeqEqual

LEMMA ChainMove ==
    ASSUME NEW S, NEW s \in Seq(S), NEW t \in Seq(S), t # <<>>
    PROVE  Append(s, Head(t)) \o Tail(t) = s \o t
<1>1. Len(s) \in Nat /\ Len(t) \in Nat /\ Len(t) > 0
  BY LenProperties, EmptySeq
<1>2. Tail(t) \in Seq(S) /\ Len(Tail(t)) = Len(t) - 1 /\ Head(t) = t[1] /\ Head(t) \in S
      /\ \A i \in 1 .. Len(t) - 1 : Tail(t)[i] = t[i + 1]
  BY HeadTailProperties
<1>3. s \o t \in Seq(S) /\ Len(s \o t) = Len(s) + Len(t)
      /\ \A i \in 1 .. Len(s) + Len(t) : (s \o t)[i] = IF i <= Len(s) THEN s[i] ELSE t[i - Len(s)]
  BY ConcatProperties
<1> DEFINE a == Append(s, Head(t))
           u == Tail(t)
<1>4. a \in Seq(S) /\ Len(a) = Len(s) + 1 /\ a[Len(s) + 1] = Head(t) /\ \A i \in 1 .. Len(s) : a[i] = s[i]
  BY <1>2, AppendProperties
<1>5. u \in Seq(S) /\ Len(u) = Len(t) - 1 /\ \A i \in 1 .. Len(t) - 1 : u[i] = t[i + 1]
  BY <1>2
<1> HIDE DEF a, u
<1>6. a \o u \in Seq(S) /\ Len(a \o u) = Len(a) + Len(u)
      /\ \A i \in 1 .. Len(a) + Len(u) : (a \o u)[i] = IF i <= Len(a) THEN a[i] ELSE u[i - Len(a)]
  BY <1>4, <1>5, ConcatProperties
<1>7. ASSUME NEW i \in 1 .. Len(s) + Len(t) PROVE (a \o u)[i] = (s \o t)[i]
  <2>0. i \in 1 .. Len(a) + Len(u)
    BY <1>1, <1>4, <1>5
  <2>1. CASE i <= Len(s)
    BY <1>1, <1>3, <1>4, <1>6, <2>0, <2>1
  <2>2. CASE i = Len(s) + 1
    BY <1>1, <1>2, <1>3, <1>4, <1>6, <2>0, <2>2
  <2>3. CASE i > Len(s) + 1
    <3>1. i - Len(a) \in 1 .. Len(t) - 1 /\ i - Len(a) + 1 = i - Len(s) /\ ~(i <= Len(a)) /\ ~(i <= Len(s))
      BY <1>1, <1>4, <2>3
    <3>2. (a \o u)[i] = u[i - Len(a)]
      BY <1>6, <2>0, <3>1
    <3>3. u[i - Len(a)] = t[i - Len(s)]
      BY <1>5, <3>1
    <3> QED  BY <1>3, <3>1, <3>2, <3>3
  <2>4. i <= Len(s) \/ i = Len(s) + 1 \/ i > Len(s) + 1
    BY <1>1
  <2> QED  BY <2>1, <2>2, <2>3, <2>4, Zenon
<1>8. Len(a \o u) = Len(s \o t) /\ Len(s \o t) = Len(s) + Len(t)
  BY <1>1, <1>3, <1>4, <1>5, <1>6
<1>9. a \o u = s \o t
  <2> DEFINE c == a \o u
             d == s \o t
  <2>1. c \in Seq(S) /\ d \in Seq(S) /\ Len(c) = Len(d)
    BY <1>3, <1>6, <1>8
  <2>2. \A i \in 1 .. Len(c) : c[i] = d[i]
    BY <1>7, <1>8
  <2> HIDE DEF c, d
  <2>3. c = d
    BY <2>1, <2>2, SeqEqual
  <2> QED  BY <2>3 DEF c, d
<1> QED  BY <1>9 DEF a, u

LEMMA ChainTail ==
    ASSUME NEW S, NEW s \in Seq(S), NEW t \in Seq(S), s # <<>>
    PROVE  Tail(s) \o t = Tail(s \o t) /\ (s \o t)[1] = Head(s) /\ s \o t # <<>>
<1>1. Len(s) \in Nat /\ Len(t) \in Nat /\ Len(s) > 0
  BY LenProperties, EmptySeq
<1>2. Tail(s) \in Seq(S) /\ Len(Tail(s)) = Len(s) - 1 /\ Head(s) = s[1] /\ Head(s) \in S
      /\ \A i \in 1 .. Len(s) - 1 : Tail(s)[i] = s[i + 1]
  BY HeadTailProperties
<1> DEFINE c == s \o t
           u == Tail(s)
<1>3. c \in Seq(S) /\ Len(c) = Len(s) + Len(t)
      /\ \A i \in 1 .. Len(s) + Len(t) : c[i] = IF i <= Len(s) THEN s[i] ELSE t[i - Len(s)]
  BY ConcatProperties
<1>4. u \in Seq(S) /\ Len(u) = Len(s) - 1 /\ \A i \in 1 .. Len(s) - 1 : u[i] = s[i + 1]
  BY <1>2
<1> HIDE DEF u, c
<1>5. c # <<>> /\ c[1] = Head(s)
  BY <1>1, <1>2, <1>3, EmptySeq
<1>6. Tail(c) \in Seq(S) /\ Len(Tail(c)) = Len(c) - 1 /\ \A i \in 1 .. Len(c) - 1 : Tail(c)[i] = c[i + 1]
  BY <1>3, <1>5, HeadTailProperties
<1>7. u \o t \in Seq(S) /\ Len(u \o t) = Len(u) + Len(t)
      /\ \A i \in 1 .. Len(u) + Len(t) : (u \o t)[i] = IF i <= Len(u) THEN u[i] ELSE t[i - Len(u)]
  BY <1>4, ConcatProperties
<1>8. Len(u \o t) = Len(Tail(c)) /\ Len(u \o t) = Len(s) + Len(t) - 1
  BY <1>1, <1>3, <1>4, <1>6, <1>7
<1>9. ASSUME NEW i \in 1 .. Len(u \o t) PROVE (u \o t)[i] = Tail(c)[i]
  <2>0. i \in 1 .. Len(u) + Len(t) /\ i \in 1 .. Len(c) - 1 /\ i + 1 \in 1 .. Len(s) + Len(t)
    BY <1>1, <1>3, <1>4, <1>8
  <2>1. CASE i <= Len(u)
    BY <1>1, <1>3, <1>4, <1>6, <1>7, <2>0, <2>1
  <2>2. CASE i > Len(u)
    <3>1. i - Len(u) = i + 1 - Len(s) /\ ~(i + 1 <= Len(s)) /\ ~(i <= Len(u))
      BY <1>1, <1>4, <2>2
    <3> QED  BY <1>3, <1>6, <1>7, <2>0, <3>1
  <2>3. i <= Len(u) \/ i > Len(u)
    BY <1>1, <1>4, <2>0
  <2> QED  BY <2>1, <2>2, <2>3, Zenon
<1>10. u \o t = Tail(c)
  <2> DEFINE d == u \o t
             e == Tail(c)
  <2>1. d \in Seq(S) /\ e \in Seq(S) /\ Len(d) = Len(e)
    BY <1>6, <1>7, <1>8
  <2>2. \A i \in 1 .. Len(d) : d[i] = e[i]
    BY <1>9
  <2> HIDE DEF d, e
  <2>3. d = e
    BY <2>1, <2>2, SeqEqual
  <2> QED  BY <2>3 DEF d, e
<1> QED  BY <1>5, <1>10 DEF u, c

-----------------------------------------------------------------------------
(* The scan.                                                               *)

LEMMA LeastIn ==
    ASSUME NEW R, IsWellFoundedOn(R, Nat), \A x, y \in Nat : y < x => <<y, x>> \in R,
           NEW T, T \subseteq Nat, T # {}
    PROVE  \E x \in T : \A y \in T : x <= y
<1>1. PICK x \in T : \A y \in T : ~(<<y, x>> \in R)
  BY WFMin, Zenon
<1>2. \A y \in T : x \in Nat /\ y \in Nat /\ ~(y < x)
  BY <1>1
<1>3. \A y \in T : x <= y
  BY <1>2
<1> QED  BY <1>3

LEMMA Less == \A x, y \in Nat : y < x => <<y, x>> \in OpToRel(<, Nat)
BY DEF OpToRel

LEMMA Least ==
    ASSUME NEW T, T \subseteq Nat, T # {}
    PROVE  \E x \in T : \A y \in T : x <= y
BY LeastIn, Less, NatLessThanWellFounded, Zenon

LEMMA FrontOperators ==
    /\ \A s : Front!ToSet(s) = Elems(s)
    /\ \A S : Front!Cardinality(S) = Cardinality(S)
    /\ \A T : T \subseteq Nat /\ T # {} => Front!Min(T) \in T
    /\ Front!NoVer = -1
<1>1. \A s : Front!ToSet(s) = Elems(s)
  BY DEF Front!ToSet, Elems
<1>2. \A S : Front!Cardinality(S) = Cardinality(S)
  BY DEF Front!Cardinality, Cardinality
<1>3. ASSUME NEW T, T \subseteq Nat /\ T # {} PROVE Front!Min(T) \in T
  <2>1. \E x \in T : \A y \in T : x <= y
    BY <1>3, Least
  <2> QED  BY <2>1 DEF Front!Min
<1>4. Front!NoVer = -1
  BY DEF Front!NoVer
<1> QED  BY <1>1, <1>2, <1>3, <1>4

LEMMA Turns ==
    ASSUME scan.previous \in Front!Slot
    PROVE  /\ \A i \in Front!Slot : Front!Turn(i) \in Nat
           /\ \A S \in SUBSET Front!Slot : S # {} => Front!FirstOf(S) \in S
<1>1. Slots \in Nat \ {0} /\ Front!Slot \subseteq Nat
  BY FrontAssumption DEF Front!Slot
<1>2. ASSUME NEW i \in Front!Slot PROVE Front!Turn(i) \in Nat
  <2>0. i \in Nat /\ scan.previous \in Nat /\ Slots \in Nat
    BY <1>1
  <2>1. PICK x \in Int : x = i + Slots - scan.previous
    <3>1. i + Slots - scan.previous \in Int
      BY <2>0
    <3> QED  BY <3>1
  <2>2. x % Slots \in 0 .. Slots - 1
    BY <1>1
  <2>3. x % Slots \in Nat
    BY <1>1, <2>2
  <2> QED  BY <2>1, <2>3 DEF Front!Turn
<1>3. ASSUME NEW S \in SUBSET Front!Slot, S # {} PROVE Front!FirstOf(S) \in S
  <2> DEFINE T == {Front!Turn(i) : i \in S}
  <2>1. T \subseteq Nat /\ T # {}
    BY <1>2, <1>3
  <2>2. PICK x \in T : \A y \in T : x <= y
    BY <2>1, Least
  <2>3. \E i \in S : \A j \in S : Front!Turn(i) <= Front!Turn(j)
    BY <2>2
  <2> QED  BY <2>3 DEF Front!FirstOf
<1> QED  BY <1>2, <1>3

LEMMA Scanned ==
    ASSUME scan.previous \in Front!Slot, NEW S \in SUBSET Front!Slot, NEW q \in Front!ByTurn(S)
    PROVE  q \in Seq(Front!Slot) /\ Distinct(q) /\ \A n \in DOMAIN q : q[n] \in S
<1>1. IsFiniteSet(Front!Slot)
  BY FrontAssumption, FS_Interval DEF Front!Slot
<1>2. IsFiniteSet(S)
  BY <1>1, FS_Subset
<1>3. Cardinality(S) \in Nat
  BY <1>2, FS_CardinalityType
<1>4. /\ q \in [1 .. Cardinality(S) -> S]
      /\ \A m, n \in 1 .. Cardinality(S) : m < n => Front!Turn(q[m]) < Front!Turn(q[n])
  BY FrontOperators DEF Front!ByTurn
<1>5. q \in [1 .. Cardinality(S) -> Front!Slot]
  BY <1>4
<1>6. q \in Seq(Front!Slot)
  BY <1>3, <1>5, SeqDef
<1>7. \A m, n \in 1 .. Cardinality(S) : m < n => q[m] # q[n]
  <2>1. \A m \in 1 .. Cardinality(S) : Front!Turn(q[m]) \in Nat
    BY <1>5, Turns
  <2> QED  BY <1>4, <2>1
<1>8. Distinct(q)
  BY <1>3, <1>4, <1>7 DEF Distinct
<1> QED  BY <1>4, <1>6, <1>8

LEMMA NextPreviousIn ==
    ASSUME scan.previous \in Front!Slot, NEW S \in SUBSET Front!Slot
    PROVE  Front!NextPrevious(S) \in Front!Slot
<1>1. Slots \in Nat \ {0} /\ 0 \in Front!Slot /\ Slots - 1 \in Front!Slot
  BY FrontAssumption DEF Front!Slot
<1>2. Front!Slot \ S # {} => Front!FirstOf(Front!Slot \ S) \in Front!Slot
  BY Turns
<1> QED  BY <1>1, <1>2 DEF Front!NextPrevious

-----------------------------------------------------------------------------
(* Steps that leave the line and the newest versions as they are.          *)

LEMMA FrontFacts ==
    ASSUME FrontTypeOK
    PROVE  /\ InLine \in Seq(VecRecord) /\ Len(InLine) \in Nat /\ DOMAIN InLine = 1 .. Len(InLine)
           /\ \A n \in DOMAIN InLine : InLine[n] \in VecRecord
           /\ Elems(InLine) = Elems(reqq) \cup Elems(scan.arr)
           /\ reqq # <<>> => InLine # <<>> /\ InLine[1] = Head(reqq) /\ Head(reqq) \in VecRecord
           /\ \A b \in Front!Lba : Newest(b) \in Nat
           /\ Front!Lba \subseteq Nat /\ Front!Slot \subseteq Nat /\ Blocks \in Nat
<1>1. reqq \in Seq(VecRecord) /\ scan.arr \in Seq(VecRecord)
  BY DEF FrontTypeOK, Disks, Buffers
<1>2. InLine \in Seq(VecRecord) /\ Elems(InLine) = Elems(reqq) \cup Elems(scan.arr)
  BY <1>1, Chained DEF InLine
<1>3. Len(InLine) \in Nat /\ DOMAIN InLine = 1 .. Len(InLine)
  BY <1>2, LenProperties
<1>4. \A n \in DOMAIN InLine : InLine[n] \in VecRecord
  BY <1>2, <1>3, ElementOfSeq
<1>5. reqq # <<>> => InLine # <<>> /\ InLine[1] = Head(reqq) /\ Head(reqq) \in VecRecord
  BY <1>1, ChainTail, HeadTailProperties DEF InLine
<1>6. ASSUME NEW b \in Front!Lba PROVE Newest(b) \in Nat
  <2>1. buffer.index \in {0, 1} /\ buffer.at \in [{0, 1} -> FrontContents] /\ disk.ftl \in [Front!Lba -> Nat]
    BY DEF FrontTypeOK, Disks, Buffers
  <2>2. 1 - buffer.index \in {0, 1}
    BY <2>1
  <2>3. buffer.at[buffer.index] \in FrontContents /\ buffer.at[1 - buffer.index] \in FrontContents
    BY <2>1, <2>2
  <2>4. /\ buffer.at[buffer.index][b] \in Nat \cup {Front!NoVer}
        /\ buffer.at[1 - buffer.index][b] \in Nat \cup {Front!NoVer} /\ disk.ftl[b] \in Nat
    BY <2>1, <2>3 DEF FrontContents
  <2> QED  BY <2>4 DEF Newest
<1>7. Front!Lba \subseteq Nat /\ Front!Slot \subseteq Nat /\ Blocks \in Nat
  BY FrontAssumption DEF Front!Lba, Front!Slot
<1> QED  BY <1>2, <1>3, <1>4, <1>5, <1>6, <1>7

LEMMA SameLine ==
    ASSUME InLine' = InLine, done' = done
    PROVE  /\ \A n, b : Pending(n, b)' <=> Pending(n, b)
           /\ \A n, b : Writes(n, b)' <=> Writes(n, b)
BY DEF Pending, Writes, Front!Pages

LEMMA VersionsKept ==
    ASSUME FrontVersions, InLine' = InLine, done' = done, disk'.scanned = disk.scanned,
           \A b \in Front!Lba : Newest(b)' = Newest(b)
    PROVE  FrontVersions'
BY SameLine DEF FrontVersions

LEMMA ReadsKept ==
    ASSUME FrontReads, InLine' = InLine, done' = done, flight' = flight, slot' = slot
    PROVE  FrontReads'
BY DEF FrontReads, ReadOf, Elems

LEMMA BlocksKept ==
    ASSUME FrontBlocks, InLine' = InLine, done' = done, flight' = flight, slot' = slot, gwb' = gwb
    PROVE  FrontBlocks'
<1>1. \A n, b : Pending(n, b)' <=> Pending(n, b)
  BY SameLine
<1> QED  BY <1>1 DEF FrontBlocks, ReadOf, Front!Pages

LEMMA FrontCalm ==
    ASSUME FrontInv, UNCHANGED <<gwb, slot, flight, done>>, InLine' = InLine,
           disk'.scanned = disk.scanned, disk'.acked = disk.acked, \A b \in Front!Lba : Newest(b)' = Newest(b),
           FrontTypeOK', FrontBuffers', reqq # <<>> => reqq' # <<>>,
           Distinct(scan.order)', \A n \in DOMAIN scan'.order : slot[scan'.order[n]].send
    PROVE  FrontInv'
<1>1. FrontVersions' /\ FrontReads' /\ FrontBlocks'
  BY VersionsKept, ReadsKept, BlocksKept DEF FrontInv
<1>2. FrontSlots'
  BY DEF FrontInv, FrontSlots
<1>3. FrontLine'
  <2>1. \A n \in DOMAIN InLine : InLine[n].pos + InLine[n].len <= Blocks
    BY DEF FrontInv, FrontLine
  <2>2. reqq # <<>> => Head(reqq) = InLine[1] /\ InLine # <<>>
    BY FrontFacts DEF FrontInv
  <2>3. reqq' # <<>> => Head(reqq') = InLine[1] /\ InLine # <<>> /\ Head(reqq') \in VecRecord
    <3>1. reqq' \in Seq(VecRecord) /\ scan'.arr \in Seq(VecRecord)
      BY DEF FrontTypeOK, Disks, Buffers
    <3>2. InLine' = reqq' \o scan'.arr
      BY DEF InLine
    <3>3. reqq' # <<>> => Head(reqq') \in VecRecord
      BY <3>1, HeadTailProperties
    <3> QED  BY <3>1, <3>2, <3>3, ChainTail
  <2>4. /\ IF reqq = <<>> THEN done = 0 ELSE done < Head(reqq).len
        /\ \A f \in flight' : f.b \in Front!Pages(f.r)'
    BY DEF FrontInv, FrontLine, Front!Pages
  <2>5. CASE reqq = <<>>
    <3>1. reqq' # <<>> => Head(reqq').len > 0 /\ Head(reqq').len \in Nat
      BY <2>3 DEF VecRecord
    <3> QED  BY <2>1, <2>4, <2>5, <3>1 DEF FrontLine, Front!Pages
  <2>6. CASE reqq # <<>>
    <3>1. Head(reqq') = Head(reqq) /\ reqq' # <<>>
      BY <2>2, <2>3, <2>6
    <3> QED  BY <2>1, <2>4, <2>6, <3>1 DEF FrontLine, Front!Pages
  <2> QED  BY <2>5, <2>6
<1> QED  BY <1>1, <1>2, <1>3 DEF FrontInv

LEMMA FrontInit == ASSUME Front!InitFront PROVE FrontInv
<1>1. gwb \in BOOLEAN /\ Slots \in Nat \ {0} /\ Blocks \in Nat /\ 0 \in Front!Slot
  BY FrontAssumption DEF Front!InitFront, Front!Slot
<1>2. Front!Empty \in FrontContents /\ \A b \in Front!Lba : Front!Empty[b] = Front!NoVer
  BY DEF Front!Empty, FrontContents
<1>3. \A i \in Front!Slot : /\ slot[i] \in SlotRecord /\ slot[i].len = 0 /\ slot[i].pos = 0 /\ ~slot[i].send /\ slot[i].recv
                            /\ slot[i].floor = Front!Empty
  <2> DEFINE e == [op |-> "R", pos |-> 0, len |-> 0, send |-> FALSE, recv |-> TRUE,
                   buf |-> Front!Empty, floor |-> Front!Empty]
  <2>1. e \in SlotRecord
    BY <1>2 DEF SlotRecord, FrontOp
  <2>2. slot = [i \in Front!Slot |-> e]
    BY DEF Front!InitFront
  <2>3. e.len = 0 /\ e.pos = 0 /\ ~e.send /\ e.recv /\ e.floor = Front!Empty
    OBVIOUS
  <2> HIDE DEF e
  <2> QED  BY <2>1, <2>2, <2>3
<1>4. slot \in [Front!Slot -> SlotRecord]
  BY <1>3 DEF Front!InitFront
<1>5. /\ scan.order = <<>> /\ scan.previous = 0 /\ scan.arr = <<>> /\ reqq = <<>> /\ done = 0 /\ flight = {}
      /\ scan = [order |-> <<>>, previous |-> 0, arr |-> <<>>]
  BY DEF Front!InitFront
<1>6. scan \in [order : Seq(Front!Slot), previous : Front!Slot, arr : Seq(VecRecord)] /\ reqq \in Seq(VecRecord)
  BY <1>1, <1>5, EmptySeq
<1>7. /\ buffer.index = 0 /\ buffer.job = "none" /\ ~buffer.waiting
      /\ \A n \in {0, 1} : buffer.at[n] = Front!Empty
      /\ buffer \in [index : {0, 1}, at : [{0, 1} -> FrontContents], job : {"none", "queued", "running"}, waiting : BOOLEAN]
  BY <1>2 DEF Front!InitFront
<1>8. /\ disk \in [scanned : [Front!Lba -> Nat], acked : [Front!Lba -> Nat], ftl : [Front!Lba -> Nat]]
      /\ \A b \in Front!Lba : disk.scanned[b] = 0 /\ disk.acked[b] = 0 /\ disk.ftl[b] = 0
  BY DEF Front!InitFront
<1>9. FrontTypeOK
  <2>1. IsFiniteSet(flight)
    BY <1>5, FS_EmptySet
  <2> QED  BY <1>1, <1>3, <1>4, <1>5, <1>6, <1>7, <1>8, <2>1 DEF FrontTypeOK, Disks, Buffers
<1>10. InLine = <<>> /\ DOMAIN InLine = {} /\ Elems(InLine) = {}
  <2>1. InLine = <<>>
    BY <1>5, <1>6, ConcatEmptySeq DEF InLine
  <2> QED  BY <2>1 DEF Elems
<1>11. \A b \in Front!Lba : Newest(b) = 0
  <2>1. 1 - buffer.index \in {0, 1} /\ buffer.index \in {0, 1}
    BY <1>7
  <2> QED  BY <1>2, <1>7, <1>8, <2>1 DEF Newest
<1>12. FrontLine
  BY <1>5, <1>10 DEF FrontLine
<1>13. FrontSlots
  <2>1. Distinct(scan.order) /\ DOMAIN scan.order = {}
    BY <1>5 DEF Distinct
  <2>2. \A b \in Front!Lba : Front!Empty[b] <= 0
    BY <1>2, FrontOperators
  <2> QED  BY <1>3, <1>8, <2>1, <2>2 DEF FrontSlots
<1>14. FrontBuffers
  <2>1. 1 - buffer.index \in {0, 1}
    BY <1>7
  <2> QED  BY <1>2, <1>7, <2>1 DEF FrontBuffers
<1>15. FrontVersions
  BY <1>8, <1>10, <1>11 DEF FrontVersions
<1>16. FrontReads
  BY <1>5, <1>10 DEF FrontReads
<1>17. FrontBlocks
  <2>1. \A i \in Front!Slot : Front!Pages(slot[i]) = {}
    BY <1>3 DEF Front!Pages
  <2> QED  BY <1>5, <2>1 DEF FrontBlocks
<1> QED  BY <1>9, <1>12, <1>13, <1>14, <1>15, <1>16, <1>17 DEF FrontInv

LEMMA ScanInv == ASSUME FrontInv, Front!Scan PROVE FrontInv'
<1> DEFINE check == {i \in Front!Slot : slot[i].send}
<1>1. FrontTypeOK /\ check \in SUBSET Front!Slot
  BY DEF FrontInv
<1>2. PICK order \in Front!ByTurn(check) :
        scan' = [scan EXCEPT !.order = order, !.previous = Front!NextPrevious(check)]
  BY DEF Front!Scan
<1>3. UNCHANGED <<gwb, slot, reqq, done, flight, buffer, disk, sends>>
  BY DEF Front!Scan
<1>4. scan \in [order : Seq(Front!Slot), previous : Front!Slot, arr : Seq(VecRecord)]
  BY <1>1 DEF FrontTypeOK, Disks, Buffers
<1>5. order \in Seq(Front!Slot) /\ Distinct(order) /\ \A n \in DOMAIN order : order[n] \in check
  BY <1>1, <1>4, Scanned
<1>6. Front!NextPrevious(check) \in Front!Slot
  BY <1>1, <1>4, NextPreviousIn
<1>7. /\ scan'.order = order /\ scan'.arr = scan.arr
      /\ scan' \in [order : Seq(Front!Slot), previous : Front!Slot, arr : Seq(VecRecord)]
  BY <1>2, <1>4, <1>5, <1>6
<1> HIDE DEF check
<1>8. InLine' = InLine
  BY <1>3, <1>7 DEF InLine
<1>9. FrontTypeOK'
  BY <1>1, <1>3, <1>7 DEF FrontTypeOK, Disks, Buffers
<1>10. FrontBuffers'
  BY <1>3 DEF FrontInv, FrontBuffers
<1>11. \A b \in Front!Lba : Newest(b)' = Newest(b)
  BY <1>3 DEF Newest
<1>12. Distinct(scan.order)' /\ \A n \in DOMAIN scan'.order : slot[scan'.order[n]].send
  BY <1>5, <1>7 DEF Distinct, check
<1>13. disk'.scanned = disk.scanned /\ disk'.acked = disk.acked /\ (reqq # <<>> => reqq' # <<>>)
  BY <1>3
<1> QED  BY <1>3, <1>8, <1>9, <1>10, <1>11, <1>12, <1>13, FrontCalm

LEMMA AssignInv == ASSUME FrontInv, Front!Assign PROVE FrontInv'
<1>1. FrontTypeOK /\ scan.order = <<>> /\ scan.arr # <<>> /\ reqq' = Append(reqq, Head(scan.arr))
      /\ scan' = [scan EXCEPT !.arr = Tail(scan.arr)]
  BY DEF FrontInv, Front!Assign
<1>2. UNCHANGED <<gwb, slot, done, flight, buffer, disk, sends>>
  BY DEF Front!Assign
<1>3. scan \in [order : Seq(Front!Slot), previous : Front!Slot, arr : Seq(VecRecord)] /\ reqq \in Seq(VecRecord)
  BY <1>1 DEF FrontTypeOK, Disks, Buffers
<1>4. Head(scan.arr) \in VecRecord /\ Tail(scan.arr) \in Seq(VecRecord)
  BY <1>1, <1>3, HeadTailProperties
<1>5. /\ scan'.order = scan.order /\ scan'.arr = Tail(scan.arr)
      /\ scan' \in [order : Seq(Front!Slot), previous : Front!Slot, arr : Seq(VecRecord)]
  BY <1>1, <1>3, <1>4
<1>6. reqq' \in Seq(VecRecord) /\ reqq' # <<>>
  BY <1>1, <1>3, <1>4, AppendProperties
<1>7. InLine' = InLine
  BY <1>1, <1>3, <1>5, ChainMove DEF InLine
<1>8. FrontTypeOK'
  BY <1>1, <1>2, <1>5, <1>6 DEF FrontTypeOK, Disks, Buffers
<1>9. FrontBuffers'
  BY <1>2 DEF FrontInv, FrontBuffers
<1>10. \A b \in Front!Lba : Newest(b)' = Newest(b)
  BY <1>2 DEF Newest
<1>11. Distinct(scan.order)' /\ \A n \in DOMAIN scan'.order : slot[scan'.order[n]].send
  BY <1>5 DEF FrontInv, FrontSlots, Distinct
<1>12. disk'.scanned = disk.scanned /\ disk'.acked = disk.acked
  BY <1>2
<1> QED  BY <1>2, <1>6, <1>7, <1>8, <1>9, <1>10, <1>11, <1>12, FrontCalm

-----------------------------------------------------------------------------
(* The write buffers.                                                      *)

LEMMA SwitchInv == ASSUME FrontInv, Front!SwitchBuffer PROVE FrontInv'
<1>1. /\ FrontTypeOK /\ FrontBuffers /\ buffer.waiting /\ buffer.job = "none" /\ buffer \in Buffers
      /\ buffer' = [buffer EXCEPT !.waiting = FALSE, !.job = "queued", !.index = 1 - buffer.index]
  BY DEF FrontInv, FrontTypeOK, Buffers, Front!SwitchBuffer, Front!CanSwitch
<1>2. UNCHANGED <<gwb, slot, scan, reqq, done, flight, disk, sends>>
  BY DEF Front!SwitchBuffer
<1>3. 1 - buffer.index \in {0, 1} /\ 1 - (1 - buffer.index) = buffer.index /\ buffer.index \in {0, 1}
  BY <1>1 DEF Buffers
<1>4. /\ buffer'.index = 1 - buffer.index /\ buffer'.at = buffer.at /\ buffer'.job = "queued" /\ buffer' \in Buffers
  BY <1>1, <1>3 DEF Buffers
<1>5. gwb
  BY <1>1 DEF FrontBuffers
<1>6. FrontTypeOK'
  BY <1>1, <1>2, <1>4 DEF FrontTypeOK, Disks, Buffers
<1>7. FrontBuffers'
  BY <1>2, <1>4, <1>5 DEF FrontBuffers
<1>8. \A b \in Front!Lba : Newest(b)' = Newest(b)
  <2>1. \A b \in Front!Lba : buffer.at[1 - buffer.index][b] = Front!NoVer
    BY <1>1 DEF FrontBuffers
  <2> QED  BY <1>2, <1>3, <1>4, <2>1 DEF Newest
<1>9. InLine' = InLine
  BY <1>2 DEF InLine
<1>10. Distinct(scan.order)' /\ \A n \in DOMAIN scan'.order : slot[scan'.order[n]].send
  BY <1>2 DEF FrontInv, FrontSlots, Distinct
<1>11. disk'.scanned = disk.scanned /\ disk'.acked = disk.acked
  BY <1>2
<1> QED  BY <1>2, <1>6, <1>7, <1>8, <1>9, <1>10, <1>11, FrontCalm

LEMMA StartFlushInv == ASSUME FrontInv, Front!StartFlush PROVE FrontInv'
<1>1. /\ FrontTypeOK /\ FrontBuffers /\ buffer.job = "queued" /\ buffer \in Buffers
      /\ buffer' = [buffer EXCEPT !.job = "running"]
  BY DEF FrontInv, FrontTypeOK, Buffers, Front!StartFlush
<1>2. UNCHANGED <<gwb, slot, scan, reqq, done, flight, disk, sends>>
  BY DEF Front!StartFlush
<1>3. /\ buffer'.index = buffer.index /\ buffer'.at = buffer.at /\ buffer'.job = "running" /\ buffer' \in Buffers
  BY <1>1 DEF Buffers
<1>4. gwb
  BY <1>1 DEF FrontBuffers
<1>5. FrontTypeOK'
  BY <1>1, <1>2, <1>3 DEF FrontTypeOK, Disks, Buffers
<1>6. FrontBuffers'
  BY <1>2, <1>3, <1>4 DEF FrontBuffers
<1>7. \A b \in Front!Lba : Newest(b)' = Newest(b)
  BY <1>2, <1>3 DEF Newest
<1>8. InLine' = InLine
  BY <1>2 DEF InLine
<1>9. Distinct(scan.order)' /\ \A n \in DOMAIN scan'.order : slot[scan'.order[n]].send
  BY <1>2 DEF FrontInv, FrontSlots, Distinct
<1>10. disk'.scanned = disk.scanned /\ disk'.acked = disk.acked
  BY <1>2
<1> QED  BY <1>2, <1>5, <1>6, <1>7, <1>8, <1>9, <1>10, FrontCalm

LEMMA FlushBlockInv == ASSUME FrontInv, Front!FlushBlock PROVE FrontInv'
<1> DEFINE o == 1 - buffer.index
           old == buffer.at[o]
<1>1. FrontTypeOK /\ FrontBuffers /\ buffer.job = "running" /\ buffer \in Buffers
  BY DEF FrontInv, FrontTypeOK, Buffers, Front!FlushBlock
<1>2. UNCHANGED <<gwb, slot, scan, reqq, done, flight, sends>>
  BY DEF Front!FlushBlock
<1>3. o \in {0, 1} /\ buffer.index \in {0, 1} /\ o # buffer.index /\ 1 - buffer.index = o
  BY <1>1 DEF Buffers
<1>4. old \in FrontContents /\ buffer.at \in [{0, 1} -> FrontContents]
  BY <1>1, <1>3 DEF Buffers
<1>5. gwb
  BY <1>1 DEF FrontBuffers
<1>6. InLine' = InLine
  BY <1>2 DEF InLine
<1>7. Distinct(scan.order)' /\ \A n \in DOMAIN scan'.order : slot[scan'.order[n]].send
  BY <1>2 DEF FrontInv, FrontSlots, Distinct
<1>8. CASE Front!Entries(old) = {}
  <2>1. buffer' = [buffer EXCEPT !.job = "none"] /\ disk' = disk
    BY <1>8 DEF Front!FlushBlock
  <2>2. buffer'.index = buffer.index /\ buffer'.at = buffer.at /\ buffer'.job = "none" /\ buffer' \in Buffers
    BY <1>1, <2>1 DEF Buffers
  <2>3. \A b \in Front!Lba : buffer.at[o][b] = Front!NoVer
    BY <1>8 DEF Front!Entries
  <2>4. FrontTypeOK'
    BY <1>1, <1>2, <2>1, <2>2 DEF FrontTypeOK, Disks, Buffers
  <2>5. FrontBuffers'
    BY <1>2, <1>5, <2>2, <2>3 DEF FrontBuffers
  <2>6. \A b \in Front!Lba : Newest(b)' = Newest(b)
    BY <2>1, <2>2 DEF Newest
  <2>7. disk'.scanned = disk.scanned /\ disk'.acked = disk.acked
    BY <2>1
  <2> QED  BY <1>2, <1>6, <1>7, <2>4, <2>5, <2>6, <2>7, FrontCalm
<1>9. CASE Front!Entries(old) # {}
  <2>1. PICK b : b = Front!Min(Front!Entries(old))
    OBVIOUS
  <2>2. Front!Entries(old) \subseteq Nat
    BY FrontAssumption DEF Front!Entries, Front!Lba
  <2>3. b \in Front!Lba /\ old[b] # Front!NoVer
    <3>1. b \in Front!Entries(old)
      BY <1>9, <2>1, <2>2, FrontOperators
    <3> QED  BY <3>1 DEF Front!Entries
  <2>4. old[b] \in Nat
    BY <1>4, <2>3 DEF FrontContents
  <2>5. disk' = [disk EXCEPT !.ftl[b] = old[b]] /\ buffer' = [buffer EXCEPT !.at[o][b] = Front!NoVer]
    BY <1>9, <2>1 DEF Front!FlushBlock
  <2> HIDE DEF o
  <2>6. disk \in [scanned : [Front!Lba -> Nat], acked : [Front!Lba -> Nat], ftl : [Front!Lba -> Nat]]
    BY <1>1 DEF FrontTypeOK, Disks, Buffers
  <2>7. /\ disk' \in [scanned : [Front!Lba -> Nat], acked : [Front!Lba -> Nat], ftl : [Front!Lba -> Nat]]
        /\ disk'.scanned = disk.scanned /\ disk'.acked = disk.acked /\ disk'.ftl = [disk.ftl EXCEPT ![b] = old[b]]
    BY <2>3, <2>4, <2>5, <2>6
  <2>8. /\ buffer'.index = buffer.index /\ buffer'.job = buffer.job /\ buffer'.waiting = buffer.waiting
        /\ buffer'.at = [buffer.at EXCEPT ![o][b] = Front!NoVer]
        /\ buffer' = [buffer EXCEPT !.at = buffer'.at]
    BY <1>1, <2>5 DEF Buffers
  <2>9. [old EXCEPT ![b] = Front!NoVer] \in FrontContents
    BY <1>4, <2>3 DEF FrontContents
  <2>10. /\ buffer'.at = [buffer.at EXCEPT ![o] = [old EXCEPT ![b] = Front!NoVer]]
    BY <2>8
  <2>11. /\ buffer'.at \in [{0, 1} -> FrontContents]
         /\ buffer'.at[buffer.index] = buffer.at[buffer.index]
         /\ buffer'.at[o] = [old EXCEPT ![b] = Front!NoVer]
    BY <1>3, <1>4, <2>9, <2>10
  <2>12. buffer' \in Buffers
    BY <1>1, <2>8, <2>11 DEF Buffers
  <2>13. FrontTypeOK'
    BY <1>1, <1>2, <2>7, <2>12 DEF FrontTypeOK, Disks, Buffers
  <2>14. FrontBuffers'
    BY <1>1, <1>2, <1>5, <2>8 DEF FrontBuffers
  <2>15. ASSUME NEW c \in Front!Lba PROVE Newest(c)' = Newest(c)
    <3>1. 1 - buffer'.index = o /\ buffer'.index = buffer.index
      BY <1>3, <2>8
    <3>2. /\ buffer'.at[1 - buffer'.index][c] = (IF c = b THEN Front!NoVer ELSE old[c])
          /\ buffer'.at[buffer'.index][c] = buffer.at[buffer.index][c]
          /\ disk'.ftl[c] = (IF c = b THEN old[b] ELSE disk.ftl[c])
      <4>1. old = [x \in Front!Lba |-> old[x]] /\ disk.ftl = [x \in Front!Lba |-> disk.ftl[x]]
        BY <1>4, <2>6 DEF FrontContents
      <4> HIDE DEF old
      <4> QED  BY <2>3, <2>7, <2>11, <3>1, <4>1
    <3> QED  BY <1>3, <2>3, <3>2 DEF Newest, old
  <2> QED  BY <1>2, <1>6, <1>7, <2>7, <2>13, <2>14, <2>15, FrontCalm
<1> QED  BY <1>8, <1>9

-----------------------------------------------------------------------------
(* The kernel sends a request: the slot was answered, so no read of it is   *)
(* in progress.                                                            *)
LEMMA SendInv ==
    ASSUME FrontInv, NEW i \in Front!Slot, NEW r \in Requests, Front!Send(i, r)
    PROVE  FrontInv'
<1> DEFINE e == [op |-> r.op, pos |-> r.pos, len |-> r.len, send |-> TRUE, recv |-> FALSE,
                 buf |-> Front!Empty, floor |-> IF r.op = "R" THEN disk.acked ELSE Front!Empty]
<1>1. /\ FrontTypeOK /\ FrontLine /\ FrontSlots /\ FrontBuffers /\ FrontVersions /\ FrontReads /\ FrontBlocks
      /\ slot[i].recv
  BY DEF FrontInv, Front!Send
<1>2. UNCHANGED <<gwb, scan, reqq, done, flight, buffer, disk>> /\ slot' = [slot EXCEPT ![i] = e]
  BY DEF Front!Send
<1>3. /\ slot \in [Front!Slot -> SlotRecord]
      /\ disk \in [scanned : [Front!Lba -> Nat], acked : [Front!Lba -> Nat], ftl : [Front!Lba -> Nat]]
  BY <1>1 DEF FrontTypeOK, Disks, Buffers
<1>4. r \in [op : FrontOp, pos : Nat, len : Nat \ {0}] /\ r.pos + r.len <= Blocks
  BY FrontAssumption DEF FrontOp
<1>5. Front!Empty \in FrontContents /\ disk.acked \in FrontContents
  BY <1>3 DEF FrontContents, Front!Empty
<1>6. /\ e \in SlotRecord /\ e.pos + e.len <= Blocks /\ e.len # 0 /\ e.send /\ ~e.recv
      /\ e.op = "R" => e.floor = disk.acked
  BY <1>4, <1>5 DEF SlotRecord
<1> HIDE DEF e
<1>7. slot'[i] = e /\ slot' \in [Front!Slot -> SlotRecord] /\ \A j \in Front!Slot : j # i => slot'[j] = slot[j]
  BY <1>2, <1>3, <1>6
<1>8. ~slot[i].send
  BY <1>1 DEF FrontSlots
<1>9. /\ \A q \in Elems(InLine) \cup {f.r : f \in flight} : ~ReadOf(q, i)
      /\ \A n \in DOMAIN InLine : ~ReadOf(InLine[n], i)
      /\ \A f \in flight : ~ReadOf(f.r, i)
  <2>1. \A q \in Elems(InLine) \cup {f.r : f \in flight} : ~ReadOf(q, i)
    BY <1>1 DEF FrontReads
  <2> QED  BY <2>1 DEF Elems
<1>10. InLine' = InLine
  BY <1>2 DEF InLine
<1>11. FrontTypeOK'
  BY <1>1, <1>2, <1>6, <1>7 DEF FrontTypeOK, Disks, Buffers
<1>12. FrontLine' /\ FrontBuffers'
  BY <1>1, <1>2, <1>10 DEF FrontLine, FrontBuffers
<1>13. FrontVersions'
  <2>1. \A b \in Front!Lba : Newest(b)' = Newest(b)
    BY <1>2 DEF Newest
  <2> QED  BY <1>1, <1>2, <1>10, <2>1, VersionsKept
<1>14. FrontSlots'
  <2>1. Distinct(scan.order)' /\ \A b \in Front!Lba : disk'.acked[b] <= disk'.scanned[b]
    BY <1>1, <1>2 DEF FrontSlots, Distinct
  <2>2. \A n \in DOMAIN scan.order : scan.order[n] \in Front!Slot
    <3>1. scan.order \in Seq(Front!Slot)
      BY <1>1 DEF FrontTypeOK, Disks, Buffers
    <3> QED  BY <3>1, LenProperties, ElementOfSeq
  <2>3. \A n \in DOMAIN scan'.order : slot'[scan'.order[n]].send
    BY <1>1, <1>2, <1>6, <1>7, <2>2 DEF FrontSlots
  <2>4. \A j \in Front!Slot : slot'[j].send => ~slot'[j].recv
    BY <1>1, <1>6, <1>7 DEF FrontSlots
  <2>5. \A j \in Front!Slot : slot'[j].op = "R" => \A b \in Front!Lba : slot'[j].floor[b] <= disk'.scanned[b]
    BY <1>1, <1>2, <1>6, <1>7 DEF FrontSlots
  <2> QED  BY <2>1, <2>3, <2>4, <2>5 DEF FrontSlots
<1>15. FrontReads'
  <2> SUFFICES ASSUME NEW j \in Front!Slot
               PROVE  /\ \A q \in Elems(InLine) \cup {f.r : f \in flight} : ReadOf(q, j) =>
                           /\ slot'[j].op = "R" /\ ~slot'[j].send /\ ~slot'[j].recv
                           /\ q.pos = slot'[j].pos /\ q.len = slot'[j].len
                           /\ \A b \in Front!Lba : slot'[j].floor[b] < q.ver[b]
                      /\ \A m, n \in DOMAIN InLine : ReadOf(InLine[m], j) /\ ReadOf(InLine[n], j) => m = n
                      /\ \A f \in flight : \A n \in DOMAIN InLine : ReadOf(f.r, j) /\ ReadOf(InLine[n], j) =>
                           n = 1 /\ InLine[1] = f.r /\ f.b < InLine[1].pos + done
                      /\ \A f, g \in flight : ReadOf(f.r, j) /\ ReadOf(g.r, j) => f.r = g.r
    BY <1>2, <1>10 DEF FrontReads, ReadOf, Elems
  <2>1. CASE j = i
    BY <1>9, <2>1
  <2>2. CASE j # i
    BY <1>1, <1>7, <2>2 DEF FrontReads
  <2> QED  BY <2>1, <2>2
<1>16. FrontBlocks'
  <2> SUFFICES ASSUME ~gwb
               PROVE  /\ \A f \in flight : f.r.op = "R" => f.ver >= slot'[f.r.slot].floor[f.b]
                      /\ \A j \in Front!Slot : slot'[j].op = "R" /\ ~slot'[j].send =>
                           \A b \in Front!Pages(slot'[j]) :
                              \/ \E n \in DOMAIN InLine : ReadOf(InLine[n], j) /\ Pending(n, b)
                              \/ \E f \in flight : ReadOf(f.r, j) /\ f.b = b
                              \/ slot'[j].buf[b] >= slot'[j].floor[b]
    <3>1. \A n, b : Pending(n, b)' <=> Pending(n, b)
      BY <1>2, <1>10, SameLine
    <3> QED  BY <1>2, <1>10, <3>1 DEF FrontBlocks, ReadOf, Front!Pages
  <2>1. \A f \in flight : f.r.op = "R" => f.r.slot \in Front!Slot /\ f.r.slot # i
    <3>1. \A f \in flight : f.r \in VecRecord
      BY <1>1 DEF FrontTypeOK, Flying
    <3> QED  BY <1>9, <3>1 DEF ReadOf, VecRecord
  <2>2. \A f \in flight : f.r.op = "R" => f.ver >= slot'[f.r.slot].floor[f.b]
    BY <1>1, <1>7, <2>1 DEF FrontBlocks
  <2>3. ASSUME NEW j \in Front!Slot, slot'[j].op = "R" /\ ~slot'[j].send
        PROVE  j # i /\ slot'[j] = slot[j]
    BY <1>6, <1>7, <2>3
  <2> QED  BY <1>1, <2>2, <2>3 DEF FrontBlocks
<1> QED  BY <1>11, <1>12, <1>13, <1>14, <1>15, <1>16 DEF FrontInv

-----------------------------------------------------------------------------
(* The scanner takes a slot: its request is the last of the line, and a     *)
(* write of it the newest version of its blocks.                           *)

LEMMA TakenRecord ==
    ASSUME FrontInv, NEW i \in Front!Slot, slot[i].send, NEW r, r = Front!VecReq(i)
    PROVE  /\ r \in VecRecord /\ r.slot = i /\ r.op = slot[i].op /\ r.pos = slot[i].pos /\ r.len = slot[i].len
           /\ r.pos + r.len <= Blocks /\ \A b \in Front!Lba : r.ver[b] = disk.scanned[b] + 1
<1>1. /\ slot[i] \in SlotRecord /\ slot[i].pos + slot[i].len <= Blocks /\ slot[i].len # 0
      /\ disk.scanned \in [Front!Lba -> Nat]
  BY DEF FrontInv, FrontTypeOK, Disks, Buffers
<1>2. [b \in Front!Lba |-> disk.scanned[b] + 1] \in [Front!Lba -> Nat \ {0}]
  BY <1>1
<1> QED  BY <1>1, <1>2 DEF Front!VecReq, VecRecord, SlotRecord

LEMMA LineLonger ==
    ASSUME FrontInv, NEW r \in VecRecord, InLine' = Append(InLine, r), done' = done, NEW N, N = Len(InLine) + 1
    PROVE  /\ \A n \in DOMAIN InLine :
                 /\ n \in DOMAIN InLine' /\ InLine'[n] = InLine[n] /\ n < N /\ n \in Nat
                 /\ \A b : (Pending(n, b)' <=> Pending(n, b)) /\ (Writes(n, b)' <=> Writes(n, b))
           /\ N \in DOMAIN InLine' /\ InLine'[N] = r /\ N \in Nat
           /\ \A n \in DOMAIN InLine' : n \in DOMAIN InLine \/ n = N
           /\ \A b \in Front!Lba : Pending(N, b)' <=> b \in Front!Pages(r)
           /\ \A b : Writes(N, b)' <=> (r.op # "R" /\ b \in Front!Pages(r))
<1>1. InLine \in Seq(VecRecord) /\ Len(InLine) \in Nat /\ DOMAIN InLine = 1 .. Len(InLine)
  BY FrontFacts DEF FrontInv
<1>2. \A n \in DOMAIN InLine : n \in DOMAIN InLine' /\ InLine'[n] = InLine[n] /\ n < N /\ n \in Nat
  BY <1>1, AppendAt
<1>3. InLine' \in Seq(VecRecord) /\ Len(InLine') = N /\ InLine'[N] = r
  BY <1>1, AppendProperties
<1>4. N \in DOMAIN InLine' /\ \A n \in DOMAIN InLine' : n \in DOMAIN InLine \/ n = N
  <2>1. DOMAIN InLine' = 1 .. N
    BY <1>3, LenProperties
  <2> QED  BY <1>1, <2>1
<1>5. ASSUME NEW n \in DOMAIN InLine, NEW b PROVE (Pending(n, b)' <=> Pending(n, b)) /\ (Writes(n, b)' <=> Writes(n, b))
  <2>1. InLine'[n] = InLine[n] /\ (n = 1 => InLine'[1] = InLine[1])
    BY <1>2
  <2> QED  BY <2>1 DEF Pending, Writes, Front!Pages
<1>6. ASSUME NEW b \in Front!Lba PROVE Pending(N, b)' <=> b \in Front!Pages(r)
  <2>1. N = 1 => done = 0
    <3>1. N = 1 => InLine = <<>>
      BY <1>1, EmptySeq
    <3>2. reqq # <<>> => InLine # <<>>
      BY FrontFacts DEF FrontInv
    <3> QED  BY <3>1, <3>2 DEF FrontInv, FrontLine
  <2>2. r.pos \in Nat /\ r.len \in Nat /\ b \in Nat
    BY FrontAssumption DEF VecRecord, Front!Lba
  <2>3. Pending(N, b)' <=> b \in Front!Pages(InLine'[N]) /\ (N = 1 => b >= InLine'[1].pos + done')
    BY DEF Pending, Front!Pages
  <2>4. N = 1 => InLine'[1] = r
    BY <1>3
  <2>5. b \in Front!Pages(r) => b >= r.pos + 0
    BY <2>2 DEF Front!Pages
  <2> QED  BY <1>3, <2>1, <2>3, <2>4, <2>5
<1>7. \A b : Writes(N, b)' <=> (r.op # "R" /\ b \in Front!Pages(r))
  BY <1>3 DEF Writes, Front!Pages
<1>8. N \in Nat
  BY <1>1
<1> QED  BY <1>2, <1>3, <1>4, <1>5, <1>6, <1>7, <1>8

LEMMA TakenVersions ==
    ASSUME FrontInv, NEW r \in VecRecord, InLine' = Append(InLine, r), done' = done,
           \A b \in Front!Lba : r.ver[b] = disk.scanned[b] + 1,
           \A b \in Front!Lba : Newest(b)' = Newest(b),
           \A b \in Front!Lba : disk'.scanned[b] = IF b \in Front!Pages(r) /\ r.op # "R" THEN disk.scanned[b] + 1
                                                   ELSE disk.scanned[b]
    PROVE  FrontVersions'
<1>1. PICK N : N = Len(InLine) + 1
  OBVIOUS
<1>2. /\ \A n \in DOMAIN InLine :
           /\ n \in DOMAIN InLine' /\ InLine'[n] = InLine[n] /\ n < N /\ n \in Nat
           /\ \A b : (Pending(n, b)' <=> Pending(n, b)) /\ (Writes(n, b)' <=> Writes(n, b))
      /\ N \in DOMAIN InLine' /\ InLine'[N] = r /\ N \in Nat
      /\ \A n \in DOMAIN InLine' : n \in DOMAIN InLine \/ n = N
      /\ \A b \in Front!Lba : Pending(N, b)' <=> b \in Front!Pages(r)
      /\ \A b : Writes(N, b)' <=> (r.op # "R" /\ b \in Front!Pages(r))
  BY <1>1, LineLonger
<1> SUFFICES ASSUME NEW b \in Front!Lba
             PROVE  /\ \A n \in DOMAIN InLine' :
                         /\ InLine'[n].ver[b] <= disk'.scanned[b] + 1
                         /\ Writes(n, b)' => InLine'[n].ver[b] <= disk'.scanned[b]
                         /\ Writes(n, b)' /\ Pending(n, b)' => InLine'[n].ver[b] > Newest(b)
                    /\ \A m, n \in DOMAIN InLine' : m < n =>
                         /\ InLine'[m].ver[b] <= InLine'[n].ver[b]
                         /\ Writes(m, b)' => InLine'[m].ver[b] < InLine'[n].ver[b]
                    /\ Newest(b) <= disk'.scanned[b]
                    /\ \A v \in Nat : Newest(b) < v /\ v <= disk'.scanned[b] =>
                         \E n \in DOMAIN InLine' : Writes(n, b)' /\ Pending(n, b)' /\ InLine'[n].ver[b] = v
  BY DEF FrontVersions
<1>3. disk.scanned[b] \in Nat /\ Newest(b) \in Nat /\ \A n \in DOMAIN InLine : InLine[n].ver[b] \in Nat
  <2>1. \A n \in DOMAIN InLine : InLine[n] \in VecRecord
    BY FrontFacts DEF FrontInv
  <2>2. \A n \in DOMAIN InLine : InLine[n].ver[b] \in Nat
    BY <2>1 DEF VecRecord
  <2>3. disk.scanned[b] \in Nat
    BY DEF FrontInv, FrontTypeOK, Disks, Buffers
  <2> QED  BY <2>2, <2>3, FrontFacts DEF FrontInv
<1>4. disk'.scanned[b] \in Nat /\ disk.scanned[b] <= disk'.scanned[b] /\ disk'.scanned[b] <= disk.scanned[b] + 1
      /\ (Writes(N, b)' <=> disk'.scanned[b] = disk.scanned[b] + 1) /\ r.ver[b] = disk.scanned[b] + 1
  BY <1>2, <1>3
<1>5. /\ \A n \in DOMAIN InLine :
           /\ InLine[n].ver[b] <= disk.scanned[b] + 1
           /\ Writes(n, b) => InLine[n].ver[b] <= disk.scanned[b]
           /\ Writes(n, b) /\ Pending(n, b) => InLine[n].ver[b] > Newest(b)
      /\ \A m, n \in DOMAIN InLine : m < n =>
           /\ InLine[m].ver[b] <= InLine[n].ver[b]
           /\ Writes(m, b) => InLine[m].ver[b] < InLine[n].ver[b]
      /\ Newest(b) <= disk.scanned[b]
      /\ \A v \in Nat : Newest(b) < v /\ v <= disk.scanned[b] =>
           \E n \in DOMAIN InLine : Writes(n, b) /\ Pending(n, b) /\ InLine[n].ver[b] = v
  BY DEF FrontInv, FrontVersions
<1>6. ASSUME NEW n \in DOMAIN InLine'
      PROVE  /\ InLine'[n].ver[b] <= disk'.scanned[b] + 1
             /\ Writes(n, b)' => InLine'[n].ver[b] <= disk'.scanned[b]
             /\ Writes(n, b)' /\ Pending(n, b)' => InLine'[n].ver[b] > Newest(b)
  <2>1. CASE n \in DOMAIN InLine
    BY <1>2, <1>3, <1>4, <1>5, <2>1
  <2>2. CASE n = N
    BY <1>2, <1>3, <1>4, <1>5, <2>2
  <2> QED  BY <1>2, <2>1, <2>2
<1>7. ASSUME NEW m \in DOMAIN InLine', NEW n \in DOMAIN InLine', m < n
      PROVE  /\ InLine'[m].ver[b] <= InLine'[n].ver[b]
             /\ Writes(m, b)' => InLine'[m].ver[b] < InLine'[n].ver[b]
  <2>1. m \in DOMAIN InLine
    BY <1>2, <1>7
  <2>2. CASE n \in DOMAIN InLine
    BY <1>2, <1>5, <1>7, <2>1, <2>2
  <2>3. CASE n = N
    BY <1>2, <1>3, <1>4, <1>5, <2>1, <2>3
  <2> QED  BY <1>2, <2>2, <2>3
<1>8. ASSUME NEW v \in Nat, Newest(b) < v /\ v <= disk'.scanned[b]
      PROVE  \E n \in DOMAIN InLine' : Writes(n, b)' /\ Pending(n, b)' /\ InLine'[n].ver[b] = v
  <2>1. CASE v <= disk.scanned[b]
    <3>1. PICK n \in DOMAIN InLine : Writes(n, b) /\ Pending(n, b) /\ InLine[n].ver[b] = v
      BY <1>5, <1>8, <2>1
    <3> QED  BY <1>2, <3>1
  <2>2. CASE v > disk.scanned[b]
    <3>1. v = disk.scanned[b] + 1 /\ Writes(N, b)'
      BY <1>3, <1>4, <1>8, <2>2
    <3> QED  BY <1>2, <1>4, <3>1
  <2> QED  BY <1>3, <2>1, <2>2
<1>9. Newest(b) <= disk'.scanned[b]
  BY <1>3, <1>4, <1>5
<1> QED  BY <1>6, <1>7, <1>8, <1>9

LEMMA TakeSlotInv == ASSUME FrontInv, Front!TakeSlot PROVE FrontInv'
<1>1. PICK i : i = Head(scan.order)
  OBVIOUS
<1>2. PICK r : r = Front!VecReq(i)
  OBVIOUS
<1>3. PICK now : now = Front!Bump(disk.scanned, r)
  OBVIOUS
<1>4. PICK ack \in BOOLEAN : ack <=> r.op # "R"
  OBVIOUS
<1>5. /\ scan.order # <<>> /\ scan' = [scan EXCEPT !.order = Tail(scan.order), !.arr = Append(scan.arr, r)]
      /\ slot' = [slot EXCEPT ![i].send = FALSE, ![i].recv = ack]
      /\ disk' = [disk EXCEPT !.scanned = now, !.acked = IF ack THEN now ELSE disk.acked]
      /\ UNCHANGED <<gwb, reqq, done, flight, buffer, sends>>
  <2>1. Front!AckNow(r.op) = ack
    BY <1>4 DEF Front!AckNow
  <2> QED  BY <1>1, <1>2, <1>3, <2>1 DEF Front!TakeSlot
<1>6. /\ FrontTypeOK /\ FrontLine /\ FrontSlots /\ FrontBuffers /\ FrontVersions /\ FrontReads /\ FrontBlocks
      /\ slot \in [Front!Slot -> SlotRecord] /\ reqq \in Seq(VecRecord)
      /\ disk \in [scanned : [Front!Lba -> Nat], acked : [Front!Lba -> Nat], ftl : [Front!Lba -> Nat]]
      /\ scan \in [order : Seq(Front!Slot), previous : Front!Slot, arr : Seq(VecRecord)]
  BY DEF FrontInv, FrontTypeOK, Disks, Buffers
<1>7. /\ i \in Front!Slot /\ Tail(scan.order) \in Seq(Front!Slot) /\ Distinct(Tail(scan.order))
      /\ slot[i].send
      /\ \A n \in DOMAIN Tail(scan.order) : /\ Tail(scan.order)[n] \in Front!Slot /\ Tail(scan.order)[n] # i
                                            /\ slot[Tail(scan.order)[n]].send
  <2>1. scan.order \in Seq(Front!Slot) /\ Distinct(scan.order)
    BY <1>6 DEF FrontSlots
  <2>2. /\ Tail(scan.order) \in Seq(Front!Slot) /\ i \in Front!Slot
        /\ Distinct(Tail(scan.order)) /\ i \notin Elems(Tail(scan.order))
    BY <1>1, <1>5, <2>1, Dequeued
  <2>3. /\ \A a \in DOMAIN Tail(scan.order) : a + 1 \in DOMAIN scan.order /\ Tail(scan.order)[a] = scan.order[a + 1]
        /\ 1 \in DOMAIN scan.order /\ i = scan.order[1]
    BY <1>1, <1>5, <2>1, TailAt
  <2>4. \A n \in DOMAIN Tail(scan.order) : Tail(scan.order)[n] \in Front!Slot /\ Tail(scan.order)[n] # i
    BY <2>2, SeqElems DEF Elems
  <2>5. slot[i].send /\ \A n \in DOMAIN Tail(scan.order) : slot[Tail(scan.order)[n]].send
    BY <1>6, <2>3 DEF FrontSlots
  <2> QED  BY <2>2, <2>4, <2>5
<1>8. /\ r \in VecRecord /\ r.slot = i /\ r.op = slot[i].op /\ r.pos = slot[i].pos /\ r.len = slot[i].len
      /\ r.pos + r.len <= Blocks /\ \A b \in Front!Lba : r.ver[b] = disk.scanned[b] + 1
  BY <1>2, <1>7, TakenRecord
<1>9. /\ scan'.order = Tail(scan.order) /\ scan'.arr = Append(scan.arr, r)
      /\ scan' \in [order : Seq(Front!Slot), previous : Front!Slot, arr : Seq(VecRecord)]
  <2>1. Append(scan.arr, r) \in Seq(VecRecord)
    BY <1>6, <1>8, AppendProperties
  <2> QED  BY <1>5, <1>6, <1>7, <2>1
<1>10. InLine' = Append(InLine, r)
  BY <1>5, <1>6, <1>8, <1>9, ChainAppend DEF InLine
<1> DEFINE e == [slot[i] EXCEPT !.send = FALSE, !.recv = ack]
<1>11. /\ e \in SlotRecord /\ ~e.send /\ e.recv = ack /\ e.op = slot[i].op /\ e.pos = slot[i].pos
       /\ e.len = slot[i].len /\ e.floor = slot[i].floor /\ e.buf = slot[i].buf
  <2>1. slot[i] \in SlotRecord
    BY <1>6, <1>7
  <2> QED  BY <2>1 DEF SlotRecord
<1>12. slot' = [slot EXCEPT ![i] = e]
  BY <1>5, <1>6, <1>7
<1> HIDE DEF e
<1>13. slot'[i] = e /\ slot' \in [Front!Slot -> SlotRecord] /\ \A j \in Front!Slot : j # i => slot'[j] = slot[j]
  BY <1>6, <1>7, <1>11, <1>12
<1>14. /\ now \in [Front!Lba -> Nat]
       /\ \A b \in Front!Lba : now[b] = (IF b \in Front!Pages(r) /\ r.op # "R" THEN disk.scanned[b] + 1 ELSE disk.scanned[b])
  BY <1>3, <1>6 DEF Front!Bump
<1>15. /\ disk' \in [scanned : [Front!Lba -> Nat], acked : [Front!Lba -> Nat], ftl : [Front!Lba -> Nat]]
       /\ disk'.scanned = now /\ disk'.acked = (IF ack THEN now ELSE disk.acked) /\ disk'.ftl = disk.ftl
  BY <1>5, <1>6, <1>14
<1>16. \A b \in Front!Lba : disk.scanned[b] \in Nat /\ now[b] \in Nat /\ disk.scanned[b] <= now[b]
  <2>1. \A b \in Front!Lba : disk.scanned[b] \in Nat
    BY <1>6
  <2> QED  BY <1>14, <2>1
<1>17. FrontTypeOK'
  <2>1. \A j \in Front!Slot : slot'[j].pos + slot'[j].len <= Blocks /\ (slot'[j].send => slot'[j].len # 0)
    BY <1>6, <1>11, <1>13 DEF FrontTypeOK, Disks, Buffers
  <2> QED  BY <1>5, <1>6, <1>9, <1>13, <1>15, <2>1 DEF FrontTypeOK, Disks, Buffers
<1>18. FrontBuffers'
  BY <1>5, <1>6 DEF FrontBuffers
<1>19. FrontVersions'
  <2>1. \A b \in Front!Lba : Newest(b)' = Newest(b)
    BY <1>5, <1>15 DEF Newest
  <2> QED  BY <1>5, <1>8, <1>10, <1>14, <1>15, <2>1, TakenVersions
<1>20. PICK N : N = Len(InLine) + 1
  OBVIOUS
<1>21. /\ \A n \in DOMAIN InLine :
            /\ n \in DOMAIN InLine' /\ InLine'[n] = InLine[n] /\ n < N /\ n \in Nat
            /\ \A b : (Pending(n, b)' <=> Pending(n, b)) /\ (Writes(n, b)' <=> Writes(n, b))
       /\ N \in DOMAIN InLine' /\ InLine'[N] = r /\ N \in Nat
       /\ \A n \in DOMAIN InLine' : n \in DOMAIN InLine \/ n = N
       /\ \A b \in Front!Lba : Pending(N, b)' <=> b \in Front!Pages(r)
       /\ \A b : Writes(N, b)' <=> (r.op # "R" /\ b \in Front!Pages(r))
  BY <1>5, <1>8, <1>10, <1>20, LineLonger
<1>22. FrontLine'
  <2>1. \A n \in DOMAIN InLine' : InLine'[n].pos + InLine'[n].len <= Blocks
    BY <1>6, <1>8, <1>21 DEF FrontLine
  <2> QED  BY <1>5, <1>6, <2>1 DEF FrontLine
<1>23. FrontSlots'
  <2>1. Distinct(scan.order)' /\ \A n \in DOMAIN scan'.order : slot'[scan'.order[n]].send
    BY <1>7, <1>9, <1>13 DEF Distinct
  <2>2. \A j \in Front!Slot : slot'[j].send => ~slot'[j].recv
    BY <1>6, <1>11, <1>13 DEF FrontSlots
  <2>3. \A b \in Front!Lba : disk'.acked[b] <= disk'.scanned[b]
    <3>1. \A b \in Front!Lba : disk.acked[b] \in Nat /\ disk.acked[b] <= disk.scanned[b]
      BY <1>6 DEF FrontSlots
    <3> QED  BY <1>15, <1>16, <3>1
  <2>4. ASSUME NEW j \in Front!Slot, slot'[j].op = "R", NEW b \in Front!Lba PROVE slot'[j].floor[b] <= disk'.scanned[b]
    <3>1. slot[j].op = "R" /\ slot'[j].floor = slot[j].floor
      BY <1>11, <1>13, <2>4
    <3>2. slot[j].floor[b] <= disk.scanned[b]
      BY <1>6, <3>1 DEF FrontSlots
    <3>3. slot[j].floor[b] \in Int
      BY <1>6, FrontOperators DEF SlotRecord, FrontContents
    <3> QED  BY <1>15, <1>16, <3>1, <3>2, <3>3
  <2> QED  BY <2>1, <2>2, <2>3, <2>4 DEF FrontSlots
<1>24. /\ \A q \in Elems(InLine) \cup {f.r : f \in flight} : ~ReadOf(q, i)
       /\ \A n \in DOMAIN InLine : ~ReadOf(InLine[n], i)
       /\ \A f \in flight : ~ReadOf(f.r, i)
  <2>1. \A q \in Elems(InLine) \cup {f.r : f \in flight} : ~ReadOf(q, i)
    BY <1>6, <1>7 DEF FrontReads
  <2> QED  BY <2>1 DEF Elems
<1>25. Elems(InLine)' = Elems(InLine) \cup {r}
  <2>1. InLine \in Seq(VecRecord)
    BY <1>6, FrontFacts
  <2> QED  BY <1>8, <1>10, <2>1, Enqueue
<1>26. FrontReads'
  <2> SUFFICES ASSUME NEW j \in Front!Slot
               PROVE  /\ \A q \in Elems(InLine)' \cup {f.r : f \in flight} : ReadOf(q, j) =>
                           /\ slot'[j].op = "R" /\ ~slot'[j].send /\ ~slot'[j].recv
                           /\ q.pos = slot'[j].pos /\ q.len = slot'[j].len
                           /\ \A b \in Front!Lba : slot'[j].floor[b] < q.ver[b]
                      /\ \A m, n \in DOMAIN InLine' : ReadOf(InLine'[m], j) /\ ReadOf(InLine'[n], j) => m = n
                      /\ \A f \in flight : \A n \in DOMAIN InLine' : ReadOf(f.r, j) /\ ReadOf(InLine'[n], j) =>
                           n = 1 /\ InLine'[1] = f.r /\ f.b < InLine'[1].pos + done
                      /\ \A f, g \in flight : ReadOf(f.r, j) /\ ReadOf(g.r, j) => f.r = g.r
    <3>1. flight' = flight /\ done' = done
      BY <1>5
    <3> QED  BY <3>1 DEF FrontReads, ReadOf, Elems
  <2>1. CASE j = i
    <3>1. ReadOf(r, i) => /\ slot'[i].op = "R" /\ ~slot'[i].send /\ ~slot'[i].recv
                          /\ r.pos = slot'[i].pos /\ r.len = slot'[i].len
                          /\ \A b \in Front!Lba : slot'[i].floor[b] < r.ver[b]
      <4>1. ASSUME r.op = "R", NEW b \in Front!Lba PROVE slot[i].floor[b] < r.ver[b]
        <5>1. slot[i].floor[b] <= disk.scanned[b]
          BY <1>6, <1>7, <1>8, <4>1 DEF FrontSlots
        <5>2. slot[i].floor[b] \in Int
          BY <1>6, <1>7, FrontOperators DEF SlotRecord, FrontContents
        <5> QED  BY <1>8, <1>16, <5>1, <5>2
      <4> QED  BY <1>4, <1>8, <1>11, <1>13, <4>1 DEF ReadOf
    <3>2. \A n \in DOMAIN InLine' : ReadOf(InLine'[n], i) => n = N
      BY <1>21, <1>24
    <3> QED  BY <1>24, <1>25, <2>1, <3>1, <3>2
  <2>2. CASE j # i
    <3>1. ~ReadOf(r, j) /\ slot'[j] = slot[j]
      BY <1>8, <1>13, <2>2 DEF ReadOf
    <3>2. \A n \in DOMAIN InLine' : ReadOf(InLine'[n], j) => n \in DOMAIN InLine /\ ReadOf(InLine[n], j) /\ InLine'[n] = InLine[n]
      BY <1>21, <3>1
    <3> QED  BY <1>6, <1>25, <3>1, <3>2 DEF FrontReads
  <2> QED  BY <2>1, <2>2
<1>27. FrontBlocks'
  <2> SUFFICES ASSUME ~gwb
               PROVE  /\ \A f \in flight : f.r.op = "R" => f.ver >= slot'[f.r.slot].floor[f.b]
                      /\ \A j \in Front!Slot : slot'[j].op = "R" /\ ~slot'[j].send =>
                           \A b \in Front!Pages(slot'[j]) :
                              \/ \E n \in DOMAIN InLine' : ReadOf(InLine'[n], j) /\ Pending(n, b)'
                              \/ \E f \in flight : ReadOf(f.r, j) /\ f.b = b
                              \/ slot'[j].buf[b] >= slot'[j].floor[b]
    BY <1>5 DEF FrontBlocks, ReadOf, Front!Pages
  <2>1. \A f \in flight : f.r.op = "R" => f.r.slot \in Front!Slot /\ f.r.slot # i
    <3>1. \A f \in flight : f.r \in VecRecord
      BY <1>6 DEF FrontTypeOK, Flying
    <3> QED  BY <1>24, <3>1 DEF ReadOf, VecRecord
  <2>2. \A f \in flight : f.r.op = "R" => f.ver >= slot'[f.r.slot].floor[f.b]
    BY <1>6, <1>13, <2>1 DEF FrontBlocks
  <2>3. ASSUME NEW j \in Front!Slot, slot'[j].op = "R" /\ ~slot'[j].send, NEW b \in Front!Pages(slot'[j])
        PROVE  \/ \E n \in DOMAIN InLine' : ReadOf(InLine'[n], j) /\ Pending(n, b)'
               \/ \E f \in flight : ReadOf(f.r, j) /\ f.b = b
               \/ slot'[j].buf[b] >= slot'[j].floor[b]
    <3>1. CASE j = i
      <4>1. ReadOf(r, i) /\ b \in Front!Pages(r)
        BY <1>8, <1>11, <1>13, <2>3, <3>1 DEF ReadOf, Front!Pages
      <4>2. b \in Front!Lba
        <5>1. r.pos \in Nat /\ r.len \in Nat /\ Blocks \in Nat
          BY <1>8, FrontAssumption DEF VecRecord
        <5> QED  BY <1>8, <4>1, <5>1 DEF Front!Pages, Front!Lba
      <4> QED  BY <1>21, <3>1, <4>1, <4>2
    <3>2. CASE j # i
      <4>1. slot'[j] = slot[j]
        BY <1>13, <3>2
      <4>2. \/ \E n \in DOMAIN InLine : ReadOf(InLine[n], j) /\ Pending(n, b)
            \/ \E f \in flight : ReadOf(f.r, j) /\ f.b = b
            \/ slot[j].buf[b] >= slot[j].floor[b]
        BY <1>6, <2>3, <4>1 DEF FrontBlocks
      <4> QED  BY <1>21, <4>1, <4>2
    <3> QED  BY <3>1, <3>2
  <2> QED  BY <2>2, <2>3
<1> QED  BY <1>17, <1>18, <1>19, <1>22, <1>23, <1>26, <1>27 DEF FrontInv

-----------------------------------------------------------------------------
(* The main thread does the next block of the first request of the line.    *)

\* The line after that: k requests have left it, and block c of the first, r,
\* is not pending any more.
Advanced(c, k) ==
    /\ \A n \in DOMAIN InLine' : /\ n \in Nat /\ n >= 1 /\ n + k \in DOMAIN InLine /\ InLine'[n] = InLine[n + k]
                                 /\ \A b \in Front!Lba : /\ Pending(n, b)' <=> Pending(n + k, b) /\ ~(n + k = 1 /\ b = c)
                                                         /\ Writes(n, b)' <=> Writes(n + k, b)
    /\ \A n \in DOMAIN InLine : n \in Nat /\ (n # 1 \/ k = 0 => n - k \in DOMAIN InLine')
    /\ k \in {0, 1} /\ (k = 0 => done' = done + 1 /\ InLine' = InLine)
    /\ \A b \in Front!Lba : Pending(1, b) /\ b # c => k = 0

LEMMA FirstOfLine ==
    ASSUME FrontInv, reqq # <<>>, NEW r, r = Head(reqq), NEW c, c = Front!Block
    PROVE  /\ r \in VecRecord /\ InLine[1] = r /\ 1 \in DOMAIN InLine /\ r \in Elems(InLine)
           /\ c = r.pos + done /\ c \in Front!Pages(r) /\ c \in Front!Lba /\ done \in Nat /\ Pending(1, c)
           /\ done < r.len
<1>1. /\ InLine \in Seq(VecRecord) /\ Len(InLine) \in Nat /\ DOMAIN InLine = 1 .. Len(InLine)
      /\ InLine # <<>> /\ InLine[1] = r /\ r \in VecRecord
  BY FrontFacts DEF FrontInv
<1>2. 1 \in DOMAIN InLine
  BY <1>1, EmptySeq
<1>3. r \in Elems(InLine)
  BY <1>1, <1>2 DEF Elems
<1>4. c = r.pos + done
  BY DEF Front!Block, Front!Now
<1>5. done \in Nat /\ done < r.len /\ r.pos + r.len <= Blocks /\ r.pos \in Nat /\ r.len \in Nat /\ Blocks \in Nat
  BY <1>1, <1>2, FrontAssumption DEF FrontInv, FrontLine, FrontTypeOK, VecRecord, Disks
<1>6. c \in Front!Pages(r) /\ c \in Front!Lba
  BY <1>4, <1>5 DEF Front!Pages, Front!Lba
<1>7. Pending(1, c)
  BY <1>1, <1>4, <1>5, <1>6 DEF Pending
<1> QED  BY <1>1, <1>2, <1>3, <1>4, <1>5, <1>6, <1>7

LEMMA AdvanceLine ==
    ASSUME FrontInv, reqq # <<>>, NEW r, r = Head(reqq), NEW c, c = Front!Block, Front!Advance, scan' = scan
    PROVE  /\ \E k \in {0, 1} : Advanced(c, k)
           /\ reqq' \in Seq(VecRecord) /\ done' \in Nat /\ Elems(InLine)' \subseteq Elems(InLine)
           /\ IF reqq' = <<>> THEN done' = 0 ELSE done' < Head(reqq').len
<1>1. /\ r \in VecRecord /\ InLine[1] = r /\ 1 \in DOMAIN InLine /\ r \in Elems(InLine)
      /\ c = r.pos + done /\ c \in Front!Pages(r) /\ c \in Front!Lba /\ done \in Nat /\ Pending(1, c)
      /\ done < r.len
  BY FirstOfLine
<1>2. /\ InLine \in Seq(VecRecord) /\ Len(InLine) \in Nat /\ DOMAIN InLine = 1 .. Len(InLine)
      /\ Front!Lba \subseteq Nat
  BY FrontFacts DEF FrontInv
<1>3. r.pos \in Nat /\ r.len \in Nat /\ reqq \in Seq(VecRecord) /\ scan.arr \in Seq(VecRecord)
  BY <1>1 DEF VecRecord, FrontInv, FrontTypeOK
<1>4. CASE done + 1 < r.len
  <2>1. done' = done + 1 /\ reqq' = reqq
    BY <1>4 DEF Front!Advance, Front!Now
  <2>2. InLine' = InLine
    BY <2>1 DEF InLine
  <2>3. ASSUME NEW n \in DOMAIN InLine, NEW b \in Front!Lba
        PROVE  (Pending(n, b)' <=> Pending(n, b) /\ ~(n = 1 /\ b = c)) /\ (Writes(n, b)' <=> Writes(n, b))
    <3>1. Writes(n, b)' <=> Writes(n, b)
      BY <2>2 DEF Writes, Front!Pages
    <3>2. Pending(n, b)' <=> b \in Front!Pages(InLine[n]) /\ (n = 1 => b >= r.pos + (done + 1))
      BY <1>1, <2>1, <2>2 DEF Pending, Front!Pages
    <3>3. b >= r.pos + (done + 1) <=> b >= r.pos + done /\ b # c
      BY <1>1, <1>2, <1>3
    <3> QED  BY <1>1, <3>1, <3>2, <3>3 DEF Pending
  <2>4. \A n \in DOMAIN InLine : n \in Nat /\ n >= 1 /\ n + 0 = n /\ n - 0 = n
    BY <1>2
  <2>5. Advanced(c, 0)
    BY <2>1, <2>2, <2>3, <2>4 DEF Advanced
  <2>6. Elems(InLine)' \subseteq Elems(InLine)
    BY <2>2 DEF Elems
  <2> QED  BY <1>1, <1>3, <1>4, <2>1, <2>5, <2>6
<1>5. CASE ~(done + 1 < r.len)
  <2>1. done' = 0 /\ reqq' = Tail(reqq)
    BY <1>5 DEF Front!Advance, Front!Now
  <2>2. InLine' = Tail(InLine) /\ InLine # <<>>
    BY <1>3, <2>1, ChainTail DEF InLine
  <2>3. reqq' \in Seq(VecRecord)
    BY <1>3, <2>1, HeadTailProperties
  <2>4. /\ Tail(InLine) \in Seq(VecRecord) /\ Len(Tail(InLine)) = Len(InLine) - 1
        /\ \A n \in DOMAIN Tail(InLine) : n \in Nat /\ n + 1 \in DOMAIN InLine /\ Tail(InLine)[n] = InLine[n + 1]
    BY <1>2, <2>2, HeadTailProperties, TailAt
  <2>5. DOMAIN InLine' = 1 .. Len(InLine) - 1
    BY <2>2, <2>4, LenProperties
  <2>6. \A n \in DOMAIN InLine' : n \in Nat /\ n >= 1 /\ n + 1 \in DOMAIN InLine /\ InLine'[n] = InLine[n + 1] /\ n + 1 # 1
    BY <1>2, <2>2, <2>4, <2>5
  <2>7. ASSUME NEW n \in DOMAIN InLine', NEW b \in Front!Lba
        PROVE  (Pending(n, b)' <=> Pending(n + 1, b) /\ ~(n + 1 = 1 /\ b = c)) /\ (Writes(n, b)' <=> Writes(n + 1, b))
    <3>1. InLine'[n] = InLine[n + 1] /\ n + 1 # 1 /\ (n = 1 => InLine'[1] = InLine[n + 1])
      BY <2>6
    <3>2. Writes(n, b)' <=> Writes(n + 1, b)
      BY <3>1 DEF Writes, Front!Pages
    <3>3. Pending(n, b)' <=> b \in Front!Pages(InLine[n + 1]) /\ (n = 1 => b >= InLine[n + 1].pos + 0)
      BY <2>1, <3>1 DEF Pending, Front!Pages
    <3>4. b \in Front!Pages(InLine[n + 1]) => b >= InLine[n + 1].pos + 0
      <4>1. InLine[n + 1] \in VecRecord
        BY <2>6, FrontFacts DEF FrontInv
      <4>2. InLine[n + 1].pos \in Nat /\ InLine[n + 1].len \in Nat
        BY <4>1 DEF VecRecord
      <4> QED  BY <4>2 DEF Front!Pages
    <3> QED  BY <3>1, <3>2, <3>3, <3>4 DEF Pending
  <2>8. \A n \in DOMAIN InLine : n \in Nat /\ (n # 1 => n - 1 \in DOMAIN InLine')
    BY <1>2, <2>5
  <2>9. ASSUME NEW b \in Front!Lba, Pending(1, b) PROVE b = c
    <3>1. b \in Front!Pages(r) /\ b >= r.pos + done
      BY <1>1, <2>9 DEF Pending
    <3> QED  BY <1>1, <1>2, <1>3, <1>5, <3>1 DEF Front!Pages
  <2>10. Advanced(c, 1)
    BY <2>6, <2>7, <2>8, <2>9 DEF Advanced
  <2>11. Elems(InLine)' \subseteq Elems(InLine)
    BY <2>6 DEF Elems
  <2>12. reqq' # <<>> => Head(reqq').len > 0
    <3>1. reqq' # <<>> => Head(reqq') \in VecRecord
      BY <2>3, HeadTailProperties
    <3> QED  BY <3>1 DEF VecRecord
  <2> QED  BY <2>1, <2>3, <2>10, <2>11, <2>12
<1> QED  BY <1>4, <1>5

LEMMA IssuedVersions ==
    ASSUME FrontInv, reqq # <<>>, NEW r, r = Head(reqq), NEW c, c = Front!Block, NEW k, Advanced(c, k),
           disk'.scanned = disk.scanned,
           \A b \in Front!Lba : Newest(b)' = IF r.op # "R" /\ b = c THEN r.ver[c] ELSE Newest(b)
    PROVE  FrontVersions'
<1>1. /\ r \in VecRecord /\ InLine[1] = r /\ 1 \in DOMAIN InLine
      /\ c \in Front!Pages(r) /\ c \in Front!Lba /\ Pending(1, c)
  BY FirstOfLine
<1>2. /\ k \in {0, 1}
      /\ \A n \in DOMAIN InLine' : /\ n \in Nat /\ n >= 1 /\ n + k \in DOMAIN InLine /\ InLine'[n] = InLine[n + k]
                                   /\ \A b \in Front!Lba : /\ Pending(n, b)' <=> Pending(n + k, b) /\ ~(n + k = 1 /\ b = c)
                                                           /\ Writes(n, b)' <=> Writes(n + k, b)
      /\ \A n \in DOMAIN InLine : n \in Nat /\ (n # 1 \/ k = 0 => n - k \in DOMAIN InLine')
      /\ \A b \in Front!Lba : Pending(1, b) /\ b # c => k = 0
  BY DEF Advanced
<1> SUFFICES ASSUME NEW b \in Front!Lba
             PROVE  /\ \A n \in DOMAIN InLine' :
                         /\ InLine'[n].ver[b] <= disk.scanned[b] + 1
                         /\ Writes(n, b)' => InLine'[n].ver[b] <= disk.scanned[b]
                         /\ Writes(n, b)' /\ Pending(n, b)' => InLine'[n].ver[b] > Newest(b)'
                    /\ \A m, n \in DOMAIN InLine' : m < n =>
                         /\ InLine'[m].ver[b] <= InLine'[n].ver[b]
                         /\ Writes(m, b)' => InLine'[m].ver[b] < InLine'[n].ver[b]
                    /\ Newest(b)' <= disk.scanned[b]
                    /\ \A v \in Nat : Newest(b)' < v /\ v <= disk.scanned[b] =>
                         \E n \in DOMAIN InLine' : Writes(n, b)' /\ Pending(n, b)' /\ InLine'[n].ver[b] = v
  BY DEF FrontVersions
<1>3. disk.scanned[b] \in Nat /\ Newest(b) \in Nat /\ \A n \in DOMAIN InLine : InLine[n].ver[b] \in Nat
  <2>1. \A n \in DOMAIN InLine : InLine[n] \in VecRecord
    BY FrontFacts DEF FrontInv
  <2>2. \A n \in DOMAIN InLine : InLine[n].ver[b] \in Nat
    BY <2>1 DEF VecRecord
  <2>3. disk.scanned[b] \in Nat
    BY DEF FrontInv, FrontTypeOK, Disks, Buffers
  <2> QED  BY <2>2, <2>3, FrontFacts DEF FrontInv
<1>4. /\ \A n \in DOMAIN InLine :
           /\ InLine[n].ver[b] <= disk.scanned[b] + 1
           /\ Writes(n, b) => InLine[n].ver[b] <= disk.scanned[b]
           /\ Writes(n, b) /\ Pending(n, b) => InLine[n].ver[b] > Newest(b)
      /\ \A m, n \in DOMAIN InLine : m < n =>
           /\ InLine[m].ver[b] <= InLine[n].ver[b]
           /\ Writes(m, b) => InLine[m].ver[b] < InLine[n].ver[b]
      /\ Newest(b) <= disk.scanned[b]
      /\ \A v \in Nat : Newest(b) < v /\ v <= disk.scanned[b] =>
           \E n \in DOMAIN InLine : Writes(n, b) /\ Pending(n, b) /\ InLine[n].ver[b] = v
  BY DEF FrontInv, FrontVersions
<1>5. Writes(1, b) <=> r.op # "R" /\ b \in Front!Pages(r)
  BY <1>1 DEF Writes
<1>6. PICK x : x = Newest(b)'
  OBVIOUS
<1>7. /\ x = IF r.op # "R" /\ b = c THEN r.ver[b] ELSE Newest(b)
      /\ x \in Nat /\ Newest(b) <= x /\ x <= disk.scanned[b]
  <2>1. x = IF r.op # "R" /\ b = c THEN r.ver[b] ELSE Newest(b)
    BY <1>6
  <2>2. r.op # "R" /\ b = c => Writes(1, b) /\ Pending(1, b)
    BY <1>1, <1>5
  <2> QED  BY <1>1, <1>3, <1>4, <2>1, <2>2
<1>8. ASSUME NEW n \in DOMAIN InLine'
      PROVE  /\ InLine'[n].ver[b] <= disk.scanned[b] + 1
             /\ Writes(n, b)' => InLine'[n].ver[b] <= disk.scanned[b]
             /\ Writes(n, b)' /\ Pending(n, b)' => InLine'[n].ver[b] > x
  <2>1. PICK m \in DOMAIN InLine : m = n + k
    BY <1>2
  <2>2. InLine'[n] = InLine[m] /\ (Writes(n, b)' <=> Writes(m, b)) /\ (Pending(n, b)' <=> Pending(m, b) /\ ~(m = 1 /\ b = c))
        /\ m \in Nat /\ m >= 1
    BY <1>2, <2>1
  <2>3. ASSUME Writes(m, b), Pending(m, b), ~(m = 1 /\ b = c) PROVE InLine[m].ver[b] > x
    <3>1. CASE r.op # "R" /\ b = c
      <4>1. 1 < m /\ Writes(1, b)
        BY <1>1, <1>5, <2>2, <2>3, <3>1
      <4>2. InLine[1].ver[b] < InLine[m].ver[b]
        BY <1>1, <1>4, <4>1
      <4> QED  BY <1>1, <1>3, <1>7, <3>1, <4>2
    <3>2. CASE ~(r.op # "R" /\ b = c)
      BY <1>4, <1>7, <2>3, <3>2
    <3> QED  BY <3>1, <3>2
  <2> QED  BY <1>4, <2>2, <2>3
<1>9. ASSUME NEW m \in DOMAIN InLine', NEW n \in DOMAIN InLine', m < n
      PROVE  /\ InLine'[m].ver[b] <= InLine'[n].ver[b]
             /\ Writes(m, b)' => InLine'[m].ver[b] < InLine'[n].ver[b]
  <2>1. PICK i \in DOMAIN InLine : i = m + k
    BY <1>2
  <2>2. PICK j \in DOMAIN InLine : j = n + k
    BY <1>2
  <2>3. i < j
    BY <1>2, <1>9, <2>1, <2>2
  <2> QED  BY <1>2, <1>4, <2>1, <2>2, <2>3
<1>10. ASSUME NEW v \in Nat, x < v /\ v <= disk.scanned[b]
       PROVE  \E n \in DOMAIN InLine' : Writes(n, b)' /\ Pending(n, b)' /\ InLine'[n].ver[b] = v
  <2>1. PICK n \in DOMAIN InLine : Writes(n, b) /\ Pending(n, b) /\ InLine[n].ver[b] = v
    BY <1>3, <1>4, <1>7, <1>10
  <2>2. ~(n = 1 /\ b = c)
    <3>1. n = 1 /\ b = c => r.op # "R" /\ x = v
      BY <1>1, <1>5, <1>7, <2>1
    <3> QED  BY <1>7, <1>10, <3>1
  <2>3. n # 1 \/ k = 0
    BY <1>2, <2>1, <2>2
  <2>4. PICK m \in DOMAIN InLine' : m = n - k
    BY <1>2, <2>3
  <2>5. m + k = n
    BY <1>2, <2>4
  <2>6. Writes(m, b)' /\ Pending(m, b)' /\ InLine'[m].ver[b] = v
    BY <1>2, <2>1, <2>2, <2>5
  <2> QED  BY <2>6
<1> QED  BY <1>6, <1>7, <1>8, <1>9, <1>10

LEMMA IssuedReads ==
    ASSUME FrontInv, reqq # <<>>, NEW r, r = Head(reqq), NEW c, c = Front!Block, NEW k, Advanced(c, k),
           Elems(InLine)' \subseteq Elems(InLine), slot' = slot,
           NEW v, flight' = flight \cup {[r |-> r, b |-> c, ver |-> v]}
    PROVE  FrontReads'
<1>1. /\ r \in VecRecord /\ InLine[1] = r /\ 1 \in DOMAIN InLine /\ r \in Elems(InLine)
      /\ c = r.pos + done /\ done \in Nat /\ r.pos \in Nat
  BY FirstOfLine DEF VecRecord
<1>2. /\ k \in {0, 1} /\ (k = 0 => done' = done + 1 /\ InLine' = InLine)
      /\ \A n \in DOMAIN InLine' : n \in Nat /\ n >= 1 /\ n + k \in DOMAIN InLine /\ InLine'[n] = InLine[n + k]
  BY DEF Advanced
<1>3. PICK e : e = [r |-> r, b |-> c, ver |-> v]
  OBVIOUS
<1>4. flight' = flight \cup {e} /\ e.r = r /\ e.b = c
  BY <1>3
<1>5. Elems(InLine)' \cup {f.r : f \in flight'} \subseteq Elems(InLine) \cup {f.r : f \in flight}
  BY <1>1, <1>4
<1> SUFFICES ASSUME NEW i \in Front!Slot
             PROVE  /\ \A q \in Elems(InLine)' \cup {f.r : f \in flight'} : ReadOf(q, i) =>
                         /\ slot[i].op = "R" /\ ~slot[i].send /\ ~slot[i].recv
                         /\ q.pos = slot[i].pos /\ q.len = slot[i].len
                         /\ \A b \in Front!Lba : slot[i].floor[b] < q.ver[b]
                    /\ \A m, n \in DOMAIN InLine' : ReadOf(InLine'[m], i) /\ ReadOf(InLine'[n], i) => m = n
                    /\ \A f \in flight' : \A n \in DOMAIN InLine' : ReadOf(f.r, i) /\ ReadOf(InLine'[n], i) =>
                         n = 1 /\ InLine'[1] = f.r /\ f.b < InLine'[1].pos + done'
                    /\ \A f, g \in flight' : ReadOf(f.r, i) /\ ReadOf(g.r, i) => f.r = g.r
  BY DEF FrontReads, ReadOf, Elems
<1>6. /\ \A q \in Elems(InLine) \cup {f.r : f \in flight} : ReadOf(q, i) =>
           /\ slot[i].op = "R" /\ ~slot[i].send /\ ~slot[i].recv
           /\ q.pos = slot[i].pos /\ q.len = slot[i].len
           /\ \A b \in Front!Lba : slot[i].floor[b] < q.ver[b]
      /\ \A m, n \in DOMAIN InLine : ReadOf(InLine[m], i) /\ ReadOf(InLine[n], i) => m = n
      /\ \A f \in flight : \A n \in DOMAIN InLine : ReadOf(f.r, i) /\ ReadOf(InLine[n], i) =>
           n = 1 /\ InLine[1] = f.r /\ f.b < InLine[1].pos + done
      /\ \A f, g \in flight : ReadOf(f.r, i) /\ ReadOf(g.r, i) => f.r = g.r
  BY DEF FrontInv, FrontReads
<1>7. ASSUME NEW m \in DOMAIN InLine', NEW n \in DOMAIN InLine', ReadOf(InLine'[m], i), ReadOf(InLine'[n], i)
      PROVE  m = n
  <2>1. m + k = n + k
    BY <1>2, <1>6, <1>7
  <2> QED  BY <1>2, <2>1
<1>8. ASSUME NEW f \in flight', NEW n \in DOMAIN InLine', ReadOf(f.r, i), ReadOf(InLine'[n], i)
      PROVE  n = 1 /\ InLine'[1] = f.r /\ f.b < InLine'[1].pos + done'
  <2>1. PICK m \in DOMAIN InLine : m = n + k
    BY <1>2
  <2>2. ReadOf(InLine[m], i) /\ n \in Nat /\ n >= 1
    BY <1>2, <1>8, <2>1
  <2>3. m = 1 /\ InLine[1] = f.r /\ (f.b < r.pos + done \/ f.b = r.pos + done)
    BY <1>1, <1>4, <1>6, <1>8, <2>2
  <2>4. k = 0 /\ n = 1
    BY <1>2, <2>1, <2>2, <2>3
  <2>5. CASE f = e
    BY <1>1, <1>2, <1>4, <2>3, <2>4, <2>5
  <2>6. CASE f \in flight
    <3>1. f.b \in Nat
      BY <2>6 DEF FrontInv, FrontTypeOK, Flying, Front!Lba
    <3> QED  BY <1>1, <1>2, <2>3, <2>4, <3>1
  <2> QED  BY <1>4, <2>5, <2>6
<1>9. ASSUME NEW f \in flight', NEW g \in flight', ReadOf(f.r, i), ReadOf(g.r, i) PROVE f.r = g.r
  BY <1>1, <1>4, <1>6, <1>9
<1>10. \A q \in Elems(InLine)' \cup {f.r : f \in flight'} : ReadOf(q, i) =>
           /\ slot[i].op = "R" /\ ~slot[i].send /\ ~slot[i].recv
           /\ q.pos = slot[i].pos /\ q.len = slot[i].len
           /\ \A b \in Front!Lba : slot[i].floor[b] < q.ver[b]
  BY <1>5, <1>6
<1> QED  BY <1>7, <1>8, <1>9, <1>10

LEMMA ReadIsFresh ==
    ASSUME FrontInv, reqq # <<>>, NEW r, r = Head(reqq), r.op = "R", NEW c, c = Front!Block
    PROVE  slot[r.slot].floor[c] <= Newest(c)
<1>1. /\ r \in VecRecord /\ InLine[1] = r /\ 1 \in DOMAIN InLine /\ r \in Elems(InLine) /\ c \in Front!Lba
  BY FirstOfLine
<1>2. r.slot \in Front!Slot /\ ReadOf(r, r.slot) /\ r.ver[c] \in Nat /\ r.ver[c] # 0
  BY <1>1 DEF VecRecord, ReadOf
<1>3. slot[r.slot].floor[c] < r.ver[c]
  BY <1>1, <1>2 DEF FrontInv, FrontReads
<1>4. slot[r.slot].floor[c] \in Int
  <2>1. slot[r.slot] \in SlotRecord
    BY <1>2 DEF FrontInv, FrontTypeOK, Disks, Buffers
  <2> QED  BY <1>1, <2>1, FrontOperators DEF SlotRecord, FrontContents
<1>5. Newest(c) \in Nat /\ disk.scanned[c] \in Nat
  BY <1>1, FrontFacts DEF FrontInv, FrontTypeOK, Disks, Buffers
<1>6. r.ver[c] - 1 <= Newest(c)
  <2> SUFFICES ASSUME Newest(c) < r.ver[c] - 1 PROVE FALSE
    BY <1>2, <1>5
  <2>1. r.ver[c] <= disk.scanned[c] + 1
    BY <1>1 DEF FrontInv, FrontVersions
  <2>2. PICK v \in Nat : v = r.ver[c] - 1
    BY <1>2
  <2>3. Newest(c) < v /\ v <= disk.scanned[c]
    BY <1>2, <1>5, <2>1, <2>2
  <2>4. PICK n \in DOMAIN InLine : Writes(n, c) /\ InLine[n].ver[c] = v
    BY <1>1, <2>3 DEF FrontInv, FrontVersions
  <2>5. n # 1
    BY <1>1, <2>4 DEF Writes
  <2>6. n \in Nat /\ 1 < n
    <3>1. DOMAIN InLine = 1 .. Len(InLine) /\ Len(InLine) \in Nat
      BY FrontFacts DEF FrontInv
    <3> QED  BY <2>5, <3>1
  <2>7. r.ver[c] <= v
    BY <1>1, <2>4, <2>6 DEF FrontInv, FrontVersions
  <2> QED  BY <1>2, <2>2, <2>7
<1> QED  BY <1>2, <1>3, <1>4, <1>5, <1>6

LEMMA IssuedBlocks ==
    ASSUME FrontInv, reqq # <<>>, NEW r, r = Head(reqq), NEW c, c = Front!Block, NEW k, Advanced(c, k),
           slot' = slot, gwb' = gwb, NEW v \in Nat, flight' = flight \cup {[r |-> r, b |-> c, ver |-> v]},
           r.op = "R" /\ ~gwb => v = Newest(c)
    PROVE  FrontBlocks'
<1>1. /\ r \in VecRecord /\ InLine[1] = r /\ 1 \in DOMAIN InLine /\ c \in Front!Pages(r) /\ c \in Front!Lba
  BY FirstOfLine
<1>2. /\ k \in {0, 1}
      /\ \A n \in DOMAIN InLine' : /\ n \in Nat /\ n >= 1 /\ n + k \in DOMAIN InLine /\ InLine'[n] = InLine[n + k]
                                   /\ \A b \in Front!Lba : Pending(n, b)' <=> Pending(n + k, b) /\ ~(n + k = 1 /\ b = c)
      /\ \A n \in DOMAIN InLine : n \in Nat /\ (n # 1 \/ k = 0 => n - k \in DOMAIN InLine')
      /\ \A b \in Front!Lba : Pending(1, b) /\ b # c => k = 0
  BY DEF Advanced
<1>3. PICK e : e = [r |-> r, b |-> c, ver |-> v]
  OBVIOUS
<1>4. flight' = flight \cup {e} /\ e.r = r /\ e.b = c /\ e.ver = v
  BY <1>3
<1> SUFFICES ASSUME ~gwb
             PROVE  /\ \A f \in flight' : f.r.op = "R" => f.ver >= slot[f.r.slot].floor[f.b]
                    /\ \A j \in Front!Slot : slot[j].op = "R" /\ ~slot[j].send =>
                         \A b \in Front!Pages(slot[j]) :
                            \/ \E n \in DOMAIN InLine' : ReadOf(InLine'[n], j) /\ Pending(n, b)'
                            \/ \E f \in flight' : ReadOf(f.r, j) /\ f.b = b
                            \/ slot[j].buf[b] >= slot[j].floor[b]
  BY DEF FrontBlocks, ReadOf, Front!Pages
<1>5. r.op = "R" => v >= slot[r.slot].floor[c]
  <2>1. r.op = "R" => slot[r.slot].floor[c] <= v
    BY ReadIsFresh
  <2> QED  BY <2>1
<1>6. \A f \in flight' : f.r.op = "R" => f.ver >= slot[f.r.slot].floor[f.b]
  BY <1>1, <1>4, <1>5 DEF FrontInv, FrontBlocks
<1>7. ASSUME NEW j \in Front!Slot, slot[j].op = "R" /\ ~slot[j].send, NEW b \in Front!Pages(slot[j])
      PROVE  \/ \E n \in DOMAIN InLine' : ReadOf(InLine'[n], j) /\ Pending(n, b)'
             \/ \E f \in flight' : ReadOf(f.r, j) /\ f.b = b
             \/ slot[j].buf[b] >= slot[j].floor[b]
  <2>1. \/ \E n \in DOMAIN InLine : ReadOf(InLine[n], j) /\ Pending(n, b)
        \/ \E f \in flight : ReadOf(f.r, j) /\ f.b = b
        \/ slot[j].buf[b] >= slot[j].floor[b]
    BY <1>7 DEF FrontInv, FrontBlocks
  <2>2. b \in Front!Lba
    <3>1. slot[j] \in SlotRecord /\ slot[j].pos + slot[j].len <= Blocks /\ Blocks \in Nat
      BY FrontAssumption DEF FrontInv, FrontTypeOK, Disks, Buffers
    <3>2. slot[j].pos \in Nat /\ slot[j].len \in Nat
      BY <3>1 DEF SlotRecord
    <3> QED  BY <3>1, <3>2 DEF Front!Pages, Front!Lba
  <2>3. ASSUME NEW n \in DOMAIN InLine, ReadOf(InLine[n], j), Pending(n, b)
        PROVE  \/ \E m \in DOMAIN InLine' : ReadOf(InLine'[m], j) /\ Pending(m, b)'
               \/ \E f \in flight' : ReadOf(f.r, j) /\ f.b = b
    <3>1. CASE n = 1 /\ b = c
      BY <1>1, <1>4, <2>3, <3>1
    <3>2. CASE ~(n = 1 /\ b = c)
      <4>1. n # 1 \/ k = 0
        BY <1>2, <2>2, <2>3, <3>2
      <4>2. PICK m \in DOMAIN InLine' : m = n - k
        BY <1>2, <4>1
      <4>3. m + k = n
        BY <1>2, <4>2
      <4>4. ReadOf(InLine'[m], j) /\ Pending(m, b)'
        BY <1>2, <2>2, <2>3, <3>2, <4>3
      <4> QED  BY <4>4
    <3> QED  BY <3>1, <3>2
  <2> QED  BY <1>4, <2>1, <2>3
<1> QED  BY <1>6, <1>7

LEMMA IssuedInv ==
    ASSUME FrontInv, reqq # <<>>, NEW r, r = Head(reqq), NEW c, c = Front!Block, Front!Advance,
           UNCHANGED <<gwb, slot, scan>>, NEW v \in Nat, Front!Issue(v), buffer' \in Buffers, FrontBuffers',
           disk' \in [scanned : [Front!Lba -> Nat], acked : [Front!Lba -> Nat], ftl : [Front!Lba -> Nat]],
           disk'.scanned = disk.scanned, disk'.acked = disk.acked,
           \A b \in Front!Lba : Newest(b)' = IF r.op # "R" /\ b = c THEN r.ver[c] ELSE Newest(b),
           r.op = "R" /\ ~gwb => v = Newest(c)
    PROVE  FrontInv'
<1>1. r \in VecRecord /\ c \in Front!Lba
  BY FirstOfLine
<1>2. /\ reqq' \in Seq(VecRecord) /\ done' \in Nat /\ Elems(InLine)' \subseteq Elems(InLine)
      /\ IF reqq' = <<>> THEN done' = 0 ELSE done' < Head(reqq').len
  BY AdvanceLine
<1>3. PICK k : Advanced(c, k)
  BY AdvanceLine
<1>4. flight' = flight \cup {[r |-> r, b |-> c, ver |-> v]}
  BY DEF Front!Issue, Front!Now
<1>5. FrontVersions'
  BY <1>3, IssuedVersions
<1>6. FrontReads'
  BY <1>2, <1>3, <1>4, IssuedReads
<1>7. FrontBlocks'
  BY <1>3, <1>4, IssuedBlocks
<1>8. FrontTypeOK'
  <2>1. PICK e \in Flying : e = [r |-> r, b |-> c, ver |-> v]
    BY <1>1 DEF Flying
  <2>2. flight \subseteq Flying /\ IsFiniteSet(flight)
    BY DEF FrontInv, FrontTypeOK, Disks, Buffers
  <2>3. IsFiniteSet(flight \cup {e})
    BY <2>2, FS_AddElement
  <2>4. flight' \subseteq Flying /\ IsFiniteSet(flight')
    BY <1>4, <2>1, <2>2, <2>3
  <2> QED  BY <1>2, <2>4 DEF FrontInv, FrontTypeOK, Disks, Buffers
<1>9. FrontLine'
  <2>1. \A n \in DOMAIN InLine' : n + k \in DOMAIN InLine /\ InLine'[n] = InLine[n + k]
    BY <1>3 DEF Advanced
  <2>2. \A n \in DOMAIN InLine' : InLine'[n].pos + InLine'[n].len <= Blocks
    BY <2>1 DEF FrontInv, FrontLine
  <2>3. PICK e : e = [r |-> r, b |-> c, ver |-> v]
    OBVIOUS
  <2>4. e.b \in Front!Pages(e.r)
    BY <2>3, FirstOfLine
  <2>5. \A f \in flight' : f.b \in Front!Pages(f.r)
    BY <1>4, <2>3, <2>4 DEF FrontInv, FrontLine
  <2> QED  BY <1>2, <2>2, <2>5 DEF FrontLine, Front!Pages
<1>10. FrontSlots'
  BY DEF FrontInv, FrontSlots, Distinct
<1> QED  BY <1>5, <1>6, <1>7, <1>8, <1>9, <1>10 DEF FrontInv

LEMMA ReadBlockInv == ASSUME FrontInv, Front!ReadBlock PROVE FrontInv'
<1>1. /\ reqq # <<>> /\ Front!Advance /\ UNCHANGED <<gwb, slot, scan, buffer, disk, sends>>
      /\ Head(reqq).op = "R"
  BY DEF Front!ReadBlock, Front!Working, Front!Now
<1>2. PICK r : r = Head(reqq)
  OBVIOUS
<1>3. PICK c : c = Front!Block
  OBVIOUS
<1>4. PICK v : v = IF gwb THEN Front!OldFirst(c) ELSE disk.ftl[c]
  OBVIOUS
<1>5. Front!Issue(v) /\ c \in Front!Lba /\ FrontTypeOK /\ FrontBuffers
  BY <1>1, <1>3, <1>4, FirstOfLine DEF Front!ReadBlock, FrontInv
<1>6. /\ buffer \in Buffers /\ buffer.index \in {0, 1} /\ 1 - buffer.index \in {0, 1}
      /\ buffer.at[0] \in FrontContents /\ buffer.at[1] \in FrontContents
      /\ disk \in Disks /\ disk.ftl[c] \in Nat
  BY <1>5 DEF FrontTypeOK, Buffers, Disks
<1>7. v \in Nat
  <2>1. buffer.at[buffer.index][c] \in Nat \cup {Front!NoVer} /\ buffer.at[1 - buffer.index][c] \in Nat \cup {Front!NoVer}
    BY <1>5, <1>6 DEF FrontContents
  <2> QED  BY <1>4, <1>6, <2>1 DEF Front!OldFirst
<1>8. ~gwb => v = Newest(c)
  BY <1>4, <1>5, <1>6 DEF FrontBuffers, Newest
<1>9. \A b \in Front!Lba : Newest(b)' = Newest(b)
  BY <1>1 DEF Newest
<1>10. buffer' \in Buffers /\ FrontBuffers' /\ disk' \in Disks /\ disk'.scanned = disk.scanned /\ disk'.acked = disk.acked
  BY <1>1, <1>5, <1>6 DEF FrontBuffers
<1> QED  BY <1>1, <1>2, <1>3, <1>5, <1>7, <1>8, <1>9, <1>10, IssuedInv DEF Disks

LEMMA WriteFtlInv == ASSUME FrontInv, Front!WriteFtl PROVE FrontInv'
<1>1. PICK r : r = Head(reqq)
  OBVIOUS
<1>2. PICK c : c = Front!Block
  OBVIOUS
<1>3. /\ reqq # <<>> /\ Front!Advance /\ UNCHANGED <<gwb, slot, scan, buffer, sends>> /\ ~gwb
      /\ r.op # "R" /\ Front!Issue(r.ver[c]) /\ disk' = [disk EXCEPT !.ftl[c] = r.ver[c]]
  BY <1>1, <1>2 DEF Front!WriteFtl, Front!Working, Front!Now
<1>4. c \in Front!Lba /\ r \in VecRecord /\ FrontTypeOK /\ FrontBuffers
  BY <1>1, <1>2, <1>3, FirstOfLine DEF FrontInv
<1>5. PICK v \in Nat : v = r.ver[c]
  BY <1>4 DEF VecRecord
<1>6. buffer \in Buffers /\ disk \in Disks
  BY <1>4 DEF FrontTypeOK, Buffers, Disks
<1>7. /\ disk' \in Disks /\ disk'.scanned = disk.scanned /\ disk'.acked = disk.acked
      /\ disk'.ftl = [disk.ftl EXCEPT ![c] = v]
  BY <1>3, <1>4, <1>5, <1>6 DEF Disks
<1>8. \A b \in Front!Lba : Newest(b)' = IF b = c THEN v ELSE Newest(b)
  <2>1. buffer.index \in {0, 1} /\ 1 - buffer.index \in {0, 1} /\ disk.ftl \in [Front!Lba -> Nat]
    BY <1>6 DEF Buffers, Disks
  <2>2. \A b \in Front!Lba : buffer.at[buffer.index][b] = Front!NoVer /\ buffer.at[1 - buffer.index][b] = Front!NoVer
    BY <1>3, <1>4, <2>1 DEF FrontBuffers
  <2>3. \A b \in Front!Lba : disk'.ftl[b] = IF b = c THEN v ELSE disk.ftl[b]
    BY <1>4, <1>7, <2>1
  <2> QED  BY <1>3, <2>2, <2>3 DEF Newest
<1>9. buffer' \in Buffers /\ FrontBuffers'
  BY <1>3, <1>4, <1>6 DEF FrontBuffers
<1>10. \A b \in Front!Lba : Newest(b)' = IF r.op # "R" /\ b = c THEN r.ver[c] ELSE Newest(b)
  BY <1>3, <1>5, <1>8
<1>11. Front!Issue(v) /\ (r.op = "R" /\ ~gwb => v = Newest(c))
  BY <1>3, <1>5
<1>12. /\ disk' \in [scanned : [Front!Lba -> Nat], acked : [Front!Lba -> Nat], ftl : [Front!Lba -> Nat]]
       /\ disk'.scanned = disk.scanned /\ disk'.acked = disk.acked
  BY <1>7 DEF Disks
<1>13. reqq # <<>> /\ Front!Advance /\ UNCHANGED <<gwb, slot, scan>>
  BY <1>3
<1> QED  BY <1>1, <1>2, <1>9, <1>10, <1>11, <1>12, <1>13, IssuedInv

LEMMA WriteBufferInv == ASSUME FrontInv, Front!WriteBuffer PROVE FrontInv'
<1>1. PICK r : r = Head(reqq)
  OBVIOUS
<1>2. PICK c : c = Front!Block
  OBVIOUS
<1>3. PICK B : B = Front!PutBuffer(buffer, c, r.ver[c])
  OBVIOUS
<1>4. PICK w \in BOOLEAN : w <=> Front!Cardinality(Front!Entries(B.at[B.index])) = BufferSize
  OBVIOUS
<1>5. /\ reqq # <<>> /\ Front!Advance /\ UNCHANGED <<gwb, slot, scan, disk, sends>> /\ gwb
      /\ r.op = "W" /\ Front!Issue(r.ver[c]) /\ buffer' = [B EXCEPT !.waiting = w]
  <2>1. (Front!Cardinality(Front!Entries(B.at[B.index])) = BufferSize) = w
    BY <1>4
  <2> QED  BY <1>1, <1>2, <1>3, <2>1 DEF Front!WriteBuffer, Front!Working, Front!Now
<1>6. c \in Front!Lba /\ r \in VecRecord /\ FrontTypeOK /\ FrontBuffers
  BY <1>1, <1>2, <1>5, FirstOfLine DEF FrontInv
<1>7. PICK v \in Nat : v = r.ver[c]
  BY <1>6 DEF VecRecord
<1>8. buffer \in Buffers /\ disk \in Disks /\ buffer.index \in {0, 1} /\ 1 - buffer.index \in {0, 1}
      /\ 1 - buffer.index # buffer.index
  BY <1>6 DEF FrontTypeOK, Buffers, Disks
<1>9. PICK n \in {0, 1} : n = buffer.index
  BY <1>8
<1> DEFINE new == [buffer.at[n] EXCEPT ![c] = v]
<1>10. new \in FrontContents /\ \A b \in Front!Lba : new[b] = IF b = c THEN v ELSE buffer.at[n][b]
  <2>1. buffer.at[n] \in FrontContents
    BY <1>8, <1>9 DEF Buffers
  <2> QED  BY <1>6, <2>1 DEF FrontContents
<1>11. B = [buffer EXCEPT !.at = [buffer.at EXCEPT ![n] = new]]
  BY <1>3, <1>7, <1>8, <1>9 DEF Front!PutBuffer, Buffers
<1> HIDE DEF new
<1>12. PICK at : at = [buffer.at EXCEPT ![n] = new]
  OBVIOUS
<1>13. at \in [{0, 1} -> FrontContents] /\ at[n] = new /\ \A m \in {0, 1} : m # n => at[m] = buffer.at[m]
  <2>1. buffer.at \in [{0, 1} -> FrontContents]
    BY <1>8 DEF Buffers
  <2> QED  BY <1>9, <1>10, <1>12, <2>1
<1>14. B \in Buffers /\ B.at = at /\ B.index = buffer.index /\ B.job = buffer.job
  BY <1>8, <1>11, <1>12, <1>13 DEF Buffers
<1>15. buffer' \in Buffers /\ buffer'.at = at /\ buffer'.index = buffer.index /\ buffer'.job = buffer.job
  BY <1>4, <1>5, <1>14 DEF Buffers
<1>16. FrontBuffers'
  <2>1. at[1 - buffer.index] = buffer.at[1 - buffer.index]
    BY <1>8, <1>9, <1>13
  <2> QED  BY <1>5, <1>6, <1>15, <2>1 DEF FrontBuffers
<1>17. \A b \in Front!Lba : Newest(b)' = IF b = c THEN v ELSE Newest(b)
  <2>1. at[1 - buffer.index] = buffer.at[1 - buffer.index] /\ at[buffer.index] = new /\ buffer.at[buffer.index] = buffer.at[n]
    BY <1>8, <1>9, <1>13
  <2>2. v # Front!NoVer
    BY FrontOperators
  <2> QED  BY <1>5, <1>10, <1>15, <2>1, <2>2 DEF Newest
<1>18. disk' \in Disks /\ disk'.scanned = disk.scanned /\ disk'.acked = disk.acked
  BY <1>5, <1>8
<1>19. \A b \in Front!Lba : Newest(b)' = IF r.op # "R" /\ b = c THEN r.ver[c] ELSE Newest(b)
  BY <1>5, <1>7, <1>17
<1>20. Front!Issue(v) /\ (r.op = "R" /\ ~gwb => v = Newest(c))
  BY <1>5, <1>7
<1>21. /\ disk' \in [scanned : [Front!Lba -> Nat], acked : [Front!Lba -> Nat], ftl : [Front!Lba -> Nat]]
       /\ disk'.scanned = disk.scanned /\ disk'.acked = disk.acked
  BY <1>18 DEF Disks
<1>22. reqq # <<>> /\ Front!Advance /\ UNCHANGED <<gwb, slot, scan>>
  BY <1>5
<1>23. buffer' \in Buffers
  BY <1>15
<1> QED  BY <1>1, <1>2, <1>16, <1>19, <1>20, <1>21, <1>22, <1>23, IssuedInv

-----------------------------------------------------------------------------
(* A block ends.                                                           *)

\* The last block of a read ends when the line has no read of the slot and no
\* other block of it is on its way.
LEMMA LastBlock ==
    ASSUME FrontInv, NEW f \in flight, f.r.op = "R", NEW i, i = f.r.slot,
           Cardinality({g \in flight : g.r = f.r}) = 1, f.r \notin Elems(reqq)
    PROVE  /\ \A n \in DOMAIN InLine : ~ReadOf(InLine[n], i)
           /\ \A g \in flight : ReadOf(g.r, i) => g = f
<1>1. i \in Front!Slot /\ ReadOf(f.r, i) /\ f.r \in VecRecord /\ f.b \in Front!Pages(f.r)
  <2>1. f \in Flying
    BY DEF FrontInv, FrontTypeOK
  <2>2. f.r \in VecRecord
    BY <2>1 DEF Flying
  <2> QED  BY <2>2 DEF VecRecord, ReadOf, FrontInv, FrontLine
<1>2. ASSUME NEW n \in DOMAIN InLine, ReadOf(InLine[n], i) PROVE FALSE
  <2>1. InLine[1] = f.r /\ f.b < f.r.pos + done
    BY <1>1, <1>2 DEF FrontInv, FrontReads
  <2>2. CASE reqq = <<>>
    <3>1. done = 0 /\ f.r.pos \in Nat /\ f.r.len \in Nat
      BY <1>1, <2>2 DEF FrontInv, FrontLine, VecRecord
    <3> QED  BY <1>1, <2>1, <3>1 DEF Front!Pages
  <2>3. CASE reqq # <<>>
    <3>1. reqq \in Seq(VecRecord) /\ Head(reqq) = f.r
      BY <2>1, <2>3, FrontFacts DEF FrontInv, FrontTypeOK
    <3>2. Head(reqq) \in Elems(reqq)
      BY <2>3, <3>1, Dequeued
    <3> QED  BY <3>1, <3>2
  <2> QED  BY <2>2, <2>3
<1>3. ASSUME NEW g \in flight, ReadOf(g.r, i) PROVE g = f
  <2>1. PICK S : S = {h \in flight : h.r = f.r}
    OBVIOUS
  <2>2. f \in S /\ g \in S
    <3>1. g.r = f.r
      BY <1>1, <1>3 DEF FrontInv, FrontReads
    <3> QED  BY <2>1, <3>1
  <2>3. IsFiniteSet(flight) /\ S \subseteq flight /\ Cardinality(S) = 1
    BY <2>1 DEF FrontInv, FrontTypeOK
  <2>4. IsFiniteSet(S)
    BY <2>3, FS_Subset
  <2>5. \E x : S = {x}
    BY <2>3, <2>4, FS_Singleton
  <2> QED  BY <2>2, <2>5
<1> QED  BY <1>2, <1>3

LEMMA EndBlockInv == ASSUME FrontInv, NEW f \in flight, Front!EndBlock(f) PROVE FrontInv'
<1>1. PICK i : i = f.r.slot
  OBVIOUS
<1>2. PICK raise \in BOOLEAN :
        raise <=> f.r.op = "R" /\ Cardinality({g \in flight : g.r = f.r}) = 1 /\ f.r \notin Elems(reqq)
  OBVIOUS
<1>3. PICK put : put = IF f.r.op = "R" THEN [slot[i].buf EXCEPT ![f.b] = f.ver] ELSE slot[i].buf
  OBVIOUS
<1>4. /\ slot' = [slot EXCEPT ![i].buf = put, ![i].recv = slot[i].recv \/ raise]
      /\ flight' = flight \ {f} /\ UNCHANGED <<gwb, scan, reqq, done, buffer, disk, sends>>
  <2>1. Front!RaiseRecv(f.r.op, Front!Cardinality({g \in flight : g.r = f.r}) = 1 /\ f.r \notin Front!ToSet(reqq)) = raise
    BY <1>2, FrontOperators DEF Front!RaiseRecv
  <2> QED  BY <1>1, <1>3, <2>1 DEF Front!EndBlock
<1>5. /\ FrontTypeOK /\ FrontLine /\ FrontSlots /\ FrontBuffers /\ FrontVersions /\ FrontReads /\ FrontBlocks
      /\ slot \in [Front!Slot -> SlotRecord] /\ f \in Flying
  BY DEF FrontInv, FrontTypeOK
<1>6. f.r \in VecRecord /\ i \in Front!Slot /\ f.b \in Front!Lba /\ f.ver \in Nat
  BY <1>1, <1>5 DEF Flying, VecRecord
<1>7. slot[i] \in SlotRecord /\ slot[i].buf \in FrontContents
  BY <1>5, <1>6 DEF SlotRecord
<1>8. /\ put \in FrontContents
      /\ \A b \in Front!Lba : put[b] = IF f.r.op = "R" /\ b = f.b THEN f.ver ELSE slot[i].buf[b]
  BY <1>3, <1>6, <1>7 DEF FrontContents
<1> DEFINE e == [slot[i] EXCEPT !.buf = put, !.recv = slot[i].recv \/ raise]
<1>9. /\ e \in SlotRecord /\ e.send = slot[i].send /\ (e.recv <=> slot[i].recv \/ raise) /\ e.op = slot[i].op
      /\ e.pos = slot[i].pos /\ e.len = slot[i].len /\ e.floor = slot[i].floor /\ e.buf = put
  <2>1. (slot[i].recv \/ raise) \in BOOLEAN
    OBVIOUS
  <2> QED  BY <1>7, <1>8, <2>1 DEF SlotRecord
<1>10. slot' = [slot EXCEPT ![i] = e]
  BY <1>4, <1>5, <1>6, <1>7
<1> HIDE DEF e
<1>11. slot'[i] = e /\ slot' \in [Front!Slot -> SlotRecord] /\ \A j \in Front!Slot : j # i => slot'[j] = slot[j]
  BY <1>5, <1>6, <1>9, <1>10
<1>12. \A j \in Front!Slot : /\ slot'[j].send = slot[j].send /\ slot'[j].op = slot[j].op /\ slot'[j].pos = slot[j].pos
                             /\ slot'[j].len = slot[j].len /\ slot'[j].floor = slot[j].floor
                             /\ slot'[j].recv <=> slot[j].recv \/ (raise /\ j = i)
  BY <1>9, <1>11
<1>13. InLine' = InLine
  BY <1>4 DEF InLine
<1>14. raise => /\ \A n \in DOMAIN InLine : ~ReadOf(InLine[n], i)
                /\ \A g \in flight : ReadOf(g.r, i) => g = f
  BY <1>1, <1>2, LastBlock
<1>15. FrontTypeOK'
  <2>1. IsFiniteSet(flight)
    BY <1>5 DEF FrontTypeOK
  <2>2. IsFiniteSet(flight')
    BY <1>4, <2>1, FS_Subset
  <2>3. \A j \in Front!Slot : slot'[j].pos + slot'[j].len <= Blocks /\ (slot'[j].send => slot'[j].len # 0)
    BY <1>5, <1>12 DEF FrontTypeOK
  <2> QED  BY <1>4, <1>5, <1>11, <2>2, <2>3 DEF FrontTypeOK, Disks, Buffers
<1>16. FrontLine' /\ FrontBuffers'
  BY <1>4, <1>5, <1>13 DEF FrontLine, FrontBuffers, Front!Pages
<1>17. FrontVersions'
  <2>1. \A b \in Front!Lba : Newest(b)' = Newest(b)
    BY <1>4 DEF Newest
  <2> QED  BY <1>4, <1>5, <1>13, <2>1, VersionsKept
<1>18. FrontSlots'
  <2>1. \A n \in DOMAIN scan.order : scan.order[n] \in Front!Slot
    <3>1. scan.order \in Seq(Front!Slot)
      BY <1>5 DEF FrontTypeOK
    <3> QED  BY <3>1, LenProperties, ElementOfSeq
  <2>2. raise => ~slot[i].send
    <3>1. raise => ReadOf(f.r, i) /\ f.r \in {g.r : g \in flight}
      BY <1>1, <1>2 DEF ReadOf
    <3> QED  BY <1>5, <1>6, <3>1 DEF FrontReads
  <2>3. \A j \in Front!Slot : slot'[j].send => ~slot'[j].recv
    BY <1>5, <1>12, <2>2 DEF FrontSlots
  <2>4. Distinct(scan.order)' /\ \A n \in DOMAIN scan'.order : slot'[scan'.order[n]].send
    BY <1>4, <1>5, <1>12, <2>1 DEF FrontSlots, Distinct
  <2>5. \A j \in Front!Slot : slot'[j].op = "R" => \A b \in Front!Lba : slot'[j].floor[b] <= disk'.scanned[b]
    BY <1>4, <1>5, <1>12 DEF FrontSlots
  <2>6. \A b \in Front!Lba : disk'.acked[b] <= disk'.scanned[b]
    BY <1>4, <1>5 DEF FrontSlots
  <2> QED  BY <2>3, <2>4, <2>5, <2>6 DEF FrontSlots
<1>19. FrontReads'
  <2> SUFFICES ASSUME NEW j \in Front!Slot
               PROVE  /\ \A q \in Elems(InLine) \cup {g.r : g \in flight'} : ReadOf(q, j) =>
                           /\ slot'[j].op = "R" /\ ~slot'[j].send /\ ~slot'[j].recv
                           /\ q.pos = slot'[j].pos /\ q.len = slot'[j].len
                           /\ \A b \in Front!Lba : slot'[j].floor[b] < q.ver[b]
                      /\ \A m, n \in DOMAIN InLine : ReadOf(InLine[m], j) /\ ReadOf(InLine[n], j) => m = n
                      /\ \A g \in flight' : \A n \in DOMAIN InLine : ReadOf(g.r, j) /\ ReadOf(InLine[n], j) =>
                           n = 1 /\ InLine[1] = g.r /\ g.b < InLine[1].pos + done
                      /\ \A g, h \in flight' : ReadOf(g.r, j) /\ ReadOf(h.r, j) => g.r = h.r
    <3>1. done' = done
      BY <1>4
    <3> QED  BY <1>13, <3>1 DEF FrontReads, ReadOf, Elems
  <2>1. /\ \A q \in Elems(InLine) \cup {g.r : g \in flight} : ReadOf(q, j) =>
             /\ slot[j].op = "R" /\ ~slot[j].send /\ ~slot[j].recv
             /\ q.pos = slot[j].pos /\ q.len = slot[j].len
             /\ \A b \in Front!Lba : slot[j].floor[b] < q.ver[b]
        /\ \A m, n \in DOMAIN InLine : ReadOf(InLine[m], j) /\ ReadOf(InLine[n], j) => m = n
        /\ \A g \in flight : \A n \in DOMAIN InLine : ReadOf(g.r, j) /\ ReadOf(InLine[n], j) =>
             n = 1 /\ InLine[1] = g.r /\ g.b < InLine[1].pos + done
        /\ \A g, h \in flight : ReadOf(g.r, j) /\ ReadOf(h.r, j) => g.r = h.r
    BY <1>5 DEF FrontReads
  <2>2. ASSUME NEW q \in Elems(InLine) \cup {g.r : g \in flight'}, ReadOf(q, j) PROVE ~(raise /\ j = i)
    <3>1. CASE q \in Elems(InLine)
      BY <1>14, <2>2, <3>1 DEF Elems
    <3>2. CASE q \in {g.r : g \in flight'}
      BY <1>4, <1>14, <2>2, <3>2
    <3> QED  BY <2>2, <3>1, <3>2
  <2>3. \A q \in Elems(InLine) \cup {g.r : g \in flight'} : ReadOf(q, j) =>
           /\ slot'[j].op = "R" /\ ~slot'[j].send /\ ~slot'[j].recv
           /\ q.pos = slot'[j].pos /\ q.len = slot'[j].len
           /\ \A b \in Front!Lba : slot'[j].floor[b] < q.ver[b]
    <3>1. \A q \in Elems(InLine) \cup {g.r : g \in flight'} : q \in Elems(InLine) \cup {g.r : g \in flight}
      BY <1>4
    <3> QED  BY <1>12, <2>1, <2>2, <3>1
  <2>4. flight' \subseteq flight
    BY <1>4
  <2> QED  BY <2>1, <2>3, <2>4
<1>20. FrontBlocks'
  <2> SUFFICES ASSUME ~gwb
               PROVE  /\ \A g \in flight' : g.r.op = "R" => g.ver >= slot'[g.r.slot].floor[g.b]
                      /\ \A j \in Front!Slot : slot'[j].op = "R" /\ ~slot'[j].send =>
                           \A b \in Front!Pages(slot'[j]) :
                              \/ \E n \in DOMAIN InLine : ReadOf(InLine[n], j) /\ Pending(n, b)
                              \/ \E g \in flight' : ReadOf(g.r, j) /\ g.b = b
                              \/ slot'[j].buf[b] >= slot'[j].floor[b]
    <3>1. \A n, b : Pending(n, b)' <=> Pending(n, b)
      BY <1>4, <1>13, SameLine
    <3>2. gwb' = gwb
      BY <1>4
    <3> QED  BY <1>13, <3>1, <3>2 DEF FrontBlocks, ReadOf, Front!Pages
  <2>1. \A g \in flight : g.r.op = "R" => g.ver >= slot[g.r.slot].floor[g.b] /\ g.r.slot \in Front!Slot
    <3>1. \A g \in flight : g.r \in VecRecord
      BY <1>5 DEF FrontTypeOK, Flying
    <3> QED  BY <1>5, <3>1 DEF FrontBlocks, VecRecord
  <2>2. \A g \in flight' : g.r.op = "R" => g.ver >= slot'[g.r.slot].floor[g.b]
    BY <1>4, <1>12, <2>1
  <2>3. ASSUME NEW j \in Front!Slot, slot'[j].op = "R" /\ ~slot'[j].send, NEW b \in Front!Pages(slot'[j])
        PROVE  \/ \E n \in DOMAIN InLine : ReadOf(InLine[n], j) /\ Pending(n, b)
               \/ \E g \in flight' : ReadOf(g.r, j) /\ g.b = b
               \/ slot'[j].buf[b] >= slot'[j].floor[b]
    <3>1. slot[j].op = "R" /\ ~slot[j].send /\ b \in Front!Pages(slot[j])
      BY <1>12, <2>3 DEF Front!Pages
    <3>2. \/ \E n \in DOMAIN InLine : ReadOf(InLine[n], j) /\ Pending(n, b)
          \/ \E g \in flight : ReadOf(g.r, j) /\ g.b = b
          \/ slot[j].buf[b] >= slot[j].floor[b]
      BY <1>5, <3>1 DEF FrontBlocks
    <3>3. b \in Front!Lba
      <4>1. slot[j] \in SlotRecord /\ slot[j].pos + slot[j].len <= Blocks /\ Blocks \in Nat
        BY <1>5, FrontAssumption DEF FrontTypeOK
      <4>2. slot[j].pos \in Nat /\ slot[j].len \in Nat
        BY <4>1 DEF SlotRecord
      <4> QED  BY <3>1, <4>1, <4>2 DEF Front!Pages, Front!Lba
    <3>4. CASE ReadOf(f.r, j) /\ f.b = b
      <4>1. f.r.op = "R" /\ j = i
        BY <1>1, <3>4 DEF ReadOf
      <4>2. slot'[j].buf[b] = f.ver /\ slot'[j].floor = slot[j].floor
        BY <1>8, <1>9, <1>11, <3>3, <3>4, <4>1
      <4> QED  BY <1>1, <2>1, <3>4, <4>1, <4>2
    <3>5. CASE ~(ReadOf(f.r, j) /\ f.b = b)
      <4>1. slot'[j].buf[b] = slot[j].buf[b]
        <5>1. CASE j = i
          <6>1. ~(f.r.op = "R" /\ b = f.b)
            BY <1>1, <3>5, <5>1 DEF ReadOf
          <6> QED  BY <1>8, <1>9, <1>11, <3>3, <5>1, <6>1
        <5>2. CASE j # i
          BY <1>11, <5>2
        <5> QED  BY <5>1, <5>2
      <4> QED  BY <1>4, <1>12, <3>2, <3>5, <4>1
    <3> QED  BY <3>4, <3>5
  <2> QED  BY <2>2, <2>3
<1> QED  BY <1>15, <1>16, <1>17, <1>18, <1>19, <1>20 DEF FrontInv

-----------------------------------------------------------------------------
(* All steps, and what the invariant says of reads and buffers.            *)

LEMMA FrontKept == ASSUME FrontInv, UNCHANGED frontVars PROVE FrontInv'
<1>1. UNCHANGED <<gwb, slot, scan, reqq, done, flight, buffer, disk>>
  BY DEF frontVars
<1>2. InLine' = InLine
  BY <1>1 DEF InLine
<1>3. \A b \in Front!Lba : Newest(b)' = Newest(b)
  BY <1>1 DEF Newest
<1>4. FrontTypeOK'
  BY <1>1 DEF FrontInv, FrontTypeOK, Disks, Buffers
<1>5. FrontBuffers' /\ (reqq # <<>> => reqq' # <<>>) /\ disk'.scanned = disk.scanned /\ disk'.acked = disk.acked
  BY <1>1 DEF FrontInv, FrontBuffers
<1>6. Distinct(scan.order)' /\ \A n \in DOMAIN scan'.order : slot[scan'.order[n]].send
  BY <1>1 DEF FrontInv, FrontSlots, Distinct
<1> QED  BY <1>1, <1>2, <1>3, <1>4, <1>5, <1>6, FrontCalm

LEMMA FrontNext == ASSUME FrontInv, Front!NextFront \/ UNCHANGED frontVars PROVE FrontInv'
<1>1. CASE Front!Kernel
  BY <1>1, SendInv DEF Front!Kernel
<1>2. CASE Front!Scanner
  BY <1>2, ScanInv, TakeSlotInv, AssignInv DEF Front!Scanner
<1>3. CASE Front!MainThread
  BY <1>3, ReadBlockInv, WriteFtlInv, WriteBufferInv, SwitchInv DEF Front!MainThread
<1>4. CASE Front!FlushThread
  BY <1>4, StartFlushInv, FlushBlockInv DEF Front!FlushThread
<1>5. CASE Front!Device
  BY <1>5, EndBlockInv DEF Front!Device
<1>6. CASE UNCHANGED frontVars
  BY <1>6, FrontKept
<1> QED  BY <1>1, <1>2, <1>3, <1>4, <1>5, <1>6 DEF Front!NextFront

LEMMA ReadsFromInv == ASSUME FrontInv PROVE Front!AnsweredReadsFresh
<1> SUFFICES ASSUME NEW i \in Front!Slot, slot[i].op = "R", slot[i].recv, ~gwb, NEW b \in Front!Pages(slot[i])
             PROVE  slot[i].buf[b] >= slot[i].floor[b]
  BY DEF Front!AnsweredReadsFresh, Front!Answered, Front!Fresh
<1>1. ~slot[i].send
  BY DEF FrontInv, FrontSlots
<1>2. \A q \in Elems(InLine) \cup {f.r : f \in flight} : ~ReadOf(q, i)
  BY DEF FrontInv, FrontReads
<1>3. \/ \E n \in DOMAIN InLine : ReadOf(InLine[n], i) /\ Pending(n, b)
      \/ \E f \in flight : ReadOf(f.r, i) /\ f.b = b
      \/ slot[i].buf[b] >= slot[i].floor[b]
  BY <1>1 DEF FrontInv, FrontBlocks
<1> QED  BY <1>2, <1>3 DEF Elems

LEMMA NewestFromInv == ASSUME FrontInv PROVE Front!NewestKept
<1>1. /\ Len(InLine) \in Nat /\ DOMAIN InLine = 1 .. Len(InLine)
      /\ \A n \in DOMAIN InLine : InLine[n] \in VecRecord
      /\ Elems(InLine) = Elems(reqq) \cup Elems(scan.arr)
      /\ reqq # <<>> => InLine[1] = Head(reqq)
  BY FrontFacts DEF FrontInv
<1> SUFFICES ASSUME NEW b \in Front!Lba PROVE Front!Written(b) = Newest(b)
  BY DEF Front!NewestKept, Newest
<1>2. disk.scanned[b] \in Nat /\ Newest(b) \in Nat /\ b \in Nat /\ done \in Nat
  BY FrontFacts DEF FrontInv, FrontTypeOK, Disks
<1>3. PICK x \in Nat : x = Newest(b)
  BY <1>2
<1>4. PICK y \in Nat : y = disk.scanned[b]
  BY <1>2
<1>5. /\ \A n \in DOMAIN InLine : Writes(n, b) => InLine[n].ver[b] <= y
      /\ \A n \in DOMAIN InLine : Writes(n, b) /\ Pending(n, b) => InLine[n].ver[b] > x
      /\ \A m, n \in DOMAIN InLine : m < n /\ Writes(m, b) => InLine[m].ver[b] < InLine[n].ver[b]
      /\ x <= y
      /\ \A v \in Nat : x < v /\ v <= y => \E n \in DOMAIN InLine : Writes(n, b) /\ Pending(n, b) /\ InLine[n].ver[b] = v
  BY <1>3, <1>4 DEF FrontInv, FrontVersions
<1>6. \A n \in DOMAIN InLine : InLine[n].ver[b] \in Nat /\ n \in Nat
  BY <1>1 DEF VecRecord
<1> DEFINE P == {r \in Elems(reqq) \cup Elems(scan.arr) :
                   r.op # "R" /\ b \in Front!Pages(r) /\ (reqq # <<>> /\ Head(reqq) = r => b >= Head(reqq).pos + done)}
<1>7. Front!Written(b) = y - Cardinality(P)
  BY <1>4, FrontOperators DEF Front!Written, Front!Now, Front!Block
<1>8. \A r \in P : \E n \in DOMAIN InLine : InLine[n] = r /\ Writes(n, b) /\ Pending(n, b)
  <2> SUFFICES ASSUME NEW r \in P PROVE \E n \in DOMAIN InLine : InLine[n] = r /\ Writes(n, b) /\ Pending(n, b)
    OBVIOUS
  <2>1. PICK n \in DOMAIN InLine : InLine[n] = r
    BY <1>1 DEF Elems
  <2>2. Writes(n, b)
    BY <2>1 DEF Writes
  <2>3. n = 1 => b >= InLine[1].pos + done
    <3>1. CASE reqq = <<>>
      <4>1. done = 0
        BY <3>1 DEF FrontInv, FrontLine
      <4>2. r.pos \in Nat /\ r.len \in Nat /\ b \in Front!Pages(r)
        BY <1>1, <2>1 DEF VecRecord
      <4>3. b >= r.pos + 0
        BY <1>2, <4>2 DEF Front!Pages
      <4> QED  BY <2>1, <4>1, <4>3
    <3>2. CASE reqq # <<>>
      BY <1>1, <2>1, <3>2
    <3> QED  BY <3>1, <3>2
  <2>4. Pending(n, b)
    BY <2>1, <2>3 DEF Pending
  <2> QED  BY <2>1, <2>2, <2>4
<1>9. \A n \in DOMAIN InLine : Writes(n, b) /\ Pending(n, b) => InLine[n] \in P
  <2> SUFFICES ASSUME NEW n \in DOMAIN InLine, Writes(n, b), Pending(n, b) PROVE InLine[n] \in P
    OBVIOUS
  <2>1. InLine[n] \in Elems(reqq) \cup Elems(scan.arr)
    BY <1>1 DEF Elems
  <2>2. ASSUME reqq # <<>>, Head(reqq) = InLine[n] PROVE b >= Head(reqq).pos + done
    <3>1. InLine[1] = InLine[n] /\ 1 \in DOMAIN InLine
      BY <1>1, <2>2, FirstOfLine
    <3>2. Writes(1, b)
      BY <3>1 DEF Writes
    <3>3. n = 1
      <4>1. ~(1 < n)
        BY <1>5, <1>6, <3>1, <3>2
      <4> QED  BY <1>1, <1>6, <4>1
    <3> QED  BY <1>1, <2>2, <3>3 DEF Pending
  <2> QED  BY <2>1, <2>2 DEF Writes
<1> HIDE DEF P
<1> DEFINE g == [r \in P |-> r.ver[b]]
<1>10. g \in [P -> x + 1 .. y]
  <2>1. ASSUME NEW r \in P PROVE r.ver[b] \in x + 1 .. y
    <3>1. PICK n \in DOMAIN InLine : InLine[n] = r /\ Writes(n, b) /\ Pending(n, b)
      BY <1>8
    <3>2. r.ver[b] \in Nat /\ r.ver[b] <= y /\ r.ver[b] > x
      BY <1>5, <1>6, <3>1
    <3> QED  BY <3>2
  <2> QED  BY <2>1
<1>11. \A r, s \in P : g[r] = g[s] => r = s
  <2> SUFFICES ASSUME NEW r \in P, NEW s \in P, r.ver[b] = s.ver[b] PROVE r = s
    OBVIOUS
  <2>1. PICK m \in DOMAIN InLine : InLine[m] = r /\ Writes(m, b)
    BY <1>8
  <2>2. PICK n \in DOMAIN InLine : InLine[n] = s /\ Writes(n, b)
    BY <1>8
  <2>3. ~(m < n) /\ ~(n < m)
    BY <1>5, <1>6, <2>1, <2>2
  <2>4. m = n
    BY <1>6, <2>3
  <2> QED  BY <2>1, <2>2, <2>4
<1>12. \A v \in x + 1 .. y : \E r \in P : g[r] = v
  <2> SUFFICES ASSUME NEW v \in x + 1 .. y PROVE \E r \in P : r.ver[b] = v
    OBVIOUS
  <2>1. v \in Nat /\ x < v /\ v <= y
    OBVIOUS
  <2>2. PICK n \in DOMAIN InLine : Writes(n, b) /\ Pending(n, b) /\ InLine[n].ver[b] = v
    BY <1>5, <2>1
  <2> QED  BY <1>9, <2>2
<1> HIDE DEF g
<1>13. g \in Bijection(P, x + 1 .. y)
  BY <1>10, <1>11, <1>12 DEF Bijection, Injection, Surjection, IsInjective
<1>14. ExistsBijection(x + 1 .. y, P)
  <2>1. ExistsBijection(P, x + 1 .. y)
    BY <1>13 DEF ExistsBijection
  <2> QED  BY <2>1, Fun_ExistsBijSymmetric
<1>15. IsFiniteSet(x + 1 .. y) /\ Cardinality(x + 1 .. y) = y - x
  <2>1. IsFiniteSet(x + 1 .. y) /\ Cardinality(x + 1 .. y) = IF x + 1 > y THEN 0 ELSE y - (x + 1) + 1
    BY FS_Interval
  <2> QED  BY <1>5, <2>1
<1>16. Cardinality(P) = y - x
  BY <1>14, <1>15, FS_Bijection
<1> QED  BY <1>3, <1>7, <1>16

\* For every number of slots, blocks and requests: in a build without the write
\* buffer, a read the kernel finds answered has all its blocks in its slot, each
\* at least as new as the writes answered before it was sent; in one with it, what
\* was written last is in the buffer being filled, else in the one being flushed,
\* else in the FTL.  For every queue depth, an FTL that never erases a block with
\* requests in progress reads a page as it was last written, from the device or
\* from the cache of the parallel unit manager; and for every number of slabs a
\* mapping page is read from its slab as it was put there.
THEOREM ReadsAlwaysFresh == ASSUME TrimsBusy = FALSE PROVE Spec => []AnsweredReadsFresh
<1> DEFINE Inv == (part = "front" => FrontInv) /\ (part = "pu" => PuInv) /\ (part = "slab" => SlabInv)
<1>1. Init => Inv
  BY FrontInit, PuInit, SlabInit DEF Init
<1>2. Inv /\ [Next]_vars => Inv'
  <2> SUFFICES ASSUME Inv, [Next]_vars  PROVE Inv'
    OBVIOUS
  <2>0. part' = part
    BY DEF Next, vars
  <2>1. part = "front" => Front!NextFront \/ UNCHANGED frontVars
    BY DEF Next, vars
  <2>2. part = "pu" => Pu!NextPu \/ UNCHANGED puVars
    BY DEF Next, vars
  <2>3. part = "slab" => Slabs!NextSlabs \/ UNCHANGED slabVars
    BY DEF Next, vars
  <2>4. part = "front" => FrontInv'
    BY <2>1, FrontNext
  <2>5. part = "pu" => PuInv'
    BY <2>2, PuNext
  <2>6. part = "slab" => SlabInv'
    BY <2>3, SlabNext
  <2> QED  BY <2>0, <2>4, <2>5, <2>6
<1>3. Inv => AnsweredReadsFresh
  BY ReadsFromInv, NewestFromInv, PuFromInv, SlabsFromInv DEF AnsweredReadsFresh
<1> QED  BY <1>1, <1>2, <1>3, PTL DEF Spec
=============================================================================
