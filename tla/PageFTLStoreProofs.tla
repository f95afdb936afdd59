-------------------------- MODULE PageFTLStoreProofs --------------------------
(***************************************************************************)
(* The books of the block manager are exact in every reachable state of    *)
(* the page-mapping FTL: IInv /\ BooksInv is inductive, and BooksExact      *)
(* follows from it.  The FTL loses no write and the device queue never     *)
(* makes the device abort, for every geometry, key set and queue capacity: *)
(* IInv /\ BooksInv /\ StoreInv is inductive as long as a load brings the   *)
(* contents of the pages back.                                             *)
(***************************************************************************)
EXTENDS PageFTLProofs, FiniteSetTheorems

USE GeometryAssumption, KeyAssumption, NoneAssumption, QueueAssumption,
    RoomAssumption, LoadAssumption

-----------------------------------------------------------------------------
(* The counters of the bitmap.                                             *)

(* There are finitely many pieces, so the bits of a block can be counted.   *)
LEMMA PieceFinite == IsFiniteSet(Piece) /\ IsFiniteSet(Block)
<1> DEFINE P == 0 .. PPB - 1
           S == (Seg \X Block) \X P
           f == [x \in S |-> <<x[1][1], x[1][2], x[2]>>]
<1>1. /\ IsFiniteSet(Seg) /\ IsFiniteSet(Block)
      /\ IsFiniteSet(Off) /\ IsFiniteSet(P)
  <2>1. 0 \in Int /\ NOS - 1 \in Int /\ BPS - 1 \in Int /\ L2PGAP - 1 \in Int
        /\ PPB - 1 \in Int
    OBVIOUS
  <2> QED  BY <2>1, FS_Interval, Zenon DEF Seg, Block, Off
<1>2. IsFiniteSet(S)
  <2>1. IsFiniteSet(Seg \X Block)
    BY <1>1, FS_Product
  <2> HIDE DEF P
  <2> QED  BY <1>1, <2>1, FS_Product
<1>3. f \in Surjection(S, Ppa)
  <2>1. f \in [S -> Ppa]
    BY DEF Ppa
  <2>2. ASSUME NEW q \in Ppa
        PROVE  \E x \in S : f[x] = q
    <3>1. q[1] \in Seg /\ q[2] \in Block /\ q[3] \in P /\ q = <<q[1], q[2], q[3]>>
      BY DEF Ppa
    <3> DEFINE x == <<<<q[1], q[2]>>, q[3]>>
    <3>2. x \in S /\ f[x] = q
      BY <3>1
    <3> QED  BY <3>2
  <2> QED  BY <2>1, <2>2 DEF Surjection
<1>4. IsFiniteSet(Ppa)
  <2> HIDE DEF f, S
  <2> QED  BY <1>2, <1>3, FS_Surjection
<1> QED  BY <1>1, <1>4, FS_Product DEF Piece

(* The parts of the bitmap that the counters count are finite.              *)
LEMMA PartsFinite ==
    ASSUME bits \subseteq Piece
    PROVE  /\ \A b : IsFiniteSet({p \in bits : PieceBlock(p) = b})
           /\ \A s : IsFiniteSet({p \in bits : PieceSeg(p) = s})
           /\ \A s : IsFiniteSet({c \in Block : bfull[<<s, c>>]})
<1>1. \A b : {p \in bits : PieceBlock(p) = b} \in SUBSET Piece
  OBVIOUS
<1>2. \A s : {p \in bits : PieceSeg(p) = s} \in SUBSET Piece
  OBVIOUS
<1>3. \A s : {c \in Block : bfull[<<s, c>>]} \in SUBSET Block
  OBVIOUS
<1> QED  BY <1>1, <1>2, <1>3, PieceFinite, FS_Subset

(* A finite set with an element added or taken out has one element more or  *)
(* one less.                                                               *)
LEMMA OneElement ==
    ASSUME NEW S, IsFiniteSet(S), NEW x
    PROVE  /\ x \notin S => Cardinality(S \cup {x}) = Cardinality(S) + 1
           /\ x \in S => Cardinality(S \ {x}) = Cardinality(S) - 1
           /\ x \in S => Cardinality(S) # 0
           /\ Cardinality(S) \in Nat
BY FS_AddElement, FS_RemoveElement, FS_CardinalityType, FS_EmptySet

(* Two disjoint finite sets together.                                      *)
LEMMA DisjointCount ==
    ASSUME NEW S, IsFiniteSet(S), NEW T, IsFiniteSet(T), S \cap T = {}
    PROVE  Cardinality(S \cup T) = Cardinality(S) + Cardinality(T)
<1>1. Cardinality(S \cap T) = 0 /\ Cardinality(S) \in Nat /\ Cardinality(T) \in Nat
  BY FS_EmptySet, FS_CardinalityType
<1>2. Cardinality(S \cup T) = Cardinality(S) + Cardinality(T) - Cardinality(S \cap T)
  BY FS_Union
<1> QED  BY <1>1, <1>2

\* The blocks of a segment that a flag per block marks.
Marked(f, s) == {x \in Block : f[<<s, x>>]}
\* Two flags per block agree on all blocks but one.
Agree(f, g, b) == \A d \in Seg \X Block : d # b => (g[d] <=> f[d])

(* A block that becomes, or stops being, full of invalid pieces changes the *)
(* number of such blocks of its segment by one and of no other segment.     *)
LEMMA FullBlocksMoved ==
    ASSUME NEW f \in [Seg \X Block -> BOOLEAN], NEW g \in [Seg \X Block -> BOOLEAN],
           NEW s \in Seg, NEW c \in Block, Agree(f, g, <<s, c>>)
    PROVE  /\ \A t \in Seg : t # s =>
                 Marked(g, t) = Marked(f, t)
           /\ (g[<<s, c>>] <=> f[<<s, c>>]) =>
                 Marked(g, s) = Marked(f, s)
           /\ f[<<s, c>>] /\ ~g[<<s, c>>] =>
                 Cardinality(Marked(g, s))
                    = Cardinality(Marked(f, s)) - 1
           /\ ~f[<<s, c>>] /\ g[<<s, c>>] =>
                 Cardinality(Marked(g, s))
                    = Cardinality(Marked(f, s)) + 1
<1> DEFINE F(t) == {x \in Block : f[<<t, x>>]}
           G(t) == {x \in Block : g[<<t, x>>]}
<1>1. \A t \in Seg, x \in Block : <<t, x>> # <<s, c>> => (g[<<t, x>>] <=> f[<<t, x>>])
  BY DEF Agree
<1>2. \A t \in Seg : t # s => G(t) = F(t)
  BY <1>1
<1>3. IsFiniteSet(F(s)) /\ IsFiniteSet(G(s))
  <2>1. F(s) \in SUBSET Block /\ G(s) \in SUBSET Block
    OBVIOUS
  <2> HIDE DEF F, G
  <2> QED  BY <2>1, PieceFinite, FS_Subset
<1>4. ASSUME f[<<s, c>>], ~g[<<s, c>>]
      PROVE  Cardinality(G(s)) = Cardinality(F(s)) - 1
  <2>1. c \in F(s) /\ G(s) = F(s) \ {c}
    BY <1>1, <1>4
  <2> HIDE DEF F, G
  <2> QED  BY <1>3, <2>1, OneElement
<1>5. ASSUME ~f[<<s, c>>], g[<<s, c>>]
      PROVE  Cardinality(G(s)) = Cardinality(F(s)) + 1
  <2>1. c \notin F(s) /\ G(s) = F(s) \cup {c}
    BY <1>1, <1>5
  <2> HIDE DEF F, G
  <2> QED  BY <1>3, <2>1, OneElement
<1>6. (g[<<s, c>>] <=> f[<<s, c>>]) => G(s) = F(s)
  BY <1>1
<1> QED  BY <1>2, <1>4, <1>5, <1>6 DEF Marked

(* validate_ppa on a page with no valid piece: the counters follow the bits, *)
(* and a block that was full of invalid pieces no longer is.                *)
LEMMA PageValidated ==
    ASSUME BMTypeOK, CountersExact, NEW ppa \in Ppa, NEW n \in 1 .. L2PGAP,
           \A p \in bits : p[1] # ppa, BitSetPage(ppa, n)
    PROVE  CountersExact'
<1> DEFINE s == ppa[1]
           c == ppa[2]
           b == <<s, c>>
           new == PiecesOf(ppa, n)
           B(d) == {p \in bits : PieceBlock(p) = d}
           B1(d) == {p \in bits' : PieceBlock(p) = d}
           S(t) == {p \in bits : PieceSeg(p) = t}
           S1(t) == {p \in bits' : PieceSeg(p) = t}
<1>1. s \in Seg /\ c \in Block /\ b \in Seg \X Block /\ ppa = <<s, c, ppa[3]>>
  BY DEF Ppa
<1>2. /\ bits \subseteq Piece /\ bits' = bits \cup new
      /\ \A p \in new : PieceBlock(p) = b /\ PieceSeg(p) = s /\ p \notin bits
  BY DEF BMTypeOK, BitSetPage, PiecesOf, PieceBlock, PieceSeg, SegOf
<1>3. IsFiniteSet(new) /\ Cardinality(new) = n
  <2>1. IsFiniteSet({ppa}) /\ Cardinality({ppa}) = 1
    BY FS_Singleton
  <2>2. 0 \in Int /\ n - 1 \in Int
    OBVIOUS
  <2>3. IsFiniteSet(0 .. n - 1)
        /\ Cardinality(0 .. n - 1) = IF 0 > n - 1 THEN 0 ELSE (n - 1) - 0 + 1
    BY <2>2, FS_Interval
  <2>4. Cardinality(0 .. n - 1) = n /\ n \in Nat
    BY <2>3
  <2>5. IsFiniteSet(new) /\ Cardinality(new) = Cardinality({ppa}) * Cardinality(0 .. n - 1)
    BY <2>1, <2>3, FS_Product, Zenon DEF PiecesOf
  <2> QED  BY <2>1, <2>4, <2>5
<1>4. /\ \A d : IsFiniteSet(B(d)) /\ Cardinality(B(d)) \in Nat
      /\ \A t : IsFiniteSet(S(t)) /\ Cardinality(S(t)) \in Nat
  BY <1>2, PartsFinite, FS_CardinalityType
<1>5. \A d \in Seg \X Block :
        Cardinality(B1(d)) = Cardinality(B(d)) + IF d = b THEN n ELSE 0
  <2> TAKE d \in Seg \X Block
  <2>1. CASE d = b
    <3>1. B1(d) = B(d) \cup new /\ B(d) \cap new = {}
      BY <1>2, <2>1
    <3>2. Cardinality(B1(d)) = Cardinality(B(d)) + n
      <4> HIDE DEF B, B1, new
      <4> QED  BY <1>3, <1>4, <3>1, DisjointCount
    <3> QED  BY <2>1, <3>2, Zenon
  <2>2. CASE d # b
    <3>1. B1(d) = B(d)
      BY <1>2, <2>2
    <3>2. Cardinality(B(d)) = Cardinality(B(d)) + 0
      <4> HIDE DEF B
      <4> QED  BY <1>4
    <3> QED  BY <2>2, <3>1, <3>2, Zenon
  <2> QED  BY <2>1, <2>2
<1>6. \A t \in Seg :
        Cardinality(S1(t)) = Cardinality(S(t)) + IF t = s THEN n ELSE 0
  <2> TAKE t \in Seg
  <2>1. CASE t = s
    <3>1. S1(t) = S(t) \cup new /\ S(t) \cap new = {}
      BY <1>2, <2>1
    <3>2. Cardinality(S1(t)) = Cardinality(S(t)) + n
      <4> HIDE DEF S, S1, new
      <4> QED  BY <1>3, <1>4, <3>1, DisjointCount
    <3> QED  BY <2>1, <3>2, Zenon
  <2>2. CASE t # s
    <3>1. S1(t) = S(t)
      BY <1>2, <2>2
    <3>2. Cardinality(S(t)) = Cardinality(S(t)) + 0
      <4> HIDE DEF S
      <4> QED  BY <1>4
    <3> QED  BY <2>2, <3>1, <3>2, Zenon
  <2> QED  BY <2>1, <2>2
<1>7. /\ \A d \in Seg \X Block :
           /\ bval[d] - binv[d] = Cardinality(B(d))
           /\ bfull[d] <=> (binv[d] # 0 /\ binv[d] = bval[d])
      /\ \A t \in Seg :
           /\ sval[t] - sinv[t] = Cardinality(S(t))
           /\ sfull[t] = Cardinality({x \in Block : bfull[<<t, x>>]})
  BY DEF CountersExact
<1> HIDE DEF B, B1, S, S1, new
<1>8. PICK revived \in BOOLEAN :
        /\ revived <=> (bfull[b] /\ \E j \in 1 .. n : binv[b] # bval[b] + j)
        /\ bval' = [bval EXCEPT ![b] = bval[b] + n]
        /\ sval' = [sval EXCEPT ![s] = sval[s] + n]
        /\ bfull' = [bfull EXCEPT ![b] = bfull[b] /\ ~revived]
        /\ sfull' = [sfull EXCEPT ![s] = IF revived THEN sfull[s] - 1 ELSE sfull[s]]
        /\ binv' = binv /\ sinv' = sinv
  BY Zenon DEF BitSetPage
<1>9. /\ bval \in [Seg \X Block -> Nat] /\ binv \in [Seg \X Block -> Nat]
      /\ bfull \in [Seg \X Block -> BOOLEAN]
      /\ sval \in [Seg -> Nat] /\ sinv \in [Seg -> Nat] /\ sfull \in [Seg -> Int]
  BY DEF BMTypeOK
<1>10. b = <<s, c>>
  OBVIOUS
<1> HIDE DEF s, c, b
<1>10a. /\ \A d \in Seg \X Block : bval'[d] = bval[d] + IF d = b THEN n ELSE 0
        /\ \A t \in Seg : sval'[t] = sval[t] + IF t = s THEN n ELSE 0
  <2>1. \A d \in Seg \X Block : bval'[d] = bval[d] + IF d = b THEN n ELSE 0
    <3> TAKE d \in Seg \X Block
    <3>1. bval'[d] = IF d = b THEN bval[b] + n ELSE bval[d]
      BY <1>1, <1>8, <1>9, Zenon
    <3>2. bval[d] \in Nat
      BY <1>9
    <3> QED  BY <3>1, <3>2
  <2>2. \A t \in Seg : sval'[t] = sval[t] + IF t = s THEN n ELSE 0
    BY <1>1, <1>8, <1>9
  <2> QED  BY <2>1, <2>2
<1>11. revived <=> bfull[b]
  <2>1. bfull[b] => binv[b] = bval[b] /\ binv[b] \in Nat /\ 1 \in 1 .. n
    BY <1>1, <1>7, <1>9
  <2> QED  BY <1>8, <2>1
<1>12. /\ \A d \in Seg \X Block : d # b => (bfull'[d] <=> bfull[d])
       /\ ~bfull'[b] /\ bfull' \in [Seg \X Block -> BOOLEAN]
  BY <1>1, <1>8, <1>9, <1>11
<1>13. \A d \in Seg \X Block :
          /\ bval'[d] - binv'[d] = Cardinality(B1(d))
          /\ bfull'[d] <=> (binv'[d] # 0 /\ binv'[d] = bval'[d])
  <2> TAKE d \in Seg \X Block
  <2>1. /\ bval[d] \in Nat /\ binv[d] \in Nat /\ binv'[d] = binv[d]
        /\ bval[d] - binv[d] \in Nat
    BY <1>4, <1>7, <1>8, <1>9
  <2>2. bval'[d] - binv'[d] = Cardinality(B1(d))
    BY <1>5, <1>7, <1>10a, <2>1
  <2>3. CASE d = b
    <3>1. binv'[d] # bval'[d]
      BY <1>10a, <2>1, <2>3
    <3> QED  BY <1>12, <2>2, <2>3, <3>1
  <2>4. CASE d # b
    <3>1. bval'[d] = bval[d]
      BY <1>10a, <2>1, <2>4
    <3> QED  BY <1>7, <1>12, <2>1, <2>2, <2>4, <3>1
  <2> QED  BY <2>3, <2>4
<1>14. \A t \in Seg : sval'[t] - sinv'[t] = Cardinality(S1(t))
  <2> TAKE t \in Seg
  <2>1. sval[t] \in Nat /\ sinv[t] \in Nat /\ sinv'[t] = sinv[t]
    BY <1>8, <1>9
  <2>2. Cardinality(S(t)) = sval[t] - sinv[t]
    BY <1>7
  <2>3. Cardinality(S1(t)) = (sval[t] - sinv[t]) + IF t = s THEN n ELSE 0
    BY <1>6, <2>2
  <2>4. sval'[t] = sval[t] + IF t = s THEN n ELSE 0
    BY <1>10a
  <2> QED  BY <2>1, <2>3, <2>4
<1>15. \A t \in Seg : sfull'[t] = Cardinality({x \in Block : bfull'[<<t, x>>]})
  <2> DEFINE F(t) == Marked(bfull, t)
             F1(t) == Marked(bfull', t)
  <2>1. /\ \A t \in Seg : t # s => F1(t) = F(t)
        /\ ~bfull[b] => F1(s) = F(s)
        /\ bfull[b] => Cardinality(F1(s)) = Cardinality(F(s)) - 1
    <3>1. PICK f \in [Seg \X Block -> BOOLEAN] : f = bfull'
      BY <1>12
    <3>2. Agree(bfull, f, <<s, c>>)
      BY <1>10, <1>12, <3>1 DEF Agree
    <3>3. /\ \A t \in Seg : t # s =>
                 Marked(f, t) = Marked(bfull, t)
          /\ (f[<<s, c>>] <=> bfull[<<s, c>>]) =>
                 Marked(f, s) = Marked(bfull, s)
          /\ bfull[<<s, c>>] /\ ~f[<<s, c>>] =>
                 Cardinality(Marked(f, s))
                    = Cardinality(Marked(bfull, s)) - 1
      <4>1. /\ f \in [Seg \X Block -> BOOLEAN] /\ bfull \in [Seg \X Block -> BOOLEAN]
            /\ s \in Seg /\ c \in Block
        BY <1>1, <1>9, <3>1
      <4>2. \A t \in Seg : t # s => Marked(f, t) = Marked(bfull, t)
        BY <3>2, <4>1, FullBlocksMoved, ZenonT(60)
      <4>3. (f[<<s, c>>] <=> bfull[<<s, c>>]) => Marked(f, s) = Marked(bfull, s)
        BY <3>2, <4>1, FullBlocksMoved, ZenonT(60)
      <4>4. bfull[<<s, c>>] /\ ~f[<<s, c>>] =>
               Cardinality(Marked(f, s)) = Cardinality(Marked(bfull, s)) - 1
        BY <3>2, <4>1, FullBlocksMoved, ZenonT(60)
      <4> QED  BY <4>2, <4>3, <4>4
    <3> QED  BY <1>10, <1>12, <3>1, <3>3
  <2>2. \A t \in Seg : sfull[t] = Cardinality(F(t)) /\ sfull[t] \in Int
    BY <1>7, <1>9 DEF Marked
  <2> HIDE DEF F, F1
  <2>3. \A t \in Seg :
           sfull'[t] = IF t = s /\ bfull[b] THEN sfull[t] - 1 ELSE sfull[t]
    BY <1>1, <1>8, <1>9, <1>11
  <2>4. \A t \in Seg : sfull'[t] = Cardinality(F1(t))
    BY <1>1, <2>1, <2>2, <2>3
  <2> QED  BY <2>4 DEF F1, Marked
<1> QED  BY <1>13, <1>14, <1>15 DEF CountersExact, B1, S1
(* sbm_bit_unset on a valid piece: its block had a valid piece, so it was    *)
(* not full of invalid ones, and is now exactly when that piece was the last. *)
LEMMA PieceDropped ==
    ASSUME BMTypeOK, CountersExact, NEW piece \in bits, BitUnset(piece)
    PROVE  CountersExact'
<1> DEFINE s == piece[1][1]
           c == piece[1][2]
           b == <<s, c>>
           B(d) == {p \in bits : PieceBlock(p) = d}
           B1(d) == {p \in bits' : PieceBlock(p) = d}
           S(t) == {p \in bits : PieceSeg(p) = t}
           S1(t) == {p \in bits' : PieceSeg(p) = t}
<1>1. /\ s \in Seg /\ c \in Block /\ b \in Seg \X Block
      /\ PieceBlock(piece) = b /\ PieceSeg(piece) = s
  BY PieceParts DEF BMTypeOK, PieceBlock, PieceSeg, SegOf
<1>2. bits \subseteq Piece /\ bits' = bits \ {piece}
  BY DEF BMTypeOK, BitUnset
<1>3. /\ \A d : IsFiniteSet(B(d)) /\ Cardinality(B(d)) \in Nat
      /\ \A t : IsFiniteSet(S(t)) /\ Cardinality(S(t)) \in Nat
  BY <1>2, PartsFinite, FS_CardinalityType
<1>4. /\ piece \in B(b) /\ piece \in S(s)
      /\ B1(b) = B(b) \ {piece} /\ \A d : d # b => B1(d) = B(d)
      /\ S1(s) = S(s) \ {piece} /\ \A t : t # s => S1(t) = S(t)
  BY <1>1, <1>2
<1>5. /\ \A d \in Seg \X Block :
           /\ bval[d] - binv[d] = Cardinality(B(d))
           /\ bfull[d] <=> (binv[d] # 0 /\ binv[d] = bval[d])
      /\ \A t \in Seg :
           /\ sval[t] - sinv[t] = Cardinality(S(t))
           /\ sfull[t] = Cardinality({x \in Block : bfull[<<t, x>>]})
  BY DEF CountersExact
<1> HIDE DEF B, B1, S, S1
<1>6. /\ Cardinality(B1(b)) = Cardinality(B(b)) - 1 /\ Cardinality(B(b)) # 0
      /\ Cardinality(S1(s)) = Cardinality(S(s)) - 1
  BY <1>3, <1>4, OneElement
<1>7. PICK died \in BOOLEAN :
        /\ died <=> (~bfull[b] /\ binv[b] + 1 = bval[b])
        /\ binv' = [binv EXCEPT ![b] = binv[b] + 1]
        /\ sinv' = [sinv EXCEPT ![s] = sinv[s] + 1]
        /\ bfull' = [bfull EXCEPT ![b] = bfull[b] \/ died]
        /\ sfull' = [sfull EXCEPT ![s] = IF died THEN sfull[s] + 1 ELSE sfull[s]]
        /\ bval' = bval /\ sval' = sval
  BY Zenon DEF BitUnset, PieceBlock, PieceSeg, SegOf
<1>8. /\ bval \in [Seg \X Block -> Nat] /\ binv \in [Seg \X Block -> Nat]
      /\ bfull \in [Seg \X Block -> BOOLEAN]
      /\ sval \in [Seg -> Nat] /\ sinv \in [Seg -> Nat] /\ sfull \in [Seg -> Int]
  BY DEF BMTypeOK
<1>9. b = <<s, c>>
  OBVIOUS
<1> HIDE DEF s, c, b
<1>10. /\ \A d \in Seg \X Block : binv'[d] = IF d = b THEN binv[d] + 1 ELSE binv[d]
       /\ \A t \in Seg : sinv'[t] = IF t = s THEN sinv[t] + 1 ELSE sinv[t]
       /\ \A d \in Seg \X Block : bval[d] \in Nat /\ binv[d] \in Nat
  BY <1>1, <1>7, <1>8, Zenon
<1>11. ~bfull[b]
  BY <1>1, <1>5, <1>6, <1>10
<1>12. /\ \A d \in Seg \X Block : d # b => (bfull'[d] <=> bfull[d])
       /\ bfull'[b] <=> died
       /\ bfull' \in [Seg \X Block -> BOOLEAN]
  BY <1>1, <1>7, <1>8, <1>11
<1>13. \A d \in Seg \X Block :
          /\ bval'[d] - binv'[d] = Cardinality(B1(d))
          /\ bfull'[d] <=> (binv'[d] # 0 /\ binv'[d] = bval'[d])
  <2> TAKE d \in Seg \X Block
  <2>1. /\ bval[d] \in Nat /\ binv[d] \in Nat /\ bval'[d] = bval[d]
        /\ bval[d] - binv[d] = Cardinality(B(d))
    BY <1>5, <1>7, <1>10
  <2>2. CASE d = b
    <3>1. binv'[d] = binv[d] + 1 /\ binv'[d] # 0
      BY <1>10, <2>1, <2>2
    <3>2. bval'[d] - binv'[d] = Cardinality(B1(d))
      BY <1>6, <2>1, <2>2, <3>1
    <3>3. died <=> binv'[d] = bval'[d]
      BY <1>7, <1>11, <2>1, <2>2, <3>1
    <3> QED  BY <1>12, <2>2, <3>1, <3>2, <3>3
  <2>3. CASE d # b
    <3>1. binv'[d] = binv[d] /\ B1(d) = B(d)
      BY <1>4, <1>10, <2>3
    <3> QED  BY <1>5, <1>12, <2>1, <2>3, <3>1
  <2> QED  BY <2>2, <2>3
<1>14. \A t \in Seg : sval'[t] - sinv'[t] = Cardinality(S1(t))
  <2> TAKE t \in Seg
  <2>1. /\ sval[t] \in Nat /\ sinv[t] \in Nat /\ sval'[t] = sval[t]
        /\ sval[t] - sinv[t] = Cardinality(S(t))
    BY <1>5, <1>7, <1>8
  <2>2. CASE t = s
    BY <1>6, <1>10, <2>1, <2>2
  <2>3. CASE t # s
    BY <1>4, <1>10, <2>1, <2>3
  <2> QED  BY <2>2, <2>3
<1>15. \A t \in Seg : sfull'[t] = Cardinality({x \in Block : bfull'[<<t, x>>]})
  <2> DEFINE F(t) == Marked(bfull, t)
             F1(t) == Marked(bfull', t)
  <2>1. /\ \A t \in Seg : t # s => F1(t) = F(t)
        /\ ~died => F1(s) = F(s)
        /\ died => Cardinality(F1(s)) = Cardinality(F(s)) + 1
    <3>1. PICK f \in [Seg \X Block -> BOOLEAN] : f = bfull'
      BY <1>12
    <3>2. Agree(bfull, f, <<s, c>>)
      BY <1>9, <1>12, <3>1 DEF Agree
    <3>3. /\ \A t \in Seg : t # s =>
                 Marked(f, t) = Marked(bfull, t)
          /\ (f[<<s, c>>] <=> bfull[<<s, c>>]) =>
                 Marked(f, s) = Marked(bfull, s)
          /\ ~bfull[<<s, c>>] /\ f[<<s, c>>] =>
                 Cardinality(Marked(f, s))
                    = Cardinality(Marked(bfull, s)) + 1
      <4>1. /\ f \in [Seg \X Block -> BOOLEAN] /\ bfull \in [Seg \X Block -> BOOLEAN]
            /\ s \in Seg /\ c \in Block
        BY <1>1, <1>8, <3>1
      <4>2. \A t \in Seg : t # s => Marked(f, t) = Marked(bfull, t)
        BY <3>2, <4>1, FullBlocksMoved, ZenonT(60)
      <4>3. (f[<<s, c>>] <=> bfull[<<s, c>>]) => Marked(f, s) = Marked(bfull, s)
        BY <3>2, <4>1, FullBlocksMoved, ZenonT(60)
      <4>4. ~bfull[<<s, c>>] /\ f[<<s, c>>] =>
               Cardinality(Marked(f, s)) = Cardinality(Marked(bfull, s)) + 1
        BY <3>2, <4>1, FullBlocksMoved, ZenonT(60)
      <4> QED  BY <4>2, <4>3, <4>4
    <3> QED  BY <1>9, <1>11, <1>12, <3>1, <3>3
  <2>2. \A t \in Seg : sfull[t] = Cardinality(F(t)) /\ sfull[t] \in Int
    BY <1>5, <1>8 DEF Marked
  <2> HIDE DEF F, F1
  <2>3. \A t \in Seg :
           sfull'[t] = IF t = s /\ died THEN sfull[t] + 1 ELSE sfull[t]
    BY <1>1, <1>7, <1>8
  <2>4. \A t \in Seg : sfull'[t] = Cardinality(F1(t))
    BY <1>1, <2>1, <2>2, <2>3
  <2> QED  BY <2>4 DEF F1, Marked
<1> QED  BY <1>13, <1>14, <1>15 DEF CountersExact, B1, S1

(* blockmanager_full_invalid_check finds nothing to correct.                *)
LEMMA TargetTaken ==
    ASSUME BMTypeOK, CountersExact, NEW s \in heap, GetGcTarget(s)
    PROVE  CountersExact'
<1>1. \A d \in Seg \X Block : bfull'[d] <=> bfull[d]
  BY DEF GetGcTarget, CountersExact
<1>2. \A t \in Seg : {x \in Block : bfull'[<<t, x>>]} = {x \in Block : bfull[<<t, x>>]}
  BY <1>1
<1>3. UNCHANGED <<bits, bval, binv, sval, sinv, sfull>>
  BY DEF GetGcTarget
<1> QED  BY <1>1, <1>2, <1>3 DEF CountersExact

(* block_reinit: an erased segment has no bits and its counters are zero;   *)
(* those of the other segments are left alone.                             *)
LEMMA CountersTrimmed ==
    ASSUME BMTypeOK, CountersExact, NEW s \in Seg, TrimSegment(s)
    PROVE  CountersExact'
<1> USE DEF TrimSegment, ReinitBlocks
<1>1. bits' = {p \in bits : PieceSeg(p) # s} /\ bits \subseteq Piece
  BY DEF BMTypeOK
<1>2. \A p \in bits : PieceBlock(p)[1] = PieceSeg(p)
  BY DEF PieceBlock, PieceSeg, SegOf
<1>3. ASSUME NEW b \in Seg \X Block
      PROVE  /\ bval'[b] - binv'[b] = Cardinality({p \in bits' : PieceBlock(p) = b})
             /\ bfull'[b] <=> (binv'[b] # 0 /\ binv'[b] = bval'[b])
  <2>1. CASE b[1] = s
    <3>1. {p \in bits' : PieceBlock(p) = b} = {}
      BY <1>1, <1>2, <2>1
    <3>2. bval'[b] = 0 /\ binv'[b] = 0 /\ ~bfull'[b]
      BY <2>1
    <3>3. Cardinality({p \in bits' : PieceBlock(p) = b}) = 0
      BY <3>1, FS_EmptySet
    <3> QED  BY <3>2, <3>3
  <2>2. CASE b[1] # s
    <3>1. {p \in bits' : PieceBlock(p) = b} = {p \in bits : PieceBlock(p) = b}
      BY <1>1, <1>2, <2>2
    <3>2. bval'[b] = bval[b] /\ binv'[b] = binv[b] /\ (bfull'[b] <=> bfull[b])
      BY <2>2
    <3>3. bval[b] - binv[b] = Cardinality({p \in bits : PieceBlock(p) = b})
          /\ (bfull[b] <=> (binv[b] # 0 /\ binv[b] = bval[b]))
      BY DEF CountersExact
    <3> QED  BY <3>1, <3>2, <3>3, Zenon
  <2> QED  BY <2>1, <2>2
<1>4. ASSUME NEW t \in Seg
      PROVE  /\ sval'[t] - sinv'[t] = Cardinality({p \in bits' : PieceSeg(p) = t})
             /\ sfull'[t] = Cardinality({c \in Block : bfull'[<<t, c>>]})
  <2>1. CASE t = s
    <3>1. {p \in bits' : PieceSeg(p) = t} = {} /\ {c \in Block : bfull'[<<t, c>>]} = {}
      BY <1>1, <2>1
    <3>2. sval'[t] = 0 /\ sinv'[t] = 0 /\ sfull'[t] = 0
      BY <2>1 DEF BMTypeOK, InvalidReset
    <3>3. /\ Cardinality({p \in bits' : PieceSeg(p) = t}) = 0
          /\ Cardinality({c \in Block : bfull'[<<t, c>>]}) = 0
      BY <3>1, FS_EmptySet, Zenon
    <3> QED  BY <3>2, <3>3
  <2>2. CASE t # s
    <3>1. {p \in bits' : PieceSeg(p) = t} = {p \in bits : PieceSeg(p) = t}
      BY <1>1, <2>2
    <3>2. {c \in Block : bfull'[<<t, c>>]} = {c \in Block : bfull[<<t, c>>]}
      BY <2>2
    <3>3. sval'[t] = sval[t] /\ sinv'[t] = sinv[t] /\ sfull'[t] = sfull[t]
      BY <2>2 DEF BMTypeOK, InvalidReset
    <3> QED  BY <3>1, <3>2, <3>3 DEF CountersExact
  <2> QED  BY <2>1, <2>2
<1> QED  BY <1>3, <1>4 DEF CountersExact
-----------------------------------------------------------------------------
(* The pages handed out.                                                   *)

(* sbm_get_page_addr advances used_page_num and the position of the next    *)
(* page together, also when it moves on to the next block.                 *)
LEMMA UsedAdvanced ==
    ASSUME BMTypeOK, CursorInv, UsedExact, NEW s \in Seg, GetPageAddr(s)
    PROVE  UsedExact'
<1> DEFINE cb == CurrentBlock(s)
<1>1. ~SegFull(s) /\ bptr' = [bptr EXCEPT ![s] = cb]
      /\ pptr' = [pptr EXCEPT ![<<s, cb>>] = pptr[<<s, cb>>] + 1]
      /\ used' = [used EXCEPT ![s] = used[s] + 1]
  BY DEF GetPageAddr
<1>2. cb \in Block /\ pptr[<<s, cb>>] \in 0 .. PPB - 1
  BY <1>1, NextPpaType
<1>3. used[s] = cb * PPB + pptr[<<s, cb>>]
  <2>1. /\ used[s] = bptr[s] * PPB + pptr[<<s, bptr[s]>>]
        /\ bptr[s] \in Block
    BY DEF UsedExact, BMTypeOK
  <2>2. CASE pptr[<<s, bptr[s]>>] # PPB
    BY <2>1, <2>2 DEF CurrentBlock
  <2>3. CASE pptr[<<s, bptr[s]>>] = PPB
    <3>1. cb = bptr[s] + 1
      BY <2>3 DEF CurrentBlock
    <3> HIDE DEF cb
    <3>2. pptr[<<s, cb>>] = 0
      BY <1>2, <2>1, <3>1 DEF CursorInv, Block
    <3>3. bptr[s] \in Nat /\ PPB \in Nat
      BY <2>1 DEF Block
    <3>4. (bptr[s] + 1) * PPB = bptr[s] * PPB + PPB
      BY <3>3
    <3>5. bptr[s] * PPB \in Nat
      BY <3>3
    <3> QED  BY <2>1, <2>3, <3>1, <3>2, <3>3, <3>4, <3>5
  <2> QED  BY <2>2, <2>3
<1> HIDE DEF cb
<1>4. pptr \in [Seg \X Block -> 0 .. PPB] /\ bptr \in [Seg -> Block] /\ used \in [Seg -> Nat]
  BY DEF BMTypeOK
<1>5. ASSUME NEW t \in Seg
      PROVE  used'[t] = bptr'[t] * PPB + pptr'[<<t, bptr'[t]>>]
  <2>1. CASE t = s
    <3>1. bptr'[t] = cb /\ used'[t] = used[s] + 1
      BY <1>1, <1>4, <2>1
    <3>2. <<s, cb>> \in Seg \X Block
      BY <1>2
    <3>3. pptr'[<<s, cb>>] = pptr[<<s, cb>>] + 1
      BY <1>1, <1>4, <3>2, Zenon
    <3>4. cb * PPB \in Nat
      BY <1>2 DEF Block
    <3> QED  BY <1>2, <1>3, <2>1, <3>1, <3>3, <3>4
  <2>2. CASE t # s
    <3>1. bptr'[t] = bptr[t] /\ used'[t] = used[t] /\ bptr[t] \in Block
      BY <1>1, <1>4, <2>2
    <3>2. <<t, bptr[t]>> \in Seg \X Block /\ <<t, bptr[t]>> # <<s, cb>>
      BY <2>2, <3>1
    <3>3. pptr'[<<t, bptr[t]>>] = pptr[<<t, bptr[t]>>]
      BY <1>1, <1>4, <3>2, Zenon
    <3> QED  BY <3>1, <3>3 DEF UsedExact
  <2> QED  BY <2>1, <2>2
<1> QED  BY <1>5 DEF UsedExact

(* The next page of a segment that is not full is its used_page_num-th one. *)
LEMMA CursorFollows ==
    ASSUME BMTypeOK, CursorInv, UsedExact
    PROVE  CursorExact
<1> SUFFICES ASSUME NEW s \in Seg, ~SegFull(s)
             PROVE  used[s] = NextPpa(s)[2] * PPB + NextPpa(s)[3]
  BY DEF CursorExact
<1> DEFINE cb == CurrentBlock(s)
<1>1. NextPpa(s)[2] = cb /\ NextPpa(s)[3] = pptr[<<s, cb>>]
  BY DEF NextPpa
<1>2. cb \in Block /\ bptr[s] \in Block
  BY NextPpaType DEF BMTypeOK
<1>3. used[s] = bptr[s] * PPB + pptr[<<s, bptr[s]>>]
  BY DEF UsedExact
<1>4. CASE pptr[<<s, bptr[s]>>] # PPB
  BY <1>1, <1>3, <1>4 DEF CurrentBlock
<1>5. CASE pptr[<<s, bptr[s]>>] = PPB
  <2>1. cb = bptr[s] + 1
    BY <1>5 DEF CurrentBlock
  <2> HIDE DEF cb
  <2>2. pptr[<<s, cb>>] = 0
    BY <1>2, <2>1 DEF CursorInv, Block
  <2>3. bptr[s] \in Nat /\ PPB \in Nat
    BY <1>2 DEF Block
  <2>4. (bptr[s] + 1) * PPB = bptr[s] * PPB + PPB /\ bptr[s] * PPB \in Nat
    BY <2>3
  <2> QED  BY <1>1, <1>3, <1>5, <2>1, <2>2, <2>3, <2>4
<1> QED  BY <1>4, <1>5

(* An erased segment starts again at its first page.                       *)
LEMMA UsedTrimmed ==
    ASSUME BMTypeOK, UsedExact, NEW s \in Seg, TrimSegment(s)
    PROVE  UsedExact'
<1>1. /\ \A t \in Seg, c \in Block :
            pptr'[<<t, c>>] = IF t = s THEN 0 ELSE pptr[<<t, c>>]
      /\ bptr' = [bptr EXCEPT ![s] = 0] /\ used' = [used EXCEPT ![s] = 0]
  BY DEF TrimSegment, ReinitBlocks, UsedReset
<1>2. bptr \in [Seg -> Block] /\ used \in [Seg -> Nat] /\ 0 \in Block
  BY DEF BMTypeOK, Block
<1>3. ASSUME NEW t \in Seg
      PROVE  used'[t] = bptr'[t] * PPB + pptr'[<<t, bptr'[t]>>]
  <2>1. CASE t = s
    <3>1. bptr'[t] = 0 /\ used'[t] = 0 /\ pptr'[<<t, 0>>] = 0
      BY <1>1, <1>2, <2>1
    <3>2. 0 * PPB = 0
      OBVIOUS
    <3> QED  BY <3>1, <3>2
  <2>2. CASE t # s
    <3>1. bptr'[t] = bptr[t] /\ used'[t] = used[t] /\ bptr[t] \in Block
      BY <1>1, <1>2, <2>2
    <3>2. pptr'[<<t, bptr[t]>>] = pptr[<<t, bptr[t]>>]
      BY <1>1, <2>2, <3>1
    <3> QED  BY <3>1, <3>2 DEF UsedExact
  <2> QED  BY <2>1, <2>2
<1> QED  BY <1>3 DEF UsedExact
-----------------------------------------------------------------------------
(* Steps outside the loops of page_map_assign and do_gc.                    *)

(* A step that leaves the block manager, the mapping and the variables of   *)
(* the loops alone.                                                        *)
LEMMA BooksUntouched ==
    ASSUME BooksInv,
           UNCHANGED <<cursorVars, bitVars, mapping, pc, asgVars, gcVars>>
    PROVE  BooksInv'
<1> USE DEF cursorVars, bitVars, countVars, asgVars, gcVars, copyVars
<1>1. UsedExact' /\ CountersExact'
  BY DEF BooksInv, UsedExact, CountersExact
<1>2. \A p : LeftToCopy(p)' <=> LeftToCopy(p)
  BY DEF LeftToCopy
<1>3. BitsMapped'
  BY <1>2 DEF BooksInv, BitsMapped
<1>4. GcOnce'
  BY <1>2 DEF BooksInv, GcOnce
<1> QED  BY <1>1, <1>3, <1>4 DEF BooksInv

(* The same for a step from outside the loops to any place.                 *)
LEMMA BooksBetween ==
    ASSUME IInv, BooksInv, pc \notin {"map", "gc_read", "gc_copy"},
           UNCHANGED <<cursorVars, bitVars, mapping, gcread, gclist, copyVars, gbuf>>
    PROVE  BooksInv'
<1> USE DEF cursorVars, bitVars, countVars, copyVars
<1>1. UsedExact' /\ CountersExact'
  BY DEF BooksInv, UsedExact, CountersExact
<1>2. gcread' = {} /\ gclist' = {} /\ gbuf' = <<>>
  BY DEF IInv, GcIdle
<1>3. BitsMapped'
  BY DEF BooksInv, BitsMapped
<1>4. GcOnce'
  BY <1>2 DEF GcOnce
<1> QED  BY <1>1, <1>3, <1>4 DEF BooksInv

(* page_create: nothing is handed out, valid or counted.                    *)
LEMMA InitBooks ==
    ASSUME Init
    PROVE  BooksInv
<1> USE DEF Init, BMInit
<1>1. UsedExact
  <2>1. 0 * PPB = 0 /\ 0 \in Block
    BY DEF Block
  <2> QED  BY <2>1 DEF UsedExact
<1>2. CountersExact
  <2>1. /\ \A b : {p \in bits : PieceBlock(p) = b} = {}
        /\ \A s : {p \in bits : PieceSeg(p) = s} = {}
        /\ \A s \in Seg : {c \in Block : bfull[<<s, c>>]} = {}
    OBVIOUS
  <2>2. /\ \A b \in Seg \X Block : bval[b] = 0 /\ binv[b] = 0 /\ ~bfull[b]
        /\ \A s \in Seg : sval[s] = 0 /\ sinv[s] = 0 /\ sfull[s] = 0
    OBVIOUS
  <2>3. Cardinality({}) = 0
    BY FS_EmptySet
  <2>4. /\ \A b : Cardinality({p \in bits : PieceBlock(p) = b}) = 0
        /\ \A t : Cardinality({p \in bits : PieceSeg(p) = t}) = 0
        /\ \A t \in Seg : Cardinality({c \in Block : bfull[<<t, c>>]}) = 0
    BY <2>1, <2>3
  <2> HIDE DEF Init, BMInit
  <2>5. ASSUME NEW b \in Seg \X Block
        PROVE  /\ bval[b] - binv[b] = Cardinality({p \in bits : PieceBlock(p) = b})
               /\ bfull[b] <=> (binv[b] # 0 /\ binv[b] = bval[b])
    <3>1. Cardinality({p \in bits : PieceBlock(p) = b}) = 0
      BY <2>4
    <3> QED  BY <2>2, <3>1
  <2>6. ASSUME NEW t \in Seg
        PROVE  /\ sval[t] - sinv[t] = Cardinality({p \in bits : PieceSeg(p) = t})
               /\ sfull[t] = Cardinality({c \in Block : bfull[<<t, c>>]})
    <3>1. Cardinality({p \in bits : PieceSeg(p) = t}) = 0
      BY <2>4
    <3> QED  BY <2>2, <2>4, <3>1
  <2> QED  BY <2>5, <2>6, Zenon DEF CountersExact
<1>3. BitsMapped /\ GcOnce
  BY DEF BitsMapped, GcOnce
<1> QED  BY <1>1, <1>2, <1>3 DEF BooksInv
-----------------------------------------------------------------------------
(* page_map_assign.                                                        *)

(* get_ppa: the pieces of the page handed out are those still to be mapped. *)
LEMMA AllocPageBooks ==
    ASSUME IInv, BooksInv, AllocPage
    PROVE  BooksInv'
<1> DEFINE ppa == NextPpa(active)
<1>1. /\ UNCHANGED <<listVars, ftlVars, gcVars>> /\ pc = "alloc" /\ pc' = "map"
      /\ newppa' = ppa /\ mapi' = 0 /\ GetPageAddr(active) /\ BitSetPage(ppa, L2PGAP)
  BY DEF AllocPage
<1>2. BMTypeOK /\ CursorInv /\ active \in Seg /\ ~SegFull(active)
  BY <1>1 DEF IInv, TypeOK, FTLTypeOK, GetPageAddr
<1>3. ppa \in Ppa /\ L2PGAP \in 1 .. L2PGAP /\ \A p \in bits : p[1] # ppa
  <2>1. ppa \in Ppa /\ \A p \in bits : p[1] # ppa
    BY <1>2, NextPpaType, NextPpaFresh, Zenon
  <2> QED  BY <2>1
<1>4. UsedExact'
  BY <1>1, <1>2, UsedAdvanced DEF BooksInv
<1>5. bits' = bits \cup PiecesOf(ppa, L2PGAP)
  BY <1>1 DEF BitSetPage
<1> HIDE DEF ppa
<1>6. CountersExact'
  BY <1>1, <1>2, <1>3, PageValidated DEF BooksInv
<1>7. BitsMapped'
  <2> SUFFICES ASSUME NEW p \in bits'
               PROVE  (\E k \in Key : mapping[k] = p) \/ (p[1] = ppa /\ p[2] >= 0)
    BY <1>1 DEF BitsMapped, ftlVars
  <2>1. CASE p \in bits
    BY <1>1, <2>1 DEF BooksInv, BitsMapped
  <2>2. CASE p \in PiecesOf(ppa, L2PGAP)
    BY <2>2 DEF PiecesOf
  <2> QED  BY <1>5, <2>1, <2>2
<1>8. GcOnce'
  BY <1>1 DEF gcVars, IInv, GcIdle, GcOnce
<1> QED  BY <1>4, <1>6, <1>7, <1>8 DEF BooksInv

(* One iteration of page_map_assign: the piece that loses its key is         *)
(* invalidated, the piece that gets it leaves those still to be mapped.     *)
LEMMA MapKeyBooks ==
    ASSUME IInv, BooksInv, MapKey
    PROVE  BooksInv'
<1> DEFINE k == abuf[mapi + 1].key
           new == <<newppa, mapi>>
<1>1. /\ UNCHANGED <<cursorVars, oob, newppa, gcVars>>
      /\ pc = "map" /\ mapi' = mapi + 1
      /\ pc' = IF mapi + 1 = L2PGAP THEN "submit" ELSE "map"
      /\ mapping' = [mapping EXCEPT ![k] = new]
      /\ InvalidateOld(k)
  BY DEF MapKey
<1>2. mapi \in Off
  BY <1>1 DEF IInv, AssignInv
<1>3. k \in Key
  <2>1. abuf \in Seq([key : Key, val : Val]) /\ Len(abuf) = L2PGAP
    BY <1>1 DEF IInv, TypeOK, FTLTypeOK, BufferInv
  <2>2. mapi + 1 \in 1 .. Len(abuf)
    BY <1>2, <2>1 DEF Off
  <2>3. abuf[mapi + 1] \in [key : Key, val : Val]
    BY <2>1, <2>2, ElementOfSeq
  <2> QED  BY <2>3
<1> HIDE DEF k
<1>4. \A c \in Key : mapping'[c] = IF c = k THEN new ELSE mapping[c]
  BY <1>1, <1>3 DEF IInv, TypeOK, FTLTypeOK
<1>5. UsedExact'
  BY <1>1 DEF BooksInv, UsedExact, cursorVars
<1>6. /\ CountersExact'
      /\ bits' = bits \ (IF mapping[k] = None THEN {} ELSE {mapping[k]})
  <2>1. CASE mapping[k] = None
    <3>1. UNCHANGED bitVars
      BY <1>1, <2>1 DEF InvalidateOld
    <3> QED  BY <2>1, <3>1 DEF BooksInv, CountersExact, bitVars, countVars
  <2>2. CASE mapping[k] # None
    <3>1. mapping[k] \in bits /\ BitUnset(mapping[k]) /\ BMTypeOK
      BY <1>1, <1>3, <2>2 DEF InvalidateOld, IInv, TypeOK, MappingSound
    <3>2. CountersExact'
      BY <3>1, PieceDropped DEF BooksInv
    <3> QED  BY <2>2, <3>1, <3>2 DEF BitUnset
  <2> QED  BY <2>1, <2>2
<1>7. BitsMapped'
  <2> SUFFICES ASSUME NEW p \in bits'
               PROVE  \/ \E c \in Key : mapping'[c] = p
                      \/ pc' = "map" /\ p[1] = newppa /\ p[2] >= mapi + 1
    BY <1>1 DEF BitsMapped
  <2>1. p \in bits /\ p # mapping[k] /\ p \in Piece
    BY <1>6 DEF IInv, TypeOK, BMTypeOK
  <2>2. CASE \E c \in Key : mapping[c] = p
    <3>1. PICK c \in Key : mapping[c] = p
      BY <2>2
    <3>2. mapping'[c] = p
      BY <1>4, <2>1, <3>1
    <3> QED  BY <3>2
  <2>3. CASE p[1] = newppa /\ p[2] >= mapi
    <3>1. p = <<p[1], p[2]>> /\ p[2] \in Off
      BY <2>1, PieceParts
    <3>2. CASE p[2] = mapi
      <4>1. mapping'[k] = p
        BY <1>3, <1>4, <2>3, <3>1, <3>2
      <4> QED  BY <1>3, <4>1
    <3>3. CASE p[2] # mapi
      <4>1. p[2] >= mapi + 1 /\ mapi + 1 # L2PGAP
        BY <1>2, <2>3, <3>1, <3>3 DEF Off
      <4> QED  BY <1>1, <2>3, <4>1
    <3> QED  BY <3>2, <3>3
  <2> QED  BY <1>1, <2>1, <2>2, <2>3 DEF BooksInv, BitsMapped
<1>8. GcOnce'
  BY <1>1 DEF gcVars, IInv, GcIdle, GcOnce
<1> QED  BY <1>5, <1>6, <1>7, <1>8 DEF BooksInv
-----------------------------------------------------------------------------
(* do_gc.                                                                  *)

(* A victim is chosen: none of its pieces has been passed yet.              *)
LEMMA StartGcBooks ==
    ASSUME IInv, BooksInv, StartGc
    PROVE  BooksInv'
<1>1. PICK s \in heap :
        /\ GetGcTarget(s) /\ victim' = s
        /\ gcread' = {p \in SegPages(s) : HasValidPiece(p)}
  BY DEF StartGc
<1>2. /\ UNCHANGED <<cursorVars, mapping, gclist, gbuf>> /\ bits' = bits
      /\ pc = "get_ppa" /\ pc' = "gc_read"
  BY <1>1 DEF StartGc, GetGcTarget, ftlVars
<1>3. UsedExact' /\ CountersExact'
  BY <1>1, <1>2, TargetTaken DEF BooksInv, UsedExact, cursorVars, IInv, TypeOK
<1>4. BitsMapped'
  BY <1>2 DEF BooksInv, BitsMapped
<1>5. GcOnce'
  <2>1. gclist' = {} /\ gbuf' = <<>>
    BY <1>2 DEF IInv, GcIdle
  <2> QED  BY <1>1, <2>1 DEF GcOnce, SegPages
<1> QED  BY <1>3, <1>4, <1>5 DEF BooksInv

(* A page read is sent: the page moves from gcread to temp_list.            *)
LEMMA GcIssueReadBooks ==
    ASSUME IInv, BooksInv, GcIssueRead
    PROVE  BooksInv'
<1>1. /\ UNCHANGED <<bmVars, ftlVars, asgVars, victim, copyVars, gbuf>>
      /\ pc = "gc_read" /\ pc' \in {"gc_read", "gc_copy"}
  BY DEF GcIssueRead
<1>2. gcur = None
  BY <1>1 DEF IInv, GcIdle
<1> USE DEF ftlVars, asgVars, copyVars, bmVars, cursorVars, bitVars, countVars
<1>3. UsedExact' /\ CountersExact'
  BY <1>1 DEF BooksInv, UsedExact, CountersExact
<1>4. /\ \A p \in Piece : LeftToCopy(p)' => LeftToCopy(p)
      /\ \A p \in gcread' : SegOf(p) = victim
      /\ \A g \in gclist' : SegOf(g.ppa) = victim /\ g.ppa \notin gcread'
      /\ \A g, h \in gclist' : g.ppa = h.ppa => g = h
  <2>1. CASE UNCHANGED <<gcread, gclist>>
    BY <1>1, <2>1 DEF LeftToCopy, BooksInv, GcOnce
  <2>2. ASSUME NEW q \in gcread,
               gcread' = gcread \ {q},
               gclist' = gclist \cup {[ppa |-> q, data |-> None]}
        PROVE  <1>4!:
    <3> DEFINE e == [ppa |-> q, data |-> None]
    <3>1. e.ppa = q /\ gclist' = gclist \cup {e}
      BY <2>2
    <3> HIDE DEF e
    <3>2. \A p \in Piece : LeftToCopy(p)' => LeftToCopy(p)
      BY <1>1, <2>2, <3>1 DEF LeftToCopy
    <3> QED  BY <2>2, <3>1, <3>2 DEF BooksInv, GcOnce
  <2> QED  BY <2>1, <2>2 DEF GcIssueRead
<1>5. BitsMapped'
  BY <1>1, <1>4 DEF BooksInv, BitsMapped, IInv, TypeOK, BMTypeOK
<1>6. GcOnce'
  <2>1. \A i \in DOMAIN gbuf : \E p \in Piece :
           mapping[gbuf[i].key] = p /\ PieceSeg(p) = victim /\ ~LeftToCopy(p)'
    BY <1>4 DEF BooksInv, GcOnce
  <2>2. \A i, j \in DOMAIN gbuf : gbuf[i].key = gbuf[j].key => i = j
    BY DEF BooksInv, GcOnce
  <2> QED  BY <1>1, <1>4, <2>1, <2>2 DEF GcOnce
<1> QED  BY <1>3, <1>5, <1>6 DEF BooksInv
(* page_gc_end_req(GCDR) only gives a page of temp_list its data.           *)
LEMMA DevGcReadBooks ==
    ASSUME IInv, BooksInv, DevGcRead
    PROVE  BooksInv'
<1> DEFINE q == Head(devq).ppa
           upd(g) == IF g.ppa = q THEN [g EXCEPT !.data = ReadPage(q)] ELSE g
<1>1. gclist' = {upd(g) : g \in gclist}
  BY DEF DevGcRead, Done
<1>2. \A g \in gclist : upd(g).ppa = g.ppa
  BY DEF IInv, TypeOK, FTLTypeOK
<1> HIDE DEF q, upd
<1>3. UNCHANGED <<bmVars, ftlVars, pc, asgVars, victim, gcread, copyVars, gbuf>>
  BY DEF DevGcRead
<1> USE DEF ftlVars, asgVars, copyVars, bmVars, cursorVars, bitVars, countVars
<1>4. UsedExact' /\ CountersExact'
  BY <1>3 DEF BooksInv, UsedExact, CountersExact
<1>5. \A p \in Piece : LeftToCopy(p)' => LeftToCopy(p)
  BY <1>1, <1>2, <1>3 DEF LeftToCopy
<1>6. BitsMapped'
  BY <1>3, <1>5 DEF BooksInv, BitsMapped, IInv, TypeOK, BMTypeOK
<1>7. GcOnce'
  <2>1. /\ \A p \in gcread' : SegOf(p) = victim
        /\ \A g \in gclist' : SegOf(g.ppa) = victim /\ g.ppa \notin gcread'
    BY <1>1, <1>2, <1>3 DEF BooksInv, GcOnce
  <2>2. \A g, h \in gclist' : g.ppa = h.ppa => g = h
    BY <1>1, <1>2 DEF BooksInv, GcOnce
  <2>3. \A i \in DOMAIN gbuf : \E p \in Piece :
           mapping[gbuf[i].key] = p /\ PieceSeg(p) = victim /\ ~LeftToCopy(p)'
    BY <1>5 DEF BooksInv, GcOnce
  <2>4. \A i, j \in DOMAIN gbuf : gbuf[i].key = gbuf[j].key => i = j
    BY DEF BooksInv, GcOnce
  <2> QED  BY <1>3, <2>1, <2>2, <2>3, <2>4 DEF GcOnce
<1> QED  BY <1>4, <1>6, <1>7 DEF BooksInv

(* A page written by a collection: the keys of g_buffer are different, so   *)
(* each of its pieces gets a key.                                          *)
LEMMA GcFlushBooks ==
    ASSUME IInv, UsedExact, CountersExact,
           NEW page \in Seq([key : Key, val : Val \cup {Junk}]),
           Len(page) \in 1 .. L2PGAP,
           \A i, j \in DOMAIN page : page[i].key = page[j].key => i = j,
           GcFlush(page)
    PROVE  /\ UsedExact' /\ CountersExact'
           /\ \A p \in bits' : p \in bits \/ \E k \in Key : mapping'[k] = p
<1> DEFINE ppa == NextPpa(reserve)
           n == Len(page)
<1>1. /\ GetPageAddr(reserve) /\ BitSetPage(ppa, n)
      /\ mapping' = GcMap(page, ppa)
  BY DEF GcFlush
<1>2. BMTypeOK /\ CursorInv /\ reserve \in Seg /\ ~SegFull(reserve)
  BY <1>1 DEF IInv, TypeOK, FTLTypeOK, GetPageAddr
<1>3. ppa \in Ppa /\ \A p \in bits : p[1] # ppa
  BY <1>2, NextPpaType, NextPpaFresh, Zenon
<1>4. UsedExact'
  BY <1>1, <1>2, UsedAdvanced
<1>5. bits' = bits \cup PiecesOf(ppa, n)
  BY <1>1 DEF BitSetPage
<1> HIDE DEF ppa
<1>6. CountersExact'
  <2> HIDE DEF n
  <2>1. n \in 1 .. L2PGAP
    BY DEF n
  <2> QED  BY <1>1, <1>2, <1>3, <2>1, PageValidated
<1>7. ASSUME NEW p \in PiecesOf(ppa, n)
      PROVE  \E k \in Key : mapping'[k] = p
  <2>1. p = <<ppa, p[2]>> /\ p[2] \in 0 .. n - 1
    BY DEF PiecesOf
  <2> DEFINE i == p[2] + 1
             k == page[i].key
  <2>2. i \in DOMAIN page /\ DOMAIN page = 1 .. n
    BY <2>1, LenProperties
  <2>3. k \in Key
    <3> DEFINE R == [key : Key, val : Val \cup {Junk}]
    <3>1. page \in Seq(R) /\ i \in 1 .. Len(page)
      BY <2>2
    <3>2. page[i] \in R
      <4> HIDE DEF R, i
      <4> QED  BY <3>1, ElementOfSeq
    <3> QED  BY <3>2
  <2> DEFINE at == CHOOSE j \in DOMAIN page : page[j].key = k
  <2>4. at \in DOMAIN page /\ page[at].key = k
    BY <2>2
  <2>5. at = i
    BY <2>2, <2>4
  <2>6. mapping'[k] = <<ppa, at - 1>>
    BY <1>1, <2>2, <2>3, Zenon DEF GcMap
  <2>7. i - 1 = p[2]
    BY <2>1
  <2> HIDE DEF at, i, k
  <2> QED  BY <2>1, <2>3, <2>5, <2>6, <2>7
<1> QED  BY <1>4, <1>5, <1>6, <1>7

(* An iteration of the copy loop passes one piece of the victim, which was   *)
(* still to be copied, and none comes back.                                *)
LEMMA PiecePassed ==
    ASSUME IInv, GcOnce, NEW gv \in gclist, GcCopy(gv)
    PROVE  /\ \A p \in Piece : LeftToCopy(p)' => LeftToCopy(p)
           /\ <<gv.ppa, gci>> \in Piece /\ PieceSeg(<<gv.ppa, gci>>) = victim
           /\ LeftToCopy(<<gv.ppa, gci>>)
           /\ \A p \in Piece : LeftToCopy(p)' => p # <<gv.ppa, gci>>
           /\ gclist' \subseteq gclist
<1>1. gv.ppa \in Ppa /\ gci \in Off /\ gv.ppa # None
  BY DEF IInv, TypeOK, FTLTypeOK
<1>2. <<gv.ppa, gci>> \in Piece /\ PieceSeg(<<gv.ppa, gci>>) = victim
  BY <1>1 DEF Piece, PieceSeg, SegOf, GcOnce
<1>3. gci >= gci /\ gci \in Nat /\ gcur \in {None, gv.ppa} /\ gcread' = gcread
  BY <1>1 DEF Off, GcCopy
<1>4. LeftToCopy(<<gv.ppa, gci>>)
  BY <1>3 DEF LeftToCopy
<1>5. gclist' \subseteq gclist
  BY DEF GcCopy
<1>6. gv.ppa \notin gcread /\ \A g \in gclist : g.ppa = gv.ppa => g = gv
  BY DEF GcOnce
<1>7. ASSUME NEW p \in Piece, LeftToCopy(p)'
      PROVE  LeftToCopy(p) /\ p # <<gv.ppa, gci>>
  <2>1. p[2] \in Nat /\ p = <<p[1], p[2]>>
    BY PieceParts DEF Off
  <2>2. CASE p[1] \in gcread
    BY <1>6, <2>2 DEF LeftToCopy
  <2>3. CASE p[1] \notin gcread
    <3>1. PICK g \in gclist' : g.ppa = p[1] /\ (gcur' = g.ppa => p[2] >= gci')
      BY <1>3, <1>7, <2>3 DEF LeftToCopy
    <3>2. g \in gclist
      BY <1>5, <3>1
    <3>3. CASE p[1] # gv.ppa
      <4>0. g.ppa \in Ppa /\ g.ppa # None
        BY <3>2 DEF IInv, TypeOK, FTLTypeOK
      <4>1. gcur # g.ppa
        BY <1>3, <3>1, <3>3, <4>0
      <4> QED  BY <3>1, <3>2, <3>3, <4>1 DEF LeftToCopy
    <3>4. CASE p[1] = gv.ppa
      <4>1. g = gv
        BY <1>6, <3>1, <3>2, <3>4
      <4>2. gcur' = gv.ppa /\ gci' = gci + 1
        BY <3>1, <4>1 DEF GcCopy
      <4>3. p[2] >= gci + 1
        BY <3>1, <4>1, <4>2
      <4>4. p[2] >= gci /\ p[2] # gci
        BY <1>3, <2>1, <4>3
      <4> QED  BY <2>1, <3>1, <3>2, <4>4 DEF LeftToCopy
    <3> QED  BY <3>3, <3>4
  <2> QED  BY <2>2, <2>3
<1> QED  BY <1>2, <1>4, <1>5, <1>7
(* One piece of the victim is dropped or moved to g_buffer, and a full       *)
(* g_buffer is written out.                                                *)
LEMMA GcCopyBooks ==
    ASSUME IInv, BooksInv, NEW gv \in gclist, GcCopy(gv)
    PROVE  BooksInv'
<1> DEFINE cur == <<gv.ppa, gci>>
           R == [key : Key, val : Val \cup {Junk}]
           e == [key |-> oob[gv.ppa][gci], val |-> gv.data[gci]]
           next == Append(gbuf, e)
<1>1. /\ GcPiece(gv) /\ pc = "gc_copy" /\ pc' = pc /\ UNCHANGED <<victim, gcread, reserve>>
      /\ gv.data # None
  BY DEF GcCopy
<1>2. /\ \A p \in Piece : LeftToCopy(p)' => LeftToCopy(p)
      /\ cur \in Piece /\ PieceSeg(cur) = victim
      /\ LeftToCopy(cur)
      /\ \A p \in Piece : LeftToCopy(p)' => p # cur
      /\ gclist' \subseteq gclist
  BY PiecePassed DEF BooksInv
<1>3. \A g \in gclist : SegOf(g.ppa) = victim /\ g.ppa \notin gcread
  BY DEF BooksInv, GcOnce
<1>4. /\ \A p \in gcread' : SegOf(p) = victim'
      /\ \A g \in gclist' : SegOf(g.ppa) = victim' /\ g.ppa \notin gcread'
      /\ \A g, h \in gclist' : g.ppa = h.ppa => g = h
  BY <1>1, <1>2 DEF BooksInv, GcOnce
<1>5. e \in R /\ e.key = oob[gv.ppa][gci]
  BY <1>1 DEF IInv, TypeOK, FTLTypeOK, BMTypeOK, PageData
<1>6. /\ gbuf \in Seq(R) /\ Len(gbuf) \in Nat /\ DOMAIN gbuf = 1 .. Len(gbuf)
      /\ \A i \in DOMAIN gbuf : gbuf[i] \in R
  BY LenProperties, ElementOfSeq DEF IInv, TypeOK, FTLTypeOK
<1>7. ASSUME cur \in bits
      PROVE  e.key \in Key /\ mapping[e.key] = cur
  <2>1. \E k \in Key : mapping[k] = cur
    BY <1>1, <1>2, <1>7 DEF BooksInv, BitsMapped
  <2>2. PICK k \in Key : mapping[k] = cur
    BY <2>1
  <2>3. oob[cur[1]][cur[2]] = k
    BY <1>2, <2>2 DEF IInv, MappingSound
  <2> QED  BY <1>5, <2>2, <2>3
<1>8. \A i \in DOMAIN gbuf : \E p \in Piece :
        mapping[gbuf[i].key] = p /\ PieceSeg(p) = victim /\ ~LeftToCopy(p)
  BY DEF BooksInv, GcOnce
<1>9. \A i, j \in DOMAIN gbuf : gbuf[i].key = gbuf[j].key => i = j
  BY DEF BooksInv, GcOnce
<1> HIDE DEF e, cur, R
<1>10. cur \in bits => \A i \in DOMAIN gbuf : gbuf[i].key # e.key
  BY <1>2, <1>7, <1>8
<1>11. /\ next \in Seq(R) /\ Len(next) = Len(gbuf) + 1 /\ DOMAIN next = 1 .. Len(gbuf) + 1
       /\ \A i \in 1 .. Len(gbuf) : next[i] = gbuf[i]
       /\ next[Len(gbuf) + 1] = e
  BY <1>5, <1>6, AppendProperties, LenProperties
<1>12. \A i \in DOMAIN next : \/ i \in DOMAIN gbuf /\ next[i] = gbuf[i]
                              \/ i = Len(gbuf) + 1 /\ next[i] = e
  BY <1>6, <1>11
<1>13. cur \in bits => \A i, j \in DOMAIN next : next[i].key = next[j].key => i = j
  BY <1>9, <1>10, <1>12
<1>14. cur \in bits =>
         \A i \in DOMAIN next : \E p \in Piece :
            mapping[next[i].key] = p /\ PieceSeg(p) = victim /\ ~LeftToCopy(p)'
  BY <1>2, <1>7, <1>8, <1>12
<1>15. \A p \in bits : (\E k \in Key : mapping[k] = p)
                       \/ (PieceSeg(p) = victim /\ ~LeftToCopy(p))
  BY <1>1 DEF BooksInv, BitsMapped
<1>16. bits \subseteq Piece /\ mapping \in [Key -> Piece \cup {None}]
  BY DEF IInv, TypeOK, BMTypeOK, FTLTypeOK
<1>17. CASE /\ UNCHANGED <<bmVars, mapping, devq>>
            /\ gbuf' = gbuf
  <2>1. UsedExact' /\ CountersExact' /\ bits' = bits /\ mapping' = mapping
    BY <1>17 DEF BooksInv, UsedExact, CountersExact, bmVars, cursorVars, bitVars, countVars
  <2>2. BitsMapped'
    BY <1>1, <1>2, <1>15, <1>16, <2>1 DEF BitsMapped
  <2>3. GcOnce'
    BY <1>1, <1>2, <1>4, <1>8, <1>9, <1>17, <2>1 DEF GcOnce
  <2> QED  BY <2>1, <2>2, <2>3 DEF BooksInv
<1>18. CASE cur \in bits /\ gbuf' = next /\ UNCHANGED <<bmVars, mapping, devq>>
  <2>1. UsedExact' /\ CountersExact' /\ bits' = bits /\ mapping' = mapping
    BY <1>18 DEF BooksInv, UsedExact, CountersExact, bmVars, cursorVars, bitVars, countVars
  <2>2. BitsMapped'
    BY <1>1, <1>2, <1>15, <1>16, <2>1 DEF BitsMapped
  <2> HIDE DEF next
  <2>3. GcOnce'
    BY <1>1, <1>4, <1>13, <1>14, <1>18, <2>1 DEF GcOnce
  <2> QED  BY <2>1, <2>2, <2>3 DEF BooksInv
<1>19. CASE /\ cur \in bits /\ Len(next) = L2PGAP /\ GcFlush(next) /\ gbuf' = <<>>
            /\ UNCHANGED listVars
  <2> HIDE DEF next
  <2>1. Len(next) \in 1 .. L2PGAP
    BY <1>19
  <2>2. /\ UsedExact' /\ CountersExact'
        /\ \A p \in bits' : p \in bits \/ \E k \in Key : mapping'[k] = p
    BY <1>11, <1>13, <1>19, <2>1, GcFlushBooks DEF BooksInv, R
  <2>3. \A k \in Key : (\A i \in DOMAIN next : next[i].key # k) => mapping'[k] = mapping[k]
    BY <1>19 DEF GcFlush, GcMap
  <2>4. ASSUME NEW p \in bits'
        PROVE  (\E k \in Key : mapping'[k] = p)
               \/ (PieceSeg(p) = victim /\ ~LeftToCopy(p)')
    <3>1. CASE p \in bits /\ ~ \E k \in Key : mapping[k] = p
      BY <1>2, <1>15, <1>16, <3>1
    <3>2. ASSUME NEW k \in Key, mapping[k] = p, p \in bits
          PROVE  (\E c \in Key : mapping'[c] = p)
                 \/ (PieceSeg(p) = victim /\ ~LeftToCopy(p)')
      <4>1. CASE \A i \in DOMAIN next : next[i].key # k
        BY <2>3, <3>2, <4>1
      <4>2. ASSUME NEW i \in DOMAIN next, next[i].key = k
            PROVE  PieceSeg(p) = victim /\ ~LeftToCopy(p)'
        BY <1>14, <1>19, <3>2, <4>2
      <4> QED  BY <4>1, <4>2
    <3> QED  BY <2>2, <3>1, <3>2
  <2>5. BitsMapped'
    BY <1>1, <2>4 DEF BitsMapped
  <2>6. GcOnce'
    BY <1>4, <1>19 DEF GcOnce
  <2> QED  BY <2>2, <2>5, <2>6 DEF BooksInv
<1> QED  BY <1>1, <1>17, <1>18, <1>19 DEF GcPiece, IsInvalidPiece, cur, e

(* The last short page of a collection.                                     *)
LEMMA GcFlushRestBooks ==
    ASSUME IInv, BooksInv, GcFlushRest
    PROVE  BooksInv'
<1> DEFINE R == [key : Key, val : Val \cup {Junk}]
<1>1. /\ pc = "gc_copy" /\ pc' = pc /\ gclist = {} /\ gbuf # <<>> /\ GcFlush(gbuf)
      /\ gbuf' = <<>> /\ UNCHANGED <<victim, gcread, gclist, copyVars>>
  BY DEF GcFlushRest
<1>2. gbuf \in Seq(R) /\ gcread = {}
  BY <1>1 DEF IInv, TypeOK, FTLTypeOK, GcIdle
<1>3. Len(gbuf) \in 1 .. L2PGAP
  BY <1>1, <1>2, EmptySeq, LenProperties DEF IInv, GcIdle
<1>4. \A i, j \in DOMAIN gbuf : gbuf[i].key = gbuf[j].key => i = j
  BY DEF BooksInv, GcOnce
<1>5. /\ UsedExact' /\ CountersExact'
      /\ \A p \in bits' : p \in bits \/ \E k \in Key : mapping'[k] = p
  BY <1>1, <1>2, <1>3, <1>4, GcFlushBooks DEF BooksInv
<1>6. \A k \in Key : (\A i \in DOMAIN gbuf : gbuf[i].key # k) => mapping'[k] = mapping[k]
  BY <1>1 DEF GcFlush, GcMap
<1>7. \A p : ~LeftToCopy(p)'
  BY <1>1, <1>2 DEF LeftToCopy
<1>8. ASSUME NEW p \in bits'
      PROVE  (\E k \in Key : mapping'[k] = p) \/ PieceSeg(p) = victim
  <2>1. ASSUME NEW k \in Key, mapping[k] = p
        PROVE  mapping'[k] = p \/ PieceSeg(p) = victim
    BY <1>6, <2>1 DEF BooksInv, GcOnce
  <2> QED  BY <1>1, <1>5, <2>1 DEF BooksInv, BitsMapped
<1>9. BitsMapped'
  BY <1>1, <1>7, <1>8 DEF BitsMapped
<1>10. GcOnce'
  BY <1>1, <1>2 DEF GcOnce
<1> QED  BY <1>5, <1>9, <1>10 DEF BooksInv

(* The victim is erased: its dead pieces, which were all that was left       *)
(* without a key, lose their bits.                                         *)
LEMMA GcTrimBooks ==
    ASSUME IInv, BooksInv, GcTrim
    PROVE  BooksInv'
<1>1. /\ UNCHANGED <<ftlVars, gcVars>> /\ pc = "gc_copy" /\ pc' = "gc_swap"
      /\ gclist = {} /\ gbuf = <<>> /\ TrimSegment(victim)
  BY DEF GcTrim
<1>2. victim \in Seg /\ gcread = {} /\ BMTypeOK
  BY <1>1 DEF IInv, TypeOK, FTLTypeOK, GcIdle
<1>3. UsedExact' /\ CountersExact'
  BY <1>1, <1>2, UsedTrimmed, CountersTrimmed DEF BooksInv
<1>4. bits' = {p \in bits : PieceSeg(p) # victim} /\ mapping' = mapping
  BY <1>1 DEF TrimSegment, ReinitBlocks, ftlVars
<1>5. BitsMapped'
  BY <1>1, <1>4 DEF BooksInv, BitsMapped
<1>6. GcOnce'
  BY <1>1, <1>2 DEF GcOnce, gcVars
<1> QED  BY <1>3, <1>5, <1>6 DEF BooksInv
-----------------------------------------------------------------------------
(* The theorem.                                                            *)

(* Every step keeps the books.                                              *)
LEMMA NextBooks ==
    ASSUME IInv, BooksInv, [Next]_vars
    PROVE  BooksInv'
<1>1. CASE UNCHANGED vars
  BY <1>1, BooksUntouched DEF vars, bmVars, ftlVars
<1>2. CASE HostStep
  <2>1. ASSUME NEW k \in Key, NEW v, PageWrite(k, v)
        PROVE  BooksInv'
    BY <2>1, BooksBetween DEF PageWrite, bmVars, gcVars
  <2>2. ASSUME NEW id \in Rid, NEW k \in Key, PageRead(id, k)
        PROVE  BooksInv'
    BY <2>2, BooksUntouched DEF PageRead, bmVars, ftlVars
  <2> QED  BY <1>2, <2>1, <2>2 DEF HostStep
<1>3. CASE SkipGc \/ SubmitPage
  BY <1>3, BooksBetween DEF SkipGc, SubmitPage, bmVars, ftlVars, gcVars
<1>4. CASE AllocSegment \/ GcSwap
  BY <1>4, BooksBetween DEF AllocSegment, GcSwap, gcVars
<1>5. CASE MainStep
  BY <1>3, <1>4, <1>5, AllocPageBooks, MapKeyBooks, StartGcBooks, GcIssueReadBooks,
     GcCopyBooks, GcFlushRestBooks, GcTrimBooks DEF MainStep
<1>6. CASE DevWrite \/ DevTrim \/ DevRead \/ DevFillBuffer
  BY <1>6, BooksUntouched DEF DevWrite, DevTrim, DevRead, DevFillBuffer, bmVars, ftlVars
<1>7. CASE DevStep
  BY <1>6, <1>7, DevGcReadBooks DEF DevStep
<1>8. CASE DumpLoad
  BY <1>8, BooksUntouched DEF DumpLoad, ftlVars
<1> QED  BY <1>1, <1>2, <1>5, <1>7, <1>8 DEF Next

(* Between writes the valid bits are the mapped pieces.                     *)
LEMMA NothingLeaked ==
    ASSUME IInv, BooksInv
    PROVE  NoLeakedPieces
<1> SUFFICES ASSUME pc = "idle"
             PROVE  bits = {mapping[k] : k \in Key} \ {None}
  BY DEF NoLeakedPieces
<1>1. \A p \in bits : \E k \in Key : mapping[k] = p
  BY DEF BooksInv, BitsMapped
<1>2. \A k \in Key : mapping[k] # None => mapping[k] \in bits
  BY DEF IInv, MappingSound
<1>3. None \notin bits
  BY DEF IInv, TypeOK, BMTypeOK
<1> QED  BY <1>1, <1>2, <1>3

(* The valid bits, the counters the victim choice rests on and the cursors   *)
(* of the block manager are exact in every reachable state.                *)
THEOREM BooksAlwaysExact == Spec => []BooksExact
<1>1. Init => BooksInv
  BY InitBooks
<1>2. IInv /\ BooksInv /\ [Next]_vars => BooksInv'
  BY NextBooks
<1>3. IInv /\ BooksInv => BooksExact
  BY NothingLeaked, CursorFollows DEF BooksExact, BooksInv, IInv, TypeOK
<1> QED  BY <1>1, <1>2, <1>3, InductiveInvariant, PTL DEF Spec

-----------------------------------------------------------------------------
(* What a page holds after a prefix of the device queue.                   *)

(* A page holds one thing at a time.                                       *)
LEMMA HoldsOnce ==
    ASSUME NEW p \in Ppa, NEW n \in Nat, NEW d, NEW e,
           Holds(p, n, d), Holds(p, n, e)
    PROVE  d = e
<1>1. CASE \A i \in 1 .. n : ~Touches(i, p)
  BY <1>1 DEF Holds
<1>2. CASE \E i \in 1 .. n : Touches(i, p)
  <2>1. PICK i \in 1 .. n :
          /\ Touches(i, p) /\ \A j \in 1 .. n : Touches(j, p) => j <= i
          /\ d = IF devq[i].op = "write" THEN devq[i].data ELSE None
    BY <1>2 DEF Holds
  <2>2. PICK h \in 1 .. n :
          /\ Touches(h, p) /\ \A j \in 1 .. n : Touches(j, p) => j <= h
          /\ e = IF devq[h].op = "write" THEN devq[h].data ELSE None
    BY <1>2 DEF Holds
  <2>3. i = h
    BY <2>1, <2>2
  <2> QED  BY <2>1, <2>2, <2>3
<1> QED  BY <1>1, <1>2

(* Before the first queued request a page holds what the flash does.        *)
LEMMA HoldsFirst ==
    ASSUME NEW p \in Ppa, NEW d
    PROVE  Holds(p, 0, d) <=> d = flash[p]
<1>1. \A i \in 1 .. 0 : FALSE
  OBVIOUS
<1> QED  BY <1>1 DEF Holds

(* Effective is what the page holds after the whole queue.                  *)
LEMMA EffectiveHolds ==
    ASSUME devq \in Seq(DevRequest), NEW p \in Ppa, NEW d, Holds(p, Len(devq), d)
    PROVE  Effective(p) = d
<1> DEFINE n == Len(devq)
           at == {i \in DOMAIN devq : Touches(i, p)}
           lastOp == CHOOSE i \in at : \A j \in at : j <= i
<1>1. n \in Nat /\ DOMAIN devq = 1 .. n
  BY LenProperties
<1>2. Effective(p) = IF at = {} THEN flash[p]
                     ELSE IF devq[lastOp].op = "write" THEN devq[lastOp].data ELSE None
  BY DEF Effective, Touches
<1>3. CASE at = {}
  <2>1. \A i \in 1 .. n : ~Touches(i, p)
    BY <1>1, <1>3
  <2> QED  BY <1>2, <1>3, <2>1 DEF Holds
<1>4. CASE at # {}
  <2>1. PICK i \in 1 .. n :
          /\ Touches(i, p) /\ \A j \in 1 .. n : Touches(j, p) => j <= i
          /\ d = IF devq[i].op = "write" THEN devq[i].data ELSE None
    BY <1>1, <1>4 DEF Holds
  <2>2. i \in at /\ \A j \in at : j <= i
    BY <1>1, <2>1
  <2>3. lastOp \in at /\ \A j \in at : j <= lastOp
    BY <2>2
  <2> HIDE DEF lastOp
  <2>4. lastOp \in 1 .. n /\ lastOp <= i /\ i <= lastOp
    BY <1>1, <2>2, <2>3
  <2>5. lastOp = i
    BY <1>1, <2>1, <2>4
  <2> QED  BY <1>2, <1>4, <2>1, <2>5
<1> QED  BY <1>3, <1>4

(* A request at the end of the queue changes what the page it touches holds *)
(* in the end, and nothing before it or of another page.                   *)
LEMMA HoldsSent ==
    ASSUME devq \in Seq(DevRequest), NEW r \in DevRequest, devq' = Append(devq, r),
           flash' = flash, NEW p \in Ppa
    PROVE  /\ \A n \in 0 .. Len(devq) : \A d : Holds(p, n, d) => Holds(p, n, d)'
           /\ ~(r.op = "write" /\ r.ppa = p) /\ ~(r.op = "trim" /\ r.seg = SegOf(p)) =>
                 \A d : Holds(p, Len(devq), d) => Holds(p, Len(devq), d)'
           /\ r.op = "write" /\ r.ppa = p => Holds(p, Len(devq), r.data)'
           /\ r.op = "trim" /\ r.seg = SegOf(p) => Holds(p, Len(devq), None)'
<1>1. PICK m \in Nat : m = Len(devq)
  BY LenProperties
<1>2. /\ Len(devq') = m + 1 /\ devq'[m + 1] = r
      /\ \A i \in 1 .. m : devq'[i] = devq[i]
  BY <1>1, AppendProperties
<1>3. \A i \in 1 .. m : Touches(i, p)' <=> Touches(i, p)
  BY <1>2 DEF Touches
<1>4. ASSUME NEW n \in 0 .. m, NEW d, Holds(p, n, d)
      PROVE  Holds(p, n, d)'
  <2>1. 1 .. n \subseteq 1 .. m
    BY <1>1
  <2>2. \A i \in 1 .. n : devq'[i] = devq[i] /\ (Touches(i, p)' <=> Touches(i, p))
    BY <1>2, <1>3, <2>1
  <2> QED  BY <1>4, <2>2 DEF Holds
<1>5. Touches(m + 1, p)' <=> \/ r.op = "write" /\ r.ppa = p
                             \/ r.op = "trim" /\ r.seg = SegOf(p)
  BY <1>2 DEF Touches
<1>6. \A i \in 1 .. m + 1 : i \in 1 .. m \/ i = m + 1
  OBVIOUS
<1>7. ASSUME ~Touches(m + 1, p)', NEW d, Holds(p, m, d)
      PROVE  Holds(p, m + 1, d)'
  <2>1. CASE (\A i \in 1 .. m : ~Touches(i, p)) /\ d = flash[p]
    BY <1>3, <1>6, <1>7, <2>1 DEF Holds
  <2>2. ASSUME NEW i \in 1 .. m, Touches(i, p),
               \A j \in 1 .. m : Touches(j, p) => j <= i,
               d = IF devq[i].op = "write" THEN devq[i].data ELSE None
        PROVE  Holds(p, m + 1, d)'
    <3>1. i \in 1 .. m + 1 /\ Touches(i, p)' /\ devq'[i] = devq[i]
      BY <1>2, <1>3, <2>2
    <3>2. \A j \in 1 .. m + 1 : Touches(j, p)' => j <= i
      BY <1>3, <1>6, <1>7, <2>2
    <3> QED  BY <2>2, <3>1, <3>2 DEF Holds
  <2> QED  BY <1>7, <2>1, <2>2 DEF Holds
<1>8. ASSUME Touches(m + 1, p)', NEW d,
             d = IF r.op = "write" THEN r.data ELSE None
      PROVE  Holds(p, m + 1, d)'
  <2>1. m + 1 \in 1 .. m + 1 /\ \A j \in 1 .. m + 1 : j <= m + 1
    OBVIOUS
  <2> QED  BY <1>2, <1>8, <2>1 DEF Holds
<1>9. ASSUME NEW d, Holds(p, m + 1, d)'
      PROVE  Holds(p, Len(devq), d)'
  BY <1>2, <1>9 DEF Holds
<1>10. \A n \in 0 .. Len(devq) : \A d : Holds(p, n, d) => Holds(p, n, d)'
  BY <1>1, <1>4
<1>11. \A d : Holds(p, Len(devq), d) => Holds(p, m, d)
  BY <1>1
<1> QED  BY <1>5, <1>7, <1>8, <1>9, <1>10, <1>11

(* Executing the first request of the queue brings the flash to what the    *)
(* pages held after it, and changes nothing that comes after.              *)
LEMMA HoldsTaken ==
    ASSUME devq \in Seq(DevRequest), devq # <<>>, devq' = Tail(devq), NEW p \in Ppa,
           flash'[p] = IF Touches(1, p)
                       THEN IF devq[1].op = "write" THEN devq[1].data ELSE None
                       ELSE flash[p]
    PROVE  /\ \A n \in 0 .. Len(devq) - 1 : \A d : Holds(p, n + 1, d) => Holds(p, n, d)'
           /\ \A d : Holds(p, Len(devq), d) => Holds(p, Len(devq), d)'
<1>1. PICK m \in Nat \ {0} : m = Len(devq)
  BY LenProperties, EmptySeq
<1>2. /\ Len(devq') = m - 1
      /\ \A i \in 1 .. m - 1 : devq'[i] = devq[i + 1]
  BY <1>1, HeadTailProperties
<1>3. \A i \in 1 .. m - 1 : Touches(i, p)' <=> Touches(i + 1, p)
  BY <1>2 DEF Touches
<1>4. ASSUME NEW n \in 0 .. m - 1, NEW d, Holds(p, n + 1, d)
      PROVE  Holds(p, n, d)'
  <2>1. \A i \in 1 .. n : /\ i \in 1 .. m - 1 /\ i + 1 \in 1 .. n + 1
                          /\ Touches(i, p)' <=> Touches(i + 1, p)
    BY <1>1, <1>3
  <2>2. 1 \in 1 .. n + 1
    OBVIOUS
  <2>3. CASE (\A i \in 1 .. n + 1 : ~Touches(i, p)) /\ d = flash[p]
    BY <2>1, <2>2, <2>3 DEF Holds
  <2>4. ASSUME NEW i \in 1 .. n + 1, Touches(i, p),
               \A j \in 1 .. n + 1 : Touches(j, p) => j <= i,
               d = IF devq[i].op = "write" THEN devq[i].data ELSE None
        PROVE  Holds(p, n, d)'
    <3>1. CASE i = 1
      <4>1. \A j \in 1 .. n : ~Touches(j + 1, p)
        BY <2>4, <3>1
      <4>2. \A j \in 1 .. n : ~Touches(j, p)'
        BY <2>1, <4>1
      <4> QED  BY <2>4, <3>1, <4>2 DEF Holds
    <3>2. CASE i # 1
      <4>1. PICK h \in 1 .. n : h + 1 = i
        <5>1. i - 1 \in 1 .. n /\ (i - 1) + 1 = i
          BY <3>2
        <5> QED  BY <5>1
      <4>2. Touches(h, p)' /\ devq'[h] = devq[i]
        BY <1>2, <2>1, <2>4, <4>1
      <4>3. \A j \in 1 .. n : Touches(j, p)' => j <= h
        BY <2>1, <2>4, <4>1
      <4> QED  BY <2>4, <4>2, <4>3 DEF Holds
    <3> QED  BY <3>1, <3>2
  <2> QED  BY <1>4, <2>3, <2>4 DEF Holds
<1>5. ASSUME NEW d, Holds(p, Len(devq), d)
      PROVE  Holds(p, Len(devq), d)'
  <2>1. PICK n \in 0 .. m - 1 : n = m - 1
    BY <1>1
  <2>2. Holds(p, n + 1, d)
    BY <1>1, <1>5, <2>1
  <2>3. Holds(p, n, d)'
    BY <1>4, <2>2
  <2> QED  BY <1>2, <2>1, <2>3 DEF Holds
<1>6. \A n \in 0 .. Len(devq) - 1 : \A d : Holds(p, n + 1, d) => Holds(p, n, d)'
  BY <1>1, <1>4
<1> QED  BY <1>5, <1>6
-----------------------------------------------------------------------------
(* The queue.                                                              *)

(* A request at the end of the queue that finds its page as it should be,    *)
(* and does not touch a page a collection is still reading, keeps the queue *)
(* in order.                                                               *)
LEMMA QueueSent ==
    ASSUME DevTypeOK, QueueSound, NEW r \in DevRequest, Send(r), flash' = flash,
           r.op = "write" => Holds(r.ppa, Len(devq), None),
           r.op = "read" => \E d \in PageData :
              /\ Holds(r.ppa, Len(devq), d)
              /\ r.ppa = r.req.piece[1] /\ d[r.req.piece[2]] = r.req.want,
           r.op = "gcread" =>
              /\ \E d \in PageData : Holds(r.ppa, Len(devq), d)
              /\ \E g \in gclist' : g.ppa = r.ppa /\ g.data = None
              /\ \A g \in gclist : g.ppa # r.ppa,
           \A g \in gclist : g.data = None => g \in gclist',
           \A g \in gclist : /\ ~(r.op = "write" /\ r.ppa = g.ppa)
                             /\ ~(r.op = "trim" /\ r.seg = SegOf(g.ppa))
    PROVE  QueueSound'
<1>1. devq \in Seq(DevRequest) /\ devq' = Append(devq, r)
  BY DEF DevTypeOK, Send
<1>2. PICK m \in Nat : m = Len(devq)
  BY <1>1, LenProperties
<1>3. /\ devq' \in Seq(DevRequest) /\ Len(devq') = m + 1 /\ devq'[m + 1] = r
      /\ \A i \in 1 .. m : devq'[i] = devq[i]
      /\ DOMAIN devq = 1 .. m /\ DOMAIN devq' = 1 .. m + 1
      /\ \A i \in 1 .. m : devq[i] \in DevRequest
  BY <1>1, <1>2, AppendProperties, LenProperties, ElementOfSeq
<1>4. \A p \in Ppa, n \in 0 .. m : \A d : Holds(p, n, d) => Holds(p, n, d)'
  BY <1>1, <1>2, HoldsSent
<1>5. ASSUME NEW j \in 1 .. m
      PROVE  /\ (devq'[j].op = "write" => WriteSound(j)')
             /\ (devq'[j].op = "read" => ReadSound(j)')
             /\ (devq'[j].op = "gcread" => GcReadSound(j)')
  <2>1. devq'[j] = devq[j] /\ j - 1 \in 0 .. m /\ devq[j] \in DevRequest
    BY <1>3
  <2>2. PICK n \in 0 .. m : n = j - 1
    BY <2>1
  <2>3. CASE devq[j].op = "write"
    <3>1. devq[j].ppa \in Ppa /\ Holds(devq[j].ppa, n, None)
      BY <1>3, <2>1, <2>2, <2>3, RequestFields DEF QueueSound, WriteSound
    <3>2. PICK q \in Ppa : q = devq[j].ppa
      BY <3>1
    <3>3. Holds(q, n, None)'
      BY <1>4, <3>1, <3>2
    <3>4. WriteSound(j)'
      BY <2>1, <2>2, <3>2, <3>3 DEF WriteSound, Holds
    <3> QED  BY <2>1, <2>3, <3>4
  <2>4. CASE devq[j].op = "read"
    <3>1. devq[j].ppa \in Ppa /\ ReadSound(j)
      BY <1>3, <2>1, <2>4, RequestFields DEF QueueSound
    <3>2. PICK q \in Ppa : q = devq[j].ppa
      BY <3>1
    <3>3. PICK d \in PageData : Holds(q, n, d) /\ q = devq[j].req.piece[1]
                                /\ d[devq[j].req.piece[2]] = devq[j].req.want
      BY <2>2, <3>1, <3>2 DEF ReadSound
    <3>4. Holds(q, n, d)'
      BY <1>4, <3>3
    <3>5. Holds(devq[j].ppa, j - 1, d)'
      BY <2>1, <2>2, <3>2, <3>4 DEF Holds
    <3>6. ReadSound(j)'
      BY <2>1, <3>2, <3>3, <3>5 DEF ReadSound
    <3> QED  BY <2>1, <2>4, <3>6
  <2>5. CASE devq[j].op = "gcread"
    <3>1. devq[j].ppa \in Ppa /\ GcReadSound(j)
      BY <1>3, <2>1, <2>5, RequestFields DEF QueueSound
    <3>2. PICK q \in Ppa : q = devq[j].ppa
      BY <3>1
    <3>3. PICK d \in PageData : Holds(q, n, d)
      BY <2>2, <3>1, <3>2 DEF GcReadSound
    <3>4. PICK g \in gclist : g.ppa = q /\ g.data = None
      BY <3>1, <3>2 DEF GcReadSound
    <3>5. Holds(devq[j].ppa, j - 1, d)'
      <4>1. Holds(q, n, d)'
        BY <1>4, <3>3
      <4> QED  BY <2>1, <2>2, <3>2, <4>1 DEF Holds
    <3>6. \A i \in 1 .. m + 1 : i >= j => ~Touches(i, q)'
      <4> SUFFICES ASSUME NEW i \in 1 .. m + 1, i >= j PROVE ~Touches(i, q)'
        OBVIOUS
      <4>1. CASE i = m + 1
        <5>1. Touches(i, q)' <=> \/ r.op = "write" /\ r.ppa = q
                                 \/ r.op = "trim" /\ r.seg = SegOf(q)
          BY <1>3, <4>1 DEF Touches
        <5> QED  BY <3>4, <5>1
      <4>2. CASE i # m + 1
        <5>1. i \in 1 .. m
          BY <4>2
        <5>2. ~Touches(i, q)
          BY <1>3, <3>1, <3>2, <5>1 DEF GcReadSound
        <5> QED  BY <1>3, <5>1, <5>2 DEF Touches
      <4> QED  BY <4>1, <4>2
    <3>7. \A i \in 1 .. m + 1 : devq'[i].op = "gcread" /\ devq'[i].ppa = q => i = j
      <4> TAKE i \in 1 .. m + 1
      <4>1. CASE i = m + 1
        BY <1>3, <3>4, <4>1
      <4>2. CASE i # m + 1
        <5>1. i \in 1 .. m
          BY <4>2
        <5> QED  BY <1>3, <3>1, <3>2, <5>1 DEF GcReadSound
      <4> QED  BY <4>1, <4>2
    <3>8. GcReadSound(j)'
      <4>1. \A i \in DOMAIN devq' : i >= j => ~Touches(i, devq[j].ppa)'
        BY <1>3, <2>1, <3>2, <3>6 DEF Touches
      <4> QED  BY <1>3, <2>1, <3>2, <3>4, <3>5, <3>7, <4>1 DEF GcReadSound
    <3> QED  BY <2>1, <2>5, <3>8
  <2> QED  BY <2>1, <2>3, <2>4, <2>5
<1>6. ASSUME NEW j \in Nat, j = m + 1
      PROVE  /\ (devq'[j].op = "write" => WriteSound(j)')
             /\ (devq'[j].op = "read" => ReadSound(j)')
             /\ (devq'[j].op = "gcread" => GcReadSound(j)')
  <2>1. devq'[j] = r /\ j - 1 = m
    BY <1>3, <1>6
  <2>2. CASE r.op = "write"
    <3>1. PICK q \in Ppa : q = r.ppa
      BY <2>2, RequestFields
    <3>2. Holds(q, m, None)'
      BY <1>2, <1>4, <2>2, <3>1
    <3>3. WriteSound(j)'
      BY <2>1, <3>1, <3>2 DEF WriteSound, Holds
    <3> QED  BY <2>1, <2>2, <3>3
  <2>3. CASE r.op = "read"
    <3>1. PICK q \in Ppa : q = r.ppa
      BY <2>3, RequestFields
    <3>2. PICK d \in PageData : Holds(q, m, d) /\ q = r.req.piece[1]
                                /\ d[r.req.piece[2]] = r.req.want
      BY <1>2, <2>3, <3>1
    <3>3. Holds(q, m, d)'
      BY <1>4, <3>2
    <3>4. Holds(devq[j].ppa, j - 1, d)'
      BY <2>1, <3>1, <3>3 DEF Holds
    <3>5. ReadSound(j)'
      BY <2>1, <3>1, <3>2, <3>4 DEF ReadSound
    <3> QED  BY <2>1, <2>3, <3>5
  <2>4. CASE r.op = "gcread"
    <3>1. PICK q \in Ppa : q = r.ppa
      BY <2>4, RequestFields
    <3>2. PICK d \in PageData : Holds(q, m, d)
      BY <1>2, <2>4, <3>1
    <3>3. Holds(devq[j].ppa, j - 1, d)'
      <4>1. Holds(q, m, d)'
        BY <1>4, <3>2
      <4> QED  BY <2>1, <3>1, <4>1 DEF Holds
    <3>4. \A i \in DOMAIN devq' : i >= j => i = j
      BY <1>3, <1>6
    <3>5. \A i \in DOMAIN devq' : i >= j => ~Touches(i, devq[j].ppa)'
      BY <2>1, <2>4, <3>4 DEF Touches
    <3>6. \A i \in DOMAIN devq' : devq'[i].op = "gcread" /\ devq'[i].ppa = q => i = j
      <4> SUFFICES ASSUME NEW i \in 1 .. m, devq[i].op = "gcread", devq[i].ppa = q
                   PROVE  FALSE
        BY <1>3, <1>6
      <4>1. \E g \in gclist : g.ppa = q
        BY <1>3 DEF QueueSound, GcReadSound
      <4> QED  BY <2>4, <3>1, <4>1
    <3>7. GcReadSound(j)'
      BY <2>1, <2>4, <3>1, <3>3, <3>5, <3>6 DEF GcReadSound
    <3> QED  BY <2>1, <2>4, <3>7
  <2> QED  BY <2>1, <2>2, <2>3, <2>4
<1>7. \A j \in DOMAIN devq' : j \in 1 .. m \/ (j \in Nat /\ j = m + 1)
  BY <1>3
<1> QED  BY <1>5, <1>6, <1>7 DEF QueueSound

(* The first request leaves a queue that is in order, and the read of a page *)
(* of the victim is the only one that may take the page's data.            *)
LEMMA QueueTaken ==
    ASSUME DevTypeOK, QueueSound, devq # <<>>, devq' = Tail(devq),
           \A p \in Ppa : flash'[p] = IF Touches(1, p)
                          THEN IF devq[1].op = "write" THEN devq[1].data ELSE None
                          ELSE flash[p],
           \A g \in gclist : g.data = None /\ ~(devq[1].op = "gcread" /\ devq[1].ppa = g.ppa)
                                => g \in gclist'
    PROVE  QueueSound'
<1>1. devq \in Seq(DevRequest)
  BY DEF DevTypeOK
<1>2. PICK m \in Nat \ {0} : m = Len(devq)
  BY <1>1, LenProperties, EmptySeq
<1>3. /\ devq' \in Seq(DevRequest) /\ Len(devq') = m - 1
      /\ \A i \in 1 .. m - 1 : devq'[i] = devq[i + 1]
      /\ DOMAIN devq = 1 .. m /\ DOMAIN devq' = 1 .. m - 1
      /\ \A i \in 1 .. m : devq[i] \in DevRequest
  BY <1>1, <1>2, HeadTailProperties, LenProperties, ElementOfSeq
<1>4. \A p \in Ppa, n \in 0 .. m - 1 : \A d : Holds(p, n + 1, d) => Holds(p, n, d)'
  BY <1>1, <1>2, HoldsTaken
<1>5. ASSUME NEW j \in 1 .. m - 1
      PROVE  /\ (devq'[j].op = "write" => WriteSound(j)')
             /\ (devq'[j].op = "read" => ReadSound(j)')
             /\ (devq'[j].op = "gcread" => GcReadSound(j)')
  <2>1. PICK h \in 1 .. m : h = j + 1
    BY <1>2
  <2>2. devq'[j] = devq[h] /\ devq[h] \in DevRequest
    BY <1>3, <2>1
  <2>3. PICK n \in 0 .. m - 1 : n = j - 1 /\ n + 1 = h - 1
    BY <1>2, <2>1
  <2>4. CASE devq[h].op = "write"
    <3>1. PICK q \in Ppa : q = devq[h].ppa /\ Holds(q, n + 1, None)
      BY <1>3, <2>2, <2>3, <2>4, RequestFields DEF QueueSound, WriteSound
    <3>2. Holds(q, n, None)'
      BY <1>4, <3>1
    <3>3. WriteSound(j)'
      BY <2>2, <2>3, <3>1, <3>2 DEF WriteSound, Holds
    <3> QED  BY <2>2, <2>4, <3>3
  <2>5. CASE devq[h].op = "read"
    <3>1. PICK q \in Ppa : q = devq[h].ppa
      BY <2>2, <2>5, RequestFields
    <3>2. ReadSound(h)
      BY <1>3, <2>5 DEF QueueSound
    <3>3. PICK d \in PageData : Holds(q, n + 1, d) /\ q = devq[h].req.piece[1]
                                /\ d[devq[h].req.piece[2]] = devq[h].req.want
      BY <2>3, <3>1, <3>2 DEF ReadSound
    <3>4. Holds(q, n, d)'
      BY <1>4, <3>3
    <3>5. Holds(devq[j].ppa, j - 1, d)'
      BY <2>2, <2>3, <3>1, <3>4 DEF Holds
    <3>6. ReadSound(j)'
      BY <2>2, <3>1, <3>3, <3>5 DEF ReadSound
    <3> QED  BY <2>2, <2>5, <3>6
  <2>6. CASE devq[h].op = "gcread"
    <3>1. PICK q \in Ppa : q = devq[h].ppa
      BY <2>2, <2>6, RequestFields
    <3>2. GcReadSound(h)
      BY <1>3, <2>6 DEF QueueSound
    <3>3. PICK d \in PageData : Holds(q, n + 1, d)
      BY <2>3, <3>1, <3>2 DEF GcReadSound
    <3>4. PICK g \in gclist : g.ppa = q /\ g.data = None
      BY <3>1, <3>2 DEF GcReadSound
    <3>5. Holds(devq[j].ppa, j - 1, d)'
      <4>1. Holds(q, n, d)'
        BY <1>4, <3>3
      <4> QED  BY <2>2, <2>3, <3>1, <4>1 DEF Holds
    <3>6. g \in gclist'
      <4>1. 1 \in 1 .. m /\ h # 1
        BY <2>1
      <4>2. ~(devq[1].op = "gcread" /\ devq[1].ppa = q)
        BY <1>3, <3>1, <3>2, <4>1 DEF GcReadSound
      <4> QED  BY <3>4, <4>2
    <3>7. \A i \in 1 .. m - 1 : i >= j => ~Touches(i, q)'
      <4> SUFFICES ASSUME NEW i \in 1 .. m - 1, i >= j PROVE ~Touches(i, q)'
        OBVIOUS
      <4>1. PICK k \in 1 .. m : k = i + 1 /\ k >= h
        BY <1>2, <2>1
      <4>2. ~Touches(k, q)
        BY <1>3, <3>1, <3>2, <4>1 DEF GcReadSound
      <4> QED  BY <1>3, <4>1, <4>2 DEF Touches
    <3>8. \A i \in 1 .. m - 1 : devq'[i].op = "gcread" /\ devq'[i].ppa = q => i = j
      <4> TAKE i \in 1 .. m - 1
      <4>1. PICK k \in 1 .. m : k = i + 1
        BY <1>2
      <4>2. devq[k].op = "gcread" /\ devq[k].ppa = q => k = h
        BY <1>3, <3>1, <3>2 DEF GcReadSound
      <4> QED  BY <1>3, <2>1, <4>1, <4>2
    <3>9. GcReadSound(j)'
      <4>1. \A i \in DOMAIN devq' : i >= j => ~Touches(i, devq[j].ppa)'
        BY <1>3, <2>2, <3>1, <3>7 DEF Touches
      <4> QED  BY <1>3, <2>2, <3>1, <3>4, <3>5, <3>6, <3>8, <4>1 DEF GcReadSound
    <3> QED  BY <2>2, <2>6, <3>9
  <2> QED  BY <2>2, <2>4, <2>5, <2>6
<1> QED  BY <1>3, <1>5 DEF QueueSound

(* A step that leaves the device and the reads of the victim alone keeps the *)
(* queue in order.                                                         *)
LEMMA QueueStill ==
    ASSUME QueueSound, devq' = devq, flash' = flash,
           \A g \in gclist : g.data = None => g \in gclist'
    PROVE  QueueSound'
BY DEF QueueSound, WriteSound, ReadSound, GcReadSound, Holds, Touches
-----------------------------------------------------------------------------
(* What the pages hold after the whole queue.                              *)

\* The pages end with what they ended with before the step.
EndsKept == \A p \in Ppa : \A d : Ends(p, d) => Ends(p, d)'

(* A page ends with one thing.                                             *)
LEMMA EndsOnce ==
    ASSUME DevTypeOK, NEW p \in Ppa, NEW d, NEW e, Ends(p, d), Ends(p, e)
    PROVE  d = e
<1>1. Len(devq) \in Nat
  BY LenProperties DEF DevTypeOK
<1> QED  BY <1>1, HoldsOnce DEF Ends

(* A step that leaves the device alone changes nothing.                     *)
LEMMA EndsStill ==
    ASSUME devq' = devq, flash' = flash
    PROVE  EndsKept
BY DEF EndsKept, Ends, Holds, Touches

(* A request at the end of the queue decides about the page it touches, and  *)
(* about no other.                                                         *)
LEMMA EndsSent ==
    ASSUME DevTypeOK, NEW r \in DevRequest, Send(r), flash' = flash, NEW p \in Ppa
    PROVE  /\ ~(r.op = "write" /\ r.ppa = p) /\ ~(r.op = "trim" /\ r.seg = SegOf(p)) =>
                 \A d : Ends(p, d) => Ends(p, d)'
           /\ r.op = "write" /\ r.ppa = p => Ends(p, r.data)'
           /\ r.op = "trim" /\ r.seg = SegOf(p) => Ends(p, None)'
BY HoldsSent DEF Ends, DevTypeOK, Send

(* Executing the first request changes nothing.                             *)
LEMMA EndsTaken ==
    ASSUME DevTypeOK, devq # <<>>, devq' = Tail(devq),
           \A p \in Ppa : flash'[p] = IF Touches(1, p)
                          THEN IF devq[1].op = "write" THEN devq[1].data ELSE None
                          ELSE flash[p]
    PROVE  EndsKept
BY HoldsTaken DEF EndsKept, Ends, DevTypeOK
-----------------------------------------------------------------------------
(* What a step that leaves a part of the store alone keeps.                *)

(* Pages are neither handed out nor taken back, and none changes.           *)
LEMMA PagesKept ==
    ASSUME PagesSound, EndsKept, pptr' = pptr, newppa' = newppa,
           pc \in {"map", "submit"} <=> pc' \in {"map", "submit"}
    PROVE  PagesSound'
<1> SUFFICES ASSUME NEW p \in Ppa
             PROVE  IF (HandedOut(p) /\ ~BeingAssigned(p))'
                    THEN \E d \in PageData : Ends(p, d)'
                    ELSE Ends(p, None)'
  BY DEF PagesSound
<1>1. (HandedOut(p) /\ ~BeingAssigned(p))' <=> HandedOut(p) /\ ~BeingAssigned(p)
  BY DEF HandedOut, BeingAssigned
<1>2. CASE HandedOut(p) /\ ~BeingAssigned(p)
  <2>1. PICK d \in PageData : Ends(p, d)
    BY <1>2 DEF PagesSound
  <2>2. Ends(p, d)'
    BY <2>1 DEF EndsKept
  <2> QED  BY <1>1, <1>2, <2>2
<1>3. CASE ~(HandedOut(p) /\ ~BeingAssigned(p))
  <2>1. Ends(p, None)
    BY <1>3 DEF PagesSound
  <2>2. Ends(p, None)'
    BY <2>1 DEF EndsKept
  <2> QED  BY <1>1, <1>3, <2>2
<1> QED  BY <1>2, <1>3

(* The mapping and the latest values stay, and no page changes.             *)
LEMMA MappingKept ==
    ASSUME MappingLatest, EndsKept, UNCHANGED <<mapping, abuf, latest>>
    PROVE  MappingLatest'
<1>1. AbufKeys' = AbufKeys
  BY DEF AbufKeys
<1> SUFFICES ASSUME NEW k \in Key \ AbufKeys
             PROVE  /\ mapping[k] = None => latest[k] = Junk
                    /\ \A p \in Piece : mapping[k] = p =>
                          \E d \in PageData : Ends(p[1], d)' /\ d[p[2]] = latest[k]
  BY <1>1 DEF MappingLatest
<1>2. ASSUME NEW p \in Piece, mapping[k] = p
      PROVE  \E d \in PageData : Ends(p[1], d)' /\ d[p[2]] = latest[k]
  <2>1. PICK d \in PageData : Ends(p[1], d) /\ d[p[2]] = latest[k]
    BY <1>2 DEF MappingLatest
  <2>2. PICK q \in Ppa : q = p[1]
    BY PieceParts
  <2>3. Ends(q, d)'
    BY <2>1, <2>2 DEF EndsKept
  <2> QED  BY <2>1, <2>2, <2>3
<1> QED  BY <1>2 DEF MappingLatest

(* The collection gets no new page to read and no new data.                 *)
LEMMA GcPagesKept ==
    ASSUME FTLTypeOK, GcPagesSound, EndsKept, pptr' = pptr, gcread' \subseteq gcread,
           \A g \in gclist' : g.data # None => g \in gclist
    PROVE  GcPagesSound'
<1>1. \A p \in gcread' : HandedOut(p)'
  BY DEF GcPagesSound, HandedOut
<1>2. ASSUME NEW g \in gclist', g.data # None
      PROVE  Ends(g.ppa, g.data)'
  <2>1. g \in gclist /\ Ends(g.ppa, g.data) /\ g.ppa \in Ppa
    BY <1>2 DEF GcPagesSound, FTLTypeOK
  <2>2. PICK q \in Ppa : q = g.ppa
    BY <2>1
  <2>3. PICK d : d = g.data
    OBVIOUS
  <2>4. Ends(q, d)'
    BY <2>1, <2>2, <2>3 DEF EndsKept
  <2> QED  BY <2>2, <2>3, <2>4
<1> QED  BY <1>1, <1>2 DEF GcPagesSound

(* The buffers stay.                                                       *)
LEMMA BuffersKept ==
    ASSUME BuffersLatest, UNCHANGED <<abuf, gbuf, latest>>
    PROVE  BuffersLatest'
BY DEF BuffersLatest, AbufKeys

(* The loop of page_map_assign is not under way, or does not move.          *)
LEMMA AssignKept ==
    ASSUME AssignSound,
           \/ pc' \notin {"map", "submit"}
           \/ pc' = pc /\ UNCHANGED <<newppa, mapi, oob, abuf, mapping>>
    PROVE  AssignSound'
BY DEF AssignSound

(* No device callback starts.                                              *)
LEMMA CallbackKept ==
    ASSUME CallbackFresh, devcb' \in {devcb, None}
    PROVE  CallbackFresh'
BY DEF CallbackFresh

(* A step of the main thread that hands out, maps and sends nothing.        *)
LEMMA StoreUntouched ==
    ASSUME IInv, StoreInv,
           UNCHANGED <<pptr, mapping, abuf, asgVars, oob, gcread, gclist, gbuf, devq,
                       flash, latest>>,
           devcb' \in {devcb, None},
           \/ pc' = pc
           \/ pc \notin {"map", "submit"} /\ pc' \notin {"map", "submit"}
    PROVE  StoreInv'
<1>1. EndsKept
  BY EndsStill
<1>2. QueueSound'
  BY QueueStill DEF StoreInv
<1>3. PagesSound'
  BY <1>1, PagesKept DEF StoreInv, asgVars
<1>4. MappingLatest'
  BY <1>1, MappingKept DEF StoreInv
<1>5. GcPagesSound'
  BY <1>1, GcPagesKept DEF StoreInv, IInv, TypeOK
<1>6. BuffersLatest' /\ CallbackFresh'
  BY BuffersKept, CallbackKept DEF StoreInv
<1>7. AssignSound'
  BY AssignKept DEF StoreInv, asgVars
<1> QED  BY <1>2, <1>3, <1>4, <1>5, <1>6, <1>7 DEF StoreInv
-----------------------------------------------------------------------------
(* The device thread.                                                      *)

(* What the device leaves alone when it executes the first request.         *)
LEMMA StoreTaken ==
    ASSUME IInv, StoreInv, devq # <<>>, devq' = Tail(devq),
           \A p \in Ppa : flash'[p] = IF Touches(1, p)
                          THEN IF devq[1].op = "write" THEN devq[1].data ELSE None
                          ELSE flash[p],
           UNCHANGED <<bmVars, ftlVars, pc, asgVars, gcread, gbuf, latest>>,
           \A g \in gclist : g.data = None /\ ~(devq[1].op = "gcread" /\ devq[1].ppa = g.ppa)
                                => g \in gclist',
           GcPagesSound', CallbackFresh'
    PROVE  StoreInv'
<1> USE DEF bmVars, cursorVars, ftlVars, asgVars
<1>1. DevTypeOK /\ QueueSound
  BY DEF IInv, TypeOK, StoreInv
<1>2. EndsKept
  BY <1>1, EndsTaken
<1>3. QueueSound'
  BY <1>1, QueueTaken
<1>4. PagesSound'
  BY <1>2, PagesKept DEF StoreInv
<1>5. MappingLatest'
  BY <1>2, MappingKept DEF StoreInv
<1>6. BuffersLatest'
  BY BuffersKept DEF StoreInv
<1>7. AssignSound'
  BY AssignKept DEF StoreInv
<1> QED  BY <1>3, <1>4, <1>5, <1>6, <1>7 DEF StoreInv

(* The request the device takes is the first one of the queue.              *)
LEMMA FirstRequest ==
    ASSUME DevTypeOK, NEW op, Dequeue(op)
    PROVE  /\ devq # <<>> /\ devq' = Tail(devq) /\ Head(devq) = devq[1]
           /\ devq[1] \in DevRequest /\ devq[1].op = op /\ 1 \in DOMAIN devq
<1>1. devq \in Seq(DevRequest) /\ devq # <<>>
  BY DEF Dequeue, DevTypeOK
<1>2. Len(devq) \in Nat \ {0} /\ DOMAIN devq = 1 .. Len(devq)
  BY <1>1, LenProperties, EmptySeq
<1>3. Head(devq) = devq[1]
  BY <1>1
<1> QED  BY <1>1, <1>2, <1>3, Dequeued DEF Dequeue

(* posix_write.                                                            *)
LEMMA DevWriteStore ==
    ASSUME IInv, StoreInv, DevWrite
    PROVE  StoreInv'
<1>1. DevTypeOK /\ FTLTypeOK /\ Dequeue("write")
  BY DEF IInv, TypeOK, DevWrite
<1>2. /\ devq # <<>> /\ devq' = Tail(devq) /\ Head(devq) = devq[1]
      /\ devq[1] \in DevRequest /\ devq[1].op = "write" /\ devq[1].ppa \in Ppa
  BY <1>1, FirstRequest, RequestFields
<1>3. \A p \in Ppa : flash'[p] = IF p = devq[1].ppa THEN devq[1].data ELSE flash[p]
  BY <1>1, <1>2 DEF DevWrite, DevTypeOK
<1>4. \A p \in Ppa : flash'[p] = IF Touches(1, p)
                     THEN IF devq[1].op = "write" THEN devq[1].data ELSE None
                     ELSE flash[p]
  BY <1>2, <1>3 DEF Touches
<1>5. EndsKept
  BY <1>1, <1>2, <1>4, EndsTaken
<1>6. UNCHANGED <<bmVars, ftlVars, pc, asgVars, gcVars, devcb, latest>>
  BY DEF DevWrite, Silent
<1>7. GcPagesSound' /\ CallbackFresh'
  BY <1>1, <1>5, <1>6, GcPagesKept, CallbackKept
     DEF StoreInv, bmVars, cursorVars, gcVars
<1> QED  BY <1>2, <1>4, <1>6, <1>7, StoreTaken DEF gcVars

(* posix_trim_block.                                                       *)
LEMMA DevTrimStore ==
    ASSUME IInv, StoreInv, DevTrim
    PROVE  StoreInv'
<1>1. DevTypeOK /\ FTLTypeOK /\ Dequeue("trim")
  BY DEF IInv, TypeOK, DevTrim
<1>2. /\ devq # <<>> /\ devq' = Tail(devq) /\ Head(devq) = devq[1]
      /\ devq[1] \in DevRequest /\ devq[1].op = "trim"
  BY <1>1, FirstRequest, RequestFields
<1>3. \A p \in Ppa : flash'[p] = IF SegOf(p) = devq[1].seg THEN None ELSE flash[p]
  BY <1>1, <1>2 DEF DevTrim, DevTypeOK
<1>4. \A p \in Ppa : flash'[p] = IF Touches(1, p)
                     THEN IF devq[1].op = "write" THEN devq[1].data ELSE None
                     ELSE flash[p]
  BY <1>2, <1>3 DEF Touches
<1>5. EndsKept
  BY <1>1, <1>2, <1>4, EndsTaken
<1>6. UNCHANGED <<bmVars, ftlVars, pc, asgVars, gcVars, devcb, latest>>
  BY DEF DevTrim, Silent
<1>7. GcPagesSound' /\ CallbackFresh'
  BY <1>1, <1>5, <1>6, GcPagesKept, CallbackKept
     DEF StoreInv, bmVars, cursorVars, gcVars
<1> QED  BY <1>2, <1>4, <1>6, <1>7, StoreTaken DEF gcVars

(* page_end_req(DATAR): the page read is the one the request asks for, as it *)
(* was when the read was issued.                                           *)
LEMMA DevReadStore ==
    ASSUME IInv, StoreInv, DevRead
    PROVE  StoreInv'
<1>1. DevTypeOK /\ FTLTypeOK /\ Dequeue("read")
  BY DEF IInv, TypeOK, DevRead
<1>2. /\ devq # <<>> /\ devq' = Tail(devq) /\ Head(devq) = devq[1]
      /\ devq[1] \in DevRequest /\ devq[1].op = "read" /\ devq[1].ppa \in Ppa
      /\ 1 \in DOMAIN devq
  BY <1>1, FirstRequest, RequestFields
<1>3. flash' = flash
  BY DEF DevRead
<1>4. \A p \in Ppa : flash'[p] = IF Touches(1, p)
                     THEN IF devq[1].op = "write" THEN devq[1].data ELSE None
                     ELSE flash[p]
  BY <1>2, <1>3 DEF Touches
<1>5. EndsKept
  BY <1>1, <1>2, <1>4, EndsTaken
<1>6. UNCHANGED <<bmVars, ftlVars, pc, asgVars, gcVars, latest>>
  BY DEF DevRead
<1>7. CallbackFresh'
  <2>1. ReadSound(1)
    BY <1>2 DEF StoreInv, QueueSound
  <2>2. PICK d \in PageData : /\ Holds(devq[1].ppa, 0, d)
                              /\ d[devq[1].req.piece[2]] = devq[1].req.want
    <3>1. 1 - 1 = 0
      OBVIOUS
    <3> QED  BY <2>1, <3>1 DEF ReadSound
  <2>3. d = flash[devq[1].ppa] /\ d # None
    BY <1>2, <2>2, HoldsFirst, PageAssumption
  <2>4. devcb' = [req |-> devq[1].req, data |-> d]
    BY <1>2, <2>3 DEF DevRead, ReadPage
  <2> QED  BY <2>2, <2>4 DEF CallbackFresh
<1>8. GcPagesSound'
  BY <1>1, <1>5, <1>6, GcPagesKept DEF StoreInv, bmVars, cursorVars, gcVars
<1> QED  BY <1>2, <1>4, <1>6, <1>7, <1>8, StoreTaken DEF gcVars

(* page_gc_end_req(GCDR): the data a page of temp_list gets is still what the *)
(* page ends with, since nothing behind the read touches the page.         *)
LEMMA DevGcReadStore ==
    ASSUME IInv, StoreInv, DevGcRead
    PROVE  StoreInv'
<1>1. DevTypeOK /\ FTLTypeOK /\ Dequeue("gcread")
  BY DEF IInv, TypeOK, DevGcRead
<1>2. /\ devq # <<>> /\ devq' = Tail(devq) /\ Head(devq) = devq[1]
      /\ devq[1] \in DevRequest /\ devq[1].op = "gcread" /\ devq[1].ppa \in Ppa
      /\ 1 \in DOMAIN devq
  BY <1>1, FirstRequest, RequestFields
<1>3. PICK q \in Ppa : q = devq[1].ppa
  BY <1>2
<1>4. \A p \in Ppa : flash'[p] = IF Touches(1, p)
                     THEN IF devq[1].op = "write" THEN devq[1].data ELSE None
                     ELSE flash[p]
  BY <1>2 DEF Touches, DevGcRead
<1>5. EndsKept
  BY <1>1, <1>2, <1>4, EndsTaken
<1>6. UNCHANGED <<bmVars, ftlVars, pc, asgVars, gcread, gbuf, devcb, latest>>
  BY DEF DevGcRead, Silent
<1>7. GcReadSound(1)
  BY <1>2 DEF StoreInv, QueueSound
<1>8. flash[q] \in PageData /\ flash[q] # None
  <2>1. 1 - 1 = 0
    OBVIOUS
  <2>2. PICK d \in PageData : Holds(q, 0, d)
    BY <1>3, <1>7, <2>1 DEF GcReadSound
  <2> QED  BY <2>2, HoldsFirst, PageAssumption
<1>9. PICK e : e = flash[q]
  OBVIOUS
<1>10. Ends(q, e)
  <2>1. \A i \in 1 .. Len(devq) : ~Touches(i, q)
    BY <1>1, <1>3, <1>7, LenProperties DEF GcReadSound, DevTypeOK
  <2> QED  BY <1>9, <2>1 DEF Ends, Holds
<1>11. Ends(q, e)'
  BY <1>5, <1>10 DEF EndsKept
<1>12. gclist' = {IF g.ppa = q THEN [g EXCEPT !.data = e] ELSE g : g \in gclist}
  BY <1>2, <1>3, <1>8, <1>9 DEF DevGcRead, Done, ReadPage
<1>13. \A g \in gclist : g.ppa # q => g \in gclist'
  BY <1>12
<1>14. GcPagesSound'
  <2>1. ASSUME NEW p \in gcread'
        PROVE  HandedOut(p)'
    BY <1>6, <2>1 DEF StoreInv, GcPagesSound, HandedOut, bmVars, cursorVars
  <2>2. ASSUME NEW g \in gclist', g.data # None
        PROVE  Ends(g.ppa, g.data)'
    <3>1. PICK h \in gclist : g = IF h.ppa = q THEN [h EXCEPT !.data = e] ELSE h
      BY <1>12
    <3>2. h \in [ppa : Ppa, data : PageData \cup {None}]
      BY <1>1 DEF FTLTypeOK
    <3>3. CASE h.ppa = q
      <4>1. g.ppa = q /\ g.data = e
        BY <3>1, <3>2, <3>3
      <4> QED  BY <1>11, <4>1
    <3>4. CASE h.ppa # q
      <4>1. PICK p \in Ppa : p = g.ppa
        BY <3>1, <3>2, <3>4
      <4>2. PICK d : d = g.data
        OBVIOUS
      <4>3. Ends(p, d)
        BY <2>2, <3>1, <3>4, <4>1, <4>2 DEF StoreInv, GcPagesSound
      <4>4. Ends(p, d)'
        BY <1>5, <4>3 DEF EndsKept
      <4> QED  BY <4>1, <4>2, <4>4
    <3> QED  BY <3>3, <3>4
  <2> QED  BY <2>1, <2>2 DEF GcPagesSound
<1>15. CallbackFresh'
  BY <1>6, CallbackKept DEF StoreInv
<1> QED  BY <1>2, <1>3, <1>4, <1>6, <1>13, <1>14, <1>15, StoreTaken
-----------------------------------------------------------------------------
(* Reads and writes of the host.                                           *)

(* A mapped piece is in a page handed out.                                 *)
LEMMA MappedHandedOut ==
    ASSUME IInv, NEW p \in bits
    PROVE  p \in Piece /\ p[1] \in Ppa /\ HandedOut(p[1])
<1>1. p \in Piece /\ p[1][3] < pptr[PieceBlock(p)]
  BY DEF IInv, TypeOK, BMTypeOK, CursorInv
<1> QED  BY <1>1, PieceParts DEF HandedOut, PieceBlock

(* page_read sends a read of the page that will hold the key's latest value. *)
LEMMA PageReadStore ==
    ASSUME IInv, StoreInv, NEW id \in Rid, NEW k \in Key, PageRead(id, k)
    PROVE  StoreInv'
<1> DEFINE r == ReadReq(id, k)
<1>1. UNCHANGED <<bmVars, ftlVars, pc, asgVars, gcVars, devcb, flash, latest>>
  BY DEF PageRead
<1> USE DEF bmVars, cursorVars, ftlVars, gcVars
<1>2. CASE devq' = devq
  BY <1>1, <1>2, StoreUntouched
<1>3. CASE devq' # devq
  <2>1. k \notin AbufKeys /\ mapping[k] # None /\ Send(UserRead(r))
    BY <1>3 DEF PageRead, Reply, ReadReq
  <2>2. PICK p \in Piece : mapping[k] = p
    BY <2>1 DEF IInv, TypeOK, FTLTypeOK
  <2>3. r = [id |-> id, key |-> k, piece |-> p, want |-> latest[k]]
    BY <2>2 DEF ReadReq
  <2> HIDE DEF r
  <2>4. r \in UserReadReq
    BY <2>2, <2>3 DEF UserReadReq, IInv, TypeOK, DevTypeOK
  <2>5. PICK q \in DevRequest : q = UserRead(r)
    BY <2>4, RequestTypes
  <2>6. q.op = "read" /\ q.ppa = p[1] /\ q.req = r
    BY <2>3, <2>5 DEF UserRead
  <2>7. PICK d \in PageData : Ends(p[1], d) /\ d[p[2]] = latest[k]
    BY <2>1, <2>2 DEF StoreInv, MappingLatest
  <2>8. DevTypeOK /\ FTLTypeOK /\ QueueSound
    BY DEF IInv, TypeOK, StoreInv
  <2>9. QueueSound'
    <3>1. Holds(q.ppa, Len(devq), d) /\ q.ppa = q.req.piece[1]
          /\ d[q.req.piece[2]] = q.req.want
      BY <2>3, <2>6, <2>7 DEF Ends
    <3>2. Send(q) /\ q.op # "write" /\ q.op # "gcread" /\ q.op # "trim"
      BY <2>1, <2>5, <2>6
    <3> QED  BY <1>1, <2>8, <3>1, <3>2, QueueSent
  <2>10. EndsKept
    BY <1>1, <2>1, <2>5, <2>6, <2>8, EndsSent DEF EndsKept
  <2>11. PagesSound'
    BY <1>1, <2>10, PagesKept DEF StoreInv, asgVars
  <2>12. MappingLatest'
    BY <1>1, <2>10, MappingKept DEF StoreInv
  <2>13. GcPagesSound'
    BY <1>1, <2>8, <2>10, GcPagesKept DEF StoreInv
  <2>14. BuffersLatest' /\ CallbackFresh'
    BY <1>1, BuffersKept, CallbackKept DEF StoreInv
  <2>15. AssignSound'
    BY <1>1, AssignKept DEF StoreInv, asgVars
  <2> QED  BY <2>9, <2>11, <2>12, <2>13, <2>14, <2>15 DEF StoreInv
<1> QED  BY <1>2, <1>3

(* page_write: the buffered value is the latest one of its key.             *)
LEMMA PageWriteStore ==
    ASSUME IInv, StoreInv, NEW k \in Key, NEW v \in Val, PageWrite(k, v)
    PROVE  StoreInv'
<1> DEFINE R == [key : Key, val : Val]
<1>1. /\ pc = "idle" /\ abuf \in Seq(R)
      /\ DOMAIN abuf = 1 .. Len(abuf) /\ Len(abuf) \in Nat
  BY LenProperties DEF PageWrite, IInv, TypeOK, FTLTypeOK
<1>2. \A j \in DOMAIN abuf : abuf[j] \in R
  BY <1>1, ElementOfSeq
<1>3. \A h \in Key : latest'[h] = IF h = k THEN v ELSE latest[h]
  BY DEF PageWrite, IInv, TypeOK, DevTypeOK
<1>4. /\ \A j \in DOMAIN abuf' : abuf'[j].val = latest'[abuf'[j].key]
      /\ \A j \in DOMAIN abuf : \E i \in DOMAIN abuf' : abuf'[i].key = abuf[j].key
      /\ \E i \in DOMAIN abuf' : abuf'[i].key = k
  <2>1. CASE k \in AbufKeys
    <3> DEFINE q == AbufPos(k)
               e == [abuf[q] EXCEPT !.val = v]
    <3>1. q \in DOMAIN abuf /\ abuf[q].key = k
      BY <2>1 DEF AbufKeys, AbufPos
    <3>2. e \in R /\ e.key = k /\ e.val = v
      BY <1>2, <3>1
    <3>3. abuf' = [abuf EXCEPT ![q] = e]
      BY <2>1 DEF PageWrite
    <3> HIDE DEF e, q
    <3>4. /\ abuf' \in Seq(R) /\ Len(abuf') = Len(abuf)
          /\ \A j \in 1 .. Len(abuf) : abuf'[j] = IF j = q THEN e ELSE abuf[j]
      BY <1>1, <3>1, <3>2, <3>3, ExceptSeq
    <3>5. DOMAIN abuf' = DOMAIN abuf
      BY <1>1, <3>4, LenProperties
    <3>6. \A j \in DOMAIN abuf : abuf'[j].key = abuf[j].key
      BY <1>1, <3>1, <3>2, <3>4
    <3>7. ASSUME NEW j \in DOMAIN abuf'
          PROVE  abuf'[j].val = latest'[abuf'[j].key]
      <4>1. CASE j = q
        BY <1>1, <1>3, <3>2, <3>4, <3>5, <4>1
      <4>2. CASE j # q
        <5>1. abuf'[j] = abuf[j] /\ abuf[j].key # k /\ abuf[j].key \in Key
          BY <1>1, <1>2, <3>1, <3>4, <3>5, <4>2 DEF IInv, BufferInv
        <5>2. abuf[j].val = latest[abuf[j].key]
          BY <3>5 DEF StoreInv, BuffersLatest
        <5> QED  BY <1>3, <5>1, <5>2
      <4> QED  BY <4>1, <4>2
    <3> QED  BY <3>1, <3>5, <3>6, <3>7
  <2>2. CASE k \notin AbufKeys
    <3> DEFINE e == [key |-> k, val |-> v]
    <3>1. e \in R /\ e.key = k /\ e.val = v
      OBVIOUS
    <3>2. abuf' = Append(abuf, e)
      BY <2>2 DEF PageWrite
    <3> HIDE DEF e
    <3>3. /\ abuf' \in Seq(R) /\ Len(abuf') = Len(abuf) + 1
          /\ \A j \in 1 .. Len(abuf) : abuf'[j] = abuf[j]
          /\ abuf'[Len(abuf) + 1] = e
      BY <1>1, <3>1, <3>2, AppendProperties
    <3>4. DOMAIN abuf' = 1 .. Len(abuf) + 1
      BY <3>3, LenProperties
    <3>5. \A j \in 1 .. Len(abuf) : abuf[j].key # k /\ abuf[j].key \in Key
      BY <1>1, <1>2, <2>2 DEF AbufKeys
    <3>6. \A j \in 1 .. Len(abuf) + 1 : j \in 1 .. Len(abuf) \/ j = Len(abuf) + 1
      BY <1>1
    <3>7. \A j \in 1 .. Len(abuf) : abuf[j].val = latest[abuf[j].key]
      BY <1>1 DEF StoreInv, BuffersLatest
    <3>8. 1 .. Len(abuf) \subseteq DOMAIN abuf' /\ Len(abuf) + 1 \in DOMAIN abuf'
      BY <1>1, <3>4
    <3>9. \A j \in DOMAIN abuf' : abuf'[j].val = latest'[abuf'[j].key]
      BY <1>3, <3>1, <3>3, <3>4, <3>5, <3>6, <3>7
    <3> QED  BY <1>1, <3>1, <3>3, <3>8, <3>9
  <2> QED  BY <2>1, <2>2
<1>5. UNCHANGED <<bmVars, mapping, asgVars, gcVars, devq, flash, devcb>>
  BY DEF PageWrite, devVars
<1>6. pc \notin {"map", "submit"} /\ pc' \notin {"map", "submit"}
  BY <1>1 DEF PageWrite
<1>7. gbuf' = <<>>
  BY <1>1, <1>5 DEF IInv, GcIdle, gcVars
<1>8. BuffersLatest'
  BY <1>4, <1>7 DEF BuffersLatest
<1>9. EndsKept
  BY <1>5, EndsStill
<1>10. QueueSound'
  BY <1>5, QueueStill DEF StoreInv, gcVars
<1>11. PagesSound'
  BY <1>5, <1>6, <1>9, PagesKept DEF StoreInv, asgVars, bmVars, cursorVars
<1>12. GcPagesSound'
  BY <1>5, <1>9, GcPagesKept DEF StoreInv, IInv, TypeOK, bmVars, cursorVars, gcVars
<1>13. AssignSound' /\ CallbackFresh'
  BY <1>5, <1>6, AssignKept, CallbackKept DEF StoreInv
<1>14. MappingLatest'
  <2>1. AbufKeys \subseteq AbufKeys' /\ k \in AbufKeys'
    BY <1>4 DEF AbufKeys
  <2> SUFFICES ASSUME NEW h \in Key \ AbufKeys'
               PROVE  /\ mapping[h] = None => latest'[h] = Junk
                      /\ \A p \in Piece : mapping[h] = p =>
                            \E d \in PageData : Ends(p[1], d)' /\ d[p[2]] = latest'[h]
    BY <1>5 DEF MappingLatest
  <2>2. h \in Key \ AbufKeys /\ latest'[h] = latest[h]
    BY <1>3, <2>1
  <2>3. ASSUME NEW p \in Piece, mapping[h] = p
        PROVE  \E d \in PageData : Ends(p[1], d)' /\ d[p[2]] = latest'[h]
    <3>1. PICK d \in PageData : Ends(p[1], d) /\ d[p[2]] = latest[h]
      BY <2>2, <2>3 DEF StoreInv, MappingLatest
    <3>2. PICK q \in Ppa : q = p[1]
      BY PieceParts
    <3>3. Ends(q, d)'
      BY <1>9, <3>1, <3>2 DEF EndsKept
    <3> QED  BY <2>2, <3>1, <3>2, <3>3
  <2> QED  BY <2>2, <2>3 DEF StoreInv, MappingLatest
<1> QED  BY <1>8, <1>10, <1>11, <1>12, <1>13, <1>14 DEF StoreInv
-----------------------------------------------------------------------------
(* get_ppa and page_map_assign.                                            *)

(* sbm_get_page_addr hands out one page, which was not handed out before.   *)
LEMMA NextHandedOut ==
    ASSUME BMTypeOK, CursorInv, NEW s \in Seg, GetPageAddr(s)
    PROVE  /\ NextPpa(s) \in Ppa /\ ~HandedOut(NextPpa(s))
           /\ \A p \in Ppa : HandedOut(p)' <=> HandedOut(p) \/ p = NextPpa(s)
<1> DEFINE b == <<s, CurrentBlock(s)>>
<1>1. /\ CurrentBlock(s) \in Block /\ pptr[b] \in 0 .. PPB - 1
      /\ NextPpa(s) \in Ppa /\ b \in Seg \X Block
  BY NextPpaType DEF GetPageAddr
<1>2. NextPpa(s) = <<s, CurrentBlock(s), pptr[b]>>
  BY DEF NextPpa
<1>3. \A c \in Seg \X Block : pptr'[c] = IF c = b THEN pptr[b] + 1 ELSE pptr[c]
  BY DEF GetPageAddr, BMTypeOK
<1> HIDE DEF b
<1>4. ASSUME NEW p \in Ppa
      PROVE  HandedOut(p)' <=> HandedOut(p) \/ p = NextPpa(s)
  <2>1. /\ p = <<p[1], p[2], p[3]>> /\ p[3] \in 0 .. PPB - 1
        /\ <<p[1], p[2]>> \in Seg \X Block
    BY DEF Ppa
  <2>2. CASE <<p[1], p[2]>> = b
    <3>1. HandedOut(p)' <=> p[3] < pptr[b] + 1
      BY <1>3, <2>1, <2>2 DEF HandedOut
    <3>2. HandedOut(p) <=> p[3] < pptr[b]
      BY <2>2 DEF HandedOut
    <3>3. p = NextPpa(s) <=> p[3] = pptr[b]
      BY <1>2, <2>1, <2>2 DEF b
    <3> QED  BY <1>1, <2>1, <3>1, <3>2, <3>3
  <2>3. CASE <<p[1], p[2]>> # b
    <3>1. HandedOut(p)' <=> HandedOut(p)
      BY <1>3, <2>1, <2>3 DEF HandedOut
    <3>2. p # NextPpa(s)
      BY <1>2, <2>3 DEF b
    <3> QED  BY <3>1, <3>2
  <2> QED  BY <2>2, <2>3
<1>5. ~HandedOut(NextPpa(s))
  BY <1>1, <1>2 DEF HandedOut, b
<1> QED  BY <1>1, <1>4, <1>5

(* get_ppa: the new page holds nothing until its write is queued.           *)
LEMMA AllocPageStore ==
    ASSUME IInv, StoreInv, AllocPage
    PROVE  StoreInv'
<1>1. /\ UNCHANGED <<ftlVars, gcVars, devVars, latest>>
      /\ pc = "alloc" /\ pc' = "map" /\ mapi' = 0 /\ newppa' = NextPpa(active)
      /\ GetPageAddr(active)
  BY DEF AllocPage, Silent
<1>2. devq' = devq /\ flash' = flash /\ devcb' = devcb /\ gclist' = gclist
  BY <1>1 DEF devVars, gcVars
<1>3. EndsKept
  BY <1>2, EndsStill
<1>4. PICK np \in Ppa : np = NextPpa(active)
  BY <1>1, NextHandedOut DEF IInv, TypeOK, FTLTypeOK
<1>5. ~HandedOut(np) /\ \A p \in Ppa : HandedOut(p)' <=> HandedOut(p) \/ p = np
  BY <1>1, <1>4, NextHandedOut DEF IInv, TypeOK, FTLTypeOK
<1>6. PagesSound'
  <2> SUFFICES ASSUME NEW p \in Ppa
               PROVE  IF (HandedOut(p) /\ ~BeingAssigned(p))'
                      THEN \E d \in PageData : Ends(p, d)'
                      ELSE Ends(p, None)'
    BY DEF PagesSound
  <2>1. ~BeingAssigned(p) /\ (BeingAssigned(p)' <=> p = np)
    BY <1>1, <1>4 DEF BeingAssigned
  <2>2. CASE HandedOut(p)
    <3>1. PICK d \in PageData : Ends(p, d)
      BY <2>1, <2>2 DEF StoreInv, PagesSound
    <3>2. Ends(p, d)' /\ HandedOut(p)' /\ ~BeingAssigned(p)'
      BY <1>3, <1>5, <2>1, <2>2, <3>1 DEF EndsKept
    <3> QED  BY <3>2
  <2>3. CASE ~HandedOut(p)
    <3>1. Ends(p, None)
      BY <2>3 DEF StoreInv, PagesSound
    <3>2. Ends(p, None)' /\ ~(HandedOut(p)' /\ ~BeingAssigned(p)')
      BY <1>3, <1>5, <2>1, <2>3, <3>1 DEF EndsKept
    <3> QED  BY <3>2
  <2> QED  BY <2>2, <2>3
<1>7. GcPagesSound'
  BY <1>1 DEF IInv, GcIdle, GcPagesSound, gcVars
<1>8. AssignSound'
  <2>1. AssignInv'
    BY AllocPageStep DEF IInv
  <2>2. \A i \in Off : i >= mapi' /\ ~(i < mapi')
    BY <1>1 DEF Off
  <2> QED  BY <1>1, <2>1, <2>2 DEF AssignSound, AssignInv
<1>9. QueueSound' /\ CallbackFresh'
  BY <1>2, QueueStill, CallbackKept DEF StoreInv
<1>10. BuffersLatest' /\ MappingLatest'
  BY <1>1, <1>3, BuffersKept, MappingKept DEF StoreInv, ftlVars, gcVars
<1> QED  BY <1>6, <1>7, <1>8, <1>9, <1>10 DEF StoreInv

(* page_map_assign: only a key that a_buffer holds is mapped to the new page. *)
LEMMA MapKeyStore ==
    ASSUME IInv, StoreInv, MapKey
    PROVE  StoreInv'
<1> DEFINE k == abuf[mapi + 1].key
<1>1. /\ UNCHANGED <<cursorVars, oob, abuf, newppa, gcVars, devVars, latest>>
      /\ pc = "map" /\ mapi' = mapi + 1
      /\ pc' = IF mapi + 1 = L2PGAP THEN "submit" ELSE "map"
      /\ mapping' = [mapping EXCEPT ![k] = <<newppa, mapi>>]
  BY DEF MapKey, Silent
<1>2. devq' = devq /\ flash' = flash /\ devcb' = devcb /\ gclist' = gclist
  BY <1>1 DEF devVars, gcVars
<1>3. EndsKept
  BY <1>2, EndsStill
<1>4. /\ mapi \in Off /\ abuf \in Seq([key : Key, val : Val]) /\ Len(abuf) = L2PGAP
      /\ DOMAIN abuf = 1 .. L2PGAP
  BY <1>1, LenProperties DEF IInv, TypeOK, FTLTypeOK, AssignInv, BufferInv
<1>5. \A i \in Off : i + 1 \in DOMAIN abuf /\ abuf[i + 1].key \in Key
  <2> TAKE i \in Off
  <2>1. i + 1 \in 1 .. L2PGAP
    BY DEF Off
  <2>2. abuf[i + 1] \in [key : Key, val : Val]
    BY <1>4, <2>1, ElementOfSeq
  <2> QED  BY <1>4, <2>1, <2>2
<1>6. \A c \in Key : mapping'[c] = IF c = k THEN <<newppa, mapi>> ELSE mapping[c]
  BY <1>1, <1>4, <1>5 DEF IInv, TypeOK, FTLTypeOK
<1>7. k \in AbufKeys
  BY <1>4, <1>5 DEF AbufKeys
<1>8. AssignSound'
  <2>1. pc' = "submit" => mapi' = L2PGAP
    BY <1>1
  <2>2. ASSUME NEW i \in Off, i < mapi + 1
        PROVE  mapping'[abuf[i + 1].key] = <<newppa, i>>
    <3>1. CASE i = mapi
      BY <1>5, <1>6, <3>1
    <3>2. CASE i # mapi
      <4>1. i < mapi
        BY <1>4, <2>2, <3>2 DEF Off
      <4>2. i + 1 # mapi + 1
        BY <1>4, <3>2 DEF Off
      <4>3. abuf[i + 1].key # k
        BY <1>4, <1>5, <4>2 DEF IInv, BufferInv
      <4> QED  BY <1>1, <1>5, <1>6, <4>1, <4>3 DEF StoreInv, AssignSound
    <3> QED  BY <3>1, <3>2
  <2> HIDE DEF k
  <2> QED  BY <1>1, <2>1, <2>2 DEF StoreInv, AssignSound
<1> HIDE DEF k
<1>9. MappingLatest'
  <2> SUFFICES ASSUME NEW h \in Key \ AbufKeys
               PROVE  /\ mapping'[h] = None => latest[h] = Junk
                      /\ \A p \in Piece : mapping'[h] = p =>
                            \E d \in PageData : Ends(p[1], d)' /\ d[p[2]] = latest[h]
    BY <1>1 DEF MappingLatest, AbufKeys
  <2>1. mapping'[h] = mapping[h]
    BY <1>6, <1>7
  <2>2. ASSUME NEW p \in Piece, mapping[h] = p
        PROVE  \E d \in PageData : Ends(p[1], d)' /\ d[p[2]] = latest[h]
    <3>1. PICK d \in PageData : Ends(p[1], d) /\ d[p[2]] = latest[h]
      BY <2>2 DEF StoreInv, MappingLatest
    <3>2. PICK q \in Ppa : q = p[1]
      BY PieceParts
    <3>3. Ends(q, d)'
      BY <1>3, <3>1, <3>2 DEF EndsKept
    <3> QED  BY <3>1, <3>2, <3>3
  <2> QED  BY <2>1, <2>2 DEF StoreInv, MappingLatest
<1>10. PagesSound'
  BY <1>1, <1>3, PagesKept DEF StoreInv, cursorVars
<1>11. GcPagesSound'
  BY <1>1, <1>3, GcPagesKept DEF StoreInv, IInv, TypeOK, cursorVars, gcVars
<1>12. QueueSound' /\ CallbackFresh' /\ BuffersLatest'
  BY <1>1, <1>2, QueueStill, CallbackKept, BuffersKept DEF StoreInv, gcVars
<1> QED  BY <1>8, <1>9, <1>10, <1>11, <1>12 DEF StoreInv

(* send_user_req(DATAW): the queued write gives the new page the values       *)
(* a_buffer held, and the keys of a_buffer map to them.                    *)
LEMMA SubmitPageStore ==
    ASSUME IInv, StoreInv, SubmitPage
    PROVE  StoreInv'
<1> DEFINE data == [i \in Off |-> abuf[i + 1].val]
<1>1. /\ UNCHANGED <<bmVars, mapping, gcVars, devcb, flash, latest>>
      /\ pc = "submit" /\ pc' = "idle" /\ abuf' = <<>> /\ newppa' = None
      /\ Send(Write(newppa, data))
  BY DEF SubmitPage, Silent
<1>2. newppa \in Ppa /\ gclist = {} /\ gbuf = <<>> /\ gcread = {} /\ mapi = L2PGAP
      /\ DevTypeOK /\ FTLTypeOK
  BY <1>1 DEF IInv, TypeOK, AssignInv, GcIdle, StoreInv, AssignSound
<1>3. PICK np \in Ppa : np = newppa
  BY <1>2
<1>4. /\ abuf \in Seq([key : Key, val : Val]) /\ Len(abuf) = L2PGAP
      /\ DOMAIN abuf = 1 .. L2PGAP
  BY <1>1, LenProperties DEF IInv, TypeOK, FTLTypeOK, BufferInv
<1>5. \A i \in Off : /\ i + 1 \in DOMAIN abuf /\ abuf[i + 1].key \in Key
                     /\ abuf[i + 1].val \in Val
  <2> TAKE i \in Off
  <2>1. i + 1 \in 1 .. L2PGAP
    BY DEF Off
  <2>2. abuf[i + 1] \in [key : Key, val : Val]
    BY <1>4, <2>1, ElementOfSeq
  <2> QED  BY <1>4, <2>1, <2>2
<1>6. PICK D \in PageData : D = data
  BY <1>5 DEF PageData
<1>7. \A i \in Off : D[i] = abuf[i + 1].val
  BY <1>6
<1> HIDE DEF data
<1>8. PICK r \in DevRequest : r = Write(np, D)
  BY RequestTypes
<1>9. r.op = "write" /\ r.ppa = np /\ r.data = D /\ Send(r) /\ flash' = flash
  BY <1>1, <1>3, <1>6, <1>8 DEF Write
<1>10. Ends(np, None)
  BY <1>1, <1>3 DEF StoreInv, PagesSound, BeingAssigned
<1>11. Ends(np, D)' /\ \A p \in Ppa : p # np => \A d : Ends(p, d) => Ends(p, d)'
  BY <1>2, <1>9, EndsSent
<1>12. \A i \in Off : /\ oob[np][i] = abuf[i + 1].key
                      /\ mapping[abuf[i + 1].key] = <<np, i>>
  <2>1. \A i \in Off : i < mapi
    BY <1>2 DEF Off
  <2> QED  BY <1>1, <1>3, <2>1 DEF StoreInv, AssignSound
<1>13. HandedOut(np)
  <2>1. 0 \in Off
    BY DEF Off
  <2>2. <<np, 0>> \in Piece /\ abuf[0 + 1].key \in Key /\ <<np, 0>> # None
        /\ mapping[abuf[0 + 1].key] = <<np, 0>>
    BY <1>5, <1>12, <2>1 DEF Piece
  <2>3. PICK p \in bits : p = <<np, 0>>
    BY <2>2 DEF IInv, MappingSound
  <2>4. p[1] = np
    BY <2>3
  <2> QED  BY <2>3, <2>4, MappedHandedOut
<1>14. QueueSound'
  <2>1. Holds(r.ppa, Len(devq), None)
    BY <1>9, <1>10 DEF Ends
  <2> QED  BY <1>2, <1>9, <2>1, QueueSent DEF StoreInv
<1>15. PagesSound'
  <2> SUFFICES ASSUME NEW p \in Ppa
               PROVE  IF (HandedOut(p) /\ ~BeingAssigned(p))'
                      THEN \E d \in PageData : Ends(p, d)'
                      ELSE Ends(p, None)'
    BY DEF PagesSound
  <2>1. (HandedOut(p)' <=> HandedOut(p)) /\ ~BeingAssigned(p)'
        /\ (BeingAssigned(p) <=> p = np)
    BY <1>1, <1>3 DEF HandedOut, BeingAssigned, bmVars, cursorVars
  <2>2. CASE p = np
    BY <1>11, <1>13, <2>1, <2>2
  <2>3. CASE p # np
    <3>1. CASE HandedOut(p)
      <4>1. PICK d \in PageData : Ends(p, d)
        BY <2>1, <2>3, <3>1 DEF StoreInv, PagesSound
      <4> QED  BY <1>11, <2>1, <2>3, <3>1, <4>1
    <3>2. CASE ~HandedOut(p)
      <4>1. Ends(p, None)
        BY <3>2 DEF StoreInv, PagesSound
      <4> QED  BY <1>11, <2>1, <2>3, <3>2, <4>1
    <3> QED  BY <3>1, <3>2
  <2> QED  BY <2>2, <2>3
<1>16. GcPagesSound' /\ BuffersLatest' /\ AssignSound' /\ CallbackFresh'
  BY <1>1, <1>2, CallbackKept
     DEF GcPagesSound, BuffersLatest, AssignSound, StoreInv, gcVars
<1>17. MappingLatest'
  <2> SUFFICES ASSUME NEW h \in Key
               PROVE  /\ mapping[h] = None => latest[h] = Junk
                      /\ \A p \in Piece : mapping[h] = p =>
                            \E d \in PageData : Ends(p[1], d)' /\ d[p[2]] = latest[h]
    BY <1>1 DEF MappingLatest
  <2>1. CASE h \in AbufKeys
    <3>1. PICK j \in DOMAIN abuf : abuf[j].key = h
      BY <2>1 DEF AbufKeys
    <3>2. PICK i \in Off : i + 1 = j
      <4>1. j - 1 \in Off /\ (j - 1) + 1 = j
        BY <1>4 DEF Off
      <4> QED  BY <4>1
    <3>3. mapping[h] = <<np, i>> /\ <<np, i>> \in Piece
      BY <1>12, <3>1, <3>2 DEF Piece
    <3>4. D[i] = latest[h]
      BY <1>7, <3>1, <3>2 DEF StoreInv, BuffersLatest
    <3> QED  BY <1>11, <3>3, <3>4
  <2>2. CASE h \notin AbufKeys
    <3>1. ASSUME NEW p \in Piece, mapping[h] = p
          PROVE  \E d \in PageData : Ends(p[1], d)' /\ d[p[2]] = latest[h]
      <4>1. PICK d \in PageData : Ends(p[1], d) /\ d[p[2]] = latest[h]
        BY <2>2, <3>1 DEF StoreInv, MappingLatest
      <4>2. PICK q \in Ppa : q = p[1]
        BY PieceParts
      <4>3. q # np
        <5>1. p[2] \in Off /\ p # None /\ oob[p[1]][p[2]] = h
          BY <3>1, PieceParts DEF IInv, MappingSound
        <5> QED  BY <1>5, <1>12, <2>2, <4>2, <5>1 DEF AbufKeys
      <4>4. Ends(q, d)'
        BY <1>11, <4>1, <4>2, <4>3
      <4> QED  BY <4>1, <4>2, <4>4
    <3> QED  BY <2>2, <3>1 DEF StoreInv, MappingLatest
  <2> QED  BY <2>1, <2>2
<1> QED  BY <1>14, <1>15, <1>16, <1>17 DEF StoreInv
-----------------------------------------------------------------------------
(* do_gc.                                                                  *)

(* The victim's pages with a valid piece were handed out.                   *)
LEMMA StartGcStore ==
    ASSUME IInv, StoreInv, StartGc
    PROVE  StoreInv'
<1>1. /\ UNCHANGED <<cursorVars, oob, ftlVars, asgVars, gclist, gbuf, devVars, latest>>
      /\ pc = "get_ppa" /\ pc' = "gc_read"
  BY DEF StartGc, Silent
<1>2. \A p \in gcread' : p \in Ppa /\ HasValidPiece(p)
  BY DEF StartGc, SegPages
<1>3. EndsKept
  BY <1>1, EndsStill DEF devVars
<1>4. \A p \in gcread' : HandedOut(p)'
  <2> TAKE p \in gcread'
  <2>1. PICK i \in Off : <<p, i>> \in bits
    BY <1>2 DEF HasValidPiece, IsInvalidPiece
  <2>2. PICK b \in bits : b = <<p, i>>
    BY <2>1
  <2>3. b[1] = p
    BY <2>2
  <2>4. HandedOut(p)
    BY <2>2, <2>3, MappedHandedOut
  <2> QED  BY <1>1, <2>4 DEF HandedOut, cursorVars
<1>5. GcPagesSound'
  <2>1. gclist' = {}
    BY <1>1 DEF IInv, GcIdle
  <2> QED  BY <1>4, <2>1 DEF GcPagesSound
<1>6. QueueSound' /\ CallbackFresh' /\ BuffersLatest'
  BY <1>1, QueueStill, CallbackKept, BuffersKept DEF StoreInv, devVars, ftlVars
<1>7. PagesSound' /\ MappingLatest'
  BY <1>1, <1>3, PagesKept, MappingKept DEF StoreInv, cursorVars, ftlVars, asgVars
<1>8. AssignSound'
  BY <1>1, AssignKept DEF StoreInv
<1> QED  BY <1>5, <1>6, <1>7, <1>8 DEF StoreInv

(* send_req(GCDR): the page to read was written, and is read once.          *)
LEMMA GcIssueReadStore ==
    ASSUME IInv, BooksInv, StoreInv, GcIssueRead
    PROVE  StoreInv'
<1>1. /\ UNCHANGED <<bmVars, ftlVars, asgVars, victim, gbuf, devcb, flash, latest>>
      /\ pc = "gc_read"
  BY DEF GcIssueRead, Silent
<1> USE DEF bmVars, cursorVars, ftlVars
<1>2. CASE gcread = {} /\ pc' = "gc_copy" /\ UNCHANGED <<gcread, gclist, devq>>
  BY <1>1, <1>2, StoreUntouched
<1>3. ASSUME NEW p \in gcread, gcread' = gcread \ {p}, pc' = pc,
             gclist' = gclist \cup {[ppa |-> p, data |-> None]}, Send(GcRead(p))
      PROVE  StoreInv'
  <2>1. /\ p \in Ppa /\ HandedOut(p) /\ ~BeingAssigned(p) /\ DevTypeOK /\ FTLTypeOK
        /\ QueueSound
    BY <1>1 DEF IInv, TypeOK, FTLTypeOK, StoreInv, GcPagesSound, BeingAssigned
  <2>2. PICK d \in PageData : Ends(p, d)
    BY <2>1 DEF StoreInv, PagesSound
  <2>3. PICK r \in DevRequest : r = GcRead(p)
    BY <2>1, RequestTypes
  <2>4. r.op = "gcread" /\ r.ppa = p /\ Send(r)
    BY <1>3, <2>3 DEF GcRead
  <2>5. EndsKept
    BY <1>1, <2>1, <2>4, EndsSent DEF EndsKept
  <2>6. QueueSound'
    <3>1. Holds(r.ppa, Len(devq), d)
      BY <2>2, <2>4 DEF Ends
    <3>2. \E g \in gclist' : g.ppa = r.ppa /\ g.data = None
      <4> DEFINE new == [ppa |-> p, data |-> None]
      <4>1. new \in gclist' /\ new.ppa = p /\ new.data = None
        BY <1>3
      <4> HIDE DEF new
      <4> QED  BY <2>4, <4>1
    <3>3. \A g \in gclist : g.ppa # r.ppa /\ g \in gclist'
      BY <1>3, <2>4 DEF BooksInv, GcOnce
    <3> QED  BY <1>1, <2>1, <2>4, <3>1, <3>2, <3>3, QueueSent
  <2>7. \A g \in gclist' : g.data # None => g \in gclist
    BY <1>3
  <2>8. GcPagesSound'
    BY <1>1, <1>3, <2>1, <2>5, <2>7, GcPagesKept DEF StoreInv
  <2>9. PagesSound' /\ MappingLatest'
    BY <1>1, <1>3, <2>5, PagesKept, MappingKept DEF StoreInv, asgVars
  <2>10. AssignSound' /\ BuffersLatest' /\ CallbackFresh'
    BY <1>1, <1>3, AssignKept, BuffersKept, CallbackKept DEF StoreInv
  <2> QED  BY <2>6, <2>8, <2>9, <2>10 DEF StoreInv
<1> QED  BY <1>2, <1>3 DEF GcIssueRead

(* page_map_gc_update and send_req(GCDW): the queued write gives a page of the *)
(* reserve the values g_buffer held, and no page of the victim changes.    *)
LEMMA GcFlushStore ==
    ASSUME IInv, BooksInv, StoreInv, pc = "gc_copy",
           NEW page \in Seq([key : Key, val : Val \cup {Junk}]), Len(page) <= L2PGAP,
           \A i \in DOMAIN page : page[i].key \notin AbufKeys =>
              page[i].val = latest[page[i].key],
           GcFlush(page), gbuf' = <<>>, gclist' \subseteq gclist,
           \A g \in gclist : g.data = None => g \in gclist',
           UNCHANGED <<abuf, pc, asgVars, gcread, devcb, flash, latest>>
    PROVE  StoreInv'
<1> DEFINE data == [i \in Off |-> IF i < Len(page) THEN page[i + 1].val ELSE Junk]
<1>1. /\ BMTypeOK /\ CursorInv /\ FTLTypeOK /\ DevTypeOK /\ reserve \in Seg
      /\ GetPageAddr(reserve)
  BY DEF IInv, TypeOK, FTLTypeOK, GcFlush
<1>2. PICK np \in Ppa : np = NextPpa(reserve)
  BY <1>1, NextHandedOut
<1>3. ~HandedOut(np) /\ \A p \in Ppa : HandedOut(p)' <=> HandedOut(p) \/ p = np
  BY <1>1, <1>2, NextHandedOut
<1>4. /\ DOMAIN page = 1 .. Len(page) /\ Len(page) \in Nat
      /\ \A i \in 1 .. Len(page) : page[i] \in [key : Key, val : Val \cup {Junk}]
  BY LenProperties, ElementOfSeq
<1>5. PICK D \in PageData : D = data
  <2>1. \A i \in Off : i < Len(page) => i + 1 \in 1 .. Len(page)
    BY <1>4 DEF Off
  <2> QED  BY <1>4, <2>1 DEF PageData
<1>6. \A i \in Off : i < Len(page) => D[i] = page[i + 1].val
  BY <1>5
<1>7. Send(Write(np, D)) /\ mapping' = GcMap(page, np)
  BY <1>2, <1>5 DEF GcFlush
<1> HIDE DEF data
<1>8. PICK r \in DevRequest : r = Write(np, D)
  BY RequestTypes
<1>9. r.op = "write" /\ r.ppa = np /\ r.data = D /\ Send(r) /\ flash' = flash
  BY <1>7, <1>8 DEF Write
<1>10. Ends(np, None)
  BY <1>3 DEF StoreInv, PagesSound
<1>11. Ends(np, D)' /\ \A p \in Ppa : p # np => \A d : Ends(p, d) => Ends(p, d)'
  BY <1>1, <1>9, EndsSent
<1>12. \A g \in gclist : g.ppa \in Ppa /\ g.ppa # np
  <2>1. SegOf(np) = reserve /\ reserve # victim
    BY <1>2 DEF NextPpa, SegOf, IInv, SegmentsPartition
  <2> QED  BY <1>1, <2>1 DEF BooksInv, GcOnce, FTLTypeOK
<1>13. QueueSound'
  <2>1. Holds(r.ppa, Len(devq), None)
    BY <1>9, <1>10 DEF Ends
  <2> QED  BY <1>1, <1>9, <1>12, <2>1, QueueSent DEF StoreInv
<1>14. PagesSound'
  <2> SUFFICES ASSUME NEW p \in Ppa
               PROVE  IF (HandedOut(p) /\ ~BeingAssigned(p))'
                      THEN \E d \in PageData : Ends(p, d)'
                      ELSE Ends(p, None)'
    BY DEF PagesSound
  <2>1. ~BeingAssigned(p) /\ ~BeingAssigned(p)'
    BY DEF BeingAssigned
  <2>2. CASE p = np
    BY <1>3, <1>11, <2>1, <2>2
  <2>3. CASE p # np
    <3>1. CASE HandedOut(p)
      <4>1. PICK d \in PageData : Ends(p, d)
        BY <2>1, <3>1 DEF StoreInv, PagesSound
      <4> QED  BY <1>3, <1>11, <2>1, <2>3, <3>1, <4>1
    <3>2. CASE ~HandedOut(p)
      <4>1. Ends(p, None)
        BY <3>2 DEF StoreInv, PagesSound
      <4> QED  BY <1>3, <1>11, <2>3, <3>2, <4>1
    <3> QED  BY <3>1, <3>2
  <2> QED  BY <2>2, <2>3
<1>15. GcPagesSound'
  <2>1. gcread' = {}
    BY DEF IInv, GcIdle
  <2>2. ASSUME NEW g \in gclist', g.data # None
        PROVE  Ends(g.ppa, g.data)'
    <3>1. PICK q \in Ppa : q = g.ppa /\ q # np
      BY <1>12
    <3>2. PICK d : d = g.data
      OBVIOUS
    <3>3. Ends(q, d)
      BY <2>2, <3>1, <3>2 DEF StoreInv, GcPagesSound
    <3>4. Ends(q, d)'
      BY <1>11, <3>1, <3>3
    <3> QED  BY <3>1, <3>2, <3>4
  <2> QED  BY <2>1, <2>2 DEF GcPagesSound
<1>16. MappingLatest'
  <2> SUFFICES ASSUME NEW h \in Key \ AbufKeys
               PROVE  /\ mapping'[h] = None => latest[h] = Junk
                      /\ \A p \in Piece : mapping'[h] = p =>
                            \E d \in PageData : Ends(p[1], d)' /\ d[p[2]] = latest[h]
    BY DEF MappingLatest, AbufKeys
  <2>1. CASE \E i \in DOMAIN page : page[i].key = h
    <3> DEFINE at == CHOOSE i \in DOMAIN page : page[i].key = h
    <3>1. mapping'[h] = <<np, at - 1>>
      BY <1>7, <2>1 DEF GcMap
    <3>2. at \in 1 .. Len(page) /\ page[at].key = h
      BY <1>4, <2>1
    <3> HIDE DEF at
    <3>3. PICK i \in Off : i = at - 1 /\ i < Len(page) /\ i + 1 = at
      <4>1. at - 1 \in Off /\ at - 1 < Len(page) /\ (at - 1) + 1 = at
        BY <1>4, <3>2 DEF Off
      <4> QED  BY <4>1
    <3>4. mapping'[h] = <<np, i>> /\ <<np, i>> \in Piece
      BY <3>1, <3>3 DEF Piece
    <3>5. D[i] = latest[h]
      BY <1>4, <1>6, <3>2, <3>3
    <3> QED  BY <1>11, <3>4, <3>5
  <2>2. CASE ~\E i \in DOMAIN page : page[i].key = h
    <3>1. mapping'[h] = mapping[h]
      BY <1>7, <2>2 DEF GcMap
    <3>2. ASSUME NEW p \in Piece, mapping[h] = p
          PROVE  \E d \in PageData : Ends(p[1], d)' /\ d[p[2]] = latest[h]
      <4>1. PICK d \in PageData : Ends(p[1], d) /\ d[p[2]] = latest[h]
        BY <3>2 DEF StoreInv, MappingLatest
      <4>2. PICK q \in Ppa : q = p[1]
        BY PieceParts
      <4>3. q # np
        <5>1. p \in bits
          BY <3>2 DEF IInv, MappingSound
        <5> QED  BY <1>3, <4>2, <5>1, MappedHandedOut
      <4>4. Ends(q, d)'
        BY <1>11, <4>1, <4>2, <4>3
      <4> QED  BY <4>1, <4>2, <4>4
    <3> QED  BY <3>1, <3>2 DEF StoreInv, MappingLatest
  <2> QED  BY <2>1, <2>2
<1>17. BuffersLatest' /\ AssignSound' /\ CallbackFresh'
  BY AssignKept, CallbackKept DEF StoreInv, BuffersLatest
<1> QED  BY <1>13, <1>14, <1>15, <1>16, <1>17 DEF StoreInv

(* A valid piece do_gc comes to is the latest value of the key its spare area *)
(* names.                                                                  *)
LEMMA PieceLatest ==
    ASSUME IInv, BooksInv, StoreInv, NEW gv \in gclist, GcCopy(gv),
           ~IsInvalidPiece(<<gv.ppa, gci>>)
    PROVE  /\ oob[gv.ppa][gci] \in Key
           /\ gv.data[gci] \in Val \cup {Junk}
           /\ oob[gv.ppa][gci] \notin AbufKeys =>
                 gv.data[gci] = latest[oob[gv.ppa][gci]]
<1>1. /\ gv.ppa \in Ppa /\ gci \in Off /\ gv.data \in PageData /\ gv.data # None
      /\ pc = "gc_copy" /\ DevTypeOK
  BY DEF IInv, TypeOK, FTLTypeOK, GcCopy
<1>2. PICK p \in Piece : p = <<gv.ppa, gci>>
  BY <1>1 DEF Piece
<1>3. p \in bits /\ LeftToCopy(p) /\ p[1] = gv.ppa /\ p[2] = gci /\ p # None
  <2>1. LeftToCopy(<<gv.ppa, gci>>)
    BY PiecePassed DEF BooksInv
  <2> QED  BY <1>2, <2>1 DEF IsInvalidPiece
<1>4. PICK k \in Key : mapping[k] = p
  BY <1>1, <1>3 DEF BooksInv, BitsMapped
<1>5. oob[gv.ppa][gci] = k
  BY <1>3, <1>4 DEF IInv, MappingSound
<1>6. gv.data[gci] \in Val \cup {Junk}
  BY <1>1 DEF PageData
<1>7. ASSUME k \notin AbufKeys
      PROVE  gv.data[gci] = latest[k]
  <2>1. PICK d \in PageData : Ends(p[1], d) /\ d[p[2]] = latest[k]
    BY <1>4, <1>7 DEF StoreInv, MappingLatest
  <2>2. Ends(p[1], gv.data)
    BY <1>1, <1>3 DEF StoreInv, GcPagesSound
  <2>3. d = gv.data
    BY <1>1, <1>3, <2>1, <2>2, EndsOnce
  <2> QED  BY <1>3, <2>1, <2>3
<1> QED  BY <1>5, <1>6, <1>7

(* A step of do_gc that sends nothing and drops no page still being read.   *)
LEMMA GcStoreKept ==
    ASSUME IInv, StoreInv, BuffersLatest', gclist' \subseteq gclist,
           \A g \in gclist : g.data = None => g \in gclist',
           UNCHANGED <<bmVars, mapping, abuf, pc, asgVars, gcread, devq, devcb, flash,
                       latest>>
    PROVE  StoreInv'
<1>1. EndsKept
  BY EndsStill
<1>2. QueueSound' /\ CallbackFresh'
  BY QueueStill, CallbackKept DEF StoreInv
<1>3. PagesSound' /\ MappingLatest'
  BY <1>1, PagesKept, MappingKept DEF StoreInv, asgVars, bmVars, cursorVars
<1>4. GcPagesSound'
  BY <1>1, GcPagesKept DEF StoreInv, IInv, TypeOK, bmVars, cursorVars
<1>5. AssignSound'
  BY AssignKept DEF StoreInv, asgVars, bmVars
<1> QED  BY <1>2, <1>3, <1>4, <1>5 DEF StoreInv

(* One iteration of the copy loop: a valid piece joins g_buffer with its      *)
(* latest value, and a full g_buffer is written out.                       *)
LEMMA GcCopyStore ==
    ASSUME IInv, BooksInv, StoreInv, NEW gv \in gclist, GcCopy(gv)
    PROVE  StoreInv'
<1> DEFINE R == [key : Key, val : Val \cup {Junk}]
           e == [key |-> oob[gv.ppa][gci], val |-> gv.data[gci]]
           next == Append(gbuf, e)
<1>1. /\ UNCHANGED <<abuf, pc, asgVars, gcread, devcb, flash, latest>>
      /\ pc = "gc_copy" /\ gv.data # None /\ GcPiece(gv)
  BY DEF GcCopy, Silent
<1>2. gclist' \subseteq gclist /\ \A g \in gclist : g.data = None => g \in gclist'
  BY DEF GcCopy
<1>3. gbuf \in Seq(R) /\ DOMAIN gbuf = 1 .. Len(gbuf) /\ Len(gbuf) \in Nat
  BY LenProperties DEF IInv, TypeOK, FTLTypeOK
<1>4. ASSUME ~IsInvalidPiece(<<gv.ppa, gci>>)
      PROVE  /\ next \in Seq(R) /\ Len(next) = Len(gbuf) + 1
             /\ \A i \in DOMAIN next : next[i].key \notin AbufKeys =>
                   next[i].val = latest[next[i].key]
  <2>1. e \in R /\ (e.key \notin AbufKeys => e.val = latest[e.key])
    BY <1>4, PieceLatest
  <2> HIDE DEF e
  <2>2. /\ next \in Seq(R) /\ Len(next) = Len(gbuf) + 1
        /\ \A i \in 1 .. Len(gbuf) : next[i] = gbuf[i]
        /\ next[Len(gbuf) + 1] = e
    BY <1>3, <2>1, AppendProperties
  <2> HIDE DEF next
  <2>3. DOMAIN next = 1 .. Len(gbuf) + 1
    BY <2>2, LenProperties
  <2>4. \A i \in DOMAIN next : i \in 1 .. Len(gbuf) \/ i = Len(gbuf) + 1
    BY <1>3, <2>3
  <2>5. \A i \in 1 .. Len(gbuf) : gbuf[i].key \notin AbufKeys =>
           gbuf[i].val = latest[gbuf[i].key]
    BY <1>3 DEF StoreInv, BuffersLatest
  <2> QED  BY <2>1, <2>2, <2>4, <2>5
<1>5. \A i \in DOMAIN abuf : abuf[i].val = latest[abuf[i].key]
  BY DEF StoreInv, BuffersLatest
<1>6. CASE UNCHANGED <<bmVars, mapping, gbuf, devq>>
  <2>1. BuffersLatest'
    BY <1>1, <1>6, BuffersKept DEF StoreInv
  <2> QED  BY <1>1, <1>2, <1>6, <2>1, GcStoreKept
<1>7. CASE /\ ~IsInvalidPiece(<<gv.ppa, gci>>) /\ gbuf' = next
           /\ UNCHANGED <<bmVars, mapping, devq>>
  <2>1. \A i \in DOMAIN next : next[i].key \notin AbufKeys =>
           next[i].val = latest[next[i].key]
    BY <1>4, <1>7
  <2> HIDE DEF next
  <2>2. BuffersLatest'
    BY <1>1, <1>5, <1>7, <2>1 DEF BuffersLatest, AbufKeys
  <2> QED  BY <1>1, <1>2, <1>7, <2>2, GcStoreKept
<1>8. CASE /\ ~IsInvalidPiece(<<gv.ppa, gci>>) /\ Len(next) = L2PGAP
           /\ GcFlush(next) /\ gbuf' = <<>>
  <2>1. /\ next \in Seq(R) /\ Len(next) <= L2PGAP
        /\ \A i \in DOMAIN next : next[i].key \notin AbufKeys =>
              next[i].val = latest[next[i].key]
    BY <1>4, <1>8
  <2> HIDE DEF next
  <2> QED  BY <1>1, <1>2, <1>8, <2>1, GcFlushStore
<1> QED  BY <1>1, <1>6, <1>7, <1>8 DEF GcPiece

(* The last, short page of a collection.                                    *)
LEMMA GcFlushRestStore ==
    ASSUME IInv, BooksInv, StoreInv, GcFlushRest
    PROVE  StoreInv'
<1>1. /\ UNCHANGED <<abuf, pc, asgVars, gcread, gclist, devcb, flash, latest>>
      /\ pc = "gc_copy" /\ GcFlush(gbuf) /\ gbuf' = <<>>
  BY DEF GcFlushRest, Silent
<1>2. gbuf \in Seq([key : Key, val : Val \cup {Junk}]) /\ Len(gbuf) <= L2PGAP
  <2>1. gbuf \in Seq([key : Key, val : Val \cup {Junk}]) /\ Len(gbuf) < L2PGAP
    BY DEF IInv, TypeOK, FTLTypeOK, GcIdle
  <2>2. Len(gbuf) \in Nat
    BY <2>1, LenProperties
  <2> QED  BY <2>1, <2>2
<1>3. \A i \in DOMAIN gbuf : gbuf[i].key \notin AbufKeys =>
         gbuf[i].val = latest[gbuf[i].key]
  BY DEF StoreInv, BuffersLatest
<1> QED  BY <1>1, <1>2, <1>3, GcFlushStore

(* sbm_trim_segment and the queued erase: no key maps into the victim any     *)
(* more, and nothing of it is handed out.                                  *)
LEMMA GcTrimStore ==
    ASSUME IInv, StoreInv, GcTrim
    PROVE  StoreInv'
<1>1. /\ UNCHANGED <<ftlVars, asgVars, gcVars, devcb, flash, latest>>
      /\ pc = "gc_copy" /\ pc' = "gc_swap" /\ gclist = {} /\ gbuf = <<>> /\ gcread = {}
      /\ Send(Trim(victim))
      /\ pptr' = [b \in Seg \X Block |-> IF b[1] = victim THEN 0 ELSE pptr[b]]
  BY DEF GcTrim, Erase, TrimSegment, ReinitBlocks, Silent, IInv, GcIdle
<1>2. victim \in Seg /\ DevTypeOK /\ FTLTypeOK
  BY <1>1 DEF IInv, TypeOK, FTLTypeOK, GcIdle
<1>3. PICK r \in DevRequest : r = Trim(victim)
  BY <1>2, RequestTypes
<1>4. r.op = "trim" /\ r.seg = victim /\ Send(r) /\ flash' = flash
  BY <1>1, <1>3 DEF Trim
<1>5. \A p \in Ppa : /\ SegOf(p) = victim => Ends(p, None)'
                     /\ SegOf(p) # victim => \A d : Ends(p, d) => Ends(p, d)'
  BY <1>2, <1>4, EndsSent
<1>6. QueueSound'
  BY <1>1, <1>2, <1>4, QueueSent DEF StoreInv
<1>7. PagesSound'
  <2> SUFFICES ASSUME NEW p \in Ppa
               PROVE  IF (HandedOut(p) /\ ~BeingAssigned(p))'
                      THEN \E d \in PageData : Ends(p, d)'
                      ELSE Ends(p, None)'
    BY DEF PagesSound
  <2>1. ~BeingAssigned(p) /\ ~BeingAssigned(p)'
    BY <1>1 DEF BeingAssigned
  <2>2. <<p[1], p[2]>> \in Seg \X Block /\ p[3] \in 0 .. PPB - 1 /\ SegOf(p) = p[1]
    BY DEF Ppa, SegOf
  <2>3. CASE SegOf(p) = victim
    <3>1. ~HandedOut(p)'
      <4>1. pptr'[<<p[1], p[2]>>] = 0
        BY <1>1, <2>2, <2>3
      <4> QED  BY <2>2, <4>1 DEF HandedOut
    <3> QED  BY <1>5, <2>3, <3>1
  <2>4. CASE SegOf(p) # victim
    <3>1. HandedOut(p)' <=> HandedOut(p)
      <4>1. pptr'[<<p[1], p[2]>>] = pptr[<<p[1], p[2]>>]
        BY <1>1, <2>2, <2>4
      <4> QED  BY <4>1 DEF HandedOut
    <3>2. CASE HandedOut(p)
      <4>1. PICK d \in PageData : Ends(p, d)
        BY <2>1, <3>2 DEF StoreInv, PagesSound
      <4> QED  BY <1>5, <2>1, <2>4, <3>1, <3>2, <4>1
    <3>3. CASE ~HandedOut(p)
      <4>1. Ends(p, None)
        BY <3>3 DEF StoreInv, PagesSound
      <4> QED  BY <1>5, <2>4, <3>1, <3>3, <4>1
    <3> QED  BY <3>2, <3>3
  <2> QED  BY <2>3, <2>4
<1>8. MappingLatest'
  <2> SUFFICES ASSUME NEW h \in Key \ AbufKeys
               PROVE  /\ mapping[h] = None => latest[h] = Junk
                      /\ \A p \in Piece : mapping[h] = p =>
                            \E d \in PageData : Ends(p[1], d)' /\ d[p[2]] = latest[h]
    BY <1>1 DEF MappingLatest, AbufKeys, ftlVars
  <2>1. ASSUME NEW p \in Piece, mapping[h] = p
        PROVE  \E d \in PageData : Ends(p[1], d)' /\ d[p[2]] = latest[h]
    <3>1. PICK d \in PageData : Ends(p[1], d) /\ d[p[2]] = latest[h]
      BY <2>1 DEF StoreInv, MappingLatest
    <3>2. PICK q \in Ppa : q = p[1]
      BY PieceParts
    <3>3. SegOf(q) # victim
      BY <1>1, <2>1, <3>2 DEF IInv, GcCover, PieceSeg
    <3>4. Ends(q, d)'
      BY <1>5, <3>1, <3>2, <3>3
    <3> QED  BY <3>1, <3>2, <3>4
  <2> QED  BY <2>1 DEF StoreInv, MappingLatest
<1>9. GcPagesSound' /\ AssignSound' /\ BuffersLatest' /\ CallbackFresh'
  BY <1>1, AssignKept, BuffersKept, CallbackKept
     DEF StoreInv, GcPagesSound, gcVars, ftlVars
<1> QED  BY <1>6, <1>7, <1>8, <1>9 DEF StoreInv
-----------------------------------------------------------------------------
(* The theorems.                                                           *)

\* A load brings back what the pages held: it does in a build without
\* COPYMETA_ONLY, and where nothing is ever loaded.
ContentsKept == ~CopyMetaOnly \/ MaxLoads = 0

(* posix_load brings the pages back.                                        *)
LEMMA DumpLoadStore ==
    ASSUME ContentsKept, IInv, StoreInv, DumpLoad
    PROVE  StoreInv'
<1>1. flash' = flash
  <2>1. loads \in 0 .. MaxLoads /\ loads < MaxLoads /\ flash' = LoadedFlash
    BY DEF DumpLoad, IInv, TypeOK, DevTypeOK
  <2>2. MaxLoads # 0
    BY <2>1
  <2> QED  BY <2>1, <2>2 DEF ContentsKept, LoadedFlash
<1> QED  BY <1>1, StoreUntouched DEF DumpLoad, ftlVars, gcVars, cursorVars

(* page_create: nothing is written, queued or buffered.                     *)
LEMMA InitStore ==
    ASSUME Init
    PROVE  StoreInv
<1>1. IInv
  BY InitInv
<1>2. /\ devq = <<>> /\ abuf = <<>> /\ gbuf = <<>> /\ gclist = {} /\ gcread = {}
      /\ pc = "idle" /\ devcb = None /\ mapping = [k \in Key |-> None]
      /\ latest = [k \in Key |-> Junk] /\ flash = [p \in Ppa |-> None]
      /\ pptr = [b \in Seg \X Block |-> 0]
  BY DEF Init, BMInit
<1>3. Len(devq) = 0 /\ DOMAIN devq = {} /\ DOMAIN abuf = {} /\ DOMAIN gbuf = {}
  BY <1>2
<1>4. ASSUME NEW p \in Ppa
      PROVE  Ends(p, None) /\ ~HandedOut(p)
  <2>1. Holds(p, 0, None)
    BY <1>2, HoldsFirst
  <2>2. <<p[1], p[2]>> \in Seg \X Block /\ p[3] \in Nat
    BY DEF Ppa
  <2>3. ~HandedOut(p)
    BY <1>2, <2>2 DEF HandedOut
  <2> QED  BY <1>3, <2>1, <2>3 DEF Ends
<1>5. QueueSound
  BY <1>3 DEF QueueSound
<1>6. PagesSound
  BY <1>4 DEF PagesSound
<1>7. GcPagesSound /\ BuffersLatest /\ AssignSound /\ CallbackFresh
  BY <1>2, <1>3 DEF GcPagesSound, BuffersLatest, AssignSound, CallbackFresh
<1>8. MappingLatest
  BY <1>2 DEF MappingLatest
<1> QED  BY <1>5, <1>6, <1>7, <1>8 DEF StoreInv

(* Every step keeps the store sound.                                        *)
LEMMA NextStore ==
    ASSUME ContentsKept, IInv, BooksInv, StoreInv, [Next]_vars
    PROVE  StoreInv'
<1>1. CASE UNCHANGED vars
  BY <1>1, StoreUntouched
     DEF vars, bmVars, cursorVars, ftlVars, gcVars, devVars
<1>2. CASE HostStep
  BY <1>2, PageWriteStore, PageReadStore DEF HostStep, Val
<1>3. CASE SkipGc
  BY <1>3, StoreUntouched
     DEF SkipGc, Silent, bmVars, cursorVars, ftlVars, gcVars, devVars
<1>4. CASE AllocSegment \/ GcSwap
  BY <1>4, StoreUntouched
     DEF AllocSegment, GcSwap, Silent, cursorVars, gcVars, devVars
<1>5. CASE MainStep
  BY <1>3, <1>4, <1>5, AllocPageStore, MapKeyStore, SubmitPageStore, StartGcStore,
     GcIssueReadStore, GcCopyStore, GcFlushRestStore, GcTrimStore DEF MainStep
<1>6. CASE DevFillBuffer
  BY <1>6, StoreUntouched
     DEF DevFillBuffer, bmVars, cursorVars, ftlVars, gcVars
<1>7. CASE DevStep
  BY <1>6, <1>7, DevWriteStore, DevTrimStore, DevGcReadStore, DevReadStore DEF DevStep
<1> QED  BY <1>1, <1>2, <1>5, <1>7, DumpLoadStore DEF Next

(* What a key holds is what its page ends with.                             *)
LEMMA StoredLatest ==
    ASSUME IInv, StoreInv, NEW k \in Key
    PROVE  Stored(k) = latest[k]
<1>1. CASE k \in AbufKeys
  <2>1. AbufPos(k) \in DOMAIN abuf /\ abuf[AbufPos(k)].key = k
    BY <1>1 DEF AbufKeys, AbufPos
  <2> QED  BY <1>1, <2>1 DEF Stored, StoreInv, BuffersLatest
<1>2. CASE k \notin AbufKeys /\ mapping[k] = None
  BY <1>2 DEF Stored, StoreInv, MappingLatest
<1>3. CASE k \notin AbufKeys /\ mapping[k] # None
  <2>1. PICK p \in Piece : mapping[k] = p
    BY <1>3 DEF IInv, TypeOK, FTLTypeOK
  <2>2. PICK d \in PageData : Ends(p[1], d) /\ d[p[2]] = latest[k]
    BY <1>3, <2>1 DEF StoreInv, MappingLatest
  <2>3. Effective(p[1]) = d
    BY <2>2, PieceParts, EffectiveHolds DEF Ends, IInv, TypeOK, DevTypeOK
  <2>4. d # None
    BY PageAssumption
  <2> QED  BY <1>3, <2>1, <2>2, <2>3, <2>4 DEF Stored
<1> QED  BY <1>1, <1>2, <1>3

(* The first request finds its page as the queue promises.                   *)
LEMMA FirstInOrder ==
    ASSUME IInv, StoreInv
    PROVE  DeviceOrderKept
<1> SUFFICES ASSUME devq # <<>>
             PROVE  /\ Head(devq).op = "write" => flash[Head(devq).ppa] = None
                    /\ Head(devq).op \in {"read", "gcread"} => flash[Head(devq).ppa] # None
  BY DEF DeviceOrderKept, WritesOnErased, ReadsPopulated
<1>1. /\ Head(devq) = devq[1] /\ devq[1] \in DevRequest /\ 1 \in DOMAIN devq
  <2>1. devq \in Seq(DevRequest)
    BY DEF IInv, TypeOK, DevTypeOK
  <2>2. Len(devq) \in Nat \ {0} /\ DOMAIN devq = 1 .. Len(devq)
    BY <2>1, LenProperties, EmptySeq
  <2> QED  BY <2>1, <2>2, HeadTailProperties
<1>2. 1 - 1 = 0
  OBVIOUS
<1>3. CASE devq[1].op = "write"
  <2>1. devq[1].ppa \in Ppa /\ Holds(devq[1].ppa, 0, None)
    BY <1>1, <1>2, <1>3, RequestFields DEF StoreInv, QueueSound, WriteSound
  <2> QED  BY <1>1, <1>3, <2>1, HoldsFirst
<1>4. CASE devq[1].op = "read" \/ devq[1].op = "gcread"
  <2>1. devq[1].ppa \in Ppa
    BY <1>1, <1>4, RequestFields
  <2>2. PICK d \in PageData : Holds(devq[1].ppa, 0, d)
    BY <1>1, <1>2, <1>4 DEF StoreInv, QueueSound, ReadSound, GcReadSound
  <2> QED  BY <1>1, <1>4, <2>1, <2>2, HoldsFirst, PageAssumption
<1> QED  BY <1>1, <1>3, <1>4

(* Every step answers reads, other than the coalesced and the cached ones,    *)
(* with the latest value before they were issued.                          *)
LEMMA NextAnswers ==
    ASSUME IInv, StoreInv, OwnReadsFresh, [Next]_vars
    PROVE  OwnReadsFresh'
<1>1. CASE UNCHANGED vars
  BY <1>1 DEF vars, OwnReadsFresh
<1>2. CASE answers' = {}
  BY <1>2 DEF OwnReadsFresh
<1>3. ASSUME NEW id \in Rid, NEW k \in Key, PageRead(id, k)
      PROVE  OwnReadsFresh'
  <2> DEFINE r == ReadReq(id, k)
  <2>1. r.want = latest[k] /\ r.piece = mapping[k]
    BY DEF ReadReq
  <2> HIDE DEF r
  <2>2. CASE k \in AbufKeys
    <3>1. answers' = {Answer(r, abuf[AbufPos(k)].val, "a_buffer")}
      BY <1>3, <2>2 DEF PageRead, Reply, r
    <3>2. Stored(k) = abuf[AbufPos(k)].val
      BY <2>2 DEF Stored
    <3> QED  BY <2>1, <3>1, <3>2, StoredLatest DEF OwnReadsFresh, Answer
  <2>3. CASE k \notin AbufKeys /\ mapping[k] = None
    <3>1. answers' = {Answer(r, Junk, "notfound")}
      BY <1>3, <2>1, <2>3 DEF PageRead, Reply, r
    <3>2. Stored(k) = Junk
      BY <2>3 DEF Stored
    <3> QED  BY <2>1, <3>1, <3>2, StoredLatest DEF OwnReadsFresh, Answer
  <2>4. CASE k \notin AbufKeys /\ mapping[k] # None
    <3>1. \/ answers' = {}
          \/ answers' = {Answer(r, rb.data[r.piece[2]], "read_buffer")}
      BY <1>3, <2>1, <2>4 DEF PageRead, Reply, r
    <3> QED  BY <3>1 DEF OwnReadsFresh, Answer
  <2> QED  BY <2>2, <2>3, <2>4
<1>4. CASE DevRead
  <2>1. \A a \in answers' : a.from = "pending"
    BY <1>4 DEF DevRead, Answer
  <2> QED  BY <2>1 DEF OwnReadsFresh
<1>5. CASE DevFillBuffer
  <2>1. /\ answers' = {Answer(devcb.req, devcb.data[devcb.req.piece[2]], "flash")}
        /\ devcb # None
    BY <1>5 DEF DevFillBuffer
  <2> QED  BY <2>1 DEF OwnReadsFresh, Answer, StoreInv, CallbackFresh
<1>6. CASE MainStep
  BY <1>2, <1>6 DEF MainStep, SkipGc, AllocSegment, AllocPage, MapKey, SubmitPage,
     StartGc, GcIssueRead, GcCopy, GcFlushRest, GcTrim, GcSwap, Silent
<1>7. CASE DevStep
  BY <1>2, <1>4, <1>5, <1>7 DEF DevStep, DevWrite, DevTrim, DevGcRead, Silent
<1>8. CASE HostStep
  BY <1>2, <1>3, <1>8 DEF HostStep, PageWrite
<1>9. CASE DumpLoad
  BY <1>2, <1>9 DEF DumpLoad
<1> QED  BY <1>1, <1>6, <1>7, <1>8, <1>9 DEF Next

(* The books and the store are sound together in every reachable state.      *)
THEOREM StoreInvariant ==
    ASSUME ContentsKept
    PROVE  Spec => [](IInv /\ BooksInv /\ StoreInv)
<1>1. Init => BooksInv /\ StoreInv
  BY InitBooks, InitStore
<1>2. IInv /\ BooksInv /\ StoreInv /\ [Next]_vars => BooksInv' /\ StoreInv'
  BY NextBooks, NextStore
<1> QED  BY <1>1, <1>2, InductiveInvariant, PTL DEF Spec

(* No acknowledged write is lost at any step of a write, of a collection or   *)
(* of the device: a_buffer, or the page the mapping names once the queue is *)
(* executed, holds the latest value of every key.                          *)
THEOREM NothingEverLost ==
    ASSUME ContentsKept
    PROVE  Spec => []NothingLost
<1>1. IInv /\ BooksInv /\ StoreInv => NothingLost
  BY StoredLatest DEF NothingLost
<1> QED  BY <1>1, StoreInvariant, PTL

(* The aborts of the device on the order of its requests are unreachable: no  *)
(* page is written before its queued erase is executed, and none is read    *)
(* that holds nothing.                                                     *)
THEOREM DeviceOrderAlwaysKept ==
    ASSUME ContentsKept
    PROVE  Spec => []DeviceOrderKept
<1>1. IInv /\ BooksInv /\ StoreInv => DeviceOrderKept
  BY FirstInOrder
<1> QED  BY <1>1, StoreInvariant, PTL

(* A read that page_read answers from a_buffer or by the mapping alone, or    *)
(* that is answered by its own flash read, returns the value of the latest  *)
(* write before it was issued, although the page may be collected and       *)
(* erased while the read is queued.                                        *)
THEOREM OwnReadsAlwaysFresh ==
    ASSUME ContentsKept
    PROVE  Spec => []OwnReadsFresh
<1>1. Init => OwnReadsFresh
  BY DEF Init, OwnReadsFresh
<1>2. IInv /\ BooksInv /\ StoreInv /\ OwnReadsFresh /\ [Next]_vars => OwnReadsFresh'
  BY NextAnswers
<1> QED  BY <1>1, <1>2, StoreInvariant, PTL DEF Spec
==============================================================================
