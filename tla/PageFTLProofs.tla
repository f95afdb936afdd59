---------------------------- MODULE PageFTLProofs ----------------------------
(***************************************************************************)
(* IInv is an inductive invariant of the page-mapping FTL, for every       *)
(* geometry, key set and queue capacity; TypeOK, MappingSound and          *)
(* SegmentsPartition follow.  One lemma per action, after the lemmas on    *)
(* the block manager's operations they share.                              *)
(***************************************************************************)
EXTENDS PageFTL, SequenceTheorems, TLAPS

USE GeometryAssumption, KeyAssumption, NoneAssumption, QueueAssumption,
    RoomAssumption, LoadAssumption

(* A function on 1..n is a sequence of length n.                           *)
LEMMA FunctionSeq ==
    ASSUME NEW S, NEW n \in Nat, NEW f \in [1 .. n -> S]
    PROVE  f \in Seq(S) /\ Len(f) = n /\ DOMAIN f = 1 .. n
<1>1. f \in Seq(S)
  BY SeqDef
<1>2. 1 .. n = 1 .. Len(f) /\ Len(f) \in Nat
  BY <1>1, LenProperties
<1> QED  BY <1>1, <1>2

(* Updating a function at one argument.                                    *)
LEMMA ExceptType ==
    ASSUME NEW D, NEW R, NEW f \in [D -> R], NEW d \in D, NEW r \in R
    PROVE  [f EXCEPT ![d] = r] \in [D -> R]
OBVIOUS

(* The parts of a piece address.                                           *)
LEMMA PieceParts ==
    ASSUME NEW p \in Piece
    PROVE  /\ p = <<p[1], p[2]>>
           /\ p[1] \in Ppa
           /\ p[2] \in Off
           /\ p[1][1] \in Seg
           /\ p[1][2] \in Block
           /\ p[1][3] \in 0 .. PPB - 1
           /\ PieceBlock(p) \in Seg \X Block
<1>1. p[1] \in Ppa /\ p[2] \in Off /\ p = <<p[1], p[2]>>
  BY DEF Piece
<1>2. p[1][1] \in Seg /\ p[1][2] \in Block /\ p[1][3] \in 0 .. PPB - 1
  BY <1>1 DEF Ppa
<1> QED  BY <1>1, <1>2 DEF PieceBlock

(* The key list sbm_set_oob gets from a buffer is a sequence of keys as     *)
(* long as the buffer.                                                     *)
LEMMA BufferKeys ==
    ASSUME NEW V, NEW b \in Seq([key : Key, val : V])
    PROVE  LET keys == [i \in DOMAIN b |-> b[i].key]
           IN  /\ keys \in Seq(Key)
               /\ Len(keys) = Len(b)
               /\ \A i \in 1 .. Len(b) : keys[i] = b[i].key
<1> DEFINE keys == [i \in DOMAIN b |-> b[i].key]
<1>1. DOMAIN b = 1 .. Len(b) /\ Len(b) \in Nat
  OBVIOUS
<1>2. \A i \in 1 .. Len(b) : b[i].key \in Key
  <2> TAKE i \in 1 .. Len(b)
  <2>1. b[i] \in [key : Key, val : V]
    BY ElementOfSeq
  <2> QED  BY <2>1
<1>3. keys \in [1 .. Len(b) -> Key]
  BY <1>1, <1>2
<1>4. keys \in Seq(Key) /\ Len(keys) = Len(b)
  BY <1>1, <1>3, FunctionSeq
<1> QED  BY <1>1, <1>4

(* sbm_get_page_addr on a segment that is not full returns a page of it     *)
(* that exists, past every page already handed out.                        *)
LEMMA NextPpaType ==
    ASSUME BMTypeOK, CursorInv, NEW s \in Seg, ~SegFull(s)
    PROVE  /\ CurrentBlock(s) \in Block
           /\ CurrentBlock(s) >= bptr[s]
           /\ pptr[<<s, CurrentBlock(s)>>] \in 0 .. PPB - 1
           /\ NextPpa(s) \in Ppa
<1>1. /\ bptr[s] \in Block
      /\ pptr[<<s, bptr[s]>>] \in 0 .. PPB
  BY DEF BMTypeOK
<1>2. CASE pptr[<<s, bptr[s]>>] = PPB
  <2>1. bptr[s] # BPS - 1
    BY <1>2 DEF SegFull
  <2>2. bptr[s] + 1 \in Block
    BY <1>1, <2>1 DEF Block
  <2>3. pptr[<<s, bptr[s] + 1>>] = 0
    BY <1>1, <2>2 DEF CursorInv, Block
  <2> QED  BY <1>1, <1>2, <2>2, <2>3 DEF CurrentBlock, NextPpa, Ppa, Block
<1>3. CASE pptr[<<s, bptr[s]>>] # PPB
  BY <1>1, <1>3 DEF CurrentBlock, NextPpa, Ppa, Block
<1> QED  BY <1>2, <1>3

(* The page handed out holds no valid piece.                               *)
LEMMA NextPpaFresh ==
    ASSUME BMTypeOK, CursorInv, NEW s \in Seg, ~SegFull(s),
           NEW p \in bits
    PROVE  p[1] # NextPpa(s)
<1>1. p \in Piece /\ p[1][3] < pptr[PieceBlock(p)]
  BY DEF BMTypeOK, CursorInv
<1>2. p[1][3] \in 0 .. PPB - 1
  BY <1>1 DEF Piece, Ppa
<1>3. pptr[<<s, CurrentBlock(s)>>] \in 0 .. PPB - 1
  BY NextPpaType
<1> QED  BY <1>1, <1>2, <1>3 DEF NextPpa, PieceBlock

(* Handing out a page, validating its first n pieces and writing its spare  *)
(* area keep the block manager's types and cursors, and change the spare    *)
(* area of that page only.                                                 *)
LEMMA PageHandedOut ==
    ASSUME BMTypeOK, CursorInv, NEW s \in Seg, NEW keys \in Seq(Key),
           NEW n \in 0 .. L2PGAP,
           GetPageAddr(s), BitSetPage(NextPpa(s), n), SetOob(NextPpa(s), keys),
           heap' \subseteq Seg, freeq' \in Seq(Seg)
    PROVE  /\ BMTypeOK'
           /\ CursorInv'
           /\ NextPpa(s) \in Ppa
           /\ bits' = bits \cup PiecesOf(NextPpa(s), n)
           /\ \A p \in Ppa, i \in Off :
                 oob'[p][i] = IF p = NextPpa(s) /\ i < Len(keys)
                              THEN keys[i + 1] ELSE oob[p][i]
<1> DEFINE ppa == NextPpa(s)
           cb  == CurrentBlock(s)
           b   == <<s, cb>>
<1>1. ~SegFull(s)
  BY DEF GetPageAddr
<1>2. /\ cb \in Block /\ cb >= bptr[s]
      /\ pptr[b] \in 0 .. PPB - 1
      /\ ppa \in Ppa /\ b \in Seg \X Block
  BY <1>1, NextPpaType
<1>3. ppa[1] = s /\ ppa[2] = cb /\ ppa[3] = pptr[b]
  BY DEF NextPpa
<1>4. /\ pptr' = [pptr EXCEPT ![b] = pptr[b] + 1]
      /\ bptr' = [bptr EXCEPT ![s] = cb]
      /\ used' = [used EXCEPT ![s] = used[s] + 1]
  BY DEF GetPageAddr
<1>5. PICK revived \in BOOLEAN :
      /\ bits' = bits \cup PiecesOf(ppa, n)
      /\ bval' = [bval EXCEPT ![b] = bval[b] + n]
      /\ sval' = [sval EXCEPT ![s] = sval[s] + n]
      /\ bfull' = [bfull EXCEPT ![b] = bfull[b] /\ ~revived]
      /\ sfull' = [sfull EXCEPT ![s] = IF revived THEN sfull[s] - 1 ELSE sfull[s]]
      /\ UNCHANGED <<binv, sinv>>
  BY <1>3, Zenon DEF BitSetPage
<1>6. \A p \in Ppa, i \in Off :
         oob'[p][i] = IF p = ppa /\ i < Len(keys) THEN keys[i + 1] ELSE oob[p][i]
  BY DEF SetOob, BMTypeOK
<1>7. oob' \in [Ppa -> [Off -> Key]]
  <2>1. \A i \in Off : i < Len(keys) => keys[i + 1] \in Key
    BY LenProperties DEF Off
  <2> QED  BY <1>2, <2>1 DEF SetOob, BMTypeOK
<1>8. \A p \in PiecesOf(ppa, n) : p \in Piece /\ p[1] = ppa
  BY <1>2 DEF PiecesOf, Piece, Off
<1> HIDE DEF ppa, cb, b
<1>9. /\ pptr' \in [Seg \X Block -> 0 .. PPB]
      /\ bptr' \in [Seg -> Block]
      /\ used' \in [Seg -> Nat]
  <2>1. pptr[b] + 1 \in 0 .. PPB
    BY <1>2
  <2>2. pptr \in [Seg \X Block -> 0 .. PPB]
    BY DEF BMTypeOK
  <2>3. pptr' \in [Seg \X Block -> 0 .. PPB]
    BY <1>2, <1>4, <2>1, <2>2, ExceptType, Zenon
  <2>4. bptr \in [Seg -> Block] /\ used \in [Seg -> Nat]
    BY DEF BMTypeOK
  <2>5. used[s] + 1 \in Nat
    BY <2>4
  <2>6. bptr' \in [Seg -> Block] /\ used' \in [Seg -> Nat]
    BY <1>2, <1>4, <2>4, <2>5, ExceptType, Zenon
  <2> QED  BY <2>3, <2>6
<1>10. bits' \subseteq Piece
  BY <1>5, <1>8 DEF BMTypeOK
<1>11. bval' \in [Seg \X Block -> Nat] /\ binv' \in [Seg \X Block -> Nat]
  <2>1. bval \in [Seg \X Block -> Nat] /\ binv' = binv
    BY <1>5 DEF BMTypeOK
  <2>2. bval[b] + n \in Nat
    BY <1>2, <2>1
  <2>3. bval' \in [Seg \X Block -> Nat]
    BY <1>2, <1>5, <2>1, <2>2, ExceptType, Zenon
  <2> QED  BY <2>1, <2>3 DEF BMTypeOK
<1>12. bfull' \in [Seg \X Block -> BOOLEAN]
  BY <1>2, <1>5 DEF BMTypeOK
<1>13. /\ sval' \in [Seg -> Nat] /\ sinv' \in [Seg -> Nat]
       /\ sfull' \in [Seg -> Int]
  BY <1>5 DEF BMTypeOK
<1>14. BMTypeOK'
  BY <1>7, <1>9, <1>10, <1>11, <1>12, <1>13 DEF BMTypeOK
<1>15. \A t \in Seg, c \in Block : c > bptr'[t] => pptr'[<<t, c>>] = 0
  <2> SUFFICES ASSUME NEW t \in Seg, NEW c \in Block, c > bptr'[t]
               PROVE  pptr'[<<t, c>>] = 0
    OBVIOUS
  <2>1. bptr'[t] = IF t = s THEN cb ELSE bptr[t]
    BY <1>4 DEF BMTypeOK
  <2>2. bptr[t] \in Int /\ cb \in Int /\ c \in Int
    BY <1>2 DEF BMTypeOK, Block
  <2>3. c > bptr[t]
    BY <1>2, <2>1, <2>2
  <2>4. pptr[<<t, c>>] = 0
    BY <2>3 DEF CursorInv
  <2>5. <<t, c>> # <<s, cb>>
    BY <1>2, <2>1, <2>2
  <2> QED  BY <1>2, <1>4, <2>4, <2>5 DEF BMTypeOK, b
<1>16. \A p \in bits' : p[1][3] < pptr'[PieceBlock(p)]
  <2> SUFFICES ASSUME NEW p \in bits' PROVE p[1][3] < pptr'[PieceBlock(p)]
    OBVIOUS
  <2>1. \A c \in Seg \X Block : pptr'[c] \in Int /\ pptr[c] \in Int
                               /\ pptr'[c] = IF c = b THEN pptr[b] + 1 ELSE pptr[c]
    BY <1>2, <1>4, <1>9 DEF BMTypeOK
  <2>2. CASE p \in bits
    <3>1. p[1][3] < pptr[PieceBlock(p)]
      BY <2>2 DEF CursorInv
    <3>2. p[1][3] \in Nat /\ PieceBlock(p) \in Seg \X Block
      BY <2>2, PieceParts DEF BMTypeOK
    <3> QED  BY <2>1, <3>1, <3>2
  <2>3. CASE p \in PiecesOf(ppa, n)
    <3>1. p[1][3] = pptr[b] /\ PieceBlock(p) = b
      BY <1>3, <1>8, <2>3 DEF PieceBlock, b
    <3> QED  BY <1>2, <2>1, <3>1
  <2> QED  BY <1>5, <2>2, <2>3
<1>17. CursorInv'
  BY <1>15, <1>16 DEF CursorInv
<1> USE DEF ppa
<1> QED  BY <1>2, <1>5, <1>6, <1>14, <1>17

(* A step that leaves the block manager alone.                             *)
LEMMA BMKept ==
    ASSUME BMTypeOK, CursorInv, UNCHANGED bmVars
    PROVE  BMTypeOK' /\ CursorInv'
BY DEF BMTypeOK, CursorInv, bmVars, cursorVars, bitVars, countVars, listVars
-----------------------------------------------------------------------------
(* The device thread.                                                      *)

(* A step that leaves the block manager and the main thread alone only has  *)
(* to keep the types of the device's state.                                *)
LEMMA MainUnchanged ==
    ASSUME IInv, DevTypeOK', UNCHANGED <<bmVars, ftlVars, pc, asgVars, gcVars>>
    PROVE  IInv'
<1> USE DEF bmVars, cursorVars, bitVars, countVars, listVars, ftlVars, asgVars,
            gcVars, copyVars
<1>1. BMTypeOK' /\ FTLTypeOK'
  BY DEF IInv, TypeOK, BMTypeOK, FTLTypeOK
<1>2. CursorInv' /\ MappingSound'
  BY DEF IInv, CursorInv, MappingSound
<1>3. SegmentsPartition' /\ BufferInv'
  BY DEF IInv, SegmentsPartition, BufferInv
<1>4. AssignInv' /\ GcIdle'
  BY DEF IInv, AssignInv, GcIdle
<1>5. GcCover'
  BY DEF IInv, GcCover
<1> QED  BY <1>1, <1>2, <1>3, <1>4, <1>5 DEF IInv, TypeOK

(* A queued request has the fields of its kind.                            *)
LEMMA RequestFields ==
    ASSUME NEW r \in DevRequest
    PROVE  /\ r.op = "write" => r.ppa \in Ppa /\ r.data \in PageData
           /\ r.op = "read" => r.ppa \in Ppa /\ r.req \in UserReadReq
           /\ r.op = "gcread" => r.ppa \in Ppa
           /\ r.op = "trim" => r.seg \in Seg
BY DEF DevRequest

(* A request taken from the queue.                                         *)
LEMMA Dequeued ==
    ASSUME DevTypeOK, NEW op, Dequeue(op)
    PROVE  /\ Head(devq) \in DevRequest
           /\ devq' \in Seq(DevRequest)
           /\ Head(devq).op = op
<1>1. devq \in Seq(DevRequest) /\ devq # <<>> /\ devq' = Tail(devq)
  BY DEF DevTypeOK, Dequeue
<1> QED  BY <1>1, HeadTailProperties DEF Dequeue

(* What the device reads is a page.                                        *)
LEMMA ReadPageType ==
    ASSUME DevTypeOK, NEW p \in Ppa
    PROVE  ReadPage(p) \in PageData
BY DEF DevTypeOK, ReadPage, PageData

(* The device executes a page write (posix_write).                          *)
LEMMA DevWriteStep ==
    ASSUME IInv, DevWrite
    PROVE  IInv'
<1>1. Head(devq).ppa \in Ppa /\ Head(devq).data \in PageData /\ devq' \in Seq(DevRequest)
  BY Dequeued, RequestFields DEF DevWrite, IInv, TypeOK
<1>2. flash' \in [Ppa -> PageData \cup {None}]
  BY <1>1 DEF DevWrite, IInv, TypeOK, DevTypeOK
<1>3. DevTypeOK'
  BY <1>1, <1>2 DEF DevWrite, Silent, readVars, IInv, TypeOK, DevTypeOK
<1>4. UNCHANGED <<bmVars, ftlVars, pc, asgVars, gcVars>>
  BY DEF DevWrite
<1> QED  BY <1>3, <1>4, MainUnchanged

(* The device erases a segment (posix_trim_block).                          *)
LEMMA DevTrimStep ==
    ASSUME IInv, DevTrim
    PROVE  IInv'
<1>1. devq' \in Seq(DevRequest)
  BY Dequeued DEF DevTrim, IInv, TypeOK
<1>2. flash' \in [Ppa -> PageData \cup {None}]
  BY DEF DevTrim, IInv, TypeOK, DevTypeOK
<1>3. DevTypeOK'
  BY <1>1, <1>2 DEF DevTrim, Silent, readVars, IInv, TypeOK, DevTypeOK
<1>4. UNCHANGED <<bmVars, ftlVars, pc, asgVars, gcVars>>
  BY DEF DevTrim
<1> QED  BY <1>3, <1>4, MainUnchanged

(* The first half of page_end_req(DATAR).                                   *)
LEMMA DevReadStep ==
    ASSUME IInv, DevRead
    PROVE  IInv'
<1> DEFINE p == Head(devq).ppa
           data == ReadPage(p)
<1>1. p \in Ppa /\ Head(devq).req \in UserReadReq /\ devq' \in Seq(DevRequest)
  BY Dequeued, RequestFields DEF DevRead, IInv, TypeOK
<1>2. data \in PageData
  BY <1>1, ReadPageType DEF IInv, TypeOK
<1>3. devcb' \in [req : UserReadReq, data : PageData]
  BY <1>1, <1>2 DEF DevRead
<1>4. /\ pending' \subseteq pending
      /\ issued' \subseteq issued
      /\ inflight' \subseteq inflight
  BY DEF DevRead, PendingWithout, IssuedWithout
<1>5. DevTypeOK'
  BY <1>1, <1>3, <1>4 DEF DevRead, IInv, TypeOK, DevTypeOK
<1>6. UNCHANGED <<bmVars, ftlVars, pc, asgVars, gcVars>>
  BY DEF DevRead
<1> QED  BY <1>5, <1>6, MainUnchanged

(* The second half of page_end_req(DATAR).                                  *)
LEMMA DevFillBufferStep ==
    ASSUME IInv, DevFillBuffer
    PROVE  IInv'
<1>1. DevTypeOK'
  BY DEF DevFillBuffer, IInv, TypeOK, DevTypeOK
<1>2. UNCHANGED <<bmVars, ftlVars, pc, asgVars, gcVars>>
  BY DEF DevFillBuffer
<1> QED  BY <1>1, <1>2, MainUnchanged

(* page_gc_end_req(GCDR) gives a page of temp_list its data.                *)
LEMMA DevGcReadStep ==
    ASSUME IInv, DevGcRead
    PROVE  IInv'
<1> DEFINE p == Head(devq).ppa
           upd(g) == IF g.ppa = p THEN [g EXCEPT !.data = ReadPage(p)] ELSE g
<1>1. p \in Ppa /\ devq' \in Seq(DevRequest)
  BY Dequeued, RequestFields DEF DevGcRead, IInv, TypeOK
<1>2. ReadPage(p) \in PageData
  BY <1>1, ReadPageType DEF IInv, TypeOK
<1>3. gclist' = {upd(g) : g \in gclist}
  BY DEF DevGcRead, Done
<1>4. \A g \in gclist : upd(g) \in [ppa : Ppa, data : PageData \cup {None}]
                        /\ upd(g).ppa = g.ppa
  BY <1>2 DEF IInv, TypeOK, FTLTypeOK
<1> HIDE DEF p, upd
<1>5. UNCHANGED <<bmVars, ftlVars, pc, asgVars, victim, gcread, copyVars, gbuf>>
  BY DEF DevGcRead
<1> USE DEF ftlVars, asgVars, copyVars
<1>6. BMTypeOK' /\ CursorInv'
  BY <1>5, BMKept DEF IInv, TypeOK
<1>7. FTLTypeOK'
  <2>1. gclist' \subseteq [ppa : Ppa, data : PageData \cup {None}]
    BY <1>3, <1>4
  <2> QED  BY <1>5, <2>1 DEF IInv, TypeOK, FTLTypeOK
<1>8. DevTypeOK'
  BY <1>1 DEF DevGcRead, Silent, readVars, IInv, TypeOK, DevTypeOK
<1>9. MappingSound' /\ SegmentsPartition' /\ BufferInv' /\ AssignInv'
  BY <1>5 DEF IInv, MappingSound, SegmentsPartition, BufferInv, AssignInv, bmVars,
              bitVars, listVars
<1>10. GcIdle'
  <2>1. \A g \in gclist : upd(g) \in gclist' /\ upd(g).ppa = g.ppa
    BY <1>3, <1>4
  <2> QED  BY <1>3, <1>5, <2>1 DEF IInv, GcIdle
<1>11. GcCover'
  <2>1. \A g \in gclist : upd(g) \in gclist' /\ upd(g).ppa = g.ppa
    BY <1>3, <1>4
  <2> QED  BY <1>5, <2>1 DEF IInv, GcCover
<1> QED  BY <1>6, <1>7, <1>8, <1>9, <1>10, <1>11 DEF IInv, TypeOK
-----------------------------------------------------------------------------
(* The main thread: requests.                                              *)

(* A request put in the queue.                                             *)
LEMMA Sent ==
    ASSUME DevTypeOK, NEW r \in DevRequest, Send(r)
    PROVE  devq' \in Seq(DevRequest)
BY AppendProperties DEF DevTypeOK, Send

(* Requests the FTL sends are device requests.                             *)
LEMMA RequestTypes ==
    /\ \A p \in Ppa, d \in PageData : Write(p, d) \in DevRequest
    /\ \A p \in Ppa : GcRead(p) \in DevRequest
    /\ \A s \in Seg : Trim(s) \in DevRequest
    /\ \A r \in UserReadReq : UserRead(r) \in DevRequest
<1>1. \A p \in Ppa, d \in PageData : Write(p, d) \in DevRequest
  BY DEF Write, DevRequest
<1>2. \A p \in Ppa : GcRead(p) \in DevRequest
  BY DEF GcRead, DevRequest
<1>3. \A s \in Seg : Trim(s) \in DevRequest
  BY DEF Trim, DevRequest
<1>4. \A r \in UserReadReq : UserRead(r) \in DevRequest
  <2> TAKE r \in UserReadReq
  <2>1. r.piece[1] \in Ppa
    BY PieceParts DEF UserReadReq
  <2> QED  BY <2>1 DEF UserRead, DevRequest
<1> QED  BY <1>1, <1>2, <1>3, <1>4

(* page_read, answered at once or left in flight.                           *)
LEMMA PageReadStep ==
    ASSUME IInv, NEW id \in Rid, NEW k \in Key, PageRead(id, k)
    PROVE  IInv'
<1> DEFINE r == ReadReq(id, k)
<1>1. UNCHANGED <<bmVars, ftlVars, pc, asgVars, gcVars, devcb, flash, latest, loads>>
  BY DEF PageRead
<1>2. CASE UNCHANGED <<devq, readVars>>
  <2>1. DevTypeOK'
    BY <1>1, <1>2 DEF readVars, IInv, TypeOK, DevTypeOK
  <2> QED  BY <1>1, <2>1, MainUnchanged
<1>3. CASE /\ r.piece # None
           /\ inflight' = inflight \cup {id}
           /\ \/ /\ pending' = pending \cup {r}
                 /\ UNCHANGED <<devq, issued>>
              \/ /\ issued' = issued \cup {r.piece[1]}
                 /\ Send(UserRead(r))
                 /\ UNCHANGED pending
  <2>1. r \in UserReadReq
    BY <1>3 DEF ReadReq, UserReadReq, IInv, TypeOK, FTLTypeOK, DevTypeOK
  <2>2. r.piece[1] \in Ppa
    BY <2>1, PieceParts DEF UserReadReq
  <2>3. devq' \in Seq(DevRequest)
    BY <1>3, <2>1, Sent, RequestTypes DEF IInv, TypeOK, DevTypeOK
  <2> HIDE DEF r
  <2>4. DevTypeOK'
    BY <1>1, <1>3, <2>1, <2>2, <2>3 DEF IInv, TypeOK, DevTypeOK
  <2> QED  BY <1>1, <2>4, MainUnchanged
<1> QED  BY <1>2, <1>3 DEF PageRead, Reply

(* get_ppa finds that no collection is needed.                              *)
LEMMA SkipGcStep ==
    ASSUME IInv, SkipGc
    PROVE  IInv'
<1> USE DEF SkipGc, Silent, ftlVars, asgVars, gcVars, copyVars
<1>1. BMTypeOK' /\ CursorInv'
  BY BMKept DEF IInv, TypeOK
<1>2. FTLTypeOK'
  BY DEF IInv, TypeOK, FTLTypeOK
<1>3. DevTypeOK'
  BY DEF IInv, TypeOK, DevTypeOK, devVars, readVars
<1>4. MappingSound' /\ SegmentsPartition' /\ BufferInv' /\ AssignInv'
  BY DEF IInv, MappingSound, SegmentsPartition, BufferInv, AssignInv, bmVars, bitVars,
         listVars
<1>5. GcIdle' /\ GcCover'
  BY DEF IInv, GcIdle, GcCover
<1> QED  BY <1>1, <1>2, <1>3, <1>4, <1>5 DEF IInv, TypeOK

(* align_buffering keeps the buffered keys distinct.                        *)
LEMMA PageWriteStep ==
    ASSUME IInv, NEW k \in Key, NEW v \in Val, PageWrite(k, v)
    PROVE  IInv'
<1> DEFINE R == [key : Key, val : Val]
           q == AbufPos(k)
<1>1. /\ pc = "idle" /\ abuf \in Seq(R) /\ Len(abuf) < L2PGAP
      /\ DOMAIN abuf = 1 .. Len(abuf) /\ Len(abuf) \in Nat
  BY LenProperties DEF PageWrite, IInv, TypeOK, FTLTypeOK, BufferInv
<1>2. /\ abuf' \in Seq(R)
      /\ Len(abuf') <= L2PGAP
      /\ \A i, j \in DOMAIN abuf' : abuf'[i].key = abuf'[j].key => i = j
  <2>1. CASE k \in AbufKeys
    <3>1. q \in DOMAIN abuf
      BY <2>1 DEF AbufKeys, AbufPos
    <3>2. abuf[q] \in R
      BY <1>1, <3>1, ElementOfSeq
    <3> DEFINE e == [abuf[q] EXCEPT !.val = v]
    <3>3. e \in R /\ e.key = abuf[q].key
      BY <3>2
    <3>4. abuf' = [abuf EXCEPT ![q] = e]
      BY <2>1 DEF PageWrite
    <3> HIDE DEF e, q
    <3>5. /\ abuf' \in Seq(R) /\ Len(abuf') = Len(abuf)
          /\ \A j \in 1 .. Len(abuf) : abuf'[j] = IF j = q THEN e ELSE abuf[j]
      BY <1>1, <3>1, <3>3, <3>4, ExceptSeq
    <3>6. DOMAIN abuf' = 1 .. Len(abuf)
      BY <3>5, LenProperties
    <3>7. \A j \in 1 .. Len(abuf) : abuf'[j].key = abuf[j].key
      BY <3>3, <3>5
    <3> QED  BY <1>1, <3>5, <3>6, <3>7 DEF IInv, BufferInv
  <2>2. CASE k \notin AbufKeys
    <3> DEFINE e == [key |-> k, val |-> v]
    <3>1. e \in R /\ e.key = k
      OBVIOUS
    <3>2. abuf' = Append(abuf, e)
      BY <2>2 DEF PageWrite
    <3> HIDE DEF e
    <3>3. /\ abuf' \in Seq(R) /\ Len(abuf') = Len(abuf) + 1
          /\ \A j \in 1 .. Len(abuf) : abuf'[j] = abuf[j]
          /\ abuf'[Len(abuf) + 1] = e
      BY <1>1, <3>1, <3>2, AppendProperties
    <3>4. DOMAIN abuf' = 1 .. Len(abuf) + 1
      BY <3>3, LenProperties
    <3>5. \A j \in 1 .. Len(abuf) : abuf[j].key # k
      BY <1>1, <2>2 DEF AbufKeys
    <3> QED  BY <1>1, <3>1, <3>3, <3>4, <3>5 DEF IInv, BufferInv
  <2> QED  BY <2>1, <2>2
<1> HIDE DEF R, q
<1>3. Len(abuf') \in Nat /\ pc' = IF Len(abuf') = L2PGAP THEN "get_ppa" ELSE "idle"
  BY <1>2, LenProperties DEF PageWrite
<1>4. UNCHANGED <<bmVars, mapping, active, reserve, asgVars, gcVars, devVars,
                  readVars, loads>>
  BY DEF PageWrite
<1> USE DEF asgVars, gcVars, copyVars
<1>5. BMTypeOK' /\ CursorInv'
  BY <1>4, BMKept DEF IInv, TypeOK
<1>6. FTLTypeOK'
  BY <1>2, <1>3, <1>4 DEF IInv, TypeOK, FTLTypeOK, R
<1>7. DevTypeOK'
  <2>1. latest' \in [Key -> Val \cup {Junk}]
    BY DEF PageWrite, IInv, TypeOK, DevTypeOK
  <2> QED  BY <1>4, <2>1 DEF IInv, TypeOK, DevTypeOK, devVars, readVars
<1>8. BufferInv'
  BY <1>2, <1>3 DEF BufferInv
<1>9. MappingSound' /\ SegmentsPartition'
  BY <1>1, <1>3, <1>4 DEF IInv, MappingSound, SegmentsPartition, bmVars, bitVars, listVars
<1>10. AssignInv' /\ GcIdle' /\ GcCover'
  BY <1>1, <1>3, <1>4 DEF IInv, AssignInv, GcIdle, GcCover
<1> QED  BY <1>5, <1>6, <1>7, <1>8, <1>9, <1>10 DEF IInv, TypeOK

(* Taking the first element of a sequence without repetitions.             *)
LEMMA TailElements ==
    ASSUME NEW S, NEW q \in Seq(S), q # <<>>,
           \A i, j \in DOMAIN q : q[i] = q[j] => i = j
    PROVE  /\ Tail(q) \in Seq(S) /\ Head(q) \in S
           /\ \E i \in DOMAIN q : q[i] = Head(q)
           /\ \A i, j \in DOMAIN Tail(q) : Tail(q)[i] = Tail(q)[j] => i = j
           /\ \A s : (\E i \in DOMAIN Tail(q) : Tail(q)[i] = s)
                       <=> (\E i \in DOMAIN q : q[i] = s) /\ s # Head(q)
<1> DEFINE n == Len(q)
           t == Tail(q)
<1>1. n \in Nat \ {0} /\ DOMAIN q = 1 .. n
  BY LenProperties, EmptySeq
<1>2. /\ Head(q) \in S /\ t \in Seq(S) /\ Len(t) = n - 1
      /\ \A i \in 1 .. n - 1 : t[i] = q[i + 1]
  BY HeadTailProperties
<1>3. DOMAIN t = 1 .. n - 1
  BY <1>2, LenProperties
<1>4. Head(q) = q[1]
  OBVIOUS
<1> HIDE DEF t, n
<1>5. \A i, j \in DOMAIN t : t[i] = t[j] => i = j
  <2> SUFFICES ASSUME NEW i \in 1 .. n - 1, NEW j \in 1 .. n - 1, t[i] = t[j]
               PROVE  i = j
    BY <1>3
  <2>1. i + 1 \in 1 .. n /\ j + 1 \in 1 .. n /\ q[i + 1] = q[j + 1]
    BY <1>1, <1>2
  <2> QED  BY <1>1, <2>1
<1>6. ASSUME NEW s
      PROVE  (\E i \in DOMAIN t : t[i] = s)
                <=> (\E i \in DOMAIN q : q[i] = s) /\ s # q[1]
  <2>1. ASSUME NEW i \in 1 .. n - 1, t[i] = s
        PROVE  (\E j \in DOMAIN q : q[j] = s) /\ s # q[1]
    <3>1. i + 1 \in 1 .. n /\ i + 1 # 1 /\ q[i + 1] = s /\ 1 \in 1 .. n
      BY <1>1, <1>2, <2>1
    <3> QED  BY <1>1, <3>1
  <2>2. ASSUME NEW i \in 1 .. n, q[i] = s, s # q[1]
        PROVE  \E j \in DOMAIN t : t[j] = s
    <3>1. i - 1 \in 1 .. n - 1 /\ q[(i - 1) + 1] = s
      BY <1>1, <2>2
    <3> QED  BY <1>2, <1>3, <3>1
  <2> QED  BY <1>1, <1>3, <2>1, <2>2
<1>7. \E i \in DOMAIN q : q[i] = Head(q)
  BY <1>1, <1>4
<1> QED  BY <1>2, <1>4, <1>5, <1>6, <1>7 DEF t
-----------------------------------------------------------------------------
(* The main thread: a page write.                                          *)

(* get_ppa moves on to a free segment.                                      *)
LEMMA AllocSegmentStep ==
    ASSUME IInv, AllocSegment
    PROVE  IInv'
<1>1. UNCHANGED <<cursorVars, bitVars, oob, mapping, reserve, abuf, asgVars,
                  gcVars, devVars, readVars, latest, loads>>
  BY DEF AllocSegment, Silent
<1>2. pc = "alloc" /\ victim = None /\ pc' \in {"alloc", "crash"}
  BY DEF AllocSegment, IInv, GcIdle
<1> USE DEF asgVars, gcVars, copyVars
<1>3. DevTypeOK'
  BY <1>1 DEF IInv, TypeOK, DevTypeOK, devVars, readVars
<1>4. MappingSound' /\ BufferInv' /\ AssignInv' /\ GcIdle' /\ GcCover'
  BY <1>1, <1>2 DEF IInv, MappingSound, BufferInv, AssignInv, GcIdle, GcCover, bitVars
<1>5. CursorInv'
  BY <1>1 DEF IInv, CursorInv, cursorVars, bitVars
<1>6. CASE UNCHANGED <<active, heap, freeq>>
  <2>1. BMTypeOK'
    BY <1>1, <1>6 DEF IInv, TypeOK, BMTypeOK, cursorVars, bitVars, countVars
  <2>2. FTLTypeOK'
    BY <1>1, <1>2, <1>6 DEF IInv, TypeOK, FTLTypeOK
  <2>3. SegmentsPartition'
    BY <1>1, <1>2, <1>6 DEF IInv, SegmentsPartition
  <2> QED  BY <1>3, <1>4, <1>5, <2>1, <2>2, <2>3 DEF IInv, TypeOK
<1>7. CASE GetSeg /\ active' = FreeSeg /\ InsertHeap(FreeSeg)
  <2>1. /\ freeq \in Seq(Seg) /\ freeq # <<>>
        /\ \A i, j \in DOMAIN freeq : freeq[i] = freeq[j] => i = j
    BY <1>7 DEF IInv, TypeOK, BMTypeOK, SegmentsPartition, GetSeg
  <2>2. /\ freeq' = Tail(freeq) /\ active' = Head(freeq)
        /\ heap' = heap \cup {Head(freeq)}
    BY <1>7 DEF GetSeg, FreeSeg, InsertHeap
  <2>3. /\ freeq' \in Seq(Seg) /\ active' \in Seg
        /\ \E i \in DOMAIN freeq : freeq[i] = active'
        /\ \A i, j \in DOMAIN freeq' : freeq'[i] = freeq'[j] => i = j
        /\ \A s : (\E i \in DOMAIN freeq' : freeq'[i] = s)
                    <=> (\E i \in DOMAIN freeq : freeq[i] = s) /\ s # active'
    BY <2>1, <2>2, TailElements
  <2>4. BMTypeOK'
    BY <1>1, <2>2, <2>3 DEF IInv, TypeOK, BMTypeOK, cursorVars, bitVars, countVars
  <2>5. FTLTypeOK'
    BY <1>1, <1>2, <2>3 DEF IInv, TypeOK, FTLTypeOK
  <2>6. SegmentsPartition'
    <3>1. heap' = heap \cup {active'} /\ reserve' = reserve /\ victim' = None
      BY <1>1, <1>2, <2>2
    <3>2. \A i \in DOMAIN freeq' : freeq'[i] \notin heap' \cup {reserve'}
      BY <2>3, <3>1 DEF IInv, SegmentsPartition
    <3>3. reserve' \notin heap' \cup {victim'} /\ victim' \notin heap'
      BY <1>2, <2>3, <3>1 DEF IInv, SegmentsPartition
    <3>4. \A s \in Seg \ (heap' \cup {reserve'}) :
             \E i \in DOMAIN freeq' : freeq'[i] = s
      BY <1>2, <2>3, <3>1 DEF IInv, SegmentsPartition
    <3> QED  BY <2>3, <3>1, <3>2, <3>3, <3>4 DEF SegmentsPartition
  <2> QED  BY <1>3, <1>4, <1>5, <2>4, <2>5, <2>6 DEF IInv, TypeOK
<1> QED  BY <1>6, <1>7 DEF AllocSegment

(* get_ppa hands out a page and names its pieces.                           *)
LEMMA AllocPageStep ==
    ASSUME IInv, AllocPage
    PROVE  IInv'
<1> DEFINE ppa == NextPpa(active)
           keys == [i \in DOMAIN abuf |-> abuf[i].key]
<1>1. /\ UNCHANGED <<listVars, ftlVars, gcVars, devVars, readVars, latest, loads>>
      /\ pc = "alloc" /\ pc' = "map" /\ newppa' = ppa /\ mapi' = 0
  BY DEF AllocPage, Silent
<1>2. victim = None /\ Len(abuf) = L2PGAP
  BY <1>1 DEF IInv, GcIdle, BufferInv
<1>3. /\ keys \in Seq(Key) /\ Len(keys) = L2PGAP
      /\ \A i \in 1 .. L2PGAP : keys[i] = abuf[i].key
  BY <1>2, BufferKeys DEF IInv, TypeOK, FTLTypeOK
<1>4. /\ BMTypeOK' /\ CursorInv' /\ ppa \in Ppa
      /\ bits' = bits \cup PiecesOf(ppa, L2PGAP)
      /\ \A p \in Ppa, i \in Off :
            oob'[p][i] = IF p = ppa /\ i < Len(keys) THEN keys[i + 1] ELSE oob[p][i]
  <2>1. GetPageAddr(active) /\ BitSetPage(ppa, L2PGAP) /\ SetOob(ppa, keys)
    BY DEF AllocPage
  <2>2. heap' \subseteq Seg /\ freeq' \in Seq(Seg) /\ active \in Seg
    BY <1>1 DEF IInv, TypeOK, BMTypeOK, FTLTypeOK, listVars
  <2>3. L2PGAP \in 0 .. L2PGAP /\ BMTypeOK /\ CursorInv
    BY DEF IInv, TypeOK
  <2> HIDE DEF keys
  <2> QED  BY <1>3, <2>1, <2>2, <2>3, PageHandedOut
<1>5. \A p \in bits : p[1] # ppa
  BY NextPpaFresh DEF AllocPage, GetPageAddr, IInv, TypeOK, FTLTypeOK
<1> HIDE DEF ppa, keys
<1> USE DEF ftlVars, gcVars, copyVars
<1>6. FTLTypeOK'
  BY <1>1, <1>4 DEF IInv, TypeOK, FTLTypeOK
<1>7. DevTypeOK'
  BY <1>1 DEF IInv, TypeOK, DevTypeOK, devVars, readVars
<1>8. MappingSound'
  <2> SUFFICES ASSUME NEW k \in Key, mapping[k] # None
               PROVE  mapping[k] \in bits' /\ oob'[mapping[k][1]][mapping[k][2]] = k
    BY <1>1 DEF MappingSound
  <2>1. mapping[k] \in bits /\ oob[mapping[k][1]][mapping[k][2]] = k
    BY DEF IInv, MappingSound
  <2>2. mapping[k][1] \in Ppa /\ mapping[k][2] \in Off
    BY <2>1, PieceParts DEF IInv, TypeOK, BMTypeOK
  <2> QED  BY <1>4, <1>5, <2>1, <2>2
<1>9. SegmentsPartition' /\ BufferInv' /\ GcIdle' /\ GcCover'
  BY <1>1, <1>2 DEF IInv, SegmentsPartition, BufferInv, GcIdle, GcCover, listVars
<1>10. AssignInv'
  <2>1. mapi' \in Off
    BY <1>1 DEF Off
  <2>2. \A i \in Off : <<ppa, i>> \in bits' /\ oob'[ppa][i] = abuf[i + 1].key
    BY <1>3, <1>4 DEF PiecesOf, Off
  <2>3. \A k \in Key : mapping[k] # None => mapping[k][1] # ppa
    BY <1>5 DEF IInv, MappingSound
  <2> QED  BY <1>1, <1>4, <2>1, <2>2, <2>3 DEF AssignInv
<1> QED  BY <1>4, <1>6, <1>7, <1>8, <1>9, <1>10 DEF IInv, TypeOK

(* Invalidating a piece clears its bit and keeps types and cursors.        *)
LEMMA PieceInvalidated ==
    ASSUME BMTypeOK, CursorInv, NEW piece \in Piece, BitUnset(piece),
           UNCHANGED <<cursorVars, oob, listVars>>
    PROVE  BMTypeOK' /\ CursorInv' /\ bits' = bits \ {piece}
<1> DEFINE b == PieceBlock(piece)
           s == PieceSeg(piece)
<1>1. b \in Seg \X Block /\ s \in Seg
  BY PieceParts DEF PieceSeg, SegOf
<1>2. PICK died \in BOOLEAN :
        /\ bits' = bits \ {piece}
        /\ binv' = [binv EXCEPT ![b] = binv[b] + 1]
        /\ sinv' = [sinv EXCEPT ![s] = sinv[s] + 1]
        /\ bfull' = [bfull EXCEPT ![b] = bfull[b] \/ died]
        /\ sfull' = [sfull EXCEPT ![s] = IF died THEN sfull[s] + 1 ELSE sfull[s]]
        /\ UNCHANGED <<bval, sval>>
  BY Zenon DEF BitUnset
<1> HIDE DEF b, s
<1>3. binv' \in [Seg \X Block -> Nat]
  <2>1. binv \in [Seg \X Block -> Nat]
    BY DEF BMTypeOK
  <2>2. binv[b] + 1 \in Nat
    BY <1>1, <2>1
  <2> QED  BY <1>1, <1>2, <2>1, <2>2, ExceptType, Zenon
<1>4. bfull' \in [Seg \X Block -> BOOLEAN]
  BY <1>1, <1>2 DEF BMTypeOK
<1>5. sinv' \in [Seg -> Nat] /\ sfull' \in [Seg -> Int]
  <2>1. sinv \in [Seg -> Nat] /\ sfull \in [Seg -> Int]
    BY DEF BMTypeOK
  <2>2. sinv[s] + 1 \in Nat /\ (IF died THEN sfull[s] + 1 ELSE sfull[s]) \in Int
    BY <1>1, <2>1
  <2> QED  BY <1>1, <1>2, <2>1, <2>2, ExceptType, Zenon
<1>6. BMTypeOK'
  BY <1>2, <1>3, <1>4, <1>5 DEF BMTypeOK, cursorVars, listVars
<1>7. CursorInv'
  BY <1>2 DEF CursorInv, cursorVars
<1> QED  BY <1>2, <1>6, <1>7

(* One iteration of page_map_assign.                                        *)
LEMMA MapKeyStep ==
    ASSUME IInv, MapKey
    PROVE  IInv'
<1> DEFINE k == abuf[mapi + 1].key
           new == <<newppa, mapi>>
<1>1. /\ UNCHANGED <<cursorVars, oob, listVars, active, reserve, abuf, newppa,
                     gcVars, devVars, readVars, latest, loads>>
      /\ pc = "map" /\ mapi' = mapi + 1
      /\ pc' = IF mapi + 1 = L2PGAP THEN "submit" ELSE "map"
      /\ mapping' = [mapping EXCEPT ![k] = new]
      /\ InvalidateOld(k)
  BY DEF MapKey, Silent
<1>2. /\ mapi \in Off /\ newppa \in Ppa /\ new \in Piece
      /\ \A i \in Off : i >= mapi =>
            <<newppa, i>> \in bits /\ oob[newppa][i] = abuf[i + 1].key
      /\ \A c \in Key : mapping[c] # None /\ mapping[c][1] = newppa =>
            mapping[c][2] < mapi
      /\ victim = None
  BY <1>1 DEF IInv, AssignInv, GcIdle, Piece
<1>3. k \in Key
  <2>1. abuf \in Seq([key : Key, val : Val]) /\ Len(abuf) = L2PGAP
    BY <1>1 DEF IInv, TypeOK, FTLTypeOK, BufferInv
  <2>2. mapi + 1 \in 1 .. Len(abuf)
    BY <1>2, <2>1 DEF Off
  <2>3. abuf[mapi + 1] \in [key : Key, val : Val]
    BY <2>1, <2>2, ElementOfSeq
  <2> QED  BY <2>3
<1>4. new \in bits /\ oob[newppa][mapi] = k
  BY <1>2 DEF Off
<1> HIDE DEF k
<1>5. /\ BMTypeOK' /\ CursorInv'
      /\ bits' = bits \ (IF mapping[k] = None THEN {} ELSE {mapping[k]})
  <2>1. CASE mapping[k] = None
    <3>1. UNCHANGED bmVars
      BY <1>1, <2>1 DEF InvalidateOld, bmVars
    <3> QED  BY <2>1, <3>1, BMKept DEF IInv, TypeOK, bmVars, bitVars
  <2>2. CASE mapping[k] # None
    <3>1. mapping[k] \in Piece /\ BitUnset(mapping[k])
      BY <1>1, <1>3, <2>2 DEF InvalidateOld, IInv, TypeOK, FTLTypeOK
    <3> QED  BY <1>1, <2>2, <3>1, PieceInvalidated DEF IInv, TypeOK
  <2> QED  BY <2>1, <2>2
<1>6. \A c \in Key : mapping'[c] = IF c = k THEN new ELSE mapping[c]
  BY <1>1, <1>3 DEF IInv, TypeOK, FTLTypeOK
<1>7. \A i \in Off : i >= mapi => <<newppa, i>> \in bits'
  <2> SUFFICES ASSUME NEW i \in Off, i >= mapi, mapping[k] # None
               PROVE  <<newppa, i>> # mapping[k]
    BY <1>2, <1>5
  <2>1. mapping[k][1] = newppa => mapping[k][2] < mapi
    BY <1>2, <1>3
  <2> QED  BY <1>2, <2>1 DEF Off
<1> USE DEF gcVars, copyVars
<1>8. FTLTypeOK'
  <2>1. mapping' \in [Key -> Piece \cup {None}]
    BY <1>1, <1>2, <1>3 DEF IInv, TypeOK, FTLTypeOK
  <2>2. mapi' \in 0 .. L2PGAP /\ pc' \in {"map", "submit"}
    BY <1>1, <1>2 DEF Off
  <2> QED  BY <1>1, <2>1, <2>2 DEF IInv, TypeOK, FTLTypeOK
<1>9. DevTypeOK'
  BY <1>1 DEF IInv, TypeOK, DevTypeOK, devVars, readVars
<1>10. MappingSound'
  <2> SUFFICES ASSUME NEW c \in Key, mapping'[c] # None
               PROVE  /\ mapping'[c] \in bits'
                      /\ oob[mapping'[c][1]][mapping'[c][2]] = c
    BY <1>1 DEF MappingSound
  <2>1. CASE c = k
    <3>1. new \in bits'
      BY <1>2, <1>7 DEF Off
    <3> QED  BY <1>4, <1>6, <2>1, <3>1
  <2>2. CASE c # k
    <3>1. mapping[c] \in bits /\ oob[mapping[c][1]][mapping[c][2]] = c
      BY <1>6, <2>2 DEF IInv, MappingSound
    <3>2. mapping[k] # None => oob[mapping[k][1]][mapping[k][2]] = k
      BY <1>3 DEF IInv, MappingSound
    <3> QED  BY <1>5, <1>6, <2>2, <3>1, <3>2
  <2> QED  BY <2>1, <2>2
<1>11. SegmentsPartition' /\ BufferInv' /\ GcIdle' /\ GcCover'
  BY <1>1, <1>2 DEF IInv, SegmentsPartition, BufferInv, GcIdle, GcCover, listVars
<1>12. AssignInv'
  <2>1. mapi + 1 # L2PGAP => mapi' \in Off
    BY <1>1, <1>2 DEF Off
  <2>2. \A i \in Off : i >= mapi' =>
           <<newppa, i>> \in bits' /\ oob[newppa][i] = abuf[i + 1].key
    BY <1>1, <1>2, <1>7 DEF Off
  <2>3. \A c \in Key : mapping'[c] # None /\ mapping'[c][1] = newppa =>
           mapping'[c][2] < mapi'
    <3> TAKE c \in Key
    <3>1. CASE c = k
      BY <1>1, <1>2, <1>6, <3>1 DEF Off
    <3>2. CASE c # k
      <4>1. mapping[c] # None => mapping[c][2] \in Off
        BY PieceParts DEF IInv, TypeOK, FTLTypeOK
      <4> QED  BY <1>1, <1>2, <1>6, <3>2, <4>1 DEF Off
    <3> QED  BY <3>1, <3>2
  <2> QED  BY <1>1, <1>2, <2>1, <2>2, <2>3 DEF AssignInv
<1> QED  BY <1>5, <1>8, <1>9, <1>10, <1>11, <1>12 DEF IInv, TypeOK

(* The page write is sent and the buffer emptied.                           *)
LEMMA SubmitPageStep ==
    ASSUME IInv, SubmitPage
    PROVE  IInv'
<1> DEFINE data == [i \in Off |-> abuf[i + 1].val]
<1>1. /\ UNCHANGED <<bmVars, mapping, active, reserve, gcVars, devcb, flash,
                     readVars, latest, loads>>
      /\ pc = "submit" /\ pc' = "idle" /\ abuf' = <<>> /\ newppa' = None /\ mapi' = 0
      /\ Send(Write(newppa, data))
  BY DEF SubmitPage, Silent
<1>2. newppa \in Ppa /\ victim = None
  BY <1>1 DEF IInv, AssignInv, GcIdle
<1>3. data \in PageData
  <2>1. abuf \in Seq([key : Key, val : Val]) /\ Len(abuf) = L2PGAP
    BY <1>1 DEF IInv, TypeOK, FTLTypeOK, BufferInv
  <2>2. \A i \in Off : i + 1 \in 1 .. Len(abuf)
    BY <2>1 DEF Off
  <2>3. \A i \in Off : abuf[i + 1] \in [key : Key, val : Val]
    BY <2>1, <2>2, ElementOfSeq
  <2> QED  BY <2>3 DEF PageData
<1>4. DevTypeOK'
  <2>1. devq' \in Seq(DevRequest)
    <3> HIDE DEF data
    <3> QED  BY <1>1, <1>2, <1>3, Sent, RequestTypes DEF IInv, TypeOK
  <2> QED  BY <1>1, <2>1 DEF IInv, TypeOK, DevTypeOK, readVars
<1> USE DEF gcVars, copyVars
<1>5. BMTypeOK' /\ CursorInv'
  BY <1>1, BMKept DEF IInv, TypeOK
<1>6. FTLTypeOK'
  BY <1>1 DEF IInv, TypeOK, FTLTypeOK
<1>7. MappingSound' /\ SegmentsPartition'
  BY <1>1, <1>2 DEF IInv, MappingSound, SegmentsPartition, bmVars, bitVars, listVars
<1>8. BufferInv' /\ AssignInv' /\ GcIdle' /\ GcCover'
  BY <1>1, <1>2 DEF IInv, BufferInv, AssignInv, GcIdle, GcCover
<1> QED  BY <1>4, <1>5, <1>6, <1>7, <1>8 DEF IInv, TypeOK
-----------------------------------------------------------------------------
(* The main thread: garbage collection.                                    *)

(* do_gc picks a victim; its valid pages cover the keys in it.              *)
LEMMA StartGcStep ==
    ASSUME IInv, StartGc
    PROVE  IInv'
<1>1. PICK s \in heap :
        /\ GetGcTarget(s) /\ victim' = s
        /\ gcread' = {p \in SegPages(s) : HasValidPiece(p)}
  BY DEF StartGc
<1>2. /\ UNCHANGED <<cursorVars, oob, ftlVars, asgVars, gclist, copyVars, gbuf,
                     devVars, readVars, latest, loads>>
      /\ UNCHANGED <<freeq, bits, bval, binv, sval, sinv, sfull>>
      /\ heap' = heap \ {s} /\ pc = "get_ppa" /\ pc' = "gc_read"
  BY <1>1 DEF StartGc, Silent, GetGcTarget
<1>3. s \in Seg /\ s # None /\ victim = None
  BY <1>2 DEF IInv, TypeOK, BMTypeOK, GcIdle
<1> USE DEF ftlVars, asgVars, copyVars
<1>4. BMTypeOK'
  <2>1. bfull' \in [Seg \X Block -> BOOLEAN]
    BY <1>1 DEF GetGcTarget, IInv, TypeOK, BMTypeOK
  <2> QED  BY <1>2, <2>1 DEF IInv, TypeOK, BMTypeOK, cursorVars
<1>5. FTLTypeOK'
  <2>1. gcread' \subseteq Ppa
    BY <1>1 DEF SegPages
  <2> QED  BY <1>1, <1>2, <1>3, <2>1 DEF IInv, TypeOK, FTLTypeOK
<1>6. DevTypeOK'
  BY <1>2 DEF IInv, TypeOK, DevTypeOK, devVars, readVars
<1>7. CursorInv' /\ MappingSound' /\ BufferInv' /\ AssignInv'
  BY <1>2 DEF IInv, CursorInv, MappingSound, BufferInv, AssignInv, cursorVars
<1>8. SegmentsPartition'
  <2>1. active' \in heap' \cup {victim'}
    <3>1. active # None /\ active' = active
      BY <1>2 DEF IInv, TypeOK, FTLTypeOK
    <3> QED  BY <1>1, <1>2, <1>3, <3>1 DEF IInv, SegmentsPartition
  <2>2. /\ \A i, j \in DOMAIN freeq' : freeq'[i] = freeq'[j] => i = j
        /\ \A i \in DOMAIN freeq' : freeq'[i] \notin heap' \cup {reserve'}
        /\ reserve' \notin heap' \cup {victim'} /\ victim' \notin heap'
    BY <1>1, <1>2 DEF IInv, SegmentsPartition
  <2>3. \A t \in Seg \ (heap' \cup {reserve'}) :
           (\E i \in DOMAIN freeq' : freeq'[i] = t) <=> t # s
    BY <1>2, <1>3 DEF IInv, SegmentsPartition
  <2> QED  BY <1>1, <1>2, <2>1, <2>2, <2>3 DEF SegmentsPartition
<1>9. GcIdle'
  BY <1>1, <1>2, <1>3 DEF IInv, GcIdle
<1>10. GcCover'
  <2> SUFFICES ASSUME NEW k \in Key, mapping[k] # None, PieceSeg(mapping[k]) = s
               PROVE  mapping[k][1] \in gcread'
    BY <1>1, <1>2 DEF GcCover
  <2>1. mapping[k] \in bits /\ mapping[k] \in Piece
    BY DEF IInv, MappingSound, TypeOK, FTLTypeOK
  <2>2. /\ mapping[k] = <<mapping[k][1], mapping[k][2]>>
        /\ mapping[k][1] \in Ppa /\ mapping[k][2] \in Off
    BY <2>1, PieceParts
  <2>3. mapping[k][1] \in SegPages(s)
    BY <2>2 DEF SegPages, PieceSeg
  <2>4. HasValidPiece(mapping[k][1])
    BY <2>1, <2>2 DEF HasValidPiece, IsInvalidPiece
  <2> QED  BY <1>1, <2>3, <2>4
<1> QED  BY <1>4, <1>5, <1>6, <1>7, <1>8, <1>9, <1>10 DEF IInv, TypeOK

(* do_gc sends a page read.                                                 *)
LEMMA GcIssueReadStep ==
    ASSUME IInv, GcIssueRead
    PROVE  IInv'
<1>1. /\ UNCHANGED <<bmVars, ftlVars, asgVars, victim, copyVars, gbuf, devcb, flash,
                     readVars, latest, loads>>
      /\ pc = "gc_read" /\ pc' \in {"gc_read", "gc_copy"}
  BY DEF GcIssueRead, Silent
<1>2. gcur = None
  BY <1>1 DEF IInv, GcIdle
<1> USE DEF ftlVars, asgVars, copyVars
<1>3. BMTypeOK' /\ CursorInv'
  BY <1>1, BMKept DEF IInv, TypeOK
<1>4. MappingSound' /\ SegmentsPartition' /\ BufferInv' /\ AssignInv'
  BY <1>1 DEF IInv, MappingSound, SegmentsPartition, BufferInv, AssignInv, bmVars,
              bitVars, listVars
<1>5. CASE gcread = {} /\ pc' = "gc_copy" /\ UNCHANGED <<gcread, gclist, devq>>
  <2>1. FTLTypeOK' /\ DevTypeOK'
    BY <1>1, <1>5 DEF IInv, TypeOK, FTLTypeOK, DevTypeOK, readVars
  <2>2. GcIdle' /\ GcCover'
    BY <1>1, <1>5 DEF IInv, GcIdle, GcCover
  <2> QED  BY <1>3, <1>4, <2>1, <2>2 DEF IInv, TypeOK
<1>6. ASSUME NEW p \in gcread,
             gcread' = gcread \ {p},
             gclist' = gclist \cup {[ppa |-> p, data |-> None]},
             Send(GcRead(p)), pc' = pc
      PROVE  IInv'
  <2>1. p \in Ppa
    BY DEF IInv, TypeOK, FTLTypeOK
  <2>2. FTLTypeOK'
    BY <1>1, <1>6, <2>1 DEF IInv, TypeOK, FTLTypeOK
  <2>3. DevTypeOK'
    <3>1. devq' \in Seq(DevRequest)
      BY <1>6, <2>1, Sent, RequestTypes DEF IInv, TypeOK
    <3> QED  BY <1>1, <3>1 DEF IInv, TypeOK, DevTypeOK, readVars
  <2>4. GcIdle'
    BY <1>1, <1>6 DEF IInv, GcIdle
  <2>5. GcCover'
    <3> DEFINE g == [ppa |-> p, data |-> None]
    <3>1. g \in gclist' /\ g.ppa = p
      BY <1>6
    <3>2. gcread \subseteq gcread' \cup {p} /\ gclist \subseteq gclist'
      BY <1>6
    <3>3. gcur # p
      BY <1>2, <2>1
    <3> HIDE DEF g
    <3> QED  BY <1>1, <3>1, <3>2, <3>3 DEF IInv, GcCover
  <2> QED  BY <1>3, <1>4, <2>2, <2>3, <2>4, <2>5 DEF IInv, TypeOK
<1> QED  BY <1>5, <1>6 DEF GcIssueRead

(* The spare area and the bits of a page written by a collection name its   *)
(* pieces, so the moved keys stay soundly mapped, to the reserve segment.   *)
LEMMA GcFlushed ==
    ASSUME IInv, NEW page \in Seq([key : Key, val : Val \cup {Junk}]),
           Len(page) <= L2PGAP, GcFlush(page), UNCHANGED listVars
    PROVE  /\ BMTypeOK' /\ CursorInv' /\ MappingSound'
           /\ devq' \in Seq(DevRequest)
           /\ mapping' \in [Key -> Piece \cup {None}]
           /\ \A k \in Key :
                 IF \E i \in DOMAIN page : page[i].key = k
                 THEN mapping'[k] # None /\ PieceSeg(mapping'[k]) = reserve
                 ELSE mapping'[k] = mapping[k]
<1> DEFINE ppa == NextPpa(reserve)
           keys == [i \in DOMAIN page |-> page[i].key]
           n == Len(page)
           moved(k) == \E i \in DOMAIN page : page[i].key = k
           at(k) == CHOOSE i \in DOMAIN page : page[i].key = k
           data == [i \in Off |-> IF i < n THEN page[i + 1].val ELSE Junk]
<1>1. /\ DOMAIN page = 1 .. n /\ n \in 0 .. L2PGAP
      /\ \A i \in 1 .. n : page[i] \in [key : Key, val : Val \cup {Junk}]
  <2>1. DOMAIN page = 1 .. n /\ n \in Nat
    BY LenProperties
  <2>2. \A i \in 1 .. n : page[i] \in [key : Key, val : Val \cup {Junk}]
    BY ElementOfSeq
  <2> QED  BY <2>1, <2>2
<1>2. /\ keys \in Seq(Key) /\ Len(keys) = n
      /\ \A i \in 1 .. n : keys[i] = page[i].key
  BY BufferKeys
<1>3. /\ BMTypeOK' /\ CursorInv' /\ ppa \in Ppa
      /\ bits' = bits \cup PiecesOf(ppa, n)
      /\ \A p \in Ppa, i \in Off :
            oob'[p][i] = IF p = ppa /\ i < Len(keys) THEN keys[i + 1] ELSE oob[p][i]
  <2>1. GetPageAddr(reserve) /\ BitSetPage(ppa, n) /\ SetOob(ppa, keys)
    BY DEF GcFlush
  <2>2. heap' \subseteq Seg /\ freeq' \in Seq(Seg) /\ reserve \in Seg
        /\ BMTypeOK /\ CursorInv
    BY DEF IInv, TypeOK, BMTypeOK, FTLTypeOK, listVars
  <2> HIDE DEF keys, n
  <2> QED  BY <1>1, <1>2, <2>1, <2>2, PageHandedOut
<1>4. \A p \in bits : p[1] # ppa
  BY NextPpaFresh DEF GcFlush, GetPageAddr, IInv, TypeOK, FTLTypeOK
<1>5. devq' \in Seq(DevRequest)
  <2>1. \A i \in Off : i < n => i + 1 \in 1 .. n
    BY <1>1 DEF Off
  <2>2. data \in PageData
    BY <1>1, <2>1 DEF PageData
  <2>3. Send(Write(ppa, data))
    BY DEF GcFlush
  <2> HIDE DEF ppa, data
  <2> QED  BY <1>3, <2>2, <2>3, Sent, RequestTypes DEF IInv, TypeOK
<1>6. mapping' = [k \in Key |-> IF moved(k) THEN <<ppa, at(k) - 1>> ELSE mapping[k]]
  BY DEF GcFlush, GcMap
<1>7. ppa[1] = reserve
  BY DEF NextPpa
<1>8. \A k \in Key : moved(k) =>
        /\ at(k) \in 1 .. n /\ page[at(k)].key = k
        /\ at(k) - 1 \in Off /\ <<ppa, at(k) - 1>> \in Piece
  <2> SUFFICES ASSUME NEW k \in Key, moved(k)
               PROVE  /\ at(k) \in 1 .. n /\ page[at(k)].key = k
                      /\ at(k) - 1 \in Off /\ <<ppa, at(k) - 1>> \in Piece
    OBVIOUS
  <2>1. at(k) \in DOMAIN page /\ page[at(k)].key = k
    OBVIOUS
  <2> HIDE DEF at
  <2>2. at(k) - 1 \in Off
    BY <1>1, <2>1 DEF Off
  <2> QED  BY <1>1, <1>3, <2>1, <2>2 DEF Piece
<1> HIDE DEF ppa, keys, n, moved, at
<1>9. mapping' \in [Key -> Piece \cup {None}]
  BY <1>6, <1>8 DEF IInv, TypeOK, FTLTypeOK
<1>10. \A k \in Key :
          mapping'[k] = IF moved(k) THEN <<ppa, at(k) - 1>> ELSE mapping[k]
  BY <1>6
<1>11. MappingSound'
  <2> SUFFICES ASSUME NEW k \in Key, mapping'[k] # None
               PROVE  /\ mapping'[k] \in bits'
                      /\ oob'[mapping'[k][1]][mapping'[k][2]] = k
    BY DEF MappingSound
  <2>1. CASE moved(k)
    <3>1. /\ at(k) - 1 \in Off /\ at(k) - 1 < n /\ at(k) \in 1 .. n
          /\ page[at(k)].key = k
      <4>1. at(k) \in 1 .. n /\ at(k) - 1 \in Off /\ page[at(k)].key = k
        BY <1>8, <2>1
      <4> QED  BY <1>1, <4>1
    <3>2. <<ppa, at(k) - 1>> \in bits'
      BY <1>1, <1>3, <3>1 DEF PiecesOf
    <3>3. oob'[ppa][at(k) - 1] = keys[(at(k) - 1) + 1]
      BY <1>2, <1>3, <3>1
    <3>4. keys[(at(k) - 1) + 1] = k
      BY <1>2, <3>1
    <3> QED  BY <1>10, <2>1, <3>2, <3>3, <3>4
  <2>2. CASE ~moved(k)
    <3>1. /\ mapping'[k] = mapping[k] /\ mapping[k] \in bits
          /\ oob[mapping[k][1]][mapping[k][2]] = k
      BY <1>10, <2>2 DEF IInv, MappingSound
    <3>2. mapping[k][1] \in Ppa /\ mapping[k][2] \in Off
      BY <3>1, PieceParts DEF IInv, TypeOK, BMTypeOK
    <3> QED  BY <1>3, <1>4, <3>1, <3>2
  <2> QED  BY <2>1, <2>2
<1>12. \A k \in Key :
          IF moved(k) THEN mapping'[k] # None /\ PieceSeg(mapping'[k]) = reserve
          ELSE mapping'[k] = mapping[k]
  <2> TAKE k \in Key
  <2>1. CASE moved(k)
    <3>1. mapping'[k] = <<ppa, at(k) - 1>> /\ <<ppa, at(k) - 1>> \in Piece
      BY <1>8, <1>10, <2>1
    <3>2. mapping'[k] # None /\ mapping'[k][1] = ppa
      BY <3>1
    <3> QED  BY <1>7, <2>1, <3>2 DEF PieceSeg, SegOf
  <2> QED  BY <1>10, <2>1
<1> QED  BY <1>3, <1>5, <1>9, <1>11, <1>12 DEF moved

(* What an iteration of the copy loop does with one piece.                 *)
LEMMA PieceCopied ==
    ASSUME IInv, NEW gv \in gclist, gv.data # None, GcPiece(gv),
           UNCHANGED reserve
    PROVE  /\ BMTypeOK' /\ CursorInv' /\ MappingSound' /\ UNCHANGED listVars
           /\ devq' \in Seq(DevRequest)
           /\ mapping' \in [Key -> Piece \cup {None}]
           /\ gbuf' \in Seq([key : Key, val : Val \cup {Junk}])
           /\ Len(gbuf') < L2PGAP
           /\ \A k \in Key : mapping'[k] # None /\ PieceSeg(mapping'[k]) # reserve =>
                 /\ mapping'[k] = mapping[k]
                 /\ \/ \E i \in DOMAIN gbuf : gbuf[i].key = k
                    \/ mapping[k] = <<gv.ppa, gci>>
                    => \E i \in DOMAIN gbuf' : gbuf'[i].key = k
<1> DEFINE R == [key : Key, val : Val \cup {Junk}]
           e == [key |-> oob[gv.ppa][gci], val |-> gv.data[gci]]
           next == Append(gbuf, e)
<1>1. gv.ppa \in Ppa /\ gv.data \in PageData /\ gci \in Off
  BY DEF IInv, TypeOK, FTLTypeOK
<1>2. e \in R /\ e.key = oob[gv.ppa][gci]
  BY <1>1 DEF IInv, TypeOK, BMTypeOK, PageData
<1>3. gbuf \in Seq(R) /\ Len(gbuf) < L2PGAP /\ Len(gbuf) \in Nat
      /\ DOMAIN gbuf = 1 .. Len(gbuf)
  BY LenProperties DEF IInv, TypeOK, FTLTypeOK, GcIdle
<1>4. \A k \in Key : mapping[k] # None /\ mapping[k] = <<gv.ppa, gci>> =>
        ~IsInvalidPiece(<<gv.ppa, gci>>) /\ e.key = k
  BY <1>2 DEF IInv, MappingSound, IsInvalidPiece
<1>5. devq \in Seq(DevRequest) /\ mapping \in [Key -> Piece \cup {None}]
  BY DEF IInv, TypeOK, FTLTypeOK, DevTypeOK
<1> HIDE DEF e, R
<1>6. /\ next \in Seq(R) /\ Len(next) = Len(gbuf) + 1
      /\ \A i \in 1 .. Len(gbuf) : next[i] = gbuf[i]
      /\ next[Len(gbuf) + 1] = e
      /\ DOMAIN next = 1 .. Len(gbuf) + 1
  <2>1. /\ next \in Seq(R) /\ Len(next) = Len(gbuf) + 1
        /\ \A i \in 1 .. Len(gbuf) : next[i] = gbuf[i]
        /\ next[Len(gbuf) + 1] = e
    BY <1>2, <1>3, AppendProperties
  <2> QED  BY <2>1, LenProperties
<1>7. \A k : \/ \E i \in DOMAIN gbuf : gbuf[i].key = k
             \/ e.key = k
             => \E i \in DOMAIN next : next[i].key = k
  BY <1>3, <1>6
<1>8. CASE /\ IsInvalidPiece(<<gv.ppa, gci>>)
           /\ UNCHANGED <<bmVars, mapping, gbuf, devq>>
  <2>1. BMTypeOK' /\ CursorInv'
    BY <1>8, BMKept DEF IInv, TypeOK
  <2>2. MappingSound' /\ UNCHANGED listVars
    BY <1>8 DEF IInv, MappingSound, bmVars, bitVars
  <2> QED  BY <1>3, <1>4, <1>5, <1>8, <2>1, <2>2 DEF R
<1>9. CASE /\ Len(next) < L2PGAP /\ gbuf' = next
           /\ UNCHANGED <<bmVars, mapping, devq>>
  <2>1. BMTypeOK' /\ CursorInv'
    BY <1>9, BMKept DEF IInv, TypeOK
  <2>2. MappingSound' /\ UNCHANGED listVars
    BY <1>9 DEF IInv, MappingSound, bmVars, bitVars
  <2>3. gbuf' \in Seq(R) /\ Len(gbuf') < L2PGAP
    BY <1>6, <1>9
  <2>4. \A k \in Key :
          ( /\ mapping[k] # None
            /\ \/ \E i \in DOMAIN gbuf : gbuf[i].key = k
               \/ mapping[k] = <<gv.ppa, gci>> )
          => \E i \in DOMAIN gbuf' : gbuf'[i].key = k
    BY <1>4, <1>7, <1>9
  <2> HIDE DEF next
  <2> QED  BY <1>5, <1>9, <2>1, <2>2, <2>3, <2>4 DEF R
<1>10. CASE /\ Len(next) = L2PGAP /\ GcFlush(next) /\ gbuf' = <<>>
            /\ UNCHANGED listVars
  <2> HIDE DEF next
  <2>0. next \in Seq([key : Key, val : Val \cup {Junk}]) /\ Len(next) <= L2PGAP
    BY <1>6, <1>10 DEF R
  <2>1. /\ BMTypeOK' /\ CursorInv' /\ MappingSound'
        /\ devq' \in Seq(DevRequest)
        /\ mapping' \in [Key -> Piece \cup {None}]
        /\ \A k \in Key :
              IF \E i \in DOMAIN next : next[i].key = k
              THEN mapping'[k] # None /\ PieceSeg(mapping'[k]) = reserve
              ELSE mapping'[k] = mapping[k]
    BY <1>10, <2>0, GcFlushed
  <2>2. gbuf' \in Seq(R) /\ Len(gbuf') < L2PGAP
    BY <1>10, EmptySeq
  <2>3. ASSUME NEW k \in Key, mapping'[k] # None, PieceSeg(mapping'[k]) # reserve
        PROVE  /\ mapping'[k] = mapping[k]
               /\ ~(\E i \in DOMAIN gbuf : gbuf[i].key = k)
               /\ mapping[k] # <<gv.ppa, gci>>
    BY <1>4, <1>7, <2>1, <2>3
  <2> QED  BY <1>10, <2>1, <2>2, <2>3 DEF R
<1> QED  BY <1>8, <1>9, <1>10 DEF GcPiece, e

(* One iteration of the copy loop of do_gc.                                 *)
LEMMA GcCopyStep ==
    ASSUME IInv, NEW gv \in gclist, GcCopy(gv)
    PROVE  IInv'
<1>1. /\ UNCHANGED <<active, reserve, abuf, pc, asgVars, victim, gcread, devcb, flash,
                     readVars, latest, loads>>
      /\ pc = "gc_copy" /\ gv.data # None /\ gcur \in {None, gv.ppa} /\ GcPiece(gv)
  BY DEF GcCopy, Silent
<1>2. /\ BMTypeOK' /\ CursorInv' /\ MappingSound' /\ UNCHANGED listVars
      /\ devq' \in Seq(DevRequest)
      /\ mapping' \in [Key -> Piece \cup {None}]
      /\ gbuf' \in Seq([key : Key, val : Val \cup {Junk}])
      /\ Len(gbuf') < L2PGAP
      /\ \A k \in Key : mapping'[k] # None /\ PieceSeg(mapping'[k]) # reserve =>
            /\ mapping'[k] = mapping[k]
            /\ \/ \E i \in DOMAIN gbuf : gbuf[i].key = k
               \/ mapping[k] = <<gv.ppa, gci>>
               => \E i \in DOMAIN gbuf' : gbuf'[i].key = k
  BY <1>1, PieceCopied
<1>3. /\ victim # None /\ gcread = {} /\ victim # reserve
      /\ gcur = None => gci = 0
      /\ gv.ppa \in Ppa /\ gci \in Off
      /\ gclist \subseteq [ppa : Ppa, data : PageData \cup {None}]
  BY <1>1 DEF IInv, GcIdle, SegmentsPartition, TypeOK, FTLTypeOK
<1>4. \/ /\ gci + 1 < L2PGAP /\ gcur' = gv.ppa /\ gci' = gci + 1 /\ gclist' = gclist
      \/ /\ gci + 1 = L2PGAP /\ gcur' = None /\ gci' = 0 /\ gclist' = gclist \ {gv}
  BY DEF GcCopy
<1>5. gci' \in Off /\ gclist' \subseteq gclist /\ gcur' \in Ppa \cup {None}
  BY <1>3, <1>4 DEF Off
<1> USE DEF asgVars
<1>6. FTLTypeOK'
  BY <1>1, <1>2, <1>3, <1>5 DEF IInv, TypeOK, FTLTypeOK
<1>7. DevTypeOK'
  BY <1>1, <1>2 DEF IInv, TypeOK, DevTypeOK, readVars
<1>8. SegmentsPartition' /\ BufferInv' /\ AssignInv'
  BY <1>1, <1>2 DEF IInv, SegmentsPartition, BufferInv, AssignInv, listVars
<1>9. GcIdle'
  BY <1>1, <1>2, <1>3, <1>4 DEF IInv, GcIdle
<1>10. GcCover'
  <2> SUFFICES ASSUME NEW k \in Key, mapping'[k] # None, PieceSeg(mapping'[k]) = victim
               PROVE  \/ \E g \in gclist' : /\ g.ppa = mapping'[k][1]
                                            /\ gcur' = g.ppa => mapping'[k][2] >= gci'
                      \/ \E i \in DOMAIN gbuf' : gbuf'[i].key = k
    BY <1>1 DEF GcCover
  <2>1. /\ mapping'[k] = mapping[k]
        /\ \/ \E i \in DOMAIN gbuf : gbuf[i].key = k
           \/ mapping[k] = <<gv.ppa, gci>>
           => \E i \in DOMAIN gbuf' : gbuf'[i].key = k
    BY <1>2, <1>3
  <2>2. /\ mapping[k] = <<mapping[k][1], mapping[k][2]>> /\ mapping[k][1] \in Ppa
        /\ mapping[k][2] \in Off
    BY <2>1, PieceParts DEF IInv, TypeOK, FTLTypeOK
  <2>3. CASE \E i \in DOMAIN gbuf : gbuf[i].key = k
    BY <2>1, <2>3
  <2>4. ASSUME NEW g \in gclist, g.ppa = mapping[k][1],
               gcur = g.ppa => mapping[k][2] >= gci,
               mapping[k] # <<gv.ppa, gci>>
        PROVE  /\ g \in gclist'
               /\ gcur' = g.ppa => mapping[k][2] >= gci'
    <3>1. CASE g.ppa = gv.ppa
      <4>1. mapping[k][2] >= gci /\ mapping[k][2] # gci
        BY <1>1, <1>3, <2>2, <2>4, <3>1 DEF Off
      <4>2. mapping[k][2] \in 0 .. L2PGAP - 1 /\ gci \in 0 .. L2PGAP - 1
        BY <1>3, <2>2 DEF Off
      <4> QED  BY <1>4, <4>1, <4>2
    <3>2. CASE g.ppa # gv.ppa
      <4>1. g \in gclist'
        BY <1>4, <3>2
      <4>2. gcur' # g.ppa
        BY <1>4, <2>2, <2>4, <3>2
      <4> QED  BY <4>1, <4>2
    <3> QED  BY <3>1, <3>2
  <2>5. \/ \E g \in gclist : /\ g.ppa = mapping[k][1]
                             /\ gcur = g.ppa => mapping[k][2] >= gci
        \/ \E i \in DOMAIN gbuf : gbuf[i].key = k
    BY <1>1, <1>3, <2>1 DEF IInv, GcCover
  <2> QED  BY <2>1, <2>3, <2>4, <2>5
<1> QED  BY <1>2, <1>6, <1>7, <1>8, <1>9, <1>10 DEF IInv, TypeOK

(* do_gc writes out the last, short page.                                   *)
LEMMA GcFlushRestStep ==
    ASSUME IInv, GcFlushRest
    PROVE  IInv'
<1>1. /\ UNCHANGED <<listVars, active, reserve, abuf, pc, asgVars, victim, gcread,
                     gclist, copyVars, devcb, flash, readVars, latest, loads>>
      /\ pc = "gc_copy" /\ GcFlush(gbuf) /\ gbuf' = <<>>
  BY DEF GcFlushRest, Silent
<1>2. gbuf \in Seq([key : Key, val : Val \cup {Junk}]) /\ Len(gbuf) <= L2PGAP
  <2>1. gbuf \in Seq([key : Key, val : Val \cup {Junk}]) /\ Len(gbuf) < L2PGAP
    BY DEF IInv, TypeOK, FTLTypeOK, GcIdle
  <2> QED  BY <2>1, LenProperties
<1>3. /\ BMTypeOK' /\ CursorInv' /\ MappingSound'
      /\ devq' \in Seq(DevRequest)
      /\ mapping' \in [Key -> Piece \cup {None}]
      /\ \A k \in Key :
            IF \E i \in DOMAIN gbuf : gbuf[i].key = k
            THEN mapping'[k] # None /\ PieceSeg(mapping'[k]) = reserve
            ELSE mapping'[k] = mapping[k]
  BY <1>1, <1>2, GcFlushed
<1>4. victim # reserve
  BY DEF IInv, SegmentsPartition
<1> USE DEF asgVars, copyVars
<1>5. FTLTypeOK'
  BY <1>1, <1>3 DEF IInv, TypeOK, FTLTypeOK
<1>6. DevTypeOK'
  BY <1>1, <1>3 DEF IInv, TypeOK, DevTypeOK, readVars
<1>7. SegmentsPartition' /\ BufferInv' /\ AssignInv'
  BY <1>1 DEF IInv, SegmentsPartition, BufferInv, AssignInv, listVars
<1>8. GcIdle'
  BY <1>1 DEF IInv, GcIdle
<1>9. GcCover'
  <2> SUFFICES ASSUME NEW k \in Key, mapping'[k] # None, PieceSeg(mapping'[k]) = victim
               PROVE  \/ mapping'[k][1] \in gcread
                      \/ \E g \in gclist : /\ g.ppa = mapping'[k][1]
                                           /\ gcur = g.ppa => mapping'[k][2] >= gci
    BY <1>1 DEF GcCover
  <2>1. mapping'[k] = mapping[k] /\ ~ \E i \in DOMAIN gbuf : gbuf[i].key = k
    BY <1>3, <1>4
  <2> QED  BY <1>1, <2>1 DEF IInv, GcCover
<1> QED  BY <1>3, <1>5, <1>6, <1>7, <1>8, <1>9 DEF IInv, TypeOK

(* block_reinit: erasing a segment keeps the types and cursors, and the     *)
(* bits and spare areas of the other segments.                             *)
LEMMA SegmentTrimmed ==
    ASSUME BMTypeOK, CursorInv, NEW s \in Seg, TrimSegment(s)
    PROVE  /\ BMTypeOK' /\ CursorInv'
           /\ \A p \in Piece : PieceSeg(p) # s =>
                 /\ p \in bits => p \in bits'
                 /\ oob'[p[1]] = oob[p[1]]
<1> USE DEF TrimSegment, ReinitBlocks
<1>1. /\ pptr' \in [Seg \X Block -> 0 .. PPB]
      /\ bval' \in [Seg \X Block -> Nat]
      /\ binv' \in [Seg \X Block -> Nat]
  BY DEF BMTypeOK
<1>2. bfull' \in [Seg \X Block -> BOOLEAN]
  BY DEF BMTypeOK
<1>3. bptr' \in [Seg -> Block] /\ used' \in [Seg -> Nat]
  BY DEF BMTypeOK, UsedReset, Block
<1>4. sval' \in [Seg -> Nat] /\ sinv' \in [Seg -> Nat] /\ sfull' \in [Seg -> Int]
  BY DEF BMTypeOK, InvalidReset
<1>5. bits' \subseteq Piece
  BY DEF BMTypeOK
<1>6. oob' \in [Ppa -> [Off -> Key]]
  BY DEF BMTypeOK, ErasedOob
<1>7. heap' \subseteq Seg /\ freeq' \in Seq(Seg)
  BY AppendProperties DEF BMTypeOK
<1>8. BMTypeOK'
  BY <1>1, <1>2, <1>3, <1>4, <1>5, <1>6, <1>7 DEF BMTypeOK
<1>9. CursorInv'
  <2>1. \A t \in Seg, b \in Block :
           pptr'[<<t, b>>] = IF t = s THEN 0 ELSE pptr[<<t, b>>]
    OBVIOUS
  <2>2. \A t \in Seg : t # s => bptr'[t] = bptr[t]
    BY DEF BMTypeOK
  <2>3. \A t \in Seg, b \in Block : b > bptr'[t] => pptr'[<<t, b>>] = 0
    BY <2>1, <2>2 DEF CursorInv
  <2>4. \A p \in bits' : p[1][3] < pptr'[PieceBlock(p)]
    <3> TAKE p \in bits'
    <3>1. p \in bits /\ p \in Piece /\ p[1][1] # s
      BY DEF BMTypeOK, PieceSeg, SegOf
    <3>2. p[1][1] \in Seg /\ p[1][2] \in Block
      BY <3>1, PieceParts
    <3>3. pptr'[PieceBlock(p)] = pptr[PieceBlock(p)]
      BY <2>1, <3>1, <3>2 DEF PieceBlock
    <3> QED  BY <3>1, <3>3 DEF CursorInv
  <2> QED  BY <2>3, <2>4 DEF CursorInv
<1>10. ASSUME NEW p \in Piece, PieceSeg(p) # s
       PROVE  (p \in bits => p \in bits') /\ oob'[p[1]] = oob[p[1]]
  <2>1. p[1] \in Ppa
    BY PieceParts
  <2> QED  BY <1>10, <2>1 DEF PieceSeg
<1> QED  BY <1>8, <1>9, <1>10

(* Appending a new element to a sequence without repetitions.              *)
LEMMA AppendElements ==
    ASSUME NEW S, NEW q \in Seq(S), NEW e \in S,
           \A i, j \in DOMAIN q : q[i] = q[j] => i = j,
           ~ \E i \in DOMAIN q : q[i] = e
    PROVE  LET t == Append(q, e)
           IN  /\ \A i, j \in DOMAIN t : t[i] = t[j] => i = j
               /\ \A s : (\E i \in DOMAIN t : t[i] = s)
                           <=> (\E i \in DOMAIN q : q[i] = s) \/ s = e
<1> DEFINE n == Len(q)
           t == Append(q, e)
<1>1. n \in Nat /\ DOMAIN q = 1 .. n
  BY LenProperties
<1>2. /\ t \in Seq(S) /\ Len(t) = n + 1 /\ t[n + 1] = e
      /\ \A i \in 1 .. n : t[i] = q[i]
  BY AppendProperties
<1>3. DOMAIN t = 1 .. n + 1
  BY <1>2, LenProperties
<1> HIDE DEF n, t
<1>4. \A i \in 1 .. n + 1 : i \in 1 .. n \/ i = n + 1
  BY <1>1
<1>5. n + 1 \in 1 .. n + 1 /\ 1 .. n \subseteq 1 .. n + 1
  BY <1>1
<1>6. \A i, j \in DOMAIN t : t[i] = t[j] => i = j
  BY <1>1, <1>2, <1>3, <1>4
<1>7. \A s : (\E i \in DOMAIN t : t[i] = s) <=> (\E i \in DOMAIN q : q[i] = s) \/ s = e
  BY <1>1, <1>2, <1>3, <1>4, <1>5
<1> QED  BY <1>6, <1>7 DEF t

(* do_gc erases the victim, which no key maps into any more.                *)
LEMMA GcTrimStep ==
    ASSUME IInv, GcTrim
    PROVE  IInv'
<1>1. /\ UNCHANGED <<ftlVars, asgVars, gcVars, devcb, flash, readVars, latest, loads>>
      /\ pc = "gc_copy" /\ pc' = "gc_swap" /\ gclist = {} /\ gbuf = <<>>
      /\ TrimSegment(victim) /\ Send(Trim(victim))
  BY DEF GcTrim, Silent, Erase
<1>2. /\ victim \in Seg /\ victim # None /\ gcread = {}
      /\ victim \notin heap /\ victim # reserve
  BY <1>1 DEF IInv, TypeOK, FTLTypeOK, GcIdle, SegmentsPartition
<1>3. /\ BMTypeOK' /\ CursorInv'
      /\ \A p \in Piece : PieceSeg(p) # victim =>
            /\ p \in bits => p \in bits'
            /\ oob'[p[1]] = oob[p[1]]
  BY <1>1, <1>2, SegmentTrimmed DEF IInv, TypeOK
<1> USE DEF ftlVars, asgVars, gcVars, copyVars
<1>4. FTLTypeOK'
  BY <1>1 DEF IInv, TypeOK, FTLTypeOK
<1>5. DevTypeOK'
  <2>1. devq' \in Seq(DevRequest)
    BY <1>1, <1>2, Sent, RequestTypes DEF IInv, TypeOK
  <2> QED  BY <1>1, <2>1 DEF IInv, TypeOK, DevTypeOK, readVars
<1>6. MappingSound'
  <2> SUFFICES ASSUME NEW k \in Key, mapping[k] # None
               PROVE  mapping[k] \in bits' /\ oob'[mapping[k][1]][mapping[k][2]] = k
    BY <1>1 DEF MappingSound
  <2>1. PieceSeg(mapping[k]) # victim
    BY <1>1, <1>2 DEF IInv, GcCover
  <2>2. /\ mapping[k] \in Piece /\ mapping[k] \in bits
        /\ oob[mapping[k][1]][mapping[k][2]] = k
    BY DEF IInv, TypeOK, FTLTypeOK, MappingSound
  <2> QED  BY <1>3, <2>1, <2>2
<1>7. SegmentsPartition'
  <2>1. /\ freeq \in Seq(Seg)
        /\ \A i, j \in DOMAIN freeq : freeq[i] = freeq[j] => i = j
        /\ ~ \E i \in DOMAIN freeq : freeq[i] = victim
    BY <1>1, <1>2 DEF IInv, TypeOK, BMTypeOK, SegmentsPartition
  <2>2. freeq' = Append(freeq, victim) /\ heap' = heap
    BY <1>1 DEF TrimSegment
  <2>3. /\ \A i, j \in DOMAIN freeq' : freeq'[i] = freeq'[j] => i = j
        /\ \A s : (\E i \in DOMAIN freeq' : freeq'[i] = s)
                    <=> (\E i \in DOMAIN freeq : freeq[i] = s) \/ s = victim
    BY <1>2, <2>1, <2>2, AppendElements
  <2> QED  BY <1>1, <1>2, <2>2, <2>3 DEF IInv, SegmentsPartition
<1>8. BufferInv' /\ AssignInv' /\ GcIdle' /\ GcCover'
  BY <1>1, <1>2 DEF IInv, BufferInv, AssignInv, GcIdle, GcCover
<1> QED  BY <1>3, <1>4, <1>5, <1>6, <1>7, <1>8 DEF IInv, TypeOK

(* The reserve becomes the active segment.                                  *)
LEMMA GcSwapStep ==
    ASSUME IInv, GcSwap
    PROVE  IInv'
<1>1. /\ UNCHANGED <<cursorVars, bitVars, oob, mapping, abuf, asgVars, gcread, gclist,
                     copyVars, gbuf, devVars, readVars, latest, loads>>
      /\ pc = "gc_swap" /\ pc' = "alloc" /\ victim' = None /\ active' = reserve
      /\ heap' = heap \cup {reserve} /\ freeq # <<>> /\ freeq' = Tail(freeq)
      /\ reserve' = Head(freeq)
  BY DEF GcSwap, Silent, InsertHeap, NewReserve, GetSeg, FreeSeg
<1>2. /\ freeq \in Seq(Seg) /\ reserve \in Seg /\ heap \subseteq Seg
      /\ \A i, j \in DOMAIN freeq : freeq[i] = freeq[j] => i = j
  BY DEF IInv, TypeOK, BMTypeOK, FTLTypeOK, SegmentsPartition
<1>3. /\ freeq' \in Seq(Seg) /\ reserve' \in Seg
      /\ \E i \in DOMAIN freeq : freeq[i] = reserve'
      /\ \A i, j \in DOMAIN freeq' : freeq'[i] = freeq'[j] => i = j
      /\ \A s : (\E i \in DOMAIN freeq' : freeq'[i] = s)
                  <=> (\E i \in DOMAIN freeq : freeq[i] = s) /\ s # reserve'
  BY <1>1, <1>2, TailElements
<1> USE DEF asgVars, copyVars
<1>4. BMTypeOK' /\ CursorInv'
  <2>1. heap' \subseteq Seg
    BY <1>1, <1>2
  <2>2. BMTypeOK'
    BY <1>1, <1>3, <2>1 DEF IInv, TypeOK, BMTypeOK, cursorVars, bitVars, countVars
  <2>3. CursorInv'
    BY <1>1 DEF IInv, CursorInv, cursorVars, bitVars
  <2> QED  BY <2>2, <2>3
<1>5. FTLTypeOK'
  BY <1>1, <1>2, <1>3 DEF IInv, TypeOK, FTLTypeOK
<1>6. DevTypeOK'
  BY <1>1 DEF IInv, TypeOK, DevTypeOK, devVars, readVars
<1>7. SegmentsPartition'
  <2>1. reserve' \notin heap' \cup {victim'} /\ victim' \notin heap'
    BY <1>1, <1>2, <1>3 DEF IInv, SegmentsPartition
  <2>2. \A i \in DOMAIN freeq' : freeq'[i] \notin heap' \cup {reserve'}
    BY <1>1, <1>3 DEF IInv, SegmentsPartition
  <2>3. \A s \in Seg \ (heap' \cup {reserve'}) :
           s # None /\ \E i \in DOMAIN freeq' : freeq'[i] = s
    BY <1>1, <1>3 DEF IInv, SegmentsPartition
  <2> QED  BY <1>1, <1>3, <2>1, <2>2, <2>3 DEF SegmentsPartition
<1>8. MappingSound' /\ BufferInv' /\ AssignInv' /\ GcIdle' /\ GcCover'
  BY <1>1 DEF IInv, MappingSound, BufferInv, AssignInv, GcIdle, GcCover, bitVars
<1> QED  BY <1>4, <1>5, <1>6, <1>7, <1>8 DEF IInv, TypeOK
-----------------------------------------------------------------------------
(* Dump and load, the initial state, and the theorems.                     *)

(* A dump followed by a load.                                               *)
LEMMA DumpLoadStep ==
    ASSUME IInv, DumpLoad
    PROVE  IInv'
<1> DEFINE S == Seg \ (heap \cup {reserve})
<1>1. /\ UNCHANGED <<cursorVars, bitVars, oob, ftlVars, pc, asgVars, gcVars, devq,
                     devcb, inflight, latest>>
      /\ pc = "idle" /\ loads < MaxLoads /\ loads' = loads + 1 /\ issued' = {}
      /\ pending' = {} /\ flash' = LoadedFlash /\ heap' = heap /\ QueueInIndexOrder(S)
  BY DEF DumpLoad, LoadSegments
<1>2. victim = None
  BY <1>1 DEF IInv, GcIdle
<1>3. PICK n \in 0 .. NOS : \E q \in [1 .. n -> S] :
        /\ \A i, j \in 1 .. n : i < j => q[i] < q[j]
        /\ \A s \in S : \E i \in 1 .. n : q[i] = s
        /\ freeq' = q
  BY <1>1 DEF QueueInIndexOrder
<1>4. /\ freeq' \in [1 .. n -> S] /\ n \in Nat
      /\ \A i, j \in 1 .. n : i < j => freeq'[i] < freeq'[j]
      /\ \A s \in S : \E i \in 1 .. n : freeq'[i] = s
  BY <1>3
<1>5. freeq' \in Seq(S) /\ DOMAIN freeq' = 1 .. n
  BY <1>4, FunctionSeq
<1>6. freeq' \in Seq(Seg)
  BY <1>5, SeqMonotonic
<1>7. \A i, j \in DOMAIN freeq' : freeq'[i] = freeq'[j] => i = j
  <2> SUFFICES ASSUME NEW i \in 1 .. n, NEW j \in 1 .. n, freeq'[i] = freeq'[j]
               PROVE  i = j
    BY <1>5
  <2>1. freeq'[i] \in Int /\ freeq'[j] \in Int
    BY <1>4 DEF Seg
  <2>2. ~(freeq'[i] < freeq'[j]) /\ ~(freeq'[j] < freeq'[i])
    BY <2>1
  <2>3. ~(i < j) /\ ~(j < i)
    BY <1>4, <2>2
  <2> QED  BY <1>4, <2>3
<1> USE DEF ftlVars, asgVars, gcVars, copyVars
<1>8. BMTypeOK' /\ CursorInv'
  BY <1>1, <1>6 DEF IInv, TypeOK, BMTypeOK, CursorInv, cursorVars, bitVars, countVars
<1>9. FTLTypeOK'
  BY <1>1 DEF IInv, TypeOK, FTLTypeOK
<1>10. DevTypeOK'
  <2>1. flash' \in [Ppa -> PageData \cup {None}]
    BY <1>1 DEF LoadedFlash, IInv, TypeOK, DevTypeOK
  <2>2. loads' \in 0 .. MaxLoads
    BY <1>1 DEF IInv, TypeOK, DevTypeOK
  <2> QED  BY <1>1, <2>1, <2>2 DEF IInv, TypeOK, DevTypeOK
<1>11. SegmentsPartition'
  <2>1. \A i \in DOMAIN freeq' : freeq'[i] \notin heap' \cup {reserve'}
    BY <1>1, <1>4, <1>5
  <2>2. \A s \in Seg \ (heap' \cup {reserve'}) :
           s # victim' /\ \E i \in DOMAIN freeq' : freeq'[i] = s
    BY <1>1, <1>2, <1>4, <1>5
  <2>3. /\ active' \in heap' \cup {victim'}
        /\ reserve' \notin heap' \cup {victim'} /\ victim' \notin heap'
    BY <1>1 DEF IInv, SegmentsPartition
  <2> QED  BY <1>7, <2>1, <2>2, <2>3 DEF SegmentsPartition
<1>12. MappingSound' /\ BufferInv' /\ AssignInv' /\ GcIdle' /\ GcCover'
  BY <1>1 DEF IInv, MappingSound, BufferInv, AssignInv, GcIdle, GcCover, bitVars
<1> QED  BY <1>8, <1>9, <1>10, <1>11, <1>12 DEF IInv, TypeOK

(* page_create establishes the invariant.                                   *)
LEMMA InitInv ==
    ASSUME Init
    PROVE  IInv
<1> DEFINE q == [i \in 1 .. NOS - 2 |-> i + 1]
<1>1. 0 \in Seg /\ 1 \in Seg
  BY DEF Seg
<1>2. freeq = q /\ heap = {1} /\ active = 1 /\ reserve = 0 /\ victim = None
  BY DEF Init, BMInit
<1>3. q \in [1 .. NOS - 2 -> Seg] /\ NOS - 2 \in Nat
  BY DEF Seg
<1>4. freeq \in Seq(Seg) /\ DOMAIN freeq = 1 .. NOS - 2
  BY <1>2, <1>3, FunctionSeq
<1>5. BMTypeOK
  BY <1>1, <1>2, <1>4 DEF Init, BMInit, BMTypeOK, ErasedOob, Block
<1>6. FTLTypeOK
  BY <1>1 DEF Init, FTLTypeOK, Off
<1>7. DevTypeOK
  BY DEF Init, DevTypeOK
<1>8. CursorInv /\ MappingSound
  BY DEF Init, BMInit, CursorInv, MappingSound
<1>9. SegmentsPartition
  <2>1. \A i \in 1 .. NOS - 2 : freeq[i] = i + 1
    BY <1>2
  <2>2. \A s \in Seg \ {0, 1} : s - 1 \in 1 .. NOS - 2 /\ freeq[s - 1] = s
    BY <2>1 DEF Seg
  <2>3. \A s \in Seg : s # None
    OBVIOUS
  <2>4. \A i, j \in DOMAIN freeq : freeq[i] = freeq[j] => i = j
    BY <1>4, <2>1
  <2>5. \A i \in DOMAIN freeq : freeq[i] \notin {0, 1}
    BY <1>4, <2>1
  <2>6. \A s \in Seg \ {0, 1} : \E i \in DOMAIN freeq : freeq[i] = s
    BY <1>4, <2>2
  <2> HIDE DEF q
  <2> QED  BY <1>1, <1>2, <2>3, <2>4, <2>5, <2>6 DEF SegmentsPartition
<1>10. BufferInv /\ AssignInv /\ GcIdle /\ GcCover
  BY DEF Init, BufferInv, AssignInv, GcIdle, GcCover
<1> QED  BY <1>5, <1>6, <1>7, <1>8, <1>9, <1>10 DEF IInv, TypeOK

(* Every step keeps the invariant.                                          *)
LEMMA NextInv ==
    ASSUME IInv, [Next]_vars
    PROVE  IInv'
<1>1. CASE UNCHANGED vars
  <2>1. UNCHANGED <<bmVars, ftlVars, pc, asgVars, gcVars>>
    BY <1>1 DEF vars
  <2>2. DevTypeOK'
    BY <1>1 DEF vars, devVars, readVars, IInv, TypeOK, DevTypeOK
  <2> QED  BY <2>1, <2>2, MainUnchanged
<1>2. CASE HostStep
  <2>1. \A k \in Key, n \in Ver : <<k, n>> \in Val
    BY DEF Val
  <2> QED  BY <1>2, <2>1, PageWriteStep, PageReadStep DEF HostStep
<1>3. CASE MainStep
  BY <1>3, SkipGcStep, AllocSegmentStep, AllocPageStep, MapKeyStep, SubmitPageStep,
     StartGcStep, GcIssueReadStep, GcCopyStep, GcFlushRestStep, GcTrimStep, GcSwapStep
     DEF MainStep
<1>4. CASE DevStep
  BY <1>4, DevWriteStep, DevTrimStep, DevGcReadStep, DevReadStep, DevFillBufferStep
     DEF DevStep
<1>5. CASE DumpLoad
  BY <1>5, DumpLoadStep
<1> QED  BY <1>1, <1>2, <1>3, <1>4, <1>5 DEF Next

(* The inductive invariant holds in every reachable state.                 *)
THEOREM InductiveInvariant == Spec => []IInv
<1>1. Init => IInv
  BY InitInv
<1>2. IInv /\ [Next]_vars => IInv'
  BY NextInv
<1> QED  BY <1>1, <1>2, PTL DEF Spec

(* Every variable of the FTL, the block manager and the device keeps its    *)
(* type; in particular no address outside the device is ever computed.     *)
THEOREM TypeCorrect == Spec => []TypeOK
<1>1. IInv => TypeOK
  BY DEF IInv
<1> QED  BY <1>1, InductiveInvariant, PTL

(* A mapped piece is valid and named after its key, at every step of        *)
(* page_map_assign and do_gc.                                              *)
THEOREM MappingAlwaysSound == Spec => []MappingSound
<1>1. IInv => MappingSound
  BY DEF IInv
<1> QED  BY <1>1, InductiveInvariant, PTL

(* No segment is ever in two of the manager's lists, nor in none.          *)
THEOREM SegmentsAlwaysPartitioned == Spec => []SegmentsPartition
<1>1. IInv => SegmentsPartition
  BY DEF IInv
<1> QED  BY <1>1, InductiveInvariant, PTL
=============================================================================
