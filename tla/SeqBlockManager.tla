--------------------------- MODULE SeqBlockManager ---------------------------
(***************************************************************************)
(* The sequential block manager (blockmanager/sequential and               *)
(* block_manager_master): which segments are free, which are candidates    *)
(* for garbage collection, how many pages of a segment are handed out,     *)
(* and which pieces (L2PGAP per page) hold valid data.                     *)
(*                                                                         *)
(* Every operation of the manager is an action over this module's          *)
(* variables; the FTLs conjoin them with their own assignments.  A         *)
(* physical page address is the triple <<segment, block, page>> that the   *)
(* code packs into block_idx*_PPB+page, a piece is a page with an offset.  *)
(***************************************************************************)
EXTENDS Integers, Sequences, FiniteSets

CONSTANTS
    NOS,        \* number of segments            (_NOS)
    BPS,        \* blocks per segment
    PPB,        \* pages per block               (_PPB)
    L2PGAP,     \* logical pieces per page
    Key,        \* logical addresses             (KEYT)
    ZeroKey,    \* the key 0, which memset leaves in an erased OOB area
    LayeredLSM  \* the build switch of __mh_get_cnt

ASSUME GeometryAssumption ==
    /\ NOS \in Nat \ {0}
    /\ BPS \in Nat \ {0}
    /\ PPB \in Nat \ {0}
    /\ L2PGAP \in Nat \ {0}
ASSUME KeyAssumption == ZeroKey \in Key
ASSUME BuildAssumption == LayeredLSM \in BOOLEAN

Seg   == 0 .. NOS - 1
Block == 0 .. BPS - 1
Off   == 0 .. L2PGAP - 1
Ppa   == Seg \X Block \X (0 .. PPB - 1)
Piece == Ppa \X Off

SegOf(ppa) == ppa[1]
PieceSeg(piece) == SegOf(piece[1])
PieceBlock(piece) == <<piece[1][1], piece[1][2]>>
\* The pieces of a page at the offsets below n.
PiecesOf(ppa, n) == {ppa} \X (0 .. n - 1)

VARIABLES
    pptr,   \* now_assigned_pptr of each block
    bptr,   \* now_assigned_bptr of each segment
    used,   \* used_page_num of each segment
    bits,   \* the pieces whose bit is set in their block's bitset
    oob,    \* the keys written in each page's spare area
    bval,   \* validate_piece_num of each block
    binv,   \* invalidate_piece_num of each block
    bfull,  \* is_full_invalid of each block
    sval,   \* validate_piece_num of each segment
    sinv,   \* invalidate_piece_num of each segment
    sfull,  \* invalid_block_num of each segment
    heap,   \* segments in max_heap (private_data points into the heap)
    freeq   \* free_segment_q, first in first out

cursorVars == <<pptr, bptr, used>>
countVars  == <<bval, binv, bfull, sval, sinv, sfull>>
bitVars    == <<bits, countVars>>
listVars   == <<heap, freeq>>
bmVars     == <<cursorVars, bitVars, oob, listVars>>

ErasedOob == [i \in Off |-> ZeroKey]

(* blockmanager_master_init and sbm_create: every block is zeroed static    *)
(* memory.  The lists are those left once the FTL has taken its first       *)
(* segments from the queue of all segments.                                *)
BMInit(candidates, queue) ==
    /\ pptr = [b \in Seg \X Block |-> 0]
    /\ bptr = [s \in Seg |-> 0]
    /\ used = [s \in Seg |-> 0]
    /\ bits = {}
    /\ oob = [p \in Ppa |-> ErasedOob]
    /\ bval = [b \in Seg \X Block |-> 0]
    /\ binv = [b \in Seg \X Block |-> 0]
    /\ bfull = [b \in Seg \X Block |-> FALSE]
    /\ sval = [s \in Seg |-> 0]
    /\ sinv = [s \in Seg |-> 0]
    /\ sfull = [s \in Seg |-> 0]
    /\ heap = candidates
    /\ freeq = queue

BMTypeOK ==
    /\ pptr \in [Seg \X Block -> 0 .. PPB]
    /\ bptr \in [Seg -> Block]
    /\ used \in [Seg -> Nat]
    /\ bits \subseteq Piece
    /\ oob \in [Ppa -> [Off -> Key]]
    /\ bval \in [Seg \X Block -> Nat]
    /\ binv \in [Seg \X Block -> Nat]
    /\ bfull \in [Seg \X Block -> BOOLEAN]
    /\ sval \in [Seg -> Nat]
    /\ sinv \in [Seg -> Nat]
    /\ sfull \in [Seg -> Int]
    /\ heap \subseteq Seg
    /\ freeq \in Seq(Seg)
-----------------------------------------------------------------------------
(* Handing out segments and pages.                                         *)

\* sbm_get_seg: the oldest free segment.  A BLOCK_ACTIVE segment is then
\* appended to the heap (InsertHeap), a BLOCK_RESERVE one stays out of it.
FreeSeg == Head(freeq)
GetSeg ==
    /\ freeq # <<>>
    /\ freeq' = Tail(freeq)

\* mh_insert_append, in __segment_assign_post(BLOCK_ACTIVE),
\* sbm_change_reserve_to_active and sbm_insert_gc_target.
InsertHeap(s) == heap' = heap \cup {s}

\* sbm_get_page_addr returns -1.
SegFull(s) == bptr[s] = BPS - 1 /\ pptr[<<s, BPS - 1>>] = PPB

\* default_check_full looks only at the last block.
CheckFull(s) == pptr[<<s, BPS - 1>>] = PPB

\* Mistake: a full block is never moved past.
CurrentBlockStuck(s) == bptr[s]

\* The block sbm_get_page_addr allocates from, after moving past a full one.
CurrentBlock(s) ==
    IF pptr[<<s, bptr[s]>>] = PPB THEN bptr[s] + 1 ELSE bptr[s]
NextPpa(s) == <<s, CurrentBlock(s), pptr[<<s, CurrentBlock(s)>>]>>

GetPageAddr(s) ==
    /\ ~SegFull(s)
    /\ bptr' = [bptr EXCEPT ![s] = CurrentBlock(s)]
    /\ pptr' = [pptr EXCEPT ![<<s, CurrentBlock(s)>>] = @ + 1]
    /\ used' = [used EXCEPT ![s] = @ + 1]

IsGcNeeded == freeq = <<>>
-----------------------------------------------------------------------------
(* The validity bitmap and its counters.                                   *)

\* sbm_bit_set on the first n pieces of a page, in one loop (the FTLs'
\* validate_ppa): the block stops being "full invalid" at the first call
\* that leaves its two counters different.
BitSetPage(ppa, n) ==
    LET b == <<ppa[1], ppa[2]>>
        s == ppa[1]
        revived == bfull[b] /\ \E j \in 1 .. n : binv[b] # bval[b] + j
    IN  /\ bits' = bits \cup PiecesOf(ppa, n)
        /\ bval' = [bval EXCEPT ![b] = @ + n]
        /\ sval' = [sval EXCEPT ![s] = @ + n]
        /\ bfull' = [bfull EXCEPT ![b] = @ /\ ~revived]
        /\ sfull' = [sfull EXCEPT ![s] = IF revived THEN @ - 1 ELSE @]
        /\ UNCHANGED <<binv, sinv>>

\* sbm_bit_unset: the counters move whether or not the bit was set.
BitUnset(piece) ==
    LET b == PieceBlock(piece)
        s == PieceSeg(piece)
        died == ~bfull[b] /\ binv[b] + 1 = bval[b]
    IN  /\ bits' = bits \ {piece}
        /\ binv' = [binv EXCEPT ![b] = @ + 1]
        /\ sinv' = [sinv EXCEPT ![s] = @ + 1]
        /\ bfull' = [bfull EXCEPT ![b] = @ \/ died]
        /\ sfull' = [sfull EXCEPT ![s] = IF died THEN @ + 1 ELSE @]
        /\ UNCHANGED <<bval, sval>>

IsInvalidPiece(piece) == piece \notin bits

\* Mistake: the spare area is not written.
SetOobForgotten(ppa, keys) == oob' = oob

\* sbm_set_oob overwrites the first Len(keys) entries of the spare area.
SetOob(ppa, keys) ==
    oob' = [oob EXCEPT ![ppa] =
               [i \in Off |-> IF i < Len(keys) THEN keys[i + 1] ELSE @[i]]]
-----------------------------------------------------------------------------
(* Garbage collection.                                                     *)

\* __mh_get_cnt, the key the heap is ordered by.
GcWeight(s) ==
    IF LayeredLSM THEN sfull[s] * (BPS * PPB) * L2PGAP + sinv[s] ELSE sinv[s]

\* Mistake: the segment with the fewest invalid pieces is collected.
GetGcTargetLightest(s) ==
    /\ s \in heap
    /\ \A t \in heap : GcWeight(t) >= GcWeight(s)
    /\ heap' = heap \ {s}
    /\ UNCHANGED <<freeq, bfull, bits, bval, binv, sval, sinv, sfull>>

\* mh_construct and mh_get_max: a segment of greatest weight leaves the heap
\* (module MaxHeap is the heap itself; ties are left open here), and
\* blockmanager_full_invalid_check runs on its blocks.
GetGcTarget(s) ==
    /\ s \in heap
    /\ \A t \in heap : GcWeight(t) <= GcWeight(s)
    /\ heap' = heap \ {s}
    /\ bfull' = [b \in Seg \X Block |->
                    bfull[b] \/ (b[1] = s /\ binv[b] # 0 /\ binv[b] = bval[b])]
    /\ UNCHANGED <<freeq, bits, bval, binv, sval, sinv, sfull>>

\* block_reinit on every block of a segment.
ReinitBlocks(s) ==
    /\ pptr' = [b \in Seg \X Block |-> IF b[1] = s THEN 0 ELSE pptr[b]]
    /\ bits' = {p \in bits : PieceSeg(p) # s}
    /\ oob' = [p \in Ppa |-> IF SegOf(p) = s THEN ErasedOob ELSE oob[p]]
    /\ bval' = [b \in Seg \X Block |-> IF b[1] = s THEN 0 ELSE bval[b]]
    /\ binv' = [b \in Seg \X Block |-> IF b[1] = s THEN 0 ELSE binv[b]]
    /\ bfull' = [b \in Seg \X Block |-> b[1] # s /\ bfull[b]]

UsedReset(s) == [used EXCEPT ![s] = 0]
InvalidReset(s) == [sinv EXCEPT ![s] = 0]

\* sbm_trim_segment: the segment is queued as free at once; the caller
\* erases the flash.
TrimSegment(s) ==
    /\ ReinitBlocks(s)
    /\ bptr' = [bptr EXCEPT ![s] = 0]
    /\ used' = UsedReset(s)
    /\ sval' = [sval EXCEPT ![s] = 0]
    /\ sinv' = InvalidReset(s)
    /\ sfull' = [sfull EXCEPT ![s] = 0]
    /\ freeq' = Append(freeq, s)
    /\ heap' = heap

-----------------------------------------------------------------------------
(* Dump and load.                                                          *)

\* The free queue becomes the segments of S in index order.
QueueInIndexOrder(S) ==
    \E n \in 0 .. NOS : \E q \in [1 .. n -> S] :
        /\ \A i, j \in 1 .. n : i < j => q[i] < q[j]
        /\ \A s \in S : \E i \in 1 .. n : q[i] = s
        /\ freeq' = q

\* Mistake: the reserve stays queued as free.
LoadSegmentsKeepsReserve(pick) ==
    /\ heap' = heap
    /\ QueueInIndexOrder(Seg \ heap)

\* sbm_load after sbm_dump in a fresh process: a segment with private_data
\* goes back to the heap, every other one is queued as free in index order,
\* whatever order the queue had; blocks and counters come back unchanged.
\* sbm_pick_seg then takes the reserve out of the queue (for the active
\* segment, which is in the heap, it changes nothing).
LoadSegments(pick) ==
    /\ heap' = heap
    /\ QueueInIndexOrder(Seg \ (heap \cup {pick}))
=============================================================================
