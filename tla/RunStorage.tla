----------------------------- MODULE RunStorage ------------------------------
(***************************************************************************)
(* Where the runs of AppL live on flash: the block table (block_table), the *)
(* sorted tables of the runs (sorted_table, run_insert, the data half of    *)
(* run_merge) and the garbage collector (gc).  Data goes to whole blocks,   *)
(* one per STE of a run; every full STE gets a summary piece, packed with   *)
(* the run's other summaries into pages of summary segments.  Picking a     *)
(* block or a summary page may run the collector in the middle of a flush   *)
(* or a merge; it moves blocks and summaries under the run that is being    *)
(* written and under the runs that are being read.                          *)
(*                                                                          *)
(* The shipped build creates log runs (the memtable) and normal runs only   *)
(* (compaction_flush sets pinning_enable to false, SC_MEM_OPT is off), so   *)
(* every data block is NORMAL.  Which runs a compaction merges is           *)
(* LayeredLSM's subject: here any runs next to each other in age may be     *)
(* merged once there are too many.  All steps are the main thread's.        *)
(***************************************************************************)
EXTENDS Integers, Sequences, FiniteSets, FiniteSetsExt, SequencesExt

CONSTANTS
    Lba,         \* logical blocks, 0 among them
    NOS, BPS, PPB, L2PGAP,
    MemEntries,  \* max_entry_num of the memtable
    MaxRuns,     \* runs on disk before a merge is due
    Sids,        \* total_run_num, the size of the sid queue
    MaxForce,    \* bound on forced reconstructions per flush
    MaxFlush,    \* bound on flushes
    None

PPS   == PPB * BPS
P     == PPB * L2PGAP          \* MAX_SECTOR_IN_BLOCK
Seg   == 0 .. NOS - 1
Blk   == 0 .. NOS * BPS - 1
Piece == 0 .. NOS * BPS * P - 1
Sid   == 0 .. Sids - 1

BlkOf(p) == p \div P
SegOf(b) == b \div BPS
BlksOf(g) == g * BPS .. g * BPS + BPS - 1
PiecesOf(b) == b * P .. b * P + P - 1
Ascending(S) == SetToSortSeq(S, <)

VARIABLES
    s,        \* the store: flash, block table, runs, shortcut table
    pc,       \* where the main thread is
    flushes, forced

vars == <<s, pc, flushes, forced>>

(* Fields of s.  Flash: oob (what a piece holds, None when erased), fresh    *)
(* (pieces with the last data written to their block), bits, bval and binv  *)
(* of each block.  Segments: styp, used (pages), heap, freeq.  Block table: *)
(* map, nowSeg/nowBlk, resSeg/resBlk, sumSeg, rsumSeg.  Runs: run, sidq, sc,*)
(* order (disk runs, newest first), mem.  at: address the last call handed  *)
(* out.  err: the message the program died with.                            *)

Fail(z, why) == IF z.err = "" THEN [z EXCEPT !.err = why] ELSE z

-----------------------------------------------------------------------------
(* Segment manager, as the block table uses it.                             *)

\* bit_set and bit_unset count even when the bit does not change.
Validate(z, p, why) ==
    LET y == [z EXCEPT !.bits = @ \cup {p}, !.bval[BlkOf(p)] = @ + 1]
    IN IF p \in z.bits THEN Fail(y, why) ELSE y

Invalidate(z, p, force, why) ==
    LET y == [z EXCEPT !.bits = @ \ {p}, !.binv[BlkOf(p)] = @ + 1]
    IN IF p \notin z.bits /\ force THEN Fail(y, why) ELSE y

FullInvalid(z, b) == z.binv[b] > 0 /\ z.binv[b] = z.bval[b]
SegSum(f, g) == MapThenSumSet(LAMBDA b : f[b], BlksOf(g))
Validated(z, g) == SegSum(z.bval, g)
Invalidated(z, g) == SegSum(z.binv, g)

\* __mh_get_cnt in the layeredLSM build.
Weight(z, g) ==
    Cardinality({b \in BlksOf(g) : FullInvalid(z, b)}) * PPS * L2PGAP + Invalidated(z, g)

\* The heaviest of the candidates S; among equals the heap's order decides.
Heaviest(z, S) ==
    LET w == [g \in S |-> Weight(z, g)]
        top(g) == \A h \in S : w[g] >= w[h]
    IN IF S = {} THEN None
       ELSE CHOOSE g \in S : top(g) /\ \A h \in S : top(h) => (g = h \/ ((g < h) <=> z.low))

GetSegment(z, active) ==
    IF z.freeq = <<>> THEN Fail([z EXCEPT !.at = 0], "no free segment") ELSE
    LET g == Head(z.freeq)
    IN [z EXCEPT !.at = g, !.freeq = Tail(@), !.heap = IF active THEN @ \cup {g} ELSE @]

\* get_gc_target: the victim leaves the heap.
TakeTarget(z, g) ==
    LET y == [z EXCEPT !.heap = @ \ {g}]
    IN IF Validated(z, g) = 0 THEN Fail(y, "the gc target should have valid piece") ELSE y

\* __clear_block_and_gsegment.
Cleared == [type |-> "empty", sid |-> None, idx |-> None]

ClearSegment(z, g) ==
    LET gone == UNION {PiecesOf(b) : b \in BlksOf(g)}
        wiped(f) == [b \in Blk |-> IF SegOf(b) = g THEN 0 ELSE f[b]]
    IN [z EXCEPT !.oob = [p \in Piece |-> IF p \in gone THEN None ELSE @[p]],
                 !.bits = @ \ gone, !.fresh = @ \ gone, !.used[g] = 0,
                 !.bval = wiped(@), !.binv = wiped(@),
                 !.map = [b \in Blk |-> IF SegOf(b) = g THEN Cleared ELSE @[b]],
                 !.freeq = Append(@, g)]

\* The next page of segment g, handed out for summaries.
PageOf(z, g) ==
    LET page == g * PPS + z.used[g]
    IN [z EXCEPT !.at = page, !.used[g] = @ + 1, !.map[page \div PPB].type = "summary"]

-----------------------------------------------------------------------------
(* Collecting summaries.                                                    *)

Start(ste) == Min(ToSet(ste.lbas))
End(ste) == Max(ToSet(ste.lbas))

\* An erased spare area reads as zero.
Oob(z, p) == IF z.oob[p] = None THEN 0 ELSE z.oob[p]

\* sorted_array_master_get_info_mapgc: the STEs whose summary this may be.  A
\* normal run is searched by the first block of the summary, a log run by address.
Owners(z, lba, p) ==
    {o \in Sid \X (1..MemEntries * (MaxRuns + 2)) :
        /\ z.run[o[1]] # None /\ o[2] \in DOMAIN z.run[o[1]].stes
        /\ LET ste == z.run[o[1]].stes[o[2]]
           IN /\ ste.lbas # <<>> /\ ste.piece = p /\ ~ste.gone
              /\ ~z.run[o[1]].log => Start(ste) <= lba /\ lba <= End(ste)}

\* The place of the next summary: on the page being filled, or on the page the
\* store n has just handed out.
NextPlace(z, n) ==
    IF z.fill # <<>> THEN [z EXCEPT !.fill = <<@[1] + 1>>] ELSE [n EXCEPT !.fill = <<n.at * L2PGAP>>]

\* One valid summary piece p of z goes to the place x holds.
MoveSummary(z, p, x) ==
    LET own == Owners(z, Oob(z, p), p)
        o == CHOOSE o \in own : TRUE
        q == x.fill[1]
        w == Validate(x, q, "validate map error")
    IN IF own = {} THEN Fail(z, "mapping error") ELSE IF x.err # "" THEN x ELSE
       [w EXCEPT !.run[o[1]].stes[o[2]].piece = q, !.oob[q] = Oob(z, p),
                 !.fill = IF q % L2PGAP = L2PGAP - 1 THEN <<>> ELSE @]

Emptied(z, p) == Invalidate(z, p, TRUE, "invalidate map error")
SummariesOf(g) == Ascending(UNION {PiecesOf(b) : b \in BlksOf(g)})

\* L2PBm_get_map_rppa.
ReservePage(z) ==
    IF z.used[z.rsumSeg] = PPS THEN Fail([z EXCEPT !.at = 0], "reserve full error")
    ELSE PageOf(z, z.rsumSeg)

\* gc_summary_segment with GET_RPPA: the valid summaries of g go to the reserve.
ToReserve(z, p, e) == MoveSummary(z, p, NextPlace(e, ReservePage(e)))

GcSummaryToReserve(z, g) ==
    LET step(y, p) ==
            IF p \notin y.bits \/ y.err # "" THEN y ELSE ToReserve(y, p, Emptied(y, p))
    IN ClearSegment([FoldLeft(step, [z EXCEPT !.fill = <<>>], SummariesOf(g)) EXCEPT !.fill = z.fill], g)

\* The reserve becomes the active summary segment, and a free one the reserve.
NewSummaryReserve(z) == [z EXCEPT !.rsumSeg = z.at, !.styp[z.at] = "summary"]
SwapSummaryReserve(z) ==
    NewSummaryReserve(GetSegment([z EXCEPT !.sumSeg = z.rsumSeg, !.heap = @ \cup {z.rsumSeg}], FALSE))

\* The victim of the wanted kind: the others leave the heap and come back.
TargetOf(z, kind) == {g \in z.heap : z.styp[g] = kind}

\* gc with the candidates in the order the heap gives them: top is the first, g
\* the first of the wanted kind.
GcTrim(z, top) == [ClearSegment(TakeTarget(z, top), top) EXCEPT !.ret = "trim"]
Trimmable(z, top) == Validated(z, top) = Invalidated(z, top)

\* gc(SUMMARY_SEG), from L2PBm_get_map_ppa.
GcSummary(z, top, g) ==
    IF top = None THEN Fail([z EXCEPT !.ret = "none"], "dev full")
    ELSE IF Trimmable(z, top) THEN GcTrim(z, top)
    ELSE IF g = None THEN Fail([z EXCEPT !.ret = "none"], "dev full")
    ELSE [SwapSummaryReserve(GcSummaryToReserve(TakeTarget(z, g), g)) EXCEPT !.ret = "copy"]

GcForSummary(z) == GcSummary(z, Heaviest(z, z.heap), Heaviest(z, TargetOf(z, "summary")))

\* L2PBm_get_map_ppa.
OpenSummary(z) ==
    IF z.err # "" THEN z ELSE PageOf([z EXCEPT !.sumSeg = z.at, !.styp[z.at] = "summary"], z.at)

AfterSummaryGc(z) ==
    IF z.err # "" THEN [z EXCEPT !.at = 0]
    ELSE IF z.ret # "copy" THEN OpenSummary(GetSegment(z, TRUE))
    ELSE IF z.used[z.sumSeg] = PPS THEN Fail([z EXCEPT !.at = 0], "not effective gc on summary")
    ELSE PageOf(z, z.sumSeg)

GetMapPage(z) ==
    IF z.used[z.sumSeg] < PPS THEN PageOf(z, z.sumSeg)
    ELSE AfterSummaryGc(IF z.freeq = <<>> THEN GcForSummary(z) ELSE [z EXCEPT !.ret = "none"])

\* gc_summary_segment with GET_PPA: they go to the active summary segment.
ToActive(z, p, e) == MoveSummary(z, p, NextPlace(e, GetMapPage(e)))

GcSummaryToActive(z, g) ==
    LET step(y, p) ==
            IF p \notin y.bits \/ y.err # "" THEN y ELSE ToActive(y, p, Emptied(y, p))
    IN ClearSegment([FoldLeft(step, [z EXCEPT !.fill = <<>>], SummariesOf(g)) EXCEPT !.fill = z.fill], g)

-----------------------------------------------------------------------------
(* Collecting data.                                                         *)

\* copy_normal_block: block b goes to the next block of the reserve, every valid
\* piece at the same offset, and the owner's STE follows it.
CopyBlockForgetsOwner(z, b) ==
    LET c == z.resSeg * BPS + z.resBlk
        live == PiecesOf(b) \cap z.bits
        to(p) == c * P + (p % P)
        y == FoldLeft(LAMBDA w, p : Validate(Invalidate(w, p, TRUE, "bit error"), to(p), "bit error"),
                      z, Ascending(live))
    IN IF z.resBlk = BPS THEN Fail(z, "block over flow error")
       ELSE IF z.map[c].sid # None THEN Fail(z, "the mapping should be empty")
       ELSE [y EXCEPT !.resBlk = @ + 1,
                      !.map[c] = [type |-> "normal", sid |-> z.map[b].sid, idx |-> z.map[b].idx],
                      !.oob = [q \in Piece |-> IF BlkOf(q) = c THEN z.oob[b * P + (q % P)] ELSE @[q]],
                      !.fresh = @ \cup {to(p) : p \in live \cap z.fresh}]

CopyBlock(z, b) ==
    LET x == z.map[b].sid
        j == z.map[b].idx
        y == CopyBlockForgetsOwner(z, b)
    IN IF z.run[x] = None THEN Fail(z, "not found info at sid")
       ELSE IF j \notin DOMAIN z.run[x].stes THEN Fail(z, "inaccurate block!")
       ELSE IF z.run[x].stes[j].pba # b THEN Fail(z, "inaccurate block!")
       ELSE IF y.err # "" THEN y
       ELSE [y EXCEPT !.run[x].stes[j].pba = z.resSeg * BPS + z.resBlk]

\* gc_data_segment: the rest of the reserve becomes the active segment.
NewDataReserve(z) == [z EXCEPT !.resSeg = z.at, !.styp[z.at] = "data"]
SwapDataReserve(z) ==
    NewDataReserve(GetSegment([z EXCEPT !.nowSeg = z.resSeg, !.nowBlk = z.resBlk, !.resBlk = 0,
                                        !.heap = @ \cup {z.resSeg}], FALSE))

GcData(z, g) ==
    LET step(y, b) ==
            IF y.err # "" THEN y
            ELSE IF y.map[b].type # "normal" THEN Fail(y, "EMPTY BLOCK!")
            ELSE IF PiecesOf(b) \cap y.bits = {} THEN y ELSE CopyBlock(y, b)
    IN SwapDataReserve(ClearSegment(FoldLeft(step, z, Ascending(BlksOf(g))), g))

\* May the summaries of g be packed into the pages the active segment has left?
FitsSummary(z, g) ==
    /\ z.styp[g] = "summary" /\ g # z.sumSeg
    /\ PPS - z.used[z.sumSeg] >= (Validated(z, g) - Invalidated(z, g)) \div L2PGAP

\* gc(DATA_SEG), from L2PBm_pick_empty_PBA.
GcDataSeg(z, top, g) ==
    IF top = None THEN Fail([z EXCEPT !.ret = "none"], "dev full")
    ELSE IF Trimmable(z, top) THEN GcTrim(z, top)
    ELSE IF FitsSummary(z, top)
    THEN [GcSummaryToActive(TakeTarget(z, top), top) EXCEPT !.ret = "diff"]
    ELSE IF g = None THEN Fail([z EXCEPT !.ret = "none"], "dev full")
    ELSE [GcData(TakeTarget(z, g), g) EXCEPT !.ret = "copy"]

GcForData(z) == GcDataSeg(z, Heaviest(z, z.heap), Heaviest(z, TargetOf(z, "data")))

\* L2PBm_pick_empty_PBA.
TakeBlock(z) ==
    IF z.err # "" THEN z ELSE
    [z EXCEPT !.at = z.nowSeg * BPS + z.nowBlk, !.nowBlk = @ + 1,
              !.nowSeg = IF z.nowBlk + 1 = BPS THEN None ELSE @]

OpenData(z) ==
    TakeBlock(IF z.err # "" THEN z
              ELSE [z EXCEPT !.nowSeg = z.at, !.nowBlk = 0, !.styp[z.at] = "data"])

AfterDataGc(z) ==
    IF z.err # "" THEN [z EXCEPT !.at = 0]
    ELSE IF z.ret # "copy" THEN OpenData(GetSegment(z, TRUE))
    ELSE IF z.nowBlk = BPS THEN Fail([z EXCEPT !.at = 0], "gc not effective")
    ELSE TakeBlock(z)

PickEmptyPBA(z) ==
    IF z.nowSeg # None THEN TakeBlock(z)
    ELSE AfterDataGc(IF z.freeq = <<>> THEN GcForData(z) ELSE [z EXCEPT !.ret = "none"])

-----------------------------------------------------------------------------
(* Writing a run.                                                           *)

NewSte(b) == [pba |-> b, lbas |-> <<>>, piece |-> None, gone |-> FALSE, stale |-> FALSE]
NewRun(log) == [log |-> log, stes |-> <<>>, pp |-> <<>>, mp |-> [page |-> None, lbas |-> <<>>]]

\* Has run x an STE that still takes entries?
Open(z, x) == z.run[x].stes # <<>> /\ Last(z.run[x].stes).piece = None

\* run_factory with st_array_init.
Populate(z, log) ==
    IF z.sidq = <<>> THEN Fail(z, "no sid") ELSE
    [z EXCEPT !.sidq = Tail(@), !.run[Head(z.sidq)] = NewRun(log)]

\* Where run x holds lba: the last of its pieces for a log run.
Holds(z, x) == UNION {{j} \X DOMAIN z.run[x].stes[j].lbas : j \in DOMAIN z.run[x].stes}
At(z, x, l) == {h \in Holds(z, x) : z.run[x].stes[h[1]].lbas[h[2]] = l}
Latest(H) == CHOOSE h \in H : \A k \in H : k[1] < h[1] \/ (k[1] = h[1] /\ k[2] <= h[2])
PsaOf(z, x, h) == z.run[x].stes[h[1]].pba * P + h[2] - 1

\* One entry of __run_write_buffer: st_array_write_translation, the bit, the
\* memtable's older copy, st_array_insert_pair.
PutIn(z, x, e, j) ==
    LET p == z.run[x].stes[j].pba * P + Len(z.run[x].stes[j].lbas)
        old == At(z, x, e.lba)
        v == Validate(z, p, "double insert error")
        u == IF z.run[x].log /\ old # {}
             THEN Invalidate(v, PsaOf(z, x, Latest(old)), TRUE, "double delete error") ELSE v
    IN [u EXCEPT !.oob[p] = e.lba, !.fresh = IF e.fresh THEN @ \cup {p} ELSE @ \ {p},
                 !.run[x].stes[j].lbas = Append(@, e.lba)]

\* st_array_set_now_PBA with the block just picked.
SetNowPBA(z, x, j) ==
    [z EXCEPT !.run[x].stes = Append(@, NewSte(z.at)),
              !.map[z.at] = [type |-> "normal", sid |-> x, idx |-> j]]

PutNew(z, x, e) ==
    IF z.err # "" THEN z
    ELSE IF z.map[z.at].sid # None THEN Fail(z, "the mapping should be empty")
    ELSE PutIn(SetNowPBA(z, x, Len(z.run[x].stes) + 1), x, e, Len(z.run[x].stes) + 1)

PutEntry(z, x, e) ==
    IF Open(z, x) THEN PutIn(z, x, e, Len(z.run[x].stes)) ELSE PutNew(PickEmptyPBA(z), x, e)

\* The buffered summary page of run x goes to flash.
IssueSummary(z, x) ==
    LET mp == z.run[x].mp
    IN [z EXCEPT !.run[x].mp = [page |-> None, lbas |-> <<>>],
                 !.oob = [p \in Piece |-> IF p \div L2PGAP = mp.page /\ (p % L2PGAP) + 1 \in DOMAIN mp.lbas
                                          THEN mp.lbas[(p % L2PGAP) + 1] ELSE @[p]]]

\* __run_write_meta.
IssueFull(z, x, force) ==
    IF z.err = "" /\ (force \/ Len(z.run[x].mp.lbas) = L2PGAP) THEN IssueSummary(z, x) ELSE z

AddSummary(z, x, j, p) ==
    [Validate(z, p, "map write error") EXCEPT
        !.run[x].stes[j].piece = p, !.run[x].mp.lbas = Append(@, Start(z.run[x].stes[j]))]

PackSummary(z, x) ==
    IF z.err # "" THEN z
    ELSE AddSummary(z, x, Len(z.run[x].stes), z.run[x].mp.page * L2PGAP + Len(z.run[x].mp.lbas))

NewMetaPage(z, x) == [z EXCEPT !.run[x].mp.page = z.at]

WriteMeta(z, x, force) ==
    IF z.err # "" THEN z
    ELSE IF Open(z, x)
    THEN IssueFull(PackSummary(IF z.run[x].mp.page # None THEN z
                               ELSE NewMetaPage(GetMapPage(z), x), x), x, force)
    ELSE IF z.run[x].mp.page = None THEN z ELSE IssueSummary(z, x)

\* The page buffer of run x is written, and its STE closed if that fills it.
WriteBuffer(z, x) ==
    FoldLeft(LAMBDA y, e : IF y.err # "" THEN y ELSE PutEntry(y, x, e),
             [z EXCEPT !.run[x].pp = <<>>], z.run[x].pp)

CloseFull(z, x) ==
    IF Open(z, x) /\ Len(Last(z.run[x].stes).lbas) = P THEN WriteMeta(z, x, FALSE) ELSE z

\* run_insert.
RunInsert(z, x, e) ==
    LET y == [z EXCEPT !.run[x].pp = Append(@, e)]
    IN IF z.err # "" THEN z
       ELSE IF Len(y.run[x].pp) = L2PGAP THEN CloseFull(WriteBuffer(y, x), x) ELSE y

\* run_insert_done.
RunDone(z, x) == WriteMeta(WriteBuffer(z, x), x, TRUE)

\* run_padding_current_block: a block moved by reference starts a new STE.
Padding(z, x) == WriteMeta(WriteBuffer(z, x), x, FALSE)
PadStep(z, x) == IF z.err # "" \/ (z.run[x].pp = <<>> /\ ~Open(z, x)) THEN z ELSE Padding(z, x)

\* run_free with st_array_free.
RunFreeKeepsSummaries(z, x) == [z EXCEPT !.run[x] = None, !.sidq = Append(@, x)]

RunFree(z, x) ==
    LET step(y, ste) == IF ste.gone THEN y ELSE Invalidate(y, ste.piece, TRUE, "invalidate map error!")
    IN IF z.err # "" THEN z
       ELSE RunFreeKeepsSummaries(FoldLeft(step, z, z.run[x].stes), x)

-----------------------------------------------------------------------------
(* Merging runs.                                                            *)

Sorted(ste) == \A i \in 1 .. Len(ste.lbas) - 1 : ste.lbas[i] < ste.lbas[i + 1]
Overlap(a, b) == Start(a) <= End(b) /\ Start(b) <= End(a)

\* __check_disjoint_spm.
NonCopy(z, srcs, x, j) ==
    LET ste == z.run[x].stes[j]
    IN /\ Sorted(ste) /\ ~ste.stale
       /\ \A y \in srcs : \A m \in DOMAIN z.run[y].stes :
            ~Overlap(ste, z.run[y].stes[m]) \/ (y = x /\ (m = j \/ ~z.run[x].log))

\* The STEs of run x that go by reference: the first whose first entry is
\* dropped, or comes too early, keeps the rest back.
Moved(z, srcs, x) ==
    LET ste(j) == z.run[x].stes[j]
        list == SelectSeq([j \in DOMAIN z.run[x].stes |-> j], LAMBDA j : NonCopy(z, srcs, x, j))
        hit(q) == /\ z.sc[Start(ste(list[q]))] = x
                  /\ q > 1 => Start(ste(list[q - 1])) < Start(ste(list[q]))
    IN {<<x, list[n]>> : n \in {n \in DOMAIN list : \A q \in 1..n : hit(q)}}

Link(z, K, x) == [z EXCEPT !.sc = [l \in Lba |-> IF l \in K THEN x ELSE @[l]]]

\* trivial_move: the STE, its block and its summary change hands.
MoveSteKeepsOwner(z, m, x) ==
    LET ste == z.run[m[1]].stes[m[2]]
        linked == {l \in ToSet(ste.lbas) : z.sc[l] = m[1]}
        y == [z EXCEPT !.run[x].stes = Append(@, [ste EXCEPT !.stale = linked # ToSet(ste.lbas)]),
                       !.run[m[1]].stes[m[2]].gone = TRUE]
    IN Link(y, linked, x)

MoveSte(z, m, x) ==
    LET b == z.run[m[1]].stes[m[2]].pba
    IN IF z.err # "" THEN z
       ELSE IF z.map[b].sid = None THEN Fail(z, "the mapping should be assigned")
       ELSE IF z.map[b].type # "normal" THEN Fail(z, "this block should be normal/mixed block")
       ELSE [MoveSteKeepsOwner(z, m, x) EXCEPT
                !.map[b] = [type |-> "normal", sid |-> x, idx |-> Len(z.run[x].stes) + 1]]

\* The copies of l that the sources hold and do not move; a log run is read
\* through its map, which knows the last one only.
Copies(z, srcs, mv, l) ==
    {c \in UNION {{x} \X At(z, x, l) : x \in srcs} :
        <<c[1], c[2][1]>> \notin mv /\ (z.run[c[1]].log => c[2] = Latest(At(z, c[1], l)))}

\* The first half of a batch: sort, invalidate what is not linked, read and
\* invalidate the rest.  The entries to write follow, and their links.
Dropped(z, srcs, mv, K) ==
    {c \in UNION {Copies(z, srcs, mv, l) : l \in K} :
        z.sc[z.run[c[1]].stes[c[2][1]].lbas[c[2][2]]] # c[1]}

Kept(z, srcs, mv, K) == {l \in K : \E c \in Copies(z, srcs, mv, l) : z.sc[l] = c[1]}

PsaFrom(z, srcs, mv, l) ==
    LET c == CHOOSE c \in Copies(z, srcs, mv, l) : z.sc[l] = c[1] IN PsaOf(z, c[1], c[2])

Unset(z, ps, force) ==
    FoldLeft(LAMBDA y, p : Invalidate(y, p, force, "BIT ERROR piece_ppa"), z, ps)

Batch(z, b, kept, dropped) ==
    LET from == [l \in kept |-> PsaFrom(z, b.srcs, b.mv, l)]
        put(l) == [op |-> "put", x |-> b.x,
                   e |-> [lba |-> l, fresh |-> from[l] \in z.fresh /\ z.oob[from[l]] = l]]
        puts == [i \in 1 .. Cardinality(kept) |-> put(Ascending(kept)[i])]
    IN [Unset(Unset(z, Ascending({PsaOf(z, c[1], c[2]) : c \in dropped}), FALSE),
              Ascending({from[l] : l \in kept}), TRUE)
          EXCEPT !.todo = puts \o <<[op |-> "link", x |-> b.x, keys |-> kept]>> \o @]

\* run_merge of the runs srcs into a new run x: batches between the moved STEs.
MergePlan(z, m, mv, x) ==
    LET first(k) == Start(z.run[k[1]].stes[k[2]])
        list == SetToSortSeq(mv, LAMBDA a, b : first(a) < first(b))
        keys(i) == {l \in Lba : /\ i > 1 => l > first(list[i - 1])
                                /\ i <= Len(list) => l < first(list[i])}
        batch(i) == [op |-> "batch", x |-> x, srcs |-> m.srcs, mv |-> mv, keys |-> keys(i)]
    IN FlattenSeq([i \in 1 .. Len(list) |-> <<batch(i), [op |-> "move", x |-> x, ste |-> list[i]]>>])
         \o <<batch(Len(list) + 1), [op |-> "done", x |-> x], [m EXCEPT !.op = "install", !.x = x]>>

Moves(z, m) == IF m.force THEN {} ELSE UNION {Moved(z, m.srcs, y) : y \in m.srcs}

Merge(z, m) ==
    IF z.sidq = <<>> THEN Fail(z, "no sid")
    ELSE [Populate(z, FALSE) EXCEPT !.todo = MergePlan(z, m, Moves(z, m), Head(z.sidq)) \o @]

-----------------------------------------------------------------------------
Entries(x) == Cardinality(Holds(s, x)) + Len(s.run[x].pp)
Stale(x) == {h \in Holds(s, x) : s.sc[s.run[x].stes[h[1]].lbas[h[2]]] # x}

\* gc_check_enough_space: free blocks, or blocks the collector could free.
EnoughSpace ==
    LET need == 2 * (MemEntries \div P)
        free == (Len(s.freeq) * PPS) \div BPS + BPS - s.nowBlk
        fits == {g \in s.heap : s.styp[g] = "summary"
                     /\ PPS - s.used[s.sumSeg] >= Validated(s, g) - Invalidated(s, g)}
        diff == IF fits = {} THEN 0 ELSE IF Heaviest(s, fits) = s.sumSeg THEN 0 ELSE BPS
    IN \/ free >= need
       \/ diff + Cardinality({b \in Blk : /\ SegOf(b) \in s.heap /\ s.styp[SegOf(b)] = "data"
                                          /\ FullInvalid(s, b)}) >= need

\* low: how the heap breaks ties in this call.  Between calls it and the fields
\* that carry results are of no use.
Tied(z, low) == [z EXCEPT !.low = low]
Done(z) == [z EXCEPT !.at = 0, !.ret = "none", !.fill = <<>>, !.low = TRUE]

\* L2PBm_init and the first memtable.
Init ==
    /\ pc = "idle" /\ flushes = 0 /\ forced = 0
    /\ s = [oob |-> [p \in Piece |-> None], fresh |-> {}, bits |-> {},
            bval |-> [b \in Blk |-> 0], binv |-> [b \in Blk |-> 0],
            styp |-> [g \in Seg |-> IF g = 0 THEN "data" ELSE IF g \in {1, 2} THEN "summary" ELSE "empty"],
            used |-> [g \in Seg |-> 0], heap |-> {2}, freeq |-> [i \in 1 .. NOS - 3 |-> i + 2],
            map |-> [b \in Blk |-> Cleared], nowSeg |-> None, nowBlk |-> 0, resSeg |-> 0, resBlk |-> 0,
            rsumSeg |-> 1, sumSeg |-> 2,
            run |-> [x \in Sid |-> IF x = 0 THEN NewRun(TRUE) ELSE None],
            sidq |-> [i \in 1 .. Sids - 1 |-> i], sc |-> [l \in Lba |-> None],
            order |-> <<>>, mem |-> 0, todo |-> <<>>, at |-> 0, ret |-> "none", fill |-> <<>>, low |-> TRUE, err |-> ""]

\* lsmtree_insert below the memtable's limit.  A block is not repeated within an
\* STE of the memtable: the merge of such an STE fails (LayeredLSM).
Write(l) ==
    LET x == s.mem
        open == IF Open(s, x) THEN ToSet(Last(s.run[x].stes).lbas) ELSE {}
    IN /\ pc = "idle" /\ s.err = "" /\ Entries(x) < MemEntries
       /\ l \notin open \cup {e.lba : e \in ToSet(s.run[x].pp)}
       /\ \E low \in BOOLEAN :
            LET y == Link([s EXCEPT !.fresh = {p \in @ : s.oob[p] # l}, !.low = low], {l}, x)
            IN s' = Done(RunInsert(y, x, [lba |-> l, fresh |-> TRUE]))
       /\ UNCHANGED <<pc, flushes, forced>>

\* compaction_flush: the memtable is closed and rewritten as the newest run.
MergeOf(srcs, force, a, b) ==
    [op |-> "merge", x |-> None, srcs |-> srcs, force |-> force, a |-> a, b |-> b]

Flush ==
    /\ pc = "idle" /\ s.err = "" /\ Entries(s.mem) >= MemEntries /\ flushes < MaxFlush
    /\ s' = [s EXCEPT !.todo = <<[op |-> "done", x |-> s.mem], MergeOf({s.mem}, FALSE, 1, 0)>>]
    /\ pc' = "compact" /\ forced' = 0 /\ flushes' = flushes + 1

\* The iterator of a run without entries has no page to read (LayeredLSM).
HasPages(x) == s.run[x].stes # <<>>

\* Runs a to b of the order are replaced by one.
Compact ==
    /\ pc = "compact" /\ s.err = "" /\ s.todo = <<>>
    /\ IF Len(s.order) <= MaxRuns THEN UNCHANGED s ELSE
       \E a, b \in 1 .. Len(s.order) :
          /\ a < b /\ \A i \in a..b : HasPages(s.order[i])
          /\ s' = [s EXCEPT !.todo = <<MergeOf({s.order[i] : i \in a..b}, FALSE, a, b)>>]
    /\ pc' = "space" /\ UNCHANGED <<flushes, forced>>

\* The run with the largest share of unlinked entries is rewritten.
ForceCompact ==
    /\ pc = "space" /\ s.err = "" /\ s.todo = <<>> /\ ~EnoughSpace /\ forced < MaxForce
    /\ \E i \in DOMAIN s.order :
         /\ HasPages(s.order[i])
         /\ \A j \in DOMAIN s.order :
              Cardinality(Stale(s.order[i])) * Entries(s.order[j])
                 >= Cardinality(Stale(s.order[j])) * Entries(s.order[i])
         /\ s' = [s EXCEPT !.todo = <<MergeOf({s.order[i]}, TRUE, i, i)>>]
    /\ forced' = forced + 1 /\ UNCHANGED <<pc, flushes>>

\* One call of the main thread's work list.
Call(op) ==
    /\ s.err = "" /\ s.todo # <<>> /\ Head(s.todo).op = op
    /\ UNCHANGED <<pc, flushes, forced>>
Now == Head(s.todo)
Rest == [s EXCEPT !.todo = Tail(@)]

MergeRuns == Call("merge") /\ s' = Merge(Rest, Now)

MergeBatch ==
    /\ Call("batch")
    /\ s' = Batch(Rest, Now, Kept(s, Now.srcs, Now.mv, Now.keys), Dropped(s, Now.srcs, Now.mv, Now.keys))

PutMerged == Call("put") /\ \E low \in BOOLEAN : s' = Done(RunInsert(Tied(Rest, low), Now.x, Now.e))

LinkMerged == Call("link") /\ s' = Link(Rest, Now.keys, Now.x)

MoveNext ==
    /\ Call("move")
    /\ \E low \in BOOLEAN : s' = Done(MoveSte(PadStep(Tied(Rest, low), Now.x), Now.ste, Now.x))

CloseRun == Call("done") /\ \E low \in BOOLEAN : s' = Done(RunDone(Tied(Rest, low), Now.x))

\* The new run takes the place of its sources, which are freed; the memtable's
\* turn comes at the end of the flush.
Install ==
    LET a == Now.a
        b == Now.b
    IN /\ Call("install")
       /\ s' = [FoldLeft(RunFree, Rest, SubSeq(s.order, a, b)) EXCEPT
                  !.order = SubSeq(@, 1, a - 1) \o <<Now.x>> \o SubSeq(@, b + 1, Len(@))]

\* The old memtable is freed and a new one made.
FlushEnds ==
    /\ pc = "space" /\ s.err = "" /\ s.todo = <<>> /\ EnoughSpace
    /\ LET y == RunFree(s, s.mem)
       IN s' = [Populate(y, TRUE) EXCEPT !.mem = Head(y.sidq)]
    /\ pc' = "idle" /\ UNCHANGED <<flushes, forced>>

Next ==
    \/ \E l \in Lba : Write(l)
    \/ Flush \/ Compact \/ ForceCompact \/ FlushEnds
    \/ MergeRuns \/ MergeBatch \/ PutMerged \/ LinkMerged \/ MoveNext \/ CloseRun \/ Install

Spec == Init /\ [][Next]_vars

-----------------------------------------------------------------------------
\* No step of a flush, a merge or a collection ends the program: none of the
\* checks the code makes of its own tables (a bit set or cleared twice, a block
\* or a summary without its owner, a reserve that overflows, a collection that
\* frees nothing) ever fails.
NoCheckFails == s.err = ""

\* Whenever the main thread is free to serve it (a merge is over), a read of any
\* block ever written reaches, through the shortcut table, the
\* run's STE and the block table's current place of it, a valid piece with the
\* last data written, or the memtable's page buffer, wherever collections and
\* merges have moved it meanwhile.
ReadsFresh ==
    s.err = "" /\ s.todo = <<>> => \A l \in Lba : s.sc[l] # None =>
        LET x == s.sc[l]
            buffered == {e \in ToSet(s.run[x].pp) : e.lba = l}
            p == PsaOf(s, x, Latest(At(s, x, l)))
        IN /\ s.run[x] # None
           /\ \/ \E e \in buffered : e.fresh
              \/ /\ buffered = {} /\ At(s, x, l) # {}
                 /\ p \in s.bits /\ p \in s.fresh /\ s.oob[p] = l

\* The collector can find whom everything it must move belongs to: a valid data
\* piece lies in a block that the table gives to an STE which is at that block,
\* and a valid summary piece is the summary of an STE, with that STE's first
\* block in its spare area once its page is written.
EverythingOwned ==
    s.err = "" => \A p \in s.bits :
        LET b == BlkOf(p)
        IN IF s.styp[SegOf(b)] = "data"
           THEN /\ s.map[b].type = "normal" /\ s.run[s.map[b].sid] # None
                /\ LET ste == s.run[s.map[b].sid].stes[s.map[b].idx]
                   IN ste.pba = b /\ ~ste.gone
           ELSE \E x \in Sid : /\ s.run[x] # None
                               /\ \E j \in DOMAIN s.run[x].stes :
                                    LET ste == s.run[x].stes[j]
                                    IN /\ ste.piece = p /\ ~ste.gone
                                       /\ s.run[x].mp.page = p \div L2PGAP \/ s.oob[p] = Start(ste)

\* No segment is lost or used twice: each is free, a reserve or a candidate, and
\* the segments being filled are candidates, not free ones.
SegmentsPlaced ==
    s.err = "" =>
        /\ Seg = ToSet(s.freeq) \cup {s.resSeg, s.rsumSeg} \cup s.heap
        /\ Len(s.freeq) + 2 + Cardinality(s.heap) = NOS
        /\ s.sumSeg \in s.heap /\ s.nowSeg # None => s.nowSeg \in s.heap

\* The counters the victim is chosen by are exact: no piece is counted invalid
\* twice.
CountersExact ==
    s.err = "" => \A b \in Blk :
        s.bval[b] - s.binv[b] = Cardinality(PiecesOf(b) \cap s.bits)
=============================================================================
