------------------------------ MODULE LeaGroup ------------------------------
(***************************************************************************)
(* The learned index of one translation group (leaFTL/group.cc,            *)
(* PLR_segment.cc, CRB.cc and the segment cutting of leaFTL.cc).  A batch  *)
(* of sorted addresses written to contiguous pieces is cut into accurate   *)
(* and approximate segments; a segment enters level 0 and pushes the ones  *)
(* it overlaps into a new level 1.  seg_list, the table of the newest      *)
(* segment of each address, answers look-ups (fast_search is always on).   *)
(* An approximate segment predicts a page at most one off, within its own  *)
(* pages (module LinearModel), and the addresses in the spare area decide. *)
(***************************************************************************)
EXTENDS Integers, Sequences, FiniteSets, SequencesExt

CONSTANTS
    Lba, Gap,    \* addresses of the group; pieces of a page (L2PGAP)
    NOS, PPS,    \* flash segments, pages of each
    MaxBatches,  \* bound: batches written
    WritePages,  \* pages of a flush of the write buffer
    AppLines,    \* lines of an approximate segment
    Nil

VARIABLES
    levels,   \* gp->level_list
    segList,  \* gm.seg_list
    crb,      \* master_crb of the group
    size,     \* gp->size in bytes
    oob,      \* spare area of each page
    fp,       \* next page of the active flash segment
    used,     \* flash segments written since the start
    exact,    \* exact_map
    batches   \* segments and batches so far: segment.seq

groupVars == <<levels, segList, crb, size>>
vars == <<groupVars, oob, fp, used, exact, batches>>

Init ==
    /\ levels = <<>> /\ segList = [l \in Lba |-> Nil] /\ crb = {} /\ size = 0
    /\ oob = [p \in 0 .. NOS * PPS - 1 |-> [i \in 1 .. Gap |-> 0]]
    /\ fp = 0 /\ used = {0} /\ exact = [l \in Lba |-> Nil] /\ batches = 0

Ascending(S) == SetToSortSeq(S, LAMBDA a, b : a < b)
-----------------------------------------------------------------------------
(* Cutting a batch: runs of three or more addresses at one interval become *)
(* accurate segments, what lies before them an approximate one.            *)

\* wrapper_group_insert: one or two addresses are always accurate.
Cut(from, len, acc, interval) == [from |-> from, len |-> len, acc |-> acc, interval |-> interval]
\* One address of the batch in lea_making_segment_per_gp; i0 is its index
\* in the code.  After a break the interval is unknown and matches nothing.
CutStep(keys, s, i) ==
    LET d == keys[i] - keys[i - 1]
        app == IF s.appFrom = 0 THEN s.accFrom ELSE s.appFrom
        open == [s EXCEPT !.accFrom = i, !.accLen = 1, !.d = -1]
    IN  IF s.accFrom = 0 THEN [s EXCEPT !.accFrom = i - 1, !.accLen = 2, !.d = d]
        ELSE IF s.d = d THEN [s EXCEPT !.accLen = @ + 1]
        ELSE IF s.accLen < 3
             THEN [open EXCEPT !.appFrom = app, !.appLen = @ + s.accLen]
             ELSE [open EXCEPT
                     !.out = @ \o (IF s.appFrom = 0 THEN <<>>
                                   ELSE <<Cut(s.appFrom, s.appLen, FALSE, 0)>>)
                               \o <<Cut(s.accFrom, s.accLen, TRUE, s.d)>>,
                     !.appFrom = 0, !.appLen = 0]
Cuts(keys) ==
    LET s == FoldLeft(LAMBDA a, i : CutStep(keys, a, i),
                      [accFrom |-> 0, accLen |-> 0, d |-> 0, appFrom |-> 0, appLen |-> 0, out |-> <<>>],
                      [i \in 1 .. Len(keys) - 1 |-> i + 1])
        short == s.accLen < 3
        appFrom == IF short /\ s.appFrom = 0 THEN s.accFrom ELSE s.appFrom
        appLen == IF short THEN s.appLen + s.accLen ELSE s.appLen
    IN  IF Len(keys) = 1 THEN <<Cut(1, 1, FALSE, 0)>>
        ELSE s.out \o (IF appFrom = 0 THEN <<>> ELSE <<Cut(appFrom, appLen, FALSE, 0)>>)
                   \o (IF short THEN <<>> ELSE <<Cut(s.accFrom, s.accLen, TRUE, s.d)>>)

\* segment_make
Segment(keys, first, c, seq) ==
    LET lba == SubSeq(keys, c.from, c.from + c.len - 1)
        piece == first + c.from - 1
    IN  [seq |-> seq, acc |-> c.acc \/ c.len <= 2, start |-> lba[1], end |-> Last(lba), piece |-> piece,
         interval |-> IF c.len = 1 THEN 0 ELSE IF c.len = 2 THEN lba[2] - lba[1] ELSE c.interval,
         at |-> [l \in ToSet(lba) |-> piece + (CHOOSE i \in DOMAIN lba : lba[i] = l) - 1]]
SegmentSize(s) == IF s.acc THEN 8 ELSE AppLines * 8
-----------------------------------------------------------------------------
(* group_insert and group_segment_update.                                  *)

AccInclude(s, l) == s.start <= l /\ l <= s.end /\ (s.interval # 0 => (l - s.start) % s.interval = 0)
\* segment_removable, on accurate segments; for an approximate one the code
\* compares half a pointer with the interval, which never matches.
Removable(old, new) ==
    /\ new.acc /\ old.acc
    /\ old.start >= new.start /\ old.end <= new.end
    /\ IF old.interval = 0 THEN AccInclude(new, old.start)
       ELSE old.interval = new.interval /\ (old.start - new.start) % new.interval = 0

\* level_lower_bound_wrapper: where the search for seg starts in a level.
LowerBound(lev, seg) ==
    LET below == Cardinality({i \in DOMAIN lev : lev[i].start < seg.start})
    IN  IF below = Len(lev) THEN Len(lev)
        ELSE IF lev[below + 1].start > seg.start /\ below > 0 THEN below ELSE below + 1
\* find_overlap
Overlap(a, b) == ~(a.start > b.end \/ a.end < b.start)
Overlapped(lev, seg) == SelectSeq(SubSeq(lev, LowerBound(lev, seg), Len(lev)), LAMBDA s : Overlap(s, seg))
\* The place of seg in the level once the overlapped segments are out.
LevelInsert(lev, seg) ==
    LET k == Cardinality({i \in DOMAIN lev : lev[i].start < seg.start})
    IN  SubSeq(lev, 1, k) \o <<seg>> \o SubSeq(lev, k + 1, Len(lev))

LevelSize(lev) == FoldLeft(LAMBDA n, s : n + SegmentSize(s), 0, lev)
CrbSize(c) == 4 * Cardinality(c)

PushDown(lv, lev0, down) == <<lev0>> \o (IF down = <<>> THEN <<>> ELSE <<down>>) \o Tail(lv)

GroupInsert(g, seg) ==
    LET lv == IF g.levels = <<>> THEN <<<<>>>> ELSE g.levels
        hit == IF lv[1] = <<>> THEN <<>> ELSE Overlapped(lv[1], seg)
        stay == SelectSeq(lv[1], LAMBDA s : \A i \in DOMAIN hit : hit[i] # s)
        down == SelectSeq(hit, LAMBDA s : ~Removable(s, seg))
        lev0 == LevelInsert(stay, seg)
        crb2 == IF seg.acc THEN g.crb \ DOMAIN seg.at ELSE g.crb \cup DOMAIN seg.at
    IN  [levels |-> PushDown(lv, lev0, down),
         crb |-> crb2,
         segList |-> [l \in Lba |-> IF l \in DOMAIN seg.at THEN seg ELSE g.segList[l]],
         size |-> g.size - LevelSize(lv[1]) - CrbSize(g.crb)
                    + LevelSize(lev0) + CrbSize(crb2) + LevelSize(down)]

\* lea_making_segment_per_gp on a batch that starts at a page.
MakeSegments(keys, page) ==
    LET cuts == Cuts(keys)
        g == FoldLeft(LAMBDA a, i : GroupInsert(a, Segment(keys, page * Gap, cuts[i], <<batches, i>>)),
                      [levels |-> levels, segList |-> segList, crb |-> crb, size |-> size],
                      [i \in DOMAIN cuts |-> i])
    IN  levels' = g.levels /\ segList' = g.segList /\ crb' = g.crb /\ size' = g.size
-----------------------------------------------------------------------------
(* Batches.  pm_page_flush validates the pieces it fills and writes their  *)
(* addresses to the spare area; the slots a short last page does not fill  *)
(* keep the zeros of block_reinit (validate_ppa copies max_idx of them).   *)
Pages(keys) == (Len(keys) + Gap - 1) \div Gap
Live(s) == {l \in Lba : exact[l] # Nil /\ exact[l] \div (Gap * PPS) = s}
Write(keys, page) ==
    LET at(p, i) == (p - page) * Gap + i
        new == page .. page + Pages(keys) - 1
        fresh == page % PPS = 0
    IN  /\ batches < MaxBatches
        /\ MakeSegments(keys, page)
        /\ oob' = [p \in DOMAIN oob |->
                     [i \in 1 .. Gap |-> IF p \in new /\ at(p, i) <= Len(keys) THEN keys[at(p, i)]
                                         ELSE IF fresh /\ p \div PPS = page \div PPS THEN 0
                                         ELSE oob[p][i]]]
        /\ exact' = [l \in Lba |-> IF \E i \in DOMAIN keys : keys[i] = l
                                   THEN page * Gap + (CHOOSE i \in DOMAIN keys : keys[i] = l) - 1
                                   ELSE exact[l]]
        /\ fp' = page + Pages(keys)
        /\ used' = used \cup {page \div PPS}
        /\ batches' = batches + 1

\* The active segment is the one of the last page written; a collected one
\* without live data is free again.
Active == (fp - 1) \div PPS
Erased == {s \in 0 .. NOS - 1 : s \notin used \/ (s # Active /\ Live(s) = {})}

\* lea_write_buffer_flush: whole pages of the sorted buffer, as many as the
\* active segment has left; a new one is taken when it is full.
Flush(S) ==
    /\ Cardinality(S) % Gap = 0
    /\ fp % PPS # 0 \/ fp = 0
    /\ (fp % PPS) + Cardinality(S) \div Gap <= PPS
    /\ Write(Ascending(S), fp)
FlushNew(S, s) ==
    /\ Cardinality(S) % Gap = 0 /\ Cardinality(S) \div Gap <= PPS
    /\ fp % PPS = 0 /\ fp # 0
    /\ s \in Erased
    /\ Write(Ascending(S), s * PPS)
\* pm_data_gc: the live pieces of the victim, sorted by address, go to the
\* reserve, which becomes the active segment.
Collect(v, s) ==
    /\ s \in Erased /\ v # s /\ Live(v) # {}
    /\ fp % PPS = 0
    /\ Write(Ascending(Live(v)), s * PPS)

Batch == {S \in SUBSET Lba : Cardinality(S) \in {Gap * k : k \in 1 .. WritePages}}
Next ==
    \/ \E S \in Batch : Flush(S) \/ \E s \in 0 .. NOS - 1 : FlushNew(S, s)
    \/ \E v, s \in 0 .. NOS - 1 : Collect(v, s)
-----------------------------------------------------------------------------
(* group_get and group_oob_check: every answer a look-up may give.         *)
SlotOf(l, p) == {i \in 1 .. Gap : oob[p][i] = l}
Found(l, p) == p * Gap + (CHOOSE i \in SlotOf(l, p) : \A j \in SlotOf(l, p) : i <= j) - 1
\* Mistake: the neighbour is looked for on the wrong side.
NeighbourSwapped(l, p) == IF l < oob[p][1] THEN p + 1 ELSE IF l > oob[p][Gap] THEN p - 1 ELSE p
Neighbour(l, p) == IF l < oob[p][1] THEN p - 1 ELSE IF l > oob[p][Gap] THEN p + 1 ELSE p
OobSearch(l, p) ==
    IF SlotOf(l, p) # {} THEN Found(l, p)
    ELSE LET q == Neighbour(l, p)
         IN  IF q \in DOMAIN oob /\ SlotOf(l, q) # {} THEN Found(l, q) ELSE Nil
Predictions(s, l) ==
    {p \in (s.at[l] \div Gap) - 1 .. (s.at[l] \div Gap) + 1 :
        s.at[s.start] \div Gap <= p /\ p <= s.at[s.end] \div Gap}
GroupGet(l) ==
    LET s == segList[l]
    IN  IF s = Nil THEN {Nil}
        ELSE IF s.start = l THEN {s.piece}
        ELSE IF s.acc THEN {(l - s.start) \div (IF s.interval = 0 THEN 1 ELSE s.interval) + s.piece}
        ELSE {OobSearch(l, p) : p \in Predictions(s, l)}

(* Whatever page the linear model predicts, a look-up finds the piece the    *)
(* address was last written or moved to ("address error find_ppa").         *)
LookupExact == \A l \in Lba : GroupGet(l) = {exact[l]}

(* The table of newest segments names only segments some level still holds  *)
(* (removed ones are freed), and a level is sorted and free of overlaps, as  *)
(* the binary searches need ("level constraint error!").                    *)
LevelsSound ==
    /\ \A l \in Lba : segList[l] # Nil =>
          \E k \in DOMAIN levels : \E i \in DOMAIN levels[k] : levels[k][i] = segList[l]
    /\ \A k \in DOMAIN levels : \A i \in 1 .. Len(levels[k]) - 1 :
          levels[k][i].end < levels[k][i + 1].start

(* The group's size, which the cache is charged for, is what its levels and  *)
(* its conflict buffer take.                                                *)
SizeExact == size = FoldLeft(LAMBDA n, lev : n + LevelSize(lev), CrbSize(crb), levels)
=============================================================================
