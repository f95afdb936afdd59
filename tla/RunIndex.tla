------------------------------ MODULE RunIndex ------------------------------
(***************************************************************************)
(* The index functions of an AppL run (layeredLSM/translation_functions)   *)
(* and what is built on them: a sorted run is written block by block, each *)
(* block gets an index of the run's kind, reads ask the index for the      *)
(* place of an address and retry until the out-of-band area of a page      *)
(* confirms it, and a merge walks the summary pages of the blocks.         *)
(* Offsets count from 0 inside a block, as in the code.                    *)
(***************************************************************************)
EXTENDS Integers, Sequences, FiniteSets, SequencesExt

CONSTANTS
    Lba,                    \* addresses, 0 .. n
    L2PGAP, PPB,            \* pieces of a page, pages of a block
    Kinds,                  \* kinds of index: "BF", "GUARD_BF", "PLR", "COMP"
    Hashes,                 \* fingerprints of the addresses (hashfunction, masked)
    Member,                 \* __target_member: filters under one guard
    TICK, CORRECTION, SlopeBit, Range_,         \* the linear model
    XFull, YFull, DeltaSize,                    \* its compressed lines
    PerChunk, CompMax,      \* entries of a compressed chunk; chunks cached
    Prefetch,               \* summary pages read ahead by a merge
    Req                     \* reads in flight

VARIABLES
    kind, hash,             \* of this run
    pp, open, blk,          \* page buffer, block being written, finished blocks
    phase,                  \* "build", "done", "iter", "merged", "gone"
    comp,                   \* compressed indexes cached: list from the most recent, size
    rd,                     \* the reads
    it,                     \* iterator of a merge
    ok                      \* FALSE: the program would have crashed

vars == <<kind, hash, pp, open, blk, phase, comp, rd, it, ok>>

Plr == INSTANCE LinearModel WITH m <- 0, keys <- 0, Gap <- L2PGAP, Steps <- {}, MaxKeys <- 0

NotFound == -1
ReadMap == -2
NoLba == Max(Lba) + 1                   \* UINT32_MAX: larger than every address
Sectors == PPB * L2PGAP                 \* MAX_SECTOR_IN_BLOCK
Ceil(n, d) == (n + d - 1) \div d
Entries(s) == Len(blk[s].lba)
PagesOf(s) == Ceil(Entries(s), L2PGAP)
\* The out-of-band area of a page of a block.
Oob(s, page) == [i \in 0 .. L2PGAP - 1 |->
                    LET k == page * L2PGAP + i + 1
                    IN  IF k \in 1 .. Entries(s) THEN blk[s].lba[k] ELSE NoLba]

(***************************************************************************)
(* Binary searches of search_template.h, over positions 0 .. n.            *)
(***************************************************************************)
BsSearch(f, l) ==
    LET at(i) == IF i < Len(f) THEN f[i + 1] ELSE NoLba
        step(s, i) ==
            LET mid == (s.lo + s.hi) \div 2
            IN  IF s.res # NotFound \/ s.lo > s.hi THEN s
                ELSE IF at(mid) = l THEN [s EXCEPT !.res = mid]
                ELSE IF at(mid) < l THEN [s EXCEPT !.lo = mid + 1]
                ELSE [s EXCEPT !.hi = mid - 1]
    IN  FoldLeft(step, [lo |-> 0, hi |-> Len(f), res |-> NotFound], [i \in 0 .. Len(f) |-> i]).res
BsLowerBound(f, n, l) ==
    LET step(s, i) ==
            LET mid == s.lo + (s.hi - s.lo) \div 2
            IN  IF s.lo >= s.hi THEN s
                ELSE IF f[mid] >= l THEN [s EXCEPT !.hi = mid]
                ELSE [s EXCEPT !.lo = mid + 1]
    IN  FoldLeft(step, [lo |-> 0, hi |-> n], [i \in 1 .. n |-> i]).lo

(***************************************************************************)
(* Bloom filters, one of a fingerprint per entry; with guards, a set of    *)
(* Member filters is searched after the guard of the set.                  *)
(***************************************************************************)
BfCheck(f, l) == f = hash[l]
\* The first of the positions from .. to - 1 whose filter answers yes.
FirstYes(fs, from, to, l) ==
    LET yes == {i \in from .. to - 1 : BfCheck(fs[i + 1], l)}
    IN  IF yes = {} THEN NotFound ELSE Min(yes)

BfgInsert(mf, l) ==
    LET set == mf.wp \div Member
    IN  [mf EXCEPT !.guard = IF mf.bf[set] = <<>> THEN [@ EXCEPT ![set] = l] ELSE @,
                   !.bf[set] = Append(@, hash[l]), !.wp = @ + 1]
BfgMap(f) ==
    LET sets == Ceil(Sectors, Member)
    IN  FoldLeft(BfgInsert, [bf |-> [i \in 0 .. sets - 1 |-> <<>>], wp |-> 0,
                             guard |-> [i \in 0 .. sets |-> NoLba]], f)
BfgQuery(mf, l) ==
    LET at == BsLowerBound(mf.guard, Ceil(mf.wp, Member), l)
        set == IF mf.guard[at] > l THEN at - 1 ELSE at
        i == FirstYes(mf.bf[set], 0, Len(mf.bf[set]), l)
    IN  IF set = -1 \/ i = NotFound THEN NotFound ELSE set * Member + i
\* Mistake: the filter after the one that lied is skipped as well.
BfgSkipsOne(mf, l, prev) ==
    LET fs == mf.bf[prev \div Member]
        from == (prev + 2) % Member
        i == FirstYes(fs, from, Len(fs), l)
    IN  IF i = NotFound THEN NotFound ELSE prev + 2 + i - from
BfgRetry(mf, l, prev) ==
    LET fs == mf.bf[prev \div Member]
        from == (prev + 1) % Member
        i == FirstYes(fs, from, Len(fs), l)
    IN  IF prev >= mf.wp \/ i = NotFound THEN NotFound ELSE prev + 1 + i - from

BfMap(f) == [i \in DOMAIN f |-> hash[f[i]]]
BfQuery(mf, l, from) == FirstYes(mf, from, Len(mf), l)

(***************************************************************************)
(* The linear model: an address is predicted to a page.  Lines are kept in *)
(* chunks as differences of XBit and YBit bits.                            *)
(***************************************************************************)
LinePushBack(cs, ln) ==
    LET last == cs[Len(cs)]
    IN  IF cs = <<>> \/ Len(last.ent) = DeltaSize \/ ln.x - last.px > XFull \/ ln.y - last.py > YFull
        THEN Append(cs, [x |-> ln.x, y |-> ln.y, px |-> ln.x, py |-> ln.y,
                         ent |-> <<[dx |-> XFull, dy |-> YFull, a |-> ln.a, b |-> ln.b]>>])
        ELSE [cs EXCEPT ![Len(cs)] =
                [@ EXCEPT !.ent = Append(@, [dx |-> (ln.x - last.px) % (XFull + 1),
                                             dy |-> (ln.y - last.py) % (YFull + 1), a |-> ln.a, b |-> ln.b]),
                          !.px = ln.x, !.py = ln.y]]
\* get: binary search of the chunk, then a walk over its lines.
ChunkLine(cs, l) ==
    LET halve(s, i) ==
            LET mid == s.lo + (s.hi - s.lo) \div 2
            IN  IF s.hi - s.lo <= 1 THEN s
                ELSE IF l >= cs[mid].x THEN [s EXCEPT !.lo = mid] ELSE [s EXCEPT !.hi = mid]
        c == cs[FoldLeft(halve, [lo |-> 1, hi |-> Len(cs) + 1], cs).lo]
        walk(s, e) ==
            IF s.stop \/ l < s.x + e.dx THEN [s EXCEPT !.stop = TRUE]
            ELSE [s EXCEPT !.x = @ + e.dx, !.y = @ + e.dy, !.a = e.a, !.b = e.b]
    IN  FoldLeft(walk, [x |-> c.x, y |-> c.y, a |-> c.ent[1].a, b |-> c.ent[1].b, stop |-> FALSE], Tail(c.ent))
\* The model itself is the one of LeaFTL (LinearModel), copied into AppL.  With a
\* single entry its bounds are not initialised; the clamp of get hides the outcome.
PlrInit == Plr!NewModel
PlrInsert(m, l, page) == Plr!Inserted(m, Plr!Point(l, page))
PlrEnd(m) == Plr!Finished(m).lines
PlrMap(f) ==
    LET put(m, i) == PlrInsert(m, f[i], (i - 1) \div L2PGAP)
    IN  FoldLeft(LinePushBack, <<>>, PlrEnd(FoldLeft(put, PlrInit, [i \in DOMAIN f |-> i])))
PlrQuery(mf, l, n) == Plr!Get([lines |-> <<ChunkLine(mf, l)>>], l, 0, (n - 1) \div L2PGAP) * L2PGAP
PlrRetry(prev, l, oob) ==
    IF l < oob[0] THEN (prev \div L2PGAP) * L2PGAP - 1
    ELSE IF l > oob[L2PGAP - 1] THEN (prev \div L2PGAP + 1) * L2PGAP
    ELSE prev

(***************************************************************************)
(* Compressed summaries: the sorted addresses of a block, cached within a  *)
(* budget shared by the blocks and read from flash otherwise.              *)
(***************************************************************************)
CompBits(f) == IF Len(f) = 1 THEN 1 ELSE Ceil(Len(f), PerChunk)
BitsOf(s) == CompBits(blk[s].lba)
MakeRoom(c, need, size) ==
    LET drop(s, i) == IF s.now + need <= CompMax \/ s.lru = <<>> THEN s
                      ELSE [lru |-> Front(s.lru), now |-> s.now - size[Last(s.lru)]]
    IN  FoldLeft(drop, c, c.lru)
Admit(c, s, need, size) ==
    LET r == MakeRoom(c, need, size)
    IN  [lru |-> <<s>> \o r.lru, now |-> r.now + need]
Touch(c, s) == [c EXCEPT !.lru = <<s>> \o SelectSeq(@, LAMBDA t : t # s)]
Cached(s) == s \in ToSet(comp.lru)

(***************************************************************************)
(* Writing the run: addresses arrive in increasing order.                  *)
(***************************************************************************)
MapOf(f) == CASE kind = "BF" -> BfMap(f)
              [] kind = "GUARD_BF" -> BfgMap(f)
              [] kind = "PLR" -> PlrMap(f)
              [] kind = "COMP" -> <<>>

Init ==
    /\ kind \in Kinds
    /\ hash \in IF kind \in {"BF", "GUARD_BF"} THEN Hashes ELSE {CHOOSE h \in Hashes : TRUE}
    /\ pp = <<>> /\ open = <<>> /\ blk = <<>> /\ phase = "build"
    /\ comp = [lru |-> <<>>, now |-> 0]
    /\ rd = [q \in Req |-> [st |-> "idle", lba |-> 0, ste |-> 0, off |-> 0, again |-> FALSE]]
    /\ it = [ste |-> 0, ptr |-> <<>>, read |-> 0, ready |-> {}, fin |-> {}, freed |-> {}, seen |-> <<>>, skip |-> {}]
    /\ ok = TRUE

\* st_array_get_summary_param: the block's index is finished (make_done).
FinishBlock(f) ==
    LET s == Len(blk) + 1
        size == [t \in 1 .. s |-> IF t = s THEN CompBits(f) ELSE BitsOf(t)]
    IN  /\ blk' = Append(blk, [lba |-> f, mf |-> MapOf(f)])
        /\ open' = <<>>
        /\ comp' = IF kind = "COMP" THEN Admit(comp, s, CompBits(f), size) ELSE comp
        /\ ok' = (ok /\ CompBits(f) <= CompMax)

\* run_insert: pieces are buffered until they fill a page, pages fill a block.
RunInsert(l) ==
    /\ phase = "build"
    /\ \A x \in ToSet(pp) \cup ToSet(open) \cup UNION {ToSet(blk[s].lba) : s \in DOMAIN blk} : x < l
    /\ LET page == Append(pp, l)
           full == Len(page) = L2PGAP
       IN  /\ pp' = IF full THEN <<>> ELSE page
           /\ IF full /\ Len(open) + L2PGAP = Sectors THEN FinishBlock(open \o page)
              ELSE open' = (IF full THEN open \o page ELSE open) /\ UNCHANGED <<blk, comp, ok>>
    /\ UNCHANGED <<kind, hash, phase, rd, it>>

RunInsertDone ==
    /\ phase = "build" /\ <<blk, open, pp>> # <<<<>>, <<>>, <<>>>>
    /\ IF open \o pp = <<>> THEN UNCHANGED <<blk, comp, ok, open>> ELSE FinishBlock(open \o pp)
    /\ pp' = <<>> /\ phase' = "done"
    /\ UNCHANGED <<kind, hash, rd, it>>

(***************************************************************************)
(* Reading.  The shortcut table sends a read only to a run that has it.    *)
(***************************************************************************)
TargetSte(l) == CHOOSE s \in DOMAIN blk : blk[s].lba[1] <= l /\ Last(blk[s].lba) >= l
Place(q, off, again) ==
    [rd EXCEPT ![q].off = off, ![q].again = again,
               ![q].st = IF off = NotFound THEN "lost" ELSE IF off = ReadMap THEN "map" ELSE "data"]

Query(s, l) ==
    LET mf == blk[s].mf
    IN  CASE kind = "BF" -> BfQuery(mf, l, 0)
          [] kind = "GUARD_BF" -> BfgQuery(mf, l)
          [] kind = "PLR" -> PlrQuery(mf, l, Entries(s))
          [] kind = "COMP" -> IF Cached(s) THEN BsSearch(blk[s].lba, l) ELSE ReadMap
RunQuery(q, l) ==
    /\ phase = "done" /\ rd[q].st = "idle"
    /\ \E s \in DOMAIN blk : l \in ToSet(blk[s].lba)
    /\ LET s == TargetSte(l)
           off == Query(s, l)
       IN  /\ rd' = [Place(q, off, FALSE) EXCEPT ![q].lba = l, ![q].ste = s]
           /\ comp' = IF kind = "COMP" /\ Cached(s) THEN Touch(comp, s) ELSE comp
    /\ UNCHANGED <<kind, hash, pp, open, blk, phase, it, ok>>

\* oob_check when a page arrives: the linear model may find the address in any
\* slot of the page, the others only where they said.
CheckData(q) ==
    /\ rd[q].st \in {"data", "map"}
    /\ LET r == rd[q]
           oob == Oob(r.ste, r.off \div L2PGAP)
           hit == IF kind = "PLR" THEN \E i \in DOMAIN oob : oob[i] = r.lba
                  ELSE r.st = "data" /\ oob[r.off % L2PGAP] = r.lba
       IN  rd' = [rd EXCEPT ![q].st = IF hit THEN "idle" ELSE "retry"]
    /\ UNCHANGED <<kind, hash, pp, open, blk, phase, comp, it, ok>>

Retry(r) ==
    LET mf == blk[r.ste].mf
    IN  CASE kind = "BF" -> BfQuery(mf, r.lba, r.off + 1)
          [] kind = "GUARD_BF" -> BfgRetry(mf, r.lba, r.off)
          [] kind = "PLR" -> IF r.again THEN NotFound ELSE PlrRetry(r.off, r.lba, Oob(r.ste, r.off \div L2PGAP))
          [] kind = "COMP" -> BsSearch(blk[r.ste].lba, r.lba)
RunQueryRetry(q) ==
    /\ phase = "done" /\ rd[q].st = "retry"
    /\ rd' = Place(q, Retry(rd[q]), TRUE)
    /\ comp' = CASE kind # "COMP" -> comp
                 [] Cached(rd[q].ste) -> Touch(comp, rd[q].ste)
                 [] OTHER -> Admit(comp, rd[q].ste, BitsOf(rd[q].ste), [s \in DOMAIN blk |-> BitsOf(s)])
    /\ UNCHANGED <<kind, hash, pp, open, blk, phase, it, ok>>

(***************************************************************************)
(* Merging: summary pages are read Prefetch blocks ahead; a block the      *)
(* merge moves as a whole is skipped.                                      *)
(***************************************************************************)
\* A merge that starts with reads in flight is IndexCache's subject.
IterInit ==
    /\ phase = "done" /\ \A q \in Req : rd[q].st = "idle"
    /\ phase' = "iter"
    /\ it' = [it EXCEPT !.ste = 1, !.ptr = [s \in DOMAIN blk |-> 0], !.read = Min({Len(blk), Prefetch})]
    /\ UNCHANGED <<kind, hash, pp, open, blk, comp, rd, ok>>

SummaryReadDone(s) ==
    /\ phase = "iter" /\ s \in 1 .. it.read \ it.ready
    /\ it' = [it EXCEPT !.ready = @ \cup {s}]
    /\ UNCHANGED <<kind, hash, pp, open, blk, phase, comp, rd, ok>>

Pair(s, k) == IF k < Entries(s) THEN blk[s].lba[k + 1] ELSE NoLba
NextSte(i) == [i EXCEPT !.ste = @ + 1, !.read = IF @ < Len(blk) THEN @ + 1 ELSE @]
\* Mistake: the walk of a page stops at the slot before the last.
StopsEarly(s, k) == k = Sectors - 1 \/ Pair(s, k) = NoLba
PageDone(s, k) == k = Sectors \/ Pair(s, k) = NoLba
IterMove ==
    /\ phase = "iter" /\ it.ste <= Len(blk) /\ it.ste \in it.ready
    /\ LET s == it.ste
           i == [it EXCEPT !.ptr[s] = @ + 1, !.seen = Append(@, Pair(s, it.ptr[s]))]
       IN  it' = IF PageDone(s, i.ptr[s])
                 THEN NextSte([i EXCEPT !.fin = @ \cup {s}, !.freed = @ \cup {s}]) ELSE i
    /\ UNCHANGED <<kind, hash, pp, open, blk, phase, comp, rd, ok>>
IterMoveSte ==
    /\ phase = "iter" /\ it.ste <= Len(blk) /\ it.ste \in it.ready /\ it.ptr[it.ste] = 0
    /\ it' = NextSte([it EXCEPT !.skip = @ \cup {it.ste}, !.seen = @ \o blk[it.ste].lba])
    /\ UNCHANGED <<kind, hash, pp, open, blk, phase, comp, rd, ok>>
\* sp_set_iter_free: pages not walked to their end give back their buffer here.
IterFree ==
    /\ phase = "iter" /\ it.ste > Len(blk)
    /\ it' = [it EXCEPT !.freed = @ \cup {s \in DOMAIN blk : s \notin it.fin}]
    /\ phase' = "merged"
    /\ ok' = (ok /\ it.read = Len(blk))
    /\ UNCHANGED <<kind, hash, pp, open, blk, comp, rd>>

\* run_free after the merge: cached summaries leave the budget.
RunFree ==
    /\ phase = "merged"
    /\ phase' = "gone"
    /\ comp' = IF kind # "COMP" THEN comp
               ELSE [lru |-> <<>>, now |-> comp.now - FoldLeft(LAMBDA n, s : n + BitsOf(s), 0, comp.lru)]
    /\ UNCHANGED <<kind, hash, pp, open, blk, rd, it, ok>>

Next ==
    \/ \E l \in Lba : RunInsert(l)
    \/ RunInsertDone
    \/ \E q \in Req, l \in Lba : RunQuery(q, l)
    \/ \E q \in Req : CheckData(q) \/ RunQueryRetry(q)
    \/ IterInit
    \/ \E s \in DOMAIN blk : SummaryReadDone(s)
    \/ IterMove
    \/ IterMoveSte
    \/ IterFree
    \/ RunFree

Spec == Init /\ [][Next]_vars

(* A read of an address the run holds is never answered "not found", and    *)
(* every page it tries belongs to the block: a false positive or a wrong    *)
(* prediction costs reads, never the block (map_query and map_query_retry   *)
(* "return psa which has probability of storing the target data").          *)
EntriesFound ==
    \A q \in Req :
        /\ rd[q].st # "lost"
        /\ rd[q].st = "data" => rd[q].off \div L2PGAP \in 0 .. PagesOf(rd[q].ste) - 1

(* The line stored in bit-packed chunks is the line the model drew: every   *)
(* address of a block is looked up on the line that was fitted to it.       *)
LinesKept ==
    kind = "PLR" => \A s \in DOMAIN blk : \A i \in DOMAIN blk[s].lba :
        PlrQuery(blk[s].mf, blk[s].lba[i], Entries(s)) \div L2PGAP - (i - 1) \div L2PGAP \in -1 .. 1

(* The cached summaries are counted exactly, within the budget, and the     *)
(* eviction loops never take from an empty list, which they do not test.    *)
CompWithinBudget ==
    /\ ok
    /\ comp.now <= CompMax
    /\ comp.now = IF phase = "gone" THEN 0 ELSE FoldLeft(LAMBDA n, s : n + BitsOf(s), 0, comp.lru)

(* A merge sees every entry of the run once and in order, whichever blocks  *)
(* it moves whole, and gives back the buffer of every summary page.         *)
MergeSeesAll ==
    phase \in {"merged", "gone"} =>
        /\ it.seen = FoldLeft(LAMBDA f, b : f \o b.lba, <<>>, blk)
        /\ it.freed = DOMAIN blk
=============================================================================
