----------------------------- MODULE MCMappings ------------------------------
(***************************************************************************)
(* The mapping structures of the FTLs, each on an instance of its own      *)
(* within one run: the four parts of the learned FTL, the fine and the     *)
(* SFTL cache of the demand-paged FTL, and the heap of collection          *)
(* candidates all of them share.  Which one a behaviour is about is chosen *)
(* at the start; the variables of the others stay at Off.                  *)
(***************************************************************************)
EXTENDS Integers, Sequences, FiniteSets, SequencesExt

CONSTANTS Nil, Off,
    TICK, CORRECTION, SlopeBit, Range_, LineGap, Steps, MaxKeys,
    GroupLba, Gap, NOS, PPS, MaxBatches, WritePages, AppLines,
    Lba, PerGroup, FtlGap, SegPages, Segs, WbMax, MaxUnits, Rid, Approx, MaxWrites,
    DataLba, Grp, PageNOS, PagePPS, MinMap, MaxFlush,
    FineLba, EntPerPage, MaxMap, FineRid, Writes, FineMaxVer, MaxExtra,
    SftlGtd, PerPage, BITMAPSIZE, MaxBytes, Used, MaxPpa,
    HeapSeg, MaxWeight

\* The reads of the learned FTL are interchangeable.
ReadSymmetry == Permutations(Rid)

VARIABLES
    part,
    m, keys,
    levels, segList, crb, size, oob, fp, used, exact, batches,
    gp, lru, now, reserve, map, disk, left, erased, rb, joined, wb, req, rq, io,
    pc, todo, later, admitted, batch, isgc, ver, out, bp,
    pages, flag, freeq, heap, act, rsv, num, at, pend, evicting, ok, writes,
    w, frun, fver, power, extra,
    sc, gtdSize, slru, snow, status, flash, op, wp, smap, sok,
    body, weight, last

Line == INSTANCE LinearModel WITH Gap <- LineGap
Index == INSTANCE LeaGroup WITH Lba <- GroupLba
Ftl == INSTANCE LeaFTL WITH Gap <- FtlGap
Pages == INSTANCE LeaPages WITH Lba <- DataLba, NOS <- PageNOS, PPS <- PagePPS
Fine == INSTANCE FineCache WITH Lba <- FineLba, Rid <- FineRid, MaxVer <- FineMaxVer, None <- Nil,
                                run <- frun, ver <- fver
Sftl == INSTANCE SftlCache WITH Gtd <- SftlGtd, size <- gtdSize,
                                lru <- slru, now <- snow, map <- smap, ok <- sok
Heap == INSTANCE MaxHeap WITH Seg <- HeapSeg

lineVars == <<m, keys>>
indexVars == <<levels, segList, crb, size, oob, fp, used, exact, batches>>
ftlVars == <<gp, lru, now, reserve, map, disk, left, erased, rb, joined, wb, req, rq, io,
             pc, todo, later, admitted, batch, isgc, ver, out, bp>>
pageVars == <<pages, flag, freeq, heap, act, rsv, num, at, pend, evicting, ok, writes>>
leaVars == <<lineVars, indexVars, ftlVars, pageVars>>
fineVars == <<w, frun, fver, power, extra>>
sftlVars == <<sc, gtdSize, slru, snow, status, flash, op, wp, smap, sok>>
heapVars == <<body, weight, last>>
vars == <<part, leaVars, fineVars, sftlVars, heapVars>>

NoLine == m = Off /\ keys = Off
NoIndex == /\ levels = Off /\ segList = Off /\ crb = Off /\ size = Off /\ oob = Off
           /\ fp = Off /\ used = Off /\ exact = Off /\ batches = Off
NoFtl == /\ gp = Off /\ lru = Off /\ now = Off /\ reserve = Off /\ map = Off /\ wb = Off
         /\ disk = Off /\ left = Off /\ erased = Off /\ rb = Off /\ joined = Off
         /\ req = Off /\ rq = Off /\ io = Off /\ pc = Off /\ todo = Off /\ later = Off
         /\ admitted = Off /\ batch = Off /\ isgc = Off /\ ver = Off /\ out = Off /\ bp = Off
NoPages == /\ pages = Off /\ flag = Off /\ freeq = Off /\ heap = Off /\ act = Off /\ rsv = Off
           /\ num = Off /\ at = Off /\ pend = Off /\ evicting = Off /\ ok = Off /\ writes = Off
NoLea == NoLine /\ NoIndex /\ NoFtl /\ NoPages
NoFine == w = Off /\ frun = Off /\ fver = Off /\ power = Off /\ extra = Off
NoSftl == /\ sc = Off /\ gtdSize = Off /\ slru = Off /\ snow = Off /\ status = Off /\ flash = Off
          /\ op = Off /\ wp = Off /\ smap = Off /\ sok = Off
NoHeap == body = Off /\ weight = Off /\ last = Off
NoOther == NoFine /\ NoSftl /\ NoHeap

Init ==
    \/ part = "line" /\ Line!Init /\ NoIndex /\ NoFtl /\ NoPages /\ NoOther
    \/ part = "index" /\ Index!Init /\ NoLine /\ NoFtl /\ NoPages /\ NoOther
    \/ part = "ftl" /\ Ftl!Init /\ NoLine /\ NoIndex /\ NoPages /\ NoOther
    \/ part = "pages" /\ Pages!Init /\ NoLine /\ NoIndex /\ NoFtl /\ NoOther
    \/ part = "fine" /\ Fine!Init /\ NoLea /\ NoSftl /\ NoHeap
    \/ part = "sftl" /\ Sftl!Init /\ NoLea /\ NoFine /\ NoHeap
    \/ part = "heap" /\ Heap!Init /\ NoLea /\ NoFine /\ NoSftl
Next ==
    /\ UNCHANGED part
    /\ \/ /\ \/ part = "line" /\ Line!Next /\ UNCHANGED <<indexVars, ftlVars, pageVars>>
             \/ part = "index" /\ Index!Next /\ UNCHANGED <<lineVars, ftlVars, pageVars>>
             \/ part = "ftl" /\ Ftl!Next /\ UNCHANGED <<lineVars, indexVars, pageVars>>
             \/ part = "pages" /\ Pages!Next /\ UNCHANGED <<lineVars, indexVars, ftlVars>>
          /\ UNCHANGED <<fineVars, sftlVars, heapVars>>
       \/ part = "fine" /\ Fine!Next /\ UNCHANGED <<leaVars, sftlVars, heapVars>>
       \/ part = "sftl" /\ Sftl!Next /\ UNCHANGED <<leaVars, fineVars, heapVars>>
       \/ part = "heap" /\ Heap!Next /\ UNCHANGED <<leaVars, fineVars, sftlVars>>
Spec == Init /\ [][Next]_vars

\* A page written with one address and one with two.
MCWrites == {<<0>>, <<1, 2>>}
\* Three entries of one translation page, one of another.
MCUsed == {<<0, 0>>, <<0, 1>>, <<0, 2>>, <<1, 0>>}
-----------------------------------------------------------------------------
(* Whatever page the linear model predicts, a look-up in a group finds the   *)
(* piece an address was last written or moved to: a finished model predicts  *)
(* each of its keys within the one page group_get retries, and the levels    *)
(* and the table of newest segments stay sound.                             *)
LearnedLookupExact ==
    /\ part = "line" => Line!PredictionClose
    /\ part = "index" => Index!LookupExact /\ Index!LevelsSound

(* lru_now_byte and the LRU list are exactly the cached groups, the size a   *)
(* group is charged for is what its segments and conflict buffer take, and   *)
(* every flying group has exactly one read that will land it.               *)
GroupCacheExact ==
    /\ part = "ftl" => Ftl!CacheExact /\ Ftl!MapReadsPaired
    /\ part = "index" => Index!SizeExact

(* No read of the learned FTL that its one-page read buffer does not answer  *)
(* returns data older than what had been written when it was submitted.     *)
ReadsNotOlder == part = "ftl" => Ftl!ReadsFresh

(* Every mapped address and translation page stays where the mapping finds   *)
(* it, whatever the two page managers collect, and their segment counters    *)
(* are exact.                                                               *)
PagesFound == part = "pages" => Pages!PagesFound /\ Pages!SegmentsCounted

(* Each cache of the demand-paged FTL accounts exactly for what it holds and *)
(* promised (slots of entries, bytes of compressed pages), the SFTL cache    *)
(* reaches none of its aborts, and a request that waits, for a page, a slot  *)
(* or in another's pending list, has exactly one wake-up coming.            *)
CachesExact ==
    /\ part = "fine" => Fine!SlotsExact /\ Fine!NobodyStranded
    /\ part = "sftl" => Sftl!BytesExact

(* Whatever is cached, evicted, written back or moved by a collection, the   *)
(* mapping found first is the last one applied, and the runs of an SFTL      *)
(* page never claim more than its entries.                                  *)
CachedMapLatest ==
    /\ part = "fine" => Fine!LookupLatest
    /\ part = "sftl" => Sftl!PagesCurrent /\ Sftl!RunsSound

(* The heap hands out a segment of greatest weight, although appends and     *)
(* weight changes left its array unordered, and keeps every other one.      *)
VictimIsHeaviest == [][part = "heap" => Heap!HeaviestTaken]_heapVars
=============================================================================
