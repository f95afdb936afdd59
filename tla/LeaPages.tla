------------------------------ MODULE LeaPages ------------------------------
(***************************************************************************)
(* The two page managers of the learned FTL (leaFTL/page_manager.cc), one  *)
(* for data and one for translation pages, which take segments from one    *)
(* block manager and collect them by different rules.  A page holds one    *)
(* address (data) or one group (translation page).  The main thread does   *)
(* everything; a flush of data invalidates the old copies one group at a   *)
(* time, and evictions write translation pages in between.                 *)
(***************************************************************************)
EXTENDS Integers, Sequences, FiniteSets, SequencesExt

CONSTANTS
    Lba, Grp,    \* addresses and groups: two disjoint sets of integers
    NOS, PPS,    \* segments, pages of each
    MinMap,      \* minimum_number_map_seg
    MaxFlush,    \* bound: pages written
    Nil

Seg == 0 .. NOS - 1
Kind == {"DATA", "TRANS"}

VARIABLES
    pages,    \* per segment, the pages handed out: what they hold, and whether valid
    flag,     \* seg_type_flag
    freeq,    \* free segments of the block manager
    heap,     \* its candidates for collection
    act, rsv, \* active and reserve segment of each page manager
    num,      \* data_seg_number and map_seg_number
    at,       \* where the mapping finds an address or a group
    pend,     \* old copies the mapping update still has to invalidate
    evicting, \* the group whose translation page is being written
    ok,       \* history: no abort or NULL dereference so far
    writes
vars == <<pages, flag, freeq, heap, act, rsv, num, at, pend, evicting, ok, writes>>

\* pm_init, for data and then for translation pages: a reserve and an active
\* segment each, from the queue of all segments.
Init ==
    /\ pages = [s \in Seg |-> <<>>]
    /\ flag = [s \in Seg |-> IF s <= 1 THEN "DATA" ELSE IF s <= 3 THEN "TRANS" ELSE "NONE"]
    /\ freeq = [i \in 1 .. NOS - 4 |-> i + 3]
    /\ heap = {1, 3}
    /\ rsv = [k \in Kind |-> IF k = "DATA" THEN 0 ELSE 2]
    /\ act = [k \in Kind |-> IF k = "DATA" THEN 1 ELSE 3]
    /\ num = [k \in Kind |-> 2]
    /\ at = [x \in Lba \cup Grp |-> Nil]
    /\ pend = {} /\ evicting = Nil /\ ok = TRUE /\ writes = 0

Full(s) == Len(pages[s]) = PPS
Invalid(s) == Cardinality({i \in DOMAIN pages[s] : ~pages[s][i].valid})
AllInvalid(s) == Invalid(s) = Len(pages[s])
Ascending(S) == SetToSortSeq(S, LAMBDA a, b : a < b)
Unset(p, locs) == [s \in Seg |-> [i \in DOMAIN p[s] |->
                     IF <<s, i>> \in locs THEN [p[s][i] EXCEPT !.valid = FALSE] ELSE p[s][i]]]
\* pm_page_flush and pm_map_flush of the sequence xs into segment s.
Put(p, s, xs) == [p EXCEPT ![s] = @ \o [i \in DOMAIN xs |-> [id |-> xs[i], valid |-> TRUE]]]
Moved(p, s, xs) == [x \in Lba \cup Grp |->
    IF \E i \in DOMAIN xs : xs[i] = x THEN <<s, Len(p[s]) + CHOOSE i \in DOMAIN xs : xs[i] = x>> ELSE at[x]]

\* A flush of the write buffer into what is left of the active segment.
FlushData(S) ==
    /\ ok /\ pend = {} /\ evicting = Nil
    /\ S # {} /\ Len(pages[act["DATA"]]) + Cardinality(S) <= PPS
    /\ writes + Cardinality(S) <= MaxFlush
    /\ pages' = Put(pages, act["DATA"], Ascending(S))
    /\ at' = Moved(pages, act["DATA"], Ascending(S))
    /\ pend' = {at[l] : l \in S} \ {Nil}
    /\ writes' = writes + Cardinality(S)
    /\ UNCHANGED <<flag, freeq, heap, act, rsv, num, evicting, ok>>

\* lea_mapping_find_exact_piece_ppa and invalidate_piece_ppa
Invalidate(l) ==
    /\ ok /\ evicting = Nil /\ l \in pend
    /\ pages' = Unset(pages, {l}) /\ pend' = pend \ {l}
    /\ UNCHANGED <<flag, freeq, heap, act, rsv, num, at, evicting, ok, writes>>

\* __lea_cache_evict_body of a dirty group: the old page is invalidated ...
EvictStart(g) ==
    /\ ok /\ evicting = Nil /\ writes < MaxFlush
    /\ pages' = IF at[g] = Nil THEN pages ELSE Unset(pages, {at[g]})
    /\ evicting' = g /\ writes' = writes + 1
    /\ UNCHANGED <<flag, freeq, heap, act, rsv, num, at, pend, ok>>
\* ... and the new one written once the active segment has room.
EvictWrite ==
    /\ ok /\ evicting # Nil /\ ~Full(act["TRANS"])
    /\ pages' = Put(pages, act["TRANS"], <<evicting>>)
    /\ at' = Moved(pages, act["TRANS"], <<evicting>>)
    /\ evicting' = Nil
    /\ UNCHANGED <<flag, freeq, heap, act, rsv, num, pend, ok, writes>>

\* A manager whose active segment is full asks for a new one.
Wants(k) ==
    /\ ok /\ Full(act[k])
    /\ IF k = "DATA" THEN pend = {} /\ evicting = Nil ELSE evicting # Nil

\* pm_assign_new_seg fails when nothing is free, and for data also when the
\* free segments are all kept for translation pages.
MustCollect(k) == freeq = <<>> \/ (k = "DATA" /\ Len(freeq) + num["TRANS"] <= MinMap)

AssignNewSeg(k) ==
    /\ Wants(k) /\ ~MustCollect(k)
    /\ flag' = [flag EXCEPT ![act[k]] = k]
    /\ act' = [act EXCEPT ![k] = Head(freeq)]
    /\ freeq' = Tail(freeq) /\ heap' = heap \cup {Head(freeq)}
    /\ num' = [num EXCEPT ![k] = @ + 1]
    /\ ok' = (flag'[Head(freeq)] = "NONE")
    /\ UNCHANGED <<pages, rsv, at, pend, evicting, writes>>

\* pm_gc: candidates are popped by weight until one suits the manager: its own
\* kind, or a segment without valid data when the other kind can spare one (flags is
\* seg_type_flag after pm_assign_new_seg has set the active's).
Suits(k, flags, s) ==
    \/ flags[s] = k
    \/ AllInvalid(s) /\ (IF k = "DATA" THEN num["TRANS"] > MinMap ELSE num["TRANS"] < MinMap)
Victims(k, flags) ==
    {s \in heap : Suits(k, flags, s) /\ \A t \in heap : Suits(k, flags, t) => Invalid(t) <= Invalid(s)}
\* pm_gc reads all_invalid of a NULL target; the block manager stops on a
\* candidate without a page.
GcFails(k, flags) ==
    \/ Victims(k, flags) = {}
    \/ \E v \in Victims(k, flags), e \in heap : pages[e] = <<>> /\ Invalid(v) = 0

\* pm_gc_finish's counters
Recount(k, old) == [j \in Kind |-> num[j] - (IF j = (IF old = "DATA" THEN "DATA" ELSE "TRANS") THEN 1 ELSE 0)
                                          + (IF j = k THEN 1 ELSE 0)]

\* Mistake: the data of the victim is not copied.
NotCopied(v) == <<>>
Survivors(v) ==
    LET ids == [i \in DOMAIN pages[v] |-> pages[v][i].id]
        xs == {ids[i] : i \in {j \in DOMAIN ids : pages[v][j].valid}}
    IN  Ascending(xs)

\* The survivors go to the reserve, which becomes the active segment; the
\* victim is erased and the oldest free segment becomes the reserve.
CollectVictim(k, v, flags) ==
    LET xs == Survivors(v)
        p == [Put(pages, rsv[k], xs) EXCEPT ![v] = <<>>]
        q == Append(freeq, v)
    IN  /\ pages' = p
        /\ at' = Moved(pages, rsv[k], xs)
        /\ act' = [act EXCEPT ![k] = rsv[k]] /\ rsv' = [rsv EXCEPT ![k] = Head(q)]
        /\ freeq' = Tail(q) /\ heap' = (heap \ {v}) \cup {rsv[k]}
        /\ flag' = [flags EXCEPT ![v] = "NONE", ![Head(q)] = k]
        /\ num' = Recount(k, flags[v])
        /\ ok' = (p[Head(q)] = <<>>)
        /\ UNCHANGED <<pend, evicting, writes>>
Collect(k) ==
    LET flags == [flag EXCEPT ![act[k]] = k]
    IN  /\ Wants(k) /\ MustCollect(k)
        /\ IF GcFails(k, flags)
           THEN ok' = FALSE
                /\ UNCHANGED <<pages, flag, freeq, heap, act, rsv, num, at, pend, evicting, writes>>
           ELSE \E v \in Victims(k, flags) : CollectVictim(k, v, flags)

Next ==
    \/ \E S \in SUBSET Lba : FlushData(S)
    \/ \E s \in Seg, i \in 1 .. PPS : Invalidate(<<s, i>>)
    \/ \E g \in Grp : EvictStart(g)
    \/ EvictWrite
    \/ \E k \in Kind : AssignNewSeg(k) \/ Collect(k)
-----------------------------------------------------------------------------
(* Every mapped address and every written translation page stays where the  *)
(* mapping finds it, whatever is collected by whom in between.              *)
PagesFound ==
    ok => \A x \in (Lba \cup Grp) \ {evicting} : at[x] # Nil =>
        LET s == at[x][1]  i == at[x][2]
        IN  i \in DOMAIN pages[s] /\ pages[s][i] = [id |-> x, valid |-> TRUE]

(* The counters that decide who may take and who must collect a segment are *)
(* the numbers of segments the two managers hold; the active and reserve     *)
(* segments are four different ones, none queued as free.                   *)
Holder(s) == IF flag[s] # "NONE" THEN flag[s]
             ELSE IF \E k \in Kind : act[k] = s THEN CHOOSE k \in Kind : act[k] = s ELSE "NONE"
SegmentsCounted ==
    /\ \A k \in Kind : num[k] = Cardinality({s \in Seg : Holder(s) = k})
    /\ Cardinality({act[k] : k \in Kind} \cup {rsv[k] : k \in Kind}) = 4
    /\ \A i \in DOMAIN freeq : \A k \in Kind : freeq[i] \notin {act[k], rsv[k]}

=============================================================================
