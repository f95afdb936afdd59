----------------------------- MODULE SftlCache ------------------------------
(***************************************************************************)
(* The SFTL cache of the demand-paged FTL (DFTL/caching/sftl): whole       *)
(* translation pages are cached, each charged for its runs of consecutive  *)
(* locations and its unpopulated entries, so that a page's size changes    *)
(* with every update.  The build with FASTSFTLCPU keeps the runs of a page *)
(* that is not cached.  One request at a time; UINT32_MAX is -1 here, so   *)
(* that its successor is 0 in both.                                        *)
(***************************************************************************)
EXTENDS Integers, Sequences, FiniteSets, SequencesExt

CONSTANTS
    Gtd, PerPage,       \* translation pages, entries of a page
    BITMAPSIZE, MaxBytes,
    Used,               \* bound: the entries <<page, offset>> the host uses
    MaxPpa              \* bound: locations handed out

VARIABLES
    sc,         \* per page: head array, runs <<start, end>>, unpopulated entries
    size,       \* gtd_size
    lru, now,   \* cached pages from the most recent; now_caching_byte
    status,     \* "EMPTY", "CLEAN", "DIRTY"
    flash,      \* translation pages on flash
    op,         \* request: kind, page, offset, location, state
    wp,         \* next location
    map,        \* history: location last given to <<page, offset>>
    ok

vars == <<sc, size, lru, now, status, flash, op, wp, map, ok>>

None == -1
Offset == 0 .. PerPage - 1
Idle == [kind |-> "idle", g |-> None, o |-> None, ppa |-> None, st |-> "NONE"]
Blank == [o \in Offset |-> None]
Cached(g) == g \in ToSet(lru)
Growth == 8                             \* sizeof(uint32_t)*2

Init ==
    /\ sc = [g \in Gtd |-> [head |-> Blank, runs |-> {}, unpop |-> PerPage]]
    /\ size = [g \in Gtd |-> PerPage * 4 + BITMAPSIZE]
    /\ lru = <<>> /\ now = 0 /\ status = [g \in Gtd |-> "EMPTY"]
    /\ flash = [g \in Gtd |-> Blank] /\ op = Idle /\ wp = 1
    /\ map = [g \in Gtd |-> Blank] /\ ok = TRUE

(***************************************************************************)
(* update_run_length, with the head array already written.                 *)
(***************************************************************************)
Before(runs, o) == {r \in runs : r[1] <= o}
Nearest(rs) == CHOOSE r \in rs : \A q \in rs : q[1] <= r[1]
After(runs, o) == {r \in runs : r[1] = o + 1}
\* The run behind it that the new location leads to.
Joined(runs, o, ppa, head) == {r \in After(runs, o) : ppa + 1 = head[o + 1]}
EndOf(js, o) == IF js = {} THEN o ELSE (CHOOSE r \in js : TRUE)[2]

SplitInside(runs, it, o) ==
    (runs \ {it}) \cup {<<o, o>>, <<o + 1, it[2]>>}
                  \cup (IF it[1] = o THEN {} ELSE {<<it[1], o - 1>>})
\* An entry that is a run of its own: it joins the one before; the run behind
\* it is erased either way.
RewriteSingle(runs, it, o, ppa, head) ==
    LET rest == runs \ Joined(runs, o, ppa, head)
        prev == {r \in runs : r[2] + 1 = o}
    IN  IF o = 0 \/ head[o - 1] + 1 # ppa THEN rest
        ELSE (rest \ ({it} \cup prev)) \cup {<<r[1], o>> : r \in prev}
AtOrBehind(runs, it, o, ppa, head) ==
    LET js == Joined(runs, o, ppa, head)
        rest == runs \ js
    IN  IF it[2] + 1 = o /\ head[o - 1] + 1 = ppa THEN (runs \ {it}) \cup {<<it[1], o>>}
        ELSE IF it = <<o, o>> THEN RewriteSingle(runs, it, o, ppa, head)
        ELSE IF it[2] = o THEN (rest \ {it}) \cup {<<it[1], o - 1>>, <<o, EndOf(js, o)>>}
        ELSE rest \cup {<<o, EndOf(js, o)>>}
\* Before the first run the iterator is moved before begin(); the tree's header
\* is read as a run, and the run behind may be joined or not.
RunLengths(runs, o, ppa, head) ==
    LET it == Nearest(Before(runs, o))
        js == Joined(runs, o, ppa, head)
    IN  IF runs = {} THEN {{<<o, o>>}}
        ELSE IF Before(runs, o) = {} THEN {runs \cup {<<o, o>>}, (runs \ js) \cup {<<o, EndOf(js, o)>>}}
        ELSE IF it[2] > o THEN {SplitInside(runs, it, o)}
        ELSE {AtOrBehind(runs, it, o, ppa, head)}

SizeOf(c) == (Cardinality(c.runs) + c.unpop) * 4 + BITMAPSIZE
\* The outcomes of writing a location into a page's structures.
Updates(c, o, ppa) ==
    LET head == [c.head EXCEPT ![o] = ppa]
    IN  {[head |-> head, runs |-> rs, unpop |-> c.unpop] : rs \in RunLengths(c.runs, o, ppa, head)}
Populated(c, old) == IF old = None /\ c.unpop > 0 THEN [c EXCEPT !.unpop = @ - 1] ELSE c

(***************************************************************************)
(* The cache.                                                              *)
(***************************************************************************)
\* sftl_size_checker: a tenth over the limit aborts.
Fits(n) == n <= MaxBytes + MaxBytes \div 10
ToFront(g) == <<g>> \o SelectSeq(lru, LAMBDA x : x # g)

Without(g) == IF status[g] = "EMPTY" THEN now ELSE IF now <= size[g] THEN 0 ELSE now - size[g]
\* __update_entry
UpdateEntry(g, o, ppa, isgc) ==
    \E c \in Updates(sc[g], o, ppa) :
        LET new == Populated(c, sc[g].head[o])
        IN  /\ sc' = [sc EXCEPT ![g] = new]
            /\ size' = [size EXCEPT ![g] = SizeOf(new)]
            /\ now' = Without(g) + SizeOf(new)
            /\ lru' = IF isgc THEN lru ELSE ToFront(g)
            /\ status' = [status EXCEPT ![g] = "DIRTY"]
            /\ map' = [map EXCEPT ![g][o] = ppa]
            /\ ok' = (ok /\ Fits(Without(g) + SizeOf(new)) /\ SizeOf(new) - size[g] <= Growth)

WriteBack(g) == IF status[g] = "DIRTY" THEN [flash EXCEPT ![g] = sc[g].head] ELSE flash
\* get_eviction_GTD_entry and update_eviction_target_translation.
EvictLast(st) ==
    LET g == Last(lru)
    IN  /\ flash' = WriteBack(g)
        /\ lru' = Front(lru)
        /\ now' = now - size[g]
        /\ op' = [op EXCEPT !.st = IF status[g] = "CLEAN" THEN "EVICTIONW" ELSE st]
        /\ UNCHANGED <<sc, size, status, wp, map, ok>>

NeedsRoom(g) == MaxBytes <= now + size[g] + Growth
LacksRoom(g) == MaxBytes - now < size[g] + Growth       \* get_remain_space
IsHitEviction(g, o, ppa) ==
    /\ ~(o # 0 /\ sc[g].head[o - 1] # None /\ sc[g].head[o - 1] + 1 = ppa)
    /\ now + Growth > MaxBytes

\* cache_traverse_state with this cache.
Submit(kind, g, o) ==
    /\ op = Idle /\ ok
    /\ kind # "R" => wp <= MaxPpa
    /\ op' = [kind |-> kind, g |-> g, o |-> o, ppa |-> IF kind = "W" THEN wp ELSE None, st |-> "NONE"]
    /\ wp' = IF kind = "W" THEN wp + 1 ELSE wp
    /\ UNCHANGED <<sc, size, lru, now, status, flash, map, ok>>

Miss == op.kind # "idle" /\ op.st \in {"NONE", "EVICTIONW"} /\ ~Cached(op.g)
NotFound ==
    /\ Miss /\ op.kind = "R" /\ status[op.g] = "EMPTY"
    /\ op' = Idle /\ UNCHANGED <<sc, size, lru, now, status, flash, wp, map, ok>>
\* Evictions repeat until the page fits; a clean one is followed by a test that
\* admits the exact fit.
Evict ==
    /\ Miss /\ lru # <<>>
    /\ op.kind = "R" => status[op.g] # "EMPTY"
    /\ IF op.st = "NONE" THEN NeedsRoom(op.g) ELSE status[op.g] # "EMPTY" /\ LacksRoom(op.g)
    /\ EvictLast("NONE")
Room == IF op.st = "NONE" THEN ~NeedsRoom(op.g) ELSE status[op.g] = "EMPTY" \/ ~LacksRoom(op.g)
\* insert_entry_from_translation
InsertFromTranslation ==
    /\ Miss /\ status[op.g] # "EMPTY" /\ Room
    /\ lru' = <<op.g>> \o lru
    /\ now' = now + size[op.g]
    /\ status' = [status EXCEPT ![op.g] = "CLEAN"]
    /\ op' = [op EXCEPT !.st = "MISSR"]
    /\ ok' = (ok /\ Fits(now + size[op.g]))
    /\ UNCHANGED <<sc, size, flash, wp, map>>
Serve ==
    /\ op.kind # "idle"
    /\ \/ op.st = "MISSR"
       \/ Cached(op.g) /\ op.st \in {"NONE", "EVICTIONW"}
       \/ Miss /\ op.kind # "R" /\ status[op.g] = "EMPTY" /\ Room
    /\ IF op.kind # "R" THEN UpdateEntry(op.g, op.o, op.ppa, FALSE)
       ELSE UNCHANGED <<sc, size, lru, now, status, map, ok>>
    /\ op' = IF op.st # "MISSR" /\ Cached(op.g) /\ IsHitEviction(op.g, op.o, op.ppa)
             THEN [op EXCEPT !.st = "HIT"] ELSE Idle
    /\ UNCHANGED <<flash, wp>>
\* A hit that leaves the cache over its limit evicts a page.
HitEviction ==
    /\ op.st = "HIT"
    /\ LET g == Last(lru)
       IN  flash' = WriteBack(g) /\ lru' = Front(lru) /\ now' = now - size[g]
    /\ op' = Idle
    /\ UNCHANGED <<sc, size, status, wp, map, ok>>

\* The collector: update_entry_gc for a cached page, else
\* update_from_translation_gc, which changes the page and the runs kept of it.
GcMove(g, o) ==
    /\ op = Idle /\ ok /\ wp <= MaxPpa /\ map[g][o] # None
    /\ wp' = wp + 1
    /\ IF Cached(g) THEN UpdateEntry(g, o, wp, TRUE) /\ UNCHANGED flash
       ELSE /\ \E c \in Updates(sc[g], o, wp) :
                  sc' = [sc EXCEPT ![g] = c] /\ size' = [size EXCEPT ![g] = SizeOf(c)]
            /\ flash' = [flash EXCEPT ![g][o] = wp]
            /\ map' = [map EXCEPT ![g][o] = wp]
            /\ UNCHANGED <<lru, now, status, ok>>
    /\ UNCHANGED op

\* dump_cache_update for every page; the written pages leave the cache.
Dump ==
    /\ op = Idle /\ ok /\ lru # <<>>
    /\ flash' = [g \in Gtd |-> IF Cached(g) THEN sc[g].head ELSE flash[g]]
    /\ lru' = <<>>
    /\ now' = FoldLeft(LAMBDA n, g : n - size[g], now, lru)
    /\ UNCHANGED <<sc, size, status, op, wp, map, ok>>

Next ==
    \/ \E k \in {"W", "R", "D"}, e \in Used : Submit(k, e[1], e[2])
    \/ NotFound \/ Evict \/ InsertFromTranslation \/ Serve \/ HitEviction
    \/ \E e \in Used : GcMove(e[1], e[2])
    \/ Dump
Spec == Init /\ [][Next]_vars

(* now_caching_byte is the sum of the sizes of the cached pages, although a  *)
(* page's size changes both in the cache and, by collection, outside it; and *)
(* no update overruns the cache or grows a page by more than was reserved    *)
(* ("caching overflow!", "what happen???").                                  *)
BytesExact == ok /\ now = FoldLeft(LAMBDA n, g : n + size[g], 0, lru)

(* The runs never claim more than the head array holds: they are disjoint,   *)
(* and neighbours within a run are mapped to consecutive locations unless    *)
(* one of them was removed.                                                 *)
RunsSound ==
    \A g \in Gtd :
        /\ \A r, q \in sc[g].runs : r # q => r[2] < q[1] \/ q[2] < r[1]
        /\ \A r \in sc[g].runs : \A o \in r[1] .. r[2] - 1 :
              sc[g].head[o] # None /\ sc[g].head[o + 1] # None => sc[g].head[o + 1] = sc[g].head[o] + 1

(* The page on flash is current whenever the cached copy is clean or gone,   *)
(* and the head array always is.                                            *)
PagesCurrent ==
    \A g \in Gtd : /\ sc[g].head = map[g]
                   /\ ~Cached(g) \/ status[g] = "CLEAN" => flash[g] = map[g]

(* A page's size is what its head array needs, the equality                  *)
(* nocpu_size_checker tests (behind a return).                              *)
Heads(f) == Cardinality({o \in Offset : o = 0 \/ f[o - 1] = None \/ f[o] # f[o - 1] + 1})
SizeExact == \A g \in Gtd : size[g] = Heads(sc[g].head) * 4 + BITMAPSIZE
=============================================================================
