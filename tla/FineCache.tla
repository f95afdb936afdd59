----------------------------- MODULE FineCache ------------------------------
(***************************************************************************)
(* The demand-paged FTL with its fine cache (DFTL/caching/fine): single    *)
(* mapping entries are cached, a dirty entry is evicted by reading its     *)
(* translation page, writing into it every dirty entry of the page, and    *)
(* writing it back.  Requests that need a page being read wait in its list *)
(* and are served together when it arrives.                                *)
(*                                                                         *)
(* Locations are versions: each write, removal or move by the collector    *)
(* gives an address a new one.  A map page is read or written when the     *)
(* operation is issued; only the completion is a step of its own.          *)
(***************************************************************************)
EXTENDS Integers, Sequences, FiniteSets, SequencesExt

CONSTANTS
    Lba, EntPerPage,
    MaxMap,         \* fcm.max_caching_map
    Rid, None,
    Writes,         \* the address lists of page writes
    MaxVer,         \* bound: versions an address is written at
    MaxExtra        \* bound: removals, and moves by the collector

VARIABLES
    w,      \* cache (ent, lru, evicting), pages (page, status, pend, buf, fresh), hint, req,
            \* rq, io, ok; history: map, the version last applied, right, all answers matched it
    run,    \* the request the main thread runs
    ver,    \* latest version given to each address
    power,  \* "on", "off" after a dump
    extra   \* removals and moves so far

vars == <<w, run, ver, power, extra>>

GtdIdx(l) == l \div EntPerPage
Gtd == {GtdIdx(l) : l \in Lba}
OfPage(g) == {l \in Lba : GtdIdx(l) = g}
Absent == 0                             \* UINT32_MAX
NoEntry == [flag |-> "NONE", ppa |-> Absent]
Blank(g) == [l \in OfPage(g) |-> Absent]
Idle == [op |-> "idle", todo |-> <<>>, st |-> "NONE", own |-> 0, vic |-> None, gone |-> FALSE]

Init ==
    /\ w = [ent |-> [l \in Lba |-> NoEntry], lru |-> <<>>, evicting |-> 0, hint |-> 0,
            page |-> [g \in Gtd |-> None], status |-> [g \in Gtd |-> "EMPTY"],
            pend |-> [g \in Gtd |-> <<>>], buf |-> [g \in Gtd |-> None], fresh |-> Gtd,
            req |-> [r \in Rid |-> Idle], rq |-> <<>>, io |-> {}, map |-> [l \in Lba |-> Absent],
            right |-> TRUE, ok |-> TRUE]
    /\ run = None /\ ver = [l \in Lba |-> 0]
    /\ power = "on" /\ extra = 0

(***************************************************************************)
(* The cache: fine_cache.c over the list of lru_list.c.                    *)
(***************************************************************************)
Exist(s, l) == s.ent[l].flag # "NONE"
NowCaching(s) == Len(s.lru)
LruUpdate(s, l) == [s EXCEPT !.lru = <<l>> \o SelectSeq(@, LAMBDA x : x # l)]
LruPush(s, l, e) == [s EXCEPT !.ent[l] = e, !.lru = <<l>> \o @]
\* The entry is freed; another request that holds it as its victim does not know.
LruDelete(s, l, r) ==
    [s EXCEPT !.ent[l] = NoEntry, !.lru = SelectSeq(@, LAMBDA x : x # l),
              !.req = [q \in Rid |-> IF q # r /\ @[q].vic = l THEN [@[q] EXCEPT !.gone = TRUE] ELSE @[q]]]
UpdateEntry(s, l, v) ==
    LET t == IF Exist(s, l) THEN LruUpdate(s, l) ELSE LruPush(s, l, NoEntry)
    IN  [t EXCEPT !.ent[l] = [flag |-> "DIRTY", ppa |-> v], !.map[l] = v]

\* fine_evict_target
EvictTarget(s, r) ==
    LET l == s.req[r].vic
    IN  IF s.req[r].gone \/ s.ent[l].flag = "DIRTY" THEN [s EXCEPT !.ok = FALSE]
        ELSE [LruDelete(IF s.ent[l].flag = "EVICTING" THEN [s EXCEPT !.evicting = @ - 1] ELSE s, l, r)
                EXCEPT !.req[r].vic = None]
\* Mistake: only the victim is written into the page, all its entries turn clean.
OnlyVictim(s, g, l, copy) ==
    [x \in OfPage(g) |-> IF x = l /\ s.ent[x].flag \in {"DIRTY", "EVICTING"} THEN s.ent[x].ppa ELSE copy[x]]
BatchPage(s, g, l, copy) ==
    [x \in OfPage(g) |-> IF s.ent[x].flag \in {"DIRTY", "EVICTING"} THEN s.ent[x].ppa ELSE copy[x]]
\* fine_update_eviction_target_translation: the first eviction into a page since
\* the cache was created starts from an empty page.
UpdateTranslation(s, r, g) ==
    LET l == s.req[r].vic
        old == IF g \in s.fresh THEN Blank(g) ELSE s.copy
        t == [s EXCEPT !.copy = BatchPage(s, g, l, old), !.fresh = @ \ {g}, !.updated = TRUE,
                       !.evicting = IF s.ent[l].flag = "EVICTING" THEN @ - 1 ELSE @,
                       !.ent = [x \in Lba |-> IF GtdIdx(x) = g /\ Exist(s, x) THEN [@[x] EXCEPT !.flag = "CLEAN"]
                                              ELSE @[x]]]
    IN  IF s.req[r].gone THEN [s EXCEPT !.ok = FALSE, !.updated = TRUE] ELSE EvictTarget(t, r)

(***************************************************************************)
(* Requests.  The slot a miss was promised is given back when its entry is *)
(* in the cache or turns out not to be needed.                             *)
(***************************************************************************)
Target(s, r) == s.req[r].todo[1][1]
NewPpa(s, r) == s.req[r].todo[1][2]
\* Mistake: a waiter served with another's page keeps its slot.
SlotKept(s, r) == [s EXCEPT !.req[r].own = 0]
SlotBack(s, r) == [s EXCEPT !.hint = @ - s.req[r].own, !.req[r].own = 0]
\* Mistake: the request is not queued again.
NotQueued(s, r) == s
Requeue(s, r) == [s EXCEPT !.rq = Append(@, r)]
\* An entry of the request is done (dp_initialize); the last one ends it.
Advance(s, r) ==
    IF Len(s.req[r].todo) = 1 THEN [s EXCEPT !.req[r] = Idle]
    ELSE [s EXCEPT !.req[r] = [Idle EXCEPT !.op = s.req[r].op, !.todo = Tail(s.req[r].todo)]]
Answer(s, r, v) == [s EXCEPT !.right = @ /\ v = s.map[Target(s, r)], !.req[r] = Idle]
Apply(s, r) ==
    IF s.req[r].op = "W" THEN Advance(UpdateEntry(s, Target(s, r), NewPpa(s, r)), r)
    ELSE Answer(LruUpdate(s, Target(s, r)), r, s.ent[Target(s, r)].ppa)

(***************************************************************************)
(* demand_map_fine_type_pending: the page arrived; everyone in its list is *)
(* served in order, head being the request that read it.                   *)
(***************************************************************************)
ServeMiss(s, r, head) ==
    LET l == Target(s, r)
        t == Apply(SlotBack(IF Exist(s, l) THEN s ELSE LruPush(s, l, [flag |-> "CLEAN", ppa |-> s.copy[l]]), r), r)
    IN  IF r # head /\ t.req[r].op # "idle" THEN Requeue(t, r) ELSE t
ServeEviction(s, r, g, head) ==
    LET t == IF s.updated THEN EvictTarget(s, r) ELSE UpdateTranslation(s, r, g)
    IN  IF r = head THEN t ELSE [t EXCEPT !.req[r].st = "EVICTIONW", !.later = Append(@, r)]
ServeOne(s, r, g, head) == IF s.req[r].st = "MISSR" THEN ServeMiss(s, r, head) ELSE ServeEviction(s, r, g, head)
\* write_updated_map
WriteMap(s, r, g) == [s EXCEPT !.page[g] = s.copy, !.io = @ \cup {r}]
\* The waiting evictions are retried; if a miss read the page, the last of them writes it.
AfterServe(s, g, miss) ==
    IF s.later = <<>> THEN s
    ELSE IF miss THEN [WriteMap(s, Last(s.later), g) EXCEPT !.rq = @ \o Front(s.later), !.later = <<>>]
    ELSE [s EXCEPT !.rq = @ \o s.later, !.later = <<>>]
FineTypePending(s, head, g) ==
    LET start == [s EXCEPT !.status[g] = "POPULATE", !.pend[g] = <<>>, !.buf[g] = None]
                 @@ [copy |-> IF s.buf[g] = None THEN Blank(g) ELSE s.buf[g], updated |-> FALSE, later |-> <<>>]
        serve(t, r) == ServeOne(t, r, g, head)
        t == AfterServe(FoldLeft(serve, start, s.pend[g]), g, s.req[head].st = "MISSR")
    IN  IF s.req[head].st = "MISSR" THEN t
        ELSE [WriteMap(t, head, g) EXCEPT !.req[head].st = "EVICTIONW"]
Core(t) == [f \in DOMAIN w |-> t[f]]

(***************************************************************************)
(* cache_traverse_state, one disjunct of its switch per action.            *)
(***************************************************************************)
Becomes(t, next) ==
    /\ w' = Core(t) /\ run' = next
    /\ UNCHANGED <<ver, power, extra>>
Continues(t, r) == IF t.ok /\ t.req[r].op # "idle" THEN r ELSE None
Running(r) == run = r /\ w.ok

\* map_read_wrapper
MapRead(s, r, g) ==
    IF s.status[g] = "FLYING" THEN [s EXCEPT !.pend[g] = Append(@, r)]
    ELSE [s EXCEPT !.pend[g] = Append(@, r), !.status[g] = "FLYING", !.buf[g] = s.page[g], !.io = @ \cup {r}]

Hit(r) ==
    /\ Running(r) /\ w.req[r].st = "NONE" /\ Exist(w, Target(w, r))
    /\ LET t == Apply(w, r) IN Becomes(t, Continues(t, r))

NotFound(r) ==
    /\ Running(r) /\ w.req[r].st = "NONE" /\ ~Exist(w, Target(w, r))
    /\ w.req[r].op = "R" /\ w.page[GtdIdx(Target(w, r))] = None
    /\ Becomes(Answer(w, r, Absent), None)

Missing(r) ==
    /\ Running(r) /\ w.req[r].st = "NONE" /\ ~Exist(w, Target(w, r))
    /\ w.req[r].op = "R" => w.page[GtdIdx(Target(w, r))] # None
\* fine_is_needed_eviction
IsNeededEviction == MaxMap <= NowCaching(w) + w.hint
Retry(r) ==
    /\ Missing(r) /\ IsNeededEviction
    /\ NowCaching(w) = 0 \/ w.hint = MaxMap
    /\ Becomes(Requeue(w, r), None)

Promised(r) == [w EXCEPT !.hint = @ + 1, !.req[r].own = 1]
ColdMiss(r) ==
    /\ Missing(r) /\ ~IsNeededEviction
    /\ LET l == Target(w, r)
           t == Apply(w, r)
       IN  IF w.page[GtdIdx(l)] = None THEN Becomes(t, Continues(t, r))
           ELSE Becomes(MapRead([Promised(r) EXCEPT !.req[r].st = "MISSR"], r, GtdIdx(l)), None)

\* fine_get_eviction_entry: from the least recently used; an entry being evicted
\* is passed over.  With no other entry the code calls an absent function.
Candidates == SelectSeq(w.lru, LAMBDA l : w.ent[l].flag # "EVICTING")
Evict(r) ==
    /\ Missing(r) /\ IsNeededEviction /\ NowCaching(w) > 0 /\ w.hint # MaxMap
    /\ LET v == Last(Candidates)
           s == [Promised(r) EXCEPT !.req[r].st = "EVICTIONR", !.req[r].vic = v,
                                    !.ent[v].flag = "EVICTING", !.evicting = @ + 1]
       IN  IF Candidates = <<>> THEN Becomes([w EXCEPT !.ok = FALSE], None)
           ELSE IF w.ent[v].flag = "CLEAN"
           THEN Becomes(LruDelete([Promised(r) EXCEPT !.req[r].st = "EVICTIONW"], v, r), r)
           ELSE IF w.page[GtdIdx(v)] = None
           THEN Becomes(FineTypePending([s EXCEPT !.pend[GtdIdx(v)] = Append(@, r)], r, GtdIdx(v)), None)
           ELSE Becomes(MapRead(s, r, GtdIdx(v)), None)

\* Room was made: the entry may have come in meanwhile.
AfterEviction(r) ==
    /\ Running(r) /\ w.req[r].st = "EVICTIONW"
    /\ LET l == Target(w, r)
           t == Apply(SlotBack(w, r), r)
       IN  IF w.status[GtdIdx(l)] = "EMPTY" \/ Exist(w, l) THEN Becomes(t, Continues(t, r))
           ELSE Becomes(MapRead([w EXCEPT !.req[r].st = "MISSR"], r, GtdIdx(l)), None)

PageArrived(r) ==
    /\ Running(r) /\ w.req[r].st \in {"EVICTIONR", "MISSR"}
    /\ LET g == IF w.req[r].st = "MISSR" THEN GtdIdx(Target(w, r)) ELSE GtdIdx(w.req[r].vic)
           t == FineTypePending(w, r, g)
       IN  Becomes(t, IF w.req[r].st = "MISSR" THEN Continues(t, r) ELSE None)

(***************************************************************************)
(* Around it: the host, the device, the collector, and shutting down.      *)
(***************************************************************************)
OnStart(op, todo) ==
    \E r \in Rid :
        /\ w.req[r].op = "idle" /\ \A q \in Rid : q < r => w.req[q].op # "idle"
        /\ w' = [w EXCEPT !.req[r] = [Idle EXCEPT !.op = op, !.todo = todo]]
        /\ run' = r
Free == power = "on" /\ run = None /\ w.ok
Settled(l) == \A r \in Rid : w.req[r].op = "W" => l \notin {e[1] : e \in ToSet(w.req[r].todo)}

\* One update of an address at a time: see the README on updates that overtake.
PageWrite(f) ==
    /\ Free /\ \A l \in ToSet(f) : ver[l] < MaxVer /\ Settled(l)
    /\ ver' = [l \in Lba |-> IF l \in ToSet(f) THEN ver[l] + 1 ELSE ver[l]]
    /\ OnStart("W", [i \in DOMAIN f |-> <<f[i], ver[f[i]] + 1>>])
    /\ UNCHANGED <<power, extra>>
PageRemove(l) ==
    /\ Free /\ extra < MaxExtra /\ Settled(l)
    /\ extra' = extra + 1
    /\ OnStart("W", <<<<l, Absent>>>>)
    /\ UNCHANGED <<ver, power>>
PageRead(l) ==
    /\ Free
    /\ OnStart("R", <<<<l, Absent>>>>)
    /\ UNCHANGED <<ver, power, extra>>
Resume ==
    /\ Free /\ w.rq # <<>>
    /\ w' = [w EXCEPT !.rq = Tail(@)]
    /\ run' = Head(w.rq)
    /\ UNCHANGED <<ver, power, extra>>
MapIoDone(r) ==
    /\ power = "on" /\ r \in w.io
    /\ w' = [w EXCEPT !.io = @ \ {r}, !.rq = Append(@, r)]
    /\ UNCHANGED <<run, ver, power, extra>>

\* demand_map_some_update, for an address the collector moves: cached entries
\* become dirty where they are in the list, others are changed in their page.
MapSomeUpdate(s, l, v) ==
    LET g == GtdIdx(l)
        t == [s EXCEPT !.buf[g] = IF @ = None THEN @ ELSE [@ EXCEPT ![l] = v], !.map[l] = v]
    IN  IF Exist(s, l) THEN [t EXCEPT !.ent[l] = [flag |-> "DIRTY", ppa |-> v]]
        ELSE [t EXCEPT !.page[g] = IF @ = None THEN @ ELSE [@ EXCEPT ![l] = v]]
GcMove(l) ==
    /\ Free /\ extra < MaxExtra /\ w.map[l] # Absent /\ Settled(l)
    /\ w' = MapSomeUpdate(w, l, ver[l] + 1)
    /\ ver' = [ver EXCEPT ![l] = @ + 1]
    /\ extra' = extra + 1
    /\ UNCHANGED <<run, power>>

\* fine_dump_cache_update for every page, and the write of the page.
DumpPage(g) ==
    LET old == IF g \in w.fresh \/ w.page[g] = None THEN Blank(g) ELSE w.page[g]
    IN  [l \in OfPage(g) |-> IF w.ent[l].flag = "DIRTY" THEN w.ent[l].ppa ELSE old[l]]
Dump ==
    /\ Free /\ \A r \in Rid : w.req[r].op = "idle"
    /\ power' = "off"
    /\ w' = [w EXCEPT !.page = [g \in Gtd |-> DumpPage(g)], !.fresh = {}]
    /\ UNCHANGED <<run, ver, extra>>
\* demand_load in a new process: an empty cache, which believes every page new.
Load ==
    /\ power = "off"
    /\ power' = "on"
    /\ w' = [w EXCEPT !.ent = [l \in Lba |-> NoEntry], !.lru = <<>>, !.evicting = 0, !.hint = 0,
                      !.status = [g \in Gtd |-> "POPULATE"], !.fresh = Gtd]
    /\ UNCHANGED <<run, ver, extra>>

Next ==
    \/ \E r \in Rid : Hit(r) \/ NotFound(r) \/ Retry(r) \/ ColdMiss(r) \/ Evict(r)
                      \/ AfterEviction(r) \/ PageArrived(r) \/ MapIoDone(r)
    \/ \E f \in Writes : PageWrite(f)
    \/ \E l \in Lba : PageRemove(l) \/ PageRead(l) \/ GcMove(l)
    \/ Resume
    \/ Dump
Spec == Init /\ [][Next]_vars
\* With a restart from the dump.
SpecReload == Init /\ [][Next \/ Load]_vars

Victims == {r \in Rid : w.req[r].vic # None}

(* The slots promised to misses are counted exactly, and what is cached     *)
(* less the victims on their way out fits with them in the cache            *)
(* (fine_is_needed_eviction against the adjustments of fine_type_pending).  *)
SlotsExact ==
    w.ok => /\ w.hint = FoldSet(LAMBDA r, n : n + w.req[r].own, 0, Rid)
            /\ NowCaching(w) + w.hint - Cardinality(Victims) <= MaxMap

(* The mapping a look-up would find is the last one applied: a cached entry *)
(* is current, and for an entry that is not cached, or cached clean, the    *)
(* page on flash is, and so is the page being read.  Every read was told so. *)
LookupLatest ==
    w.ok =>
        /\ \A l \in Lba :
              LET g == GtdIdx(l)
              IN  /\ Exist(w, l) => w.ent[l].ppa = w.map[l]
                  /\ ~Exist(w, l) \/ w.ent[l].flag = "CLEAN" =>
                        w.map[l] = IF w.page[g] = None THEN Absent ELSE w.page[g][l]
                  /\ ~Exist(w, l) /\ w.buf[g] # None => w.buf[g][l] = w.map[l]
        /\ w.right
        /\ power = "off" => \A l \in Lba : w.page[GtdIdx(l)][l] = w.map[l]

(* Every request has exactly one wake-up coming: the main thread runs it,   *)
(* the device has it, it is on the retry queue, or a page being read has it *)
(* in its list and the reader of that page is one of the first three.       *)
Waiting(r) == {g \in Gtd : r \in ToSet(w.pend[g])}
Awake(r) == r = run \/ r \in w.io \/ r \in ToSet(w.rq)
NobodyStranded ==
    w.ok => \A r \in Rid : w.req[r].op # "idle" =>
        \/ Awake(r) /\ \A g \in Waiting(r) : Head(w.pend[g]) = r
        \/ \E g \in Waiting(r) : Waiting(r) = {g} /\ Awake(Head(w.pend[g])) /\ w.status[g] = "FLYING"

(* A victim is freed once, by the request that chose it, and no eviction    *)
(* meets an entry written after the page was brought up to date             *)
(* (fine_evict_target: "it was updated in updating mapping logic").         *)
NoAbort == w.ok
=============================================================================
