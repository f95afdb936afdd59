------------------------------ MODULE DemandFTL ------------------------------
(***************************************************************************)
(* The demand-paged FTL (algorithm/DFTL) with its coarse cache: the        *)
(* mapping lives in translation pages on flash, a bounded LRU cache holds  *)
(* some of them, and a request that misses waits for the device.  The main *)
(* thread runs page_read, page_write, page_remove and the retried          *)
(* requests, garbage collection included; the device thread completes map  *)
(* reads and writes and puts their requests on the retry queue.            *)
(*                                                                         *)
(* Physical addresses are numbers as in the code: a piece is               *)
(* page*L2PGAP+offset, a page segment*PPS+index.  A read or write of a map *)
(* page takes effect when it is issued (the device executes one queue in   *)
(* order); only its completion is a separate step.  The build without      *)
(* NO_MEMCPY_DATA is modelled: with it the cache reads a shadow array and  *)
(* no map page has contents.                                               *)
(***************************************************************************)
EXTENDS Integers, Sequences, FiniteSets, SequencesExt

CONSTANTS
    Lba,        \* logical addresses, 0 .. n
    EntPerPage, \* mapping entries of a translation page
    NOS, PPS, L2PGAP,
    CachePages, \* ccm.max_caching_page
    MapLimit,   \* map_seg_limit
    Rid,        \* requests that may be in flight
    None,       \* UINT32_MAX
    MaxAssign,  \* bound: requests with mapping updates outstanding
    MaxFlush,   \* bound: page writes
    MaxRemoves, \* bound: removals of addresses not buffered
    MaxLoads    \* bound: dump-and-load cycles

ASSUME DemandAssumption ==
    /\ CachePages \in Nat \ {0} /\ NOS > 3 /\ EntPerPage \in Nat \ {0}
    /\ PPS \in Nat \ {0} /\ L2PGAP \in Nat \ {0}
    /\ IsFiniteSet(Rid) /\ None \notin Rid

Seg == 0 .. NOS - 1
GtdIdx(l) == l \div EntPerPage
Gtd == {GtdIdx(l) : l \in Lba}
Unmapped == [l \in Lba |-> None]
SegOfPage(p) == p \div PPS
SegOfPiece(q) == SegOfPage(q \div L2PGAP)
PiecesOfPage(p) == {p * L2PGAP + i : i \in 0 .. L2PGAP - 1}

VARIABLES
    fl,      \* the flash side: block manager, pm_body, GTD addresses, map pages
    lru,     \* the cached translation pages, most recently updated first
    cache,   \* the entries of the cached pages
    status,  \* GTD_entry.status
    pend,    \* GTD_entry.pending_req
    flag,    \* flying_map_read_flag_set: the pages being read, done or not
    owner,   \* flying_map_read_req_set
    hint,    \* dmm.eviction_hint: cache slots promised to misses
    req,     \* the requests in flight
    io,      \* requests whose map read or map write the device has
    rq,      \* the retry queue of the interface (inf_assign_try)
    pc,      \* what the main thread does, with the request run
    run,
    abuf,    \* a_buffer.key
    newest,  \* history: where the latest flushed copy of each address is
    out,     \* history: <<lba, location>> of the reads the last step answered
    ok,      \* no abort() was reached
    flushes, removes, loads

cacheVars == <<lru, cache, status, pend, flag, owner, hint>>
histVars  == <<newest, ok, flushes, removes, loads>>
vars == <<fl, cacheVars, req, io, rq, pc, run, abuf, out, histVars>>

Idle == [op |-> "none", lba |-> <<>>, phys |-> <<>>, idx |-> 1, st |-> "NONE",
         own |-> 0, buf |-> Unmapped]
Cached(g) == Contains(lru, g)
Upd(r) == req[r].op \in {"W", "D"}
Cur(r) == req[r].lba[req[r].idx]
Busy == {r \in Rid : req[r].op # "none"}

(* pm_body_create takes four segments from the queue of all segments.       *)
Init ==
    /\ fl = [next |-> [s \in Seg |-> 0], valid |-> {}, inv |-> [s \in Seg |-> 0],
             oob |-> [q \in 0 .. NOS * PPS * L2PGAP - 1 |-> 0],
             typ |-> [s \in Seg |-> IF s \in {2, 3} THEN "map" ELSE "data"],
             heap |-> {0, 2}, freeq |-> [i \in 1 .. NOS - 4 |-> i + 3],
             act |-> 0, res |-> 1, mact |-> 2, mres |-> 3, nmap |-> 2,
             phys |-> [g \in Gtd |-> None], tmap |-> Unmapped, ok |-> TRUE]
    /\ lru = <<>> /\ cache = Unmapped
    /\ status = [g \in Gtd |-> "EMPTY"]
    /\ pend = [g \in Gtd |-> <<>>]
    /\ flag = [g \in Gtd |-> None] /\ owner = [g \in Gtd |-> None]
    /\ hint = 0
    /\ req = [r \in Rid |-> Idle]
    /\ io = {} /\ rq = <<>> /\ pc = "idle" /\ run = None
    /\ abuf = <<>>
    /\ newest = Unmapped /\ out = {} /\ ok = TRUE /\ flushes = 0 /\ removes = 0 /\ loads = 0
-----------------------------------------------------------------------------
(* Flash space.  These operators take the flash record and return the next *)
(* one; ok turns false where the code aborts.                              *)

\* invalidate_ppa and invalidate_map_ppa: a second invalidation aborts.
Invalidate(f, Q) ==
    [f EXCEPT !.valid = @ \ Q,
              !.inv = [s \in Seg |-> @[s] + Cardinality({q \in Q : SegOfPiece(q) = s})],
              !.ok = @ /\ Q \subseteq f.valid]

Full(f, s) == f.next[s] = PPS
GcNeeded(f) == f.freeq = <<>>
NextPage(f, s) == s * PPS + f.next[s]

\* get_page_addr, bit_set and set_oob for the pieces keys names.
Validate(f, s, keys) ==
    LET base == NextPage(f, s) * L2PGAP
        new == {base + i - 1 : i \in DOMAIN keys}
    IN  [f EXCEPT !.next[s] = @ + 1,
                  !.valid = @ \cup new,
                  !.oob = [q \in DOMAIN @ |-> IF q \in new THEN keys[q - base + 1] ELSE @[q]],
                  !.ok = @ /\ new \cap f.valid = {} /\ ~Full(f, s)]

\* get_segment: without a free segment the code uses a null pointer.
Take(f) == [f EXCEPT !.freeq = IF @ = <<>> THEN @ ELSE Tail(@), !.ok = @ /\ f.freeq # <<>>]
Took(f) == IF f.freeq = <<>> THEN 0 ELSE Head(f.freeq)

\* trim_segment on a segment that has left the heap.
Trim(f, s) ==
    [f EXCEPT !.next[s] = 0, !.inv[s] = 0,
              !.valid = {q \in @ : SegOfPiece(q) # s},
              !.freeq = Append(@, s), !.heap = @ \ {s}]

\* get_gc_target until a segment in S comes, the others reinserted: the one
\* of S with the most invalid pieces (the lowest of them on a tie).
Heaviest(f, S) ==
    CHOOSE s \in S : \A t \in S : f.inv[t] < f.inv[s] \/ (f.inv[t] = f.inv[s] /\ s <= t)
LiveIn(f, s) == {q \in f.valid : SegOfPiece(q) = s}
\* all_invalid compares the counters, whether or not the segment is full.
AllInvalid(f, s) == LiveIn(f, s) = {} /\ f.next[s] > 0
DataVictims(f) == {s \in f.heap : f.typ[s] = "data" \/ AllInvalid(f, s)}
MapVictims(f) ==
    {s \in f.heap : f.typ[s] = "map" \/ (AllInvalid(f, s) /\ f.nmap \in 0 .. MapLimit - 1)}
Ascending(S) == SetToSortSeq(S, LAMBDA a, b : a < b)

\* do_map_gc, the copies: the valid map pages of v move to the map reserve.
MoveMaps(f, v) ==
    LET live == Ascending({q \div L2PGAP : q \in LiveIn(f, v)})
        moved == {f.oob[live[i] * L2PGAP] : i \in DOMAIN live}
        pos(g) == CHOOSE i \in DOMAIN live : f.oob[live[i] * L2PGAP] = g
        to(g) == NextPage(f, f.mres) + pos(g) - 1
    IN  [Invalidate(f, UNION {PiecesOfPage(f.phys[g] \div L2PGAP) : g \in moved}) EXCEPT
            !.valid = @ \cup UNION {PiecesOfPage(to(g)) : g \in moved},
            !.oob = [q \in DOMAIN @ |->
                       IF \E g \in moved : q = to(g) * L2PGAP
                       THEN CHOOSE g \in moved : q = to(g) * L2PGAP ELSE @[q]],
            !.phys = [g \in Gtd |-> IF g \in moved THEN to(g) * L2PGAP ELSE @[g]],
            !.next[f.mres] = @ + Len(live),
            !.nmap = IF f.typ[v] = "map" THEN @ - 1 ELSE @]

\* The map reserve becomes the active map segment and a new one is reserved.
SwapMapReserve(f) ==
    [Take(f) EXCEPT !.mact = f.mres, !.heap = @ \cup {f.mres}, !.mres = Took(f),
                    !.nmap = @ + 1, !.typ[Took(f)] = "map"]

DoMapGc(f) ==
    LET v == Heaviest(f, MapVictims(f))
    IN  IF MapVictims(f) = {} THEN [f EXCEPT !.ok = FALSE]
        ELSE SwapMapReserve(Trim(MoveMaps(f, v), v))

\* get_map_ppa: a collection or a new segment if the active one is full.
MapGcIfNeeded(f) == IF Full(f, f.mact) /\ GcNeeded(f) THEN DoMapGc(f) ELSE f
MapRoom(f) ==
    IF Full(f, f.mact)
    THEN [Take(f) EXCEPT !.mact = Took(f), !.heap = @ \cup {Took(f)},
                         !.typ[Took(f)] = "map", !.nmap = @ + 1]
    ELSE f
\* The map page write that follows every call of it: the page of g gets the
\* entries m.
SetMapPage(f, g, m) ==
    [Validate(f, f.mact, [i \in 1 .. L2PGAP |-> g]) EXCEPT
        !.phys[g] = NextPage(f, f.mact) * L2PGAP,
        !.tmap = [l \in Lba |-> IF GtdIdx(l) = g THEN m[l] ELSE @[l]]]
PutMapPage(f, g, m) == SetMapPage(MapRoom(MapGcIfNeeded(f)), g, m)

\* write_updated_map: the old page is invalidated before the new one is found.
WriteUpdatedMap(f, g, m) ==
    PutMapPage(IF f.phys[g] = None THEN f
               ELSE Invalidate(f, PiecesOfPage(f.phys[g] \div L2PGAP)), g, m)
-----------------------------------------------------------------------------
(* Data garbage collection, inside get_ppa.                                *)

\* Pieces of the victim go to the reserve in address order.
GcMove(f, v) ==
    LET live == Ascending(LiveIn(f, v))
    IN  [q \in LiveIn(f, v) |->
            NextPage(f, f.res) * L2PGAP + (CHOOSE i \in DOMAIN live : live[i] = q) - 1]

\* Mistake: the map pages being read are not patched.
FlyingForgotten(moved, at) == req
\* update_flying_req_data: a page being read is patched in the request's
\* buffer, once the device has filled it (the collector spins until then).
PatchFlying(moved, at) ==
    [r \in Rid |->
        IF \E g \in Gtd : owner[g] = r
        THEN [req[r] EXCEPT !.buf = [l \in Lba |->
                 IF l \in moved /\ owner[GtdIdx(l)] = r THEN at[l] ELSE @[l]]]
        ELSE req[r]]

\* demand_map_some_update, the pages not cached: read, patched and rewritten.
UpdateUncached(f, moved, at) ==
    FoldLeft(LAMBDA x, g :
                WriteUpdatedMap(x, g, [l \in Lba |-> IF l \in moved THEN at[l] ELSE x.tmap[l]]),
             f,
             Ascending({g \in Gtd : /\ ~Cached(g) /\ f.phys[g] # None
                                    /\ \E l \in moved : GtdIdx(l) = g}))

\* do_gc on flash: the valid pieces of v move as mv says, the map pages that
\* are not cached follow, the reserve becomes active.
MoveData(f, v, mv) ==
    [Invalidate(f, DOMAIN mv) EXCEPT
        !.heap = @ \ {v},   \* get_gc_target took it out
        !.valid = @ \cup {mv[q] : q \in DOMAIN mv},
        !.oob = [q \in DOMAIN @ |->
                   IF \E p \in DOMAIN mv : mv[p] = q
                   THEN f.oob[CHOOSE p \in DOMAIN mv : mv[p] = q] ELSE @[q]],
        !.next[f.res] = (Cardinality(DOMAIN mv) + L2PGAP - 1) \div L2PGAP]
TrimVictim(f, v) == Trim([f EXCEPT !.nmap = IF f.typ[v] = "map" THEN @ - 1 ELSE @], v)
SwapReserve(f) ==
    [Take(f) EXCEPT !.act = f.res, !.heap = @ \cup {f.res}, !.res = Took(f),
                    !.typ[Took(f)] = "data"]

\* do_gc with v the victim, mv the move of its pieces, at the new place of each
\* address: every copy of their mapping follows.
Collect(v, mv, at) ==
    LET hit == {l \in DOMAIN at : Cached(GtdIdx(l))}
    IN  /\ \A l \in DOMAIN at : flag[GtdIdx(l)] # FALSE
        /\ fl' = SwapReserve(TrimVictim(UpdateUncached(MoveData(fl, v, mv), DOMAIN at, at), v))
        /\ cache' = [l \in Lba |-> IF l \in hit THEN at[l] ELSE cache[l]]
        /\ status' = [g \in Gtd |->
              IF \E l \in hit : GtdIdx(l) = g THEN "DIRTY" ELSE status[g]]
        /\ req' = PatchFlying(DOMAIN at, at)
        /\ newest' = [l \in Lba |->
              IF newest[l] \in DOMAIN mv THEN mv[newest[l]] ELSE newest[l]]
        \* "it can't be!!": a valid piece its cached entry does not name
        /\ ok' = (ok /\ \A q \in DOMAIN mv :
                    Cached(GtdIdx(fl.oob[q])) => cache[fl.oob[q]] = q)
DoGc ==
    /\ pc = "get_ppa"
    /\ Full(fl, fl.act) /\ GcNeeded(fl)
    /\ IF DataVictims(fl) = {}
       THEN ok' = FALSE /\ UNCHANGED <<fl, cache, status, req, newest>>
       ELSE \E v \in {Heaviest(fl, DataVictims(fl))} :
            \E mv \in {IF fl.typ[v] = "data" THEN GcMove(fl, v) ELSE <<>>} :
               Collect(v, mv, [l \in {fl.oob[q] : q \in DOMAIN mv} |->
                                  mv[CHOOSE q \in DOMAIN mv : fl.oob[q] = l]])
    /\ pc' = "alloc"
    /\ out' = {}
    /\ UNCHANGED <<lru, pend, flag, owner, hint, io, rq, run, abuf, flushes, removes, loads>>

SkipGc ==
    /\ pc = "get_ppa"
    /\ ~(Full(fl, fl.act) /\ GcNeeded(fl))
    /\ pc' = "alloc" /\ out' = {}
    /\ UNCHANGED <<fl, cacheVars, req, io, rq, run, abuf, histVars>>
-----------------------------------------------------------------------------
(* The entry points: page_write, page_read, page_remove.                   *)

Outstanding == Cardinality({r \in Rid : Upd(r)})
HostTurn == pc = "idle" /\ rq = <<>>   \* get_next_request serves retries first

Start(r, op, lba, phys) ==
    /\ r \notin Busy
    /\ req' = [req EXCEPT ![r] = [Idle EXCEPT !.op = op, !.lba = lba, !.phys = phys]]
    /\ run' = r /\ pc' = "map"

\* align_buffering: a buffered address is overwritten in place.
PageWrite(k) ==
    /\ HostTurn
    /\ Len(abuf) + 1 < L2PGAP \/ (Outstanding < MaxAssign /\ flushes < MaxFlush)
    /\ abuf' = IF \E i \in DOMAIN abuf : abuf[i] = k THEN abuf ELSE Append(abuf, k)
    /\ pc' = IF Len(abuf') = L2PGAP THEN "get_ppa" ELSE "idle"
    /\ out' = {}
    /\ UNCHANGED <<fl, cacheVars, req, io, rq, run, histVars>>

\* get_ppa after any collection, and demand_map_assign's first call: the
\* buffer is emptied although none of its addresses is mapped yet.
AssignPage(r) ==
    /\ pc = "alloc"
    /\ LET f == IF Full(fl, fl.act)
                THEN [Take(fl) EXCEPT !.act = Took(fl), !.heap = @ \cup {Took(fl)},
                                      !.typ[Took(fl)] = "data"]
                ELSE fl
           base == NextPage(f, f.act) * L2PGAP
           phys == [i \in 1 .. L2PGAP |-> base + i - 1]
       IN  /\ fl' = Validate(f, f.act, abuf)
           /\ Start(r, "W", abuf, phys)
           /\ newest' = [l \in Lba |-> IF \E i \in DOMAIN abuf : abuf[i] = l
                                       THEN phys[CHOOSE i \in DOMAIN abuf : abuf[i] = l]
                                       ELSE newest[l]]
    /\ abuf' = <<>> /\ out' = {} /\ flushes' = flushes + 1
    /\ UNCHANGED <<cacheVars, io, rq, ok, removes, loads>>

\* page_read; a buffered address is answered from the buffer.
PageRead(r, k) ==
    /\ HostTurn
    /\ \A i \in DOMAIN abuf : abuf[i] # k
    /\ Start(r, "R", <<k>>, <<None>>)
    /\ out' = {}
    /\ UNCHANGED <<fl, cacheVars, io, rq, abuf, histVars>>

\* page_remove of a buffered address: the entries after the next one move
\* down, so that it is the next entry, if there is one, that goes.
RemoveBuffered(k) ==
    /\ HostTurn
    /\ \E i \in DOMAIN abuf :
          /\ abuf[i] = k
          /\ abuf' = RemoveAt(abuf, IF i = Len(abuf) THEN i ELSE i + 1)
    /\ out' = {}
    /\ UNCHANGED <<fl, cacheVars, req, io, rq, pc, run, histVars>>

PageRemove(r, k) ==
    /\ HostTurn
    /\ \A i \in DOMAIN abuf : abuf[i] # k
    /\ Outstanding < MaxAssign /\ removes < MaxRemoves
    /\ Start(r, "D", <<k>>, <<None>>)
    /\ newest' = [newest EXCEPT ![k] = None]
    /\ removes' = removes + 1 /\ out' = {}
    /\ UNCHANGED <<fl, cacheVars, io, rq, abuf, ok, flushes, loads>>

\* A retried request comes round again: assign_vectored_req calls the FTL.
Resume ==
    /\ pc = "idle" /\ rq # <<>>
    /\ run' = Head(rq) /\ rq' = Tail(rq) /\ pc' = "map" /\ out' = {}
    /\ UNCHANGED <<fl, cacheVars, req, io, abuf, histVars>>
-----------------------------------------------------------------------------
(* cache_traverse_state, for the request in hand: l its current address, g  *)
(* the translation page of l.                                              *)

g == GtdIdx(Cur(run))
\* update_cache_entry_wrapper: the copy the entry named is dead.
DropOld(f, old) == IF old = None THEN f ELSE Invalidate(f, {old})

\* The request in hand is finished, or goes on with its next address.
Advance(q, r) ==
    IF q[r].idx = Len(q[r].lba) THEN [q EXCEPT ![r] = Idle]
    ELSE [q EXCEPT ![r] = [q[r] EXCEPT !.idx = q[r].idx + 1, !.st = "NONE", !.own = 0]]
Continue == IF req'[run] = Idle THEN run' = None /\ pc' = "idle" ELSE UNCHANGED <<run, pc>>
Leave == run' = None /\ pc' = "idle"   \* the request waits elsewhere

SlotKept == hint   \* Mistake: the promised slot is not given back.
\* coarse_update_eviction_hint, decreasing.
SlotBack == hint - req[run].own

\* lru_update: the page becomes the most recently updated one.
ToFront(s, p) == <<p>> \o IF Contains(s, p)
                          THEN RemoveAt(s, CHOOSE i \in DOMAIN s : s[i] = p) ELSE s

\* HIT, and coarse update_entry or get_mapping.  An entry never loaded nor
\* created gets an empty page; any other one must be cached.
Hit ==
    /\ LET l == Cur(run)
           c == IF status[g] = "EMPTY" THEN [k \in Lba |-> IF GtdIdx(k) = g THEN None ELSE cache[k]]
                ELSE cache
       IN  IF Upd(run)
           THEN /\ cache' = [c EXCEPT ![l] = req[run].phys[req[run].idx]]
                /\ fl' = DropOld(fl, c[l])
                /\ lru' = ToFront(lru, g)
                /\ status' = [status EXCEPT ![g] = "DIRTY"]
                /\ ok' = (ok /\ (status[g] = "EMPTY" \/ Cached(g)))
                /\ out' = {}
           ELSE /\ out' = {<<l, cache[l]>>}
                /\ ok' = (ok /\ Cached(g))
                /\ UNCHANGED <<cache, fl, lru, status>>
    /\ hint' = SlotBack
    /\ req' = Advance(req, run)
    /\ Continue
    /\ UNCHANGED <<pend, flag, owner, io, rq, abuf, newest, flushes, removes, loads>>

NotFound ==
    /\ out' = {<<Cur(run), None>>}
    /\ req' = [req EXCEPT ![run] = Idle]
    /\ Leave
    /\ UNCHANGED <<fl, cacheVars, io, rq, abuf, histVars>>

\* Another request is reading the page: wait on its list, give the slot back.
JoinFlying ==
    /\ pend' = [pend EXCEPT ![g] = Append(@, run)]
    /\ req' = [req EXCEPT ![run] = [req[run] EXCEPT !.st = "MISSR", !.own = 0]]
    /\ hint' = SlotBack
    /\ Leave /\ out' = {}
    /\ UNCHANGED <<fl, lru, cache, status, flag, owner, io, rq, abuf, histVars>>

\* map_read_wrapper: own is 1 for a slot already promised by an eviction.
IssueRead ==
    /\ pend' = [pend EXCEPT ![g] = Append(@, run)]
    /\ flag' = [flag EXCEPT ![g] = FALSE]
    /\ owner' = [owner EXCEPT ![g] = run]
    /\ status' = [status EXCEPT ![g] = "FLYING"]
    /\ req' = [req EXCEPT ![run] = [req[run] EXCEPT !.st = "MISSR", !.own = 1, !.buf = fl.tmap]]
    /\ hint' = hint + 1 - req[run].own
    /\ io' = io \cup {run}
    /\ ok' = (ok /\ owner[g] = None)   \* "overlap key should not be inserted!"
    /\ Leave /\ out' = {}
    /\ UNCHANGED <<fl, lru, cache, rq, abuf, newest, flushes, removes, loads>>

\* EMPTY_EVICTION: every slot is promised, nothing can be evicted.
SlotFull == Len(lru) + hint = CachePages
Retry ==
    /\ rq' = Append(rq, run)
    /\ Leave /\ out' = {}
    /\ UNCHANGED <<fl, cacheVars, req, io, abuf, histVars>>

\* Mistake: a dirty page is dropped as if it were clean.
EvictDropped == fl
EvictWritten == WriteUpdatedMap(fl, Last(lru), cache)

\* The least recently updated page leaves the cache and its slot is promised
\* to this miss; a dirty page is written first.
Evict ==
    /\ lru' = Front(lru)
    /\ hint' = hint + 1
    /\ req' = [req EXCEPT ![run] = [req[run] EXCEPT !.st = "EVICTIONW", !.own = 1]]
    /\ \/ /\ status[Last(lru)] = "CLEAN"
          /\ UNCHANGED <<fl, io, run, pc>>
       \/ /\ status[Last(lru)] = "DIRTY"
          /\ fl' = EvictWritten
          /\ io' = io \cup {run}
          /\ Leave
    /\ out' = {}
    /\ UNCHANGED <<cache, status, pend, flag, owner, rq, abuf, histVars>>

\* MISSR, demand_map_coarse_type_pending: the page read becomes a cache entry and
\* the slot promised to it is used; then its waiters are served.
Fill ==
    /\ cache' = [l \in Lba |-> IF GtdIdx(l) = g THEN req[run].buf[l] ELSE cache[l]]
    /\ status' = [status EXCEPT ![g] = "CLEAN"]
    /\ lru' = <<g>> \o lru
    /\ hint' = SlotBack
    /\ req' = [req EXCEPT ![run] = [req[run] EXCEPT !.own = 0]]
    /\ ok' = (ok /\ ~Cached(g) /\ flag[g] = TRUE)
    /\ pc' = "serve" /\ out' = {}
    /\ UNCHANGED <<fl, pend, flag, owner, io, rq, run, abuf, newest, flushes, removes, loads>>

\* Mistake: the loop ends with the request that read the page.
ReaderWaits(p) == Contains(pend[p], run)
Waiting(p) == pend[p] # <<>>

\* The loop over pending_req, one request, in the order they came; one with more
\* addresses is retried, unless it is the one in hand.
Serve(p) ==
    /\ pc = "serve" /\ owner[p] = run /\ Waiting(p)
    /\ LET r == Head(pend[p])
           l == Cur(r)
       IN  /\ req' = Advance(req, r)
           /\ \/ /\ ~Upd(r)
                 /\ out' = {<<l, cache[l]>>}
                 /\ UNCHANGED <<cache, fl, status, rq>>
              \/ /\ Upd(r)
                 /\ cache' = [cache EXCEPT ![l] = req[r].phys[req[r].idx]]
                 /\ fl' = DropOld(fl, cache[l])
                 /\ status' = [status EXCEPT ![p] = "DIRTY"]
                 /\ rq' = IF req'[r] = Idle \/ r = run THEN rq ELSE Append(rq, r)
                 /\ out' = {}
    /\ pend' = [pend EXCEPT ![p] = Tail(@)]
    /\ UNCHANGED <<lru, flag, owner, hint, io, pc, run, abuf, histVars>>

\* Nobody waits any more: the page is no longer being read.
Served(p) ==
    /\ pc = "serve" /\ owner[p] = run /\ ~Waiting(p)
    /\ flag' = [flag EXCEPT ![p] = None]
    /\ owner' = [owner EXCEPT ![p] = None]
    /\ run' = IF req[run] = Idle THEN None ELSE run
    /\ pc' = IF req[run] = Idle THEN "idle" ELSE "map"
    /\ out' = {}
    /\ UNCHANGED <<fl, lru, cache, status, pend, hint, req, io, rq, abuf, histVars>>

\* The page of the current address is not cached.
Miss ==
    \/ ~Upd(run) /\ fl.phys[g] = None /\ NotFound
    \/ /\ Upd(run) \/ fl.phys[g] # None
       /\ \/ status[g] = "FLYING" /\ JoinFlying
          \/ status[g] # "FLYING" /\ SlotFull /\ lru = <<>> /\ Retry
          \/ status[g] # "FLYING" /\ SlotFull /\ lru # <<>> /\ Evict
          \/ /\ status[g] # "FLYING" /\ ~SlotFull
             /\ \/ fl.phys[g] = None /\ Hit
                \/ fl.phys[g] # None /\ IssueRead

\* The eviction for it is over: others may have brought the page in since.
Evicted ==
    \/ (status[g] = "EMPTY" \/ Cached(g)) /\ Hit
    \/ status[g] = "FLYING" /\ JoinFlying
    \/ status[g] \notin {"EMPTY", "FLYING"} /\ ~Cached(g) /\ IssueRead

Traverse ==
    /\ pc = "map"
    /\ \/ req[run].st = "NONE" /\ Cached(g) /\ Hit
       \/ req[run].st = "NONE" /\ ~Cached(g) /\ Miss
       \/ req[run].st = "EVICTIONW" /\ Evicted
       \/ req[run].st = "MISSR" /\ Fill
Serving == \E p \in Gtd : Serve(p) \/ Served(p)
-----------------------------------------------------------------------------
\* demand_end_req: a map read or write is done, its request is retried.
MapIoDone(r) ==
    /\ r \in io
    /\ io' = io \ {r}
    /\ flag' = [p \in Gtd |-> IF owner[p] = r THEN TRUE ELSE flag[p]]
    /\ rq' = Append(rq, r)
    /\ out' = {}
    /\ UNCHANGED <<fl, lru, cache, status, pend, owner, hint, req, pc, run, abuf, histVars>>

\* update_cache_mapping, demand_dump and demand_load on a quiescent system:
\* every translation page is written with its cached entries, and the next
\* process starts with an empty cache and the segment counters at zero.
Dump(f) ==
    FoldLeft(LAMBDA x, p : WriteUpdatedMap(x, p, IF Cached(p) THEN cache ELSE x.tmap),
             f, Ascending(Gtd))

DumpLoad ==
    /\ HostTurn /\ Busy = {}
    /\ loads < MaxLoads /\ loads' = loads + 1
    /\ LET f == Dump(fl)
       IN  fl' = [f EXCEPT !.nmap = 0,
                    !.freeq = Ascending(Seg \ (f.heap \cup {f.res, f.mres}))]
    /\ lru' = <<>> /\ cache' = Unmapped
    /\ status' = [p \in Gtd |-> "POPULATE"]
    /\ hint' = 0 /\ out' = {}
    /\ UNCHANGED <<pend, flag, owner, req, io, rq, pc, run, abuf, newest, ok, flushes, removes>>

MainStep == SkipGc \/ DoGc \/ (\E r \in Rid : AssignPage(r)) \/ Resume \/ Traverse \/ Serving
DevStep == \E r \in Rid : MapIoDone(r)
HostStep ==
    \/ \E k \in Lba : PageWrite(k) \/ RemoveBuffered(k)
    \/ \E r \in Rid, k \in Lba : PageRead(r, k) \/ PageRemove(r, k)
Next == HostStep \/ MainStep \/ DevStep \/ DumpLoad

Spec == Init /\ [][Next]_vars
-----------------------------------------------------------------------------
\* The entry a look-up would find: the cached page, else the page on flash.
Lookup == [l \in Lba |-> IF Cached(GtdIdx(l)) THEN cache[l] ELSE fl.tmap[l]]
Todo == UNION {{<<req[r].lba[i], req[r].phys[i]>> : i \in req[r].idx .. Len(req[r].lba)} :
               r \in {x \in Rid : Upd(x)}}

(* The FTL implements the abstract mapping: evictions, misses, coalesced    *)
(* map reads, map garbage collection and a dump and load never change what *)
(* a look-up finds, a collection moves exactly the live data, and every     *)
(* read is answered from the mapping of that moment.                       *)
Map == INSTANCE TranslationMap WITH loc <- Lookup, todo <- Todo, answers <- out
MapRefined == Map!Spec

(* None of the assertions of the FTL is reached: no piece is invalidated    *)
(* twice, the collectors never run out of segments or victims, a valid      *)
(* piece is named by its cached entry ("it can't be!!"), a page is never    *)
(* read twice at once nor inserted twice, and an update finds its page.    *)
NoAbort == ok /\ fl.ok

(* The cache never overruns: slots in use and slots promised fit, and the   *)
(* promise is exactly what the waiting misses hold (check_caching_size and  *)
(* debug_size), whoever joins, evicts, retries or is served in between.     *)
Holders == {r \in Rid : req[r].own = 1}
SlotsExact ==
    /\ Len(lru) + hint <= CachePages
    /\ hint = Cardinality(Holders)

(* Once no request still has to map an address, the mapping names the copy  *)
(* flushed last, and so does a map page being read for a later miss; and no *)
(* assertion on the mapping, the cache or the segments is reached.          *)
MappingLatest ==
    /\ NoAbort
    /\ \A l \in Lba : (\A u \in Todo : u[1] # l) =>
          /\ Lookup[l] = newest[l]
          /\ status[GtdIdx(l)] = "FLYING" => req[owner[GtdIdx(l)]].buf[l] = newest[l]

(* A read is answered with the copy flushed last: the write that filled the *)
(* buffer, or an earlier one it was buffered with, has been acknowledged.   *)
ReadsNewest == \A a \in out : a[2] = newest[a[1]]

(* No request is stranded: each one in flight is being run, is with the     *)
(* device, is on the retry queue, or waits for a page whose reader is; and   *)
(* it is in one of these places only, so that none is run twice.            *)
InHand(r) == Cardinality({x \in {1} : run = r} \cup {x \in {2} : r \in io}
                         \cup {i + 2 : i \in {j \in DOMAIN rq : rq[j] = r}})
NobodyStranded ==
    \A r \in Busy :
        \/ InHand(r) = 1
        \/ /\ InHand(r) = 0
           /\ \E p \in Gtd : /\ owner[p] \notin {None, r}
                             /\ InHand(owner[p]) = 1
                             /\ Contains(pend[p], r)

-----------------------------------------------------------------------------
(* The inductive invariant behind SlotsExact and NobodyStranded.           *)

Page == {"EMPTY", "POPULATE", "FLYING", "CLEAN", "DIRTY"}
Queued(r) == Contains(rq, r)
Waits(r, p) == Contains(pend[p], r)
InHands(r) == run = r \/ r \in io \/ Queued(r)

\* A request is free, or has an address to map and a state.
RequestOK(r) ==
    /\ DOMAIN req[r] = DOMAIN Idle
    /\ req[r].op = "none" => req[r] = Idle
    /\ req[r].op # "none" =>
          /\ req[r].op \in {"R", "W", "D"}
          /\ req[r].lba \in Seq(Lba) /\ req[r].idx \in 1 .. Len(req[r].lba)
          /\ req[r].op = "R" => Len(req[r].lba) = 1
          /\ req[r].st \in {"NONE", "MISSR", "EVICTIONW"} /\ req[r].own \in {0, 1}

ControlTypeOK ==
    /\ lru \in Seq(Gtd) /\ status \in [Gtd -> Page] /\ pend \in [Gtd -> Seq(Rid)]
    /\ owner \in [Gtd -> Rid \cup {None}] /\ hint \in Int
    /\ DOMAIN req = Rid /\ \A r \in Rid : RequestOK(r)
    /\ io \subseteq Rid /\ rq \in Seq(Rid) /\ run \in Rid \cup {None}
    /\ pc \in {"idle", "get_ppa", "alloc", "map", "serve"}
    /\ abuf \in Seq(Lba) /\ (pc \in {"get_ppa", "alloc"} => abuf # <<>>)

\* The page that is served is the one run has read.
ServedNow(p) == pc = "serve" /\ owner[p] = run

\* A request in flight is in one pair of hands (run, the device, the retry
\* queue), or has missed and waits for its page, and the one that reads a page
\* does both; it holds a slot as its state says.
Placed(r) ==
    /\ Queued(r) => r \notin io /\ run # r /\ r \in Busy
    /\ r \in io => run # r /\ r \in Busy
    /\ \A p \in Gtd : Waits(r, p) =>
          /\ r \in Busy /\ req[r].st = "MISSR" /\ GtdIdx(Cur(r)) = p
          /\ owner[p] # r => ~InHands(r)
    /\ r \in Busy => InHands(r) \/ req[r].st = "MISSR"
    /\ r \in Busy /\ req[r].st = "NONE" => req[r].own = 0
    /\ r \in Busy /\ req[r].st = "EVICTIONW" => req[r].own = 1
    /\ r \in Busy /\ req[r].st = "MISSR" =>
          /\ \E p \in Gtd : Waits(r, p)
          /\ req[r].own = 1 => \E p \in Gtd : owner[p] = r

\* A page is being read for one request, which waits for it too and holds its
\* slot, until the page is there and the waiters are served.
Owned(p) ==
    /\ \A q \in Gtd : owner[q] = owner[p] /\ owner[p] # None => q = p
    /\ owner[p] # None => InHands(owner[p])
    /\ owner[p] # None /\ ~ServedNow(p) =>
          status[p] = "FLYING" /\ Waits(owner[p], p) /\ req[owner[p]].own = 1
    /\ ServedNow(p) /\ owner[p] # None => status[p] # "FLYING" /\ req[run].own = 0
    /\ status[p] = "FLYING" => owner[p] # None /\ ~Cached(p)
    /\ owner[p] = None => pend[p] = <<>>
    /\ IsInjective(pend[p])

RunOK ==
    /\ IsInjective(rq)
    /\ pc \in {"map", "serve"} <=> run # None
    /\ pc = "map" => run \in Busy

ControlInv ==
    /\ ControlTypeOK /\ RunOK /\ SlotsExact
    /\ \A r \in Rid : Placed(r)
    /\ \A p \in Gtd : Owned(p)
=============================================================================
