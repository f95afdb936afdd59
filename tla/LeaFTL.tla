------------------------------- MODULE LeaFTL -------------------------------
(***************************************************************************)
(* The request paths and the group cache of the learned FTL (leaFTL.cc,    *)
(* lea_cache.cc and the map reads of group.cc).  The main thread runs      *)
(* lea_read, lea_write and the retried reads; the device thread completes  *)
(* reads.  A write that fills the buffer updates the mapping of its groups *)
(* before it returns, and waits inside that update for map reads; the      *)
(* interface starts it only when no read is in flight.                     *)
(*                                                                         *)
(* A group names the page of each of its addresses (module LeaGroup has    *)
(* the segments) and takes one unit of cache per mapped address.  Data      *)
(* pages are collected as module LeaPages has it, here without those of    *)
(* the map.                                                                *)
(***************************************************************************)
EXTENDS Integers, Sequences, FiniteSets, FiniteSetsExt, SequencesExt

CONSTANTS
    Lba, PerGroup,   \* addresses; addresses of a group (MAPINTRANS)
    Gap,             \* sectors of a page (L2PGAP)
    SegPages, Segs,  \* pages of a segment; data segments
    WbMax,           \* sectors of the write buffer, a multiple of Gap above 1
    MaxUnits,        \* lru_max_byte
    Rid,             \* reads that may be in flight
    Approx,          \* whether a look-up may have to read a second page
    MaxWrites,       \* bound on writes
    Nil

Group == {l \div PerGroup : l \in Lba}
Page == 0 .. Segs * SegPages - 1
PagesOf(s) == [i \in 1 .. SegPages |-> s * SegPages + i - 1]
GroupOf(l) == l \div PerGroup
Members(g) == {l \in Lba : GroupOf(l) = g}

VARIABLES
    gp,       \* per group: cache_flag, size, isclean, ppa set, pending_request
    lru,      \* gp_lru, most recent first
    now,      \* lru_now_byte
    reserve,  \* lru_reserve_byte
    map,      \* the page of each address the mapping names
    disk,     \* the sectors of each page: address (its OOB) and version
    left,     \* pages left in the active segment
    erased,   \* erased segments in the order of their use, the last one in reserve
    rb,       \* the read buffer: the page read last and its sectors
    joined,   \* reads of a page another read is fetching (pending_req)
    wb,       \* the buffered version of each address (0: none)
    req,      \* the reads in flight
    rq,       \* the retry queue of the interface
    io,       \* reads the device has: <<"map", r>>, <<"data", r>>, <<"wmap", g>>
    pc,       \* what the main thread does
    todo,     \* groups the round of the mapping update still has to admit
    later,    \* groups of the second round (those not cached)
    admitted, \* groups admitted, and whether their grp.read_done is set
    batch,    \* the new page of the addresses of the update (isgc: moved by a collection)
    isgc,
    ver,      \* history: the version last written
    out,      \* history: reads the last step answered
    bp        \* history: a GDB_MAKE_BREAKPOINT was reached

cacheVars == <<gp, lru, now, reserve>>
updVars == <<pc, todo, later, admitted, batch, isgc>>
dataVars == <<map, disk, left, erased>>
readVars == <<req, rq, io, rb, joined>>
vars == <<cacheVars, dataVars, wb, readVars, updVars, ver, out, bp>>

NoReq == [key |-> Nil, st |-> "none", done |-> FALSE, since |-> 0, page |-> Nil, data |-> <<>>, again |-> FALSE]
Init ==
    /\ gp = [g \in Group |-> [flag |-> "UNCACHED", size |-> 0, clean |-> TRUE, page |-> FALSE,
                              pending |-> <<>>]]
    /\ lru = <<>> /\ now = 0 /\ reserve = 0
    /\ map = [l \in Lba |-> Nil] /\ disk = [p \in Page |-> <<>>]
    /\ left = PagesOf(0) /\ erased = [i \in 1 .. Segs - 1 |-> i]
    /\ rb = [page |-> Nil, data |-> <<>>] /\ joined = <<>>
    /\ wb = [l \in Lba |-> 0] /\ ver = [l \in Lba |-> 0]
    /\ req = [r \in Rid |-> NoReq] /\ rq = <<>> /\ io = {}
    /\ pc = "idle" /\ todo = <<>> /\ later = <<>> /\ admitted = <<>> /\ batch = <<>> /\ isgc = FALSE
    /\ out = {} /\ bp = FALSE

Buffered == {l \in Lba : wb[l] # 0}
-----------------------------------------------------------------------------
(* The cache.  Operators on the record [gp, lru, now, reserve].            *)
Cache == [gp |-> gp, lru |-> lru, now |-> now, reserve |-> reserve]
SetCache(c) == gp' = c.gp /\ lru' = c.lru /\ now' = c.now /\ reserve' = c.reserve
Cached(c, g) == c.gp[g].flag = "CACHED"

\* __lea_cache_evict_body: groups leave from the cold end until n units are
\* free; a dirty one gets a translation page.
EvictBody(c, n) ==
    LET got(k) == FoldLeft(LAMBDA s, i : s + c.gp[c.lru[Len(c.lru) + 1 - i]].size, 0,
                           [i \in 1 .. k |-> i])
        k == CHOOSE i \in 0 .. Len(c.lru) :
                /\ got(i) >= n \/ i = Len(c.lru)
                /\ \A j \in 0 .. i - 1 : got(j) < n
        victims == {c.lru[i] : i \in Len(c.lru) - k + 1 .. Len(c.lru)}
    IN  [c EXCEPT !.lru = SubSeq(@, 1, Len(@) - k),
                  !.now = @ - got(k),
                  !.gp = [g \in Group |->
                            IF g \in victims
                            THEN [@[g] EXCEPT !.flag = "UNCACHED", !.clean = TRUE,
                                              !.page = @ \/ ~c.gp[g].clean]
                            ELSE @[g]]]

\* lea_cache_evict: sizes are unsigned, so a negative sum is a huge one.
Fits(c, g) == LET s == c.gp[g].size + c.reserve + c.now IN 0 <= s /\ s < MaxUnits
CanEvict(c, g) == Cached(c, g) \/ Fits(c, g) \/ c.now >= c.gp[g].size
CacheEvict(c, g) ==
    IF Cached(c, g) \/ Fits(c, g) THEN c
    ELSE [EvictBody(c, c.gp[g].size) EXCEPT !.reserve = @ + c.gp[g].size]

\* lea_cache_evict_force
EvictForce(c) == IF c.now < MaxUnits THEN c ELSE EvictBody(c, c.now - MaxUnits)

\* lea_cache_insert; loaded: from a translation page.
CacheInsert(c, g, loaded) ==
    [c EXCEPT !.reserve = IF ~loaded THEN @ ELSE IF @ < 0 THEN 0 ELSE @ - c.gp[g].size,
              !.now = @ + c.gp[g].size,
              !.lru = <<g>> \o @,
              !.gp[g].flag = "CACHED", !.gp[g].clean = TRUE]
Promote(c, g) == [c EXCEPT !.lru = <<g>> \o SelectSeq(@, LAMBDA x : x # g)]

\* Mistake: a second asker reads the translation page again.
ReadAgain(c, g, w) ==
    IF Cached(c, g) THEN [c |-> c, res |-> "ready"]
    ELSE IF ~c.gp[g].page THEN [c |-> CacheInsert(c, g, FALSE), res |-> "ready"]
    ELSE [c |-> [c EXCEPT !.gp[g].flag = "FLYING"], res |-> "issue"]
\* group_get_map_read_grp, isstart: the outcome for a new asker w.
Ask(c, g, w) ==
    IF Cached(c, g) THEN [c |-> c, res |-> "ready"]
    ELSE IF ~c.gp[g].page THEN [c |-> CacheInsert(c, g, FALSE), res |-> "ready"]
    ELSE IF c.gp[g].flag = "UNCACHED"
         THEN [c |-> [c EXCEPT !.gp[g].flag = "FLYING"], res |-> "issue"]
         ELSE [c |-> [c EXCEPT !.gp[g].pending = Append(@, w)], res |-> "wait"]

\* The read of the map is done: the first asker caches the group and wakes
\* the others.
Arrive(c, g) == [CacheInsert(c, g, TRUE) EXCEPT !.gp[g].pending = <<>>]
WokenReads(c, g) == SelectSeq(c.gp[g].pending, LAMBDA w : w \in Rid)
-----------------------------------------------------------------------------
(* Reads.                                                                  *)
HostTurn == pc = "idle" /\ rq = <<>> /\ ~bp
Free(r) == req[r].st = "none"

\* The slot of an address by the page's OOB (group_oob_check).
Slots(p, l) == {i \in DOMAIN disk[p] : disk[p][i].l = l}
Answer(l, v, since, how) == [l |-> l, v |-> v, since |-> since, how |-> how]

\* The sector of a slot; another address's data has no version.
Sector(data, i, l) == IF i \in DOMAIN data /\ data[i].l = l THEN data[i].v ELSE -1

\* processing_pending_req for the reads rs of one page: the OOB of the page now
\* decides who is answered, from data, and who must ask for another page.
Serve(rs, q, data, how, rest) ==
    LET has(r) == Slots(q[r].page, q[r].key) # {}
        sector(r) == Sector(data, CHOOSE i \in Slots(q[r].page, q[r].key) : TRUE, q[r].key)
    IN  /\ out' = {Answer(q[r].key, sector(r), q[r].since, how) : r \in {x \in ToSet(rs) : has(x)}}
        /\ req' = [r \in Rid |-> IF r \notin ToSet(rs) THEN q[r]
                                 ELSE IF has(r) THEN NoReq ELSE [q[r] EXCEPT !.st = "data", !.again = TRUE]]
        /\ rq' = rest \o SelectSeq(rs, LAMBDA r : ~has(r))

\* group_get: an approximate segment may name a page without the address first.
Predicted(l, again) ==
    {map[l]} \cup {p \in Page : Approx /\ ~again /\ disk[p] # <<>> /\ Slots(p, l) = {}}

\* send_IO_user_req: from the read buffer, with the read of another request, or
\* by a read of its own, which returns what the page holds now.
ReadPage(r, q, rest) ==
    LET p == q[r].page
        reading == \E x \in Rid : <<"data", x>> \in io /\ req[x].page = p
    IN  \/ p = rb.page /\ Serve(<<r>>, q, rb.data, "buffer", rest) /\ UNCHANGED <<io, joined>>
        \/ /\ p # rb.page /\ reading
           /\ joined' = Append(joined, r) /\ req' = [q EXCEPT ![r].st = "joined"]
           /\ out' = {} /\ rq' = rest /\ UNCHANGED io
        \/ /\ p # rb.page /\ ~reading
           /\ io' = io \cup {<<"data", r>>} /\ req' = [q EXCEPT ![r].st = "data", ![r].data = disk[p]]
           /\ out' = {} /\ rq' = rest /\ UNCHANGED joined

\* lea_read from the look-up on: an unmapped address is answered at once.
Lookup(r, c, q, rest) ==
    LET l == q[r].key
    IN  /\ SetCache(Promote(c, GroupOf(l)))
        /\ IF map[l] = Nil
           THEN /\ out' = {Answer(l, 0, q[r].since, "unmapped")} /\ req' = [q EXCEPT ![r] = NoReq]
                /\ rq' = rest /\ UNCHANGED <<io, joined>>
           ELSE \E p \in Predicted(l, q[r].again) : ReadPage(r, [q EXCEPT ![r].page = p], rest)

\* lea_read of a request without a look-up; rest: the retry queue without it.
Start(r, q, rest) ==
    LET g == GroupOf(q[r].key)
        ok == gp[g].flag = "FLYING" \/ CanEvict(Cache, g)
        a == Ask(IF gp[g].flag = "FLYING" THEN Cache ELSE CacheEvict(Cache, g), g, r)
    IN  \/ /\ ~ok
           /\ req' = [q EXCEPT ![r].st = "new"] /\ rq' = Append(rest, r) /\ out' = {}
           /\ UNCHANGED <<cacheVars, io, joined>>
        \/ ok /\ a.res = "ready" /\ Lookup(r, a.c, q, rest)
        \/ /\ ok /\ a.res # "ready"
           /\ SetCache(a.c) /\ req' = [q EXCEPT ![r].st = "map"] /\ rq' = rest /\ out' = {}
           /\ io' = IF a.res = "issue" THEN io \cup {<<"map", r>>} ELSE io
           /\ UNCHANGED joined

Read(r, l) ==
    /\ HostTurn /\ Free(r) /\ wb[l] = 0
    /\ Start(r, [req EXCEPT ![r] = [NoReq EXCEPT !.key = l, !.since = ver[l]]], <<>>)
    /\ UNCHANGED <<dataVars, wb, rb, updVars, ver, bp>>

\* A read of a buffered address.
ReadBuffered(l) ==
    /\ HostTurn /\ wb[l] # 0
    /\ out' = {Answer(l, wb[l], ver[l], "wb")}
    /\ UNCHANGED <<cacheVars, dataVars, wb, readVars, updVars, ver, bp>>

\* A retried read that never got a cache slot starts again.
RetryNew ==
    /\ pc = "idle" /\ rq # <<>> /\ ~bp
    /\ LET r == Head(rq)
           l == req[r].key
       IN  /\ req[r].st = "new"
           /\ \/ /\ wb[l] # 0
                 /\ out' = {Answer(l, wb[l], req[r].since, "wb")} /\ req' = [req EXCEPT ![r] = NoReq]
                 /\ rq' = Tail(rq) /\ UNCHANGED <<cacheVars, io, joined>>
              \/ wb[l] = 0 /\ Start(r, req, Tail(rq))
    /\ UNCHANGED <<dataVars, wb, rb, updVars, ver, bp>>

\* A retried read whose group was being read: the one whose read it was
\* caches the group, the others must find it cached.
RetryMap ==
    /\ pc = "idle" /\ rq # <<>> /\ ~bp
    /\ LET r == Head(rq)
           g == GroupOf(req[r].key)
       IN  /\ req[r].st = "map"
           /\ IF gp[g].flag = "FLYING" /\ req[r].done
              THEN Lookup(r, Arrive(Cache, g), req, Tail(rq) \o WokenReads(Cache, g)) /\ UNCHANGED bp
              ELSE IF gp[g].flag = "CACHED"
              THEN Lookup(r, Cache, req, Tail(rq)) /\ UNCHANGED bp
              ELSE \* "may be evicted nother requests"
                   bp' = TRUE /\ out' = {} /\ UNCHANGED <<cacheVars, req, rq, io, joined>>
    /\ UNCHANGED <<dataVars, wb, rb, updVars, ver>>

\* A retried read whose first page did not hold the address: lea_cache_promote
\* stops on a group that has left the cache.
RetryData ==
    /\ pc = "idle" /\ rq # <<>> /\ ~bp
    /\ LET r == Head(rq)
           g == GroupOf(req[r].key)
       IN  /\ req[r].st = "data"
           /\ IF gp[g].flag = "CACHED"
              THEN Lookup(r, Cache, req, Tail(rq)) /\ UNCHANGED bp
              ELSE bp' = TRUE /\ out' = {} /\ UNCHANGED <<cacheVars, req, rq, io, joined>>
    /\ UNCHANGED <<dataVars, wb, rb, updVars, ver>>

\* lea_read_end_req, on the device thread.
MapReadDone(r) ==
    /\ <<"map", r>> \in io
    /\ io' = io \ {<<"map", r>>}
    /\ req' = [req EXCEPT ![r].done = TRUE]
    /\ rq' = Append(rq, r) /\ out' = {}
    /\ UNCHANGED <<cacheVars, dataVars, wb, rb, joined, updVars, ver, bp>>

\* The page goes to the read buffer, and ends the reads that joined it and its own.
DataReadDone(r) ==
    LET p == req[r].page
        with == SelectSeq(joined, LAMBDA x : req[x].page = p)
    IN  /\ <<"data", r>> \in io
        /\ io' = io \ {<<"data", r>>}
        /\ joined' = SelectSeq(joined, LAMBDA x : req[x].page # p)
        /\ rb' = [page |-> p, data |-> req[r].data]
        /\ Serve(Append(with, r), req, req[r].data, "device", rq)
        /\ UNCHANGED <<cacheVars, dataVars, wb, updVars, ver, bp>>
-----------------------------------------------------------------------------
(* Writes and the mapping update.                                          *)
\* lea_write; the write after one that answered UINT32_MAX, one sector short of a
\* full buffer, waits until no read is in flight.
OneShort == Cardinality(Buffered) + 1 = WbMax
Write(l) ==
    /\ HostTurn /\ FoldFunction(+, 0, ver) < MaxWrites
    /\ OneShort => \A r \in Rid : Free(r)
    /\ ver' = [ver EXCEPT ![l] = @ + 1]
    /\ wb' = [wb EXCEPT ![l] = ver'[l]]
    /\ pc' = IF Cardinality({k \in Lba : wb'[k] # 0}) = WbMax THEN "flush" ELSE "idle"
    /\ out' = {}
    /\ UNCHANGED <<cacheVars, dataVars, readVars, todo, later, admitted, batch, isgc, bp>>

\* lea_mapping_update divides the batch into groups; the cached ones are
\* promoted and make the first round.
Ordered(S) == SetToSortSeq(S, LAMBDA a, b : a < b)
StartUpdate(S, gc) ==
    LET groups == {GroupOf(l) : l \in DOMAIN S}
        in == Ordered({g \in groups : Cached(Cache, g)})
    IN  /\ pc' = "admit" /\ batch' = S /\ isgc' = gc /\ admitted' = <<>>
        /\ todo' = in /\ later' = Ordered({g \in groups : ~Cached(Cache, g)})
        /\ SetCache(FoldLeft(Promote, Cache, in))

\* pm_page_flush of the addresses of the sequence ls with versions v to the
\* pages of the sequence ps, Gap to a page.
PageOf(ls, ps) == [l \in ToSet(ls) |-> ps[((CHOOSE i \in DOMAIN ls : ls[i] = l) - 1) \div Gap + 1]]
Written(ls, v, ps) ==
    [p \in Page |->
        IF p \in ToSet(ps)
        THEN LET ours == SelectSeq(ls, LAMBDA l : PageOf(ls, ps)[l] = p)
             IN [i \in DOMAIN ours |-> [l |-> ours[i], v |-> v[ours[i]]]]
        ELSE disk[p]]

\* lea_write's loop: what fits the active segment leaves the buffer in address
\* order, whole pages at a time, and a collection may come between two parts.
FlushPart ==
    LET n == Min({Len(left), Cardinality(Buffered) \div Gap})
        ls == SubSeq(Ordered(Buffered), 1, n * Gap)
    IN  /\ pc = "flush" /\ n > 0
        /\ disk' = Written(ls, wb, SubSeq(left, 1, n)) /\ left' = SubSeq(left, n + 1, Len(left))
        /\ wb' = [l \in Lba |-> IF l \in ToSet(ls) THEN 0 ELSE wb[l]]
        /\ StartUpdate(PageOf(ls, left), FALSE)
        /\ out' = {} /\ UNCHANGED <<map, erased, readVars, ver, bp>>

\* pm_assign_new_seg.
AssignNewSeg ==
    /\ pc = "flush" /\ Buffered # {} /\ left = <<>> /\ Len(erased) > 1
    /\ left' = PagesOf(Head(erased)) /\ erased' = Tail(erased)
    /\ out' = {} /\ UNCHANGED <<cacheVars, map, disk, wb, readVars, updVars, ver, bp>>

\* pm_gc, when only the reserve is left: of a segment with the fewest mapped
\* addresses these are copied to the reserve, which becomes the active segment.
Live(s) == {l \in Lba : map[l] \in ToSet(PagesOf(s))}
Version(l) == disk[map[l]][CHOOSE i \in Slots(map[l], l) : TRUE].v
Collect(s) ==
    LET ls == Ordered(Live(s))
        n == (Len(ls) + Gap - 1) \div Gap
        rsv == PagesOf(erased[1])
        d == Written(ls, [l \in Live(s) |-> Version(l)], SubSeq(rsv, 1, n))
    IN  /\ pc = "flush" /\ Buffered # {} /\ left = <<>> /\ erased # <<s>> /\ Len(erased) = 1
        /\ \A o \in 0 .. Segs - 1 : erased # <<o>> => Len(ls) <= Cardinality(Live(o))
        /\ disk' = [p \in Page |-> IF p \in ToSet(PagesOf(s)) THEN <<>> ELSE d[p]]
        /\ left' = SubSeq(rsv, n + 1, SegPages) /\ erased' = <<s>>
        /\ IF ls = <<>> THEN UNCHANGED <<cacheVars, updVars>> ELSE StartUpdate(PageOf(ls, rsv), TRUE)
        /\ out' = {} /\ UNCHANGED <<map, wb, readVars, ver, bp>>

FlushEnd ==
    /\ pc = "flush" /\ Buffered = {}
    /\ pc' = "idle" /\ out' = {}
    /\ UNCHANGED <<cacheVars, dataVars, wb, readVars, todo, later, admitted, batch, isgc, ver, bp>>

\* Groups are admitted until one finds no room: its space is made, and its map
\* read issued or joined.
Admit ==
    /\ pc = "admit" /\ todo # <<>> /\ ~bp
    /\ LET g == Head(todo)
           a == Ask(CacheEvict(Cache, g), g, "update")
       IN  /\ CanEvict(Cache, g)
           /\ SetCache(a.c)
           /\ io' = IF a.res = "issue" THEN io \cup {<<"wmap", g>>} ELSE io
           /\ admitted' = Append(admitted, [g |-> g, done |-> a.res = "ready"])
           /\ todo' = Tail(todo)
    /\ out' = {}
    /\ UNCHANGED <<dataVars, wb, req, rq, rb, joined, pc, later, batch, isgc, ver, bp>>

AdmitEnd ==
    /\ pc = "admit" /\ (todo # <<>> => ~CanEvict(Cache, Head(todo)))
    /\ pc' = "process" /\ out' = {}
    /\ UNCHANGED <<cacheVars, dataVars, wb, readVars, todo, later, admitted, batch, isgc, ver, bp>>

MapForUpdateDone(g) ==
    /\ <<"wmap", g>> \in io
    /\ io' = io \ {<<"wmap", g>>}
    /\ admitted' = [i \in DOMAIN admitted |->
                      IF admitted[i].g = g THEN [admitted[i] EXCEPT !.done = TRUE] ELSE admitted[i]]
    /\ out' = {}
    /\ UNCHANGED <<cacheVars, dataVars, wb, req, rq, rb, joined, pc, todo, later, batch, isgc, ver, bp>>

\* group_insert with lea_cache_size_update
Charge(c, g, n) ==
    [c EXCEPT !.now = @ + n - c.gp[g].size, !.gp[g].size = n, !.gp[g].clean = FALSE]

\* Mistake: only the addresses mapped before are updated.
OnlyOverwrites(g) == [l \in Lba |-> IF l \in DOMAIN batch /\ GroupOf(l) = g /\ map[l] # Nil
                                    THEN batch[l] ELSE map[l]]
NewEntries(g) == [l \in Lba |-> IF l \in DOMAIN batch /\ GroupOf(l) = g THEN batch[l] ELSE map[l]]

\* One admitted group whose map has arrived: the old pieces are looked up and
\* invalidated, unless they were collected, and the new segments inserted.
Process(i) ==
    /\ pc = "process" /\ ~bp
    /\ i \in DOMAIN admitted /\ admitted[i].done
    /\ LET g == admitted[i].g
           c == CASE gp[g].flag = "CACHED" -> Cache
                  [] gp[g].flag = "FLYING" -> Arrive(Cache, g)
                  [] OTHER -> CacheInsert(Cache, g, FALSE)
           m2 == NewEntries(g)
       IN  IF gp[g].flag = "UNCACHED" /\ gp[g].page
           THEN \* "mapping read must be done in this step"
                bp' = TRUE /\ UNCHANGED <<cacheVars, map, rq, admitted>>
           ELSE /\ map' = m2
                /\ SetCache(Charge(IF isgc THEN c ELSE Promote(c, g), g,
                                   Cardinality({l \in Members(g) : m2[l] # Nil})))
                /\ rq' = IF gp[g].flag = "FLYING" THEN rq \o WokenReads(Cache, g) ELSE rq
                /\ admitted' = RemoveAt(admitted, i)
                /\ UNCHANGED bp
    /\ out' = {}
    /\ UNCHANGED <<disk, left, erased, wb, req, io, rb, joined, pc, todo, later, batch, isgc, ver>>

\* What was admitted is done: the rest of the round, or the second round.
NextRound ==
    /\ pc = "process" /\ admitted = <<>> /\ (todo # <<>> \/ later # <<>>)
    /\ todo' = IF todo = <<>> THEN later ELSE todo
    /\ later' = IF todo = <<>> THEN <<>> ELSE later
    /\ pc' = "admit" /\ out' = {}
    /\ UNCHANGED <<cacheVars, dataVars, wb, readVars, admitted, batch, isgc, ver, bp>>

UpdateEnd ==
    /\ pc = "process" /\ admitted = <<>> /\ todo = <<>> /\ later = <<>>
    /\ SetCache(EvictForce(Cache))
    /\ pc' = "flush" /\ batch' = <<>> /\ isgc' = FALSE /\ out' = {}
    /\ UNCHANGED <<dataVars, wb, readVars, todo, later, admitted, ver, bp>>

MainStep ==
    \/ RetryNew \/ RetryMap \/ RetryData
    \/ FlushEnd \/ Admit \/ AdmitEnd \/ NextRound \/ UpdateEnd
    \/ FlushPart \/ AssignNewSeg
    \/ \E s \in 0 .. Segs - 1 : Collect(s)
    \/ \E i \in 1 .. Cardinality(Group) : Process(i)
DevStep ==
    \/ \E r \in Rid : MapReadDone(r) \/ DataReadDone(r)
    \/ \E g \in Group : MapForUpdateDone(g)
HostStep ==
    \/ \E r \in Rid, l \in Lba : Read(r, l)
    \/ \E l \in Lba : ReadBuffered(l) \/ Write(l)
Next == HostStep \/ MainStep \/ DevStep

Spec == Init /\ [][Next]_vars
-----------------------------------------------------------------------------
(* The cache is charged for exactly the groups it holds: lru_now_byte is     *)
(* their total size, the list names each cached group once, and nothing      *)
(* else, whatever the order of misses, updates and evictions.               *)
CacheExact ==
    /\ now = FoldLeft(LAMBDA s, g : s + gp[g].size, 0, lru)
    /\ \A g \in Group : (gp[g].flag = "CACHED") = (\E i \in DOMAIN lru : lru[i] = g)
    /\ \A i, j \in DOMAIN lru : lru[i] = lru[j] => i = j

(* A read never goes back behind what had been written when it was          *)
(* submitted, in whatever order misses, retries, flushes and collections     *)
(* interleave with it.                                                      *)
EveryReadFresh == \A a \in out : a.v >= a.since

(* The same for the reads that the read buffer does not answer: from the     *)
(* write buffer, from the device, or with the device read of another.       *)
ReadsFresh == \A a \in out : a.how # "buffer" => a.v >= a.since

(* No group is read twice at once, and every read that waits for a map       *)
(* waits for one the device has or that is about to be retried.             *)
MapReadsPaired ==
    \A g \in Group : gp[g].flag = "FLYING" /\ ~bp =>
        Cardinality({r \in Rid : req[r].st = "map" /\ GroupOf(req[r].key) = g
                        /\ (<<"map", r>> \in io \/ req[r].done)}
                    \cup {i \in {0} : <<"wmap", g>> \in io \/
                            \E k \in DOMAIN admitted : admitted[k].g = g /\ admitted[k].done}) = 1

(* None of the states marked with GDB_MAKE_BREAKPOINT is reached.           *)
NoBreakpoint == ~bp
=============================================================================
