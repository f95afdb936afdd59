----------------------------- MODULE IndexCache ------------------------------
(***************************************************************************)
(* AppL's cache of shortcut pages and run indexes (page_cache, cache_layer) *)
(* and the read path through it (lsmtree_read, run_query).  A read needs    *)
(* the shortcut page of its block, then the index of the run it names, then *)
(* the data; a page that is not cached is read from flash and the request   *)
(* comes back through the retry queue.  Reads of the same page wait for the *)
(* first one.  Writes, on the same thread, link their blocks to the         *)
(* memtable, and merges throw the indexes of their sources out, dirty the   *)
(* shortcut pages of what they move and free runs, while the device still   *)
(* works on the reads of others.                                            *)
(*                                                                          *)
(* The contents of shortcut pages are also kept in memory, and what is      *)
(* cached decides only which flash pages are read and written; freshness of *)
(* the flash copy is tracked here.  One block per shortcut page and one STE *)
(* per run.                                                                 *)
(***************************************************************************)
EXTENDS Integers, Sequences, FiniteSets, FiniteSetsExt, SequencesExt

CONSTANTS
    Sc,            \* shortcut pages, each with one block
    Run,           \* runs, named by the place of their summary
    Req,           \* read requests
    MaxCache,      \* max_cached_size
    ScSize, IdxSize,
    ScPages,       \* pages of the segment for shortcut pages
    MaxMerge,      \* bound on merges
    MaxRead,       \* bound on new reads
    MaxInsert,     \* bound on writes
    DataOverlap,   \* may a merge start while a data read is in flight?
    RewriteOverlap,\* may a block be written while its read waits for its shortcut page?
    Buf, Log,      \* the memtable: its page buffer, its blocks on flash
    None

Page == 0 .. ScPages - 1
Memtable == {Buf, Log}

VARIABLES
    c,        \* the cache: sc, idx, lru, now, pending lists, shortcut segment
    where,    \* the shortcut table: the run, or part of the memtable, that holds a block
    live,     \* runs not freed
    req,      \* requests
    flying,   \* requests the device works on
    retryq,   \* requests that came back
    merges, reads, inserts

vars == <<c, where, live, req, flying, retryq, merges, reads, inserts>>

Fail(z, why) == IF z.err = "" THEN [z EXCEPT !.err = why] ELSE z

-----------------------------------------------------------------------------
(* The flash segment of shortcut pages.                                     *)

\* lsm_get_ppa_from_scseg on a full segment: the valid pages are read, the
\* segment is erased, and they are written to its start.
ScCollect(z) ==
    LET kept == SetToSortSeq(z.valid, <)
        at(i) == CHOOSE n \in DOMAIN kept : z.oob[kept[n]] = i
        moved == {z.oob[p] : p \in z.valid}
    IN [z EXCEPT
          !.used = Len(kept), !.valid = 0 .. Len(kept) - 1,
          !.oob = [p \in Page |-> IF p < Len(kept) THEN z.oob[kept[p + 1]] ELSE None],
          !.fresh = {n - 1 : n \in {n \in DOMAIN kept : kept[n] \in z.fresh}},
          !.sc = [i \in Sc |-> IF i \in moved
                               THEN [@[i] EXCEPT !.ppa = at(i) - 1,
                                                 !.flag = IF @ = "dirty" THEN "clean" ELSE @]
                               ELSE @[i]]]

\* cache_get_ppa: the old address is the one from before the collection.
PutPage(z, i, old) ==
    LET p == z.used
    IN IF p = ScPages THEN Fail(z, "shortcut segment full") ELSE
       [z EXCEPT !.used = @ + 1, !.oob[p] = i, !.valid = (@ \ {old}) \cup {p},
                 !.fresh = {q \in @ : z.oob[q] # i} \cup {p}, !.sc[i].ppa = p]

CacheGetPpa(z, i) ==
    PutPage(IF z.used = ScPages THEN ScCollect(z) ELSE z, i, z.sc[i].ppa)

-----------------------------------------------------------------------------
(* The cache.                                                               *)

Size(node) == IF node.type = "sc" THEN ScSize ELSE IdxSize
Node(type, id) == [type |-> type, id |-> id]
Touch(z, node) ==
    IF node \in ToSet(z.lru) THEN [z EXCEPT !.lru = <<node>> \o SelectSeq(@, LAMBDA x : x # node)] ELSE z

\* pc_has_space.
HasSpace(z, need) == z.now + need < MaxCache

\* One entry leaves by pc_evict; a dirty shortcut page is written first.
DropScUnwritten(z, i) == [z EXCEPT !.sc[i].flag = "empty"]
DropSc(z, i) ==
    IF z.sc[i].flag = "dirty" THEN [CacheGetPpa(z, i) EXCEPT !.sc[i].flag = "empty"]
    ELSE IF z.sc[i].flag = "clean" THEN DropScUnwritten(z, i)
    ELSE Fail(z, "invalidate type in cache!")

DropIdx(z, n) ==
    IF z.idx[n] = "empty" THEN Fail(z, "evicted index is not cached") ELSE [z EXCEPT !.idx[n] = "empty"]

EvictOne(z, node) ==
    LET y == [z EXCEPT !.lru = Front(@), !.now = @ - Size(node)]
    IN IF node.type = "sc" THEN DropSc(y, node.id) ELSE DropIdx(y, node.id)

\* pc_evict.  With the list empty the size is counted again, and the program
\* goes on with a null entry unless that made room.
EvictEmpty(z, left) ==
    LET y == [z EXCEPT !.now = ScSize * Cardinality({i \in Sc : z.sc[i].flag # "empty"})]
    IN IF left < MaxCache - y.now THEN y ELSE Fail(y, "all cached entries are pinned")

Evict(z, need) ==
    LET goal == need - (MaxCache - z.now)
        tail == Reverse(z.lru)
        freed(k) == FoldLeft(LAMBDA a, x : a + Size(x), 0, SubSeq(tail, 1, k))
        enough == {k \in 0 .. Len(tail) : freed(k) >= goal}
        k == IF enough = {} THEN Len(tail) ELSE Min(enough)
        y == FoldLeft(EvictOne, z, SubSeq(tail, 1, k))
    IN IF MaxCache - z.now > need THEN z
       ELSE IF enough = {} THEN EvictEmpty(y, goal - freed(k)) ELSE y

\* pc_occupy, pc_reclaim.
OccupySc(z, i) ==
    IF z.sc[i].flag # "empty" THEN Fail(z, "occupied page is cached") ELSE [z EXCEPT !.sc[i].flag = "occupied"]
Reclaim(z, i) == [z EXCEPT !.sc[i].flag = "empty", !.now = @ - ScSize]

\* pc_set_insert.
Shrink(z) == IF z.now > MaxCache THEN Evict(z, 0) ELSE z
InsertSc(z, i) ==
    Shrink([z EXCEPT !.sc[i].flag = "clean", !.now = @ + ScSize, !.lru = <<Node("sc", i)>> \o @])
InsertIdx(z, n) ==
    Shrink([z EXCEPT !.idx[n] = "clean", !.now = @ + IdxSize, !.lru = <<Node("idx", n)>> \o @])

\* pc_force_evict_idx.
ForceEvict(z, n) ==
    IF z.idx[n] = "empty" THEN z ELSE
    [z EXCEPT !.idx[n] = "empty", !.now = @ - IdxSize,
              !.lru = SelectSeq(@, LAMBDA x : x # Node("idx", n))]

\* pc_send_get_request: the first request of a page reads it, the others wait.
\* to: the requests that go to the device.
SendScTwice(z, i, r) ==
    [z EXCEPT !.sc[i].flag = "flying", !.pendSc[i] = IF @ = None THEN <<>> ELSE @, !.to = @ \cup {r}]
SendSc(z, i, r) ==
    IF z.pendSc[i] = None THEN SendScTwice(z, i, r)
    ELSE [z EXCEPT !.sc[i].flag = "flying", !.pendSc[i] = Append(@, r)]

SendIdx(z, n, r) ==
    IF z.pendIdx[n] = None
    THEN [z EXCEPT !.idx[n] = "flying", !.pendIdx[n] = <<>>, !.to = @ \cup {r}]
    ELSE [z EXCEPT !.idx[n] = "flying", !.pendIdx[n] = Append(@, r)]

-----------------------------------------------------------------------------
(* The read path.  z.ans collects what becomes of the requests of a step.   *)

Answer(z, r, what) == [z EXCEPT !.ans[r] = what]
At(st, key) == [st |-> st, key |-> key]

\* run_query of the run that holds the block: the page buffer of the memtable
\* answers at once, otherwise the data read goes out.
QueryRun(z, r, n) ==
    IF n = Buf THEN Answer(z, r, At("done", None))
    ELSE [Answer(z, r, At("data", n)) EXCEPT !.to = @ \cup {r}]

\* run_query_retry: the index named a wrong page, its next answer is read.
QueryAgain(z, r, n) == [Answer(z, r, At("again", n)) EXCEPT !.to = @ \cup {r}]

\* cache_layer_idx_read.
MissIdx(z, r, n) == SendIdx([Answer(z, r, At("map", n)) EXCEPT !.idx[n] = "occupied"], n, r)
ReadIdx(z, r, n) ==
    IF z.idx[n] \in {"clean", "occupied"} THEN QueryRun(Touch(z, Node("idx", n)), r, n)
    ELSE IF z.idx[n] = "flying" THEN SendIdx(Answer(z, r, At("map", n)), n, r)
    ELSE MissIdx(IF HasSpace(z, IdxSize) THEN z ELSE Evict(z, IdxSize), r, n)

NotFound(z, r) == Answer(z, r, At("notfound", None))

\* The run that the shortcut table names, and the index of its STE
\* (run_pick_target_mf): the memtable's only STE is not closed before its flush,
\* and the search's "none" is used as the number of one.
Linked(z, r, i) ==
    IF where[i] = None THEN NotFound(z, r)
    ELSE IF where[i] \in Memtable THEN Fail(z, "no STE of the run has the block")
    ELSE ReadIdx(z, r, where[i])

\* cache_layer_sc_read for a user.
MissSc(z, r, i) ==
    IF z.sc[i].ppa = None THEN NotFound(Reclaim(OccupySc(z, i), i), r)
    ELSE SendSc(Answer(OccupySc(z, i), r, At("sc", i)), i, r)

ReadSc(z, r, i) ==
    IF z.sc[i].flag \in {"clean", "dirty"} THEN Linked(Touch(z, Node("sc", i)), r, i)
    ELSE IF z.sc[i].flag = "flying" THEN SendSc(Answer(z, r, At("sc", i)), i, r)
    ELSE IF HasSpace(z, ScSize) THEN MissSc(z, r, i)
    ELSE IF z.now < ScSize THEN NotFound(z, r)
    ELSE MissSc(Evict(z, ScSize), r, i)

\* lsmtree_pending_sc, lsmtree_pending_idx.
PendingScIfCached(z, r) ==
    LET i == req[r].lba
    IN IF z.sc[i].flag \in {"flying", "clean"} THEN Linked(InsertSc(z, i), r, i) ELSE NotFound(z, r)
PendingSc(z, r) ==
    LET i == req[r].lba
    IN Linked(IF z.sc[i].flag = "flying" THEN InsertSc(z, i) ELSE z, r, i)

PendingIdx(z, r) ==
    LET n == req[r].at.key
    IN QueryRun(IF z.idx[n] \in {"empty", "flying"} THEN InsertIdx(z, n) ELSE z, r, where[req[r].lba])

\* lsmtree_read of a request that came back: it and those that waited for it.
RetryScAlone(z, r, i) == PendingSc([z EXCEPT !.pendSc[i] = None], r)
RetrySc(z, r, i) ==
    IF z.pendSc[i] = None THEN Fail(z, "wtf???")
    ELSE FoldLeft(PendingSc, [z EXCEPT !.pendSc[i] = None], <<r>> \o z.pendSc[i])
RetryIdx(z, r, n) ==
    IF z.pendIdx[n] = None THEN Fail(z, "wtf???")
    ELSE FoldLeft(PendingIdx, [z EXCEPT !.pendIdx[n] = None], <<r>> \o z.pendIdx[n])

-----------------------------------------------------------------------------
(* Updates by merges: cache_layer_sc_update.                                *)

Dirty(z, i) == [z EXCEPT !.sc[i].flag = "dirty", !.fresh = {p \in @ : z.oob[p] # i}]

\* The pages that are cached or on their way are updated at once.
UpdateCached(z, i) ==
    IF z.sc[i].flag = "empty" THEN z
    ELSE Dirty(IF z.sc[i].flag = "flying" THEN z ELSE Touch(z, Node("sc", i)), i)

\* A page that was never written starts in the cache; another is read, and the
\* reads of a batch are awaited.
LoadForUpdate(z, i) ==
    IF z.sc[i].ppa = None THEN Dirty(InsertSc(z, i), i) ELSE [z EXCEPT !.sc[i].flag = "flying"]

StartLoad(z, i) ==
    IF z.err # "" \/ z.full THEN z
    ELSE IF HasSpace(z, ScSize) THEN LoadForUpdate(OccupySc(z, i), i)
    ELSE IF z.now < ScSize THEN [z EXCEPT !.full = TRUE]
    ELSE LoadForUpdate(OccupySc(Evict(z, ScSize), i), i)

FinishLoad(z, i) == Dirty(InsertSc(z, i), i)

MaxBatch == MaxCache \div ScSize

\* One batch of the pages of the sequence todo; backward: the order of arrival.
Arrived(z, y, todo, backward) ==
    LET loads == SelectSeq(todo, LAMBDA i : y.sc[i].flag = "flying" /\ z.sc[i].flag = "empty")
    IN IF y.full /\ loads = <<>> THEN Fail(y, "update makes no progress")
       ELSE FoldLeft(FinishLoad, [y EXCEPT !.full = FALSE], IF backward THEN Reverse(loads) ELSE loads)

Batch(z, todo, backward) == Arrived(z, FoldLeft(StartLoad, z, todo), todo, backward)

Chunk(todo, k) == SubSeq(todo, (k - 1) * MaxBatch + 1, Min({k * MaxBatch, Len(todo)}))

ScUpdate(z, is, backward) ==
    LET hit == FoldLeft(UpdateCached, z, is)
        todo == SelectSeq(is, LAMBDA i : z.sc[i].flag = "empty")
    IN FoldLeft(LAMBDA y, k : Batch(y, Chunk(todo, k), backward), hit,
                [k \in 1 .. (Len(todo) + MaxBatch - 1) \div MaxBatch |-> k])

\* run_merge: the new index goes to the cache when the run is done.
IdxInsert(z, n) ==
    IF z.idx[n] \in {"clean", "occupied"} THEN z
    ELSE IF z.idx[n] = "flying" \/ HasSpace(z, IdxSize) THEN InsertIdx(z, n)
    ELSE InsertIdx(Evict(z, IdxSize), n)

MergeCache(z, S, is, n, backward) ==
    IdxInsert(ScUpdate(FoldLeft(ForceEvict, z, SetToSeq(S)), is, backward), n)

-----------------------------------------------------------------------------
Quiet(z) == [z EXCEPT !.to = {}, !.ans = [r \in Req |-> None]]

\* What a step z did to the requests.
Apply(z) ==
    /\ c' = Quiet(z)
    /\ flying' = flying \cup z.to
    /\ req' = [r \in Req |-> IF z.ans[r] = None THEN req[r] ELSE [req[r] EXCEPT !.at = z.ans[r]]]

Init ==
    /\ c = [sc |-> [i \in Sc |-> [flag |-> "empty", ppa |-> None]], idx |-> [n \in Run |-> "empty"],
            lru |-> <<>>, now |-> 0, pendSc |-> [i \in Sc |-> None], pendIdx |-> [n \in Run |-> None],
            used |-> 0, valid |-> {}, oob |-> [p \in Page |-> None], fresh |-> {},
            to |-> {}, ans |-> [r \in Req |-> None], full |-> FALSE, err |-> ""]
    /\ where = [i \in Sc |-> None] /\ live = {} /\ merges = 0 /\ reads = 0 /\ inserts = 0
    /\ req = [r \in Req |-> [lba |-> None, at |-> At("idle", None)]]
    /\ flying = {} /\ retryq = <<>>

Running == c.err = ""

\* lsmtree_read of a new request: the memtable is asked first.
Read(r, i) ==
    /\ Running /\ req[r].at.st \in {"idle", "done", "notfound"}
    /\ LET z == IF where[i] \in Memtable THEN QueryRun(c, r, where[i]) ELSE ReadSc(c, r, i)
       IN /\ c' = Quiet(z) /\ flying' = flying \cup z.to
          /\ req' = [req EXCEPT ![r] = [lba |-> i, at |-> z.ans[r]]]
    /\ reads < MaxRead /\ reads' = reads + 1
    /\ UNCHANGED <<where, live, retryq, merges, inserts>>

\* cache_layer_read_endreq, cache_layer_read_idx_endreq.
MapArrives(r) ==
    /\ Running /\ r \in flying /\ req[r].at.st \in {"sc", "map"}
    /\ flying' = flying \ {r} /\ retryq' = Append(retryq, r)
    /\ UNCHANGED <<c, where, live, req, merges, reads, inserts>>

\* __check_data asks the index it came from whether the page has the block; the
\* memtable's is exact.
DataArrives(r) ==
    /\ Running /\ r \in flying /\ req[r].at.st \in {"data", "again"}
    /\ flying' = flying \ {r}
    /\ IF req[r].at.key \notin live \cup {Log}
       THEN c' = Fail(c, "index used after free") /\ UNCHANGED <<req, retryq>>
       ELSE /\ UNCHANGED c
            /\ \/ req' = [req EXCEPT ![r].at = At("done", None)] /\ UNCHANGED retryq
               \/ /\ req[r].at.st = "data" /\ req[r].at.key # Log
                  /\ retryq' = Append(retryq, r) /\ UNCHANGED req
    /\ UNCHANGED <<where, live, merges, reads, inserts>>

\* The main thread takes a request that came back.
RetryHead ==
    /\ Running /\ retryq # <<>>
    /\ LET r == Head(retryq)
           at == req[r].at
       IN CASE at.st = "sc" -> Apply(RetrySc(c, r, at.key))
            [] at.st = "map" -> Apply(RetryIdx(c, r, at.key))
            [] OTHER -> IF at.key \in live THEN Apply(QueryAgain(c, r, at.key))
                        ELSE c' = Fail(c, "run used after free") /\ UNCHANGED <<req, flying>>
    /\ retryq' = Tail(retryq)
    /\ UNCHANGED <<where, live, merges, reads, inserts>>

\* run_insert into the memtable: the block is linked to it in memory, whatever
\* the cache holds of its shortcut page; a full page buffer goes to flash.
Write(i, full) ==
    /\ Running /\ inserts < MaxInsert
    /\ RewriteOverlap \/ \A r \in Req : req[r].at.st = "sc" => req[r].lba # i
    /\ where' = IF full THEN [j \in Sc |-> IF j = i \/ where[j] = Buf THEN Log ELSE where[j]]
                ELSE [where EXCEPT ![i] = Buf]
    /\ inserts' = inserts + 1 /\ UNCHANGED <<c, live, req, flying, retryq, merges, reads>>

\* A flush of the memtable, which is freed (no sources), or a merge of runs, into
\* run n.
Merge(S, n, backward) ==
    LET moved == {i \in Sc : where[i] \in IF S = {} THEN Memtable ELSE S}
        lost(r) == S = {} /\ req[r].at = At("data", Log)
    IN /\ Running /\ merges < MaxMerge /\ n \notin live /\ S \subseteq live
       /\ S = {} => moved # {}
       /\ DataOverlap \/ \A r \in Req : req[r].at.st \notin {"data", "again"}
       /\ c' = MergeCache(c, S, SetToSortSeq(moved, <), n, backward)
       /\ where' = [i \in Sc |-> IF i \in moved THEN n ELSE where[i]]
       /\ live' = (live \ S) \cup {n}
       /\ req' = [r \in Req |-> IF lost(r) THEN [req[r] EXCEPT !.at.key = None] ELSE req[r]]
       /\ merges' = merges + 1 /\ UNCHANGED <<flying, retryq, reads, inserts>>

Next ==
    \/ \E r \in Req : (\E i \in Sc : Read(r, i)) \/ MapArrives(r) \/ DataArrives(r)
    \/ RetryHead
    \/ \E i \in Sc, full \in BOOLEAN : Write(i, full)
    \/ \E S \in SUBSET Run, n \in Run, b \in BOOLEAN : Merge(S, n, b)

\* The device answers every read and the main thread takes what came back:
\* the only step that shortens the retry queue is RetryHead.
TakesHead == Running /\ retryq # <<>> /\ retryq' = Tail(retryq)
Fairness == WF_retryq(TakesHead) /\ \A r \in Req : WF_vars(MapArrives(r)) /\ WF_vars(DataArrives(r))

Spec == Init /\ [][Next]_vars /\ Fairness

-----------------------------------------------------------------------------
\* None of the checks of the cache fails: a page is never occupied twice, a
\* victim is always cached, the eviction list never runs empty, an update always
\* makes progress, and a request that comes back always finds its pending list.
CacheSound == c.err = ""

\* Nobody waits for nothing: a request that needs a page or an index is with the
\* device, in the retry queue, or in the pending list of a page whose first
\* reader is; and no list waits for a reader that is gone.
ReadersPaired ==
    Running =>
        LET front(r) == r \in flying \/ r \in ToSet(retryq)
            lists(st, key) == IF st = "sc" THEN c.pendSc[key] ELSE c.pendIdx[key]
            first(st, key) == {r \in Req : front(r) /\ req[r].at = At(st, key)}
        IN /\ \A r \in Req : req[r].at.st \in {"sc", "map"} =>
                LET l == lists(req[r].at.st, req[r].at.key)
                IN l # None /\ (front(r) # (r \in ToSet(l)))
           /\ \A i \in Sc : Cardinality(first("sc", i)) = IF c.pendSc[i] = None THEN 0 ELSE 1
           /\ \A n \in Run : Cardinality(first("map", n)) = IF c.pendIdx[n] = None THEN 0 ELSE 1

\* A read is answered "not found" only if its block was never written, whatever
\* the cache holds and whichever pages are being read or evicted.
NotFoundIsTrue == [][\A r \in Req :
    req'[r].at.st = "notfound" /\ req[r].at.st # "notfound" => where[req'[r].lba] = None]_vars

\* The shortcut table survives on flash: a page that is not in the cache was
\* never updated, or its address is valid, its own and holds the last update.
ShortcutsKept ==
    Running => \A i \in Sc :
        /\ c.sc[i].flag = "empty" /\ where[i] \in Run => c.sc[i].ppa # None
        /\ c.sc[i].flag \in {"empty", "clean"} /\ c.sc[i].ppa # None =>
              c.sc[i].ppa \in c.valid /\ c.oob[c.sc[i].ppa] = i /\ c.sc[i].ppa \in c.fresh

\* A read that is answered has used only runs that still exist.
NoUseAfterFree == c.err \notin {"index used after free", "run used after free"}

\* The search for the STE of a block says so when a run has none, and a read that
\* comes back from its shortcut page never takes that answer for one: the run the
\* shortcut table names by then has the block in one of its STEs.
StePicked == c.err # "no STE of the run has the block"

\* Every read is answered, also one that waits in the pending list of a page
\* another read asked for, and one whose index named a wrong page first.
ReadsEnd == \A r \in Req :
    req[r].at.st \in {"sc", "map", "data", "again"} ~> req[r].at.st \in {"done", "notfound"}
=============================================================================
