------------------------------- MODULE PageFTL -------------------------------
(***************************************************************************)
(* The page-mapping FTL (algorithm/Page_ftl) over the sequential block     *)
(* manager and a flash device with a request queue (lower/posix_memory     *)
(* built with LASYNC: p_q and the thread l_main).  Two threads interleave: *)
(* the interface's main thread, which calls page_read and page_write and   *)
(* runs garbage collection inside a write, and the device thread, which    *)
(* executes queued requests in order and runs the end_req callbacks.  The  *)
(* build without LASYNC executes a request inside the call: its behaviours *)
(* are those in which the device steps right after every request.          *)
(***************************************************************************)
EXTENDS SeqBlockManager

CONSTANTS
    Ver,            \* versions of a logical page
    None,           \* UINT32_MAX as an address, a page with populate = false
    Junk,           \* bytes nobody wrote (page padding, values never set)
    Rid,            \* user reads that may be in flight
    PQ,             \* capacity of the device queue (p_q, 1024)
    CopyMetaOnly,   \* the build switch COPYMETA_ONLY
    MaxLoads        \* bound on dump-and-load cycles

ASSUME NoneAssumption == None \notin Piece /\ None \notin Ppa /\ None \notin Seg
ASSUME JunkAssumption == Junk \notin Key \X Ver
ASSUME QueueAssumption == PQ \in Nat \ {0}
ASSUME RoomAssumption == NOS > 1   \* page_map_create takes two segments
ASSUME LoadAssumption == MaxLoads \in Nat /\ CopyMetaOnly \in BOOLEAN

\* The contents of a logical page: a version of the page of some key.
Val == Key \X Ver
PageData == [Off -> Val \cup {Junk}]
ASSUME PageAssumption == None \notin PageData

VARIABLES
    mapping,    \* p->mapping: where each key's data is
    active,     \* p->active
    reserve,    \* p->reserve
    abuf,       \* a_buffer: the writes not yet grouped into a page
    pc,         \* where the main thread is
    newppa,     \* the page get_ppa returned
    mapi,       \* the loop index of page_map_assign
    victim,     \* the segment do_gc collects
    gcread,     \* pages of the victim do_gc still has to read
    gclist,     \* temp_list: reads issued, with their data once done
    gcur,       \* the page of temp_list being copied
    gci,        \* the loop index over its pieces
    gbuf,       \* g_buffer: pieces waiting to fill a page
    devq,       \* p_q
    devcb,      \* the page whose read callback is between its two locks
    flash,      \* seg_table: the contents of each page
    rb,         \* the read buffer: rb.buffer_ppa and rb.buffer_value
    issued,     \* the keys of rb.issue_req
    pending,    \* rb.pending_req: reads that wait for another one's page
    inflight,   \* the user reads not answered yet
    answers,    \* history: the reads the latest step answered
    latest,     \* history: the value of the latest write of each key
    loads       \* dump-and-load cycles so far

ftlVars  == <<mapping, active, reserve, abuf>>
asgVars  == <<newppa, mapi>>
copyVars == <<gcur, gci>>
gcVars   == <<victim, gcread, gclist, copyVars, gbuf>>
devVars  == <<devq, devcb, flash>>
readVars == <<rb, issued, pending, inflight>>
vars == <<bmVars, ftlVars, pc, asgVars, gcVars, devVars, readVars, answers,
          latest, loads>>

\* A step that answers no read and accepts no request.
Silent == answers' = {} /\ UNCHANGED <<latest, loads>>

\* A request in the device queue.
Write(ppa, data) == [op |-> "write", ppa |-> ppa, data |-> data]
UserRead(r)      == [op |-> "read", ppa |-> r.piece[1], req |-> r]
GcRead(ppa)      == [op |-> "gcread", ppa |-> ppa]
Trim(s)          == [op |-> "trim", seg |-> s]

\* Mistake: a request is put before those that wait.
SendFirst(request) ==
    /\ Len(devq) < PQ
    /\ devq' = <<request>> \o devq

\* li->write and li->read: posix_async_make_req waits for room in p_q.
Send(request) ==
    /\ Len(devq) < PQ
    /\ devq' = Append(devq, request)

\* A user read; want is the value a correct store returns at this point.
ReadReq(id, k) ==
    [id |-> id, key |-> k, piece |-> mapping[k], want |-> latest[k]]
Answer(r, got, from) == [req |-> r, got |-> got, from |-> from]

AbufKeys == {abuf[i].key : i \in DOMAIN abuf}
AbufPos(k) == CHOOSE i \in DOMAIN abuf : abuf[i].key = k

(* page_create: page_map_create takes the reserve segment, then the active  *)
(* one, from the block manager.                                            *)
Init ==
    /\ BMInit({1}, [i \in 1 .. NOS - 2 |-> i + 1])
    /\ reserve = 0
    /\ active = 1
    /\ mapping = [k \in Key |-> None]
    /\ abuf = <<>>
    /\ pc = "idle"
    /\ newppa = None
    /\ mapi = 0
    /\ victim = None
    /\ gcread = {}
    /\ gclist = {}
    /\ gcur = None
    /\ gci = 0
    /\ gbuf = <<>>
    /\ devq = <<>>
    /\ devcb = None
    /\ flash = [p \in Ppa |-> None]
    /\ rb = [ppa |-> None, data |-> None]
    /\ issued = {}
    /\ pending = {}
    /\ inflight = {}
    /\ answers = {}
    /\ latest = [k \in Key |-> Junk]
    /\ loads = 0
-----------------------------------------------------------------------------
(* Writes: page_write, align_buffering, page_map_assign and get_ppa.       *)

\* align_buffering: a key already buffered is overwritten in place; the
\* L2PGAP-th distinct key starts a page write.  The request is acknowledged
\* (end_req) when page_write returns to "idle".
PageWrite(k, v) ==
    /\ pc = "idle"
    /\ abuf' = IF k \in AbufKeys
               THEN [abuf EXCEPT ![AbufPos(k)].val = v]
               ELSE Append(abuf, [key |-> k, val |-> v])
    /\ pc' = IF Len(abuf') = L2PGAP THEN "get_ppa" ELSE "idle"
    /\ latest' = [latest EXCEPT ![k] = v]
    /\ answers' = {}
    /\ UNCHANGED <<bmVars, mapping, active, reserve, asgVars, gcVars, devVars,
                   readVars, loads>>

\* page_remove acknowledges and does nothing (the code after its return is
\* unreachable); page_flush aborts and is never sent.

NeedGc == CheckFull(active) /\ IsGcNeeded

SkipGc ==
    /\ pc = "get_ppa"
    /\ ~NeedGc
    /\ pc' = "alloc"
    /\ Silent
    /\ UNCHANGED <<bmVars, ftlVars, asgVars, gcVars, devVars, readVars>>

\* get_ppa: the active segment is full, take the next free one.  With an
\* empty queue q_dequeue returns NULL and __segment_assign_post uses it.
AllocSegment ==
    /\ pc = "alloc"
    /\ SegFull(active)
    /\ \/ /\ GetSeg
          /\ active' = FreeSeg
          /\ InsertHeap(FreeSeg)
          /\ pc' = pc
       \/ /\ freeq = <<>>
          /\ pc' = "crash"
          /\ UNCHANGED <<active, heap, freeq>>
    /\ Silent
    /\ UNCHANGED <<cursorVars, bitVars, oob, mapping, reserve, abuf, asgVars,
                   gcVars, devVars, readVars>>

\* get_ppa: a page of the active segment, validated for all its keys before
\* any of their old copies is invalidated.
AllocPage ==
    /\ pc = "alloc"
    /\ GetPageAddr(active)
    /\ newppa' = NextPpa(active)
    /\ BitSetPage(NextPpa(active), L2PGAP)
    /\ SetOob(NextPpa(active), [i \in DOMAIN abuf |-> abuf[i].key])
    /\ mapi' = 0
    /\ pc' = "map"
    /\ Silent
    /\ UNCHANGED <<listVars, ftlVars, gcVars, devVars, readVars>>

\* Mistake: the old copy keeps its valid bit.
OldCopyLeaked(k) == UNCHANGED bitVars

InvalidateOld(k) ==
    IF mapping[k] # None THEN BitUnset(mapping[k]) ELSE UNCHANGED bitVars

\* page_map_assign, one iteration: invalidate the old copy, map the new one.
MapKey ==
    /\ pc = "map"
    /\ LET k == abuf[mapi + 1].key
       IN  /\ InvalidateOld(k)
           /\ mapping' = [mapping EXCEPT ![k] = <<newppa, mapi>>]
    /\ mapi' = mapi + 1
    /\ pc' = IF mapi' = L2PGAP THEN "submit" ELSE "map"
    /\ Silent
    /\ UNCHANGED <<cursorVars, oob, listVars, active, reserve, abuf, newppa,
                   gcVars, devVars, readVars>>

\* send_user_req(DATAW), then a_buffer.idx = 0 and the acknowledgement.
SubmitPage ==
    /\ pc = "submit"
    /\ Send(Write(newppa, [i \in Off |-> abuf[i + 1].val]))
    /\ abuf' = <<>>
    /\ newppa' = None
    /\ mapi' = 0
    /\ pc' = "idle"
    /\ Silent
    /\ UNCHANGED <<bmVars, mapping, active, reserve, gcVars, devcb, flash, readVars>>
-----------------------------------------------------------------------------
(* Garbage collection: do_gc, run by the main thread inside get_ppa.       *)

SegPages(s) == {p \in Ppa : SegOf(p) = s}
\* The page of S that for_each_page_in_seg visits first.
IsFirstPage(p, S) ==
    \A q \in S : p[2] < q[2] \/ (p[2] = q[2] /\ p[3] <= q[3])
HasValidPiece(p) == \E i \in Off : ~IsInvalidPiece(<<p, i>>)

StartGc ==
    /\ pc = "get_ppa"
    /\ NeedGc
    /\ \E s \in heap :
          /\ GetGcTarget(s)
          /\ victim' = s
          /\ gcread' = {p \in SegPages(s) : HasValidPiece(p)}
    /\ pc' = "gc_read"
    /\ Silent
    /\ UNCHANGED <<cursorVars, oob, ftlVars, asgVars, gclist, copyVars, gbuf, devVars,
                   readVars>>

\* send_req(GCDR) for the pages with a valid piece, in address order.
GcIssueRead ==
    /\ pc = "gc_read"
    /\ \/ /\ \E p \in gcread :
                /\ IsFirstPage(p, gcread)
                /\ gcread' = gcread \ {p}
                /\ gclist' = gclist \cup {[ppa |-> p, data |-> None]}
                /\ Send(GcRead(p))
          /\ pc' = pc
       \/ /\ gcread = {}
          /\ pc' = "gc_copy"
          /\ UNCHANGED <<gcread, gclist, devq>>
    /\ Silent
    /\ UNCHANGED <<bmVars, ftlVars, asgVars, victim, copyVars, gbuf, devcb, flash,
                   readVars>>

\* Mistake: page_map_gc_update leaves the mapping as it was.
GcMapForgotten(page, ppa) == mapping

\* page_map_gc_update: the moved keys map to the new page.  The old copies
\* keep their bits: the victim is about to be erased.
GcMap(page, ppa) ==
    [k \in Key |->
        IF \E i \in DOMAIN page : page[i].key = k
        THEN <<ppa, (CHOOSE i \in DOMAIN page : page[i].key = k) - 1>>
        ELSE mapping[k]]

\* page_map_gc_update, validate_ppa and send_req(GCDW): a page of the reserve
\* segment for the buffered pieces; the rest of a short page is padding.
GcFlush(page) ==
    LET ppa == NextPpa(reserve)
    IN  /\ GetPageAddr(reserve)
        /\ mapping' = GcMap(page, ppa)
        /\ BitSetPage(ppa, Len(page))
        /\ SetOob(ppa, [i \in DOMAIN page |-> page[i].key])
        /\ Send(Write(ppa,
                 [i \in Off |-> IF i < Len(page) THEN page[i + 1].val ELSE Junk]))

\* One iteration of the loop over the pieces of a page whose read is done:
\* a valid piece joins g_buffer under the key its spare area names, and the
\* L2PGAP-th one writes the buffer out.
GcPiece(gv) ==
    LET next == Append(gbuf, [key |-> oob[gv.ppa][gci], val |-> gv.data[gci]])
    IN  \/ /\ IsInvalidPiece(<<gv.ppa, gci>>)
           /\ UNCHANGED <<bmVars, mapping, gbuf, devq>>
        \/ /\ ~IsInvalidPiece(<<gv.ppa, gci>>)
           /\ Len(next) < L2PGAP
           /\ gbuf' = next
           /\ UNCHANGED <<bmVars, mapping, devq>>
        \/ /\ ~IsInvalidPiece(<<gv.ppa, gci>>)
           /\ Len(next) = L2PGAP
           /\ GcFlush(next)
           /\ gbuf' = <<>>
           /\ UNCHANGED listVars

\* do_gc works on one page of temp_list at a time, any whose read is done,
\* and takes it off the list after its last piece.
GcCopy(gv) ==
    /\ pc = "gc_copy"
    /\ gv.data # None
    /\ gcur \in {None, gv.ppa}
    /\ GcPiece(gv)
    /\ \/ /\ gci + 1 < L2PGAP
          /\ gcur' = gv.ppa
          /\ gci' = gci + 1
          /\ gclist' = gclist
       \/ /\ gci + 1 = L2PGAP
          /\ gcur' = None
          /\ gci' = 0
          /\ gclist' = gclist \ {gv}
    /\ Silent
    /\ UNCHANGED <<active, reserve, abuf, pc, asgVars, victim, gcread, devcb, flash,
                   readVars>>

GcFlushRest ==
    /\ pc = "gc_copy"
    /\ gclist = {}
    /\ gbuf # <<>>
    /\ GcFlush(gbuf)
    /\ gbuf' = <<>>
    /\ Silent
    /\ UNCHANGED <<listVars, active, reserve, abuf, pc, asgVars, victim, gcread,
                   gclist, copyVars, devcb, flash, readVars>>

\* Mistake: the erase is never sent.
EraseForgotten(s) == UNCHANGED <<devq, flash>>

\* li->trim_block as sbm_trim_segment calls it.
Erase(s) == Send(Trim(s)) /\ UNCHANGED flash

\* bm->trim_segment(target).
GcTrim ==
    /\ pc = "gc_copy"
    /\ gclist = {}
    /\ gbuf = <<>>
    /\ TrimSegment(victim)
    /\ Erase(victim)
    /\ pc' = "gc_swap"
    /\ Silent
    /\ UNCHANGED <<ftlVars, asgVars, gcVars, devcb, readVars>>

NewReserve == GetSeg /\ reserve' = FreeSeg

\* The reserve becomes the active segment and a free one the new reserve.
GcSwap ==
    /\ pc = "gc_swap"
    /\ active' = reserve
    /\ InsertHeap(reserve)
    /\ NewReserve
    /\ victim' = None
    /\ pc' = "alloc"
    /\ Silent
    /\ UNCHANGED <<cursorVars, bitVars, oob, mapping, abuf, asgVars, gcread, gclist,
                   copyVars, gbuf, devVars, readVars>>
-----------------------------------------------------------------------------
(* Reads: page_read and send_user_req(DATAR).                              *)

\* A read answered before page_read returns.
Reply(r, got, from) ==
    /\ answers' = {Answer(r, got, from)}
    /\ UNCHANGED <<devq, readVars>>

\* The write buffer first, then the mapping, the read buffer, a read of the
\* same page already issued, and at last the flash.
PageRead(id, k) ==
    /\ pc = "idle"
    /\ id \notin inflight
    /\ LET r == ReadReq(id, k)
           ppa == r.piece[1]
       IN  IF k \in AbufKeys THEN Reply(r, abuf[AbufPos(k)].val, "a_buffer")
           ELSE IF r.piece = None THEN Reply(r, Junk, "notfound")
           ELSE IF rb.ppa = ppa THEN Reply(r, rb.data[r.piece[2]], "read_buffer")
           ELSE /\ inflight' = inflight \cup {id}
                /\ \/ /\ ppa \in issued
                      /\ pending' = pending \cup {r}
                      /\ UNCHANGED <<devq, issued>>
                   \/ /\ ppa \notin issued
                      /\ issued' = issued \cup {ppa}
                      /\ Send(UserRead(r))
                      /\ UNCHANGED pending
                /\ answers' = {}
                /\ UNCHANGED rb
    /\ UNCHANGED <<bmVars, ftlVars, pc, asgVars, gcVars, devcb, flash, latest, loads>>
-----------------------------------------------------------------------------
(* The device thread: l_main, posix_read, posix_write, posix_trim_block    *)
(* and the end_req callbacks they run.                                     *)

\* data_copy_from; its abort on a page that is not populated is what
\* ReadsPopulated excludes.
ReadPage(ppa) == IF flash[ppa] = None THEN [i \in Off |-> Junk] ELSE flash[ppa]

Dequeue(op) ==
    /\ devcb = None
    /\ devq # <<>>
    /\ Head(devq).op = op
    /\ devq' = Tail(devq)

DevWrite ==
    /\ Dequeue("write")
    /\ flash' = [flash EXCEPT ![Head(devq).ppa] = Head(devq).data]
    /\ Silent
    /\ UNCHANGED <<bmVars, ftlVars, pc, asgVars, gcVars, devcb, readVars>>

DevTrim ==
    /\ Dequeue("trim")
    /\ flash' = [p \in Ppa |-> IF SegOf(p) = Head(devq).seg THEN None ELSE flash[p]]
    /\ Silent
    /\ UNCHANGED <<bmVars, ftlVars, pc, asgVars, gcVars, devcb, readVars>>

\* page_gc_end_req(GCDR): gv->isdone.
Done(p) ==
    {IF g.ppa = p THEN [g EXCEPT !.data = ReadPage(p)] ELSE g : g \in gclist}

DevGcRead ==
    /\ Dequeue("gcread")
    /\ gclist' = Done(Head(devq).ppa)
    /\ Silent
    /\ UNCHANGED <<bmVars, ftlVars, pc, asgVars, victim, gcread, copyVars, gbuf, devcb,
                   flash, readVars>>

\* Mistake: the page stays in issue_req.
IssuedKept(p) == issued

PendingWithout(p) == {r \in pending : r.piece[1] # p}
IssuedWithout(p) == issued \ {p}

\* page_end_req(DATAR) under pending_lock: the reads that waited for this
\* page are answered from its data, and the page is no longer issued.
DevRead ==
    /\ Dequeue("read")
    /\ LET p == Head(devq).ppa
           mine == {r \in pending : r.piece[1] = p}
           data == ReadPage(p)
       IN  /\ answers' = {Answer(r, data[r.piece[2]], "pending") : r \in mine}
           /\ pending' = PendingWithout(p)
           /\ inflight' = inflight \ {r.id : r \in mine}
           /\ issued' = IssuedWithout(p)
           /\ devcb' = [req |-> Head(devq).req, data |-> data]
    /\ UNCHANGED <<bmVars, ftlVars, pc, asgVars, gcVars, flash, rb, latest, loads>>

\* page_end_req(DATAR) under read_buffer_lock: the page goes to the read
\* buffer, and the request itself is answered.
DevFillBuffer ==
    /\ devcb # None
    /\ rb' = [ppa |-> devcb.req.piece[1], data |-> devcb.data]
    /\ answers' = {Answer(devcb.req, devcb.data[devcb.req.piece[2]], "flash")}
    /\ inflight' = inflight \ {devcb.req.id}
    /\ devcb' = None
    /\ UNCHANGED <<bmVars, ftlVars, pc, asgVars, gcVars, devq, flash, issued, pending,
                   latest, loads>>
-----------------------------------------------------------------------------

\* posix_dump and posix_load: only storage is saved; with COPYMETA_ONLY no
\* page has any, and posix_load leaves every populate flag false.
LoadedFlash == IF CopyMetaOnly THEN [p \in Ppa |-> None] ELSE flash

\* inf_dump at the end of a run and inf_load in the next one: the block
\* manager, the device, then page_load, on a quiescent system.  The mapping,
\* the write buffer and the active and reserve segments come back as saved.
DumpLoad ==
    /\ pc = "idle"
    /\ devq = <<>>
    /\ devcb = None
    /\ inflight = {}
    /\ loads < MaxLoads
    /\ loads' = loads + 1
    /\ LoadSegments(reserve)
    /\ flash' = LoadedFlash
    /\ rb' = [ppa |-> None, data |-> None]
    /\ issued' = {}
    /\ pending' = {}
    /\ answers' = {}
    /\ UNCHANGED <<cursorVars, bitVars, oob, ftlVars, pc, asgVars, gcVars, devq, devcb,
                   inflight, latest>>

MainStep ==
    \/ SkipGc \/ AllocSegment \/ AllocPage \/ MapKey \/ SubmitPage
    \/ StartGc \/ GcIssueRead \/ (\E gv \in gclist : GcCopy(gv))
    \/ GcFlushRest \/ GcTrim \/ GcSwap

DevStep == DevWrite \/ DevTrim \/ DevGcRead \/ DevRead \/ DevFillBuffer

\* A write of the value the page already holds cannot be told apart from
\* no write, so the host changes the version when it has more than one.
HostStep ==
    \/ \E k \in Key, n \in Ver :
          /\ <<k, n>> # latest[k] \/ Ver = {n}
          /\ PageWrite(k, <<k, n>>)
    \/ \E id \in Rid, k \in Key : PageRead(id, k)

Next == HostStep \/ MainStep \/ DevStep \/ DumpLoad

Spec == Init /\ [][Next]_vars

\* The main thread and the device thread keep running; the host need not
\* send anything.
FairSpec == Spec /\ WF_vars(MainStep) /\ WF_vars(DevStep)
-----------------------------------------------------------------------------
UserReadReq == [id : Rid, key : Key, piece : Piece, want : Val \cup {Junk}]
DevRequest ==
    [op : {"write"}, ppa : Ppa, data : PageData]
        \cup [op : {"read"}, ppa : Ppa, req : UserReadReq]
        \cup [op : {"gcread"}, ppa : Ppa]
        \cup [op : {"trim"}, seg : Seg]

FTLTypeOK ==
    /\ mapping \in [Key -> Piece \cup {None}]
    /\ active \in Seg
    /\ reserve \in Seg
    /\ abuf \in Seq([key : Key, val : Val])
    /\ pc \in {"idle", "get_ppa", "alloc", "map", "submit",
               "gc_read", "gc_copy", "gc_swap", "crash"}
    /\ newppa \in Ppa \cup {None}
    /\ mapi \in 0 .. L2PGAP
    /\ victim \in Seg \cup {None}
    /\ gcread \subseteq Ppa
    /\ gclist \subseteq [ppa : Ppa, data : PageData \cup {None}]
    /\ gcur \in Ppa \cup {None}
    /\ gci \in Off
    /\ gbuf \in Seq([key : Key, val : Val \cup {Junk}])

DevTypeOK ==
    /\ devq \in Seq(DevRequest)
    /\ devcb \in [req : UserReadReq, data : PageData] \cup {None}
    /\ flash \in [Ppa -> PageData \cup {None}]
    /\ issued \subseteq Ppa
    /\ pending \subseteq UserReadReq
    /\ inflight \subseteq Rid
    /\ latest \in [Key -> Val \cup {Junk}]
    /\ loads \in 0 .. MaxLoads

TypeOK == BMTypeOK /\ FTLTypeOK /\ DevTypeOK

(* The mapping never points at a piece the block manager thinks is free:    *)
(* a mapped piece has its bit set and the spare area of its page names the  *)
(* key, so that page_map_assign invalidates each copy once and do_gc moves  *)
(* it under its own key.                                                   *)
MappingSound ==
    \A k \in Key : mapping[k] # None =>
        /\ mapping[k] \in bits
        /\ oob[mapping[k][1]][mapping[k][2]] = k

(* Between writes the valid bits are exactly the mapped pieces: neither an  *)
(* overwrite nor a collection leaves a valid bit behind that would keep a   *)
(* dead piece alive for ever.                                              *)
NoLeakedPieces ==
    pc = "idle" => bits = {mapping[k] : k \in Key} \ {None}

(* The counters the victim choice rests on agree with the bitmap: the       *)
(* pieces validated and not invalidated are the ones whose bit is set, per  *)
(* block and per segment; is_full_invalid marks exactly the blocks whose    *)
(* pieces are all dead and invalid_block_num counts them.                  *)
CountersExact ==
    /\ \A b \in Seg \X Block :
          /\ bval[b] - binv[b] = Cardinality({p \in bits : PieceBlock(p) = b})
          /\ bfull[b] <=> (binv[b] # 0 /\ binv[b] = bval[b])
    /\ \A s \in Seg :
          /\ sval[s] - sinv[s] = Cardinality({p \in bits : PieceSeg(p) = s})
          /\ sfull[s] = Cardinality({b \in Block : bfull[<<s, b>>]})

(* sbm_get_page_addr's abort is unreachable: the page it is about to hand   *)
(* out is the used_page_num-th of its segment.                             *)
CursorExact ==
    \A s \in Seg : ~SegFull(s) =>
        used[s] = NextPpa(s)[2] * PPB + NextPpa(s)[3]

(* The segment manager's books are exact: its valid bits against the        *)
(* mapping, its counters against the bits, its cursors against the pages    *)
(* handed out.                                                             *)
BooksExact == NoLeakedPieces /\ CountersExact /\ CursorExact

(* Every segment is in one place only: free, a collection candidate, the    *)
(* reserve, or the victim of the collection under way.  A segment in two    *)
(* places would be erased under its data or handed out twice.              *)
SegmentsPartition ==
    /\ active \in heap \cup {victim}
    /\ \A i, j \in DOMAIN freeq : freeq[i] = freeq[j] => i = j
    /\ \A i \in DOMAIN freeq : freeq[i] \notin heap \cup {reserve}
    /\ reserve \notin heap \cup {victim}
    /\ victim \notin heap
    /\ \A s \in Seg \ (heap \cup {reserve}) :
          (\E i \in DOMAIN freeq : freeq[i] = s) <=> (s # victim \/ pc = "gc_swap")

\* The contents of a page once the queued requests are executed.
Effective(ppa) ==
    LET touches(i) == \/ devq[i].op = "write" /\ devq[i].ppa = ppa
                      \/ devq[i].op = "trim" /\ devq[i].seg = SegOf(ppa)
        at == {i \in DOMAIN devq : touches(i)}
        lastOp == CHOOSE i \in at : \A j \in at : j <= i
    IN  IF at = {} THEN flash[ppa]
        ELSE IF devq[lastOp].op = "write" THEN devq[lastOp].data ELSE None

\* What the store holds for a key.
Stored(k) ==
    IF k \in AbufKeys THEN abuf[AbufPos(k)].val
    ELSE IF mapping[k] = None THEN Junk
    ELSE IF Effective(mapping[k][1]) = None THEN None
    ELSE Effective(mapping[k][1])[mapping[k][2]]

(* No acknowledged write is ever lost: at every step of a write or of a     *)
(* collection the buffer, or the page the mapping names once the queued     *)
(* requests are executed, holds the key's latest value.                    *)
NothingLost == \A k \in Key : Stored(k) = latest[k]

(* The device never aborts with "cannot write! plz write before erase!":    *)
(* every page write finds its page erased, even though the erase and the    *)
(* writes are only queued when the FTL reuses the segment.                 *)
WritesOnErased ==
    devq # <<>> /\ Head(devq).op = "write" => flash[Head(devq).ppa] = None

(* The device never aborts with "not populated!": no read is executed on a  *)
(* page that was never written or was erased under it, although a           *)
(* collection may erase the segment of a read that is still queued.        *)
ReadsPopulated ==
    devq # <<>> /\ Head(devq).op \in {"read", "gcread"} =>
        flash[Head(devq).ppa] # None

(* The device never aborts on the order of what was queued: a page is       *)
(* written only after its erase and read only while it holds something.    *)
DeviceOrderKept == WritesOnErased /\ ReadsPopulated

(* A collection always gains room: the reserve never runs out of pages      *)
(* while pieces are left to move, and after it get_ppa never asks an empty  *)
(* free queue for a segment.                                               *)
GcMakesRoom ==
    /\ pc # "crash"
    /\ pc = "gc_copy" /\ (gclist # {} \/ gbuf # <<>>) => ~SegFull(reserve)

(* A read answered from the write buffer, from its own flash read or from   *)
(* the flash read of another request it was coalesced with returns the      *)
(* value of the latest write before the read was issued.                   *)
FlashReadsFresh ==
    \A a \in answers : a.from # "read_buffer" => a.got = a.req.want

(* Every read returns the latest value, which is what the data checker of   *)
(* include/utils/data_checker.c aborts on ("data miss!!!!").               *)
AllReadsFresh == \A a \in answers : a.got = a.req.want

(* Every user read is answered, those coalesced with another one included,  *)
(* and a write, with the collection it may start, returns to the host.      *)
RequestsEnd ==
    /\ \A id \in Rid : id \in inflight ~> id \notin inflight
    /\ pc # "idle" ~> pc = "idle"
-----------------------------------------------------------------------------
(* The inductive invariant behind TypeOK, MappingSound and                 *)
(* SegmentsPartition.                                                      *)

\* The blocks after the one being filled are untouched, and a bit is only set
\* in a page that was handed out.
CursorInv ==
    /\ \A s \in Seg, b \in Block : b > bptr[s] => pptr[<<s, b>>] = 0
    /\ \A p \in bits : p[1][3] < pptr[PieceBlock(p)]

\* a_buffer holds distinct keys, L2PGAP of them once a page write started.
BufferInv ==
    /\ \A i, j \in DOMAIN abuf : abuf[i].key = abuf[j].key => i = j
    /\ Len(abuf) <= L2PGAP
    /\ pc = "idle" => Len(abuf) < L2PGAP
    /\ pc # "idle" => Len(abuf) = L2PGAP

\* In the loop of page_map_assign: the pieces of the new page not mapped yet
\* are valid and named after the buffered keys, and no key maps to them.
AssignInv ==
    /\ pc \in {"map", "submit"} => newppa \in Ppa
    /\ pc = "map" =>
          /\ mapi \in Off
          /\ \A i \in Off : i >= mapi =>
                /\ <<newppa, i>> \in bits
                /\ oob[newppa][i] = abuf[i + 1].key
          /\ \A k \in Key : mapping[k] # None /\ mapping[k][1] = newppa =>
                mapping[k][2] < mapi

\* The local variables of do_gc are only in use inside do_gc.
GcIdle ==
    /\ pc \in {"gc_read", "gc_copy", "gc_swap"} <=> victim # None
    /\ pc # "gc_read" => gcread = {}
    /\ pc \notin {"gc_read", "gc_copy"} => gclist = {} /\ gbuf = <<>>
    /\ pc # "gc_copy" => gcur = None
    /\ gcur = None => gci = 0
    /\ gcur # None => \E g \in gclist : g.ppa = gcur
    /\ Len(gbuf) < L2PGAP

\* Every key that still maps into the victim has a page left to read or to
\* copy that holds it, or waits in g_buffer.
GcCover ==
    pc \in {"gc_read", "gc_copy"} =>
        \A k \in Key : mapping[k] # None /\ PieceSeg(mapping[k]) = victim =>
            \/ mapping[k][1] \in gcread
            \/ \E g \in gclist : /\ g.ppa = mapping[k][1]
                                 /\ gcur = g.ppa => mapping[k][2] >= gci
            \/ \E i \in DOMAIN gbuf : gbuf[i].key = k

IInv ==
    /\ TypeOK
    /\ CursorInv
    /\ MappingSound
    /\ SegmentsPartition
    /\ BufferInv
    /\ AssignInv
    /\ GcIdle
    /\ GcCover
-----------------------------------------------------------------------------
(* What BooksExact needs besides IInv.                                     *)

\* used_page_num is the position of the next page of the segment.
UsedExact ==
    \A s \in Seg : used[s] = bptr[s] * PPB + pptr[<<s, bptr[s]>>]

\* The loops of do_gc have not come to this piece yet.
LeftToCopy(p) ==
    \/ p[1] \in gcread
    \/ \E g \in gclist : g.ppa = p[1] /\ (gcur = g.ppa => p[2] >= gci)

\* A valid piece no key maps to belongs to the page being assigned, or was
\* moved out of the victim.
BitsMapped ==
    \A p \in bits :
        \/ \E k \in Key : mapping[k] = p
        \/ pc = "map" /\ p[1] = newppa /\ p[2] >= mapi
        \/ pc \in {"gc_read", "gc_copy"} /\ PieceSeg(p) = victim /\ ~LeftToCopy(p)

\* do_gc reads each page of the victim once, and g_buffer holds different
\* keys, whose pieces of the victim it has passed.
GcOnce ==
    /\ \A p \in gcread : SegOf(p) = victim
    /\ \A g \in gclist : SegOf(g.ppa) = victim /\ g.ppa \notin gcread
    /\ \A g, h \in gclist : g.ppa = h.ppa => g = h
    /\ \A i, j \in DOMAIN gbuf : gbuf[i].key = gbuf[j].key => i = j
    /\ \A i \in DOMAIN gbuf : \E p \in Piece :
          mapping[gbuf[i].key] = p /\ PieceSeg(p) = victim /\ ~LeftToCopy(p)

BooksInv == UsedExact /\ CountersExact /\ BitsMapped /\ GcOnce
-----------------------------------------------------------------------------
(* What NothingLost and DeviceOrderKept need besides IInv and BooksInv.    *)

\* The i-th queued request writes or erases the page.
Touches(i, ppa) ==
    \/ devq[i].op = "write" /\ devq[i].ppa = ppa
    \/ devq[i].op = "trim" /\ devq[i].seg = SegOf(ppa)

\* The page holds d once the first n queued requests are executed.
Holds(ppa, n, d) ==
    \/ /\ \A i \in 1 .. n : ~Touches(i, ppa)
       /\ d = flash[ppa]
    \/ \E i \in 1 .. n :
          /\ Touches(i, ppa)
          /\ \A j \in 1 .. n : Touches(j, ppa) => j <= i
          /\ d = IF devq[i].op = "write" THEN devq[i].data ELSE None

\* The page holds d once the whole queue is executed.
Ends(ppa, d) == Holds(ppa, Len(devq), d)

HandedOut(ppa) == ppa[3] < pptr[<<ppa[1], ppa[2]>>]
\* get_ppa returned the page and its write is not queued yet.
BeingAssigned(ppa) == pc \in {"map", "submit"} /\ ppa = newppa

\* In queue order a write finds its page erased, a user read what its request asks
\* for, and the read of a victim's page, which is the last request on that page and
\* belongs to a page of temp_list, something.
WriteSound(j) == Holds(devq[j].ppa, j - 1, None)
ReadSound(j) ==
    \E d \in PageData :
        /\ Holds(devq[j].ppa, j - 1, d)
        /\ devq[j].ppa = devq[j].req.piece[1]
        /\ d[devq[j].req.piece[2]] = devq[j].req.want
GcReadSound(j) ==
    /\ \E d \in PageData : Holds(devq[j].ppa, j - 1, d)
    /\ \E g \in gclist : g.ppa = devq[j].ppa /\ g.data = None
    /\ \A i \in DOMAIN devq : i >= j => ~Touches(i, devq[j].ppa)
    /\ \A i \in DOMAIN devq :
          devq[i].op = "gcread" /\ devq[i].ppa = devq[j].ppa => i = j
QueueSound ==
    \A j \in DOMAIN devq :
        /\ devq[j].op = "write" => WriteSound(j)
        /\ devq[j].op = "read" => ReadSound(j)
        /\ devq[j].op = "gcread" => GcReadSound(j)

\* After the queue the pages handed out are the ones that hold something.
PagesSound ==
    \A p \in Ppa :
        IF HandedOut(p) /\ ~BeingAssigned(p)
        THEN \E d \in PageData : Ends(p, d)
        ELSE Ends(p, None)

\* do_gc reads pages that were written, and what it read is still there.
GcPagesSound ==
    /\ \A p \in gcread : HandedOut(p)
    /\ \A g \in gclist : g.data # None => Ends(g.ppa, g.data)

\* The buffers hold the latest values; g_buffer may hold an old one of a key that
\* a_buffer holds too.
BuffersLatest ==
    /\ \A i \in DOMAIN abuf : abuf[i].val = latest[abuf[i].key]
    /\ \A i \in DOMAIN gbuf :
          gbuf[i].key \notin AbufKeys => gbuf[i].val = latest[gbuf[i].key]

\* The keys of a_buffer map to the page being assigned as far as the loop is.
AssignSound ==
    /\ pc = "submit" => mapi = L2PGAP
    /\ pc \in {"map", "submit"} => \A i \in Off :
          /\ oob[newppa][i] = abuf[i + 1].key
          /\ i < mapi => mapping[abuf[i + 1].key] = <<newppa, i>>

\* A key that is not buffered maps to its latest value.
MappingLatest ==
    \A k \in Key \ AbufKeys :
        /\ mapping[k] = None => latest[k] = Junk
        /\ \A p \in Piece : mapping[k] = p =>
              \E d \in PageData : Ends(p[1], d) /\ d[p[2]] = latest[k]

\* The read under way found the value its request asked for.
CallbackFresh ==
    devcb # None => devcb.data[devcb.req.piece[2]] = devcb.req.want

StoreInv ==
    /\ QueueSound
    /\ PagesSound
    /\ GcPagesSound
    /\ BuffersLatest
    /\ AssignSound
    /\ MappingLatest
    /\ CallbackFresh

\* A read that is answered from the buffer, by the mapping alone or by its own
\* flash read returns the value of the latest write before it was issued.
OwnReadsFresh ==
    \A a \in answers : a.from \in {"a_buffer", "notfound", "flash"} =>
        a.got = a.req.want
=============================================================================
