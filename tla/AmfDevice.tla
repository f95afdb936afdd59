----------------------------- MODULE AmfDevice ------------------------------
(***************************************************************************)
(* The AMF back end (lower/AMF).  A page of the FTL is R2PGAP pages of the *)
(* device.  With block buffers (block_buffer_write.c) every parallel unit  *)
(* has a queue of device pages; one thread goes round the units and gives  *)
(* an idle one its next page.  Without (normal_write.c) the pages go       *)
(* straight to the AMF library.  The library calls back, from one thread,  *)
(* when a page is done, in any order across units.                         *)
(***************************************************************************)
EXTENDS Integers, Sequences, FiniteSets, SequencesExt

CONSTANTS
    AMF_PUNIT, R2PGAP,      \* parallel units; device pages of a page
    RPPB, PPB,              \* wrappers and return parameters of a unit
    AmfDepth,               \* wrappers of normal_write (QDEPTH)
    MaxIssue                \* requests in all, numbered from 1

VARIABLES
    buffered,   \* which of the two is built
    amf,        \* unit -> its buffer: idle, tag, rp_tag, req, cnt, queue
    pool,       \* normal_write: free wrappers, and wrapper -> request and count
    issuer,     \* the FTL's thread
    main,       \* p_bbuf_main: the unit it looks at, and how far it is
    device,     \* device pages given to the library
    callback,   \* the device page whose callback runs, and how far it is
    finished    \* requests ended, in order

amfVars == <<buffered, amf, pool, issuer, main, device, callback, finished>>

None == -1
Unit == 0 .. AMF_PUNIT - 1
UpTo(n) == [i \in 1 .. n |-> i - 1]
Quiet == [at |-> "free", n |-> 0, u |-> 0, op |-> "W", rp |-> None, i |-> 0]

\* p_bbuf_init
InitBuffers ==
    amf = [u \in Unit |-> [idle |-> TRUE, tag |-> UpTo(RPPB), rp_tag |-> UpTo(PPB), queue |-> <<>>,
                           req |-> [t \in 0 .. RPPB - 1 |-> [n |-> 0, op |-> "W", rp |-> None]],
                           cnt |-> [p \in 0 .. PPB - 1 |-> 0]]]
\* normal_write_init
InitDirect ==
    pool = [wrap_q |-> UpTo(AmfDepth), req |-> [w \in 0 .. AmfDepth - 1 |-> 0],
            cnt |-> [w \in 0 .. AmfDepth - 1 |-> 0]]
InitAmf ==
    /\ buffered \in BOOLEAN
    /\ InitBuffers /\ InitDirect
    /\ issuer = Quiet
    /\ main = [at |-> "scan", now_buf |-> 0]
    /\ device = {} /\ callback = [at |-> "none", u |-> 0, t |-> 0] /\ finished = <<>>

-----------------------------------------------------------------------------
(* The FTL's thread.                                                       *)

\* amf_info_read, amf_info_write, amf_info_trim_block.  An erase is one page of
\* the unit; without block buffers it is not waited for at all.
Call(u, op) ==
    /\ issuer.at = "free" /\ issuer.n < MaxIssue
    /\ buffered \/ op # "T"
    /\ issuer' = [Quiet EXCEPT !.at = "rp", !.n = issuer.n + 1, !.u = u, !.op = op]
    /\ UNCHANGED <<buffered, amf, pool, main, device, callback, finished>>

\* __get_return_param waits for a return parameter of the unit.
GetReturnParam ==
    /\ buffered /\ issuer.at = "rp" /\ amf[issuer.u].rp_tag # <<>>
    /\ LET rp == Head(amf[issuer.u].rp_tag)
       IN  /\ amf' = [amf EXCEPT ![issuer.u].rp_tag = Tail(@), ![issuer.u].cnt[rp] = 0]
           /\ issuer' = [issuer EXCEPT !.at = "piece", !.rp = rp]
    /\ UNCHANGED <<buffered, pool, main, device, callback, finished>>

LoopCnt == IF issuer.op = "T" THEN 1 ELSE R2PGAP
ScheduleLocked(u) == main.at = "issued" /\ main.now_buf = u
\* __p_bbuf_issue: wait for a wrapper, fill it, and queue it under schedule_lock.
IssuePiece ==
    /\ buffered /\ issuer.at = "piece"
    /\ amf[issuer.u].tag # <<>> /\ ~ScheduleLocked(issuer.u)
    /\ LET b == amf[issuer.u]
           t == Head(b.tag)
       IN  amf' = [amf EXCEPT ![issuer.u] =
                [b EXCEPT !.tag = Tail(b.tag), !.queue = Append(b.queue, t),
                          !.req[t] = [n |-> issuer.n, op |-> issuer.op, rp |-> issuer.rp]]]
    /\ issuer' = IF issuer.i + 1 = LoopCnt THEN [Quiet EXCEPT !.n = issuer.n] ELSE [issuer EXCEPT !.i = @ + 1]
    /\ UNCHANGED <<buffered, pool, main, device, callback, finished>>

\* get_amf_wrapper, and __issue of one device page after the other.
GetAmfWrapper ==
    /\ ~buffered /\ issuer.at = "rp" /\ pool.wrap_q # <<>>
    /\ LET w == Head(pool.wrap_q)
       IN  /\ pool' = [pool EXCEPT !.wrap_q = Tail(@), !.req[w] = issuer.n, !.cnt[w] = 0]
           /\ issuer' = [issuer EXCEPT !.at = "piece", !.rp = w]
    /\ UNCHANGED <<buffered, amf, main, device, callback, finished>>
IssueDirect ==
    /\ ~buffered /\ issuer.at = "piece"
    /\ device' = device \cup {<<issuer.rp, issuer.i>>}
    /\ issuer' = IF issuer.i + 1 = R2PGAP THEN [Quiet EXCEPT !.n = issuer.n] ELSE [issuer EXCEPT !.i = @ + 1]
    /\ UNCHANGED <<buffered, amf, pool, main, callback, finished>>

-----------------------------------------------------------------------------
(* p_bbuf_main.                                                            *)

Startable(u) == amf[u].queue # <<>> /\ amf[u].idle
ToNext == [at |-> "scan", now_buf |-> (main.now_buf + 1) % AMF_PUNIT]
\* The next unit has nothing queued or is not idle.
SkipUnit ==
    /\ buffered /\ main.at = "scan" /\ ~Startable(main.now_buf)
    /\ main' = ToNext
    /\ UNCHANGED <<buffered, amf, pool, issuer, device, callback, finished>>
\* The unit is taken, and its first page given to the library under schedule_lock ...
StartPage ==
    /\ buffered /\ main.at = "scan" /\ Startable(main.now_buf)
    /\ amf' = [amf EXCEPT ![main.now_buf].idle = FALSE]
    /\ device' = device \cup {<<main.now_buf, Head(amf[main.now_buf].queue)>>}
    /\ main' = [main EXCEPT !.at = "issued"]
    /\ UNCHANGED <<buffered, pool, issuer, callback, finished>>
\* ... and removed from the queue, perhaps after its callback.
Dequeue ==
    /\ main.at = "issued"
    /\ amf' = [amf EXCEPT ![main.now_buf].queue = Tail(@)]
    /\ main' = ToNext
    /\ UNCHANGED <<buffered, pool, issuer, device, callback, finished>>
\* p_bbuf_join, once every request that is waited for has ended and the device
\* is not busy: the thread leaves whatever is still queued.
Waited == {n \in 1 .. issuer.n : ~\E u \in Unit : \E t \in 0 .. RPPB - 1 : amf[u].req[t].n = n /\ amf[u].req[t].op = "T"}
Join ==
    /\ buffered /\ main.at = "scan" /\ issuer.at = "free" /\ issuer.n = MaxIssue
    /\ Waited \subseteq ToSet(finished) /\ device = {} /\ callback.at = "none"
    /\ main' = [main EXCEPT !.at = "left"]
    /\ UNCHANGED <<buffered, amf, pool, issuer, device, callback, finished>>

-----------------------------------------------------------------------------
(* The library's thread.                                                   *)

\* Mistake: the count is compared with one page too few.
LastButOnePage(u, r) == r.op = "T" \/ amf[u].cnt[r.rp] + 1 = R2PGAP - 1
LastPage(u, r) == r.op = "T" \/ amf[u].cnt[r.rp] + 1 = R2PGAP
\* p_bbuf_call_back_io and p_bbuf_call_back_e: the last device page of a request
\* ends it and frees its return parameter; ...
CallBack(u, t) ==
    /\ buffered /\ callback.at = "none" /\ <<u, t>> \in device
    /\ device' = device \ {<<u, t>>}
    /\ callback' = [at |-> "idle", u |-> u, t |-> t]
    /\ LET b == amf[u]
           r == b.req[t]
           last == LastPage(u, r)
       IN  /\ amf' = [amf EXCEPT ![u] =
                    [b EXCEPT !.cnt[r.rp] = b.cnt[r.rp] + (IF r.op = "T" THEN 0 ELSE 1),
                              !.rp_tag = IF last THEN Append(b.rp_tag, r.rp) ELSE b.rp_tag]]
           /\ finished' = IF last THEN Append(finished, r.n) ELSE finished
    /\ UNCHANGED <<buffered, pool, issuer, main>>
\* ... the unit is idle again, ...
UnlockIdle ==
    /\ callback.at = "idle"
    /\ amf' = [amf EXCEPT ![callback.u].idle = TRUE]
    /\ callback' = [callback EXCEPT !.at = "wrapper"]
    /\ UNCHANGED <<buffered, pool, issuer, main, device, finished>>
\* ... and __free_wrapper gives the wrapper back.
FreeWrapper ==
    /\ callback.at = "wrapper"
    /\ amf' = [amf EXCEPT ![callback.u].tag = Append(@, callback.t)]
    /\ callback' = [callback EXCEPT !.at = "none"]
    /\ UNCHANGED <<buffered, pool, issuer, main, device, finished>>

\* normal_call_back_IO: the last device page ends the request, ...
CallBackDirect(w, i) ==
    /\ ~buffered /\ callback.at = "none" /\ <<w, i>> \in device
    /\ device' = device \ {<<w, i>>}
    /\ pool' = [pool EXCEPT !.cnt[w] = @ + 1]
    /\ IF pool'.cnt[w] = R2PGAP
       THEN /\ finished' = Append(finished, pool.req[w])
            /\ callback' = [at |-> "release", u |-> w, t |-> 0]
       ELSE UNCHANGED <<finished, callback>>
    /\ UNCHANGED <<buffered, amf, issuer, main>>
\* ... then release_amf_wrapper.
ReleaseWrapper ==
    /\ callback.at = "release"
    /\ pool' = [pool EXCEPT !.wrap_q = Append(@, callback.u)]
    /\ callback' = [callback EXCEPT !.at = "none"]
    /\ UNCHANGED <<buffered, amf, issuer, main, device, finished>>

-----------------------------------------------------------------------------
Issuer == \/ \E u \in Unit : \E op \in {"W", "R", "T"} : Call(u, op)
          \/ GetReturnParam \/ IssuePiece \/ GetAmfWrapper \/ IssueDirect
Main == SkipUnit \/ StartPage \/ Dequeue
Library == \/ UnlockIdle \/ FreeWrapper \/ ReleaseWrapper
           \/ \E d \in device : CallBack(d[1], d[2]) \/ CallBackDirect(d[1], d[2])
NextAmf == Issuer \/ Main \/ Join \/ Library

(* A request ends once, and only when each of its device pages has been     *)
(* done: no wrapper or return parameter serves two requests, although a     *)
(* wrapper is given back after its unit has started the next page, and a    *)
(* callback may run before the page has left the queue.                     *)
EndedOnce ==
    /\ IsInjective(finished)
    /\ \A u \in Unit :
         LET b == amf[u]
             queued == {b.queue[i] : i \in DOMAIN b.queue}
             inDevice == {t \in 0 .. RPPB - 1 : <<u, t>> \in device}
         IN  buffered =>
             /\ IsInjective(b.tag) /\ IsInjective(b.rp_tag) /\ Cardinality(inDevice) <= 1
             /\ \A t \in queued \cup inDevice :
                  \/ b.req[t].n \notin ToSet(finished) /\ b.req[t].rp \notin ToSet(b.rp_tag) /\ t \notin ToSet(b.tag)
                  \/ main.at = "issued" /\ main.now_buf = u /\ t = Head(b.queue)
    /\ ~buffered => /\ IsInjective(pool.wrap_q)
                    /\ \A d \in device : pool.req[d[1]] \notin ToSet(finished) /\ d[1] \notin ToSet(pool.wrap_q)

AllIssued == issuer.n = MaxIssue /\ issuer.at = "free" /\ Waited \subseteq ToSet(finished)
-----------------------------------------------------------------------------
(* The inductive invariant behind EndedOnce.                               *)

Wrapper == 0 .. RPPB - 1
Param == 0 .. PPB - 1
UnitRecord == [idle : BOOLEAN, tag : Seq(Wrapper), rp_tag : Seq(Param), queue : Seq(Wrapper),
               req : [Wrapper -> [n : 0 .. MaxIssue, op : {"W", "R", "T"}, rp : Param \cup {None}]],
               cnt : [Param -> Nat]]
DirectWrapper == 0 .. AmfDepth - 1
DirectRecord == [wrap_q : Seq(DirectWrapper), req : [DirectWrapper -> 0 .. MaxIssue], cnt : [DirectWrapper -> Nat]]
AmfTypeOK ==
    /\ buffered \in BOOLEAN
    /\ amf \in [Unit -> UnitRecord] /\ pool \in DirectRecord
    /\ issuer \in [at : {"free", "rp", "piece"}, n : 0 .. MaxIssue, u : Unit, op : {"W", "R", "T"}, rp : Int, i : Nat]
    /\ main \in [at : {"scan", "issued", "left"}, now_buf : Unit]
    /\ callback \in [at : {"none", "idle", "wrapper", "release"}, u : Nat, t : Nat]
    /\ finished \in Seq(1 .. issuer.n)
    /\ issuer.at = "rp" => issuer.i = 0
    /\ issuer.at # "free" => issuer.n # 0
    /\ main.at = "issued" => buffered
    /\ callback.at \in {"idle", "wrapper"} => buffered /\ callback.u \in Unit /\ callback.t \in Wrapper
    /\ callback.at = "release" => ~buffered /\ callback.u \in DirectWrapper
    /\ device \subseteq IF buffered THEN Unit \X Wrapper ELSE DirectWrapper \X (0 .. R2PGAP - 1)

\* The device pages of a unit that are not done: queued, or with the library.  The
\* page being given to the library is still the first of the queue.
Waits(u) == ToSet(IF ScheduleLocked(u) THEN Tail(amf[u].queue) ELSE amf[u].queue)
InDevice(u) == {t \in Wrapper : <<u, t>> \in device}
Undone(u) == Waits(u) \cup InDevice(u)
UndoneOf(u, rp) == {t \in Undone(u) : amf[u].req[t].rp = rp}

\* A wrapper is free, with a page that is not done, or with the callback; a unit
\* that is idle has nothing in the device, one that is not at most one page.
CallingBack(u) == callback.at = "idle" /\ callback.u = u
UnitOwned(u) ==
    /\ IsInjective(amf[u].tag) /\ IsInjective(amf[u].rp_tag) /\ IsInjective(amf[u].queue)
    /\ ScheduleLocked(u) => amf[u].queue # <<>>
    /\ Waits(u) \cap InDevice(u) = {}
    /\ ToSet(amf[u].tag) \cap Undone(u) = {}
    /\ callback.at # "none" /\ callback.u = u => callback.t \notin ToSet(amf[u].tag) \cup Undone(u)
    /\ amf[u].idle \/ CallingBack(u) => InDevice(u) = {}
    /\ amf[u].idle => ~CallingBack(u)
    /\ \A s, t \in InDevice(u) : s = t
UnitsOwned == \A u \in Unit : UnitOwned(u)

\* The pages of the request being issued that have no wrapper yet.
Issuing(u, rp) == issuer.at = "piece" /\ issuer.u = u /\ issuer.rp = rp
Unissued(u, rp) == IF Issuing(u, rp) THEN LoopCnt - issuer.i ELSE 0
Pages(op) == IF op = "T" THEN 1 ELSE R2PGAP

\* A page that is not done belongs to a request that has not ended ...
PagesUnended ==
    \A u \in Unit : \A t \in Undone(u) : amf[u].req[t].n \in 1 .. issuer.n /\ amf[u].req[t].n \notin ToSet(finished)
\* ... and that owns its return parameter, ...
ParamsHeld ==
    \A u \in Unit : \A t \in Undone(u) : amf[u].req[t].rp \in Param /\ amf[u].req[t].rp \notin ToSet(amf[u].rp_tag)
\* ... whose count and pages to come make up the whole request.
CountsAdd ==
    \A u \in Unit : \A t \in Undone(u) : \A rp \in Param :
        amf[u].req[t].rp = rp =>
            amf[u].cnt[rp] + Cardinality(UndoneOf(u, rp)) + Unissued(u, rp) = Pages(amf[u].req[t].op)
\* A page has the issuer's request only if it has its return parameter, ...
IssuerApart ==
    \A u \in Unit : \A t \in Undone(u) :
        /\ issuer.at = "rp" => amf[u].req[t].n # issuer.n
        /\ issuer.at = "piece" => (amf[u].req[t].n = issuer.n <=> Issuing(u, amf[u].req[t].rp))
\* ... and two pages of one request have the same.
OneParam ==
    \A u, v \in Unit : \A t \in Undone(u) : \A s \in Undone(v) :
        amf[v].req[s].n = amf[u].req[t].n => u = v /\ amf[v].req[s].rp = amf[u].req[t].rp
PagesOwned == PagesUnended /\ ParamsHeld /\ CountsAdd /\ IssuerApart /\ OneParam
IssuerOwned ==
    /\ issuer.at = "piece" =>
          /\ issuer.rp \in Param /\ issuer.rp \notin ToSet(amf[issuer.u].rp_tag)
          /\ amf[issuer.u].cnt[issuer.rp] + Cardinality(UndoneOf(issuer.u, issuer.rp)) = issuer.i
          /\ issuer.i < LoopCnt
    /\ issuer.at # "free" => issuer.n \notin ToSet(finished)

\* The same without block buffers: a wrapper that is neither free nor being
\* released belongs to a request that has not ended.
InFlight(w) == {i \in 0 .. R2PGAP - 1 : <<w, i>> \in device}
WrapperBusy(w) == w \notin ToSet(pool.wrap_q) /\ ~(callback.at = "release" /\ callback.u = w)
IssuingDirect(w) == issuer.at = "piece" /\ issuer.rp = w
WrapperOwned(w) ==
    /\ ~WrapperBusy(w) => InFlight(w) = {}
    /\ WrapperBusy(w) =>
          /\ pool.req[w] \in 1 .. issuer.n /\ pool.req[w] \notin ToSet(finished)
          /\ pool.cnt[w] + Cardinality(InFlight(w)) = IF IssuingDirect(w) THEN issuer.i ELSE R2PGAP
          /\ issuer.at = "rp" => pool.req[w] # issuer.n
          /\ issuer.at = "piece" => (pool.req[w] = issuer.n <=> issuer.rp = w)
WrappersApart == \A v, w \in DirectWrapper : WrapperBusy(v) /\ WrapperBusy(w) /\ pool.req[v] = pool.req[w] => v = w
DirectOwned ==
    /\ IsInjective(pool.wrap_q)
    /\ callback.at = "release" => callback.u \notin ToSet(pool.wrap_q)
    /\ \A w \in DirectWrapper : WrapperOwned(w)
    /\ WrappersApart
    /\ issuer.at = "piece" =>
          /\ issuer.rp \in DirectWrapper /\ WrapperBusy(issuer.rp) /\ issuer.i < R2PGAP
          /\ \A i \in InFlight(issuer.rp) : i < issuer.i
    /\ issuer.at # "free" => issuer.n \notin ToSet(finished) /\ issuer.op # "T"

AmfInv ==
    /\ AmfTypeOK /\ IsInjective(finished)
    /\ buffered => UnitsOwned /\ PagesOwned /\ IssuerOwned
    /\ ~buffered => DirectOwned
=============================================================================
