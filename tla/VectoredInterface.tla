-------------------------- MODULE VectoredInterface --------------------------
(***************************************************************************)
(* The request path between the benchmark and an FTL.  A host thread turns *)
(* a buffer into a transaction of requests and admits it against the       *)
(* budget flying_cnt (inf_vector_make_req, assign_vectored_req); the main  *)
(* thread takes transactions apart, gives every request a tag and calls    *)
(* the FTL (vectored_main); the FTL ends a request (vectored_end_req) or   *)
(* sends it round again (inf_assign_try), on the main thread or on the     *)
(* threads of the device.                                                  *)
(*                                                                         *)
(* The FTL is external: a call may end at once or stay in the FTL, may be  *)
(* retried MaxRetry times, and a write may be answered with UINT32_MAX,    *)
(* which asks that the next write find no read in flight.                  *)
(***************************************************************************)
EXTENDS Integers, Sequences, FiniteSets

CONSTANTS
    Txn,          \* transaction slots: allocated, ended, allocated again
    Shape,        \* the request types a transaction may hold, as sequences
    Tag,          \* the tags of the tag manager
    QDEPTH,       \* admission budget and number of tags
    QSIZE,        \* capacity of req_q and of retry_q
    RetryKinds,   \* request types the FTL may send round again
    MaxRetry,     \* bound on the retries of one request
    FlushAnswer,  \* does the FTL answer writes with UINT32_MAX (leaFTL)?
    None

ASSUME DepthAssumption == /\ QDEPTH \in Nat \ {0} /\ QSIZE \in Nat /\ QSIZE >= QDEPTH
                          /\ IsFiniteSet(Tag) /\ Cardinality(Tag) = QDEPTH
ASSUME ShapeAssumption == \A o \in Shape : o \in Seq({"GET", "SET"}) /\ Len(o) \in 1..QDEPTH
ASSUME FtlAssumption == /\ RetryKinds \subseteq {"GET", "SET"} /\ MaxRetry \in Nat
                        /\ FlushAnswer \in BOOLEAN /\ (FlushAnswer => "SET" \notin RetryKinds)
ASSUME NoneAssumption == None \notin Tag /\ None \notin Txn \X (1..QDEPTH)

Req == Txn \X (1..QDEPTH)

VARIABLES
    host,             \* the host thread: what it does and to which transaction
    ops,              \* ops[t]: the types of the requests of t, <<>> if t is free
    done_cnt,         \* done_cnt[t]: requests of t that have ended
    st,               \* st[r]: where request r is
    tag,              \* tag[r]: the tag r holds
    retries,          \* retries[r]: how often r went round again
    flying_cnt, flying_read_req,
    tagQ,             \* the free tags
    req_q, retry_q,
    pc,               \* control point of the main thread
    cur,              \* the request it is serving
    task,             \* the transaction it takes apart, its size and position
    back,             \* where it continues after the call
    escape, next_flush,
    sync,             \* does the call end only with the request?
    full              \* has the FTL asked that the next write find no read?

vars == <<host, ops, done_cnt, st, tag, retries, flying_cnt, flying_read_req, tagQ,
          req_q, retry_q, pc, cur, task, back, escape, next_flush, sync, full>>

hostSide == <<host, ops, done_cnt, req_q>>
reqSide  == <<st, tag, retries, flying_cnt, flying_read_req, tagQ, retry_q>>
mainSide == <<pc, cur, task, back, escape, next_flush, sync, full>>

Statuses == {"free", "made", "queued", "held", "ftl", "released", "untagged",
             "done", "untried", "retry", "lost"}
TypeOf(r) == ops[r[1]][r[2]]
Requests(t) == {t} \X (1..Len(ops[t]))
Live(t) == ops[t] # <<>>

\* q_enqueue refuses when the queue holds m_size nodes.
RoomIn(q) == Len(q) < QSIZE

Init ==
    /\ host = [at |-> "idle", txn |-> None]
    /\ ops = [t \in Txn |-> <<>>]
    /\ done_cnt = [t \in Txn |-> 0]
    /\ st = [r \in Req |-> "free"]
    /\ tag = [r \in Req |-> None]
    /\ retries = [r \in Req |-> 0]
    /\ flying_cnt = QDEPTH
    /\ flying_read_req = 0
    /\ tagQ = Tag
    /\ req_q = <<>> /\ retry_q = <<>>
    /\ pc = "next" /\ cur = None /\ back = "next"
    /\ task = [txn |-> None, size |-> 0, i |-> 0]
    /\ escape = FALSE /\ next_flush = FALSE /\ sync = FALSE /\ full = FALSE

-----------------------------------------------------------------------------
(* The host thread.                                                        *)

\* inf_vector_make_req: allocate and fill a transaction.
MakeReq ==
    /\ host.at = "idle"
    /\ \E t \in Txn, o \in Shape :
         /\ ~Live(t)
         /\ ops' = [ops EXCEPT ![t] = o]
         /\ done_cnt' = [done_cnt EXCEPT ![t] = 0]
         /\ st' = [r \in Req |-> IF r \in {t} \X (1..Len(o)) THEN "made" ELSE st[r]]
         /\ host' = [at |-> "spin", txn |-> t]
    /\ UNCHANGED <<tag, retries, flying_cnt, flying_read_req, tagQ, req_q, retry_q, mainSide>>

HasRoom(t) == flying_cnt - Len(ops[t]) >= 0

\* assign_vectored_req up to the unlock: spin until the budget covers the size.
Admit ==
    /\ host.at = "spin"
    /\ HasRoom(host.txn)
    /\ flying_cnt' = flying_cnt - Len(ops[host.txn])
    /\ st' = [r \in Req |-> IF r \in Requests(host.txn) THEN "queued" ELSE st[r]]
    /\ host' = [host EXCEPT !.at = "enqueue"]
    /\ UNCHANGED <<ops, done_cnt, tag, retries, flying_read_req, tagQ, req_q, retry_q, mainSide>>

\* The end of assign_vectored_req: a full queue sends the host back to pay again.
Enqueue ==
    /\ host.at = "enqueue"
    /\ IF RoomIn(req_q)
       THEN /\ req_q' = Append(req_q, host.txn)
            /\ host' = [at |-> "idle", txn |-> None]
       ELSE /\ host' = [host EXCEPT !.at = "spin"]
            /\ UNCHANGED req_q
    /\ UNCHANGED <<ops, done_cnt, reqSide, mainSide>>

-----------------------------------------------------------------------------
(* The main thread.                                                        *)

\* Take the head of retry_q in hand; the call returns to point b.
TakeRetry(b) ==
    /\ retry_q # <<>>
    /\ cur' = Head(retry_q)
    /\ retry_q' = Tail(retry_q)
    /\ st' = [st EXCEPT ![cur'] = "held"]
    /\ pc' = "tag" /\ back' = b
    /\ UNCHANGED <<hostSide, tag, retries, flying_cnt, flying_read_req, tagQ,
                   task, escape, next_flush, sync, full>>

\* get_next_request: a retry first ...
NextRetry == pc = "next" /\ TakeRetry("next")

NoRetry ==
    /\ pc = "next" /\ retry_q = <<>>
    /\ pc' = "pick"
    /\ UNCHANGED <<hostSide, reqSide, cur, task, back, escape, next_flush, sync, full>>

\* ... then a transaction, or nothing.
PickTxn ==
    /\ pc = "pick" /\ req_q # <<>>
    /\ task' = [txn |-> Head(req_q), size |-> Len(ops[Head(req_q)]), i |-> 1]
    /\ req_q' = Tail(req_q)
    /\ pc' = "drain"
    /\ UNCHANGED <<host, ops, done_cnt, reqSide, cur, back, escape, next_flush, sync, full>>

PickNothing ==
    /\ pc = "pick" /\ req_q = <<>>
    /\ pc' = "next"
    /\ UNCHANGED <<hostSide, reqSide, cur, task, back, escape, next_flush, sync, full>>

\* Before each request of a transaction the retry queue is served until empty.
DrainRetry == pc = "drain" /\ TakeRetry("drain")

TaskReq == <<task.txn, task.i>>

NeverWait == FALSE

MustWait == TypeOf(TaskReq) = "SET" /\ next_flush

Start ==
    /\ pc = "drain" /\ retry_q = <<>>
    /\ cur' = TaskReq
    /\ st' = [st EXCEPT ![TaskReq] = "held"]
    /\ flying_read_req' = flying_read_req + (IF TypeOf(TaskReq) = "GET" THEN 1 ELSE 0)
    /\ pc' = IF MustWait THEN "wait" ELSE "tag"
    /\ back' = "loop"
    /\ UNCHANGED <<hostSide, tag, retries, flying_cnt, tagQ, retry_q,
                   task, escape, next_flush, sync, full>>

\* The loop before a write that will flush: look at the count, then serve one
\* retry, then leave if the count was zero.
WaitLook ==
    /\ pc = "wait"
    /\ escape' = (flying_read_req = 0)
    /\ pc' = "waitretry"
    /\ UNCHANGED <<hostSide, reqSide, cur, task, back, next_flush, sync, full>>

RetryNeverSeen == FALSE

\* Does get_retry_request find one for the loop?
RetrySeen == retry_q # <<>>

WaitRetry == pc = "waitretry" /\ RetrySeen /\ TakeRetry("wait")

\* Back to the write the loop held up, or round again.
LeaveOrLook ==
    IF escape THEN /\ cur' = TaskReq /\ pc' = "tag" /\ back' = "loop" /\ next_flush' = FALSE
              ELSE /\ pc' = "wait" /\ UNCHANGED <<cur, back, next_flush>>

WaitDone ==
    /\ pc = "waitretry" /\ ~RetrySeen
    /\ LeaveOrLook
    /\ UNCHANGED <<hostSide, reqSide, task, escape, sync, full>>

\* tag_manager_get_tag: sleeps while no tag is free.
GetTag ==
    /\ pc = "tag"
    /\ \E g \in tagQ :
         /\ tagQ' = tagQ \ {g}
         /\ tag' = [tag EXCEPT ![cur] = g]
    /\ pc' = "call"
    /\ UNCHANGED <<hostSide, st, retries, flying_cnt, flying_read_req, retry_q,
                   cur, task, back, escape, next_flush, sync, full>>

\* inf_algorithm_caller: only the call made for a transaction looks at the
\* answer.
Call ==
    /\ pc = "call"
    /\ st' = [st EXCEPT ![cur] = "ftl"]
    /\ \E s \in BOOLEAN, f \in BOOLEAN :
         /\ f => FlushAnswer /\ TypeOf(cur) = "SET"
         /\ sync' = s
         /\ next_flush' = (next_flush \/ (f /\ back = "loop"))
         /\ full' = IF TypeOf(cur) = "SET" THEN f ELSE full
    /\ pc' = "return"
    /\ UNCHANGED <<hostSide, tag, retries, flying_cnt, flying_read_req, tagQ, retry_q,
                   cur, task, back, escape>>

\* The call returns: at once, or when the request has ended or gone to retry_q.
Settled == ~sync \/ st[cur] \notin {"ftl", "released", "untagged", "untried"}

Continue ==
    CASE back = "next"  -> pc' = "next" /\ UNCHANGED <<cur, back, next_flush, task>>
      [] back = "drain" -> pc' = "drain" /\ UNCHANGED <<cur, back, next_flush, task>>
      [] back = "wait"  -> LeaveOrLook /\ UNCHANGED task
      [] OTHER          -> /\ pc' = IF task.i < task.size THEN "drain" ELSE "next"
                           /\ task' = IF task.i < task.size THEN [task EXCEPT !.i = @ + 1] ELSE task
                           /\ UNCHANGED <<cur, back, next_flush>>

Return ==
    /\ pc = "return" /\ Settled
    /\ Continue
    /\ sync' = FALSE
    /\ UNCHANGED <<hostSide, reqSide, escape, full>>

-----------------------------------------------------------------------------
(* The end of a request, and the way round again.                          *)

IsRead(type) == type \in {"GET", "NOTFOUND"}

\* release_each_req up to the unlock.  A read of an unmapped page ends as
\* NOTFOUND.
ReleaseReq(r) ==
    /\ st[r] = "ftl"
    /\ \E type \in {TypeOf(r)} \cup (IF TypeOf(r) = "GET" THEN {"NOTFOUND"} ELSE {}) :
         flying_read_req' = flying_read_req - (IF IsRead(type) THEN 1 ELSE 0)
    /\ flying_cnt' = flying_cnt + 1
    /\ st' = [st EXCEPT ![r] = "released"]
    /\ UNCHANGED <<hostSide, tag, retries, tagQ, retry_q, mainSide>>

\* tag_manager_free_tag.
FreeTag(r) ==
    /\ tagQ' = tagQ \cup {tag[r]}
    /\ tag' = [tag EXCEPT ![r] = None]

ReleaseTag(r) ==
    /\ st[r] = "released"
    /\ FreeTag(r)
    /\ st' = [st EXCEPT ![r] = "untagged"]
    /\ UNCHANGED <<hostSide, retries, flying_cnt, flying_read_req, retry_q, mainSide>>

LastButOne(t) == done_cnt[t] + 2 >= Len(ops[t])

LastOne(t) == done_cnt[t] + 1 = Len(ops[t])

\* The end of vectored_end_req: the last request ends, and frees, the transaction.
CountDone(r) ==
    /\ st[r] = "untagged"
    /\ done_cnt' = [done_cnt EXCEPT ![r[1]] = @ + 1]
    /\ IF LastOne(r[1])
       THEN /\ ops' = [ops EXCEPT ![r[1]] = <<>>]
            /\ st' = [s \in Req |-> IF s[1] = r[1] THEN "free" ELSE st[s]]
            /\ retries' = [s \in Req |-> IF s[1] = r[1] THEN 0 ELSE retries[s]]
       ELSE /\ st' = [st EXCEPT ![r] = "done"]
            /\ UNCHANGED <<ops, retries>>
    /\ UNCHANGED <<host, req_q, tag, flying_cnt, flying_read_req, tagQ, retry_q, mainSide>>

\* A variant of RetryUntag that takes the request out of the budget as well.
RetryUntagReleases(r) ==
    /\ st[r] = "ftl"
    /\ TypeOf(r) \in RetryKinds /\ retries[r] < MaxRetry
    /\ FreeTag(r)
    /\ flying_cnt' = flying_cnt + 1
    /\ st' = [st EXCEPT ![r] = "untried"]
    /\ retries' = [retries EXCEPT ![r] = @ + 1]
    /\ UNCHANGED <<hostSide, flying_read_req, retry_q, mainSide>>

\* inf_assign_try, first part: give the tag back.
RetryUntag(r) ==
    /\ st[r] = "ftl"
    /\ TypeOf(r) \in RetryKinds /\ retries[r] < MaxRetry
    /\ FreeTag(r)
    /\ st' = [st EXCEPT ![r] = "untried"]
    /\ retries' = [retries EXCEPT ![r] = @ + 1]
    /\ UNCHANGED <<hostSide, flying_cnt, flying_read_req, retry_q, mainSide>>

\* Second part: a full queue loses the request.
RetryEnqueue(r) ==
    /\ st[r] = "untried"
    /\ IF RoomIn(retry_q)
       THEN /\ retry_q' = Append(retry_q, r)
            /\ st' = [st EXCEPT ![r] = "retry"]
       ELSE /\ st' = [st EXCEPT ![r] = "lost"]
            /\ UNCHANGED retry_q
    /\ UNCHANGED <<hostSide, tag, retries, flying_cnt, flying_read_req, tagQ, mainSide>>

-----------------------------------------------------------------------------
Host == MakeReq \/ Admit \/ Enqueue

Main == \/ NextRetry \/ NoRetry \/ PickTxn \/ PickNothing
        \/ DrainRetry \/ Start \/ WaitLook \/ WaitRetry \/ WaitDone
        \/ GetTag \/ Call \/ Return

EndOf(r) == \/ ReleaseReq(r) \/ ReleaseTag(r) \/ CountDone(r)
            \/ RetryUntag(r) \/ RetryEnqueue(r)

Next == Host \/ Main \/ \E r \in Req : EndOf(r)

Spec == Init /\ [][Next]_vars

\* The host and main threads run; the device answers what it was given.
FairSpec == Spec /\ WF_vars(Admit \/ Enqueue) /\ WF_vars(Main) /\ \A r \in Req : WF_vars(EndOf(r))

-----------------------------------------------------------------------------
(* Properties.                                                             *)

AtStatus(S) == {r \in Req : st[r] \in S}

\* Every variable has its type; flying_cnt stays within the budget, so that
\* neither abort of assign_vectored_req and release_each_req is reached.
TypeOK ==
    /\ host \in [at : {"idle", "spin", "enqueue"}, txn : Txn \cup {None}]
    /\ ops \in [Txn -> Shape \cup {<<>>}]
    /\ done_cnt \in [Txn -> 0..QDEPTH]
    /\ st \in [Req -> Statuses]
    /\ tag \in [Req -> Tag \cup {None}]
    /\ retries \in [Req -> 0..MaxRetry]
    /\ flying_cnt \in 0..QDEPTH
    /\ flying_read_req \in 0..QDEPTH
    /\ tagQ \subseteq Tag
    /\ req_q \in Seq(Txn) /\ retry_q \in Seq(Req)
    /\ pc \in {"next", "pick", "drain", "wait", "waitretry", "tag", "call", "return"}
    /\ cur \in Req \cup {None}
    /\ task \in [txn : Txn \cup {None}, size : 0..QDEPTH, i : 0..QDEPTH]
    /\ back \in {"next", "drain", "wait", "loop"}
    /\ escape \in BOOLEAN /\ next_flush \in BOOLEAN /\ sync \in BOOLEAN /\ full \in BOOLEAN

\* Admission is exact: the budget handed out equals the requests that are
\* admitted and not yet released, through retries, early returns and races of
\* release_each_req with assign_vectored_req.
Admitted == AtStatus({"queued", "held", "ftl", "untried", "retry", "lost"})

BudgetExact == flying_cnt + Cardinality(Admitted) = QDEPTH

\* Every tag is free or held by one request, never both: tag_manager_free_tag
\* neither reports "over free in tagQ" nor hands a tag out twice.
TagsConserved ==
    /\ \A r \in Req : tag[r] # None => tag[r] \notin tagQ
    /\ \A r, s \in Req : tag[r] # None /\ tag[r] = tag[s] => r = s
    /\ \A g \in Tag : g \in tagQ \/ \E r \in Req : tag[r] = g

\* The main thread sleeps for a tag only while a completion is between the
\* unlock of release_each_req and its tag_manager_free_tag: the sleep never
\* depends on a request the main thread itself would have to serve.
TagWaitIsBrief ==
    pc = "tag" /\ tagQ = {} => AtStatus({"released"}) # {}

\* No enqueue fails: the host never pays twice for a transaction
\* (assign_vectored_req) and no retried request is dropped with "retry queue
\* is full" (inf_assign_try).
QueuesNeverFull ==
    /\ host.at = "enqueue" => RoomIn(req_q)
    /\ AtStatus({"untried"}) # {} => RoomIn(retry_q)
    /\ AtStatus({"lost"}) = {}

\* What a request holds of the interface is accounted for exactly, its share of
\* the budget, its tag and its place in the queues, and waiting for a tag is brief.
ResourcesExact == BudgetExact /\ TagsConserved /\ QueuesNeverFull /\ TagWaitIsBrief

\* flying_read_req is the number of reads the FTL may still be working for,
\* the ones waiting in retry_q included.
FlyingReads == {r \in AtStatus({"held", "ftl", "untried", "retry"}) : TypeOf(r) = "GET"}

ReadsCounted == flying_read_req = Cardinality(FlyingReads)

\* After an answer of UINT32_MAX the next write reaches the FTL only when no
\* read is inside it or on its way round: the flush it causes meets no read.
FlushMeetsNoRead ==
    pc = "call" /\ full /\ TypeOf(cur) = "SET" =>
        \A r \in AtStatus({"held", "ftl", "untried", "retry"}) : TypeOf(r) # "GET"

\* The flush guard works: the counter it waits on is exact, and the write it lets
\* through meets no read.
FlushGuarded == ReadsCounted /\ FlushMeetsNoRead

\* The transaction is freed by its last request only: nothing the main thread,
\* the queues or the FTL still hold belongs to a freed transaction.
NoUseAfterFree ==
    /\ \A k \in DOMAIN req_q : Live(req_q[k])
    /\ \A k \in DOMAIN retry_q : st[retry_q[k]] = "retry"
    /\ pc \in {"tag", "call"} => st[cur] = "held"
    /\ pc \in {"drain", "wait", "waitretry"} => Live(task.txn)
    /\ \A r \in Req : st[r] # "free" => r \in Requests(r[1])

\* Every transaction the host made is admitted, served and ended: no retry, tag,
\* flush wait or full budget holds it up for ever.
EveryTxnEnds == \A t \in Txn : Live(t) ~> ~Live(t)

-----------------------------------------------------------------------------
(* The inductive invariant behind ResourcesExact, NoUseAfterFree and       *)
(* FlushGuarded.                                                           *)

\* A transaction the host thread is working on is in no queue, and all of its
\* requests are where the host has brought them.
HostOwns ==
    host.at # "idle" =>
        /\ host.txn \in Txn /\ Live(host.txn)
        /\ \A k \in DOMAIN req_q : req_q[k] # host.txn
        /\ \A i \in 1..Len(ops[host.txn]) :
             st[<<host.txn, i>>] = IF host.at = "spin" THEN "made" ELSE "queued"

\* Nothing is in a queue twice, and what is in one has not been started.
QueuesOwn ==
    /\ \A k \in DOMAIN req_q :
         /\ Live(req_q[k])
         /\ \A i \in 1..Len(ops[req_q[k]]) : st[<<req_q[k], i>>] = "queued"
    /\ \A k, l \in DOMAIN req_q : req_q[k] = req_q[l] => k = l
    /\ \A k \in DOMAIN retry_q : st[retry_q[k]] = "retry"
    /\ \A k, l \in DOMAIN retry_q : retry_q[k] = retry_q[l] => k = l

\* done_cnt counts the requests that have ended; a slot beyond the transaction,
\* or of a free one, is free; nothing is lost.
SlotsOwn ==
    /\ \A t \in Txn : Live(t) => done_cnt[t] = Cardinality({i \in 1..Len(ops[t]) : st[<<t, i>>] = "done"})
    /\ \A r \in Req : st[r] # "free" => r \in Requests(r[1])
    /\ \A r \in Req : st[r] # "lost"

\* A tag is held from tag_manager_get_tag to tag_manager_free_tag.
TagsOwn == \A r \in Req : tag[r] # None <=> st[r] \in {"ftl", "released"} \/ (pc = "call" /\ r = cur)

InCall == pc \in {"tag", "call", "return"}
Waiting == pc \in {"wait", "waitretry"} \/ (InCall /\ back = "wait")
Draining == pc = "drain" \/ (InCall /\ back = "drain")
Serving == pc \in {"tag", "call"} /\ back = "loop"
Served == pc = "return" /\ back = "loop" /\ task.i < task.size

\* The transaction the main thread takes apart is its own: later requests are
\* untouched, the present one is where the control point says.
TaskOwns ==
    /\ pc \in {"tag", "call"} => cur \in Req /\ st[cur] = "held"
    /\ Waiting \/ Draining \/ Serving \/ Served =>
         /\ task.txn \in Txn /\ Live(task.txn)
         /\ task.size = Len(ops[task.txn]) /\ task.i \in 1..task.size
         /\ host.at # "idle" => host.txn # task.txn
         /\ \A k \in DOMAIN req_q : req_q[k] # task.txn
         /\ \A j \in (task.i + 1)..task.size : st[<<task.txn, j>>] = "queued"
    /\ Draining => st[TaskReq] = "queued"
    /\ Waiting \/ Serving => st[TaskReq] = "held"
    /\ Waiting /\ pc \in {"tag", "call"} => cur # TaskReq
    /\ Serving => cur = TaskReq

NoRead == \A r \in Req : st[r] \in {"held", "ftl", "untried", "retry"} => TypeOf(r) # "GET"

\* From an answer of UINT32_MAX on, a flush is announced until the write that
\* makes it has left the wait with no read in flight.
FlushOwns ==
    /\ next_flush => FlushAnswer
    /\ \A r \in Req : st[r] \in {"untried", "retry"} => TypeOf(r) \in RetryKinds
    /\ pc \in {"tag", "call"} /\ back # "loop" => TypeOf(cur) \in RetryKinds
    /\ Waiting => next_flush /\ TypeOf(TaskReq) = "SET"
    /\ Serving /\ TypeOf(cur) = "SET" => ~next_flush
    /\ full => /\ FlushAnswer
               /\ next_flush \/ (Serving /\ TypeOf(cur) = "SET" /\ NoRead)
    /\ pc = "waitretry" /\ escape => NoRead
    /\ InCall /\ back = "wait" => ~escape

IInv ==
    /\ TypeOK /\ HostOwns /\ QueuesOwn /\ SlotsOwn
    /\ IsFiniteSet(Admitted) /\ BudgetExact
    /\ TagsConserved /\ TagsOwn
    /\ TaskOwns
    /\ ReadsCounted /\ FlushOwns
=============================================================================
