----------------------- MODULE VectoredInterfaceProofs -----------------------
(***************************************************************************)
(* The safety of the vectored interface for every set of transactions,     *)
(* every shape, budget and queue capacity: IInv of VectoredInterface is    *)
(* inductive and implies ResourcesExact, NoUseAfterFree and FlushGuarded.  *)
(* One lemma per action of the host thread, the main thread and the end of *)
(* a request.                                                              *)
(***************************************************************************)
EXTENDS VectoredInterface, FiniteSetTheorems, SequenceTheorems, TLAPS

-----------------------------------------------------------------------------
(* Facts about the state.                                                  *)

\* A transaction's request types form a sequence no longer than the budget,
\* which is empty exactly when the slot is free; its requests are requests.
LEMMA OpsFacts ==
    ASSUME TypeOK
    PROVE  \A t \in Txn :
             /\ ops[t] \in Seq({"GET", "SET"})
             /\ Len(ops[t]) \in 0..QDEPTH
             /\ Live(t) <=> Len(ops[t]) >= 1
             /\ \A i \in 1..Len(ops[t]) : /\ <<t, i>> \in Req
                                          /\ ops[t][i] \in {"GET", "SET"}
  <1> SUFFICES ASSUME NEW t \in Txn
               PROVE  /\ ops[t] \in Seq({"GET", "SET"})
                      /\ Len(ops[t]) \in 0..QDEPTH
                      /\ Live(t) <=> Len(ops[t]) >= 1
                      /\ \A i \in 1..Len(ops[t]) : /\ <<t, i>> \in Req
                                                   /\ ops[t][i] \in {"GET", "SET"}
    OBVIOUS
  <1>1. ops[t] \in Shape \/ ops[t] = <<>>
    BY DEF TypeOK
  <1>2. /\ ops[t] \in Seq({"GET", "SET"})
        /\ Len(ops[t]) \in 0..QDEPTH
    <2>1. CASE ops[t] \in Shape
      BY <2>1, ShapeAssumption, DepthAssumption
    <2>2. CASE ops[t] = <<>>
      <3>1. <<>> \in Seq({"GET", "SET"}) /\ Len(<<>>) = 0
        BY EmptySeq
      <3> QED
        BY <2>2, <3>1, DepthAssumption
    <2> QED
      BY <1>1, <2>1, <2>2
  <1>3. Live(t) <=> Len(ops[t]) >= 1
    BY <1>2, EmptySeq, LenProperties DEF Live
  <1>4. ASSUME NEW i \in 1..Len(ops[t])
        PROVE  <<t, i>> \in Req /\ ops[t][i] \in {"GET", "SET"}
    BY <1>2, ElementOfSeq, DepthAssumption DEF Req
  <1> QED
    BY <1>2, <1>3, <1>4

\* The budget bounds what is admitted and what is read.
LEMMA Budget ==
    ASSUME IInv
    PROVE  /\ Cardinality(Admitted) \in 0..QDEPTH
           /\ FlyingReads \subseteq Admitted
           /\ IsFiniteSet(FlyingReads)
           /\ Cardinality(FlyingReads) \in 0..QDEPTH
  <1>1. Cardinality(Admitted) \in Nat
    BY FS_CardinalityType DEF IInv
  <1>2. Cardinality(Admitted) \in 0..QDEPTH
    BY <1>1, DepthAssumption DEF IInv, BudgetExact, TypeOK
  <1>3. FlyingReads \subseteq Admitted
    BY DEF FlyingReads, Admitted, AtStatus
  <1>4. /\ IsFiniteSet(FlyingReads)
        /\ Cardinality(FlyingReads) <= Cardinality(Admitted)
    BY <1>3, FS_Subset DEF IInv
  <1>5. Cardinality(FlyingReads) \in Nat
    BY <1>4, FS_CardinalityType
  <1> QED
    BY <1>2, <1>3, <1>4, <1>5, DepthAssumption

\* The admission queue holds one transaction per admitted request at most, and
\* the retry queue one request: an enqueue of assign_vectored_req or of
\* inf_assign_try finds room.
LEMMA RoomLeft ==
    ASSUME IInv
    PROVE  QueuesNeverFull
  <1>1. ASSUME host.at = "enqueue"
        PROVE  RoomIn(req_q)
    <2> DEFINE S == Admitted \ {<<host.txn, 1>>}
               f == [k \in 1..Len(req_q) |-> <<req_q[k], 1>>]
    <2>1. req_q \in Seq(Txn) /\ Len(req_q) \in Nat /\ DOMAIN req_q = 1..Len(req_q)
      BY LenProperties DEF IInv, TypeOK
    <2>2. \A k \in 1..Len(req_q) : req_q[k] \in Txn
      BY <2>1, ElementOfSeq
    <2>3. \A t \in Txn : Live(t) => 1 \in 1..Len(ops[t]) /\ <<t, 1>> \in Req
      BY OpsFacts DEF IInv
    <2>4. /\ <<host.txn, 1>> \in Admitted
      BY <1>1, <2>3 DEF IInv, HostOwns, Admitted, AtStatus
    <2>5. ASSUME NEW k \in 1..Len(req_q)
          PROVE  f[k] \in S
      <3>1. Live(req_q[k]) /\ req_q[k] # host.txn
        BY <1>1, <2>1 DEF IInv, HostOwns, QueuesOwn
      <3>2. st[<<req_q[k], 1>>] = "queued" /\ <<req_q[k], 1>> \in Req
        BY <3>1, <2>1, <2>2, <2>3 DEF IInv, QueuesOwn
      <3> QED
        BY <3>1, <3>2 DEF Admitted, AtStatus
    <2>6. \A k, l \in 1..Len(req_q) : f[k] = f[l] => k = l
      BY <2>1 DEF IInv, QueuesOwn
    <2>7. f \in Injection(1..Len(req_q), S)
      BY <2>5, <2>6 DEF Injection, IsInjective
    <2>8. IsFiniteSet(S) /\ Cardinality(S) = Cardinality(Admitted) - 1
      BY <2>4, FS_RemoveElement DEF IInv
    <2>9. IsFiniteSet(1..Len(req_q)) /\ Cardinality(1..Len(req_q)) = Len(req_q)
      BY <2>1, FS_Interval
    <2>10. Len(req_q) <= Cardinality(S)
      BY <2>7, <2>8, <2>9, FS_Injection
    <2> QED
      BY <2>1, <2>8, <2>10, Budget, DepthAssumption DEF RoomIn
  <1>2. ASSUME NEW r \in Req, st[r] = "untried"
        PROVE  RoomIn(retry_q)
    <2> DEFINE S == Admitted \ {r}
               f == [k \in 1..Len(retry_q) |-> retry_q[k]]
    <2>1. retry_q \in Seq(Req) /\ Len(retry_q) \in Nat /\ DOMAIN retry_q = 1..Len(retry_q)
      BY LenProperties DEF IInv, TypeOK
    <2>2. \A k \in 1..Len(retry_q) : retry_q[k] \in Req
      BY <2>1, ElementOfSeq
    <2>3. \A k \in 1..Len(retry_q) : f[k] \in S
      BY <1>2, <2>1, <2>2 DEF IInv, QueuesOwn, Admitted, AtStatus
    <2>4. \A k, l \in 1..Len(retry_q) : f[k] = f[l] => k = l
      BY <2>1 DEF IInv, QueuesOwn
    <2>5. f \in Injection(1..Len(retry_q), S)
      BY <2>3, <2>4 DEF Injection, IsInjective
    <2>6. IsFiniteSet(S) /\ Cardinality(S) = Cardinality(Admitted) - 1
      BY <1>2, FS_RemoveElement DEF IInv, Admitted, AtStatus
    <2>7. IsFiniteSet(1..Len(retry_q)) /\ Cardinality(1..Len(retry_q)) = Len(retry_q)
      BY <2>1, FS_Interval
    <2>8. Len(retry_q) <= Cardinality(S)
      BY <2>5, <2>6, <2>7, FS_Injection
    <2> QED
      BY <2>1, <2>6, <2>8, Budget, DepthAssumption DEF RoomIn
  <1> QED
    BY <1>1, <1>2 DEF QueuesNeverFull, AtStatus, IInv, SlotsOwn

\* Were no completion between its unlock and its tag_manager_free_tag, every tag
\* would be with a request inside the FTL, and the request in hand beyond the budget.
LEMMA TagFound ==
    ASSUME IInv
    PROVE  TagWaitIsBrief
  <1> SUFFICES ASSUME pc = "tag", tagQ = {}, AtStatus({"released"}) = {}
               PROVE  FALSE
    BY DEF TagWaitIsBrief
  <1> DEFINE F == AtStatus({"ftl"})
             f == [r \in F |-> tag[r]]
  <1>1. cur \in Admitted /\ cur \notin F
    BY DEF IInv, TaskOwns, Admitted, AtStatus
  <1>2. F \subseteq Admitted \ {cur}
    BY <1>1 DEF Admitted, AtStatus
  <1>3. IsFiniteSet(Admitted \ {cur}) /\ Cardinality(Admitted \ {cur}) = Cardinality(Admitted) - 1
    BY <1>1, FS_RemoveElement DEF IInv
  <1>4. IsFiniteSet(F) /\ Cardinality(F) <= Cardinality(Admitted) - 1
    BY <1>2, <1>3, FS_Subset
  <1>5. ASSUME NEW g \in Tag
        PROVE  \E r \in F : f[r] = g
    <2>1. PICK r \in Req : tag[r] = g
      BY DEF IInv, TagsConserved
    <2>2. st[r] \in {"ftl", "released"}
      BY <2>1, NoneAssumption DEF IInv, TagsOwn
    <2> QED
      BY <2>1, <2>2 DEF AtStatus
  <1>6. f \in [F -> Tag]
    BY DEF IInv, TypeOK, TagsOwn, AtStatus
  <1>7. f \in Surjection(F, Tag)
    BY <1>5, <1>6 DEF Surjection
  <1>8. Cardinality(Tag) <= Cardinality(F)
    BY <1>4, <1>7, FS_Surjection, DepthAssumption
  <1>9. Cardinality(F) \in Nat
    BY <1>4, FS_CardinalityType
  <1> QED
    BY <1>4, <1>8, <1>9, Budget, DepthAssumption

-----------------------------------------------------------------------------
(* One request changes its place.                                          *)

AdmittedAt == {"queued", "held", "ftl", "untried", "retry", "lost"}
ReadAt == {"held", "ftl", "untried", "retry"}

\* A request that moves within the budget leaves what is admitted as it is; one
\* that leaves it (release_each_req) takes one off.
LEMMA AdmittedMoved ==
    ASSUME IInv, NEW r \in Req, NEW y, st' = [st EXCEPT ![r] = y], st[r] \in AdmittedAt
    PROVE  /\ y \in AdmittedAt => Admitted' = Admitted
           /\ y \notin AdmittedAt => /\ IsFiniteSet(Admitted')
                                     /\ Cardinality(Admitted') = Cardinality(Admitted) - 1
  <1>1. \A s \in Req : st'[s] = IF s = r THEN y ELSE st[s]
    BY DEF IInv, TypeOK
  <1>2. ASSUME y \in AdmittedAt
        PROVE  Admitted' = Admitted
    BY <1>1, <1>2 DEF Admitted, AtStatus, AdmittedAt
  <1>3. ASSUME y \notin AdmittedAt
        PROVE  /\ IsFiniteSet(Admitted')
               /\ Cardinality(Admitted') = Cardinality(Admitted) - 1
    <2>1. Admitted' = Admitted \ {r} /\ r \in Admitted
      BY <1>1, <1>3 DEF Admitted, AtStatus, AdmittedAt
    <2> QED
      BY <2>1, FS_RemoveElement DEF IInv
  <1> QED
    BY <1>2, <1>3

\* The same for the reads in flight.
LEMMA ReadsMoved ==
    ASSUME IInv, NEW r \in Req, NEW y, st' = [st EXCEPT ![r] = y], ops' = ops
    PROVE  /\ (st[r] \in ReadAt <=> y \in ReadAt) => FlyingReads' = FlyingReads
           /\ TypeOf(r) # "GET" => FlyingReads' = FlyingReads
           /\ st[r] \in ReadAt /\ y \notin ReadAt /\ TypeOf(r) = "GET" =>
                Cardinality(FlyingReads') = Cardinality(FlyingReads) - 1
           /\ st[r] \notin ReadAt /\ y \in ReadAt /\ TypeOf(r) = "GET" =>
                Cardinality(FlyingReads') = Cardinality(FlyingReads) + 1
  <1>1. \A s \in Req : st'[s] = IF s = r THEN y ELSE st[s]
    BY DEF IInv, TypeOK
  <1>2. \A s \in Req : TypeOf(s)' = TypeOf(s)
    BY DEF TypeOf
  <1>3. ASSUME st[r] \in ReadAt <=> y \in ReadAt
        PROVE  FlyingReads' = FlyingReads
    BY <1>1, <1>2, <1>3 DEF FlyingReads, AtStatus, ReadAt
  <1>4. ASSUME TypeOf(r) # "GET"
        PROVE  FlyingReads' = FlyingReads
    BY <1>1, <1>2, <1>4 DEF FlyingReads, AtStatus, ReadAt
  <1>5. ASSUME st[r] \in ReadAt, y \notin ReadAt, TypeOf(r) = "GET"
        PROVE  Cardinality(FlyingReads') = Cardinality(FlyingReads) - 1
    <2>1. FlyingReads' = FlyingReads \ {r} /\ r \in FlyingReads
      BY <1>1, <1>2, <1>5 DEF FlyingReads, AtStatus, ReadAt
    <2> QED
      BY <2>1, Budget, FS_RemoveElement
  <1>6. ASSUME st[r] \notin ReadAt, y \in ReadAt, TypeOf(r) = "GET"
        PROVE  Cardinality(FlyingReads') = Cardinality(FlyingReads) + 1
    <2>1. FlyingReads' = FlyingReads \cup {r} /\ r \notin FlyingReads
      BY <1>1, <1>2, <1>6 DEF FlyingReads, AtStatus, ReadAt
    <2> QED
      BY <2>1, Budget, FS_AddElement
  <1> QED
    BY <1>3, <1>4, <1>5, <1>6

\* A move between two places that are neither free nor ended keeps the counts of
\* ended requests.
LEMMA SlotsKept ==
    ASSUME IInv, NEW r \in Req, NEW y, st' = [st EXCEPT ![r] = y], UNCHANGED <<ops, done_cnt>>,
           st[r] \notin {"free", "done"}, y \notin {"done", "lost"}
    PROVE  SlotsOwn'
  <1>1. \A s \in Req : st'[s] = IF s = r THEN y ELSE st[s]
    BY DEF IInv, TypeOK
  <1>2. ASSUME NEW t \in Txn
        PROVE  {i \in 1..Len(ops[t]) : st'[<<t, i>>] = "done"} = {i \in 1..Len(ops[t]) : st[<<t, i>>] = "done"}
    BY <1>1, OpsFacts DEF IInv
  <1>3. ASSUME NEW t \in Txn, Live(t)'
        PROVE  (done_cnt[t] = Cardinality({i \in 1..Len(ops[t]) : st[<<t, i>>] = "done"}))'
    BY <1>2, <1>3 DEF IInv, SlotsOwn, Live
  <1>4. \A s \in Req : st'[s] # "free" => (s \in Requests(s[1]))'
    BY <1>1 DEF IInv, SlotsOwn, Requests
  <1>5. \A s \in Req : st'[s] # "lost"
    BY <1>1 DEF IInv, SlotsOwn
  <1> QED
    BY <1>3, <1>4, <1>5 DEF SlotsOwn

\* A request inside the FTL or on its way out moves without touching what the
\* host thread, the admission queue or the main thread hold.
LEMMA EndKept ==
    ASSUME IInv, NEW r \in Req, NEW y, st' = [st EXCEPT ![r] = y],
           st[r] \in {"ftl", "released", "untagged", "untried"},
           UNCHANGED <<host, ops, req_q, mainSide>>
    PROVE  /\ HostOwns' /\ TaskOwns'
           /\ \A k \in DOMAIN req_q' : /\ Live(req_q[k])'
                /\ \A i \in 1..Len(ops'[req_q'[k]]) : st'[<<req_q'[k], i>>] = "queued"
           /\ \A k, l \in DOMAIN req_q' : req_q'[k] = req_q'[l] => k = l
           /\ retry_q' = retry_q => QueuesOwn'
  <1>1. \A s \in Req : st'[s] = IF s = r THEN y ELSE st[s]
    BY DEF IInv, TypeOK
  <1>2. \A s \in Req : st[s] \in {"made", "queued", "held"} => st'[s] = st[s]
    BY <1>1
  <1>3. req_q \in Seq(Txn) /\ \A k \in DOMAIN req_q : req_q[k] \in Txn
    BY ElementOfSeq, LenProperties DEF IInv, TypeOK
  <1>4. HostOwns'
    BY <1>2, OpsFacts DEF IInv, HostOwns, Live
  <1>5. TaskOwns'
    <2>1. (pc \in {"tag", "call"} => cur \in Req /\ st[cur] = "held")'
      BY <1>2 DEF IInv, TaskOwns, mainSide
    <2>2. Waiting' = Waiting /\ Draining' = Draining /\ Serving' = Serving /\ Served' = Served /\ TaskReq' = TaskReq
      BY DEF mainSide, Waiting, Draining, Serving, Served, InCall, TaskReq
    <2>3. Waiting \/ Draining \/ Serving => TaskReq \in Req
      BY OpsFacts DEF IInv, TaskOwns, TaskReq
    <2>4. (Waiting \/ Draining \/ Serving \/ Served =>
             /\ task.txn \in Txn /\ Live(task.txn)
             /\ task.size = Len(ops[task.txn]) /\ task.i \in 1..task.size
             /\ host.at # "idle" => host.txn # task.txn
             /\ \A k \in DOMAIN req_q : req_q[k] # task.txn
             /\ \A j \in (task.i + 1)..task.size : st[<<task.txn, j>>] = "queued")'
      BY <1>2, <2>2, OpsFacts DEF IInv, TaskOwns, mainSide, Live
    <2> QED
      BY <1>2, <2>1, <2>2, <2>3, <2>4 DEF IInv, TaskOwns, mainSide
  <1>6. \A k \in DOMAIN req_q' : /\ Live(req_q[k])'
                /\ \A i \in 1..Len(ops'[req_q'[k]]) : st'[<<req_q'[k], i>>] = "queued"
    BY <1>2, <1>3, OpsFacts DEF IInv, QueuesOwn, Live
  <1>7. \A k, l \in DOMAIN req_q' : req_q'[k] = req_q'[l] => k = l
    BY DEF IInv, QueuesOwn
  <1>8. ASSUME retry_q' = retry_q
        PROVE  QueuesOwn'
    <2>1. \A k \in DOMAIN retry_q : retry_q[k] \in Req
      BY ElementOfSeq, LenProperties DEF IInv, TypeOK
    <2>2. \A k \in DOMAIN retry_q' : st'[retry_q'[k]] = "retry"
      BY <1>1, <1>8, <2>1 DEF IInv, QueuesOwn
    <2>3. \A k, l \in DOMAIN retry_q' : retry_q'[k] = retry_q'[l] => k = l
      BY <1>8 DEF IInv, QueuesOwn
    <2> QED
      BY <1>6, <1>7, <2>2, <2>3 DEF QueuesOwn
  <1> QED
    BY <1>4, <1>5, <1>6, <1>7, <1>8

\* The flush discipline survives a request that leaves the FTL or goes round
\* again: no read appears.
LEMMA FlushKept ==
    ASSUME IInv, NEW r \in Req, NEW y, st' = [st EXCEPT ![r] = y],
           st[r] \in {"ftl", "released", "untagged", "untried"},
           y \in {"released", "untagged", "done"} \/ (st[r] \in {"ftl", "untried"} /\ TypeOf(r) \in RetryKinds),
           UNCHANGED <<ops, mainSide>>
    PROVE  FlushOwns'
  <1>1. \A s \in Req : st'[s] = IF s = r THEN y ELSE st[s]
    BY DEF IInv, TypeOK
  <1>2. TypeOf(cur)' = TypeOf(cur) /\ TypeOf(TaskReq)' = TypeOf(TaskReq) /\ \A s \in Req : TypeOf(s)' = TypeOf(s)
    BY DEF TypeOf, TaskReq, mainSide
  <1>3. NoRead => NoRead'
    BY <1>1, <1>2 DEF NoRead
  <1>4. Waiting' = Waiting /\ Serving' = Serving /\ InCall' = InCall
    BY DEF mainSide, Waiting, Serving, InCall
  <1>5. \A s \in Req : st'[s] \in {"untried", "retry"} => TypeOf(s)' \in RetryKinds
    BY <1>1, <1>2 DEF IInv, FlushOwns
  <1> QED
    BY <1>2, <1>3, <1>4, <1>5 DEF IInv, FlushOwns, mainSide

-----------------------------------------------------------------------------
(* The end of a request.                                                   *)

\* tag_manager_free_tag: a held tag goes back, and the others stay where they are.
LEMMA TagFreed ==
    ASSUME IInv, NEW r \in Req, st[r] \in {"ftl", "released"}, FreeTag(r),
           NEW y, y \notin {"ftl", "released"}, st' = [st EXCEPT ![r] = y], UNCHANGED <<pc, cur>>
    PROVE  /\ tagQ' \subseteq Tag /\ tag' \in [Req -> Tag \cup {None}]
           /\ TagsConserved' /\ TagsOwn'
  <1>1. tag \in [Req -> Tag \cup {None}] /\ tagQ \subseteq Tag
    BY DEF IInv, TypeOK
  <1>2. \A s \in Req : st'[s] = IF s = r THEN y ELSE st[s]
    BY DEF IInv, TypeOK
  <1>3. \A s \in Req : tag'[s] = IF s = r THEN None ELSE tag[s]
    BY <1>1 DEF FreeTag
  <1>4. tag[r] \in Tag
    BY <1>1 DEF IInv, TagsOwn
  <1>5. tagQ' = tagQ \cup {tag[r]}
    BY DEF FreeTag
  <1>6. TagsConserved'
    <2>1. \A s \in Req : tag'[s] # None => tag'[s] \notin tagQ'
      BY <1>3, <1>4, <1>5, NoneAssumption DEF IInv, TagsConserved
    <2>2. \A s, q \in Req : tag'[s] # None /\ tag'[s] = tag'[q] => s = q
      BY <1>3 DEF IInv, TagsConserved
    <2>3. \A g \in Tag : g \in tagQ' \/ \E s \in Req : tag'[s] = g
      BY <1>3, <1>5 DEF IInv, TagsConserved
    <2> QED
      BY <2>1, <2>2, <2>3 DEF TagsConserved
  <1>7. TagsOwn'
    <2>1. pc = "call" => cur # r
      BY DEF IInv, TaskOwns
    <2> QED
      BY <1>2, <1>3, <2>1 DEF IInv, TagsOwn
  <1>8. tag' \in [Req -> Tag \cup {None}]
    BY <1>1 DEF FreeTag
  <1> QED
    BY <1>1, <1>4, <1>5, <1>6, <1>7, <1>8

\* release_each_req keeps the invariant.
LEMMA ReleaseReqInv ==
    ASSUME IInv, NEW r \in Req, ReleaseReq(r)
    PROVE  IInv'
  <1> USE DEF hostSide, reqSide
  <1>1. /\ st[r] = "ftl" /\ st' = [st EXCEPT ![r] = "released"]
        /\ flying_cnt' = flying_cnt + 1
        /\ UNCHANGED <<host, ops, done_cnt, req_q, tag, retries, tagQ, retry_q, mainSide>>
    BY DEF ReleaseReq
  <1>2. \A s \in Req : st'[s] = IF s = r THEN "released" ELSE st[s]
    BY <1>1 DEF IInv, TypeOK
  <1>3. HostOwns' /\ TaskOwns' /\ FlushOwns' /\ SlotsOwn'
    BY <1>1, EndKept, FlushKept, SlotsKept
  <1>4. QueuesOwn'
    BY <1>1, EndKept
  <1>5. IsFiniteSet(Admitted') /\ Cardinality(Admitted') = Cardinality(Admitted) - 1
    <2>1. st[r] \in AdmittedAt /\ "released" \notin AdmittedAt
      BY <1>1 DEF AdmittedAt
    <2> QED
      BY <1>1, <2>1, AdmittedMoved, Zenon
  <1>6. BudgetExact' /\ flying_cnt' \in 0..QDEPTH
    <2>1. Cardinality(Admitted') \in Nat
      BY <1>5, FS_CardinalityType
    <2> QED
      BY <1>1, <1>5, <2>1, Budget, DepthAssumption DEF IInv, BudgetExact, TypeOK
  <1>7. TagsConserved' /\ TagsOwn'
    BY <1>1, <1>2 DEF IInv, TagsConserved, TagsOwn, mainSide
  <1>8. ReadsCounted' /\ flying_read_req' \in 0..QDEPTH
    <2>1. TypeOf(r) \in {"GET", "SET"}
      <3>1. r[1] \in Txn /\ r[2] \in 1..Len(ops[r[1]])
        BY <1>1 DEF IInv, SlotsOwn, Requests, Req
      <3> QED
        BY <3>1, OpsFacts DEF IInv, TypeOf
    <2>2. CASE TypeOf(r) = "GET"
      <3>1. flying_read_req' = flying_read_req - 1
        BY <2>2 DEF ReleaseReq, IsRead
      <3>2. Cardinality(FlyingReads') = Cardinality(FlyingReads) - 1
        <4>1. st[r] \in ReadAt /\ "released" \notin ReadAt
          BY <1>1 DEF ReadAt
        <4> QED
          BY <1>1, <2>2, <4>1, ReadsMoved, Zenon
      <3>3. r \in FlyingReads
        BY <1>1, <2>2 DEF FlyingReads, AtStatus
      <3>4. Cardinality(FlyingReads) # 0
        BY <3>3, Budget, FS_EmptySet
      <3> QED
        BY <3>1, <3>2, <3>4, Budget, DepthAssumption DEF IInv, ReadsCounted, TypeOK
    <2>3. CASE TypeOf(r) = "SET"
      <3>1. flying_read_req' = flying_read_req - 0
        BY <2>3 DEF ReleaseReq, IsRead
      <3>2. FlyingReads' = FlyingReads
        BY <1>1, <2>3, ReadsMoved
      <3> QED
        BY <3>1, <3>2 DEF IInv, ReadsCounted, TypeOK
    <2> QED
      BY <2>1, <2>2, <2>3
  <1>9. st' \in [Req -> Statuses]
    BY <1>1 DEF IInv, TypeOK, Statuses
  <1>10. TypeOK'
    BY <1>1, <1>6, <1>8, <1>9 DEF IInv, TypeOK, mainSide
  <1> QED
    BY <1>3, <1>4, <1>5, <1>6, <1>7, <1>8, <1>10 DEF IInv

\* tag_manager_free_tag at the end of release_each_req keeps the invariant.
LEMMA ReleaseTagInv ==
    ASSUME IInv, NEW r \in Req, ReleaseTag(r)
    PROVE  IInv'
  <1> USE DEF hostSide, reqSide
  <1>1. /\ st[r] = "released" /\ st' = [st EXCEPT ![r] = "untagged"] /\ FreeTag(r)
        /\ UNCHANGED <<host, ops, done_cnt, req_q, retries, flying_cnt, flying_read_req, retry_q, mainSide>>
    BY DEF ReleaseTag
  <1>2. \A s \in Req : st'[s] = IF s = r THEN "untagged" ELSE st[s]
    BY <1>1 DEF IInv, TypeOK
  <1>3. HostOwns' /\ TaskOwns' /\ FlushOwns' /\ SlotsOwn'
    BY <1>1, EndKept, FlushKept, SlotsKept
  <1>4. QueuesOwn'
    BY <1>1, EndKept
  <1>5. Admitted' = Admitted
    BY <1>1, <1>2 DEF Admitted, AtStatus
  <1>6. FlyingReads' = FlyingReads
    <2>1. st[r] \notin ReadAt /\ "untagged" \notin ReadAt
      BY <1>1 DEF ReadAt
    <2> QED
      BY <1>1, <2>1, ReadsMoved, Zenon
  <1>7. tagQ' \subseteq Tag /\ tag' \in [Req -> Tag \cup {None}] /\ TagsConserved' /\ TagsOwn'
    BY <1>1, TagFreed DEF mainSide
  <1>8. st' \in [Req -> Statuses]
    BY <1>1 DEF IInv, TypeOK, Statuses
  <1>9. TypeOK'
    BY <1>1, <1>7, <1>8 DEF IInv, TypeOK, mainSide
  <1> QED
    BY <1>1, <1>3, <1>4, <1>5, <1>6, <1>7, <1>9 DEF IInv, BudgetExact, ReadsCounted

\* inf_assign_try up to the tag keeps the invariant.
LEMMA RetryUntagInv ==
    ASSUME IInv, NEW r \in Req, RetryUntag(r)
    PROVE  IInv'
  <1> USE DEF hostSide, reqSide
  <1>1. /\ st[r] = "ftl" /\ st' = [st EXCEPT ![r] = "untried"] /\ FreeTag(r)
        /\ TypeOf(r) \in RetryKinds /\ retries[r] < MaxRetry
        /\ retries' = [retries EXCEPT ![r] = @ + 1]
        /\ UNCHANGED <<host, ops, done_cnt, req_q, flying_cnt, flying_read_req, retry_q, mainSide>>
    BY DEF RetryUntag
  <1>2. \A s \in Req : st'[s] = IF s = r THEN "untried" ELSE st[s]
    BY <1>1 DEF IInv, TypeOK
  <1>3. HostOwns' /\ TaskOwns' /\ FlushOwns' /\ SlotsOwn'
    BY <1>1, EndKept, FlushKept, SlotsKept
  <1>4. QueuesOwn'
    BY <1>1, EndKept
  <1>5. Admitted' = Admitted
    BY <1>1, AdmittedMoved DEF AdmittedAt
  <1>6. FlyingReads' = FlyingReads
    BY <1>1, ReadsMoved DEF ReadAt
  <1>7. tagQ' \subseteq Tag /\ tag' \in [Req -> Tag \cup {None}] /\ TagsConserved' /\ TagsOwn'
    BY <1>1, TagFreed DEF mainSide
  <1>8. st' \in [Req -> Statuses] /\ retries' \in [Req -> 0..MaxRetry]
    BY <1>1, FtlAssumption DEF IInv, TypeOK, Statuses
  <1>9. TypeOK'
    BY <1>1, <1>7, <1>8 DEF IInv, TypeOK, mainSide
  <1> QED
    BY <1>1, <1>3, <1>4, <1>5, <1>6, <1>7, <1>9 DEF IInv, BudgetExact, ReadsCounted

\* The rest of inf_assign_try keeps the invariant: there is room in retry_q.
LEMMA RetryEnqueueInv ==
    ASSUME IInv, NEW r \in Req, RetryEnqueue(r)
    PROVE  IInv'
  <1> USE DEF hostSide, reqSide
  <1>1. RoomIn(retry_q)
    BY RoomLeft DEF RetryEnqueue, QueuesNeverFull, AtStatus
  <1>2. /\ st[r] = "untried" /\ st' = [st EXCEPT ![r] = "retry"]
        /\ retry_q' = Append(retry_q, r)
        /\ UNCHANGED <<host, ops, done_cnt, req_q, tag, tagQ, retries, flying_cnt, flying_read_req, mainSide>>
    BY <1>1 DEF RetryEnqueue
  <1>3. \A s \in Req : st'[s] = IF s = r THEN "retry" ELSE st[s]
    BY <1>2 DEF IInv, TypeOK
  <1>4. TypeOf(r) \in RetryKinds
    BY <1>2 DEF IInv, FlushOwns
  <1>5. HostOwns' /\ TaskOwns' /\ FlushOwns' /\ SlotsOwn'
    BY <1>2, <1>4, EndKept, FlushKept, SlotsKept
  <1>6. retry_q \in Seq(Req) /\ Len(retry_q) \in Nat /\ DOMAIN retry_q = 1..Len(retry_q)
    BY LenProperties DEF IInv, TypeOK
  <1>7. /\ retry_q' \in Seq(Req) /\ DOMAIN retry_q' = 1..(Len(retry_q) + 1)
        /\ retry_q'[Len(retry_q) + 1] = r
        /\ \A k \in 1..Len(retry_q) : retry_q'[k] = retry_q[k] /\ retry_q[k] \in Req
    BY <1>2, <1>6, AppendProperties, LenProperties, ElementOfSeq
  <1>8. QueuesOwn'
    <2>1. \A k \in DOMAIN retry_q' : st'[retry_q'[k]] = "retry"
      BY <1>3, <1>6, <1>7 DEF IInv, QueuesOwn
    <2>2. \A k, l \in DOMAIN retry_q' : retry_q'[k] = retry_q'[l] => k = l
      <3>1. \A k \in 1..Len(retry_q) : retry_q[k] # r
        BY <1>2, <1>6 DEF IInv, QueuesOwn
      <3> QED
        BY <3>1, <1>6, <1>7 DEF IInv, QueuesOwn
    <2> QED
      BY <1>2, <2>1, <2>2, EndKept DEF QueuesOwn
  <1>9. Admitted' = Admitted
    BY <1>2, AdmittedMoved DEF AdmittedAt
  <1>10. FlyingReads' = FlyingReads
    BY <1>2, ReadsMoved DEF ReadAt
  <1>11. TagsConserved' /\ TagsOwn'
    BY <1>2, <1>3 DEF IInv, TagsConserved, TagsOwn, mainSide
  <1>12. st' \in [Req -> Statuses]
    BY <1>2 DEF IInv, TypeOK, Statuses
  <1>13. TypeOK'
    BY <1>2, <1>7, <1>12 DEF IInv, TypeOK, mainSide
  <1> QED
    BY <1>2, <1>5, <1>8, <1>9, <1>10, <1>11, <1>13 DEF IInv, BudgetExact, ReadsCounted

\* One more index beside a set of indexes: how many there are then, and when that
\* is all of them.
LEMMA OneMore ==
    ASSUME NEW n \in Nat, NEW D \in SUBSET (1..n), NEW e \in 1..n, e \notin D
    PROVE  /\ Cardinality(D) \in Nat
           /\ Cardinality(D \cup {e}) = Cardinality(D) + 1
           /\ Cardinality(D) + 1 <= n
           /\ Cardinality(D) + 1 = n => D \cup {e} = 1..n
  <1>1. IsFiniteSet(1..n) /\ Cardinality(1..n) = n
    <2>1. IsFiniteSet(1..n) /\ Cardinality(1..n) = IF 1 > n THEN 0 ELSE n - 1 + 1
      BY FS_Interval
    <2> QED
      BY <2>1
  <1>2. IsFiniteSet(D) /\ Cardinality(D) \in Nat
    BY <1>1, FS_Subset, FS_CardinalityType
  <1>3. Cardinality(D \cup {e}) = Cardinality(D) + 1
    BY <1>2, FS_AddElement
  <1>4. D \cup {e} \in SUBSET (1..n)
    OBVIOUS
  <1>5. Cardinality(D \cup {e}) <= Cardinality(1..n)
        /\ (Cardinality(D \cup {e}) = Cardinality(1..n) => D \cup {e} = 1..n)
    BY <1>1, <1>4, FS_Subset
  <1> QED
    BY <1>1, <1>2, <1>3, <1>5

\* When the counter stands one short, the other requests of the transaction have
\* all ended.
LEMMA LastMeansAll ==
    ASSUME IInv, NEW r \in Req, st[r] = "untagged"
    PROVE  /\ r[1] \in Txn /\ r[2] \in 1..Len(ops[r[1]]) /\ Live(r[1]) /\ r = <<r[1], r[2]>>
           /\ done_cnt[r[1]] + 1 \in 1..Len(ops[r[1]])
           /\ LastOne(r[1]) => \A i \in 1..Len(ops[r[1]]) : i # r[2] => st[<<r[1], i>>] = "done"
           /\ Cardinality({i \in 1..Len(ops[r[1]]) : st[<<r[1], i>>] = "done"} \cup {r[2]}) = done_cnt[r[1]] + 1
  <1> DEFINE t == r[1]
             D == {i \in 1..Len(ops[t]) : st[<<t, i>>] = "done"}
  <1>1. t \in Txn /\ r[2] \in 1..Len(ops[t]) /\ r = <<t, r[2]>>
    BY DEF IInv, SlotsOwn, Requests, Req
  <1>2. Len(ops[t]) \in Nat /\ Live(t)
    BY <1>1, OpsFacts DEF IInv
  <1>3. D \in SUBSET (1..Len(ops[t])) /\ r[2] \notin D
    BY <1>1
  <1>4. done_cnt[t] = Cardinality(D)
    BY <1>1, <1>2 DEF IInv, SlotsOwn
  <1>5. /\ Cardinality(D) \in Nat
        /\ Cardinality(D \cup {r[2]}) = Cardinality(D) + 1
        /\ Cardinality(D) + 1 <= Len(ops[t])
        /\ Cardinality(D) + 1 = Len(ops[t]) => D \cup {r[2]} = 1..Len(ops[t])
    <2> HIDE DEF D, t
    <2> QED
      BY <1>1, <1>2, <1>3, OneMore
  <1>6. LastOne(t) => \A i \in 1..Len(ops[t]) : i # r[2] => st[<<t, i>>] = "done"
    <2>1. SUFFICES ASSUME LastOne(t)
                   PROVE  \A i \in 1..Len(ops[t]) : i # r[2] => i \in D
      OBVIOUS
    <2>2. D \cup {r[2]} = 1..Len(ops[t])
      BY <1>4, <1>5, <2>1 DEF LastOne
    <2> QED
      BY <2>2
  <1>7. done_cnt[t] + 1 \in 1..Len(ops[t])
    BY <1>2, <1>4, <1>5
  <1> QED
    BY <1>1, <1>2, <1>4, <1>5, <1>6, <1>7

\* The end of vectored_end_req for a request that is not the last one.
LEMMA CountDoneMore ==
    ASSUME IInv, NEW r \in Req, CountDone(r), ~LastOne(r[1])
    PROVE  IInv'
  <1>1. /\ st[r] = "untagged" /\ st' = [st EXCEPT ![r] = "done"]
        /\ done_cnt' = [done_cnt EXCEPT ![r[1]] = @ + 1]
        /\ UNCHANGED <<host, ops, retries, req_q, tag, flying_cnt, flying_read_req, tagQ, retry_q, mainSide>>
    BY DEF CountDone
  <1>2. \A s \in Req : st'[s] = IF s = r THEN "done" ELSE st[s]
    BY <1>1 DEF IInv, TypeOK
  <1>3. HostOwns' /\ TaskOwns' /\ FlushOwns' /\ QueuesOwn'
    BY <1>1, EndKept, FlushKept
  <1>4. Admitted' = Admitted
    BY <1>1, <1>2 DEF Admitted, AtStatus
  <1>5. FlyingReads' = FlyingReads
    <2>1. st[r] \notin ReadAt /\ "done" \notin ReadAt
      BY <1>1 DEF ReadAt
    <2> QED
      BY <1>1, <2>1, ReadsMoved, Zenon
  <1>6. TagsConserved' /\ TagsOwn'
    BY <1>1, <1>2 DEF IInv, TagsConserved, TagsOwn, mainSide
  <1>7. done_cnt' \in [Txn -> 0..QDEPTH]
    <2>1. r[1] \in Txn /\ done_cnt[r[1]] + 1 \in 0..QDEPTH
      <3>1. r[1] \in Txn /\ done_cnt[r[1]] + 1 \in 1..Len(ops[r[1]])
        BY <1>1, LastMeansAll, Zenon
      <3>2. Len(ops[r[1]]) \in 0..QDEPTH
        BY <3>1, OpsFacts DEF IInv
      <3> QED
        BY <3>1, <3>2, DepthAssumption
    <2> QED
      BY <1>1, <2>1 DEF IInv, TypeOK
  <1>8. SlotsOwn'
    <2>1. ASSUME NEW t \in Txn, Live(t)'
          PROVE  (done_cnt[t] = Cardinality({i \in 1..Len(ops[t]) : st[<<t, i>>] = "done"}))'
      <3> DEFINE D == {i \in 1..Len(ops[t]) : st[<<t, i>>] = "done"}
                 E == {i \in 1..Len(ops[t]) : st'[<<t, i>>] = "done"}
      <3>1. CASE t = r[1]
        <4>1. r[2] \in 1..Len(ops[t]) /\ r = <<t, r[2]>>
          BY <1>1, <3>1, LastMeansAll, Zenon
        <4>2. E = D \cup {r[2]}
          BY <1>2, <4>1, OpsFacts DEF IInv
        <4>3. Cardinality(D \cup {r[2]}) = done_cnt[t] + 1
          BY <1>1, <3>1, LastMeansAll, Zenon
        <4>4. done_cnt'[t] = done_cnt[t] + 1
          BY <1>1, <3>1 DEF IInv, TypeOK
        <4>5. done_cnt'[t] = Cardinality(E)
          BY <4>2, <4>3, <4>4
        <4> QED
          BY <1>1, <4>5
      <3>2. CASE t # r[1]
        <4>1. E = D
          BY <1>2, <3>2, OpsFacts DEF IInv
        <4>2. done_cnt'[t] = Cardinality(D)
          BY <1>1, <2>1, <3>2 DEF IInv, TypeOK, SlotsOwn, Live
        <4> QED
          BY <1>1, <4>1, <4>2
      <3> QED
        BY <3>1, <3>2
    <2>2. \A s \in Req : st'[s] # "free" => (s \in Requests(s[1]))'
      BY <1>1, <1>2 DEF IInv, SlotsOwn, Requests
    <2>3. \A s \in Req : st'[s] # "lost"
      BY <1>2 DEF IInv, SlotsOwn
    <2> QED
      BY <2>1, <2>2, <2>3 DEF SlotsOwn
  <1>9. st' \in [Req -> Statuses]
    BY <1>1 DEF IInv, TypeOK, Statuses
  <1>10. TypeOK'
    BY <1>1, <1>7, <1>9 DEF IInv, TypeOK, mainSide
  <1> QED
    BY <1>1, <1>3, <1>4, <1>5, <1>6, <1>8, <1>10 DEF IInv, BudgetExact, ReadsCounted

\* The end of vectored_end_req for the last request: the transaction it frees is
\* in no queue and in no thread's hands.
LEMMA CountDoneLast ==
    ASSUME IInv, NEW r \in Req, CountDone(r), LastOne(r[1])
    PROVE  IInv'
  <1> DEFINE f == r[1]
  <1>1. /\ st[r] = "untagged"
        /\ st' = [s \in Req |-> IF s[1] = f THEN "free" ELSE st[s]]
        /\ retries' = [s \in Req |-> IF s[1] = f THEN 0 ELSE retries[s]]
        /\ ops' = [ops EXCEPT ![f] = <<>>]
        /\ done_cnt' = [done_cnt EXCEPT ![f] = @ + 1]
        /\ UNCHANGED <<host, req_q, tag, flying_cnt, flying_read_req, tagQ, retry_q, mainSide>>
    BY DEF CountDone
  <1>2. \A s \in Req : st'[s] = IF s[1] = f THEN "free" ELSE st[s]
    BY <1>1
  <1>3. f \in Txn /\ r[2] \in 1..Len(ops[f]) /\ Live(f) /\ r = <<f, r[2]>>
    BY <1>1, LastMeansAll
  <1>4. \A s \in Req : s[1] = f => st[s] \in {"free", "done", "untagged"}
    <2> SUFFICES ASSUME NEW s \in Req, s[1] = f, st[s] # "free", s # r
                 PROVE  st[s] = "done"
      BY <1>1
    <2>1. s[2] \in 1..Len(ops[f]) /\ s = <<f, s[2]>> /\ s[2] # r[2]
      BY <1>3 DEF IInv, SlotsOwn, Requests, Req
    <2> QED
      BY <1>1, <2>1, LastMeansAll
  <1>5. \A s \in Req : st[s] \notin {"free", "done", "untagged"} => s[1] # f /\ st'[s] = st[s]
    BY <1>2, <1>4
  <1>6. \A t \in Txn : t # f => ops'[t] = ops[t]
    BY <1>1 DEF IInv, TypeOK
  <1>7. ops'[f] = <<>>
    BY <1>1, <1>3 DEF IInv, TypeOK
  <1>8. \A s \in Req : s[1] # f => TypeOf(s)' = TypeOf(s)
    BY <1>6 DEF TypeOf, Req
  <1>9. \A t \in Txn : (\E i \in 1..Len(ops[t]) : st[<<t, i>>] \in {"made", "queued", "held"}) => t # f
    BY <1>4, OpsFacts DEF IInv
  <1>10. \A t \in Txn : Live(t) => 1 \in 1..Len(ops[t])
    BY OpsFacts DEF IInv
  <1>11. host.at # "idle" => host.txn # f
    BY <1>9, <1>10 DEF IInv, HostOwns
  <1>12. \A k \in DOMAIN req_q : req_q[k] \in Txn /\ req_q[k] # f
    <2>1. \A k \in DOMAIN req_q : req_q[k] \in Txn
      BY ElementOfSeq, LenProperties DEF IInv, TypeOK
    <2> QED
      BY <2>1, <1>9, <1>10 DEF IInv, QueuesOwn
  <1>13. HostOwns'
    BY <1>1, <1>5, <1>6, <1>11, OpsFacts DEF IInv, HostOwns, Live
  <1>14. QueuesOwn'
    <2>1. ASSUME NEW k \in DOMAIN req_q
          PROVE  /\ Live(req_q[k])'
                 /\ \A i \in 1..Len(ops'[req_q'[k]]) : st'[<<req_q'[k], i>>] = "queued"
      BY <1>1, <1>5, <1>6, <1>12, OpsFacts DEF IInv, QueuesOwn, Live
    <2>2. \A k \in DOMAIN retry_q : retry_q[k] \in Req
      BY ElementOfSeq, LenProperties DEF IInv, TypeOK
    <2>3. \A k \in DOMAIN retry_q' : st'[retry_q'[k]] = "retry"
      BY <1>1, <1>5, <2>2 DEF IInv, QueuesOwn
    <2> QED
      BY <1>1, <2>1, <2>3 DEF IInv, QueuesOwn
  <1>15. SlotsOwn'
    <2>1. ASSUME NEW t \in Txn, Live(t)'
          PROVE  (done_cnt[t] = Cardinality({i \in 1..Len(ops[t]) : st[<<t, i>>] = "done"}))'
      <3>1. t # f
        BY <1>7, <2>1 DEF Live
      <3>2. ops'[t] = ops[t] /\ Live(t) /\ done_cnt'[t] = done_cnt[t]
        BY <1>1, <1>6, <2>1, <3>1 DEF IInv, TypeOK, Live
      <3>3. {i \in 1..Len(ops[t]) : st'[<<t, i>>] = "done"} = {i \in 1..Len(ops[t]) : st[<<t, i>>] = "done"}
        BY <1>2, <3>1, OpsFacts DEF IInv
      <3> QED
        BY <3>2, <3>3 DEF IInv, SlotsOwn
    <2>2. ASSUME NEW s \in Req, st'[s] # "free"
          PROVE  (s \in Requests(s[1]))'
      <3>1. s[1] # f /\ st[s] # "free" /\ s[1] \in Txn
        BY <1>2, <2>2 DEF Req
      <3>2. ops'[s[1]] = ops[s[1]]
        BY <1>6, <3>1
      <3> QED
        BY <3>1, <3>2 DEF IInv, SlotsOwn, Requests
    <2>3. \A s \in Req : st'[s] # "lost"
      BY <1>2 DEF IInv, SlotsOwn
    <2> QED
      BY <2>1, <2>2, <2>3 DEF SlotsOwn
  <1>16. Admitted' = Admitted
    BY <1>2, <1>5 DEF Admitted, AtStatus
  <1>17. FlyingReads' = FlyingReads
    BY <1>2, <1>5, <1>8 DEF FlyingReads, AtStatus
  <1>18. TagsConserved' /\ TagsOwn'
    <2>1. pc = "call" => cur \in Req /\ st[cur] = "held"
      BY DEF IInv, TaskOwns
    <2>2. \A s \in Req : st'[s] \in {"ftl", "released"} <=> st[s] \in {"ftl", "released"}
      BY <1>2, <1>5
    <2> QED
      BY <1>1, <2>1, <2>2 DEF IInv, TagsConserved, TagsOwn, mainSide
  <1>19. Waiting' = Waiting /\ Draining' = Draining /\ Serving' = Serving /\ Served' = Served
         /\ TaskReq' = TaskReq /\ InCall' = InCall
    BY <1>1 DEF mainSide, Waiting, Draining, Serving, Served, InCall, TaskReq
  <1>20. Waiting \/ Draining \/ Serving \/ Served => task.txn \in Txn /\ task.txn # f /\ ops'[task.txn] = ops[task.txn]
    <2>1. SUFFICES ASSUME Waiting \/ Draining \/ Serving \/ Served
                   PROVE  \E i \in 1..Len(ops[task.txn]) : st[<<task.txn, i>>] \in {"made", "queued", "held"}
      BY <1>6, <1>9 DEF IInv, TaskOwns
    <2>2. CASE Waiting \/ Draining \/ Serving
      BY <2>2, OpsFacts DEF IInv, TaskOwns, TaskReq
    <2>3. CASE Served
      <3>1. task.i + 1 \in (task.i + 1)..task.size /\ task.i + 1 \in 1..task.size
        BY <2>3 DEF IInv, TaskOwns, Served, TypeOK
      <3> QED
        BY <2>3, <3>1 DEF IInv, TaskOwns
    <2> QED
      BY <2>1, <2>2, <2>3
  <1>21. Waiting \/ Draining \/ Serving => TaskReq \in Req
    BY OpsFacts DEF IInv, TaskOwns, TaskReq
  <1>22. TaskOwns'
    <2>1. (pc \in {"tag", "call"} => cur \in Req /\ st[cur] = "held")'
      BY <1>1, <1>5 DEF IInv, TaskOwns, mainSide
    <2>2. (Waiting \/ Draining \/ Serving \/ Served =>
             /\ task.txn \in Txn /\ Live(task.txn)
             /\ task.size = Len(ops[task.txn]) /\ task.i \in 1..task.size
             /\ host.at # "idle" => host.txn # task.txn
             /\ \A k \in DOMAIN req_q : req_q[k] # task.txn
             /\ \A j \in (task.i + 1)..task.size : st[<<task.txn, j>>] = "queued")'
      BY <1>1, <1>5, <1>19, <1>20, OpsFacts DEF IInv, TaskOwns, mainSide, Live
    <2> QED
      BY <1>1, <1>5, <1>19, <1>21, <2>1, <2>2 DEF IInv, TaskOwns, mainSide
  <1>23. FlushOwns'
    <2>1. pc \in {"tag", "call"} => TypeOf(cur)' = TypeOf(cur)
      BY <1>1, <1>5, <1>8 DEF IInv, TaskOwns, mainSide, TypeOf
    <2>2. Waiting => TypeOf(TaskReq)' = TypeOf(TaskReq)
      BY <1>19, <1>20 DEF TypeOf, TaskReq
    <2>3. NoRead => NoRead'
      BY <1>2, <1>5, <1>8 DEF NoRead
    <2>4. \A s \in Req : st'[s] \in {"untried", "retry"} => TypeOf(s)' \in RetryKinds
      BY <1>2, <1>8 DEF IInv, FlushOwns
    <2>5. Serving => pc \in {"tag", "call"}
      BY DEF Serving
    <2> QED
      BY <1>1, <1>19, <2>1, <2>2, <2>3, <2>4, <2>5 DEF IInv, FlushOwns, mainSide
  <1>24. TypeOK'
    <2>1. done_cnt' \in [Txn -> 0..QDEPTH]
      <3>1. done_cnt[f] + 1 \in 0..QDEPTH
        <4>1. done_cnt[f] + 1 \in 1..Len(ops[f])
          BY <1>1, LastMeansAll, Zenon
        <4>2. Len(ops[f]) \in 0..QDEPTH
          BY <1>3, OpsFacts DEF IInv
        <4> QED
          BY <4>1, <4>2, DepthAssumption
      <3> QED
        BY <1>1, <1>3, <3>1 DEF IInv, TypeOK
    <2>2. st' \in [Req -> Statuses] /\ retries' \in [Req -> 0..MaxRetry]
      BY <1>1, FtlAssumption DEF IInv, TypeOK, Statuses
    <2>3. ops' \in [Txn -> Shape \cup {<<>>}]
      BY <1>1 DEF IInv, TypeOK
    <2> QED
      BY <1>1, <2>1, <2>2, <2>3 DEF IInv, TypeOK, mainSide
  <1> QED
    BY <1>1, <1>13, <1>14, <1>15, <1>16, <1>17, <1>18, <1>22, <1>23, <1>24 DEF IInv, BudgetExact, ReadsCounted

\* The end of vectored_end_req keeps the invariant.
LEMMA CountDoneInv ==
    ASSUME IInv, NEW r \in Req, CountDone(r)
    PROVE  IInv'
  BY CountDoneMore, CountDoneLast

-----------------------------------------------------------------------------
(* The main thread takes a retried request in hand.                        *)

\* get_retry_request from any of its three callers: everything but the main
\* thread's own bookkeeping is kept, and the request is one that may be retried.
LEMMA RetryTaken ==
    ASSUME IInv, NEW b \in {"next", "drain", "wait"}, TakeRetry(b), pc \notin {"tag", "call"}
    PROVE  /\ TypeOK' /\ HostOwns' /\ QueuesOwn' /\ SlotsOwn'
           /\ IsFiniteSet(Admitted)' /\ BudgetExact' /\ TagsConserved' /\ TagsOwn' /\ ReadsCounted'
           /\ cur' \in Req /\ st[cur'] = "retry" /\ TypeOf(cur') \in RetryKinds
           /\ \A s \in Req : st'[s] = IF s = cur' THEN "held" ELSE st[s]
           /\ pc' = "tag" /\ back' = b
           /\ UNCHANGED <<host, ops, req_q, task, escape, next_flush, full>>
  <1> DEFINE r == cur'
  <1>1. /\ retry_q # <<>> /\ cur' = Head(retry_q) /\ retry_q' = Tail(retry_q)
        /\ st' = [st EXCEPT ![r] = "held"] /\ pc' = "tag" /\ back' = b
        /\ UNCHANGED <<host, ops, done_cnt, req_q, tag, retries, flying_cnt, flying_read_req, tagQ,
                       task, escape, next_flush, sync, full>>
    BY DEF TakeRetry, hostSide
  <1>2. retry_q \in Seq(Req) /\ Len(retry_q) \in Nat /\ Len(retry_q) >= 1 /\ DOMAIN retry_q = 1..Len(retry_q)
    BY <1>1, LenProperties, EmptySeq DEF IInv, TypeOK
  <1>3. /\ r \in Req /\ r = retry_q[1] /\ retry_q' \in Seq(Req)
        /\ DOMAIN retry_q' = 1..(Len(retry_q) - 1)
        /\ \A k \in 1..(Len(retry_q) - 1) : retry_q'[k] = retry_q[k + 1] /\ retry_q[k + 1] \in Req
    BY <1>1, <1>2, HeadTailProperties, LenProperties, ElementOfSeq
  <1>4. st[r] = "retry"
    BY <1>2, <1>3 DEF IInv, QueuesOwn
  <1>5. TypeOf(r) \in RetryKinds
    BY <1>3, <1>4 DEF IInv, FlushOwns
  <1>6. \A s \in Req : st'[s] = IF s = r THEN "held" ELSE st[s]
    BY <1>1 DEF IInv, TypeOK
  <1>7. \A s \in Req : st[s] \in {"made", "queued"} => st'[s] = st[s]
    BY <1>4, <1>6
  <1>8. HostOwns'
    BY <1>1, <1>7, OpsFacts DEF IInv, HostOwns, Live
  <1>9. QueuesOwn'
    <2>1. \A k \in DOMAIN req_q : req_q[k] \in Txn
      BY ElementOfSeq, LenProperties DEF IInv, TypeOK
    <2>2. \A k \in DOMAIN req_q' : /\ Live(req_q[k])'
                /\ \A i \in 1..Len(ops'[req_q'[k]]) : st'[<<req_q'[k], i>>] = "queued"
      BY <1>1, <1>7, <2>1, OpsFacts DEF IInv, QueuesOwn, Live
    <2>3. \A k, l \in DOMAIN req_q' : req_q'[k] = req_q'[l] => k = l
      BY <1>1 DEF IInv, QueuesOwn
    <2>4. \A k, l \in 1..Len(retry_q) : retry_q[k] = retry_q[l] => k = l
      BY <1>2 DEF IInv, QueuesOwn
    <2>5. \A k \in DOMAIN retry_q' : st'[retry_q'[k]] = "retry"
      <3> SUFFICES ASSUME NEW k \in 1..(Len(retry_q) - 1)
                   PROVE  st'[retry_q[k + 1]] = "retry"
        BY <1>3
      <3>1. k + 1 \in 1..Len(retry_q) /\ k + 1 # 1 /\ 1 \in 1..Len(retry_q)
        BY <1>2
      <3>2. retry_q[k + 1] # r
        BY <1>3, <2>4, <3>1
      <3> QED
        BY <1>2, <1>3, <1>6, <3>1, <3>2 DEF IInv, QueuesOwn
    <2>6. \A k, l \in DOMAIN retry_q' : retry_q'[k] = retry_q'[l] => k = l
      <3> SUFFICES ASSUME NEW k \in 1..(Len(retry_q) - 1), NEW l \in 1..(Len(retry_q) - 1),
                          retry_q[k + 1] = retry_q[l + 1]
                   PROVE  k = l
        BY <1>3
      <3>1. k + 1 \in 1..Len(retry_q) /\ l + 1 \in 1..Len(retry_q)
        BY <1>2
      <3>2. k + 1 = l + 1
        BY <2>4, <3>1
      <3> QED
        BY <3>2
    <2> QED
      BY <2>2, <2>3, <2>5, <2>6 DEF QueuesOwn
  <1>10. SlotsOwn'
    <2>1. PICK q \in Req : q = r
      BY <1>3
    <2>2. /\ st' = [st EXCEPT ![q] = "held"] /\ UNCHANGED <<ops, done_cnt>>
          /\ st[q] \notin {"free", "done"} /\ "held" \notin {"done", "lost"}
      BY <1>1, <1>4, <2>1
    <2> QED
      BY <2>2, SlotsKept, Zenon
  <1>11. Admitted' = Admitted
    BY <1>3, <1>4, <1>6 DEF Admitted, AtStatus
  <1>12. FlyingReads' = FlyingReads
    BY <1>1, <1>3, <1>4, <1>6 DEF FlyingReads, AtStatus, TypeOf
  <1>13. TagsConserved' /\ TagsOwn'
    BY <1>1, <1>4, <1>6 DEF IInv, TagsConserved, TagsOwn
  <1>14. st' \in [Req -> Statuses]
    BY <1>1 DEF IInv, TypeOK, Statuses
  <1>15. TypeOK'
    BY <1>1, <1>3, <1>14 DEF IInv, TypeOK
  <1> QED
    BY <1>1, <1>3, <1>4, <1>5, <1>6, <1>8, <1>9, <1>10, <1>11, <1>12, <1>13, <1>15
       DEF IInv, BudgetExact, ReadsCounted

\* vectored_main between transactions takes a retried request.
LEMMA NextRetryInv ==
    ASSUME IInv, NextRetry
    PROVE  IInv'
  <1>1. pc = "next" /\ TakeRetry("next")
    BY DEF NextRetry
  <1>2. /\ TypeOK' /\ HostOwns' /\ QueuesOwn' /\ SlotsOwn'
        /\ IsFiniteSet(Admitted)' /\ BudgetExact' /\ TagsConserved' /\ TagsOwn' /\ ReadsCounted'
        /\ cur' \in Req /\ st[cur'] = "retry" /\ TypeOf(cur') \in RetryKinds
        /\ \A s \in Req : st'[s] = IF s = cur' THEN "held" ELSE st[s]
        /\ pc' = "tag" /\ back' = "next"
        /\ UNCHANGED <<host, ops, req_q, task, escape, next_flush, full>>
    BY <1>1, RetryTaken
  <1>3. ~Waiting' /\ ~Draining' /\ ~Serving' /\ ~Served'
    BY <1>2 DEF Waiting, Draining, Serving, Served, InCall
  <1>4. TaskOwns'
    BY <1>2, <1>3 DEF TaskOwns
  <1>5. FlushOwns'
    <2>1. full => FlushAnswer /\ next_flush
      BY <1>1 DEF IInv, FlushOwns, Serving
    <2>2. \A s \in Req : st'[s] \in {"untried", "retry"} => TypeOf(s)' \in RetryKinds
      BY <1>2 DEF IInv, FlushOwns, TypeOf
    <2> QED
      BY <1>1, <1>2, <1>3, <2>1, <2>2 DEF IInv, FlushOwns, TypeOf
  <1> QED
    BY <1>2, <1>4, <1>5 DEF IInv

\* The loop before each request of a transaction takes a retried request.
LEMMA DrainRetryInv ==
    ASSUME IInv, DrainRetry
    PROVE  IInv'
  <1>1. pc = "drain" /\ TakeRetry("drain")
    BY DEF DrainRetry
  <1>2. /\ TypeOK' /\ HostOwns' /\ QueuesOwn' /\ SlotsOwn'
        /\ IsFiniteSet(Admitted)' /\ BudgetExact' /\ TagsConserved' /\ TagsOwn' /\ ReadsCounted'
        /\ cur' \in Req /\ st[cur'] = "retry" /\ TypeOf(cur') \in RetryKinds
        /\ \A s \in Req : st'[s] = IF s = cur' THEN "held" ELSE st[s]
        /\ pc' = "tag" /\ back' = "drain"
        /\ UNCHANGED <<host, ops, req_q, task, escape, next_flush, full>>
    BY <1>1, RetryTaken
  <1>3. ~Waiting' /\ Draining' /\ ~Serving' /\ ~Served' /\ Draining
    BY <1>1, <1>2 DEF Waiting, Draining, Serving, Served, InCall
  <1>4. TaskReq \in Req /\ TaskReq' = TaskReq
    BY <1>2, <1>3, OpsFacts DEF IInv, TaskOwns, TaskReq
  <1>5. TaskOwns'
    <2>1. (/\ task.txn \in Txn /\ Live(task.txn)
           /\ task.size = Len(ops[task.txn]) /\ task.i \in 1..task.size
           /\ host.at # "idle" => host.txn # task.txn
           /\ \A k \in DOMAIN req_q : req_q[k] # task.txn
           /\ \A j \in (task.i + 1)..task.size : st[<<task.txn, j>>] = "queued")'
      BY <1>2, <1>3, OpsFacts DEF IInv, TaskOwns, Live
    <2>2. st'[TaskReq'] = "queued"
      BY <1>2, <1>3, <1>4 DEF IInv, TaskOwns
    <2> QED
      BY <1>2, <1>3, <2>1, <2>2 DEF TaskOwns
  <1>6. FlushOwns'
    <2>1. full => FlushAnswer /\ next_flush
      BY <1>1 DEF IInv, FlushOwns, Serving
    <2>2. \A s \in Req : st'[s] \in {"untried", "retry"} => TypeOf(s)' \in RetryKinds
      BY <1>2 DEF IInv, FlushOwns, TypeOf
    <2> QED
      BY <1>1, <1>2, <1>3, <2>1, <2>2 DEF IInv, FlushOwns, TypeOf
  <1> QED
    BY <1>2, <1>5, <1>6 DEF IInv

\* The loop before a write that will flush takes a retried request: it is a read,
\* so the loop had not seen the count at zero.
LEMMA WaitRetryInv ==
    ASSUME IInv, WaitRetry
    PROVE  IInv'
  <1>1. pc = "waitretry" /\ TakeRetry("wait")
    BY DEF WaitRetry
  <1>2. /\ TypeOK' /\ HostOwns' /\ QueuesOwn' /\ SlotsOwn'
        /\ IsFiniteSet(Admitted)' /\ BudgetExact' /\ TagsConserved' /\ TagsOwn' /\ ReadsCounted'
        /\ cur' \in Req /\ st[cur'] = "retry" /\ TypeOf(cur') \in RetryKinds
        /\ \A s \in Req : st'[s] = IF s = cur' THEN "held" ELSE st[s]
        /\ pc' = "tag" /\ back' = "wait"
        /\ UNCHANGED <<host, ops, req_q, task, escape, next_flush, full>>
    BY <1>1, RetryTaken
  <1>3. Waiting' /\ ~Draining' /\ ~Serving' /\ ~Served' /\ Waiting
    BY <1>1, <1>2 DEF Waiting, Draining, Serving, Served, InCall
  <1>4. TaskReq \in Req /\ TaskReq' = TaskReq
    BY <1>2, <1>3, OpsFacts DEF IInv, TaskOwns, TaskReq
  <1>5. TaskOwns'
    <2>1. (/\ task.txn \in Txn /\ Live(task.txn)
           /\ task.size = Len(ops[task.txn]) /\ task.i \in 1..task.size
           /\ host.at # "idle" => host.txn # task.txn
           /\ \A k \in DOMAIN req_q : req_q[k] # task.txn
           /\ \A j \in (task.i + 1)..task.size : st[<<task.txn, j>>] = "queued")'
      BY <1>2, <1>3, OpsFacts DEF IInv, TaskOwns, Live
    <2>2. st[TaskReq] = "held"
      BY <1>3 DEF IInv, TaskOwns
    <2>3. st'[TaskReq'] = "held" /\ cur' # TaskReq'
      BY <1>2, <1>4, <2>2
    <2> QED
      BY <1>2, <1>3, <2>1, <2>3 DEF TaskOwns
  <1>6. FlushOwns'
    <2>1. full => FlushAnswer /\ next_flush
      BY <1>1 DEF IInv, FlushOwns, Serving
    <2>2. \A s \in Req : st'[s] \in {"untried", "retry"} => TypeOf(s)' \in RetryKinds
      BY <1>2 DEF IInv, FlushOwns, TypeOf
    <2>3. next_flush /\ TypeOf(TaskReq) = "SET" /\ FlushAnswer
      BY <1>3 DEF IInv, FlushOwns
    <2>4. TypeOf(cur') = "GET"
      BY <1>2, <2>3, FtlAssumption
    <2>5. ~escape
      BY <1>1, <1>2, <2>4 DEF IInv, FlushOwns, NoRead
    <2> QED
      BY <1>1, <1>2, <1>3, <1>4, <2>1, <2>2, <2>3, <2>5 DEF FlushOwns, TypeOf
  <1> QED
    BY <1>2, <1>5, <1>6 DEF IInv

-----------------------------------------------------------------------------
(* Steps of the main thread that change only its own control state.        *)

\* What such a step keeps.
LEMMA MainMoved ==
    ASSUME IInv, UNCHANGED <<host, ops, done_cnt, req_q, st, tag, retries, flying_cnt,
                             flying_read_req, tagQ, retry_q>>
    PROVE  /\ HostOwns' /\ QueuesOwn' /\ SlotsOwn' /\ TagsConserved'
           /\ IsFiniteSet(Admitted)' /\ BudgetExact' /\ ReadsCounted'
           /\ pc # "call" /\ pc' # "call" => TagsOwn'
           /\ \A s \in Req : TypeOf(s)' = TypeOf(s)
           /\ NoRead' = NoRead
  <1>1. HostOwns' /\ QueuesOwn'
    BY DEF IInv, HostOwns, QueuesOwn, Live
  <1>2. SlotsOwn' /\ TagsConserved'
    BY DEF IInv, SlotsOwn, TagsConserved, Live, Requests
  <1>3. IsFiniteSet(Admitted)' /\ BudgetExact' /\ ReadsCounted'
    BY DEF IInv, BudgetExact, ReadsCounted, Admitted, FlyingReads, AtStatus, TypeOf
  <1>4. pc # "call" /\ pc' # "call" => TagsOwn'
    BY DEF IInv, TagsOwn
  <1>5. (\A s \in Req : TypeOf(s)' = TypeOf(s)) /\ NoRead' = NoRead
    BY DEF TypeOf, NoRead
  <1> QED
    BY <1>1, <1>2, <1>3, <1>4, <1>5

\* get_next_request finds retry_q empty.
LEMMA NoRetryInv ==
    ASSUME IInv, NoRetry
    PROVE  IInv'
  <1>1. /\ pc = "next" /\ pc' = "pick"
        /\ UNCHANGED <<host, ops, done_cnt, req_q, st, tag, retries, flying_cnt, flying_read_req,
                       tagQ, retry_q, cur, task, back, escape, next_flush, sync, full>>
    BY DEF NoRetry, hostSide, reqSide
  <1>2. ~Waiting' /\ ~Draining' /\ ~Serving' /\ ~Served' /\ ~Serving /\ ~InCall'
    BY <1>1 DEF Waiting, Draining, Serving, Served, InCall
  <1>3. TaskOwns' /\ FlushOwns'
    BY <1>1, <1>2, MainMoved DEF IInv, TaskOwns, FlushOwns
  <1>4. TypeOK'
    BY <1>1 DEF IInv, TypeOK
  <1> QED
    BY <1>1, <1>3, <1>4, MainMoved DEF IInv

\* get_next_request finds both queues empty.
LEMMA PickNothingInv ==
    ASSUME IInv, PickNothing
    PROVE  IInv'
  <1>1. /\ pc = "pick" /\ pc' = "next"
        /\ UNCHANGED <<host, ops, done_cnt, req_q, st, tag, retries, flying_cnt, flying_read_req,
                       tagQ, retry_q, cur, task, back, escape, next_flush, sync, full>>
    BY DEF PickNothing, hostSide, reqSide
  <1>2. ~Waiting' /\ ~Draining' /\ ~Serving' /\ ~Served' /\ ~Serving /\ ~InCall'
    BY <1>1 DEF Waiting, Draining, Serving, Served, InCall
  <1>3. TaskOwns' /\ FlushOwns'
    BY <1>1, <1>2, MainMoved DEF IInv, TaskOwns, FlushOwns
  <1>4. TypeOK'
    BY <1>1 DEF IInv, TypeOK
  <1> QED
    BY <1>1, <1>3, <1>4, MainMoved DEF IInv

\* The loop before a write that will flush looks at flying_read_req: a zero means
\* that no read is in flight.
LEMMA WaitLookInv ==
    ASSUME IInv, WaitLook
    PROVE  IInv'
  <1>1. /\ pc = "wait" /\ pc' = "waitretry" /\ escape' = (flying_read_req = 0)
        /\ UNCHANGED <<host, ops, done_cnt, req_q, st, tag, retries, flying_cnt, flying_read_req,
                       tagQ, retry_q, cur, task, back, next_flush, sync, full>>
    BY DEF WaitLook, hostSide, reqSide
  <1>2. Waiting' /\ Waiting /\ ~Draining' /\ ~Serving' /\ ~Served' /\ ~Serving /\ ~InCall' /\ TaskReq' = TaskReq
    BY <1>1 DEF Waiting, Draining, Serving, Served, InCall, TaskReq
  <1>3. TaskOwns'
    BY <1>1, <1>2 DEF IInv, TaskOwns, Live
  <1>4. flying_read_req = 0 => NoRead
    <2>1. flying_read_req = 0 => FlyingReads = {}
      BY Budget, FS_EmptySet DEF IInv, ReadsCounted
    <2> QED
      BY <2>1 DEF FlyingReads, AtStatus, NoRead
  <1>5. FlushOwns'
    <2>1. escape' => NoRead'
      BY <1>1, <1>4, MainMoved
    <2>2. TypeOf(TaskReq)' = TypeOf(TaskReq)
      BY <1>1, <1>2 DEF TypeOf
    <2> QED
      BY <1>1, <1>2, <2>1, <2>2, MainMoved DEF IInv, FlushOwns
  <1>6. TypeOK'
    BY <1>1 DEF IInv, TypeOK
  <1> QED
    BY <1>1, <1>3, <1>5, <1>6, MainMoved DEF IInv

\* The end of one round of that loop: the write leaves it when the count was zero,
\* and meets no read; otherwise the loop goes round.
LEMMA LoopRound ==
    ASSUME IInv, LeaveOrLook, Waiting, pc \in {"waitretry", "return"},
           UNCHANGED <<host, ops, done_cnt, req_q, st, tag, retries, flying_cnt, flying_read_req,
                       tagQ, retry_q, task, escape, full>>,
           sync' \in BOOLEAN
    PROVE  IInv'
  <1>1. TaskReq \in Req /\ TaskReq' = TaskReq /\ TypeOf(TaskReq)' = TypeOf(TaskReq)
    BY OpsFacts DEF IInv, TaskOwns, TaskReq, TypeOf
  <1>2. next_flush /\ TypeOf(TaskReq) = "SET" /\ st[TaskReq] = "held" /\ ~Serving
    BY DEF IInv, FlushOwns, TaskOwns, Serving
  <1>3. CASE escape
    <2>1. cur' = TaskReq /\ pc' = "tag" /\ back' = "loop" /\ next_flush' = FALSE
      BY <1>3 DEF LeaveOrLook
    <2>2. pc = "waitretry" /\ NoRead
      BY <1>3 DEF IInv, FlushOwns, Waiting, InCall
    <2>3. ~Waiting' /\ ~Draining' /\ Serving' /\ ~Served'
      BY <2>1 DEF Waiting, Draining, Serving, Served, InCall
    <2>4. TaskOwns'
      BY <1>1, <1>2, <2>1, <2>3 DEF IInv, TaskOwns, Live
    <2>5. FlushOwns'
      <3>1. TypeOf(cur)' = "SET" /\ NoRead'
        BY <1>1, <1>2, <2>1, <2>2, MainMoved DEF TypeOf
      <3> QED
        BY <2>1, <2>3, <3>1, MainMoved DEF IInv, FlushOwns
    <2>6. TypeOK'
      BY <1>1, <2>1 DEF IInv, TypeOK
    <2> QED
      BY <2>1, <2>2, <2>4, <2>5, <2>6, MainMoved DEF IInv
  <1>4. CASE ~escape
    <2>1. pc' = "wait" /\ UNCHANGED <<cur, back, next_flush>>
      BY <1>4 DEF LeaveOrLook
    <2>2. Waiting' /\ ~Draining' /\ ~Serving' /\ ~Served' /\ ~InCall'
      BY <2>1 DEF Waiting, Draining, Serving, Served, InCall
    <2>3. TaskOwns'
      BY <1>1, <1>2, <2>1, <2>2 DEF IInv, TaskOwns, Live
    <2>4. FlushOwns'
      BY <1>1, <1>2, <2>1, <2>2, MainMoved DEF IInv, FlushOwns
    <2>5. TypeOK'
      BY <2>1 DEF IInv, TypeOK
    <2> QED
      BY <2>1, <2>3, <2>4, <2>5, MainMoved DEF IInv
  <1> QED
    BY <1>3, <1>4 DEF IInv, TypeOK

\* The loop finds no retried request.
LEMMA WaitDoneInv ==
    ASSUME IInv, WaitDone
    PROVE  IInv'
  BY LoopRound DEF WaitDone, Waiting, hostSide, reqSide, IInv, TypeOK

\* A call returns: to the queue, to the loop it was made from, or to the next
\* request of the transaction.
LEMMA ReturnInv ==
    ASSUME IInv, Return
    PROVE  IInv'
  <1>1. /\ pc = "return" /\ Continue /\ sync' = FALSE
        /\ UNCHANGED <<host, ops, done_cnt, req_q, st, tag, retries, flying_cnt, flying_read_req,
                       tagQ, retry_q, escape, full>>
    BY DEF Return, hostSide, reqSide
  <1>2. full => FlushAnswer /\ next_flush
    BY <1>1 DEF IInv, FlushOwns, Serving
  <1>3. CASE back = "next" \/ (back = "loop" /\ ~(task.i < task.size))
    <2>1. pc' = "next" /\ UNCHANGED <<cur, back, next_flush, task>>
      BY <1>1, <1>3 DEF Continue
    <2>2. ~Waiting' /\ ~Draining' /\ ~Serving' /\ ~Served' /\ ~InCall'
      BY <2>1 DEF Waiting, Draining, Serving, Served, InCall
    <2>3. TaskOwns' /\ FlushOwns'
      BY <1>1, <1>2, <2>1, <2>2, MainMoved DEF IInv, TaskOwns, FlushOwns
    <2>4. TypeOK'
      BY <1>1, <2>1 DEF IInv, TypeOK
    <2> QED
      BY <1>1, <2>1, <2>3, <2>4, MainMoved DEF IInv
  <1>4. CASE back = "drain"
    <2>1. pc' = "drain" /\ UNCHANGED <<cur, back, next_flush, task>>
      BY <1>1, <1>4 DEF Continue
    <2>2. ~Waiting' /\ Draining' /\ ~Serving' /\ ~Served' /\ ~InCall' /\ Draining /\ TaskReq' = TaskReq
      BY <1>1, <1>4, <2>1 DEF Waiting, Draining, Serving, Served, InCall, TaskReq
    <2>3. TaskOwns'
      BY <1>1, <2>1, <2>2 DEF IInv, TaskOwns, Live
    <2>4. FlushOwns'
      BY <1>1, <1>2, <2>1, <2>2, MainMoved DEF IInv, FlushOwns
    <2>5. TypeOK'
      BY <1>1, <2>1 DEF IInv, TypeOK
    <2> QED
      BY <1>1, <2>1, <2>3, <2>4, <2>5, MainMoved DEF IInv
  <1>5. CASE back = "wait"
    <2>1. LeaveOrLook /\ UNCHANGED task
      BY <1>1, <1>5 DEF Continue
    <2> QED
      BY <1>1, <1>5, <2>1, LoopRound DEF Waiting, InCall
  <1>6. CASE back = "loop" /\ task.i < task.size
    <2>1. pc' = "drain" /\ UNCHANGED <<cur, back, next_flush>> /\ task' = [task EXCEPT !.i = @ + 1]
      BY <1>1, <1>6 DEF Continue
    <2>2. ~Waiting' /\ Draining' /\ ~Serving' /\ ~Served' /\ ~InCall' /\ Served
      BY <1>1, <1>6, <2>1 DEF Waiting, Draining, Serving, Served, InCall
    <2>3. /\ task.i \in Nat /\ task.size \in 0..QDEPTH
          /\ task'.i = task.i + 1 /\ task'.size = task.size /\ task'.txn = task.txn
      BY <2>1 DEF IInv, TypeOK
    <2>4. /\ task.txn \in Txn /\ Live(task.txn)
          /\ task.size = Len(ops[task.txn]) /\ task.i \in 1..task.size
          /\ host.at # "idle" => host.txn # task.txn
          /\ \A k \in DOMAIN req_q : req_q[k] # task.txn
          /\ \A j \in (task.i + 1)..task.size : st[<<task.txn, j>>] = "queued"
      BY <2>2 DEF IInv, TaskOwns
    <2>5. /\ task'.i \in 1..task.size /\ st[<<task.txn, task'.i>>] = "queued"
          /\ \A j \in (task'.i + 1)..task.size : st[<<task.txn, j>>] = "queued"
      BY <1>6, <2>3, <2>4, DepthAssumption
    <2>6. TaskOwns'
      BY <1>1, <2>1, <2>2, <2>3, <2>4, <2>5 DEF TaskOwns, Live, TaskReq
    <2>7. FlushOwns'
      BY <1>1, <1>2, <2>1, <2>2, MainMoved DEF IInv, FlushOwns
    <2>8. TypeOK'
      <3>1. task' \in [txn : Txn \cup {None}, size : 0..QDEPTH, i : 0..QDEPTH]
        <4>1. task.i + 1 \in 0..QDEPTH
          BY <2>3, <2>5, DepthAssumption
        <4> QED
          BY <2>1, <4>1 DEF IInv, TypeOK
      <3> QED
        BY <1>1, <2>1, <3>1 DEF IInv, TypeOK
    <2> QED
      BY <1>1, <2>1, <2>6, <2>7, <2>8, MainMoved DEF IInv
  <1> QED
    BY <1>3, <1>4, <1>5, <1>6 DEF IInv, TypeOK

-----------------------------------------------------------------------------
(* The main thread takes a transaction apart.                              *)

\* get_next_request hands the head of req_q over.
LEMMA PickTxnInv ==
    ASSUME IInv, PickTxn
    PROVE  IInv'
  <1>1. /\ pc = "pick" /\ pc' = "drain" /\ req_q # <<>> /\ req_q' = Tail(req_q)
        /\ task' = [txn |-> Head(req_q), size |-> Len(ops[Head(req_q)]), i |-> 1]
        /\ UNCHANGED <<host, ops, done_cnt, st, tag, retries, flying_cnt, flying_read_req, tagQ,
                       retry_q, cur, back, escape, next_flush, sync, full>>
    BY DEF PickTxn, reqSide
  <1>2. req_q \in Seq(Txn) /\ Len(req_q) \in Nat /\ Len(req_q) >= 1 /\ DOMAIN req_q = 1..Len(req_q)
    BY <1>1, LenProperties, EmptySeq DEF IInv, TypeOK
  <1>3. /\ Head(req_q) \in Txn /\ Head(req_q) = req_q[1] /\ req_q' \in Seq(Txn)
        /\ DOMAIN req_q' = 1..(Len(req_q) - 1)
        /\ \A k \in 1..(Len(req_q) - 1) : req_q'[k] = req_q[k + 1] /\ k + 1 \in 1..Len(req_q)
    BY <1>1, <1>2, HeadTailProperties, LenProperties
  <1>4. PICK t \in Txn : t = req_q[1] /\ t = Head(req_q)
    BY <1>3
  <1>5. \A k, l \in 1..Len(req_q) : req_q[k] = req_q[l] => k = l
    BY <1>2 DEF IInv, QueuesOwn
  <1>6. \A k \in DOMAIN req_q' : req_q'[k] # t
    <2> SUFFICES ASSUME NEW k \in 1..(Len(req_q) - 1), req_q[k + 1] = req_q[1]
                 PROVE  FALSE
      BY <1>3, <1>4
    <2>1. k + 1 = 1
      BY <1>2, <1>3, <1>5
    <2> QED
      BY <2>1
  <1>7. Live(t) /\ Len(ops[t]) \in 1..QDEPTH /\ \A i \in 1..Len(ops[t]) : st[<<t, i>>] = "queued"
    <2>1. Live(t) /\ \A i \in 1..Len(ops[t]) : st[<<t, i>>] = "queued"
      BY <1>2, <1>4 DEF IInv, QueuesOwn
    <2> QED
      BY <2>1, OpsFacts, DepthAssumption DEF IInv
  <1>8. HostOwns'
    BY <1>1, <1>2, <1>3 DEF IInv, HostOwns, Live
  <1>9. QueuesOwn'
    <2>1. \A k \in DOMAIN req_q' : /\ Live(req_q[k])'
                /\ \A i \in 1..Len(ops'[req_q'[k]]) : st'[<<req_q'[k], i>>] = "queued"
      BY <1>1, <1>2, <1>3 DEF IInv, QueuesOwn, Live
    <2>2. \A k, l \in DOMAIN req_q' : req_q'[k] = req_q'[l] => k = l
      <3> SUFFICES ASSUME NEW k \in 1..(Len(req_q) - 1), NEW l \in 1..(Len(req_q) - 1),
                          req_q[k + 1] = req_q[l + 1]
                   PROVE  k = l
        BY <1>3
      <3>1. k + 1 = l + 1
        BY <1>3, <1>5
      <3> QED
        BY <3>1
    <2> QED
      BY <1>1, <2>1, <2>2 DEF IInv, QueuesOwn
  <1>10. SlotsOwn' /\ TagsConserved' /\ TagsOwn'
    <2>1. SlotsOwn'
      BY <1>1 DEF IInv, SlotsOwn, Live, Requests
    <2>2. TagsConserved' /\ TagsOwn'
      BY <1>1 DEF IInv, TagsConserved, TagsOwn
    <2> QED
      BY <2>1, <2>2
  <1>11. IsFiniteSet(Admitted)' /\ BudgetExact' /\ ReadsCounted'
    BY <1>1 DEF IInv, BudgetExact, ReadsCounted, Admitted, FlyingReads, AtStatus, TypeOf
  <1>12. ~Waiting' /\ Draining' /\ ~Serving' /\ ~Served' /\ ~InCall' /\ ~Serving
    BY <1>1 DEF Waiting, Draining, Serving, Served, InCall
  <1>13. task'.txn = t /\ task'.size = Len(ops[t]) /\ task'.i = 1 /\ TaskReq' = <<t, 1>>
    BY <1>1, <1>4 DEF TaskReq
  <1>14. host.at # "idle" => host.txn # t
    BY <1>2, <1>4 DEF IInv, HostOwns
  <1>15. TaskOwns'
    <2>1. st[<<t, 1>>] = "queued" /\ \A j \in (1 + 1)..Len(ops[t]) : st[<<t, j>>] = "queued"
      BY <1>7
    <2> QED
      BY <1>1, <1>6, <1>7, <1>12, <1>13, <1>14, <2>1 DEF TaskOwns, Live
  <1>16. FlushOwns'
    BY <1>1, <1>12 DEF IInv, FlushOwns, TypeOf
  <1>17. TypeOK'
    <2>1. task' \in [txn : Txn \cup {None}, size : 0..QDEPTH, i : 0..QDEPTH]
      BY <1>1, <1>4, <1>7, DepthAssumption
    <2> QED
      BY <1>1, <1>3, <2>1 DEF IInv, TypeOK
  <1> QED
    BY <1>8, <1>9, <1>10, <1>11, <1>15, <1>16, <1>17 DEF IInv

\* The next request of the transaction is taken in hand; a read is counted, and a
\* write that will flush goes to the wait.
LEMMA StartInv ==
    ASSUME IInv, Start
    PROVE  IInv'
  <1>1. /\ pc = "drain" /\ cur' = TaskReq /\ st' = [st EXCEPT ![TaskReq] = "held"]
        /\ flying_read_req' = flying_read_req + (IF TypeOf(TaskReq) = "GET" THEN 1 ELSE 0)
        /\ pc' = (IF MustWait THEN "wait" ELSE "tag") /\ back' = "loop"
        /\ UNCHANGED <<host, ops, done_cnt, req_q, tag, retries, flying_cnt, tagQ, retry_q,
                       task, escape, next_flush, sync, full>>
    BY DEF Start, hostSide
  <1>2. Draining /\ ~Serving /\ ~Draining' /\ ~Served' /\ TaskReq' = TaskReq
        /\ (Waiting' <=> MustWait) /\ (Serving' <=> ~MustWait) /\ ~(InCall' /\ back' = "wait")
    BY <1>1 DEF Waiting, Draining, Serving, Served, InCall, TaskReq
  <1>3. /\ task.txn \in Txn /\ Live(task.txn)
        /\ task.size = Len(ops[task.txn]) /\ task.i \in 1..task.size
        /\ host.at # "idle" => host.txn # task.txn
        /\ \A k \in DOMAIN req_q : req_q[k] # task.txn
        /\ \A j \in (task.i + 1)..task.size : st[<<task.txn, j>>] = "queued"
        /\ st[TaskReq] = "queued"
    BY <1>2 DEF IInv, TaskOwns
  <1>4. PICK r \in Req : r = TaskReq /\ r[1] = task.txn
    BY <1>3, OpsFacts DEF IInv, TaskReq
  <1>5. \A s \in Req : st'[s] = IF s = r THEN "held" ELSE st[s]
    BY <1>1, <1>4 DEF IInv, TypeOK
  <1>6. TypeOf(r) \in {"GET", "SET"} /\ TypeOf(r) = TypeOf(TaskReq) /\ st[r] = "queued"
    BY <1>3, <1>4, OpsFacts DEF IInv, TypeOf, TaskReq
  <1>7. \A s \in Req : TypeOf(s)' = TypeOf(s)
    BY <1>1 DEF TypeOf
  <1>8. HostOwns'
    BY <1>1, <1>3, <1>4, <1>5, OpsFacts DEF IInv, HostOwns, Live
  <1>9. QueuesOwn'
    <2>1. \A k \in DOMAIN req_q : req_q[k] \in Txn
      BY ElementOfSeq, LenProperties DEF IInv, TypeOK
    <2>2. \A k \in DOMAIN req_q' : /\ Live(req_q[k])'
                /\ \A i \in 1..Len(ops'[req_q'[k]]) : st'[<<req_q'[k], i>>] = "queued"
      BY <1>1, <1>3, <1>4, <1>5, <2>1, OpsFacts DEF IInv, QueuesOwn, Live
    <2>3. \A k \in DOMAIN retry_q : retry_q[k] \in Req /\ st[retry_q[k]] = "retry"
      BY ElementOfSeq, LenProperties DEF IInv, TypeOK, QueuesOwn
    <2>4. \A k \in DOMAIN retry_q' : st'[retry_q'[k]] = "retry"
      BY <1>1, <1>5, <1>6, <2>3
    <2> QED
      BY <1>1, <2>2, <2>4 DEF IInv, QueuesOwn
  <1>10. SlotsOwn'
    <2>1. /\ st' = [st EXCEPT ![r] = "held"] /\ UNCHANGED <<ops, done_cnt>>
          /\ st[r] \notin {"free", "done"} /\ "held" \notin {"done", "lost"}
      BY <1>1, <1>4, <1>6
    <2> QED
      BY <2>1, SlotsKept, Zenon
  <1>11. Admitted' = Admitted
    BY <1>5, <1>6 DEF Admitted, AtStatus
  <1>12. ReadsCounted' /\ flying_read_req' \in 0..QDEPTH
    <2>1. st' = [st EXCEPT ![r] = "held"] /\ ops' = ops
      BY <1>1, <1>4
    <2>2. CASE TypeOf(r) = "GET"
      <3>1. st[r] \notin ReadAt /\ "held" \in ReadAt
        BY <1>6 DEF ReadAt
      <3>2. Cardinality(FlyingReads') = Cardinality(FlyingReads) + 1
        BY <2>1, <2>2, <3>1, ReadsMoved, Zenon
      <3>3. FlyingReads \subseteq Admitted \ {r} /\ r \in Admitted
        BY <1>6, Budget DEF FlyingReads, Admitted, AtStatus
      <3>4. Cardinality(FlyingReads) <= Cardinality(Admitted) - 1
        <4>1. IsFiniteSet(Admitted \ {r}) /\ Cardinality(Admitted \ {r}) = Cardinality(Admitted) - 1
          BY <3>3, FS_RemoveElement DEF IInv
        <4> QED
          BY <3>3, <4>1, FS_Subset
      <3>5. flying_read_req' = flying_read_req + 1
        BY <1>1, <1>6, <2>2
      <3> QED
        BY <3>2, <3>4, <3>5, Budget, DepthAssumption DEF IInv, ReadsCounted
    <2>3. CASE TypeOf(r) # "GET"
      <3>1. FlyingReads' = FlyingReads
        BY <2>1, <2>3, ReadsMoved, Zenon
      <3>2. flying_read_req' = flying_read_req + 0
        BY <1>1, <1>6, <2>3
      <3> QED
        BY <3>1, <3>2, Budget DEF IInv, ReadsCounted, TypeOK
    <2> QED
      BY <2>2, <2>3
  <1>13. TagsConserved' /\ TagsOwn'
    BY <1>1, <1>5, <1>6 DEF IInv, TagsConserved, TagsOwn
  <1>14. TaskOwns'
    <2>1. st'[TaskReq'] = "held" /\ cur' \in Req /\ cur' = TaskReq'
      BY <1>1, <1>2, <1>4, <1>5
    <2>2. \A j \in (task.i + 1)..task.size : st'[<<task.txn, j>>] = "queued"
      <3> SUFFICES ASSUME NEW j \in (task.i + 1)..task.size
                   PROVE  st'[<<task.txn, j>>] = "queued"
        OBVIOUS
      <3>1. j # task.i /\ j \in 1..Len(ops[task.txn])
        BY <1>3, DepthAssumption DEF IInv, TypeOK
      <3>2. <<task.txn, j>> \in Req /\ <<task.txn, j>> # r
        BY <1>3, <1>4, <3>1, OpsFacts DEF IInv, TaskReq
      <3> QED
        BY <1>3, <1>5, <3>2
    <2>3. (/\ task.txn \in Txn /\ Live(task.txn)
           /\ task.size = Len(ops[task.txn]) /\ task.i \in 1..task.size
           /\ host.at # "idle" => host.txn # task.txn
           /\ \A k \in DOMAIN req_q : req_q[k] # task.txn
           /\ \A j \in (task.i + 1)..task.size : st[<<task.txn, j>>] = "queued")'
      BY <1>1, <1>3, <2>2 DEF Live
    <2>4. ~(Waiting' /\ pc' \in {"tag", "call"})
      BY <1>1, <1>2
    <2> QED
      BY <1>2, <2>1, <2>3, <2>4 DEF TaskOwns
  <1>15. FlushOwns'
    <2>1. TypeOf(TaskReq)' = TypeOf(TaskReq) /\ TypeOf(cur)' = TypeOf(TaskReq)
      BY <1>1, <1>2 DEF TypeOf
    <2>2. full => FlushAnswer /\ next_flush
      BY <1>2 DEF IInv, FlushOwns
    <2>3. \A s \in Req : st'[s] \in {"untried", "retry"} => TypeOf(s)' \in RetryKinds
      BY <1>5, <1>7 DEF IInv, FlushOwns
    <2>4. MustWait <=> TypeOf(TaskReq) = "SET" /\ next_flush
      BY DEF MustWait
    <2>5. pc' # "waitretry"
      BY <1>1
    <2> QED
      BY <1>1, <1>2, <2>1, <2>2, <2>3, <2>4, <2>5 DEF IInv, FlushOwns
  <1>16. TypeOK'
    <2>1. st' \in [Req -> Statuses]
      BY <1>1 DEF IInv, TypeOK, Statuses
    <2>2. cur' \in Req \cup {None}
      BY <1>1, <1>4
    <2> QED
      BY <1>1, <1>12, <2>1, <2>2 DEF IInv, TypeOK
  <1> QED
    BY <1>1, <1>8, <1>9, <1>10, <1>11, <1>12, <1>13, <1>14, <1>15, <1>16 DEF IInv, BudgetExact

\* tag_manager_get_tag hands a free tag to the request in hand.
LEMMA GetTagInv ==
    ASSUME IInv, GetTag
    PROVE  IInv'
  <1>1. PICK g \in tagQ : tagQ' = tagQ \ {g} /\ tag' = [tag EXCEPT ![cur] = g]
    BY DEF GetTag
  <1>2. /\ pc = "tag" /\ pc' = "call"
        /\ UNCHANGED <<host, ops, done_cnt, req_q, st, retries, flying_cnt, flying_read_req, retry_q,
                       cur, task, back, escape, next_flush, sync, full>>
    BY DEF GetTag, hostSide
  <1>3. cur \in Req /\ st[cur] = "held" /\ g \in Tag /\ tagQ \subseteq Tag
    BY <1>1, <1>2 DEF IInv, TaskOwns, TypeOK
  <1>4. \A s \in Req : tag'[s] = IF s = cur THEN g ELSE tag[s]
    BY <1>1 DEF IInv, TypeOK
  <1>5. HostOwns' /\ QueuesOwn' /\ SlotsOwn'
    BY <1>2 DEF IInv, HostOwns, QueuesOwn, SlotsOwn, Live, Requests
  <1>6. IsFiniteSet(Admitted)' /\ BudgetExact' /\ ReadsCounted'
    BY <1>2 DEF IInv, BudgetExact, ReadsCounted, Admitted, FlyingReads, AtStatus, TypeOf
  <1>7. TagsConserved'
    <2>1. tag[cur] = None
      BY <1>2, <1>3 DEF IInv, TagsOwn
    <2>2. \A s \in Req : tag[s] # g
      BY <1>1, <1>3, NoneAssumption DEF IInv, TagsConserved
    <2>3. \A s \in Req : tag'[s] # None => tag'[s] \notin tagQ'
      BY <1>1, <1>4, <2>2 DEF IInv, TagsConserved
    <2>4. \A s, q \in Req : tag'[s] # None /\ tag'[s] = tag'[q] => s = q
      BY <1>4, <2>2 DEF IInv, TagsConserved
    <2>5. \A h \in Tag : h \in tagQ' \/ \E s \in Req : tag'[s] = h
      BY <1>1, <1>3, <1>4, <2>1, NoneAssumption DEF IInv, TagsConserved
    <2> QED
      BY <2>3, <2>4, <2>5 DEF TagsConserved
  <1>8. TagsOwn'
    BY <1>2, <1>3, <1>4, NoneAssumption DEF IInv, TagsOwn
  <1>9. Waiting' = Waiting /\ Draining' = Draining /\ Serving' = Serving /\ Served' = Served
        /\ InCall' = InCall /\ TaskReq' = TaskReq
    BY <1>2 DEF Waiting, Draining, Serving, Served, InCall, TaskReq
  <1>10. TaskOwns'
    BY <1>2, <1>9 DEF IInv, TaskOwns, Live
  <1>11. FlushOwns'
    BY <1>2, <1>9 DEF IInv, FlushOwns, NoRead, TypeOf
  <1>12. TypeOK'
    <2>1. tag' \in [Req -> Tag \cup {None}] /\ tagQ' \subseteq Tag
      BY <1>1, <1>3 DEF IInv, TypeOK
    <2> QED
      BY <1>2, <2>1 DEF IInv, TypeOK
  <1> QED
    BY <1>5, <1>6, <1>7, <1>8, <1>10, <1>11, <1>12 DEF IInv

\* inf_algorithm_caller hands the request to the FTL and takes its answer.
LEMMA CallInv ==
    ASSUME IInv, Call
    PROVE  IInv'
  <1>1. PICK s1 \in BOOLEAN, f \in BOOLEAN :
           /\ f => FlushAnswer /\ TypeOf(cur) = "SET"
           /\ sync' = s1
           /\ next_flush' = (next_flush \/ (f /\ back = "loop"))
           /\ full' = IF TypeOf(cur) = "SET" THEN f ELSE full
    BY DEF Call
  <1>2. /\ pc = "call" /\ pc' = "return" /\ st' = [st EXCEPT ![cur] = "ftl"]
        /\ UNCHANGED <<host, ops, done_cnt, req_q, tag, retries, flying_cnt, flying_read_req, tagQ,
                       retry_q, cur, task, back, escape>>
    BY DEF Call, hostSide
  <1>3. PICK r \in Req : r = cur /\ st[r] = "held"
    BY <1>2 DEF IInv, TaskOwns
  <1>4. \A s \in Req : st'[s] = IF s = r THEN "ftl" ELSE st[s]
    BY <1>2, <1>3 DEF IInv, TypeOK
  <1>5. \A s \in Req : st[s] \in {"made", "queued", "retry"} => st'[s] = st[s]
    BY <1>3, <1>4
  <1>6. HostOwns'
    BY <1>2, <1>5, OpsFacts DEF IInv, HostOwns, Live
  <1>7. QueuesOwn'
    <2>1. \A k \in DOMAIN req_q : req_q[k] \in Txn
      BY ElementOfSeq, LenProperties DEF IInv, TypeOK
    <2>2. \A k \in DOMAIN req_q' : /\ Live(req_q[k])'
                /\ \A i \in 1..Len(ops'[req_q'[k]]) : st'[<<req_q'[k], i>>] = "queued"
      BY <1>2, <1>5, <2>1, OpsFacts DEF IInv, QueuesOwn, Live
    <2>3. \A k \in DOMAIN retry_q : retry_q[k] \in Req /\ st[retry_q[k]] = "retry"
      BY ElementOfSeq, LenProperties DEF IInv, TypeOK, QueuesOwn
    <2>4. \A k \in DOMAIN retry_q' : st'[retry_q'[k]] = "retry"
      BY <1>2, <1>5, <2>3
    <2> QED
      BY <1>2, <2>2, <2>4 DEF IInv, QueuesOwn
  <1>8. SlotsOwn'
    <2>1. /\ st' = [st EXCEPT ![r] = "ftl"] /\ UNCHANGED <<ops, done_cnt>>
          /\ st[r] \notin {"free", "done"} /\ "ftl" \notin {"done", "lost"}
      BY <1>2, <1>3
    <2> QED
      BY <2>1, SlotsKept, Zenon
  <1>9. Admitted' = Admitted
    BY <1>3, <1>4 DEF Admitted, AtStatus
  <1>10. FlyingReads' = FlyingReads
    BY <1>2, <1>3, <1>4 DEF FlyingReads, AtStatus, TypeOf
  <1>11. TagsConserved' /\ TagsOwn'
    BY <1>2, <1>3, <1>4 DEF IInv, TagsConserved, TagsOwn
  <1>12. /\ Waiting' = Waiting /\ Draining' = Draining /\ ~Serving' /\ (Served' => Serving)
         /\ InCall' /\ InCall /\ TaskReq' = TaskReq
    BY <1>2 DEF Waiting, Draining, Serving, Served, InCall, TaskReq
  <1>13. TaskOwns'
    <2>1. ASSUME Waiting' \/ Draining' \/ Serving' \/ Served'
          PROVE  (/\ task.txn \in Txn /\ Live(task.txn)
                  /\ task.size = Len(ops[task.txn]) /\ task.i \in 1..task.size
                  /\ host.at # "idle" => host.txn # task.txn
                  /\ \A k \in DOMAIN req_q : req_q[k] # task.txn
                  /\ \A j \in (task.i + 1)..task.size : st[<<task.txn, j>>] = "queued")'
      <3>1. Waiting \/ Draining \/ Serving
        BY <1>12, <2>1
      <3> QED
        BY <1>2, <1>5, <3>1, OpsFacts DEF IInv, TaskOwns, Live
    <2>2. Waiting \/ Draining => TaskReq \in Req
      BY OpsFacts DEF IInv, TaskOwns, TaskReq
    <2>3. Draining' => st'[TaskReq'] = "queued"
      BY <1>5, <1>12, <2>2 DEF IInv, TaskOwns
    <2>4. Waiting' => st'[TaskReq'] = "held"
      BY <1>2, <1>3, <1>4, <1>12, <2>2 DEF IInv, TaskOwns
    <2> QED
      BY <1>2, <1>12, <2>1, <2>3, <2>4 DEF TaskOwns
  <1>14. FlushOwns'
    <2>1. (\A s \in Req : TypeOf(s)' = TypeOf(s)) /\ TypeOf(TaskReq)' = TypeOf(TaskReq)
      BY <1>2, <1>12 DEF TypeOf
    <2>2. \A s \in Req : st'[s] \in {"untried", "retry"} => TypeOf(s)' \in RetryKinds
      BY <1>4, <2>1 DEF IInv, FlushOwns
    <2>3. f => back = "loop"
      BY <1>1, <1>2, FtlAssumption DEF IInv, FlushOwns
    <2>4. next_flush' => FlushAnswer
      BY <1>1 DEF IInv, FlushOwns
    <2>5. full' => FlushAnswer /\ next_flush'
      BY <1>1, <1>2, <2>3 DEF IInv, FlushOwns, TypeOK
    <2>6. Waiting' => next_flush' /\ TypeOf(TaskReq)' = "SET"
      BY <1>1, <1>12, <2>1 DEF IInv, FlushOwns
    <2>7. InCall' /\ back' = "wait" => ~escape'
      BY <1>2, <1>12 DEF IInv, FlushOwns
    <2> QED
      BY <1>2, <1>12, <2>2, <2>4, <2>5, <2>6, <2>7 DEF FlushOwns
  <1>15. TypeOK'
    <2>1. st' \in [Req -> Statuses]
      BY <1>2 DEF IInv, TypeOK, Statuses
    <2>2. sync' \in BOOLEAN /\ next_flush' \in BOOLEAN /\ full' \in BOOLEAN
      BY <1>1 DEF IInv, TypeOK
    <2> QED
      BY <1>2, <2>1, <2>2 DEF IInv, TypeOK
  <1> QED
    BY <1>2, <1>6, <1>7, <1>8, <1>9, <1>10, <1>11, <1>13, <1>14, <1>15 DEF IInv, BudgetExact, ReadsCounted

-----------------------------------------------------------------------------
(* The host thread.                                                        *)

\* inf_vector_make_req fills a free slot.
LEMMA MakeReqInv ==
    ASSUME IInv, MakeReq
    PROVE  IInv'
  <1>1. PICK t \in Txn, o \in Shape :
          /\ ~Live(t)
          /\ ops' = [ops EXCEPT ![t] = o]
          /\ done_cnt' = [done_cnt EXCEPT ![t] = 0]
          /\ st' = [r \in Req |-> IF r \in {t} \X (1..Len(o)) THEN "made" ELSE st[r]]
          /\ host' = [at |-> "spin", txn |-> t]
    BY DEF MakeReq
  <1>2. /\ host.at = "idle"
        /\ UNCHANGED <<tag, retries, flying_cnt, flying_read_req, tagQ, req_q, retry_q, mainSide>>
    BY DEF MakeReq
  <1>3. Len(ops[t]) = 0
    BY <1>1, OpsFacts DEF IInv
  <1>4. \A s \in Req : s[1] = t => st[s] = "free"
    BY <1>3 DEF IInv, SlotsOwn, Requests
  <1>5. Len(o) \in 1..QDEPTH
    BY <1>1, ShapeAssumption
  <1>6. \A u \in Txn : ops'[u] = IF u = t THEN o ELSE ops[u]
    BY <1>1 DEF IInv, TypeOK
  <1>7. \A s \in Req : st'[s] = IF s[1] = t /\ s[2] \in 1..Len(o) THEN "made" ELSE st[s]
    BY <1>1 DEF Req
  <1>8. \A s \in Req : st[s] # "free" => s[1] # t /\ st'[s] = st[s] /\ s[1] \in Txn /\ TypeOf(s)' = TypeOf(s)
    BY <1>4, <1>6, <1>7 DEF TypeOf, Req
  <1>9. \A s \in Req : st'[s] \notin {"free", "made"} => st[s] = st'[s]
    BY <1>7
  <1>10. \A u \in Txn : Live(u) => u # t /\ ops'[u] = ops[u] /\ Live(u)'
    BY <1>1, <1>6 DEF Live
  <1>11. \A k \in DOMAIN req_q : req_q[k] \in Txn /\ req_q[k] # t
    <2>1. \A k \in DOMAIN req_q : req_q[k] \in Txn
      BY ElementOfSeq, LenProperties DEF IInv, TypeOK
    <2> QED
      BY <1>10, <2>1 DEF IInv, QueuesOwn
  <1>12. HostOwns'
    <2>1. Live(t)'
      <3>1. o # <<>>
        BY <1>5, EmptySeq
      <3> QED
        BY <1>6, <3>1 DEF Live
    <2>2. \A i \in 1..Len(o) : <<t, i>> \in Req /\ st'[<<t, i>>] = "made"
      BY <1>5, <1>7, DepthAssumption DEF Req
    <2> QED
      BY <1>1, <1>2, <1>6, <1>11, <2>1, <2>2 DEF HostOwns
  <1>13. QueuesOwn'
    <2>1. \A k \in DOMAIN req_q' : /\ Live(req_q[k])'
                /\ \A i \in 1..Len(ops'[req_q'[k]]) : st'[<<req_q'[k], i>>] = "queued"
      <3> SUFFICES ASSUME NEW k \in DOMAIN req_q
                   PROVE  /\ Live(req_q[k])'
                          /\ \A i \in 1..Len(ops'[req_q[k]]) : st'[<<req_q[k], i>>] = "queued"
        BY <1>2
      <3>1. req_q[k] \in Txn /\ Live(req_q[k])
        BY <1>11 DEF IInv, QueuesOwn
      <3>2. ops'[req_q[k]] = ops[req_q[k]] /\ (ops[req_q[k]] # <<>>)
        BY <1>10, <3>1 DEF Live
      <3>3. \A i \in 1..Len(ops[req_q[k]]) : st[<<req_q[k], i>>] = "queued" /\ <<req_q[k], i>> \in Req
        BY <3>1, OpsFacts DEF IInv, QueuesOwn
      <3> QED
        BY <1>2, <1>8, <3>2, <3>3 DEF Live
    <2>2. \A k \in DOMAIN retry_q : retry_q[k] \in Req /\ st[retry_q[k]] = "retry"
      BY ElementOfSeq, LenProperties DEF IInv, TypeOK, QueuesOwn
    <2>3. \A k \in DOMAIN retry_q' : st'[retry_q'[k]] = "retry"
      BY <1>2, <1>8, <2>2
    <2> QED
      BY <1>2, <2>1, <2>3 DEF IInv, QueuesOwn
  <1>14. SlotsOwn'
    <2>1. ASSUME NEW u \in Txn, Live(u)'
          PROVE  (done_cnt[u] = Cardinality({i \in 1..Len(ops[u]) : st[<<u, i>>] = "done"}))'
      <3>1. CASE u = t
        <4>1. done_cnt'[u] = 0
          BY <1>1, <3>1 DEF IInv, TypeOK
        <4>2. {i \in 1..Len(ops'[u]) : st'[<<u, i>>] = "done"} = {}
          BY <1>5, <1>6, <1>7, <3>1, DepthAssumption DEF Req
        <4> QED
          BY <4>1, <4>2, FS_EmptySet
      <3>2. CASE u # t
        <4>1. ops'[u] = ops[u] /\ Live(u) /\ done_cnt'[u] = done_cnt[u]
          BY <1>1, <1>6, <2>1, <3>2 DEF IInv, TypeOK, Live
        <4>2. {i \in 1..Len(ops[u]) : st'[<<u, i>>] = "done"} = {i \in 1..Len(ops[u]) : st[<<u, i>>] = "done"}
          BY <1>7, <3>2, OpsFacts DEF IInv
        <4> QED
          BY <4>1, <4>2 DEF IInv, SlotsOwn
      <3> QED
        BY <3>1, <3>2
    <2>2. ASSUME NEW s \in Req, st'[s] # "free"
          PROVE  (s \in Requests(s[1]))'
      <3>1. CASE s[1] = t
        <4>1. s[2] \in 1..Len(o) /\ s = <<t, s[2]>>
          BY <1>4, <1>7, <2>2, <3>1 DEF Req
        <4> QED
          BY <1>6, <3>1, <4>1 DEF Requests
      <3>2. CASE s[1] # t
        <4>1. st[s] # "free" /\ s[1] \in Txn
          BY <1>7, <2>2, <3>2 DEF Req
        <4> QED
          BY <1>6, <3>2, <4>1 DEF IInv, SlotsOwn, Requests
      <3> QED
        BY <3>1, <3>2
    <2>3. \A s \in Req : st'[s] # "lost"
      BY <1>7 DEF IInv, SlotsOwn
    <2> QED
      BY <2>1, <2>2, <2>3 DEF SlotsOwn
  <1>15. Admitted' = Admitted
    BY <1>8, <1>9 DEF Admitted, AtStatus
  <1>16. FlyingReads' = FlyingReads
    BY <1>8, <1>9 DEF FlyingReads, AtStatus
  <1>17. TagsConserved' /\ TagsOwn'
    <2>1. \A s \in Req : st'[s] \in {"ftl", "released"} <=> st[s] \in {"ftl", "released"}
      BY <1>8, <1>9
    <2> QED
      BY <1>2, <2>1 DEF IInv, TagsConserved, TagsOwn, mainSide
  <1>18. Waiting' = Waiting /\ Draining' = Draining /\ Serving' = Serving /\ Served' = Served
         /\ TaskReq' = TaskReq /\ InCall' = InCall
    BY <1>2 DEF mainSide, Waiting, Draining, Serving, Served, InCall, TaskReq
  <1>19. Waiting \/ Draining \/ Serving \/ Served =>
            task.txn \in Txn /\ task.txn # t /\ ops'[task.txn] = ops[task.txn] /\ Live(task.txn)'
    BY <1>2, <1>10 DEF IInv, TaskOwns, mainSide, Live
  <1>20. Waiting \/ Draining \/ Serving => TaskReq \in Req
    BY OpsFacts DEF IInv, TaskOwns, TaskReq
  <1>21. TaskOwns'
    <2>1. (pc \in {"tag", "call"} => cur \in Req /\ st[cur] = "held")'
      BY <1>2, <1>8 DEF IInv, TaskOwns, mainSide
    <2>2. ASSUME Waiting \/ Draining \/ Serving \/ Served
          PROVE  (/\ task.txn \in Txn /\ Live(task.txn)
                  /\ task.size = Len(ops[task.txn]) /\ task.i \in 1..task.size
                  /\ host.at # "idle" => host.txn # task.txn
                  /\ \A k \in DOMAIN req_q : req_q[k] # task.txn
                  /\ \A j \in (task.i + 1)..task.size : st[<<task.txn, j>>] = "queued")'
      <3>1. \A j \in (task.i + 1)..task.size : st'[<<task.txn, j>>] = "queued"
        <4> SUFFICES ASSUME NEW j \in (task.i + 1)..task.size
                     PROVE  st'[<<task.txn, j>>] = "queued"
          OBVIOUS
        <4>1. st[<<task.txn, j>>] = "queued" /\ <<task.txn, j>> \in Req
          BY <2>2, OpsFacts DEF IInv, TaskOwns
        <4> QED
          BY <1>8, <4>1
      <3> QED
        BY <1>1, <1>2, <1>19, <2>2, <3>1 DEF IInv, TaskOwns, mainSide
    <2> QED
      BY <1>2, <1>8, <1>18, <1>20, <2>1, <2>2 DEF IInv, TaskOwns, mainSide
  <1>22. FlushOwns'
    <2>1. pc \in {"tag", "call"} => TypeOf(cur)' = TypeOf(cur)
      BY <1>2, <1>8 DEF IInv, TaskOwns, mainSide, TypeOf
    <2>2. Waiting => TypeOf(TaskReq)' = TypeOf(TaskReq)
      BY <1>18, <1>19 DEF TypeOf, TaskReq
    <2>3. NoRead => NoRead'
      BY <1>8, <1>9 DEF NoRead
    <2>4. \A s \in Req : st'[s] \in {"untried", "retry"} => TypeOf(s)' \in RetryKinds
      BY <1>8, <1>9 DEF IInv, FlushOwns
    <2>5. Serving => pc \in {"tag", "call"}
      BY DEF Serving
    <2> QED
      BY <1>2, <1>18, <2>1, <2>2, <2>3, <2>4, <2>5 DEF IInv, FlushOwns, mainSide
  <1>23. TypeOK'
    <2>1. st' \in [Req -> Statuses] /\ ops' \in [Txn -> Shape \cup {<<>>}]
      BY <1>1 DEF IInv, TypeOK, Statuses
    <2>2. done_cnt' \in [Txn -> 0..QDEPTH]
      BY <1>1, DepthAssumption DEF IInv, TypeOK
    <2>3. host' \in [at : {"idle", "spin", "enqueue"}, txn : Txn \cup {None}]
      BY <1>1
    <2> QED
      BY <1>2, <2>1, <2>2, <2>3 DEF IInv, TypeOK, mainSide
  <1> QED
    BY <1>2, <1>12, <1>13, <1>14, <1>15, <1>16, <1>17, <1>21, <1>22, <1>23 DEF IInv, BudgetExact, ReadsCounted

\* assign_vectored_req pays for the whole transaction when the budget covers it.
LEMMA AdmitInv ==
    ASSUME IInv, Admit
    PROVE  IInv'
  <1> DEFINE t == host.txn
             n == Len(ops[t])
  <1>1. /\ host.at = "spin" /\ flying_cnt - n >= 0 /\ flying_cnt' = flying_cnt - n
        /\ st' = [r \in Req |-> IF r \in Requests(t) THEN "queued" ELSE st[r]]
        /\ host' = [host EXCEPT !.at = "enqueue"]
        /\ UNCHANGED <<ops, done_cnt, tag, retries, flying_read_req, tagQ, req_q, retry_q, mainSide>>
    BY DEF Admit, HasRoom
  <1>2. /\ t \in Txn /\ Live(t) /\ \A k \in DOMAIN req_q : req_q[k] # t
        /\ \A i \in 1..n : st[<<t, i>>] = "made"
    BY <1>1 DEF IInv, HostOwns
  <1>3. n \in 1..QDEPTH /\ Requests(t) \subseteq Req
    BY <1>2, OpsFacts, DepthAssumption DEF IInv, Requests, Req
  <1>4. \A s \in Req : s \in Requests(t) <=> s[1] = t /\ s[2] \in 1..n
    BY DEF Requests, Req
  <1>5. \A s \in Requests(t) : st[s] = "made"
    BY <1>2 DEF Requests
  <1>6. \A s \in Req : st'[s] = IF s \in Requests(t) THEN "queued" ELSE st[s]
    BY <1>1
  <1>7. \A s \in Req : st[s] # "made" => st'[s] = st[s]
    BY <1>5, <1>6
  <1>8. \A s \in Req : st'[s] # "queued" => st[s] = st'[s]
    BY <1>6
  <1>9. host'.at = "enqueue" /\ host'.txn = t
    BY <1>1 DEF IInv, TypeOK
  <1>10. HostOwns'
    <2>1. \A i \in 1..n : st'[<<t, i>>] = "queued"
      BY <1>3, <1>6 DEF Requests
    <2> QED
      BY <1>1, <1>2, <1>9, <2>1 DEF HostOwns, Live
  <1>11. QueuesOwn'
    <2>1. \A k \in DOMAIN req_q : req_q[k] \in Txn
      BY ElementOfSeq, LenProperties DEF IInv, TypeOK
    <2>2. \A k \in DOMAIN req_q' : /\ Live(req_q[k])'
                /\ \A i \in 1..Len(ops'[req_q'[k]]) : st'[<<req_q'[k], i>>] = "queued"
      BY <1>1, <1>7, <2>1, OpsFacts DEF IInv, QueuesOwn, Live
    <2>3. \A k \in DOMAIN retry_q : retry_q[k] \in Req /\ st[retry_q[k]] = "retry"
      BY ElementOfSeq, LenProperties DEF IInv, TypeOK, QueuesOwn
    <2>4. \A k \in DOMAIN retry_q' : st'[retry_q'[k]] = "retry"
      BY <1>1, <1>7, <2>3
    <2> QED
      BY <1>1, <2>2, <2>4 DEF IInv, QueuesOwn
  <1>12. SlotsOwn'
    <2>1. ASSUME NEW u \in Txn, Live(u)'
          PROVE  (done_cnt[u] = Cardinality({i \in 1..Len(ops[u]) : st[<<u, i>>] = "done"}))'
      <3>1. {i \in 1..Len(ops[u]) : st'[<<u, i>>] = "done"} = {i \in 1..Len(ops[u]) : st[<<u, i>>] = "done"}
        BY <1>7, <1>8, OpsFacts DEF IInv
      <3> QED
        BY <1>1, <2>1, <3>1 DEF IInv, SlotsOwn, Live
    <2>2. \A s \in Req : st'[s] # "free" => (s \in Requests(s[1]))'
      BY <1>1, <1>5, <1>6 DEF IInv, SlotsOwn, Requests
    <2>3. \A s \in Req : st'[s] # "lost"
      BY <1>6 DEF IInv, SlotsOwn
    <2> QED
      BY <2>1, <2>2, <2>3 DEF SlotsOwn
  <1>13. /\ IsFiniteSet(Admitted') /\ Cardinality(Admitted') = Cardinality(Admitted) + n
    <2>1. IsFiniteSet(Requests(t)) /\ Cardinality(Requests(t)) = n
      <3>1. IsFiniteSet(1..n) /\ Cardinality(1..n) = IF 1 > n THEN 0 ELSE n - 1 + 1
        BY <1>3, FS_Interval
      <3>2. IsFiniteSet({t}) /\ Cardinality({t}) = 1
        BY FS_Singleton
      <3>3. IsFiniteSet({t} \X (1..n)) /\ Cardinality({t} \X (1..n)) = 1 * Cardinality(1..n)
        BY <3>1, <3>2, FS_Product
      <3> QED
        BY <1>3, <3>1, <3>3 DEF Requests
    <2>2. Admitted' = Admitted \cup Requests(t) /\ Admitted \cap Requests(t) = {}
      BY <1>3, <1>5, <1>6 DEF Admitted, AtStatus
    <2>3. /\ IsFiniteSet(Admitted \cup Requests(t))
          /\ Cardinality(Admitted \cup Requests(t)) =
               Cardinality(Admitted) + Cardinality(Requests(t)) - Cardinality(Admitted \cap Requests(t))
      BY <2>1, FS_Union DEF IInv
    <2>4. Cardinality(Admitted \cap Requests(t)) = 0
      BY <2>2, FS_EmptySet
    <2>5. Cardinality(Admitted) \in Int /\ n \in Int
      BY <1>3, Budget
    <2> HIDE DEF n, t
    <2> QED
      BY <2>1, <2>2, <2>3, <2>4, <2>5
  <1>14. BudgetExact' /\ flying_cnt' \in 0..QDEPTH
    <2>1. flying_cnt \in 0..QDEPTH /\ flying_cnt + Cardinality(Admitted) = QDEPTH
      BY DEF IInv, BudgetExact, TypeOK
    <2>2. flying_cnt' + Cardinality(Admitted') = QDEPTH /\ flying_cnt' \in 0..QDEPTH
      <3> HIDE DEF n
      <3> QED
        BY <1>1, <1>3, <1>13, <2>1, Budget, DepthAssumption
    <2> QED
      BY <2>2 DEF BudgetExact
  <1>15. FlyingReads' = FlyingReads
    BY <1>1, <1>7, <1>8 DEF FlyingReads, AtStatus, TypeOf
  <1>16. TagsConserved' /\ TagsOwn'
    <2>1. \A s \in Req : st'[s] \in {"ftl", "released"} <=> st[s] \in {"ftl", "released"}
      BY <1>7, <1>8
    <2> QED
      BY <1>1, <2>1 DEF IInv, TagsConserved, TagsOwn, mainSide
  <1>17. Waiting' = Waiting /\ Draining' = Draining /\ Serving' = Serving /\ Served' = Served
         /\ TaskReq' = TaskReq /\ InCall' = InCall
    BY <1>1 DEF mainSide, Waiting, Draining, Serving, Served, InCall, TaskReq
  <1>18. Waiting \/ Draining \/ Serving => TaskReq \in Req
    BY OpsFacts DEF IInv, TaskOwns, TaskReq
  <1>19. TaskOwns'
    <2>1. (pc \in {"tag", "call"} => cur \in Req /\ st[cur] = "held")'
      BY <1>1, <1>7 DEF IInv, TaskOwns, mainSide
    <2>2. ASSUME Waiting \/ Draining \/ Serving \/ Served
          PROVE  (/\ task.txn \in Txn /\ Live(task.txn)
                  /\ task.size = Len(ops[task.txn]) /\ task.i \in 1..task.size
                  /\ host.at # "idle" => host.txn # task.txn
                  /\ \A k \in DOMAIN req_q : req_q[k] # task.txn
                  /\ \A j \in (task.i + 1)..task.size : st[<<task.txn, j>>] = "queued")'
      BY <1>1, <1>7, <1>9, <2>2, OpsFacts DEF IInv, TaskOwns, mainSide, Live
    <2> QED
      BY <1>1, <1>7, <1>17, <1>18, <2>1, <2>2 DEF IInv, TaskOwns, mainSide
  <1>20. FlushOwns'
    <2>1. TypeOf(cur)' = TypeOf(cur) /\ TypeOf(TaskReq)' = TypeOf(TaskReq) /\ \A s \in Req : TypeOf(s)' = TypeOf(s)
      BY <1>1, <1>17 DEF TypeOf, mainSide
    <2>2. NoRead => NoRead'
      BY <1>7, <1>8, <2>1 DEF NoRead
    <2>3. \A s \in Req : st'[s] \in {"untried", "retry"} => TypeOf(s)' \in RetryKinds
      BY <1>8, <2>1 DEF IInv, FlushOwns
    <2> QED
      BY <1>1, <1>17, <2>1, <2>2, <2>3 DEF IInv, FlushOwns, mainSide
  <1>21. TypeOK'
    <2>1. st' \in [Req -> Statuses]
      BY <1>1 DEF IInv, TypeOK, Statuses
    <2>2. host' \in [at : {"idle", "spin", "enqueue"}, txn : Txn \cup {None}]
      BY <1>1 DEF IInv, TypeOK
    <2> QED
      BY <1>1, <1>14, <2>1, <2>2 DEF IInv, TypeOK, mainSide
  <1> QED
    BY <1>1, <1>10, <1>11, <1>12, <1>13, <1>14, <1>15, <1>16, <1>19, <1>20, <1>21 DEF IInv, ReadsCounted

\* The end of assign_vectored_req: there is room, so the transaction is queued.
LEMMA EnqueueInv ==
    ASSUME IInv, Enqueue
    PROVE  IInv'
  <1> DEFINE t == host.txn
  <1>1. host.at = "enqueue" /\ RoomIn(req_q)
    BY RoomLeft DEF Enqueue, QueuesNeverFull
  <1>2. /\ req_q' = Append(req_q, t) /\ host' = [at |-> "idle", txn |-> None]
        /\ UNCHANGED <<ops, done_cnt, st, tag, retries, flying_cnt, flying_read_req, tagQ, retry_q, mainSide>>
    BY <1>1 DEF Enqueue, reqSide
  <1>3. /\ t \in Txn /\ Live(t) /\ \A k \in DOMAIN req_q : req_q[k] # t
        /\ \A i \in 1..Len(ops[t]) : st[<<t, i>>] = "queued"
    BY <1>1 DEF IInv, HostOwns
  <1>4. req_q \in Seq(Txn) /\ Len(req_q) \in Nat /\ DOMAIN req_q = 1..Len(req_q)
    BY LenProperties DEF IInv, TypeOK
  <1>5. /\ req_q' \in Seq(Txn) /\ DOMAIN req_q' = 1..(Len(req_q) + 1)
        /\ req_q'[Len(req_q) + 1] = t
        /\ \A k \in 1..Len(req_q) : req_q'[k] = req_q[k]
    BY <1>2, <1>3, <1>4, AppendProperties, LenProperties
  <1>6. HostOwns'
    BY <1>2 DEF HostOwns
  <1>7. QueuesOwn'
    <2>1. \A k \in DOMAIN req_q' : /\ Live(req_q[k])'
                /\ \A i \in 1..Len(ops'[req_q'[k]]) : st'[<<req_q'[k], i>>] = "queued"
      BY <1>2, <1>3, <1>4, <1>5 DEF IInv, QueuesOwn, Live
    <2>2. \A k, l \in DOMAIN req_q' : req_q'[k] = req_q'[l] => k = l
      BY <1>3, <1>4, <1>5 DEF IInv, QueuesOwn
    <2> QED
      BY <1>2, <2>1, <2>2 DEF IInv, QueuesOwn
  <1>8. SlotsOwn'
    BY <1>2 DEF IInv, SlotsOwn, Live, Requests
  <1>9. TagsConserved' /\ TagsOwn'
    BY <1>2 DEF IInv, TagsConserved, TagsOwn, mainSide
  <1>10. IsFiniteSet(Admitted)' /\ BudgetExact' /\ ReadsCounted'
    BY <1>2 DEF IInv, BudgetExact, ReadsCounted, Admitted, FlyingReads, AtStatus, TypeOf
  <1>11. Waiting' = Waiting /\ Draining' = Draining /\ Serving' = Serving /\ Served' = Served
         /\ TaskReq' = TaskReq /\ InCall' = InCall
    BY <1>2 DEF mainSide, Waiting, Draining, Serving, Served, InCall, TaskReq
  <1>12. TaskOwns'
    <2>1. Waiting \/ Draining \/ Serving \/ Served => \A k \in DOMAIN req_q' : req_q'[k] # task.txn
      BY <1>1, <1>4, <1>5 DEF IInv, TaskOwns
    <2> QED
      BY <1>2, <1>11, <2>1 DEF IInv, TaskOwns, mainSide, Live
  <1>13. FlushOwns'
    BY <1>2, <1>11 DEF IInv, FlushOwns, NoRead, TypeOf, mainSide
  <1>14. TypeOK'
    BY <1>2, <1>5 DEF IInv, TypeOK, mainSide
  <1> QED
    BY <1>6, <1>7, <1>8, <1>9, <1>10, <1>12, <1>13, <1>14 DEF IInv

-----------------------------------------------------------------------------
(* The theorems.                                                           *)

\* The interface as inf_init leaves it satisfies the invariant.
LEMMA InitInv ==
    ASSUME Init
    PROVE  IInv
  <1>1. TypeOK
    <2>1. <<>> \in Seq(Txn) /\ <<>> \in Seq(Req)
      BY EmptySeq
    <2>2. st \in [Req -> Statuses] /\ tag \in [Req -> Tag \cup {None}]
      BY DEF Init, Statuses
    <2>3. retries \in [Req -> 0..MaxRetry] /\ done_cnt \in [Txn -> 0..QDEPTH]
      BY FtlAssumption, DepthAssumption DEF Init
    <2>4. ops \in [Txn -> Shape \cup {<<>>}] /\ flying_cnt \in 0..QDEPTH /\ flying_read_req \in 0..QDEPTH
      BY DepthAssumption DEF Init
    <2>5. /\ host \in [at : {"idle", "spin", "enqueue"}, txn : Txn \cup {None}]
          /\ task \in [txn : Txn \cup {None}, size : 0..QDEPTH, i : 0..QDEPTH]
      BY DepthAssumption DEF Init
    <2>6. /\ escape \in BOOLEAN /\ next_flush \in BOOLEAN /\ sync \in BOOLEAN /\ full \in BOOLEAN
          /\ tagQ \subseteq Tag /\ cur \in Req \cup {None}
          /\ back \in {"next", "drain", "wait", "loop"}
          /\ pc \in {"next", "pick", "drain", "wait", "waitretry", "tag", "call", "return"}
      BY DEF Init
    <2> QED
      BY <2>1, <2>2, <2>3, <2>4, <2>5, <2>6 DEF Init, TypeOK
  <1>2. DOMAIN req_q = {} /\ DOMAIN retry_q = {}
    BY DEF Init
  <1>3. HostOwns /\ QueuesOwn
    BY <1>2 DEF Init, HostOwns, QueuesOwn
  <1>4. SlotsOwn /\ TagsConserved /\ TagsOwn
    BY NoneAssumption DEF Init, SlotsOwn, TagsConserved, TagsOwn, Live
  <1>5. Admitted = {} /\ FlyingReads = {}
    BY DEF Init, Admitted, FlyingReads, AtStatus
  <1>6. IsFiniteSet(Admitted) /\ BudgetExact /\ ReadsCounted
    BY <1>5, FS_EmptySet, DepthAssumption DEF Init, BudgetExact, ReadsCounted
  <1>7. TaskOwns /\ FlushOwns
    BY DEF Init, TaskOwns, FlushOwns, Waiting, Draining, Serving, Served, InCall
  <1> QED
    BY <1>1, <1>3, <1>4, <1>6, <1>7 DEF IInv

\* Every step of the host thread, of the main thread and of a request's end keeps
\* the invariant.
LEMMA NextInv ==
    ASSUME IInv, [Next]_vars
    PROVE  IInv'
  <1>1. CASE Host
    BY <1>1, MakeReqInv, AdmitInv, EnqueueInv DEF Host
  <1>2. CASE Main
    BY <1>2, NextRetryInv, NoRetryInv, PickTxnInv, PickNothingInv, DrainRetryInv, StartInv,
       WaitLookInv, WaitRetryInv, WaitDoneInv, GetTagInv, CallInv, ReturnInv DEF Main
  <1>3. CASE \E r \in Req : EndOf(r)
    BY <1>3, ReleaseReqInv, ReleaseTagInv, CountDoneInv, RetryUntagInv, RetryEnqueueInv DEF EndOf
  <1>4. CASE UNCHANGED vars
    <2>1. UNCHANGED <<host, ops, done_cnt, req_q, st, tag, retries, flying_cnt, flying_read_req,
                      tagQ, retry_q, pc, cur, task, back, escape, next_flush, sync, full>>
      BY <1>4 DEF vars
    <2>2. TypeOK' /\ TagsOwn'
      BY <2>1 DEF IInv, TypeOK, TagsOwn
    <2>3. TaskOwns'
      BY <2>1 DEF IInv, TaskOwns, Waiting, Draining, Serving, Served, InCall, TaskReq, Live
    <2>4. FlushOwns'
      BY <2>1 DEF IInv, FlushOwns, Waiting, Serving, InCall, TaskReq, NoRead, TypeOf
    <2> QED
      BY <2>1, <2>2, <2>3, <2>4, MainMoved DEF IInv
  <1> QED
    BY <1>1, <1>2, <1>3, <1>4 DEF Next

\* IInv is an invariant of the interface.
THEOREM InductiveInvariant == Spec => []IInv
  <1>1. Init => IInv
    BY InitInv
  <1>2. IInv /\ [Next]_vars => IInv'
    BY NextInv
  <1> QED
    BY <1>1, <1>2, PTL DEF Spec

\* Every variable keeps its type; flying_cnt stays within 0..QDEPTH, so neither
\* abort of assign_vectored_req and release_each_req is reached.
THEOREM TypeCorrect == Spec => []TypeOK
  <1>1. IInv => TypeOK
    BY DEF IInv
  <1> QED
    BY <1>1, InductiveInvariant, PTL

\* For every budget, tag set and queue capacity that covers the budget: flying_cnt
\* and the tags are accounted for exactly, no enqueue of assign_vectored_req or
\* inf_assign_try fails, and the main thread sleeps in tag_manager_get_tag only
\* while a completion is about to free a tag.
THEOREM ResourcesAlwaysExact == Spec => []ResourcesExact
  <1>1. IInv => ResourcesExact
    BY RoomLeft, TagFound DEF IInv, ResourcesExact
  <1> QED
    BY <1>1, InductiveInvariant, PTL

\* vectored_end_req frees a transaction only when neither the queues, nor the main
\* thread, nor the FTL hold any of its requests.
THEOREM NeverUsedAfterFree == Spec => []NoUseAfterFree
  <1>1. IInv => NoUseAfterFree
    BY DEF IInv, NoUseAfterFree, QueuesOwn, SlotsOwn, TaskOwns, Waiting, Draining
  <1> QED
    BY <1>1, InductiveInvariant, PTL

\* flying_read_req is exact, and the write that vectored_main lets through after an
\* answer of UINT32_MAX meets no read in the FTL or on its way round.
THEOREM FlushAlwaysGuarded == Spec => []FlushGuarded
  <1>1. IInv => FlushMeetsNoRead
    <2> SUFFICES ASSUME IInv, pc = "call", full, TypeOf(cur) = "SET"
                 PROVE  NoRead
      BY DEF FlushMeetsNoRead, NoRead, AtStatus
    <2>1. FlushAnswer
      BY DEF IInv, FlushOwns
    <2>2. back = "loop"
      BY <2>1, FtlAssumption DEF IInv, FlushOwns
    <2> QED
      BY <2>2 DEF IInv, FlushOwns, Serving
  <1>2. IInv => FlushGuarded
    BY <1>1 DEF IInv, FlushGuarded
  <1> QED
    BY <1>2, InductiveInvariant, PTL
=============================================================================
