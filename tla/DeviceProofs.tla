---------------------------- MODULE DeviceProofs ----------------------------
(***************************************************************************)
(* Theorems about the device back ends, for every number of tags, wrappers *)
(* and units: the AIO back end and the AMF back end, in both its builds;   *)
(* and the invariants of what the FTLs keep their pages in, the slabs of   *)
(* mapping pages and the parallel unit manager.                            *)
(***************************************************************************)
EXTENDS MCFrontEnd, FiniteSetTheorems, SequenceTheorems, TLAPS

-----------------------------------------------------------------------------
(* The elements of a queue.                                                *)

Elems(s) == {s[i] : i \in DOMAIN s}
Distinct(s) == \A i, j \in DOMAIN s : s[i] = s[j] => i = j

\* The back ends use the operators of SequencesExt and FiniteSets.
LEMMA AioOperators ==
    /\ \A s : Aio!ToSet(s) = Elems(s)
    /\ \A s : Aio!IsInjective(s) <=> Distinct(s)
    /\ \A S : Aio!Cardinality(S) = Cardinality(S)
<1>1. \A s : Aio!ToSet(s) = Elems(s)
  BY DEF Aio!ToSet, Elems
<1>2. \A s : Aio!IsInjective(s) <=> Distinct(s)
  BY DEF Aio!IsInjective, Distinct
<1>3. \A S : Aio!Cardinality(S) = Cardinality(S)
  BY DEF Aio!Cardinality, Cardinality
<1> QED  BY <1>1, <1>2, <1>3

\* q_enqueue: one element more.
LEMMA Enqueue ==
    ASSUME NEW S, NEW s \in Seq(S), NEW e \in S
    PROVE  /\ Append(s, e) \in Seq(S) /\ Len(Append(s, e)) = Len(s) + 1 /\ Len(s) \in Nat
           /\ Elems(Append(s, e)) = Elems(s) \cup {e}
           /\ Distinct(s) /\ e \notin Elems(s) => Distinct(Append(s, e))
           /\ Elems(s) \subseteq S
<1>1. Len(s) \in Nat /\ DOMAIN s = 1 .. Len(s)
  BY LenProperties
<1>2. Append(s, e) \in Seq(S) /\ Len(Append(s, e)) = Len(s) + 1
  BY AppendProperties
<1>3. DOMAIN Append(s, e) = 1 .. Len(s) + 1
  BY <1>2, LenProperties
<1>4. \A i \in 1 .. Len(s) : Append(s, e)[i] = s[i]
  BY AppendProperties
<1>5. Append(s, e)[Len(s) + 1] = e
  BY AppendProperties
<1>6. DOMAIN Append(s, e) = DOMAIN s \cup {Len(s) + 1} /\ Len(s) + 1 \notin DOMAIN s
  BY <1>1, <1>3
<1>7. Elems(Append(s, e)) = Elems(s) \cup {e}
  BY <1>1, <1>4, <1>5, <1>6 DEF Elems
<1>8. Distinct(s) /\ e \notin Elems(s) => Distinct(Append(s, e))
  BY <1>1, <1>4, <1>5, <1>6 DEF Elems, Distinct
<1>9. Elems(s) \subseteq S
  BY <1>1, ElementOfSeq DEF Elems
<1> QED  BY <1>1, <1>2, <1>7, <1>8, <1>9

\* q_dequeue: the first element leaves.
LEMMA Dequeued ==
    ASSUME NEW S, NEW s \in Seq(S), s # <<>>
    PROVE  /\ Tail(s) \in Seq(S) /\ Head(s) \in S /\ Len(Tail(s)) = Len(s) - 1 /\ Len(s) \in Nat
           /\ Head(s) \in Elems(s) /\ Elems(s) = Elems(Tail(s)) \cup {Head(s)}
           /\ Distinct(s) => Distinct(Tail(s)) /\ Head(s) \notin Elems(Tail(s))
<1>1. Len(s) \in Nat /\ DOMAIN s = 1 .. Len(s) /\ Len(s) > 0
  BY LenProperties, EmptySeq
<1>2. Tail(s) \in Seq(S) /\ Len(Tail(s)) = Len(s) - 1 /\ Head(s) = s[1]
  BY HeadTailProperties
<1>3. DOMAIN Tail(s) = 1 .. Len(s) - 1
  BY <1>1, <1>2, LenProperties
<1>4. \A i \in 1 .. Len(s) - 1 : Tail(s)[i] = s[i + 1]
  BY HeadTailProperties
<1>5. s[1] \in S
  BY <1>1, ElementOfSeq
<1>6. /\ 1 \in DOMAIN s
      /\ \A i \in DOMAIN Tail(s) : i + 1 \in DOMAIN s /\ i + 1 # 1 /\ Tail(s)[i] = s[i + 1] /\ i \in Int
      /\ \A i \in DOMAIN s \ {1} : i - 1 \in DOMAIN Tail(s) /\ Tail(s)[i - 1] = s[i]
  BY <1>1, <1>3, <1>4
<1>7. Elems(s) = Elems(Tail(s)) \cup {s[1]}
  <2>1. ASSUME NEW e \in Elems(s)  PROVE e \in Elems(Tail(s)) \cup {s[1]}
    <3>1. PICK i \in DOMAIN s : e = s[i]
      BY <2>1 DEF Elems
    <3>2. i # 1 => i - 1 \in DOMAIN Tail(s) /\ Tail(s)[i - 1] = e
      BY <3>1, <1>6
    <3> QED  BY <3>1, <3>2 DEF Elems
  <2>2. ASSUME NEW e \in Elems(Tail(s))  PROVE e \in Elems(s)
    BY <2>2, <1>6 DEF Elems
  <2>3. s[1] \in Elems(s)
    BY <1>6 DEF Elems
  <2> QED  BY <2>1, <2>2, <2>3
<1>8. ASSUME Distinct(s)  PROVE Distinct(Tail(s))
  <2> SUFFICES ASSUME NEW a \in DOMAIN Tail(s), NEW b \in DOMAIN Tail(s), Tail(s)[a] = Tail(s)[b]
               PROVE  a = b
    BY DEF Distinct
  <2>1. a + 1 \in DOMAIN s /\ b + 1 \in DOMAIN s /\ s[a + 1] = s[b + 1]
    BY <1>6
  <2>2. a + 1 = b + 1
    BY <2>1, <1>8 DEF Distinct
  <2> QED  BY <2>2, <1>6
<1>9. ASSUME Distinct(s)  PROVE s[1] \notin Elems(Tail(s))
  BY <1>6, <1>9 DEF Distinct, Elems
<1>10. s[1] \in Elems(s)
  BY <1>6 DEF Elems
<1> QED  BY <1>1, <1>2, <1>5, <1>7, <1>8, <1>9, <1>10

\* A queue without repetitions has as many elements as it is long.
LEMMA DistinctCount ==
    ASSUME NEW S, NEW s \in Seq(S), Distinct(s)
    PROVE  IsFiniteSet(Elems(s)) /\ Cardinality(Elems(s)) = Len(s)
<1>1. Len(s) \in Nat /\ DOMAIN s = 1 .. Len(s)
  BY LenProperties
<1>2. IsFiniteSet(1 .. Len(s)) /\ Cardinality(1 .. Len(s)) = Len(s)
  BY <1>1, FS_Interval
<1> DEFINE f == [i \in 1 .. Len(s) |-> s[i]]
<1>3. f \in Bijection(1 .. Len(s), Elems(s))
  <2>1. f \in [1 .. Len(s) -> Elems(s)]
    BY <1>1 DEF Elems
  <2>2. \A a, b \in 1 .. Len(s) : f[a] = f[b] => a = b
    BY <1>1 DEF Distinct
  <2>3. \A e \in Elems(s) : \E i \in 1 .. Len(s) : f[i] = e
    BY <1>1 DEF Elems
  <2> QED  BY <2>1, <2>2, <2>3 DEF Bijection, Injection, Surjection, IsInjective
<1> HIDE DEF f
<1> QED  BY <1>2, <1>3, FS_Bijection DEF ExistsBijection

\* The empty queue.
LEMMA EmptyQueue == Elems(<<>>) = {} /\ Distinct(<<>>) /\ Len(<<>>) = 0 /\ \A S : <<>> \in Seq(S)
BY EmptySeq DEF Elems, Distinct

-----------------------------------------------------------------------------
(* The AIO back end.                                                       *)

\* The tags and requests of AioInv in terms of the elements of the queues.
InUse == Elems(cbs_queue) \cup Elems(batch) \cup kernel
TagsHeldOnce ==
    /\ Distinct(tagQ) /\ Distinct(cbs_queue) /\ Distinct(batch)
    /\ Elems(cbs_queue) \cap Elems(batch) = {}
    /\ kernel \cap (Elems(cbs_queue) \cup Elems(batch)) = {}
    /\ Elems(tagQ) \cap (InUse \cup {polled}) = {}
    /\ polled \notin InUse
RequestsHeldOnce ==
    /\ Distinct(ended)
    /\ \A s, t \in InUse : private_list[s] = private_list[t] => s = t
    /\ \A t \in InUse : private_list[t] \notin Elems(ended)
    /\ waiting => calls \notin Elems(ended) /\ \A t \in InUse : private_list[t] # calls
RequestsAccounted ==
    1 .. calls = Elems(ended) \cup {private_list[t] : t \in InUse} \cup (IF waiting THEN {calls} ELSE {})
TagsAccounted ==
    Len(tagQ) + Len(cbs_queue) + Len(batch) + Cardinality(kernel) + Cardinality({polled} \ {Aio!NoTag}) = MAX_REQ_NUM

\* AioInv is the conjunction of these parts, before and after a step.
LEMMA AioParts ==
    /\ Aio!AioInv => Aio!AioTypeOK /\ TagsHeldOnce /\ RequestsHeldOnce /\ RequestsAccounted /\ TagsAccounted
    /\ Aio!AioTypeOK' /\ TagsHeldOnce' /\ RequestsHeldOnce' /\ RequestsAccounted' /\ TagsAccounted' => Aio!AioInv'
    /\ Aio!AioTypeOK /\ TagsHeldOnce /\ RequestsHeldOnce /\ RequestsAccounted /\ TagsAccounted => Aio!AioInv
<1>1. Aio!Busy = InUse
  BY AioOperators DEF Aio!Busy, InUse
<1>2. Aio!TagsApart <=> TagsHeldOnce
  BY <1>1, AioOperators DEF Aio!TagsApart, TagsHeldOnce
<1>3. Aio!RequestsApart /\ Aio!SentOnce /\ TagsHeldOnce <=>
          TagsHeldOnce /\ RequestsHeldOnce /\ RequestsAccounted /\ TagsAccounted
  BY <1>1, AioOperators
     DEF Aio!RequestsApart, Aio!SentOnce, Aio!Busy, InUse, TagsHeldOnce, RequestsHeldOnce, RequestsAccounted, TagsAccounted
<1>4. Aio!AioInv <=> Aio!AioTypeOK /\ TagsHeldOnce /\ RequestsHeldOnce /\ RequestsAccounted /\ TagsAccounted
  BY <1>2, <1>3 DEF Aio!AioInv
<1>5. (Aio!AioInv <=> Aio!AioTypeOK /\ TagsHeldOnce /\ RequestsHeldOnce /\ RequestsAccounted /\ TagsAccounted)'
  BY <1>4, PTL
<1> QED  BY <1>4, <1>5

\* linux_aio_create: every tag is free.
LEMMA AioInit ==
    ASSUME Aio!InitAio
    PROVE  Aio!AioInv
<1> DEFINE N == MAX_REQ_NUM
<1>0. N \in Nat /\ MaxCalls \in Nat
  BY AioAssumption
<1>1. tagQ = [i \in 1 .. N |-> i - 1] /\ cbs_queue = <<>> /\ batch = <<>> /\ kernel = {} /\ polled = -1
      /\ calls = 0 /\ waiting = FALSE /\ ended = <<>> /\ private_list = [t \in Aio!Tag |-> 0]
  BY DEF Aio!InitAio, Aio!NoTag
<1>2. tagQ \in Seq(0 .. N - 1) /\ Len(tagQ) = N
  BY <1>0, <1>1, SeqDef
<1>3. Aio!AioTypeOK
  <2>1. tagQ \in Seq(Aio!Tag)
    BY <1>2 DEF Aio!Tag
  <2>2. cbs_queue \in Seq(Aio!Tag) /\ batch \in Seq(Aio!Tag) /\ ended \in Seq(1 .. MaxCalls)
    BY <1>1, EmptyQueue
  <2>3. 0 \in 0 .. MaxCalls
    BY <1>0
  <2> QED  BY <2>1, <2>2, <2>3, <1>1 DEF Aio!AioTypeOK, Aio!NoTag
<1>4. InUse = {} /\ Elems(ended) = {} /\ Distinct(ended)
  BY <1>1, EmptyQueue DEF InUse
<1>5. TagsHeldOnce
  <2>1. Distinct(tagQ)
    BY <1>0, <1>1 DEF Distinct
  <2>2. -1 \notin Elems(tagQ)
    BY <1>0, <1>1 DEF Elems
  <2> QED  BY <2>1, <2>2, <1>1, <1>4, EmptyQueue DEF TagsHeldOnce
<1>6. RequestsHeldOnce /\ RequestsAccounted
  BY <1>1, <1>4 DEF RequestsHeldOnce, RequestsAccounted
<1>7. TagsAccounted
  <2>1. Cardinality(kernel) = 0 /\ Cardinality({polled} \ {Aio!NoTag}) = 0
    BY <1>1, FS_EmptySet DEF Aio!NoTag
  <2>2. Len(cbs_queue) = 0 /\ Len(batch) = 0
    BY <1>1, EmptyQueue
  <2> QED  BY <2>1, <2>2, <1>0, <1>2 DEF TagsAccounted
<1> QED  BY <1>3, <1>5, <1>6, <1>7, AioParts

\* What the five places of a tag count, for the sums of TagsAccounted.
LEMMA AioCounts ==
    ASSUME Aio!AioTypeOK
    PROVE  /\ Len(tagQ) \in Nat /\ Len(cbs_queue) \in Nat /\ Len(batch) \in Nat
           /\ IsFiniteSet(kernel) /\ Cardinality(kernel) \in Nat
           /\ Cardinality({polled} \ {Aio!NoTag}) = IF polled = Aio!NoTag THEN 0 ELSE 1
<1>1. IsFiniteSet(Aio!Tag)
  BY AioAssumption, FS_Interval DEF Aio!Tag
<1>2. IsFiniteSet(kernel) /\ Cardinality(kernel) \in Nat
  BY <1>1, FS_Subset, FS_CardinalityType DEF Aio!AioTypeOK
<1>3. Len(tagQ) \in Nat /\ Len(cbs_queue) \in Nat /\ Len(batch) \in Nat
  BY LenProperties DEF Aio!AioTypeOK
<1>4. CASE polled = Aio!NoTag
  BY <1>2, <1>3, <1>4, FS_EmptySet
<1>5. CASE polled # Aio!NoTag
  <2>1. {polled} \ {Aio!NoTag} = {polled}
    BY <1>5
  <2> QED  BY <2>1, <1>2, <1>3, <1>5, FS_Singleton
<1> QED  BY <1>4, <1>5

\* aio_read and aio_write: a new request waits for a tag.
LEMMA AioCallInv ==
    ASSUME Aio!AioInv, Aio!AioCall
    PROVE  Aio!AioInv'
<1>0. Aio!AioTypeOK /\ TagsHeldOnce /\ RequestsHeldOnce /\ RequestsAccounted /\ TagsAccounted
  BY AioParts
<1>1. calls' = calls + 1 /\ waiting' = TRUE /\ ~waiting /\ calls < MaxCalls
      /\ tagQ' = tagQ /\ private_list' = private_list /\ cbs_queue' = cbs_queue /\ batch' = batch
      /\ kernel' = kernel /\ polled' = polled /\ ended' = ended
  BY DEF Aio!AioCall
<1>2. calls \in Nat /\ MaxCalls \in Nat
  BY <1>0, AioAssumption DEF Aio!AioTypeOK
<1>3. Aio!AioTypeOK'
  BY <1>0, <1>1, <1>2 DEF Aio!AioTypeOK
<1>4. InUse' = InUse
  BY <1>1 DEF InUse
<1>5. TagsHeldOnce' /\ TagsAccounted'
  BY <1>0, <1>1, <1>4 DEF TagsHeldOnce, TagsAccounted
<1>6. 1 .. calls = Elems(ended) \cup {private_list[t] : t \in InUse}
  BY <1>0, <1>1 DEF RequestsAccounted
<1>7. calls + 1 \notin 1 .. calls /\ 1 .. calls + 1 = 1 .. calls \cup {calls + 1}
  BY <1>2
<1>8. RequestsAccounted'
  BY <1>1, <1>4, <1>6, <1>7 DEF RequestsAccounted
<1>9. RequestsHeldOnce'
  <2>1. calls' \notin Elems(ended) /\ \A t \in InUse : private_list[t] # calls'
    BY <1>1, <1>6, <1>7
  <2> QED  BY <2>1, <1>0, <1>1, <1>4 DEF RequestsHeldOnce
<1> QED  BY <1>3, <1>5, <1>8, <1>9, AioParts

\* send_req takes the first free tag.
LEMMA SendReqInv ==
    ASSUME Aio!AioInv, Aio!SendReq
    PROVE  Aio!AioInv'
<1>0. Aio!AioTypeOK /\ TagsHeldOnce /\ RequestsHeldOnce /\ RequestsAccounted /\ TagsAccounted
  BY AioParts
<1>1. waiting /\ tagQ # <<>> /\ tagQ' = Tail(tagQ) /\ waiting' = FALSE
      /\ private_list' = [private_list EXCEPT ![Head(tagQ)] = calls]
      /\ cbs_queue' = Append(cbs_queue, Head(tagQ)) /\ batch' = batch
      /\ kernel' = kernel /\ polled' = polled /\ calls' = calls /\ ended' = ended
  BY DEF Aio!SendReq
<1>2. tagQ \in Seq(Aio!Tag) /\ cbs_queue \in Seq(Aio!Tag) /\ calls \in 0 .. MaxCalls
      /\ private_list \in [Aio!Tag -> 0 .. MaxCalls]
  BY <1>0 DEF Aio!AioTypeOK
<1>3. /\ Tail(tagQ) \in Seq(Aio!Tag) /\ Head(tagQ) \in Aio!Tag /\ Len(Tail(tagQ)) = Len(tagQ) - 1
      /\ Elems(tagQ) = Elems(Tail(tagQ)) \cup {Head(tagQ)}
      /\ Distinct(Tail(tagQ)) /\ Head(tagQ) \notin Elems(Tail(tagQ)) /\ Head(tagQ) \in Elems(tagQ)
  BY <1>0, <1>1, <1>2, Dequeued DEF TagsHeldOnce
<1>4. PICK h \in Aio!Tag : h = Head(tagQ)
  BY <1>3
<1>5. h \notin InUse /\ h # polled /\ h \notin Elems(cbs_queue) /\ h \notin Elems(batch) /\ h \notin kernel
  BY <1>0, <1>3, <1>4 DEF TagsHeldOnce, InUse
<1>6. /\ cbs_queue' \in Seq(Aio!Tag) /\ Len(cbs_queue') = Len(cbs_queue) + 1
      /\ Elems(cbs_queue') = Elems(cbs_queue) \cup {h} /\ Distinct(cbs_queue')
  BY <1>0, <1>1, <1>2, <1>4, <1>5, Enqueue DEF TagsHeldOnce
<1>7. Aio!AioTypeOK'
  BY <1>0, <1>1, <1>2, <1>3, <1>6 DEF Aio!AioTypeOK
<1>8. InUse' = InUse \cup {h}
  BY <1>1, <1>6 DEF InUse
<1>9. TagsHeldOnce'
  <2>1. Elems(cbs_queue') \cap Elems(batch') = {} /\ kernel' \cap (Elems(cbs_queue') \cup Elems(batch')) = {}
    BY <1>0, <1>1, <1>5, <1>6 DEF TagsHeldOnce
  <2>2. Elems(tagQ') \cap (InUse' \cup {polled'}) = {} /\ polled' \notin InUse'
    BY <1>0, <1>1, <1>3, <1>4, <1>5, <1>8 DEF TagsHeldOnce
  <2> QED  BY <2>1, <2>2, <1>0, <1>1, <1>3, <1>6 DEF TagsHeldOnce
<1>10. InUse \subseteq Aio!Tag
  BY <1>0, <1>2, <1>4, Enqueue DEF InUse, Aio!AioTypeOK
<1>11. private_list'[h] = calls /\ \A t \in InUse : private_list'[t] = private_list[t]
  BY <1>1, <1>2, <1>4, <1>5, <1>10
<1>12. {private_list'[t] : t \in InUse'} = {private_list[t] : t \in InUse} \cup {calls}
  BY <1>8, <1>11
<1>13. RequestsAccounted'
  <2>1. 1 .. calls = Elems(ended) \cup {private_list[t] : t \in InUse} \cup {calls}
    BY <1>0, <1>1 DEF RequestsAccounted
  <2> QED  BY <2>1, <1>1, <1>12 DEF RequestsAccounted
<1>14. RequestsHeldOnce'
  <2>1. \A s, t \in InUse' : private_list'[s] = private_list'[t] => s = t
    BY <1>0, <1>1, <1>8, <1>11 DEF RequestsHeldOnce
  <2>2. \A t \in InUse' : private_list'[t] \notin Elems(ended')
    BY <1>0, <1>1, <1>8, <1>11 DEF RequestsHeldOnce
  <2> QED  BY <2>1, <2>2, <1>0, <1>1 DEF RequestsHeldOnce
<1>15. TagsAccounted'
  <2>1. Len(tagQ') = Len(tagQ) - 1 /\ Len(cbs_queue') = Len(cbs_queue) + 1 /\ Len(batch') = Len(batch)
        /\ Cardinality(kernel') = Cardinality(kernel)
        /\ Cardinality({polled'} \ {Aio!NoTag}) = Cardinality({polled} \ {Aio!NoTag})
    BY <1>1, <1>3, <1>6
  <2>2. Cardinality({polled} \ {Aio!NoTag}) \in Nat
    BY <1>0, AioCounts
  <2>3. Len(tagQ') + Len(cbs_queue') + Len(batch') + Cardinality(kernel') + Cardinality({polled'} \ {Aio!NoTag}) = MAX_REQ_NUM
    BY <2>1, <2>2, <1>0, AioCounts DEF TagsAccounted
  <2> QED  BY <2>3 DEF TagsAccounted, Aio!NoTag
<1> QED  BY <1>7, <1>9, <1>13, <1>14, <1>15, AioParts

\* sender takes the whole queue under its lock.
LEMMA SenderTakeInv ==
    ASSUME Aio!AioInv, Aio!SenderTake
    PROVE  Aio!AioInv'
<1>0. Aio!AioTypeOK /\ TagsHeldOnce /\ RequestsHeldOnce /\ RequestsAccounted /\ TagsAccounted
  BY AioParts
<1>1. batch = <<>> /\ batch' = cbs_queue /\ cbs_queue' = <<>> /\ tagQ' = tagQ /\ private_list' = private_list
      /\ kernel' = kernel /\ polled' = polled /\ calls' = calls /\ waiting' = waiting /\ ended' = ended
  BY DEF Aio!SenderTake, Aio!TakeAll
<1>2. Aio!AioTypeOK'
  BY <1>0, <1>1, EmptyQueue DEF Aio!AioTypeOK
<1>3. InUse' = InUse /\ Elems(batch) = {} /\ Elems(cbs_queue') = {} /\ Len(batch) = 0 /\ Len(cbs_queue') = 0
      /\ Distinct(cbs_queue')
  BY <1>1, EmptyQueue DEF InUse
<1>4. TagsHeldOnce'
  BY <1>0, <1>1, <1>3 DEF TagsHeldOnce
<1>5. RequestsHeldOnce' /\ RequestsAccounted'
  BY <1>0, <1>1, <1>3 DEF RequestsHeldOnce, RequestsAccounted
<1>6. TagsAccounted'
  <2>1. Cardinality({polled} \ {Aio!NoTag}) \in Nat
    BY <1>0, AioCounts
  <2>2. Len(tagQ') + Len(cbs_queue') + Len(batch') + Cardinality(kernel') + Cardinality({polled'} \ {Aio!NoTag}) = MAX_REQ_NUM
    BY <2>1, <1>0, <1>1, <1>3, AioCounts DEF TagsAccounted
  <2> QED  BY <2>2 DEF TagsAccounted, Aio!NoTag
<1> QED  BY <1>2, <1>4, <1>5, <1>6, AioParts

\* io_submit: the tags of the batch are the kernel's.
LEMMA SenderSubmitInv ==
    ASSUME Aio!AioInv, Aio!SenderSubmit
    PROVE  Aio!AioInv'
<1>0. Aio!AioTypeOK /\ TagsHeldOnce /\ RequestsHeldOnce /\ RequestsAccounted /\ TagsAccounted
  BY AioParts
<1>1. batch' = <<>> /\ kernel' = kernel \cup Elems(batch) /\ cbs_queue' = cbs_queue /\ tagQ' = tagQ
      /\ private_list' = private_list /\ polled' = polled /\ calls' = calls /\ waiting' = waiting /\ ended' = ended
  BY AioOperators DEF Aio!SenderSubmit
<1>2. Elems(batch') = {} /\ Distinct(batch') /\ Len(batch') = 0 /\ batch' \in Seq(Aio!Tag)
  BY <1>1, EmptyQueue
<1>3. Elems(batch) \subseteq Aio!Tag
  <2>1. batch \in Seq(Aio!Tag)
    BY <1>0 DEF Aio!AioTypeOK
  <2> QED  BY <2>1, ElementOfSeq, LenProperties DEF Elems
<1>4. Aio!AioTypeOK'
  BY <1>0, <1>1, <1>2, <1>3 DEF Aio!AioTypeOK
<1>5. InUse' = InUse
  BY <1>1, <1>2 DEF InUse
<1>6. TagsHeldOnce'
  BY <1>0, <1>1, <1>2, <1>5 DEF TagsHeldOnce
<1>7. RequestsHeldOnce' /\ RequestsAccounted'
  BY <1>0, <1>1, <1>5 DEF RequestsHeldOnce, RequestsAccounted
<1>8. TagsAccounted'
  <2>1. Cardinality(kernel') = Cardinality(kernel) + Len(batch)
    <3>1. IsFiniteSet(kernel) /\ IsFiniteSet(Elems(batch)) /\ Cardinality(Elems(batch)) = Len(batch)
      BY <1>0, AioCounts, DistinctCount DEF TagsHeldOnce, Aio!AioTypeOK
    <3>2. kernel \cap Elems(batch) = {}
      BY <1>0 DEF TagsHeldOnce
    <3>3. Cardinality(kernel \cup Elems(batch)) =
              Cardinality(kernel) + Cardinality(Elems(batch)) - Cardinality(kernel \cap Elems(batch))
      BY <3>1, FS_Union
    <3>4. Cardinality(kernel \cap Elems(batch)) = 0
      BY <3>2, FS_EmptySet
    <3> QED  BY <3>1, <3>3, <3>4, <1>0, <1>1, AioCounts
  <2>2. Cardinality({polled} \ {Aio!NoTag}) \in Nat
    BY <1>0, AioCounts
  <2>3. Len(tagQ') + Len(cbs_queue') + Len(batch') + Cardinality(kernel') + Cardinality({polled'} \ {Aio!NoTag}) = MAX_REQ_NUM
    BY <2>1, <2>2, <1>0, <1>1, <1>2, AioCounts DEF TagsAccounted
  <2> QED  BY <2>3 DEF TagsAccounted, Aio!NoTag
<1> QED  BY <1>4, <1>6, <1>7, <1>8, AioParts

\* poller ends the request of a finished control block ...
LEMMA PollerEndInv ==
    ASSUME Aio!AioInv, NEW t \in Aio!Tag, Aio!PollerEnd(t)
    PROVE  Aio!AioInv'
<1>0. Aio!AioTypeOK /\ TagsHeldOnce /\ RequestsHeldOnce /\ RequestsAccounted /\ TagsAccounted
  BY AioParts
<1>1. polled = Aio!NoTag /\ t \in kernel /\ kernel' = kernel \ {t} /\ polled' = t
      /\ ended' = Append(ended, private_list[t]) /\ tagQ' = tagQ /\ private_list' = private_list
      /\ cbs_queue' = cbs_queue /\ batch' = batch /\ calls' = calls /\ waiting' = waiting
  BY DEF Aio!PollerEnd
<1>2. t \in InUse /\ t \notin Elems(cbs_queue) /\ t \notin Elems(batch) /\ t \notin Elems(tagQ) /\ t # Aio!NoTag
  BY <1>0, <1>1, AioAssumption DEF TagsHeldOnce, InUse, Aio!Tag, Aio!NoTag
<1>3. private_list[t] \in 1 .. MaxCalls
  <2>1. private_list[t] \in 1 .. calls
    BY <1>0, <1>2 DEF RequestsAccounted
  <2> QED  BY <2>1, <1>0, AioAssumption DEF Aio!AioTypeOK
<1>4. /\ ended' \in Seq(1 .. MaxCalls) /\ Elems(ended') = Elems(ended) \cup {private_list[t]}
      /\ Distinct(ended')
  <2>1. ended \in Seq(1 .. MaxCalls) /\ Distinct(ended) /\ private_list[t] \notin Elems(ended)
    BY <1>0, <1>2 DEF Aio!AioTypeOK, RequestsHeldOnce
  <2>2. PICK e \in 1 .. MaxCalls : e = private_list[t]
    BY <1>3
  <2>3. /\ Append(ended, e) \in Seq(1 .. MaxCalls) /\ Elems(Append(ended, e)) = Elems(ended) \cup {e}
        /\ Distinct(Append(ended, e))
    <3> DEFINE S == 1 .. MaxCalls
    <3>1. e \in S /\ ended \in Seq(S) /\ Distinct(ended) /\ e \notin Elems(ended)
      BY <2>1, <2>2
    <3> HIDE DEF S
    <3>2. /\ Append(ended, e) \in Seq(S) /\ Elems(Append(ended, e)) = Elems(ended) \cup {e}
          /\ Distinct(Append(ended, e))
      BY <3>1, Enqueue
    <3> QED  BY <3>2 DEF S
  <2> QED  BY <2>2, <2>3, <1>1
<1>5. Aio!AioTypeOK'
  BY <1>0, <1>1, <1>4 DEF Aio!AioTypeOK
<1>6. InUse' = InUse \ {t}
  BY <1>1, <1>2 DEF InUse
<1>7. TagsHeldOnce'
  BY <1>0, <1>1, <1>2, <1>6 DEF TagsHeldOnce
<1>8. RequestsHeldOnce'
  BY <1>0, <1>1, <1>2, <1>4, <1>6 DEF RequestsHeldOnce
<1>9. RequestsAccounted'
  <2>1. {private_list[s] : s \in InUse} = {private_list'[s] : s \in InUse'} \cup {private_list[t]}
    BY <1>1, <1>2, <1>6
  <2> QED  BY <2>1, <1>0, <1>1, <1>4 DEF RequestsAccounted
<1>10. TagsAccounted'
  <2>1. Cardinality(kernel') = Cardinality(kernel) - 1
    BY <1>0, <1>1, AioCounts, FS_RemoveElement
  <2>2. Cardinality({polled} \ {Aio!NoTag}) = 0
    BY <1>0, <1>1, AioCounts
  <2>3. Cardinality({polled'} \ {Aio!NoTag}) = 1
    <3>1. {polled'} \ {Aio!NoTag} = {t}
      BY <1>1, <1>2
    <3> QED  BY <3>1, FS_Singleton
  <2>4. Len(tagQ') + Len(cbs_queue') + Len(batch') + Cardinality(kernel') + Cardinality({polled'} \ {Aio!NoTag}) = MAX_REQ_NUM
    BY <2>1, <2>2, <2>3, <1>0, <1>1, AioCounts DEF TagsAccounted
  <2> QED  BY <2>4 DEF TagsAccounted, Aio!NoTag
<1> QED  BY <1>5, <1>7, <1>8, <1>9, <1>10, AioParts

\* ... and then frees its tag.
LEMMA PollerFreeInv ==
    ASSUME Aio!AioInv, Aio!PollerFree
    PROVE  Aio!AioInv'
<1>0. Aio!AioTypeOK /\ TagsHeldOnce /\ RequestsHeldOnce /\ RequestsAccounted /\ TagsAccounted
  BY AioParts
<1>1. polled # Aio!NoTag /\ tagQ' = Append(tagQ, polled) /\ polled' = Aio!NoTag
      /\ kernel' = kernel /\ ended' = ended /\ private_list' = private_list
      /\ cbs_queue' = cbs_queue /\ batch' = batch /\ calls' = calls /\ waiting' = waiting
  BY DEF Aio!PollerFree
<1>2. tagQ \in Seq(Aio!Tag) /\ polled \in Aio!Tag /\ Distinct(tagQ) /\ polled \notin Elems(tagQ)
  BY <1>0, <1>1 DEF Aio!AioTypeOK, TagsHeldOnce
<1>3. /\ tagQ' \in Seq(Aio!Tag) /\ Len(tagQ') = Len(tagQ) + 1
      /\ Elems(tagQ') = Elems(tagQ) \cup {polled} /\ Distinct(tagQ') /\ Elems(tagQ) \subseteq Aio!Tag
  BY <1>1, <1>2, Enqueue
<1>4. Aio!AioTypeOK'
  BY <1>0, <1>1, <1>3 DEF Aio!AioTypeOK
<1>5. InUse' = InUse /\ InUse \subseteq Aio!Tag /\ Aio!NoTag \notin Aio!Tag
  <2>1. \A s \in Seq(Aio!Tag) : Elems(s) \subseteq Aio!Tag
    BY ElementOfSeq, LenProperties DEF Elems
  <2>2. Aio!NoTag \notin Aio!Tag
    BY AioAssumption DEF Aio!Tag, Aio!NoTag
  <2> QED  BY <2>1, <2>2, <1>0, <1>1 DEF InUse, Aio!AioTypeOK
<1>6. TagsHeldOnce'
  BY <1>0, <1>1, <1>2, <1>3, <1>5 DEF TagsHeldOnce
<1>7. RequestsHeldOnce' /\ RequestsAccounted'
  BY <1>0, <1>1, <1>5 DEF RequestsHeldOnce, RequestsAccounted
<1>8. TagsAccounted'
  <2>1. Cardinality({polled} \ {Aio!NoTag}) = 1
    BY <1>0, <1>1, AioCounts
  <2>2. Cardinality({polled'} \ {Aio!NoTag}) = 0
    BY <1>1, FS_EmptySet
  <2>3. Len(tagQ') + Len(cbs_queue') + Len(batch') + Cardinality(kernel') + Cardinality({polled'} \ {Aio!NoTag}) = MAX_REQ_NUM
    BY <2>1, <2>2, <1>0, <1>1, <1>3, AioCounts DEF TagsAccounted
  <2> QED  BY <2>3 DEF TagsAccounted, Aio!NoTag
<1> QED  BY <1>4, <1>6, <1>7, <1>8, AioParts

\* Every step of the caller, the sender and the poller.
LEMMA AioNext ==
    ASSUME Aio!AioInv, Aio!NextAio
    PROVE  Aio!AioInv'
BY AioCallInv, SendReqInv, SenderTakeInv, SenderSubmitInv, PollerEndInv, PollerFreeInv DEF Aio!NextAio

-----------------------------------------------------------------------------
(* The AMF back end: its queues, records and units.                        *)

\* The queue lemmas in the operators of the AMF back end.
LEMMA AmfOperators ==
    /\ \A s : Amf!ToSet(s) = Elems(s)
    /\ \A s : Amf!IsInjective(s) <=> Distinct(s)
    /\ \A S : Amf!Cardinality(S) = Cardinality(S)
<1>1. \A s : Amf!ToSet(s) = Elems(s)
  BY DEF Amf!ToSet, Elems
<1>2. \A s : Amf!IsInjective(s) <=> Distinct(s)
  BY DEF Amf!IsInjective, Distinct
<1>3. \A S : Amf!Cardinality(S) = Cardinality(S)
  BY DEF Amf!Cardinality, Cardinality
<1> QED  BY <1>1, <1>2, <1>3

\* A queue over a set is one over a larger set.
LEMMA SeqMonotone ==
    ASSUME NEW S, NEW T, S \subseteq T, NEW s \in Seq(S)
    PROVE  s \in Seq(T)
<1>1. Len(s) \in Nat /\ s = [i \in 1 .. Len(s) |-> s[i]] /\ DOMAIN s = 1 .. Len(s)
  BY LenProperties
<1>2. \A i \in 1 .. Len(s) : s[i] \in T
  BY <1>1, ElementOfSeq
<1>3. s \in [1 .. Len(s) -> T]
  BY <1>1, <1>2
<1> QED  BY <1>1, <1>3, SeqDef

\* q_enqueue of a wrapper, a return parameter or a page.
LEMMA AmfEnqueue ==
    ASSUME NEW S, NEW s \in Seq(S), NEW e \in S
    PROVE  /\ Append(s, e) \in Seq(S) /\ Append(s, e) # <<>>
           /\ Amf!ToSet(Append(s, e)) = Amf!ToSet(s) \cup {e}
           /\ Amf!IsInjective(s) /\ e \notin Amf!ToSet(s) => Amf!IsInjective(Append(s, e))
           /\ Amf!ToSet(s) \subseteq S
<1>1. Append(s, e) # <<>>
  BY Enqueue, EmptyQueue
<1> QED  BY <1>1, Enqueue, AmfOperators

\* q_dequeue of the first one.
LEMMA AmfDequeued ==
    ASSUME NEW S, NEW s \in Seq(S), s # <<>>
    PROVE  /\ Tail(s) \in Seq(S) /\ Head(s) \in S
           /\ Head(s) \in Amf!ToSet(s) /\ Amf!ToSet(s) = Amf!ToSet(Tail(s)) \cup {Head(s)}
           /\ Amf!IsInjective(s) => Amf!IsInjective(Tail(s)) /\ Head(s) \notin Amf!ToSet(Tail(s))
BY Dequeued, AmfOperators

\* An empty queue, and the queue of all wrappers that p_bbuf_init and
\* normal_write_init fill.
LEMMA AmfQueues ==
    /\ Amf!ToSet(<<>>) = {} /\ Amf!IsInjective(<<>>) /\ \A S : <<>> \in Seq(S)
    /\ \A k \in Nat : Amf!UpTo(k) \in Seq(0 .. k - 1) /\ Amf!IsInjective(Amf!UpTo(k))
                      /\ Amf!ToSet(Amf!UpTo(k)) = 0 .. k - 1
<1>1. ASSUME NEW k \in Nat
      PROVE  Amf!UpTo(k) \in Seq(0 .. k - 1) /\ Distinct(Amf!UpTo(k)) /\ Elems(Amf!UpTo(k)) = 0 .. k - 1
  <2>1. Amf!UpTo(k) = [i \in 1 .. k |-> i - 1]
    BY DEF Amf!UpTo
  <2>2. Amf!UpTo(k) \in Seq(0 .. k - 1)
    BY <2>1, SeqDef
  <2>3. Distinct(Amf!UpTo(k))
    BY <2>1 DEF Distinct
  <2>4. \A e \in 0 .. k - 1 : e + 1 \in 1 .. k /\ (e + 1) - 1 = e
    OBVIOUS
  <2>5. ASSUME NEW e \in 0 .. k - 1  PROVE e \in Elems(Amf!UpTo(k))
    <3>1. e + 1 \in DOMAIN Amf!UpTo(k) /\ Amf!UpTo(k)[e + 1] = e
      BY <2>1, <2>4
    <3> QED  BY <3>1 DEF Elems
  <2>6. ASSUME NEW e \in Elems(Amf!UpTo(k))  PROVE e \in 0 .. k - 1
    BY <2>1 DEF Elems
  <2> QED  BY <2>2, <2>3, <2>5, <2>6
<1> QED  BY <1>1, EmptyQueue, AmfOperators

\* The fields of a unit's buffer.
LEMMA UnitFields ==
    ASSUME NEW r \in Amf!UnitRecord
    PROVE  /\ r.idle \in BOOLEAN /\ r.tag \in Seq(Amf!Wrapper) /\ r.rp_tag \in Seq(Amf!Param)
           /\ r.queue \in Seq(Amf!Wrapper) /\ r.cnt \in [Amf!Param -> Nat]
           /\ r.req \in [Amf!Wrapper -> [n : 0 .. MaxIssue, op : {"W", "R", "T"}, rp : Amf!Param \cup {Amf!None}]]
BY DEF Amf!UnitRecord

\* What AmfTypeOK says of the units.
LEMMA UnitTypes ==
    ASSUME Amf!AmfTypeOK, NEW u \in Amf!Unit
    PROVE  /\ amf[u] \in Amf!UnitRecord /\ amf \in [Amf!Unit -> Amf!UnitRecord]
           /\ amf[u].idle \in BOOLEAN /\ amf[u].tag \in Seq(Amf!Wrapper) /\ amf[u].rp_tag \in Seq(Amf!Param)
           /\ amf[u].queue \in Seq(Amf!Wrapper) /\ amf[u].cnt \in [Amf!Param -> Nat]
           /\ \A t \in Amf!Wrapper : /\ amf[u].req[t].n \in 0 .. MaxIssue /\ amf[u].req[t].op \in {"W", "R", "T"}
                                     /\ amf[u].req[t].rp \in Amf!Param \cup {Amf!None}
<1>1. amf[u] \in Amf!UnitRecord /\ amf \in [Amf!Unit -> Amf!UnitRecord]
  BY DEF Amf!AmfTypeOK
<1> QED  BY <1>1, UnitFields

\* The pages that are not done are wrappers, and there are finitely many.
LEMMA UndoneTypes ==
    ASSUME Amf!AmfTypeOK, NEW u \in Amf!Unit, Amf!ScheduleLocked(u) => amf[u].queue # <<>>
    PROVE  /\ Amf!Undone(u) \subseteq Amf!Wrapper /\ IsFiniteSet(Amf!Undone(u))
           /\ \A rp : IsFiniteSet(Amf!UndoneOf(u, rp)) /\ Amf!Cardinality(Amf!UndoneOf(u, rp)) \in Nat
<1>1. amf[u].queue \in Seq(Amf!Wrapper)
  BY UnitTypes
<1>2. \A s \in Seq(Amf!Wrapper) : Amf!ToSet(s) \subseteq Amf!Wrapper
  BY AmfOperators, ElementOfSeq, LenProperties DEF Elems
<1>3. Amf!Waits(u) \subseteq Amf!Wrapper
  <2>1. amf[u].queue # <<>> => Tail(amf[u].queue) \in Seq(Amf!Wrapper)
    BY <1>1, AmfDequeued
  <2> QED  BY <1>1, <1>2, <2>1 DEF Amf!Waits
<1>4. Amf!Undone(u) \subseteq Amf!Wrapper
  BY <1>3 DEF Amf!Undone, Amf!InDevice
<1>5. IsFiniteSet(Amf!Wrapper)
  <2>1. 0 \in Int /\ RPPB - 1 \in Int
    BY AmfAssumption
  <2> QED  BY <2>1, FS_Interval DEF Amf!Wrapper
<1>6. IsFiniteSet(Amf!Undone(u))
  BY <1>4, <1>5, FS_Subset
<1>7. ASSUME NEW rp  PROVE IsFiniteSet(Amf!UndoneOf(u, rp)) /\ Amf!Cardinality(Amf!UndoneOf(u, rp)) \in Nat
  <2>1. Amf!UndoneOf(u, rp) \subseteq Amf!Undone(u)
    BY DEF Amf!UndoneOf
  <2> QED  BY <2>1, <1>6, FS_Subset, FS_CardinalityType, AmfOperators
<1> QED  BY <1>4, <1>6, <1>7

\* p_bbuf_init and normal_write_init: every wrapper and parameter is free.
LEMMA AmfInit ==
    ASSUME Amf!InitAmf
    PROVE  Amf!AmfInv
<1> USE AmfAssumption
<1>1. /\ buffered \in BOOLEAN /\ issuer = Amf!Quiet /\ main = [at |-> "scan", now_buf |-> 0]
      /\ device = {} /\ callback = [at |-> "none", u |-> 0, t |-> 0] /\ finished = <<>>
  BY DEF Amf!InitAmf
<1>2. 0 \in Amf!Unit
  BY DEF Amf!Unit
<1>3. ASSUME NEW u \in Amf!Unit
      PROVE  /\ amf[u].tag = Amf!UpTo(RPPB) /\ amf[u].rp_tag = Amf!UpTo(PPB) /\ amf[u].queue = <<>>
             /\ amf[u].idle = TRUE /\ amf[u] \in Amf!UnitRecord
  <2>1. Amf!UpTo(RPPB) \in Seq(Amf!Wrapper) /\ Amf!UpTo(PPB) \in Seq(Amf!Param) /\ <<>> \in Seq(Amf!Wrapper)
    BY AmfQueues DEF Amf!Wrapper, Amf!Param
  <2>2. amf[u] = [idle |-> TRUE, tag |-> Amf!UpTo(RPPB), rp_tag |-> Amf!UpTo(PPB), queue |-> <<>>,
                  req |-> [t \in Amf!Wrapper |-> [n |-> 0, op |-> "W", rp |-> Amf!None]],
                  cnt |-> [p \in Amf!Param |-> 0]]
    BY DEF Amf!InitAmf, Amf!InitBuffers, Amf!Wrapper, Amf!Param
  <2>3. 0 \in 0 .. MaxIssue /\ 0 \in Nat
    OBVIOUS
  <2> QED  BY <2>1, <2>2, <2>3 DEF Amf!UnitRecord
<1>4. amf \in [Amf!Unit -> Amf!UnitRecord]
  <2>1. \E f : amf = [u \in Amf!Unit |-> f]
    BY DEF Amf!InitAmf, Amf!InitBuffers
  <2> QED  BY <2>1, <1>3
<1>5. direct.wrap_q = Amf!UpTo(AmfDepth) /\ direct \in Amf!DirectRecord
  <2>1. Amf!UpTo(AmfDepth) \in Seq(Amf!DirectWrapper)
    BY AmfQueues DEF Amf!DirectWrapper
  <2>2. direct = [wrap_q |-> Amf!UpTo(AmfDepth), req |-> [w \in Amf!DirectWrapper |-> 0],
                  cnt |-> [w \in Amf!DirectWrapper |-> 0]]
    BY DEF Amf!InitAmf, Amf!InitDirect, Amf!DirectWrapper
  <2>3. 0 \in 0 .. MaxIssue /\ 0 \in Nat
    OBVIOUS
  <2> QED  BY <2>1, <2>2, <2>3 DEF Amf!DirectRecord
<1>6. Amf!AmfTypeOK
  <2>1. issuer \in [at : {"free", "rp", "piece"}, n : 0 .. MaxIssue, u : Amf!Unit, op : {"W", "R", "T"}, rp : Int, i : Nat]
        /\ issuer.at = "free"
    BY <1>1, <1>2 DEF Amf!Quiet, Amf!None
  <2> QED  BY <2>1, <1>1, <1>2, <1>4, <1>5, AmfQueues DEF Amf!AmfTypeOK
<1>7. issuer.at = "free"
  BY <1>1 DEF Amf!Quiet
<1>8. ASSUME NEW u \in Amf!Unit  PROVE Amf!UnitOwned(u) /\ Amf!Undone(u) = {}
  <2>1. ~Amf!ScheduleLocked(u)
    BY <1>1 DEF Amf!ScheduleLocked
  <2>2. Amf!Waits(u) = {} /\ Amf!InDevice(u) = {}
    BY <1>1, <1>3, <2>1, AmfQueues DEF Amf!Waits, Amf!InDevice
  <2>3. Amf!Undone(u) = {}
    BY <2>2 DEF Amf!Undone
  <2>4. Amf!IsInjective(amf[u].tag) /\ Amf!IsInjective(amf[u].rp_tag) /\ Amf!IsInjective(amf[u].queue)
    BY <1>3, AmfQueues
  <2> QED  BY <1>1, <2>1, <2>2, <2>3, <2>4 DEF Amf!UnitOwned, Amf!CallingBack
<1>9. Amf!UnitsOwned /\ Amf!PagesOwned /\ Amf!IssuerOwned
  BY <1>7, <1>8 DEF Amf!UnitsOwned, Amf!PagesOwned, Amf!IssuerOwned, Amf!PagesUnended, Amf!ParamsHeld,
     Amf!CountsAdd, Amf!IssuerApart, Amf!OneParam
<1>10. Amf!DirectOwned
  <2>1. \A w \in Amf!DirectWrapper : ~Amf!WrapperBusy(w) /\ Amf!InFlight(w) = {}
    BY <1>1, <1>5, AmfQueues DEF Amf!WrapperBusy, Amf!InFlight, Amf!DirectWrapper
  <2> QED  BY <1>1, <1>5, <1>7, <2>1, AmfQueues DEF Amf!DirectOwned, Amf!WrapperOwned, Amf!WrappersApart
<1> QED  BY <1>1, <1>6, <1>9, <1>10, AmfQueues DEF Amf!AmfInv

-----------------------------------------------------------------------------
(* The AMF back end with block buffers.                                    *)

\* A step that moves no page out of or into the unit's pages that are not done,
\* and changes neither requests nor counts, keeps the requests as they are.
LEMMA PagesKept ==
    ASSUME Amf!PagesOwned, Amf!IssuerOwned, issuer' = issuer, finished' = finished, issuer.u \in Amf!Unit,
           \A u \in Amf!Unit :
              /\ Amf!Undone(u)' = Amf!Undone(u) /\ amf'[u].req = amf[u].req
              /\ amf'[u].rp_tag = amf[u].rp_tag /\ amf'[u].cnt = amf[u].cnt
    PROVE  Amf!PagesOwned' /\ Amf!IssuerOwned'
<1>1. \A u \in Amf!Unit : \A rp : Amf!UndoneOf(u, rp)' = Amf!UndoneOf(u, rp)
  BY DEF Amf!UndoneOf
<1>2. \A u, rp : (Amf!Issuing(u, rp)' <=> Amf!Issuing(u, rp)) /\ Amf!Unissued(u, rp)' = Amf!Unissued(u, rp)
  BY DEF Amf!Issuing, Amf!Unissued, Amf!LoopCnt
<1>3. Amf!PagesUnended' /\ Amf!ParamsHeld' /\ Amf!OneParam'
  BY DEF Amf!PagesOwned, Amf!PagesUnended, Amf!ParamsHeld, Amf!OneParam
<1>4. Amf!CountsAdd'
  BY <1>1, <1>2 DEF Amf!PagesOwned, Amf!CountsAdd
<1>5. Amf!IssuerApart'
  BY <1>2 DEF Amf!PagesOwned, Amf!IssuerApart
<1>6. Amf!IssuerOwned'
  <2>1. Amf!LoopCnt' = Amf!LoopCnt
    BY DEF Amf!LoopCnt
  <2>2. Amf!UndoneOf(issuer.u, issuer.rp)' = Amf!UndoneOf(issuer.u, issuer.rp)
    BY <1>1
  <2> QED  BY <2>1, <2>2 DEF Amf!IssuerOwned
<1> QED  BY <1>3, <1>4, <1>5, <1>6 DEF Amf!PagesOwned

\* A unit that the step does not touch.
LEMMA UnitKept ==
    ASSUME NEW u \in Amf!Unit, Amf!UnitOwned(u), amf'[u] = amf[u],
           Amf!InDevice(u)' = Amf!InDevice(u), Amf!ScheduleLocked(u)' <=> Amf!ScheduleLocked(u),
           callback'.at # "none" /\ callback'.u = u => callback.at # "none" /\ callback.u = u /\ callback'.t = callback.t,
           Amf!CallingBack(u)' => Amf!CallingBack(u)
    PROVE  Amf!UnitOwned(u)' /\ Amf!Undone(u)' = Amf!Undone(u)
<1>1. Amf!Waits(u)' = Amf!Waits(u)
  BY DEF Amf!Waits
<1>2. Amf!Undone(u)' = Amf!Undone(u)
  BY <1>1 DEF Amf!Undone
<1> QED  BY <1>1, <1>2 DEF Amf!UnitOwned

\* The next unit is one of the units.
LEMMA NextUnit ==
    ASSUME Amf!AmfTypeOK
    PROVE  /\ Amf!ToNext \in [at : {"scan", "issued", "left"}, now_buf : Amf!Unit] /\ Amf!ToNext.at = "scan"
           /\ main.now_buf \in Amf!Unit
<1>1. main.now_buf \in Amf!Unit
  BY DEF Amf!AmfTypeOK
<1>2. (main.now_buf + 1) % AMF_PUNIT \in Amf!Unit
  BY <1>1, AmfAssumption DEF Amf!Unit
<1> QED  BY <1>1, <1>2 DEF Amf!ToNext

\* p_bbuf_main passes a unit, or leaves.
LEMMA PassInv ==
    ASSUME Amf!AmfInv, Amf!SkipUnit \/ Amf!Join
    PROVE  Amf!AmfInv'
<1>0. Amf!AmfTypeOK /\ buffered /\ Amf!UnitsOwned /\ Amf!PagesOwned /\ Amf!IssuerOwned /\ Amf!IsInjective(finished)
  BY DEF Amf!AmfInv, Amf!SkipUnit, Amf!Join
<1>1. /\ main.at = "scan" /\ main'.at # "issued" /\ buffered' = buffered /\ amf' = amf /\ direct' = direct
      /\ issuer' = issuer /\ device' = device /\ callback' = callback /\ finished' = finished
      /\ main' \in [at : {"scan", "issued", "left"}, now_buf : Amf!Unit]
  <2>1. CASE Amf!SkipUnit
    BY <1>0, <2>1, NextUnit DEF Amf!SkipUnit
  <2>2. CASE Amf!Join
    BY <1>0, <2>2 DEF Amf!Join, Amf!AmfTypeOK
  <2> QED  BY <2>1, <2>2
<1>2. Amf!AmfTypeOK'
  BY <1>0, <1>1 DEF Amf!AmfTypeOK
<1>3. ASSUME NEW u \in Amf!Unit  PROVE Amf!UnitOwned(u)' /\ Amf!Undone(u)' = Amf!Undone(u)
  <2>1. Amf!UnitOwned(u)
    BY <1>0 DEF Amf!UnitsOwned
  <2>2. Amf!InDevice(u)' = Amf!InDevice(u) /\ (Amf!ScheduleLocked(u)' <=> Amf!ScheduleLocked(u))
        /\ (Amf!CallingBack(u)' <=> Amf!CallingBack(u))
    BY <1>1 DEF Amf!InDevice, Amf!ScheduleLocked, Amf!CallingBack
  <2> QED  BY <1>1, <2>1, <2>2, UnitKept
<1>4. issuer.u \in Amf!Unit
  BY <1>0 DEF Amf!AmfTypeOK
<1>5. Amf!PagesOwned' /\ Amf!IssuerOwned'
  BY <1>0, <1>1, <1>3, <1>4, PagesKept
<1> QED  BY <1>0, <1>1, <1>2, <1>3, <1>5 DEF Amf!AmfInv, Amf!UnitsOwned

\* p_bbuf_main gives the first page of a unit to the library.
LEMMA StartPageInv ==
    ASSUME Amf!AmfInv, Amf!StartPage
    PROVE  Amf!AmfInv'
<1>0. Amf!AmfTypeOK /\ buffered /\ Amf!UnitsOwned /\ Amf!PagesOwned /\ Amf!IssuerOwned /\ Amf!IsInjective(finished)
  BY DEF Amf!AmfInv, Amf!StartPage
<1>1. PICK m \in Amf!Unit : m = main.now_buf
  BY <1>0, NextUnit
<1>2. amf[m].queue # <<>> /\ amf[m].idle /\ main.at = "scan"
  BY <1>1 DEF Amf!StartPage, Amf!Startable
<1>3. amf[m].queue \in Seq(Amf!Wrapper)
  BY <1>0, UnitTypes
<1>4. PICK h \in Amf!Wrapper : h = Head(amf[m].queue)
  BY <1>2, <1>3, AmfDequeued
<1>5. /\ buffered' = buffered /\ amf' = [amf EXCEPT ![m].idle = FALSE] /\ direct' = direct
      /\ issuer' = issuer /\ device' = device \cup {<<m, h>>} /\ callback' = callback /\ finished' = finished
      /\ main' = [main EXCEPT !.at = "issued"]
  BY <1>1, <1>4 DEF Amf!StartPage
<1>6. main' \in [at : {"scan", "issued", "left"}, now_buf : Amf!Unit] /\ main'.at = "issued" /\ main'.now_buf = m
  BY <1>0, <1>1, <1>5 DEF Amf!AmfTypeOK
<1>7. amf[m] \in Amf!UnitRecord /\ amf \in [Amf!Unit -> Amf!UnitRecord]
  BY <1>0, UnitTypes
<1>8. /\ \A v \in Amf!Unit \ {m} : amf'[v] = amf[v]
      /\ amf'[m].tag = amf[m].tag /\ amf'[m].rp_tag = amf[m].rp_tag /\ amf'[m].queue = amf[m].queue
      /\ amf'[m].req = amf[m].req /\ amf'[m].cnt = amf[m].cnt /\ amf'[m].idle = FALSE
  BY <1>5, <1>7 DEF Amf!UnitRecord
<1>9. amf' \in [Amf!Unit -> Amf!UnitRecord]
  <2>1. [amf[m] EXCEPT !.idle = FALSE] \in Amf!UnitRecord
    BY <1>7 DEF Amf!UnitRecord
  <2> QED  BY <2>1, <1>5, <1>7
<1>10. Amf!AmfTypeOK'
  BY <1>0, <1>1, <1>4, <1>5, <1>6, <1>9 DEF Amf!AmfTypeOK
<1>11. Amf!UnitOwned(m)
  BY <1>0 DEF Amf!UnitsOwned
<1>12. Amf!UnitOwned(m)' /\ Amf!Undone(m)' = Amf!Undone(m)
  <2>1. ~Amf!ScheduleLocked(m) /\ Amf!ScheduleLocked(m)'
    BY <1>2, <1>6 DEF Amf!ScheduleLocked
  <2>2. Amf!Waits(m) = Amf!ToSet(amf[m].queue) /\ Amf!Waits(m)' = Amf!ToSet(Tail(amf[m].queue))
    BY <2>1, <1>8 DEF Amf!Waits
  <2>3. Amf!ToSet(amf[m].queue) = Amf!ToSet(Tail(amf[m].queue)) \cup {h} /\ h \notin Amf!ToSet(Tail(amf[m].queue))
    BY <1>2, <1>3, <1>4, <1>11, AmfDequeued DEF Amf!UnitOwned
  <2>4. Amf!InDevice(m) = {} /\ ~Amf!CallingBack(m)
    BY <1>2, <1>11 DEF Amf!UnitOwned
  <2>5. Amf!InDevice(m)' = {h}
    BY <2>4, <1>4, <1>5 DEF Amf!InDevice
  <2>6. Amf!Undone(m)' = Amf!Undone(m)
    BY <2>2, <2>3, <2>4, <2>5 DEF Amf!Undone
  <2>7. ~Amf!CallingBack(m)'
    BY <2>4, <1>5 DEF Amf!CallingBack
  <2> QED  BY <2>1, <2>2, <2>3, <2>4, <2>5, <2>6, <2>7, <1>2, <1>5, <1>8, <1>11 DEF Amf!UnitOwned
<1>13. ASSUME NEW u \in Amf!Unit  PROVE Amf!UnitOwned(u)' /\ Amf!Undone(u)' = Amf!Undone(u)
  <2>1. CASE u # m
    <3>1. Amf!UnitOwned(u) /\ amf'[u] = amf[u]
      BY <1>0, <1>8, <2>1 DEF Amf!UnitsOwned
    <3>2. Amf!InDevice(u)' = Amf!InDevice(u)
      BY <1>5, <2>1 DEF Amf!InDevice
    <3>3. (Amf!ScheduleLocked(u)' <=> Amf!ScheduleLocked(u)) /\ (Amf!CallingBack(u)' <=> Amf!CallingBack(u))
      BY <1>1, <1>5, <1>6, <2>1 DEF Amf!ScheduleLocked, Amf!CallingBack
    <3> QED  BY <1>5, <3>1, <3>2, <3>3, UnitKept
  <2> QED  BY <1>12, <2>1
<1>14. issuer.u \in Amf!Unit
  BY <1>0 DEF Amf!AmfTypeOK
<1>15. \A u \in Amf!Unit : amf'[u].req = amf[u].req /\ amf'[u].rp_tag = amf[u].rp_tag /\ amf'[u].cnt = amf[u].cnt
  BY <1>8
<1>16. Amf!PagesOwned' /\ Amf!IssuerOwned'
  BY <1>0, <1>5, <1>13, <1>14, <1>15, PagesKept
<1> QED  BY <1>0, <1>5, <1>10, <1>13, <1>16 DEF Amf!AmfInv, Amf!UnitsOwned

\* p_bbuf_main takes the page it has given to the library out of the queue; its
\* callback may have run, and its wrapper may serve the next page but for
\* schedule_lock.
LEMMA DequeueInv ==
    ASSUME Amf!AmfInv, Amf!Dequeue
    PROVE  Amf!AmfInv'
<1>0. Amf!AmfTypeOK /\ buffered /\ Amf!UnitsOwned /\ Amf!PagesOwned /\ Amf!IssuerOwned /\ Amf!IsInjective(finished)
  BY DEF Amf!AmfInv, Amf!AmfTypeOK, Amf!Dequeue
<1>1. PICK m \in Amf!Unit : m = main.now_buf
  BY <1>0, NextUnit
<1>2. /\ buffered' = buffered /\ amf' = [amf EXCEPT ![m].queue = Tail(@)] /\ direct' = direct
      /\ issuer' = issuer /\ device' = device /\ callback' = callback /\ finished' = finished
      /\ main' = Amf!ToNext /\ main.at = "issued"
  BY <1>1 DEF Amf!Dequeue
<1>3. Amf!UnitOwned(m) /\ Amf!ScheduleLocked(m)
  BY <1>0, <1>1, <1>2 DEF Amf!UnitsOwned, Amf!ScheduleLocked
<1>4. amf[m].queue \in Seq(Amf!Wrapper) /\ amf[m].queue # <<>>
  BY <1>0, <1>3, UnitTypes DEF Amf!UnitOwned
<1>5. Tail(amf[m].queue) \in Seq(Amf!Wrapper) /\ Amf!IsInjective(Tail(amf[m].queue))
  BY <1>3, <1>4, AmfDequeued DEF Amf!UnitOwned
<1>6. main' \in [at : {"scan", "issued", "left"}, now_buf : Amf!Unit] /\ main'.at = "scan"
  BY <1>0, <1>2, NextUnit
<1>7. amf[m] \in Amf!UnitRecord /\ amf \in [Amf!Unit -> Amf!UnitRecord]
  BY <1>0, UnitTypes
<1>8. /\ \A v \in Amf!Unit \ {m} : amf'[v] = amf[v]
      /\ amf'[m].tag = amf[m].tag /\ amf'[m].rp_tag = amf[m].rp_tag /\ amf'[m].queue = Tail(amf[m].queue)
      /\ amf'[m].req = amf[m].req /\ amf'[m].cnt = amf[m].cnt /\ amf'[m].idle = amf[m].idle
  BY <1>2, <1>7 DEF Amf!UnitRecord
<1>9. amf' \in [Amf!Unit -> Amf!UnitRecord]
  <2>1. [amf[m] EXCEPT !.queue = Tail(@)] \in Amf!UnitRecord
    BY <1>5, <1>7 DEF Amf!UnitRecord
  <2> QED  BY <2>1, <1>2, <1>7
<1>10. Amf!AmfTypeOK'
  BY <1>0, <1>2, <1>6, <1>9 DEF Amf!AmfTypeOK
<1>11. Amf!UnitOwned(m)' /\ Amf!Undone(m)' = Amf!Undone(m)
  <2>1. ~Amf!ScheduleLocked(m)'
    BY <1>6 DEF Amf!ScheduleLocked
  <2>2. Amf!Waits(m)' = Amf!Waits(m)
    BY <2>1, <1>3, <1>8 DEF Amf!Waits
  <2>3. Amf!InDevice(m)' = Amf!InDevice(m) /\ (Amf!CallingBack(m)' <=> Amf!CallingBack(m))
    BY <1>2 DEF Amf!InDevice, Amf!CallingBack
  <2>4. Amf!Undone(m)' = Amf!Undone(m)
    BY <2>2, <2>3 DEF Amf!Undone
  <2> QED  BY <2>1, <2>2, <2>3, <2>4, <1>2, <1>3, <1>5, <1>8 DEF Amf!UnitOwned
<1>12. ASSUME NEW u \in Amf!Unit  PROVE Amf!UnitOwned(u)' /\ Amf!Undone(u)' = Amf!Undone(u)
  <2>1. CASE u # m
    <3>1. Amf!UnitOwned(u) /\ amf'[u] = amf[u]
      BY <1>0, <1>8, <2>1 DEF Amf!UnitsOwned
    <3>2. Amf!InDevice(u)' = Amf!InDevice(u)
      BY <1>2 DEF Amf!InDevice
    <3>3. (Amf!ScheduleLocked(u)' <=> Amf!ScheduleLocked(u)) /\ (Amf!CallingBack(u)' <=> Amf!CallingBack(u))
      BY <1>1, <1>2, <1>6, <2>1 DEF Amf!ScheduleLocked, Amf!CallingBack
    <3> QED  BY <1>2, <3>1, <3>2, <3>3, UnitKept
  <2> QED  BY <1>11, <2>1
<1>13. issuer.u \in Amf!Unit
  BY <1>0 DEF Amf!AmfTypeOK
<1>14. \A u \in Amf!Unit : amf'[u].req = amf[u].req /\ amf'[u].rp_tag = amf[u].rp_tag /\ amf'[u].cnt = amf[u].cnt
  BY <1>8
<1>15. Amf!PagesOwned' /\ Amf!IssuerOwned'
  BY <1>0, <1>2, <1>12, <1>13, <1>14, PagesKept
<1> QED  BY <1>0, <1>2, <1>10, <1>12, <1>15 DEF Amf!AmfInv, Amf!UnitsOwned

\* The callback makes its unit idle, while it still holds the wrapper.
LEMMA UnlockIdleInv ==
    ASSUME Amf!AmfInv, Amf!UnlockIdle
    PROVE  Amf!AmfInv'
<1>0. Amf!AmfTypeOK /\ buffered /\ Amf!UnitsOwned /\ Amf!PagesOwned /\ Amf!IssuerOwned /\ Amf!IsInjective(finished)
  BY DEF Amf!AmfInv, Amf!AmfTypeOK, Amf!UnlockIdle
<1>1. PICK m \in Amf!Unit : m = callback.u
  BY <1>0 DEF Amf!AmfTypeOK, Amf!UnlockIdle
<1>2. /\ buffered' = buffered /\ amf' = [amf EXCEPT ![m].idle = TRUE] /\ direct' = direct
      /\ issuer' = issuer /\ device' = device /\ callback' = [callback EXCEPT !.at = "wrapper"]
      /\ finished' = finished /\ main' = main /\ callback.at = "idle"
  BY <1>1 DEF Amf!UnlockIdle
<1>3. Amf!UnitOwned(m) /\ Amf!CallingBack(m)
  BY <1>0, <1>1, <1>2 DEF Amf!UnitsOwned, Amf!CallingBack
<1>4. callback'.at = "wrapper" /\ callback'.u = m /\ callback'.t = callback.t /\ callback.u = m
      /\ callback' \in [at : {"none", "idle", "wrapper", "release"}, u : Nat, t : Nat]
  BY <1>0, <1>1, <1>2 DEF Amf!AmfTypeOK
<1>5. amf[m] \in Amf!UnitRecord /\ amf \in [Amf!Unit -> Amf!UnitRecord]
  BY <1>0, UnitTypes
<1>6. /\ \A v \in Amf!Unit \ {m} : amf'[v] = amf[v]
      /\ amf'[m].tag = amf[m].tag /\ amf'[m].rp_tag = amf[m].rp_tag /\ amf'[m].queue = amf[m].queue
      /\ amf'[m].req = amf[m].req /\ amf'[m].cnt = amf[m].cnt /\ amf'[m].idle = TRUE
  BY <1>2, <1>5 DEF Amf!UnitRecord
<1>7. amf' \in [Amf!Unit -> Amf!UnitRecord]
  <2>1. [amf[m] EXCEPT !.idle = TRUE] \in Amf!UnitRecord
    BY <1>5 DEF Amf!UnitRecord
  <2> QED  BY <2>1, <1>2, <1>5
<1>8. Amf!AmfTypeOK'
  BY <1>0, <1>2, <1>4, <1>7 DEF Amf!AmfTypeOK
<1>9. \A u \in Amf!Unit : /\ Amf!InDevice(u)' = Amf!InDevice(u) /\ (Amf!ScheduleLocked(u)' <=> Amf!ScheduleLocked(u))
                         /\ ~Amf!CallingBack(u)'
  BY <1>2, <1>4 DEF Amf!InDevice, Amf!ScheduleLocked, Amf!CallingBack
<1>10. Amf!UnitOwned(m)' /\ Amf!Undone(m)' = Amf!Undone(m)
  <2>1. Amf!Waits(m)' = Amf!Waits(m)
    BY <1>6, <1>9 DEF Amf!Waits
  <2>2. Amf!Undone(m)' = Amf!Undone(m)
    BY <2>1, <1>9 DEF Amf!Undone
  <2> QED  BY <2>1, <2>2, <1>2, <1>3, <1>4, <1>6, <1>9 DEF Amf!UnitOwned
<1>11. ASSUME NEW u \in Amf!Unit  PROVE Amf!UnitOwned(u)' /\ Amf!Undone(u)' = Amf!Undone(u)
  <2>1. CASE u # m
    <3>1. Amf!UnitOwned(u) /\ amf'[u] = amf[u]
      BY <1>0, <1>6, <2>1 DEF Amf!UnitsOwned
    <3> QED  BY <1>4, <1>9, <2>1, <3>1, UnitKept
  <2> QED  BY <1>10, <2>1
<1>12. issuer.u \in Amf!Unit
  BY <1>0 DEF Amf!AmfTypeOK
<1>13. \A u \in Amf!Unit : amf'[u].req = amf[u].req /\ amf'[u].rp_tag = amf[u].rp_tag /\ amf'[u].cnt = amf[u].cnt
  BY <1>6
<1>14. Amf!PagesOwned' /\ Amf!IssuerOwned'
  BY <1>0, <1>2, <1>11, <1>12, <1>13, PagesKept
<1> QED  BY <1>0, <1>2, <1>8, <1>11, <1>14 DEF Amf!AmfInv, Amf!UnitsOwned

\* __free_wrapper: the wrapper is free again.
LEMMA FreeWrapperInv ==
    ASSUME Amf!AmfInv, Amf!FreeWrapper
    PROVE  Amf!AmfInv'
<1>0. Amf!AmfTypeOK /\ buffered /\ Amf!UnitsOwned /\ Amf!PagesOwned /\ Amf!IssuerOwned /\ Amf!IsInjective(finished)
  BY DEF Amf!AmfInv, Amf!AmfTypeOK, Amf!FreeWrapper
<1>1. PICK m \in Amf!Unit, t \in Amf!Wrapper : m = callback.u /\ t = callback.t
  BY <1>0 DEF Amf!AmfTypeOK, Amf!FreeWrapper
<1>2. /\ buffered' = buffered /\ amf' = [amf EXCEPT ![m].tag = Append(@, t)] /\ direct' = direct
      /\ issuer' = issuer /\ device' = device /\ callback' = [callback EXCEPT !.at = "none"]
      /\ finished' = finished /\ main' = main /\ callback.at = "wrapper"
  BY <1>1 DEF Amf!FreeWrapper
<1>3. Amf!UnitOwned(m)
  BY <1>0 DEF Amf!UnitsOwned
<1>4. callback'.at = "none" /\ callback' \in [at : {"none", "idle", "wrapper", "release"}, u : Nat, t : Nat]
  BY <1>0, <1>2 DEF Amf!AmfTypeOK
<1>5. t \notin Amf!ToSet(amf[m].tag) /\ t \notin Amf!Undone(m)
  BY <1>1, <1>2, <1>3 DEF Amf!UnitOwned
<1>6. amf[m] \in Amf!UnitRecord /\ amf \in [Amf!Unit -> Amf!UnitRecord] /\ amf[m].tag \in Seq(Amf!Wrapper)
  BY <1>0, UnitTypes
<1>7. /\ Append(amf[m].tag, t) \in Seq(Amf!Wrapper) /\ Amf!IsInjective(Append(amf[m].tag, t))
      /\ Amf!ToSet(Append(amf[m].tag, t)) = Amf!ToSet(amf[m].tag) \cup {t}
  BY <1>1, <1>3, <1>5, <1>6, AmfEnqueue DEF Amf!UnitOwned
<1>8. /\ \A v \in Amf!Unit \ {m} : amf'[v] = amf[v]
      /\ amf'[m].tag = Append(amf[m].tag, t) /\ amf'[m].rp_tag = amf[m].rp_tag /\ amf'[m].queue = amf[m].queue
      /\ amf'[m].req = amf[m].req /\ amf'[m].cnt = amf[m].cnt /\ amf'[m].idle = amf[m].idle
  BY <1>2, <1>6 DEF Amf!UnitRecord
<1>9. amf' \in [Amf!Unit -> Amf!UnitRecord]
  <2>1. [amf[m] EXCEPT !.tag = Append(@, t)] \in Amf!UnitRecord
    BY <1>6, <1>7 DEF Amf!UnitRecord
  <2> QED  BY <2>1, <1>2, <1>6
<1>10. Amf!AmfTypeOK'
  BY <1>0, <1>2, <1>4, <1>9 DEF Amf!AmfTypeOK
<1>11. \A u \in Amf!Unit : /\ Amf!InDevice(u)' = Amf!InDevice(u) /\ (Amf!ScheduleLocked(u)' <=> Amf!ScheduleLocked(u))
                          /\ ~Amf!CallingBack(u)'
  BY <1>2, <1>4 DEF Amf!InDevice, Amf!ScheduleLocked, Amf!CallingBack
<1>12. Amf!UnitOwned(m)' /\ Amf!Undone(m)' = Amf!Undone(m)
  <2>1. Amf!Waits(m)' = Amf!Waits(m)
    BY <1>8, <1>11 DEF Amf!Waits
  <2>2. Amf!Undone(m)' = Amf!Undone(m)
    BY <2>1, <1>11 DEF Amf!Undone
  <2> QED  BY <2>1, <2>2, <1>3, <1>4, <1>5, <1>7, <1>8, <1>11 DEF Amf!UnitOwned
<1>13. ASSUME NEW u \in Amf!Unit  PROVE Amf!UnitOwned(u)' /\ Amf!Undone(u)' = Amf!Undone(u)
  <2>1. CASE u # m
    <3>1. Amf!UnitOwned(u) /\ amf'[u] = amf[u]
      BY <1>0, <1>8, <2>1 DEF Amf!UnitsOwned
    <3> QED  BY <1>4, <1>11, <2>1, <3>1, UnitKept
  <2> QED  BY <1>12, <2>1
<1>14. issuer.u \in Amf!Unit
  BY <1>0 DEF Amf!AmfTypeOK
<1>15. \A u \in Amf!Unit : amf'[u].req = amf[u].req /\ amf'[u].rp_tag = amf[u].rp_tag /\ amf'[u].cnt = amf[u].cnt
  BY <1>8
<1>16. Amf!PagesOwned' /\ Amf!IssuerOwned'
  BY <1>0, <1>2, <1>13, <1>14, <1>15, PagesKept
<1> QED  BY <1>0, <1>2, <1>10, <1>13, <1>16 DEF Amf!AmfInv, Amf!UnitsOwned

\* amf_info_read, amf_info_write and amf_info_trim_block: a new request.
LEMMA CallInv ==
    ASSUME Amf!AmfInv, NEW c \in Amf!Unit, NEW op \in {"W", "R", "T"}, Amf!Call(c, op)
    PROVE  Amf!AmfInv'
<1>0. Amf!AmfTypeOK /\ Amf!IsInjective(finished)
  BY DEF Amf!AmfInv
<1>1. /\ issuer.at = "free" /\ issuer.n < MaxIssue /\ (buffered \/ op # "T")
      /\ issuer' = [Amf!Quiet EXCEPT !.at = "rp", !.n = issuer.n + 1, !.u = c, !.op = op]
      /\ buffered' = buffered /\ amf' = amf /\ direct' = direct /\ main' = main /\ device' = device
      /\ callback' = callback /\ finished' = finished
  BY DEF Amf!Call
<1>2. issuer.n \in 0 .. MaxIssue /\ finished \in Seq(1 .. issuer.n) /\ MaxIssue \in Nat
  BY <1>0, AmfAssumption DEF Amf!AmfTypeOK
<1>3. /\ issuer'.at = "rp" /\ issuer'.n = issuer.n + 1 /\ issuer'.op = op /\ issuer'.i = 0
      /\ issuer' \in [at : {"free", "rp", "piece"}, n : 0 .. MaxIssue, u : Amf!Unit, op : {"W", "R", "T"}, rp : Int, i : Nat]
  <2>1. issuer.n + 1 \in 0 .. MaxIssue
    BY <1>1, <1>2
  <2>2. issuer' = [at |-> "rp", n |-> issuer.n + 1, u |-> c, op |-> op, rp |-> -1, i |-> 0]
    BY <1>1 DEF Amf!Quiet, Amf!None
  <2>3. -1 \in Int /\ 0 \in Nat
    OBVIOUS
  <2> QED  BY <2>1, <2>2, <2>3
<1>4. 1 .. issuer.n \subseteq 1 .. issuer'.n /\ issuer'.n \notin 1 .. issuer.n
  BY <1>2, <1>3
<1>5. finished' \in Seq(1 .. issuer'.n) /\ issuer'.n \notin Amf!ToSet(finished)
  <2>1. Amf!ToSet(finished) \subseteq 1 .. issuer.n
    BY <1>2, AmfOperators, ElementOfSeq, LenProperties DEF Elems
  <2>2. finished \in Seq(1 .. issuer'.n)
    BY <1>2, <1>4, SeqMonotone
  <2> QED  BY <2>1, <2>2, <1>1, <1>4
<1>6. Amf!AmfTypeOK'
  <2>1. issuer'.n # 0
    BY <1>2, <1>3
  <2> QED  BY <2>1, <1>0, <1>1, <1>3, <1>5 DEF Amf!AmfTypeOK
<1>7. ASSUME buffered  PROVE Amf!UnitsOwned' /\ Amf!PagesOwned' /\ Amf!IssuerOwned'
  <2>0. Amf!UnitsOwned /\ Amf!PagesOwned /\ Amf!IssuerOwned
    BY <1>7 DEF Amf!AmfInv
  <2>1. ASSUME NEW u \in Amf!Unit  PROVE Amf!UnitOwned(u)' /\ Amf!Undone(u)' = Amf!Undone(u)
    <3>1. Amf!UnitOwned(u)
      BY <2>0 DEF Amf!UnitsOwned
    <3>2. Amf!InDevice(u)' = Amf!InDevice(u) /\ (Amf!ScheduleLocked(u)' <=> Amf!ScheduleLocked(u))
          /\ (Amf!CallingBack(u)' <=> Amf!CallingBack(u))
      BY <1>1 DEF Amf!InDevice, Amf!ScheduleLocked, Amf!CallingBack
    <3> QED  BY <1>1, <3>1, <3>2, UnitKept
  <2>2. \A u \in Amf!Unit : \A rp : Amf!UndoneOf(u, rp)' = Amf!UndoneOf(u, rp)
    BY <1>1, <2>1 DEF Amf!UndoneOf
  <2>3. \A u, rp : Amf!Unissued(u, rp)' = 0 /\ Amf!Unissued(u, rp) = 0
    BY <1>1, <1>3 DEF Amf!Issuing, Amf!Unissued
  <2>4. Amf!PagesUnended'
    BY <2>0, <2>1, <1>1, <1>4 DEF Amf!PagesOwned, Amf!PagesUnended
  <2>5. Amf!ParamsHeld' /\ Amf!OneParam'
    BY <2>0, <2>1, <1>1 DEF Amf!PagesOwned, Amf!ParamsHeld, Amf!OneParam
  <2>6. Amf!CountsAdd'
    BY <2>0, <2>1, <2>2, <2>3, <1>1 DEF Amf!PagesOwned, Amf!CountsAdd
  <2>7. Amf!IssuerApart'
    BY <2>0, <2>1, <1>1, <1>3, <1>4 DEF Amf!PagesOwned, Amf!PagesUnended, Amf!IssuerApart
  <2>8. Amf!IssuerOwned'
    BY <1>1, <1>3, <1>5 DEF Amf!IssuerOwned
  <2> QED  BY <2>1, <2>4, <2>5, <2>6, <2>7, <2>8 DEF Amf!UnitsOwned, Amf!PagesOwned
<1>8. ASSUME ~buffered  PROVE Amf!DirectOwned'
  <2>0. Amf!DirectOwned
    BY <1>8 DEF Amf!AmfInv
  <2>1. \A w : (Amf!WrapperBusy(w)' <=> Amf!WrapperBusy(w)) /\ Amf!InFlight(w)' = Amf!InFlight(w)
               /\ ~Amf!IssuingDirect(w)' /\ ~Amf!IssuingDirect(w)
    BY <1>1, <1>3 DEF Amf!WrapperBusy, Amf!InFlight, Amf!IssuingDirect
  <2>2. ASSUME NEW w \in Amf!DirectWrapper  PROVE Amf!WrapperOwned(w)'
    <3>1. Amf!WrapperOwned(w)
      BY <2>0 DEF Amf!DirectOwned
    <3> QED  BY <3>1, <2>1, <1>1, <1>3, <1>4 DEF Amf!WrapperOwned
  <2>3. Amf!WrappersApart'
    BY <2>0, <2>1, <1>1 DEF Amf!DirectOwned, Amf!WrappersApart
  <2> QED  BY <2>0, <2>2, <2>3, <1>1, <1>3, <1>5, <1>8 DEF Amf!DirectOwned
<1> QED  BY <1>0, <1>1, <1>6, <1>7, <1>8 DEF Amf!AmfInv

\* __get_return_param: the request owns the unit's first free return parameter,
\* which no page that is not done has.
LEMMA GetReturnParamInv ==
    ASSUME Amf!AmfInv, Amf!GetReturnParam
    PROVE  Amf!AmfInv'
<1>0. Amf!AmfTypeOK /\ buffered /\ Amf!UnitsOwned /\ Amf!PagesOwned /\ Amf!IssuerOwned /\ Amf!IsInjective(finished)
  BY DEF Amf!AmfInv, Amf!GetReturnParam
<1>1. PICK m \in Amf!Unit : m = issuer.u
  BY <1>0 DEF Amf!AmfTypeOK
<1>2. amf[m].rp_tag # <<>> /\ issuer.at = "rp"
  BY <1>1 DEF Amf!GetReturnParam
<1>3. amf[m] \in Amf!UnitRecord /\ amf \in [Amf!Unit -> Amf!UnitRecord] /\ amf[m].rp_tag \in Seq(Amf!Param)
      /\ amf[m].cnt \in [Amf!Param -> Nat]
  BY <1>0, UnitTypes
<1>4. Amf!UnitOwned(m)
  BY <1>0 DEF Amf!UnitsOwned
<1>5. /\ Tail(amf[m].rp_tag) \in Seq(Amf!Param) /\ Amf!IsInjective(Tail(amf[m].rp_tag))
      /\ Head(amf[m].rp_tag) \in Amf!Param
      /\ Amf!ToSet(amf[m].rp_tag) = Amf!ToSet(Tail(amf[m].rp_tag)) \cup {Head(amf[m].rp_tag)}
      /\ Head(amf[m].rp_tag) \notin Amf!ToSet(Tail(amf[m].rp_tag))
  BY <1>2, <1>3, <1>4, AmfDequeued DEF Amf!UnitOwned
<1>6. PICK p \in Amf!Param : p = Head(amf[m].rp_tag)
  BY <1>5
<1>7. /\ buffered' = buffered /\ direct' = direct /\ main' = main /\ device' = device
      /\ callback' = callback /\ finished' = finished
      /\ amf' = [amf EXCEPT ![m].rp_tag = Tail(@), ![m].cnt[p] = 0]
      /\ issuer' = [issuer EXCEPT !.at = "piece", !.rp = p]
  BY <1>1, <1>6 DEF Amf!GetReturnParam
<1>8. /\ \A v \in Amf!Unit \ {m} : amf'[v] = amf[v]
      /\ amf'[m] = [amf[m] EXCEPT !.rp_tag = Tail(@), !.cnt[p] = 0]
  BY <1>3, <1>7
<1>9. /\ amf'[m].tag = amf[m].tag /\ amf'[m].rp_tag = Tail(amf[m].rp_tag) /\ amf'[m].queue = amf[m].queue
      /\ amf'[m].req = amf[m].req /\ amf'[m].cnt = [amf[m].cnt EXCEPT ![p] = 0] /\ amf'[m].idle = amf[m].idle
  BY <1>3, <1>8 DEF Amf!UnitRecord
<1>10. amf' \in [Amf!Unit -> Amf!UnitRecord]
  <2>1. [amf[m].cnt EXCEPT ![p] = 0] \in [Amf!Param -> Nat]
    BY <1>3
  <2>2. amf'[m] = [[amf[m] EXCEPT !.rp_tag = Tail(@)] EXCEPT !.cnt = [amf[m].cnt EXCEPT ![p] = 0]]
    BY <1>3, <1>8 DEF Amf!UnitRecord
  <2>3. [amf[m] EXCEPT !.rp_tag = Tail(@)] \in Amf!UnitRecord
    BY <1>3, <1>5 DEF Amf!UnitRecord
  <2>4. \A r \in Amf!UnitRecord : \A f \in [Amf!Param -> Nat] : [r EXCEPT !.cnt = f] \in Amf!UnitRecord
    BY DEF Amf!UnitRecord
  <2>5. amf'[m] \in Amf!UnitRecord
    BY <2>1, <2>2, <2>3, <2>4
  <2> QED  BY <2>5, <1>3, <1>7, <1>8
<1>11. /\ issuer'.at = "piece" /\ issuer'.n = issuer.n /\ issuer'.op = issuer.op /\ issuer'.i = 0
       /\ issuer'.u = m /\ issuer'.rp = p
       /\ issuer' \in [at : {"free", "rp", "piece"}, n : 0 .. MaxIssue, u : Amf!Unit, op : {"W", "R", "T"}, rp : Int, i : Nat]
  <2>1. p \in Int /\ issuer.i = 0
    BY <1>0, <1>2, <1>6 DEF Amf!AmfTypeOK, Amf!Param
  <2> QED  BY <1>0, <1>1, <1>7, <2>1 DEF Amf!AmfTypeOK
<1>12. Amf!AmfTypeOK'
  <2>1. issuer.n # 0
    BY <1>0, <1>2 DEF Amf!AmfTypeOK
  <2> QED  BY <2>1, <1>0, <1>7, <1>10, <1>11 DEF Amf!AmfTypeOK
<1>13. \A u \in Amf!Unit : /\ Amf!InDevice(u)' = Amf!InDevice(u) /\ (Amf!ScheduleLocked(u)' <=> Amf!ScheduleLocked(u))
                          /\ (Amf!CallingBack(u)' <=> Amf!CallingBack(u))
  BY <1>7 DEF Amf!InDevice, Amf!ScheduleLocked, Amf!CallingBack
<1>14. Amf!UnitOwned(m)' /\ Amf!Undone(m)' = Amf!Undone(m)
  <2>1. Amf!Waits(m)' = Amf!Waits(m)
    BY <1>9, <1>13 DEF Amf!Waits
  <2>2. Amf!Undone(m)' = Amf!Undone(m)
    BY <2>1, <1>13 DEF Amf!Undone
  <2> QED  BY <2>1, <2>2, <1>4, <1>5, <1>7, <1>9, <1>13 DEF Amf!UnitOwned
<1>15. ASSUME NEW u \in Amf!Unit  PROVE Amf!UnitOwned(u)' /\ Amf!Undone(u)' = Amf!Undone(u)
  <2>1. CASE u # m
    <3>1. Amf!UnitOwned(u) /\ amf'[u] = amf[u]
      BY <1>0, <1>8, <2>1 DEF Amf!UnitsOwned
    <3> QED  BY <1>7, <1>13, <2>1, <3>1, UnitKept
  <2> QED  BY <1>14, <2>1
<1>16. \A u \in Amf!Unit : amf'[u].req = amf[u].req
  BY <1>8, <1>9
<1>17. \A u \in Amf!Unit : \A rp : Amf!UndoneOf(u, rp)' = Amf!UndoneOf(u, rp)
  BY <1>15, <1>16 DEF Amf!UndoneOf
<1>18. \A t \in Amf!Undone(m) : amf[m].req[t].rp # p
  BY <1>0, <1>5, <1>6 DEF Amf!PagesOwned, Amf!ParamsHeld
<1>19. Amf!PagesUnended' /\ Amf!OneParam'
  <2>1. finished' = finished /\ issuer'.n = issuer.n
    BY <1>7, <1>11
  <2>2. Amf!PagesUnended'
    BY <2>1, <1>0, <1>15, <1>16 DEF Amf!PagesOwned, Amf!PagesUnended
  <2>3. Amf!OneParam'
    BY <1>0, <1>15, <1>16 DEF Amf!PagesOwned, Amf!OneParam
  <2> QED  BY <2>2, <2>3
<1>20. Amf!ParamsHeld'
  BY <1>0, <1>5, <1>8, <1>9, <1>15, <1>16 DEF Amf!PagesOwned, Amf!ParamsHeld
<1>21. Amf!IssuerApart'
  BY <1>0, <1>2, <1>11, <1>15, <1>16, <1>18 DEF Amf!PagesOwned, Amf!IssuerApart, Amf!Issuing
<1>22. Amf!CountsAdd'
  <2> SUFFICES ASSUME NEW u \in Amf!Unit, NEW t \in Amf!Undone(u), NEW rp \in Amf!Param, amf[u].req[t].rp = rp
               PROVE  amf'[u].cnt[rp] + Amf!Cardinality(Amf!UndoneOf(u, rp)) + Amf!Unissued(u, rp)' = Amf!Pages(amf[u].req[t].op)
    BY <1>15, <1>16, <1>17 DEF Amf!CountsAdd
  <2>1. amf[u].cnt[rp] + Amf!Cardinality(Amf!UndoneOf(u, rp)) + Amf!Unissued(u, rp) = Amf!Pages(amf[u].req[t].op)
    BY <1>0 DEF Amf!PagesOwned, Amf!CountsAdd
  <2>2. u = m => rp # p
    BY <1>18
  <2>3. Amf!Unissued(u, rp)' = 0 /\ Amf!Unissued(u, rp) = 0
    BY <2>2, <1>2, <1>11 DEF Amf!Unissued, Amf!Issuing
  <2>4. amf'[u].cnt[rp] = amf[u].cnt[rp]
    BY <2>2, <1>3, <1>8, <1>9
  <2> QED  BY <2>1, <2>3, <2>4
<1>23. Amf!IssuerOwned'
  <2>1. Amf!UndoneOf(m, p) = {}
    BY <1>18 DEF Amf!UndoneOf
  <2>2. Amf!Cardinality(Amf!UndoneOf(m, p)) = 0
    BY <2>1, AmfOperators, FS_EmptySet
  <2>3. amf'[m].cnt[p] = 0
    BY <1>3, <1>9
  <2>4. p \notin Amf!ToSet(amf'[m].rp_tag)
    BY <1>5, <1>6, <1>9
  <2>5. Amf!LoopCnt' > 0
    BY <1>11, AmfAssumption DEF Amf!LoopCnt
  <2>6. issuer'.n \notin Amf!ToSet(finished')
    BY <1>0, <1>2, <1>7, <1>11 DEF Amf!IssuerOwned
  <2>7. Amf!Cardinality(Amf!UndoneOf(issuer.u, issuer.rp)') = 0
    BY <2>2, <1>11, <1>17
  <2> QED  BY <2>3, <2>4, <2>5, <2>6, <2>7, <1>11 DEF Amf!IssuerOwned
<1> QED  BY <1>0, <1>7, <1>12, <1>15, <1>19, <1>20, <1>21, <1>22, <1>23 DEF Amf!AmfInv, Amf!UnitsOwned, Amf!PagesOwned

\* __p_bbuf_issue: one page of the request takes a free wrapper and is queued.
\* Its unit is not being scheduled, so the wrapper is not in the queue any more.
LEMMA IssuePieceInv ==
    ASSUME Amf!AmfInv, Amf!IssuePiece
    PROVE  Amf!AmfInv'
<1>0. Amf!AmfTypeOK /\ buffered /\ Amf!UnitsOwned /\ Amf!PagesOwned /\ Amf!IssuerOwned /\ Amf!IsInjective(finished)
  BY DEF Amf!AmfInv, Amf!IssuePiece
<1>1. PICK m \in Amf!Unit : m = issuer.u
  BY <1>0 DEF Amf!AmfTypeOK
<1>2. amf[m].tag # <<>> /\ issuer.at = "piece" /\ ~Amf!ScheduleLocked(m)
  BY <1>1 DEF Amf!IssuePiece
<1>3. amf[m] \in Amf!UnitRecord /\ amf \in [Amf!Unit -> Amf!UnitRecord] /\ amf[m].tag \in Seq(Amf!Wrapper)
      /\ amf[m].queue \in Seq(Amf!Wrapper)
  BY <1>0, UnitTypes
<1>4. Amf!UnitOwned(m)
  BY <1>0 DEF Amf!UnitsOwned
<1>5. /\ Tail(amf[m].tag) \in Seq(Amf!Wrapper) /\ Amf!IsInjective(Tail(amf[m].tag))
      /\ Head(amf[m].tag) \in Amf!Wrapper
      /\ Amf!ToSet(amf[m].tag) = Amf!ToSet(Tail(amf[m].tag)) \cup {Head(amf[m].tag)}
      /\ Head(amf[m].tag) \notin Amf!ToSet(Tail(amf[m].tag))
  BY <1>2, <1>3, <1>4, AmfDequeued DEF Amf!UnitOwned
<1>6. PICK t \in Amf!Wrapper : t = Head(amf[m].tag)
  BY <1>5
<1>7. PICK p \in Amf!Param : p = issuer.rp
  BY <1>0, <1>2 DEF Amf!IssuerOwned
<1>8. PICK q \in 0 .. MaxIssue : q = issuer.n
  BY <1>0 DEF Amf!AmfTypeOK
<1> DEFINE new == [n |-> q, op |-> issuer.op, rp |-> p]
<1>9. /\ buffered' = buffered /\ direct' = direct /\ main' = main /\ device' = device
      /\ callback' = callback /\ finished' = finished
  BY DEF Amf!IssuePiece
<1> DEFINE unit == [amf[m] EXCEPT !.tag = Tail(amf[m].tag), !.queue = Append(amf[m].queue, t), !.req[t] = new]
<1>10. amf' = [amf EXCEPT ![m] = unit]
  BY <1>1, <1>6, <1>7, <1>8 DEF Amf!IssuePiece
<1>11. issuer' = IF issuer.i + 1 = Amf!LoopCnt THEN [Amf!Quiet EXCEPT !.n = issuer.n] ELSE [issuer EXCEPT !.i = @ + 1]
  BY DEF Amf!IssuePiece
<1>12. t \notin Amf!Undone(m) /\ t \notin Amf!ToSet(amf[m].queue) /\ Amf!Waits(m) = Amf!ToSet(amf[m].queue)
       /\ t \notin Amf!InDevice(m)
  BY <1>2, <1>4, <1>5, <1>6 DEF Amf!UnitOwned, Amf!Undone, Amf!Waits
<1>13. /\ Append(amf[m].queue, t) \in Seq(Amf!Wrapper) /\ Amf!IsInjective(Append(amf[m].queue, t))
       /\ Amf!ToSet(Append(amf[m].queue, t)) = Amf!ToSet(amf[m].queue) \cup {t}
  BY <1>3, <1>4, <1>6, <1>12, AmfEnqueue DEF Amf!UnitOwned
<1>14. /\ \A v \in Amf!Unit \ {m} : amf'[v] = amf[v]
       /\ amf'[m] = unit
  <2> HIDE DEF unit
  <2> QED  BY <1>3, <1>10
<1>15. /\ amf'[m].tag = Tail(amf[m].tag) /\ amf'[m].rp_tag = amf[m].rp_tag /\ amf'[m].queue = Append(amf[m].queue, t)
       /\ amf'[m].req = [amf[m].req EXCEPT ![t] = new] /\ amf'[m].cnt = amf[m].cnt /\ amf'[m].idle = amf[m].idle
  BY <1>3, <1>14 DEF Amf!UnitRecord
<1>16. issuer.op \in {"W", "R", "T"} /\ issuer.i \in Nat
  BY <1>0 DEF Amf!AmfTypeOK
<1> DEFINE R == [Amf!Wrapper -> [n : 0 .. MaxIssue, op : {"W", "R", "T"}, rp : Amf!Param \cup {Amf!None}]]
<1>17. amf[m].req \in R
  BY <1>3, UnitFields
<1>18. [amf[m].req EXCEPT ![t] = new] \in R
  <2>1. new \in [n : 0 .. MaxIssue, op : {"W", "R", "T"}, rp : Amf!Param \cup {Amf!None}]
    BY <1>7, <1>8, <1>16
  <2> HIDE DEF new
  <2> QED  BY <2>1, <1>6, <1>17
<1>19. /\ amf'[m].req[t].n = q /\ amf'[m].req[t].op = issuer.op /\ amf'[m].req[t].rp = p
       /\ \A s \in Amf!Wrapper \ {t} : amf'[m].req[s] = amf[m].req[s]
  <2>1. amf'[m].req[t] = new
    BY <1>6, <1>15, <1>17
  <2>2. \A s \in Amf!Wrapper \ {t} : amf'[m].req[s] = amf[m].req[s]
    BY <1>15, <1>17
  <2> QED  BY <2>1, <2>2
<1>20. amf' \in [Amf!Unit -> Amf!UnitRecord]
  <2>1. amf'[m] = [[[amf[m] EXCEPT !.tag = Tail(amf[m].tag)] EXCEPT !.queue = Append(amf[m].queue, t)]
                       EXCEPT !.req = [amf[m].req EXCEPT ![t] = new]]
    BY <1>3, <1>14 DEF Amf!UnitRecord
  <2> HIDE DEF R, new
  <2>2. \A r \in Amf!UnitRecord : \A s \in Seq(Amf!Wrapper) : [r EXCEPT !.tag = s] \in Amf!UnitRecord
    BY DEF Amf!UnitRecord
  <2>3. \A r \in Amf!UnitRecord : \A s \in Seq(Amf!Wrapper) : [r EXCEPT !.queue = s] \in Amf!UnitRecord
    BY DEF Amf!UnitRecord
  <2>4. \A r \in Amf!UnitRecord : \A f \in R : [r EXCEPT !.req = f] \in Amf!UnitRecord
    BY DEF Amf!UnitRecord, R
  <2>5. [amf[m] EXCEPT !.tag = Tail(amf[m].tag)] \in Amf!UnitRecord
    BY <2>2, <1>3, <1>5
  <2>6. [[amf[m] EXCEPT !.tag = Tail(amf[m].tag)] EXCEPT !.queue = Append(amf[m].queue, t)] \in Amf!UnitRecord
    BY <2>3, <2>5, <1>13
  <2>7. amf'[m] \in Amf!UnitRecord
    BY <2>1, <2>4, <2>6, <1>18
  <2> HIDE DEF unit
  <2> QED  BY <2>7, <1>3, <1>10, <1>14
<1> HIDE DEF new, unit, R
<1>21. /\ issuer'.n = q /\ issuer'.at \in {"free", "piece"}
       /\ issuer' \in [at : {"free", "rp", "piece"}, n : 0 .. MaxIssue, u : Amf!Unit, op : {"W", "R", "T"}, rp : Int, i : Nat]
       /\ issuer'.at = "piece" => /\ issuer'.u = m /\ issuer'.rp = p /\ issuer'.op = issuer.op /\ issuer'.i = issuer.i + 1
                                  /\ issuer.i + 1 # Amf!LoopCnt
       /\ issuer'.at = "free" => issuer.i + 1 = Amf!LoopCnt
  <2>1. CASE issuer.i + 1 = Amf!LoopCnt
    <3>1. issuer' = [at |-> "free", n |-> q, u |-> 0, op |-> "W", rp |-> -1, i |-> 0]
      BY <2>1, <1>8, <1>11 DEF Amf!Quiet, Amf!None
    <3>2. 0 \in Amf!Unit /\ -1 \in Int /\ 0 \in Nat
      BY AmfAssumption DEF Amf!Unit
    <3> QED  BY <2>1, <3>1, <3>2, <1>8
  <2>2. CASE issuer.i + 1 # Amf!LoopCnt
    <3>1. issuer' = [issuer EXCEPT !.i = @ + 1]
      BY <2>2, <1>11
    <3> QED  BY <2>2, <3>1, <1>0, <1>1, <1>2, <1>7, <1>8, <1>16 DEF Amf!AmfTypeOK
  <2> QED  BY <2>1, <2>2
<1>22. Amf!AmfTypeOK'
  <2>1. finished' \in Seq(1 .. issuer'.n) /\ (issuer'.at = "rp" => issuer'.i = 0)
        /\ (issuer'.at # "free" => issuer'.n # 0)
    BY <1>0, <1>2, <1>8, <1>9, <1>21 DEF Amf!AmfTypeOK
  <2> QED  BY <2>1, <1>0, <1>9, <1>20, <1>21 DEF Amf!AmfTypeOK
<1>23. \A u \in Amf!Unit : /\ Amf!InDevice(u)' = Amf!InDevice(u) /\ (Amf!ScheduleLocked(u)' <=> Amf!ScheduleLocked(u))
                          /\ (Amf!CallingBack(u)' <=> Amf!CallingBack(u))
  BY <1>9 DEF Amf!InDevice, Amf!ScheduleLocked, Amf!CallingBack
<1>24. Amf!UnitOwned(m)' /\ Amf!Undone(m)' = Amf!Undone(m) \cup {t}
  <2>1. Amf!Waits(m)' = Amf!Waits(m) \cup {t}
    BY <1>2, <1>12, <1>13, <1>15, <1>23 DEF Amf!Waits
  <2>2. Amf!Undone(m)' = Amf!Undone(m) \cup {t}
    BY <2>1, <1>23 DEF Amf!Undone
  <2>3. callback.at # "none" /\ callback.u = m => callback.t # t
    BY <1>4, <1>5, <1>6 DEF Amf!UnitOwned
  <2>4. ~Amf!ScheduleLocked(m)'
    BY <1>2, <1>23
  <2> QED  BY <2>1, <2>2, <2>3, <2>4, <1>4, <1>5, <1>6, <1>9, <1>12, <1>13, <1>15, <1>23 DEF Amf!UnitOwned
<1>25. ASSUME NEW u \in Amf!Unit, u # m  PROVE Amf!UnitOwned(u)' /\ Amf!Undone(u)' = Amf!Undone(u) /\ amf'[u] = amf[u]
  <2>1. Amf!UnitOwned(u) /\ amf'[u] = amf[u]
    BY <1>0, <1>14, <1>25 DEF Amf!UnitsOwned
  <2> QED  BY <1>9, <1>23, <2>1, UnitKept
<1>26. Amf!Undone(m) \subseteq Amf!Wrapper \ {t} /\ IsFiniteSet(Amf!UndoneOf(m, p))
       /\ Amf!Cardinality(Amf!UndoneOf(m, p)) \in Nat
  <2>1. Amf!ScheduleLocked(m) => amf[m].queue # <<>>
    BY <1>2
  <2> QED  BY <2>1, <1>0, <1>12, UndoneTypes
\* A page that is not done after the step is one that was not before, or the new one.
<1>27. ASSUME NEW u \in Amf!Unit, NEW s \in Amf!Undone(u)'
       PROVE  \/ s \in Amf!Undone(u) /\ amf'[u].req[s] = amf[u].req[s]
              \/ u = m /\ s = t
  BY <1>19, <1>24, <1>25, <1>26
<1>28. \A u \in Amf!Unit : amf'[u].rp_tag = amf[u].rp_tag /\ amf'[u].cnt = amf[u].cnt
  BY <1>15, <1>25
<1>29. /\ \A u \in Amf!Unit : \A rp : u # m \/ rp # p => Amf!UndoneOf(u, rp)' = Amf!UndoneOf(u, rp)
       /\ Amf!UndoneOf(m, p)' = Amf!UndoneOf(m, p) \cup {t} /\ t \notin Amf!UndoneOf(m, p)
  <2>1. ASSUME NEW u \in Amf!Unit, NEW rp, u # m \/ rp # p  PROVE Amf!UndoneOf(u, rp)' = Amf!UndoneOf(u, rp)
    <3>1. CASE u # m
      BY <3>1, <1>25 DEF Amf!UndoneOf
    <3>2. CASE u = m
      BY <3>2, <2>1, <1>19, <1>24, <1>26 DEF Amf!UndoneOf
    <3> QED  BY <3>1, <3>2
  <2>2. Amf!UndoneOf(m, p)' = Amf!UndoneOf(m, p) \cup {t}
    BY <1>19, <1>24, <1>26 DEF Amf!UndoneOf
  <2>3. t \notin Amf!UndoneOf(m, p)
    BY <1>12 DEF Amf!UndoneOf
  <2> QED  BY <2>1, <2>2, <2>3
<1>30. Amf!Cardinality(Amf!UndoneOf(m, p)') = Amf!Cardinality(Amf!UndoneOf(m, p)) + 1
  <2> DEFINE U == Amf!UndoneOf(m, p)
             V == Amf!UndoneOf(m, p)'
  <2>1. V = U \cup {t} /\ t \notin U /\ IsFiniteSet(U)
    BY <1>26, <1>29
  <2> HIDE DEF U, V
  <2>2. Cardinality(V) = Cardinality(U) + 1
    BY <2>1, FS_AddElement
  <2>3. Amf!Cardinality(V) = Cardinality(V) /\ Amf!Cardinality(U) = Cardinality(U)
    BY AmfOperators
  <2>4. Amf!Cardinality(V) = Amf!Cardinality(U) + 1
    BY <2>2, <2>3
  <2> QED  BY <2>4 DEF U, V
<1>31. /\ amf[m].cnt[p] + Amf!Cardinality(Amf!UndoneOf(m, p)) = issuer.i /\ issuer.i < Amf!LoopCnt
       /\ p \notin Amf!ToSet(amf[m].rp_tag) /\ q \notin Amf!ToSet(finished)
  BY <1>0, <1>1, <1>2, <1>7, <1>8 DEF Amf!IssuerOwned
<1>32. Amf!LoopCnt \in Nat /\ Amf!LoopCnt = Amf!Pages(issuer.op)
  BY AmfAssumption, <1>16 DEF Amf!LoopCnt, Amf!Pages
<1>33. amf[m].cnt[p] \in Nat
  BY <1>0, <1>7, UnitTypes
<1>34. /\ \A u, rp : u # m \/ rp # p => Amf!Unissued(u, rp)' = 0 /\ Amf!Unissued(u, rp) = 0
       /\ Amf!Unissued(m, p) = Amf!LoopCnt - issuer.i /\ Amf!Unissued(m, p)' = Amf!LoopCnt - issuer.i - 1
  <2>1. \A u, rp : u # m \/ rp # p => ~Amf!Issuing(u, rp)' /\ ~Amf!Issuing(u, rp)
    BY <1>1, <1>7, <1>21 DEF Amf!Issuing
  <2>2. Amf!Issuing(m, p) /\ (Amf!Issuing(m, p)' <=> issuer'.at = "piece")
    BY <1>1, <1>2, <1>7, <1>21 DEF Amf!Issuing
  <2>3. Amf!Unissued(m, p) = Amf!LoopCnt - issuer.i
    BY <2>2 DEF Amf!Unissued
  <2>4. CASE issuer'.at = "piece"
    <3>1. Amf!LoopCnt' = Amf!LoopCnt
      BY <2>4, <1>21 DEF Amf!LoopCnt
    <3>2. Amf!Unissued(m, p)' = Amf!LoopCnt' - issuer'.i
      BY <2>2, <2>4 DEF Amf!Unissued
    <3>3. issuer'.i = issuer.i + 1
      BY <2>4, <1>21
    <3> QED  BY <2>1, <2>3, <3>1, <3>2, <3>3, <1>16, <1>32 DEF Amf!Unissued
  <2>5. CASE issuer'.at = "free"
    <3>1. Amf!Unissued(m, p)' = 0
      BY <2>2, <2>5 DEF Amf!Unissued
    <3>2. issuer.i + 1 = Amf!LoopCnt
      BY <2>5, <1>21
    <3> QED  BY <2>1, <2>3, <3>1, <3>2, <1>16, <1>32 DEF Amf!Unissued
  <2> QED  BY <2>4, <2>5, <1>21
<1>35. q \in 1 .. q
  <2>1. issuer.n # 0
    BY <1>0, <1>2 DEF Amf!AmfTypeOK
  <2> QED  BY <2>1, <1>8
<1>36. Amf!PagesUnended'
  BY <1>0, <1>8, <1>9, <1>19, <1>21, <1>27, <1>31, <1>35 DEF Amf!PagesOwned, Amf!PagesUnended
<1>37. Amf!ParamsHeld'
  BY <1>0, <1>7, <1>19, <1>27, <1>28, <1>31 DEF Amf!PagesOwned, Amf!ParamsHeld
<1>38. Amf!CountsAdd'
  <2> SUFFICES ASSUME NEW u \in Amf!Unit, NEW s \in Amf!Undone(u)', NEW rp \in Amf!Param, amf'[u].req[s].rp = rp
               PROVE  amf'[u].cnt[rp] + Amf!Cardinality(Amf!UndoneOf(u, rp)') + Amf!Unissued(u, rp)' = Amf!Pages(amf'[u].req[s].op)
    BY DEF Amf!CountsAdd
  <2>1. amf'[u].cnt[rp] = amf[u].cnt[rp]
    BY <1>28
  <2>2. s \in Amf!Undone(u) /\ amf'[u].req[s] = amf[u].req[s] =>
           amf[u].cnt[rp] + Amf!Cardinality(Amf!UndoneOf(u, rp)) + Amf!Unissued(u, rp) = Amf!Pages(amf'[u].req[s].op)
    BY <1>0 DEF Amf!PagesOwned, Amf!CountsAdd
  <2>3. CASE u # m \/ rp # p
    <3>1. ~(u = m /\ s = t)
      BY <2>3, <1>19
    <3>2. Amf!UndoneOf(u, rp)' = Amf!UndoneOf(u, rp) /\ Amf!Unissued(u, rp)' = Amf!Unissued(u, rp)
      BY <2>3, <1>29, <1>34
    <3> QED  BY <2>1, <2>2, <3>1, <3>2, <1>27
  <2>4. CASE u = m /\ rp = p
    <3>1. Amf!Pages(amf'[u].req[s].op) = Amf!LoopCnt
      <4>1. CASE s = t
        BY <2>4, <4>1, <1>19, <1>32
      <4>2. CASE s # t
        <5>1. amf[m].cnt[p] + Amf!Cardinality(Amf!UndoneOf(m, p)) + Amf!Unissued(m, p) = Amf!Pages(amf'[u].req[s].op)
          BY <2>2, <2>4, <4>2, <1>27
        <5>2. issuer.i + (Amf!LoopCnt - issuer.i) = Amf!LoopCnt
          BY <1>16, <1>32
        <5> QED  BY <5>1, <5>2, <1>31, <1>34
      <4> QED  BY <4>1, <4>2
    <3>2. amf[m].cnt[p] + (Amf!Cardinality(Amf!UndoneOf(m, p)) + 1) + (Amf!LoopCnt - issuer.i - 1) = Amf!LoopCnt
      BY <1>16, <1>26, <1>31, <1>32, <1>33
    <3> QED  BY <2>1, <2>4, <3>1, <3>2, <1>30, <1>34
  <2> QED  BY <2>3, <2>4
<1>39. Amf!IssuerApart'
  <2> SUFFICES ASSUME NEW u \in Amf!Unit, NEW s \in Amf!Undone(u)', issuer'.at = "piece"
               PROVE  amf'[u].req[s].n = q <=> u = m /\ amf'[u].req[s].rp = p
    BY <1>21 DEF Amf!IssuerApart, Amf!Issuing
  <2> QED  BY <1>0, <1>1, <1>2, <1>7, <1>8, <1>19, <1>27 DEF Amf!PagesOwned, Amf!IssuerApart, Amf!Issuing
<1>40. Amf!OneParam'
  <2>1. ASSUME NEW u \in Amf!Unit, NEW s \in Amf!Undone(u)', amf'[u].req[s].n = q
        PROVE  u = m /\ amf'[u].req[s].rp = p
    BY <2>1, <1>0, <1>1, <1>2, <1>7, <1>8, <1>19, <1>27 DEF Amf!PagesOwned, Amf!IssuerApart, Amf!Issuing
  <2>2. ASSUME NEW u \in Amf!Unit, NEW v \in Amf!Unit, NEW a \in Amf!Undone(u)', NEW b \in Amf!Undone(v)',
               amf'[v].req[b].n = amf'[u].req[a].n
        PROVE  u = v /\ amf'[v].req[b].rp = amf'[u].req[a].rp
    <3>1. CASE amf'[u].req[a].n = q
      BY <2>1, <2>2, <3>1
    <3>2. CASE amf'[u].req[a].n # q
      <4>1. a \in Amf!Undone(u) /\ amf'[u].req[a] = amf[u].req[a] /\ b \in Amf!Undone(v) /\ amf'[v].req[b] = amf[v].req[b]
        BY <2>2, <3>2, <1>19, <1>27
      <4> QED  BY <2>2, <4>1, <1>0 DEF Amf!PagesOwned, Amf!OneParam
    <3> QED  BY <3>1, <3>2
  <2> QED  BY <2>2 DEF Amf!OneParam
<1>41. Amf!IssuerOwned'
  <2>1. CASE issuer'.at = "piece"
    <3>1. issuer'.i < Amf!LoopCnt'
      <4>1. Amf!LoopCnt' = Amf!LoopCnt
        BY <2>1, <1>21 DEF Amf!LoopCnt
      <4> QED  BY <2>1, <4>1, <1>16, <1>21, <1>31, <1>32
    <3>2. amf'[m].cnt[p] + Amf!Cardinality(Amf!UndoneOf(m, p)') = issuer'.i
      <4>1. issuer'.i = issuer.i + 1 /\ amf'[m].cnt[p] = amf[m].cnt[p]
        BY <2>1, <1>21, <1>28
      <4> QED  BY <4>1, <1>16, <1>26, <1>30, <1>31, <1>33
    <3>3. Amf!UndoneOf(issuer.u, issuer.rp)' = Amf!UndoneOf(m, p)'
      BY <2>1, <1>21 DEF Amf!UndoneOf, Amf!Undone, Amf!Waits, Amf!InDevice, Amf!ScheduleLocked
    <3> QED  BY <2>1, <3>1, <3>2, <3>3, <1>7, <1>9, <1>21, <1>28, <1>31 DEF Amf!IssuerOwned
  <2>2. CASE issuer'.at = "free"
    BY <2>2 DEF Amf!IssuerOwned
  <2> QED  BY <2>1, <2>2, <1>21
<1>42. Amf!UnitsOwned'
  BY <1>24, <1>25 DEF Amf!UnitsOwned
<1> QED  BY <1>0, <1>9, <1>22, <1>36, <1>37, <1>38, <1>39, <1>40, <1>41, <1>42 DEF Amf!AmfInv, Amf!PagesOwned

\* p_bbuf_call_back_io and p_bbuf_call_back_e: the page that makes the count
\* full is the last one of its request, and no page is still to be issued, so the
\* request can end and its return parameter be free.
LEMMA CallBackInv ==
    ASSUME Amf!AmfInv, NEW m, NEW t, Amf!CallBack(m, t)
    PROVE  Amf!AmfInv'
<1>0. Amf!AmfTypeOK /\ buffered /\ Amf!UnitsOwned /\ Amf!PagesOwned /\ Amf!IssuerOwned /\ Amf!IsInjective(finished)
  BY DEF Amf!AmfInv, Amf!CallBack
<1>1. m \in Amf!Unit /\ t \in Amf!Wrapper /\ <<m, t>> \in device /\ callback.at = "none"
  BY <1>0 DEF Amf!AmfTypeOK, Amf!CallBack
<1>2. amf[m] \in Amf!UnitRecord /\ amf \in [Amf!Unit -> Amf!UnitRecord] /\ amf[m].rp_tag \in Seq(Amf!Param)
      /\ amf[m].cnt \in [Amf!Param -> Nat]
  BY <1>0, <1>1, UnitTypes
<1>3. Amf!UnitOwned(m)
  BY <1>0, <1>1 DEF Amf!UnitsOwned
<1>4. t \in Amf!InDevice(m) /\ t \in Amf!Undone(m) /\ Amf!InDevice(m) = {t} /\ t \notin Amf!Waits(m)
  <2>1. t \in Amf!InDevice(m)
    BY <1>1 DEF Amf!InDevice
  <2> QED  BY <2>1, <1>3 DEF Amf!UnitOwned, Amf!Undone
<1>5. PICK q \in 1 .. issuer.n, p \in Amf!Param, op \in {"W", "R", "T"} :
          q = amf[m].req[t].n /\ p = amf[m].req[t].rp /\ op = amf[m].req[t].op
  BY <1>0, <1>1, <1>4, UnitTypes DEF Amf!PagesOwned, Amf!PagesUnended, Amf!ParamsHeld
<1>6. q \notin Amf!ToSet(finished) /\ p \notin Amf!ToSet(amf[m].rp_tag)
  BY <1>0, <1>1, <1>4, <1>5 DEF Amf!PagesOwned, Amf!PagesUnended, Amf!ParamsHeld
<1> DEFINE last == op = "T" \/ amf[m].cnt[p] + 1 = R2PGAP
           count == amf[m].cnt[p] + (IF op = "T" THEN 0 ELSE 1)
           free == IF last THEN Append(amf[m].rp_tag, p) ELSE amf[m].rp_tag
           unit == [amf[m] EXCEPT !.cnt[p] = count, !.rp_tag = free]
<1>7. /\ buffered' = buffered /\ direct' = direct /\ main' = main /\ issuer' = issuer
      /\ device' = device \ {<<m, t>>} /\ callback' = [at |-> "idle", u |-> m, t |-> t]
  BY DEF Amf!CallBack
<1>8. amf' = [amf EXCEPT ![m] = unit]
  BY <1>5 DEF Amf!CallBack, Amf!LastPage
<1>9. finished' = IF last THEN Append(finished, q) ELSE finished
  BY <1>5 DEF Amf!CallBack, Amf!LastPage
<1>10. amf'[m] = unit /\ \A v \in Amf!Unit \ {m} : amf'[v] = amf[v]
  <2> HIDE DEF unit
  <2> QED  BY <1>1, <1>2, <1>8
<1>11. free \in Seq(Amf!Param) /\ Amf!IsInjective(free)
       /\ Amf!ToSet(free) = IF last THEN Amf!ToSet(amf[m].rp_tag) \cup {p} ELSE Amf!ToSet(amf[m].rp_tag)
  <2> HIDE DEF last
  <2>1. Amf!IsInjective(amf[m].rp_tag)
    BY <1>3 DEF Amf!UnitOwned
  <2>2. /\ Append(amf[m].rp_tag, p) \in Seq(Amf!Param) /\ Amf!IsInjective(Append(amf[m].rp_tag, p))
        /\ Amf!ToSet(Append(amf[m].rp_tag, p)) = Amf!ToSet(amf[m].rp_tag) \cup {p}
    BY <2>1, <1>2, <1>5, <1>6, AmfEnqueue
  <2> QED  BY <2>1, <2>2, <1>2
<1>12. amf[m].cnt[p] \in Nat /\ count \in Nat
  BY <1>2, <1>5
<1> HIDE DEF count, free
<1>13. /\ amf'[m].tag = amf[m].tag /\ amf'[m].rp_tag = free /\ amf'[m].queue = amf[m].queue
       /\ amf'[m].req = amf[m].req /\ amf'[m].cnt = [amf[m].cnt EXCEPT ![p] = count] /\ amf'[m].idle = amf[m].idle
  BY <1>2, <1>10 DEF Amf!UnitRecord
<1>14. amf' \in [Amf!Unit -> Amf!UnitRecord]
  <2>1. amf'[m] = [[amf[m] EXCEPT !.cnt = [amf[m].cnt EXCEPT ![p] = count]] EXCEPT !.rp_tag = free]
    BY <1>2, <1>10 DEF Amf!UnitRecord
  <2>2. \A r \in Amf!UnitRecord : \A f \in [Amf!Param -> Nat] : [r EXCEPT !.cnt = f] \in Amf!UnitRecord
    BY DEF Amf!UnitRecord
  <2>3. \A r \in Amf!UnitRecord : \A s \in Seq(Amf!Param) : [r EXCEPT !.rp_tag = s] \in Amf!UnitRecord
    BY DEF Amf!UnitRecord
  <2>4. [amf[m].cnt EXCEPT ![p] = count] \in [Amf!Param -> Nat]
    BY <1>2, <1>12
  <2>5. [amf[m] EXCEPT !.cnt = [amf[m].cnt EXCEPT ![p] = count]] \in Amf!UnitRecord
    BY <2>2, <2>4, <1>2
  <2>6. amf'[m] \in Amf!UnitRecord
    BY <2>1, <2>3, <2>5, <1>11
  <2> HIDE DEF unit
  <2> QED  BY <2>6, <1>2, <1>8, <1>10
<1> HIDE DEF unit
<1>15. issuer.n \in 0 .. MaxIssue /\ finished \in Seq(1 .. issuer.n) /\ issuer.u \in Amf!Unit /\ issuer.i \in Nat
  BY <1>0 DEF Amf!AmfTypeOK
<1>16. /\ finished' \in Seq(1 .. issuer.n) /\ Amf!IsInjective(finished')
       /\ Amf!ToSet(finished') = IF last THEN Amf!ToSet(finished) \cup {q} ELSE Amf!ToSet(finished)
  <2> HIDE DEF last
  <2>1. /\ Append(finished, q) \in Seq(1 .. issuer.n) /\ Amf!IsInjective(Append(finished, q))
        /\ Amf!ToSet(Append(finished, q)) = Amf!ToSet(finished) \cup {q}
    BY <1>0, <1>5, <1>6, <1>15, AmfEnqueue
  <2> QED  BY <2>1, <1>0, <1>9, <1>15
<1>17. Amf!AmfTypeOK'
  <2>1. callback' \in [at : {"none", "idle", "wrapper", "release"}, u : Nat, t : Nat] /\ callback'.u = m /\ callback'.t = t
        /\ callback'.at = "idle"
    BY <1>1, <1>7 DEF Amf!Unit, Amf!Wrapper
  <2> QED  BY <2>1, <1>0, <1>1, <1>7, <1>14, <1>16 DEF Amf!AmfTypeOK
<1>18. Amf!InDevice(m)' = {} /\ \A u \in Amf!Unit \ {m} : Amf!InDevice(u)' = Amf!InDevice(u)
  <2>1. Amf!InDevice(m)' = Amf!InDevice(m) \ {t}
    BY <1>1, <1>7 DEF Amf!InDevice
  <2>2. \A u \in Amf!Unit \ {m} : Amf!InDevice(u)' = Amf!InDevice(u)
    BY <1>1, <1>7 DEF Amf!InDevice
  <2> QED  BY <2>1, <2>2, <1>4
<1>19. \A u \in Amf!Unit : Amf!ScheduleLocked(u)' <=> Amf!ScheduleLocked(u)
  BY <1>7 DEF Amf!ScheduleLocked
<1>20. Amf!UnitOwned(m)' /\ Amf!Undone(m)' = Amf!Undone(m) \ {t}
  <2>1. Amf!Waits(m)' = Amf!Waits(m)
    BY <1>1, <1>13, <1>19 DEF Amf!Waits
  <2>2. Amf!Undone(m)' = Amf!Undone(m) \ {t}
    BY <2>1, <1>4, <1>18 DEF Amf!Undone
  <2>3. callback'.at = "idle" /\ callback'.u = m /\ callback'.t = t
    BY <1>7
  <2>4. ~amf[m].idle
    BY <1>3, <1>4 DEF Amf!UnitOwned
  <2>5. t \notin Amf!ToSet(amf[m].tag)
    BY <1>3, <1>4 DEF Amf!UnitOwned
  <2> QED  BY <2>1, <2>2, <2>3, <2>4, <2>5, <1>1, <1>3, <1>11, <1>13, <1>18, <1>19 DEF Amf!UnitOwned
<1>21. ASSUME NEW u \in Amf!Unit, u # m  PROVE Amf!UnitOwned(u)' /\ Amf!Undone(u)' = Amf!Undone(u) /\ amf'[u] = amf[u]
  <2>1. Amf!UnitOwned(u) /\ amf'[u] = amf[u]
    BY <1>0, <1>10, <1>21 DEF Amf!UnitsOwned
  <2>2. callback'.u = m
    BY <1>7
  <2>3. Amf!InDevice(u)' = Amf!InDevice(u) /\ (Amf!ScheduleLocked(u)' <=> Amf!ScheduleLocked(u))
    BY <1>18, <1>19, <1>21
  <2>4. ~Amf!CallingBack(u)'
    BY <2>2, <1>21 DEF Amf!CallingBack
  <2> QED  BY <2>1, <2>2, <2>3, <2>4, <1>21, UnitKept
<1>22. IsFiniteSet(Amf!UndoneOf(m, p)) /\ Amf!Cardinality(Amf!UndoneOf(m, p)) \in Nat /\ t \in Amf!UndoneOf(m, p)
  <2>1. Amf!ScheduleLocked(m) => amf[m].queue # <<>>
    BY <1>3 DEF Amf!UnitOwned
  <2> QED  BY <2>1, <1>0, <1>1, <1>4, <1>5, UndoneTypes DEF Amf!UndoneOf
<1>23. \A u \in Amf!Unit : Amf!Undone(u)' \subseteq Amf!Undone(u) /\ amf'[u].req = amf[u].req
  BY <1>13, <1>20, <1>21
<1>24. /\ \A u \in Amf!Unit : \A rp : u # m \/ rp # p => Amf!UndoneOf(u, rp)' = Amf!UndoneOf(u, rp)
       /\ Amf!UndoneOf(m, p)' = Amf!UndoneOf(m, p) \ {t}
  <2>1. ASSUME NEW u \in Amf!Unit, NEW rp, u # m \/ rp # p  PROVE Amf!UndoneOf(u, rp)' = Amf!UndoneOf(u, rp)
    <3>1. CASE u # m
      BY <3>1, <1>21 DEF Amf!UndoneOf
    <3>2. CASE u = m
      BY <3>2, <2>1, <1>5, <1>13, <1>20 DEF Amf!UndoneOf
    <3> QED  BY <3>1, <3>2
  <2>2. Amf!UndoneOf(m, p)' = Amf!UndoneOf(m, p) \ {t}
    BY <1>13, <1>20 DEF Amf!UndoneOf
  <2> QED  BY <2>1, <2>2
<1>25. Amf!Cardinality(Amf!UndoneOf(m, p)') = Amf!Cardinality(Amf!UndoneOf(m, p)) - 1
  <2> DEFINE U == Amf!UndoneOf(m, p)
             V == Amf!UndoneOf(m, p)'
  <2>1. V = U \ {t} /\ t \in U /\ IsFiniteSet(U)
    BY <1>22, <1>24
  <2> HIDE DEF U, V
  <2>2. Cardinality(V) = Cardinality(U) - 1
    BY <2>1, FS_RemoveElement
  <2>3. Amf!Cardinality(V) = Cardinality(V) /\ Amf!Cardinality(U) = Cardinality(U)
    BY AmfOperators
  <2>4. Amf!Cardinality(V) = Amf!Cardinality(U) - 1
    BY <2>2, <2>3
  <2> QED  BY <2>4 DEF U, V
<1>26. Amf!LoopCnt \in Nat /\ R2PGAP \in Nat
  BY AmfAssumption DEF Amf!LoopCnt
<1>27. \A u, rp : /\ Amf!Unissued(u, rp)' = Amf!Unissued(u, rp) /\ (Amf!Issuing(u, rp)' <=> Amf!Issuing(u, rp))
                  /\ Amf!Unissued(u, rp) \in Nat /\ (Amf!Unissued(u, rp) = 0 => ~Amf!Issuing(u, rp))
  <2>1. \A u, rp : Amf!Unissued(u, rp)' = Amf!Unissued(u, rp) /\ (Amf!Issuing(u, rp)' <=> Amf!Issuing(u, rp))
    BY <1>7 DEF Amf!Unissued, Amf!Issuing, Amf!LoopCnt
  <2>2. issuer.at = "piece" => issuer.i < Amf!LoopCnt
    BY <1>0 DEF Amf!IssuerOwned
  <2>3. issuer.at = "piece" => Amf!LoopCnt - issuer.i \in Nat /\ Amf!LoopCnt - issuer.i # 0
    BY <2>2, <1>15, <1>26
  <2>4. \A u, rp : Amf!Unissued(u, rp) \in Nat /\ (Amf!Unissued(u, rp) = 0 => ~Amf!Issuing(u, rp))
    BY <2>3 DEF Amf!Unissued, Amf!Issuing
  <2> QED  BY <2>1, <2>4
<1>28. amf[m].cnt[p] + Amf!Cardinality(Amf!UndoneOf(m, p)) + Amf!Unissued(m, p) = Amf!Pages(op)
  BY <1>0, <1>1, <1>4, <1>5 DEF Amf!PagesOwned, Amf!CountsAdd
\* The last page: no other page of the request is left.
<1>29. ASSUME last  PROVE Amf!UndoneOf(m, p) = {t} /\ ~Amf!Issuing(m, p)
  <2>1. Amf!Cardinality(Amf!UndoneOf(m, p)) # 0
    BY <1>22, AmfOperators, FS_EmptySet
  <2>2. Amf!Pages(op) = IF op = "T" THEN 1 ELSE R2PGAP
    BY DEF Amf!Pages
  <2>3. Amf!Cardinality(Amf!UndoneOf(m, p)) = 1 /\ Amf!Unissued(m, p) = 0
    <3>1. CASE op = "T"
      BY <3>1, <2>1, <2>2, <1>12, <1>22, <1>27, <1>28
    <3>2. CASE op # "T"
      BY <3>2, <2>1, <2>2, <1>12, <1>22, <1>26, <1>27, <1>28, <1>29
    <3> QED  BY <3>1, <3>2
  <2>4. Amf!UndoneOf(m, p) = {t}
    <3>1. PICK x : Amf!UndoneOf(m, p) = {x}
      BY <2>3, <1>22, AmfOperators, FS_Singleton
    <3> QED  BY <3>1, <1>22
  <2> QED  BY <2>3, <2>4, <1>27
<1>30. ASSUME last, NEW u \in Amf!Unit, NEW s \in Amf!Undone(u)'
       PROVE  /\ u = m => amf[u].req[s].rp # p
              /\ amf[u].req[s].n # q
  <2>1. s \in Amf!Undone(u) /\ (u = m => s # t)
    BY <1>20, <1>23
  <2>2. u = m => amf[u].req[s].rp # p
    BY <2>1, <1>29, <1>30 DEF Amf!UndoneOf
  <2>3. amf[u].req[s].n = q => u = m /\ amf[u].req[s].rp = p
    BY <2>1, <1>0, <1>1, <1>4, <1>5 DEF Amf!PagesOwned, Amf!OneParam
  <2> QED  BY <2>2, <2>3
<1>31. Amf!PagesUnended'
  <2> SUFFICES ASSUME NEW u \in Amf!Unit, NEW s \in Amf!Undone(u)'
               PROVE  amf[u].req[s].n \in 1 .. issuer.n /\ amf[u].req[s].n \notin Amf!ToSet(finished')
    BY <1>7, <1>23 DEF Amf!PagesUnended
  <2>1. amf[u].req[s].n \in 1 .. issuer.n /\ amf[u].req[s].n \notin Amf!ToSet(finished)
    BY <1>0, <1>23 DEF Amf!PagesOwned, Amf!PagesUnended
  <2> HIDE DEF last
  <2> QED  BY <2>1, <1>16, <1>30
<1>32. Amf!ParamsHeld'
  <2> SUFFICES ASSUME NEW u \in Amf!Unit, NEW s \in Amf!Undone(u)'
               PROVE  amf[u].req[s].rp \in Amf!Param /\ amf[u].req[s].rp \notin Amf!ToSet(amf'[u].rp_tag)
    BY <1>23 DEF Amf!ParamsHeld
  <2>1. amf[u].req[s].rp \in Amf!Param /\ amf[u].req[s].rp \notin Amf!ToSet(amf[u].rp_tag)
    BY <1>0, <1>23 DEF Amf!PagesOwned, Amf!ParamsHeld
  <2> HIDE DEF last
  <2>2. CASE u = m
    BY <2>1, <2>2, <1>11, <1>13, <1>30
  <2>3. CASE u # m
    BY <2>1, <2>3, <1>21
  <2> QED  BY <2>2, <2>3
<1>33. Amf!OneParam'
  BY <1>0, <1>23 DEF Amf!PagesOwned, Amf!OneParam
<1>34. Amf!IssuerApart'
  BY <1>0, <1>7, <1>23, <1>27 DEF Amf!PagesOwned, Amf!IssuerApart
<1>35. ~last => count = amf[m].cnt[p] + 1
  BY DEF count
<1>36. \A rp \in Amf!Param : rp # p => amf'[m].cnt[rp] = amf[m].cnt[rp]
  BY <1>2, <1>13
<1>37. amf'[m].cnt[p] = count
  BY <1>2, <1>5, <1>13
<1> HIDE DEF last
<1>38. Amf!CountsAdd'
  <2> SUFFICES ASSUME NEW u \in Amf!Unit, NEW s \in Amf!Undone(u)', NEW rp \in Amf!Param, amf[u].req[s].rp = rp
               PROVE  amf'[u].cnt[rp] + Amf!Cardinality(Amf!UndoneOf(u, rp)') + Amf!Unissued(u, rp)' = Amf!Pages(amf[u].req[s].op)
    BY <1>23 DEF Amf!CountsAdd
  <2>1. amf[u].cnt[rp] + Amf!Cardinality(Amf!UndoneOf(u, rp)) + Amf!Unissued(u, rp) = Amf!Pages(amf[u].req[s].op)
    BY <1>0, <1>23 DEF Amf!PagesOwned, Amf!CountsAdd
  <2>2. CASE u # m \/ rp # p
    <3>1. amf'[u].cnt[rp] = amf[u].cnt[rp] /\ Amf!UndoneOf(u, rp)' = Amf!UndoneOf(u, rp)
      BY <2>2, <1>21, <1>24, <1>36
    <3> QED  BY <2>1, <3>1, <1>27
  <2>3. CASE u = m /\ rp = p
    <3>1. ~last
      BY <2>3, <1>30
    <3>2. (amf[m].cnt[p] + 1) + (Amf!Cardinality(Amf!UndoneOf(m, p)) - 1) + Amf!Unissued(m, p)
             = amf[m].cnt[p] + Amf!Cardinality(Amf!UndoneOf(m, p)) + Amf!Unissued(m, p)
      BY <1>12, <1>22, <1>27
    <3> QED  BY <2>1, <2>3, <3>1, <3>2, <1>25, <1>27, <1>35, <1>37
  <2> QED  BY <2>2, <2>3
<1>39. Amf!IssuerOwned'
  <2>1. PICK w \in Amf!Unit : w = issuer.u
    BY <1>15
  <2>2. ASSUME issuer.at = "piece"
        PROVE  /\ issuer.rp \in Amf!Param /\ issuer.rp \notin Amf!ToSet(amf'[w].rp_tag)
               /\ amf'[w].cnt[issuer.rp] + Amf!Cardinality(Amf!UndoneOf(w, issuer.rp)') = issuer.i
               /\ issuer.i < Amf!LoopCnt
    <3>1. /\ issuer.rp \in Amf!Param /\ issuer.rp \notin Amf!ToSet(amf[w].rp_tag)
          /\ amf[w].cnt[issuer.rp] + Amf!Cardinality(Amf!UndoneOf(w, issuer.rp)) = issuer.i
          /\ issuer.i < Amf!LoopCnt
      BY <1>0, <2>1, <2>2 DEF Amf!IssuerOwned
    <3>2. PICK rp \in Amf!Param : rp = issuer.rp
      BY <3>1
    <3>3. CASE w # m \/ rp # p
      <4>1. amf'[w].cnt[rp] = amf[w].cnt[rp] /\ Amf!UndoneOf(w, rp)' = Amf!UndoneOf(w, rp)
        BY <3>3, <2>1, <1>21, <1>24, <1>36
      <4>2. rp \notin Amf!ToSet(amf'[w].rp_tag)
        BY <3>1, <3>2, <3>3, <2>1, <1>11, <1>13, <1>21
      <4>3. Amf!UndoneOf(w, issuer.rp)' = Amf!UndoneOf(w, rp)'
        BY <3>2, <1>7 DEF Amf!UndoneOf
      <4> QED  BY <3>1, <3>2, <4>1, <4>2, <4>3
    <3>4. CASE w = m /\ rp = p
      <4>1. ~last
        BY <3>2, <3>4, <2>1, <2>2, <1>29 DEF Amf!Issuing
      <4>2. p \notin Amf!ToSet(amf'[m].rp_tag)
        BY <4>1, <1>6, <1>11, <1>13
      <4>3. amf'[m].cnt[p] + Amf!Cardinality(Amf!UndoneOf(m, p)') = amf[m].cnt[p] + Amf!Cardinality(Amf!UndoneOf(m, p))
        BY <4>1, <1>12, <1>22, <1>25, <1>35, <1>37
      <4>4. Amf!UndoneOf(w, issuer.rp)' = Amf!UndoneOf(m, p)'
        BY <3>2, <3>4, <1>7 DEF Amf!UndoneOf
      <4> QED  BY <3>1, <3>2, <3>4, <4>2, <4>3, <4>4
    <3> QED  BY <3>3, <3>4
  <2>3. ASSUME issuer.at # "free"  PROVE issuer.n \notin Amf!ToSet(finished')
    <3>1. issuer.n \notin Amf!ToSet(finished)
      BY <1>0, <2>3 DEF Amf!IssuerOwned
    <3>2. ASSUME last  PROVE issuer.n # q
      <4>1. issuer.at = "rp" => q # issuer.n
        BY <1>0, <1>1, <1>4, <1>5 DEF Amf!PagesOwned, Amf!IssuerApart
      <4>2. issuer.at = "piece" => (q = issuer.n <=> Amf!Issuing(m, p))
        BY <1>0, <1>1, <1>4, <1>5 DEF Amf!PagesOwned, Amf!IssuerApart
      <4>3. issuer.at \in {"free", "rp", "piece"}
        BY <1>0 DEF Amf!AmfTypeOK
      <4> QED  BY <2>3, <3>2, <4>1, <4>2, <4>3, <1>29
    <3> QED  BY <3>1, <3>2, <1>16
  <2>4. Amf!LoopCnt' = Amf!LoopCnt
    BY <1>7 DEF Amf!LoopCnt
  <2>5. Amf!UndoneOf(issuer.u, issuer.rp)' = Amf!UndoneOf(w, issuer.rp)'
    BY <2>1, <1>7 DEF Amf!UndoneOf, Amf!Undone, Amf!Waits, Amf!InDevice, Amf!ScheduleLocked
  <2> QED  BY <2>1, <2>2, <2>3, <2>4, <2>5, <1>7 DEF Amf!IssuerOwned
<1>40. Amf!UnitsOwned'
  BY <1>20, <1>21 DEF Amf!UnitsOwned
<1> QED  BY <1>0, <1>7, <1>16, <1>17, <1>31, <1>32, <1>33, <1>34, <1>38, <1>39, <1>40 DEF Amf!AmfInv, Amf!PagesOwned

-----------------------------------------------------------------------------
(* The AMF back end without block buffers.                                 *)

\* get_amf_wrapper: the request takes a free wrapper, which has no page with the
\* library.
LEMMA GetAmfWrapperInv ==
    ASSUME Amf!AmfInv, Amf!GetAmfWrapper
    PROVE  Amf!AmfInv'
<1>0. Amf!AmfTypeOK /\ ~buffered /\ Amf!DirectOwned /\ Amf!IsInjective(finished)
  BY DEF Amf!AmfInv, Amf!GetAmfWrapper
<1>1. direct.wrap_q # <<>> /\ issuer.at = "rp"
  BY DEF Amf!GetAmfWrapper
<1>2. direct \in Amf!DirectRecord
  BY <1>0 DEF Amf!AmfTypeOK
<1>3. direct.wrap_q \in Seq(Amf!DirectWrapper) /\ direct.req \in [Amf!DirectWrapper -> 0 .. MaxIssue]
      /\ direct.cnt \in [Amf!DirectWrapper -> Nat]
  BY <1>2 DEF Amf!DirectRecord
<1>4. /\ Tail(direct.wrap_q) \in Seq(Amf!DirectWrapper) /\ Amf!IsInjective(Tail(direct.wrap_q))
      /\ Head(direct.wrap_q) \in Amf!DirectWrapper
      /\ Amf!ToSet(direct.wrap_q) = Amf!ToSet(Tail(direct.wrap_q)) \cup {Head(direct.wrap_q)}
      /\ Head(direct.wrap_q) \notin Amf!ToSet(Tail(direct.wrap_q))
  BY <1>0, <1>1, <1>3, AmfDequeued DEF Amf!DirectOwned
<1>5. PICK w \in Amf!DirectWrapper : w = Head(direct.wrap_q)
  BY <1>4
<1>6. PICK q \in 1 .. issuer.n : q = issuer.n /\ q \in 0 .. MaxIssue
  <2>1. issuer.n \in 0 .. MaxIssue /\ issuer.n # 0
    BY <1>0, <1>1 DEF Amf!AmfTypeOK
  <2> QED  BY <2>1
<1>7. /\ buffered' = buffered /\ amf' = amf /\ main' = main /\ device' = device
      /\ callback' = callback /\ finished' = finished
      /\ direct' = [direct EXCEPT !.wrap_q = Tail(@), !.req[w] = q, !.cnt[w] = 0]
      /\ issuer' = [issuer EXCEPT !.at = "piece", !.rp = w]
  BY <1>5, <1>6 DEF Amf!GetAmfWrapper
<1>8. direct'.wrap_q = Tail(direct.wrap_q) /\ direct'.req = [direct.req EXCEPT ![w] = q]
      /\ direct'.cnt = [direct.cnt EXCEPT ![w] = 0]
  BY <1>2, <1>7 DEF Amf!DirectRecord
<1>9. direct' \in Amf!DirectRecord
  <2>1. direct' = [[[direct EXCEPT !.wrap_q = Tail(direct.wrap_q)] EXCEPT !.req = [direct.req EXCEPT ![w] = q]]
                      EXCEPT !.cnt = [direct.cnt EXCEPT ![w] = 0]]
    BY <1>2, <1>7 DEF Amf!DirectRecord
  <2>2. [direct.req EXCEPT ![w] = q] \in [Amf!DirectWrapper -> 0 .. MaxIssue]
    BY <1>3, <1>6
  <2>3. [direct.cnt EXCEPT ![w] = 0] \in [Amf!DirectWrapper -> Nat]
    BY <1>3
  <2>4. \A r \in Amf!DirectRecord : \A s \in Seq(Amf!DirectWrapper) : \A f \in [Amf!DirectWrapper -> 0 .. MaxIssue] :
          \A g \in [Amf!DirectWrapper -> Nat] : [[[r EXCEPT !.wrap_q = s] EXCEPT !.req = f] EXCEPT !.cnt = g] \in Amf!DirectRecord
    BY DEF Amf!DirectRecord
  <2> QED  BY <2>1, <2>2, <2>3, <2>4, <1>2, <1>4
<1>10. /\ issuer'.at = "piece" /\ issuer'.n = issuer.n /\ issuer'.i = 0 /\ issuer'.rp = w /\ issuer'.op = issuer.op
       /\ issuer' \in [at : {"free", "rp", "piece"}, n : 0 .. MaxIssue, u : Amf!Unit, op : {"W", "R", "T"}, rp : Int, i : Nat]
  <2>1. w \in Int /\ issuer.i = 0
    BY <1>0, <1>1, <1>5 DEF Amf!AmfTypeOK, Amf!DirectWrapper
  <2> QED  BY <2>1, <1>0, <1>7 DEF Amf!AmfTypeOK
<1>11. Amf!AmfTypeOK'
  <2>1. issuer.n # 0
    BY <1>0, <1>1 DEF Amf!AmfTypeOK
  <2> QED  BY <2>1, <1>0, <1>7, <1>9, <1>10 DEF Amf!AmfTypeOK
<1>12. Amf!WrapperBusy(w)' /\ ~Amf!WrapperBusy(w)
       /\ \A v \in Amf!DirectWrapper \ {w} : Amf!WrapperBusy(v)' <=> Amf!WrapperBusy(v)
  <2>1. ~(callback.at = "release" /\ callback.u = w)
    BY <1>0, <1>4, <1>5 DEF Amf!DirectOwned
  <2> QED  BY <2>1, <1>4, <1>5, <1>7, <1>8 DEF Amf!WrapperBusy
<1>13. \A v \in Amf!DirectWrapper : Amf!InFlight(v)' = Amf!InFlight(v)
  BY <1>7 DEF Amf!InFlight
<1>14. Amf!InFlight(w) = {} /\ Amf!Cardinality(Amf!InFlight(w)) = 0
  <2>1. Amf!InFlight(w) = {}
    BY <1>0, <1>12 DEF Amf!DirectOwned, Amf!WrapperOwned
  <2> QED  BY <2>1, AmfOperators, FS_EmptySet
<1>15. /\ direct'.req[w] = q /\ direct'.cnt[w] = 0
       /\ \A v \in Amf!DirectWrapper \ {w} : direct'.req[v] = direct.req[v] /\ direct'.cnt[v] = direct.cnt[v]
  BY <1>3, <1>8
<1>16. q \notin Amf!ToSet(finished) /\ issuer.op # "T"
       /\ \A v \in Amf!DirectWrapper : Amf!WrapperBusy(v) => direct.req[v] # q
  BY <1>0, <1>1, <1>6 DEF Amf!DirectOwned, Amf!WrapperOwned
<1>17. Amf!WrapperOwned(w)'
  <2>1. Amf!IssuingDirect(w)'
    BY <1>10 DEF Amf!IssuingDirect
  <2>2. Amf!Cardinality(Amf!InFlight(w)') = 0
    BY <1>13, <1>14
  <2> QED  BY <2>1, <2>2, <1>6, <1>7, <1>10, <1>12, <1>15, <1>16 DEF Amf!WrapperOwned
<1>18. ASSUME NEW v \in Amf!DirectWrapper, v # w  PROVE Amf!WrapperOwned(v)'
  <2>1. Amf!WrapperOwned(v)
    BY <1>0 DEF Amf!DirectOwned
  <2>2. ~Amf!IssuingDirect(v)' /\ ~Amf!IssuingDirect(v)
    BY <1>1, <1>10, <1>18 DEF Amf!IssuingDirect
  <2>3. Amf!InFlight(v)' = Amf!InFlight(v) /\ (Amf!WrapperBusy(v)' <=> Amf!WrapperBusy(v))
        /\ direct'.req[v] = direct.req[v] /\ direct'.cnt[v] = direct.cnt[v]
    BY <1>12, <1>13, <1>15, <1>18
  <2>4. finished' = finished
    BY <1>7
  <2>5. Amf!WrapperBusy(v) => direct.req[v] # q
    BY <1>16
  <2> QED  BY <2>1, <2>2, <2>3, <2>4, <2>5, <1>6, <1>10, <1>18 DEF Amf!WrapperOwned
<1>19. Amf!WrappersApart'
  BY <1>0, <1>12, <1>15, <1>16 DEF Amf!DirectOwned, Amf!WrappersApart
<1>20. Amf!InFlight(issuer.rp)' = {}
  BY <1>10, <1>13, <1>14 DEF Amf!InFlight
<1>21. Amf!WrapperBusy(issuer.rp)'
  BY <1>10, <1>12 DEF Amf!WrapperBusy
<1>22. 0 < R2PGAP
  BY AmfAssumption
<1>23. Amf!DirectOwned'
  <2>1. Amf!IsInjective(direct'.wrap_q) /\ (callback'.at = "release" => callback'.u \notin Amf!ToSet(direct'.wrap_q))
    BY <1>0, <1>4, <1>7, <1>8 DEF Amf!DirectOwned
  <2>2. \A v \in Amf!DirectWrapper : Amf!WrapperOwned(v)'
    BY <1>17, <1>18
  <2>3. issuer'.n \notin Amf!ToSet(finished') /\ issuer'.op # "T"
    BY <1>6, <1>7, <1>10, <1>16
  <2> QED  BY <2>1, <2>2, <2>3, <1>5, <1>10, <1>19, <1>20, <1>21, <1>22 DEF Amf!DirectOwned
<1> QED  BY <1>0, <1>7, <1>11, <1>23 DEF Amf!AmfInv

\* __issue: one more page of the request is with the library.
LEMMA IssueDirectInv ==
    ASSUME Amf!AmfInv, Amf!IssueDirect
    PROVE  Amf!AmfInv'
<1>0. Amf!AmfTypeOK /\ ~buffered /\ Amf!DirectOwned /\ Amf!IsInjective(finished)
  BY DEF Amf!AmfInv, Amf!IssueDirect
<1>1. issuer.at = "piece" /\ issuer.i < R2PGAP /\ issuer.i \in Nat /\ R2PGAP \in Nat
  BY <1>0, AmfAssumption DEF Amf!IssueDirect, Amf!DirectOwned, Amf!AmfTypeOK
<1>2. PICK w \in Amf!DirectWrapper : w = issuer.rp
  BY <1>0, <1>1 DEF Amf!DirectOwned
<1>3. PICK k \in 0 .. R2PGAP - 1 : k = issuer.i
  BY <1>1
<1>4. /\ buffered' = buffered /\ amf' = amf /\ direct' = direct /\ main' = main
      /\ callback' = callback /\ finished' = finished
      /\ device' = device \cup {<<w, k>>}
      /\ issuer' = IF issuer.i + 1 = R2PGAP THEN [Amf!Quiet EXCEPT !.n = issuer.n] ELSE [issuer EXCEPT !.i = @ + 1]
  BY <1>2, <1>3 DEF Amf!IssueDirect
<1>5. /\ issuer'.n = issuer.n /\ issuer'.at \in {"free", "piece"}
      /\ issuer' \in [at : {"free", "rp", "piece"}, n : 0 .. MaxIssue, u : Amf!Unit, op : {"W", "R", "T"}, rp : Int, i : Nat]
      /\ issuer'.at = "piece" => issuer'.rp = w /\ issuer'.op = issuer.op /\ issuer'.i = k + 1 /\ k + 1 # R2PGAP
      /\ issuer'.at = "free" => k + 1 = R2PGAP
  <2>0. issuer.n \in 0 .. MaxIssue
    BY <1>0 DEF Amf!AmfTypeOK
  <2>1. CASE issuer.i + 1 = R2PGAP
    <3>1. issuer' = [at |-> "free", n |-> issuer.n, u |-> 0, op |-> "W", rp |-> -1, i |-> 0]
      BY <2>1, <1>4 DEF Amf!Quiet, Amf!None
    <3>2. 0 \in Amf!Unit /\ -1 \in Int /\ 0 \in Nat
      BY AmfAssumption DEF Amf!Unit
    <3> QED  BY <2>0, <2>1, <3>1, <3>2, <1>3
  <2>2. CASE issuer.i + 1 # R2PGAP
    <3>1. issuer' = [issuer EXCEPT !.i = @ + 1]
      BY <2>2, <1>4
    <3>2. issuer \in [at : {"free", "rp", "piece"}, n : 0 .. MaxIssue, u : Amf!Unit, op : {"W", "R", "T"}, rp : Int, i : Nat]
      BY <1>0 DEF Amf!AmfTypeOK
    <3>3. issuer.i + 1 \in Nat /\ issuer.i = k
      BY <1>1, <1>3
    <3>4. /\ issuer'.n = issuer.n /\ issuer'.at = issuer.at /\ issuer'.rp = issuer.rp /\ issuer'.op = issuer.op
          /\ issuer'.i = issuer.i + 1
      BY <3>1, <3>2
    <3>5. issuer' \in [at : {"free", "rp", "piece"}, n : 0 .. MaxIssue, u : Amf!Unit, op : {"W", "R", "T"}, rp : Int, i : Nat]
      BY <3>1, <3>2, <3>3
    <3> QED  BY <2>2, <3>3, <3>4, <3>5, <1>1, <1>2
  <2> QED  BY <2>1, <2>2
<1>6. Amf!AmfTypeOK'
  <2>1. device' \subseteq Amf!DirectWrapper \X (0 .. R2PGAP - 1)
    BY <1>0, <1>2, <1>3, <1>4 DEF Amf!AmfTypeOK
  <2>2. issuer.n # 0
    BY <1>0, <1>1 DEF Amf!AmfTypeOK
  <2> QED  BY <2>1, <2>2, <1>0, <1>4, <1>5 DEF Amf!AmfTypeOK
<1>7. \A v : Amf!WrapperBusy(v)' <=> Amf!WrapperBusy(v)
  BY <1>4 DEF Amf!WrapperBusy
<1>8. Amf!InFlight(w)' = Amf!InFlight(w) \cup {k} /\ \A v \in Amf!DirectWrapper \ {w} : Amf!InFlight(v)' = Amf!InFlight(v)
  BY <1>2, <1>3, <1>4 DEF Amf!InFlight
<1>9. Amf!WrapperBusy(w) /\ \A i \in Amf!InFlight(w) : i < k
  BY <1>0, <1>1, <1>2, <1>3 DEF Amf!DirectOwned
<1>10. \A v \in Amf!DirectWrapper : Amf!InFlight(v) \subseteq 0 .. R2PGAP - 1
  BY DEF Amf!InFlight
<1>11. IsFiniteSet(Amf!InFlight(w)) /\ Amf!Cardinality(Amf!InFlight(w)) \in Nat
  <2>1. 0 \in Int /\ R2PGAP - 1 \in Int
    BY <1>1
  <2>2. IsFiniteSet(0 .. R2PGAP - 1)
    BY <2>1, FS_Interval
  <2> QED  BY <2>2, <1>2, <1>10, FS_Subset, FS_CardinalityType, AmfOperators
<1>12. Amf!Cardinality(Amf!InFlight(w)') = Amf!Cardinality(Amf!InFlight(w)) + 1
  <2>1. k \notin Amf!InFlight(w)
    BY <1>3, <1>9
  <2> QED  BY <2>1, <1>8, <1>11, AmfOperators, FS_AddElement
<1>13. Amf!WrapperOwned(w) /\ Amf!IssuingDirect(w)
  BY <1>0, <1>1, <1>2 DEF Amf!DirectOwned, Amf!IssuingDirect
<1>14. direct.cnt[w] + Amf!Cardinality(Amf!InFlight(w)) = k /\ direct.cnt[w] \in Nat
  <2>1. direct.cnt[w] \in Nat
    BY <1>0, <1>2 DEF Amf!AmfTypeOK, Amf!DirectRecord
  <2> QED  BY <2>1, <1>3, <1>9, <1>13 DEF Amf!WrapperOwned
<1>15. Amf!WrapperOwned(w)'
  <2>1. direct'.cnt[w] + Amf!Cardinality(Amf!InFlight(w)') = k + 1
    BY <1>3, <1>4, <1>11, <1>12, <1>14
  <2>2. Amf!IssuingDirect(w)' <=> issuer'.at = "piece"
    BY <1>5 DEF Amf!IssuingDirect
  <2>3. direct'.cnt[w] + Amf!Cardinality(Amf!InFlight(w)') = IF Amf!IssuingDirect(w)' THEN issuer'.i ELSE R2PGAP
    BY <2>1, <2>2, <1>5
  <2>4. direct'.req[w] \in 1 .. issuer'.n /\ direct'.req[w] \notin Amf!ToSet(finished') /\ issuer'.at # "rp"
    BY <1>4, <1>5, <1>9, <1>13 DEF Amf!WrapperOwned
  <2>5. issuer'.at = "piece" => (direct'.req[w] = issuer'.n <=> issuer'.rp = w)
    BY <1>1, <1>2, <1>4, <1>5, <1>9, <1>13 DEF Amf!WrapperOwned
  <2>6. Amf!WrapperBusy(w)'
    BY <1>7, <1>9
  <2> QED  BY <2>3, <2>4, <2>5, <2>6 DEF Amf!WrapperOwned
<1>16. ASSUME NEW v \in Amf!DirectWrapper, v # w  PROVE Amf!WrapperOwned(v)'
  <2>1. Amf!WrapperOwned(v) /\ Amf!InFlight(v)' = Amf!InFlight(v) /\ (Amf!WrapperBusy(v)' <=> Amf!WrapperBusy(v))
    BY <1>0, <1>7, <1>8, <1>16 DEF Amf!DirectOwned
  <2>2. ~Amf!IssuingDirect(v)' /\ ~Amf!IssuingDirect(v)
    BY <1>2, <1>5, <1>16 DEF Amf!IssuingDirect
  <2>3. direct' = direct /\ finished' = finished
    BY <1>4
  <2> QED  BY <2>1, <2>2, <2>3, <1>1, <1>2, <1>5, <1>16 DEF Amf!WrapperOwned
<1>17. Amf!WrappersApart'
  BY <1>0, <1>4, <1>7 DEF Amf!DirectOwned, Amf!WrappersApart
<1>18. issuer'.at = "piece" => /\ issuer'.rp \in Amf!DirectWrapper /\ Amf!WrapperBusy(issuer.rp)' /\ issuer'.i < R2PGAP
                               /\ \A i \in Amf!InFlight(issuer.rp)' : i < issuer'.i
  <2> SUFFICES ASSUME issuer'.at = "piece"
               PROVE  /\ issuer'.rp \in Amf!DirectWrapper /\ Amf!WrapperBusy(issuer.rp)' /\ issuer'.i < R2PGAP
                      /\ \A i \in Amf!InFlight(issuer.rp)' : i < issuer'.i
    OBVIOUS
  <2>1. Amf!WrapperBusy(issuer.rp)'
    BY <1>5, <1>7, <1>9 DEF Amf!WrapperBusy
  <2>2. Amf!InFlight(issuer.rp)' = Amf!InFlight(w)'
    BY <1>5 DEF Amf!InFlight
  <2>3. issuer'.i = k + 1 /\ k + 1 < R2PGAP
    BY <1>1, <1>3, <1>5
  <2>4. \A i \in Amf!InFlight(w) \cup {k} : i < k + 1
    BY <1>2, <1>3, <1>9, <1>10
  <2> QED  BY <2>1, <2>2, <2>3, <2>4, <1>2, <1>5, <1>8
<1>19. Amf!DirectOwned'
  <2>1. \A v \in Amf!DirectWrapper : Amf!WrapperOwned(v)'
    BY <1>15, <1>16
  <2>2. issuer'.at # "free" => issuer'.n \notin Amf!ToSet(finished') /\ issuer'.op # "T"
    BY <1>0, <1>1, <1>4, <1>5 DEF Amf!DirectOwned
  <2>3. Amf!IsInjective(direct'.wrap_q) /\ (callback'.at = "release" => callback'.u \notin Amf!ToSet(direct'.wrap_q))
    BY <1>0, <1>4 DEF Amf!DirectOwned
  <2> QED  BY <2>1, <2>2, <2>3, <1>17, <1>18 DEF Amf!DirectOwned
<1> QED  BY <1>0, <1>4, <1>6, <1>19 DEF Amf!AmfInv

\* normal_call_back_IO: when the count is full the request ends, and no page of it
\* is with the library or still to be issued.
LEMMA CallBackDirectInv ==
    ASSUME Amf!AmfInv, NEW w, NEW k, Amf!CallBackDirect(w, k)
    PROVE  Amf!AmfInv'
<1>0. Amf!AmfTypeOK /\ ~buffered /\ Amf!DirectOwned /\ Amf!IsInjective(finished)
  BY DEF Amf!AmfInv, Amf!CallBackDirect
<1>1. w \in Amf!DirectWrapper /\ k \in 0 .. R2PGAP - 1 /\ <<w, k>> \in device /\ callback.at = "none"
  BY <1>0 DEF Amf!AmfTypeOK, Amf!CallBackDirect
<1>2. direct \in Amf!DirectRecord /\ direct.wrap_q \in Seq(Amf!DirectWrapper)
      /\ direct.req \in [Amf!DirectWrapper -> 0 .. MaxIssue] /\ direct.cnt \in [Amf!DirectWrapper -> Nat]
  BY <1>0 DEF Amf!AmfTypeOK, Amf!DirectRecord
<1>3. k \in Amf!InFlight(w) /\ Amf!WrapperBusy(w) /\ Amf!WrapperOwned(w)
  <2>1. k \in Amf!InFlight(w) /\ Amf!WrapperOwned(w)
    BY <1>0, <1>1 DEF Amf!InFlight, Amf!DirectOwned
  <2> QED  BY <2>1 DEF Amf!WrapperOwned
<1>4. PICK q \in 1 .. issuer.n : q = direct.req[w] /\ q \notin Amf!ToSet(finished)
  BY <1>3 DEF Amf!WrapperOwned
<1> DEFINE last == direct.cnt[w] + 1 = R2PGAP
<1>5. /\ buffered' = buffered /\ amf' = amf /\ main' = main /\ issuer' = issuer /\ device' = device \ {<<w, k>>}
      /\ direct' = [direct EXCEPT !.cnt[w] = @ + 1]
  BY DEF Amf!CallBackDirect
<1>6. direct'.wrap_q = direct.wrap_q /\ direct'.req = direct.req /\ direct'.cnt = [direct.cnt EXCEPT ![w] = @ + 1]
  BY <1>2, <1>5 DEF Amf!DirectRecord
<1>7. direct.cnt[w] \in Nat /\ direct'.cnt[w] = direct.cnt[w] + 1 /\ \A v \in Amf!DirectWrapper \ {w} : direct'.cnt[v] = direct.cnt[v]
  BY <1>1, <1>2, <1>6
<1>8. direct' \in Amf!DirectRecord
  <2>1. [direct.cnt EXCEPT ![w] = @ + 1] \in [Amf!DirectWrapper -> Nat]
    BY <1>1, <1>2
  <2>2. direct' = [direct EXCEPT !.cnt = [direct.cnt EXCEPT ![w] = @ + 1]]
    BY <1>2, <1>5 DEF Amf!DirectRecord
  <2>3. \A f \in [Amf!DirectWrapper -> Nat] : [direct EXCEPT !.cnt = f] \in Amf!DirectRecord
    BY <1>2 DEF Amf!DirectRecord
  <2> QED  BY <2>1, <2>2, <2>3
<1>9. IF last THEN finished' = Append(finished, q) /\ callback' = [at |-> "release", u |-> w, t |-> 0]
              ELSE finished' = finished /\ callback' = callback
  BY <1>4, <1>7 DEF Amf!CallBackDirect
<1>10. issuer.n \in 0 .. MaxIssue /\ finished \in Seq(1 .. issuer.n) /\ R2PGAP \in Nat /\ issuer.i \in Nat
  BY <1>0, AmfAssumption DEF Amf!AmfTypeOK
<1> HIDE DEF last
<1>11. /\ finished' \in Seq(1 .. issuer.n) /\ Amf!IsInjective(finished')
       /\ Amf!ToSet(finished') = IF last THEN Amf!ToSet(finished) \cup {q} ELSE Amf!ToSet(finished)
  <2>1. /\ Append(finished, q) \in Seq(1 .. issuer.n) /\ Amf!IsInjective(Append(finished, q))
        /\ Amf!ToSet(Append(finished, q)) = Amf!ToSet(finished) \cup {q}
    BY <1>0, <1>4, <1>10, AmfEnqueue
  <2> QED  BY <2>1, <1>0, <1>9, <1>10
<1>12. /\ callback' \in [at : {"none", "idle", "wrapper", "release"}, u : Nat, t : Nat]
       /\ callback'.at = IF last THEN "release" ELSE "none"
       /\ last => callback'.u = w
  <2>1. w \in Nat
    BY <1>1 DEF Amf!DirectWrapper
  <2> QED  BY <2>1, <1>0, <1>1, <1>9 DEF Amf!AmfTypeOK
<1>13. Amf!AmfTypeOK'
  BY <1>0, <1>1, <1>5, <1>8, <1>11, <1>12 DEF Amf!AmfTypeOK
<1>14. /\ Amf!InFlight(w)' = Amf!InFlight(w) \ {k}
       /\ \A v \in Amf!DirectWrapper \ {w} : Amf!InFlight(v)' = Amf!InFlight(v)
  BY <1>1, <1>5 DEF Amf!InFlight
<1>15. IsFiniteSet(Amf!InFlight(w)) /\ Amf!Cardinality(Amf!InFlight(w)) \in Nat
  <2>1. 0 \in Int /\ R2PGAP - 1 \in Int
    BY <1>10
  <2>2. IsFiniteSet(0 .. R2PGAP - 1)
    BY <2>1, FS_Interval
  <2>3. Amf!InFlight(w) \subseteq 0 .. R2PGAP - 1
    BY DEF Amf!InFlight
  <2> QED  BY <2>2, <2>3, FS_Subset, FS_CardinalityType, AmfOperators
<1>16. Amf!Cardinality(Amf!InFlight(w)') = Amf!Cardinality(Amf!InFlight(w)) - 1
  BY <1>3, <1>14, <1>15, AmfOperators, FS_RemoveElement
<1>17. Amf!Cardinality(Amf!InFlight(w)) # 0
  BY <1>3, <1>15, AmfOperators, FS_EmptySet
<1>18. direct.cnt[w] + Amf!Cardinality(Amf!InFlight(w)) = IF Amf!IssuingDirect(w) THEN issuer.i ELSE R2PGAP
  BY <1>3 DEF Amf!WrapperOwned
<1>19. Amf!IssuingDirect(w) => issuer.i < R2PGAP
  BY <1>0 DEF Amf!IssuingDirect, Amf!DirectOwned
\* The last page: nothing of the request is with the library any more.
<1>20. ASSUME last  PROVE ~Amf!IssuingDirect(w) /\ Amf!InFlight(w)' = {}
  <2>1. direct.cnt[w] + 1 = R2PGAP
    BY <1>20 DEF last
  <2>2. ~Amf!IssuingDirect(w)
    BY <2>1, <1>7, <1>10, <1>15, <1>17, <1>18, <1>19
  <2>3. Amf!Cardinality(Amf!InFlight(w)) = 1
    BY <2>1, <2>2, <1>7, <1>10, <1>15, <1>18
  <2>4. PICK x : Amf!InFlight(w) = {x}
    BY <2>3, <1>15, AmfOperators, FS_Singleton
  <2> QED  BY <2>2, <2>4, <1>3, <1>14
<1>21. \A v \in Amf!DirectWrapper : (Amf!IssuingDirect(v)' <=> Amf!IssuingDirect(v))
                                    /\ (Amf!WrapperBusy(v)' <=> Amf!WrapperBusy(v) /\ ~(last /\ v = w))
  <2>1. \A v \in Amf!DirectWrapper : Amf!IssuingDirect(v)' <=> Amf!IssuingDirect(v)
    BY <1>5 DEF Amf!IssuingDirect
  <2>2. \A v \in Amf!DirectWrapper : Amf!WrapperBusy(v)' <=> Amf!WrapperBusy(v) /\ ~(last /\ v = w)
    BY <1>1, <1>6, <1>12 DEF Amf!WrapperBusy
  <2> QED  BY <2>1, <2>2
<1>22. Amf!WrapperOwned(w)'
  <2>1. CASE last
    BY <2>1, <1>1, <1>20, <1>21 DEF Amf!WrapperOwned
  <2>2. CASE ~last
    <3>1. direct'.cnt[w] + Amf!Cardinality(Amf!InFlight(w)') = IF Amf!IssuingDirect(w) THEN issuer.i ELSE R2PGAP
      BY <1>7, <1>15, <1>16, <1>18
    <3>2. Amf!WrapperBusy(w)' /\ finished' = finished
      BY <2>2, <1>1, <1>3, <1>9, <1>21
    <3> QED  BY <3>1, <3>2, <1>1, <1>3, <1>5, <1>6, <1>21 DEF Amf!WrapperOwned
  <2> QED  BY <2>1, <2>2
<1>23. ASSUME NEW v \in Amf!DirectWrapper, v # w  PROVE Amf!WrapperOwned(v)'
  <2>1. Amf!WrapperOwned(v)
    BY <1>0 DEF Amf!DirectOwned
  <2>2. Amf!WrapperBusy(v) => direct.req[v] # q
    BY <1>0, <1>1, <1>3, <1>4, <1>23 DEF Amf!DirectOwned, Amf!WrappersApart
  <2>3. Amf!WrapperBusy(v) => direct.req[v] \notin Amf!ToSet(finished')
    BY <2>1, <2>2, <1>11 DEF Amf!WrapperOwned
  <2>4. Amf!InFlight(v)' = Amf!InFlight(v) /\ (Amf!WrapperBusy(v)' <=> Amf!WrapperBusy(v))
        /\ (Amf!IssuingDirect(v)' <=> Amf!IssuingDirect(v)) /\ direct'.cnt[v] = direct.cnt[v] /\ direct'.req[v] = direct.req[v]
    BY <1>6, <1>7, <1>14, <1>21, <1>23
  <2> QED  BY <2>1, <2>3, <2>4, <1>5 DEF Amf!WrapperOwned
<1>24. Amf!WrappersApart'
  BY <1>0, <1>6, <1>21 DEF Amf!DirectOwned, Amf!WrappersApart
<1>25. ASSUME issuer.at = "piece"
       PROVE  /\ issuer.rp \in Amf!DirectWrapper /\ Amf!WrapperBusy(issuer.rp)' /\ issuer.i < R2PGAP
              /\ \A i \in Amf!InFlight(issuer.rp)' : i < issuer.i
  <2>1. /\ issuer.rp \in Amf!DirectWrapper /\ Amf!WrapperBusy(issuer.rp) /\ issuer.i < R2PGAP
        /\ \A i \in Amf!InFlight(issuer.rp) : i < issuer.i
    BY <1>0, <1>25 DEF Amf!DirectOwned
  <2>2. PICK v \in Amf!DirectWrapper : v = issuer.rp
    BY <2>1
  <2>3. ~(last /\ v = w)
    BY <2>2, <1>20, <1>25 DEF Amf!IssuingDirect
  <2>4. Amf!WrapperBusy(v)' /\ Amf!InFlight(v)' \subseteq Amf!InFlight(v)
    BY <2>1, <2>2, <2>3, <1>14, <1>21
  <2>5. Amf!InFlight(issuer.rp)' = Amf!InFlight(v)' /\ (Amf!WrapperBusy(issuer.rp)' <=> Amf!WrapperBusy(v)')
    BY <2>2, <1>5 DEF Amf!InFlight, Amf!WrapperBusy
  <2> QED  BY <2>1, <2>2, <2>4, <2>5
<1>26. ASSUME issuer.at # "free"  PROVE issuer.n \notin Amf!ToSet(finished')
  <2>1. issuer.n \notin Amf!ToSet(finished) /\ issuer.at \in {"free", "rp", "piece"}
    BY <1>0, <1>26 DEF Amf!DirectOwned, Amf!AmfTypeOK
  <2>2. last => q # issuer.n
    BY <2>1, <1>3, <1>4, <1>20, <1>26 DEF Amf!WrapperOwned, Amf!IssuingDirect
  <2> QED  BY <2>1, <2>2, <1>11
<1>27. Amf!DirectOwned'
  <2>1. \A v \in Amf!DirectWrapper : Amf!WrapperOwned(v)'
    BY <1>22, <1>23
  <2>2. Amf!IsInjective(direct'.wrap_q) /\ (callback'.at = "release" => callback'.u \notin Amf!ToSet(direct'.wrap_q))
    BY <1>0, <1>3, <1>6, <1>12 DEF Amf!DirectOwned, Amf!WrapperBusy
  <2>3. issuer.at # "free" => issuer.op # "T"
    BY <1>0 DEF Amf!DirectOwned
  <2> QED  BY <2>1, <2>2, <2>3, <1>5, <1>24, <1>25, <1>26 DEF Amf!DirectOwned
<1> QED  BY <1>0, <1>5, <1>11, <1>13, <1>27 DEF Amf!AmfInv

\* release_amf_wrapper, after the request has ended.
LEMMA ReleaseWrapperInv ==
    ASSUME Amf!AmfInv, Amf!ReleaseWrapper
    PROVE  Amf!AmfInv'
<1>0. Amf!AmfTypeOK /\ ~buffered /\ Amf!DirectOwned /\ Amf!IsInjective(finished)
  BY DEF Amf!AmfInv, Amf!AmfTypeOK, Amf!ReleaseWrapper
<1>1. PICK w \in Amf!DirectWrapper : w = callback.u /\ callback.at = "release"
  BY <1>0 DEF Amf!AmfTypeOK, Amf!ReleaseWrapper
<1>2. direct \in Amf!DirectRecord /\ direct.wrap_q \in Seq(Amf!DirectWrapper)
  BY <1>0 DEF Amf!AmfTypeOK, Amf!DirectRecord
<1>3. w \notin Amf!ToSet(direct.wrap_q)
  BY <1>0, <1>1 DEF Amf!DirectOwned
<1>4. /\ buffered' = buffered /\ amf' = amf /\ main' = main /\ issuer' = issuer /\ device' = device /\ finished' = finished
      /\ direct' = [direct EXCEPT !.wrap_q = Append(@, w)] /\ callback' = [callback EXCEPT !.at = "none"]
  BY <1>1 DEF Amf!ReleaseWrapper
<1>5. /\ Append(direct.wrap_q, w) \in Seq(Amf!DirectWrapper) /\ Amf!IsInjective(Append(direct.wrap_q, w))
      /\ Amf!ToSet(Append(direct.wrap_q, w)) = Amf!ToSet(direct.wrap_q) \cup {w}
  BY <1>0, <1>1, <1>2, <1>3, AmfEnqueue DEF Amf!DirectOwned
<1>6. direct'.wrap_q = Append(direct.wrap_q, w) /\ direct'.req = direct.req /\ direct'.cnt = direct.cnt
      /\ direct' \in Amf!DirectRecord
  BY <1>2, <1>4, <1>5 DEF Amf!DirectRecord
<1>7. callback'.at = "none" /\ callback' \in [at : {"none", "idle", "wrapper", "release"}, u : Nat, t : Nat]
  BY <1>0, <1>4 DEF Amf!AmfTypeOK
<1>8. Amf!AmfTypeOK'
  BY <1>0, <1>4, <1>6, <1>7 DEF Amf!AmfTypeOK
<1>9. \A v : (Amf!WrapperBusy(v)' <=> Amf!WrapperBusy(v)) /\ Amf!InFlight(v)' = Amf!InFlight(v)
             /\ (Amf!IssuingDirect(v)' <=> Amf!IssuingDirect(v))
  BY <1>1, <1>4, <1>5, <1>6, <1>7 DEF Amf!WrapperBusy, Amf!InFlight, Amf!IssuingDirect
<1>10. \A v \in Amf!DirectWrapper : Amf!WrapperOwned(v)'
  BY <1>0, <1>4, <1>6, <1>9 DEF Amf!DirectOwned, Amf!WrapperOwned
<1>11. Amf!WrappersApart'
  BY <1>0, <1>6, <1>9 DEF Amf!DirectOwned, Amf!WrappersApart
<1>12. (Amf!WrapperBusy(issuer.rp)' <=> Amf!WrapperBusy(issuer.rp)) /\ Amf!InFlight(issuer.rp)' = Amf!InFlight(issuer.rp)
  BY <1>4, <1>9
<1>13. Amf!DirectOwned'
  BY <1>0, <1>4, <1>5, <1>6, <1>7, <1>10, <1>11, <1>12 DEF Amf!DirectOwned
<1> QED  BY <1>0, <1>4, <1>8, <1>13 DEF Amf!AmfInv

-----------------------------------------------------------------------------
(* Both back ends.                                                         *)

\* A step of the AMF back end, in either build.
LEMMA AmfNext ==
    ASSUME Amf!AmfInv, Amf!NextAmf
    PROVE  Amf!AmfInv'
<1>1. ASSUME NEW u \in Amf!Unit, NEW op \in {"W", "R", "T"}, Amf!Call(u, op)  PROVE Amf!AmfInv'
  BY <1>1, CallInv
<1>2. ASSUME NEW d \in device, Amf!CallBack(d[1], d[2])  PROVE Amf!AmfInv'
  BY <1>2, CallBackInv
<1>3. ASSUME NEW d \in device, Amf!CallBackDirect(d[1], d[2])  PROVE Amf!AmfInv'
  BY <1>3, CallBackDirectInv
<1>4. CASE Amf!GetReturnParam \/ Amf!IssuePiece \/ Amf!GetAmfWrapper \/ Amf!IssueDirect
  BY <1>4, GetReturnParamInv, IssuePieceInv, GetAmfWrapperInv, IssueDirectInv
<1>5. CASE Amf!Main \/ Amf!Join
  BY <1>5, PassInv, StartPageInv, DequeueInv DEF Amf!Main
<1>6. CASE Amf!UnlockIdle \/ Amf!FreeWrapper \/ Amf!ReleaseWrapper
  BY <1>6, UnlockIdleInv, FreeWrapperInv, ReleaseWrapperInv
<1> QED  BY <1>1, <1>2, <1>3, <1>4, <1>5, <1>6 DEF Amf!NextAmf, Amf!Issuer, Amf!Library

\* The invariant gives EndedOnce: a page in the queue or with the library that is
\* not the one being scheduled is not done.
LEMMA AmfEnded ==
    ASSUME Amf!AmfInv
    PROVE  Amf!EndedOnce
<1>0. Amf!AmfTypeOK /\ Amf!IsInjective(finished)
  BY DEF Amf!AmfInv
<1> DEFINE Queued(u) == {amf[u].queue[i] : i \in DOMAIN amf[u].queue}
<1>1. ASSUME buffered, NEW u \in Amf!Unit
      PROVE  /\ Amf!IsInjective(amf[u].tag) /\ Amf!IsInjective(amf[u].rp_tag)
             /\ Amf!Cardinality({t \in 0 .. RPPB - 1 : <<u, t>> \in device}) <= 1
             /\ \A t \in Queued(u) \cup {t \in 0 .. RPPB - 1 : <<u, t>> \in device} :
                  \/ /\ amf[u].req[t].n \notin Amf!ToSet(finished) /\ amf[u].req[t].rp \notin Amf!ToSet(amf[u].rp_tag)
                     /\ t \notin Amf!ToSet(amf[u].tag)
                  \/ main.at = "issued" /\ main.now_buf = u /\ t = Head(amf[u].queue)
  <2>0. Amf!UnitOwned(u) /\ Amf!PagesOwned
    BY <1>1 DEF Amf!AmfInv, Amf!UnitsOwned
  <2>1. Amf!InDevice(u) = {t \in 0 .. RPPB - 1 : <<u, t>> \in device}
    BY DEF Amf!InDevice, Amf!Wrapper
  <2>2. Queued(u) = Amf!ToSet(amf[u].queue)
    BY DEF Amf!ToSet
  <2> HIDE DEF Queued
  <2>3. Amf!Cardinality(Amf!InDevice(u)) <= 1
    <3>1. Amf!InDevice(u) = {} \/ \E x : Amf!InDevice(u) = {x}
      BY <2>0 DEF Amf!UnitOwned
    <3>2. Cardinality(Amf!InDevice(u)) \in {0, 1}
      BY <3>1, FS_EmptySet, FS_Singleton
    <3>3. \A x \in {0, 1} : x <= 1
      OBVIOUS
    <3> QED  BY <3>2, <3>3, AmfOperators
  <2>4. ASSUME NEW t \in Amf!Undone(u)
        PROVE  /\ amf[u].req[t].n \notin Amf!ToSet(finished) /\ amf[u].req[t].rp \notin Amf!ToSet(amf[u].rp_tag)
               /\ t \notin Amf!ToSet(amf[u].tag)
    BY <2>0, <1>1 DEF Amf!PagesOwned, Amf!PagesUnended, Amf!ParamsHeld, Amf!UnitOwned
  <2>5. ASSUME NEW t \in Queued(u)
        PROVE  t \in Amf!Undone(u) \/ (main.at = "issued" /\ main.now_buf = u /\ t = Head(amf[u].queue))
    <3>1. CASE Amf!ScheduleLocked(u)
      <4>1. amf[u].queue \in Seq(Amf!Wrapper) /\ amf[u].queue # <<>>
        BY <3>1, <2>0, <1>0, <1>1, UnitTypes DEF Amf!UnitOwned
      <4>2. Amf!ToSet(amf[u].queue) = Amf!ToSet(Tail(amf[u].queue)) \cup {Head(amf[u].queue)}
        BY <4>1, AmfDequeued
      <4> QED  BY <4>2, <3>1, <2>2, <2>5 DEF Amf!Undone, Amf!Waits, Amf!ScheduleLocked
    <3>2. CASE ~Amf!ScheduleLocked(u)
      BY <3>2, <2>2, <2>5 DEF Amf!Undone, Amf!Waits
    <3> QED  BY <3>1, <3>2
  <2>6. Amf!InDevice(u) \subseteq Amf!Undone(u)
    BY DEF Amf!Undone
  <2>7. Amf!IsInjective(amf[u].tag) /\ Amf!IsInjective(amf[u].rp_tag)
    BY <2>0 DEF Amf!UnitOwned
  <2> QED  BY <2>1, <2>3, <2>4, <2>5, <2>6, <2>7
<1>2. ASSUME ~buffered
      PROVE  Amf!IsInjective(direct.wrap_q)
             /\ \A d \in device : direct.req[d[1]] \notin Amf!ToSet(finished) /\ d[1] \notin Amf!ToSet(direct.wrap_q)
  <2>0. Amf!DirectOwned
    BY <1>2 DEF Amf!AmfInv
  <2>1. ASSUME NEW d \in device  PROVE direct.req[d[1]] \notin Amf!ToSet(finished) /\ d[1] \notin Amf!ToSet(direct.wrap_q)
    <3>1. PICK w \in Amf!DirectWrapper, i \in 0 .. R2PGAP - 1 : d = <<w, i>>
      BY <1>0, <1>2 DEF Amf!AmfTypeOK
    <3>2. i \in Amf!InFlight(w) /\ d[1] = w
      BY <2>1, <3>1 DEF Amf!InFlight
    <3>3. Amf!WrapperOwned(w)
      BY <2>0 DEF Amf!DirectOwned
    <3>4. Amf!WrapperBusy(w)
      BY <3>2, <3>3 DEF Amf!WrapperOwned
    <3> QED  BY <3>2, <3>3, <3>4 DEF Amf!WrapperOwned, Amf!WrapperBusy
  <2> QED  BY <2>0, <2>1 DEF Amf!DirectOwned
<1> QED  BY <1>0, <1>1, <1>2 DEF Amf!EndedOnce

\* Nothing changes in a back end that is not the one of the behaviour.
LEMMA DevicesStay ==
    /\ Aio!AioInv /\ UNCHANGED aioVars => Aio!AioInv'
    /\ Amf!AmfInv /\ UNCHANGED amfVars => Amf!AmfInv'
<1>1. ASSUME Aio!AioInv, UNCHANGED aioVars  PROVE Aio!AioInv'
  <2>0. Aio!AioTypeOK /\ TagsHeldOnce /\ RequestsHeldOnce /\ RequestsAccounted /\ TagsAccounted
    BY <1>1, AioParts
  <2>1. tagQ' = tagQ /\ private_list' = private_list /\ cbs_queue' = cbs_queue /\ batch' = batch /\ kernel' = kernel
        /\ polled' = polled /\ calls' = calls /\ waiting' = waiting /\ ended' = ended
    BY <1>1 DEF aioVars
  <2>2. InUse' = InUse
    BY <2>1 DEF InUse
  <2>3. Aio!AioTypeOK' /\ TagsHeldOnce'
    BY <2>0, <2>1, <2>2 DEF Aio!AioTypeOK, TagsHeldOnce
  <2>4. RequestsHeldOnce' /\ RequestsAccounted' /\ TagsAccounted'
    BY <2>0, <2>1, <2>2 DEF RequestsHeldOnce, RequestsAccounted, TagsAccounted
  <2> QED  BY <2>3, <2>4, AioParts
<1>2. ASSUME Amf!AmfInv, UNCHANGED amfVars  PROVE Amf!AmfInv'
  <2>1. buffered' = buffered /\ amf' = amf /\ direct' = direct /\ issuer' = issuer /\ main' = main /\ device' = device
        /\ callback' = callback /\ finished' = finished
    BY <1>2 DEF amfVars
  <2>2. Amf!AmfTypeOK /\ Amf!IsInjective(finished)
    BY <1>2 DEF Amf!AmfInv
  <2>3. Amf!AmfTypeOK'
    BY <2>1, <2>2 DEF Amf!AmfTypeOK
  <2>4. ASSUME buffered  PROVE Amf!UnitsOwned' /\ Amf!PagesOwned' /\ Amf!IssuerOwned'
    <3>0. Amf!UnitsOwned /\ Amf!PagesOwned /\ Amf!IssuerOwned
      BY <2>4, <1>2 DEF Amf!AmfInv
    <3>1. ASSUME NEW u \in Amf!Unit  PROVE Amf!UnitOwned(u)' /\ Amf!Undone(u)' = Amf!Undone(u)
      <4>1. Amf!UnitOwned(u)
        BY <3>0 DEF Amf!UnitsOwned
      <4>2. Amf!InDevice(u)' = Amf!InDevice(u) /\ (Amf!ScheduleLocked(u)' <=> Amf!ScheduleLocked(u))
            /\ (Amf!CallingBack(u)' <=> Amf!CallingBack(u))
        BY <2>1 DEF Amf!InDevice, Amf!ScheduleLocked, Amf!CallingBack
      <4> QED  BY <2>1, <4>1, <4>2, UnitKept
    <3>2. issuer.u \in Amf!Unit
      BY <2>2 DEF Amf!AmfTypeOK
    <3> QED  BY <2>1, <3>0, <3>1, <3>2, PagesKept DEF Amf!UnitsOwned
  <2>5. ASSUME ~buffered  PROVE Amf!DirectOwned'
    <3>0. Amf!DirectOwned
      BY <2>5, <1>2 DEF Amf!AmfInv
    <3>1. \A w : (Amf!WrapperBusy(w)' <=> Amf!WrapperBusy(w)) /\ Amf!InFlight(w)' = Amf!InFlight(w)
                 /\ (Amf!IssuingDirect(w)' <=> Amf!IssuingDirect(w))
      BY <2>1 DEF Amf!WrapperBusy, Amf!InFlight, Amf!IssuingDirect
    <3>2. (\A w \in Amf!DirectWrapper : Amf!WrapperOwned(w)') /\ Amf!WrappersApart'
      BY <2>1, <3>0, <3>1 DEF Amf!DirectOwned, Amf!WrapperOwned, Amf!WrappersApart
    <3>3. (Amf!WrapperBusy(issuer.rp)' <=> Amf!WrapperBusy(issuer.rp)) /\ Amf!InFlight(issuer.rp)' = Amf!InFlight(issuer.rp)
      BY <2>1, <3>1
    <3> QED  BY <2>1, <3>0, <3>2, <3>3 DEF Amf!DirectOwned
  <2> QED  BY <2>1, <2>2, <2>3, <2>4, <2>5 DEF Amf!AmfInv
<1> QED  BY <1>1, <1>2

\* For every number of tags, units, wrappers, return parameters and device pages
\* of a page, and in both builds of the AMF back end: a request sent to a device
\* is in one control block, or holds its wrappers and its return parameter alone,
\* until it ends; and it ends once.
THEOREM DevicesEndOnce == Spec => []DeviceEndsOnce
<1> DEFINE Inv == (part = "aio" => Aio!AioInv) /\ (part = "amf" => Amf!AmfInv)
<1>1. Init => Inv
  BY AioInit, AmfInit DEF Init
<1>2. Inv /\ [Next]_vars => Inv'
  <2> SUFFICES ASSUME Inv, [Next]_vars  PROVE Inv'
    OBVIOUS
  <2>0. part' = part
    BY DEF Next, vars
  <2>1. part = "aio" => Aio!NextAio \/ UNCHANGED aioVars
    BY DEF Next, vars
  <2>2. part = "amf" => Amf!NextAmf \/ UNCHANGED amfVars
    BY DEF Next, vars
  <2>3. part = "aio" => Aio!AioInv'
    BY <2>1, AioNext, DevicesStay
  <2>4. part = "amf" => Amf!AmfInv'
    BY <2>2, AmfNext, DevicesStay
  <2> QED  BY <2>0, <2>3, <2>4
<1>3. Inv => DeviceEndsOnce
  BY AmfEnded DEF DeviceEndsOnce, Aio!AioInv
<1> QED  BY <1>1, <1>2, <1>3, PTL DEF Spec

-----------------------------------------------------------------------------
(* The slabs of mapping pages.                                             *)

\* The elements of a queue, and of one queue behind another.
LEMMA SeqElems == ASSUME NEW S, NEW s \in Seq(S) PROVE Elems(s) \subseteq S
<1>1. Len(s) \in Nat /\ DOMAIN s = 1 .. Len(s)
  BY LenProperties
<1> QED  BY <1>1, ElementOfSeq DEF Elems

LEMMA Chained ==
    ASSUME NEW S, NEW s \in Seq(S), NEW t \in Seq(S)
    PROVE  /\ s \o t \in Seq(S) /\ Elems(s \o t) = Elems(s) \cup Elems(t)
           /\ Distinct(s) /\ Distinct(t) /\ (\A e \in Elems(t) : e \notin Elems(s)) => Distinct(s \o t)
<1>1. /\ Len(s) \in Nat /\ DOMAIN s = 1 .. Len(s)
      /\ Len(t) \in Nat /\ DOMAIN t = 1 .. Len(t)
  BY LenProperties
<1>2. s \o t \in Seq(S) /\ Len(s \o t) = Len(s) + Len(t)
  BY ConcatProperties
<1>3. DOMAIN (s \o t) = 1 .. Len(s) + Len(t)
  BY <1>2, LenProperties
<1>4. \A i \in 1 .. Len(s) + Len(t) : (s \o t)[i] = IF i <= Len(s) THEN s[i] ELSE t[i - Len(s)]
  BY ConcatProperties
<1>5. \A i \in DOMAIN s : i \in DOMAIN (s \o t) /\ (s \o t)[i] = s[i]
  BY <1>1, <1>3, <1>4
<1>6. \A i \in DOMAIN t : Len(s) + i \in DOMAIN (s \o t) /\ (s \o t)[Len(s) + i] = t[i]
  BY <1>1, <1>3, <1>4
<1>7. \A i \in DOMAIN (s \o t) : \/ i \in DOMAIN s /\ (s \o t)[i] = s[i]
                                 \/ i - Len(s) \in DOMAIN t /\ (s \o t)[i] = t[i - Len(s)]
  BY <1>1, <1>3, <1>4
<1>8. Elems(s \o t) = Elems(s) \cup Elems(t)
  <2>1. ASSUME NEW e \in Elems(s \o t) PROVE e \in Elems(s) \cup Elems(t)
    <3>1. PICK i \in DOMAIN (s \o t) : e = (s \o t)[i]
      BY DEF Elems
    <3> QED  BY <3>1, <1>7 DEF Elems
  <2>2. Elems(s) \subseteq Elems(s \o t)
    BY <1>5 DEF Elems
  <2>3. Elems(t) \subseteq Elems(s \o t)
    BY <1>6 DEF Elems
  <2> QED  BY <2>1, <2>2, <2>3
<1>9. ASSUME Distinct(s), Distinct(t), \A e \in Elems(t) : e \notin Elems(s) PROVE Distinct(s \o t)
  <2> SUFFICES ASSUME NEW i \in DOMAIN (s \o t), NEW j \in DOMAIN (s \o t), (s \o t)[i] = (s \o t)[j]
               PROVE  i = j
    BY DEF Distinct
  <2>1. i \in Int /\ j \in Int /\ Len(s) \in Int
    BY <1>1, <1>3
  <2>2. CASE i \in DOMAIN s /\ (s \o t)[i] = s[i]
    <3>1. j - Len(s) \notin DOMAIN t \/ (s \o t)[j] # t[j - Len(s)]
      BY <2>2, <1>9 DEF Elems
    <3>2. j \in DOMAIN s /\ (s \o t)[j] = s[j]
      BY <3>1, <1>7
    <3> QED  BY <2>2, <3>2, <1>9 DEF Distinct
  <2>3. CASE i - Len(s) \in DOMAIN t /\ (s \o t)[i] = t[i - Len(s)]
    <3>1. j \notin DOMAIN s \/ (s \o t)[j] # s[j]
      BY <2>3, <1>9 DEF Elems
    <3>2. j - Len(s) \in DOMAIN t /\ (s \o t)[j] = t[j - Len(s)]
      BY <3>1, <1>7
    <3>3. i - Len(s) = j - Len(s)
      BY <2>3, <3>2, <1>9 DEF Distinct
    <3> QED  BY <2>1, <3>3
  <2> QED  BY <2>2, <2>3, <1>7
<1> QED  BY <1>2, <1>8, <1>9
-----------------------------------------------------------------------------
(* The slabs of mapping pages.                                             *)

LEMMA SlabOperators ==
    /\ \A s : Slabs!ToSet(s) = Elems(s)
    /\ \A S : Slabs!Cardinality(S) = Cardinality(S)
<1>1. \A s : Slabs!ToSet(s) = Elems(s)
  BY DEF Slabs!ToSet, Elems
<1>2. \A S : Slabs!Cardinality(S) = Cardinality(S)
  BY DEF Slabs!Cardinality, Cardinality
<1> QED  BY <1>1, <1>2

\* The pages that have a slab.
HeldPages == {k \in Key : partitiones[k] # Slabs!NoSlab}

SlabTypeOK ==
    /\ free_slabs \in Seq(Slabs!Slab)
    /\ partitiones \in [Key -> Slabs!Slab \cup {Slabs!NoSlab}]
    /\ slabs \in [Slabs!Slab -> Nat] /\ slab_deref_count \in [Slabs!Slab -> Nat]
    /\ page \in [Key -> [data : Nat, valid : 0 .. L2PGAP]]
    /\ inserts \in Nat

\* A page has a slab as long as it has a valid piece; each slab is free or one
\* page's, and then has its contents and the count of its invalid pieces.
SlabInv ==
    /\ SlabTypeOK /\ got
    /\ Distinct(free_slabs)
    /\ \A k \in Key : /\ page[k].valid > 0 <=> k \in HeldPages
                      /\ page[k].data = 0 => page[k].valid = 0
    /\ \A j, k \in HeldPages : partitiones[j] = partitiones[k] => j = k
    /\ \A k \in HeldPages : /\ partitiones[k] \notin Elems(free_slabs)
                            /\ slabs[partitiones[k]] = page[k].data
                            /\ slab_deref_count[partitiones[k]] = L2PGAP - page[k].valid
    /\ \A s \in Elems(free_slabs) : slab_deref_count[s] = 0
    /\ \A s \in Slabs!Slab : s \in Elems(free_slabs) \/ \E k \in HeldPages : partitiones[k] = s

LEMMA SlabInit == ASSUME Slabs!InitSlabs PROVE SlabInv
<1>1. /\ free_slabs = [i \in 1 .. max_slab_num |-> i - 1] /\ partitiones = [k \in Key |-> -1]
      /\ slabs = [s \in Slabs!Slab |-> 0] /\ slab_deref_count = [s \in Slabs!Slab |-> 0]
      /\ page = [k \in Key |-> [data |-> 0, valid |-> 0]] /\ inserts = 0 /\ got = TRUE
  BY DEF Slabs!InitSlabs, Slabs!NoSlab
<1>2. max_slab_num \in Nat /\ L2PGAP \in Nat /\ Slabs!Slab = 0 .. max_slab_num - 1 /\ Slabs!NoSlab = -1
  BY SlabAssumption DEF Slabs!Slab, Slabs!NoSlab
<1>3. free_slabs \in Seq(Slabs!Slab)
  <2>1. free_slabs \in [1 .. max_slab_num -> Slabs!Slab]
    BY <1>1, <1>2
  <2> QED  BY <1>2, <2>1, SeqDef
<1>4. Distinct(free_slabs)
  BY <1>1, <1>2 DEF Distinct
<1>5. \A s \in Slabs!Slab : s \in Elems(free_slabs)
  <2> SUFFICES ASSUME NEW s \in Slabs!Slab PROVE \E i \in DOMAIN free_slabs : s = free_slabs[i]
    BY DEF Elems
  <2>1. s + 1 \in 1 .. max_slab_num /\ free_slabs[s + 1] = s
    BY <1>1, <1>2
  <2> QED  BY <2>1, <1>1
<1>6. Elems(free_slabs) \subseteq Slabs!Slab
  BY <1>1, <1>2 DEF Elems
<1>7. HeldPages = {}
  BY <1>1, <1>2 DEF HeldPages
<1>8. SlabTypeOK
  BY <1>1, <1>2, <1>3 DEF SlabTypeOK
<1> QED  BY <1>1, <1>2, <1>4, <1>5, <1>6, <1>7, <1>8 DEF SlabInv

LEMMA SlabInsert == ASSUME SlabInv, NEW k \in Key, Slabs!Insert(k) PROVE SlabInv'
<1> DEFINE h == Head(free_slabs)
<1>1. /\ page[k].data = 0 /\ free_slabs # <<>> /\ inserts' = inserts + 1
      /\ free_slabs' = Tail(free_slabs) /\ partitiones' = [partitiones EXCEPT ![k] = h]
      /\ slabs' = [slabs EXCEPT ![h] = inserts + 1]
      /\ page' = [page EXCEPT ![k] = [data |-> inserts + 1, valid |-> L2PGAP]]
      /\ slab_deref_count' = slab_deref_count /\ got' = got
  BY DEF Slabs!Insert
<1>2. SlabTypeOK /\ L2PGAP \in Nat \ {0} /\ Slabs!NoSlab \notin Slabs!Slab
  BY SlabAssumption DEF SlabInv, Slabs!NoSlab, Slabs!Slab
<1>3. /\ Tail(free_slabs) \in Seq(Slabs!Slab) /\ h \in Slabs!Slab /\ h \in Elems(free_slabs)
      /\ Elems(free_slabs) = Elems(Tail(free_slabs)) \cup {h}
      /\ Distinct(Tail(free_slabs)) /\ h \notin Elems(Tail(free_slabs))
  BY <1>1, <1>2, Dequeued DEF SlabInv, SlabTypeOK
<1> HIDE DEF h
<1>4. page[k].valid = 0 /\ k \notin HeldPages
  BY <1>1 DEF SlabInv
<1>5. HeldPages' = HeldPages \cup {k}
  BY <1>1, <1>2, <1>3 DEF SlabTypeOK, HeldPages
<1>6. SlabTypeOK'
  BY <1>1, <1>2, <1>3 DEF SlabTypeOK
<1>7. \A j \in HeldPages : /\ j \in Key /\ j # k /\ partitiones'[j] = partitiones[j] /\ page'[j] = page[j]
                           /\ partitiones[j] # h /\ slabs'[partitiones[j]] = slabs[partitiones[j]]
  <2> SUFFICES ASSUME NEW j \in HeldPages
               PROVE  /\ j \in Key /\ j # k /\ partitiones'[j] = partitiones[j] /\ page'[j] = page[j]
                      /\ partitiones[j] # h /\ slabs'[partitiones[j]] = slabs[partitiones[j]]
    OBVIOUS
  <2>1. j \in Key /\ j # k /\ partitiones[j] \in Slabs!Slab
    BY <1>2, <1>4 DEF HeldPages, SlabTypeOK
  <2>2. partitiones[j] # h
    BY <1>3 DEF SlabInv
  <2> QED  BY <1>1, <1>2, <2>1, <2>2 DEF SlabTypeOK
<1>8. partitiones'[k] = h /\ page'[k].data = inserts + 1 /\ page'[k].valid = L2PGAP /\ slabs'[h] = inserts + 1
  BY <1>1, <1>2, <1>3 DEF SlabTypeOK
<1>9. \A j \in Key : (page'[j].valid > 0 <=> j \in HeldPages') /\ (page'[j].data = 0 => page'[j].valid = 0)
  <2> SUFFICES ASSUME NEW j \in Key
               PROVE  (page'[j].valid > 0 <=> j \in HeldPages') /\ (page'[j].data = 0 => page'[j].valid = 0)
    OBVIOUS
  <2>1. CASE j = k
    BY <2>1, <1>2, <1>5, <1>8 DEF SlabTypeOK
  <2>2. CASE j # k
    <3>1. page'[j] = page[j]
      BY <1>1, <1>2, <2>2 DEF SlabTypeOK
    <3> QED  BY <3>1, <2>2, <1>5 DEF SlabInv
  <2> QED  BY <2>1, <2>2
<1>10. \A i, j \in HeldPages' : partitiones'[i] = partitiones'[j] => i = j
  BY <1>5, <1>7, <1>8 DEF SlabInv
<1>11. slab_deref_count[h] = 0
  BY <1>3 DEF SlabInv
<1>12. \A j \in HeldPages' : /\ partitiones'[j] \notin Elems(free_slabs')
                             /\ slabs'[partitiones'[j]] = page'[j].data
                             /\ slab_deref_count'[partitiones'[j]] = L2PGAP - page'[j].valid
  <2>1. \A j \in HeldPages : /\ partitiones'[j] \notin Elems(free_slabs')
                             /\ slabs'[partitiones'[j]] = page'[j].data
                             /\ slab_deref_count'[partitiones'[j]] = L2PGAP - page'[j].valid
    BY <1>1, <1>3, <1>7 DEF SlabInv
  <2>2. /\ partitiones'[k] \notin Elems(free_slabs') /\ slabs'[partitiones'[k]] = page'[k].data
        /\ slab_deref_count'[partitiones'[k]] = L2PGAP - page'[k].valid
    BY <1>1, <1>2, <1>3, <1>8, <1>11
  <2> QED  BY <1>5, <2>1, <2>2
<1>13. \A s \in Slabs!Slab : s \in Elems(free_slabs') \/ \E j \in HeldPages' : partitiones'[j] = s
  <2> SUFFICES ASSUME NEW s \in Slabs!Slab, s \notin Elems(free_slabs')
               PROVE  \E j \in HeldPages' : partitiones'[j] = s
    OBVIOUS
  <2>1. s = h \/ \E j \in HeldPages : partitiones[j] = s
    BY <1>1, <1>3 DEF SlabInv
  <2> QED  BY <2>1, <1>5, <1>7, <1>8
<1>14. \A s \in Elems(free_slabs') : slab_deref_count'[s] = 0
  BY <1>1, <1>3 DEF SlabInv
<1> QED  BY <1>1, <1>3, <1>6, <1>9, <1>10, <1>12, <1>13, <1>14 DEF SlabInv

LEMMA SlabGet == ASSUME SlabInv, NEW k \in Key, Slabs!Get(k) PROVE SlabInv'
<1>1. /\ page[k].valid > 0 /\ free_slabs' = free_slabs /\ partitiones' = partitiones /\ slabs' = slabs
      /\ slab_deref_count' = slab_deref_count /\ page' = page /\ inserts' = inserts
      /\ got' = (got /\ partitiones[k] # Slabs!NoSlab /\ slabs[partitiones[k]] = page[k].data)
  BY DEF Slabs!Get
<1>2. k \in HeldPages
  BY <1>1 DEF SlabInv
<1>3. got'
  BY <1>1, <1>2 DEF SlabInv, HeldPages
<1>4. SlabTypeOK' /\ HeldPages' = HeldPages
  BY <1>1 DEF SlabInv, SlabTypeOK, HeldPages
<1> QED  BY <1>1, <1>3, <1>4 DEF SlabInv

LEMMA SlabFree == ASSUME SlabInv, NEW k \in Key, Slabs!FreeSlab(k) PROVE SlabInv'
<1> DEFINE s == partitiones[k]
           last == slab_deref_count[s] + 1 = L2PGAP
<1>1. page[k].valid > 0 /\ page' = [page EXCEPT ![k].valid = @ - 1]
      /\ slabs' = slabs /\ inserts' = inserts /\ got' = got
  BY DEF Slabs!FreeSlab
<1>2. SlabTypeOK /\ L2PGAP \in Nat \ {0} /\ Slabs!NoSlab \notin Slabs!Slab
  BY SlabAssumption DEF SlabInv, Slabs!NoSlab, Slabs!Slab
<1>3. k \in HeldPages /\ s # Slabs!NoSlab /\ s \in Slabs!Slab
  BY <1>1, <1>2 DEF SlabInv, HeldPages, SlabTypeOK
<1>4. /\ last => /\ free_slabs' = Append(free_slabs, s)
                 /\ slab_deref_count' = [slab_deref_count EXCEPT ![s] = 0]
                 /\ partitiones' = [partitiones EXCEPT ![k] = Slabs!NoSlab]
      /\ ~last => /\ slab_deref_count' = [slab_deref_count EXCEPT ![s] = @ + 1]
                  /\ free_slabs' = free_slabs /\ partitiones' = partitiones
  BY <1>3 DEF Slabs!FreeSlab, Slabs!LastPiece
<1>5. page[k] \in [data : Nat, valid : 0 .. L2PGAP] /\ slab_deref_count[s] = L2PGAP - page[k].valid
      /\ s \notin Elems(free_slabs) /\ slab_deref_count \in [Slabs!Slab -> Nat]
  BY <1>2, <1>3 DEF SlabInv, SlabTypeOK
<1>6. /\ page' \in [Key -> [data : Nat, valid : 0 .. L2PGAP]]
      /\ page'[k].data = page[k].data /\ page'[k].valid = page[k].valid - 1
      /\ \A j \in Key \ {k} : page'[j] = page[j]
  <2>1. page[k].valid - 1 \in 0 .. L2PGAP
    BY <1>1, <1>2, <1>5
  <2>2. [page[k] EXCEPT !.valid = page[k].valid - 1] \in [data : Nat, valid : 0 .. L2PGAP]
    BY <2>1, <1>5
  <2>3. page' = [page EXCEPT ![k] = [page[k] EXCEPT !.valid = page[k].valid - 1]]
    BY <1>1
  <2> QED  BY <2>2, <2>3, <1>2, <1>5 DEF SlabTypeOK
<1>7. last <=> page'[k].valid = 0
  <2>1. page[k].valid \in Nat /\ page'[k].valid = page[k].valid - 1 /\ slab_deref_count[s] = L2PGAP - page[k].valid
    BY <1>2, <1>5, <1>6
  <2> QED  BY <2>1, <1>2
<1>8. \A j \in HeldPages \ {k} : j \in Key /\ partitiones[j] \in Slabs!Slab /\ partitiones[j] # s
  BY <1>2, <1>3 DEF SlabInv, SlabTypeOK, HeldPages
<1> HIDE DEF last
<1>9. CASE last
  <2>1. /\ free_slabs' = Append(free_slabs, s) /\ slab_deref_count' = [slab_deref_count EXCEPT ![s] = 0]
        /\ partitiones' = [partitiones EXCEPT ![k] = Slabs!NoSlab]
    BY <1>4, <1>9
  <2>2. /\ free_slabs' \in Seq(Slabs!Slab) /\ Elems(free_slabs') = Elems(free_slabs) \cup {s} /\ Distinct(free_slabs')
    BY <2>1, <1>2, <1>3, <1>5, Enqueue DEF SlabTypeOK, SlabInv
  <2>3. HeldPages' = HeldPages \ {k}
    BY <2>1, <1>2 DEF HeldPages, SlabTypeOK
  <2>4. SlabTypeOK'
    BY <2>1, <2>2, <1>1, <1>2, <1>6 DEF SlabTypeOK
  <2>5. \A j \in HeldPages' : /\ j \in HeldPages /\ j \in Key \ {k} /\ partitiones'[j] = partitiones[j] /\ partitiones[j] # s
                              /\ page'[j] = page[j] /\ slab_deref_count'[partitiones[j]] = slab_deref_count[partitiones[j]]
    BY <2>1, <2>3, <1>2, <1>6, <1>8 DEF SlabTypeOK
  <2>6. \A t \in Slabs!Slab : slab_deref_count'[t] = IF t = s THEN 0 ELSE slab_deref_count[t]
    BY <2>1, <1>5
  <2>7. \A j \in Key : (page'[j].valid > 0 <=> j \in HeldPages') /\ (page'[j].data = 0 => page'[j].valid = 0)
    <3> SUFFICES ASSUME NEW j \in Key
                 PROVE  (page'[j].valid > 0 <=> j \in HeldPages') /\ (page'[j].data = 0 => page'[j].valid = 0)
      OBVIOUS
    <3>1. CASE j = k
      BY <3>1, <2>3, <1>7, <1>9
    <3>2. CASE j # k
      BY <3>2, <2>3, <1>6 DEF SlabInv
    <3> QED  BY <3>1, <3>2
  <2>8. \A t \in Elems(free_slabs') : slab_deref_count'[t] = 0
    <3>1. Elems(free_slabs) \subseteq Slabs!Slab
      BY <1>2, <1>3, Enqueue DEF SlabTypeOK
    <3> QED  BY <3>1, <2>2, <2>6, <1>3 DEF SlabInv
  <2>9. \A t \in Slabs!Slab : t \in Elems(free_slabs') \/ \E j \in HeldPages' : partitiones'[j] = t
    <3> SUFFICES ASSUME NEW t \in Slabs!Slab, t \notin Elems(free_slabs')
                 PROVE  \E j \in HeldPages' : partitiones'[j] = t
      OBVIOUS
    <3>1. PICK j \in HeldPages : partitiones[j] = t
      BY <2>2 DEF SlabInv
    <3>2. j # k
      BY <3>1, <2>2
    <3> QED  BY <3>1, <3>2, <2>3, <2>5
  <2>10. \A j \in HeldPages' : /\ partitiones'[j] \notin Elems(free_slabs')
                               /\ slabs'[partitiones'[j]] = page'[j].data
                               /\ slab_deref_count'[partitiones'[j]] = L2PGAP - page'[j].valid
    BY <2>2, <2>5, <1>1 DEF SlabInv
  <2>11. \A i, j \in HeldPages' : partitiones'[i] = partitiones'[j] => i = j
    BY <2>5 DEF SlabInv
  <2> QED  BY <2>2, <2>4, <2>7, <2>8, <2>9, <2>10, <2>11, <1>1 DEF SlabInv
<1>10. CASE ~last
  <2>1. /\ slab_deref_count' = [slab_deref_count EXCEPT ![s] = @ + 1]
        /\ free_slabs' = free_slabs /\ partitiones' = partitiones
    BY <1>4, <1>10
  <2>2. HeldPages' = HeldPages
    BY <2>1 DEF HeldPages
  <2>3. SlabTypeOK'
    BY <2>1, <1>1, <1>2, <1>3, <1>5, <1>6 DEF SlabTypeOK
  <2>4. \A t \in Slabs!Slab : slab_deref_count'[t] = IF t = s THEN slab_deref_count[t] + 1 ELSE slab_deref_count[t]
    BY <2>1, <1>5
  <2>5. page'[k].valid > 0
    BY <1>6, <1>7, <1>10, <1>5, <1>1
  <2>6. \A j \in Key : (page'[j].valid > 0 <=> j \in HeldPages') /\ (page'[j].data = 0 => page'[j].valid = 0)
    <3> SUFFICES ASSUME NEW j \in Key
                 PROVE  (page'[j].valid > 0 <=> j \in HeldPages') /\ (page'[j].data = 0 => page'[j].valid = 0)
      OBVIOUS
    <3>1. CASE j = k
      <4>1. page[k].data # 0
        BY <1>1, <1>5 DEF SlabInv
      <4> QED  BY <4>1, <3>1, <2>2, <2>5, <1>3, <1>6
    <3>2. CASE j # k
      BY <3>2, <2>2, <1>6 DEF SlabInv
    <3> QED  BY <3>1, <3>2
  <2>7. \A t \in Elems(free_slabs') : slab_deref_count'[t] = 0
    <3>1. Elems(free_slabs) \subseteq Slabs!Slab
      BY <1>2, <1>3, Enqueue DEF SlabTypeOK
    <3> QED  BY <3>1, <2>1, <2>4, <1>5 DEF SlabInv
  <2>8. \A j \in HeldPages' : /\ partitiones'[j] \notin Elems(free_slabs')
                              /\ slabs'[partitiones'[j]] = page'[j].data
                              /\ slab_deref_count'[partitiones'[j]] = L2PGAP - page'[j].valid
    <3> SUFFICES ASSUME NEW j \in HeldPages
                 PROVE  /\ partitiones[j] \notin Elems(free_slabs)
                        /\ slabs[partitiones[j]] = page'[j].data
                        /\ slab_deref_count'[partitiones[j]] = L2PGAP - page'[j].valid
      BY <2>1, <2>2, <1>1
    <3>1. CASE j = k
      <4>1. slab_deref_count'[s] = slab_deref_count[s] + 1
        BY <2>4, <1>3
      <4>2. L2PGAP - page[k].valid + 1 = L2PGAP - (page[k].valid - 1)
        BY <1>2, <1>5
      <4>3. slabs[s] = page[k].data
        BY <1>3 DEF SlabInv
      <4> QED  BY <3>1, <4>1, <4>2, <4>3, <1>5, <1>6
    <3>2. CASE j # k
      <4>1. j \in Key \ {k} /\ partitiones[j] \in Slabs!Slab /\ partitiones[j] # s
        BY <3>2, <1>8
      <4>2. slab_deref_count'[partitiones[j]] = slab_deref_count[partitiones[j]]
        BY <4>1, <2>4
      <4>3. page'[j] = page[j]
        BY <4>1, <1>6
      <4> QED  BY <4>2, <4>3 DEF SlabInv
    <3> QED  BY <3>1, <3>2
  <2> QED  BY <2>1, <2>2, <2>3, <2>6, <2>7, <2>8, <1>1 DEF SlabInv
<1> QED  BY <1>9, <1>10

\* An increasing sequence of the pages S names each of them once.
LEMMA OrderedOnce ==
    ASSUME NEW S, S \subseteq Nat, IsFiniteSet(S), NEW q \in Slabs!InOrder(S)
    PROVE  /\ Cardinality(S) \in Nat /\ q \in [1 .. Cardinality(S) -> S]
           /\ \A i, j \in 1 .. Cardinality(S) : q[i] = q[j] => i = j
           /\ \A x \in S : \E i \in 1 .. Cardinality(S) : q[i] = x
<1> DEFINE n == Cardinality(S)
<1>1. n \in Nat /\ IsFiniteSet(1 .. n) /\ Cardinality(1 .. n) = n
  BY FS_CardinalityType, FS_Interval
<1>2. q \in [1 .. n -> S] /\ \A i, j \in 1 .. n : i < j => q[i] < q[j]
  BY SlabOperators DEF Slabs!InOrder
<1> HIDE DEF n
<1>3. \A i, j \in 1 .. n : q[i] = q[j] => i = j
  <2> SUFFICES ASSUME NEW i \in 1 .. n, NEW j \in 1 .. n, q[i] = q[j], i < j PROVE FALSE
    BY <1>1
  <2>1. q[i] < q[i] /\ q[i] \in Nat
    BY <1>2
  <2> QED  BY <2>1
<1>4. q \in Injection(1 .. n, S)
  BY <1>2, <1>3 DEF Injection, IsInjective
<1>5. q \in Surjection(1 .. n, S)
  <2>1. Cardinality(1 .. n) = Cardinality(S)
    BY <1>1 DEF n
  <2> QED  BY <1>1, <1>4, <2>1, FS_Injection
<1> QED  BY <1>1, <1>2, <1>3, <1>5 DEF Surjection, n

\* No two pages share a slab, so finitely many have one.
LEMMA HeldFinite == ASSUME SlabInv PROVE IsFiniteSet(HeldPages)
<1>1. IsFiniteSet(Slabs!Slab)
  BY SlabAssumption, FS_Interval DEF Slabs!Slab
<1> DEFINE f == [k \in HeldPages |-> partitiones[k]]
<1>2. f \in [HeldPages -> Slabs!Slab]
  BY DEF SlabInv, SlabTypeOK, HeldPages
<1>3. \A j, k \in HeldPages : f[j] = f[k] => j = k
  BY DEF SlabInv
<1>4. f \in Injection(HeldPages, Slabs!Slab)
  BY <1>2, <1>3 DEF Injection, IsInjective
<1> QED  BY <1>1, <1>4, FS_Injection

LEMMA SlabFreePartition == ASSUME SlabInv, NEW k \in Key, Slabs!FreePartition(k) PROVE SlabInv'
<1> DEFINE P == Slabs!Partition(k)
           S == {x \in P : partitiones[x] # Slabs!NoSlab}
           n == Cardinality(S)
<1>1. PICK q \in Slabs!InOrder(S) : free_slabs' = free_slabs \o [i \in DOMAIN q |-> partitiones[q[i]]]
  BY DEF Slabs!FreePartition
<1>2. /\ slab_deref_count' = [s \in Slabs!Slab |-> IF \E x \in P : partitiones[x] = s
                                                    THEN 0 ELSE slab_deref_count[s]]
      /\ partitiones' = [x \in Key |-> IF x \in P THEN Slabs!NoSlab ELSE partitiones[x]]
      /\ page' = [x \in Key |-> IF x \in P THEN [data |-> 0, valid |-> 0] ELSE page[x]]
      /\ slabs' = slabs /\ inserts' = inserts /\ got' = got
  BY DEF Slabs!FreePartition
<1>3. SlabTypeOK /\ L2PGAP \in Nat \ {0} /\ Slabs!NoSlab \notin Slabs!Slab /\ Key \subseteq Nat
  BY SlabAssumption DEF SlabInv, Slabs!NoSlab, Slabs!Slab
<1>4. P \subseteq Key /\ S = P \cap HeldPages
  BY DEF Slabs!Partition, HeldPages
<1>5. IsFiniteSet(S) /\ S \subseteq Nat /\ \A x \in S : x \in HeldPages /\ x \in P
  <2>1. IsFiniteSet(S)
    BY <1>4, HeldFinite, FS_Subset
  <2> QED  BY <2>1, <1>3, <1>4
<1> HIDE DEF P, S
<1>6. /\ n \in Nat /\ q \in [1 .. n -> S]
      /\ \A i, j \in 1 .. n : q[i] = q[j] => i = j
      /\ \A x \in S : \E i \in 1 .. n : q[i] = x
  BY <1>1, <1>5, OrderedOnce
<1> HIDE DEF n
<1> DEFINE t == [i \in 1 .. n |-> partitiones[q[i]]]
<1>7. free_slabs' = free_slabs \o t
  BY <1>1, <1>6
<1>8. \A x \in HeldPages : x \in Key /\ partitiones[x] \in Slabs!Slab /\ partitiones[x] \notin Elems(free_slabs)
  BY <1>3 DEF SlabInv, SlabTypeOK, HeldPages
<1>9. t \in [1 .. n -> Slabs!Slab]
  <2>1. \A i \in 1 .. n : q[i] \in HeldPages
    BY <1>5, <1>6
  <2> QED  BY <2>1, <1>8
<1>10. t \in Seq(Slabs!Slab) /\ Len(t) = n /\ DOMAIN t = 1 .. n
  <2>1. t \in Seq(Slabs!Slab)
    BY <1>6, <1>9, SeqDef
  <2>2. DOMAIN t = 1 .. n /\ DOMAIN t = 1 .. Len(t) /\ Len(t) \in Nat
    BY <2>1, LenProperties
  <2> QED  BY <2>1, <2>2, <1>6
<1>11. Distinct(t)
  <2> SUFFICES ASSUME NEW i \in 1 .. n, NEW j \in 1 .. n, t[i] = t[j] PROVE i = j
    BY <1>10 DEF Distinct
  <2>1. q[i] \in HeldPages /\ q[j] \in HeldPages /\ partitiones[q[i]] = partitiones[q[j]]
    BY <1>5, <1>6
  <2>2. q[i] = q[j]
    BY <2>1 DEF SlabInv
  <2> QED  BY <2>2, <1>6
<1>12. Elems(t) = {partitiones[x] : x \in S}
  <2>1. \A i \in 1 .. n : t[i] \in {partitiones[x] : x \in S}
    BY <1>6
  <2>2. \A x \in S : \E i \in 1 .. n : t[i] = partitiones[x]
    BY <1>6
  <2> QED  BY <2>1, <2>2, <1>10 DEF Elems
<1>13. \A s \in Elems(t) : s \notin Elems(free_slabs)
  BY <1>5, <1>8, <1>12
<1> HIDE DEF t
<1>14. /\ free_slabs' \in Seq(Slabs!Slab) /\ Distinct(free_slabs')
       /\ Elems(free_slabs') = Elems(free_slabs) \cup Elems(t)
  BY <1>3, <1>7, <1>10, <1>11, <1>13, Chained DEF SlabTypeOK, SlabInv
<1>15. HeldPages' = HeldPages \ P
  BY <1>2 DEF HeldPages
<1>16. SlabTypeOK'
  <2>1. partitiones' \in [Key -> Slabs!Slab \cup {Slabs!NoSlab}]
    BY <1>2, <1>3 DEF SlabTypeOK
  <2>2. slab_deref_count' \in [Slabs!Slab -> Nat]
    BY <1>2, <1>3 DEF SlabTypeOK
  <2>3. page' \in [Key -> [data : Nat, valid : 0 .. L2PGAP]]
    <3>1. [data |-> 0, valid |-> 0] \in [data : Nat, valid : 0 .. L2PGAP]
      BY <1>3
    <3> QED  BY <3>1, <1>2, <1>3 DEF SlabTypeOK
  <2> QED  BY <2>1, <2>2, <2>3, <1>2, <1>3, <1>14 DEF SlabTypeOK
<1>17. ASSUME NEW j \in HeldPages \ P
       PROVE  /\ j \in Key /\ partitiones'[j] = partitiones[j] /\ page'[j] = page[j]
              /\ partitiones[j] \in Slabs!Slab /\ partitiones[j] \notin Elems(t)
              /\ slab_deref_count'[partitiones[j]] = slab_deref_count[partitiones[j]]
  <2>1. j \in Key /\ partitiones'[j] = partitiones[j] /\ page'[j] = page[j] /\ partitiones[j] \in Slabs!Slab
    BY <1>2, <1>8
  <2>2. ASSUME NEW x \in P, partitiones[x] = partitiones[j] PROVE FALSE
    <3>1. x \in HeldPages
      BY <2>1, <2>2, <1>3, <1>4 DEF HeldPages
    <3> QED  BY <3>1, <2>2 DEF SlabInv
  <2>3. partitiones[j] \notin Elems(t)
    BY <2>2, <1>5, <1>12
  <2> QED  BY <2>1, <2>2, <2>3, <1>2
<1>18. \A j \in Key : (page'[j].valid > 0 <=> j \in HeldPages') /\ (page'[j].data = 0 => page'[j].valid = 0)
  <2> SUFFICES ASSUME NEW j \in Key
               PROVE  (page'[j].valid > 0 <=> j \in HeldPages') /\ (page'[j].data = 0 => page'[j].valid = 0)
    OBVIOUS
  <2>1. CASE j \in P
    BY <2>1, <1>2, <1>15
  <2>2. CASE j \notin P
    <3>1. page'[j] = page[j]
      BY <2>2, <1>2
    <3> QED  BY <2>2, <3>1, <1>15 DEF SlabInv
  <2> QED  BY <2>1, <2>2
<1>19. \A i, j \in HeldPages' : partitiones'[i] = partitiones'[j] => i = j
  BY <1>15, <1>17 DEF SlabInv
<1>20. \A j \in HeldPages' : /\ partitiones'[j] \notin Elems(free_slabs')
                             /\ slabs'[partitiones'[j]] = page'[j].data
                             /\ slab_deref_count'[partitiones'[j]] = L2PGAP - page'[j].valid
  <2> SUFFICES ASSUME NEW j \in HeldPages \ P
               PROVE  /\ partitiones'[j] \notin Elems(free_slabs')
                      /\ slabs'[partitiones'[j]] = page'[j].data
                      /\ slab_deref_count'[partitiones'[j]] = L2PGAP - page'[j].valid
    BY <1>15
  <2>1. /\ partitiones'[j] = partitiones[j] /\ page'[j] = page[j] /\ partitiones[j] \notin Elems(t)
        /\ slab_deref_count'[partitiones[j]] = slab_deref_count[partitiones[j]]
    BY <1>17
  <2> QED  BY <2>1, <1>2, <1>14 DEF SlabInv
<1>21. \A s \in Elems(free_slabs') : slab_deref_count'[s] = 0
  <2> SUFFICES ASSUME NEW s \in Elems(free_slabs') PROVE slab_deref_count'[s] = 0
    OBVIOUS
  <2>1. CASE s \in Elems(t)
    <3>1. PICK x \in S : s = partitiones[x]
      BY <2>1, <1>12
    <3>2. x \in P /\ s \in Slabs!Slab
      BY <3>1, <1>5, <1>8
    <3> QED  BY <3>1, <3>2, <1>2
  <2>2. CASE s \in Elems(free_slabs)
    <3>1. s \in Slabs!Slab /\ slab_deref_count[s] = 0
      BY <2>2, <1>3, SeqElems DEF SlabInv, SlabTypeOK
    <3> QED  BY <3>1, <1>2
  <2> QED  BY <2>1, <2>2, <1>14
<1>22. \A s \in Slabs!Slab : s \in Elems(free_slabs') \/ \E j \in HeldPages' : partitiones'[j] = s
  <2> SUFFICES ASSUME NEW s \in Slabs!Slab, s \notin Elems(free_slabs')
               PROVE  \E j \in HeldPages' : partitiones'[j] = s
    OBVIOUS
  <2>1. PICK j \in HeldPages : partitiones[j] = s
    BY <1>14 DEF SlabInv
  <2>2. j \notin P
    BY <2>1, <1>4, <1>12, <1>14
  <2> QED  BY <2>1, <2>2, <1>15, <1>17
<1> QED  BY <1>2, <1>14, <1>16, <1>18, <1>19, <1>20, <1>21, <1>22 DEF SlabInv

LEMMA SlabsFromInv == ASSUME SlabInv PROVE Slabs!SlabsExact
<1> DEFINE H == HeldPages
           f == [k \in H |-> partitiones[k]]
           R == {partitiones[k] : k \in H}
<1>1. SlabTypeOK /\ Distinct(free_slabs) /\ max_slab_num \in Nat
  BY SlabAssumption DEF SlabInv
<1>2. IsFiniteSet(Elems(free_slabs)) /\ Cardinality(Elems(free_slabs)) = Len(free_slabs)
  BY <1>1, DistinctCount DEF SlabTypeOK
<1>3. Elems(free_slabs) \subseteq Slabs!Slab
  BY <1>1, SeqElems DEF SlabTypeOK
<1>4. f \in Bijection(H, R)
  <2>1. f \in [H -> R]
    OBVIOUS
  <2>2. \A j, k \in H : f[j] = f[k] => j = k
    BY DEF SlabInv
  <2>3. \A e \in R : \E k \in H : f[k] = e
    OBVIOUS
  <2> QED  BY <2>1, <2>2, <2>3 DEF Bijection, Injection, Surjection, IsInjective
<1>5. IsFiniteSet(H)
  BY HeldFinite
<1>6. R \subseteq Slabs!Slab /\ R \cap Elems(free_slabs) = {}
  BY <1>1 DEF SlabInv, SlabTypeOK, HeldPages
<1>7. Elems(free_slabs) \cup R = Slabs!Slab
  BY <1>3, <1>6 DEF SlabInv
<1> HIDE DEF f, R
<1>8. IsFiniteSet(R) /\ Cardinality(R) = Cardinality(H)
  BY <1>4, <1>5, FS_Bijection DEF ExistsBijection
<1>9. Cardinality(Slabs!Slab) = max_slab_num
  BY <1>1, FS_Interval DEF Slabs!Slab
<1>10. /\ Cardinality(Elems(free_slabs) \cup R) = Cardinality(Elems(free_slabs)) + Cardinality(R)
                                                   - Cardinality(Elems(free_slabs) \cap R)
  BY <1>2, <1>8, FS_Union
<1>11. Cardinality(Elems(free_slabs) \cap R) = 0
  BY <1>6, FS_EmptySet
<1>12. Cardinality(R) \in Nat /\ Cardinality(Elems(free_slabs)) \in Nat
  BY <1>2, <1>8, FS_CardinalityType
<1>13. Len(free_slabs) + Cardinality(H) = max_slab_num
  <2>1. Cardinality(Elems(free_slabs) \cup R) = max_slab_num
    BY <1>7, <1>9
  <2>2. max_slab_num = Len(free_slabs) + Cardinality(H) - 0
    BY <2>1, <1>2, <1>8, <1>10, <1>11
  <2>3. Len(free_slabs) \in Nat /\ Cardinality(H) \in Nat
    BY <1>2, <1>8, <1>12
  <2> QED  BY <2>2, <2>3
<1>14. Slabs!ToSet(free_slabs) \cup {partitiones[k] : k \in H} = Slabs!Slab
  BY <1>7, SlabOperators DEF R
<1>15. \A k \in Key : page[k].valid > 0 <=> partitiones[k] # Slabs!NoSlab
  BY DEF SlabInv, HeldPages
<1>16. got /\ \A k \in H : slab_deref_count[partitiones[k]] = L2PGAP - page[k].valid
  BY DEF SlabInv
<1>17. Slabs!Cardinality(H) = Cardinality(H)
  BY SlabOperators
<1> QED  BY <1>13, <1>14, <1>15, <1>16, <1>17 DEF Slabs!SlabsExact, HeldPages

LEMMA SlabNext ==
    ASSUME SlabInv, Slabs!NextSlabs \/ UNCHANGED slabVars
    PROVE  SlabInv'
<1>1. ASSUME UNCHANGED slabVars PROVE SlabInv'
  <2>1. /\ free_slabs' = free_slabs /\ partitiones' = partitiones /\ slabs' = slabs
        /\ slab_deref_count' = slab_deref_count /\ page' = page /\ inserts' = inserts /\ got' = got
    BY <1>1 DEF slabVars
  <2>2. SlabTypeOK' /\ HeldPages' = HeldPages
    BY <2>1 DEF SlabInv, SlabTypeOK, HeldPages
  <2> QED  BY <2>1, <2>2 DEF SlabInv
<1>2. ASSUME NEW k \in Key, Slabs!Insert(k) \/ Slabs!Get(k) \/ Slabs!FreeSlab(k) \/ Slabs!FreePartition(k)
      PROVE  SlabInv'
  BY <1>2, SlabInsert, SlabGet, SlabFree, SlabFreePartition
<1> QED  BY <1>1, <1>2 DEF Slabs!NextSlabs

-----------------------------------------------------------------------------
(* The parallel unit manager.                                              *)

PuStates == {"idle", "call", "queued", "moved", "kept"}
PuRequest == [op : {"R", "W"}, ppa : Nat, data : Nat, want : Nat, st : PuStates]
PuEntry == ({"io"} \X Id) \cup ({"trim"} \X Ppa)
PuTypeOK ==
    /\ cached \in [Pu!Slot -> [ppa : Ppa \cup {Pu!None}, data : Nat]]
    /\ medium \in [Ppa -> Nat] /\ issued \in [Ppa -> Nat] /\ writes \in [Ppa -> Nat]
    /\ wrappers \in Nat /\ devq \in Seq(PuEntry)
    /\ serving \in Id \cup {Pu!None} /\ caller \in Id \cup {Pu!None}
    /\ request \in [Id -> PuRequest] /\ right

\* Where a request is: with the caller, in the queue once, or with the device.
InWrapper == {i \in Id : request[i].st \in {"queued", "moved", "kept"}}
PuPlaces ==
    /\ \A i \in Id : /\ request[i].st = "call" <=> caller = i
                     /\ request[i].st = "queued" <=> <<"io", i>> \in Elems(devq)
                     /\ request[i].st \in {"moved", "kept"} <=> serving = i
    /\ \A a, b \in DOMAIN devq : devq[a] = devq[b] /\ devq[a][1] = "io" => a = b
    /\ wrappers = QDEPTH - Cardinality(InWrapper)

\* What a request wants is what its page holds as far as the FTL is concerned; a
\* write that waits for a wrapper is alone on its page.
PuWants ==
    /\ \A i \in Id : request[i].st # "idle" =>
         /\ request[i].ppa \in Ppa /\ request[i].want # 0 /\ issued[request[i].ppa] = request[i].want
         /\ (request[i].op = "W" \/ request[i].st \in {"moved", "kept"}) => request[i].data = request[i].want
    /\ \A i, j \in Id :
         request[i].st = "call" /\ request[i].op = "W" /\ request[j].st # "idle" /\ request[j].ppa = request[i].ppa
           => i = j

\* Behind a request the queue has neither an erase nor a write of its page.
PuOrder ==
    \A a, b \in DOMAIN devq : a < b /\ devq[a][1] = "io" =>
        LET p == request[devq[a][2]].ppa
        IN  IF devq[b][1] = "trim" THEN p \notin Pu!Block(devq[b][2])
            ELSE request[devq[b][2]].op = "W" => request[devq[b][2]].ppa # p

\* The write of a page on its way to the device.
WriteComing(p) == \E i \in Id : /\ request[i].op = "W" /\ request[i].ppa = p
                                /\ request[i].st \in {"call", "queued"}
PuMedium ==
    \A p \in Ppa : issued[p] # 0 /\ ~WriteComing(p) =>
        medium[p] = issued[p] /\ \A e \in Elems(devq) : e[1] = "trim" => p \notin Pu!Block(e[2])

PuCache ==
    \A s \in Pu!Slot : cached[s].ppa # Pu!None =>
        cached[s].ppa % QDEPTH = s /\ issued[cached[s].ppa] # 0 /\ cached[s].data = issued[cached[s].ppa]

PuInv == PuTypeOK /\ PuPlaces /\ PuWants /\ PuOrder /\ PuMedium /\ PuCache

\* A queue one longer, or without its first element, place by place.
LEMMA AppendAt ==
    ASSUME NEW S, NEW s \in Seq(S), NEW e \in S
    PROVE  /\ \A a \in DOMAIN s : a \in DOMAIN Append(s, e) /\ Append(s, e)[a] = s[a] /\ a < Len(s) + 1 /\ a \in Nat
           /\ \A a \in DOMAIN Append(s, e) : \/ a \in DOMAIN s /\ Append(s, e)[a] = s[a]
                                             \/ a = Len(s) + 1 /\ Append(s, e)[a] = e
           /\ Len(s) \in Nat
<1>1. Len(s) \in Nat /\ DOMAIN s = 1 .. Len(s)
  BY LenProperties
<1>2. Append(s, e) \in Seq(S) /\ Len(Append(s, e)) = Len(s) + 1
  BY AppendProperties
<1>3. DOMAIN Append(s, e) = 1 .. Len(s) + 1
  BY <1>2, LenProperties
<1>4. \A i \in 1 .. Len(s) : Append(s, e)[i] = s[i]
  BY AppendProperties
<1>5. Append(s, e)[Len(s) + 1] = e
  BY AppendProperties
<1> QED  BY <1>1, <1>3, <1>4, <1>5

LEMMA TailAt ==
    ASSUME NEW S, NEW s \in Seq(S), s # <<>>
    PROVE  /\ \A a \in DOMAIN Tail(s) : a \in Nat /\ a + 1 \in DOMAIN s /\ Tail(s)[a] = s[a + 1] /\ 1 < a + 1
           /\ 1 \in DOMAIN s /\ Head(s) = s[1]
<1>1. Len(s) \in Nat /\ DOMAIN s = 1 .. Len(s) /\ Len(s) > 0
  BY LenProperties, EmptySeq
<1>2. Tail(s) \in Seq(S) /\ Len(Tail(s)) = Len(s) - 1 /\ Head(s) = s[1]
  BY HeadTailProperties
<1>3. DOMAIN Tail(s) = 1 .. Len(s) - 1
  BY <1>1, <1>2, LenProperties
<1>4. \A i \in 1 .. Len(s) - 1 : Tail(s)[i] = s[i + 1]
  BY HeadTailProperties
<1> QED  BY <1>1, <1>2, <1>3, <1>4

LEMMA PuOperators == \A S : Pu!Cardinality(S) = Cardinality(S)
BY DEF Pu!Cardinality, Cardinality

LEMMA PuConstants ==
    /\ Pu!None \notin Id /\ Pu!None \notin Ppa /\ QDEPTH \in Nat \ {0} /\ Ppa \subseteq Nat /\ IsFiniteSet(Id)
    /\ \A p \in Ppa : p % QDEPTH \in Pu!Slot
    /\ \A e \in PuEntry : \/ e[1] = "io" /\ e[2] \in Id /\ e = <<"io", e[2]>>
                          \/ e[1] = "trim" /\ e[2] \in Ppa /\ e = <<"trim", e[2]>>
<1>1. Ppa \subseteq Nat /\ QDEPTH \in Nat \ {0} /\ Id \subseteq Nat /\ IsFiniteSet(Id) /\ Pu!None = -1
  BY PuAssumption DEF Pu!None
<1>2. \A p \in Ppa : p % QDEPTH \in Pu!Slot
  BY <1>1 DEF Pu!Slot
<1>3. \A e \in PuEntry : \/ e[1] = "io" /\ e[2] \in Id /\ e = <<"io", e[2]>>
                         \/ e[1] = "trim" /\ e[2] \in Ppa /\ e = <<"trim", e[2]>>
  BY DEF PuEntry
<1> QED  BY <1>1, <1>2, <1>3

\* What the queue holds: requests that are queued, and erases.
LEMMA QueuedEntries ==
    ASSUME PuTypeOK, PuPlaces
    PROVE  \A a \in DOMAIN devq :
             /\ devq[a] \in Elems(devq)
             /\ \/ devq[a][1] = "io" /\ devq[a][2] \in Id /\ devq[a] = <<"io", devq[a][2]>>
                   /\ request[devq[a][2]].st = "queued"
                \/ devq[a][1] = "trim" /\ devq[a][2] \in Ppa
<1> SUFFICES ASSUME NEW a \in DOMAIN devq
             PROVE  /\ devq[a] \in Elems(devq)
                    /\ \/ devq[a][1] = "io" /\ devq[a][2] \in Id /\ devq[a] = <<"io", devq[a][2]>>
                          /\ request[devq[a][2]].st = "queued"
                       \/ devq[a][1] = "trim" /\ devq[a][2] \in Ppa
  OBVIOUS
<1>1. devq[a] \in Elems(devq)
  BY DEF Elems
<1>2. devq[a] \in PuEntry
  BY <1>1, SeqElems DEF PuTypeOK
<1>3. PICK e \in PuEntry : e = devq[a]
  BY <1>2
<1>4. \/ e[1] = "io" /\ e[2] \in Id /\ e = <<"io", e[2]>>
      \/ e[1] = "trim" /\ e[2] \in Ppa
  BY PuConstants
<1>5. e[2] \in Id /\ e = <<"io", e[2]>> => request[e[2]].st = "queued"
  BY <1>1, <1>3 DEF PuPlaces
<1> QED  BY <1>1, <1>3, <1>4, <1>5

LEMMA PuInit == ASSUME Pu!InitPu PROVE PuInv
<1>1. /\ cached = [s \in Pu!Slot |-> [ppa |-> Pu!None, data |-> 0]]
      /\ medium = [p \in Ppa |-> 0] /\ issued = [p \in Ppa |-> 0] /\ writes = [p \in Ppa |-> 0]
      /\ wrappers = QDEPTH /\ devq = <<>> /\ serving = Pu!None /\ caller = Pu!None
      /\ request = [i \in Id |-> [op |-> "R", ppa |-> 0, data |-> 0, want |-> 0, st |-> "idle"]] /\ right = TRUE
  BY DEF Pu!InitPu, Pu!Fresh
<1>2. devq \in Seq(PuEntry) /\ Elems(devq) = {} /\ DOMAIN devq = {}
  BY <1>1, EmptyQueue DEF Elems
<1>3. PuTypeOK
  BY <1>1, <1>2, PuConstants DEF PuTypeOK, PuRequest, PuStates
<1>4. InWrapper = {}
  BY <1>1 DEF InWrapper
<1>5. Cardinality(InWrapper) = 0
  BY <1>4, FS_EmptySet
<1>6. PuPlaces
  BY <1>1, <1>2, <1>5, PuConstants DEF PuPlaces
<1>7. PuWants /\ PuOrder /\ PuMedium /\ PuCache
  BY <1>1, <1>2 DEF PuWants, PuOrder, PuMedium, PuCache
<1> QED  BY <1>3, <1>6, <1>7 DEF PuInv

\* A new request of page p waits for a wrapper; if it writes, no other request
\* of the page is in progress.
LEMMA PuCall ==
    ASSUME PuInv, NEW i \in Id, NEW p \in Ppa, NEW r, r \in PuRequest, NEW v \in Nat \ {0},
           request[i].st = "idle", caller = Pu!None,
           r.ppa = p, r.want = v, r.st = "call", r.op = "W" => r.data = v,
           request' = [request EXCEPT ![i] = r], caller' = i,
           issued' = [issued EXCEPT ![p] = v], r.op = "R" => issued[p] = v, r.op = "W" => issued[p] = 0,
           writes' \in [Ppa -> Nat],
           UNCHANGED <<cached, medium, wrappers, devq, serving, right>>
    PROVE  PuInv'
<1>1. PuTypeOK /\ PuPlaces /\ PuWants /\ PuOrder /\ PuMedium /\ PuCache
  BY DEF PuInv
<1>2. /\ request'[i] = r /\ \A j \in Id \ {i} : request'[j] = request[j]
      /\ issued'[p] = v /\ \A x \in Ppa \ {p} : issued'[x] = issued[x]
      /\ cached' = cached /\ medium' = medium /\ wrappers' = wrappers /\ devq' = devq
      /\ serving' = serving /\ right' = right
  BY <1>1 DEF PuTypeOK
<1>3. PuTypeOK'
  BY <1>1, <1>2 DEF PuTypeOK
<1>4. <<"io", i>> \notin Elems(devq) /\ serving # i
  BY <1>1 DEF PuPlaces
<1>5. r.op \in {"R", "W"}
  BY DEF PuRequest
<1>6. ASSUME NEW j \in Id \ {i}, request[j].st # "idle" PROVE issued'[request[j].ppa] = issued[request[j].ppa]
  <2>1. request[j].ppa \in Ppa /\ issued[request[j].ppa] # 0
    BY <1>1, <1>6 DEF PuWants
  <2>2. CASE request[j].ppa = p
    BY <2>1, <2>2, <1>2, <1>5
  <2> QED  BY <2>1, <2>2, <1>2
<1>7. PuPlaces'
  <2>1. InWrapper' = InWrapper
    BY <1>2 DEF InWrapper
  <2>2. \A j \in Id : j # i => request[j].st # "call"
    BY <1>1, PuConstants DEF PuPlaces
  <2> QED  BY <2>1, <2>2, <1>1, <1>2, <1>4 DEF PuPlaces
<1>8. PuWants'
  <2>1. ASSUME NEW j \in Id, request'[j].st # "idle"
        PROVE  /\ request'[j].ppa \in Ppa /\ request'[j].want # 0 /\ issued'[request'[j].ppa] = request'[j].want
               /\ (request'[j].op = "W" \/ request'[j].st \in {"moved", "kept"}) => request'[j].data = request'[j].want
    <3>1. CASE j = i
      BY <3>1, <1>2
    <3>2. CASE j # i
      BY <3>2, <2>1, <1>1, <1>2, <1>6 DEF PuWants
    <3> QED  BY <3>1, <3>2
  <2>2. ASSUME NEW j \in Id, NEW k \in Id, request'[j].st = "call", request'[j].op = "W",
               request'[k].st # "idle", request'[k].ppa = request'[j].ppa
        PROVE  j = k
    <3>1. j = i
      BY <2>2, <1>1, <1>2, PuConstants DEF PuPlaces
    <3>2. r.op = "W" /\ issued[p] = 0
      BY <2>2, <3>1, <1>2
    <3>3. CASE k # i
      <4>1. request[k].st # "idle" /\ request[k].ppa = p
        BY <2>2, <3>1, <3>3, <1>2
      <4>2. issued[p] # 0
        BY <4>1, <1>1 DEF PuWants
      <4> QED  BY <3>2, <4>2
    <3> QED  BY <3>1, <3>3
  <2> QED  BY <2>1, <2>2 DEF PuWants
<1>9. PuOrder'
  <2>1. \A a \in DOMAIN devq : devq[a][1] = "io" => request'[devq[a][2]] = request[devq[a][2]]
    BY <1>1, <1>2, QueuedEntries
  <2>2. \A a \in DOMAIN devq : devq[a][1] # "trim" => request'[devq[a][2]] = request[devq[a][2]]
    BY <1>1, <2>1, QueuedEntries
  <2> QED  BY <2>1, <2>2, <1>1, <1>2 DEF PuOrder
<1>10. PuMedium'
  <2> SUFFICES ASSUME NEW x \in Ppa, issued'[x] # 0, ~WriteComing(x)'
               PROVE  medium[x] = issued'[x] /\ \A e \in Elems(devq) : e[1] = "trim" => x \notin Pu!Block(e[2])
    BY <1>2 DEF PuMedium
  <2>1. ~WriteComing(x)
    <3> SUFFICES ASSUME NEW j \in Id, request[j].op = "W", request[j].ppa = x, request[j].st \in {"call", "queued"}
                 PROVE  FALSE
      BY DEF WriteComing
    <3>1. j # i
      OBVIOUS
    <3> QED  BY <3>1, <1>2 DEF WriteComing
  <2>2. issued'[x] = issued[x]
    <3>1. CASE x = p /\ r.op = "W"
      BY <3>1, <1>2 DEF WriteComing
    <3>2. CASE x = p /\ r.op = "R"
      BY <3>2, <1>2
    <3> QED  BY <3>1, <3>2, <1>2, <1>5
  <2> QED  BY <2>1, <2>2, <1>1 DEF PuMedium
<1>11. PuCache'
  <2> SUFFICES ASSUME NEW s \in Pu!Slot, cached[s].ppa # Pu!None
               PROVE  /\ cached[s].ppa % QDEPTH = s /\ issued'[cached[s].ppa] # 0
                      /\ cached[s].data = issued'[cached[s].ppa]
    BY <1>2 DEF PuCache
  <2>1. /\ cached[s].ppa \in Ppa /\ cached[s].ppa % QDEPTH = s /\ issued[cached[s].ppa] # 0
        /\ cached[s].data = issued[cached[s].ppa]
    BY <1>1 DEF PuCache, PuTypeOK
  <2>2. issued'[cached[s].ppa] = issued[cached[s].ppa]
    BY <2>1, <1>2, <1>5
  <2> QED  BY <2>1, <2>2
<1> QED  BY <1>3, <1>7, <1>8, <1>9, <1>10, <1>11 DEF PuInv

LEMMA PuWriteInv == ASSUME PuInv, NEW i \in Id, NEW p \in Ppa, Pu!PuWrite(i, p) PROVE PuInv'
<1> DEFINE v == writes[p] + 1
           r == [op |-> "W", ppa |-> p, data |-> v, want |-> v, st |-> "call"]
<1>1. /\ caller = Pu!None /\ request[i].st = "idle" /\ issued[p] = 0
      /\ issued' = [issued EXCEPT ![p] = v] /\ writes' = [writes EXCEPT ![p] = @ + 1]
      /\ request' = [request EXCEPT ![i] = r] /\ caller' = i
      /\ UNCHANGED <<cached, medium, wrappers, devq, serving, right>>
  BY DEF Pu!PuWrite, Pu!Idle, Pu!Busy
<1>2. v \in Nat \ {0} /\ writes' \in [Ppa -> Nat] /\ p \in Nat
  BY <1>1, PuConstants DEF PuInv, PuTypeOK
<1>3. r \in PuRequest
  BY <1>2 DEF PuRequest, PuStates
<1>4. r.ppa = p /\ r.want = v /\ r.st = "call" /\ r.op = "W" /\ r.data = v
  OBVIOUS
<1> HIDE DEF r, v
<1> QED  BY <1>1, <1>2, <1>3, <1>4, PuCall

LEMMA PuReadInv == ASSUME PuInv, NEW i \in Id, NEW p \in Ppa, Pu!PuRead(i, p) PROVE PuInv'
<1>1. /\ caller = Pu!None /\ request[i].st = "idle" /\ issued[p] # 0
      /\ UNCHANGED <<cached, medium, issued, writes, wrappers, devq, serving>>
  BY DEF Pu!PuRead, Pu!Idle, Pu!Busy
<1>2. PuTypeOK /\ issued[p] \in Nat \ {0} /\ p \in Nat
  BY <1>1, PuConstants DEF PuInv, PuTypeOK
<1>3. CASE cached[p % QDEPTH].ppa = p
  <2>1. /\ right' = (right /\ cached[p % QDEPTH].data = issued[p]) /\ caller' = caller /\ request' = request
    BY <1>3 DEF Pu!PuRead, Pu!BufferHit
  <2>2. p % QDEPTH \in Pu!Slot /\ p # Pu!None
    BY PuConstants
  <2>3. cached[p % QDEPTH].data = issued[p]
    BY <1>3, <2>2 DEF PuInv, PuCache
  <2>4. right'
    BY <2>1, <2>3, <1>2 DEF PuTypeOK
  <2>5. PuTypeOK' /\ InWrapper' = InWrapper
    BY <2>1, <2>4, <1>1, <1>2 DEF PuTypeOK, InWrapper
  <2>6. \A x : WriteComing(x)' <=> WriteComing(x)
    BY <2>1 DEF WriteComing
  <2> QED  BY <2>1, <2>5, <2>6, <1>1 DEF PuInv, PuPlaces, PuWants, PuOrder, PuMedium, PuCache
<1>4. CASE cached[p % QDEPTH].ppa # p
  <2> DEFINE r == [op |-> "R", ppa |-> p, data |-> 0, want |-> issued[p], st |-> "call"]
  <2>1. request' = [request EXCEPT ![i] = r] /\ caller' = i /\ right' = right
    BY <1>4 DEF Pu!PuRead, Pu!BufferHit, Pu!Fresh
  <2>2. r \in PuRequest
    BY <1>2 DEF PuRequest, PuStates
  <2>3. r.ppa = p /\ r.want = issued[p] /\ r.st = "call" /\ r.op = "R"
    OBVIOUS
  <2> HIDE DEF r
  <2>4. issued' = [issued EXCEPT ![p] = issued[p]] /\ writes' \in [Ppa -> Nat]
    BY <1>1, <1>2 DEF PuTypeOK
  <2> QED  BY <2>1, <2>2, <2>3, <2>4, <1>1, <1>2, PuCall
<1> QED  BY <1>3, <1>4

LEMMA PuGetWrapperInv == ASSUME PuInv, Pu!GetWrapper PROVE PuInv'
<1> DEFINE c == caller
<1>1. PuTypeOK /\ PuPlaces /\ PuWants /\ PuOrder /\ PuMedium /\ PuCache
  BY DEF PuInv
<1>2. /\ c # Pu!None /\ wrappers > 0 /\ wrappers' = wrappers - 1 /\ devq' = Append(devq, <<"io", c>>)
      /\ request' = [request EXCEPT ![c].st = "queued"] /\ caller' = Pu!None
      /\ cached' = cached /\ medium' = medium /\ issued' = issued /\ writes' = writes
      /\ serving' = serving /\ right' = right
  BY DEF Pu!GetWrapper
<1>3. c \in Id /\ request[c].st = "call" /\ request[c] \in PuRequest
  BY <1>1, <1>2 DEF PuTypeOK, PuPlaces
<1>4. /\ request'[c] \in PuRequest /\ request'[c].st = "queued" /\ request'[c].op = request[c].op
      /\ request'[c].ppa = request[c].ppa /\ request'[c].data = request[c].data /\ request'[c].want = request[c].want
      /\ \A j \in Id \ {c} : request'[j] = request[j]
      /\ request' \in [Id -> PuRequest]
  <2> DEFINE r == [request[c] EXCEPT !.st = "queued"]
  <2>1. /\ r \in PuRequest /\ r.st = "queued" /\ r.op = request[c].op /\ r.ppa = request[c].ppa
        /\ r.data = request[c].data /\ r.want = request[c].want
    BY <1>3 DEF PuRequest, PuStates
  <2>2. request' = [request EXCEPT ![c] = r]
    BY <1>2
  <2> HIDE DEF r
  <2>3. request'[c] = r /\ (\A j \in Id \ {c} : request'[j] = request[j]) /\ request' \in [Id -> PuRequest]
    BY <2>1, <2>2, <1>1, <1>3 DEF PuTypeOK
  <2> QED  BY <2>1, <2>3
<1>5. <<"io", c>> \in PuEntry /\ devq \in Seq(PuEntry)
  BY <1>1, <1>3 DEF PuEntry, PuTypeOK
<1>6. devq' \in Seq(PuEntry) /\ Elems(devq') = Elems(devq) \cup {<<"io", c>>}
  <2>1. PICK e \in PuEntry : e = <<"io", c>>
    BY <1>5
  <2>2. Append(devq, e) \in Seq(PuEntry) /\ Elems(Append(devq, e)) = Elems(devq) \cup {e}
    BY <1>5, Enqueue
  <2> QED  BY <2>1, <2>2, <1>2
<1>7. /\ Len(devq) \in Nat
      /\ \A a \in DOMAIN devq' : \/ a \in DOMAIN devq /\ devq'[a] = devq[a] /\ a < Len(devq) + 1
                                 \/ a = Len(devq) + 1 /\ devq'[a] = <<"io", c>>
  BY <1>2, <1>5, AppendAt
<1>8. <<"io", c>> \notin Elems(devq) /\ serving # c
  BY <1>1, <1>3 DEF PuPlaces
<1> HIDE DEF c
<1>9. PuTypeOK'
  BY <1>1, <1>2, <1>4, <1>6 DEF PuTypeOK
<1>10. PuPlaces'
  <2>1. ASSUME NEW j \in Id
        PROVE  /\ request'[j].st = "call" <=> caller' = j
               /\ request'[j].st = "queued" <=> <<"io", j>> \in Elems(devq')
               /\ request'[j].st \in {"moved", "kept"} <=> serving' = j
    <3>1. CASE j = c
      BY <3>1, <1>2, <1>3, <1>4, <1>6, <1>8, PuConstants
    <3>2. CASE j # c
      <4>1. request[j].st # "call" /\ <<"io", j>> # <<"io", c>> /\ j # Pu!None
        BY <3>2, <1>1, PuConstants DEF PuPlaces, c
      <4> QED  BY <3>2, <4>1, <1>1, <1>2, <1>4, <1>6 DEF PuPlaces
    <3> QED  BY <3>1, <3>2
  <2>2. ASSUME NEW a \in DOMAIN devq', NEW b \in DOMAIN devq', devq'[a] = devq'[b], devq'[a][1] = "io"
        PROVE  a = b
    <3>1. \A d \in DOMAIN devq : devq[d] # <<"io", c>>
      BY <1>8 DEF Elems
    <3>2. CASE a \in DOMAIN devq /\ devq'[a] = devq[a]
      <4>1. b \in DOMAIN devq /\ devq'[b] = devq[b]
        BY <2>2, <3>1, <3>2, <1>7
      <4> QED  BY <2>2, <3>2, <4>1, <1>1 DEF PuPlaces
    <3>3. CASE a = Len(devq) + 1 /\ devq'[a] = <<"io", c>>
      <4>1. b = Len(devq) + 1
        BY <2>2, <3>1, <3>3, <1>7
      <4> QED  BY <3>3, <4>1
    <3> QED  BY <3>2, <3>3, <1>7
  <2>3. wrappers' = QDEPTH - Cardinality(InWrapper')
    <3>1. InWrapper' = InWrapper \cup {c} /\ c \notin InWrapper
      BY <1>3, <1>4 DEF InWrapper
    <3>2. IsFiniteSet(InWrapper)
      BY PuConstants, FS_Subset DEF InWrapper
    <3>3. Cardinality(InWrapper \cup {c}) = Cardinality(InWrapper) + 1
      BY <3>1, <3>2, FS_AddElement
    <3>4. Cardinality(InWrapper) \in Nat
      BY <3>2, FS_CardinalityType
    <3> QED  BY <3>1, <3>3, <3>4, <1>1, <1>2, PuConstants DEF PuPlaces
  <2> QED  BY <2>1, <2>2, <2>3 DEF PuPlaces
<1>11. PuWants'
  <2>1. ASSUME NEW j \in Id, request'[j].st # "idle"
        PROVE  /\ request'[j].ppa \in Ppa /\ request'[j].want # 0 /\ issued'[request'[j].ppa] = request'[j].want
               /\ (request'[j].op = "W" \/ request'[j].st \in {"moved", "kept"}) => request'[j].data = request'[j].want
    <3>1. CASE j = c
      BY <3>1, <1>1, <1>2, <1>3, <1>4 DEF PuWants
    <3>2. CASE j # c
      BY <3>2, <2>1, <1>1, <1>2, <1>4 DEF PuWants
    <3> QED  BY <3>1, <3>2
  <2>2. \A j \in Id : request'[j].st # "call"
    BY <1>1, <1>4 DEF PuPlaces, c
  <2> QED  BY <2>1, <2>2 DEF PuWants
<1>12. \A j \in Id : request'[j].ppa = request[j].ppa /\ request'[j].op = request[j].op
  BY <1>3, <1>4
<1>13. PuOrder'
  <2> SUFFICES ASSUME NEW a \in DOMAIN devq', NEW b \in DOMAIN devq', a < b, devq'[a][1] = "io"
               PROVE  IF devq'[b][1] = "trim" THEN request'[devq'[a][2]].ppa \notin Pu!Block(devq'[b][2])
                      ELSE request'[devq'[b][2]].op = "W" => request'[devq'[b][2]].ppa # request'[devq'[a][2]].ppa
    BY DEF PuOrder
  <2>1. a \in DOMAIN devq /\ devq'[a] = devq[a]
    BY <1>7
  <2>2. devq[a][2] \in Id /\ request[devq[a][2]].st = "queued"
    BY <2>1, <1>1, QueuedEntries
  <2>3. CASE b \in DOMAIN devq /\ devq'[b] = devq[b]
    <3>1. devq[b][1] # "trim" => devq[b][2] \in Id
      BY <2>3, <1>1, QueuedEntries
    <3>2. IF devq[b][1] = "trim" THEN request[devq[a][2]].ppa \notin Pu!Block(devq[b][2])
          ELSE request[devq[b][2]].op = "W" => request[devq[b][2]].ppa # request[devq[a][2]].ppa
      BY <2>1, <2>3, <1>1 DEF PuOrder
    <3> QED  BY <2>1, <2>2, <2>3, <3>1, <3>2, <1>12
  <2>4. CASE devq'[b] = <<"io", c>>
    <3>1. devq'[b][1] = "io" /\ devq'[b][2] = c
      BY <2>4
    <3>2. c # devq[a][2]
      BY <2>2, <1>3
    <3>3. request[c].op = "W" => request[c].ppa # request[devq[a][2]].ppa
      BY <2>2, <3>2, <1>1, <1>3 DEF PuWants
    <3> QED  BY <2>1, <2>2, <3>1, <3>3, <1>3, <1>12
  <2> QED  BY <2>3, <2>4, <1>7
<1>14. PuMedium'
  <2>1. \A x : WriteComing(x) => WriteComing(x)'
    <3> SUFFICES ASSUME NEW x, NEW j \in Id, request[j].op = "W", request[j].ppa = x, request[j].st \in {"call", "queued"}
                 PROVE  WriteComing(x)'
      BY DEF WriteComing
    <3>1. request'[j].st \in {"call", "queued"}
      BY <1>4
    <3> QED  BY <3>1, <1>12 DEF WriteComing
  <2>2. \A e \in Elems(devq') : e[1] = "trim" => e \in Elems(devq)
    BY <1>6
  <2> QED  BY <2>1, <2>2, <1>1, <1>2 DEF PuMedium
<1>15. PuCache'
  BY <1>1, <1>2 DEF PuCache
<1> QED  BY <1>9, <1>10, <1>11, <1>13, <1>14, <1>15 DEF PuInv

LEMMA PuTrimInv == ASSUME TrimsBusy = FALSE, PuInv, NEW p \in Ppa, Pu!PuTrim(p) PROVE PuInv'
<1>1. PuTypeOK /\ PuPlaces /\ PuWants /\ PuOrder /\ PuMedium /\ PuCache
  BY DEF PuInv
<1>2. /\ caller = Pu!None /\ \A i \in Id : request[i].ppa \in Pu!Block(p) => request[i].st = "idle"
      /\ cached' = [s \in Pu!Slot |-> [cached[s] EXCEPT !.ppa = Pu!None]]
      /\ devq' = Append(devq, <<"trim", p>>)
      /\ issued' = [x \in Ppa |-> IF x \in Pu!Block(p) THEN 0 ELSE issued[x]]
      /\ medium' = medium /\ writes' = writes /\ wrappers' = wrappers /\ serving' = serving
      /\ caller' = caller /\ request' = request /\ right' = right
  BY DEF Pu!PuTrim, Pu!Busy, Pu!DropCached
<1>3. <<"trim", p>> \in PuEntry /\ devq \in Seq(PuEntry)
  BY <1>1 DEF PuEntry, PuTypeOK
<1>4. devq' \in Seq(PuEntry) /\ Elems(devq') = Elems(devq) \cup {<<"trim", p>>}
  <2>1. PICK e \in PuEntry : e = <<"trim", p>>
    BY <1>3
  <2>2. Append(devq, e) \in Seq(PuEntry) /\ Elems(Append(devq, e)) = Elems(devq) \cup {e}
    BY <1>3, Enqueue
  <2> QED  BY <2>1, <2>2, <1>2
<1>5. /\ Len(devq) \in Nat
      /\ \A a \in DOMAIN devq' : \/ a \in DOMAIN devq /\ devq'[a] = devq[a] /\ a < Len(devq) + 1
                                 \/ a = Len(devq) + 1 /\ devq'[a] = <<"trim", p>>
  BY <1>2, <1>3, AppendAt
<1>6. \A s \in Pu!Slot : cached'[s].ppa = Pu!None /\ cached'[s] \in [ppa : Ppa \cup {Pu!None}, data : Nat]
  BY <1>1, <1>2 DEF PuTypeOK
<1>7. PuTypeOK'
  <2>1. issued' \in [Ppa -> Nat]
    BY <1>1, <1>2 DEF PuTypeOK
  <2>2. cached' \in [Pu!Slot -> [ppa : Ppa \cup {Pu!None}, data : Nat]]
    BY <1>2, <1>6
  <2> QED  BY <2>1, <2>2, <1>1, <1>2, <1>4 DEF PuTypeOK
<1>8. PuPlaces'
  <2>1. \A j : <<"io", j>> # <<"trim", p>>
    OBVIOUS
  <2>2. InWrapper' = InWrapper
    BY <1>2 DEF InWrapper
  <2>3. ASSUME NEW a \in DOMAIN devq', NEW b \in DOMAIN devq', devq'[a] = devq'[b], devq'[a][1] = "io"
        PROVE  a = b
    <3>1. a \in DOMAIN devq /\ devq'[a] = devq[a] /\ b \in DOMAIN devq /\ devq'[b] = devq[b]
      BY <2>3, <1>5
    <3> QED  BY <2>3, <3>1, <1>1 DEF PuPlaces
  <2> QED  BY <2>1, <2>2, <2>3, <1>1, <1>2, <1>4 DEF PuPlaces
<1>9. PuWants'
  <2>1. \A i \in Id : request[i].st # "idle" => request[i].ppa \in Ppa /\ issued'[request[i].ppa] = issued[request[i].ppa]
    BY <1>1, <1>2 DEF PuWants
  <2> QED  BY <2>1, <1>1, <1>2 DEF PuWants
<1>10. PuOrder'
  <2> SUFFICES ASSUME NEW a \in DOMAIN devq', NEW b \in DOMAIN devq', a < b, devq'[a][1] = "io"
               PROVE  IF devq'[b][1] = "trim" THEN request[devq'[a][2]].ppa \notin Pu!Block(devq'[b][2])
                      ELSE request[devq'[b][2]].op = "W" => request[devq'[b][2]].ppa # request[devq'[a][2]].ppa
    BY <1>2 DEF PuOrder
  <2>1. a \in DOMAIN devq /\ devq'[a] = devq[a]
    BY <1>5
  <2>2. devq[a][2] \in Id /\ request[devq[a][2]].st = "queued"
    BY <2>1, <1>1, QueuedEntries
  <2>3. CASE b \in DOMAIN devq /\ devq'[b] = devq[b]
    BY <2>1, <2>3, <1>1 DEF PuOrder
  <2>4. CASE devq'[b] = <<"trim", p>>
    <3>1. devq'[b][1] = "trim" /\ devq'[b][2] = p
      BY <2>4
    <3> QED  BY <2>1, <2>2, <3>1, <1>2
  <2> QED  BY <2>3, <2>4, <1>5
<1>11. PuMedium'
  <2>1. \A x : WriteComing(x)' <=> WriteComing(x)
    BY <1>2 DEF WriteComing
  <2>2. \A x \in Ppa : issued'[x] # 0 => issued'[x] = issued[x] /\ x \notin Pu!Block(p)
    BY <1>2
  <2>3. \A e \in Elems(devq') : e \in Elems(devq) \/ e[2] = p
    BY <1>4
  <2> QED  BY <2>1, <2>2, <2>3, <1>1, <1>2 DEF PuMedium
<1>12. PuCache'
  BY <1>6 DEF PuCache
<1> QED  BY <1>7, <1>8, <1>9, <1>10, <1>11, <1>12 DEF PuInv

\* The device takes an erase from its queue.
LEMMA PuEraseInv == ASSUME PuInv, Pu!Execute, Head(devq)[1] = "trim" PROVE PuInv'
<1> DEFINE q == Head(devq)[2]
<1>1. PuTypeOK /\ PuPlaces /\ PuWants /\ PuOrder /\ PuMedium /\ PuCache
  BY DEF PuInv
<1>2. /\ devq # <<>> /\ devq' = Tail(devq)
      /\ medium' = [x \in Ppa |-> IF x \in Pu!Block(q) THEN 0 ELSE medium[x]]
      /\ serving' = serving /\ request' = request
      /\ cached' = cached /\ issued' = issued /\ writes' = writes /\ wrappers' = wrappers
      /\ caller' = caller /\ right' = right
  BY DEF Pu!Execute
<1>3. /\ devq' \in Seq(PuEntry) /\ Head(devq) \in Elems(devq) /\ Elems(devq) = Elems(devq') \cup {Head(devq)}
  BY <1>1, <1>2, Dequeued DEF PuTypeOK
<1>4. \A a \in DOMAIN devq' : a \in Nat /\ a + 1 \in DOMAIN devq /\ devq'[a] = devq[a + 1]
  BY <1>1, <1>2, TailAt DEF PuTypeOK
<1>5. PuTypeOK'
  BY <1>1, <1>2, <1>3 DEF PuTypeOK
<1>6. PuPlaces'
  <2>1. \A j : <<"io", j>> # Head(devq)
    <3>1. \A j : <<"io", j>>[1] # "trim"
      OBVIOUS
    <3> QED  BY <3>1
  <2>2. InWrapper' = InWrapper
    BY <1>2 DEF InWrapper
  <2>3. ASSUME NEW a \in DOMAIN devq', NEW b \in DOMAIN devq', devq'[a] = devq'[b], devq'[a][1] = "io"
        PROVE  a = b
    <3>1. a + 1 = b + 1
      BY <2>3, <1>1, <1>4 DEF PuPlaces
    <3> QED  BY <3>1, <1>4
  <2> QED  BY <2>1, <2>2, <2>3, <1>1, <1>2, <1>3 DEF PuPlaces
<1>7. PuWants'
  BY <1>1, <1>2 DEF PuWants
<1>8. PuOrder'
  <2> SUFFICES ASSUME NEW a \in DOMAIN devq', NEW b \in DOMAIN devq', a < b, devq'[a][1] = "io"
               PROVE  IF devq'[b][1] = "trim" THEN request[devq'[a][2]].ppa \notin Pu!Block(devq'[b][2])
                      ELSE request[devq'[b][2]].op = "W" => request[devq'[b][2]].ppa # request[devq'[a][2]].ppa
    BY <1>2 DEF PuOrder
  <2>1. a + 1 \in DOMAIN devq /\ b + 1 \in DOMAIN devq /\ a + 1 < b + 1 /\ devq'[a] = devq[a + 1] /\ devq'[b] = devq[b + 1]
    BY <1>4
  <2> QED  BY <2>1, <1>1 DEF PuOrder
<1>9. PuMedium'
  <2>1. \A x : WriteComing(x)' <=> WriteComing(x)
    BY <1>2 DEF WriteComing
  <2> SUFFICES ASSUME NEW x \in Ppa, issued[x] # 0, ~WriteComing(x)
               PROVE  medium'[x] = issued[x] /\ \A e \in Elems(devq') : e[1] = "trim" => x \notin Pu!Block(e[2])
    BY <2>1, <1>2 DEF PuMedium
  <2>2. medium[x] = issued[x] /\ \A e \in Elems(devq) : e[1] = "trim" => x \notin Pu!Block(e[2])
    BY <1>1 DEF PuMedium
  <2>3. x \notin Pu!Block(q)
    BY <2>2, <1>3
  <2> QED  BY <2>2, <2>3, <1>2, <1>3
<1>10. PuCache'
  BY <1>1, <1>2 DEF PuCache
<1> QED  BY <1>5, <1>6, <1>7, <1>8, <1>9, <1>10 DEF PuInv

\* The device takes a request from its queue and moves its data.
LEMMA PuMoveInv == ASSUME PuInv, Pu!Execute, Head(devq)[1] # "trim" PROVE PuInv'
<1> DEFINE c == Head(devq)[2]
           p == request[c].ppa
           data == IF request[c].op = "R" THEN medium[p] ELSE request[c].data
           r == [request[c] EXCEPT !.data = data, !.st = "moved"]
<1>1. PuTypeOK /\ PuPlaces /\ PuWants /\ PuOrder /\ PuMedium /\ PuCache
  BY DEF PuInv
<1>2. /\ serving = Pu!None /\ devq # <<>> /\ devq' = Tail(devq) /\ serving' = c
      /\ medium' = IF request[c].op = "W" THEN [medium EXCEPT ![p] = request[c].data] ELSE medium
      /\ request' = [request EXCEPT ![c] = r]
      /\ cached' = cached /\ issued' = issued /\ writes' = writes /\ wrappers' = wrappers
      /\ caller' = caller /\ right' = right
  BY DEF Pu!Execute
<1>3. /\ devq' \in Seq(PuEntry) /\ Head(devq) \in Elems(devq) /\ Elems(devq) = Elems(devq') \cup {Head(devq)}
  BY <1>1, <1>2, Dequeued DEF PuTypeOK
<1>4. /\ \A a \in DOMAIN devq' : a \in Nat /\ a + 1 \in DOMAIN devq /\ devq'[a] = devq[a + 1] /\ 1 < a + 1
      /\ 1 \in DOMAIN devq /\ Head(devq) = devq[1]
  BY <1>1, <1>2, TailAt DEF PuTypeOK
<1>5. devq[1][1] = "io" /\ devq[1][2] = c /\ c \in Id /\ Head(devq) = <<"io", c>> /\ request[c].st = "queued"
  <2>1. devq[1][1] # "trim"
    BY <1>4
  <2>2. devq[1][1] = "io" /\ devq[1][2] \in Id /\ devq[1] = <<"io", devq[1][2]>> /\ request[devq[1][2]].st = "queued"
    BY <2>1, <1>1, <1>4, QueuedEntries
  <2> QED  BY <2>2, <1>4
<1>6. request[c] \in PuRequest /\ request[c].op \in {"R", "W"} /\ p \in Ppa /\ issued[p] # 0 /\ issued[p] = request[c].want
      /\ (request[c].op = "W" => request[c].data = request[c].want)
  BY <1>1, <1>5 DEF PuTypeOK, PuWants, PuRequest
<1> HIDE DEF c
<1>7. \A a \in DOMAIN devq' : devq'[a] # <<"io", c>>
  <2> SUFFICES ASSUME NEW a \in DOMAIN devq', devq'[a] = <<"io", c>> PROVE FALSE
    OBVIOUS
  <2>1. a + 1 \in DOMAIN devq /\ devq[a + 1] = devq[1] /\ a + 1 # 1
    BY <1>4, <1>5
  <2> QED  BY <2>1, <1>1, <1>4, <1>5 DEF PuPlaces
<1>8. <<"io", c>> \notin Elems(devq')
  BY <1>7 DEF Elems
\* No write of the page is behind the request or on its way.
<1>9. ASSUME NEW j \in Id \ {c}, request[j].op = "W", request[j].ppa = p, request[j].st \in {"call", "queued"}
      PROVE  FALSE
  <2>1. CASE request[j].st = "call"
    BY <2>1, <1>1, <1>5, <1>9 DEF PuWants
  <2>2. CASE request[j].st = "queued"
    <3>1. <<"io", j>> \in Elems(devq) /\ <<"io", j>> # <<"io", c>>
      BY <2>2, <1>1, <1>9 DEF PuPlaces
    <3>2. PICK b \in DOMAIN devq' : devq'[b] = <<"io", j>>
      BY <3>1, <1>3, <1>5 DEF Elems
    <3>3. b + 1 \in DOMAIN devq /\ 1 < b + 1 /\ devq[b + 1][1] = "io" /\ devq[b + 1][2] = j
      BY <3>2, <1>4
    <3>4. devq[b + 1][1] # "trim"
      BY <3>3
    <3>5. request[devq[b + 1][2]].op = "W" => request[devq[b + 1][2]].ppa # request[devq[1][2]].ppa
      BY <3>3, <3>4, <1>1, <1>4, <1>5 DEF PuOrder
    <3> QED  BY <3>3, <3>5, <1>5, <1>9
  <2> QED  BY <2>1, <2>2, <1>9
<1>10. request[c].op = "R" => medium[p] = issued[p]
  <2> SUFFICES ASSUME request[c].op = "R" PROVE medium[p] = issued[p]
    OBVIOUS
  <2>1. ~WriteComing(p)
    BY <1>9 DEF WriteComing
  <2> QED  BY <2>1, <1>1, <1>6 DEF PuMedium
<1>11. data = request[c].want /\ data \in Nat
  BY <1>6, <1>10 DEF PuRequest
<1>12. /\ r \in PuRequest /\ r.op = request[c].op /\ r.ppa = p /\ r.want = request[c].want
       /\ r.data = request[c].want /\ r.st = "moved"
  <2> HIDE DEF data
  <2>1. /\ r \in PuRequest /\ r.op = request[c].op /\ r.ppa = request[c].ppa /\ r.want = request[c].want
        /\ r.data = data /\ r.st = "moved"
    BY <1>6, <1>11 DEF PuRequest, PuStates
  <2> QED  BY <2>1, <1>11
<1> HIDE DEF r, data
<1>13. request'[c] = r /\ (\A j \in Id \ {c} : request'[j] = request[j]) /\ request' \in [Id -> PuRequest]
  BY <1>1, <1>2, <1>5, <1>12 DEF PuTypeOK
<1>14. medium' \in [Ppa -> Nat] /\ \A x \in Ppa : medium'[x] = IF x = p /\ request[c].op = "W" THEN issued[p] ELSE medium[x]
  <2>1. request[c].data \in Nat
    BY <1>6 DEF PuRequest
  <2> QED  BY <2>1, <1>1, <1>2, <1>6 DEF PuTypeOK
<1>15. PuTypeOK'
  BY <1>1, <1>2, <1>3, <1>5, <1>13, <1>14 DEF PuTypeOK
<1>16. PuPlaces'
  <2>1. ASSUME NEW j \in Id
        PROVE  /\ request'[j].st = "call" <=> caller' = j
               /\ request'[j].st = "queued" <=> <<"io", j>> \in Elems(devq')
               /\ request'[j].st \in {"moved", "kept"} <=> serving' = j
    <3>1. CASE j = c
      <4>1. caller # c
        BY <1>1, <1>5 DEF PuPlaces
      <4> QED  BY <3>1, <4>1, <1>2, <1>8, <1>12, <1>13
    <3>2. CASE j # c
      <4>1. <<"io", j>> # <<"io", c>> /\ serving # j
        BY <3>2, <1>2, PuConstants
      <4>2. <<"io", j>> \in Elems(devq') <=> <<"io", j>> \in Elems(devq)
        BY <4>1, <1>3, <1>5
      <4> QED  BY <3>2, <4>1, <4>2, <1>1, <1>2, <1>13 DEF PuPlaces
    <3> QED  BY <3>1, <3>2
  <2>2. ASSUME NEW a \in DOMAIN devq', NEW b \in DOMAIN devq', devq'[a] = devq'[b], devq'[a][1] = "io"
        PROVE  a = b
    <3>1. a + 1 = b + 1
      BY <2>2, <1>1, <1>4 DEF PuPlaces
    <3> QED  BY <3>1, <1>4
  <2>3. InWrapper' = InWrapper
    BY <1>5, <1>12, <1>13 DEF InWrapper
  <2> QED  BY <2>1, <2>2, <2>3, <1>1, <1>2 DEF PuPlaces
<1>17. PuWants'
  <2>1. ASSUME NEW j \in Id, request'[j].st # "idle"
        PROVE  /\ request'[j].ppa \in Ppa /\ request'[j].want # 0 /\ issued'[request'[j].ppa] = request'[j].want
               /\ (request'[j].op = "W" \/ request'[j].st \in {"moved", "kept"}) => request'[j].data = request'[j].want
    <3>1. CASE j = c
      BY <3>1, <1>2, <1>6, <1>12, <1>13
    <3>2. CASE j # c
      BY <3>2, <2>1, <1>1, <1>2, <1>13 DEF PuWants
    <3> QED  BY <3>1, <3>2
  <2>2. \A j \in Id : request'[j].ppa = request[j].ppa /\ request'[j].op = request[j].op
                      /\ (request'[j].st = "call" <=> request[j].st = "call")
                      /\ (request'[j].st = "idle" <=> request[j].st = "idle")
    BY <1>5, <1>12, <1>13
  <2>3. \A i, j \in Id : request'[i].st = "call" /\ request'[i].op = "W" /\ request'[j].st # "idle"
                         /\ request'[j].ppa = request'[i].ppa => i = j
    BY <2>2, <1>1 DEF PuWants
  <2> QED  BY <2>1, <2>3 DEF PuWants
<1>18. PuOrder'
  <2> SUFFICES ASSUME NEW a \in DOMAIN devq', NEW b \in DOMAIN devq', a < b, devq'[a][1] = "io"
               PROVE  IF devq'[b][1] = "trim" THEN request'[devq'[a][2]].ppa \notin Pu!Block(devq'[b][2])
                      ELSE request'[devq'[b][2]].op = "W" => request'[devq'[b][2]].ppa # request'[devq'[a][2]].ppa
    BY DEF PuOrder
  <2>1. a + 1 \in DOMAIN devq /\ b + 1 \in DOMAIN devq /\ a + 1 < b + 1 /\ devq'[a] = devq[a + 1] /\ devq'[b] = devq[b + 1]
    BY <1>4
  <2>2. IF devq[b + 1][1] = "trim" THEN request[devq[a + 1][2]].ppa \notin Pu!Block(devq[b + 1][2])
        ELSE request[devq[b + 1][2]].op = "W" => request[devq[b + 1][2]].ppa # request[devq[a + 1][2]].ppa
    BY <2>1, <1>1 DEF PuOrder
  <2>3. devq[a + 1][2] \in Id /\ (devq[b + 1][1] # "trim" => devq[b + 1][2] \in Id)
    BY <2>1, <1>1, QueuedEntries
  <2>4. \A j \in Id : request'[j].ppa = request[j].ppa /\ request'[j].op = request[j].op
    BY <1>12, <1>13
  <2> QED  BY <2>1, <2>2, <2>3, <2>4
<1>19. PuMedium'
  <2> SUFFICES ASSUME NEW x \in Ppa, issued[x] # 0, ~WriteComing(x)'
               PROVE  medium'[x] = issued[x] /\ \A e \in Elems(devq') : e[1] = "trim" => x \notin Pu!Block(e[2])
    BY <1>2 DEF PuMedium
  <2>1. CASE x = p /\ request[c].op = "W"
    <3>1. ASSUME NEW e \in Elems(devq'), e[1] = "trim" PROVE x \notin Pu!Block(e[2])
      <4>1. PICK b \in DOMAIN devq' : e = devq'[b]
        BY DEF Elems
      <4>2. b + 1 \in DOMAIN devq /\ 1 < b + 1 /\ devq[b + 1] = e
        BY <4>1, <1>4
      <4> QED  BY <4>2, <3>1, <2>1, <1>1, <1>4, <1>5 DEF PuOrder
    <3> QED  BY <2>1, <3>1, <1>14
  <2>2. CASE ~(x = p /\ request[c].op = "W")
    <3>1. ~WriteComing(x)
      <4> SUFFICES ASSUME NEW j \in Id, request[j].op = "W", request[j].ppa = x, request[j].st \in {"call", "queued"}
                   PROVE  FALSE
        BY DEF WriteComing
      <4>1. j # c
        BY <2>2
      <4> QED  BY <4>1, <1>13 DEF WriteComing
    <3>2. medium[x] = issued[x] /\ \A e \in Elems(devq) : e[1] = "trim" => x \notin Pu!Block(e[2])
      BY <3>1, <1>1 DEF PuMedium
    <3> QED  BY <2>2, <3>2, <1>3, <1>14
  <2> QED  BY <2>1, <2>2
<1>20. PuCache'
  BY <1>1, <1>2 DEF PuCache
<1> QED  BY <1>15, <1>16, <1>17, <1>18, <1>19, <1>20 DEF PuInv

\* A step that changes only the request the device has and its stage.
LEMMA PuKeepInv == ASSUME PuInv, Pu!KeepPage PROVE PuInv'
<1> DEFINE c == serving
           p == request[c].ppa
           r == [request[c] EXCEPT !.st = "kept"]
           t == p % QDEPTH
<1>1. PuTypeOK /\ PuPlaces /\ PuWants /\ PuOrder /\ PuMedium /\ PuCache
  BY DEF PuInv
<1>2. /\ c # Pu!None /\ request[c].st = "moved"
      /\ cached' = [cached EXCEPT ![t] = [ppa |-> p, data |-> request[c].data]]
      /\ request' = [request EXCEPT ![c] = r]
      /\ medium' = medium /\ issued' = issued /\ writes' = writes /\ wrappers' = wrappers /\ devq' = devq
      /\ serving' = serving /\ caller' = caller /\ right' = right
  BY DEF Pu!KeepPage
<1>3. c \in Id /\ request[c] \in PuRequest /\ p \in Ppa /\ request[c].data = issued[p] /\ issued[p] # 0
  BY <1>1, <1>2 DEF PuTypeOK, PuWants
<1>4. /\ r \in PuRequest /\ r.op = request[c].op /\ r.ppa = p /\ r.want = request[c].want
      /\ r.data = request[c].data /\ r.st = "kept"
  BY <1>3 DEF PuRequest, PuStates
<1> HIDE DEF r
<1>5. request'[c] = r /\ (\A j \in Id \ {c} : request'[j] = request[j]) /\ request' \in [Id -> PuRequest]
  BY <1>1, <1>2, <1>3, <1>4 DEF PuTypeOK
<1>6. \A j \in Id : /\ request'[j].op = request[j].op /\ request'[j].ppa = request[j].ppa
                    /\ request'[j].want = request[j].want /\ request'[j].data = request[j].data
                    /\ (request'[j].st \in {"moved", "kept"} <=> request[j].st \in {"moved", "kept"})
                    /\ \A st \in {"idle", "call", "queued"} : request'[j].st = st <=> request[j].st = st
  <2> SUFFICES ASSUME NEW j \in Id
               PROVE  /\ request'[j].op = request[j].op /\ request'[j].ppa = request[j].ppa
                      /\ request'[j].want = request[j].want /\ request'[j].data = request[j].data
                      /\ (request'[j].st \in {"moved", "kept"} <=> request[j].st \in {"moved", "kept"})
                      /\ \A st \in {"idle", "call", "queued"} : request'[j].st = st <=> request[j].st = st
    OBVIOUS
  <2>1. CASE j = c
    BY <2>1, <1>2, <1>4, <1>5
  <2>2. CASE j # c
    BY <2>2, <1>5
  <2> QED  BY <2>1, <2>2
<1>7. t \in Pu!Slot /\ [ppa |-> p, data |-> request[c].data] \in [ppa : Ppa \cup {Pu!None}, data : Nat]
  BY <1>3, PuConstants DEF PuRequest
<1> HIDE DEF c, p, t
<1>8. PuTypeOK'
  BY <1>1, <1>2, <1>5, <1>7 DEF PuTypeOK
<1>9. PuPlaces'
  <2>1. InWrapper' = InWrapper
    BY <1>6 DEF InWrapper
  <2> QED  BY <2>1, <1>1, <1>2, <1>6 DEF PuPlaces
<1>10. PuWants'
  <2>1. ASSUME NEW j \in Id, request'[j].st # "idle"
        PROVE  /\ request'[j].ppa \in Ppa /\ request'[j].want # 0 /\ issued'[request'[j].ppa] = request'[j].want
               /\ (request'[j].op = "W" \/ request'[j].st \in {"moved", "kept"}) => request'[j].data = request'[j].want
    BY <2>1, <1>1, <1>2, <1>6 DEF PuWants
  <2>2. \A i, j \in Id : request'[i].st = "call" /\ request'[i].op = "W" /\ request'[j].st # "idle"
                         /\ request'[j].ppa = request'[i].ppa => i = j
    BY <1>1, <1>6 DEF PuWants
  <2> QED  BY <2>1, <2>2 DEF PuWants
<1>11. PuOrder'
  <2>1. \A a \in DOMAIN devq : devq[a][1] # "trim" => devq[a][2] \in Id
    BY <1>1, QueuedEntries
  <2>2. \A a \in DOMAIN devq : devq[a][1] = "io" => devq[a][2] \in Id
    BY <1>1, QueuedEntries
  <2> QED  BY <2>1, <2>2, <1>1, <1>2, <1>6 DEF PuOrder
<1>12. PuMedium'
  <2>1. \A x : WriteComing(x)' <=> WriteComing(x)
    BY <1>6 DEF WriteComing
  <2> QED  BY <2>1, <1>1, <1>2 DEF PuMedium
<1>13. PuCache'
  <2> SUFFICES ASSUME NEW s \in Pu!Slot, cached'[s].ppa # Pu!None
               PROVE  /\ cached'[s].ppa % QDEPTH = s /\ issued[cached'[s].ppa] # 0
                      /\ cached'[s].data = issued[cached'[s].ppa]
    BY <1>2 DEF PuCache
  <2>1. CASE s = t
    <3>1. cached'[s].ppa = p /\ cached'[s].data = request[c].data
      BY <2>1, <1>1, <1>2, <1>7 DEF PuTypeOK
    <3>2. p % QDEPTH = s
      BY <2>1 DEF t, p, c
    <3> QED  BY <3>1, <3>2, <1>3
  <2>2. CASE s # t
    <3>1. cached'[s] = cached[s]
      BY <2>2, <1>1, <1>2, <1>7 DEF PuTypeOK
    <3> QED  BY <3>1, <1>1 DEF PuCache
  <2> QED  BY <2>1, <2>2
<1> QED  BY <1>8, <1>9, <1>10, <1>11, <1>12, <1>13 DEF PuInv

LEMMA PuEndInv == ASSUME PuInv, Pu!EndReq PROVE PuInv'
<1> DEFINE c == serving
<1>1. PuTypeOK /\ PuPlaces /\ PuWants /\ PuOrder /\ PuMedium /\ PuCache
  BY DEF PuInv
<1>2. /\ c # Pu!None /\ request[c].st = "kept" /\ wrappers' = wrappers + 1
      /\ right' = (right /\ request[c].data = request[c].want)
      /\ request' = [request EXCEPT ![c] = Pu!Fresh] /\ serving' = Pu!None
      /\ cached' = cached /\ medium' = medium /\ issued' = issued /\ writes' = writes /\ devq' = devq /\ caller' = caller
  BY DEF Pu!EndReq, Pu!Released
<1>3. c \in Id /\ request[c].data = request[c].want
  BY <1>1, <1>2 DEF PuTypeOK, PuWants
<1>4. Pu!Fresh \in PuRequest /\ Pu!Fresh.st = "idle"
  BY DEF Pu!Fresh, PuRequest, PuStates
<1>5. request'[c] = Pu!Fresh /\ (\A j \in Id \ {c} : request'[j] = request[j]) /\ request' \in [Id -> PuRequest]
  BY <1>1, <1>2, <1>3, <1>4 DEF PuTypeOK
<1>6. right'
  BY <1>1, <1>2, <1>3 DEF PuTypeOK
<1>7. PuTypeOK'
  BY <1>1, <1>2, <1>5, <1>6 DEF PuTypeOK
<1>8. \A j \in Id : request'[j].st # "idle" => j # c /\ request'[j] = request[j]
  BY <1>4, <1>5
<1> HIDE DEF c
<1>9. PuPlaces'
  <2>1. ASSUME NEW j \in Id
        PROVE  /\ request'[j].st = "call" <=> caller' = j
               /\ request'[j].st = "queued" <=> <<"io", j>> \in Elems(devq')
               /\ request'[j].st \in {"moved", "kept"} <=> serving' = j
    <3>0. j # Pu!None
      BY PuConstants
    <3>1. CASE j = c
      <4>1. caller # c /\ <<"io", c>> \notin Elems(devq)
        BY <1>1, <1>2, <1>3 DEF PuPlaces
      <4> QED  BY <3>0, <3>1, <4>1, <1>2, <1>4, <1>5
    <3>2. CASE j # c
      <4>1. serving # j
        BY <3>2 DEF c
      <4> QED  BY <3>0, <3>2, <4>1, <1>1, <1>2, <1>5 DEF PuPlaces
    <3> QED  BY <3>1, <3>2
  <2>2. InWrapper' = InWrapper \ {c} /\ c \in InWrapper
    BY <1>2, <1>3, <1>4, <1>5 DEF InWrapper
  <2>3. IsFiniteSet(InWrapper)
    BY PuConstants, FS_Subset DEF InWrapper
  <2>4. Cardinality(InWrapper \ {c}) = Cardinality(InWrapper) - 1
    BY <2>2, <2>3, FS_RemoveElement
  <2>5. Cardinality(InWrapper) \in Nat
    BY <2>3, FS_CardinalityType
  <2>6. wrappers' = QDEPTH - Cardinality(InWrapper')
    BY <2>2, <2>4, <2>5, <1>1, <1>2, PuConstants DEF PuPlaces
  <2> QED  BY <2>1, <2>6, <1>1, <1>2 DEF PuPlaces
<1>10. PuWants'
  BY <1>1, <1>2, <1>8 DEF PuWants
<1>11. PuOrder'
  <2>1. \A a \in DOMAIN devq : devq[a][1] = "io" => request'[devq[a][2]] = request[devq[a][2]]
    BY <1>1, <1>2, <1>5, QueuedEntries
  <2>2. \A a \in DOMAIN devq : devq[a][1] # "trim" => request'[devq[a][2]] = request[devq[a][2]]
    BY <1>1, <2>1, QueuedEntries
  <2> QED  BY <2>1, <2>2, <1>1, <1>2 DEF PuOrder
<1>12. PuMedium'
  <2>1. \A x : WriteComing(x) => WriteComing(x)'
    <3> SUFFICES ASSUME NEW x, NEW j \in Id, request[j].op = "W", request[j].ppa = x, request[j].st \in {"call", "queued"}
                 PROVE  WriteComing(x)'
      BY DEF WriteComing
    <3>1. j # c
      BY <1>2
    <3> QED  BY <3>1, <1>5 DEF WriteComing
  <2> QED  BY <2>1, <1>1, <1>2 DEF PuMedium
<1>13. PuCache'
  BY <1>1, <1>2 DEF PuCache
<1> QED  BY <1>7, <1>9, <1>10, <1>11, <1>12, <1>13 DEF PuInv

LEMMA PuNext ==
    ASSUME TrimsBusy = FALSE, PuInv, Pu!NextPu \/ UNCHANGED puVars
    PROVE  PuInv'
<1>1. ASSUME UNCHANGED puVars PROVE PuInv'
  <2>1. /\ cached' = cached /\ medium' = medium /\ issued' = issued /\ writes' = writes /\ wrappers' = wrappers
        /\ devq' = devq /\ serving' = serving /\ caller' = caller /\ request' = request /\ right' = right
    BY <1>1 DEF puVars
  <2>2. PuTypeOK' /\ InWrapper' = InWrapper
    BY <2>1 DEF PuInv, PuTypeOK, InWrapper
  <2>3. \A x : WriteComing(x)' <=> WriteComing(x)
    BY <2>1 DEF WriteComing
  <2> QED  BY <2>1, <2>2, <2>3 DEF PuInv, PuPlaces, PuWants, PuOrder, PuMedium, PuCache
<1>2. ASSUME NEW i \in Id, NEW p \in Ppa, Pu!PuWrite(i, p) \/ Pu!PuRead(i, p) PROVE PuInv'
  BY <1>2, PuWriteInv, PuReadInv
<1>3. ASSUME NEW p \in Ppa, Pu!PuTrim(p) PROVE PuInv'
  BY <1>3, PuTrimInv
<1>4. CASE Pu!GetWrapper
  BY <1>4, PuGetWrapperInv
<1>5. CASE Pu!Device
  BY <1>5, PuEraseInv, PuMoveInv, PuKeepInv, PuEndInv DEF Pu!Device
<1> QED  BY <1>1, <1>2, <1>3, <1>4, <1>5 DEF Pu!NextPu

LEMMA PuFromInv == ASSUME PuInv PROVE Pu!PagesFresh
<1>1. Pu!Cardinality(InWrapper) = Cardinality(InWrapper)
  BY PuOperators
<1>2. right /\ wrappers = QDEPTH - Cardinality(InWrapper)
  BY DEF PuInv, PuTypeOK, PuPlaces
<1> QED  BY <1>1, <1>2 DEF Pu!PagesFresh, InWrapper
=============================================================================
