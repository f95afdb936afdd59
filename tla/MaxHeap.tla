------------------------------- MODULE MaxHeap -------------------------------
(***************************************************************************)
(* The array heap of include/data_struct/heap.c as the block manager uses  *)
(* it: segments are appended without being sifted (mh_insert_append),      *)
(* their weights (__mh_get_cnt) change behind the heap's back whenever a   *)
(* piece is validated or invalidated, and the order is restored only when  *)
(* a victim is wanted (mh_construct, then mh_get_max).  The cached cnt     *)
(* field of a node is left out: maxchild refreshes it from get_cnt for     *)
(* every node it compares.                                                 *)
(***************************************************************************)
EXTENDS Integers, Sequences, SequencesExt

CONSTANTS
    Seg,        \* the elements of the heap
    MaxWeight   \* bound on the weight of a segment

VARIABLES
    body,       \* data of h->body[1 .. size]
    weight,     \* what get_cnt returns for each segment
    last        \* what the latest mh_get_max returned

vars == <<body, weight, last>>

NoSeg == -1

Init ==
    /\ body = <<>>
    /\ weight = [s \in Seg |-> 0]
    /\ last = NoSeg

\* Indices of the children of node n that hold data (MHL_CHIPTR, MHR_CHIPTR).
Children(h, n) == {2 * n, 2 * n + 1} \cap DOMAIN h

\* maxchild: the left child only when strictly heavier than the right one.
MaxChild(h, n) ==
    IF 2 * n + 1 \notin DOMAIN h \/ weight[h[2 * n]] > weight[h[2 * n + 1]]
    THEN 2 * n
    ELSE 2 * n + 1

\* mh_internal_downdate: sink the element of node n while a child is heavier.
RECURSIVE Downdate(_, _)
Downdate(h, n) ==
    IF n \notin DOMAIN h \/ Children(h, n) = {}
    THEN h
    ELSE LET c == MaxChild(h, n)
         IN  IF weight[h[c]] > weight[h[n]]
             THEN Downdate([h EXCEPT ![n] = h[c], ![c] = h[n]], c)
             ELSE h

\* The number of levels mh_construct computes by halving the size.
RECURSIVE Depth(_)
Depth(size) == IF size <= 1 THEN 1 ELSE 1 + Depth(size \div 2)

\* The nodes of level i, left to right: 2^(i-1) .. 2^i - 1.
Level(i) == [j \in 1 .. 2 ^ (i - 1) |-> 2 ^ (i - 1) + j - 1]

\* Mistake: the levels are processed from the root down.
ConstructTopDown(h) ==
    LET sinkLevel(acc, i) == FoldLeft(Downdate, acc, Level(i))
    IN  FoldLeft(sinkLevel, h, [i \in 1 .. Depth(Len(h)) - 1 |-> i])

\* mh_construct: downdate every node of the levels depth-1 down to 1.
Construct(h) ==
    LET sinkLevel(acc, i) == FoldLeft(Downdate, acc, Level(i))
        levels == Reverse([i \in 1 .. Depth(Len(h)) - 1 |-> i])
    IN  FoldLeft(sinkLevel, h, levels)

\* mh_get_max: the root leaves, the last node takes its place and sinks.
RemoveRoot(h) ==
    IF Len(h) = 1
    THEN <<>>
    ELSE Downdate([Front(h) EXCEPT ![1] = Last(h)], 1)

\* mh_insert_append, for a segment that is not in the heap.
InsertAppend(s) ==
    /\ s \notin ToSet(body)
    /\ body' = Append(body, s)
    /\ UNCHANGED <<weight, last>>

\* A piece of segment s is invalidated, or the segment was trimmed.
Reweigh(s) ==
    /\ \/ /\ weight[s] < MaxWeight
          /\ weight' = [weight EXCEPT ![s] = @ + 1]
       \/ /\ s \notin ToSet(body)
          /\ weight' = [weight EXCEPT ![s] = 0]
    /\ UNCHANGED <<body, last>>

\* mh_construct and mh_get_max in sbm_get_gc_target.
GetGcTarget ==
    /\ body # <<>>
    /\ LET h == Construct(body)
       IN  /\ last' = h[1]
           /\ body' = RemoveRoot(h)
    /\ UNCHANGED weight

Next ==
    \/ \E s \in Seg : InsertAppend(s) \/ Reweigh(s)
    \/ GetGcTarget

Spec == Init /\ [][Next]_vars
-----------------------------------------------------------------------------
(* The victim sbm_get_gc_target takes from the heap is a segment of        *)
(* greatest weight among all the candidates, although appends and weight   *)
(* changes since the last collection left the array unordered, and         *)
(* mh_construct and mh_get_max neither lose nor duplicate another          *)
(* candidate while swapping nodes.                                         *)
HeaviestTaken ==
    Len(body') < Len(body) =>
        /\ \A s \in ToSet(body) : weight[s] <= weight[last']
        /\ last' \in ToSet(body)
        /\ ToSet(body') = ToSet(body) \ {last'} /\ Len(body') = Len(body) - 1
=============================================================================
