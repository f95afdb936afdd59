--------------------------- MODULE DemandFTLProofs ---------------------------
(***************************************************************************)
(* The control of the demand-paged FTL, for every number of requests,      *)
(* translation pages and cache slots: the cache never overruns and no      *)
(* request is stranded.  Nothing is needed of the flash side.              *)
(***************************************************************************)
EXTENDS DemandFTL, FiniteSetTheorems, SequenceTheorems, TLAPS

-----------------------------------------------------------------------------
(* Queues of distinct elements.                                            *)

(* Appending to a queue adds exactly the element appended.                 *)
LEMMA AppendContains ==
    ASSUME NEW S, NEW s \in Seq(S), NEW e \in S
    PROVE  /\ Append(s, e) \in Seq(S)
           /\ \A x : Contains(Append(s, e), x) <=> (Contains(s, x) \/ x = e)
           /\ IsInjective(s) /\ ~Contains(s, e) => IsInjective(Append(s, e))
<1>1. /\ Append(s, e) \in Seq(S) /\ Len(Append(s, e)) = Len(s) + 1
      /\ \A i \in 1 .. Len(s) : Append(s, e)[i] = s[i]
      /\ Append(s, e)[Len(s) + 1] = e /\ Len(s) \in Nat
  BY AppendProperties, LenProperties
<1>2. \A x : Contains(Append(s, e), x) <=> (Contains(s, x) \/ x = e)
  <2> SUFFICES ASSUME NEW x PROVE Contains(Append(s, e), x) <=> (Contains(s, x) \/ x = e)
    OBVIOUS
  <2>1. ASSUME Contains(Append(s, e), x) PROVE Contains(s, x) \/ x = e
    <3>1. PICK i \in 1 .. Len(s) + 1 : Append(s, e)[i] = x  BY <1>1, <2>1 DEF Contains
    <3>2. CASE i = Len(s) + 1  BY <3>1, <3>2, <1>1
    <3>3. CASE i # Len(s) + 1
      <4>1. i \in 1 .. Len(s)  BY <3>3, <1>1
      <4> QED BY <4>1, <3>1, <1>1 DEF Contains
    <3> QED BY <3>2, <3>3
  <2>2. ASSUME Contains(s, x) PROVE Contains(Append(s, e), x)
    <3>1. PICK i \in 1 .. Len(s) : s[i] = x  BY <2>2 DEF Contains
    <3>2. i \in 1 .. Len(Append(s, e))  BY <1>1
    <3> QED BY <3>1, <3>2, <1>1 DEF Contains
  <2>3. Contains(Append(s, e), e)
    <3>1. Len(s) + 1 \in 1 .. Len(Append(s, e))  BY <1>1
    <3> QED BY <3>1, <1>1 DEF Contains
  <2> QED BY <2>1, <2>2, <2>3
<1>3. ASSUME IsInjective(s), ~Contains(s, e) PROVE IsInjective(Append(s, e))
  <2> SUFFICES ASSUME NEW i \in 1 .. Len(s) + 1, NEW j \in 1 .. Len(s) + 1,
                      Append(s, e)[i] = Append(s, e)[j]
               PROVE  i = j
    BY <1>1, LenProperties DEF IsInjective
  <2>1. \A k \in 1 .. Len(s) : s[k] # e  BY <1>3 DEF Contains
  <2>2. \A k, m \in 1 .. Len(s) : s[k] = s[m] => k = m  BY <1>3, LenProperties DEF IsInjective
  <2>3. \A k \in 1 .. Len(s) + 1 : k = Len(s) + 1 \/ k \in 1 .. Len(s)  BY <1>1
  <2> QED BY <2>1, <2>2, <2>3, <1>1
<1> QED BY <1>1, <1>2, <1>3

(* Taking the head off a queue removes exactly its first element.          *)
LEMMA TailContains ==
    ASSUME NEW S, NEW s \in Seq(S), s # <<>>
    PROVE  /\ Head(s) \in S /\ Tail(s) \in Seq(S) /\ Contains(s, Head(s))
           /\ \A x : Contains(Tail(s), x) => Contains(s, x)
           /\ \A x : Contains(s, x) => x = Head(s) \/ Contains(Tail(s), x)
           /\ IsInjective(s) => IsInjective(Tail(s)) /\ ~Contains(Tail(s), Head(s))
<1>1. /\ Head(s) = s[1] /\ Tail(s) \in Seq(S) /\ Len(Tail(s)) = Len(s) - 1
      /\ \A i \in 1 .. Len(s) - 1 : Tail(s)[i] = s[i + 1]
      /\ Len(s) \in Nat \ {0} /\ DOMAIN s = 1 .. Len(s)
      /\ DOMAIN Tail(s) = 1 .. Len(s) - 1
  BY HeadTailProperties, LenProperties, EmptySeq
<1>2. Head(s) \in S /\ Contains(s, Head(s))
  <2>1. 1 \in 1 .. Len(s)  BY <1>1
  <2> QED BY <2>1, <1>1, ElementOfSeq DEF Contains
<1>3. ASSUME NEW x, Contains(Tail(s), x) PROVE Contains(s, x)
  <2>1. PICK i \in 1 .. Len(s) - 1 : Tail(s)[i] = x  BY <1>1, <1>3 DEF Contains
  <2>2. i + 1 \in 1 .. Len(s) /\ s[i + 1] = x  BY <1>1, <2>1
  <2> QED BY <2>2 DEF Contains
<1>4. ASSUME NEW x, Contains(s, x), x # Head(s) PROVE Contains(Tail(s), x)
  <2>1. PICK i \in 1 .. Len(s) : s[i] = x  BY <1>4 DEF Contains
  <2>2. i # 1  BY <2>1, <1>1, <1>4
  <2>3. i - 1 \in 1 .. Len(s) - 1 /\ (i - 1) + 1 = i  BY <2>2, <1>1
  <2>4. Tail(s)[i - 1] = x  BY <2>1, <2>3, <1>1
  <2> QED BY <2>3, <2>4, <1>1 DEF Contains
<1>5. ASSUME IsInjective(s) PROVE IsInjective(Tail(s)) /\ ~Contains(Tail(s), Head(s))
  <2>1. \A k, m \in 1 .. Len(s) : s[k] = s[m] => k = m  BY <1>5, <1>1 DEF IsInjective
  <2>2. \A k \in 1 .. Len(s) - 1 : k + 1 \in 1 .. Len(s) /\ k + 1 # 1  BY <1>1
  <2>3. ASSUME NEW k \in 1 .. Len(s) - 1, NEW m \in 1 .. Len(s) - 1, Tail(s)[k] = Tail(s)[m]
        PROVE  k = m
    <3>1. k + 1 = m + 1  BY <2>1, <2>2, <2>3, <1>1
    <3> QED BY <3>1
  <2>4. IsInjective(Tail(s))  BY <2>3, <1>1 DEF IsInjective
  <2>5. ASSUME Contains(Tail(s), Head(s)) PROVE FALSE
    <3>1. PICK k \in 1 .. Len(s) - 1 : Tail(s)[k] = Head(s)  BY <2>5, <1>1 DEF Contains
    <3>2. s[k + 1] = s[1] /\ 1 \in 1 .. Len(s)  BY <3>1, <1>1
    <3> QED BY <3>2, <2>1, <2>2
  <2> QED BY <2>4, <2>5
<1> QED BY <1>1, <1>2, <1>3, <1>4, <1>5

(* An empty queue contains nothing.                                        *)
LEMMA EmptyContains == \A x : ~Contains(<<>>, x)
BY DEF Contains

(* What a concatenation contains is in one of its parts, and a part of a   *)
(* sequence contains nothing the sequence does not.                        *)
LEMMA ConcatContains ==
    ASSUME NEW S, NEW s \in Seq(S), NEW t \in Seq(S), NEW x, Contains(s \o t, x)
    PROVE  Contains(s, x) \/ Contains(t, x)
<1>1. /\ s \o t \in Seq(S) /\ Len(s \o t) = Len(s) + Len(t)
      /\ \A i \in 1 .. Len(s) + Len(t) :
            (s \o t)[i] = IF i <= Len(s) THEN s[i] ELSE t[i - Len(s)]
      /\ Len(s) \in Nat /\ Len(t) \in Nat
  BY ConcatProperties, LenProperties
<1>2. PICK i \in 1 .. Len(s) + Len(t) : (s \o t)[i] = x  BY <1>1 DEF Contains
<1>3. CASE i <= Len(s)
  <2>1. i \in 1 .. Len(s) /\ s[i] = x  BY <1>1, <1>2, <1>3
  <2> QED BY <2>1 DEF Contains
<1>4. CASE ~(i <= Len(s))
  <2>1. i - Len(s) \in 1 .. Len(t) /\ t[i - Len(s)] = x  BY <1>1, <1>2, <1>4
  <2> QED BY <2>1 DEF Contains
<1> QED BY <1>3, <1>4

(* The same for a part of a sequence that begins at position m.            *)
LEMMA SubSeqContains ==
    ASSUME NEW S, NEW s \in Seq(S), NEW m \in 1 .. Len(s) + 1, NEW n \in m - 1 .. Len(s)
    PROVE  /\ SubSeq(s, m, n) \in Seq(S) /\ Len(SubSeq(s, m, n)) = n - m + 1
           /\ \A x : Contains(SubSeq(s, m, n), x) => Contains(s, x)
<1>1. /\ SubSeq(s, m, n) \in Seq(S) /\ Len(SubSeq(s, m, n)) = n - m + 1
      /\ \A i \in 1 .. n - m + 1 : SubSeq(s, m, n)[i] = s[m + i - 1]
      /\ Len(s) \in Nat
  <2>1. Len(s) \in Nat /\ m \in Int /\ n \in Int /\ (~(m <= n) => n - m + 1 = 0)
    BY LenProperties
  <2>2. \A i \in m .. n : s[i] \in S
    <3>1. \A i \in m .. n : i \in 1 .. Len(s)  BY <2>1
    <3> QED BY <3>1, ElementOfSeq
  <2> QED BY <2>1, <2>2, SubSeqProperties
<1>2. ASSUME NEW x, Contains(SubSeq(s, m, n), x) PROVE Contains(s, x)
  <2>1. PICK i \in 1 .. n - m + 1 : SubSeq(s, m, n)[i] = x  BY <1>1, <1>2 DEF Contains
  <2>2. m + i - 1 \in 1 .. Len(s) /\ s[m + i - 1] = x  BY <1>1, <2>1
  <2> QED BY <2>2 DEF Contains
<1> QED BY <1>1, <1>2

(* Pulling a page to the front keeps the length of the list if it was      *)
(* there and adds one if it was not; it brings in no other page.           *)
LEMMA ToFrontContains ==
    ASSUME NEW S, NEW s \in Seq(S), NEW e \in S
    PROVE  /\ ToFront(s, e) \in Seq(S)
           /\ Len(ToFront(s, e)) = IF Contains(s, e) THEN Len(s) ELSE Len(s) + 1
           /\ \A x : Contains(ToFront(s, e), x) => Contains(s, x) \/ x = e
<1>1. /\ <<e>> \in Seq(S) /\ Len(<<e>>) = 1 /\ Len(s) \in Nat /\ DOMAIN s = 1 .. Len(s)
      /\ \A x : Contains(<<e>>, x) => x = e
  BY LenProperties DEF Contains
<1>2. ASSUME NEW t \in Seq(S) PROVE /\ <<e>> \o t \in Seq(S) /\ Len(<<e>> \o t) = Len(t) + 1
                                    /\ \A x : Contains(<<e>> \o t, x) => Contains(t, x) \/ x = e
  <2>1. <<e>> \o t \in Seq(S) /\ Len(<<e>> \o t) = Len(<<e>>) + Len(t)
    BY <1>1, ConcatProperties
  <2>2. Len(t) \in Nat  BY LenProperties
  <2>3. ASSUME NEW x, Contains(<<e>> \o t, x) PROVE Contains(t, x) \/ x = e
    <3>1. Contains(<<e>>, x) \/ Contains(t, x)  BY <2>3, <1>1, ConcatContains
    <3> QED BY <3>1, <1>1
  <2> QED BY <2>1, <2>2, <2>3, <1>1
<1>3. CASE ~Contains(s, e)  BY <1>2, <1>3 DEF ToFront
<1>4. CASE Contains(s, e)
  <2> DEFINE k == CHOOSE i \in DOMAIN s : s[i] = e
             a == SubSeq(s, 1, k - 1)
             b == SubSeq(s, k + 1, Len(s))
  <2>1. k \in 1 .. Len(s)  BY <1>1, <1>4 DEF Contains
  <2>2. ToFront(s, e) = <<e>> \o (a \o b)  BY <1>4 DEF ToFront, RemoveAt
  <2> HIDE DEF k
  <2>3. a \in Seq(S) /\ Len(a) = k - 1 /\ \A x : Contains(a, x) => Contains(s, x)
    <3>1. 1 \in 1 .. Len(s) + 1 /\ k - 1 \in 1 - 1 .. Len(s) /\ k - 1 - 1 + 1 = k - 1
      BY <2>1, <1>1
    <3>2. Len(SubSeq(s, 1, k - 1)) = (k - 1) - 1 + 1  BY <3>1, SubSeqContains
    <3> QED BY <3>1, <3>2, SubSeqContains
  <2>4. b \in Seq(S) /\ Len(b) = Len(s) - k /\ \A x : Contains(b, x) => Contains(s, x)
    <3>1. /\ k + 1 \in 1 .. Len(s) + 1 /\ Len(s) \in (k + 1) - 1 .. Len(s)
          /\ Len(s) - (k + 1) + 1 = Len(s) - k
      BY <2>1, <1>1
    <3>2. Len(SubSeq(s, k + 1, Len(s))) = Len(s) - (k + 1) + 1  BY <3>1, SubSeqContains
    <3> QED BY <3>1, <3>2, SubSeqContains
  <2> HIDE DEF a, b
  <2>5. a \o b \in Seq(S) /\ Len(a \o b) = Len(s) - 1
    <3>1. a \o b \in Seq(S) /\ Len(a \o b) = Len(a) + Len(b)
      BY <2>3, <2>4, ConcatProperties
    <3> QED BY <3>1, <2>3, <2>4, <2>1, <1>1
  <2>6. \A x : Contains(a \o b, x) => Contains(s, x)  BY <2>3, <2>4, ConcatContains
  <2>7. Len(<<e>> \o (a \o b)) = Len(s)  BY <2>5, <1>2, <1>1
  <2> QED BY <1>4, <2>2, <2>5, <2>6, <2>7, <1>2
<1> QED BY <1>3, <1>4

(* The list without its last page is one shorter and has no new page.      *)
LEMMA FrontContains ==
    ASSUME NEW S, NEW s \in Seq(S), s # <<>>
    PROVE  /\ Front(s) \in Seq(S) /\ Len(Front(s)) = Len(s) - 1
           /\ \A x : Contains(Front(s), x) => Contains(s, x)
<1>1. Len(s) \in Nat \ {0}  BY LenProperties, EmptySeq
<1>2. /\ 1 \in 1 .. Len(s) + 1 /\ Len(s) - 1 \in 1 - 1 .. Len(s)
      /\ Len(s) - 1 - 1 + 1 = Len(s) - 1
  BY <1>1
<1> QED BY <1>2, SubSeqContains DEF Front
-----------------------------------------------------------------------------
(* Requests, and the slots they hold.                                      *)

(* A free request has no operation, no state and no slot.                  *)
LEMMA IdleFields ==
    /\ DOMAIN Idle = {"op", "lba", "phys", "idx", "st", "own", "buf"}
    /\ Idle.op = "none" /\ Idle.st = "NONE" /\ Idle.own = 0
BY DEF Idle

(* A request in flight has a current address and a page it lies in.        *)
LEMMA CurrentPage ==
    ASSUME ControlTypeOK, NEW r \in Busy
    PROVE  r \in Rid /\ Cur(r) \in Lba /\ GtdIdx(Cur(r)) \in Gtd
<1>1. r \in Rid /\ req[r].op # "none"  BY DEF Busy
<1>2. RequestOK(r)  BY <1>1 DEF ControlTypeOK
<1>3. req[r].lba \in Seq(Lba) /\ req[r].idx \in 1 .. Len(req[r].lba)  BY <1>1, <1>2 DEF RequestOK
<1>4. Cur(r) \in Lba  BY <1>3, ElementOfSeq DEF Cur
<1> QED BY <1>1, <1>4 DEF Gtd

(* The requests that hold a slot are finitely many.                        *)
LEMMA HoldersFinite == IsFiniteSet(Holders) /\ Cardinality(Holders) \in Nat
<1>1. Holders \in SUBSET Rid  BY DEF Holders
<1>2. IsFiniteSet(Holders)  BY <1>1, FS_Subset, DemandAssumption
<1> QED BY <1>2, FS_CardinalityType

(* A step that changes no slot keeps their number.                         *)
LEMMA HoldersSame ==
    ASSUME \A r \in Rid : req'[r].own = req[r].own
    PROVE  Holders' = Holders
BY DEF Holders

(* A request that gets a slot adds one to their number.                    *)
LEMMA HoldersGain ==
    ASSUME NEW r \in Rid, req[r].own = 0, req'[r].own = 1,
           \A s \in Rid : s # r => req'[s] = req[s]
    PROVE  Cardinality(Holders') = Cardinality(Holders) + 1
<1>1. Holders' = Holders \cup {r} /\ r \notin Holders  BY DEF Holders
<1> QED BY <1>1, HoldersFinite, FS_AddElement

(* A request that gives its slot back takes one from their number.         *)
LEMMA HoldersLose ==
    ASSUME NEW r \in Rid, req[r].own \in {0, 1}, req'[r].own = 0,
           \A s \in Rid : s # r => req'[s] = req[s]
    PROVE  Cardinality(Holders') = Cardinality(Holders) - req[r].own
<1>1. CASE req[r].own = 1
  <2>1. Holders' = Holders \ {r} /\ r \in Holders  BY <1>1 DEF Holders
  <2> QED BY <1>1, <2>1, HoldersFinite, FS_RemoveElement
<1>2. CASE req[r].own = 0
  <2>1. Holders' = Holders  BY <1>2 DEF Holders
  <2> QED BY <1>2, <2>1, HoldersFinite
<1> QED BY <1>1, <1>2

(* A step that changes one request keeps the others well formed.           *)
LEMMA OthersWellFormed ==
    ASSUME ControlTypeOK, NEW r \in Rid, RequestOK(r)',
           \A s \in Rid : s # r => req'[s] = req[s]
    PROVE  \A s \in Rid : RequestOK(s)'
<1> SUFFICES ASSUME NEW s \in Rid, s # r PROVE RequestOK(s)'
  OBVIOUS
<1>1. RequestOK(s) /\ req'[s] = req[s]  BY DEF ControlTypeOK
<1> QED BY <1>1 DEF RequestOK

(* A request in flight has a slot or none; a free one has none.            *)
LEMMA SlotOrNone ==
    ASSUME ControlTypeOK, NEW r \in Rid
    PROVE  /\ req[r].own \in {0, 1} /\ DOMAIN req[r] = DOMAIN Idle
           /\ req[r].op = "none" <=> req[r] = Idle
           /\ req[r].op = "none" <=> r \notin Busy
<1>1. RequestOK(r)  BY DEF ControlTypeOK
<1> QED BY <1>1, IdleFields DEF RequestOK, Busy

\* What the invariant looks at in a request.
SameRequest(s) == \A f \in {"op", "lba", "idx", "st", "own"} : req'[s][f] = req[s][f]

(* A request that a step neither changes nor moves stays well placed.      *)
LEMMA PlacedKept ==
    ASSUME NEW s \in Rid, Placed(s), SameRequest(s),
           run' = s <=> run = s, Queued(s)' <=> Queued(s), s \in io' <=> s \in io,
           \A p \in Gtd : Waits(s, p)' <=> Waits(s, p),
           \A p \in Gtd : owner'[p] = s <=> owner[p] = s
    PROVE  Placed(s)' /\ (s \in Busy' <=> s \in Busy)
<1>1. /\ req'[s].op = req[s].op /\ req'[s].lba = req[s].lba /\ req'[s].idx = req[s].idx
      /\ req'[s].st = req[s].st /\ req'[s].own = req[s].own
  BY DEF SameRequest
<1>2. (s \in Busy' <=> s \in Busy) /\ GtdIdx(Cur(s))' = GtdIdx(Cur(s)) /\ (InHands(s)' <=> InHands(s))
  BY <1>1 DEF Busy, Cur, GtdIdx, InHands
<1> QED BY <1>1, <1>2 DEF Placed

(* A page that a step leaves alone stays owned, if its reader does.        *)
LEMMA OwnedKept ==
    ASSUME NEW p \in Gtd, NEW o, Owned(p), owner[p] = o, owner'[p] = o,
           IsInjective(pend'[p]), o = None => pend'[p] = <<>>,
           Waits(o, p) => Waits(o, p)' \/ ServedNow(p)',
           \A q \in Gtd : owner'[q] = o /\ o # None => q = p,
           status'[p] = "FLYING" <=> status[p] = "FLYING",
           status[p] = "FLYING" /\ Cached(p)' => Cached(p),
           o # None => InHands(o)' /\ req'[o].own = req[o].own,
           o # None => (ServedNow(p)' <=> ServedNow(p))
    PROVE  Owned(p)'
<1>1. ServedNow(p) => run = o  BY DEF ServedNow
<1>2. ServedNow(p)' => run' = o  BY DEF ServedNow
<1>3. o # None => InHands(owner[p])'
  <2>1. InHands(owner[p])' <=> InHands(o)'  BY DEF InHands, Queued
  <2> QED BY <2>1
<1>4. o # None /\ ~ServedNow(p)' => status'[p] = "FLYING" /\ Waits(o, p)' /\ req'[o].own = 1
  BY DEF Owned
<1>5. ServedNow(p)' /\ o # None => status'[p] # "FLYING" /\ req'[run'].own = 0
  BY <1>1, <1>2 DEF Owned
<1>6. Waits(owner[p], p)' <=> Waits(o, p)'  BY DEF Waits
<1>7. status'[p] = "FLYING" => o # None /\ ~Cached(p)'
  BY DEF Owned
<1> QED BY <1>3, <1>4, <1>5, <1>6, <1>7 DEF Owned

(* The request in hand, before it has missed, waits for no page and reads  *)
(* none; the pages being read are those that are flying.                   *)
LEMMA RunAlone ==
    ASSUME ControlInv, pc = "map", req[run].st # "MISSR"
    PROVE  /\ run \in Rid /\ run \in Busy /\ g \in Gtd
           /\ ~Queued(run) /\ run \notin io
           /\ \A p \in Gtd : ~Waits(run, p) /\ owner[p] # run
           /\ \A p \in Gtd : owner[p] # None <=> status[p] = "FLYING"
<1>1. run \in Busy /\ run \in Rid  BY DEF ControlInv, RunOK, Busy
<1>2. g \in Gtd  BY <1>1, CurrentPage DEF ControlInv, g
<1>3. ~Queued(run) /\ run \notin io /\ \A p \in Gtd : ~Waits(run, p)
  BY <1>1 DEF ControlInv, Placed
<1>4. \A p \in Gtd : ~ServedNow(p)  BY DEF ServedNow
<1>5. \A p \in Gtd : owner[p] # None <=> status[p] = "FLYING"
  BY <1>4 DEF ControlInv, Owned
<1>6. \A p \in Gtd : owner[p] # run
  <2>1. run # None  BY <1>1, DemandAssumption
  <2> QED BY <2>1, <1>3, <1>4 DEF ControlInv, Owned
<1> QED BY <1>1, <1>2, <1>3, <1>5, <1>6
-----------------------------------------------------------------------------
(* The steps of cache_traverse_state keep the invariant.                   *)

(* Moving on ends the request or leaves it at its next address without a   *)
(* slot and without a state.                                               *)
LEMMA AdvanceKeeps ==
    ASSUME ControlTypeOK, NEW r \in Busy, req' = Advance(req, r)
    PROVE  /\ DOMAIN req' = Rid /\ \A s \in Rid : s # r => req'[s] = req[s]
           /\ RequestOK(r)' /\ req'[r].st = "NONE" /\ req'[r].own = 0
           /\ req[r].op = "R" => req'[r] = Idle
           /\ req'[r] # Idle <=> r \in Busy'
<1>1. r \in Rid /\ req[r].op # "none" /\ DOMAIN req = Rid /\ RequestOK(r)
  BY DEF Busy, ControlTypeOK
<1>2. CASE req[r].idx = Len(req[r].lba)
  <2>1. req' = [req EXCEPT ![r] = Idle]  BY <1>2 DEF Advance
  <2>2. req'[r] = Idle  BY <2>1, <1>1
  <2> QED BY <2>1, <2>2, <1>1, IdleFields DEF RequestOK, Busy
<1>3. CASE req[r].idx # Len(req[r].lba)
  <2> DEFINE n == [req[r] EXCEPT !.idx = req[r].idx + 1, !.st = "NONE", !.own = 0]
  <2>1. req' = [req EXCEPT ![r] = n]  BY <1>3 DEF Advance
  <2>2. req'[r] = n  BY <2>1, <1>1
  <2>3. /\ DOMAIN n = DOMAIN Idle /\ n.op = req[r].op /\ n.lba = req[r].lba
        /\ n.idx = req[r].idx + 1 /\ n.st = "NONE" /\ n.own = 0
    BY <1>1, IdleFields DEF RequestOK
  <2> HIDE DEF n
  <2>4. req[r].lba \in Seq(Lba) /\ req[r].idx \in 1 .. Len(req[r].lba) /\ Len(req[r].lba) \in Nat
    BY <1>1, LenProperties DEF RequestOK
  <2>5. n.idx \in 1 .. Len(n.lba) /\ req[r].op # "R"
    <3>0. PICK a, b : a = req[r].idx /\ b = Len(req[r].lba)  OBVIOUS
    <3>1. a + 1 \in 1 .. b /\ b # 1
      <4>1. b \in Nat /\ a \in 1 .. b /\ a # b  BY <3>0, <2>4, <1>3
      <4> QED BY <4>1
    <3>2. req[r].op = "R" => Len(req[r].lba) = 1  BY <1>1 DEF RequestOK
    <3> QED BY <3>0, <3>1, <3>2, <2>3
  <2>6. n # Idle  BY <2>3, <1>1, IdleFields
  <2>7. RequestOK(r)'
    BY <2>2, <2>3, <2>4, <2>5, <1>1 DEF RequestOK
  <2> QED BY <2>1, <2>2, <2>3, <2>5, <2>6, <2>7, <1>1, IdleFields DEF Busy
<1> QED BY <1>2, <1>3

(* A step of the request in hand that reads no page: it may end it, hand   *)
(* it over or make it wait for a page that is flying; nobody else notices. *)
LEMMA StepOfRun ==
    ASSUME ControlInv, NEW r \in Rid, r = run, pc = "map", req[r].st # "MISSR",
           ControlTypeOK', RunOK', SlotsExact', Placed(r)',
           \A s \in Rid : s # r => SameRequest(s),
           \A s \in Rid : s # r => (Queued(s)' <=> Queued(s)) /\ (s \in io' <=> s \in io),
           run' \in {r, None}, pc' # "serve", owner' = owner,
           \A p \in Gtd : pend'[p] = pend[p]
                             \/ (status[p] = "FLYING" /\ pend'[p] = Append(pend[p], r)),
           \A p \in Gtd : status'[p] = "FLYING" <=> status[p] = "FLYING",
           \A p \in Gtd : status[p] = "FLYING" /\ Cached(p)' => Cached(p)
    PROVE  ControlInv'
<1>1. /\ r # None /\ \A p \in Gtd : ~Waits(r, p) /\ owner[p] # r
      /\ \A p \in Gtd : owner[p] # None <=> status[p] = "FLYING"
      /\ pend \in [Gtd -> Seq(Rid)]
  BY RunAlone, DemandAssumption DEF ControlInv, ControlTypeOK
<1>2. /\ \A s \in Rid : s # r => (run' = s <=> run = s)
      /\ \A p \in Gtd : ~ServedNow(p) /\ ~ServedNow(p)'
  BY DemandAssumption DEF ServedNow
<1>3. ASSUME NEW p \in Gtd
      PROVE  /\ IsInjective(pend'[p]) /\ (pend'[p] # pend[p] => owner[p] # None)
             /\ \A s \in Rid : s # r => (Waits(s, p)' <=> Waits(s, p))
  <2>1. IsInjective(pend[p]) /\ pend[p] \in Seq(Rid)  BY <1>1 DEF ControlInv, Owned
  <2>2. CASE pend'[p] = pend[p]  BY <2>1, <2>2 DEF Waits
  <2>3. CASE status[p] = "FLYING" /\ pend'[p] = Append(pend[p], r)
    BY <2>1, <2>3, <1>1, AppendContains DEF Waits
  <2> QED BY <2>2, <2>3
<1>4. ASSUME NEW s \in Rid PROVE Placed(s)'
  BY <1>2, <1>3, PlacedKept DEF ControlInv
<1>5. ASSUME NEW p \in Gtd PROVE Owned(p)'
  <2>1. PICK o : o = owner[p]  OBVIOUS
  <2>2. \A q \in Gtd : owner'[q] = o /\ o # None => q = p
    BY <2>1 DEF ControlInv, Owned
  <2>3. o # None => o \in Rid /\ InHands(o) /\ o # r
    BY <2>1, <1>1 DEF ControlInv, ControlTypeOK, Owned
  <2>4. o # None => InHands(o)'
    BY <2>3, <1>2 DEF InHands
  <2>5. o # None => req'[o].own = req[o].own
    BY <2>3 DEF SameRequest
  <2>6. o = None => pend'[p] = <<>>  BY <2>1, <1>3 DEF ControlInv, Owned
  <2>7. Waits(o, p) => Waits(o, p)'
    <3>1. o = None => ~Waits(o, p)
      BY <2>1, EmptyContains DEF ControlInv, Owned, Waits
    <3> QED BY <3>1, <2>3, <1>3
  <2> QED BY <2>1, <2>2, <2>4, <2>5, <2>6, <2>7, <1>2, <1>3, OwnedKept DEF ControlInv
<1> QED BY <1>4, <1>5 DEF ControlInv

(* A hit: the slot promised to the request goes back, or becomes the slot  *)
(* of the page it creates.                                                 *)
LEMMA HitKeeps ==
    ASSUME ControlInv, pc = "map", req[run].st # "MISSR", Hit, status[g] # "FLYING",
           Cached(g) \/ Len(lru) + hint - req[run].own < CachePages
    PROVE  ControlInv'
<1>1. PICK r \in Rid, p0 \in Gtd : r = run /\ p0 = g  BY RunAlone
<1>2. /\ r \in Busy /\ r # None /\ ~Queued(r) /\ r \notin io
      /\ \A p \in Gtd : ~Waits(r, p) /\ owner[p] # r
      /\ \A p \in Gtd : owner[p] # None <=> status[p] = "FLYING"
  BY <1>1, RunAlone, DemandAssumption
<1>3. /\ DOMAIN req' = Rid /\ \A s \in Rid : s # r => req'[s] = req[s]
      /\ RequestOK(r)' /\ req'[r].st = "NONE" /\ req'[r].own = 0
      /\ req'[r] # Idle <=> r \in Busy'
  <2>1. req' = Advance(req, r)  BY <1>1 DEF Hit
  <2> QED BY <1>2, <2>1, AdvanceKeeps DEF ControlInv
<1>4. /\ pend' = pend /\ owner' = owner /\ io' = io /\ rq' = rq /\ abuf' = abuf
      /\ hint' = hint - req[r].own
      /\ \/ run' = None /\ pc' = "idle" /\ req'[r] = Idle
         \/ run' = r /\ pc' = "map" /\ req'[r] # Idle
  BY <1>1 DEF Hit, SlotBack, Continue
<1>5. \/ lru' = lru /\ status' = status
      \/ lru' = ToFront(lru, p0) /\ status' = [status EXCEPT ![p0] = "DIRTY"]
  BY <1>1 DEF Hit
<1>6. lru \in Seq(Gtd) /\ status \in [Gtd -> Page] /\ req[r].own \in {0, 1} /\ hint \in Int
  BY SlotOrNone DEF ControlInv, ControlTypeOK
<1>7. /\ lru' \in Seq(Gtd) /\ status' \in [Gtd -> Page]
      /\ Len(lru') <= IF Cached(p0) THEN Len(lru) ELSE Len(lru) + 1
      /\ \A p \in Gtd : Cached(p)' => Cached(p) \/ p = p0
      /\ \A p \in Gtd : status'[p] = "FLYING" <=> status[p] = "FLYING"
  <2>1. Len(lru) \in Nat  BY <1>6, LenProperties
  <2>2. CASE lru' = lru /\ status' = status  BY <1>6, <2>1, <2>2 DEF Cached
  <2>3. CASE lru' = ToFront(lru, p0) /\ status' = [status EXCEPT ![p0] = "DIRTY"]
    <3>1. /\ lru' \in Seq(Gtd) /\ Len(lru') = IF Cached(p0) THEN Len(lru) ELSE Len(lru) + 1
          /\ \A p \in Gtd : Cached(p)' => Cached(p) \/ p = p0
      BY <1>6, <2>3, ToFrontContains DEF Cached
    <3>2. status' \in [Gtd -> Page]  BY <1>6, <2>3 DEF Page
    <3>3. \A p \in Gtd : status'[p] = "FLYING" <=> status[p] = "FLYING"  BY <1>6, <1>1, <2>3
    <3> QED BY <3>1, <3>2, <3>3, <2>1
  <2> QED BY <1>5, <2>2, <2>3
<1>8. ControlTypeOK'
  <2>1. \A s \in Rid : RequestOK(s)'  BY <1>3, OthersWellFormed DEF ControlInv
  <2>2. hint' \in Int /\ run' \in Rid \cup {None} /\ pc' \in {"idle", "map"}
    BY <1>4, <1>6
  <2> QED BY <2>1, <2>2, <1>3, <1>4, <1>7 DEF ControlInv, ControlTypeOK
<1>9. RunOK'
  BY <1>2, <1>3, <1>4 DEF ControlInv, RunOK
<1>10. SlotsExact'
  <2>1. Cardinality(Holders') = Cardinality(Holders) - req[r].own  BY <1>3, <1>6, HoldersLose
  <2>2. Len(lru) \in Nat /\ Len(lru') \in Nat /\ CachePages \in Nat
    BY <1>6, <1>7, LenProperties, DemandAssumption
  <2> QED BY <1>1, <1>4, <1>6, <1>7, <2>1, <2>2, HoldersFinite DEF ControlInv, SlotsExact
<1>11. /\ \A s \in Rid : Queued(s)' <=> Queued(s)
       /\ \A s \in Rid, p \in Gtd : Waits(s, p)' <=> Waits(s, p)
       /\ \A s \in Rid : s # r => SameRequest(s)
  BY <1>3, <1>4 DEF Queued, Waits, SameRequest
<1>12. Placed(r)'
  BY <1>2, <1>3, <1>4, <1>11 DEF Placed, InHands
<1>13. \A p \in Gtd : status[p] = "FLYING" /\ Cached(p)' => Cached(p)  BY <1>1, <1>7
<1>14. /\ r = run /\ req[r].st # "MISSR" /\ run' \in {r, None} /\ pc' # "serve"
       /\ \A s \in Rid : s # r => (Queued(s)' <=> Queued(s)) /\ (s \in io' <=> s \in io)
       /\ owner' = owner /\ \A p \in Gtd : pend'[p] = pend[p]
  BY <1>1, <1>4, <1>11
<1>15. \A p \in Gtd : status'[p] = "FLYING" <=> status[p] = "FLYING"  BY <1>7
<1> QED BY <1>8, <1>9, <1>10, <1>11, <1>12, <1>13, <1>14, <1>15, StepOfRun

(* A read of a page that does not exist ends.                              *)
LEMMA NotFoundKeeps ==
    ASSUME ControlInv, pc = "map", req[run].st = "NONE", NotFound
    PROVE  ControlInv'
<1>1. PICK r \in Rid : r = run  BY RunAlone
<1>2. /\ r \in Busy /\ r # None /\ ~Queued(r) /\ r \notin io /\ req[r].own = 0
      /\ \A p \in Gtd : ~Waits(r, p) /\ owner[p] # r
  BY <1>1, RunAlone, DemandAssumption DEF ControlInv, Placed
<1>3. /\ lru' = lru /\ status' = status /\ pend' = pend /\ owner' = owner /\ hint' = hint
      /\ io' = io /\ rq' = rq /\ abuf' = abuf /\ run' = None /\ pc' = "idle"
      /\ req' = [req EXCEPT ![r] = Idle]
  BY <1>1 DEF NotFound, Leave, cacheVars
<1>4. /\ DOMAIN req = Rid /\ DOMAIN req' = Rid /\ req'[r] = Idle
      /\ \A s \in Rid : s # r => req'[s] = req[s]
  BY <1>3 DEF ControlInv, ControlTypeOK
<1>5. ControlTypeOK'
  <2>1. RequestOK(r)'  BY <1>4, IdleFields DEF RequestOK
  <2>2. \A s \in Rid : RequestOK(s)'  BY <2>1, <1>4, OthersWellFormed DEF ControlInv
  <2> QED BY <2>2, <1>3, <1>4 DEF ControlInv, ControlTypeOK
<1>6. RunOK'  BY <1>3 DEF ControlInv, RunOK
<1>7. SlotsExact'
  <2>1. \A s \in Rid : req'[s].own = req[s].own  BY <1>2, <1>4, IdleFields
  <2> QED BY <2>1, <1>3, HoldersSame DEF ControlInv, SlotsExact
<1>8. Placed(r)'
  BY <1>2, <1>3, <1>4, IdleFields DEF Placed, Busy, Queued, Waits
<1>9. /\ \A s \in Rid : s # r => SameRequest(s)
      /\ \A s \in Rid : s # r => (Queued(s)' <=> Queued(s)) /\ (s \in io' <=> s \in io)
      /\ run' \in {r, None} /\ pc' # "serve" /\ req[r].st # "MISSR"
      /\ \A p \in Gtd : Cached(p)' <=> Cached(p)
  BY <1>1, <1>3, <1>4 DEF SameRequest, Queued, Cached
<1> QED BY <1>1, <1>3, <1>5, <1>6, <1>7, <1>8, <1>9, StepOfRun

(* A miss that finds every slot promised goes back to the retry queue.     *)
LEMMA RetryKeeps ==
    ASSUME ControlInv, pc = "map", req[run].st = "NONE", Retry
    PROVE  ControlInv'
<1>1. PICK r \in Rid : r = run  BY RunAlone
<1>2. /\ r \in Busy /\ r # None /\ ~Queued(r) /\ r \notin io
      /\ \A p \in Gtd : ~Waits(r, p) /\ owner[p] # r
      /\ rq \in Seq(Rid) /\ IsInjective(rq)
  BY <1>1, RunAlone, DemandAssumption DEF ControlInv, ControlTypeOK, RunOK
<1>3. /\ lru' = lru /\ status' = status /\ pend' = pend /\ owner' = owner /\ hint' = hint
      /\ io' = io /\ rq' = Append(rq, r) /\ abuf' = abuf /\ run' = None /\ pc' = "idle"
      /\ req' = req
  BY <1>1 DEF Retry, Leave, cacheVars
<1>4. /\ rq' \in Seq(Rid) /\ IsInjective(rq') /\ Queued(r)'
      /\ \A s \in Rid : s # r => (Queued(s)' <=> Queued(s))
  BY <1>2, <1>3, AppendContains DEF Queued
<1>5. ControlTypeOK'  BY <1>3, <1>4 DEF ControlInv, ControlTypeOK, RequestOK
<1>6. RunOK'  BY <1>3, <1>4 DEF RunOK
<1>7. SlotsExact'
  <2>1. Holders' = Holders  BY <1>3, HoldersSame
  <2> QED BY <2>1, <1>3 DEF ControlInv, SlotsExact
<1>8. Placed(r)'
  <2>1. Placed(r)  BY DEF ControlInv
  <2>2. \A p \in Gtd : ~Waits(r, p)'  BY <1>2, <1>3 DEF Waits
  <2>3. r \in Busy' /\ req'[r].st = "NONE"  BY <1>1, <1>2, <1>3 DEF Busy
  <2> QED BY <1>2, <1>3, <1>4, <2>1, <2>2, <2>3, <1>1 DEF Placed, InHands
<1>9. /\ \A s \in Rid : s # r => SameRequest(s)
      /\ \A s \in Rid : s # r => (s \in io' <=> s \in io)
      /\ run' \in {r, None} /\ pc' # "serve" /\ req[r].st # "MISSR"
      /\ \A p \in Gtd : Cached(p)' <=> Cached(p)
  BY <1>1, <1>3 DEF SameRequest, Cached
<1> QED BY <1>1, <1>3, <1>4, <1>5, <1>6, <1>7, <1>8, <1>9, StepOfRun

(* Marking a request: its operation and its addresses stay.                *)
LEMMA MarkKeeps ==
    ASSUME ControlTypeOK, NEW r \in Busy, NEW n, req' = [req EXCEPT ![r] = n],
           DOMAIN n = DOMAIN Idle, n.op = req[r].op, n.lba = req[r].lba, n.idx = req[r].idx,
           n.st \in {"NONE", "MISSR", "EVICTIONW"}, n.own \in {0, 1}
    PROVE  /\ DOMAIN req' = Rid /\ req'[r] = n /\ \A s \in Rid : s # r => req'[s] = req[s]
           /\ \A s \in Rid : RequestOK(s)'
           /\ \A s \in Rid : s # r => SameRequest(s)
           /\ r \in Busy' /\ GtdIdx(Cur(r))' = GtdIdx(Cur(r))
<1>1. r \in Rid /\ req[r].op # "none" /\ DOMAIN req = Rid /\ RequestOK(r)
  BY DEF Busy, ControlTypeOK
<1>2. DOMAIN req' = Rid /\ req'[r] = n /\ \A s \in Rid : s # r => req'[s] = req[s]
  BY <1>1
<1>3. RequestOK(r)'  BY <1>1, <1>2 DEF RequestOK
<1>4. \A s \in Rid : RequestOK(s)'  BY <1>1, <1>2, <1>3, OthersWellFormed
<1>5. \A s \in Rid : s # r => SameRequest(s)  BY <1>2 DEF SameRequest
<1>6. r \in Busy' /\ GtdIdx(Cur(r))' = GtdIdx(Cur(r))
  BY <1>1, <1>2 DEF Busy, Cur, GtdIdx
<1> QED BY <1>2, <1>4, <1>5, <1>6

(* An eviction: the page's slot is promised to the request, which goes on  *)
(* or waits for the device to write the page.                              *)
LEMMA EvictKeeps ==
    ASSUME ControlInv, pc = "map", req[run].st = "NONE", lru # <<>>, Evict
    PROVE  ControlInv'
<1>1. PICK r \in Rid : r = run  BY RunAlone
<1>2. /\ r \in Busy /\ r # None /\ ~Queued(r) /\ r \notin io /\ req[r].own = 0
      /\ \A p \in Gtd : ~Waits(r, p) /\ owner[p] # r
      /\ lru \in Seq(Gtd) /\ io \subseteq Rid /\ hint \in Int
  BY <1>1, RunAlone, DemandAssumption DEF ControlInv, ControlTypeOK, Placed
<1>3. /\ lru' = Front(lru) /\ status' = status /\ pend' = pend /\ owner' = owner
      /\ hint' = hint + 1 /\ rq' = rq /\ abuf' = abuf
      /\ req' = [req EXCEPT ![r] = [req[r] EXCEPT !.st = "EVICTIONW", !.own = 1]]
      /\ \/ io' = io /\ run' = r /\ pc' = "map"
         \/ io' = io \cup {r} /\ run' = None /\ pc' = "idle"
  BY <1>1 DEF Evict, Leave, cacheVars
<1>4. PICK n : n = [req[r] EXCEPT !.st = "EVICTIONW", !.own = 1]  OBVIOUS
<1>5. /\ DOMAIN n = DOMAIN Idle /\ n.op = req[r].op /\ n.lba = req[r].lba /\ n.idx = req[r].idx
      /\ n.st = "EVICTIONW" /\ n.own = 1
  BY <1>4, SlotOrNone, IdleFields DEF ControlInv
<1>6. /\ DOMAIN req' = Rid /\ req'[r] = n /\ \A s \in Rid : s # r => req'[s] = req[s]
      /\ \A s \in Rid : RequestOK(s)'
      /\ \A s \in Rid : s # r => SameRequest(s)
      /\ r \in Busy'
  <2>1. /\ ControlTypeOK /\ req' = [req EXCEPT ![r] = n]
        /\ n.st \in {"NONE", "MISSR", "EVICTIONW"} /\ n.own \in {0, 1}
    BY <1>3, <1>4, <1>5 DEF ControlInv
  <2> QED BY <2>1, <1>2, <1>5, MarkKeeps
<1>7. /\ lru' \in Seq(Gtd) /\ Len(lru') = Len(lru) - 1 /\ Len(lru) \in Nat
      /\ \A p \in Gtd : Cached(p)' => Cached(p)
  BY <1>2, <1>3, FrontContains, LenProperties DEF Cached
<1>8. ControlTypeOK'
  <2>1. /\ hint' \in Int /\ io' \subseteq Rid /\ run' \in Rid \cup {None}
        /\ pc' \in {"idle", "map"}
    BY <1>2, <1>3
  <2> QED BY <2>1, <1>3, <1>6, <1>7 DEF ControlInv, ControlTypeOK
<1>9. RunOK'  BY <1>2, <1>3, <1>6 DEF ControlInv, RunOK
<1>10. SlotsExact'
  <2>1. Cardinality(Holders') = Cardinality(Holders) + 1  BY <1>2, <1>5, <1>6, HoldersGain
  <2> QED BY <2>1, <1>2, <1>3, <1>7, HoldersFinite, DemandAssumption DEF ControlInv, SlotsExact
<1>11. Placed(r)'
  <2>1. ~Queued(r)' /\ \A p \in Gtd : ~Waits(r, p)'  BY <1>2, <1>3 DEF Queued, Waits
  <2>2. InHands(r)' /\ (r \in io' => run' # r)  BY <1>2, <1>3 DEF InHands
  <2> QED BY <2>1, <2>2, <1>5, <1>6 DEF Placed
<1>12. /\ \A s \in Rid : s # r => (Queued(s)' <=> Queued(s)) /\ (s \in io' <=> s \in io)
       /\ run' \in {r, None} /\ pc' # "serve" /\ req[r].st # "MISSR"
  BY <1>1, <1>3 DEF Queued
<1> QED BY <1>1, <1>3, <1>6, <1>7, <1>8, <1>9, <1>10, <1>11, <1>12, StepOfRun

(* A miss in a page that is being read: the request waits for its reader   *)
(* and gives its slot back.                                                *)
LEMMA JoinFlyingKeeps ==
    ASSUME ControlInv, pc = "map", req[run].st # "MISSR", status[g] = "FLYING", JoinFlying
    PROVE  ControlInv'
<1>1. PICK r \in Rid, p0 \in Gtd : r = run /\ p0 = g  BY RunAlone
<1>2. /\ r \in Busy /\ r # None /\ ~Queued(r) /\ r \notin io /\ req[r].own \in {0, 1}
      /\ \A p \in Gtd : ~Waits(r, p) /\ owner[p] # r
      /\ pend \in [Gtd -> Seq(Rid)] /\ hint \in Int /\ lru \in Seq(Gtd)
      /\ GtdIdx(Cur(r)) = p0
  BY <1>1, RunAlone, SlotOrNone, DemandAssumption DEF ControlInv, ControlTypeOK, g
<1>3. /\ lru' = lru /\ status' = status /\ owner' = owner
      /\ pend' = [pend EXCEPT ![p0] = Append(pend[p0], r)]
      /\ hint' = hint - req[r].own /\ rq' = rq /\ abuf' = abuf /\ io' = io
      /\ run' = None /\ pc' = "idle"
      /\ req' = [req EXCEPT ![r] = [req[r] EXCEPT !.st = "MISSR", !.own = 0]]
  BY <1>1 DEF JoinFlying, Leave, SlotBack
<1>4. PICK n : n = [req[r] EXCEPT !.st = "MISSR", !.own = 0]  OBVIOUS
<1>5. /\ DOMAIN n = DOMAIN Idle /\ n.op = req[r].op /\ n.lba = req[r].lba /\ n.idx = req[r].idx
      /\ n.st = "MISSR" /\ n.own = 0
  BY <1>4, SlotOrNone, IdleFields DEF ControlInv
<1>6. /\ DOMAIN req' = Rid /\ req'[r] = n /\ \A s \in Rid : s # r => req'[s] = req[s]
      /\ \A s \in Rid : RequestOK(s)'
      /\ \A s \in Rid : s # r => SameRequest(s)
      /\ r \in Busy' /\ GtdIdx(Cur(r))' = p0
  <2>1. /\ ControlTypeOK /\ req' = [req EXCEPT ![r] = n]
        /\ n.st \in {"NONE", "MISSR", "EVICTIONW"} /\ n.own \in {0, 1}
    BY <1>3, <1>4, <1>5 DEF ControlInv
  <2> QED BY <2>1, <1>2, <1>5, MarkKeeps
<1>7. /\ pend' \in [Gtd -> Seq(Rid)] /\ pend'[p0] = Append(pend[p0], r)
      /\ \A p \in Gtd : p # p0 => pend'[p] = pend[p]
      /\ \A p \in Gtd : Waits(r, p)' <=> p = p0
  <2>1. pend[p0] \in Seq(Rid) /\ Append(pend[p0], r) \in Seq(Rid)  BY <1>2, AppendContains
  <2>2. /\ pend' \in [Gtd -> Seq(Rid)] /\ pend'[p0] = Append(pend[p0], r)
        /\ \A p \in Gtd : p # p0 => pend'[p] = pend[p]
    BY <1>2, <1>3, <2>1
  <2>3. Waits(r, p0)'  BY <2>1, <2>2, AppendContains DEF Waits
  <2> QED BY <2>2, <2>3, <1>2 DEF Waits
<1>8. ControlTypeOK'
  <2>1. hint' \in Int  BY <1>2, <1>3
  <2> QED BY <2>1, <1>3, <1>6, <1>7 DEF ControlInv, ControlTypeOK
<1>9. RunOK'  BY <1>2, <1>3, <1>6 DEF ControlInv, RunOK
<1>10. SlotsExact'
  <2>1. Cardinality(Holders') = Cardinality(Holders) - req[r].own  BY <1>2, <1>5, <1>6, HoldersLose
  <2>2. Len(lru) \in Nat  BY <1>2, LenProperties
  <2> QED BY <2>1, <2>2, <1>2, <1>3, HoldersFinite, DemandAssumption DEF ControlInv, SlotsExact
<1>11. Placed(r)'
  <2>1. ~Queued(r)' /\ r \notin io' /\ ~InHands(r)'  BY <1>2, <1>3 DEF Queued, InHands
  <2> QED BY <2>1, <1>5, <1>6, <1>7 DEF Placed
<1>12. /\ \A s \in Rid : s # r => (Queued(s)' <=> Queued(s)) /\ (s \in io' <=> s \in io)
       /\ run' \in {r, None} /\ pc' # "serve" /\ req[r].st # "MISSR"
       /\ \A p \in Gtd : Cached(p)' <=> Cached(p)
       /\ \A p \in Gtd : pend'[p] = pend[p]
                             \/ (status[p] = "FLYING" /\ pend'[p] = Append(pend[p], r))
  BY <1>1, <1>3, <1>7 DEF Queued, Cached
<1> QED BY <1>1, <1>3, <1>6, <1>8, <1>9, <1>10, <1>11, <1>12, StepOfRun

(* A miss in a page on flash: the request holds a slot, reads the page and *)
(* is the first to wait for it.                                            *)
LEMMA IssueReadKeeps ==
    ASSUME ControlInv, pc = "map", req[run].st # "MISSR", status[g] # "FLYING", ~Cached(g),
           Len(lru) + hint + 1 - req[run].own <= CachePages, IssueRead
    PROVE  ControlInv'
<1>1. PICK r \in Rid, p0 \in Gtd : r = run /\ p0 = g  BY RunAlone
<1>2. /\ r \in Busy /\ r # None /\ ~Queued(r) /\ r \notin io /\ req[r].own \in {0, 1}
      /\ \A p \in Gtd : ~Waits(r, p) /\ owner[p] # r
      /\ \A p \in Gtd : owner[p] # None <=> status[p] = "FLYING"
      /\ GtdIdx(Cur(r)) = p0 /\ ~Cached(p0)
  BY <1>1, RunAlone, SlotOrNone, DemandAssumption DEF ControlInv, g
<1>3. /\ pend \in [Gtd -> Seq(Rid)] /\ hint \in Int /\ lru \in Seq(Gtd) /\ io \subseteq Rid
      /\ owner \in [Gtd -> Rid \cup {None}] /\ status \in [Gtd -> Page]
      /\ owner[p0] = None /\ pend[p0] = <<>>
  BY <1>1, <1>2 DEF ControlInv, ControlTypeOK, Owned
<1>4. /\ lru' = lru /\ status' = [status EXCEPT ![p0] = "FLYING"]
      /\ owner' = [owner EXCEPT ![p0] = r]
      /\ pend' = [pend EXCEPT ![p0] = Append(pend[p0], r)]
      /\ hint' = hint + 1 - req[r].own /\ rq' = rq /\ abuf' = abuf /\ io' = io \cup {r}
      /\ run' = None /\ pc' = "idle"
      /\ req' = [req EXCEPT ![r] = [req[r] EXCEPT !.st = "MISSR", !.own = 1, !.buf = fl.tmap]]
  BY <1>1 DEF IssueRead, Leave
<1>5. PICK n : n = [req[r] EXCEPT !.st = "MISSR", !.own = 1, !.buf = fl.tmap]  OBVIOUS
<1>6. /\ DOMAIN n = DOMAIN Idle /\ n.op = req[r].op /\ n.lba = req[r].lba /\ n.idx = req[r].idx
      /\ n.st = "MISSR" /\ n.own = 1
  BY <1>5, SlotOrNone, IdleFields DEF ControlInv
<1>7. /\ DOMAIN req' = Rid /\ req'[r] = n /\ \A s \in Rid : s # r => req'[s] = req[s]
      /\ \A s \in Rid : RequestOK(s)'
      /\ \A s \in Rid : s # r => SameRequest(s)
      /\ r \in Busy' /\ GtdIdx(Cur(r))' = p0
  <2>1. /\ ControlTypeOK /\ req' = [req EXCEPT ![r] = n]
        /\ n.st \in {"NONE", "MISSR", "EVICTIONW"} /\ n.own \in {0, 1}
    BY <1>4, <1>5, <1>6 DEF ControlInv
  <2> QED BY <2>1, <1>2, <1>6, MarkKeeps
<1>8. /\ pend' \in [Gtd -> Seq(Rid)] /\ pend'[p0] = <<r>>
      /\ \A p \in Gtd : p # p0 => pend'[p] = pend[p]
      /\ \A p \in Gtd : p # p0 => owner'[p] = owner[p] /\ status'[p] = status[p]
      /\ owner'[p0] = r /\ status'[p0] = "FLYING"
      /\ owner' \in [Gtd -> Rid \cup {None}] /\ status' \in [Gtd -> Page]
  BY <1>3, <1>4 DEF Page
<1>9. /\ IsInjective(pend'[p0]) /\ Waits(r, p0)'
      /\ \A s \in Rid : Waits(s, p0)' <=> s = r
      /\ \A s \in Rid, p \in Gtd : p # p0 => (Waits(s, p)' <=> Waits(s, p))
      /\ \A s \in Rid : ~Waits(s, p0)
  BY <1>3, <1>8, EmptyContains DEF Waits, Contains, IsInjective
<1>10. /\ \A s \in Rid : Queued(s)' <=> Queued(s)
       /\ \A s \in Rid : s # r => (run' = s <=> run = s) /\ (s \in io' <=> s \in io)
       /\ \A p \in Gtd : ~ServedNow(p) /\ ~ServedNow(p)'
       /\ \A p \in Gtd : Cached(p)' <=> Cached(p)
  BY <1>1, <1>4, DemandAssumption DEF Queued, ServedNow, Cached
<1>11. ControlTypeOK'
  <2>1. hint' \in Int /\ io' \subseteq Rid  BY <1>2, <1>3, <1>4
  <2> QED BY <2>1, <1>4, <1>7, <1>8 DEF ControlInv, ControlTypeOK
<1>12. RunOK'  BY <1>4 DEF ControlInv, RunOK
<1>13. SlotsExact'
  <2>1. Len(lru) \in Nat  BY <1>3, LenProperties
  <2>2. CASE req[r].own = 0
    <3>1. Cardinality(Holders') = Cardinality(Holders) + 1  BY <1>6, <1>7, <2>2, HoldersGain
    <3> QED BY <2>1, <2>2, <3>1, <1>1, <1>3, <1>4, HoldersFinite, DemandAssumption
            DEF ControlInv, SlotsExact
  <2>3. CASE req[r].own = 1
    <3>1. Holders' = Holders  BY <1>6, <1>7, <2>3, HoldersSame
    <3> QED BY <2>1, <2>3, <3>1, <1>1, <1>3, <1>4, HoldersFinite, DemandAssumption
            DEF ControlInv, SlotsExact
  <2> QED BY <1>2, <2>2, <2>3
<1>14. ASSUME NEW s \in Rid PROVE Placed(s)'
  <2>1. CASE s # r
    <3>1. \A p \in Gtd : owner'[p] = s <=> owner[p] = s
      BY <2>1, <1>3, <1>8, DemandAssumption
    <3>2. \A p \in Gtd : Waits(s, p)' <=> Waits(s, p)  BY <2>1, <1>9
    <3> QED BY <2>1, <3>1, <3>2, <1>7, <1>10, PlacedKept DEF ControlInv
  <2>2. Placed(r)'
    <3>1. \A p \in Gtd : Waits(r, p)' => p = p0  BY <1>2, <1>9
    <3>2. ~Queued(r)' /\ r \in io' /\ run' # r /\ InHands(r)'  BY <1>2, <1>4, <1>10 DEF InHands
    <3> QED BY <3>1, <3>2, <1>6, <1>7, <1>8, <1>9 DEF Placed
  <2> QED BY <2>1, <2>2
<1>15. ASSUME NEW p \in Gtd PROVE Owned(p)'
  <2>1. CASE p # p0
    <3>1. PICK o : o = owner[p]  OBVIOUS
    <3>2. o # None => o \in Rid /\ InHands(o) /\ o # r
      BY <3>1, <1>2, <1>3 DEF ControlInv, Owned
    <3>3. \A q \in Gtd : owner'[q] = o /\ o # None => q = p
      BY <3>1, <3>2, <1>8 DEF ControlInv, Owned
    <3>4. o # None => InHands(o)' /\ req'[o].own = req[o].own
      BY <3>2, <1>7, <1>10 DEF InHands
    <3>5. Waits(o, p) => Waits(o, p)'  BY <2>1, <1>8 DEF Waits
    <3>6. IsInjective(pend'[p]) /\ (o = None => pend'[p] = <<>>)
      BY <2>1, <3>1, <1>8 DEF ControlInv, Owned
    <3> QED BY <2>1, <3>1, <3>3, <3>4, <3>5, <3>6, <1>8, <1>10, OwnedKept DEF ControlInv
  <2>2. Owned(p0)'
    <3>1. \A q \in Gtd : owner'[q] = owner'[p0] => q = p0  BY <1>2, <1>8
    <3>2. InHands(owner[p0])'  BY <1>4, <1>8 DEF InHands
    <3>3. Waits(owner[p0], p0)'  BY <1>8, <1>9 DEF Waits
    <3> QED BY <3>1, <3>2, <3>3, <1>2, <1>6, <1>7, <1>8, <1>9, <1>10 DEF Owned
  <2> QED BY <2>1, <2>2
<1> QED BY <1>11, <1>12, <1>13, <1>14, <1>15 DEF ControlInv

(* A map read that is over: the page takes the slot its reader held, and   *)
(* the reader goes on to serve those who wait for it.                      *)
LEMMA FillKeeps ==
    ASSUME ControlInv, pc = "map", req[run].st = "MISSR", Fill
    PROVE  ControlInv'
<1>1. PICK r \in Rid, p0 \in Gtd : r = run /\ p0 = g /\ r \in Busy /\ GtdIdx(Cur(r)) = p0
  BY CurrentPage DEF ControlInv, RunOK, Busy, g
<1>2. InHands(r) /\ r # None /\ ~Queued(r) /\ r \notin io
  BY <1>1, DemandAssumption DEF ControlInv, Placed, InHands
<1>3. Waits(r, p0) /\ owner[p0] = r
  BY <1>1, <1>2 DEF ControlInv, Placed
<1>4. \A p \in Gtd : ~ServedNow(p)  BY DEF ServedNow
<1>5. /\ status[p0] = "FLYING" /\ req[r].own = 1
      /\ \A p \in Gtd : owner[p] = r => p = p0
  BY <1>2, <1>3, <1>4 DEF ControlInv, Owned
<1>6. /\ lru \in Seq(Gtd) /\ status \in [Gtd -> Page] /\ hint \in Int
  BY DEF ControlInv, ControlTypeOK
<1>7. /\ lru' = <<p0>> \o lru /\ status' = [status EXCEPT ![p0] = "CLEAN"]
      /\ owner' = owner /\ pend' = pend /\ hint' = hint - req[r].own
      /\ rq' = rq /\ abuf' = abuf /\ io' = io /\ run' = run /\ pc' = "serve"
      /\ req' = [req EXCEPT ![r] = [req[r] EXCEPT !.own = 0]]
  BY <1>1 DEF Fill, SlotBack
<1>8. PICK n : n = [req[r] EXCEPT !.own = 0]  OBVIOUS
<1>9. /\ DOMAIN n = DOMAIN Idle /\ n.op = req[r].op /\ n.lba = req[r].lba /\ n.idx = req[r].idx
      /\ n.st = "MISSR" /\ n.own = 0
  BY <1>1, <1>8, SlotOrNone, IdleFields DEF ControlInv
<1>10. /\ DOMAIN req' = Rid /\ req'[r] = n /\ \A s \in Rid : s # r => req'[s] = req[s]
       /\ \A s \in Rid : RequestOK(s)'
       /\ \A s \in Rid : s # r => SameRequest(s)
       /\ r \in Busy' /\ GtdIdx(Cur(r))' = p0
  <2>1. /\ ControlTypeOK /\ req' = [req EXCEPT ![r] = n]
        /\ n.st \in {"NONE", "MISSR", "EVICTIONW"} /\ n.own \in {0, 1}
    BY <1>7, <1>8, <1>9 DEF ControlInv
  <2> QED BY <2>1, <1>1, <1>9, MarkKeeps
<1>11. /\ lru' \in Seq(Gtd) /\ Len(lru') = Len(lru) + 1 /\ Len(lru) \in Nat
       /\ \A p \in Gtd : Cached(p)' => Cached(p) \/ p = p0
  <2>1. <<p0>> \in Seq(Gtd) /\ Len(<<p0>>) = 1 /\ \A x : Contains(<<p0>>, x) => x = p0
    BY DEF Contains
  <2>2. lru' \in Seq(Gtd) /\ Len(lru') = Len(<<p0>>) + Len(lru) /\ Len(lru) \in Nat
    BY <2>1, <1>6, <1>7, ConcatProperties, LenProperties
  <2>3. ASSUME NEW p \in Gtd, Cached(p)' PROVE Cached(p) \/ p = p0
    <3>1. Contains(<<p0>> \o lru, p)  BY <2>3, <1>7 DEF Cached
    <3>2. Contains(<<p0>>, p) \/ Contains(lru, p)  BY <3>1, <2>1, <1>6, ConcatContains
    <3> QED BY <3>2, <2>1 DEF Cached
  <2> QED BY <2>1, <2>2, <2>3
<1>12. /\ status' \in [Gtd -> Page] /\ status'[p0] = "CLEAN"
       /\ \A p \in Gtd : p # p0 => status'[p] = status[p]
  BY <1>6, <1>7 DEF Page
<1>13. /\ \A s \in Rid : Queued(s)' <=> Queued(s)
       /\ \A s \in Rid, p \in Gtd : Waits(s, p)' <=> Waits(s, p)
       /\ \A p \in Gtd : ServedNow(p)' <=> p = p0
  BY <1>1, <1>3, <1>5, <1>7 DEF Queued, Waits, ServedNow
<1>14. ControlTypeOK'
  <2>1. hint' \in Int  BY <1>5, <1>6, <1>7
  <2> QED BY <2>1, <1>7, <1>10, <1>11, <1>12 DEF ControlInv, ControlTypeOK
<1>15. RunOK'  BY <1>1, <1>2, <1>7 DEF ControlInv, RunOK
<1>16. SlotsExact'
  <2>1. Cardinality(Holders') = Cardinality(Holders) - req[r].own  BY <1>5, <1>9, <1>10, HoldersLose
  <2> QED BY <2>1, <1>5, <1>6, <1>7, <1>11, HoldersFinite, DemandAssumption DEF ControlInv, SlotsExact
<1>17. ASSUME NEW s \in Rid PROVE Placed(s)'
  <2>1. CASE s # r  BY <2>1, <1>7, <1>10, <1>13, PlacedKept DEF ControlInv
  <2>2. Placed(r)'
    BY <1>1, <1>2, <1>3, <1>7, <1>9, <1>10, <1>13 DEF ControlInv, Placed, InHands
  <2> QED BY <2>1, <2>2
<1>18. ASSUME NEW p \in Gtd PROVE Owned(p)'
  <2>1. CASE p # p0
    <3>1. PICK o : o = owner[p]  OBVIOUS
    <3>2. o # None => o \in Rid /\ InHands(o) /\ o # r
      BY <2>1, <3>1, <1>5 DEF ControlInv, ControlTypeOK, Owned
    <3>3. \A q \in Gtd : owner'[q] = o /\ o # None => q = p
      BY <3>1, <1>7 DEF ControlInv, Owned
    <3>4. o # None => InHands(o)' /\ req'[o].own = req[o].own
      BY <3>2, <1>7, <1>10, <1>13 DEF InHands
    <3>5. Waits(o, p) => Waits(o, p)'  BY <1>7 DEF Waits
    <3>6. IsInjective(pend'[p]) /\ (o = None => pend'[p] = <<>>)
      BY <3>1, <1>7 DEF ControlInv, Owned
    <3>7. ServedNow(p)' <=> ServedNow(p)  BY <2>1, <1>4, <1>13
    <3>8. status[p] = "FLYING" /\ Cached(p)' => Cached(p)  BY <2>1, <1>11
    <3> QED BY <2>1, <3>1, <3>3, <3>4, <3>5, <3>6, <3>7, <3>8, <1>7, <1>12, OwnedKept DEF ControlInv
  <2>2. Owned(p0)'
    <3>1. owner'[p0] = r /\ r # None  BY <1>2, <1>3, <1>7
    <3>2. InHands(owner[p0])'  BY <3>1, <1>1, <1>7 DEF InHands
    <3>3. req'[run'].own = 0  BY <1>1, <1>7, <1>9, <1>10
    <3>4. IsInjective(pend'[p0])  BY <1>7 DEF ControlInv, Owned
    <3>5. \A q \in Gtd : owner'[q] = owner'[p0] => q = p0  BY <1>5, <1>7, <3>1
    <3> QED BY <3>1, <3>2, <3>3, <3>4, <3>5, <1>12, <1>13 DEF Owned
  <2> QED BY <2>1, <2>2
<1> QED BY <1>14, <1>15, <1>16, <1>17, <1>18 DEF ControlInv

(* The first waiter is served: it ends, or goes on with its next address   *)
(* through the retry queue, or it is the request in hand.                  *)
LEMMA ServeKeeps ==
    ASSUME ControlInv, NEW p0 \in Gtd, Serve(p0)
    PROVE  ControlInv'
<1>1. PICK u, r : u = run /\ r = Head(pend[p0])  OBVIOUS
<1>2. pc = "serve" /\ owner[p0] = u /\ pend[p0] # <<>> /\ ServedNow(p0)
  BY <1>1 DEF Serve, ServedNow, Waiting
<1>3. u \in Rid /\ u # None /\ ~Queued(u) /\ u \notin io /\ InHands(u)
  BY <1>1, <1>2, DemandAssumption DEF ControlInv, ControlTypeOK, RunOK, Placed, InHands
<1>4. /\ pend \in [Gtd -> Seq(Rid)] /\ status \in [Gtd -> Page] /\ rq \in Seq(Rid)
      /\ IsInjective(rq) /\ IsInjective(pend[p0])
  BY DEF ControlInv, ControlTypeOK, RunOK, Owned
<1>5. /\ r \in Rid /\ Waits(r, p0) /\ Tail(pend[p0]) \in Seq(Rid)
      /\ \A x : Contains(Tail(pend[p0]), x) => Contains(pend[p0], x)
      /\ \A x : Contains(pend[p0], x) => x = r \/ Contains(Tail(pend[p0]), x)
      /\ IsInjective(Tail(pend[p0])) /\ ~Contains(Tail(pend[p0]), r)
  BY <1>1, <1>2, <1>4, TailContains DEF Waits
<1>6. r \in Busy /\ req[r].st = "MISSR" /\ GtdIdx(Cur(r)) = p0 /\ (r # u => ~InHands(r))
  BY <1>2, <1>5 DEF ControlInv, Placed
<1>7. /\ \A p \in Gtd : owner[p] = u => p = p0
      /\ status[p0] # "FLYING" /\ req[u].own = 0
      /\ \A p \in Gtd : owner[p] # None => InHands(owner[p])
  BY <1>1, <1>2, <1>3 DEF ControlInv, Owned
<1>8. req[r].own = 0
  <2>1. CASE r = u  BY <2>1, <1>7
  <2>2. CASE r # u
    <3>1. \A p \in Gtd : owner[p] # r
      <4>1. r # None  BY <1>5, DemandAssumption
      <4> QED BY <2>2, <4>1, <1>6, <1>7
    <3> QED BY <3>1, <1>5, <1>6, SlotOrNone DEF ControlInv, Placed
  <2> QED BY <2>1, <2>2
<1>9. ~Queued(r) /\ r \notin io
  BY <1>3, <1>6 DEF InHands
<1>10. req' = Advance(req, r)
  BY <1>1 DEF Serve
<1>11. /\ DOMAIN req' = Rid /\ \A s \in Rid : s # r => req'[s] = req[s]
       /\ RequestOK(r)' /\ req'[r].st = "NONE" /\ req'[r].own = 0
       /\ req[r].op = "R" => req'[r] = Idle
       /\ req'[r] # Idle <=> r \in Busy'
  BY <1>6, <1>10, AdvanceKeeps DEF ControlInv
<1>12. /\ lru' = lru /\ owner' = owner /\ hint' = hint /\ io' = io /\ pc' = pc /\ run' = run
       /\ abuf' = abuf /\ pend' = [pend EXCEPT ![p0] = Tail(pend[p0])]
       /\ status' = status \/ status' = [status EXCEPT ![p0] = "DIRTY"]
  BY DEF Serve, histVars
<1>13. rq' = IF req'[r] = Idle \/ r = u THEN rq ELSE Append(rq, r)
  <2>1. CASE Upd(r)  BY <1>1, <2>1 DEF Serve
  <2>2. CASE ~Upd(r)
    <3>1. req[r].op = "R"
      BY <2>2, <1>5, <1>6 DEF ControlInv, ControlTypeOK, RequestOK, Upd, Busy
    <3>2. rq' = rq  BY <1>1, <2>2 DEF Serve
    <3> QED BY <3>1, <3>2, <1>11
  <2> QED BY <2>1, <2>2
<1>14. /\ rq' \in Seq(Rid) /\ IsInjective(rq')
       /\ \A s \in Rid : s # r => (Queued(s)' <=> Queued(s))
       /\ Queued(r)' <=> req'[r] # Idle /\ r # u
  BY <1>4, <1>5, <1>9, <1>13, AppendContains DEF Queued
<1>15. /\ pend' \in [Gtd -> Seq(Rid)] /\ pend'[p0] = Tail(pend[p0])
       /\ \A p \in Gtd : p # p0 => pend'[p] = pend[p]
       /\ status' \in [Gtd -> Page]
       /\ \A p \in Gtd : status'[p] = "FLYING" <=> status[p] = "FLYING"
  BY <1>4, <1>5, <1>7, <1>12 DEF Page
<1>16. /\ \A s \in Rid, p \in Gtd : s # r => (Waits(s, p)' <=> Waits(s, p))
       /\ \A p \in Gtd : ~Waits(r, p)'
  <2>1. \A p \in Gtd : Waits(r, p) => p = p0  BY <1>5, <1>6 DEF ControlInv, Placed
  <2>2. ~Waits(r, p0)'  BY <1>5, <1>15 DEF Waits
  <2>3. \A s \in Rid : s # r => (Waits(s, p0)' <=> Waits(s, p0))  BY <1>5, <1>15 DEF Waits
  <2>4. \A s \in Rid, p \in Gtd : p # p0 => (Waits(s, p)' <=> Waits(s, p))  BY <1>15 DEF Waits
  <2> QED BY <2>1, <2>2, <2>3, <2>4, <1>5
<1>17. \A s \in Rid : s # r => SameRequest(s)  BY <1>11 DEF SameRequest
<1>18. ControlTypeOK'
  <2>1. \A s \in Rid : RequestOK(s)'  BY <1>5, <1>11, OthersWellFormed DEF ControlInv
  <2> QED BY <2>1, <1>11, <1>12, <1>14, <1>15 DEF ControlInv, ControlTypeOK
<1>19. RunOK'  BY <1>2, <1>12, <1>14 DEF ControlInv, RunOK
<1>20. SlotsExact'
  <2>1. Holders' = Holders  BY <1>8, <1>11, HoldersSame
  <2> QED BY <2>1, <1>12 DEF ControlInv, SlotsExact
<1>21. ASSUME NEW s \in Rid PROVE Placed(s)'
  <2>1. CASE s # r  BY <2>1, <1>12, <1>14, <1>16, <1>17, PlacedKept DEF ControlInv
  <2>2. Placed(r)'
    <3>1. r \notin io'  BY <1>9, <1>12
    <3>2. Queued(r)' => run' # r /\ r \in Busy'  BY <1>1, <1>11, <1>12, <1>14
    <3>3. r \in Busy' => InHands(r)'  BY <1>1, <1>11, <1>12, <1>14 DEF InHands
    <3> QED BY <3>1, <3>2, <3>3, <1>11, <1>16 DEF Placed
  <2> QED BY <2>1, <2>2
<1>22. ASSUME NEW p \in Gtd PROVE Owned(p)'
  <2>1. PICK o : o = owner[p]  OBVIOUS
  <2>2. o # None => o \in Rid /\ InHands(o) /\ (o = r => r = u)
    BY <2>1, <1>6, <1>7 DEF ControlInv, ControlTypeOK
  <2>3. \A q \in Gtd : owner'[q] = o /\ o # None => q = p
    BY <2>1, <1>12 DEF ControlInv, Owned
  <2>4. o # None => InHands(o)'
    BY <2>2, <1>1, <1>12, <1>14 DEF InHands
  <2>5. o # None => req'[o].own = req[o].own
    BY <2>2, <1>8, <1>11
  <2>6. ServedNow(p)' <=> ServedNow(p)  BY <1>12 DEF ServedNow
  <2>7. Waits(o, p) => Waits(o, p)' \/ ServedNow(p)'
    <3>1. o # None /\ o = r => ServedNow(p)  BY <2>1, <2>2, <1>1, <1>2 DEF ServedNow
    <3>2. o = None => ~Waits(o, p)
      BY <2>1, EmptyContains DEF ControlInv, Owned, Waits
    <3> QED BY <3>1, <3>2, <2>2, <2>6, <1>16
  <2>8. IsInjective(pend'[p])  BY <1>5, <1>15 DEF ControlInv, Owned
  <2>9. o = None => pend'[p] = <<>>
    BY <2>1, <1>2, <1>3, <1>15 DEF ControlInv, Owned
  <2>10. status[p] = "FLYING" /\ Cached(p)' => Cached(p)  BY <1>12 DEF Cached
  <2>11. owner'[p] = o  BY <2>1, <1>12
  <2> QED BY <2>1, <2>3, <2>4, <2>5, <2>6, <2>7, <2>8, <2>9, <2>10, <2>11, <1>15, OwnedKept
          DEF ControlInv
<1> QED BY <1>18, <1>19, <1>20, <1>21, <1>22 DEF ControlInv

(* The last waiter has been served: the page is nobody's any more.         *)
LEMMA ServedKeeps ==
    ASSUME ControlInv, NEW p0 \in Gtd, Served(p0)
    PROVE  ControlInv'
<1>1. PICK u : u = run  OBVIOUS
<1>2. pc = "serve" /\ owner[p0] = u /\ pend[p0] = <<>> /\ ServedNow(p0)
  BY <1>1 DEF Served, ServedNow, Waiting
<1>3. u \in Rid /\ u # None /\ ~Queued(u) /\ u \notin io /\ InHands(u)
  BY <1>1, <1>2, DemandAssumption DEF ControlInv, ControlTypeOK, RunOK, Placed, InHands
<1>4. /\ \A p \in Gtd : owner[p] = u => p = p0
      /\ status[p0] # "FLYING" /\ req[u].own = 0
  BY <1>1, <1>2, <1>3 DEF ControlInv, Owned
<1>5. \A p \in Gtd : ~Waits(u, p)
  <2>1. ~Waits(u, p0)  BY <1>2, EmptyContains DEF Waits
  <2> QED BY <2>1, <1>3, <1>4 DEF ControlInv, Placed
<1>6. /\ lru' = lru /\ status' = status /\ pend' = pend /\ hint' = hint /\ req' = req /\ io' = io
      /\ rq' = rq /\ abuf' = abuf /\ owner' = [owner EXCEPT ![p0] = None]
      /\ \/ run' = None /\ pc' = "idle" /\ req[u] = Idle
         \/ run' = u /\ pc' = "map" /\ req[u] # Idle
  BY <1>1 DEF Served, histVars
<1>7. /\ owner \in [Gtd -> Rid \cup {None}] /\ owner' \in [Gtd -> Rid \cup {None}]
      /\ owner'[p0] = None /\ \A p \in Gtd : p # p0 => owner'[p] = owner[p]
  BY <1>6 DEF ControlInv, ControlTypeOK
<1>8. /\ \A s \in Rid : Queued(s)' <=> Queued(s)
      /\ \A s \in Rid, p \in Gtd : Waits(s, p)' <=> Waits(s, p)
      /\ \A s \in Rid : SameRequest(s) /\ (s \in Busy' <=> s \in Busy)
      /\ \A s \in Rid : s # u => (run' = s <=> run = s)
      /\ \A p \in Gtd : ~ServedNow(p)'
      /\ req[u] # Idle <=> u \in Busy
  BY <1>1, <1>3, <1>6, SlotOrNone, DemandAssumption
     DEF ControlInv, Queued, Waits, SameRequest, Busy, ServedNow
<1>9. ControlTypeOK'
  <2>1. run' \in Rid \cup {None} /\ pc' \in {"idle", "map"}  BY <1>3, <1>6
  <2> QED BY <2>1, <1>6, <1>7 DEF ControlInv, ControlTypeOK, RequestOK
<1>10. RunOK'  BY <1>3, <1>6, <1>8 DEF ControlInv, RunOK
<1>11. SlotsExact'
  <2>1. Holders' = Holders  BY <1>6, HoldersSame
  <2> QED BY <2>1, <1>6 DEF ControlInv, SlotsExact
<1>12. ASSUME NEW s \in Rid PROVE Placed(s)'
  <2>1. CASE s # u
    <3>1. \A p \in Gtd : owner'[p] = s <=> owner[p] = s  BY <2>1, <1>2, <1>7, DemandAssumption
    <3> QED BY <2>1, <3>1, <1>6, <1>8, PlacedKept DEF ControlInv
  <2>2. Placed(u)'
    <3>1. u \in Busy => run' = u  BY <1>6, <1>8
    <3>2. u \in Busy => req[u].st # "MISSR" /\ req[u].st # "EVICTIONW"
      BY <1>3, <1>4, <1>5 DEF ControlInv, Placed
    <3> QED BY <3>1, <3>2, <1>3, <1>4, <1>5, <1>6, <1>8 DEF Placed, InHands
  <2> QED BY <2>1, <2>2
<1>13. ASSUME NEW p \in Gtd PROVE Owned(p)'
  <2>1. CASE p # p0
    <3>1. PICK o : o = owner[p]  OBVIOUS
    <3>2. o # None => o \in Rid /\ InHands(o) /\ o # u
      BY <2>1, <3>1, <1>4, <1>7 DEF ControlInv, Owned
    <3>3. \A q \in Gtd : owner'[q] = o /\ o # None => q = p
      BY <3>1, <1>7 DEF ControlInv, Owned
    <3>4. o # None => InHands(o)' /\ req'[o].own = req[o].own
      BY <3>2, <1>6, <1>8 DEF InHands
    <3>5. Waits(o, p) => Waits(o, p)'  BY <1>6 DEF Waits
    <3>6. IsInjective(pend'[p]) /\ (o = None => pend'[p] = <<>>)
      BY <3>1, <1>6 DEF ControlInv, Owned
    <3>7. o # None => ~ServedNow(p)  BY <3>1, <3>2, <1>1 DEF ServedNow
    <3>8. status[p] = "FLYING" /\ Cached(p)' => Cached(p)  BY <1>6 DEF Cached
    <3> QED BY <2>1, <3>1, <3>3, <3>4, <3>5, <3>6, <3>7, <3>8, <1>6, <1>7, <1>8, OwnedKept
            DEF ControlInv
  <2>2. Owned(p0)'
    BY <1>2, <1>4, <1>6, <1>7 DEF ControlInv, Owned
  <2> QED BY <2>1, <2>2
<1> QED BY <1>9, <1>10, <1>11, <1>12, <1>13 DEF ControlInv
-----------------------------------------------------------------------------
(* The other steps.                                                        *)

(* The device is done with a request: it goes to the retry queue.          *)
LEMMA MapIoDoneKeeps ==
    ASSUME ControlInv, NEW r \in Rid, MapIoDone(r)
    PROVE  ControlInv'
<1>1. /\ r \in io /\ run # r /\ r \in Busy /\ ~Queued(r) /\ rq \in Seq(Rid) /\ IsInjective(rq)
  BY DEF MapIoDone, ControlInv, ControlTypeOK, RunOK, Placed
<1>2. /\ lru' = lru /\ status' = status /\ pend' = pend /\ owner' = owner /\ hint' = hint
      /\ req' = req /\ pc' = pc /\ run' = run /\ abuf' = abuf
      /\ io' = io \ {r} /\ rq' = Append(rq, r)
  BY DEF MapIoDone, histVars
<1>3. /\ rq' \in Seq(Rid) /\ IsInjective(rq') /\ Queued(r)' /\ r \notin io'
      /\ \A s \in Rid : s # r => (Queued(s)' <=> Queued(s)) /\ (s \in io' <=> s \in io)
  BY <1>1, <1>2, AppendContains DEF Queued
<1>4. /\ \A s \in Rid, p \in Gtd : Waits(s, p)' <=> Waits(s, p)
      /\ \A s \in Rid : SameRequest(s) /\ (s \in Busy' <=> s \in Busy)
      /\ \A s \in Rid : InHands(s)' <=> InHands(s)
      /\ \A p \in Gtd : (ServedNow(p)' <=> ServedNow(p)) /\ (Cached(p)' <=> Cached(p))
      /\ GtdIdx(Cur(r))' = GtdIdx(Cur(r))
  BY <1>1, <1>2, <1>3 DEF Waits, SameRequest, Busy, InHands, ServedNow, Cached, Cur, GtdIdx
<1>5. ControlTypeOK'
  <2>1. io' \subseteq Rid  BY <1>2 DEF ControlInv, ControlTypeOK
  <2> QED BY <2>1, <1>2, <1>3 DEF ControlInv, ControlTypeOK, RequestOK
<1>6. RunOK'  BY <1>2, <1>3 DEF ControlInv, RunOK, Busy
<1>7. SlotsExact'
  <2>1. Holders' = Holders  BY <1>2, HoldersSame
  <2> QED BY <2>1, <1>2 DEF ControlInv, SlotsExact
<1>8. ASSUME NEW s \in Rid PROVE Placed(s)'
  <2>1. CASE s # r  BY <2>1, <1>2, <1>3, <1>4, PlacedKept DEF ControlInv
  <2>2. CASE s = r
    <3>1. Placed(r)  BY DEF ControlInv
    <3>2. Placed(r)'  BY <3>1, <1>1, <1>2, <1>3, <1>4 DEF Placed
    <3> QED BY <3>2, <2>2
  <2> QED BY <2>1, <2>2
<1>9. ASSUME NEW p \in Gtd PROVE Owned(p)'
  <2>1. PICK o : o = owner[p]  OBVIOUS
  <2>2. o # None => o \in Rid /\ InHands(o)
    BY <2>1 DEF ControlInv, ControlTypeOK, Owned
  <2>3. Owned(p)  BY DEF ControlInv
  <2>4. o # None => InHands(o)'  BY <2>2, <1>4
  <2>5. Waits(o, p) => Waits(o, p)'  BY <1>2 DEF Waits
  <2>6. \A q \in Gtd : owner'[q] = o /\ o # None => q = p  BY <2>1, <2>3, <1>2 DEF Owned
  <2>7. IsInjective(pend'[p]) /\ (o = None => pend'[p] = <<>>)  BY <2>1, <2>3, <1>2 DEF Owned
  <2> QED BY <2>1, <2>3, <2>4, <2>5, <2>6, <2>7, <1>2, <1>4, OwnedKept
<1> QED BY <1>5, <1>6, <1>7, <1>8, <1>9 DEF ControlInv

(* The head of the retry queue is taken in hand.                           *)
LEMMA ResumeKeeps ==
    ASSUME ControlInv, Resume
    PROVE  ControlInv'
<1>1. PICK r : r = Head(rq)  OBVIOUS
<1>2. /\ pc = "idle" /\ run = None /\ rq # <<>> /\ rq \in Seq(Rid) /\ IsInjective(rq)
  BY DEF Resume, ControlInv, ControlTypeOK, RunOK
<1>3. /\ r \in Rid /\ Tail(rq) \in Seq(Rid) /\ IsInjective(Tail(rq)) /\ Queued(r)
      /\ ~Contains(Tail(rq), r)
      /\ \A x : Contains(Tail(rq), x) => Contains(rq, x)
      /\ \A x : Contains(rq, x) => x = r \/ Contains(Tail(rq), x)
  BY <1>1, <1>2, TailContains DEF Queued
<1>4. /\ lru' = lru /\ status' = status /\ pend' = pend /\ owner' = owner /\ hint' = hint
      /\ req' = req /\ pc' = "map" /\ run' = r /\ abuf' = abuf
      /\ io' = io /\ rq' = Tail(rq)
  BY <1>1 DEF Resume, cacheVars
<1>5. r \notin io /\ r \in Busy /\ r # None
  BY <1>3, DemandAssumption DEF ControlInv, Placed
<1>6. /\ ~Queued(r)' /\ InHands(r) /\ InHands(r)'
      /\ \A s \in Rid : s # r => (Queued(s)' <=> Queued(s)) /\ (run' = s <=> run = s)
  BY <1>2, <1>3, <1>4, DemandAssumption DEF Queued, InHands
<1>7. /\ \A s \in Rid, p \in Gtd : Waits(s, p)' <=> Waits(s, p)
      /\ \A s \in Rid : SameRequest(s) /\ (s \in Busy' <=> s \in Busy)
      /\ \A s \in Rid : InHands(s)' <=> InHands(s)
      /\ \A p \in Gtd : ~ServedNow(p)' /\ ~ServedNow(p) /\ (Cached(p)' <=> Cached(p))
      /\ GtdIdx(Cur(r))' = GtdIdx(Cur(r))
  BY <1>2, <1>4, <1>6 DEF Waits, SameRequest, Busy, InHands, ServedNow, Cached, Cur, GtdIdx
<1>8. ControlTypeOK'
  BY <1>3, <1>4 DEF ControlInv, ControlTypeOK, RequestOK
<1>9. RunOK'  BY <1>3, <1>4, <1>5, <1>7 DEF RunOK
<1>10. SlotsExact'
  <2>1. Holders' = Holders  BY <1>4, HoldersSame
  <2> QED BY <2>1, <1>4 DEF ControlInv, SlotsExact
<1>11. ASSUME NEW s \in Rid PROVE Placed(s)'
  <2>1. CASE s # r  BY <2>1, <1>4, <1>6, <1>7, PlacedKept DEF ControlInv
  <2>2. CASE s = r
    <3>1. Placed(r)  BY <1>3 DEF ControlInv
    <3>2. Placed(r)'  BY <3>1, <1>3, <1>4, <1>5, <1>6, <1>7 DEF Placed
    <3> QED BY <3>2, <2>2
  <2> QED BY <2>1, <2>2
<1>12. ASSUME NEW p \in Gtd PROVE Owned(p)'
  <2>1. PICK o : o = owner[p]  OBVIOUS
  <2>2. o # None => o \in Rid /\ InHands(o)
    BY <2>1 DEF ControlInv, ControlTypeOK, Owned
  <2>3. Owned(p)  BY DEF ControlInv
  <2>4. o # None => InHands(o)'  BY <2>2, <1>7
  <2>5. Waits(o, p) => Waits(o, p)'  BY <1>4 DEF Waits
  <2>6. \A q \in Gtd : owner'[q] = o /\ o # None => q = p  BY <2>1, <2>3, <1>4 DEF Owned
  <2>7. IsInjective(pend'[p]) /\ (o = None => pend'[p] = <<>>)  BY <2>1, <2>3, <1>4 DEF Owned
  <2> QED BY <2>1, <2>3, <2>4, <2>5, <2>6, <2>7, <1>4, <1>7, OwnedKept
<1> QED BY <1>8, <1>9, <1>10, <1>11, <1>12 DEF ControlInv

(* A new request is taken in hand; nothing remembers the one that used its *)
(* place before.                                                           *)
LEMMA StartKeeps ==
    ASSUME ControlInv, NEW r \in Rid, NEW op \in {"R", "W", "D"}, NEW lba \in Seq(Lba), NEW phys,
           lba # <<>>, op = "R" => Len(lba) = 1, Start(r, op, lba, phys),
           pc \in {"idle", "alloc"}, UNCHANGED <<cacheVars, io, rq>>, abuf' \in Seq(Lba)
    PROVE  ControlInv'
<1>1. r \notin Busy /\ req[r] = Idle /\ run = None /\ r # None /\ DOMAIN req = Rid
  BY SlotOrNone, DemandAssumption DEF Start, ControlInv, ControlTypeOK, RunOK
<1>2. ~Queued(r) /\ r \notin io /\ ~InHands(r) /\ \A p \in Gtd : ~Waits(r, p)
  BY <1>1 DEF ControlInv, Placed, InHands
<1>3. \A p \in Gtd : owner[p] # r  BY <1>1, <1>2 DEF ControlInv, Owned
<1>4. /\ lru' = lru /\ status' = status /\ pend' = pend /\ owner' = owner /\ hint' = hint
      /\ pc' = "map" /\ run' = r /\ io' = io /\ rq' = rq
  BY DEF Start, cacheVars
<1>5. PICK n : n = [Idle EXCEPT !.op = op, !.lba = lba, !.phys = phys]  OBVIOUS
<1>6. /\ DOMAIN n = DOMAIN Idle /\ n.op = op /\ n.lba = lba /\ n.idx = 1
      /\ n.st = "NONE" /\ n.own = 0
  BY <1>5 DEF Idle
<1>7. DOMAIN req' = Rid /\ req'[r] = n /\ \A s \in Rid : s # r => req'[s] = req[s]
  BY <1>1, <1>5 DEF Start
<1>8. RequestOK(r)' /\ r \in Busy'
  <2>1. Len(lba) \in Nat \ {0}  BY LenProperties, EmptySeq
  <2>2. 1 \in 1 .. Len(lba)  BY <2>1
  <2> QED BY <2>2, <1>6, <1>7 DEF RequestOK, Busy
<1>9. /\ \A s \in Rid : Queued(s)' <=> Queued(s)
      /\ \A s \in Rid, p \in Gtd : Waits(s, p)' <=> Waits(s, p)
      /\ \A s \in Rid : s # r => SameRequest(s) /\ (run' = s <=> run = s)
      /\ \A p \in Gtd : ~ServedNow(p)' /\ ~ServedNow(p) /\ (Cached(p)' <=> Cached(p))
  BY <1>1, <1>4, <1>7, DemandAssumption DEF Queued, Waits, SameRequest, ServedNow, Cached
<1>10. ControlTypeOK'
  <2>1. \A s \in Rid : RequestOK(s)'  BY <1>7, <1>8, OthersWellFormed DEF ControlInv
  <2> QED BY <2>1, <1>4, <1>7 DEF ControlInv, ControlTypeOK
<1>11. RunOK'  BY <1>1, <1>4, <1>8 DEF ControlInv, RunOK
<1>12. SlotsExact'
  <2>1. \A s \in Rid : req'[s].own = req[s].own  BY <1>1, <1>6, <1>7, IdleFields
  <2> QED BY <2>1, <1>4, HoldersSame DEF ControlInv, SlotsExact
<1>13. ASSUME NEW s \in Rid PROVE Placed(s)'
  <2>1. CASE s # r  BY <2>1, <1>4, <1>9, PlacedKept DEF ControlInv
  <2>2. Placed(r)'  BY <1>2, <1>4, <1>6, <1>7, <1>9 DEF Placed, InHands
  <2> QED BY <2>1, <2>2
<1>14. ASSUME NEW p \in Gtd PROVE Owned(p)'
  <2>1. PICK o : o = owner[p]  OBVIOUS
  <2>2. o # None => o \in Rid /\ InHands(o) /\ o # r
    BY <2>1, <1>3 DEF ControlInv, ControlTypeOK, Owned
  <2>3. Owned(p)  BY DEF ControlInv
  <2>4. o # None => InHands(o)' /\ req'[o].own = req[o].own
    BY <2>2, <1>4, <1>7, <1>9 DEF InHands
  <2>5. Waits(o, p) => Waits(o, p)'  BY <1>4 DEF Waits
  <2>6. \A q \in Gtd : owner'[q] = o /\ o # None => q = p  BY <2>1, <2>3, <1>4 DEF Owned
  <2>7. IsInjective(pend'[p]) /\ (o = None => pend'[p] = <<>>)  BY <2>1, <2>3, <1>4 DEF Owned
  <2> QED BY <2>1, <2>3, <2>4, <2>5, <2>6, <2>7, <1>4, <1>9, OwnedKept
<1> QED BY <1>10, <1>11, <1>12, <1>13, <1>14 DEF ControlInv

(* A step that moves no request, with none in hand.                        *)
LEMMA QuietKeeps ==
    ASSUME ControlInv, ControlTypeOK', pc \notin {"map", "serve"}, pc' \notin {"map", "serve"},
           UNCHANGED <<lru, pend, owner, hint, io, rq, run>>,
           \A s \in Rid : SameRequest(s),
           \A p \in Gtd : status'[p] = "FLYING" <=> status[p] = "FLYING"
    PROVE  ControlInv'
<1>1. /\ \A s \in Rid : Queued(s)' <=> Queued(s)
      /\ \A s \in Rid, p \in Gtd : Waits(s, p)' <=> Waits(s, p)
      /\ \A s \in Rid : InHands(s)' <=> InHands(s)
      /\ \A p \in Gtd : ~ServedNow(p)' /\ ~ServedNow(p) /\ (Cached(p)' <=> Cached(p))
      /\ \A s \in Rid : req'[s].own = req[s].own
  BY DEF Queued, Waits, InHands, ServedNow, Cached, SameRequest
<1>2. RunOK'  BY DEF ControlInv, RunOK
<1>3. SlotsExact'
  <2>1. Holders' = Holders  BY <1>1, HoldersSame
  <2> QED BY <2>1 DEF ControlInv, SlotsExact
<1>4. ASSUME NEW s \in Rid PROVE Placed(s)'
  BY <1>1, PlacedKept DEF ControlInv
<1>5. ASSUME NEW p \in Gtd PROVE Owned(p)'
  <2>1. PICK o : o = owner[p]  OBVIOUS
  <2>2. o # None => o \in Rid /\ InHands(o)
    BY <2>1 DEF ControlInv, ControlTypeOK, Owned
  <2>3. Owned(p)  BY DEF ControlInv
  <2>4. o # None => InHands(o)' /\ req'[o].own = req[o].own
    BY <2>2, <1>1
  <2>5. Waits(o, p) => Waits(o, p)'  BY DEF Waits
  <2>6. \A q \in Gtd : owner'[q] = o /\ o # None => q = p  BY <2>1, <2>3 DEF Owned
  <2>7. IsInjective(pend'[p]) /\ (o = None => pend'[p] = <<>>)  BY <2>1, <2>3 DEF Owned
  <2>8. owner'[p] = o /\ (status[p] = "FLYING" /\ Cached(p)' => Cached(p))  BY <2>1, <1>1
  <2> QED BY <2>1, <2>3, <2>4, <2>5, <2>6, <2>7, <2>8, <1>1, OwnedKept
<1> QED BY <1>2, <1>3, <1>4, <1>5 DEF ControlInv

(* Patching the pages being read changes nothing else of their readers.    *)
LEMMA PatchKeeps ==
    ASSUME ControlInv, pc = "get_ppa", NEW moved, NEW at, req' = PatchFlying(moved, at)
    PROVE  /\ DOMAIN req' = Rid
           /\ \A s \in Rid : SameRequest(s) /\ RequestOK(s)'
<1>1. DOMAIN req' = Rid  BY DEF PatchFlying
<1>2. ASSUME NEW s \in Rid PROVE SameRequest(s) /\ RequestOK(s)'
  <2>1. RequestOK(s)  BY DEF ControlInv, ControlTypeOK
  <2>2. CASE \E p \in Gtd : owner[p] = s
    <3>1. PICK b : req'[s] = [req[s] EXCEPT !.buf = b]  BY <2>2 DEF PatchFlying
    <3>2. s # None /\ run = None  BY DemandAssumption DEF ControlInv, ControlTypeOK, RunOK
    <3>3. InHands(s)  BY <2>2, <3>2 DEF ControlInv, Owned
    <3>4. req[s].op # "none"  BY <3>2, <3>3 DEF ControlInv, Placed, InHands, Busy
    <3>5. DOMAIN req'[s] = DOMAIN req[s] /\ SameRequest(s)
      BY <2>1, <3>1, IdleFields DEF RequestOK, SameRequest
    <3>6. /\ req'[s].op = req[s].op /\ req'[s].lba = req[s].lba /\ req'[s].idx = req[s].idx
          /\ req'[s].st = req[s].st /\ req'[s].own = req[s].own
      BY <3>5 DEF SameRequest
    <3> QED BY <2>1, <3>4, <3>5, <3>6 DEF RequestOK
  <2>3. CASE ~\E p \in Gtd : owner[p] = s
    <3>1. req'[s] = req[s]  BY <2>3 DEF PatchFlying
    <3> QED BY <3>1, <2>1 DEF RequestOK, SameRequest
  <2> QED BY <2>2, <2>3
<1> QED BY <1>1, <1>2

(* A data collection touches cached pages and pages being read, and moves  *)
(* no request.                                                             *)
LEMMA DoGcKeeps ==
    ASSUME ControlInv, DoGc
    PROVE  ControlInv'
<1>1. /\ pc = "get_ppa" /\ pc' = "alloc"
      /\ UNCHANGED <<lru, pend, owner, hint, io, rq, run>> /\ abuf' = abuf
  BY DEF DoGc
<1>2. status \in [Gtd -> Page]  BY DEF ControlInv, ControlTypeOK
<1>3. /\ DOMAIN req' = Rid /\ \A s \in Rid : SameRequest(s) /\ RequestOK(s)'
      /\ status' \in [Gtd -> Page]
      /\ \A p \in Gtd : status'[p] = "FLYING" <=> status[p] = "FLYING"
  <2>1. CASE UNCHANGED <<status, req>>
    BY <2>1, <1>2 DEF ControlInv, ControlTypeOK, SameRequest, RequestOK
  <2>2. CASE \E v, mv, at : Collect(v, mv, at)
    <3>0. PICK v, mv, at : Collect(v, mv, at)  BY <2>2
    <3>1. DOMAIN req' = Rid /\ \A s \in Rid : SameRequest(s) /\ RequestOK(s)'
      <4>1. req' = PatchFlying(DOMAIN at, at)  BY <3>0 DEF Collect
      <4> QED BY <4>1, <1>1, PatchKeeps
    <3>2. PICK hit \in SUBSET {l \in DOMAIN at : Cached(GtdIdx(l))} :
              status' = [p \in Gtd |-> IF \E l \in hit : GtdIdx(l) = p THEN "DIRTY" ELSE status[p]]
      BY <3>0 DEF Collect
    <3>3. \A p \in Gtd : Cached(p) => status[p] # "FLYING"  BY DEF ControlInv, Owned
    <3>4. status' \in [Gtd -> Page]  BY <1>2, <3>2 DEF Page
    <3>5. \A p \in Gtd : status'[p] = "FLYING" <=> status[p] = "FLYING"  BY <3>2, <3>3
    <3> QED BY <3>1, <3>4, <3>5
  <2>3. UNCHANGED <<status, req>> \/ \E v, mv, at : Collect(v, mv, at)
    BY DEF DoGc
  <2> QED BY <2>1, <2>2, <2>3
<1>4. ControlTypeOK'
  BY <1>1, <1>3 DEF ControlInv, ControlTypeOK
<1> QED BY <1>1, <1>3, <1>4, QuietKeeps

(* The steps of the buffer: nothing but the buffer and the place in        *)
(* page_write changes.                                                     *)
LEMMA BufferKeeps ==
    ASSUME ControlInv, SkipGc \/ (\E k \in Lba : PageWrite(k) \/ RemoveBuffered(k))
    PROVE  ControlInv'
<1>1. /\ pc \notin {"map", "serve"} /\ pc' \in {"idle", "get_ppa", "alloc"}
      /\ UNCHANGED <<lru, pend, owner, hint, io, rq, run>> /\ status' = status /\ req' = req
  BY DEF SkipGc, PageWrite, RemoveBuffered, HostTurn, cacheVars, ControlInv, ControlTypeOK
<1>2. abuf' \in Seq(Lba) /\ (pc' \in {"get_ppa", "alloc"} => abuf' # <<>>)
  <2>1. abuf \in Seq(Lba)  BY DEF ControlInv, ControlTypeOK
  <2>2. CASE SkipGc  BY <2>1, <2>2 DEF SkipGc, ControlInv, ControlTypeOK
  <2>3. CASE \E k \in Lba : PageWrite(k)
    <3>0. PICK k \in Lba : PageWrite(k)  BY <2>3
    <3>1. abuf' \in Seq(Lba)
      <4>1. Append(abuf, k) \in Seq(Lba)  BY <2>1, AppendProperties
      <4> QED BY <2>1, <3>0, <4>1 DEF PageWrite
    <3>2. pc' \in {"get_ppa", "alloc"} => Len(abuf') = L2PGAP  BY <3>0 DEF PageWrite
    <3>3. abuf' = <<>> => Len(abuf') = 0  OBVIOUS
    <3> QED BY <3>1, <3>2, <3>3, DemandAssumption
  <2>4. CASE \E k \in Lba : RemoveBuffered(k)
    <3>0. PICK k \in Lba : RemoveBuffered(k)  BY <2>4
    <3>1. PICK i \in DOMAIN abuf : abuf' = RemoveAt(abuf, IF i = Len(abuf) THEN i ELSE i + 1)
      BY <3>0 DEF RemoveBuffered
    <3>2. PICK j : j = IF i = Len(abuf) THEN i ELSE i + 1  OBVIOUS
    <3>3. Len(abuf) \in Nat /\ DOMAIN abuf = 1 .. Len(abuf)  BY <2>1, LenProperties
    <3>4. j \in 1 .. Len(abuf)  BY <3>1, <3>2, <3>3
    <3>5. /\ 1 \in 1 .. Len(abuf) + 1 /\ j - 1 \in 1 - 1 .. Len(abuf)
          /\ j + 1 \in 1 .. Len(abuf) + 1 /\ Len(abuf) \in (j + 1) - 1 .. Len(abuf)
      BY <3>3, <3>4
    <3>6. SubSeq(abuf, 1, j - 1) \in Seq(Lba) /\ SubSeq(abuf, j + 1, Len(abuf)) \in Seq(Lba)
      BY <2>1, <3>5, SubSeqContains
    <3>7. abuf' \in Seq(Lba)  BY <3>1, <3>2, <3>6, ConcatProperties DEF RemoveAt
    <3>8. pc' = "idle"  BY <3>0 DEF RemoveBuffered, HostTurn
    <3> QED BY <3>7, <3>8
  <2> QED BY <2>2, <2>3, <2>4
<1>3. ControlTypeOK'  BY <1>1, <1>2 DEF ControlInv, ControlTypeOK, RequestOK
<1>4. \A s \in Rid : SameRequest(s)  BY <1>1 DEF SameRequest
<1> QED BY <1>1, <1>3, <1>4, QuietKeeps

(* A dump and load of a quiescent system starts with empty books.          *)
LEMMA DumpLoadKeeps ==
    ASSUME ControlInv, DumpLoad
    PROVE  ControlInv'
<1>1. /\ pc = "idle" /\ rq = <<>> /\ Busy = {} /\ run = None
      /\ lru' = <<>> /\ status' = [p \in Gtd |-> "POPULATE"] /\ hint' = 0
      /\ pend' = pend /\ owner' = owner /\ req' = req /\ io' = io /\ rq' = rq
      /\ pc' = pc /\ run' = run /\ abuf' = abuf
  BY DEF DumpLoad, HostTurn, ControlInv, RunOK
<1>2. /\ \A s \in Rid : req[s] = Idle /\ s \notin Busy /\ s \notin io /\ ~Queued(s) /\ ~InHands(s)
      /\ \A s \in Rid, p \in Gtd : ~Waits(s, p)
  BY <1>1, SlotOrNone, DemandAssumption DEF ControlInv, Placed, InHands
<1>3. \A p \in Gtd : owner[p] = None /\ pend[p] = <<>>
  BY <1>2 DEF ControlInv, ControlTypeOK, Owned
<1>4. ControlTypeOK'
  <2>1. status' \in [Gtd -> Page] /\ lru' \in Seq(Gtd) /\ hint' \in Int  BY <1>1 DEF Page
  <2> QED BY <2>1, <1>1 DEF ControlInv, ControlTypeOK, RequestOK
<1>5. RunOK'  BY <1>1 DEF ControlInv, RunOK, Busy
<1>6. SlotsExact'
  <2>1. Holders' = {}  BY <1>1, <1>2, IdleFields DEF Holders
  <2>2. Len(lru') = 0  BY <1>1
  <2> QED BY <2>1, <2>2, <1>1, FS_EmptySet, DemandAssumption DEF SlotsExact
<1>7. ASSUME NEW s \in Rid PROVE Placed(s)'
  <2>1. ~Queued(s)' /\ s \notin io' /\ s \notin Busy' /\ \A p \in Gtd : ~Waits(s, p)'
    BY <1>1, <1>2 DEF Queued, Busy, Waits
  <2> QED BY <2>1 DEF Placed
<1>8. ASSUME NEW p \in Gtd PROVE Owned(p)'
  <2>1. owner'[p] = None /\ pend'[p] = <<>> /\ status'[p] # "FLYING"  BY <1>1, <1>3
  <2> QED BY <2>1 DEF Owned, IsInjective
<1> QED BY <1>4, <1>5, <1>6, <1>7, <1>8 DEF ControlInv

(* The entry points that start a request.                                  *)
LEMMA EntryKeeps ==
    ASSUME ControlInv, NEW r \in Rid,
           AssignPage(r) \/ (\E k \in Lba : PageRead(r, k) \/ PageRemove(r, k))
    PROVE  ControlInv'
<1>1. abuf \in Seq(Lba) /\ (pc = "alloc" => abuf # <<>>)  BY DEF ControlInv, ControlTypeOK
<1>2. CASE AssignPage(r)
  <2>1. PICK phys : Start(r, "W", abuf, phys)  BY <1>2 DEF AssignPage
  <2>2. pc = "alloc" /\ abuf' = <<>> /\ UNCHANGED <<cacheVars, io, rq>>  BY <1>2 DEF AssignPage
  <2>3. abuf' \in Seq(Lba)  BY <2>2
  <2> QED BY <2>1, <2>2, <2>3, <1>1, StartKeeps
<1>3. CASE \E k \in Lba : PageRead(r, k) \/ PageRemove(r, k)
  <2>1. PICK k \in Lba, op \in {"R", "D"} : Start(r, op, <<k>>, <<None>>)
    BY <1>3 DEF PageRead, PageRemove
  <2>2. pc = "idle" /\ abuf' = abuf /\ UNCHANGED <<cacheVars, io, rq>>
    BY <1>3 DEF PageRead, PageRemove, HostTurn
  <2>3. <<k>> \in Seq(Lba) /\ <<k>> # <<>> /\ Len(<<k>>) = 1  OBVIOUS
  <2> QED BY <2>1, <2>2, <2>3, <1>1, StartKeeps
<1> QED BY <1>2, <1>3

(* cache_traverse_state, whichever way the request in hand goes.           *)
LEMMA TraverseKeeps ==
    ASSUME ControlInv, Traverse
    PROVE  ControlInv'
<1>1. /\ pc = "map" /\ run \in Rid /\ run \in Busy /\ g \in Gtd
      /\ lru \in Seq(Gtd) /\ hint \in Int /\ Len(lru) \in Nat /\ CachePages \in Nat
      /\ Len(lru) + hint <= CachePages /\ req[run].own \in {0, 1}
  <2>1. pc = "map" /\ run \in Busy /\ run \in Rid  BY DEF Traverse, ControlInv, RunOK, Busy
  <2>2. g \in Gtd  BY <2>1, CurrentPage DEF ControlInv, g
  <2>3. lru \in Seq(Gtd) /\ hint \in Int /\ Len(lru) \in Nat
    BY LenProperties DEF ControlInv, ControlTypeOK
  <2>4. req[run].own \in {0, 1}  BY <2>1, SlotOrNone DEF ControlInv
  <2> QED BY <2>1, <2>2, <2>3, <2>4, DemandAssumption DEF ControlInv, SlotsExact
<1>2. Cached(g) => status[g] # "FLYING"  BY <1>1 DEF ControlInv, Owned
<1>3. CASE req[run].st = "NONE"
  <2>1. req[run].own = 0  BY <1>1, <1>3 DEF ControlInv, Placed
  <2>2. ~SlotFull => /\ Len(lru) + hint - req[run].own < CachePages
                     /\ Len(lru) + hint + 1 - req[run].own <= CachePages
    BY <1>1, <2>1 DEF SlotFull
  <2>3. CASE Cached(g) /\ Hit  BY <1>1, <1>2, <1>3, <2>3, HitKeeps
  <2>4. CASE ~Cached(g) /\ Miss
    <3>1. CASE NotFound  BY <1>1, <1>3, <3>1, NotFoundKeeps
    <3>2. CASE status[g] = "FLYING" /\ JoinFlying  BY <1>1, <1>3, <3>2, JoinFlyingKeeps
    <3>3. CASE Retry  BY <1>1, <1>3, <3>3, RetryKeeps
    <3>4. CASE lru # <<>> /\ Evict  BY <1>1, <1>3, <3>4, EvictKeeps
    <3>5. CASE status[g] # "FLYING" /\ ~SlotFull /\ Hit  BY <1>1, <1>3, <2>2, <3>5, HitKeeps
    <3>6. CASE status[g] # "FLYING" /\ ~SlotFull /\ IssueRead
      BY <1>1, <1>3, <2>2, <2>4, <3>6, IssueReadKeeps
    <3> QED BY <2>4, <3>1, <3>2, <3>3, <3>4, <3>5, <3>6 DEF Miss
  <2> QED BY <1>3, <2>3, <2>4 DEF Traverse
<1>4. CASE req[run].st = "EVICTIONW"
  <2>1. req[run].own = 1  BY <1>1, <1>4 DEF ControlInv, Placed
  <2>2. /\ Len(lru) + hint - req[run].own < CachePages
        /\ Len(lru) + hint + 1 - req[run].own <= CachePages
    BY <1>1, <2>1
  <2>3. CASE (status[g] = "EMPTY" \/ Cached(g)) /\ Hit
    BY <1>1, <1>2, <1>4, <2>2, <2>3, HitKeeps
  <2>4. CASE status[g] = "FLYING" /\ JoinFlying  BY <1>1, <1>4, <2>4, JoinFlyingKeeps
  <2>5. CASE status[g] # "FLYING" /\ ~Cached(g) /\ IssueRead
    BY <1>1, <1>4, <2>2, <2>5, IssueReadKeeps
  <2> QED BY <1>4, <2>3, <2>4, <2>5 DEF Traverse, Evicted
<1>5. CASE req[run].st = "MISSR"
  <2>1. Fill  BY <1>5 DEF Traverse
  <2> QED BY <2>1, <1>1, <1>5, FillKeeps
<1> QED BY <1>3, <1>4, <1>5 DEF Traverse

(* At the start nothing is in flight and the cache is empty.               *)
LEMMA InitControl == Init => ControlInv
<1> SUFFICES ASSUME Init PROVE ControlInv
  OBVIOUS
<1>1. /\ lru = <<>> /\ status = [p \in Gtd |-> "EMPTY"] /\ pend = [p \in Gtd |-> <<>>]
      /\ owner = [p \in Gtd |-> None] /\ hint = 0 /\ req = [r \in Rid |-> Idle]
      /\ io = {} /\ rq = <<>> /\ pc = "idle" /\ run = None /\ abuf = <<>>
  BY DEF Init
<1>2. /\ \A r \in Rid : req[r] = Idle /\ r \notin Busy /\ ~Queued(r) /\ r \notin io
      /\ \A r \in Rid, p \in Gtd : ~Waits(r, p)
  BY <1>1, IdleFields, EmptyContains DEF Busy, Queued, Waits
<1>3. ControlTypeOK
  <2>1. \A r \in Rid : RequestOK(r)  BY <1>2, IdleFields DEF RequestOK
  <2>2. /\ lru \in Seq(Gtd) /\ status \in [Gtd -> Page] /\ pend \in [Gtd -> Seq(Rid)]
        /\ owner \in [Gtd -> Rid \cup {None}] /\ rq \in Seq(Rid) /\ abuf \in Seq(Lba)
    BY <1>1 DEF Page
  <2> QED BY <2>1, <2>2, <1>1 DEF ControlTypeOK
<1>4. RunOK  BY <1>1 DEF RunOK, IsInjective
<1>5. SlotsExact
  <2>1. Holders = {}  BY <1>2, IdleFields DEF Holders
  <2>2. Len(lru) = 0  BY <1>1
  <2> QED BY <2>1, <2>2, <1>1, FS_EmptySet, DemandAssumption DEF SlotsExact
<1>6. \A r \in Rid : Placed(r)  BY <1>2 DEF Placed
<1>7. \A p \in Gtd : Owned(p)  BY <1>1 DEF Owned, IsInjective
<1> QED BY <1>3, <1>4, <1>5, <1>6, <1>7 DEF ControlInv

(* Every step keeps the invariant.                                         *)
LEMMA NextControl == ControlInv /\ [Next]_vars => ControlInv'
<1> SUFFICES ASSUME ControlInv, [Next]_vars PROVE ControlInv'
  OBVIOUS
<1>1. CASE HostStep  BY <1>1, BufferKeeps, EntryKeeps DEF HostStep
<1>2. CASE MainStep
  <2>1. CASE Serving  BY <2>1, ServeKeeps, ServedKeeps DEF Serving
  <2> QED BY <1>2, <2>1, BufferKeeps, DoGcKeeps, EntryKeeps, ResumeKeeps, TraverseKeeps DEF MainStep
<1>3. CASE DevStep  BY <1>3, MapIoDoneKeeps DEF DevStep
<1>4. CASE DumpLoad  BY <1>4, DumpLoadKeeps
<1>5. CASE UNCHANGED vars
  BY <1>5 DEF vars, cacheVars, ControlInv, ControlTypeOK, RequestOK, RunOK, SlotsExact, Holders,
     Placed, Owned, Busy, Queued, Waits, InHands, ServedNow, Cached, Cur
<1> QED BY <1>1, <1>2, <1>3, <1>4, <1>5 DEF Next

(* The invariant behind the next two theorems: who is in hand, who waits   *)
(* for whom, and who holds a slot.                                         *)
THEOREM ControlAlwaysKept == Spec => []ControlInv
<1> QED BY InitControl, NextControl, PTL DEF Spec

(* The cache never overruns (coarse_is_needed_eviction, the eviction hint  *)
(* of coarse_update_eviction_hint and debug_size): slots in use and slots  *)
(* promised fit, and exactly the misses in flight hold a promise, whatever *)
(* the order of joins, evictions, retries and completions.                 *)
THEOREM SlotsAlwaysExact == Spec => []SlotsExact
<1>1. ControlInv => SlotsExact  BY DEF ControlInv
<1> QED BY <1>1, ControlAlwaysKept, PTL

(* A request in hand is in one pair of hands only.                         *)
LEMMA InHandOnce ==
    ASSUME ControlInv, NEW r \in Rid
    PROVE  InHand(r) = IF InHands(r) THEN 1 ELSE 0
<1> DEFINE A == {x \in {1} : run = r}
           B == {x \in {2} : r \in io}
           C == {i + 2 : i \in {j \in DOMAIN rq : rq[j] = r}}
<1>1. InHand(r) = Cardinality(A \cup B \cup C)  BY DEF InHand
<1>2. /\ Queued(r) => r \notin io /\ run # r
      /\ r \in io => run # r
      /\ rq \in Seq(Rid) /\ IsInjective(rq) /\ DOMAIN rq = 1 .. Len(rq)
  BY LenProperties DEF ControlInv, ControlTypeOK, Placed, RunOK
<1>3. ~Queued(r) => C = {}  BY <1>2 DEF Queued, Contains
<1>4. CASE Queued(r)
  <2>1. PICK k \in DOMAIN rq : rq[k] = r  BY <1>2, <1>4 DEF Queued, Contains
  <2>2. {j \in DOMAIN rq : rq[j] = r} = {k}  BY <2>1, <1>2 DEF IsInjective
  <2>3. A \cup B \cup C = {k + 2}  BY <2>2, <1>2, <1>4
  <2> HIDE DEF A, B, C
  <2> QED BY <1>1, <1>4, <2>3, FS_Singleton DEF InHands
<1>5. CASE ~Queued(r) /\ r \in io
  <2>1. A \cup B \cup C = {2}  BY <1>2, <1>3, <1>5
  <2> HIDE DEF A, B, C
  <2> QED BY <1>1, <1>5, <2>1, FS_Singleton DEF InHands
<1>6. CASE ~Queued(r) /\ r \notin io /\ run = r
  <2>1. A \cup B \cup C = {1}  BY <1>3, <1>6
  <2> HIDE DEF A, B, C
  <2> QED BY <1>1, <1>6, <2>1, FS_Singleton DEF InHands
<1>7. CASE ~InHands(r)
  <2>1. A \cup B \cup C = {}  BY <1>3, <1>7 DEF InHands
  <2> HIDE DEF A, B, C
  <2> QED BY <1>1, <1>7, <2>1, FS_EmptySet
<1> QED BY <1>4, <1>5, <1>6, <1>7 DEF InHands

(* No request is stranded and none is run twice: each one in flight is run *)
(* by the main thread, with the device or on the retry queue, once, or it  *)
(* waits in pending_req of a page whose reader is (flying_request_hit_     *)
(* check, map_read_wrapper, demand_map_coarse_type_pending).               *)
THEOREM NobodyEverStranded == Spec => []NobodyStranded
<1>1. ControlInv => NobodyStranded
  <2> SUFFICES ASSUME ControlInv, NEW r \in Busy
               PROVE  \/ InHand(r) = 1
                      \/ /\ InHand(r) = 0
                         /\ \E p \in Gtd : /\ owner[p] \notin {None, r}
                                           /\ InHand(owner[p]) = 1
                                           /\ Contains(pend[p], r)
    BY DEF NobodyStranded
  <2>1. r \in Rid  BY DEF Busy
  <2>2. CASE InHands(r)  BY <2>1, <2>2, InHandOnce
  <2>3. CASE ~InHands(r)
    <3>1. PICK p \in Gtd : Waits(r, p)  BY <2>1, <2>3 DEF ControlInv, Placed
    <3>2. owner[p] # None  BY <3>1, EmptyContains DEF ControlInv, Owned, Waits
    <3>3. InHands(owner[p]) /\ owner[p] \in Rid /\ owner[p] # r
      BY <2>3, <3>2 DEF ControlInv, ControlTypeOK, Owned
    <3>4. InHand(owner[p]) = 1 /\ InHand(r) = 0  BY <2>1, <2>3, <3>3, InHandOnce
    <3> QED BY <3>1, <3>2, <3>3, <3>4 DEF Waits
  <2> QED BY <2>2, <2>3
<1> QED BY <1>1, ControlAlwaysKept, PTL
=============================================================================
