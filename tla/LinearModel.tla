---------------------------- MODULE LinearModel ----------------------------
(***************************************************************************)
(* The piecewise linear model that predicts a physical page from a logical *)
(* address (class PLR of leaFTL/plr).  Keys arrive in increasing order;    *)
(* the class keeps the cone of slopes that pass every point of the current *)
(* line within delta, and starts a new line when no quantized slope is     *)
(* left.  All the arithmetic is the code's integer arithmetic; the         *)
(* intercept, which the code computes in doubles, is exact here.           *)
(***************************************************************************)
EXTENDS Integers, Sequences, FiniteSets, SequencesExt

CONSTANTS
    TICK, CORRECTION,   \* resolution of a page and of an address
    SlopeBit, Range_,   \* arguments of the constructor
    Gap,                \* pieces of a page
    Steps,              \* distances between inserted keys
    MaxKeys             \* bound: keys of one model

VARIABLES
    m,      \* the model being built
    keys    \* history: <<lba, page>> in insertion order

bit == 2 ^ SlopeBit
delta == TICK \div 2 + Range_
\* B_BIT: the bits that hold delta, the slope's bits and one for the sign
BSign == 2 ^ (SlopeBit + (CHOOSE k \in 1 .. 31 : 2 ^ (k - 1) <= delta /\ delta < 2 ^ k))
BFull == 2 * BSign

Dot(x, y) == [x |-> x, y |-> y]
Slope(a, b) == [n |-> b.y - a.y, d |-> b.x - a.x]
Less(s, t) == s.n * t.d < s.d * t.n
Ccw(a, b, c) == (b.x - a.x) * (c.y - a.y) - (b.y - a.y) * (c.x - a.x)
\* C's division and conversion to an integer round towards zero.
Trunc(n, d) == IF n < 0 THEN -((-n) \div d) ELSE n \div d
Above(p) == Dot(p.x, p.y + delta)
Below(p) == Dot(p.x, p.y - delta)

\* exist_quantized_slope: a multiple of 1/bit strictly between the bounds.
QuantizedSlope(lower, upper) ==
    LET halve(s, i) ==
            LET mid == (s.low + s.high) \div 2
            IN  IF s.found \/ s.high - s.low = 1 THEN s
                ELSE IF mid * upper.d >= upper.n * bit THEN [s EXCEPT !.high = mid]
                ELSE IF mid * lower.d <= lower.n * bit THEN [s EXCEPT !.low = mid]
                ELSE [s EXCEPT !.found = TRUE, !.low = mid]
        s == FoldLeft(halve, [low |-> 0, high |-> bit, found |-> FALSE], [i \in 1 .. SlopeBit |-> i])
    IN  IF upper.n <= 0 THEN -1
        ELSE IF lower.n < 0 THEN 0
        ELSE IF lower.n * bit >= lower.d * (bit - 1) THEN -1
        ELSE IF s.found THEN s.low ELSE -1

\* find_intercept_o1: where a line of slope slp/bit through the crossing of
\* a-c and b-d passes the first member, in 1/bit.  When the lines do not
\* cross, the division by zero gives a NaN and x86 converts it to INT64_MIN.
Intercept(s, slp) ==
    LET o == s.member[1]
        at(p) == Dot(p.x - o.x, p.y - o.y)
        a == at(s.a)  b == at(s.b)  c == at(s.c)  d == at(s.d)
        N1 == c.y - a.y  D1 == c.x - a.x  N2 == d.y - b.y  D2 == d.x - b.x
        XD == N1 * D2 - N2 * D1
        XN == (b.y * D2 - N2 * b.x) * D1 - (a.y * D1 - N1 * a.x) * D2
        num == XN * (N1 * bit - slp * D1) + (a.y * D1 - N1 * a.x) * bit * XD + delta * bit * XD * D1
        den == XD * D1
    IN  IF D1 = 0 \/ D2 = 0 \/ XD = 0 THEN -delta * bit
        ELSE Trunc(IF den < 0 THEN -num ELSE num, IF den < 0 THEN -den ELSE den) - delta * bit

\* line_push_back: a line starts at a key and its page; slope and intercept
\* are stored in A_BIT and B_BIT bits, the intercept as sign and size.
Encode(b) == (IF b < 0 THEN BSign - 1 - b ELSE b) % BFull
Decode(v) == IF v >= BSign THEN -(v - (BSign - 1)) ELSE v
PushLine(s, a, b) ==
    [s EXCEPT !.lines = Append(@, [x |-> s.member[1].x \div CORRECTION,
                                   y |-> (s.member[1].y - TICK \div 2) \div TICK,
                                   a |-> a % bit, b |-> Encode(b)])]
NewLine(s, p) ==
    [s EXCEPT !.a = Above(p), !.b = Below(p), !.lo = <<Above(p)>>, !.up = <<Below(p)>>,
              !.member = <<p>>]

\* The last dot of the prefix along which the slope to t keeps growing (sign
\* 1) or falling (sign -1): the new tangent of the cone.
Tangent(hull, t, sign) ==
    LET better(i) == IF sign = 1 THEN Less(Slope(hull[i], t), Slope(hull[i + 1], t))
                     ELSE Less(Slope(hull[i + 1], t), Slope(hull[i], t))
    IN  CHOOSE i \in 1 .. Len(hull) :
            /\ \A j \in 1 .. i - 1 : better(j)
            /\ i < Len(hull) => ~better(i)
\* push_back and the ccw loop: dots that t makes redundant leave the hull.
PushHull(hull, t, sign) ==
    LET keeps(k) == k = 1 \/ sign * Ccw(t, hull[k], hull[k - 1]) > 0
        k == CHOOSE i \in 1 .. Len(hull) : keeps(i) /\ \A j \in i + 1 .. Len(hull) : ~keeps(j)
    IN  Append(SubSeq(hull, 1, k), t)

\* The cone narrows from below, then from above.
NarrowLower(s, p) ==
    LET t == Below(p)
        i == Tangent(s.lo, t, 1)
    IN  IF s.lower.d * (t.y - s.c.y) > (p.x - s.c.x) * s.lower.n
        THEN [s EXCEPT !.a = s.lo[i], !.c = t, !.lo = SubSeq(@, i, Len(@)),
                       !.lower = Slope(s.lo[i], t), !.up = PushHull(@, t, 1)]
        ELSE s
NarrowUpper(s, p) ==
    LET t == Above(p)
        i == Tangent(s.up, t, -1)
    IN  IF s.upper.d * (t.y - s.d.y) < (p.x - s.d.x) * s.upper.n
        THEN [s EXCEPT !.b = s.up[i], !.d = t, !.up = SubSeq(@, i, Len(@)),
                       !.upper = Slope(s.up[i], t), !.lo = PushHull(@, t, -1)]
        ELSE s

OutOfRange(s, p) ==
    \/ s.lower.d * (p.y + delta - s.c.y) <= (p.x - s.c.x) * s.lower.n
    \/ s.upper.d * (p.y - delta - s.d.y) >= (p.x - s.d.x) * s.upper.n

\* insert
Inserted(s, p) ==
    LET a == QuantizedSlope(s.lower, s.upper)
        s2 == [s EXCEPT !.c = Below(p), !.d = Above(p), !.lower = Slope(s.a, Below(p)),
                        !.upper = Slope(s.b, Above(p))]
        n == NarrowUpper(NarrowLower(s, p), p)
    IN  CASE s.member = <<>> -> NewLine(s, p)
          [] Len(s.member) = 1 ->
                IF QuantizedSlope(s2.lower, s2.upper) = -1 THEN NewLine(PushLine(s2, 0, 0), p)
                ELSE [s2 EXCEPT !.up = Append(@, Below(p)), !.lo = Append(@, Above(p)),
                                !.member = Append(@, p)]
          [] OTHER ->
                IF OutOfRange(s, p) THEN NewLine(PushLine(s, a, Intercept(s, a)), p)
                ELSE IF QuantizedSlope(n.lower, n.upper) = -1
                     THEN NewLine(PushLine(n, a, Intercept(s, a)), p)
                     ELSE [n EXCEPT !.member = Append(@, p)]

\* get: the line of the key, its page clamped to the pages inserted.
Get(s, l, pmin, pmax) ==
    LET ln == s.lines[CHOOSE i \in DOMAIN s.lines :
                  s.lines[i].x <= l /\ \A j \in i + 1 .. Len(s.lines) : s.lines[j].x > l]
        y == ln.y * TICK + TICK \div 2
        page == Trunc(Trunc(y * bit + (l - ln.x) * CORRECTION * ln.a + Decode(ln.b), bit), TICK)
    IN  IF page < pmin THEN pmin ELSE IF page > pmax THEN pmax ELSE page

Point(l, page) == Dot(l * CORRECTION, page * TICK + TICK \div 2)
NewModel ==
    LET o == Dot(0, 0)
        sl == [n |-> 0, d |-> 1]
    IN  [member |-> <<>>, lines |-> <<>>, a |-> o, b |-> o, c |-> o, d |-> o,
         lower |-> sl, upper |-> sl, lo |-> <<>>, up |-> <<>>, done |-> FALSE]
Finished(s) ==
    LET a == QuantizedSlope(s.lower, s.upper)
    IN  [PushLine(s, a, Intercept(s, a)) EXCEPT !.done = TRUE]

Init == m = NewModel /\ keys = <<>>

\* The pieces of a segment are contiguous: first is the piece of the first key.
Insert(l, first) ==
    /\ ~m.done /\ Len(keys) < MaxKeys
    /\ keys # <<>> => first = 0
    /\ LET off == IF keys = <<>> THEN first ELSE keys[1][3]
           page == (off + Len(keys)) \div Gap
       IN  /\ m' = Inserted(m, Point(l, page))
           /\ keys' = Append(keys, <<l, page, off>>)

\* insert_end: with one member left, the bounds are those of the line before.
InsertEnd ==
    /\ ~m.done /\ Len(keys) > 2
    /\ m' = Finished(m)
    /\ UNCHANGED keys

Next ==
    \/ \E gap \in Steps, first \in 0 .. Gap - 1 :
          Insert(IF keys = <<>> THEN 0 ELSE Last(keys)[1] + gap, first)
    \/ InsertEnd

(* A finished model predicts every key it was built from within one page:   *)
(* the look-up reads at most one neighbour before it answers "not found"    *)
(* (group_get), so a prediction two pages off loses the block.              *)
PredictionClose ==
    m.done => \A i \in DOMAIN keys :
        Get(m, keys[i][1], keys[1][2], Last(keys)[2]) - keys[i][2] \in -1 .. 1
=============================================================================
