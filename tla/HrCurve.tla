------------------------------ MODULE HrCurve ------------------------------
(***************************************************************************)
(* HrDb with the curve of Hilbert: what the keys are good for. Search      *)
(* needs nothing of them; that it leaves out most of a file rests on keys  *)
(* that are near each other belonging to boxes that are.                   *)
(***************************************************************************)
EXTENDS HrDb, Hilbert

CONSTANTS
  Order,  \* the order of the curve, 16 in the code
  Orders  \* other orders at which to follow the curve

\* The coordinates of n bits.
Grid(n) == {Number(w) : w \in SUBSET (0..(n - 1))}

CurveKey(n, p) == Number(XyToIndex(n, Word(p[1]), Word(p[2])))
CurvePoint(n, key) == LET w == IndexToXy(n, Word(key)) IN <<Number(w[1]), Number(w[2])>>

\* Nothing is said of coordinates that have more bits: add takes any uint32_t,
\* and hilbert_xy_to_index is not made for them.
ASSUME CurveAssumption ==
  /\ Order \in 1..16 /\ Orders \subseteq 1..16
  /\ \A p \in Coords \X Coords :
       p \in Grid(Order) \X Grid(Order) => Curve[p] = CurveKey(Order, p)

\* A point whose coordinates have n bits: those of a given point, repeated.
Repeated(n, p) ==
  LET bits(v) == {k \in 0..(n - 1) : k % Order \in Word(v)}
  IN  <<Number(bits(p[1])), Number(bits(p[2]))>>

Beside(p, q) ==
  \E d \in {-1, 1} : q = <<p[1] + d, p[2]>> \/ q = <<p[1], p[2] + d>>

\* The key of a point leads back to it, and the key before to a point beside it.
Follows(n, p) ==
  LET key == CurveKey(n, p)
  IN  /\ CurvePoint(n, key) = p
      /\ key > 0 => Beside(CurvePoint(n, key - 1), p)

Points == Grid(Order) \X Grid(Order)
Visits == {<<key, CurvePoint(Order, key)>> : key \in Keys}
Followed == {<<p, \A n \in Orders : Follows(n, Repeated(n, p))>> : p \in Points}

\* The key of a value is the place of its box's centre on the curve, and the
\* curve goes from one key to the next in steps to a point beside, so that
\* values in one node are near each other (hilbert_xy_to_index, index_to_xy).
KeysFollowCurve ==
  \A e \in DOMAIN entries :
    LET c == Centre(boxes[e]) IN c \in Points => <<entries[e], c>> \in Visits /\ <<c, TRUE>> \in Followed

=============================================================================
