-------------------------------- MODULE HrDb --------------------------------
(***************************************************************************)
(* HrDb (hrdb.hpp): a database of values with bounding boxes. A value is   *)
(* kept under the place of its box's centre on a Hilbert curve, with the   *)
(* box in front of it, and the reduce callback joins boxes, so that search *)
(* is a traversal that leaves out every subtree whose box lies apart from  *)
(* the box asked for. This module adds the boxes to one file of the        *)
(* database; the curve is a parameter.                                     *)
(***************************************************************************)
EXTENDS PbtTree

CONSTANTS
  MaxCoord,  \* the greatest uint32_t
  Boxes,     \* the boxes that values may have
  Curve      \* Curve[x, y]: hilbert_xy_to_index(16, x, y)

Coords == 0..MaxCoord
AllBoxes == [x0 : Coords, y0 : Coords, x1 : Coords, y1 : Coords]

ASSUME HrDbAssumption ==
  /\ MaxCoord \in Nat /\ Boxes \subseteq AllBoxes
  /\ Curve \in [Coords \X Coords -> Keys]

VARIABLE boxes  \* the box in front of each value, in the order of entries

hrvars == <<vars, boxes>>

-----------------------------------------------------------------------------
\* average, which does not add up to more than a coordinate can be.
Average(a, b) == a \div 2 + b \div 2 + (a % 2) * (b % 2)
Centre(b) == <<Average(b.x0, b.x1), Average(b.y0, b.y1)>>

\* intersects: a is the box asked for.
Intersects(a, b) == b.x0 <= a.x1 /\ b.x1 >= a.x0 /\ b.y0 <= a.y1 /\ b.y1 >= a.y0

\* The loops over the boxes in reduce, which begin at the limits of the type.
Least(T) == CHOOSE m \in T \cup {MaxCoord} : \A n \in T : m <= n
Greatest(T) == CHOOSE m \in T \cup {0} : \A n \in T : n <= m

\* Mutant of Reduce: the upper corner is that of the least box.
ReduceLow(S) ==
  [x0 |-> Least({b.x0 : b \in S}), y0 |-> Least({b.y0 : b \in S}),
   x1 |-> Least({b.x1 : b \in S}), y1 |-> Greatest({b.y1 : b \in S})]

\* reduce: the box around some boxes.
Reduce(S) ==
  [x0 |-> Least({b.x0 : b \in S}), y0 |-> Least({b.y0 : b \in S}),
   x1 |-> Greatest({b.x1 : b \in S}), y1 |-> Greatest({b.y1 : b \in S})]

\* search in the file: PbtTree keeps the values below a node, and reduce gives
\* their box, be it from boxes of values or from boxes of boxes.
Search(a) ==
  TraverseWhere({e \in DOMAIN boxes : Intersects(a, boxes[e])},
                {S \in SUBSET (DOMAIN boxes) : Intersects(a, Reduce({boxes[e] : e \in S}))})

-----------------------------------------------------------------------------
InitHrDb == Init /\ boxes = <<>>

\* add; a point is a box with equal corners. The buffer has sorted the keys.
AddBox(b) == Add(Curve[Centre(b)]) /\ boxes' = Append(boxes, b)
FinishBoxes == Finish /\ UNCHANGED boxes

NextHrDb == (\E b \in Boxes : AddBox(b)) \/ FinishBoxes

\* finish is one call, without waiting.
SpecHrDb == InitHrDb /\ [][NextHrDb]_hrvars /\ WF_hrvars(FinishBoxes)

-----------------------------------------------------------------------------
Proper(b) == b.x0 <= b.x1 /\ b.y0 <= b.y1
Shares(a, b) == \E x \in b.x0..b.x1, y \in b.y0..b.y1 : x \in a.x0..a.x1 /\ y \in a.y0..a.y1

\* search finds, in the order of the file, exactly the values whose box has a
\* point in common with the box asked for: no subtree with one is left out.
SearchFindsAll ==
  Done => \A a \in {b \in AllBoxes : Proper(b)} :
    Lists(Search(a), {e \in DOMAIN boxes : Shares(a, boxes[e])})

=============================================================================
