------------------------------- MODULE MCHrDb -------------------------------
(* The values TLC gives the constants of HrDb: the curve of order 2, over  *)
(* coordinates of two bits.                                                *)
EXTENDS HrCurve

Box(x0, y0, x1, y1) == [x0 |-> x0, y0 |-> y0, x1 |-> x1, y1 |-> y1]
MCBoxes == {Box(0, 0, 0, 0), Box(3, 0, 3, 0), Box(0, 1, 2, 3), Box(2, 2, 3, 2), Box(0, 0, 3, 3)}
MCCurve == [p \in (0..3) \X (0..3) |-> CurveKey(2, p)]
MCKeys == 0..15

=============================================================================
