------------------------------ MODULE MCRegion ------------------------------
(* Instances of Region for TLC: rectangles of a few pixels, in 4-bit         *)
(* arithmetic (8 stands for 2^31).                                           *)
EXTENDS Region

SmallFrame == Rect(0, 0, 3, 2)

(* Extents on, across and beside the frame, far from the ends of the range.  *)
NearExtents == {Rect(-1, -1, 2, 2), Rect(1, 0, 1, 1), Rect(2, 1, 2, 1), Rect(0, 1, 2, 2)}

(* "Everything" is usually declared as the largest rectangle there is.       *)
SomeClientRects == {Rect(0, 0, MaxI32, MaxI32), Rect(1, 0, 1, 1), Rect(-1, 1, 2, 1), Rect(MaxI32, 0, 1, -1)}
=============================================================================
