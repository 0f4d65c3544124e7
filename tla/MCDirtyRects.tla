---------------------------- MODULE MCDirtyRects ----------------------------
(***************************************************************************)
(* Instances of DirtyRects for TLC.                                        *)
(***************************************************************************)
EXTENDS DirtyRects

RectOf(x1, y1, x2, y2) == [x1 |-> x1, y1 |-> y1, x2 |-> x2, y2 |-> y2]

\* Two modes of 3 by 2 and 2 by 2 pixels.  The clips: a corner pixel, a column,
\* a row, one without pixels, one with its corners swapped.  The row and the
\* swapped one lie partly beyond the buffer of the smaller mode.
TwoSizes == {<<3, 2>>, <<2, 2>>}
WideClips ==
  {RectOf(0, 0, 1, 1), RectOf(1, 0, 2, 2),
   RectOf(1, 1, 3, 2), RectOf(1, 1, 1, 1), RectOf(3, 2, 2, 0)}
=============================================================================
