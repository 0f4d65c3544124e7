------------------------------ MODULE MCDdcci -------------------------------
(***************************************************************************)
(* Instances of Ddcci for TLC.                                             *)
(***************************************************************************)
EXTENDS Ddcci

\* One length below DDCCI_BUFFER_SIZE, two that are truncated to it.
ThreeLengths == {1, 2, 3}
=============================================================================
