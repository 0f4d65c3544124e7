------------------------------ MODULE MCCursor ------------------------------
(***************************************************************************)
(* An instance of Cursor for TLC.                                          *)
(***************************************************************************)
EXTENDS Cursor
=============================================================================
