------------------------------ MODULE MCPyCard ------------------------------
(***************************************************************************)
(* Instances of PyCard for TLC.                                            *)
(***************************************************************************)
EXTENDS PyCard

=============================================================================
