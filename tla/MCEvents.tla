------------------------------ MODULE MCEvents ------------------------------
(***************************************************************************)
(* Instances of Events for TLC.                                            *)
(***************************************************************************)
EXTENDS Events, TLC

Symmetry == Permutations(Senders) \cup Permutations(Files)
=============================================================================
