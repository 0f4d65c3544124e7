----------------------------- MODULE MCPainter -----------------------------
(***************************************************************************)
(* Instances of Painter for TLC.  Files, framebuffers, events and consoles *)
(* are interchangeable: no definition tells two of them apart.             *)
(***************************************************************************)
EXTENDS Painter, TLC

Symmetry == Permutations(Files) \cup Permutations(Fbs)
              \cup Permutations(VblankEvents) \cup Permutations(Consoles)

\* What the client was told is history: no action reads it.
WithoutHistory ==
  <<painterVars, kmsVars, commitVars, clientVars, vt, sent>>
=============================================================================
