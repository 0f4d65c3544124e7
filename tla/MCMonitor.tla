------------------------------ MODULE MCMonitor ------------------------------
(***************************************************************************)
(* An instance of Monitor for TLC, with a check of modes over small limits.*)
(***************************************************************************)
EXTENDS Monitor, Arithmetic

\* One length below DDCCI_BUFFER_SIZE, two that are truncated to it.
ThreeLengths == 1..3

SmallModes ==
  [hdisplay : {1, 2}, vdisplay : {2}, vrefresh : {1, 2, 3}]

\* No resolution within the area limit loses all of its modes.
ASSUME ResolutionsSurvive ==
  \A modes \in SUBSET SmallModes, area_limit \in 1..4, rate_limit \in 0..12 :
    \A m \in modes :
      Area(m) <= area_limit =>
        \E n \in modes : /\ SameResolution(m, n)
                         /\ evdi_mode_valid(modes, n, area_limit, rate_limit)
=============================================================================
