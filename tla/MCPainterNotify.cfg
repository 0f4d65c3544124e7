\* One client, two framebuffers, VT switches; connects and VT switches stay
\* clear of the mode-changed notification.
SPECIFICATION Spec
CONSTANTS
  Files = {f1}
  NoFile = NoFile
  Fbs = {fb1, fb2}
  NoFb = NoFb
  VblankEvents = {}
  NoEvent = NoEvent
  Consoles = {c1, c2}
  MAX_DIRTS = 2
  MaxClips = 0
  OverlapModeset = FALSE
SYMMETRY Symmetry
INVARIANTS
  FbReferences
  ModeTold
  DpmsOffOwesModeset
