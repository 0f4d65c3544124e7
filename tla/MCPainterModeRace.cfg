\* A connect that overlaps the mode-changed notification.
SPECIFICATION Spec
CONSTANTS
  Files = {f1}
  NoFile = NoFile
  Fbs = {fb1}
  NoFb = NoFb
  VblankEvents = {}
  NoEvent = NoEvent
  Consoles = {c1}
  MAX_DIRTS = 2
  MaxClips = 0
  OverlapModeset = TRUE
INVARIANT ModeTold
