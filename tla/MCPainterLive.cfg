\* Liveness for one client, one framebuffer and one event.
SPECIFICATION FairSpec
CONSTANTS
  Files = {f1}
  NoFile = NoFile
  Fbs = {fb1}
  NoFb = NoFb
  VblankEvents = {v1}
  NoEvent = NoEvent
  Consoles = {c1}
  MAX_DIRTS = 2
  MaxClips = 0
  OverlapModeset = TRUE
PROPERTIES
  UpdateAnswered
  VblankDelivered
