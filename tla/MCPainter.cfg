\* Two clients that replace each other, a compositor with two page-flip events.
SPECIFICATION Spec
CONSTANTS
  Files = {f1, f2}
  NoFile = NoFile
  Fbs = {fb1}
  NoFb = NoFb
  VblankEvents = {v1, v2}
  NoEvent = NoEvent
  Consoles = {c1}
  MAX_DIRTS = 2
  MaxClips = 0
  OverlapModeset = TRUE
SYMMETRY Symmetry
VIEW WithoutHistory
INVARIANTS
  NoLostUpdate
  VblankExactlyOnce
  HeldVblankHasDamage
  OwnerIsAlive
PROPERTY
  DamageDroppedByGrab
