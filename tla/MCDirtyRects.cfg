\* Two modes, damage clips of all shapes, grabs that race with new damage.
SPECIFICATION Spec
CONSTANTS
  Sizes <- TwoSizes
  MaxCoord = 3
  Clips <- WideClips
  MAX_DIRTS = 3
INVARIANTS
  TypeOK
  StaleIsDirty
  GrabFitsRoom
  MergeCopiesNoMore
