\* Two objects that may be the cursor, one of them also on the screen and shared.
SPECIFICATION Spec
CONSTANTS
  Objects = {o1, o2}
  NoObject = NoObject
  Shared = {o1}
  Scanout = {o1}
  Grabbers = {g1}
  Commit = Commit
  Measure = Measure
  MaxPins = 1
  Apart = TRUE
\* A commit thread that faulted keeps the lock of the cursor.
CHECK_DEADLOCK FALSE
INVARIANTS
  PagesWhileNeeded
  FreedHoldsNothing
  ReadsMapped
  ReferencesExact
  
