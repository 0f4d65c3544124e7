\* A program that uses libevdi and another writer, two slots, a USB device that
\* comes and goes and one that stays.
SPECIFICATION CardsSpec
CONSTRAINT Bounded
CONSTANTS
  EVDI_DEVICE_COUNT_MAX = 2
  Parents = {q1, q2}
  Docked = {q2}
  NoParent = NoParent
  Writers = {p1, w1}
  Clients = {p1}
  MaxHandles = 2
  MaxCards = 3
  OpensOnce = TRUE
  ConnectsFirst = TRUE
INVARIANTS
  CountMatchesTable
  SymlinkedHasLink
  AddedIsFound
  OpensWhatItFound
  UsageExact
PROPERTY UnlinksOwnOnly
