\* Senders, retry work and disconnects that wait for unlocked senders.
SPECIFICATION FairSpec
CONSTANTS
  Senders = {s1, s2}
  Files = {f1, f2}
  NoFile = NoFile
  Types = {"update_ready", "dpms", "cursor_move"}
  Squashable = {"cursor_move"}
  LockedTypes = {"update_ready"}
  Capacity = 1
  MaxEvents = 3
  OverlapDisconnect = FALSE
INVARIANTS
  NoFlushWithoutFile
  NoStrandedEvent
PROPERTIES
  ImplementsChannel
  EventsLeaveTheList
