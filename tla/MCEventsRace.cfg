\* Unlocked senders that overlap a disconnect.
SPECIFICATION Spec
CONSTANTS
  Senders = {s1, s2}
  Files = {f1}
  NoFile = NoFile
  Types = {"update_ready", "dpms", "cursor_move"}
  Squashable = {"cursor_move"}
  LockedTypes = {"update_ready"}
  Capacity = 1
  MaxEvents = 2
  OverlapDisconnect = TRUE
INVARIANT NoFlushWithoutFile
