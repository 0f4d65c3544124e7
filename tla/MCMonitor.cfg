\* Two users of the bus, two connects of one client; disconnects that stay clear
\* of a response being copied.
SPECIFICATION MonitorFairSpec
CONSTANTS
  Users = {u1, u2}
  NoUser = NoUser
  Lengths <- ThreeLengths
  DDCCI_BUFFER_SIZE = 2
  MaxRequests = 2
  MaxMessages = 2
  MaxCompletions = 2
  OverlapDisconnect = FALSE
  MaxConnects = 2
  OneClient = TRUE
  Word = 16777216
  PAGE_SIZE = 16
INVARIANTS
  AnswerIsFresh
  StatusSettles
  ModesSettle
PROPERTIES
  TransferReturns
  ProbeReturns
