\* A disconnect between a response and the copy of it.
SPECIFICATION FairSpec
CONSTANTS
  Users = {u1}
  NoUser = NoUser
  Lengths <- ThreeLengths
  DDCCI_BUFFER_SIZE = 2
  MaxRequests = 2
  MaxMessages = 1
  MaxCompletions = 2
  OverlapDisconnect = TRUE
CHECK_DEADLOCK FALSE
PROPERTY TransferReturns
