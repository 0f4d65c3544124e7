\* A consumer that may keep both buffers, and a program that may handle events
\* while it is not connected.
SPECIFICATION FairSpec
CONSTANTS
  BufferIds = {0, 1, 2, 3, 4}
  MaxEvents = 2
  NoBuffer = NoBuffer
  MaxKept = 2
INVARIANTS
  RegisteredAreLive
  GrabWritesOwnBuffer
  UpdateReadyIsForRequested
  RequestIsOwed
PROPERTY
  DamageIsGrabbed
