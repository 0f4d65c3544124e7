------------------------------- MODULE Ddcci --------------------------------
(***************************************************************************)
(* DDC/CI over the painter's i2c adapter (module/evdi_painter.c,           *)
(* evdi_i2c.c): a connect adds the adapter and a disconnect removes it;    *)
(* programs that hold the bus open transfer messages; each DDC/CI message  *)
(* becomes an event for the client, whose response the transfer awaits for *)
(* DDCCI_TIMEOUT_MS.                                                       *)
(*                                                                         *)
(* Bytes are abstracted to their origin: a buffer holds the client's       *)
(* response to the request of a given number.  The i2c core is external:   *)
(* it runs one transfer of a bus at a time, and i2c_del_adapter waits      *)
(* until nobody holds the bus.                                             *)
(***************************************************************************)
EXTENDS Naturals, FiniteSets

CONSTANTS
  Users,              \* programs that may hold the i2c bus open
  NoUser,
  Lengths,            \* lengths of messages and responses
  DDCCI_BUFFER_SIZE,
  MaxRequests,        \* bound on the DDC/CI requests of a behaviour
  MaxMessages,        \* bound on the messages of a transfer
  MaxCompletions,     \* bound on the count of a completion
  OverlapDisconnect   \* may a disconnect start between a response and the
                      \* copy of it, and a connect before the last
                      \* disconnect has returned?

ASSUME LengthAssumption ==
  Lengths \subseteq Nat /\ DDCCI_BUFFER_SIZE \in Nat

ASSUME BoundAssumption ==
  MaxRequests \in Nat /\ MaxMessages \in Nat /\ MaxCompletions \in Nat \ {0}

ASSUME UserAssumption == NoUser \notin Users

VARIABLES
  is_connected,
  i2c_adapter,    \* "none", "live", or "deleting" in i2c_del_adapter
  disconnect,     \* where evdi_painter_disconnect is: "idle", "locked" (it
                  \* holds painter->lock) or "unlocked"
  holders,        \* users with the bus open
  xfer,           \* the transfer on the bus: where it is, its user, the
                  \* messages left, number and length of the current one
  done,           \* ddcci_response_received: completions not waited for yet
  ddcci_buffer,   \* the request that the stored response answers, 0 if NULL
  ddcci_buffer_length,
  requests,       \* DDC/CI requests made so far: their numbers are 1..requests
  asked,          \* requests the client has received and not answered
  fresh,          \* history: ddcci_buffer was stored after the current request
  copied_fresh    \* history: was the response last copied fresh?

painterVars == <<is_connected, i2c_adapter, disconnect>>
bufferVars  == <<ddcci_buffer, ddcci_buffer_length, fresh>>
vars == <<painterVars, holders, xfer, done, bufferVars, requests, asked,
          copied_fresh>>

RequestIds == 1..MaxRequests
NoTransfer == [pc |-> "idle", user |-> NoUser, left |-> 0, id |-> 0, len |-> 0]
Truncated(len) == IF len < DDCCI_BUFFER_SIZE THEN len ELSE DDCCI_BUFFER_SIZE

TypeOK ==
  /\ is_connected \in BOOLEAN
  /\ i2c_adapter \in {"none", "live", "deleting"}
  /\ disconnect \in {"idle", "locked", "unlocked"}
  /\ holders \subseteq Users
  /\ xfer \in [pc   : {"idle", "message", "request", "wait", "copy"},
               user : Users \cup {NoUser}, left : 0..MaxMessages,
               id   : {0} \cup RequestIds, len : Lengths \cup {0}]
  /\ done \in 0..MaxCompletions
  /\ ddcci_buffer \in {0} \cup RequestIds
  /\ ddcci_buffer_length \in 0..DDCCI_BUFFER_SIZE
  /\ requests \in 0..MaxRequests
  /\ asked \subseteq 1..requests
  /\ fresh \in BOOLEAN
  /\ copied_fresh \in BOOLEAN

Init ==
  /\ is_connected = FALSE
  /\ i2c_adapter = "none"
  /\ disconnect = "idle"
  /\ holders = {}
  /\ xfer = NoTransfer
  /\ done = 0
  /\ ddcci_buffer = 0 /\ ddcci_buffer_length = 0 /\ fresh = FALSE
  /\ requests = 0
  /\ asked = {}
  /\ copied_fresh = TRUE

\* complete() adds one; a wait only asks whether there is any, and every
\* request starts again from zero, so that the bound loses nothing.
complete == done' = IF done < MaxCompletions THEN done + 1 ELSE done

LockFree == disconnect # "locked"

-----------------------------------------------------------------------------
(***************************************************************************)
(* Connecting and disconnecting.                                           *)
(***************************************************************************)

\* evdi_painter_connect: the adapter is added if there is none; adding it may
\* fail, and the connect succeeds nevertheless.
evdi_painter_connect ==
  /\ LockFree
  /\ OverlapDisconnect \/ disconnect = "idle"
  /\ is_connected' = TRUE
  /\ \/ i2c_adapter' = "live"
     \/ i2c_adapter = "none" /\ i2c_adapter' = "none"
  /\ UNCHANGED <<disconnect, holders, xfer, done, bufferVars, requests, asked,
                 copied_fresh>>

Signalled == xfer.pc = "copy" \/ (xfer.pc = "wait" /\ done > 0)

\* evdi_painter_disconnect takes painter->lock, frees the stored response and,
\* with the lock held, enters i2c_del_adapter.
evdi_painter_disconnect ==
  /\ disconnect = "idle"
  /\ is_connected
  /\ OverlapDisconnect \/ ~Signalled
  /\ is_connected' = FALSE
  /\ ddcci_buffer' = 0 /\ ddcci_buffer_length' = 0 /\ fresh' = FALSE
  /\ disconnect' = "locked"
  /\ i2c_adapter' = IF i2c_adapter = "live" THEN "deleting" ELSE i2c_adapter
  /\ UNCHANGED <<holders, xfer, done, requests, asked, copied_fresh>>

\* i2c_del_adapter returns when nobody holds the bus; then the lock is free.
evdi_remove_i2c_adapter ==
  /\ disconnect = "locked"
  /\ i2c_adapter = "deleting" => holders = {}
  /\ i2c_adapter' = "none"
  /\ disconnect' = "unlocked"
  /\ UNCHANGED <<is_connected, holders, xfer, done, bufferVars, requests,
                 asked, copied_fresh>>

\* The complete() after the unlock.
DisconnectComplete ==
  /\ disconnect = "unlocked"
  /\ disconnect' = "idle"
  /\ complete
  /\ UNCHANGED <<is_connected, i2c_adapter, holders, xfer, bufferVars,
                 requests, asked, copied_fresh>>

-----------------------------------------------------------------------------
(***************************************************************************)
(* The i2c bus.                                                            *)
(***************************************************************************)

OpenBus(u) ==
  /\ i2c_adapter = "live"
  /\ u \notin holders
  /\ holders' = holders \cup {u}
  /\ UNCHANGED <<painterVars, xfer, done, bufferVars, requests, asked,
                 copied_fresh>>

CloseBus(u) ==
  /\ u \in holders
  /\ xfer.user # u
  /\ holders' = holders \ {u}
  /\ UNCHANGED <<painterVars, xfer, done, bufferVars, requests, asked,
                 copied_fresh>>

\* The i2c core calls master_xfer with n messages.
StartTransfer(u, n) ==
  /\ u \in holders
  /\ xfer = NoTransfer
  /\ xfer' = [NoTransfer EXCEPT !.pc = "message", !.user = u, !.left = n]
  /\ UNCHANGED <<painterVars, holders, done, bufferVars, requests, asked,
                 copied_fresh>>

\* The loop of dli2c_access_master: on to the next message, or return.
NextMessage ==
  IF xfer.left = 1 THEN NoTransfer
  ELSE [xfer EXCEPT !.pc = "message", !.left = xfer.left - 1, !.id = 0,
                    !.len = 0]

\* evdi_painter_i2c_data_notify ignores a message when the painter is not
\* connected, which it reads without the lock, or when the message is not for
\* the DDC/CI address.
IgnoreMessage ==
  /\ xfer.pc = "message"
  /\ xfer' = NextMessage
  /\ UNCHANGED <<painterVars, holders, done, bufferVars, requests, asked,
                 copied_fresh>>

evdi_painter_i2c_data_notify(len) ==
  /\ xfer.pc = "message"
  /\ is_connected
  /\ requests < MaxRequests
  /\ requests' = requests + 1
  /\ xfer' = [xfer EXCEPT !.pc = "request", !.id = requests', !.len = len]
  /\ UNCHANGED <<painterVars, holders, done, bufferVars, asked, copied_fresh>>

\* Mutant: the completion is not reset.
RequestWithoutReinit ==
  /\ xfer.pc = "request"
  /\ fresh' = FALSE
  /\ asked' = IF is_connected THEN asked \cup {xfer.id} ELSE asked
  /\ xfer' = [xfer EXCEPT !.pc = "wait"]
  /\ UNCHANGED <<painterVars, holders, done, ddcci_buffer,
                 ddcci_buffer_length, requests, copied_fresh>>

\* evdi_painter_ddcci_data resets the completion and sends the event, which is
\* dropped when the painter is not connected any more.
RequestResponse ==
  /\ xfer.pc = "request"
  /\ done' = 0
  /\ fresh' = FALSE
  /\ asked' = IF is_connected THEN asked \cup {xfer.id} ELSE asked
  /\ xfer' = [xfer EXCEPT !.pc = "wait"]
  /\ UNCHANGED <<painterVars, holders, ddcci_buffer, ddcci_buffer_length,
                 requests, copied_fresh>>

\* wait_for_completion_interruptible_timeout takes a completion ...
TakeCompletion ==
  /\ xfer.pc = "wait"
  /\ done > 0
  /\ done' = done - 1
  /\ xfer' = [xfer EXCEPT !.pc = "copy"]
  /\ UNCHANGED <<painterVars, holders, bufferVars, requests, asked,
                 copied_fresh>>

\* Mutant: a request that is not answered is made again.
RetryUnanswered ==
  /\ xfer.pc = "wait"
  /\ done = 0
  /\ xfer' = [xfer EXCEPT !.pc = "request"]
  /\ UNCHANGED <<painterVars, holders, done, bufferVars, requests, asked,
                 copied_fresh>>

\* ... or gives up when there is none.
ResponseTimeout ==
  /\ xfer.pc = "wait"
  /\ done = 0
  /\ xfer' = NextMessage
  /\ UNCHANGED <<painterVars, holders, done, bufferVars, requests, asked,
                 copied_fresh>>

\* The response must have the length of the message, as truncated, and exist.
CanCopy(len) == Truncated(len) = ddcci_buffer_length /\ ddcci_buffer # 0

\* The response is copied into the message under painter->lock.
CopyResponse ==
  /\ xfer.pc = "copy"
  /\ LockFree
  /\ copied_fresh' = IF CanCopy(xfer.len) THEN fresh ELSE copied_fresh
  /\ xfer' = NextMessage
  /\ UNCHANGED <<painterVars, holders, done, bufferVars, requests, asked>>

-----------------------------------------------------------------------------
(***************************************************************************)
(* The client.                                                             *)
(***************************************************************************)

\* evdi_painter_ddcci_response_ioctl stores the response, whoever passes it
\* and whether or not anyone waits, and completes.  The client answers each
\* request at most once, at any time after it has received it.
evdi_painter_ddcci_response_ioctl(id, len) ==
  /\ LockFree
  /\ id \in asked
  /\ asked' = asked \ {id}
  /\ ddcci_buffer_length' = Truncated(len)
  /\ ddcci_buffer' = id
  /\ fresh' = TRUE
  /\ complete
  /\ UNCHANGED <<painterVars, holders, xfer, requests, copied_fresh>>

\* The response cannot be read (or its copy not be allocated): the length is
\* set, the buffer is NULL, and nobody is woken.
ResponseFails(id, len) ==
  /\ LockFree
  /\ id \in asked
  /\ asked' = asked \ {id}
  /\ ddcci_buffer_length' = Truncated(len)
  /\ ddcci_buffer' = 0
  /\ fresh' = FALSE
  /\ UNCHANGED <<painterVars, holders, xfer, done, requests, copied_fresh>>

-----------------------------------------------------------------------------
TransferStep ==
  \/ IgnoreMessage
  \/ \E len \in Lengths : evdi_painter_i2c_data_notify(len)
  \/ RequestResponse
  \/ TakeCompletion
  \/ ResponseTimeout
  \/ CopyResponse

Next ==
  \/ evdi_painter_connect
  \/ evdi_painter_disconnect
  \/ evdi_remove_i2c_adapter
  \/ DisconnectComplete
  \/ \E u \in Users : OpenBus(u) \/ CloseBus(u)
  \/ \E u \in Users, n \in 1..MaxMessages : StartTransfer(u, n)
  \/ TransferStep
  \/ \E id \in asked, len \in Lengths :
        evdi_painter_ddcci_response_ioctl(id, len) \/ ResponseFails(id, len)

Spec == Init /\ [][Next]_vars

\* The thread of the transfer runs: its timer is the kernel's, and it needs
\* nothing else but the lock.
FairSpec == Spec /\ WF_vars(TransferStep)

-----------------------------------------------------------------------------
(***************************************************************************)
(* Properties.                                                             *)
(***************************************************************************)

\* What a transfer copies was stored after its request was made:
\* reinit_completion keeps the completions of earlier responses, and of
\* disconnects, from passing off an old response as the new one.
AnswerIsFresh == copied_fresh

\* A transfer returns whatever the client does, or does not do: it waits "for
\* a maximum of DDCCI_TIMEOUT_MS" (docs/details.md) for each message.
TransferReturns == xfer # NoTransfer ~> xfer = NoTransfer
=============================================================================
