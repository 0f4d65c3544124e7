------------------------------- MODULE PyCard -------------------------------
(***************************************************************************)
(* The client loop of the Python bindings (pyevdi/Card.cpp, Buffer.cpp) on *)
(* one libevdi handle (module LibEvdi).                                    *)
(*                                                                         *)
(* The program calls Card.handle_events again and again.  Each call asks   *)
(* for an update, waits and dispatches the events read to the handlers of  *)
(* Card, which grab pixels, pass buffers to the consumer and ask again;    *)
(* between any two calls into the kernel the compositor may go on.         *)
(*                                                                         *)
(* Buffers are std::shared_ptr: one is unregistered when nobody refers to  *)
(* it, and is free when only the card's list does.  The consumer (the      *)
(* acquire_framebuffer_handler) drops a buffer or keeps it for a while.    *)
(* Its handlers call nothing of the card, and it drops all its buffers     *)
(* before it closes the card: a later ~Buffer would use a freed handle.    *)
(***************************************************************************)
EXTENDS LibEvdi

CONSTANTS
  NoBuffer,     \* buffer_requested == nullptr
  MaxKept       \* how many buffers the consumer keeps at once

ASSUME NoBufferAssumption == NoBuffer \notin BufferIds
ASSUME KeptAssumption == MaxKept \in Nat

VARIABLES
  buffers,           \* Card's list of buffers
  buffer_requested,  \* the buffer an update was asked for
  kept,              \* buffers the consumer refers to
  batch,             \* events read and not dispatched yet
  pc,                \* where the thread that uses the card is
  caller,            \* where request_update and grab_pixels return to: the
                     \* handlers run between "dispatch" and "idle"
  inVain             \* history: since the card last got new buffers, it has
                     \* found none of them free, or asked while disconnected

cardVars == <<buffers, buffer_requested, kept, batch, pc, caller, inVain>>
vars == <<kernelVars, handleVars, cardVars>>

Steps == {"closed", "idle", "select", "dispatch", "request", "grab",
          "handler", "aborted"}

Listed == {buffers[i] : i \in 1..Len(buffers)}

TypeOK ==
  /\ LibTypeOK
  /\ buffers \in Seq(BufferIds)
  /\ buffer_requested \in BufferIds \cup {NoBuffer}
  /\ kept \subseteq BufferIds /\ Cardinality(kept) <= MaxKept
  /\ batch \in Seq(EventTypes)
  /\ pc \in Steps
  /\ caller \in {"select", "dispatch"}
  /\ inVain \in BOOLEAN

Init ==
  /\ LibInit
  /\ buffers = <<>>
  /\ buffer_requested = NoBuffer
  /\ kept = {}
  /\ batch = <<>>
  /\ pc = "closed"
  /\ caller = "select"
  /\ inVain = FALSE

-----------------------------------------------------------------------------
(***************************************************************************)
(* Calls of the program while no handler runs.                             *)
(***************************************************************************)

\* Card::Card.  (If evdi_open fails, the constructor throws and there is no
\* card.)
OpenCard ==
  /\ pc = "closed"
  /\ evdi_open
  /\ pc' = "idle"
  /\ UNCHANGED <<buffers, buffer_requested, kept, batch, caller, inVain>>

connect ==
  /\ pc = "idle"
  /\ evdi_connect
  /\ UNCHANGED cardVars

disconnect ==
  /\ pc = "idle"
  /\ evdi_disconnect
  /\ UNCHANGED cardVars

\* Card::close: clearBuffers destroys every buffer, then the handle goes.
close ==
  /\ pc = "idle" /\ kept = {}
  /\ evdi_close
  /\ frameBuffers' = evdi_unregister_buffer(frameBuffers, Listed)
  /\ buffers' = <<>>
  /\ buffer_requested' = NoBuffer
  /\ pc' = "closed"
  /\ inVain' = (inVain /\ ~is_connected)
  /\ UNCHANGED <<kept, batch, caller>>

\* Card::handle_events looks neither at the connection nor at the buffers.
handle_events ==
  /\ pc = "idle"
  /\ pc' = "request"
  /\ UNCHANGED <<kernelVars, handleVars, buffers, buffer_requested, kept,
                 batch, caller, inVain>>

\* A reference of the consumer goes, while Python code may run: between the
\* calls and in or around the handlers.  The last one destroys the buffer.
Release(id) ==
  /\ pc \in {"idle", "dispatch", "handler"}
  /\ id \in kept
  /\ kept' = kept \ {id}
  /\ frameBuffers' = IF id \in Listed THEN frameBuffers
                     ELSE evdi_unregister_buffer(frameBuffers, {id})
  /\ UNCHANGED <<kernelVars, bufferToUpdate, buffers, buffer_requested, batch,
                 pc, caller, inVain>>

-----------------------------------------------------------------------------
(***************************************************************************)
(* request_update and grab_pixels, which call each other in turns.         *)
(***************************************************************************)

\* Mutant: a buffer may be asked for while the consumer reads it.
AnyBuffer == Listed \ {buffer_requested}

\* Buffers with use_count() == 1: only the list refers to them.
FreeBuffers == Listed \ (kept \cup {buffer_requested})

IsFirstFree(i) ==
  /\ buffers[i] \in FreeBuffers
  /\ \A j \in 1..(i - 1) : buffers[j] \notin FreeBuffers

\* A request is outstanding already, or there is no free buffer.
RequestNothing ==
  /\ pc = "request"
  /\ buffer_requested # NoBuffer \/ FreeBuffers = {}
  /\ pc' = caller
  /\ inVain' = (inVain \/ (buffer_requested = NoBuffer /\ buffers # <<>>))
  /\ UNCHANGED <<kernelVars, handleVars, buffers, buffer_requested, kept,
                 batch, caller>>

\* Mutant: pixels are never grabbed at once.
RequestAndWait ==
  /\ pc = "request"
  /\ buffer_requested = NoBuffer
  /\ \E i \in 1..Len(buffers) :
       /\ IsFirstFree(i)
       /\ buffer_requested' = buffers[i]
       /\ evdi_request_update(buffers[i])
  /\ pc' = caller
  /\ inVain' = (inVain \/ ~is_connected)
  /\ UNCHANGED <<is_connected, damaged, scanout, needs_full_modeset,
                 commit, events, frameBuffers, buffers, kept, batch, caller>>

request_update ==
  /\ pc = "request"
  /\ buffer_requested = NoBuffer
  /\ \E i \in 1..Len(buffers) :
       /\ IsFirstFree(i)
       /\ buffer_requested' = buffers[i]
       /\ evdi_request_update(buffers[i])
  /\ pc' = IF GrabImmediately THEN "grab" ELSE caller
  /\ inVain' = (inVain \/ ~is_connected)
  /\ UNCHANGED <<is_connected, damaged, scanout, needs_full_modeset,
                 commit, events, frameBuffers, buffers, kept, batch, caller>>

grab_pixels ==
  /\ pc = "grab"
  /\ evdi_grab_pixels
  /\ pc' = "handler"
  /\ UNCHANGED <<is_connected, scanout, was_update_requested,
                 needs_full_modeset, commit, events, handleVars, buffers, buffer_requested, kept, batch,
                 caller, inVain>>

\* acquire_framebuffer_handler keeps the buffer or drops it, grabbed or not;
\* then the next update is asked for.
AcquireFramebuffer ==
  /\ pc = "handler"
  /\ \/ UNCHANGED kept
     \/ /\ Cardinality(kept) < MaxKept
        /\ kept' = kept \cup {buffer_requested}
  /\ buffer_requested' = NoBuffer
  /\ pc' = "request"
  /\ UNCHANGED <<kernelVars, handleVars, buffers, batch, caller, inVain>>

-----------------------------------------------------------------------------
(***************************************************************************)
(* The rest of handle_events: select, evdi_handle_events, the handlers.    *)
(***************************************************************************)

SelectTimeout ==
  /\ pc = "select"
  /\ events = <<>>
  /\ pc' = "idle"
  /\ UNCHANGED <<kernelVars, handleVars, buffers, buffer_requested, kept,
                 batch, caller, inVain>>

\* One read returns every queued event: they fit into the 1024 bytes.
ReadEvents ==
  /\ pc = "select"
  /\ events # <<>>
  /\ batch' = events
  /\ events' = <<>>
  /\ pc' = "dispatch"
  /\ caller' = "dispatch"
  /\ UNCHANGED <<is_connected, damaged, scanout, was_update_requested,
                 needs_full_modeset, commit,
                 handleVars, buffers, buffer_requested, kept, inVain>>

DispatchDone ==
  /\ pc = "dispatch"
  /\ batch = <<>>
  /\ pc' = "idle"
  /\ caller' = "select"
  /\ UNCHANGED <<kernelVars, handleVars, buffers, buffer_requested, kept,
                 batch, inVain>>

NextEvent(t) == pc = "dispatch" /\ batch # <<>> /\ Head(batch) = t

\* The assertion of default_update_ready_handler, which is given
\* bufferToUpdate and dereferences buffer_requested.
IsForRequested ==
  buffer_requested # NoBuffer /\ bufferToUpdate = buffer_requested

default_update_ready_handler ==
  /\ NextEvent("update_ready")
  /\ batch' = Tail(batch)
  /\ pc' = IF IsForRequested THEN "grab" ELSE "aborted"
  /\ UNCHANGED <<kernelVars, handleVars, buffers, buffer_requested, kept,
                 caller, inVain>>

\* Ids of no buffer that lives on, nor of the last one asked for, which a late
\* event names.  (The code counts ids up; reusing old ones bounds them.)
FreshIds == BufferIds \ (kept \cup {bufferToUpdate})

\* Mutant: buffers are not unregistered when they are destroyed.
MakeBuffersLeak ==
  LET first == CHOOSE i \in FreshIds : \A j \in FreshIds : i <= j
      rest == FreshIds \ {first}
      second == CHOOSE i \in rest : \A j \in rest : i <= j
  IN /\ buffers' = <<first, second>>
     /\ frameBuffers' = evdi_register_buffer(frameBuffers, {first, second})

\* Card::makeBuffers(2): the list is cleared, so the buffers nobody else
\* refers to are destroyed, and two new ones are registered.
makeBuffers ==
  LET first == CHOOSE i \in FreshIds : \A j \in FreshIds : i <= j
      rest == FreshIds \ {first}
      second == CHOOSE i \in rest : \A j \in rest : i <= j
  IN /\ buffers' = <<first, second>>
     /\ frameBuffers' =
          evdi_register_buffer(
            evdi_unregister_buffer(frameBuffers, Listed \ kept),
            {first, second})

\* Mutant: no update of the new buffers is asked for.
ModeForgetsRequest ==
  /\ NextEvent("mode_changed")
  /\ makeBuffers
  /\ buffer_requested' = NoBuffer
  /\ batch' = Tail(batch)
  /\ inVain' = (inVain /\ ~is_connected)
  /\ UNCHANGED <<kernelVars, bufferToUpdate, kept, caller, pc>>

\* New buffers, and an update of one of them.
card_C_mode_handler ==
  /\ NextEvent("mode_changed")
  /\ makeBuffers
  /\ buffer_requested' = NoBuffer
  /\ batch' = Tail(batch)
  /\ pc' = "request"
  /\ inVain' = (inVain /\ ~is_connected)
  /\ UNCHANGED <<kernelVars, bufferToUpdate, kept, caller>>

-----------------------------------------------------------------------------
\* What the thread does next when it is inside handle_events.
CardStep ==
  \/ RequestNothing
  \/ request_update
  \/ grab_pixels
  \/ AcquireFramebuffer
  \/ SelectTimeout
  \/ ReadEvents
  \/ DispatchDone
  \/ default_update_ready_handler
  \/ card_C_mode_handler

\* The assertion has failed: the program is over, and with it the story told
\* here.
Aborted == pc = "aborted" /\ UNCHANGED vars

KernelStep ==
  /\ pc # "aborted"
  /\ PlaneUpdate \/ CursorUpdate \/ CommitStep
  /\ UNCHANGED cardVars

Next ==
  \/ OpenCard
  \/ connect
  \/ disconnect
  \/ close
  \/ handle_events
  \/ CardStep
  \/ \E id \in kept : Release(id)
  \/ KernelStep
  \/ Aborted

Spec == Init /\ [][Next]_vars

\* A commit that has started is carried out; the program stays in its loop.
\* Nobody has to commit, to connect or to release a buffer.
FairSpec == /\ Spec
            /\ WF_vars(CommitStep /\ UNCHANGED cardVars)
            /\ WF_vars(CardStep)
            /\ WF_vars(handle_events)

-----------------------------------------------------------------------------
(***************************************************************************)
(* Properties.                                                             *)
(***************************************************************************)

\* The library's list of frame buffers is exactly the set of live Buffer
\* objects, through mode changes that replace all buffers while the consumer
\* keeps some and an update of another is outstanding: no buffer is leaked in
\* the list or unregistered twice.
RegisteredAreLive ==
  frameBuffers = Listed \cup kept

\* The kernel writes only into a registered buffer that the card asked for and
\* that no consumer reads: bufferToUpdate, which the library remembers since
\* the last request, is still the buffer the card means.
GrabWritesOwnBuffer ==
  pc = "grab" => /\ bufferToUpdate = buffer_requested
                 /\ bufferToUpdate \in frameBuffers
                 /\ bufferToUpdate \notin kept

\* What the assertion of default_update_ready_handler (Card.cpp:13) rests on.
\* An update that is announced is the one the card waits for, also after new
\* modes, immediate grabs, disconnects and a new session, unless the card has
\* asked in vain: with all its buffers at the consumer, or while disconnected.
\* Nothing in the code rules that out, and then the assertion may fail.
UpdateReadyIsForRequested ==
  NextEvent("update_ready") /\ ~inVain => IsForRequested

\* The card never waits for an update nobody owes it.  A card that is done
\* with its events and has a request outstanding is answered: the painter
\* remembers the request, or the answer or a new mode is on its way.
RequestIsOwed ==
  /\ pc \in {"idle", "select"}
  /\ buffer_requested # NoBuffer /\ is_connected
  => \/ was_update_requested
     \/ Carries(events, "update_ready")
     \/ Carries(events, "mode_changed")
     \/ needs_full_modeset

\* Damage is grabbed by a connected card that has a buffer the consumer does
\* not keep, unless a full modeset is owed, which replaces the buffers, or the
\* program fails the assertion of Card.cpp:13.
DamageIsGrabbed ==
  /\ damaged /\ is_connected /\ scanout
  /\ buffers # <<>> /\ ~needs_full_modeset
  ~> \/ ~damaged \/ ~is_connected \/ needs_full_modeset
     \/ Listed \subseteq kept
     \/ pc = "aborted"
=============================================================================
