------------------------------ MODULE LibEvdi ------------------------------
(***************************************************************************)
(* One handle of libevdi (library/evdi_lib.c): its list of frame buffers,  *)
(* requests, grabs and the events it reads, on top of what the painter of  *)
(* the kernel module keeps for the client.                                 *)
(*                                                                         *)
(* The painter is reduced to what an ioctl or an event can tell: whether   *)
(* there is damage, whether there is a scanout buffer, the request flag    *)
(* and the full-modeset flag.  Module Painter has the painter in detail,   *)
(* module Events the way of an event to the file's queue; here             *)
(* mode_changed is sent and its flag cleared in one step.  Sizes and       *)
(* pixels are abstracted: a grab into a buffer of the wrong size fails,    *)
(* and costs the damage all the same.                                      *)
(*                                                                         *)
(* The operations of the library are operators over these variables; the   *)
(* program that calls them (module PyCard) makes actions of them.          *)
(***************************************************************************)
EXTENDS Integers, Sequences, FiniteSets

CONSTANTS
  BufferIds,  \* ids of frame buffers
  MaxEvents   \* bound on the events queued at the file

ASSUME IdAssumption == BufferIds \subseteq Nat /\ 0 \in BufferIds
ASSUME EventAssumption == MaxEvents \in Nat \ {0}

VARIABLES
  \* struct evdi_painter and its device: num_dirts > 0, scanout_fb # NULL
  is_connected, damaged, scanout, was_update_requested,
  needs_full_modeset,
  commit,          \* the commit in progress
  events,          \* drm_file's event_list
  \* struct evdi_device_context
  bufferToUpdate,
  frameBuffers     \* ids of the registered buffers

kernelVars == <<is_connected, damaged, scanout, was_update_requested,
                needs_full_modeset, commit, events>>
handleVars == <<bufferToUpdate, frameBuffers>>

\* DPMS, CRTC state, cursor and DDC/CI events reach a handler of the client and
\* change nothing here.
EventTypes == {"update_ready", "mode_changed"}

\* An event of type t is among s.
Carries(s, t) == \E i \in 1..Len(s) : s[i] = t

LibTypeOK ==
  /\ is_connected \in BOOLEAN
  /\ damaged \in BOOLEAN
  /\ scanout \in BOOLEAN
  /\ was_update_requested \in BOOLEAN
  /\ needs_full_modeset \in BOOLEAN
  /\ commit \in {"none", "mode_changed", "flush", "update_ready"}
  /\ events \in Seq(EventTypes) /\ Len(events) <= MaxEvents
  /\ bufferToUpdate \in BufferIds
  /\ frameBuffers \subseteq BufferIds

\* A painter nobody has used, and no handle.
LibInit ==
  /\ is_connected = FALSE
  /\ damaged = FALSE
  /\ scanout = FALSE
  /\ was_update_requested = FALSE
  /\ needs_full_modeset = TRUE
  /\ commit = "none"
  /\ events = <<>>
  /\ bufferToUpdate = 0
  /\ frameBuffers = {}

-----------------------------------------------------------------------------
(***************************************************************************)
(* The compositor's commits (module Painter), as the client sees them.     *)
(***************************************************************************)

\* evdi_painter_send_event, with room at the file.
Send(e) ==
  /\ Len(events) < MaxEvents
  /\ events' = IF is_connected THEN Append(events, e) ELSE events

\* A commit with a framebuffer on the primary plane: a new framebuffer may
\* force a full modeset; it or a pending full modeset sets the scanout buffer;
\* damage, the whole screen if there is no other, is marked if there is a
\* scanout buffer.  No mode is told while the CRTC is inactive.
PlaneUpdate ==
  /\ commit = "none"
  /\ \E fb_changed, forced \in BOOLEAN :
       /\ forced => fb_changed
       /\ needs_full_modeset' = (needs_full_modeset \/ forced)
       /\ scanout' = (scanout \/ fb_changed \/ needs_full_modeset')
  /\ commit' \in {"mode_changed", "flush", "update_ready"}
  /\ damaged' = (damaged \/ scanout')
  /\ UNCHANGED <<is_connected, was_update_requested, events, handleVars>>

\* A commit of the cursor.  Without cursor events it damages the screen, into
\* which the cursor is blended; with them, or if nothing visible changed, it does
\* not.  Whether the client has enabled them is left open (see module Cursor).
CursorUpdate ==
  /\ commit = "none"
  /\ commit' \in {"flush", "update_ready"}
  /\ damaged' = damaged \/ damaged' = (damaged \/ scanout)
  /\ UNCHANGED <<is_connected, scanout, was_update_requested,
                 needs_full_modeset, events, handleVars>>

\* evdi_crtc_atomic_flush tells the mode if it changed or is owed...
FlushMode ==
  /\ commit \in {"mode_changed", "flush"}
  /\ IF /\ commit = "mode_changed" \/ needs_full_modeset
        /\ scanout
     THEN Send("mode_changed") /\ needs_full_modeset' = FALSE
     ELSE UNCHANGED <<events, needs_full_modeset>>
  /\ commit' = "update_ready"
  /\ UNCHANGED <<is_connected, damaged, scanout, was_update_requested,
                 handleVars>>

\* Mutant: the flush does not answer requests.
FlushSilently ==
  /\ commit = "update_ready"
  /\ commit' = "none"
  /\ UNCHANGED <<is_connected, damaged, scanout, was_update_requested,
                 needs_full_modeset, events, handleVars>>

\* ... and then answers the request if there is damage.
FlushUpdate ==
  /\ commit = "update_ready"
  /\ IF was_update_requested /\ damaged
     THEN Send("update_ready") /\ was_update_requested' = FALSE
     ELSE UNCHANGED <<events, was_update_requested>>
  /\ commit' = "none"
  /\ UNCHANGED <<is_connected, damaged, scanout, needs_full_modeset,
                 handleVars>>

CommitStep == FlushMode \/ FlushUpdate

-----------------------------------------------------------------------------
(***************************************************************************)
(* The library's calls.                                                    *)
(***************************************************************************)

\* evdi_open: the card is one of evdi's and opens; the handle is zeroed.
evdi_open ==
  /\ bufferToUpdate' = 0
  /\ frameBuffers' = {}
  /\ UNCHANGED kernelVars

\* evdi_connect2: the painter owes a full modeset.
evdi_connect ==
  /\ is_connected' = TRUE
  /\ needs_full_modeset' = TRUE
  /\ UNCHANGED <<damaged, scanout, was_update_requested, commit, events,
                 handleVars>>

\* What evdi_painter_disconnect resets if the handle is the connected client;
\* events already queued at the file stay.
Disconnected ==
  IF is_connected
  THEN /\ is_connected' = FALSE
       /\ scanout' = FALSE
       /\ was_update_requested' = FALSE
  ELSE UNCHANGED <<is_connected, scanout, was_update_requested>>

evdi_disconnect ==
  /\ Disconnected
  /\ UNCHANGED <<damaged, needs_full_modeset, commit, events, handleVars>>

\* close of the file: evdi_painter_close, and the queue is freed.
evdi_close ==
  /\ Disconnected
  /\ events' = <<>>
  /\ UNCHANGED <<damaged, needs_full_modeset, commit, bufferToUpdate>>

findBuffer(id) == id \in frameBuffers

\* addFrameBuffer and removeFrameBuffer, on a list of which only the ids
\* matter.
evdi_register_buffer(fbs, ids) == fbs \cup ids

evdi_unregister_buffer(fbs, ids) == fbs \ ids

\* The answer of the request ioctl is 1: grab at once.
GrabImmediately == damaged /\ ~was_update_requested

\* evdi_request_update: the last buffer asked for is the one grabbed next.
evdi_request_update(id) ==
  /\ bufferToUpdate' = id
  /\ was_update_requested' = (was_update_requested \/ ~damaged)

\* evdi_grab_pixels: the buffer is looked up by id, and nothing is grabbed if
\* it is not registered.  The ioctl fails with EAGAIN without a scanout buffer,
\* and drm_ioctl tries again until a commit has set one; then it takes the
\* damage, before it compares the sizes.
evdi_grab_pixels ==
  /\ findBuffer(bufferToUpdate) => scanout
  /\ damaged' = (damaged /\ ~findBuffer(bufferToUpdate))
=============================================================================
