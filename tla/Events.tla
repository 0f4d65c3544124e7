------------------------------- MODULE Events -------------------------------
(***************************************************************************)
(* The event queue of the painter (module/evdi_painter.c): the list        *)
(* pending_events under drm_device->event_lock, the delayed work that      *)
(* retries while the client's file has no room, and the threads that send  *)
(* events while the client connects and disconnects.                       *)
(*                                                                         *)
(* evdi_painter_send_event takes no lock of its own.  update_ready is sent *)
(* under painter->lock; dpms, mode_changed, cursor and ddcci events are    *)
(* sent without it, so a disconnect may come between any two of its steps. *)
(***************************************************************************)
EXTENDS Naturals, Sequences, FiniteSets

CONSTANTS
  Senders,            \* threads that send events
  Files, NoFile,      \* files of clients; drm_filp == NULL
  Types,              \* event types
  Squashable,         \* DRM_EVDI_EVENT_CURSOR_SET, DRM_EVDI_EVENT_CURSOR_MOVE
  LockedTypes,        \* types sent under painter->lock: update_ready
  Capacity,           \* events that fit into a file's event_space
  MaxEvents,          \* bound on the events sent in a behaviour
  OverlapDisconnect   \* may unlocked sends overlap a disconnect?

ASSUME SenderAssumption ==
  /\ NoFile \notin Files
  /\ Squashable \subseteq Types
  /\ LockedTypes \subseteq Types
  /\ OverlapDisconnect \in BOOLEAN

ASSUME CapacityAssumption ==
  /\ Capacity \in Nat \ {0}
  /\ MaxEvents \in Nat

VARIABLES
  is_connected, drm_filp,  \* of struct evdi_painter
  pending_events,          \* painter->pending_events
  work,                    \* PENDING bit of painter->send_events_work
  cancelling,              \* cancel_delayed_work_sync is waiting
  worker,                  \* the work item's function: "idle" or its step
  sender,                  \* per thread: its step and its event
  locked,                  \* painter->lock is held by a sender
  leaving,                 \* step of evdi_painter_disconnect in progress
  unread,                  \* per file: delivered events not yet read
  delivered,               \* history of deliveries
  next_id                  \* events created so far

vars == <<is_connected, drm_filp, pending_events, work, cancelling, worker,
          sender, locked, leaving, unread, delivered, next_id>>

Event == [id : 0..MaxEvents, type : Types]
NoSend == [at |-> "idle", event |-> [id |-> 0, type |-> "none"]]

TypeOK ==
  /\ is_connected \in BOOLEAN
  /\ drm_filp \in Files \cup {NoFile}
  /\ pending_events \in Seq(Event)
  /\ work \in BOOLEAN
  /\ cancelling \in BOOLEAN
  /\ worker \in {"idle", "flush", "reschedule"}
  /\ \A s \in Senders :
       \/ sender[s] = NoSend
       \/ /\ sender[s].at \in {"filp", "connected", "add", "work", "flush",
                               "schedule"}
          /\ sender[s].event \in Event
  /\ locked \in BOOLEAN
  /\ leaving \in {"no", "cleanup", "cancel", "forget"}
  /\ unread \in [Files -> 0..Capacity]
  /\ next_id \in 0..MaxEvents

Init ==
  /\ is_connected = FALSE
  /\ drm_filp = NoFile
  /\ pending_events = <<>>
  /\ work = FALSE
  /\ cancelling = FALSE
  /\ worker = "idle"
  /\ sender = [s \in Senders |-> NoSend]
  /\ locked = FALSE
  /\ leaving = "no"
  /\ unread = [f \in Files |-> 0]
  /\ delivered = <<>>
  /\ next_id = 0

-----------------------------------------------------------------------------
\* painter->lock is free: neither a sender of update_ready nor a disconnect
\* holds it.
LockFree == ~locked /\ leaving = "no"

UnlockedSend(s) == sender[s] # NoSend /\ sender[s].event.type \notin LockedTypes

\* schedule_delayed_work (external): nothing happens while the work is
\* pending, or disabled by a cancel in progress.
ScheduleWork == work' = (work \/ ~cancelling)

Goto(s, step) == sender' = [sender EXCEPT ![s].at = step]

\* evdi_painter_send_event returns; a locked sender then unlocks.
Return(s) ==
  /\ sender' = [sender EXCEPT ![s] = NoSend]
  /\ locked' = (locked /\ sender[s].event.type \notin LockedTypes)

\* A thread makes an event (create_update_ready_event and its siblings; it has
\* memory for it) and calls evdi_painter_send_event.
CreateEvent(s, type) ==
  /\ sender[s] = NoSend
  /\ next_id < MaxEvents
  /\ IF type \in LockedTypes THEN LockFree /\ locked' = TRUE
                             ELSE /\ OverlapDisconnect \/ leaving = "no"
                                  /\ UNCHANGED locked
  /\ next_id' = next_id + 1
  /\ sender' = [sender EXCEPT ![s] =
                  [at |-> "filp", event |-> [id |-> next_id', type |-> type]]]
  /\ UNCHANGED <<is_connected, drm_filp, pending_events, work, cancelling,
                 worker, leaving, unread, delivered>>

\* The two checks; a failed one frees the event.
CheckFilp(s) ==
  /\ sender[s].at = "filp"
  /\ IF drm_filp = NoFile THEN Return(s)
                          ELSE Goto(s, "connected") /\ UNCHANGED locked
  /\ UNCHANGED <<is_connected, drm_filp, pending_events, work, cancelling,
                 worker, leaving, unread, delivered, next_id>>

CheckConnected(s) ==
  /\ sender[s].at = "connected"
  /\ IF is_connected THEN Goto(s, "add") /\ UNCHANGED locked
                     ELSE Return(s)
  /\ UNCHANGED <<is_connected, drm_filp, pending_events, work, cancelling,
                 worker, leaving, unread, delivered, next_id>>

\* Mutant: every event replaces the last one of its type.
SquashAnything(e) == e.type \in Types

\* Under event_lock: a cursor event replaces the last one if that is of its
\* type.
is_evdi_event_squashable(e) == e.type \in Squashable

evdi_painter_add_event_to_pending_list(s) ==
  /\ sender[s].at = "add"
  /\ LET e    == sender[s].event
         n    == Len(pending_events)
         same == n > 0 /\ pending_events[n].type = e.type
     IN pending_events' = IF same /\ is_evdi_event_squashable(e)
                          THEN [pending_events EXCEPT ![n] = e]
                          ELSE Append(pending_events, e)
  /\ Goto(s, "work")
  /\ UNCHANGED <<is_connected, drm_filp, work, cancelling, worker, locked,
                 leaving, unread, delivered, next_id>>

\* The retry is on its way anyhow.
CheckWork(s) ==
  /\ sender[s].at = "work"
  /\ IF work THEN Return(s) ELSE Goto(s, "flush") /\ UNCHANGED locked
  /\ UNCHANGED <<is_connected, drm_filp, pending_events, work, cancelling,
                 worker, leaving, unread, delivered, next_id>>

\* Under event_lock: events go to the file until it is full.  With drm_filp
\* NULL the first reservation dereferences it: the kernel stops.
Room(f) == Capacity - unread[f]

Flushable == IF Len(pending_events) <= Room(drm_filp)
             THEN Len(pending_events) ELSE Room(drm_filp)

evdi_painter_flush_pending_events ==
  \/ /\ pending_events = <<>>
     /\ UNCHANGED <<pending_events, unread, delivered>>
  \/ /\ pending_events # <<>>
     /\ drm_filp # NoFile
     /\ delivered' = delivered \o
          [i \in 1..Flushable |-> [to |-> drm_filp,
                                   event |-> pending_events[i]]]
     /\ unread' = [unread EXCEPT ![drm_filp] = @ + Flushable]
     /\ pending_events' = SubSeq(pending_events, Flushable + 1,
                                 Len(pending_events))

SendFlush(s) ==
  /\ sender[s].at = "flush"
  /\ evdi_painter_flush_pending_events
  /\ IF pending_events' = <<>> THEN Return(s)
                               ELSE Goto(s, "schedule") /\ UNCHANGED locked
  /\ UNCHANGED <<is_connected, drm_filp, work, cancelling, worker, leaving,
                 next_id>>

\* Mutant: a sender that could not flush everything leaves it at that.
SendWithoutSchedule(s) ==
  /\ sender[s].at = "schedule"
  /\ Return(s)
  /\ UNCHANGED <<is_connected, drm_filp, pending_events, work, cancelling,
                 worker, leaving, unread, delivered, next_id>>

SendSchedule(s) ==
  /\ sender[s].at = "schedule"
  /\ ScheduleWork
  /\ Return(s)
  /\ UNCHANGED <<is_connected, drm_filp, pending_events, cancelling, worker,
                 leaving, unread, delivered, next_id>>

SendStep(s) ==
  \/ CheckFilp(s)
  \/ CheckConnected(s)
  \/ evdi_painter_add_event_to_pending_list(s)
  \/ CheckWork(s)
  \/ SendFlush(s)
  \/ SendSchedule(s)

-----------------------------------------------------------------------------
(***************************************************************************)
(* evdi_send_events_work, on a kworker, after the delay.                   *)
(***************************************************************************)
WorkStart ==
  /\ work /\ worker = "idle"
  /\ work' = FALSE
  /\ worker' = "flush"
  /\ UNCHANGED <<is_connected, drm_filp, pending_events, cancelling, sender,
                 locked, leaving, unread, delivered, next_id>>

WorkFlush ==
  /\ worker = "flush"
  /\ evdi_painter_flush_pending_events
  /\ worker' = IF pending_events' = <<>> THEN "idle" ELSE "reschedule"
  /\ UNCHANGED <<is_connected, drm_filp, work, cancelling, sender, locked,
                 leaving, next_id>>

\* Mutant: the work gives up after one retry.
WorkGivesUp ==
  /\ worker = "reschedule"
  /\ worker' = "idle"
  /\ UNCHANGED <<is_connected, drm_filp, pending_events, work, cancelling,
                 sender, locked, leaving, unread, delivered, next_id>>

WorkReschedule ==
  /\ worker = "reschedule"
  /\ ScheduleWork
  /\ worker' = "idle"
  /\ UNCHANGED <<is_connected, drm_filp, pending_events, cancelling, sender,
                 locked, leaving, unread, delivered, next_id>>

evdi_send_events_work == WorkStart \/ WorkFlush \/ WorkReschedule

-----------------------------------------------------------------------------
(***************************************************************************)
(* The client.                                                             *)
(***************************************************************************)
evdi_painter_connect(f) ==
  /\ LockFree
  /\ drm_filp' = f
  /\ is_connected' = TRUE
  /\ UNCHANGED <<pending_events, work, cancelling, worker, sender, locked,
                 leaving, unread, delivered, next_id>>

\* Mutant: the file is forgotten first.
DisconnectForgetsFirst ==
  /\ LockFree
  /\ drm_filp # NoFile
  /\ is_connected' = FALSE
  /\ drm_filp' = NoFile
  /\ leaving' = "cleanup"
  /\ UNCHANGED <<pending_events, work, cancelling, worker, sender, locked,
                 unread, delivered, next_id>>

\* evdi_painter_disconnect, under painter->lock from here to DisconnectForget.
evdi_painter_disconnect ==
  /\ LockFree
  /\ drm_filp # NoFile
  /\ OverlapDisconnect \/ \A s \in Senders : ~UnlockedSend(s)
  /\ is_connected' = FALSE
  /\ leaving' = "cleanup"
  /\ UNCHANGED <<drm_filp, pending_events, work, cancelling, worker, sender,
                 locked, unread, delivered, next_id>>

\* evdi_painter_events_cleanup: the list is emptied under event_lock, then the
\* work is cancelled and its function waited for.
CleanupList ==
  /\ leaving = "cleanup"
  /\ pending_events' = <<>>
  /\ leaving' = "cancel"
  /\ UNCHANGED <<is_connected, drm_filp, work, cancelling, worker, sender,
                 locked, unread, delivered, next_id>>

CancelWork ==
  /\ leaving = "cancel"
  /\ \/ /\ ~cancelling
        /\ cancelling' = TRUE
        /\ work' = FALSE
        /\ UNCHANGED leaving
     \/ /\ cancelling /\ worker = "idle"
        /\ cancelling' = FALSE
        /\ leaving' = "forget"
        /\ UNCHANGED work
  /\ UNCHANGED <<is_connected, drm_filp, pending_events, worker, sender,
                 locked, unread, delivered, next_id>>

DisconnectForget ==
  /\ leaving = "forget"
  /\ drm_filp' = NoFile
  /\ leaving' = "no"
  /\ UNCHANGED <<is_connected, pending_events, work, cancelling, worker,
                 sender, locked, unread, delivered, next_id>>

DisconnectStep == CleanupList \/ CancelWork \/ DisconnectForget

\* The client reads an event, which makes room (external: drm_read).
ReadEvent(f) ==
  /\ unread[f] > 0
  /\ unread' = [unread EXCEPT ![f] = @ - 1]
  /\ UNCHANGED <<is_connected, drm_filp, pending_events, work, cancelling,
                 worker, sender, locked, leaving, delivered, next_id>>

-----------------------------------------------------------------------------
Next ==
  \/ \E s \in Senders : SendStep(s) \/ \E t \in Types : CreateEvent(s, t)
  \/ evdi_send_events_work
  \/ \E f \in Files : evdi_painter_connect(f) \/ ReadEvent(f)
  \/ evdi_painter_disconnect
  \/ DisconnectStep

Spec == Init /\ [][Next]_vars

\* Threads that run keep running, a pending work item is run, and the client
\* reads what it is sent.
FairSpec ==
  /\ Spec
  /\ \A s \in Senders : WF_vars(SendStep(s))
  /\ WF_vars(evdi_send_events_work)
  /\ WF_vars(DisconnectStep)
  /\ \A f \in Files : WF_vars(ReadEvent(f))

-----------------------------------------------------------------------------
(***************************************************************************)
(* Properties.                                                             *)
(***************************************************************************)

\* No flush finds an event and no file to reserve its space in: the checks of
\* evdi_painter_send_event promise one, and so must the retry work, which
\* makes none.
NoFlushWithoutFile ==
  (worker = "flush" \/ \E s \in Senders : sender[s].at = "flush")
    => (pending_events # <<>> => drm_filp # NoFile)

\* No lost wakeup: an event in the list is on somebody's way to a flush, the
\* work item's, a sender's or the disconnect's that will drop it.
NoStrandedEvent ==
  pending_events # <<>> =>
    \/ work \/ worker # "idle"
    \/ \E s \in Senders : sender[s].at \in {"work", "flush", "schedule"}
    \/ leaving = "cleanup"

\* The queue implements the channel its clients rely on.
Channel == INSTANCE EventChannel WITH
  Clients <- Files, NoClient <- NoFile, Ids <- 0..MaxEvents,
  client <- drm_filp, connected <- is_connected, queue <- pending_events

ImplementsChannel == Channel!Spec

\* Every event leaves the list: the client that reads gets it, or the
\* disconnect drops it.
EventsLeaveTheList == pending_events # <<>> ~> pending_events = <<>>
=============================================================================
