------------------------------ MODULE Painter ------------------------------
(***************************************************************************)
(* The painter of the evdi kernel module (module/evdi_painter.c), driven   *)
(* by the atomic-commit callbacks of module/evdi_modeset.c, by the ioctls  *)
(* and the release of DRM files, and by the VT notifier.                   *)
(*                                                                         *)
(* A section under painter->lock is one action.  What the code does        *)
(* outside the lock (reading needs_full_modeset, sending mode_changed and  *)
(* then clearing the flag, the VT notifier's check, notification and flag, *)
(* the check of evdi_painter_close) is an action per access, so that the   *)
(* other actors may step in between.                                       *)
(*                                                                         *)
(* Abstracted data: dirty rectangles to their number, framebuffers and     *)
(* page-flip events to identities.  What a commit carries is chosen at the *)
(* callback that first reads it.  Delivering an event is one step here:    *)
(* module Events models the queue behind evdi_painter_send_event.          *)
(***************************************************************************)
EXTENDS Integers, FiniteSets

CONSTANTS
  Files,          \* open files of the card (struct drm_file)
  NoFile,         \* drm_filp == NULL
  Fbs,            \* framebuffers
  NoFb,           \* scanout_fb == NULL, or a plane without framebuffer
  VblankEvents,   \* page-flip completion events of the compositor
  NoEvent,        \* a commit that asks for no event, vblank == NULL
  Consoles,       \* virtual terminals
  MAX_DIRTS,      \* capacity of painter->dirty_rects
  MaxClips,       \* bound on the damage clips of one commit
  OverlapModeset  \* may connects and VT switches set needs_full_modeset while
                  \* evdi_painter_mode_changed_notify runs?

ASSUME NullAssumption ==
  /\ NoFile \notin Files
  /\ NoFb \notin Fbs
  /\ NoEvent \notin VblankEvents

\* collapse_dirty_rects leaves one rectangle, so two must fit.
ASSUME BoundAssumption ==
  /\ MAX_DIRTS \in Nat /\ MAX_DIRTS >= 2
  /\ MaxClips \in Nat

ASSUME OverlapAssumption == OverlapModeset \in BOOLEAN

ASSUME ConsoleAssumption == Consoles # {}

VARIABLES
  \* struct evdi_painter (cursor_events_enabled is of struct evdi_device)
  is_connected, drm_filp, num_dirts, scanout_fb, was_update_requested,
  needs_full_modeset, vblank, fg_console, cursor_events_enabled,
  \* DRM core: framebuffer references, the ones user space holds, the state
  \* of the primary plane and of the CRTC, the console in the foreground
  refs, user_fbs, plane_fb, crtc_active, console,
  \* the commit in progress
  pc, commit,
  \* per file: its life cycle and its grabpix ioctl in flight
  file, grab,
  \* the VT notifier in progress
  vt,
  \* history: deliveries of each page-flip event since it was issued, and
  \* what the connected client has been told since it connected
  sent, mode_told, dpms_told

painterVars == <<is_connected, drm_filp, num_dirts, scanout_fb,
                 was_update_requested, needs_full_modeset, vblank,
                 fg_console, cursor_events_enabled>>
kmsVars     == <<refs, user_fbs, plane_fb, crtc_active, console>>
commitVars  == <<pc, commit>>
clientVars  == <<file, grab>>
toldVars    == <<mode_told, dpms_told>>
vars == <<painterVars, kmsVars, commitVars, clientVars, vt, sent, toldVars>>

NoGrab   == [fb |-> NoFb, vblank |-> NoEvent]
NoCommit == [old_fb |-> NoFb, event |-> NoEvent, marks |-> 0,
             notify_mode |-> FALSE, notify_dpms |-> FALSE]

CommitSteps == {"plane", "modeset", "scanout", "damage", "num_dirts",
                "fullscreen", "cursor", "cursor_damage", "flush",
                "flush_dpms", "mode", "mode_send", "mode_clear", "dpms",
                "vblank", "update_ready"}

TypeOK ==
  /\ is_connected \in BOOLEAN
  /\ drm_filp \in Files \cup {NoFile}
  /\ num_dirts \in 0..MAX_DIRTS
  /\ scanout_fb \in Fbs \cup {NoFb}
  /\ was_update_requested \in BOOLEAN
  /\ needs_full_modeset \in BOOLEAN
  /\ vblank \in VblankEvents \cup {NoEvent}
  /\ fg_console \in Consoles
  /\ cursor_events_enabled \in BOOLEAN
  /\ refs \in [Fbs -> Int]
  /\ user_fbs \in SUBSET Fbs
  /\ plane_fb \in Fbs \cup {NoFb}
  /\ crtc_active \in BOOLEAN
  /\ console \in Consoles
  /\ pc \in {"idle"} \cup CommitSteps
  /\ commit \in [old_fb : Fbs \cup {NoFb},
                 event : VblankEvents \cup {NoEvent},
                 marks : Nat,
                 notify_mode : BOOLEAN,
                 notify_dpms : BOOLEAN]
  /\ file \in [Files -> {"closed", "open", "closing"}]
  /\ grab \in [Files -> [fb : Fbs \cup {NoFb},
                         vblank : VblankEvents \cup {NoEvent}]]
  /\ vt \in {"idle", "dpms_off", "force"}
  /\ sent \in [VblankEvents -> Nat]
  /\ mode_told \in BOOLEAN
  /\ dpms_told \in {"unknown", "on", "off"}

(***************************************************************************)
(* evdi_painter_init: the painter of a fresh device.  No commit has put a  *)
(* framebuffer on the plane, no event has been issued.                     *)
(***************************************************************************)
Init ==
  /\ is_connected = FALSE
  /\ drm_filp = NoFile
  /\ num_dirts = 0
  /\ scanout_fb = NoFb
  /\ was_update_requested = FALSE
  /\ needs_full_modeset = TRUE
  /\ vblank = NoEvent
  /\ console \in Consoles
  /\ fg_console \in Consoles
  /\ cursor_events_enabled = FALSE
  /\ refs = [fb \in Fbs |-> 0]
  /\ user_fbs = {}
  /\ plane_fb = NoFb
  /\ crtc_active = FALSE
  /\ pc = "idle"
  /\ commit = NoCommit
  /\ file = [f \in Files |-> "closed"]
  /\ grab = [f \in Files |-> NoGrab]
  /\ vt = "idle"
  /\ sent = [e \in VblankEvents |-> 1]
  /\ mode_told = FALSE
  /\ dpms_told = "unknown"

-----------------------------------------------------------------------------
(***************************************************************************)
(* Helpers.                                                                *)
(***************************************************************************)

\* drm_framebuffer_get and drm_framebuffer_put (external).
Get(r, fb) == IF fb = NoFb THEN r ELSE [r EXCEPT ![fb] = @ + 1]
Put(r, fb) == IF fb = NoFb THEN r ELSE [r EXCEPT ![fb] = @ - 1]

\* evdi_send_vblank: deliver the event, if there is one.
evdi_send_vblank(s, e) == IF e = NoEvent THEN s ELSE [s EXCEPT ![e] = @ + 1]

\* Mutant: the merge loses a rectangle.
MergeLosesRect(n) == 0..n

\* How many rectangles merge_dirty_rects may leave of n (module DirtyRects
\* computes the number).
merge_dirty_rects(n) == IF n = 0 THEN {0} ELSE 1..n

\* collapse_dirty_rects leaves the bounding rectangle.
collapse_dirty_rects == 1

\* The checks of evdi_painter_send_event.
CanSend == drm_filp # NoFile /\ is_connected

(***************************************************************************)
(* evdi_painter_mark_dirty, under the lock.                                *)
(***************************************************************************)
evdi_painter_mark_dirty ==
  \/ /\ scanout_fb = NoFb
     /\ UNCHANGED num_dirts
  \/ /\ scanout_fb # NoFb
     /\ num_dirts < MAX_DIRTS
     /\ num_dirts' = num_dirts + 1
  \/ /\ scanout_fb # NoFb
     /\ num_dirts = MAX_DIRTS
     /\ \E n \in merge_dirty_rects(num_dirts) :
          num_dirts' = IF n = MAX_DIRTS THEN collapse_dirty_rects + 1
                                        ELSE n + 1

\* evdi_painter_dpms_notify(mode): the unlocked check of is_connected, the
\* console the client is shown on, and the event.
evdi_painter_dpms_notify(mode) ==
  /\ fg_console' = IF is_connected /\ mode = "on" THEN console ELSE fg_console
  /\ dpms_told' = IF CanSend THEN mode ELSE dpms_told

-----------------------------------------------------------------------------
(***************************************************************************)
(* The compositor's commit.  drm_atomic_helper_commit_tail updates the     *)
(* primary plane, then the cursor plane, then flushes the CRTC; commits of *)
(* one CRTC wait for each other, so there is one at a time.                *)
(***************************************************************************)

\* Some commits carry the primary plane, some only the cursor or the CRTC.
\* The states swap at once; the old plane state holds its framebuffer until
\* the commit is done.
StartCommit ==
  /\ pc = "idle"
  /\ \E e \in {NoEvent} \cup {v \in VblankEvents : sent[v] = 1} :
       /\ sent' = IF e = NoEvent THEN sent ELSE [sent EXCEPT ![e] = 0]
       /\ \/ /\ pc' = "cursor"
             /\ commit' = [NoCommit EXCEPT !.event = e]
             /\ UNCHANGED <<plane_fb, refs>>
          \/ \E fb \in user_fbs \cup {NoFb} :
               /\ pc' = "plane"
               /\ plane_fb' = fb
               /\ commit' = [NoCommit EXCEPT !.event = e, !.old_fb = plane_fb]
               /\ refs' = Get(refs, fb)
  /\ UNCHANGED <<painterVars, user_fbs, crtc_active, console, clientVars, vt,
                 toldVars>>

\* evdi_plane_atomic_update: the CRTC of the plane appears or vanishes, which
\* DRM ties to its framebuffer.
PlaneDpms ==
  /\ pc = "plane"
  /\ \/ /\ commit.old_fb = NoFb /\ plane_fb # NoFb
        /\ evdi_painter_dpms_notify("on")
     \/ /\ commit.old_fb # NoFb /\ plane_fb = NoFb
        /\ evdi_painter_dpms_notify("off")
     \/ /\ (commit.old_fb = NoFb) = (plane_fb = NoFb)
        /\ UNCHANGED <<fg_console, dpms_told>>
  /\ pc' = IF plane_fb = NoFb THEN "cursor" ELSE "modeset"
  /\ UNCHANGED <<is_connected, drm_filp, num_dirts, scanout_fb,
                 was_update_requested, needs_full_modeset, vblank,
                 cursor_events_enabled, kmsVars, commit, clientVars, vt, sent,
                 mode_told>>

\* A first framebuffer or a new pixel format forces a full modeset; a changed
\* framebuffer or a pending full modeset replaces the scanout buffer.
PlaneModeset ==
  /\ pc = "modeset"
  /\ \E format_changed \in BOOLEAN :
       /\ format_changed => commit.old_fb \notin {NoFb, plane_fb}
       /\ needs_full_modeset' =
            (needs_full_modeset \/ commit.old_fb = NoFb \/ format_changed)
  /\ pc' = IF plane_fb # commit.old_fb \/ needs_full_modeset'
           THEN "scanout" ELSE "num_dirts"
  /\ UNCHANGED <<is_connected, drm_filp, num_dirts, scanout_fb,
                 was_update_requested, vblank, fg_console,
                 cursor_events_enabled, kmsVars, commit, clientVars, vt, sent,
                 toldVars>>

\* Mutant: the reference to the old scanout buffer is kept.
ScanoutKeepsOld ==
  /\ pc = "scanout"
  /\ refs' = Get(refs, plane_fb)
  /\ scanout_fb' = plane_fb
  /\ \E n \in 0..MaxClips : commit' = [commit EXCEPT !.marks = n]
  /\ pc' = "damage"
  /\ UNCHANGED <<is_connected, drm_filp, num_dirts, was_update_requested,
                 needs_full_modeset, vblank, fg_console,
                 cursor_events_enabled, user_fbs, plane_fb, crtc_active,
                 console, clientVars, vt, sent, toldVars>>

\* evdi_painter_set_scanout_buffer; the damage iterator then starts.
evdi_painter_set_scanout_buffer ==
  /\ pc = "scanout"
  /\ refs' = Put(Get(refs, plane_fb), scanout_fb)
  /\ scanout_fb' = plane_fb
  /\ \E n \in 0..MaxClips : commit' = [commit EXCEPT !.marks = n]
  /\ pc' = "damage"
  /\ UNCHANGED <<is_connected, drm_filp, num_dirts, was_update_requested,
                 needs_full_modeset, vblank, fg_console,
                 cursor_events_enabled, user_fbs, plane_fb, crtc_active,
                 console, clientVars, vt, sent, toldVars>>

\* One damage clip of the primary plane or of the cursor, or the whole screen.
MarkClip(step, next) ==
  /\ pc = step
  /\ \/ /\ commit.marks > 0
        /\ evdi_painter_mark_dirty
        /\ commit' = [commit EXCEPT !.marks = @ - 1]
        /\ UNCHANGED pc
     \/ /\ commit.marks = 0
        /\ pc' = next
        /\ UNCHANGED <<num_dirts, commit>>
  /\ UNCHANGED <<is_connected, drm_filp, scanout_fb, was_update_requested,
                 needs_full_modeset, vblank, fg_console,
                 cursor_events_enabled, kmsVars, clientVars, vt, sent,
                 toldVars>>

PlaneDamage == MarkClip("damage", "num_dirts")

\* Nothing dirty after all: the whole screen is.  The number is read under
\* the lock and used after it.
evdi_painter_get_num_dirts ==
  /\ pc = "num_dirts"
  /\ pc' = IF num_dirts = 0 THEN "fullscreen" ELSE "cursor"
  /\ UNCHANGED <<painterVars, kmsVars, commit, clientVars, vt, sent, toldVars>>

PlaneFullscreen ==
  /\ pc = "fullscreen"
  /\ evdi_painter_mark_dirty
  /\ pc' = "cursor"
  /\ UNCHANGED <<is_connected, drm_filp, scanout_fb, was_update_requested,
                 needs_full_modeset, vblank, fg_console,
                 cursor_events_enabled, kmsVars, commit, clientVars, vt, sent,
                 toldVars>>

\* evdi_cursor_atomic_update, if the commit carries the cursor plane: without
\* cursor events the painter blends the cursor, so one or two rectangles
\* become dirty.
CursorUpdate ==
  /\ pc = "cursor"
  /\ \/ /\ pc' = "flush"
        /\ UNCHANGED commit
     \/ /\ ~cursor_events_enabled
        /\ pc' = "cursor_damage"
        /\ \E n \in {1, 2} : commit' = [commit EXCEPT !.marks = n]
  /\ UNCHANGED <<painterVars, kmsVars, clientVars, vt, sent, toldVars>>

CursorDamage == MarkClip("cursor_damage", "flush")

\* evdi_crtc_atomic_flush reads needs_full_modeset twice, without the lock.
FlushReadMode ==
  /\ pc = "flush"
  /\ \E active, mode_changed \in BOOLEAN :
       /\ crtc_active' = active
       /\ commit' = [commit EXCEPT
            !.notify_mode = active /\ (mode_changed \/ needs_full_modeset),
            !.notify_dpms = active # crtc_active]
  /\ pc' = "flush_dpms"
  /\ UNCHANGED <<painterVars, refs, user_fbs, plane_fb, console, clientVars,
                 vt, sent, toldVars>>

FlushReadDpms ==
  /\ pc = "flush_dpms"
  /\ commit' = [commit EXCEPT !.notify_dpms = @ \/ needs_full_modeset]
  /\ pc' = IF commit.notify_mode THEN "mode" ELSE "dpms"
  /\ UNCHANGED <<painterVars, kmsVars, clientVars, vt, sent, toldVars>>

\* evdi_painter_mode_changed_notify: the format is read under the lock,
\* the event sent and the flag cleared after it.
ModeChangedLock ==
  /\ pc = "mode"
  /\ pc' = IF scanout_fb = NoFb THEN "dpms" ELSE "mode_send"
  /\ UNCHANGED <<painterVars, kmsVars, commit, clientVars, vt, sent, toldVars>>

ModeChangedSend ==
  /\ pc = "mode_send"
  /\ mode_told' = (mode_told \/ CanSend)
  /\ pc' = "mode_clear"
  /\ UNCHANGED <<painterVars, kmsVars, commit, clientVars, vt, sent,
                 dpms_told>>

ModeChangedClear ==
  /\ pc = "mode_clear"
  /\ needs_full_modeset' = FALSE
  /\ pc' = "dpms"
  /\ UNCHANGED <<is_connected, drm_filp, num_dirts, scanout_fb,
                 was_update_requested, vblank, fg_console,
                 cursor_events_enabled, kmsVars, commit, clientVars, vt, sent,
                 toldVars>>

FlushDpms ==
  /\ pc = "dpms"
  /\ IF commit.notify_dpms
     THEN evdi_painter_dpms_notify(IF crtc_active THEN "on" ELSE "off")
     ELSE UNCHANGED <<fg_console, dpms_told>>
  /\ pc' = "vblank"
  /\ UNCHANGED <<is_connected, drm_filp, num_dirts, scanout_fb,
                 was_update_requested, needs_full_modeset, vblank,
                 cursor_events_enabled, kmsVars, commit, clientVars, vt, sent,
                 mode_told>>

\* Mutant: the event of the previous frame is overwritten.
SetVblankForgetsOld ==
  /\ pc = "vblank"
  /\ vblank' = IF num_dirts > 0 /\ is_connected THEN commit.event ELSE vblank
  /\ sent' = IF num_dirts > 0 /\ is_connected
             THEN sent ELSE evdi_send_vblank(sent, commit.event)
  /\ commit' = [commit EXCEPT !.event = NoEvent]
  /\ pc' = "update_ready"
  /\ UNCHANGED <<is_connected, drm_filp, num_dirts, scanout_fb,
                 was_update_requested, needs_full_modeset, fg_console,
                 cursor_events_enabled, kmsVars, clientVars, vt, toldVars>>

\* The event of the previous frame is delivered; the new one is held back
\* while a connected client has damage to grab.
evdi_painter_set_vblank ==
  /\ pc = "vblank"
  /\ LET released == evdi_send_vblank(sent, vblank)
     IN \/ /\ num_dirts > 0 /\ is_connected
           /\ vblank' = commit.event
           /\ sent' = released
        \/ /\ ~(num_dirts > 0 /\ is_connected)
           /\ vblank' = NoEvent
           /\ sent' = evdi_send_vblank(released, commit.event)
  /\ commit' = [commit EXCEPT !.event = NoEvent]
  /\ pc' = "update_ready"
  /\ UNCHANGED <<is_connected, drm_filp, num_dirts, scanout_fb,
                 was_update_requested, needs_full_modeset, fg_console,
                 cursor_events_enabled, kmsVars, clientVars, vt, toldVars>>

\* Mutant: the client is not told.
UpdateReadyForgotten ==
  /\ pc = "update_ready"
  /\ refs' = Put(refs, commit.old_fb)
  /\ pc' = "idle"
  /\ commit' = NoCommit
  /\ UNCHANGED <<painterVars, user_fbs, plane_fb, crtc_active, console,
                 clientVars, vt, sent, toldVars>>

\* The last callback; the old plane state is then destroyed.
evdi_painter_send_update_ready_if_needed ==
  /\ pc = "update_ready"
  /\ was_update_requested' = (was_update_requested /\ num_dirts = 0)
  /\ refs' = Put(refs, commit.old_fb)
  /\ pc' = "idle"
  /\ commit' = NoCommit
  /\ UNCHANGED <<is_connected, drm_filp, num_dirts, scanout_fb,
                 needs_full_modeset, vblank, fg_console,
                 cursor_events_enabled, user_fbs, plane_fb, crtc_active,
                 console, clientVars, vt, sent, toldVars>>

CommitStep ==
  \/ PlaneDpms
  \/ PlaneModeset
  \/ evdi_painter_set_scanout_buffer
  \/ PlaneDamage
  \/ evdi_painter_get_num_dirts
  \/ PlaneFullscreen
  \/ CursorUpdate
  \/ CursorDamage
  \/ FlushReadMode
  \/ FlushReadDpms
  \/ ModeChangedLock
  \/ ModeChangedSend
  \/ ModeChangedClear
  \/ FlushDpms
  \/ evdi_painter_set_vblank
  \/ evdi_painter_send_update_ready_if_needed

-----------------------------------------------------------------------------
(***************************************************************************)
(* User space and DRM core: framebuffers come and go.                      *)
(***************************************************************************)

\* evdi_fb_user_fb_create, when it succeeds; the reference is user space's.
AddFb(fb) ==
  /\ refs[fb] = 0
  /\ user_fbs' = user_fbs \cup {fb}
  /\ refs' = Get(refs, fb)
  /\ UNCHANGED <<painterVars, plane_fb, crtc_active, console, commitVars,
                 clientVars, vt, sent, toldVars>>

RmFb(fb) ==
  /\ fb \in user_fbs
  /\ user_fbs' = user_fbs \ {fb}
  /\ refs' = Put(refs, fb)
  /\ UNCHANGED <<painterVars, plane_fb, crtc_active, console, commitVars,
                 clientVars, vt, sent, toldVars>>

-----------------------------------------------------------------------------
(***************************************************************************)
(* The clients' ioctls.                                                    *)
(***************************************************************************)

\* evdi_painter_mode_changed_notify is running.
ModeChangedNotify == pc \in {"mode", "mode_send", "mode_clear"}

Open(f) ==
  /\ file[f] = "closed"
  /\ file' = [file EXCEPT ![f] = "open"]
  /\ UNCHANGED <<painterVars, kmsVars, commitVars, grab, vt, sent, toldVars>>

\* Mutant: a new client does not ask for a full modeset.
ConnectWithoutModeset(f) ==
  /\ file[f] = "open"
  /\ drm_filp' = f
  /\ is_connected' = TRUE
  /\ mode_told' = FALSE
  /\ dpms_told' = "unknown"
  /\ UNCHANGED <<num_dirts, scanout_fb, was_update_requested,
                 needs_full_modeset, vblank, fg_console,
                 cursor_events_enabled, kmsVars, commitVars, clientVars, vt,
                 sent>>

\* evdi_painter_connect with a good EDID; a file may replace another, or
\* connect twice.
evdi_painter_connect(f) ==
  /\ file[f] = "open"
  /\ ModeChangedNotify => OverlapModeset
  /\ drm_filp' = f
  /\ is_connected' = TRUE
  /\ needs_full_modeset' = TRUE
  /\ mode_told' = FALSE
  /\ dpms_told' = "unknown"
  /\ UNCHANGED <<num_dirts, scanout_fb, was_update_requested, vblank,
                 fg_console, cursor_events_enabled, kmsVars, commitVars,
                 clientVars, vt, sent>>

\* Mutant: the held event stays with the painter.
DisconnectKeepsVblank(f) ==
  /\ f = drm_filp
  /\ refs' = Put(refs, scanout_fb)
  /\ scanout_fb' = NoFb
  /\ is_connected' = FALSE
  /\ drm_filp' = NoFile
  /\ was_update_requested' = FALSE
  /\ cursor_events_enabled' = FALSE
  /\ mode_told' = FALSE
  /\ dpms_told' = "unknown"
  /\ UNCHANGED <<sent, vblank>>

\* evdi_painter_disconnect by the file that is connected.  The damage count
\* stays.
Disconnected(f) ==
  /\ f = drm_filp
  /\ refs' = Put(refs, scanout_fb)
  /\ scanout_fb' = NoFb
  /\ is_connected' = FALSE
  /\ sent' = evdi_send_vblank(sent, vblank)
  /\ vblank' = NoEvent
  /\ drm_filp' = NoFile
  /\ was_update_requested' = FALSE
  /\ cursor_events_enabled' = FALSE
  /\ mode_told' = FALSE
  /\ dpms_told' = "unknown"

\* The ioctl; another file's attempt is refused with EFAULT.
evdi_painter_disconnect(f) ==
  /\ file[f] = "open"
  /\ Disconnected(f)
  /\ UNCHANGED <<num_dirts, needs_full_modeset, fg_console, user_fbs, plane_fb,
                 crtc_active, console, commitVars, clientVars, vt>>

\* Mutant: a file is freed without a disconnect.
CloseWithoutDisconnect(f) ==
  /\ file[f] = "open"
  /\ grab[f] = NoGrab
  /\ file' = [file EXCEPT ![f] = "closed"]
  /\ UNCHANGED <<painterVars, kmsVars, commitVars, grab, vt, sent, toldVars>>

\* The last reference to the file is gone, so none of its ioctls is in
\* flight: evdi_painter_close compares drm_filp without the lock...
evdi_painter_close(f) ==
  /\ file[f] = "open"
  /\ grab[f] = NoGrab
  /\ file' = [file EXCEPT ![f] = IF f = drm_filp THEN "closing" ELSE "closed"]
  /\ UNCHANGED <<painterVars, kmsVars, commitVars, grab, vt, sent, toldVars>>

\* ... and disconnects under it, which fails if another file has taken over.
CloseDisconnect(f) ==
  /\ file[f] = "closing"
  /\ \/ Disconnected(f)
     \/ /\ f # drm_filp
        /\ UNCHANGED <<refs, scanout_fb, is_connected, sent, vblank, drm_filp,
                       was_update_requested, cursor_events_enabled, toldVars>>
  /\ file' = [file EXCEPT ![f] = "closed"]
  /\ UNCHANGED <<num_dirts, needs_full_modeset, fg_console, user_fbs, plane_fb,
                 crtc_active, console, commitVars, grab, vt>>

\* Mutant: the request is remembered although there is damage.
RequestDespiteDamage(f) ==
  /\ file[f] = "open"
  /\ was_update_requested' = TRUE
  /\ UNCHANGED <<is_connected, drm_filp, num_dirts, scanout_fb,
                 needs_full_modeset, vblank, fg_console,
                 cursor_events_enabled, kmsVars, commitVars, clientVars, vt,
                 sent, toldVars>>

\* Any open file may ask, connected or not.  The answer is num_dirts > 0.
evdi_painter_request_update_ioctl(f) ==
  /\ file[f] = "open"
  /\ was_update_requested' = (was_update_requested \/ num_dirts = 0)
  /\ UNCHANGED <<is_connected, drm_filp, num_dirts, scanout_fb,
                 needs_full_modeset, vblank, fg_console,
                 cursor_events_enabled, kmsVars, commitVars, clientVars, vt,
                 sent, toldVars>>

\* The locked part of evdi_painter_grabpix_ioctl: without a scanout buffer the
\* damage is merged and EAGAIN returned, otherwise the ioctl takes the damage,
\* the held event and a reference.  (A collapse to the client's num_rects
\* leaves 1, one of the outcomes of the merge.)
GrabTake(f) ==
  /\ file[f] = "open"
  /\ grab[f] = NoGrab
  /\ \/ /\ scanout_fb = NoFb
        /\ num_dirts' \in merge_dirty_rects(num_dirts)
        /\ UNCHANGED <<vblank, grab, refs>>
     \/ /\ scanout_fb # NoFb
        /\ num_dirts' = 0
        /\ grab' = [grab EXCEPT ![f] = [fb |-> scanout_fb, vblank |-> vblank]]
        /\ vblank' = NoEvent
        /\ refs' = Get(refs, scanout_fb)
  /\ UNCHANGED <<is_connected, drm_filp, scanout_fb, was_update_requested,
                 needs_full_modeset, fg_console, cursor_events_enabled,
                 user_fbs, plane_fb, crtc_active, console, commitVars, file,
                 vt, sent, toldVars>>

\* Mutant: an error path forgets the event.
GrabForgetsVblank(f) ==
  /\ grab[f] # NoGrab
  /\ refs' = Put(refs, grab[f].fb)
  /\ grab' = [grab EXCEPT ![f] = NoGrab]
  /\ UNCHANGED <<painterVars, user_fbs, plane_fb, crtc_active, console,
                 commitVars, file, vt, sent, toldVars>>

\* The unlocked rest: mapping, checking and copying end one way or another,
\* and every way leads through err_fb.
GrabFinish(f) ==
  /\ grab[f] # NoGrab
  /\ sent' = evdi_send_vblank(sent, grab[f].vblank)
  /\ refs' = Put(refs, grab[f].fb)
  /\ grab' = [grab EXCEPT ![f] = NoGrab]
  /\ UNCHANGED <<painterVars, user_fbs, plane_fb, crtc_active, console,
                 commitVars, file, vt, toldVars>>

evdi_painter_enable_cursor_events_ioctl(f, enable) ==
  /\ file[f] = "open"
  /\ cursor_events_enabled' = enable
  /\ UNCHANGED <<is_connected, drm_filp, num_dirts, scanout_fb,
                 was_update_requested, needs_full_modeset, vblank, fg_console,
                 kmsVars, commitVars, clientVars, vt, sent, toldVars>>

-----------------------------------------------------------------------------
(***************************************************************************)
(* Virtual terminals.  The kernel changes the console under console_lock   *)
(* and calls the notifier under it too, for a switch, but for every other  *)
(* change of a terminal as well.  The notifier reads three fields,         *)
(* notifies and forces a full modeset, all without the painter's lock.     *)
(***************************************************************************)
SwitchConsole(c) ==
  /\ vt = "idle"
  /\ c # console
  /\ console' = c
  /\ UNCHANGED <<painterVars, refs, user_fbs, plane_fb, crtc_active,
                 commitVars, clientVars, vt, sent, toldVars>>

evdi_painter_vt_notifier_call ==
  /\ vt = "idle"
  /\ is_connected /\ console # fg_console /\ ~needs_full_modeset
  /\ vt' = "dpms_off"
  /\ UNCHANGED <<painterVars, kmsVars, commitVars, clientVars, sent, toldVars>>

VtDpmsOff ==
  /\ vt = "dpms_off"
  /\ evdi_painter_dpms_notify("off")
  /\ vt' = "force"
  /\ UNCHANGED <<is_connected, drm_filp, num_dirts, scanout_fb,
                 was_update_requested, needs_full_modeset, vblank,
                 cursor_events_enabled, kmsVars, commitVars, clientVars, sent,
                 mode_told>>

\* Mutant: a VT switch does not ask for a full modeset.
VtForgetsModeset ==
  /\ vt = "force"
  /\ vt' = "idle"
  /\ UNCHANGED <<painterVars, kmsVars, commitVars, clientVars, sent, toldVars>>

VtForceModeset ==
  /\ vt = "force"
  /\ ModeChangedNotify => OverlapModeset
  /\ needs_full_modeset' = TRUE
  /\ vt' = "idle"
  /\ UNCHANGED <<is_connected, drm_filp, num_dirts, scanout_fb,
                 was_update_requested, vblank, fg_console,
                 cursor_events_enabled, kmsVars, commitVars, clientVars, sent,
                 toldVars>>

-----------------------------------------------------------------------------
Next ==
  \/ StartCommit
  \/ CommitStep
  \/ \E fb \in Fbs : AddFb(fb) \/ RmFb(fb)
  \/ \E f \in Files :
       \/ Open(f)
       \/ evdi_painter_connect(f)
       \/ evdi_painter_disconnect(f)
       \/ evdi_painter_close(f)
       \/ CloseDisconnect(f)
       \/ evdi_painter_request_update_ioctl(f)
       \/ GrabTake(f)
       \/ GrabFinish(f)
       \/ \E enable \in BOOLEAN :
            evdi_painter_enable_cursor_events_ioctl(f, enable)
  \/ \E c \in Consoles : SwitchConsole(c)
  \/ evdi_painter_vt_notifier_call
  \/ VtDpmsOff
  \/ VtForceModeset

Spec == Init /\ [][Next]_vars

\* Kernel threads that run keep running: a commit, an ioctl, a release and a
\* notifier that have started finish.  Nobody has to start one...
KernelFairness ==
  /\ WF_vars(CommitStep)
  /\ \A f \in Files : WF_vars(GrabFinish(f)) /\ WF_vars(CloseDisconnect(f))
  /\ WF_vars(VtDpmsOff) /\ WF_vars(VtForceModeset)

\* ... but the client, which grabs what it has been told is there.
ClientFairness ==
  \A f \in Files : WF_vars(f = drm_filp /\ num_dirts > 0 /\ GrabTake(f))

FairSpec == Spec /\ KernelFairness /\ ClientFairness
-----------------------------------------------------------------------------
(***************************************************************************)
(* Properties.                                                             *)
(***************************************************************************)

Holds(b) == IF b THEN 1 ELSE 0

\* Where an undelivered page-flip event may be: with the commit, held by the
\* painter, or with a grab in flight.
HeldBy(f, e) == grab[f].vblank = e

\* Every page-flip event a compositor asks for is delivered exactly once: an
\* event has been delivered, or it is in exactly one place that will deliver
\* it.  It moves from the commit (evdi_painter_set_vblank) to the painter, on
\* to a grab in flight or out by a disconnect, and two grabs, a disconnect
\* and the next commit may race for it.
VblankExactlyOnce ==
  \A e \in VblankEvents :
    /\ sent[e] \in {0, 1}
    /\ sent[e] = 0 <=> \/ commit.event = e
                      \/ vblank = e
                      \/ \E f \in Files : HeldBy(f, e)
    /\ ~(commit.event = e /\ vblank = e)
    /\ \A f \in Files : HeldBy(f, e) =>
         /\ commit.event # e /\ vblank # e
         /\ \A g \in Files : HeldBy(g, e) => g = f

\* The reference count of a framebuffer is the number of its holders: user
\* space, the plane state, the old plane state of the commit, the painter's
\* scanout_fb and the grabs in flight.  So none of them, and in particular no
\* grab that copies pixels while the scanout buffer is replaced or its client
\* disconnects, uses a freed framebuffer, and none leaks.
FbReferences ==
  \A fb \in Fbs :
    refs[fb] = Holds(fb \in user_fbs) + Holds(plane_fb = fb)
             + Holds(commit.old_fb = fb) + Holds(scanout_fb = fb)
             + Cardinality({f \in Files : grab[f].fb = fb})

\* No lost wakeup between evdi_painter_mark_dirty and the client: whenever an
\* update is wanted and there is damage, the commit that made it is still on
\* its way to evdi_painter_send_update_ready_if_needed.
NoLostUpdate ==
  was_update_requested /\ num_dirts > 0 => pc \in CommitSteps

\* A page-flip event is held back only from a connected client that has
\* damage to grab, and so has a reason to come and release it.
HeldVblankHasDamage ==
  vblank # NoEvent => is_connected /\ num_dirts > 0

\* The painter never keeps a pointer to a file that has been freed, although
\* evdi_painter_close compares it without the lock and files may replace each
\* other; and it is connected exactly while it has a file.
OwnerIsAlive ==
  /\ is_connected <=> drm_filp # NoFile
  /\ drm_filp # NoFile => file[drm_filp] # "closed"

\* A client that finds no full modeset pending has been told the mode since
\* it connected: otherwise nothing would tell it before the next mode change.
ModeTold ==
  is_connected /\ ~needs_full_modeset => mode_told

\* A client whose display was switched off, by a VT switch or otherwise, while
\* the CRTC shows a framebuffer, is owed a full modeset that switches it on.
DpmsOffOwesModeset ==
  /\ is_connected /\ dpms_told = "off"
  /\ crtc_active /\ plane_fb # NoFb
  /\ pc = "idle" /\ vt = "idle"
  => needs_full_modeset

\* Accumulated damage is dropped only by a grab, which takes the scanout
\* buffer it belongs to and the held event with it.
DamageDroppedByGrab ==
  [][num_dirts > 0 /\ num_dirts' = 0 =>
       /\ scanout_fb # NoFb
       /\ \E f \in Files : /\ grab[f] = NoGrab
                          /\ grab'[f] = [fb |-> scanout_fb,
                                         vblank |-> vblank]]_vars

\* A wanted update with damage waiting is answered or overtaken by a grab.
UpdateAnswered ==
  was_update_requested /\ num_dirts > 0
    ~> ~was_update_requested \/ num_dirts = 0

\* The compositor gets its page-flip event as long as the painter keeps a
\* scanout buffer for the client to grab.
VblankDelivered ==
  \A e \in VblankEvents : sent[e] = 0 ~> sent[e] = 1 \/ scanout_fb = NoFb
=============================================================================
