--------------------------- MODULE PainterProofs ---------------------------
(***************************************************************************)
(* What TLC checks of Painter on small instances, proved for every number  *)
(* of files, framebuffers, events and consoles, for every capacity of at   *)
(* least two dirty rectangles and every number of damage clips.            *)
(***************************************************************************)
EXTENDS Painter, FiniteSetTheorems, TLAPS

\* evdi_painter_mark_dirty keeps the number of rectangles within the array,
\* and never forgets all of them: a full array is merged or collapsed first.
LEMMA MarkDirtyBound ==
  ASSUME TypeOK, evdi_painter_mark_dirty
  PROVE  /\ num_dirts' \in 0..MAX_DIRTS
         /\ num_dirts > 0 => num_dirts' > 0
BY BoundAssumption
   DEF TypeOK, evdi_painter_mark_dirty, merge_dirty_rects, collapse_dirty_rects

\* merge_dirty_rects leaves a rectangle where there was one.
LEMMA MergeBound ==
  ASSUME NEW n \in 0..MAX_DIRTS, NEW m \in merge_dirty_rects(n)
  PROVE  /\ m \in 0..MAX_DIRTS
         /\ n > 0 => m > 0
BY BoundAssumption DEF merge_dirty_rects

LEMMA RefsType ==
  ASSUME NEW r \in [Fbs -> Int], NEW fb \in Fbs \cup {NoFb}
  PROVE  /\ Get(r, fb) \in [Fbs -> Int]
         /\ Put(r, fb) \in [Fbs -> Int]
BY DEF Get, Put

LEMMA SentType ==
  ASSUME NEW s \in [VblankEvents -> Nat],
         NEW e \in VblankEvents \cup {NoEvent}
  PROVE  evdi_send_vblank(s, e) \in [VblankEvents -> Nat]
BY DEF evdi_send_vblank

\* The commit between its callbacks, as TypeOK describes it.
CommitType == [old_fb : Fbs \cup {NoFb}, event : VblankEvents \cup {NoEvent},
               marks : Nat, notify_mode : BOOLEAN, notify_dpms : BOOLEAN]

LEMMA NoCommitType == NoCommit \in CommitType
<1>1. FALSE \in BOOLEAN
  OBVIOUS
<1> QED
  BY <1>1 DEF NoCommit, CommitType

LEMMA InitType == Init => TypeOK
<1> SUFFICES ASSUME Init PROVE TypeOK
  OBVIOUS
<1>1. /\ is_connected \in BOOLEAN /\ was_update_requested \in BOOLEAN
      /\ needs_full_modeset \in BOOLEAN /\ cursor_events_enabled \in BOOLEAN
      /\ crtc_active \in BOOLEAN /\ mode_told \in BOOLEAN
  BY Zenon DEF Init
<1>2. commit \in CommitType
  BY NoCommitType DEF Init
<1>3. grab \in [Files -> [fb : Fbs \cup {NoFb},
                         vblank : VblankEvents \cup {NoEvent}]]
  BY DEF Init, NoGrab
<1> QED
  BY <1>1, <1>2, <1>3, BoundAssumption DEF Init, TypeOK, CommitType

\* Every step of the commit, of a client and of a VT switch keeps the types.
LEMMA NextType == TypeOK /\ [Next]_vars => TypeOK'
<1> SUFFICES ASSUME TypeOK, [Next]_vars PROVE TypeOK'
  OBVIOUS
<1>1. CASE StartCommit
  <2>1. PICK e \in VblankEvents \cup {NoEvent} :
          /\ sent' = IF e = NoEvent THEN sent ELSE [sent EXCEPT ![e] = 0]
          /\ \/ /\ pc' = "cursor"
                /\ commit' = [NoCommit EXCEPT !.event = e]
                /\ UNCHANGED <<plane_fb, refs>>
             \/ \E fb \in user_fbs \cup {NoFb} :
                  /\ pc' = "plane"
                  /\ plane_fb' = fb
                  /\ commit' = [NoCommit EXCEPT !.event = e,
                                                !.old_fb = plane_fb]
                  /\ refs' = Get(refs, fb)
    BY <1>1 DEF StartCommit
  <2>2. sent' \in [VblankEvents -> Nat]
    BY <2>1 DEF TypeOK
  <2>3. /\ plane_fb' \in Fbs \cup {NoFb}
        /\ refs' \in [Fbs -> Int]
        /\ pc' \in CommitSteps
    BY <2>1, RefsType DEF TypeOK, CommitSteps
  <2>4. commit' \in CommitType
    BY <2>1, NoCommitType DEF TypeOK, CommitType
  <2> QED
    BY <1>1, <2>2, <2>3, <2>4
       DEF StartCommit, TypeOK, CommitType, painterVars, clientVars, toldVars
<1>2. CASE PlaneDpms
  BY <1>2 DEF PlaneDpms, evdi_painter_dpms_notify, TypeOK, CommitSteps,
              kmsVars, clientVars
<1>3. CASE PlaneModeset
  BY <1>3 DEF PlaneModeset, TypeOK, CommitSteps, kmsVars, clientVars, toldVars
<1>4. CASE evdi_painter_set_scanout_buffer
  <2>1. refs' \in [Fbs -> Int]
    BY <1>4, RefsType DEF evdi_painter_set_scanout_buffer, TypeOK
  <2>2. commit' \in CommitType
    BY <1>4, BoundAssumption
       DEF evdi_painter_set_scanout_buffer, TypeOK, CommitType
  <2> QED
    BY <1>4, <2>1, <2>2
       DEF evdi_painter_set_scanout_buffer, TypeOK, CommitType, CommitSteps,
           clientVars, toldVars
<1>5. ASSUME NEW step, NEW next \in CommitSteps, MarkClip(step, next)
      PROVE  TypeOK'
  <2>1. num_dirts' \in 0..MAX_DIRTS
    BY <1>5, MarkDirtyBound DEF MarkClip, TypeOK
  <2>2. commit' \in CommitType
    BY <1>5 DEF MarkClip, TypeOK, CommitType
  <2>3. pc' \in {"idle"} \cup CommitSteps
    BY <1>5 DEF MarkClip, TypeOK
  <2> QED
    BY <1>5, <2>1, <2>2, <2>3
       DEF MarkClip, TypeOK, CommitType, kmsVars, clientVars, toldVars
<1>6. CASE PlaneDamage \/ CursorDamage
  BY <1>5, <1>6 DEF PlaneDamage, CursorDamage, CommitSteps
<1>7. CASE evdi_painter_get_num_dirts
  BY <1>7 DEF evdi_painter_get_num_dirts, TypeOK, CommitSteps, painterVars,
              kmsVars, clientVars, toldVars
<1>8. CASE PlaneFullscreen
  <2>1. num_dirts' \in 0..MAX_DIRTS
    BY <1>8, MarkDirtyBound DEF PlaneFullscreen
  <2> QED
    BY <1>8, <2>1
       DEF PlaneFullscreen, TypeOK, CommitSteps, kmsVars, clientVars, toldVars
<1>9. CASE CursorUpdate
  BY <1>9 DEF CursorUpdate, TypeOK, CommitSteps, painterVars, kmsVars,
              clientVars, toldVars
<1>10. CASE FlushReadMode
  <2>1. PICK active \in BOOLEAN, mode_changed \in BOOLEAN :
          /\ crtc_active' = active
          /\ commit' = [commit EXCEPT
               !.notify_mode = active /\ (mode_changed \/ needs_full_modeset),
               !.notify_dpms = active # crtc_active]
    BY <1>10 DEF FlushReadMode
  <2> DEFINE mode == active /\ (mode_changed \/ needs_full_modeset)
             dpms == active # crtc_active
  <2>2. mode \in BOOLEAN /\ dpms \in BOOLEAN
    BY Zenon
  <2>3. commit' = [commit EXCEPT !.notify_mode = mode, !.notify_dpms = dpms]
    BY <2>1
  <2> HIDE DEF mode, dpms
  <2>4. commit' \in CommitType
    BY <2>2, <2>3 DEF TypeOK, CommitType
  <2> QED
    BY <1>10, <2>1, <2>4
       DEF FlushReadMode, TypeOK, CommitType, CommitSteps, painterVars,
           clientVars, toldVars
<1>11. CASE FlushReadDpms
  BY <1>11 DEF FlushReadDpms, TypeOK, CommitSteps, painterVars, kmsVars,
               clientVars, toldVars
<1>12. CASE ModeChangedLock
  BY <1>12 DEF ModeChangedLock, TypeOK, CommitSteps, painterVars, kmsVars,
               clientVars, toldVars
<1>13. CASE ModeChangedSend
  BY <1>13 DEF ModeChangedSend, CanSend, TypeOK, CommitSteps, painterVars,
               kmsVars, clientVars
<1>14. CASE ModeChangedClear
  <2>1. needs_full_modeset' \in BOOLEAN
    BY <1>14, Zenon DEF ModeChangedClear
  <2> QED
    BY <1>14, <2>1 DEF ModeChangedClear, TypeOK, CommitSteps, kmsVars,
                       clientVars, toldVars
<1>15. CASE FlushDpms
  BY <1>15 DEF FlushDpms, evdi_painter_dpms_notify, TypeOK, CommitSteps,
               kmsVars, clientVars
<1>16. CASE evdi_painter_set_vblank
  <2> DEFINE released == evdi_send_vblank(sent, vblank)
  <2>0. released \in [VblankEvents -> Nat]
    BY SentType DEF TypeOK
  <2>1. sent' \in [VblankEvents -> Nat]
    <3>1. evdi_send_vblank(released, commit.event) \in [VblankEvents -> Nat]
      <4>1. commit.event \in VblankEvents \cup {NoEvent}
        BY DEF TypeOK
      <4> HIDE DEF released
      <4> QED BY <2>0, <4>1, SentType
    <3> QED BY <1>16, <2>0, <3>1 DEF evdi_painter_set_vblank
  <2>2. vblank' \in VblankEvents \cup {NoEvent}
    BY <1>16 DEF evdi_painter_set_vblank, TypeOK
  <2> QED
    BY <1>16, <2>1, <2>2
       DEF evdi_painter_set_vblank, TypeOK, CommitSteps, kmsVars, clientVars,
           toldVars
<1>17. CASE evdi_painter_send_update_ready_if_needed
  <2>1. refs' \in [Fbs -> Int]
    BY <1>17, RefsType DEF evdi_painter_send_update_ready_if_needed, TypeOK
  <2> QED
    BY <1>17, <2>1
       DEF evdi_painter_send_update_ready_if_needed, TypeOK, NoCommit,
           clientVars, toldVars
<1>18. ASSUME NEW fb \in Fbs, AddFb(fb) \/ RmFb(fb)
       PROVE  TypeOK'
  <2>1. refs' \in [Fbs -> Int]
    BY <1>18, RefsType DEF AddFb, RmFb, TypeOK
  <2> QED
    BY <1>18, <2>1
       DEF AddFb, RmFb, TypeOK, painterVars, commitVars, clientVars, toldVars
<1>19. ASSUME NEW f \in Files, Open(f) \/ evdi_painter_close(f)
       PROVE  TypeOK'
  <2>1. file' \in [Files -> {"closed", "open", "closing"}]
    BY <1>19 DEF Open, evdi_painter_close, TypeOK
  <2> QED
    BY <1>19, <2>1 DEF Open, evdi_painter_close, TypeOK, painterVars, kmsVars,
                       commitVars, toldVars
<1>20. ASSUME NEW f \in Files, evdi_painter_connect(f)
       PROVE  TypeOK'
  <2>1. /\ is_connected' \in BOOLEAN /\ needs_full_modeset' \in BOOLEAN
        /\ mode_told' \in BOOLEAN
    BY <1>20, Zenon DEF evdi_painter_connect
  <2> QED
    BY <1>20, <2>1
       DEF evdi_painter_connect, TypeOK, kmsVars, commitVars, clientVars
<1>21. ASSUME NEW f \in Files, Disconnected(f)
       PROVE  /\ is_connected' \in BOOLEAN /\ was_update_requested' \in BOOLEAN
              /\ cursor_events_enabled' \in BOOLEAN /\ mode_told' \in BOOLEAN
              /\ dpms_told' \in {"unknown", "on", "off"}
              /\ drm_filp' \in Files \cup {NoFile}
              /\ scanout_fb' \in Fbs \cup {NoFb}
              /\ vblank' \in VblankEvents \cup {NoEvent}
              /\ refs' \in [Fbs -> Int] /\ sent' \in [VblankEvents -> Nat]
  <2>1. refs' \in [Fbs -> Int] /\ sent' \in [VblankEvents -> Nat]
    BY <1>21, RefsType, SentType DEF Disconnected, TypeOK
  <2>2. /\ is_connected' \in BOOLEAN /\ was_update_requested' \in BOOLEAN
        /\ cursor_events_enabled' \in BOOLEAN /\ mode_told' \in BOOLEAN
    BY <1>21, Zenon DEF Disconnected
  <2> QED
    BY <1>21, <2>1, <2>2 DEF Disconnected
<1>30. ASSUME NEW f \in Files, evdi_painter_disconnect(f)
       PROVE  TypeOK'
  BY <1>21, <1>30 DEF evdi_painter_disconnect, TypeOK, commitVars, clientVars
<1>31. ASSUME NEW f \in Files, CloseDisconnect(f)
       PROVE  TypeOK'
  <2>1. file' \in [Files -> {"closed", "open", "closing"}]
    BY <1>31 DEF CloseDisconnect, TypeOK
  <2> QED
    BY <1>21, <1>31, <2>1 DEF CloseDisconnect, TypeOK, commitVars, toldVars
<1>22. ASSUME NEW f \in Files, evdi_painter_request_update_ioctl(f)
       PROVE  TypeOK'
  BY <1>22 DEF evdi_painter_request_update_ioctl, TypeOK, kmsVars, commitVars,
               clientVars, toldVars
<1>23. ASSUME NEW f \in Files, GrabTake(f)
       PROVE  TypeOK'
  <2>1. refs' \in [Fbs -> Int]
    BY <1>23, RefsType DEF GrabTake, TypeOK
  <2>2. num_dirts' \in 0..MAX_DIRTS
    BY <1>23, MergeBound, BoundAssumption DEF GrabTake, TypeOK
  <2>3. /\ vblank' \in VblankEvents \cup {NoEvent}
        /\ grab' \in [Files -> [fb : Fbs \cup {NoFb},
                                vblank : VblankEvents \cup {NoEvent}]]
    BY <1>23 DEF GrabTake, TypeOK
  <2> QED
    BY <1>23, <2>1, <2>2, <2>3
       DEF GrabTake, TypeOK, commitVars, toldVars
<1>24. ASSUME NEW f \in Files, GrabFinish(f)
       PROVE  TypeOK'
  <2>1. refs' \in [Fbs -> Int] /\ sent' \in [VblankEvents -> Nat]
    BY <1>24, RefsType, SentType DEF GrabFinish, TypeOK
  <2> QED
    BY <1>24, <2>1
       DEF GrabFinish, NoGrab, TypeOK, painterVars, commitVars, toldVars
<1>25. ASSUME NEW f \in Files, NEW enable \in BOOLEAN,
              evdi_painter_enable_cursor_events_ioctl(f, enable)
       PROVE  TypeOK'
  BY <1>25 DEF evdi_painter_enable_cursor_events_ioctl, TypeOK, kmsVars,
               commitVars, clientVars, toldVars
<1>26. ASSUME NEW c \in Consoles, SwitchConsole(c)
       PROVE  TypeOK'
  BY <1>26 DEF SwitchConsole, TypeOK, painterVars, commitVars, clientVars,
               toldVars
<1>33. CASE evdi_painter_vt_notifier_call
  BY <1>33 DEF evdi_painter_vt_notifier_call, TypeOK, painterVars, kmsVars,
               commitVars, clientVars, toldVars
<1>27. CASE VtDpmsOff
  BY <1>27 DEF VtDpmsOff, evdi_painter_dpms_notify, TypeOK, kmsVars,
               commitVars, clientVars
<1>28. CASE VtForceModeset
  BY <1>28 DEF VtForceModeset, TypeOK, kmsVars, commitVars, clientVars,
               toldVars
<1>29. CASE UNCHANGED vars
  BY <1>29 DEF vars, TypeOK, painterVars, kmsVars, commitVars, clientVars,
               toldVars
<1> QED
  BY <1>1, <1>2, <1>3, <1>4, <1>6, <1>7, <1>8, <1>9, <1>10, <1>11, <1>12,
     <1>13, <1>14, <1>15, <1>16, <1>17, <1>18, <1>19, <1>20, <1>30, <1>31,
     <1>22, <1>23, <1>24, <1>25, <1>26, <1>33, <1>27, <1>28, <1>29
     DEF Next, CommitStep

\* Every reachable state of the painter is well typed; in particular the
\* damage never overruns painter->dirty_rects, whatever is merged.
THEOREM TypeCorrect == Spec => []TypeOK
BY InitType, NextType, PTL DEF Spec

-----------------------------------------------------------------------------
(***************************************************************************)
(* No update is lost.  With damage waiting, evdi_painter_request_update    *)
(* answers at once; only a commit adds damage, and it ends by answering.   *)
(***************************************************************************)
LEMMA NextNoLostUpdate ==
  TypeOK /\ NoLostUpdate /\ [Next]_vars => NoLostUpdate'
<1> SUFFICES ASSUME TypeOK, NoLostUpdate, [Next]_vars PROVE NoLostUpdate'
  OBVIOUS
<1> USE DEF NoLostUpdate
\* A commit stays within its callbacks until the last one, which answers.
<1>1. CASE StartCommit
  BY <1>1 DEF StartCommit, CommitSteps
<1>2. CASE CommitStep
  <2>1. CASE evdi_painter_send_update_ready_if_needed
    <3>1. was_update_requested' => num_dirts' = 0
      BY <2>1, Zenon DEF evdi_painter_send_update_ready_if_needed
    <3> QED BY <3>1
  <2>2. CASE ~evdi_painter_send_update_ready_if_needed
    <3>1. pc' \in CommitSteps
      BY <1>2, <2>2
         DEF CommitStep, CommitSteps, PlaneDpms, PlaneModeset,
             evdi_painter_set_scanout_buffer, PlaneDamage, CursorDamage,
             MarkClip, evdi_painter_get_num_dirts, PlaneFullscreen,
             CursorUpdate, FlushReadMode, FlushReadDpms, ModeChangedLock,
             ModeChangedSend, ModeChangedClear, FlushDpms,
             evdi_painter_set_vblank
    <3> QED BY <3>1
  <2> QED BY <2>1, <2>2
\* A request is remembered only without damage; a grab leaves no more of it.
<1>3. ASSUME NEW f \in Files, evdi_painter_request_update_ioctl(f)
      PROVE  NoLostUpdate'
  BY <1>3 DEF evdi_painter_request_update_ioctl, TypeOK, commitVars
<1>4. ASSUME NEW f \in Files, GrabTake(f)
      PROVE  NoLostUpdate'
  <2>1. num_dirts' > 0 => num_dirts > 0
    BY <1>4 DEF GrabTake, merge_dirty_rects, TypeOK
  <2> QED BY <1>4, <2>1 DEF GrabTake, commitVars
<1>5. ASSUME NEW f \in Files,
             evdi_painter_disconnect(f) \/ CloseDisconnect(f)
      PROVE  NoLostUpdate'
  BY <1>5 DEF evdi_painter_disconnect, CloseDisconnect, Disconnected,
              commitVars
\* Nobody else touches the request, the damage or the commit.
<1>6. CASE UNCHANGED <<was_update_requested, num_dirts, pc>>
  BY <1>6
<1> QED
  BY <1>1, <1>2, <1>3, <1>4, <1>5, <1>6
     DEF Next, vars, painterVars, commitVars, AddFb, RmFb, Open,
         evdi_painter_connect, evdi_painter_close, GrabFinish,
         evdi_painter_enable_cursor_events_ioctl, SwitchConsole,
         evdi_painter_vt_notifier_call, VtDpmsOff, VtForceModeset

\* An update that is wanted and has damage is on its way to the client in
\* every reachable state: evdi_painter_send_update_ready_if_needed is to come.
THEOREM UpdateNeverLost == Spec => []NoLostUpdate
<1>1. Init => NoLostUpdate
  BY DEF Init, NoLostUpdate
<1> QED
  BY <1>1, TypeCorrect, NextNoLostUpdate, PTL DEF Spec

-----------------------------------------------------------------------------
(***************************************************************************)
(* The file the painter points to is alive, and a page-flip event is held  *)
(* back only from a client that has damage to grab.                        *)
(***************************************************************************)
LEMMA NextOwnerIsAlive ==
  TypeOK /\ OwnerIsAlive /\ [Next]_vars => OwnerIsAlive'
<1> SUFFICES ASSUME TypeOK, OwnerIsAlive, [Next]_vars PROVE OwnerIsAlive'
  OBVIOUS
<1> USE NullAssumption DEF OwnerIsAlive
<1>1. CASE UNCHANGED <<is_connected, drm_filp, file>>
  BY <1>1
<1>2. ASSUME NEW f \in Files, Open(f) \/ evdi_painter_close(f)
      PROVE  OwnerIsAlive'
  BY <1>2 DEF Open, evdi_painter_close, painterVars, TypeOK
<1>3. ASSUME NEW f \in Files, evdi_painter_connect(f)
      PROVE  OwnerIsAlive'
  BY <1>3 DEF evdi_painter_connect, clientVars, TypeOK
<1>4. ASSUME NEW f \in Files, evdi_painter_disconnect(f)
      PROVE  OwnerIsAlive'
  BY <1>4 DEF evdi_painter_disconnect, Disconnected
<1>5. ASSUME NEW f \in Files, CloseDisconnect(f)
      PROVE  OwnerIsAlive'
  BY <1>5 DEF CloseDisconnect, Disconnected, TypeOK
<1>6. CASE StartCommit \/ CommitStep
  BY <1>1, <1>6
     DEF CommitStep, StartCommit, PlaneDpms, PlaneModeset,
         evdi_painter_set_scanout_buffer, PlaneDamage, CursorDamage, MarkClip,
         evdi_painter_get_num_dirts, PlaneFullscreen, CursorUpdate,
         FlushReadMode, FlushReadDpms, ModeChangedLock, ModeChangedSend,
         ModeChangedClear, FlushDpms, evdi_painter_set_vblank,
         evdi_painter_send_update_ready_if_needed, painterVars, clientVars
<1> QED
  BY <1>1, <1>2, <1>3, <1>4, <1>5, <1>6
     DEF Next, vars, painterVars, clientVars, AddFb, RmFb,
         evdi_painter_request_update_ioctl, GrabTake, GrabFinish,
         evdi_painter_enable_cursor_events_ioctl, SwitchConsole,
         evdi_painter_vt_notifier_call, VtDpmsOff, VtForceModeset

\* painter->drm_filp is never a freed file, however closes, connects and
\* disconnects interleave, and the painter is connected exactly while it is
\* set.
THEOREM OwnerAlwaysAlive == Spec => []OwnerIsAlive
<1>1. Init => OwnerIsAlive
  BY DEF Init, OwnerIsAlive
<1> QED
  BY <1>1, TypeCorrect, NextOwnerIsAlive, PTL DEF Spec

LEMMA NextHeldVblank ==
  TypeOK /\ HeldVblankHasDamage /\ [Next]_vars => HeldVblankHasDamage'
<1> SUFFICES ASSUME TypeOK, HeldVblankHasDamage, [Next]_vars
             PROVE  HeldVblankHasDamage'
  OBVIOUS
<1> USE DEF HeldVblankHasDamage
<1>1. CASE UNCHANGED <<vblank, is_connected, num_dirts>>
  BY <1>1
\* Marking damage never leaves less than there was.
<1>2. CASE PlaneDamage \/ CursorDamage \/ PlaneFullscreen
  <2>1. num_dirts > 0 => num_dirts' > 0
    BY <1>2, MarkDirtyBound
       DEF PlaneDamage, CursorDamage, MarkClip, PlaneFullscreen
  <2>2. UNCHANGED <<vblank, is_connected>>
    BY <1>2 DEF PlaneDamage, CursorDamage, MarkClip, PlaneFullscreen
  <2> QED BY <2>1, <2>2
\* An event is held only after looking at both.
<1>3. CASE evdi_painter_set_vblank
  BY <1>3 DEF evdi_painter_set_vblank
<1>4. ASSUME NEW f \in Files, evdi_painter_connect(f)
      PROVE  HeldVblankHasDamage'
  BY <1>4 DEF evdi_painter_connect
<1>5. ASSUME NEW f \in Files,
             evdi_painter_disconnect(f) \/ CloseDisconnect(f)
      PROVE  HeldVblankHasDamage'
  BY <1>5 DEF evdi_painter_disconnect, CloseDisconnect, Disconnected
\* A grab takes damage and event, or leaves some of one and the other.
<1>6. ASSUME NEW f \in Files, GrabTake(f)
      PROVE  HeldVblankHasDamage'
  <2>1. CASE scanout_fb = NoFb
    <3>1. num_dirts > 0 => num_dirts' > 0
      BY <1>6, <2>1, MergeBound DEF GrabTake, TypeOK
    <3> QED BY <1>6, <2>1, <3>1 DEF GrabTake
  <2>2. CASE scanout_fb # NoFb
    BY <1>6, <2>2 DEF GrabTake
  <2> QED BY <2>1, <2>2
<1>7. CASE StartCommit \/ CommitStep
  BY <1>1, <1>2, <1>3, <1>7
     DEF CommitStep, StartCommit, PlaneDpms, PlaneModeset,
         evdi_painter_set_scanout_buffer, evdi_painter_get_num_dirts,
         CursorUpdate, FlushReadMode, FlushReadDpms, ModeChangedLock,
         ModeChangedSend, ModeChangedClear, FlushDpms,
         evdi_painter_send_update_ready_if_needed, painterVars
<1> QED
  BY <1>1, <1>4, <1>5, <1>6, <1>7
     DEF Next, vars, painterVars, AddFb, RmFb, Open, evdi_painter_close,
         evdi_painter_request_update_ioctl, GrabFinish,
         evdi_painter_enable_cursor_events_ioctl, SwitchConsole,
         evdi_painter_vt_notifier_call, VtDpmsOff, VtForceModeset

\* No page-flip event is held back without a connected client and damage for
\* it to grab.
THEOREM VblankHeldForDamage == Spec => []HeldVblankHasDamage
<1>1. Init => HeldVblankHasDamage
  BY DEF Init, HeldVblankHasDamage
<1> QED
  BY <1>1, TypeCorrect, NextHeldVblank, PTL DEF Spec

-----------------------------------------------------------------------------
(***************************************************************************)
(* Page-flip events.  The event moves commit -> painter -> grab, each move *)
(* under the lock, and is delivered where it ends.  Inductive only with    *)
(* the fact that a commit has given its event away before its last step:   *)
(* otherwise the next commit would overwrite it.                           *)
(***************************************************************************)
VblankInv ==
  /\ VblankExactlyOnce
  /\ pc \in {"idle", "update_ready"} => commit.event = NoEvent

LEMMA NextVblankInv == TypeOK /\ VblankInv /\ [Next]_vars => VblankInv'
<1> SUFFICES ASSUME TypeOK, VblankInv, [Next]_vars PROVE VblankInv'
  OBVIOUS
<1> USE NullAssumption DEF HeldBy
\* Most steps leave all events where they are.
<1>1. ASSUME UNCHANGED <<sent, vblank, grab>>, commit'.event = commit.event
      PROVE  VblankExactlyOnce'
  BY <1>1 DEF VblankInv, VblankExactlyOnce
<1>2. ASSUME UNCHANGED <<sent, vblank, grab, pc, commit>>
      PROVE  VblankInv'
  BY <1>1, <1>2 DEF VblankInv
\* A commit starts with a new event.
<1>3. CASE StartCommit
  <2>1. PICK e \in VblankEvents \cup {NoEvent} :
          /\ e # NoEvent => sent[e] = 1
          /\ sent' = IF e = NoEvent THEN sent ELSE [sent EXCEPT ![e] = 0]
          /\ commit'.event = e
    BY <1>3 DEF StartCommit, NoCommit
  <2>2. /\ commit.event = NoEvent
        /\ pc' \notin {"idle", "update_ready"}
        /\ UNCHANGED <<vblank, grab>>
    BY <1>3 DEF StartCommit, VblankInv, painterVars, clientVars
  <2>3. VblankExactlyOnce'
    BY <2>1, <2>2 DEF VblankInv, VblankExactlyOnce, TypeOK
  <2> QED BY <2>2, <2>3 DEF VblankInv
\* The callbacks before the flush keep it.
<1>4. CASE /\ CommitStep
           /\ ~evdi_painter_set_vblank
           /\ ~evdi_painter_send_update_ready_if_needed
  <2>1. commit'.event = commit.event
    BY <1>4
       DEF CommitStep, PlaneDpms, PlaneModeset,
           evdi_painter_set_scanout_buffer, PlaneDamage, CursorDamage,
           MarkClip, evdi_painter_get_num_dirts, PlaneFullscreen,
           CursorUpdate, FlushReadMode, FlushReadDpms, ModeChangedLock,
           ModeChangedSend, ModeChangedClear, FlushDpms, TypeOK
  <2>2. UNCHANGED <<sent, vblank, grab>>
    BY <1>4
       DEF CommitStep, PlaneDpms, PlaneModeset,
           evdi_painter_set_scanout_buffer, PlaneDamage, CursorDamage,
           MarkClip, evdi_painter_get_num_dirts, PlaneFullscreen,
           CursorUpdate, FlushReadMode, FlushReadDpms, ModeChangedLock,
           ModeChangedSend, ModeChangedClear, FlushDpms, painterVars,
           clientVars
  <2>3. pc' \notin {"idle", "update_ready"}
    BY <1>4
       DEF CommitStep, PlaneDpms, PlaneModeset,
           evdi_painter_set_scanout_buffer, PlaneDamage, CursorDamage,
           MarkClip, evdi_painter_get_num_dirts, PlaneFullscreen,
           CursorUpdate, FlushReadMode, FlushReadDpms, ModeChangedLock,
           ModeChangedSend, ModeChangedClear, FlushDpms
  <2> QED BY <1>1, <2>1, <2>2, <2>3 DEF VblankInv
\* The flush delivers the held event, and holds or delivers the new one.
<1>5. CASE evdi_painter_set_vblank
  <2>1. commit'.event = NoEvent /\ UNCHANGED grab
    BY <1>5 DEF evdi_painter_set_vblank, TypeOK, clientVars
  <2>2. VblankExactlyOnce'
    <3>1. CASE vblank' = commit.event /\ sent' = evdi_send_vblank(sent, vblank)
      BY <2>1, <3>1
         DEF VblankInv, VblankExactlyOnce, evdi_send_vblank, TypeOK
    <3>2. CASE /\ vblank' = NoEvent
               /\ sent' = evdi_send_vblank(evdi_send_vblank(sent, vblank),
                                            commit.event)
      BY <2>1, <3>2
         DEF VblankInv, VblankExactlyOnce, evdi_send_vblank, TypeOK
    <3> QED BY <1>5, <3>1, <3>2 DEF evdi_painter_set_vblank
  <2> QED BY <2>1, <2>2 DEF VblankInv
<1>6. CASE evdi_painter_send_update_ready_if_needed
  <2>1. commit'.event = NoEvent /\ commit.event = NoEvent
    BY <1>6 DEF evdi_painter_send_update_ready_if_needed, NoCommit, VblankInv
  <2>2. UNCHANGED <<sent, vblank, grab>>
    BY <1>6 DEF evdi_painter_send_update_ready_if_needed, clientVars
  <2> QED BY <1>1, <2>1, <2>2 DEF VblankInv
\* A disconnect delivers the held event.
<1>7. ASSUME NEW f \in Files,
             evdi_painter_disconnect(f) \/ CloseDisconnect(f)
      PROVE  VblankInv'
  <2>1. UNCHANGED <<pc, commit, grab>>
    BY <1>7 DEF evdi_painter_disconnect, CloseDisconnect, commitVars,
                clientVars
  <2>2. CASE Disconnected(f)
    <3>1. sent' = evdi_send_vblank(sent, vblank) /\ vblank' = NoEvent
      BY <2>2 DEF Disconnected
    <3> QED
      BY <2>1, <3>1
         DEF VblankInv, VblankExactlyOnce, evdi_send_vblank, TypeOK
  <2>3. CASE ~Disconnected(f)
    BY <1>2, <1>7, <2>1, <2>3 DEF evdi_painter_disconnect, CloseDisconnect
  <2> QED BY <2>2, <2>3
\* A grab takes it along and delivers it at its end.
<1>8. ASSUME NEW f \in Files, GrabTake(f)
      PROVE  VblankInv'
  <2>1. UNCHANGED <<pc, commit, sent>>
    BY <1>8 DEF GrabTake, commitVars
  <2>2. CASE scanout_fb = NoFb
    BY <1>2, <1>8, <2>1, <2>2 DEF GrabTake
  <2>3. CASE scanout_fb # NoFb
    <3>1. /\ grab[f].vblank = NoEvent
          /\ vblank' = NoEvent
          /\ grab'[f].vblank = vblank
          /\ \A g \in Files \ {f} : grab'[g] = grab[g]
      BY <1>8, <2>3 DEF GrabTake, NoGrab, TypeOK
    <3> SUFFICES ASSUME NEW e \in VblankEvents
                 PROVE  /\ sent'[e] \in {0, 1}
                        /\ sent'[e] = 0 <=>
                             \/ commit'.event = e
                             \/ vblank' = e
                             \/ \E g \in Files : grab'[g].vblank = e
                        /\ ~(commit'.event = e /\ vblank' = e)
                        /\ \A g \in Files : grab'[g].vblank = e =>
                             /\ commit'.event # e /\ vblank' # e
                             /\ \A h \in Files : grab'[h].vblank = e => h = g
      BY <2>1 DEF VblankInv, VblankExactlyOnce
    \* Before, e was with the painter or with a grab of another file.
    <3>2. \A g \in Files : grab'[g].vblank = e <=>
                            \/ g = f /\ vblank = e
                            \/ g # f /\ grab[g].vblank = e
      BY <3>1
    <3>3. \A g \in Files : grab[g].vblank = e =>
            /\ g # f /\ commit.event # e /\ vblank # e
            /\ \A h \in Files : grab[h].vblank = e => h = g
      BY <3>1 DEF VblankInv, VblankExactlyOnce
    <3>4. /\ sent[e] \in {0, 1}
          /\ sent[e] = 0 <=> \/ commit.event = e
                            \/ vblank = e
                            \/ \E g \in Files : grab[g].vblank = e
          /\ ~(commit.event = e /\ vblank = e)
      BY DEF VblankInv, VblankExactlyOnce
    <3> QED BY <2>1, <3>1, <3>2, <3>3, <3>4
  <2> QED BY <2>2, <2>3
<1>9. ASSUME NEW f \in Files, GrabFinish(f)
      PROVE  VblankInv'
  <2>1. UNCHANGED <<pc, commit, vblank>>
    BY <1>9 DEF GrabFinish, commitVars, painterVars
  <2>2. /\ sent' = evdi_send_vblank(sent, grab[f].vblank)
        /\ grab'[f].vblank = NoEvent
        /\ \A g \in Files \ {f} : grab'[g] = grab[g]
        /\ grab[f].vblank \in VblankEvents \cup {NoEvent}
    BY <1>9 DEF GrabFinish, NoGrab, TypeOK
  <2> QED
    BY <2>1, <2>2
       DEF VblankInv, VblankExactlyOnce, evdi_send_vblank, TypeOK
<1> QED
  BY <1>2, <1>3, <1>4, <1>5, <1>6, <1>7, <1>8, <1>9
     DEF Next, vars, painterVars, commitVars, clientVars, AddFb, RmFb, Open,
         evdi_painter_connect, evdi_painter_close,
         evdi_painter_request_update_ioctl,
         evdi_painter_enable_cursor_events_ioctl, SwitchConsole,
         evdi_painter_vt_notifier_call, VtDpmsOff, VtForceModeset

\* Every page-flip event is delivered at most once and never forgotten, for
\* any number of clients that grab, replace each other and leave.
THEOREM VblankNeverLostOrRepeated == Spec => []VblankExactlyOnce
<1>1. Init => VblankInv
  BY NullAssumption
     DEF Init, VblankInv, VblankExactlyOnce, HeldBy, NoCommit, NoGrab
<1>2. VblankInv => VblankExactlyOnce
  BY DEF VblankInv
<1> QED
  BY <1>1, <1>2, TypeCorrect, NextVblankInv, PTL DEF Spec

-----------------------------------------------------------------------------
(***************************************************************************)
(* Damage.                                                                 *)
(***************************************************************************)

\* The damage goes with a grab that takes what belongs to it.
Dropped ==
  num_dirts > 0 /\ num_dirts' = 0 =>
    /\ scanout_fb # NoFb
    /\ \E f \in Files : /\ grab[f] = NoGrab
                       /\ grab'[f] = [fb |-> scanout_fb, vblank |-> vblank]

LEMMA NextDropped == TypeOK /\ [Next]_vars => Dropped
<1> SUFFICES ASSUME TypeOK, [Next]_vars PROVE Dropped
  OBVIOUS
<1>1. CASE UNCHANGED num_dirts
  BY <1>1 DEF Dropped
<1>2. CASE PlaneDamage \/ CursorDamage \/ PlaneFullscreen
  <2>1. num_dirts > 0 => num_dirts' > 0
    BY <1>2, MarkDirtyBound
       DEF PlaneDamage, CursorDamage, MarkClip, PlaneFullscreen
  <2> QED BY <2>1 DEF Dropped
<1>3. ASSUME NEW f \in Files, GrabTake(f)
      PROVE  Dropped
  <2>1. CASE scanout_fb = NoFb
    <3>1. num_dirts > 0 => num_dirts' > 0
      BY <1>3, <2>1, MergeBound DEF GrabTake, TypeOK
    <3> QED BY <3>1 DEF Dropped
  <2>2. CASE scanout_fb # NoFb
    BY <1>3, <2>2 DEF GrabTake, TypeOK, Dropped
  <2> QED BY <2>1, <2>2
<1>4. CASE StartCommit \/ CommitStep
  BY <1>1, <1>2, <1>4
     DEF CommitStep, StartCommit, PlaneDpms, PlaneModeset,
         evdi_painter_set_scanout_buffer, evdi_painter_get_num_dirts,
         CursorUpdate, FlushReadMode, FlushReadDpms, ModeChangedLock,
         ModeChangedSend, ModeChangedClear, FlushDpms,
         evdi_painter_set_vblank, evdi_painter_send_update_ready_if_needed,
         painterVars
<1> QED
  BY <1>1, <1>3, <1>4
     DEF Next, vars, painterVars, AddFb, RmFb, Open, evdi_painter_connect,
         evdi_painter_disconnect, evdi_painter_close, CloseDisconnect,
         evdi_painter_request_update_ioctl, GrabFinish,
         evdi_painter_enable_cursor_events_ioctl, SwitchConsole,
         evdi_painter_vt_notifier_call, VtDpmsOff, VtForceModeset

\* painter->num_dirts becomes zero only in evdi_painter_grabpix_ioctl, with
\* the lock held, which takes the scanout buffer and the held event at once:
\* no merge, disconnect or new client drops damage.
THEOREM OnlyGrabsDropDamage == Spec => DamageDroppedByGrab
<1>1. TypeOK /\ [Next]_vars =>
        [num_dirts > 0 /\ num_dirts' = 0 =>
           /\ scanout_fb # NoFb
           /\ \E f \in Files : /\ grab[f] = NoGrab
                              /\ grab'[f] = [fb |-> scanout_fb,
                                             vblank |-> vblank]]_vars
  BY NextDropped DEF Dropped
<1> QED
  BY <1>1, TypeCorrect, PTL DEF Spec, DamageDroppedByGrab

-----------------------------------------------------------------------------
(***************************************************************************)
(* References of framebuffers.  The number of grabs that hold one is the   *)
(* cardinality of a set, finite however many files there are.  A commit    *)
(* has put the old framebuffer before it is idle.                          *)
(***************************************************************************)
GrabsOf(grabs, fb) == {f \in Files : grabs[f].fb = fb}

FbRefInv ==
  /\ FbReferences
  /\ \A fb \in Fbs : IsFiniteSet(GrabsOf(grab, fb))
  /\ pc = "idle" => commit = NoCommit

LEMMA RefsCounts ==
  ASSUME NEW r \in [Fbs -> Int], NEW fb \in Fbs \cup {NoFb}, NEW p \in Fbs
  PROVE  /\ Get(r, fb)[p] = r[p] + Holds(fb = p)
         /\ Put(r, fb)[p] = r[p] - Holds(fb = p)
BY NullAssumption DEF Get, Put, Holds

\* A grab that starts or ends is one more or one less.
LEMMA GrabsCounts ==
  ASSUME NEW f \in Files, NEW fb \in Fbs, IsFiniteSet(GrabsOf(grab, fb)),
         \A h \in Files \ {f} : grab'[h] = grab[h]
  PROVE  /\ IsFiniteSet(GrabsOf(grab', fb))
         /\ Cardinality(GrabsOf(grab', fb)) = Cardinality(GrabsOf(grab, fb))
                                              + Holds(grab'[f].fb = fb)
                                              - Holds(grab[f].fb = fb)
<1> DEFINE rest == GrabsOf(grab, fb) \ {f}
<1>1. IsFiniteSet(rest) /\ Cardinality(rest) \in Nat
  BY FS_Subset, FS_CardinalityType
<1>2. Cardinality(GrabsOf(grab, fb)) = Cardinality(rest)
                                         + Holds(grab[f].fb = fb)
  <2>1. CASE grab[f].fb = fb
    <3>1. GrabsOf(grab, fb) = rest \cup {f} /\ f \notin rest
      BY <2>1 DEF GrabsOf
    <3>2. Cardinality(rest \cup {f}) = Cardinality(rest) + 1
      BY <1>1, <3>1, FS_AddElement
    <3> QED BY <2>1, <3>1, <3>2 DEF Holds
  <2>2. CASE grab[f].fb # fb
    <3>1. GrabsOf(grab, fb) = rest
      BY <2>2 DEF GrabsOf
    <3> QED BY <1>1, <2>2, <3>1 DEF Holds
  <2> QED BY <2>1, <2>2
<1>3. /\ IsFiniteSet(GrabsOf(grab', fb))
      /\ Cardinality(GrabsOf(grab', fb)) = Cardinality(rest)
                                           + Holds(grab'[f].fb = fb)
  <2>1. CASE grab'[f].fb = fb
    <3>1. GrabsOf(grab', fb) = rest \cup {f} /\ f \notin rest
      BY <2>1 DEF GrabsOf
    <3>2. /\ IsFiniteSet(rest \cup {f})
          /\ Cardinality(rest \cup {f}) = Cardinality(rest) + 1
      BY <1>1, <3>1, FS_AddElement
    <3> QED BY <2>1, <3>1, <3>2 DEF Holds
  <2>2. CASE grab'[f].fb # fb
    <3>1. GrabsOf(grab', fb) = rest
      BY <2>2 DEF GrabsOf
    <3> HIDE DEF rest
    <3> QED BY <1>1, <2>2, <3>1 DEF Holds
  <2> QED BY <2>1, <2>2
<1> HIDE DEF rest
<1> QED BY <1>1, <1>2, <1>3 DEF Holds

\* The invariant, framebuffer by framebuffer.
LEMMA FbRefParts ==
  FbRefInv <=>
    /\ \A fb \in Fbs :
         /\ IsFiniteSet(GrabsOf(grab, fb))
         /\ refs[fb] = Holds(fb \in user_fbs) + Holds(plane_fb = fb)
                       + Holds(commit.old_fb = fb) + Holds(scanout_fb = fb)
                       + Cardinality(GrabsOf(grab, fb))
    /\ pc = "idle" => commit = NoCommit
BY DEF FbRefInv, FbReferences, GrabsOf

LEMMA FbRefPartsNext ==
  FbRefInv' <=>
    /\ \A fb \in Fbs :
         /\ IsFiniteSet(GrabsOf(grab', fb))
         /\ refs'[fb] = Holds(fb \in user_fbs') + Holds(plane_fb' = fb)
                        + Holds(commit'.old_fb = fb) + Holds(scanout_fb' = fb)
                        + Cardinality(GrabsOf(grab', fb))
    /\ pc' = "idle" => commit' = NoCommit
BY DEF FbRefInv, FbReferences, GrabsOf, Holds

LEMMA InitFbRefInv == Init => FbRefInv
<1> SUFFICES ASSUME Init PROVE FbRefInv
  OBVIOUS
<1>1. \A fb \in Fbs : GrabsOf(grab, fb) = {}
  BY NullAssumption DEF Init, GrabsOf, NoGrab
<1>2. \A fb \in Fbs : /\ IsFiniteSet(GrabsOf(grab, fb))
                     /\ Cardinality(GrabsOf(grab, fb)) = 0
  BY <1>1, FS_EmptySet
<1> QED BY <1>2, NullAssumption, FbRefParts DEF Init, NoCommit, Holds

\* The commit's other callbacks leave framebuffers alone.
LEMMA CommitKeepsFbs ==
  ASSUME TypeOK, CommitStep, ~evdi_painter_set_scanout_buffer,
         ~evdi_painter_send_update_ready_if_needed
  PROVE  /\ UNCHANGED <<refs, user_fbs, plane_fb, scanout_fb, grab>>
         /\ commit'.old_fb = commit.old_fb
         /\ pc # "idle" /\ pc' # "idle"
<1>1. commit'.old_fb = commit.old_fb
  BY DEF CommitStep, PlaneDpms, PlaneModeset, PlaneDamage, CursorDamage,
         MarkClip, evdi_painter_get_num_dirts, PlaneFullscreen, CursorUpdate,
         FlushReadMode, FlushReadDpms, ModeChangedLock, ModeChangedSend,
         ModeChangedClear, FlushDpms, evdi_painter_set_vblank, TypeOK
<1>2. UNCHANGED <<refs, user_fbs, plane_fb, scanout_fb, grab>>
  BY DEF CommitStep, PlaneDpms, PlaneModeset, PlaneDamage, CursorDamage,
         MarkClip, evdi_painter_get_num_dirts, PlaneFullscreen, CursorUpdate,
         FlushReadMode, FlushReadDpms, ModeChangedLock, ModeChangedSend,
         ModeChangedClear, FlushDpms, evdi_painter_set_vblank, painterVars,
         kmsVars, clientVars
<1>3. pc # "idle" /\ pc' # "idle"
  BY DEF CommitStep, PlaneDpms, PlaneModeset, PlaneDamage, CursorDamage,
         MarkClip, evdi_painter_get_num_dirts, PlaneFullscreen, CursorUpdate,
         FlushReadMode, FlushReadDpms, ModeChangedLock, ModeChangedSend,
         ModeChangedClear, FlushDpms, evdi_painter_set_vblank
<1> QED BY <1>1, <1>2, <1>3

LEMMA NextFbRefInv == TypeOK /\ FbRefInv /\ [Next]_vars => FbRefInv'
<1> SUFFICES ASSUME TypeOK, FbRefInv, [Next]_vars PROVE FbRefInv'
  OBVIOUS
<1> DEFINE Sum(fb) == Holds(fb \in user_fbs) + Holds(plane_fb = fb)
                      + Holds(commit.old_fb = fb) + Holds(scanout_fb = fb)
<1>a. /\ refs \in [Fbs -> Int]
      /\ \A fb \in Fbs : /\ IsFiniteSet(GrabsOf(grab, fb))
                        /\ Cardinality(GrabsOf(grab, fb)) \in Nat
                        /\ refs[fb] = Sum(fb) + Cardinality(GrabsOf(grab, fb))
      /\ pc = "idle" => commit = NoCommit
  BY FbRefParts, FS_CardinalityType DEF TypeOK
<1>b. UNCHANGED grab => \A fb \in Fbs : GrabsOf(grab', fb) = GrabsOf(grab, fb)
  BY DEF GrabsOf
\* What a case has to show when grabs stay.
<1>c. ASSUME UNCHANGED grab, pc' = "idle" => commit' = NoCommit,
             \A fb \in Fbs : refs'[fb] - Sum(fb)' = refs[fb] - Sum(fb)
      PROVE  FbRefInv'
  <2>1. ASSUME NEW fb \in Fbs
        PROVE  refs'[fb] = Sum(fb)' + Cardinality(GrabsOf(grab, fb))
    <3>1. refs'[fb] \in Int /\ Sum(fb) \in Int /\ Sum(fb)' \in Int
      BY NextType DEF TypeOK, Holds
    <3>2. refs'[fb] - Sum(fb)' = Cardinality(GrabsOf(grab, fb))
      <4> HIDE DEF Sum
      <4> QED BY <1>a, <1>c, <3>1
    <3> HIDE DEF Sum
    <3> QED BY <1>a, <3>1, <3>2
  <2> QED BY <1>a, <1>b, <1>c, <2>1, FbRefPartsNext
<1>d. ASSUME UNCHANGED <<refs, user_fbs, plane_fb, scanout_fb, grab>>,
             commit'.old_fb = commit.old_fb,
             pc' = "idle" => commit' = NoCommit
      PROVE  FbRefInv'
  BY <1>a, <1>c, <1>d DEF Holds
<1>1. CASE StartCommit
  <2>1. /\ commit.old_fb = NoFb /\ pc' # "idle"
        /\ UNCHANGED <<grab, scanout_fb, user_fbs>>
    BY <1>1, <1>a DEF StartCommit, NoCommit, clientVars, painterVars
  <2>2. CASE commit'.old_fb = NoFb /\ UNCHANGED <<plane_fb, refs>>
    BY <1>d, <2>1, <2>2
  <2>3. ASSUME NEW fb \in Fbs \cup {NoFb}, plane_fb' = fb,
               commit'.old_fb = plane_fb, refs' = Get(refs, fb)
        PROVE  FbRefInv'
    <3>1. \A p \in Fbs : refs'[p] - Sum(p)' = refs[p] - Sum(p)
      BY <1>a, <2>1, <2>3, RefsCounts, NullAssumption DEF Holds
    <3> QED BY <1>c, <2>1, <3>1
  <2> QED BY <1>1, <2>2, <2>3 DEF StartCommit, NoCommit, TypeOK
<1>2. CASE evdi_painter_set_scanout_buffer
  <2>1. /\ refs' = Put(Get(refs, plane_fb), scanout_fb)
        /\ scanout_fb' = plane_fb /\ commit'.old_fb = commit.old_fb
        /\ pc' # "idle"
        /\ UNCHANGED <<grab, user_fbs, plane_fb>>
    BY <1>2 DEF evdi_painter_set_scanout_buffer, clientVars, TypeOK
  <2>2. PICK r \in [Fbs -> Int] :
          /\ r = Get(refs, plane_fb)
          /\ \A p \in Fbs : r[p] = refs[p] + Holds(plane_fb = p)
    BY RefsType, RefsCounts DEF TypeOK
  <2>3. \A p \in Fbs : refs'[p] = r[p] - Holds(scanout_fb = p)
    BY <2>1, <2>2, RefsCounts DEF TypeOK
  <2> QED BY <1>a, <1>c, <2>1, <2>2, <2>3 DEF Holds
<1>3. CASE evdi_painter_send_update_ready_if_needed
  <2>1. /\ refs' = Put(refs, commit.old_fb) /\ commit' = NoCommit
        /\ commit'.old_fb = NoFb
        /\ UNCHANGED <<grab, user_fbs, plane_fb, scanout_fb>>
    BY <1>3 DEF evdi_painter_send_update_ready_if_needed, clientVars, NoCommit
  <2>2. \A p \in Fbs : refs'[p] = refs[p] - Holds(commit.old_fb = p)
    BY <1>a, <2>1, RefsCounts DEF TypeOK
  <2> QED BY <1>a, <1>c, <2>1, <2>2, NullAssumption DEF Holds
<1>4. CASE CommitStep /\ ~evdi_painter_set_scanout_buffer
             /\ ~evdi_painter_send_update_ready_if_needed
  BY <1>4, <1>d, CommitKeepsFbs
<1>5. ASSUME NEW fb \in Fbs, AddFb(fb) \/ RmFb(fb)
      PROVE  FbRefInv'
  <2>1. UNCHANGED <<grab, plane_fb, scanout_fb, pc, commit>>
    BY <1>5 DEF AddFb, RmFb, clientVars, painterVars, commitVars
  <2>2. CASE AddFb(fb)
    <3>1. fb \notin user_fbs
      BY <1>a, <2>2 DEF AddFb, Holds
    <3>2. \A p \in Fbs : refs'[p] = refs[p] + Holds(fb = p)
      BY <1>a, <2>2, RefsCounts DEF AddFb
    <3> QED BY <1>a, <1>c, <2>1, <2>2, <3>1, <3>2 DEF AddFb, Holds
  <2>3. CASE RmFb(fb)
    <3>1. \A p \in Fbs : refs'[p] = refs[p] - Holds(fb = p)
      BY <1>a, <2>3, RefsCounts DEF RmFb
    <3> QED BY <1>a, <1>c, <2>1, <2>3, <3>1 DEF RmFb, Holds
  <2> QED BY <1>5, <2>2, <2>3
<1>6. ASSUME NEW f \in Files, evdi_painter_disconnect(f) \/ CloseDisconnect(f)
      PROVE  FbRefInv'
  <2>1. UNCHANGED <<grab, plane_fb, user_fbs, pc, commit>>
    BY <1>6 DEF evdi_painter_disconnect, CloseDisconnect, clientVars,
                commitVars
  <2>2. CASE Disconnected(f)
    <3>1. refs' = Put(refs, scanout_fb) /\ scanout_fb' = NoFb
      BY <2>2 DEF Disconnected
    <3>2. \A p \in Fbs : refs'[p] = refs[p] - Holds(scanout_fb = p)
      BY <1>a, <3>1, RefsCounts DEF TypeOK
    <3> QED BY <1>a, <1>c, <2>1, <3>1, <3>2, NullAssumption DEF Holds
  <2>3. CASE ~Disconnected(f)
    BY <1>6, <1>a, <1>d, <2>1, <2>3
       DEF evdi_painter_disconnect, CloseDisconnect
  <2> QED BY <2>2, <2>3
\* A grab holds the scanout buffer it took until it ends.
<1>7. ASSUME NEW f \in Files, GrabTake(f) \/ GrabFinish(f)
      PROVE  FbRefInv'
  <2>1. UNCHANGED <<user_fbs, plane_fb, commit, pc, scanout_fb>>
    BY <1>7 DEF GrabTake, GrabFinish, painterVars, commitVars
  <2>2. ASSUME \A h \in Files \ {f} : grab'[h] = grab[h],
               \A p \in Fbs : refs'[p] = refs[p] + Holds(grab'[f].fb = p)
                                         - Holds(grab[f].fb = p)
        PROVE  FbRefInv'
    <3>1. \A p \in Fbs :
            /\ IsFiniteSet(GrabsOf(grab', p))
            /\ Cardinality(GrabsOf(grab', p))
                 = Cardinality(GrabsOf(grab, p)) + Holds(grab'[f].fb = p)
                                                 - Holds(grab[f].fb = p)
      BY <1>a, <2>2, GrabsCounts
    <3>2. \A p \in Fbs :
            refs'[p] = Holds(p \in user_fbs) + Holds(plane_fb = p)
                       + Holds(commit.old_fb = p) + Holds(scanout_fb = p)
                       + Cardinality(GrabsOf(grab', p))
      BY <1>a, <2>2, <3>1 DEF Holds
    <3> QED BY <1>a, <2>1, <3>1, <3>2, FbRefPartsNext
  <2>3. CASE GrabTake(f) /\ scanout_fb = NoFb
    BY <1>a, <1>d, <2>1, <2>3 DEF GrabTake
  <2>4. CASE GrabTake(f) /\ scanout_fb # NoFb
    <3>1. /\ \A h \in Files \ {f} : grab'[h] = grab[h]
          /\ grab'[f].fb = scanout_fb /\ grab[f].fb = NoFb
          /\ refs' = Get(refs, scanout_fb)
      BY <2>4 DEF GrabTake, NoGrab, TypeOK
    <3>2. \A p \in Fbs : refs'[p] = refs[p] + Holds(grab'[f].fb = p)
                                    - Holds(grab[f].fb = p)
      BY <1>a, <3>1, RefsCounts, NullAssumption DEF TypeOK, Holds
    <3> QED BY <2>2, <3>1, <3>2
  <2>5. CASE GrabFinish(f)
    <3>1. /\ \A h \in Files \ {f} : grab'[h] = grab[h]
          /\ grab'[f].fb = NoFb /\ grab[f].fb \in Fbs \cup {NoFb}
          /\ refs' = Put(refs, grab[f].fb)
      BY <2>5 DEF GrabFinish, NoGrab, TypeOK
    <3>2. \A p \in Fbs : refs'[p] = refs[p] + Holds(grab'[f].fb = p)
                                    - Holds(grab[f].fb = p)
      BY <1>a, <3>1, RefsCounts, NullAssumption DEF Holds
    <3> QED BY <2>2, <3>1, <3>2
  <2> QED BY <1>7, <2>3, <2>4, <2>5
<1> QED
  BY <1>a, <1>d, <1>1, <1>2, <1>3, <1>4, <1>5, <1>6, <1>7
     DEF Next, vars, painterVars, kmsVars, commitVars, clientVars, Open,
         evdi_painter_connect, evdi_painter_close,
         evdi_painter_request_update_ioctl,
         evdi_painter_enable_cursor_events_ioctl, SwitchConsole,
         evdi_painter_vt_notifier_call, VtDpmsOff, VtForceModeset

\* Every framebuffer has as many references as holders, for any number of
\* files whose grabs overlap commits and disconnects: none is freed while a
\* grab copies it, and none leaks.
THEOREM FbReferencesExact == Spec => []FbReferences
<1>1. FbRefInv => FbReferences
  BY DEF FbRefInv
<1> QED
  BY <1>1, InitFbRefInv, NextFbRefInv, TypeCorrect, PTL DEF Spec

-----------------------------------------------------------------------------
(***************************************************************************)
(* Notifications, as long as connects and VT switches stay clear of        *)
(* evdi_painter_mode_changed_notify.                                       *)
(***************************************************************************)

\* The flag is cleared after the event was sent.
ToldInv ==
  /\ ModeTold
  /\ pc = "mode_clear" /\ is_connected => mode_told

LEMMA NextToldInv ==
  ASSUME ~OverlapModeset
  PROVE  OwnerIsAlive /\ ToldInv /\ [Next]_vars => ToldInv'
<1> SUFFICES ASSUME OwnerIsAlive, ToldInv, [Next]_vars PROVE ToldInv'
  OBVIOUS
<1> USE DEF ToldInv, ModeTold
\* Most steps ask for a modeset if they touch the flag at all.
<1>1. ASSUME UNCHANGED <<is_connected, mode_told>>,
             needs_full_modeset => needs_full_modeset',
             pc' = "mode_clear" => pc = "mode_clear"
      PROVE  ToldInv'
  BY <1>1
<1>2. CASE ModeChangedClear
  BY <1>2 DEF ModeChangedClear, toldVars
<1>3. CASE ModeChangedSend
  BY <1>3 DEF ModeChangedSend, CanSend, OwnerIsAlive, painterVars
<1>4. ASSUME NEW f \in Files, evdi_painter_connect(f)
      PROVE  ToldInv'
  BY <1>4 DEF evdi_painter_connect, ModeChangedNotify, commitVars
<1>5. ASSUME NEW f \in Files, evdi_painter_disconnect(f) \/ CloseDisconnect(f)
      PROVE  ToldInv'
  BY <1>1, <1>5 DEF evdi_painter_disconnect, CloseDisconnect, Disconnected,
                    commitVars, toldVars
<1>6. CASE StartCommit \/ CommitStep
  BY <1>1, <1>2, <1>3, <1>6
     DEF CommitStep, StartCommit, PlaneDpms, PlaneModeset, PlaneDamage,
         CursorDamage, MarkClip, evdi_painter_set_scanout_buffer,
         evdi_painter_get_num_dirts, PlaneFullscreen, CursorUpdate,
         FlushReadMode, FlushReadDpms, ModeChangedLock, FlushDpms,
         evdi_painter_set_vblank, evdi_painter_send_update_ready_if_needed,
         painterVars, toldVars
<1> QED
  BY <1>1, <1>4, <1>5, <1>6
     DEF Next, vars, painterVars, commitVars, toldVars, AddFb, RmFb, Open,
         evdi_painter_close, evdi_painter_request_update_ioctl, GrabTake,
         GrabFinish, evdi_painter_enable_cursor_events_ioctl, SwitchConsole,
         evdi_painter_vt_notifier_call, VtDpmsOff, VtForceModeset

\* A client that finds no full modeset pending was told the mode: for any
\* number of clients, if no connect overlaps the notification.  The run
\* painter_mode_race shows that the assumption is needed.
THEOREM ModeIsTold ==
  ASSUME ~OverlapModeset
  PROVE  Spec => []ModeTold
<1>1. Init => ToldInv
  BY DEF Init, ToldInv, ModeTold
<1>2. ToldInv => ModeTold
  BY DEF ToldInv
<1> QED
  BY <1>1, <1>2, NextToldInv, OwnerAlwaysAlive, PTL DEF Spec

\* The client was told that the display is off, which it is not, and nothing
\* is pending that would tell it.
Dark ==
  /\ is_connected /\ dpms_told = "off"
  /\ crtc_active /\ plane_fb # NoFb
  /\ vt = "idle" /\ ~needs_full_modeset

FlushSteps == {"flush_dpms", "mode", "mode_send", "mode_clear", "dpms"}

\* If so, the commit is about to: with the plane's first framebuffer, or with
\* the notification of its flush.  A full modeset that is pending when the
\* flag is cleared has been seen by the second read of it.
DpmsInv ==
  /\ Dark => \/ pc = "plane" /\ commit.old_fb = NoFb
             \/ pc \in FlushSteps /\ commit.notify_dpms
  /\ pc = "flush_dpms" /\ commit.notify_mode => crtc_active
  /\ ModeChangedNotify =>
       crtc_active /\ (needs_full_modeset => commit.notify_dpms)

LEMMA NextDpmsInv ==
  ASSUME ~OverlapModeset
  PROVE  TypeOK /\ OwnerIsAlive /\ DpmsInv /\ [Next]_vars => DpmsInv'
<1> SUFFICES ASSUME TypeOK, OwnerIsAlive, DpmsInv, [Next]_vars PROVE DpmsInv'
  OBVIOUS
<1> USE DEF DpmsInv, Dark, ModeChangedNotify, FlushSteps
\* Nobody notices, or a modeset is asked for clear of the notification.
<1>1. ASSUME UNCHANGED <<is_connected, dpms_told, crtc_active, plane_fb, vt,
                         pc, commit, needs_full_modeset>>
      PROVE  DpmsInv'
  BY <1>1
<1>2. ASSUME UNCHANGED <<crtc_active, pc, commit>>, ~Dark',
             needs_full_modeset' => needs_full_modeset \/ ~ModeChangedNotify
      PROVE  DpmsInv'
  BY <1>2
\* A commit outside of the notification.
<1>3. ASSUME UNCHANGED <<is_connected, dpms_told, crtc_active, plane_fb, vt>>,
             needs_full_modeset => needs_full_modeset',
             pc \notin FlushSteps \cup {"plane"}, pc' \notin FlushSteps
      PROVE  DpmsInv'
  BY <1>3
<1>4. CASE StartCommit
  <2>1. /\ UNCHANGED <<is_connected, dpms_told, crtc_active, vt,
                       needs_full_modeset>>
        /\ pc = "idle"
    BY <1>4 DEF StartCommit, painterVars, toldVars
  <2>2. \/ pc' = "cursor" /\ UNCHANGED plane_fb
        \/ pc' = "plane" /\ commit'.old_fb = plane_fb
    BY <1>4 DEF StartCommit, NoCommit
  <2> QED BY <2>1, <2>2
<1>5. CASE PlaneDpms
  <2>1. /\ UNCHANGED <<is_connected, drm_filp, crtc_active, plane_fb, vt,
                       needs_full_modeset>>
        /\ pc = "plane" /\ pc' \in {"cursor", "modeset"}
    BY <1>5 DEF PlaneDpms, kmsVars
  <2>2. ~Dark'
    BY <1>5, <2>1 DEF PlaneDpms, evdi_painter_dpms_notify, CanSend,
                      OwnerIsAlive
  <2> QED BY <2>1, <2>2
<1>6. CASE PlaneModeset
  <2>1. needs_full_modeset => needs_full_modeset'
    BY <1>6 DEF PlaneModeset
  <2> QED BY <1>3, <1>6, <2>1 DEF PlaneModeset, kmsVars, toldVars
<1>7. CASE \/ evdi_painter_set_scanout_buffer \/ PlaneDamage
           \/ evdi_painter_get_num_dirts \/ PlaneFullscreen \/ CursorUpdate
           \/ CursorDamage \/ evdi_painter_set_vblank
           \/ evdi_painter_send_update_ready_if_needed
  BY <1>3, <1>7
     DEF evdi_painter_set_scanout_buffer, PlaneDamage, CursorDamage, MarkClip,
         evdi_painter_get_num_dirts, PlaneFullscreen, CursorUpdate,
         evdi_painter_set_vblank, evdi_painter_send_update_ready_if_needed,
         painterVars, kmsVars, toldVars
<1>8. CASE FlushReadMode
  <2>1. /\ UNCHANGED <<is_connected, dpms_told, plane_fb, vt,
                       needs_full_modeset>>
        /\ pc = "flush" /\ pc' = "flush_dpms"
    BY <1>8 DEF FlushReadMode, painterVars, toldVars
  <2>2. /\ commit'.notify_mode => crtc_active'
        /\ crtc_active' # crtc_active => commit'.notify_dpms
    BY <1>8 DEF FlushReadMode, TypeOK
  <2> QED BY <2>1, <2>2 DEF TypeOK
<1>9. CASE FlushReadDpms
  <2>1. /\ UNCHANGED <<is_connected, dpms_told, crtc_active, plane_fb, vt,
                       needs_full_modeset>>
        /\ pc = "flush_dpms"
        /\ pc' = IF commit.notify_mode THEN "mode" ELSE "dpms"
    BY <1>9 DEF FlushReadDpms, painterVars, kmsVars, toldVars
  <2>2. commit'.notify_dpms <=> (commit.notify_dpms \/ needs_full_modeset)
    BY <1>9 DEF FlushReadDpms, TypeOK
  <2> QED BY <2>1, <2>2
<1>10. CASE ModeChangedLock \/ ModeChangedSend
  <2>1. /\ UNCHANGED <<is_connected, dpms_told, crtc_active, plane_fb, vt,
                       needs_full_modeset, commit>>
        /\ ModeChangedNotify
        /\ pc' \in {"mode_send", "mode_clear", "dpms"}
    BY <1>10 DEF ModeChangedLock, ModeChangedSend, painterVars, kmsVars,
                 toldVars
  <2> QED BY <2>1
<1>11. CASE ModeChangedClear
  <2>1. /\ UNCHANGED <<is_connected, dpms_told, crtc_active, plane_fb, vt,
                       commit>>
        /\ pc = "mode_clear" /\ pc' = "dpms" /\ ~needs_full_modeset'
    BY <1>11 DEF ModeChangedClear, kmsVars, toldVars
  <2> QED BY <2>1
<1>12. CASE FlushDpms
  <2>1. /\ UNCHANGED <<is_connected, crtc_active, plane_fb, vt,
                       needs_full_modeset>>
        /\ pc = "dpms" /\ pc' = "vblank"
    BY <1>12 DEF FlushDpms, kmsVars
  <2>2. ~Dark'
    BY <1>12, <2>1 DEF FlushDpms, evdi_painter_dpms_notify, CanSend,
                       OwnerIsAlive
  <2> QED BY <2>1, <2>2
<1>13. ASSUME NEW f \in Files, evdi_painter_connect(f)
       PROVE  DpmsInv'
  BY <1>2, <1>13 DEF evdi_painter_connect, kmsVars, commitVars
<1>14. ASSUME NEW f \in Files, evdi_painter_disconnect(f) \/ CloseDisconnect(f)
       PROVE  DpmsInv'
  <2>1. UNCHANGED <<crtc_active, plane_fb, vt, pc, commit, needs_full_modeset>>
    BY <1>14 DEF evdi_painter_disconnect, CloseDisconnect, commitVars
  <2>2. ~is_connected' \/ UNCHANGED <<is_connected, dpms_told>>
    BY <1>14 DEF evdi_painter_disconnect, CloseDisconnect, Disconnected,
                 toldVars
  <2> QED BY <1>1, <1>2, <2>1, <2>2
<1>15. CASE evdi_painter_vt_notifier_call \/ VtDpmsOff \/ VtForceModeset
  BY <1>2, <1>15
     DEF evdi_painter_vt_notifier_call, VtDpmsOff, VtForceModeset, painterVars,
         kmsVars, commitVars
<1> QED
  BY <1>1, <1>4, <1>5, <1>6, <1>7, <1>8, <1>9, <1>10, <1>11, <1>12, <1>13,
     <1>14, <1>15
     DEF Next, CommitStep, vars, painterVars, kmsVars, commitVars, toldVars,
         AddFb, RmFb, Open, evdi_painter_close,
         evdi_painter_request_update_ioctl, GrabTake, GrabFinish,
         evdi_painter_enable_cursor_events_ioctl, SwitchConsole

\* A client that a VT switch or a commit has switched off is switched on again,
\* or owed the full modeset that does it, when the CRTC shows a framebuffer:
\* evdi_crtc_atomic_flush reads needs_full_modeset a second time, before the
\* notification clears it.
THEOREM DarkClientIsOwed ==
  ASSUME ~OverlapModeset
  PROVE  Spec => []DpmsOffOwesModeset
<1>1. Init => DpmsInv
  BY DEF Init, DpmsInv, Dark, ModeChangedNotify
<1>2. DpmsInv => DpmsOffOwesModeset
  BY DEF DpmsInv, Dark, FlushSteps, DpmsOffOwesModeset
<1> QED
  BY <1>1, <1>2, NextDpmsInv, TypeCorrect, OwnerAlwaysAlive, PTL DEF Spec
=============================================================================
