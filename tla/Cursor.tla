------------------------------- MODULE Cursor -------------------------------
(***************************************************************************)
(* The cursor (module/evdi_cursor.c) between its users: cursor plane       *)
(* updates of the commit thread (evdi_modeset.c), grabs that blend it and  *)
(* cursor events that pass it to the client (evdi_painter.c), and the      *)
(* client that connects, disconnects and closes its file.                  *)
(*                                                                         *)
(* What is under cursor->lock is one step, but evdi_cursor_set, which maps *)
(* the object with the lock held.  Pixels are in module Arithmetic.        *)
(***************************************************************************)
EXTENDS Gem

CONSTANTS
  Scanout,        \* objects whose framebuffers the painter shows
  Shared,         \* objects that processes map, or that other drivers share
  Apart           \* bound: objects are shared and measured, and vmap and pins
                  \* of shared ones fail, in behaviours in which no client
                  \* opens its file and there are no others, and only there

ASSUME SharedAssumption ==
  Scanout \subseteq Objects /\ Shared \subseteq Objects /\ Apart \in BOOLEAN

VARIABLES
  cursor,          \* struct evdi_cursor
  plane,           \* the object of the cursor plane's framebuffer
  old_plane,       \* what it was before the update in progress
  file,            \* the client's file: closed, open, released by DRM, or
                   \* absent if no client ever opens it
  drm_filp,        \* is the painter connected to it?
  client_handles,  \* objects it has handles of
  cursor_events_enabled,
  disconnect,      \* how far evdi_painter_disconnect has got
  told,            \* history: the cursor the client was told of
  overlapped       \* history: objects of which two uses got into each other's
                   \* way since they were allocated

clientVars == <<file, drm_filp, client_handles, cursor_events_enabled,
                disconnect>>
planeVars == <<plane, old_plane>>
vars == <<gemVars, cursor, planeVars, clientVars, told, overlapped>>

Cursors == [obj : Objects \cup {NoObject}, enabled : BOOLEAN]

\* The client knows nothing of the cursor.
Unknown == [obj |-> NoObject, enabled |-> TRUE]

TypeOK ==
  /\ GemTypeOK
  /\ cursor \in Cursors
  /\ plane \in Objects \cup {NoObject} /\ old_plane \in Objects \cup {NoObject}
  /\ file \in {"absent", "closed", "open", "released"}
  /\ drm_filp \in BOOLEAN
  /\ client_handles \subseteq Objects
  /\ cursor_events_enabled \in BOOLEAN
  /\ disconnect \in {"no", "disabled", "left"}
  /\ told \in Cursors
  /\ overlapped \subseteq Objects

Init ==
  /\ GemInit
  /\ cursor = [obj |-> NoObject, enabled |-> FALSE]
  /\ plane = NoObject
  /\ old_plane = plane
  /\ file \in {"absent", "closed"} /\ drm_filp = FALSE /\ client_handles = {}
  /\ cursor_events_enabled = FALSE
  /\ disconnect = "no"
  /\ told = Unknown
  /\ overlapped = {}

-----------------------------------------------------------------------------
(***************************************************************************)
(* The cursor itself.                                                      *)
(***************************************************************************)

Updating == thread[Commit].pc # "idle"

\* evdi_cursor_set holds cursor->lock while it maps the object; so does a
\* commit thread that faulted in create_cursor_set_event, for good.
CursorLockFree == thread[Commit].pc \notin {"check", "pin", "map", "oops"}

\* Mutant: the new object is not referenced.
SetGemWithoutGet(o) ==
  [p \in Objects |-> IF p = cursor.obj /\ p # o THEN Put(gem[p]) ELSE gem[p]]

\* evdi_cursor_set_gem gets the new object before it puts the old one.
evdi_cursor_set_gem(o) ==
  [p \in Objects |->
     LET got == IF p = o THEN Get(gem[p]) ELSE gem[p]
     IN IF p = cursor.obj THEN Put(got) ELSE got]

\* evdi_cursor_enable(cursor, FALSE)
DisableCursor ==
  /\ cursor' = [cursor EXCEPT !.enabled = FALSE, !.obj = NoObject]
  /\ gem' = evdi_cursor_set_gem(NoObject)

-----------------------------------------------------------------------------
(***************************************************************************)
(* A cursor plane update: evdi_cursor_atomic_update.                       *)
(***************************************************************************)

\* The commit thread has a reference to the framebuffer of the new state, if it
\* is another one: a framebuffer that stays is not set again.
evdi_cursor_atomic_update(o) ==
  /\ thread[Commit] = Idle
  /\ o \in (fbs \cup {NoObject}) \ {plane}
  /\ old_plane' = plane
  /\ plane' = o
  /\ fb_refs' = [p \in Objects |-> IF p = o THEN fb_refs[p] + 1 ELSE fb_refs[p]]
  /\ thread' = [thread EXCEPT ![Commit] =
       [pc |-> IF o # NoObject THEN "check" ELSE "enable", obj |-> o]]
  /\ UNCHANGED <<gem, userVars, fbs, cursor, clientVars, told>>

\* evdi_cursor_set, when the object is mapped or could not be.
evdi_cursor_set ==
  LET o == IF thread[Commit].pc = "use" THEN thread[Commit].obj ELSE NoObject
  IN /\ thread[Commit].pc \in {"use", "failed"}
     /\ cursor' = [cursor EXCEPT !.obj = o, !.enabled = o # NoObject]
     /\ gem' = evdi_cursor_set_gem(o)
     /\ Go(Commit, "enable")
     /\ UNCHANGED <<userVars, fbs, fb_refs, planeVars, clientVars, told>>

\* Mutant: an update without framebuffer is not announced.
EnableUnannounced ==
  /\ thread[Commit].pc = "enable"
  /\ \/ /\ plane # NoObject
        /\ cursor' = [cursor EXCEPT !.enabled = TRUE]
        /\ UNCHANGED gem
        /\ Go(Commit, "events")
     \/ /\ plane = NoObject
        /\ DisableCursor
        /\ Go(Commit, "put")
  /\ UNCHANGED <<userVars, fbs, fb_refs, planeVars, clientVars, told>>

\* evdi_cursor_enable(cursor, fb != NULL): it enables a cursor whose object
\* could not be mapped, and has none.
evdi_cursor_enable ==
  /\ thread[Commit].pc = "enable"
  /\ \/ /\ plane # NoObject
        /\ cursor' = [cursor EXCEPT !.enabled = TRUE]
        /\ UNCHANGED gem
     \/ /\ plane = NoObject
        /\ DisableCursor
  /\ Go(Commit, "events")
  /\ UNCHANGED <<userVars, fbs, fb_refs, planeVars, clientVars, told>>

\* cursor_events_enabled is read without a lock.  Without events the screen is
\* marked dirty (module Painter).
ChooseEvents ==
  /\ thread[Commit].pc = "events"
  /\ Go(Commit, IF cursor_events_enabled THEN "send_set" ELSE "put")
  /\ UNCHANGED <<gem, userVars, fbs, fb_refs, cursor, planeVars, clientVars,
                 told>>

evdi_gem_object_handle_lookup(o) == o \in client_handles

\* create_cursor_set_event: evdi_painter_get_gem_handle looks for a handle of
\* the cursor's object in the client's file, or creates one, which may fail.
\* Nothing keeps the file: the handle may be created after DRM has put the
\* others, and without a file the thread faults.  An event without a handle
\* says that the cursor is disabled.  An event for a client that is gone is
\* dropped (module Events).
evdi_painter_send_cursor_set ==
  LET o == cursor.obj
      CanSend == drm_filp /\ disconnect = "no"
      Announce(c) == told' = IF CanSend THEN c ELSE told
  IN /\ thread[Commit].pc = "send_set"
     /\ \/ /\ o # NoObject /\ ~drm_filp
           /\ Go(Commit, "oops")
           /\ UNCHANGED <<gem, client_handles, told>>
        \/ /\ o # NoObject => drm_filp /\ evdi_gem_object_handle_lookup(o)
           /\ Announce([cursor EXCEPT !.enabled = @ /\ o # NoObject])
           /\ Go(Commit, "put")
           /\ UNCHANGED <<gem, client_handles>>
        \/ /\ o # NoObject /\ drm_filp /\ ~evdi_gem_object_handle_lookup(o)
           /\ client_handles' = client_handles \cup {o}
           /\ gem' = [gem EXCEPT ![o] = Get(@)]
           /\ Announce(cursor)
           /\ Go(Commit, "put")
        \/ /\ o # NoObject /\ drm_filp /\ ~evdi_gem_object_handle_lookup(o)
           /\ Announce(Unknown)
           /\ Go(Commit, "put")
           /\ UNCHANGED <<gem, client_handles>>
     /\ UNCHANGED <<userVars, fbs, fb_refs, cursor, planeVars, file, drm_filp,
                    cursor_events_enabled, disconnect>>

\* The commit ends: DRM puts the framebuffer of the old state.  The reference
\* of the new one is now the plane's.
CommitEnd ==
  /\ thread[Commit].pc = "put"
  /\ IF old_plane # NoObject THEN FbPut(old_plane)
     ELSE UNCHANGED <<gem, fb_refs>>
  /\ old_plane' = plane
  /\ thread' = [thread EXCEPT ![Commit] = Idle]
  /\ UNCHANGED <<userVars, fbs, cursor, plane, clientVars, told>>

CommitStep ==
  \/ \E o \in Objects \cup {NoObject} : evdi_cursor_atomic_update(o)
  \/ (CheckMapping(Commit) \/ VmapPin(Commit) \/ VmapMap(Commit))
       /\ UNCHANGED <<cursor, planeVars, clientVars, told>>
  \/ evdi_cursor_set \/ evdi_cursor_enable \/ ChooseEvents
  \/ evdi_painter_send_cursor_set \/ CommitEnd

-----------------------------------------------------------------------------
(***************************************************************************)
(* Grabs, on the framebuffer the painter shows.                            *)
(***************************************************************************)

\* A thread in step "use" copies the primary pixels, then blends the cursor
\* under cursor->lock if there are no cursor events.
GrabEnd(g) ==
  /\ At(g, "use")
  /\ cursor_events_enabled \/ CursorLockFree
  /\ FbPut(thread[g].obj)
  /\ thread' = [thread EXCEPT ![g] = Idle]
  /\ UNCHANGED <<userVars, fbs>>

\* evdi_cursor_compose_and_copy reads the pixels of a cursor that is enabled
\* and has a mapped object.
evdi_cursor_compose_and_copy ==
  cursor.enabled /\ cursor.obj # NoObject /\ gem[cursor.obj].vmapping

GrabStep(g) ==
  /\ \/ \E o \in Scanout : TakeFb(g, o, "check")
     \/ MapStep(g)
     \/ GrabEnd(g)
  /\ UNCHANGED <<cursor, planeVars, clientVars, told>>

-----------------------------------------------------------------------------
(***************************************************************************)
(* The client.                                                             *)
(***************************************************************************)

\* Bound: not after a handle was created too late, which stays in the file.
OpenFile ==
  /\ file = "closed" /\ client_handles = {}
  /\ file' = "open"
  /\ UNCHANGED <<gemVars, cursor, planeVars, drm_filp, client_handles,
                 cursor_events_enabled, disconnect, told>>

evdi_painter_connect ==
  /\ file = "open" /\ disconnect = "no"
  /\ drm_filp' = TRUE
  /\ UNCHANGED <<gemVars, cursor, planeVars, file, client_handles,
                 cursor_events_enabled, disconnect, told>>

\* The ioctl takes no lock, and the client need not be connected.
evdi_painter_enable_cursor_events_ioctl(enable) ==
  /\ file = "open"
  /\ cursor_events_enabled' = enable
  /\ told' = Unknown
  /\ UNCHANGED <<gemVars, cursor, planeVars, file, drm_filp, client_handles,
                 disconnect>>

\* evdi_painter_disconnect disables the cursor, under cursor->lock, ...
evdi_painter_disconnect ==
  /\ file \in {"open", "released"}
  /\ drm_filp /\ disconnect = "no"
  /\ CursorLockFree
  /\ disconnect' = "disabled"
  /\ DisableCursor
  /\ told' = Unknown
  /\ UNCHANGED <<userVars, fbs, fb_refs, thread, planeVars, file, drm_filp,
                 client_handles, cursor_events_enabled>>

\* ... then leaves the file, ...
DisconnectFile ==
  /\ disconnect = "disabled"
  /\ disconnect' = "left"
  /\ drm_filp' = FALSE
  /\ UNCHANGED <<gemVars, cursor, planeVars, file, client_handles,
                 cursor_events_enabled, told>>

\* ... and only then resets cursor_events_enabled.
DisconnectEnd ==
  /\ disconnect = "left"
  /\ disconnect' = "no"
  /\ cursor_events_enabled' = FALSE
  /\ UNCHANGED <<gemVars, cursor, planeVars, file, drm_filp, client_handles,
                 told>>

\* Closing a file: DRM puts its handles first (drm_gem_release) ...
ReleaseFile ==
  /\ file = "open" /\ disconnect = "no"
  /\ file' = "released"
  /\ gem' = [o \in Objects |-> IF o \in client_handles THEN Put(gem[o])
                               ELSE gem[o]]
  /\ client_handles' = {}
  /\ UNCHANGED <<userVars, fbs, fb_refs, thread, cursor, planeVars, drm_filp,
                 cursor_events_enabled, disconnect, told>>

\* ... and then calls evdi_driver_postclose, which disconnects the painter if
\* it is still connected to the file.
evdi_driver_postclose ==
  /\ file = "released" /\ ~drm_filp /\ disconnect = "no"
  /\ file' = "closed"
  /\ UNCHANGED <<gemVars, cursor, planeVars, drm_filp, client_handles,
                 cursor_events_enabled, disconnect, told>>

ClientStep ==
  \/ OpenFile \/ evdi_painter_connect
  \/ \E enable \in BOOLEAN : evdi_painter_enable_cursor_events_ioctl(enable)
  \/ evdi_painter_disconnect \/ DisconnectFile \/ DisconnectEnd
  \/ ReleaseFile \/ evdi_driver_postclose

NoClient == file = "absent"

OtherStep ==
  /\ \/ \E o \in Objects : (Apart /\ NoClient => o \in Shared) /\ UserStep(o)
     \/ /\ ~Apart \/ NoClient
        /\ \/ \E o \in Shared : ShareStep(o) \/ MeasureStart(o)
           \/ \E t \in Threads : PinFails(t) \/ VmapFails(t)
     \/ \E t \in Threads : thread[t].obj \notin Shared /\ PinFails(t)
     \/ VmapPin(Measure) \/ VmapMap(Measure) \/ RecheckMapping(Measure)
     \/ GiveUp(Measure) \/ MeasureEnd
  /\ UNCHANGED <<cursor, planeVars, clientVars, told>>

Step ==
  \/ CommitStep
  \/ \E g \in Grabbers : GrabStep(g)
  \/ ClientStep
  \/ OtherStep

\* A thread maps an object that is mapped or that another thread is mapping,
\* or an object is measured while another thread has it.
Overlapping(o) ==
  \/ \E t \in Mapping(o) : gem[o].vmapping \/ Mapping(o) # {t}
  \/ Measured(o) /\ On(o) # {Measure}

\* What has happened to an object is forgotten when it is allocated again.
Remember ==
  overlapped' = {o \in Objects : \/ o \in overlapped /\ (Live(o) \/ ~Live(o)')
                                \/ Overlapping(o)'}

Next == Step /\ Remember

Spec == Init /\ [][Next]_vars

-----------------------------------------------------------------------------
(***************************************************************************)
(* Properties.                                                             *)
(***************************************************************************)

\* Pages are there for whoever relies on them: a fault in a mapped object never
\* ends in a bus error, an importer always gets its scatter list, a kernel
\* mapping never outlives the pages under it - although pins are dropped by
\* importers, unmapping and failed maps in any order.
PagesWhileNeeded ==
  \A o \in Objects :
    /\ o \in vmas => evdi_gem_fault(o) = "page"
    /\ o \in pinned => evdi_prime_get_sg_table(o) = "table"
    /\ gem[o].vmapping /\ ~evdi_drm_gem_object_use_import_attach(gem[o]) =>
         gem[o].pages

\* A freed object leaves nothing behind: no handle, framebuffer, cursor or
\* process that still refers to it, and no kernel mapping, whatever failed
\* before - unless it was mapped twice, which overwrites vmapping.
FreedHoldsNothing ==
  \A o \in Objects : ~Live(o) =>
    /\ o \notin handles \cup vmas \cup exports \cup client_handles
    /\ fb_refs[o] = 0 /\ cursor.obj # o
    /\ gem[o].areas = 0 \/ o \in overlapped

\* The pixels that a grab copies, that a measurement copies and that a blend
\* would read now are mapped, whatever other threads try, fail at and give back
\* - unless the object was mapped by two threads at once or measured while it
\* was in use, when one of them unmaps it for the others.
ReadsMapped ==
  /\ \A t \in Threads : thread[t].pc = "use" =>
       gem[thread[t].obj].vmapping \/ thread[t].obj \in overlapped
  /\ cursor.obj # NoObject =>
       /\ Live(cursor.obj)
       /\ gem[cursor.obj].vmapping \/ cursor.obj \in overlapped

\* References of an object and of its framebuffer are those of the holders, no
\* matter in which order handles, commits, grabs and the client let go: there
\* is neither a leak nor an early free.
Count(b) == IF b THEN 1 ELSE 0
ReferencesExact ==
  \A o \in Objects :
    /\ gem[o].refs = Count(o \in handles) + Count(o \in client_handles)
                     + Count(o \in vmas) + Count(o \in exports)
                     + Count(fb_refs[o] > 0) + Count(cursor.obj = o)
    /\ fb_refs[o] = Count(o \in fbs) + Count(old_plane = o)
                    + Cardinality(On(o))

\* Once a client that gets cursor events has been told of a cursor, it knows
\* the current one between updates: its object and whether it is shown.
CursorTold ==
  cursor_events_enabled /\ ~Updating /\ disconnect = "no" /\ told # Unknown =>
    told = [cursor EXCEPT !.enabled = @ /\ cursor.obj # NoObject]
=============================================================================
