-------------------------------- MODULE Gem ---------------------------------
(***************************************************************************)
(* GEM objects (module/evdi_gem.c) and the framebuffers made of them       *)
(* (evdi_fb.c): references, pages and the count of their pins, and the     *)
(* mapping that grabs and the cursor read.                                 *)
(*                                                                         *)
(* pages_lock makes a pin and an unpin one step each; the mapping has no   *)
(* lock, so that evdi_gem_vmap is two steps of the thread that calls it.   *)
(* A thread that works on the framebuffer of an object holds a reference   *)
(* to it; module Cursor adds the threads' own steps.                       *)
(***************************************************************************)
EXTENDS Integers, FiniteSets

CONSTANTS
  Objects,      \* GEM objects; one that was freed may be allocated again
  NoObject,
  Grabbers,     \* client threads in evdi_painter_grabpix_ioctl
  Commit,       \* the commit thread
  Measure,      \* the debugfs file measure_copy_fb
  MaxPins       \* bound on pages_pin_count when pins are added or kept, and
                \* on the mappings an object has when it is measured

ASSUME ObjectAssumption == NoObject \notin Objects
ASSUME ThreadAssumption ==
  /\ Commit # Measure /\ {Commit, Measure} \cap Grabbers = {}
  /\ IsFiniteSet(Grabbers)
ASSUME BoundAssumption == MaxPins \in Nat

Threads == Grabbers \cup {Commit, Measure}

VARIABLES
  gem,       \* struct evdi_gem_object of each object
  handles,   \* objects the compositor's file has a handle of
  vmas,      \* objects mapped into a process
  exports,   \* objects with a dma-buf
  pinned,    \* exported objects that an importing driver has pinned
  fbs,       \* objects whose framebuffer the compositor has not removed
  fb_refs,   \* references to the framebuffer of each object, 0 if it has none
  thread     \* where each thread is, and whose framebuffer it holds

userVars == <<handles, vmas, exports, pinned>>
gemVars == <<gem, userVars, fbs, fb_refs, thread>>

\* The owner of the dma-buf an object was imported from, if it was: buffers of
\* amdgpu are mapped page by page.
Imports == {"no", "amdgpu", "other"}

GemRecord ==
  [refs : Nat, import : Imports, pages : BOOLEAN, pins : Nat,
   vmapping : BOOLEAN,  \* vmapping is not NULL
   areas : Nat,         \* kernel mappings of the object that exist
   offset : BOOLEAN]    \* it has an mmap offset

Freed == [refs |-> 0, import |-> "no", pages |-> FALSE, pins |-> 0,
          vmapping |-> FALSE, areas |-> 0, offset |-> FALSE]

Steps == {"idle", "check", "pin", "map", "recheck", "use", "failed",
          "enable", "events", "send_set", "oops", "put"}
Idle == [pc |-> "idle", obj |-> NoObject]

GemTypeOK ==
  /\ gem \in [Objects -> GemRecord]
  /\ handles \subseteq Objects /\ vmas \subseteq Objects
  /\ exports \subseteq Objects /\ pinned \subseteq exports
  /\ fbs \subseteq Objects /\ fb_refs \in [Objects -> Nat]
  /\ thread \in [Threads -> [pc : Steps, obj : Objects \cup {NoObject}]]

GemInit ==
  /\ gem = [o \in Objects |-> Freed]
  /\ handles = {} /\ vmas = {} /\ exports = {} /\ pinned = {}
  /\ fbs = {} /\ fb_refs = [o \in Objects |-> 0]
  /\ thread = [t \in Threads |-> Idle]

Live(o) == gem[o].refs > 0

-----------------------------------------------------------------------------
(***************************************************************************)
(* What the helpers of evdi_gem.c do to an object.                         *)
(***************************************************************************)

evdi_drm_gem_object_use_import_attach(g) == g.import = "other"

\* An object that was imported has its pages from the start, and cannot get
\* them again.
CanGetPages(g) == g.pages \/ g.import = "no"

\* evdi_gem_get_pages is called for the first pin only.
evdi_pin_pages(g) ==
  [g EXCEPT !.pins = @ + 1, !.pages = g.pages \/ g.pins = 0]

\* Mutant: every unpin gives the pages back.
UnpinAlwaysPuts(g) == [g EXCEPT !.pins = @ - 1, !.pages = FALSE]

\* evdi_gem_put_pages with the last pin.
evdi_unpin_pages(g) ==
  [g EXCEPT !.pins = @ - 1, !.pages = g.pages /\ g.pins # 1]

\* The mapping goes, and with it its pin, unless the exporter mapped the
\* object.
evdi_gem_vunmap(g) ==
  LET unmapped == [g EXCEPT !.vmapping = FALSE,
                            !.areas = IF g.vmapping THEN @ - 1 ELSE @]
  IN IF evdi_drm_gem_object_use_import_attach(g) THEN unmapped
     ELSE evdi_unpin_pages(unmapped)

\* Mutant: the pages go, the mapping stays.
FreeKeepsMapping(g) == [Freed EXCEPT !.areas = g.areas]

\* The memory of the object is gone; its mappings are if vmapping knew them.
\* Pages that pins still hold are put all the same.
evdi_gem_free_object(g) ==
  LET u == IF g.vmapping THEN evdi_gem_vunmap(g) ELSE g
  IN [Freed EXCEPT !.areas = u.areas]

\* drm_gem_object_get and drm_gem_object_put
Get(g) == [g EXCEPT !.refs = @ + 1]
Put(g) == IF g.refs = 1 THEN evdi_gem_free_object(g)
          ELSE [g EXCEPT !.refs = @ - 1]

\* The page a fault at a mapped address finds, or a bus error; what an
\* importer gets for its scatter list.
evdi_gem_fault(o) == IF gem[o].pages THEN "page" ELSE "sigbus"
evdi_prime_get_sg_table(o) == IF gem[o].pages THEN "table" ELSE "none"

-----------------------------------------------------------------------------
(***************************************************************************)
(* The compositor, other drivers and their processes.                      *)
(***************************************************************************)

\* evdi_gem_create, for evdi_dumb_create: the handle keeps the reference.
evdi_gem_create(o) ==
  /\ ~Live(o)
  /\ gem' = [gem EXCEPT ![o] = [Freed EXCEPT !.refs = 1]]
  /\ handles' = handles \cup {o}
  /\ UNCHANGED <<vmas, exports, pinned, fbs, fb_refs, thread>>

\* A buffer of another driver, with the array of its pages.
evdi_prime_import_sg_table(o, owner) ==
  /\ ~Live(o)
  /\ gem' = [gem EXCEPT ![o] = [Freed EXCEPT !.refs = 1, !.import = owner,
                                             !.pages = TRUE]]
  /\ handles' = handles \cup {o}
  /\ UNCHANGED <<vmas, exports, pinned, fbs, fb_refs, thread>>

CloseHandle(o) ==
  /\ o \in handles
  /\ handles' = handles \ {o}
  /\ gem' = [gem EXCEPT ![o] = Put(@)]
  /\ UNCHANGED <<vmas, exports, pinned, fbs, fb_refs, thread>>

\* evdi_gem_mmap pins on every call, and keeps the pin: also when it refuses
\* to map an imported object.
evdi_gem_mmap(o) ==
  /\ o \in handles
  /\ gem[o].pins < MaxPins
  /\ CanGetPages(gem[o])
  /\ LET p == evdi_pin_pages(gem[o])
     IN gem' = [gem EXCEPT ![o] = IF p.import = "no"
                                  THEN [p EXCEPT !.offset = TRUE] ELSE p]
  /\ UNCHANGED <<userVars, fbs, fb_refs, thread>>

\* drm_gem_mmap asks for the offset and for a handle in the file.
evdi_drm_gem_mmap(o) ==
  /\ o \in handles \ vmas
  /\ gem[o].offset
  /\ vmas' = vmas \cup {o}
  /\ gem' = [gem EXCEPT ![o] = Get(@)]
  /\ UNCHANGED <<handles, exports, pinned, fbs, fb_refs, thread>>

Munmap(o) ==
  /\ o \in vmas
  /\ vmas' = vmas \ {o}
  /\ gem' = [gem EXCEPT ![o] = Put(@)]
  /\ UNCHANGED <<handles, exports, pinned, fbs, fb_refs, thread>>

\* The dma-buf of an object refers to it.
Export(o) ==
  /\ o \in handles \ exports
  /\ gem[o].import = "no"
  /\ exports' = exports \cup {o}
  /\ gem' = [gem EXCEPT ![o] = Get(@)]
  /\ UNCHANGED <<handles, vmas, pinned, fbs, fb_refs, thread>>

CloseExport(o) ==
  /\ o \in exports \ pinned
  /\ exports' = exports \ {o}
  /\ gem' = [gem EXCEPT ![o] = Put(@)]
  /\ UNCHANGED <<handles, vmas, pinned, fbs, fb_refs, thread>>

evdi_prime_pin(o) ==
  /\ o \in exports \ pinned
  /\ gem[o].pins < MaxPins
  /\ pinned' = pinned \cup {o}
  /\ gem' = [gem EXCEPT ![o] = evdi_pin_pages(@)]
  /\ UNCHANGED <<handles, vmas, exports, fbs, fb_refs, thread>>

evdi_prime_unpin(o) ==
  /\ o \in pinned
  /\ pinned' = pinned \ {o}
  /\ gem' = [gem EXCEPT ![o] = evdi_unpin_pages(@)]
  /\ UNCHANGED <<handles, vmas, exports, fbs, fb_refs, thread>>

-----------------------------------------------------------------------------
(***************************************************************************)
(* Framebuffers, one of an object at a time.                               *)
(***************************************************************************)

\* Mutant: the framebuffer does not keep the reference of the lookup.
FbWithoutReference(o) ==
  /\ o \in handles
  /\ fb_refs[o] = 0
  /\ fbs' = fbs \cup {o}
  /\ fb_refs' = [fb_refs EXCEPT ![o] = 1]
  /\ UNCHANGED <<gem, userVars, thread>>

\* evdi_fb_user_fb_create keeps the reference of its lookup; where it fails it
\* puts it.
evdi_fb_user_fb_create(o) ==
  /\ o \in handles
  /\ fb_refs[o] = 0
  /\ fbs' = fbs \cup {o}
  /\ fb_refs' = [fb_refs EXCEPT ![o] = 1]
  /\ gem' = [gem EXCEPT ![o] = Get(@)]
  /\ UNCHANGED <<userVars, thread>>

\* drm_framebuffer_put: the last one calls evdi_user_framebuffer_destroy, which
\* puts the object.
FbPut(o) ==
  /\ fb_refs' = [fb_refs EXCEPT ![o] = @ - 1]
  /\ gem' = IF fb_refs[o] = 1 THEN [gem EXCEPT ![o] = Put(@)] ELSE gem

RemoveFb(o) ==
  /\ o \in fbs
  /\ fbs' = fbs \ {o}
  /\ FbPut(o)
  /\ UNCHANGED <<userVars, thread>>

-----------------------------------------------------------------------------
(***************************************************************************)
(* Threads that map an object.                                             *)
(***************************************************************************)

Go(t, pc) == thread' = [thread EXCEPT ![t].pc = pc]
At(t, pc) == thread[t].pc = pc /\ thread[t].obj # NoObject

\* Threads that work on an object, and those that are mapping it.
On(o) == {t \in Threads : thread[t].obj = o}
Mapping(o) == {t \in On(o) : thread[t].pc \in {"pin", "map"}}
Measured(o) == thread[Measure].obj = o

\* The thread takes a reference to the framebuffer of o.
TakeFb(t, o, pc) ==
  /\ thread[t] = Idle
  /\ o \in fbs
  /\ fb_refs' = [fb_refs EXCEPT ![o] = @ + 1]
  /\ thread' = [thread EXCEPT ![t] = [pc |-> pc, obj |-> o]]
  /\ UNCHANGED <<gem, userVars, fbs>>

\* "if (!obj->vmapping)", in a grab and in evdi_cursor_set.
CheckMapping(t) ==
  LET o == thread[t].obj
  IN /\ At(t, "check")
     /\ Go(t, IF gem[o].vmapping THEN "use" ELSE "pin")
     /\ UNCHANGED <<gem, userVars, fbs, fb_refs>>

\* evdi_gem_vmap: pages are pinned, unless the exporter maps its own buffer;
VmapPin(t) ==
  LET o == thread[t].obj
  IN /\ At(t, "pin")
     /\ \/ /\ evdi_drm_gem_object_use_import_attach(gem[o])
           /\ UNCHANGED gem
        \/ /\ ~evdi_drm_gem_object_use_import_attach(gem[o])
           /\ CanGetPages(gem[o])
           /\ gem' = [gem EXCEPT ![o] = evdi_pin_pages(@)]
     /\ Go(t, "map")
     /\ UNCHANGED <<userVars, fbs, fb_refs>>

\* There may be no pages.  The commit thread gives up on every error, the
\* others on -ENOMEM;
PinFails(t) ==
  LET o == thread[t].obj
  IN /\ At(t, "pin")
     /\ ~evdi_drm_gem_object_use_import_attach(gem[o])
     /\ ~gem[o].pages
     /\ Go(t, "failed") \/ (t # Commit /\ Go(t, "recheck"))
     /\ UNCHANGED <<gem, userVars, fbs, fb_refs>>

\* then the mapping is stored.
VmapMap(t) ==
  LET o == thread[t].obj
  IN /\ At(t, "map")
     /\ gem' = [gem EXCEPT ![o].vmapping = TRUE, ![o].areas = @ + 1]
     /\ Go(t, IF t = Commit THEN "use" ELSE "recheck")
     /\ UNCHANGED <<userVars, fbs, fb_refs>>

\* If vmap fails the pin is kept, and vmapping is overwritten all the same.
VmapFails(t) ==
  LET o == thread[t].obj
  IN /\ At(t, "map")
     /\ gem[o].pins <= MaxPins
     /\ gem' = [gem EXCEPT ![o].vmapping =
                  @ /\ evdi_drm_gem_object_use_import_attach(gem[o])]
     /\ Go(t, "failed")
     /\ UNCHANGED <<userVars, fbs, fb_refs>>

\* Grabs and measurements look at vmapping again before they use it.
RecheckMapping(t) ==
  /\ At(t, "recheck")
  /\ Go(t, IF gem[thread[t].obj].vmapping THEN "use" ELSE "failed")
  /\ UNCHANGED <<gem, userVars, fbs, fb_refs>>

\* A grab or a measurement that could not map its object lets it go.
GiveUp(t) ==
  /\ t # Commit
  /\ At(t, "failed")
  /\ FbPut(thread[t].obj)
  /\ thread' = [thread EXCEPT ![t] = Idle]
  /\ UNCHANGED <<userVars, fbs>>

\* measure_copy_fb maps the framebuffer without a look at vmapping, ...
MeasureStart(o) ==
  /\ gem[o].areas <= MaxPins
  /\ TakeFb(Measure, o, "pin")

\* ... copies and unmaps it.
MeasureEnd ==
  LET o == thread[Measure].obj
      g == evdi_gem_vunmap(gem[o])
  IN /\ At(Measure, "use")
     /\ gem' = [gem EXCEPT ![o] = IF fb_refs[o] = 1 THEN Put(g) ELSE g]
     /\ fb_refs' = [fb_refs EXCEPT ![o] = @ - 1]
     /\ thread' = [thread EXCEPT ![Measure] = Idle]
     /\ UNCHANGED <<userVars, fbs>>

MapStep(t) ==
  CheckMapping(t) \/ VmapPin(t) \/ VmapMap(t) \/ RecheckMapping(t) \/ GiveUp(t)

UserStep(o) ==
  evdi_gem_create(o) \/ CloseHandle(o) \/ evdi_fb_user_fb_create(o) \/ RemoveFb(o)

ShareStep(o) ==
  \/ \E owner \in Imports \ {"no"} : evdi_prime_import_sg_table(o, owner)
  \/ evdi_gem_mmap(o) \/ evdi_drm_gem_mmap(o) \/ Munmap(o)
  \/ Export(o) \/ CloseExport(o) \/ evdi_prime_pin(o) \/ evdi_prime_unpin(o)
=============================================================================
