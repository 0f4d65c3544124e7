---------------------------- MODULE CursorProofs ----------------------------
(***************************************************************************)
(* What GEM objects and the cursor guarantee for any number of objects,    *)
(* grabs and clients: references are those of the holders, pages are       *)
(* there for whoever relies on them, and only uses that overlap unmap an   *)
(* object under its readers or leave a mapping behind.                     *)
(***************************************************************************)
EXTENDS Cursor, FiniteSetTheorems, TLAPS

-----------------------------------------------------------------------------
(***************************************************************************)
(* Next by the kind of step: on an object, of a thread that maps, of the   *)
(* commit, of the client.                                                  *)
(***************************************************************************)
cursorVars == <<cursor, planeVars, clientVars, told>>

HandleStep(o) ==
  \/ evdi_gem_create(o) \/ \E owner \in Imports : evdi_prime_import_sg_table(o, owner)
  \/ CloseHandle(o)
  \/ evdi_drm_gem_mmap(o) \/ Munmap(o) \/ Export(o) \/ CloseExport(o)

PinStep(o) == evdi_gem_mmap(o) \/ evdi_prime_pin(o) \/ evdi_prime_unpin(o)

FbStep(o) == evdi_fb_user_fb_create(o) \/ RemoveFb(o)

ReaderStep(t) ==
  \/ t # Commit /\ t # Measure /\ \E o \in Objects : TakeFb(t, o, "check")
  \/ t # Commit /\ t # Measure /\ GrabEnd(t)
  \/ t # Measure /\ CheckMapping(t)
  \/ VmapPin(t) \/ PinFails(t) \/ VmapMap(t) \/ VmapFails(t)
  \/ RecheckMapping(t) \/ GiveUp(t)

MapMove(t) ==
  \/ CheckMapping(t) \/ VmapPin(t) \/ PinFails(t)
  \/ VmapMap(t) \/ VmapFails(t) \/ RecheckMapping(t)

MeasureStep == MeasureEnd \/ \E o \in Objects : MeasureStart(o)

UpdateStep ==
  \/ \E o \in Objects \cup {NoObject} : evdi_cursor_atomic_update(o)
  \/ evdi_cursor_set \/ evdi_cursor_enable \/ ChooseEvents
  \/ evdi_painter_send_cursor_set \/ CommitEnd

LEMMA ThreadsApart ==
  /\ Commit \in Threads /\ Measure \in Threads /\ Commit # Measure
  /\ \A g \in Grabbers : g \in Threads /\ g # Commit /\ g # Measure
BY ThreadAssumption DEF Threads

\* Every step is one of these.
LEMMA NextCases ==
  ASSUME Step
  PROVE  \/ \E o \in Objects : (HandleStep(o) \/ PinStep(o) \/ FbStep(o))
                                 /\ UNCHANGED cursorVars
         \/ \E t \in Threads : ReaderStep(t) /\ UNCHANGED cursorVars
         \/ MeasureStep /\ UNCHANGED cursorVars
         \/ UpdateStep
         \/ ClientStep
<1> USE ThreadsApart, SharedAssumption
<1>1. CASE CommitStep
  BY <1>1 DEF CommitStep, UpdateStep, ReaderStep, cursorVars
<1>2. CASE \E g \in Grabbers : GrabStep(g)
  BY <1>2 DEF GrabStep, MapStep, ReaderStep, cursorVars
<1>3. CASE ClientStep
  BY <1>3
<1>4. CASE OtherStep
  <2>1. CASE \E o \in Objects : UserStep(o)
    BY <1>4, <2>1 DEF OtherStep, UserStep, HandleStep, FbStep, cursorVars
  <2>2. CASE \E o \in Shared : ShareStep(o)
    BY <1>4, <2>2 DEF OtherStep, ShareStep, HandleStep, PinStep, cursorVars
  <2>3. CASE \E o \in Shared : MeasureStart(o)
    BY <1>4, <2>3 DEF OtherStep, MeasureStep, cursorVars
  <2>4. CASE \E t \in Threads : PinFails(t) \/ VmapFails(t)
    BY <1>4, <2>4 DEF OtherStep, ReaderStep, cursorVars
  <2>5. CASE VmapPin(Measure) \/ VmapMap(Measure) \/ RecheckMapping(Measure)
               \/ GiveUp(Measure) \/ MeasureEnd
    BY <1>4, <2>5 DEF OtherStep, ReaderStep, MeasureStep, cursorVars
  <2> QED BY <1>4, <2>1, <2>2, <2>3, <2>4, <2>5 DEF OtherStep
<1> QED BY <1>1, <1>2, <1>3, <1>4 DEF Step

-----------------------------------------------------------------------------
(***************************************************************************)
(* What the helpers of evdi_gem.c do to the fields of an object.           *)
(***************************************************************************)

\* An object before its counters are known not to be negative.
Record ==
  [refs : Int, import : Imports, pages : BOOLEAN, pins : Int,
   vmapping : BOOLEAN, areas : Int, offset : BOOLEAN]

LEMMA FreedRecord ==
  /\ Freed \in Record
  /\ Freed.refs = 0 /\ Freed.import = "no" /\ ~Freed.pages /\ Freed.pins = 0
  /\ ~Freed.vmapping /\ Freed.areas = 0 /\ ~Freed.offset
BY DEF Freed, Record, Imports

\* A new object, and one that was imported.
LEMMA FreshFields ==
  /\ [Freed EXCEPT !.refs = 1] \in Record
  /\ [Freed EXCEPT !.refs = 1].refs = 1
  /\ \A owner \in Imports :
       LET g == [Freed EXCEPT !.refs = 1, !.import = owner, !.pages = TRUE]
       IN g \in Record /\ g.refs = 1
<1>1. PICK p : p = [Freed EXCEPT !.refs = 1]
  OBVIOUS
<1>2. p = [refs |-> 1, import |-> "no", pages |-> FALSE, pins |-> 0,
           vmapping |-> FALSE, areas |-> 0, offset |-> FALSE]
  BY <1>1 DEF Freed
<1>3. p \in Record /\ p.refs = 1
  BY <1>2 DEF Record, Imports
<1>4. ASSUME NEW owner \in Imports,
             NEW q, q = [Freed EXCEPT !.refs = 1, !.import = owner,
                                      !.pages = TRUE]
      PROVE  q \in Record /\ q.refs = 1
  <2>1. q = [refs |-> 1, import |-> owner, pages |-> TRUE, pins |-> 0,
             vmapping |-> FALSE, areas |-> 0, offset |-> FALSE]
    BY <1>4 DEF Freed
  <2> QED BY <2>1 DEF Record
<1> QED BY <1>1, <1>3, <1>4

LEMMA GetFields ==
  ASSUME NEW g \in Record
  PROVE  /\ Get(g) \in Record
         /\ Get(g).refs = g.refs + 1 /\ Get(g).import = g.import
         /\ (Get(g).pages <=> g.pages) /\ Get(g).pins = g.pins
         /\ (Get(g).vmapping <=> g.vmapping) /\ Get(g).areas = g.areas
         /\ (Get(g).offset <=> g.offset)
BY DEF Get, Record

LEMMA PinFields ==
  ASSUME NEW g \in Record
  PROVE  LET p == evdi_pin_pages(g) IN
         /\ p \in Record
         /\ p.refs = g.refs /\ p.import = g.import
         /\ (p.pages <=> (g.pages \/ g.pins = 0)) /\ p.pins = g.pins + 1
         /\ (p.vmapping <=> g.vmapping) /\ p.areas = g.areas
         /\ (p.offset <=> g.offset)
<1>1. PICK b \in BOOLEAN : b <=> (g.pages \/ g.pins = 0)
  BY DEF Record
<1>2. PICK n \in Int : n = g.pins + 1
  BY DEF Record
<1>3. PICK p : p = evdi_pin_pages(g)
  OBVIOUS
<1>4. p = [g EXCEPT !.pins = n, !.pages = b]
  BY <1>1, <1>2, <1>3 DEF evdi_pin_pages, Record
<1>5. /\ p \in Record
      /\ p.refs = g.refs /\ p.import = g.import
      /\ (p.pages <=> b) /\ p.pins = n
      /\ (p.vmapping <=> g.vmapping) /\ p.areas = g.areas
      /\ (p.offset <=> g.offset)
  BY <1>4 DEF Record
<1> QED BY <1>1, <1>2, <1>3, <1>5

LEMMA UnpinFields ==
  ASSUME NEW g \in Record
  PROVE  LET p == evdi_unpin_pages(g) IN
         /\ p \in Record
         /\ p.refs = g.refs /\ p.import = g.import
         /\ (p.pages <=> (g.pages /\ g.pins # 1)) /\ p.pins = g.pins - 1
         /\ (p.vmapping <=> g.vmapping) /\ p.areas = g.areas
         /\ (p.offset <=> g.offset)
<1>1. PICK b \in BOOLEAN : b <=> (g.pages /\ g.pins # 1)
  BY DEF Record
<1>2. PICK n \in Int : n = g.pins - 1
  BY DEF Record
<1>3. PICK p : p = evdi_unpin_pages(g)
  OBVIOUS
<1>4. p = [g EXCEPT !.pins = n, !.pages = b]
  BY <1>1, <1>2, <1>3 DEF evdi_unpin_pages, Record
<1>5. /\ p \in Record
      /\ p.refs = g.refs /\ p.import = g.import
      /\ (p.pages <=> b) /\ p.pins = n
      /\ (p.vmapping <=> g.vmapping) /\ p.areas = g.areas
      /\ (p.offset <=> g.offset)
  BY <1>4 DEF Record
<1> QED BY <1>1, <1>2, <1>3, <1>5

LEMMA VunmapFields ==
  ASSUME NEW g \in Record
  PROVE  LET u == evdi_gem_vunmap(g) IN
         /\ u \in Record
         /\ u.refs = g.refs /\ u.import = g.import /\ (u.offset <=> g.offset)
         /\ ~u.vmapping /\ u.areas = g.areas - Count(g.vmapping)
         /\ IF g.import = "other"
            THEN (u.pages <=> g.pages) /\ u.pins = g.pins
            ELSE (u.pages <=> (g.pages /\ g.pins # 1)) /\ u.pins = g.pins - 1
<1> DEFINE n == IF g.vmapping THEN g.areas - 1 ELSE g.areas
           v == [g EXCEPT !.vmapping = FALSE, !.areas = n]
<1>1. /\ v \in Record
      /\ v.refs = g.refs /\ v.import = g.import /\ (v.offset <=> g.offset)
      /\ (v.pages <=> g.pages) /\ v.pins = g.pins
      /\ ~v.vmapping /\ v.areas = g.areas - Count(g.vmapping)
  <2>1. n \in Int /\ n = g.areas - Count(g.vmapping)
    BY DEF Record, Count
  <2> HIDE DEF n
  <2> QED BY <2>1 DEF Record
<1>2. evdi_gem_vunmap(g) = IF g.import = "other" THEN v
                           ELSE evdi_unpin_pages(v)
  BY DEF evdi_gem_vunmap, evdi_drm_gem_object_use_import_attach
<1> HIDE DEF v
<1> QED BY <1>1, <1>2, UnpinFields

\* Putting one of several references changes nothing else; the last one
\* leaves at most kernel mappings that vmapping did not know.
LEMMA PutFields ==
  ASSUME NEW g \in Record
  PROVE  LET p == Put(g) IN
         /\ p \in Record
         /\ p.refs = g.refs - 1
         /\ g.refs # 1 =>
              /\ p.import = g.import /\ (p.pages <=> g.pages) /\ p.pins = g.pins
              /\ (p.vmapping <=> g.vmapping) /\ p.areas = g.areas
              /\ (p.offset <=> g.offset)
         /\ g.refs = 1 =>
              /\ p.import = "no" /\ ~p.pages /\ p.pins = 0 /\ ~p.vmapping
              /\ p.areas = g.areas - Count(g.vmapping) /\ ~p.offset
<1>1. CASE g.refs # 1
  BY <1>1 DEF Put, Record
<1>2. CASE g.refs = 1
  <2> DEFINE u == IF g.vmapping THEN evdi_gem_vunmap(g) ELSE g
  <2>1. u.areas = g.areas - Count(g.vmapping) /\ u.areas \in Int
    BY VunmapFields DEF Record, Count
  <2>2. Put(g) = [Freed EXCEPT !.areas = u.areas]
    BY <1>2 DEF Put, evdi_gem_free_object
  <2>3. PICK n \in Int : n = u.areas
    BY <2>1
  <2>4. PICK p : p = Put(g)
    OBVIOUS
  <2>5. p = [refs |-> 0, import |-> "no", pages |-> FALSE, pins |-> 0,
             vmapping |-> FALSE, areas |-> n, offset |-> FALSE]
    BY <2>2, <2>3, <2>4 DEF Freed
  <2>6. /\ p \in Record
        /\ p.refs = 0 /\ p.import = "no" /\ ~p.pages
        /\ p.pins = 0 /\ ~p.vmapping /\ ~p.offset
        /\ p.areas = n
    BY <2>5 DEF Record, Imports
  <2> HIDE DEF u
  <2> QED BY <1>2, <2>1, <2>3, <2>4, <2>6
<1> QED BY <1>1, <1>2


-----------------------------------------------------------------------------
(***************************************************************************)
(* Types.  That counters are not negative is proved with what they count.  *)
(***************************************************************************)
Places == [pc : Steps, obj : Objects \cup {NoObject}]

Typed ==
  /\ gem \in [Objects -> Record] /\ fb_refs \in [Objects -> Int]
  /\ thread \in [Threads -> Places]
  /\ handles \subseteq Objects /\ vmas \subseteq Objects
  /\ exports \subseteq Objects /\ pinned \subseteq exports
  /\ fbs \subseteq Objects
  /\ cursor \in Cursors /\ told \in Cursors
  /\ plane \in Objects \cup {NoObject} /\ old_plane \in Objects \cup {NoObject}
  /\ file \in {"absent", "closed", "open", "released"}
  /\ drm_filp \in BOOLEAN /\ cursor_events_enabled \in BOOLEAN
  /\ disconnect \in {"no", "disabled", "left"}
  /\ client_handles \subseteq Objects

LEMMA InitTyped == Init => Typed
<1> SUFFICES ASSUME Init PROVE Typed
  OBVIOUS
<1>1. gem \in [Objects -> Record] /\ fb_refs \in [Objects -> Int]
  BY FreedRecord DEF Init, GemInit
<1>2. thread \in [Threads -> Places]
  BY DEF Init, GemInit, Idle, Places, Steps
<1>3. cursor \in Cursors /\ told \in Cursors
  BY DEF Init, Unknown, Cursors
<1> QED BY <1>1, <1>2, <1>3 DEF Init, GemInit, Typed

LEMMA IdlePlace == Idle \in Places
BY DEF Idle, Places, Steps

\* A thread that goes on with its object.
LEMMA GoPlaces ==
  ASSUME Typed, NEW t \in Threads, NEW pc \in Steps, Go(t, pc)
  PROVE  /\ thread' \in [Threads -> Places]
         /\ thread'[t].pc = pc /\ thread'[t].obj = thread[t].obj
         /\ \A u \in Threads \ {t} : thread'[u] = thread[u]
BY DEF Typed, Go, Places

LEMMA CursorSetGemTyped ==
  ASSUME Typed, NEW o
  PROVE  evdi_cursor_set_gem(o) \in [Objects -> Record]
BY GetFields, PutFields DEF Typed, evdi_cursor_set_gem

LEMMA HandleTyped ==
  ASSUME Typed, NEW o \in Objects, HandleStep(o), UNCHANGED cursorVars
  PROVE  Typed'
<1> USE DEF userVars, cursorVars, planeVars, clientVars
<1>1. gem' \in [Objects -> Record]
  <2>1. CASE evdi_gem_create(o)
    <3>1. [Freed EXCEPT !.refs = 1] \in Record
      BY FreshFields
    <3> QED BY <2>1, <3>1 DEF evdi_gem_create, Typed
  <2>2. CASE \E owner \in Imports : evdi_prime_import_sg_table(o, owner)
    <3>1. \A owner \in Imports :
            [Freed EXCEPT !.refs = 1, !.import = owner, !.pages = TRUE]
              \in Record
      BY FreshFields
    <3> QED BY <2>2, <3>1 DEF evdi_prime_import_sg_table, Typed
  <2>3. CASE gem' = [gem EXCEPT ![o] = Put(@)]
    BY <2>3, PutFields DEF Typed
  <2>4. CASE gem' = [gem EXCEPT ![o] = Get(@)]
    BY <2>4, GetFields DEF Typed
  <2> QED BY <2>1, <2>2, <2>3, <2>4 DEF HandleStep, CloseHandle,
             evdi_drm_gem_mmap, Munmap, Export, CloseExport
<1>2. /\ handles' \subseteq Objects /\ vmas' \subseteq Objects
      /\ exports' \subseteq Objects /\ pinned' \subseteq exports'
      /\ UNCHANGED <<fbs, fb_refs, thread>>
  BY DEF Typed, HandleStep, evdi_gem_create, evdi_prime_import_sg_table,
         CloseHandle, evdi_drm_gem_mmap, Munmap, Export, CloseExport
<1> QED BY <1>1, <1>2 DEF Typed

LEMMA PinTyped ==
  ASSUME Typed, NEW o \in Objects, PinStep(o), UNCHANGED cursorVars
  PROVE  Typed'
<1> USE DEF userVars, cursorVars, planeVars, clientVars
<1>1. gem' \in [Objects -> Record]
  <2>1. CASE evdi_gem_mmap(o)
    <3> DEFINE p == evdi_pin_pages(gem[o])
    <3>1. p \in Record
      BY PinFields DEF Typed
    <3>2. gem' = [gem EXCEPT ![o] = IF p.import = "no"
                                    THEN [p EXCEPT !.offset = TRUE] ELSE p]
      BY <2>1 DEF evdi_gem_mmap
    <3> HIDE DEF p
    <3>3. [p EXCEPT !.offset = TRUE] \in Record
      BY <3>1 DEF Record
    <3> QED BY <3>1, <3>2, <3>3 DEF Typed
  <2>2. CASE evdi_prime_pin(o)
    BY <2>2, PinFields DEF evdi_prime_pin, Typed
  <2>3. CASE evdi_prime_unpin(o)
    BY <2>3, UnpinFields DEF evdi_prime_unpin, Typed
  <2> QED BY <2>1, <2>2, <2>3 DEF PinStep
<1>2. /\ pinned' \subseteq exports' /\ UNCHANGED <<handles, vmas, exports>>
      /\ UNCHANGED <<fbs, fb_refs, thread>>
  BY DEF Typed, PinStep, evdi_gem_mmap, evdi_prime_pin, evdi_prime_unpin
<1> QED BY <1>1, <1>2 DEF Typed

LEMMA FbPutTyped ==
  ASSUME Typed, NEW o \in Objects, FbPut(o)
  PROVE  gem' \in [Objects -> Record] /\ fb_refs' \in [Objects -> Int]
BY PutFields DEF FbPut, Typed

LEMMA FbTyped ==
  ASSUME Typed, NEW o \in Objects, FbStep(o), UNCHANGED cursorVars
  PROVE  Typed'
<1> USE DEF userVars, cursorVars, planeVars, clientVars
<1>1. CASE evdi_fb_user_fb_create(o)
  <2>1. gem' \in [Objects -> Record] /\ fb_refs' \in [Objects -> Int]
    BY <1>1, GetFields DEF evdi_fb_user_fb_create, Typed
  <2> QED BY <1>1, <2>1 DEF evdi_fb_user_fb_create, Typed
<1>2. CASE RemoveFb(o)
  <2>1. gem' \in [Objects -> Record] /\ fb_refs' \in [Objects -> Int]
    BY <1>2, FbPutTyped DEF RemoveFb
  <2> QED BY <1>2, <2>1 DEF RemoveFb, Typed
<1> QED BY <1>1, <1>2 DEF FbStep

LEMMA TakeFbTyped ==
  ASSUME Typed, NEW t \in Threads, NEW o \in Objects, NEW pc \in Steps,
         TakeFb(t, o, pc), UNCHANGED cursorVars
  PROVE  Typed'
<1>1. [pc |-> pc, obj |-> o] \in Places
  BY DEF Places
<1> QED BY <1>1 DEF TakeFb, Typed, userVars, cursorVars, planeVars, clientVars

\* A thread that maps an object changes the object and its own place only.
LEMMA MapTyped ==
  ASSUME Typed, NEW t \in Threads, MapMove(t)
  PROVE  /\ gem' \in [Objects -> Record] /\ thread' \in [Threads -> Places]
         /\ UNCHANGED <<userVars, fbs, fb_refs>>
<1> DEFINE o == thread[t].obj
<1>1. o \in Objects /\ gem[o] \in Record /\ gem \in [Objects -> Record]
  BY DEF MapMove, CheckMapping, VmapPin, PinFails, VmapMap, VmapFails,
         RecheckMapping, At, Typed, Places
<1>2. \E pc \in Steps : Go(t, pc)
  BY DEF MapMove, CheckMapping, VmapPin, PinFails, VmapMap, VmapFails,
         RecheckMapping, Steps
<1>3. thread' \in [Threads -> Places]
  BY <1>2, GoPlaces
<1>4. gem' \in [Objects -> Record]
  <2>1. CASE UNCHANGED gem
    BY <1>1, <2>1
  <2>2. CASE gem' = [gem EXCEPT ![o] = evdi_pin_pages(@)]
    BY <1>1, <2>2, PinFields
  <2>3. CASE VmapMap(t)
    <3>1. gem[o].areas + 1 \in Int
      BY <1>1 DEF Record
    <3> QED BY <1>1, <2>3, <3>1 DEF VmapMap, Record
  <2>4. CASE VmapFails(t)
    <3>1. PICK v \in BOOLEAN :
            v = (gem[o].vmapping
                   /\ evdi_drm_gem_object_use_import_attach(gem[o]))
      BY <1>1 DEF Record
    <3>2. gem' = [gem EXCEPT ![o] = [@ EXCEPT !.vmapping = v]]
      BY <1>1, <2>4, <3>1 DEF VmapFails
    <3>3. [gem[o] EXCEPT !.vmapping = v] \in Record
      BY <1>1 DEF Record
    <3> QED BY <1>1, <3>2, <3>3
  <2> QED BY <2>1, <2>2, <2>3, <2>4
          DEF MapMove, CheckMapping, VmapPin, PinFails, RecheckMapping
<1>5. UNCHANGED <<userVars, fbs, fb_refs>>
  BY DEF MapMove, CheckMapping, VmapPin, PinFails, VmapMap, VmapFails,
         RecheckMapping
<1> QED BY <1>3, <1>4, <1>5

LEMMA ReaderTyped ==
  ASSUME Typed, NEW t \in Threads, ReaderStep(t), UNCHANGED cursorVars
  PROVE  Typed'
<1> USE DEF cursorVars, planeVars, clientVars
<1>1. CASE \E o \in Objects : TakeFb(t, o, "check")
  BY <1>1, TakeFbTyped DEF Steps
<1>2. CASE GrabEnd(t) \/ GiveUp(t)
  <2>1. thread[t].obj \in Objects
    BY <1>2 DEF GrabEnd, GiveUp, At, Typed, Places
  <2>2. gem' \in [Objects -> Record] /\ fb_refs' \in [Objects -> Int]
    BY <1>2, <2>1, FbPutTyped DEF GrabEnd, GiveUp
  <2>3. thread' \in [Threads -> Places]
    BY <1>2, IdlePlace DEF GrabEnd, GiveUp, Typed
  <2> QED BY <1>2, <2>2, <2>3 DEF GrabEnd, GiveUp, Typed, userVars
<1>3. CASE MapMove(t)
  BY <1>3, MapTyped DEF Typed, userVars
<1> QED BY <1>1, <1>2, <1>3 DEF ReaderStep, MapMove

LEMMA MeasureTyped ==
  ASSUME Typed, MeasureStep, UNCHANGED cursorVars
  PROVE  Typed'
<1>1. CASE \E o \in Objects : MeasureStart(o)
  BY <1>1, TakeFbTyped, ThreadsApart DEF MeasureStart, Steps
<1>2. CASE MeasureEnd
  <2> DEFINE o == thread[Measure].obj
             g == evdi_gem_vunmap(gem[o])
  <2>1. o \in Objects /\ gem[o] \in Record /\ fb_refs[o] \in Int
    BY <1>2, ThreadsApart DEF MeasureEnd, At, Typed, Places
  <2>2. g \in Record /\ Put(g) \in Record
    BY <2>1, VunmapFields, PutFields
  <2> HIDE DEF g
  <2>3. gem' \in [Objects -> Record]
    <3>1. gem' = [gem EXCEPT ![o] = IF fb_refs[o] = 1 THEN Put(g) ELSE g]
      BY <1>2 DEF MeasureEnd, g
    <3> QED BY <2>1, <2>2, <3>1 DEF Typed
  <2>4. fb_refs' \in [Objects -> Int]
    BY <1>2, <2>1 DEF MeasureEnd, Typed
  <2>5. thread' \in [Threads -> Places]
    BY <1>2, IdlePlace DEF MeasureEnd, Typed
  <2> QED BY <1>2, <2>3, <2>4, <2>5 DEF MeasureEnd, Typed, userVars,
             cursorVars, planeVars, clientVars
<1> QED BY <1>1, <1>2 DEF MeasureStep

LEMMA UpdateTyped ==
  ASSUME Typed, UpdateStep
  PROVE  Typed'
<1> USE ThreadsApart DEF userVars, planeVars, clientVars, Steps
<1>1. CASE \E o \in Objects \cup {NoObject} : evdi_cursor_atomic_update(o)
  <2>1. PICK o \in Objects \cup {NoObject} : evdi_cursor_atomic_update(o)
    BY <1>1
  <2>2. fb_refs' \in [Objects -> Int]
    BY <2>1 DEF evdi_cursor_atomic_update, Typed
  <2>3. thread' \in [Threads -> Places]
    BY <2>1 DEF evdi_cursor_atomic_update, Typed, Places
  <2> QED BY <2>1, <2>2, <2>3 DEF evdi_cursor_atomic_update, Typed
<1>2. CASE evdi_cursor_set
  <2>1. Go(Commit, "enable") /\ \E o : gem' = evdi_cursor_set_gem(o)
    BY <1>2 DEF evdi_cursor_set
  <2>2. cursor' \in Cursors
    BY <1>2 DEF evdi_cursor_set, Typed, Places, Cursors
  <2> QED BY <1>2, <2>1, <2>2, GoPlaces, CursorSetGemTyped
          DEF evdi_cursor_set, Typed
<1>3. CASE evdi_cursor_enable
  <2>1. cursor' \in Cursors
    BY <1>3 DEF evdi_cursor_enable, DisableCursor, Typed, Cursors
  <2>2. gem' \in [Objects -> Record]
    BY <1>3, CursorSetGemTyped DEF evdi_cursor_enable, DisableCursor, Typed
  <2>3. thread' \in [Threads -> Places]
    BY <1>3, GoPlaces DEF evdi_cursor_enable
  <2> QED BY <1>3, <2>1, <2>2, <2>3 DEF evdi_cursor_enable, Typed
<1>4. CASE ChooseEvents
  <2>1. Go(Commit, "send_set") \/ Go(Commit, "put")
    BY <1>4 DEF ChooseEvents
  <2> QED BY <1>4, <2>1, GoPlaces DEF ChooseEvents, Typed
<1>5. CASE evdi_painter_send_cursor_set
  <2>1. thread' \in [Threads -> Places]
    BY <1>5, GoPlaces DEF evdi_painter_send_cursor_set
  <2>2. told' \in Cursors
    <3>1. PICK b \in BOOLEAN :
            b = (cursor.enabled /\ cursor.obj # NoObject)
      BY DEF Typed, Cursors
    <3>2. [cursor EXCEPT !.enabled = b] \in Cursors /\ Unknown \in Cursors
      BY DEF Typed, Cursors, Unknown
    <3>3. told' \in {[cursor EXCEPT !.enabled = b], told, cursor, Unknown}
      BY <1>5, <3>1 DEF evdi_painter_send_cursor_set
    <3> QED BY <3>2, <3>3 DEF Typed
  <2>3. gem' \in [Objects -> Record] /\ client_handles' \subseteq Objects
    BY <1>5, GetFields DEF evdi_painter_send_cursor_set, Typed, Cursors
  <2> QED BY <1>5, <2>1, <2>2, <2>3 DEF evdi_painter_send_cursor_set, Typed
<1>6. CASE CommitEnd
  <2>1. gem' \in [Objects -> Record] /\ fb_refs' \in [Objects -> Int]
    BY <1>6, FbPutTyped DEF CommitEnd, Typed
  <2>2. thread' \in [Threads -> Places]
    BY <1>6, IdlePlace DEF CommitEnd, Typed
  <2> QED BY <1>6, <2>1, <2>2 DEF CommitEnd, Typed
<1> QED BY <1>1, <1>2, <1>3, <1>4, <1>5, <1>6 DEF UpdateStep

LEMMA ClientTyped ==
  ASSUME Typed, ClientStep
  PROVE  Typed'
<1> USE DEF gemVars, userVars, planeVars
<1>1. CASE evdi_painter_disconnect
  <2>1. gem' \in [Objects -> Record]
    BY <1>1, CursorSetGemTyped DEF evdi_painter_disconnect, DisableCursor
  <2>2. cursor' \in Cursors /\ told' \in Cursors
    BY <1>1 DEF evdi_painter_disconnect, DisableCursor, Typed, Cursors, Unknown
  <2> QED BY <1>1, <2>1, <2>2 DEF evdi_painter_disconnect, Typed
<1>2. CASE ReleaseFile
  <2>1. gem' \in [Objects -> Record]
    BY <1>2, PutFields DEF ReleaseFile, Typed
  <2> QED BY <1>2, <2>1 DEF ReleaseFile, Typed
<1>3. CASE \E enable \in BOOLEAN :
             evdi_painter_enable_cursor_events_ioctl(enable)
  <2>1. Unknown \in Cursors
    BY DEF Unknown, Cursors
  <2> QED BY <1>3, <2>1 DEF evdi_painter_enable_cursor_events_ioctl, Typed
<1>4. CASE OpenFile
  BY <1>4 DEF OpenFile, Typed
<1>5. CASE evdi_painter_connect
  BY <1>5 DEF evdi_painter_connect, Typed
<1>6. CASE DisconnectFile \/ DisconnectEnd
  BY <1>6 DEF DisconnectFile, DisconnectEnd, Typed
<1>7. CASE evdi_driver_postclose
  BY <1>7 DEF evdi_driver_postclose, Typed
<1> QED BY <1>1, <1>2, <1>3, <1>4, <1>5, <1>6, <1>7 DEF ClientStep

LEMMA StutterTyped ==
  ASSUME Typed, UNCHANGED vars
  PROVE  Typed'
BY DEF vars, gemVars, userVars, planeVars, clientVars, Typed

LEMMA NextTyped == Typed /\ [Next]_vars => Typed'
BY NextCases, HandleTyped, PinTyped, FbTyped, ReaderTyped, MeasureTyped,
   UpdateTyped, ClientTyped, StutterTyped DEF Next

LEMMA TypedAlways == Spec => []Typed
BY InitTyped, NextTyped, PTL DEF Spec


-----------------------------------------------------------------------------
(***************************************************************************)
(* References.                                                             *)
(***************************************************************************)

\* The commit thread holds the framebuffer the plane shows now, and the old
\* state holds the one it showed before.
CommitPlace ==
  LET c == thread[Commit]
  IN /\ c.pc = "idle" => c.obj = NoObject /\ old_plane = plane
     /\ c.pc # "idle" => c.obj = plane /\ old_plane # plane
     /\ c.pc \in {"check", "pin", "map", "recheck", "use", "failed"} =>
          c.obj # NoObject

\* Another thread has a framebuffer while it is not idle.
ThreadPlaces ==
  \A t \in Threads \ {Commit} :
    /\ thread[t].pc \in {"idle", "check", "pin", "map", "recheck", "use",
                          "failed"}
    /\ thread[t].pc = "idle" <=> thread[t].obj = NoObject
    /\ t = Measure => thread[t].pc # "check"

RefInv == ReferencesExact /\ CommitPlace /\ ThreadPlaces

GemExact(o) ==
  gem[o].refs = Count(o \in handles) + Count(o \in client_handles)
                + Count(o \in vmas) + Count(o \in exports)
                + Count(fb_refs[o] > 0) + Count(cursor.obj = o)
FbExact(o) ==
  fb_refs[o] = Count(o \in fbs) + Count(old_plane = o) + Cardinality(On(o))

LEMMA ExactSplit ==
  ReferencesExact <=> \A o \in Objects : GemExact(o) /\ FbExact(o)
BY DEF ReferencesExact, GemExact, FbExact

LEMMA ThreadsFinite == IsFiniteSet(Threads)
<1>1. Threads = (Grabbers \cup {Commit}) \cup {Measure}
  BY DEF Threads
<1> QED BY <1>1, ThreadAssumption, FS_AddElement

LEMMA OnFinite ==
  ASSUME NEW o
  PROVE  /\ IsFiniteSet(On(o)) /\ Cardinality(On(o)) \in Nat
         /\ \A t \in Threads : thread[t].obj = o => Cardinality(On(o)) >= 1
<1>1. On(o) \subseteq Threads
  BY DEF On
<1>2. IsFiniteSet(On(o)) /\ Cardinality(On(o)) \in Nat
  BY <1>1, ThreadsFinite, FS_Subset, FS_CardinalityType
<1>3. ASSUME NEW t \in Threads, thread[t].obj = o
      PROVE  Cardinality(On(o)) >= 1
  <2>1. On(o) # {}
    BY <1>3 DEF On
  <2> QED BY <1>2, <2>1, FS_EmptySet
<1> QED BY <1>2, <1>3

\* Threads that keep their objects.
LEMMA OnKept ==
  ASSUME \A t \in Threads : thread'[t].obj = thread[t].obj
  PROVE  \A o : On(o)' = On(o)
BY DEF On

\* An idle thread takes an object, or none.
LEMMA OnGains ==
  ASSUME Typed, NEW t \in Threads, NEW o, NEW pc,
         thread[t].obj = NoObject,
         thread' = [thread EXCEPT ![t] = [pc |-> pc, obj |-> o]]
  PROVE  \A p \in Objects :
           Cardinality(On(p)') = Cardinality(On(p)) + Count(p = o)
<1> SUFFICES ASSUME NEW p \in Objects
             PROVE  Cardinality(On(p)') = Cardinality(On(p)) + Count(p = o)
  OBVIOUS
<1>1. t \notin On(p)
  BY ObjectAssumption DEF On
<1>2. CASE p = o
  <2>1. On(p)' = On(p) \cup {t}
    BY <1>2 DEF On, Typed
  <2> QED BY <1>1, <1>2, <2>1, OnFinite, FS_AddElement DEF Count
<1>3. CASE p # o
  <2>1. On(p)' = On(p)
    BY <1>1, <1>3 DEF On, Typed
  <2> QED BY <1>3, <2>1, OnFinite DEF Count
<1> QED BY <1>2, <1>3

\* A thread lets its object go, if it has one.
LEMMA OnLoses ==
  ASSUME Typed, NEW t \in Threads,
         thread' = [thread EXCEPT ![t] = Idle]
  PROVE  \A p \in Objects :
           Cardinality(On(p)') = Cardinality(On(p)) - Count(p = thread[t].obj)
<1> SUFFICES ASSUME NEW p \in Objects
             PROVE  Cardinality(On(p)') =
                      Cardinality(On(p)) - Count(p = thread[t].obj)
  OBVIOUS
<1>1. t \notin On(p)'
  BY ObjectAssumption DEF On, Typed, Idle
<1>2. CASE p = thread[t].obj
  <2>1. On(p)' = On(p) \ {t} /\ t \in On(p)
    BY <1>1, <1>2 DEF On, Typed
  <2>2. Cardinality(On(p) \ {t}) = Cardinality(On(p)) - 1
    BY <2>1, OnFinite, FS_RemoveElement
  <2> QED BY <1>2, <2>1, <2>2 DEF Count
<1>3. CASE p # thread[t].obj
  <2>1. On(p)' = On(p)
    BY <1>1, <1>3 DEF On, Typed
  <2> QED BY <1>3, <2>1, OnFinite DEF Count
<1> QED BY <1>2, <1>3

\* Who has a framebuffer or an object keeps it referenced.
LEMMA HoldersCount ==
  ASSUME Typed, RefInv, NEW o \in Objects
  PROVE  /\ fb_refs[o] \in Nat /\ gem[o].refs \in Nat /\ gem[o] \in Record
         /\ o \in fbs \/ old_plane = o => fb_refs[o] >= 1
         /\ \A t \in Threads : thread[t].obj = o => fb_refs[o] >= 1
         /\ (o \in handles \/ o \in client_handles \/ o \in vmas
               \/ o \in exports \/ fb_refs[o] > 0 \/ cursor.obj = o)
              => gem[o].refs >= 1
<1>1. GemExact(o) /\ FbExact(o)
  BY ExactSplit DEF RefInv
<1>2. /\ Cardinality(On(o)) \in Nat
      /\ \A t \in Threads : thread[t].obj = o => Cardinality(On(o)) >= 1
  BY OnFinite
<1>3. gem[o] \in Record /\ fb_refs[o] \in Int
  BY DEF Typed
<1>4. /\ fb_refs[o] \in Nat
      /\ o \in fbs \/ old_plane = o => fb_refs[o] >= 1
      /\ \A t \in Threads : thread[t].obj = o => fb_refs[o] >= 1
  BY <1>1, <1>2, <1>3 DEF FbExact, Count
<1>5. /\ gem[o].refs \in Nat
      /\ (o \in handles \/ o \in client_handles \/ o \in vmas
            \/ o \in exports \/ fb_refs[o] > 0 \/ cursor.obj = o)
           => gem[o].refs >= 1
  BY <1>1, <1>3, <1>4 DEF GemExact, Count
<1> QED BY <1>3, <1>4, <1>5

LEMMA InitRefInv == Init => RefInv
<1> SUFFICES ASSUME Init PROVE RefInv
  OBVIOUS
<1>1. thread = [t \in Threads |-> Idle]
  BY DEF Init, GemInit
<1>2. \A o \in Objects : On(o) = {}
  BY <1>1, ObjectAssumption DEF On, Idle
<1>3. \A o \in Objects : GemExact(o) /\ FbExact(o)
  BY <1>2, FS_EmptySet, FreedRecord, ObjectAssumption
     DEF Init, GemInit, GemExact, FbExact, Count
<1>4. CommitPlace /\ ThreadPlaces
  BY <1>1, ThreadsApart DEF Init, CommitPlace, ThreadPlaces, Idle
<1> QED BY <1>3, <1>4, ExactSplit DEF RefInv

\* Steps that touch neither framebuffers nor threads.
LEMMA FbExactKept ==
  ASSUME NEW o, FbExact(o), UNCHANGED <<fbs, fb_refs, thread, old_plane>>
  PROVE  FbExact(o)'
BY DEF FbExact, On

LEMMA HandleRefInv ==
  ASSUME Typed, RefInv, NEW o \in Objects, HandleStep(o),
         UNCHANGED cursorVars
  PROVE  RefInv'
<1> USE DEF userVars, cursorVars, planeVars, clientVars
<1>1. UNCHANGED <<fbs, fb_refs, thread>>
  BY DEF HandleStep, evdi_gem_create, evdi_prime_import_sg_table,
         CloseHandle, evdi_drm_gem_mmap, Munmap, Export, CloseExport
<1>2. ASSUME NEW p \in Objects PROVE GemExact(p)'
  <2>1. GemExact(p) /\ fb_refs[p] \in Int /\ gem[p] \in Record
    BY ExactSplit DEF RefInv, Typed
  <2>2. gem \in [Objects -> Record]
    BY DEF Typed
  <2>3. CASE evdi_gem_create(o)
             \/ \E owner \in Imports : evdi_prime_import_sg_table(o, owner)
    <3>1. /\ gem'[p].refs = IF p = o THEN 1 ELSE gem[p].refs
          /\ handles' = handles \cup {o}
          /\ p = o => gem[p].refs <= 0
          /\ UNCHANGED <<vmas, exports>>
      <4>1. CASE evdi_gem_create(o)
        <5>1. PICK g : g = [Freed EXCEPT !.refs = 1]
          OBVIOUS
        <5>2. g.refs = 1
          BY <5>1 DEF Freed
        <5> QED BY <2>1, <2>2, <4>1, <5>1, <5>2
                DEF evdi_gem_create, Live, Record
      <4>2. CASE \E owner \in Imports : evdi_prime_import_sg_table(o, owner)
        <5>1. PICK owner \in Imports : evdi_prime_import_sg_table(o, owner)
          BY <4>2
        <5>2. PICK g : g = [Freed EXCEPT !.refs = 1, !.import = owner,
                                         !.pages = TRUE]
          OBVIOUS
        <5>3. g.refs = 1
          BY <5>2 DEF Freed
        <5> QED BY <2>1, <2>2, <5>1, <5>2, <5>3
                DEF evdi_prime_import_sg_table, Live, Record
      <4> QED BY <2>3, <4>1, <4>2
    <3> QED BY <1>1, <2>1, <3>1 DEF GemExact, Count, Record
  <2>4. CASE gem' = [gem EXCEPT ![o] = Put(@)]
                /\ (CloseHandle(o) \/ Munmap(o) \/ CloseExport(o))
    <3>1. gem'[p].refs = gem[p].refs - Count(p = o)
      BY <2>1, <2>2, <2>4, PutFields DEF Count, Record
    <3> QED BY <1>1, <2>1, <2>4, <3>1
            DEF CloseHandle, Munmap, CloseExport, GemExact, Count, Record
  <2>5. CASE gem' = [gem EXCEPT ![o] = Get(@)]
                /\ (evdi_drm_gem_mmap(o) \/ Export(o))
    <3>1. gem'[p].refs = gem[p].refs + Count(p = o)
      BY <2>1, <2>2, <2>5, GetFields DEF Count, Record
    <3> QED BY <1>1, <2>1, <2>5, <3>1
            DEF evdi_drm_gem_mmap, Export, GemExact, Count, Record
  <2> QED BY <2>3, <2>4, <2>5 DEF HandleStep, CloseHandle,
             evdi_drm_gem_mmap, Munmap, Export, CloseExport
<1>3. \A p \in Objects : FbExact(p)'
  BY <1>1, FbExactKept, ExactSplit DEF RefInv
<1>4. ReferencesExact'
  BY <1>2, <1>3, ExactSplit DEF ReferencesExact, GemExact, FbExact
<1> QED BY <1>1, <1>4 DEF RefInv, CommitPlace, ThreadPlaces


LEMMA PinRefInv ==
  ASSUME Typed, RefInv, NEW o \in Objects, PinStep(o), UNCHANGED cursorVars
  PROVE  RefInv'
<1> USE DEF userVars, cursorVars, planeVars, clientVars
<1>1. UNCHANGED <<handles, vmas, exports, fbs, fb_refs, thread>>
  BY DEF PinStep, evdi_gem_mmap, evdi_prime_pin, evdi_prime_unpin
<1>2. \A p \in Objects : gem'[p].refs = gem[p].refs
  <2> DEFINE g == evdi_pin_pages(gem[o])
             u == evdi_unpin_pages(gem[o])
  <2>1. gem \in [Objects -> Record] /\ gem[o] \in Record
    BY DEF Typed
  <2>2. g \in Record /\ g.refs = gem[o].refs /\ u.refs = gem[o].refs
    BY <2>1, PinFields, UnpinFields
  <2>3. [g EXCEPT !.offset = TRUE].refs = g.refs
    BY <2>2 DEF Record
  <2>4. \/ gem' = [gem EXCEPT ![o] = g]
        \/ gem' = [gem EXCEPT ![o] = [g EXCEPT !.offset = TRUE]]
        \/ gem' = [gem EXCEPT ![o] = u]
    BY DEF PinStep, evdi_gem_mmap, evdi_prime_pin, evdi_prime_unpin
  <2> HIDE DEF g, u
  <2> QED BY <2>1, <2>2, <2>3, <2>4
<1>3. \A p \in Objects : GemExact(p)' /\ FbExact(p)'
  BY <1>1, <1>2, ExactSplit, FbExactKept DEF RefInv, GemExact
<1> QED BY <1>1, <1>3, ExactSplit
        DEF RefInv, CommitPlace, ThreadPlaces, ReferencesExact, GemExact,
            FbExact

\* The last reference of a framebuffer takes its reference to the object along.
LEMMA FbPutRefs ==
  ASSUME Typed, RefInv, NEW o \in Objects, FbPut(o), fb_refs[o] >= 1
  PROVE  \A p \in Objects :
           /\ fb_refs'[p] = fb_refs[p] - Count(p = o)
           /\ gem'[p].refs - Count(fb_refs'[p] > 0)
                = gem[p].refs - Count(fb_refs[p] > 0)
<1> SUFFICES ASSUME NEW p \in Objects
             PROVE  /\ fb_refs'[p] = fb_refs[p] - Count(p = o)
                    /\ gem'[p].refs - Count(fb_refs'[p] > 0)
                         = gem[p].refs - Count(fb_refs[p] > 0)
  OBVIOUS
<1>1. /\ gem \in [Objects -> Record] /\ fb_refs \in [Objects -> Int]
      /\ gem[p].refs \in Int /\ fb_refs[p] \in Int
  BY DEF Typed, Record
<1>2. fb_refs'[p] = fb_refs[p] - Count(p = o)
  BY <1>1 DEF FbPut, Count
<1>3. CASE fb_refs[o] = 1
  <2>1. gem'[p].refs = gem[p].refs - Count(p = o)
    BY <1>1, <1>3, PutFields DEF FbPut, Count
  <2> QED BY <1>1, <1>2, <1>3, <2>1 DEF Count
<1>4. CASE fb_refs[o] # 1
  <2>1. gem' = gem
    BY <1>4 DEF FbPut
  <2> QED BY <1>1, <1>2, <1>4, <2>1 DEF Count
<1> QED BY <1>2, <1>3, <1>4

LEMMA FbRefInv ==
  ASSUME Typed, RefInv, NEW o \in Objects, FbStep(o), UNCHANGED cursorVars
  PROVE  RefInv'
<1> USE DEF userVars, cursorVars, planeVars, clientVars
<1>1. UNCHANGED <<handles, vmas, exports, thread>>
  BY DEF FbStep, evdi_fb_user_fb_create, RemoveFb
<1>2. \A p : On(p)' = On(p)
  BY <1>1, OnKept
<1>3. ASSUME NEW p \in Objects PROVE GemExact(p)' /\ FbExact(p)'
  <2>1. /\ GemExact(p) /\ FbExact(p) /\ fb_refs[p] \in Int /\ gem[p] \in Record
        /\ gem'[p] \in Record /\ Cardinality(On(p)) \in Nat
        /\ Cardinality(On(p)') = Cardinality(On(p))
    BY <1>2, ExactSplit, FbTyped, OnFinite DEF RefInv, Typed
  <2>2. CASE evdi_fb_user_fb_create(o)
    <3>1. gem'[p].refs = gem[p].refs + Count(p = o)
      BY <2>1, <2>2, GetFields DEF evdi_fb_user_fb_create, Typed, Count, Record
    <3>2. /\ fb_refs'[p] = IF p = o THEN 1 ELSE fb_refs[p]
          /\ fbs' = fbs \cup {o} /\ fb_refs[o] = 0
      BY <2>2 DEF evdi_fb_user_fb_create, Typed
    <3>3. GemExact(p)'
      BY <1>1, <2>1, <3>1, <3>2 DEF GemExact, Count, Record
    <3>4. FbExact(p)'
      BY <1>1, <2>1, <3>2 DEF FbExact, Count
    <3> QED BY <3>3, <3>4
  <2>3. CASE RemoveFb(o)
    <3>1. fb_refs[o] >= 1
      BY <2>3, HoldersCount DEF RemoveFb
    <3>2. /\ fb_refs'[p] = fb_refs[p] - Count(p = o)
          /\ gem'[p].refs - Count(fb_refs'[p] > 0)
               = gem[p].refs - Count(fb_refs[p] > 0)
      BY <2>3, <3>1, FbPutRefs DEF RemoveFb
    <3>3. GemExact(p)'
      BY <1>1, <2>1, <3>2 DEF GemExact, Count, Record
    <3>4. FbExact(p)'
      BY <1>1, <2>1, <2>3, <3>2 DEF RemoveFb, FbExact, Count
    <3> QED BY <3>3, <3>4
  <2> QED BY <2>2, <2>3 DEF FbStep
<1> QED BY <1>1, <1>3
        DEF RefInv, CommitPlace, ThreadPlaces, ReferencesExact, GemExact,
            FbExact


LEMMA TakeFbRefInv ==
  ASSUME Typed, RefInv, NEW t \in Threads, NEW o \in Objects,
         NEW pc \in {"check", "pin"}, TakeFb(t, o, pc), UNCHANGED cursorVars,
         t # Commit, t = Measure => pc = "pin"
  PROVE  RefInv'
<1> USE DEF userVars, cursorVars, planeVars, clientVars
<1>1. /\ thread[t].obj = NoObject /\ o \in fbs
      /\ thread' = [thread EXCEPT ![t] = [pc |-> pc, obj |-> o]]
      /\ fb_refs' = [fb_refs EXCEPT ![o] = @ + 1]
      /\ UNCHANGED <<gem, handles, vmas, exports, fbs>>
  BY DEF TakeFb, Idle
<1>6. \A p \in Objects :
        Cardinality(On(p)') = Cardinality(On(p)) + Count(p = o)
  BY <1>1, OnGains, Zenon
<1>2. ASSUME NEW p \in Objects PROVE GemExact(p)' /\ FbExact(p)'
  <2>1. /\ GemExact(p) /\ FbExact(p) /\ fb_refs[p] \in Int
        /\ fb_refs[o] >= 1 /\ Cardinality(On(p)) \in Nat
    BY <1>1, ExactSplit, OnFinite, HoldersCount DEF RefInv, Typed
  <2>2. fb_refs'[p] = fb_refs[p] + Count(p = o)
    BY <1>1, <2>1 DEF Typed, Count
  <2>3. Cardinality(On(p)') = Cardinality(On(p)) + Count(p = o)
    BY <1>6
  <2>4. GemExact(p)'
    BY <1>1, <2>1, <2>2 DEF GemExact, Count
  <2>5. FbExact(p)'
    BY <1>1, <2>1, <2>2, <2>3 DEF FbExact, Count
  <2> QED BY <2>4, <2>5
<1>3. ReferencesExact'
  BY <1>2 DEF ReferencesExact, GemExact, FbExact
<1>4. CommitPlace'
  BY <1>1, ThreadsApart DEF RefInv, CommitPlace, Typed
<1>5. ThreadPlaces'
  BY <1>1, ObjectAssumption DEF RefInv, ThreadPlaces, Typed
<1> QED BY <1>3, <1>4, <1>5 DEF RefInv

\* A thread that is not the commit's puts its framebuffer.
LEMMA LetGoRefInv ==
  ASSUME Typed, RefInv, NEW t \in Threads, t # Commit,
         thread[t].obj \in Objects,
         \A p \in Objects :
           /\ fb_refs'[p] = fb_refs[p] - Count(p = thread[t].obj)
           /\ gem'[p].refs \in Int
           /\ gem'[p].refs - Count(fb_refs'[p] > 0)
                = gem[p].refs - Count(fb_refs[p] > 0),
         thread' = [thread EXCEPT ![t] = Idle],
         UNCHANGED <<userVars, fbs, cursorVars>>
  PROVE  RefInv'
<1> USE DEF userVars, cursorVars, planeVars, clientVars
<1>1. ASSUME NEW p \in Objects PROVE GemExact(p)' /\ FbExact(p)'
  <2>1. /\ GemExact(p) /\ FbExact(p) /\ fb_refs[p] \in Int /\ gem[p] \in Record
        /\ Cardinality(On(p)) \in Nat
    BY ExactSplit, OnFinite DEF RefInv, Typed
  <2>2. Cardinality(On(p)') = Cardinality(On(p)) - Count(p = thread[t].obj)
    BY OnLoses
  <2>3. GemExact(p)'
    BY <2>1 DEF GemExact, Count, Record
  <2>4. FbExact(p)'
    BY <2>1, <2>2 DEF FbExact, Count
  <2> QED BY <2>3, <2>4
<1>2. ReferencesExact'
  BY <1>1 DEF ReferencesExact, GemExact, FbExact
<1>3. CommitPlace'
  BY ThreadsApart DEF RefInv, CommitPlace, Typed
<1>4. ThreadPlaces'
  BY DEF RefInv, ThreadPlaces, Typed, Idle
<1> QED BY <1>2, <1>3, <1>4 DEF RefInv

\* A thread goes on with its object; no reference changes.
LEMMA GoRefInv ==
  ASSUME Typed, RefInv, NEW t \in Threads,
         NEW pc \in {"pin", "map", "recheck", "use", "failed"}, Go(t, pc),
         thread[t].pc \in {"check", "pin", "map", "recheck"},
         thread[t].obj # NoObject,
         \A p \in Objects : gem'[p].refs = gem[p].refs,
         UNCHANGED <<userVars, fbs, fb_refs, cursorVars>>
  PROVE  RefInv'
<1> USE DEF userVars, cursorVars, planeVars, clientVars
<1>1. /\ thread'[t].pc = pc /\ thread'[t].obj = thread[t].obj
      /\ \A u \in Threads \ {t} : thread'[u] = thread[u]
  BY GoPlaces DEF Steps
<1>2. \A p : On(p)' = On(p)
  BY <1>1, OnKept
<1>3. \A p \in Objects : GemExact(p)' /\ FbExact(p)'
  BY <1>2, ExactSplit DEF RefInv, GemExact, FbExact
<1>4. ReferencesExact'
  BY <1>3 DEF ReferencesExact, GemExact, FbExact
<1>5. CommitPlace' /\ ThreadPlaces'
  BY <1>1, ThreadsApart DEF RefInv, CommitPlace, ThreadPlaces
<1> QED BY <1>4, <1>5 DEF RefInv

\* Mapping changes no reference.
LEMMA MapRefs ==
  ASSUME Typed, NEW t \in Threads, MapMove(t)
  PROVE  /\ \A p \in Objects : gem'[p].refs = gem[p].refs
         /\ thread[t].pc \in {"check", "pin", "map", "recheck"}
         /\ thread[t].obj # NoObject
         /\ \E pc \in {"pin", "map", "recheck", "use", "failed"} : Go(t, pc)
<1>1. \A p \in Objects : gem'[p].refs = gem[p].refs
  <2>1. gem \in [Objects -> Record]
    BY DEF Typed
  <2>2. CASE CheckMapping(t) \/ PinFails(t) \/ RecheckMapping(t)
    BY <2>2 DEF CheckMapping, PinFails, RecheckMapping
  <2>3. CASE VmapPin(t)
    BY <2>1, <2>3, PinFields DEF VmapPin
  <2>4. CASE VmapMap(t) \/ VmapFails(t)
    BY <2>1, <2>4 DEF VmapMap, VmapFails, Record
  <2> QED BY <2>2, <2>3, <2>4 DEF MapMove
<1>2. \E pc \in {"pin", "map", "recheck", "use", "failed"} : Go(t, pc)
  BY DEF MapMove, CheckMapping, VmapPin, PinFails, VmapMap, VmapFails,
         RecheckMapping
<1> QED BY <1>1, <1>2 DEF MapMove, CheckMapping, VmapPin, PinFails, VmapMap,
           VmapFails, RecheckMapping, At

LEMMA ReaderRefInv ==
  ASSUME Typed, RefInv, NEW t \in Threads, ReaderStep(t),
         UNCHANGED cursorVars
  PROVE  RefInv'
<1>1. CASE t # Commit /\ t # Measure /\ \E o \in Objects : TakeFb(t, o, "check")
  BY <1>1, TakeFbRefInv
<1>2. CASE t # Commit /\ (GrabEnd(t) \/ GiveUp(t))
  <2> DEFINE o == thread[t].obj
  <2>1. /\ o \in Objects /\ FbPut(o)
        /\ thread' = [thread EXCEPT ![t] = Idle]
        /\ UNCHANGED <<userVars, fbs>>
    BY <1>2 DEF GrabEnd, GiveUp, At, Typed, Places
  <2>2. fb_refs[o] >= 1
    BY <2>1, HoldersCount
  <2>3. \A p \in Objects :
          /\ fb_refs'[p] = fb_refs[p] - Count(p = o)
          /\ gem'[p].refs - Count(fb_refs'[p] > 0)
               = gem[p].refs - Count(fb_refs[p] > 0)
    BY <2>1, <2>2, FbPutRefs
  <2>4. \A p \in Objects : gem'[p].refs \in Int
    BY ReaderTyped DEF Typed, Record
  <2> QED BY <1>2, <2>1, <2>3, <2>4, LetGoRefInv
<1>3. CASE MapMove(t)
  BY <1>3, MapRefs, MapTyped, GoRefInv
<1> QED BY <1>1, <1>2, <1>3 DEF ReaderStep, GiveUp, MapMove

LEMMA MeasureRefInv ==
  ASSUME Typed, RefInv, MeasureStep, UNCHANGED cursorVars
  PROVE  RefInv'
<1>1. CASE \E o \in Objects : MeasureStart(o)
  BY <1>1, TakeFbRefInv, ThreadsApart DEF MeasureStart
<1>2. CASE MeasureEnd
  <2> DEFINE o == thread[Measure].obj
             g == evdi_gem_vunmap(gem[o])
  <2>1. /\ o \in Objects /\ gem[o] \in Record /\ fb_refs[o] \in Int
        /\ gem \in [Objects -> Record] /\ fb_refs \in [Objects -> Int]
    BY <1>2, ThreadsApart DEF MeasureEnd, At, Typed, Places
  <2>2. g \in Record /\ g.refs = gem[o].refs /\ Put(g).refs = g.refs - 1
    BY <2>1, VunmapFields, PutFields
  <2> HIDE DEF g
  <2>3. /\ gem' = [gem EXCEPT ![o] = IF fb_refs[o] = 1 THEN Put(g) ELSE g]
        /\ fb_refs' = [fb_refs EXCEPT ![o] = @ - 1]
        /\ thread' = [thread EXCEPT ![Measure] = Idle]
        /\ UNCHANGED <<userVars, fbs>>
    BY <1>2 DEF MeasureEnd, g
  <2>4. fb_refs[o] >= 1
    BY <2>1, HoldersCount, ThreadsApart
  <2>5. ASSUME NEW p \in Objects
        PROVE  /\ fb_refs'[p] = fb_refs[p] - Count(p = o)
               /\ gem'[p].refs - Count(fb_refs'[p] > 0)
                    = gem[p].refs - Count(fb_refs[p] > 0)
    <3>1. fb_refs'[p] = fb_refs[p] - Count(p = o) /\ fb_refs[p] \in Int
      BY <2>1, <2>3 DEF Count
    <3>2. gem'[p].refs = gem[p].refs - Count(p = o /\ fb_refs[o] = 1)
      BY <2>1, <2>2, <2>3 DEF Count, Record
    <3> QED BY <2>1, <2>4, <3>1, <3>2 DEF Count, Record
  <2>6. \A p \in Objects : gem'[p].refs \in Int
    BY MeasureTyped DEF Typed, Record
  <2> QED BY <2>1, <2>3, <2>5, <2>6, LetGoRefInv, ThreadsApart
<1> QED BY <1>1, <1>2 DEF MeasureStep


LEMMA CursorSetGemRefs ==
  ASSUME Typed, NEW o, gem' = evdi_cursor_set_gem(o), NEW p \in Objects
  PROVE  gem'[p].refs = gem[p].refs + Count(p = o) - Count(p = cursor.obj)
<1> DEFINE got == IF p = o THEN Get(gem[p]) ELSE gem[p]
<1>1. gem[p] \in Record /\ gem[p].refs \in Int
  BY DEF Typed, Record
<1>2. got \in Record /\ got.refs = gem[p].refs + Count(p = o)
  BY <1>1, GetFields DEF Count
<1>3. gem'[p] = IF p = cursor.obj THEN Put(got) ELSE got
  BY DEF evdi_cursor_set_gem
<1> HIDE DEF got
<1>4. Put(got).refs = got.refs - 1
  BY <1>2, PutFields
<1> QED BY <1>1, <1>2, <1>3, <1>4 DEF Count

\* The cursor changes its object; the commit thread, if it does that, goes on.
LEMMA CursorRefInv ==
  ASSUME Typed, RefInv, NEW o, gem' = evdi_cursor_set_gem(o),
         cursor'.obj = o, ThreadPlaces', CommitPlace',
         \A t \in Threads : thread'[t].obj = thread[t].obj,
         UNCHANGED <<userVars, fbs, fb_refs, client_handles, planeVars>>
  PROVE  RefInv'
<1> USE DEF userVars, planeVars
<1>1. \A p : On(p)' = On(p)
  BY OnKept
<1>2. ASSUME NEW p \in Objects PROVE GemExact(p)' /\ FbExact(p)'
  <2>1. /\ GemExact(p) /\ FbExact(p) /\ gem[p].refs \in Int
    BY ExactSplit DEF RefInv, Typed, Record
  <2>2. gem'[p].refs = gem[p].refs + Count(p = o) - Count(p = cursor.obj)
    BY CursorSetGemRefs
  <2>3. GemExact(p)'
    BY <2>1, <2>2 DEF GemExact, Count
  <2>4. FbExact(p)'
    BY <1>1, <2>1 DEF FbExact
  <2> QED BY <2>3, <2>4
<1>3. ReferencesExact'
  BY <1>2 DEF ReferencesExact, GemExact, FbExact
<1> QED BY <1>3 DEF RefInv

\* The other threads stay where they are.
LEMMA OthersStay ==
  ASSUME RefInv, \A u \in Threads \ {Commit} : thread'[u] = thread[u]
  PROVE  ThreadPlaces'
BY DEF RefInv, ThreadPlaces

LEMMA UpdateRefInv ==
  ASSUME Typed, RefInv, UpdateStep
  PROVE  RefInv'
<1> USE ThreadsApart
<1>1. CASE \E o \in Objects \cup {NoObject} : evdi_cursor_atomic_update(o)
  <2>1. PICK o \in Objects \cup {NoObject} : evdi_cursor_atomic_update(o)
    BY <1>1
  <2> DEFINE pc == IF o # NoObject THEN "check" ELSE "enable"
  <2>2. /\ thread[Commit] = Idle /\ o # plane
        /\ thread' = [thread EXCEPT ![Commit] = [pc |-> pc, obj |-> o]]
        /\ old_plane' = plane /\ plane' = o /\ old_plane = plane
        /\ UNCHANGED <<gem, userVars, fbs, cursor, client_handles>>
        /\ \A p \in Objects : fb_refs'[p] = IF p = o THEN fb_refs[p] + 1
                                            ELSE fb_refs[p]
    BY <2>1 DEF evdi_cursor_atomic_update, RefInv, CommitPlace, Idle,
                clientVars
  <2>3. o \in Objects => o \in fbs
    BY <2>1, ObjectAssumption DEF evdi_cursor_atomic_update
  <2> HIDE DEF pc
  <2>4. ASSUME NEW p \in Objects PROVE GemExact(p)' /\ FbExact(p)'
    <3>1. /\ GemExact(p) /\ FbExact(p) /\ fb_refs[p] \in Int
          /\ Cardinality(On(p)) \in Nat
          /\ p = o => fb_refs[p] >= 1
      BY <2>3, ExactSplit, OnFinite, HoldersCount DEF RefInv, Typed
    <3>2. Cardinality(On(p)') = Cardinality(On(p)) + Count(p = o)
      <4>1. thread[Commit].obj = NoObject
        BY <2>2 DEF Idle
      <4>2. thread' = [thread EXCEPT ![Commit] = [pc |-> pc, obj |-> o]]
        BY <2>2
      <4>3. \A q \in Objects :
              Cardinality(On(q)') = Cardinality(On(q)) + Count(q = o)
        BY <4>1, <4>2, OnGains, Zenon
      <4> QED BY <4>3
    <3>3. GemExact(p)'
      BY <2>2, <3>1 DEF GemExact, Count, userVars
    <3>4. FbExact(p)'
      BY <2>2, <3>1, <3>2 DEF FbExact, Count
    <3> QED BY <3>3, <3>4
  <2>5. ReferencesExact'
    BY <2>4 DEF ReferencesExact, GemExact, FbExact
  <2>6. CommitPlace'
    BY <2>2 DEF CommitPlace, Typed, pc
  <2>7. ThreadPlaces'
    BY <2>2, OthersStay DEF Typed
  <2> QED BY <2>5, <2>6, <2>7 DEF RefInv
<1>2. CASE evdi_cursor_set
  <2>1. Go(Commit, "enable") /\ thread[Commit].pc \in {"use", "failed"}
    BY <1>2 DEF evdi_cursor_set
  <2>2. /\ thread'[Commit].pc = "enable"
        /\ thread'[Commit].obj = thread[Commit].obj
        /\ \A u \in Threads \ {Commit} : thread'[u] = thread[u]
    BY <2>1, GoPlaces DEF Steps
  <2>3. CommitPlace'
    BY <1>2, <2>1, <2>2
       DEF RefInv, CommitPlace, evdi_cursor_set, planeVars
  <2>4. cursor'.obj = IF thread[Commit].pc = "use" THEN thread[Commit].obj
                      ELSE NoObject
    BY <1>2 DEF evdi_cursor_set, Typed, Cursors
  <2>5. gem' = evdi_cursor_set_gem(cursor'.obj)
    BY <1>2, <2>4 DEF evdi_cursor_set
  <2> QED BY <1>2, <2>2, <2>3, <2>5, OthersStay, CursorRefInv
          DEF evdi_cursor_set, clientVars
<1>3. CASE evdi_cursor_enable
  <2>1. Go(Commit, "events") /\ thread[Commit].pc = "enable"
    BY <1>3 DEF evdi_cursor_enable
  <2>2. /\ thread'[Commit].pc = "events"
        /\ thread'[Commit].obj = thread[Commit].obj
        /\ \A u \in Threads \ {Commit} : thread'[u] = thread[u]
    BY <2>1, GoPlaces DEF Steps
  <2>3. CommitPlace' /\ ThreadPlaces'
    BY <1>3, <2>1, <2>2, OthersStay
       DEF RefInv, CommitPlace, evdi_cursor_enable, planeVars
  <2>4. CASE DisableCursor
    <3>1. cursor'.obj = NoObject /\ gem' = evdi_cursor_set_gem(NoObject)
      BY <2>4 DEF DisableCursor, Typed, Cursors
    <3> QED BY <1>3, <2>2, <2>3, <3>1, CursorRefInv
            DEF evdi_cursor_enable, clientVars
  <2>5. CASE cursor' = [cursor EXCEPT !.enabled = TRUE] /\ UNCHANGED gem
    <3>1. cursor'.obj = cursor.obj /\ \A p : On(p)' = On(p)
      BY <2>2, <2>5, OnKept DEF Typed, Cursors
    <3>2. \A p \in Objects : GemExact(p)' /\ FbExact(p)'
      BY <1>3, <2>5, <3>1, ExactSplit DEF evdi_cursor_enable, RefInv,
         GemExact, FbExact, userVars, planeVars, clientVars
    <3>3. ReferencesExact'
      BY <3>2 DEF ReferencesExact, GemExact, FbExact
    <3> QED BY <2>3, <3>3 DEF RefInv
  <2> QED BY <1>3, <2>4, <2>5 DEF evdi_cursor_enable
<1>4. CASE ChooseEvents
  <2>1. /\ \E pc \in {"send_set", "put"} : Go(Commit, pc)
        /\ thread[Commit].pc = "events"
    BY <1>4 DEF ChooseEvents
  <2>2. /\ thread'[Commit].pc \in {"send_set", "put"}
        /\ thread'[Commit].obj = thread[Commit].obj
        /\ \A u \in Threads \ {Commit} : thread'[u] = thread[u]
    BY <2>1, GoPlaces DEF Steps
  <2>3. \A p : On(p)' = On(p)
    BY <2>2, OnKept
  <2>4. \A p \in Objects : GemExact(p)' /\ FbExact(p)'
    BY <1>4, <2>3, ExactSplit DEF ChooseEvents, RefInv,
       GemExact, FbExact, userVars, planeVars, clientVars
  <2>5. ReferencesExact'
    BY <2>4 DEF ReferencesExact, GemExact, FbExact
  <2>6. CommitPlace' /\ ThreadPlaces'
    BY <1>4, <2>1, <2>2, OthersStay
       DEF RefInv, CommitPlace, ChooseEvents, planeVars
  <2> QED BY <2>5, <2>6 DEF RefInv
<1>5. CASE evdi_painter_send_cursor_set
  <2>1. /\ \E pc \in {"put", "oops"} : Go(Commit, pc)
        /\ thread[Commit].pc = "send_set"
    BY <1>5 DEF evdi_painter_send_cursor_set
  <2>2. /\ thread'[Commit].pc \in {"put", "oops"}
        /\ thread'[Commit].obj = thread[Commit].obj
        /\ \A u \in Threads \ {Commit} : thread'[u] = thread[u]
    BY <2>1, GoPlaces DEF Steps
  <2>3. \A p : On(p)' = On(p)
    BY <2>2, OnKept
  <2>4. ASSUME NEW p \in Objects PROVE GemExact(p)' /\ FbExact(p)'
    <3>1. GemExact(p) /\ FbExact(p) /\ gem[p] \in Record
      BY ExactSplit DEF RefInv, Typed
    <3>2. \/ UNCHANGED <<gem, client_handles>>
          \/ /\ cursor.obj \notin client_handles
             /\ client_handles' = client_handles \cup {cursor.obj}
             /\ gem' = [gem EXCEPT ![cursor.obj] = Get(@)]
      BY <1>5 DEF evdi_painter_send_cursor_set, evdi_gem_object_handle_lookup
    <3>3. gem'[p].refs - Count(p \in client_handles')
            = gem[p].refs - Count(p \in client_handles)
      BY <3>1, <3>2, GetFields DEF Typed, Count, Record
    <3>4. gem'[p].refs \in Int
      BY UpdateTyped DEF Typed, Record
    <3>5. GemExact(p)'
      BY <1>5, <3>1, <3>3, <3>4 DEF evdi_painter_send_cursor_set, GemExact,
         userVars, Count, Record
    <3>6. FbExact(p)'
      BY <1>5, <2>3, <3>1 DEF evdi_painter_send_cursor_set, FbExact, planeVars
    <3> QED BY <3>5, <3>6
  <2>5. ReferencesExact'
    BY <2>4 DEF ReferencesExact, GemExact, FbExact
  <2>6. CommitPlace' /\ ThreadPlaces'
    BY <1>5, <2>1, <2>2, OthersStay
       DEF RefInv, CommitPlace, evdi_painter_send_cursor_set, planeVars
  <2> QED BY <2>5, <2>6 DEF RefInv
<1>6. CASE CommitEnd
  <2>1. /\ thread[Commit].pc = "put" /\ thread[Commit].obj = plane
        /\ old_plane # plane /\ old_plane' = plane
        /\ thread' = [thread EXCEPT ![Commit] = Idle]
        /\ UNCHANGED <<userVars, fbs, cursor, plane, client_handles>>
    BY <1>6 DEF CommitEnd, RefInv, CommitPlace, clientVars
  <2>2. ASSUME NEW p \in Objects
        PROVE  /\ fb_refs'[p] = fb_refs[p] - Count(p = old_plane)
               /\ gem'[p].refs - Count(fb_refs'[p] > 0)
                    = gem[p].refs - Count(fb_refs[p] > 0)
    <3>1. CASE old_plane = NoObject
      BY <1>6, <3>1, ObjectAssumption DEF CommitEnd, Count, Typed
    <3>2. CASE old_plane # NoObject
      <4>1. old_plane \in Objects /\ FbPut(old_plane)
        BY <1>6, <3>2 DEF CommitEnd, Typed
      <4> QED BY <4>1, HoldersCount, FbPutRefs
    <3> QED BY <3>1, <3>2
  <2>3. ASSUME NEW p \in Objects PROVE GemExact(p)' /\ FbExact(p)'
    <3>1. /\ GemExact(p) /\ FbExact(p) /\ fb_refs[p] \in Int
          /\ gem[p] \in Record /\ Cardinality(On(p)) \in Nat
          /\ gem'[p] \in Record
      BY ExactSplit, OnFinite, UpdateTyped DEF RefInv, Typed
    <3>2. Cardinality(On(p)') = Cardinality(On(p)) - Count(p = plane)
      BY <2>1, OnLoses
    <3>3. GemExact(p)'
      BY <2>1, <2>2, <3>1 DEF GemExact, Count, Record, userVars
    <3>4. FbExact(p)'
      BY <2>1, <2>2, <3>1, <3>2 DEF FbExact, Count
    <3> QED BY <3>3, <3>4
  <2>4. ReferencesExact'
    BY <2>3 DEF ReferencesExact, GemExact, FbExact
  <2>5. CommitPlace'
    BY <2>1 DEF CommitPlace, Typed, Idle
  <2>6. ThreadPlaces'
    BY <2>1, OthersStay DEF Typed
  <2> QED BY <2>4, <2>5, <2>6 DEF RefInv
<1> QED BY <1>1, <1>2, <1>3, <1>4, <1>5, <1>6 DEF UpdateStep

LEMMA ClientRefInv ==
  ASSUME Typed, RefInv, ClientStep
  PROVE  RefInv'
<1>1. CASE evdi_painter_disconnect
  <2>1. cursor'.obj = NoObject /\ gem' = evdi_cursor_set_gem(NoObject)
    BY <1>1 DEF evdi_painter_disconnect, DisableCursor, Typed, Cursors
  <2>2. UNCHANGED <<userVars, fbs, fb_refs, thread, client_handles, planeVars>>
    BY <1>1 DEF evdi_painter_disconnect
  <2>3. CommitPlace' /\ ThreadPlaces'
    BY <2>2 DEF RefInv, CommitPlace, ThreadPlaces, planeVars
  <2> QED BY <2>1, <2>2, <2>3, CursorRefInv
<1>2. CASE ReleaseFile
  <2>1. /\ UNCHANGED <<userVars, fbs, fb_refs, thread, planeVars, cursor>>
        /\ client_handles' = {}
        /\ \A p \in Objects : gem'[p] = IF p \in client_handles
                                        THEN Put(gem[p]) ELSE gem[p]
    BY <1>2 DEF ReleaseFile
  <2>2. ASSUME NEW p \in Objects PROVE GemExact(p)' /\ FbExact(p)'
    <3>1. GemExact(p) /\ FbExact(p) /\ gem[p] \in Record
      BY ExactSplit DEF RefInv, Typed
    <3>2. gem'[p].refs = gem[p].refs - Count(p \in client_handles)
      BY <2>1, <3>1, PutFields DEF Count, Record
    <3>3. GemExact(p)'
      BY <2>1, <3>1, <3>2 DEF GemExact, Count, Record, userVars
    <3>4. FbExact(p)'
      BY <2>1, <3>1, FbExactKept DEF planeVars
    <3> QED BY <3>3, <3>4
  <2>3. ReferencesExact'
    BY <2>2 DEF ReferencesExact, GemExact, FbExact
  <2> QED BY <2>1, <2>3 DEF RefInv, CommitPlace, ThreadPlaces, planeVars
<1>3. CASE UNCHANGED <<gemVars, cursor, planeVars, client_handles>>
  BY <1>3 DEF RefInv, CommitPlace, ThreadPlaces, ReferencesExact, On,
              gemVars, userVars, planeVars
<1> QED BY <1>1, <1>2, <1>3 DEF ClientStep, OpenFile, evdi_painter_connect,
           evdi_painter_enable_cursor_events_ioctl, DisconnectFile,
           DisconnectEnd, evdi_driver_postclose

LEMMA StutterRefInv ==
  ASSUME RefInv, UNCHANGED vars
  PROVE  RefInv'
BY DEF RefInv, CommitPlace, ThreadPlaces, ReferencesExact, On, vars, gemVars,
       userVars, planeVars, clientVars

LEMMA NextRefInv == Typed /\ RefInv /\ [Next]_vars => RefInv'
BY NextCases, HandleRefInv, PinRefInv, FbRefInv, ReaderRefInv, MeasureRefInv,
   UpdateRefInv, ClientRefInv, StutterRefInv DEF Next

LEMMA RefInvAlways == Spec => []RefInv
BY InitRefInv, NextRefInv, TypedAlways, PTL DEF Spec

\* The references of every object and of every framebuffer are those of their
\* holders - drm_gem_object_get and put, drm_framebuffer_get and put - for any
\* number of objects and grabs, whoever maps or shares an object meanwhile.
THEOREM ReferencesAreExact == Spec => []ReferencesExact
<1>1. RefInv => ReferencesExact
  BY DEF RefInv
<1> QED BY <1>1, RefInvAlways, PTL


-----------------------------------------------------------------------------
(***************************************************************************)
(* Pins and pages.                                                         *)
(***************************************************************************)

\* Threads between the pin and the mapping of an object, and the measurement
\* that will unmap it.
AtMap(o) == {t \in On(o) : thread[t].pc = "map"}
Measuring(o) == Measured(o) /\ thread[Measure].pc = "use"

Attached(g) == evdi_drm_gem_object_use_import_attach(g)

\* Every pin that will be dropped is there, and pins keep the pages: one of the
\* mmap offset, one of the importer, and, unless the exporter maps the object,
\* one of its mapping and of each thread about to map it.  A measurement counts
\* as a mapping even if a failed map has overwritten vmapping.
ObjectPinned(o) ==
  LET g == gem[o]
  IN /\ g.pins > 0 => g.pages
     /\ g.areas >= Count(g.vmapping)
     /\ g.offset => g.import = "no"
     /\ o \in vmas => g.offset
     /\ o \in exports => g.import = "no"
     /\ g.pins >= Count(g.offset) + Count(o \in pinned)
                    + (IF Attached(g) THEN 0
                       ELSE Count(g.vmapping \/ Measuring(o))
                              + Cardinality(AtMap(o)))

PinInv == \A o \in Objects : ObjectPinned(o)

\* Nobody refers to an object that is not live.
Forgotten(o) ==
  /\ o \notin handles \cup vmas \cup exports \cup client_handles \cup pinned
  /\ fb_refs[o] = 0 /\ cursor.obj # o /\ On(o) = {}
DeadAreForgotten == \A o \in Objects : ~Live(o) => Forgotten(o)

LEMMA DeadForgotten == Typed /\ RefInv => DeadAreForgotten
<1> SUFFICES ASSUME Typed, RefInv, NEW o \in Objects, ~Live(o)
             PROVE  Forgotten(o)
  BY DEF DeadAreForgotten
<1>1. gem[o].refs = 0
  BY HoldersCount DEF Live
<1>2. /\ o \notin handles \cup vmas \cup exports \cup client_handles
      /\ fb_refs[o] = 0 /\ cursor.obj # o
  <2>1. /\ fb_refs[o] \in Nat
        /\ ~(o \in handles \/ o \in client_handles \/ o \in vmas
               \/ o \in exports \/ fb_refs[o] > 0 \/ cursor.obj = o)
    BY <1>1, HoldersCount
  <2> QED BY <2>1
<1>3. On(o) = {}
  BY <1>2, HoldersCount DEF On
<1> QED BY <1>2, <1>3 DEF Forgotten, Typed

LEMMA DeadForgottenNext == Typed' /\ RefInv' => DeadAreForgotten'
BY DeadForgotten, PTL

\* Objects of which only the number of references changes, and objects that
\* are freed.
Same(g, h) ==
  /\ g.refs > 0 => h.refs > 0
  /\ h.import = g.import /\ (h.pages <=> g.pages) /\ h.pins = g.pins
  /\ (h.vmapping <=> g.vmapping) /\ h.areas = g.areas
  /\ (h.offset <=> g.offset)
Emptied(g, h) ==
  /\ h.refs = 0 /\ h.import = "no" /\ ~h.pages /\ h.pins = 0 /\ ~h.vmapping
  /\ h.areas = g.areas - Count(g.vmapping) /\ ~h.offset
SameOrEmptied(g, h) == Same(g, h) \/ Emptied(g, h)

LEMMA GetSame == \A g \in Record : Same(g, Get(g))
BY GetFields DEF Same, Record

LEMMA PutSameOrEmptied == \A g \in Record : SameOrEmptied(g, Put(g))
BY PutFields DEF SameOrEmptied, Same, Emptied, Record

LEMMA CursorSetGemSame ==
  ASSUME Typed, NEW o, gem' = evdi_cursor_set_gem(o), NEW p \in Objects
  PROVE  SameOrEmptied(gem[p], gem'[p])
<1> DEFINE got == IF p = o THEN Get(gem[p]) ELSE gem[p]
<1>1. got \in Record /\ Same(gem[p], got)
  BY GetFields DEF Typed, Same, Record
<1>2. gem'[p] = IF p = cursor.obj THEN Put(got) ELSE got
  BY DEF evdi_cursor_set_gem
<1> HIDE DEF got
<1>3. SameOrEmptied(got, gem'[p])
  BY <1>1, <1>2, PutSameOrEmptied DEF SameOrEmptied, Same
<1> QED BY <1>1, <1>3 DEF SameOrEmptied, Same, Emptied, Count

\* The threads that keep an object pinned stay; a measurement goes on to read
\* what is mapped.
PinnersStay(o) ==
  /\ AtMap(o)' = AtMap(o)
  /\ Measuring(o)' => Measuring(o) \/ gem[o].vmapping

LEMMA AtMapFinite ==
  ASSUME NEW o
  PROVE  IsFiniteSet(AtMap(o)) /\ Cardinality(AtMap(o)) \in Nat
<1>1. AtMap(o) \subseteq On(o)
  BY DEF AtMap
<1> QED BY <1>1, OnFinite, FS_Subset, FS_CardinalityType

LEMMA AtMapFiniteNext ==
  \A o : IsFiniteSet(AtMap(o)') /\ Cardinality(AtMap(o)') \in Nat
<1>1. ASSUME NEW o
      PROVE  IsFiniteSet(AtMap(o)') /\ Cardinality(AtMap(o)') \in Nat
  <2>1. AtMap(o)' \subseteq Threads
    BY DEF AtMap, On
  <2> QED BY <2>1, ThreadsFinite, FS_Subset, FS_CardinalityType
<1> QED BY <1>1

\* One thread moves, but not to or from the mapping of an object.
LEMMA OneThreadMoves ==
  ASSUME NEW t \in Threads, \A u \in Threads \ {t} : thread'[u] = thread[u],
         thread[t].pc # "map", thread'[t].pc # "map",
         t = Measure /\ thread'[t].pc = "use" => gem[thread'[t].obj].vmapping
  PROVE  \A o : PinnersStay(o)
BY ThreadsApart DEF PinnersStay, AtMap, On, Measuring, Measured

LEMMA NoThreadMoves ==
  ASSUME UNCHANGED thread
  PROVE  \A o : PinnersStay(o)
BY DEF PinnersStay, AtMap, On, Measuring, Measured

\* What most steps do to an object.
LEMMA ObjectKept ==
  ASSUME Typed, Typed', DeadAreForgotten', NEW o \in Objects, ObjectPinned(o),
         SameOrEmptied(gem[o], gem'[o]), PinnersStay(o),
         o \in vmas' => o \in vmas \/ gem[o].offset,
         o \in exports' => o \in exports \/ gem[o].import = "no",
         o \in pinned' => o \in pinned
  PROVE  ObjectPinned(o)'
<1> DEFINE n == Cardinality(AtMap(o))
<1>1. n \in Nat /\ gem[o] \in Record /\ gem'[o] \in Record
  BY AtMapFinite DEF Typed
<1>2. CASE Same(gem[o], gem'[o])
  <2>1. Cardinality(AtMap(o)') = n
    BY DEF PinnersStay
  <2> HIDE DEF n
  <2>2. gem[o].pins >= Count(gem[o].offset) + Count(o \in pinned)
          + (IF Attached(gem[o]) THEN 0
             ELSE Count(gem[o].vmapping \/ Measuring(o)) + n)
    BY DEF ObjectPinned, n
  <2>3. gem'[o].pins >= Count(gem'[o].offset) + Count(o \in pinned')
          + (IF Attached(gem'[o]) THEN 0
             ELSE Count(gem'[o].vmapping \/ Measuring(o)') + n)
    BY <1>1, <1>2, <2>2 DEF Same, PinnersStay, Count, Record, Attached,
       evdi_drm_gem_object_use_import_attach
  <2> QED BY <1>1, <1>2, <2>1, <2>3 DEF ObjectPinned, Same, Count, Record
<1>3. CASE Emptied(gem[o], gem'[o])
  <2>1. o \notin vmas' /\ o \notin exports' /\ o \notin pinned' /\ On(o)' = {}
    BY <1>3 DEF Emptied, DeadAreForgotten, Forgotten, Live
  <2>2. AtMap(o)' = {} /\ ~Measuring(o)'
    BY <2>1, ThreadsApart DEF AtMap, Measuring, Measured, On
  <2>3. Cardinality(AtMap(o)') = 0
    BY <2>2, FS_EmptySet
  <2> QED BY <1>1, <1>3, <2>1, <2>2, <2>3 DEF ObjectPinned, Emptied, Count,
             Record
<1> QED BY <1>2, <1>3 DEF SameOrEmptied


LEMMA InitPinInv == Init => PinInv
<1> SUFFICES ASSUME Init, NEW o \in Objects PROVE ObjectPinned(o)
  BY DEF PinInv
<1>1. On(o) = {} /\ gem[o] = Freed /\ o \notin vmas \cup exports \cup pinned
  BY ObjectAssumption DEF Init, GemInit, On, Idle
<1>2. AtMap(o) = {} /\ ~Measuring(o)
  BY <1>1, ThreadsApart DEF AtMap, Measuring, Measured, On
<1>3. Cardinality(AtMap(o)) = 0
  BY <1>2, FS_EmptySet
<1> QED BY <1>1, <1>2, <1>3, FreedRecord DEF ObjectPinned, Count

LEMMA HandlePinInv ==
  ASSUME Typed, RefInv, PinInv, DeadAreForgotten', NEW o \in Objects,
         HandleStep(o), UNCHANGED cursorVars
  PROVE  PinInv'
<1>1. UNCHANGED <<fbs, fb_refs, thread, pinned>>
  BY DEF HandleStep, evdi_gem_create, evdi_prime_import_sg_table,
         CloseHandle, evdi_drm_gem_mmap, Munmap, Export, CloseExport
<1>2. Typed' /\ \A p : PinnersStay(p)
  BY <1>1, HandleTyped, NoThreadMoves
<1> SUFFICES ASSUME NEW p \in Objects PROVE ObjectPinned(p)'
  BY DEF PinInv
<1>3. ObjectPinned(p) /\ gem \in [Objects -> Record] /\ gem[p] \in Record
  BY DEF PinInv, Typed
<1>4. CASE p = o /\ (\/ evdi_gem_create(o)
                     \/ \E owner \in Imports :
                          evdi_prime_import_sg_table(o, owner))
  <2>1. Forgotten(o)
    BY <1>4, DeadForgotten
       DEF DeadAreForgotten, evdi_gem_create, evdi_prime_import_sg_table
  <2>2. o \notin vmas' \cup exports' \cup pinned' /\ On(o)' = {}
    BY <1>1, <1>4, <2>1
       DEF Forgotten, evdi_gem_create, evdi_prime_import_sg_table, On
  <2>3. AtMap(o)' = {} /\ ~Measuring(o)'
    BY <2>2, ThreadsApart DEF AtMap, Measuring, Measured, On
  <2>4. Cardinality(AtMap(o)') = 0
    BY <2>3, FS_EmptySet
  <2>5. /\ gem'[o].pins = 0 /\ gem'[o].areas = 0
        /\ ~gem'[o].vmapping /\ ~gem'[o].offset
    <3>1. CASE evdi_gem_create(o)
      BY <1>3, <3>1 DEF evdi_gem_create, Freed
    <3>2. CASE \E owner \in Imports : evdi_prime_import_sg_table(o, owner)
      BY <1>3, <3>2 DEF evdi_prime_import_sg_table, Freed
    <3> QED BY <1>4, <3>1, <3>2
  <2> QED BY <1>4, <2>2, <2>3, <2>4, <2>5 DEF ObjectPinned, Count
<1>5. CASE p # o \/ CloseHandle(o) \/ evdi_drm_gem_mmap(o) \/ Munmap(o)
             \/ Export(o) \/ CloseExport(o)
  <2>1. SameOrEmptied(gem[p], gem'[p])
    <3>1. CASE p # o
      <4>1. gem'[p] = gem[p]
        BY <1>3, <3>1 DEF HandleStep, evdi_gem_create,
           evdi_prime_import_sg_table, CloseHandle, evdi_drm_gem_mmap,
           Munmap, Export, CloseExport
      <4> QED BY <4>1 DEF SameOrEmptied, Same
    <3>2. CASE p = o /\ (CloseHandle(o) \/ Munmap(o) \/ CloseExport(o))
      BY <1>3, <3>2, PutSameOrEmptied DEF CloseHandle, Munmap, CloseExport
    <3>3. CASE p = o /\ (evdi_drm_gem_mmap(o) \/ Export(o))
      BY <1>3, <3>3, GetSame DEF evdi_drm_gem_mmap, Export, SameOrEmptied
    <3> QED BY <1>5, <3>1, <3>2, <3>3
  <2>2. /\ p \in vmas' => p \in vmas \/ gem[p].offset
        /\ p \in exports' => p \in exports \/ gem[p].import = "no"
    BY <1>5 DEF HandleStep, evdi_gem_create, evdi_prime_import_sg_table,
       CloseHandle, evdi_drm_gem_mmap, Munmap, Export, CloseExport
  <2> QED BY <1>1, <1>2, <1>3, <2>1, <2>2, ObjectKept
<1> QED BY <1>4, <1>5 DEF HandleStep

\* A pin comes with its user, and goes with it.
LEMMA PinPinInv ==
  ASSUME Typed, PinInv, NEW o \in Objects, PinStep(o), UNCHANGED cursorVars
  PROVE  PinInv'
<1>1. UNCHANGED <<vmas, exports, thread>>
  BY DEF PinStep, evdi_gem_mmap, evdi_prime_pin, evdi_prime_unpin, userVars
<1> SUFFICES ASSUME NEW p \in Objects PROVE ObjectPinned(p)'
  BY DEF PinInv
<1> DEFINE n == Cardinality(AtMap(p))
<1>2. /\ ObjectPinned(p) /\ gem \in [Objects -> Record] /\ gem[p] \in Record
      /\ n \in Nat /\ pinned \subseteq exports
  BY AtMapFinite DEF PinInv, Typed
<1>3. Cardinality(AtMap(p)') = n /\ Measuring(p)' = Measuring(p)
  BY <1>1 DEF AtMap, On, Measuring, Measured
<1> HIDE DEF n
<1>4. gem[p].pins >= Count(gem[p].offset) + Count(p \in pinned)
        + (IF Attached(gem[p]) THEN 0
           ELSE Count(gem[p].vmapping \/ Measuring(p)) + n)
  BY <1>2 DEF ObjectPinned, n
<1> DEFINE Covered(g, pin) ==
      g.pins >= Count(g.offset) + Count(pin)
        + (IF g.import = "other" THEN 0
           ELSE Count(g.vmapping \/ Measuring(p)) + n)
<1>5. Covered(gem'[p], p \in pinned') /\ (gem'[p].pins > 0 => gem'[p].pages)
        /\ gem'[p].areas >= Count(gem'[p].vmapping)
        /\ (gem'[p].offset => gem'[p].import = "no")
        /\ gem'[p].import = gem[p].import
        /\ (gem[p].offset => gem'[p].offset)
  <2> USE DEF Attached, evdi_drm_gem_object_use_import_attach
  <2>1. CASE p # o
    <3>1. gem'[p] = gem[p] /\ (p \in pinned' <=> p \in pinned)
      BY <1>2, <2>1 DEF PinStep, evdi_gem_mmap, evdi_prime_pin,
         evdi_prime_unpin, userVars
    <3> QED BY <1>2, <1>4, <3>1 DEF ObjectPinned, Count
  <2>2. CASE p = o /\ evdi_gem_mmap(o)
    <3> DEFINE q == evdi_pin_pages(gem[o])
    <3>1. /\ q \in Record /\ q.import = gem[p].import
          /\ (q.pages <=> (gem[p].pages \/ gem[p].pins = 0))
          /\ q.pins = gem[p].pins + 1 /\ (q.vmapping <=> gem[p].vmapping)
          /\ q.areas = gem[p].areas /\ (q.offset <=> gem[p].offset)
      BY <1>2, <2>2, PinFields
    <3>2. gem'[p] = (IF q.import = "no" THEN [q EXCEPT !.offset = TRUE] ELSE q)
            /\ pinned' = pinned
      BY <1>2, <2>2 DEF evdi_gem_mmap, userVars
    <3> HIDE DEF q
    <3>3. /\ gem'[p].import = q.import /\ (gem'[p].pages <=> q.pages)
          /\ gem'[p].pins = q.pins /\ (gem'[p].vmapping <=> q.vmapping)
          /\ gem'[p].areas = q.areas
          /\ gem'[p].offset <=> (q.offset \/ q.import = "no")
      BY <3>1, <3>2 DEF Record
    <3> QED BY <1>2, <1>4, <3>1, <3>2, <3>3
            DEF ObjectPinned, Count, Record
  <2>3. CASE p = o /\ evdi_prime_pin(o)
    <3>1. gem'[p] = evdi_pin_pages(gem[p]) /\ p \notin pinned /\ p \in pinned'
      BY <1>2, <2>3 DEF evdi_prime_pin
    <3> QED BY <1>2, <1>4, <3>1, PinFields DEF ObjectPinned, Count, Record
  <2>4. CASE p = o /\ evdi_prime_unpin(o)
    <3>1. gem'[p] = evdi_unpin_pages(gem[p]) /\ p \in pinned /\ p \notin pinned'
      BY <1>2, <2>4 DEF evdi_prime_unpin
    <3> QED BY <1>2, <1>4, <3>1, UnpinFields DEF ObjectPinned, Count, Record
  <2> QED BY <2>1, <2>2, <2>3, <2>4 DEF PinStep
<1> QED BY <1>1, <1>2, <1>3, <1>5 DEF ObjectPinned, Attached,
           evdi_drm_gem_object_use_import_attach


\* Steps that change no set of users, and pin or map nothing.
LEMMA QuietPinInv ==
  ASSUME Typed, Typed', PinInv, DeadAreForgotten',
         UNCHANGED <<vmas, exports, pinned>>,
         \A p \in Objects : SameOrEmptied(gem[p], gem'[p]) /\ PinnersStay(p)
  PROVE  PinInv'
<1> SUFFICES ASSUME NEW p \in Objects PROVE ObjectPinned(p)'
  BY DEF PinInv
<1> QED BY ObjectKept DEF PinInv

LEMMA UnchangedSame ==
  \A p : gem'[p] = gem[p] => SameOrEmptied(gem[p], gem'[p])
BY DEF SameOrEmptied, Same

LEMMA FbPutSame ==
  ASSUME Typed, NEW o \in Objects, FbPut(o)
  PROVE  \A p \in Objects : SameOrEmptied(gem[p], gem'[p])
<1> SUFFICES ASSUME NEW p \in Objects
             PROVE  SameOrEmptied(gem[p], gem'[p])
  OBVIOUS
<1>1. gem'[p] = gem[p] \/ gem'[p] = Put(gem[p])
  BY DEF FbPut, Typed
<1> QED BY <1>1, UnchangedSame, PutSameOrEmptied DEF Typed

LEMMA FbPinInv ==
  ASSUME Typed, PinInv, DeadAreForgotten', NEW o \in Objects, FbStep(o),
         UNCHANGED cursorVars
  PROVE  PinInv'
<1>1. UNCHANGED <<vmas, exports, pinned, thread>> /\ Typed'
  BY FbTyped DEF FbStep, evdi_fb_user_fb_create, RemoveFb, userVars
<1>2. \A p \in Objects : SameOrEmptied(gem[p], gem'[p])
  <2>1. CASE evdi_fb_user_fb_create(o)
    <3>1. \A p \in Objects : gem'[p] = gem[p] \/ gem'[p] = Get(gem[p])
      BY <2>1 DEF evdi_fb_user_fb_create, Typed
    <3> QED BY <3>1, UnchangedSame, GetSame DEF Typed, SameOrEmptied
  <2>2. CASE RemoveFb(o)
    BY <2>2, FbPutSame DEF RemoveFb
  <2> QED BY <2>1, <2>2 DEF FbStep
<1> QED BY <1>1, <1>2, NoThreadMoves, QuietPinInv

\* The pin of a thread that is about to map is there: it made it, or the
\* exporter maps the object.
LEMMA VmapPinPinInv ==
  ASSUME Typed, PinInv, NEW t \in Threads, VmapPin(t), UNCHANGED cursorVars
  PROVE  PinInv'
<1> DEFINE o == thread[t].obj
<1>1. /\ o \in Objects /\ thread[t].pc = "pin"
      /\ UNCHANGED <<vmas, exports, pinned>>
  BY DEF VmapPin, At, Typed, Places, userVars
<1> SUFFICES ASSUME NEW p \in Objects PROVE ObjectPinned(p)'
  BY DEF PinInv
<1> DEFINE n == Cardinality(AtMap(p))
<1>2. /\ ObjectPinned(p) /\ gem \in [Objects -> Record] /\ gem[p] \in Record
      /\ n \in Nat
  BY AtMapFinite DEF PinInv, Typed
<1>3. /\ thread'[t].pc = "map" /\ thread'[t].obj = o
      /\ \A u \in Threads \ {t} : thread'[u] = thread[u]
      /\ \/ UNCHANGED gem /\ Attached(gem[o])
         \/ gem' = [gem EXCEPT ![o] = evdi_pin_pages(@)]
  <2>1. Go(t, "map")
    BY DEF VmapPin
  <2> QED BY <2>1, GoPlaces DEF Steps, VmapPin, Attached
<1>4. Measuring(p)' <=> Measuring(p)
  BY <1>1, <1>3, ThreadsApart DEF Measuring, Measured
<1>5. t \notin AtMap(p)
  BY <1>1 DEF AtMap
<1>6. AtMap(p)' = IF p = o THEN AtMap(p) \cup {t} ELSE AtMap(p)
  BY <1>1, <1>3 DEF AtMap, On
<1>7. Cardinality(AtMap(p)') = n + Count(p = o)
  <2>1. CASE p = o
    <3>1. AtMap(p)' = AtMap(p) \cup {t}
      BY <1>6, <2>1
    <3> QED BY <1>5, <2>1, <3>1, AtMapFinite, FS_AddElement DEF Count
  <2>2. CASE p # o
    <3>1. AtMap(p)' = AtMap(p)
      BY <1>6, <2>2
    <3> QED BY <1>2, <2>2, <3>1 DEF Count
  <2> QED BY <2>1, <2>2
<1> HIDE DEF n, o
<1>8. gem[p].pins >= Count(gem[p].offset) + Count(p \in pinned)
        + (IF Attached(gem[p]) THEN 0
           ELSE Count(gem[p].vmapping \/ Measuring(p)) + n)
  BY <1>2 DEF ObjectPinned, n
<1>9. CASE UNCHANGED gem /\ Attached(gem[o])
  BY <1>1, <1>2, <1>4, <1>7, <1>8, <1>9 DEF ObjectPinned, Count
<1>10. CASE gem' = [gem EXCEPT ![o] = evdi_pin_pages(@)] /\ p = o
  <2>1. gem'[p] = evdi_pin_pages(gem[p])
    BY <1>2, <1>10
  <2>2. /\ gem'[p].import = gem[p].import
        /\ gem'[p].pages <=> (gem[p].pages \/ gem[p].pins = 0)
        /\ gem'[p].pins = gem[p].pins + 1
        /\ (gem'[p].vmapping <=> gem[p].vmapping)
        /\ gem'[p].areas = gem[p].areas
        /\ (gem'[p].offset <=> gem[p].offset)
    BY <1>2, <2>1, PinFields
  <2> QED BY <1>1, <1>2, <1>4, <1>7, <1>8, <1>10, <2>2
          DEF ObjectPinned, Count, Record, Attached,
              evdi_drm_gem_object_use_import_attach
<1>11. CASE gem' = [gem EXCEPT ![o] = evdi_pin_pages(@)] /\ p # o
  <2>1. gem'[p] = gem[p]
    BY <1>2, <1>11
  <2> QED BY <1>1, <1>2, <1>4, <1>7, <1>8, <1>11, <2>1
          DEF ObjectPinned, Count, Record
<1> QED BY <1>3, <1>9, <1>10, <1>11

\* What vmap and a vmap that fails do to an object.
SameBelow(g, h) ==
  /\ h.refs = g.refs /\ h.import = g.import /\ (h.pages <=> g.pages)
  /\ h.pins = g.pins /\ (h.offset <=> g.offset)
Mapped(g, h) == SameBelow(g, h) /\ h.vmapping /\ h.areas = g.areas + 1
Unmapped(g, h) ==
  /\ SameBelow(g, h) /\ h.areas = g.areas
  /\ h.vmapping <=> (g.vmapping /\ Attached(g))

LEMMA VmapMapFields ==
  ASSUME Typed, NEW t \in Threads, VmapMap(t) \/ VmapFails(t)
  PROVE  LET o == thread[t].obj IN
         /\ \/ Mapped(gem[o], gem'[o]) /\ (Go(t, "use") \/ Go(t, "recheck"))
            \/ Unmapped(gem[o], gem'[o]) /\ Go(t, "failed")
         /\ t = Measure => ~Go(t, "use")
         /\ \A p \in Objects \ {o} : gem'[p] = gem[p]
<1> DEFINE o == thread[t].obj
<1>1. /\ o \in Objects /\ gem[o] \in Record
      /\ gem \in [Objects -> Record]
  BY DEF VmapMap, VmapFails, At, Typed, Places
<1>2. \A p \in Objects \ {o} : gem'[p] = gem[p]
  BY <1>1 DEF VmapMap, VmapFails
<1>3. t = Measure => ~Go(t, "use")
  <2>1. \A pc \in Steps : Go(t, pc) => thread'[t].pc = pc
    BY GoPlaces
  <2>2. t = Measure => Go(t, "recheck") \/ Go(t, "failed")
    BY ThreadsApart DEF VmapMap, VmapFails
  <2> QED BY <2>1, <2>2 DEF Steps
<1>4. CASE VmapMap(t)
  <2>1. Mapped(gem[o], gem'[o])
    BY <1>1, <1>4 DEF VmapMap, Mapped, SameBelow, Record
  <2> QED BY <1>2, <1>3, <1>4, <2>1 DEF VmapMap
<1>5. CASE VmapFails(t)
  <2>1. PICK v \in BOOLEAN : v <=> (gem[o].vmapping /\ Attached(gem[o]))
    OBVIOUS
  <2>2. v = (gem[o].vmapping
               /\ evdi_drm_gem_object_use_import_attach(gem[o]))
    BY <1>1, <2>1 DEF Record, Attached
  <2>3. gem'[o] = [gem[o] EXCEPT !.vmapping = v]
    BY <1>1, <1>5, <2>2 DEF VmapFails
  <2>4. Unmapped(gem[o], gem'[o])
    BY <1>1, <2>1, <2>3 DEF Unmapped, SameBelow, Record
  <2> QED BY <1>2, <1>3, <1>5, <2>4 DEF VmapFails
<1> QED BY <1>4, <1>5

\* The pin of the thread is now the mapping's, or nobody's.
LEMMA VmapMapPinInv ==
  ASSUME Typed, PinInv, NEW t \in Threads, VmapMap(t) \/ VmapFails(t),
         UNCHANGED cursorVars
  PROVE  PinInv'
<1> DEFINE o == thread[t].obj
<1>1. /\ o \in Objects /\ thread[t].pc = "map"
      /\ UNCHANGED <<vmas, exports, pinned>>
  BY DEF VmapMap, VmapFails, At, Typed, Places, userVars
<1> SUFFICES ASSUME NEW p \in Objects PROVE ObjectPinned(p)'
  BY DEF PinInv
<1> DEFINE n == Cardinality(AtMap(p))
<1>2. /\ ObjectPinned(p) /\ gem \in [Objects -> Record] /\ gem[p] \in Record
      /\ n \in Nat
  BY AtMapFinite DEF PinInv, Typed
<1>3. PICK pc \in {"use", "recheck", "failed"} :
        /\ Go(t, pc)
        /\ pc = "failed" => Unmapped(gem[o], gem'[o])
        /\ pc # "failed" => Mapped(gem[o], gem'[o])
        /\ t = Measure => pc # "use"
  BY VmapMapFields
<1>4. /\ thread'[t].pc = pc /\ thread'[t].obj = o
      /\ \A u \in Threads \ {t} : thread'[u] = thread[u]
  BY <1>3, GoPlaces DEF Steps
<1>5. Measuring(p)' <=> Measuring(p)
  BY <1>1, <1>3, <1>4, ThreadsApart DEF Measuring, Measured
<1>6. p = o <=> t \in AtMap(p)
  BY <1>1 DEF AtMap, On
<1>7. AtMap(p)' = AtMap(p) \ {t}
  BY <1>1, <1>4 DEF AtMap, On
<1>8. Cardinality(AtMap(p)') = n - Count(p = o)
  <2>1. CASE p = o
    <3>1. t \in AtMap(p)
      BY <1>6, <2>1
    <3>2. Cardinality(AtMap(p) \ {t}) = n - 1
      BY <3>1, AtMapFinite, FS_RemoveElement
    <3> QED BY <1>7, <2>1, <3>2 DEF Count
  <2>2. CASE p # o
    <3>1. AtMap(p)' = AtMap(p)
      BY <1>6, <1>7, <2>2
    <3> QED BY <1>2, <2>2, <3>1 DEF Count
  <2> QED BY <2>1, <2>2
<1>9. gem[p].pins >= Count(gem[p].offset) + Count(p \in pinned)
        + (IF Attached(gem[p]) THEN 0
           ELSE Count(gem[p].vmapping \/ Measuring(p)) + n)
  BY <1>2 DEF ObjectPinned, n
<1>10. CASE p # o
  <2>1. gem'[p] = gem[p]
    BY <1>10, VmapMapFields
  <2> HIDE DEF n, o
  <2> QED BY <1>1, <1>2, <1>5, <1>8, <1>9, <1>10, <2>1
          DEF ObjectPinned, Count, Record
<1>11. CASE p = o
  <2>1. Mapped(gem[p], gem'[p]) \/ Unmapped(gem[p], gem'[p])
    BY <1>3, <1>11
  <2> HIDE DEF n, o
  <2> QED BY <1>1, <1>2, <1>5, <1>8, <1>9, <1>11, <2>1
          DEF ObjectPinned, Count, Record, Attached, Mapped, Unmapped, SameBelow,
              evdi_drm_gem_object_use_import_attach
<1> QED BY <1>10, <1>11

LEMMA ReaderPinInv ==
  ASSUME Typed, PinInv, DeadAreForgotten', NEW t \in Threads, ReaderStep(t),
         UNCHANGED cursorVars
  PROVE  PinInv'
<1>1. Typed'
  BY ReaderTyped
<1>2. CASE t # Measure /\ \E o \in Objects : TakeFb(t, o, "check")
  <2>1. /\ thread[t].pc = "idle" /\ thread'[t].pc = "check"
        /\ \A u \in Threads \ {t} : thread'[u] = thread[u]
        /\ UNCHANGED <<gem, vmas, exports, pinned>>
    BY <1>2 DEF TakeFb, Idle, Typed, userVars
  <2> QED BY <1>1, <2>1, OneThreadMoves, UnchangedSame, QuietPinInv
<1>3. CASE GrabEnd(t) \/ GiveUp(t)
  <2>1. /\ thread[t].obj \in Objects /\ thread[t].pc \in {"use", "failed"}
        /\ FbPut(thread[t].obj)
        /\ thread' = [thread EXCEPT ![t] = Idle]
        /\ UNCHANGED <<vmas, exports, pinned>>
    BY <1>3 DEF GrabEnd, GiveUp, At, Typed, Places, userVars
  <2>2. /\ thread'[t].pc = "idle"
        /\ \A u \in Threads \ {t} : thread'[u] = thread[u]
    BY <2>1 DEF Idle, Typed
  <2>3. \A p \in Objects : SameOrEmptied(gem[p], gem'[p])
    BY <2>1, FbPutSame
  <2>4. \A p : PinnersStay(p)
    BY <2>1, <2>2, OneThreadMoves
  <2> QED BY <1>1, <2>1, <2>3, <2>4, QuietPinInv
<1>4. CASE (t # Measure /\ CheckMapping(t)) \/ PinFails(t) \/ RecheckMapping(t)
  <2>1. /\ thread[t].pc # "map"
        /\ \E pc \in {"pin", "recheck", "use", "failed"} :
             /\ Go(t, pc)
             /\ t = Measure /\ pc = "use" => gem[thread[t].obj].vmapping
        /\ UNCHANGED <<gem, vmas, exports, pinned>>
    BY <1>4 DEF CheckMapping, PinFails, RecheckMapping, At, userVars
  <2>2. /\ thread'[t].pc # "map"
        /\ t = Measure /\ thread'[t].pc = "use" => gem[thread'[t].obj].vmapping
        /\ \A u \in Threads \ {t} : thread'[u] = thread[u]
    BY <2>1, GoPlaces DEF Steps
  <2>3. \A p : PinnersStay(p)
    BY <2>1, <2>2, OneThreadMoves
  <2> QED BY <1>1, <2>1, <2>3, UnchangedSame, QuietPinInv
<1>5. CASE VmapPin(t) \/ VmapMap(t) \/ VmapFails(t)
  BY <1>5, VmapPinPinInv, VmapMapPinInv
<1> QED BY <1>2, <1>3, <1>4, <1>5 DEF ReaderStep


\* The measurement unmaps what it, or a thread after it, mapped.
LEMMA MeasureEndFields ==
  ASSUME Typed, MeasureEnd
  PROVE  LET o == thread[Measure].obj
             g == evdi_gem_vunmap(gem[o])
         IN /\ o \in Objects /\ g \in Record
            /\ g.refs = gem[o].refs /\ g.import = gem[o].import
            /\ (g.offset <=> gem[o].offset) /\ ~g.vmapping
            /\ g.areas = gem[o].areas - Count(gem[o].vmapping)
            /\ IF gem[o].import = "other"
               THEN (g.pages <=> gem[o].pages) /\ g.pins = gem[o].pins
               ELSE /\ (g.pages <=> (gem[o].pages /\ gem[o].pins # 1))
                    /\ g.pins = gem[o].pins - 1
            /\ SameOrEmptied(g, gem'[o])
            /\ \A p \in Objects \ {o} : gem'[p] = gem[p]
<1> DEFINE o == thread[Measure].obj
           g == evdi_gem_vunmap(gem[o])
<1>1. /\ o \in Objects /\ gem[o] \in Record
      /\ gem \in [Objects -> Record]
  BY ThreadsApart DEF MeasureEnd, At, Typed, Places
<1>2. gem' = [gem EXCEPT ![o] = IF fb_refs[o] = 1 THEN Put(g) ELSE g]
  BY DEF MeasureEnd
<1>3. /\ g \in Record
      /\ g.refs = gem[o].refs /\ g.import = gem[o].import
      /\ (g.offset <=> gem[o].offset) /\ ~g.vmapping
      /\ g.areas = gem[o].areas - Count(gem[o].vmapping)
      /\ IF gem[o].import = "other"
         THEN (g.pages <=> gem[o].pages) /\ g.pins = gem[o].pins
         ELSE /\ (g.pages <=> (gem[o].pages /\ gem[o].pins # 1))
              /\ g.pins = gem[o].pins - 1
  BY <1>1, VunmapFields
<1> HIDE DEF g
<1>4. gem'[o] = g \/ gem'[o] = Put(g)
  BY <1>1, <1>2
<1>5. SameOrEmptied(g, gem'[o])
  BY <1>3, <1>4, PutSameOrEmptied DEF SameOrEmptied, Same
<1>6. \A p \in Objects \ {o} : gem'[p] = gem[p]
  BY <1>1, <1>2
<1> QED BY <1>1, <1>3, <1>5, <1>6 DEF g

LEMMA MeasurePinInv ==
  ASSUME Typed, PinInv, DeadAreForgotten', MeasureStep, UNCHANGED cursorVars
  PROVE  PinInv'
<1>1. Typed' /\ UNCHANGED <<vmas, exports, pinned>>
  BY MeasureTyped DEF MeasureStep, MeasureStart, MeasureEnd, TakeFb, userVars
<1>2. CASE \E o \in Objects : MeasureStart(o)
  <2>1. /\ thread[Measure].pc = "idle" /\ thread'[Measure].pc = "pin"
        /\ \A u \in Threads \ {Measure} : thread'[u] = thread[u]
        /\ UNCHANGED gem
    BY <1>2, ThreadsApart DEF MeasureStart, TakeFb, Idle, Typed
  <2> QED BY <1>1, <2>1, OneThreadMoves, UnchangedSame, QuietPinInv,
             ThreadsApart
<1>3. CASE MeasureEnd
  <2>0. PICK o \in Objects : o = thread[Measure].obj
    BY <1>3, MeasureEndFields
  <2>1. PICK g :
          /\ o \in Objects /\ g \in Record
          /\ g.refs = gem[o].refs /\ g.import = gem[o].import
          /\ (g.offset <=> gem[o].offset) /\ ~g.vmapping
          /\ g.areas = gem[o].areas - Count(gem[o].vmapping)
          /\ IF gem[o].import = "other"
             THEN (g.pages <=> gem[o].pages) /\ g.pins = gem[o].pins
             ELSE /\ (g.pages <=> (gem[o].pages /\ gem[o].pins # 1))
                  /\ g.pins = gem[o].pins - 1
          /\ SameOrEmptied(g, gem'[o])
          /\ \A p \in Objects \ {o} : gem'[p] = gem[p]
    BY <1>3, <2>0, MeasureEndFields
  <2>2. /\ Measuring(o) /\ thread[Measure].pc = "use"
        /\ thread'[Measure] = Idle
        /\ \A u \in Threads \ {Measure} : thread'[u] = thread[u]
    BY <1>3, <2>0, ThreadsApart
       DEF MeasureEnd, At, Measuring, Measured, Typed
  <2>3. \A p : PinnersStay(p)
    BY <2>2, OneThreadMoves, ThreadsApart DEF Idle
  <2>4. ~Measuring(o)'
    BY <2>2, ObjectAssumption DEF Measuring, Measured, Idle
  <2> SUFFICES ASSUME NEW p \in Objects PROVE ObjectPinned(p)'
    BY DEF PinInv
  <2>5. ObjectPinned(p) /\ gem[p] \in Record /\ gem'[p] \in Record
    BY <1>1 DEF PinInv, Typed
  <2>6. CASE p # o
    <3>1. gem'[p] = gem[p]
      BY <2>1, <2>6
    <3> QED BY <1>1, <2>3, <2>5, <3>1, UnchangedSame, ObjectKept
  <2> DEFINE n == Cardinality(AtMap(p))
  <2>7. n \in Nat /\ Cardinality(AtMap(p)') = n
    BY <2>3, AtMapFinite DEF PinnersStay
  <2> HIDE DEF n
  <2>8. CASE p = o /\ Same(g, gem'[o])
    <3>1. gem[p].pins >= Count(gem[p].offset) + Count(p \in pinned)
            + (IF Attached(gem[p]) THEN 0
               ELSE Count(gem[p].vmapping \/ Measuring(p)) + n)
      BY <2>5 DEF ObjectPinned, n
    <3> QED BY <1>1, <2>1, <2>2, <2>4, <2>5, <2>7, <2>8, <3>1
            DEF ObjectPinned, Same, Count, Record, Attached,
                evdi_drm_gem_object_use_import_attach
  <2>9. CASE p = o /\ Emptied(g, gem'[o])
    <3>1. o \notin vmas' /\ o \notin exports' /\ o \notin pinned' /\ On(o)' = {}
      BY <2>1, <2>9 DEF Emptied, DeadAreForgotten, Forgotten, Live
    <3>2. AtMap(o)' = {}
      BY <3>1 DEF AtMap
    <3>3. Cardinality(AtMap(o)') = 0
      BY <3>2, FS_EmptySet
    <3> QED BY <2>1, <2>4, <2>5, <2>9, <3>1, <3>3
            DEF ObjectPinned, Emptied, Count, Record
  <2> QED BY <2>1, <2>6, <2>8, <2>9 DEF SameOrEmptied
<1> QED BY <1>2, <1>3 DEF MeasureStep

LEMMA UpdatePinInv ==
  ASSUME Typed, RefInv, PinInv, DeadAreForgotten', UpdateStep
  PROVE  PinInv'
<1> USE ThreadsApart
<1>1. Typed' /\ UNCHANGED <<vmas, exports, pinned>>
  BY UpdateTyped DEF UpdateStep, evdi_cursor_atomic_update, evdi_cursor_set,
     evdi_cursor_enable, ChooseEvents, evdi_painter_send_cursor_set,
     CommitEnd, userVars
<1>2. \A p : PinnersStay(p)
  <2>1. /\ thread[Commit].pc # "map" /\ thread'[Commit].pc # "map"
        /\ \A u \in Threads \ {Commit} : thread'[u] = thread[u]
    <3>1. CASE \E o \in Objects \cup {NoObject} : evdi_cursor_atomic_update(o)
      BY <3>1 DEF evdi_cursor_atomic_update, Idle, Typed
    <3>2. CASE CommitEnd
      BY <3>2 DEF CommitEnd, Idle, Typed
    <3>3. CASE evdi_cursor_set \/ evdi_cursor_enable \/ ChooseEvents
                 \/ evdi_painter_send_cursor_set
      <4>1. /\ \E pc \in {"enable", "events", "send_set", "oops", "put"} :
                 Go(Commit, pc)
            /\ thread[Commit].pc # "map"
        BY <3>3 DEF evdi_cursor_set, evdi_cursor_enable, ChooseEvents,
           evdi_painter_send_cursor_set
      <4> QED BY <4>1, GoPlaces DEF Steps
    <3> QED BY <3>1, <3>2, <3>3 DEF UpdateStep
  <2> QED BY <2>1, OneThreadMoves
<1>3. \A p \in Objects : SameOrEmptied(gem[p], gem'[p])
  <2>1. CASE UNCHANGED gem
    BY <2>1, UnchangedSame
  <2>2. CASE \E o : gem' = evdi_cursor_set_gem(o)
    BY <2>2, CursorSetGemSame
  <2>3. CASE gem' = [gem EXCEPT ![cursor.obj] = Get(@)]
    <3>1. \A p \in Objects : gem'[p] = gem[p] \/ gem'[p] = Get(gem[p])
      BY <2>3 DEF Typed
    <3> QED BY <3>1, UnchangedSame, GetSame DEF Typed, SameOrEmptied
  <2>4. CASE old_plane # NoObject /\ FbPut(old_plane)
    BY <2>4, FbPutSame DEF Typed
  <2> QED BY <2>1, <2>2, <2>3, <2>4 DEF UpdateStep, evdi_cursor_atomic_update,
     evdi_cursor_set, evdi_cursor_enable, DisableCursor, ChooseEvents,
     evdi_painter_send_cursor_set, CommitEnd
<1> QED BY <1>1, <1>2, <1>3, QuietPinInv

LEMMA ClientPinInv ==
  ASSUME Typed, PinInv, DeadAreForgotten', ClientStep
  PROVE  PinInv'
<1>1. Typed' /\ UNCHANGED <<vmas, exports, pinned, thread>>
  BY ClientTyped DEF ClientStep, evdi_painter_disconnect, ReleaseFile,
     OpenFile, evdi_painter_connect, evdi_painter_enable_cursor_events_ioctl,
     DisconnectFile, DisconnectEnd, evdi_driver_postclose, userVars, gemVars
<1>2. \A p \in Objects : SameOrEmptied(gem[p], gem'[p])
  <2>1. CASE UNCHANGED gem
    BY <2>1, UnchangedSame
  <2>2. CASE \E o : gem' = evdi_cursor_set_gem(o)
    BY <2>2, CursorSetGemSame
  <2>3. CASE ReleaseFile
    <3>1. \A p \in Objects : gem'[p] = gem[p] \/ gem'[p] = Put(gem[p])
      BY <2>3 DEF ReleaseFile
    <3> QED BY <3>1, UnchangedSame, PutSameOrEmptied DEF Typed
  <2> QED BY <2>1, <2>2, <2>3 DEF ClientStep, evdi_painter_disconnect,
     DisableCursor, OpenFile, evdi_painter_connect,
     evdi_painter_enable_cursor_events_ioctl, DisconnectFile, DisconnectEnd,
     evdi_driver_postclose, gemVars
<1> QED BY <1>1, <1>2, NoThreadMoves, QuietPinInv

LEMMA StutterPinInv ==
  ASSUME PinInv, UNCHANGED vars
  PROVE  PinInv'
BY DEF PinInv, ObjectPinned, Measuring, Measured, AtMap, On, vars, gemVars,
       userVars

LEMMA NextPinInv ==
  Typed /\ RefInv /\ PinInv /\ Typed' /\ RefInv' /\ [Next]_vars => PinInv'
BY NextCases, DeadForgottenNext, HandlePinInv, PinPinInv, FbPinInv,
   ReaderPinInv, MeasurePinInv, UpdatePinInv, ClientPinInv, StutterPinInv
   DEF Next

LEMMA PinInvAlways == Spec => []PinInv
BY InitPinInv, NextPinInv, TypedAlways, RefInvAlways, PTL DEF Spec


\* Every variable has its type; in particular no count of references, pins or
\* kernel mappings falls below zero, whoever lets go first.
THEOREM Types == Spec => []TypeOK
<1>1. Typed /\ RefInv /\ PinInv /\ overlapped \subseteq Objects => TypeOK
  <2> SUFFICES ASSUME Typed, RefInv, PinInv, overlapped \subseteq Objects
               PROVE  TypeOK
    OBVIOUS
  <2>1. ASSUME NEW o \in Objects PROVE gem[o] \in GemRecord
    <3>1. /\ gem[o] \in Record /\ gem[o].refs \in Nat
          /\ Cardinality(AtMap(o)) \in Nat
      BY <2>1, HoldersCount, AtMapFinite
    <3>2. gem[o].pins \in Nat /\ gem[o].areas \in Nat
      BY <2>1, <3>1 DEF PinInv, ObjectPinned, Count, Record
    <3> QED BY <3>1, <3>2 DEF Record, GemRecord
  <2>2. \A o \in Objects : fb_refs[o] \in Nat
    BY HoldersCount
  <2>3. gem \in [Objects -> GemRecord] /\ fb_refs \in [Objects -> Nat]
    BY <2>1, <2>2 DEF Typed
  <2> QED BY <2>3 DEF Typed, TypeOK, GemTypeOK, Places
<1>2. Init => overlapped \subseteq Objects
  BY DEF Init
<1>3. overlapped \subseteq Objects /\ [Next]_vars => (overlapped \subseteq Objects)'
  BY DEF Next, Remember, vars
<1> QED BY <1>1, <1>2, <1>3, TypedAlways, RefInvAlways, PinInvAlways, PTL
        DEF Spec

\* A fault in a mapped object finds its page, an importer gets its scatter
\* list, and no mapping outlives the pages under it, for any number of
\* objects, grabs and pins, and in whatever order evdi_pin_pages and
\* evdi_unpin_pages are called.
THEOREM PagesAreThere == Spec => []PagesWhileNeeded
<1>1. Typed /\ RefInv /\ PinInv => PagesWhileNeeded
  <2> SUFFICES ASSUME Typed, PinInv, NEW o \in Objects
               PROVE  /\ o \in vmas => gem[o].pages
                      /\ o \in pinned => gem[o].pages
                      /\ gem[o].vmapping /\ ~Attached(gem[o]) => gem[o].pages
    BY DEF PagesWhileNeeded, evdi_gem_fault, evdi_prime_get_sg_table, Attached
  <2>1. /\ ObjectPinned(o) /\ gem[o] \in Record
        /\ Cardinality(AtMap(o)) \in Nat /\ (o \in pinned => o \in exports)
    BY AtMapFinite DEF Typed, PinInv
  <2>2. gem[o].pins \in Int
    BY <2>1 DEF Record
  <2> QED BY <2>1, <2>2 DEF ObjectPinned, Count
<1> QED BY <1>1, TypedAlways, RefInvAlways, PinInvAlways, PTL

-----------------------------------------------------------------------------
(***************************************************************************)
(* Mappings of the objects whose uses have not overlapped.                 *)
(***************************************************************************)

\* An object has one kernel mapping at most, vmapping knows it, and those that
\* read it have it; the cursor's object is not one that is measured.
ObjectAlone(o) ==
  /\ gem[o].areas = Count(gem[o].vmapping)
  /\ ~Live(o) => ~gem[o].vmapping
  /\ \A t \in On(o) : thread[t].pc = "use" => gem[o].vmapping
  /\ cursor.obj = o => gem[o].vmapping /\ ~Measured(o)

\* It is so until uses of the object overlap.
AloneInv ==
  \A o \in Objects : o \in overlapped \/ (ObjectAlone(o) /\ ~Overlapping(o))

\* Nobody has looked at the object since it was allocated.
Fresh(o) ==
  /\ gem[o].areas = 0 /\ ~gem[o].vmapping
  /\ cursor.obj # o /\ On(o) = {}

LEMMA FreshAlone ==
  ASSUME NEW o \in Objects, Fresh(o)
  PROVE  ObjectAlone(o) /\ ~Overlapping(o)
<1>1. Mapping(o) = {} /\ ~Measured(o)
  BY ThreadsApart DEF Fresh, Mapping, Measured, On
<1> QED BY <1>1 DEF Fresh, ObjectAlone, Overlapping, Count

LEMMA FreshAloneNext ==
  ASSUME NEW o \in Objects, Fresh(o)'
  PROVE  ObjectAlone(o)'
BY DEF Fresh, ObjectAlone, Count

LEMMA InitAloneInv == Init => AloneInv
<1> SUFFICES ASSUME Init, NEW o \in Objects PROVE Fresh(o)
  BY FreshAlone DEF AloneInv
<1>1. On(o) = {} /\ gem[o] = Freed /\ cursor.obj # o
  BY ObjectAssumption DEF Init, GemInit, On, Idle
<1> QED BY <1>1, FreedRecord DEF Fresh

\* Who reads an object was reading it, and who measures it was measuring it.
ThreadsSettle(o) ==
  /\ Measured(o)' => Measured(o)
  /\ \A t \in Threads : thread'[t].obj = o /\ thread'[t].pc = "use" =>
       thread'[t] = thread[t]

LEMMA AloneKept ==
  ASSUME Typed, Typed', DeadAreForgotten', NEW o \in Objects, ObjectAlone(o),
         SameOrEmptied(gem[o], gem'[o]), ThreadsSettle(o),
         cursor'.obj = o => \/ cursor.obj = o
                            \/ gem[o].vmapping /\ ~Measured(o)
  PROVE  ObjectAlone(o)'
<1>1. gem[o] \in Record /\ gem'[o] \in Record
  BY DEF Typed
<1>2. CASE Same(gem[o], gem'[o])
  <2>1. /\ (gem'[o].vmapping <=> gem[o].vmapping)
        /\ gem'[o].areas = gem[o].areas
        /\ ~Live(o)' => ~Live(o)
    BY <1>2 DEF Same, Live
  <2>2. \A t \in On(o)' : thread'[t].pc = "use" => gem'[o].vmapping
    BY <2>1 DEF ObjectAlone, On, ThreadsSettle
  <2>3. cursor'.obj = o => gem'[o].vmapping /\ ~Measured(o)'
    BY <2>1 DEF ObjectAlone, ThreadsSettle
  <2> QED BY <2>1, <2>2, <2>3 DEF ObjectAlone, Count
<1>3. CASE Emptied(gem[o], gem'[o])
  <2>1. On(o)' = {} /\ cursor'.obj # o
    BY <1>3 DEF Emptied, DeadAreForgotten, Forgotten, Live
  <2> QED BY <1>1, <1>3, <2>1 DEF ObjectAlone, Emptied, Count, Record
<1> QED BY <1>2, <1>3 DEF SameOrEmptied

LEMMA NobodyMoves ==
  ASSUME UNCHANGED thread
  PROVE  \A o : ThreadsSettle(o)
BY DEF ThreadsSettle, Measured

\* Allocating an object and importing one.
NewObject(o) ==
  \/ evdi_gem_create(o)
  \/ \E owner \in Imports : evdi_prime_import_sg_table(o, owner)

LEMMA NewIsFresh ==
  ASSUME Typed, RefInv, NEW o \in Objects, NewObject(o), UNCHANGED cursorVars
  PROVE  Fresh(o)'
<1>1. gem \in [Objects -> Record]
  BY DEF Typed
<1>2. Forgotten(o)
  BY DeadForgotten DEF NewObject, DeadAreForgotten, evdi_gem_create,
     evdi_prime_import_sg_table
<1>3. On(o)' = {} /\ cursor'.obj # o
  BY <1>2 DEF NewObject, Forgotten, On, cursorVars, evdi_gem_create,
     evdi_prime_import_sg_table
<1>4. gem'[o].areas = 0 /\ ~gem'[o].vmapping
  <2>1. CASE evdi_gem_create(o)
    BY <1>1, <2>1 DEF evdi_gem_create, Freed
  <2>2. CASE \E owner \in Imports : evdi_prime_import_sg_table(o, owner)
    BY <1>1, <2>2 DEF evdi_prime_import_sg_table, Freed
  <2> QED BY <2>1, <2>2 DEF NewObject
<1> QED BY <1>3, <1>4 DEF Fresh

LEMMA HandleSame ==
  ASSUME Typed, NEW o \in Objects, HandleStep(o), NEW p \in Objects,
         ~(p = o /\ NewObject(o))
  PROVE  SameOrEmptied(gem[p], gem'[p])
<1>1. gem \in [Objects -> Record] /\ gem[p] \in Record
  BY DEF Typed
<1>2. gem'[p] = gem[p] \/ gem'[p] = Get(gem[p]) \/ gem'[p] = Put(gem[p])
  BY <1>1 DEF HandleStep, NewObject, evdi_gem_create,
     evdi_prime_import_sg_table, CloseHandle, evdi_drm_gem_mmap, Munmap,
     Export, CloseExport
<1> QED BY <1>1, <1>2, UnchangedSame, GetSame, PutSameOrEmptied
        DEF SameOrEmptied

LEMMA HandleAlone ==
  ASSUME Typed, RefInv, DeadAreForgotten', NEW o \in Objects,
         HandleStep(o) \/ PinStep(o) \/ FbStep(o), UNCHANGED cursorVars,
         NEW p \in Objects, ObjectAlone(p)
  PROVE  ObjectAlone(p)'
<1>1. UNCHANGED <<thread, cursor>> /\ Typed'
  BY HandleTyped, PinTyped, FbTyped DEF HandleStep, evdi_gem_create,
     evdi_prime_import_sg_table, CloseHandle, evdi_drm_gem_mmap, Munmap,
     Export, CloseExport, PinStep, evdi_gem_mmap, evdi_prime_pin,
     evdi_prime_unpin, FbStep, evdi_fb_user_fb_create, RemoveFb, cursorVars
<1>2. gem \in [Objects -> Record] /\ gem[p] \in Record
  BY DEF Typed
<1>3. CASE SameOrEmptied(gem[p], gem'[p])
  BY <1>1, <1>3, NobodyMoves, AloneKept
<1>4. CASE HandleStep(o)
  BY <1>3, <1>4, HandleSame, NewIsFresh, FreshAloneNext
<1>5. CASE FbStep(o)
  <2>1. gem'[p] = gem[p] \/ gem'[p] = Get(gem[p]) \/ gem'[p] = Put(gem[p])
    BY <1>2, <1>5 DEF FbStep, evdi_fb_user_fb_create, RemoveFb, FbPut
  <2> QED BY <1>2, <1>3, <2>1, UnchangedSame, GetSame, PutSameOrEmptied
          DEF SameOrEmptied
<1>6. CASE PinStep(o)
  <2>1. /\ (gem'[p].vmapping <=> gem[p].vmapping)
        /\ gem'[p].areas = gem[p].areas /\ gem'[p].refs = gem[p].refs
    <3>1. PICK q \in Record :
            /\ q = evdi_pin_pages(gem[p]) /\ q.refs = gem[p].refs
            /\ (q.vmapping <=> gem[p].vmapping) /\ q.areas = gem[p].areas
      BY <1>2, PinFields
    <3>2. \/ gem'[p] = gem[p]
          \/ gem'[p] = q \/ gem'[p] = [q EXCEPT !.offset = TRUE]
          \/ gem'[p] = evdi_unpin_pages(gem[p])
      BY <1>2, <1>6, <3>1
         DEF PinStep, evdi_gem_mmap, evdi_prime_pin, evdi_prime_unpin
    <3>3. CASE gem'[p] = [q EXCEPT !.offset = TRUE]
      BY <3>1, <3>3 DEF Record
    <3> QED BY <1>2, <3>1, <3>2, <3>3, UnpinFields
  <2> QED BY <1>1, <2>1 DEF ObjectAlone, Count, On, Measured, Live
<1> QED BY <1>4, <1>5, <1>6

\* Threads map an object that is not mapped, and one at a time; what they read
\* is mapped.
LEMMA MapAlone ==
  ASSUME Typed, RefInv, NEW t \in Threads, MapMove(t), UNCHANGED cursorVars,
         NEW p \in Objects, ObjectAlone(p), ~Overlapping(p)
  PROVE  ObjectAlone(p)'
<1>1. PICK o \in Objects : o = thread[t].obj
  BY DEF MapMove, CheckMapping, VmapPin, PinFails, VmapMap, VmapFails,
         RecheckMapping, At, Typed, Places
<1>2. /\ thread'[t].obj = o
      /\ \A u \in Threads \ {t} : thread'[u] = thread[u]
  <2>1. \E pc \in Steps : Go(t, pc)
    BY MapRefs DEF Steps
  <2> QED BY <1>1, <2>1, GoPlaces
<1>3. On(p)' = On(p) /\ (Measured(p)' <=> Measured(p))
  BY <1>1, <1>2, ThreadsApart DEF On, Measured
<1>4. \A u \in On(p) : u # t => thread'[u] = thread[u]
  BY <1>2 DEF On
<1>5. gem[p] \in Record /\ UNCHANGED cursor
  BY DEF Typed, cursorVars
<1>6. CASE /\ (gem'[p].vmapping <=> gem[p].vmapping)
           /\ gem'[p].areas = gem[p].areas /\ gem'[p].refs = gem[p].refs
           /\ t \in On(p) /\ thread'[t].pc = "use" => gem[p].vmapping
  BY <1>3, <1>4, <1>5, <1>6 DEF ObjectAlone, Live, Count
<1>7. CASE CheckMapping(t) \/ PinFails(t) \/ RecheckMapping(t)
  <2>1. /\ UNCHANGED gem
        /\ \E pc \in {"pin", "recheck", "use", "failed"} :
             Go(t, pc) /\ (pc = "use" => gem[o].vmapping)
    BY <1>1, <1>7 DEF CheckMapping, PinFails, RecheckMapping
  <2>2. thread'[t].pc = "use" => gem[o].vmapping
    BY <2>1, GoPlaces DEF Steps
  <2> QED BY <1>1, <1>6, <2>1, <2>2 DEF On
<1>8. CASE VmapPin(t)
  <2>1. gem'[p] = gem[p] \/ gem'[p] = evdi_pin_pages(gem[p])
    BY <1>1, <1>8 DEF VmapPin, Typed
  <2>2. Go(t, "map")
    BY <1>8 DEF VmapPin
  <2>3. thread'[t].pc = "map"
    BY <2>2, GoPlaces DEF Steps
  <2> QED BY <1>5, <1>6, <2>1, <2>3, PinFields
<1>9. CASE VmapMap(t) \/ VmapFails(t)
  <2>1. thread[t].pc = "map"
    BY <1>9 DEF VmapMap, VmapFails, At
  <2>2. /\ \/ Mapped(gem[o], gem'[o])
           \/ /\ Unmapped(gem[o], gem'[o])
              /\ Go(t, "failed")
        /\ \A q \in Objects \ {o} : gem'[q] = gem[q]
    BY <1>1, <1>9, VmapMapFields
  <2>3. CASE p # o
    BY <1>1, <1>6, <2>2, <2>3 DEF On
  <2>4. CASE p = o
    <3>1. ~gem[p].vmapping /\ gem[p].areas = 0 /\ cursor.obj # p
      BY <1>1, <2>1, <2>4 DEF Overlapping, Mapping, On, ObjectAlone, Count
    <3>2. \A u \in On(p) : thread[u].pc # "use"
      BY <3>1 DEF ObjectAlone
    <3>3. Live(p)
      BY <1>1, <2>4, HoldersCount DEF Live
    <3>4. CASE Mapped(gem[p], gem'[p])
      <4>1. gem'[p].vmapping /\ gem'[p].areas = 1 /\ Live(p)'
        BY <3>1, <3>3, <3>4 DEF Mapped, SameBelow, Live
      <4> QED BY <1>5, <3>1, <4>1 DEF ObjectAlone, Count
    <3>5. CASE Unmapped(gem[p], gem'[p]) /\ Go(t, "failed")
      <4>1. thread'[t].pc = "failed"
        BY <3>5, GoPlaces DEF Steps
      <4>2. ~gem'[p].vmapping /\ gem'[p].areas = 0
        BY <3>1, <3>5 DEF Unmapped
      <4>3. \A u \in On(p)' : thread'[u].pc # "use"
        BY <1>3, <1>4, <3>2, <4>1
      <4> QED BY <1>5, <3>1, <4>2, <4>3 DEF ObjectAlone, Count
    <3> QED BY <2>2, <2>4, <3>4, <3>5
  <2> QED BY <2>3, <2>4
<1> QED BY <1>7, <1>8, <1>9 DEF MapMove

LEMMA ReaderAlone ==
  ASSUME Typed, RefInv, DeadAreForgotten', NEW t \in Threads, ReaderStep(t),
         UNCHANGED cursorVars,
         NEW p \in Objects, ObjectAlone(p), ~Overlapping(p)
  PROVE  ObjectAlone(p)'
<1>1. Typed' /\ UNCHANGED cursor
  BY ReaderTyped DEF cursorVars
<1>2. CASE t # Measure /\ \E o \in Objects : TakeFb(t, o, "check")
  <2>1. /\ thread'[t].pc = "check"
        /\ \A u \in Threads \ {t} : thread'[u] = thread[u]
        /\ UNCHANGED gem
    BY <1>2 DEF TakeFb, Typed
  <2>2. ThreadsSettle(p)
    BY <1>2, <2>1, ThreadsApart DEF ThreadsSettle, Measured
  <2> QED BY <1>1, <2>1, <2>2, UnchangedSame, AloneKept
<1>3. CASE GrabEnd(t) \/ GiveUp(t)
  <2>1. /\ thread[t].obj \in Objects /\ FbPut(thread[t].obj)
        /\ thread' = [thread EXCEPT ![t] = Idle]
    BY <1>3 DEF GrabEnd, GiveUp, At, Typed, Places
  <2>2. /\ thread'[t].obj = NoObject
        /\ \A u \in Threads \ {t} : thread'[u] = thread[u]
    BY <2>1 DEF Idle, Typed
  <2>3. SameOrEmptied(gem[p], gem'[p])
    BY <2>1, FbPutSame
  <2>4. ThreadsSettle(p)
    BY <2>2, ObjectAssumption, ThreadsApart DEF ThreadsSettle, Measured
  <2> QED BY <1>1, <2>3, <2>4, AloneKept
<1>4. CASE MapMove(t)
  BY <1>4, MapAlone
<1> QED BY <1>2, <1>3, <1>4 DEF ReaderStep, MapMove

\* The measurement of an object that nobody else uses unmaps what it mapped.
LEMMA MeasureAlone ==
  ASSUME Typed, RefInv, DeadAreForgotten', MeasureStep, UNCHANGED cursorVars,
         NEW p \in Objects, ObjectAlone(p), ~Overlapping(p), ~Overlapping(p)'
  PROVE  ObjectAlone(p)'
<1>1. Typed' /\ UNCHANGED cursor
  BY MeasureTyped DEF cursorVars
<1>2. gem[p] \in Record /\ gem'[p] \in Record
  BY <1>1 DEF Typed
<1>3. CASE \E o \in Objects : MeasureStart(o)
  <2>1. PICK o \in Objects : MeasureStart(o)
    BY <1>3
  <2>2. /\ UNCHANGED gem
        /\ thread'[Measure].pc = "pin" /\ thread'[Measure].obj = o
        /\ \A u \in Threads \ {Measure} : thread'[u] = thread[u]
    BY <2>1, ThreadsApart DEF MeasureStart, TakeFb, Typed
  <2>3. CASE p # o
    <3>1. ThreadsSettle(p)
      BY <2>2, <2>3 DEF ThreadsSettle, Measured
    <3> QED BY <1>1, <2>2, <3>1, UnchangedSame, AloneKept
  <2>4. CASE p = o
    <3>1. Measure \in Mapping(p)'
      BY <2>2, <2>4, ThreadsApart DEF Mapping, On
    <3>2. ~gem[p].vmapping /\ cursor.obj # p
      BY <2>2, <3>1 DEF Overlapping, ObjectAlone
    <3>3. \A t \in On(p)' : thread'[t].pc # "use"
      BY <2>2, <3>2 DEF On, ObjectAlone
    <3> QED BY <1>1, <2>2, <3>2, <3>3 DEF ObjectAlone, Live, Count
  <2> QED BY <2>3, <2>4
<1>4. CASE MeasureEnd
  <2>1. PICK o \in Objects : o = thread[Measure].obj
    BY <1>4, MeasureEndFields
  <2>2. PICK g \in Record :
          /\ g.refs = gem[o].refs /\ ~g.vmapping
          /\ g.areas = gem[o].areas - Count(gem[o].vmapping)
          /\ SameOrEmptied(g, gem'[o])
          /\ \A q \in Objects \ {o} : gem'[q] = gem[q]
    BY <1>4, <2>1, MeasureEndFields
  <2>3. /\ Measured(o) /\ thread'[Measure].obj = NoObject
        /\ \A u \in Threads \ {Measure} : thread'[u] = thread[u]
    BY <1>4, <2>1, ThreadsApart DEF MeasureEnd, Measured, Typed, Idle
  <2>4. CASE p # o
    <3>1. ThreadsSettle(p) /\ gem'[p] = gem[p]
      BY <2>2, <2>3, <2>4, ObjectAssumption DEF ThreadsSettle, Measured
    <3> QED BY <1>1, <3>1, UnchangedSame, AloneKept
  <2>5. CASE p = o
    <3>1. g.areas = 0 /\ cursor.obj # p
      BY <1>2, <2>2, <2>3, <2>5 DEF ObjectAlone, Count, Record
    <3>2. gem'[p].areas = 0 /\ ~gem'[p].vmapping
      BY <2>2, <2>5, <3>1 DEF SameOrEmptied, Same, Emptied, Count
    <3>3. On(p) = {Measure}
      BY <2>3, <2>5 DEF Overlapping
    <3>4. On(p)' = {}
      BY <2>3, <3>3, ObjectAssumption DEF On
    <3> QED BY <1>1, <3>1, <3>2, <3>4, FreshAloneNext DEF Fresh
  <2> QED BY <2>4, <2>5
<1> QED BY <1>3, <1>4 DEF MeasureStep

LEMMA UpdateAlone ==
  ASSUME Typed, RefInv, DeadAreForgotten', UpdateStep,
         NEW p \in Objects, ObjectAlone(p), ~Overlapping(p)
  PROVE  ObjectAlone(p)'
<1> USE ThreadsApart
<1>1. Typed'
  BY UpdateTyped
<1>2. ThreadsSettle(p)
  <2>1. CASE \E o \in Objects \cup {NoObject} : evdi_cursor_atomic_update(o)
    <3>1. /\ \A u \in Threads \ {Commit} : thread'[u] = thread[u]
          /\ thread'[Commit].pc # "use"
      BY <2>1 DEF evdi_cursor_atomic_update, Typed
    <3> QED BY <3>1 DEF ThreadsSettle, Measured
  <2>2. CASE CommitEnd
    <3>1. /\ \A u \in Threads \ {Commit} : thread'[u] = thread[u]
          /\ thread'[Commit].obj = NoObject
      BY <2>2 DEF CommitEnd, Idle, Typed
    <3> QED BY <3>1, ObjectAssumption DEF ThreadsSettle, Measured
  <2>3. CASE evdi_cursor_set \/ evdi_cursor_enable \/ ChooseEvents
               \/ evdi_painter_send_cursor_set
    <3>1. \E pc \in {"enable", "events", "send_set", "oops", "put"} :
            Go(Commit, pc)
      BY <2>3 DEF evdi_cursor_set, evdi_cursor_enable, ChooseEvents,
         evdi_painter_send_cursor_set
    <3>2. /\ \A u \in Threads \ {Commit} : thread'[u] = thread[u]
          /\ thread'[Commit].pc # "use"
      BY <3>1, GoPlaces DEF Steps
    <3> QED BY <3>2 DEF ThreadsSettle, Measured
  <2> QED BY <2>1, <2>2, <2>3 DEF UpdateStep
<1>3. SameOrEmptied(gem[p], gem'[p])
  <2>1. CASE UNCHANGED gem
    BY <2>1, UnchangedSame
  <2>2. CASE \E o : gem' = evdi_cursor_set_gem(o)
    BY <2>2, CursorSetGemSame
  <2>3. CASE gem' = [gem EXCEPT ![cursor.obj] = Get(@)]
    <3>1. gem'[p] = gem[p] \/ gem'[p] = Get(gem[p])
      BY <2>3 DEF Typed
    <3> QED BY <3>1, UnchangedSame, GetSame DEF Typed, SameOrEmptied
  <2>4. CASE old_plane # NoObject /\ FbPut(old_plane)
    BY <2>4, FbPutSame DEF Typed
  <2> QED BY <2>1, <2>2, <2>3, <2>4 DEF UpdateStep, evdi_cursor_atomic_update,
     evdi_cursor_set, evdi_cursor_enable, DisableCursor, ChooseEvents,
     evdi_painter_send_cursor_set, CommitEnd
<1>4. cursor'.obj = p => \/ cursor.obj = p
                         \/ gem[p].vmapping /\ ~Measured(p)
  <2>1. CASE evdi_cursor_set
    <3>1. cursor'.obj = IF thread[Commit].pc = "use" THEN thread[Commit].obj
                        ELSE NoObject
      BY <2>1 DEF evdi_cursor_set, Typed, Cursors
    <3>2. ASSUME cursor'.obj = p
          PROVE  gem[p].vmapping /\ ~Measured(p)
      <4>1. thread[Commit].pc = "use" /\ Commit \in On(p)
        BY <3>1, <3>2, ObjectAssumption DEF On
      <4> QED BY <4>1 DEF ObjectAlone, Overlapping
    <3> QED BY <3>2
  <2>2. CASE evdi_cursor_enable
    BY <2>2, ObjectAssumption DEF evdi_cursor_enable, DisableCursor, Typed,
       Cursors
  <2> QED BY <2>1, <2>2 DEF UpdateStep, evdi_cursor_atomic_update,
     ChooseEvents, evdi_painter_send_cursor_set, CommitEnd
<1> QED BY <1>1, <1>2, <1>3, <1>4, AloneKept

LEMMA ClientAlone ==
  ASSUME Typed, DeadAreForgotten', ClientStep,
         NEW p \in Objects, ObjectAlone(p)
  PROVE  ObjectAlone(p)'
<1>1. Typed' /\ UNCHANGED thread
  BY ClientTyped DEF ClientStep, evdi_painter_disconnect, ReleaseFile,
     OpenFile, evdi_painter_connect, evdi_painter_enable_cursor_events_ioctl,
     DisconnectFile, DisconnectEnd, evdi_driver_postclose, gemVars
<1>2. /\ SameOrEmptied(gem[p], gem'[p])
      /\ cursor'.obj = cursor.obj \/ cursor'.obj = NoObject
  <2>1. CASE UNCHANGED <<gem, cursor>>
    BY <2>1, UnchangedSame
  <2>2. CASE evdi_painter_disconnect
    BY <2>2, CursorSetGemSame DEF evdi_painter_disconnect, DisableCursor,
       Typed, Cursors
  <2>3. CASE ReleaseFile
    <3>1. (gem'[p] = gem[p] \/ gem'[p] = Put(gem[p])) /\ UNCHANGED cursor
      BY <2>3 DEF ReleaseFile
    <3> QED BY <3>1, UnchangedSame, PutSameOrEmptied DEF Typed
  <2> QED BY <2>1, <2>2, <2>3 DEF ClientStep, OpenFile, evdi_painter_connect,
     evdi_painter_enable_cursor_events_ioctl, DisconnectFile, DisconnectEnd,
     evdi_driver_postclose, gemVars
<1> QED BY <1>1, <1>2, ObjectAssumption, NobodyMoves, AloneKept

LEMMA StepAlone ==
  ASSUME Typed, RefInv, DeadAreForgotten', Step,
         NEW p \in Objects, ObjectAlone(p), ~Overlapping(p), ~Overlapping(p)'
  PROVE  ObjectAlone(p)'
BY NextCases, HandleAlone, ReaderAlone, MeasureAlone, UpdateAlone, ClientAlone

\* An object that nobody refers to comes back only as a new one.
LEMMA ReturnsFresh ==
  ASSUME Typed, RefInv, Typed', RefInv', Step,
         NEW p \in Objects, ~Live(p), Live(p)'
  PROVE  Fresh(p)'
<1> DEFINE Claimed == \/ p \in handles' \cup client_handles' \cup vmas' \cup exports'
                      \/ fb_refs'[p] > 0
                      \/ cursor'.obj = p
<1>1. /\ p \notin handles \cup vmas \cup exports \cup client_handles \cup fbs
      /\ fb_refs[p] = 0 /\ cursor.obj # p /\ old_plane # p
      /\ \A t \in Threads : thread[t].obj # p
      /\ fb_refs \in [Objects -> Int] /\ cursor \in Cursors
  <2>1. Forgotten(p)
    BY DeadForgotten DEF DeadAreForgotten
  <2>2. p \notin fbs /\ old_plane # p
    BY <2>1, HoldersCount DEF Forgotten
  <2> QED BY <2>1, <2>2 DEF Forgotten, On, Typed
<1>2. Claimed
  <2>1. GemExact(p)' /\ gem'[p].refs > 0 /\ gem'[p] \in Record
    BY ExactSplit DEF RefInv, ReferencesExact, GemExact, Live, Typed
  <2> QED BY <2>1 DEF GemExact, Count
<1>3. ASSUME NEW o \in Objects,
             (HandleStep(o) \/ PinStep(o) \/ FbStep(o)) /\ UNCHANGED cursorVars
      PROVE  Fresh(p)'
  <2>1. CASE p = o /\ NewObject(o)
    BY <1>3, <2>1, NewIsFresh
  <2>2. CASE ~(p = o /\ NewObject(o)) /\ HandleStep(o)
    <3>1. p \notin handles' \cup vmas' \cup exports' /\ UNCHANGED fb_refs
      BY <1>1, <2>2 DEF HandleStep, NewObject, evdi_gem_create,
         evdi_prime_import_sg_table, CloseHandle, evdi_drm_gem_mmap, Munmap,
         Export, CloseExport
    <3> QED BY <1>1, <1>2, <1>3, <3>1 DEF cursorVars, clientVars
  <2>3. CASE PinStep(o)
    <3>1. ~Claimed
      BY <1>1, <1>3, <2>3 DEF PinStep, evdi_gem_mmap, evdi_prime_pin,
         evdi_prime_unpin, userVars, cursorVars, clientVars
    <3> QED BY <1>2, <3>1
  <2>4. CASE FbStep(o)
    <3>1. p # o
      BY <1>1, <2>4 DEF FbStep, evdi_fb_user_fb_create, RemoveFb
    <3>2. ~Claimed
      BY <1>1, <1>3, <2>4, <3>1 DEF FbStep, evdi_fb_user_fb_create, RemoveFb,
         FbPut, userVars, cursorVars, clientVars
    <3> QED BY <1>2, <3>2
  <2> QED BY <1>3, <2>1, <2>2, <2>3, <2>4
<1>4. ASSUME NEW t \in Threads, ReaderStep(t) /\ UNCHANGED cursorVars
      PROVE  FALSE
  <2>1. fb_refs'[p] = 0 /\ UNCHANGED <<handles, vmas, exports>>
    <3>1. CASE \E o \in Objects : TakeFb(t, o, "check")
      BY <1>1, <3>1 DEF TakeFb, userVars
    <3>2. CASE GrabEnd(t) \/ GiveUp(t)
      BY <1>1, <3>2 DEF GrabEnd, GiveUp, FbPut, userVars
    <3>3. CASE MapMove(t)
      BY <1>1, <3>3, MapTyped DEF userVars
    <3> QED BY <1>4, <3>1, <3>2, <3>3 DEF ReaderStep, MapMove
  <2> QED BY <1>1, <1>2, <1>4, <2>1 DEF cursorVars, clientVars
<1>5. ASSUME MeasureStep /\ UNCHANGED cursorVars
      PROVE  FALSE
  <2>1. fb_refs'[p] = 0 /\ UNCHANGED <<handles, vmas, exports>>
    <3>1. thread[Measure].obj # p
      BY <1>1, ThreadsApart
    <3> QED BY <1>1, <1>5, <3>1 DEF MeasureStep, MeasureStart, TakeFb,
               MeasureEnd, userVars
  <2> QED BY <1>1, <1>2, <1>5, <2>1 DEF cursorVars, clientVars
<1>6. ASSUME UpdateStep
      PROVE  FALSE
  <2>1. UNCHANGED <<handles, vmas, exports>>
    BY <1>6 DEF UpdateStep, evdi_cursor_atomic_update, evdi_cursor_set,
       evdi_cursor_enable, ChooseEvents, evdi_painter_send_cursor_set,
       CommitEnd, userVars
  <2>2. p \notin client_handles'
    BY <1>1, <1>6 DEF UpdateStep, evdi_cursor_atomic_update, evdi_cursor_set,
       evdi_cursor_enable, ChooseEvents, evdi_painter_send_cursor_set,
       CommitEnd, clientVars
  <2>3. fb_refs'[p] = 0
    BY <1>1, <1>6, ObjectAssumption DEF UpdateStep, evdi_cursor_atomic_update,
       evdi_cursor_set, evdi_cursor_enable, ChooseEvents,
       evdi_painter_send_cursor_set, CommitEnd, FbPut
  <2>4. cursor'.obj # p
    <3>1. cursor'.obj \in {cursor.obj, NoObject, thread[Commit].obj}
      BY <1>1, <1>6 DEF UpdateStep, evdi_cursor_atomic_update,
         evdi_cursor_set, evdi_cursor_enable, DisableCursor, ChooseEvents,
         evdi_painter_send_cursor_set, CommitEnd, Cursors
    <3> QED BY <1>1, <3>1, ObjectAssumption, ThreadsApart
  <2> QED BY <1>1, <1>2, <2>1, <2>2, <2>3, <2>4
<1>7. ASSUME ClientStep
      PROVE  FALSE
  <2>1. /\ UNCHANGED <<handles, vmas, exports, fb_refs>>
        /\ client_handles' \subseteq client_handles
        /\ cursor'.obj \in {cursor.obj, NoObject}
    BY <1>1, <1>7 DEF ClientStep, OpenFile, evdi_painter_connect,
       evdi_painter_enable_cursor_events_ioctl, evdi_painter_disconnect,
       DisableCursor, DisconnectFile, DisconnectEnd, ReleaseFile,
       evdi_driver_postclose, gemVars, userVars, Cursors
  <2> QED BY <1>1, <1>2, <2>1, ObjectAssumption
<1> QED BY <1>3, <1>4, <1>5, <1>6, <1>7, NextCases

LEMMA StutterAloneInv ==
  ASSUME AloneInv, UNCHANGED vars
  PROVE  AloneInv'
BY DEF AloneInv, ObjectAlone, Overlapping, Live, Measured, Mapping, On, vars,
       gemVars, userVars

LEMMA NextAloneInv ==
  Typed /\ RefInv /\ AloneInv /\ Typed' /\ RefInv' /\ [Next]_vars => AloneInv'
<1> SUFFICES ASSUME Typed, RefInv, AloneInv, Typed', RefInv', Next,
                    NEW p \in Objects, p \notin overlapped'
             PROVE  ObjectAlone(p)' /\ ~Overlapping(p)'
  BY StutterAloneInv DEF AloneInv
<1>1. ~Overlapping(p)' /\ (p \in overlapped => ~Live(p) /\ Live(p)')
  BY DEF Next, Remember
<1>2. CASE p \in overlapped
  BY <1>1, <1>2, ReturnsFresh, FreshAloneNext DEF Next
<1>3. CASE p \notin overlapped
  BY <1>1, <1>3, DeadForgottenNext, StepAlone DEF AloneInv, Next
<1> QED BY <1>1, <1>2, <1>3

LEMMA AloneInvAlways == Spec => []AloneInv
BY InitAloneInv, NextAloneInv, TypedAlways, RefInvAlways, PTL DEF Spec

\* A freed object is forgotten by everybody, and evdi_gem_free_object unmapped
\* it, for any number of objects and grabs: only an object whose uses
\* overlapped - that was mapped again while it was mapped or being mapped, or
\* measured while it was in use - may leave a kernel mapping behind.
THEOREM FreedIsForgotten == Spec => []FreedHoldsNothing
<1>1. Typed /\ RefInv /\ AloneInv => FreedHoldsNothing
  <2> SUFFICES ASSUME Typed, RefInv, AloneInv, NEW o \in Objects, ~Live(o)
               PROVE  /\ gem[o].areas = 0 \/ o \in overlapped
                      /\ o \notin handles \cup vmas \cup exports
                                    \cup client_handles
                      /\ fb_refs[o] = 0 /\ cursor.obj # o
    BY DEF FreedHoldsNothing
  <2>1. Forgotten(o)
    BY DeadForgotten DEF DeadAreForgotten
  <2>2. gem[o].areas = 0 \/ o \in overlapped
    BY DEF AloneInv, ObjectAlone, Count
  <2> QED BY <2>1, <2>2 DEF Forgotten
<1> QED BY <1>1, TypedAlways, RefInvAlways, AloneInvAlways, PTL

\* What evdi_painter_grabpix_ioctl, measure_copy_fb and the cursor's blend read
\* is mapped while they read it, with the same exception; the cursor's object
\* is there without one.
THEOREM ReadersAreMapped == Spec => []ReadsMapped
<1>1. Typed /\ RefInv /\ AloneInv => ReadsMapped
  <2> SUFFICES ASSUME Typed, RefInv, AloneInv PROVE ReadsMapped
    OBVIOUS
  <2>1. ASSUME NEW t \in Threads, thread[t].pc = "use"
        PROVE  gem[thread[t].obj].vmapping \/ thread[t].obj \in overlapped
    <3>1. PICK o \in Objects : o = thread[t].obj
      BY <2>1 DEF RefInv, CommitPlace, ThreadPlaces, Typed, Places
    <3> QED BY <2>1, <3>1 DEF AloneInv, ObjectAlone, On
  <2>2. ASSUME cursor.obj # NoObject
        PROVE  /\ Live(cursor.obj)
               /\ gem[cursor.obj].vmapping \/ cursor.obj \in overlapped
    <3>1. PICK o \in Objects : o = cursor.obj
      BY <2>2 DEF Typed, Cursors
    <3> QED BY <3>1, HoldersCount DEF AloneInv, ObjectAlone, Live
  <2> QED BY <2>1, <2>2 DEF ReadsMapped
<1> QED BY <1>1, TypedAlways, RefInvAlways, AloneInvAlways, PTL

-----------------------------------------------------------------------------
(***************************************************************************)
(* What the client was told is what the cursor is, but for the update that *)
(* is under way.                                                           *)
(***************************************************************************)

\* The cursor as an event describes it.
Shown == [cursor EXCEPT !.enabled = @ /\ cursor.obj # NoObject]

ToldInv ==
  cursor_events_enabled /\ disconnect = "no" /\ told # Unknown =>
    /\ drm_filp
    /\ thread[Commit].pc \in {"idle", "put"} => told = Shown

\* Other steps move the commit thread from one step of its mapping to another,
\* if at all.
MapSteps == {"check", "pin", "map", "recheck", "use", "failed"}
CommitMaps ==
  \/ thread'[Commit].pc = thread[Commit].pc
  \/ thread[Commit].pc \in MapSteps /\ thread'[Commit].pc \in MapSteps

LEMMA OthersCommitMaps ==
  ASSUME Typed, Step, ~UpdateStep, ~ClientStep
  PROVE  CommitMaps /\ UNCHANGED cursorVars
<1> USE ThreadsApart DEF MapSteps
<1>1. ASSUME \E o \in Objects : HandleStep(o) \/ PinStep(o) \/ FbStep(o)
      PROVE  CommitMaps
  <2>1. UNCHANGED thread
    BY <1>1 DEF HandleStep, PinStep, FbStep, evdi_gem_create,
       evdi_prime_import_sg_table, CloseHandle, evdi_drm_gem_mmap, Munmap,
       Export, CloseExport, evdi_gem_mmap, evdi_prime_pin, evdi_prime_unpin,
       evdi_fb_user_fb_create, RemoveFb
  <2> QED BY <2>1 DEF CommitMaps
<1>2. ASSUME NEW t \in Threads, ReaderStep(t)
      PROVE  CommitMaps
  <2>1. CASE t # Commit
    <3>1. thread'[Commit] = thread[Commit]
      BY <1>2, <2>1 DEF ReaderStep, TakeFb, GrabEnd, CheckMapping, VmapPin,
         PinFails, VmapMap, VmapFails, RecheckMapping, GiveUp, Go, Typed
    <3> QED BY <3>1 DEF CommitMaps
  <2>2. CASE t = Commit
    <3>1. /\ thread[Commit].pc \in MapSteps
          /\ \E pc \in MapSteps : Go(Commit, pc)
      BY <1>2, <2>2 DEF ReaderStep, CheckMapping, VmapPin, PinFails, VmapMap,
         VmapFails, RecheckMapping, GiveUp, At
    <3> QED BY <3>1, GoPlaces DEF CommitMaps, Steps
  <2> QED BY <2>1, <2>2
<1>3. ASSUME MeasureStep
      PROVE  CommitMaps
  <2>1. thread'[Commit] = thread[Commit]
    BY <1>3 DEF MeasureStep, MeasureEnd, MeasureStart, TakeFb, Typed
  <2> QED BY <2>1 DEF CommitMaps
<1> QED BY <1>1, <1>2, <1>3, NextCases

\* Where each step of an update leads.
LEMMA UpdatePlaces ==
  ASSUME Typed, UpdateStep
  PROVE  LET pc == thread[Commit].pc
             next == thread'[Commit].pc
         IN \/ /\ pc = "idle" /\ next \in {"check", "enable"}
               /\ \E o \in Objects \cup {NoObject} : evdi_cursor_atomic_update(o)
            \/ pc \in {"use", "failed"} /\ next = "enable" /\ evdi_cursor_set
            \/ pc = "enable" /\ next = "events" /\ evdi_cursor_enable
            \/ /\ pc = "events" /\ ChooseEvents
               /\ next = IF cursor_events_enabled THEN "send_set" ELSE "put"
            \/ /\ pc = "send_set" /\ next \in {"put", "oops"}
               /\ evdi_painter_send_cursor_set
            \/ pc = "put" /\ next = "idle" /\ CommitEnd
<1> USE ThreadsApart DEF Steps
<1>1. CASE \E o \in Objects \cup {NoObject} : evdi_cursor_atomic_update(o)
  <2>1. PICK o \in Objects \cup {NoObject} : evdi_cursor_atomic_update(o)
    BY <1>1
  <2>2. /\ thread[Commit].pc = "idle"
        /\ thread'[Commit].pc = IF o # NoObject THEN "check" ELSE "enable"
    BY <2>1 DEF evdi_cursor_atomic_update, Idle, Typed
  <2> QED BY <2>1, <2>2
<1>2. CASE evdi_cursor_set
  BY <1>2, GoPlaces DEF evdi_cursor_set
<1>3. CASE evdi_cursor_enable
  BY <1>3, GoPlaces DEF evdi_cursor_enable
<1>4. CASE ChooseEvents
  BY <1>4, GoPlaces DEF ChooseEvents
<1>5. CASE evdi_painter_send_cursor_set
  BY <1>5, GoPlaces DEF evdi_painter_send_cursor_set
<1>6. CASE CommitEnd
  BY <1>6 DEF CommitEnd, Idle, Typed
<1> QED BY <1>1, <1>2, <1>3, <1>4, <1>5, <1>6 DEF UpdateStep

LEMMA ClientCommitStays == ClientStep => UNCHANGED thread
BY DEF ClientStep, OpenFile, evdi_painter_connect,
   evdi_painter_enable_cursor_events_ioctl, evdi_painter_disconnect,
   DisconnectFile, DisconnectEnd, ReleaseFile, evdi_driver_postclose, gemVars

LEMMA NextToldInv == Typed /\ ToldInv /\ [Next]_vars => ToldInv'
<1> SUFFICES ASSUME Typed, ToldInv, [Next]_vars PROVE ToldInv'
  OBVIOUS
<1>1. CASE Step /\ ~UpdateStep /\ ~ClientStep
  BY <1>1, OthersCommitMaps
     DEF ToldInv, Shown, CommitMaps, MapSteps, cursorVars, clientVars
<1>2. CASE UpdateStep
  <2>1. UNCHANGED <<drm_filp, cursor_events_enabled, disconnect>>
    BY <1>2 DEF UpdateStep, evdi_cursor_atomic_update, evdi_cursor_set,
       evdi_cursor_enable, ChooseEvents, evdi_painter_send_cursor_set,
       CommitEnd, clientVars
  <2>2. CASE evdi_painter_send_cursor_set
    <3>1. UNCHANGED cursor
      BY <2>2 DEF evdi_painter_send_cursor_set
    <3>2. cursor.obj # NoObject => cursor = Shown
      BY DEF Shown, Typed, Cursors
    <3>3. \/ told' = Unknown
          \/ drm_filp /\ told' = Shown
          \/ ~(drm_filp /\ disconnect = "no") /\ UNCHANGED told
      BY <2>2, <3>2 DEF evdi_painter_send_cursor_set, Shown
    <3> QED BY <2>1, <3>1, <3>3 DEF ToldInv, Shown
  <2>3. CASE ~evdi_painter_send_cursor_set
    <3>1. UNCHANGED told
      BY <1>2, <2>3 DEF UpdateStep, evdi_cursor_atomic_update,
         evdi_cursor_set, evdi_cursor_enable, ChooseEvents, CommitEnd
    <3>2. thread'[Commit].pc \in {"idle", "put"} =>
            \/ ~cursor_events_enabled
            \/ thread[Commit].pc \in {"idle", "put"} /\ UNCHANGED cursor
      BY <1>2, <2>3, UpdatePlaces DEF CommitEnd
    <3> QED BY <2>1, <3>1, <3>2 DEF ToldInv, Shown
  <2> QED BY <2>2, <2>3
<1>3. CASE ClientStep
  <2>1. UNCHANGED thread
    BY <1>3, ClientCommitStays
  <2>2. \/ told' = Unknown
        \/ ~cursor_events_enabled' \/ disconnect' # "no"
        \/ /\ UNCHANGED <<told, cursor, cursor_events_enabled, disconnect>>
           /\ drm_filp => drm_filp'
    BY <1>3 DEF ClientStep, OpenFile, evdi_painter_connect,
       evdi_painter_enable_cursor_events_ioctl, evdi_painter_disconnect,
       DisconnectFile, DisconnectEnd, ReleaseFile, evdi_driver_postclose
  <2> QED BY <2>1, <2>2 DEF ToldInv, Shown
<1>4. CASE UNCHANGED vars
  BY <1>4 DEF ToldInv, Shown, vars, gemVars, clientVars
<1> QED BY <1>1, <1>2, <1>3, <1>4 DEF Next

\* Between updates a client that was told of a cursor knows the current one,
\* whatever it and its compositor do.
THEOREM TheClientIsTold == Spec => []CursorTold
<1>1. Init => ToldInv
  BY DEF Init, ToldInv
<1>2. ToldInv => CursorTold
  BY DEF ToldInv, CursorTold, Updating, Shown
<1> QED BY <1>1, <1>2, NextToldInv, TypedAlways, PTL DEF Spec

=============================================================================
