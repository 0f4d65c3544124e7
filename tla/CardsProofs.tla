----------------------------- MODULE CardsProofs -----------------------------
(***************************************************************************)
(* What TLC checks of Platform and Cards on two slots, two USB devices and *)
(* two writers, proved for any number of each.  First the device table     *)
(* alone; then programs that find, open and close cards, which use the     *)
(* table as Platform has it: what is proved of the table holds with them,  *)
(* each program's table of its handles is exact, and what a search finds   *)
(* or adds can be opened.                                                  *)
(***************************************************************************)
EXTENDS Cards, FiniteSetTheorems, WellFoundedInduction, TLAPS

-----------------------------------------------------------------------------
(***************************************************************************)
(* The device table.                                                       *)
(***************************************************************************)

\* The lowest of some numbers is one of them.
LEMMA LeastIsMember ==
  ASSUME NEW S \in SUBSET Nat, S # {}
  PROVE  Min(S) \in S
<1>1. PICK x \in S : \A y \in S : ~(<<y, x>> \in OpToRel(<, Nat))
  BY WFMin, NatLessThanWellFounded, Zenon
<1>2. \A y \in S : ~(y < x)
  BY <1>1 DEF OpToRel
<1>3. \A y \in S : x <= y
  BY <1>2
<1> QED
  BY <1>3 DEF Min

LEMMA MinIsMember ==
  ASSUME NEW S \in SUBSET Slots, S # {}
  PROVE  Min(S) \in S
<1>1. S \subseteq Nat
  BY CountAssumption DEF Slots
<1> QED
  BY <1>1, LeastIsMember

UsbCall == [pc : {"idle", "check", "remove", "flag", "clear"}, slot : Slots]
WriterCall ==
  [pc : {"idle", "attach", "add", "link", "create", "mark"}, want : Links,
   slot : Slots, left : 0..(EVDI_DEVICE_COUNT_MAX + 1)]

LEMMA SlotFacts ==
  /\ 0 \in Slots /\ IsFiniteSet(Slots)
  /\ Idle \in WriterCall /\ NoCall \in UsbCall
  /\ \A s \in Slots : s # EVDI_DEVICE_COUNT_MAX - 1 => s + 1 \in Slots
<1>1. IsFiniteSet(Slots)
  BY FS_Interval, CountAssumption DEF Slots
<1> QED
  BY <1>1, CountAssumption
     DEF Slots, Links, Idle, NoCall, UsbCall, WriterCall

LEMMA NextSlotType ==
  ASSUME NEW q \in Parents, usb \in [Parents -> UsbCall]
  PROVE  /\ NextSlot(q) \in UsbCall
         /\ NextSlot(q).pc \in {"idle", "check"}
BY SlotFacts DEF NextSlot, UsbCall, NoCall

LEMMA AddedType ==
  ASSUME NEW a \in Writers, NEW s \in Slots, thread \in [Writers -> WriterCall]
  PROVE  Added(a, s) \in WriterCall
<1>1. thread[a].left \in 0..(EVDI_DEVICE_COUNT_MAX + 1)
  BY DEF WriterCall
<1>2. thread[a].left > 1 =>
        thread[a].left - 1 \in 0..(EVDI_DEVICE_COUNT_MAX + 1)
  BY <1>1, CountAssumption
<1> QED
  BY <1>2, SlotFacts DEF Added, WriterCall

\* The table, the links, the notifiers and the writers are well typed.
LEMMA PlatformTypeInit == Init => TypeOK
BY SlotFacts, CountAssumption
   DEF Init, TypeOK, UsbCall, WriterCall, Links, Slots

LEMMA PlatformTypeNext == TypeOK /\ [Next]_vars => TypeOK'
<1> SUFFICES ASSUME TypeOK, [Next]_vars PROVE TypeOK'
  OBVIOUS
<1>a. /\ usb \in [Parents -> UsbCall] /\ thread \in [Writers -> WriterCall]
  BY DEF TypeOK, UsbCall, WriterCall
<1>1. ASSUME NEW a \in Writers, AddStep(a)
      PROVE  TypeOK'
  <2>1. CASE \/ \E n \in 1..(EVDI_DEVICE_COUNT_MAX + 1) :
                  add_store(a, NoParent, n)
             \/ \E want \in Parents : add_store(a, want, 1)
    <3>1. PICK want \in Links, n \in 1..(EVDI_DEVICE_COUNT_MAX + 1) :
            add_store(a, want, n)
      BY <2>1, CountAssumption DEF Links
    <3>2. n \in 0..(EVDI_DEVICE_COUNT_MAX + 1)
      BY CountAssumption
    <3>3. [pc |-> "attach", want |-> want, left |-> n, slot |-> 0]
            \in WriterCall
      BY <3>2, SlotFacts DEF WriterCall
    <3> QED
      BY <1>a, <3>1, <3>3
         DEF add_store, TypeOK, WriterCall, deviceVars, tableVars, linkVars,
             usbVars
  <2>2. CASE evdi_platform_device_attach(a) \/ evdi_platform_add_devices(a)
             \/ LinkCheck(a)
    <3>1. thread' \in [Writers -> WriterCall]
      BY <1>a, <2>2, SlotFacts
         DEF evdi_platform_device_attach, evdi_platform_add_devices, LinkCheck,
             WriterCall
    <3> QED
      BY <2>2, <3>1
         DEF evdi_platform_device_attach, evdi_platform_add_devices, LinkCheck,
             TypeOK, WriterCall, deviceVars, tableVars, linkVars, usbVars
  <2>3. CASE evdi_platform_drv_get_free_device(a)
    <3> DEFINE free == {s \in devices : evdi_platform_device_is_free(s)}
    <3>1. Min(free) \in Slots
      BY <2>3, MinIsMember DEF evdi_platform_drv_get_free_device, TypeOK
    <3>2. thread' \in [Writers -> WriterCall]
      BY <1>a, <2>3, <3>1 DEF evdi_platform_drv_get_free_device, WriterCall
    <3> QED
      BY <2>3, <3>2
         DEF evdi_platform_drv_get_free_device, TypeOK, WriterCall, deviceVars,
             tableVars, linkVars, usbVars
  <2>4. CASE evdi_platform_drv_create_new_device(a)
    <3> DEFINE id == Min(Slots \ devices)
    <3>1. /\ UNCHANGED <<linkVars, connected, usbVars>>
          /\ \/ /\ id \in Slots
                /\ dev_count < EVDI_DEVICE_COUNT_MAX
                /\ devices' = devices \cup {id}
                /\ dev_count' = dev_count + 1
                /\ thread' = [thread EXCEPT ![a] = Added(a, id)]
             \/ /\ thread' = [thread EXCEPT ![a] = Idle]
                /\ UNCHANGED tableVars
      <4>1. dev_count \in Nat /\ EVDI_DEVICE_COUNT_MAX \in Nat
        BY CountAssumption DEF TypeOK
      <4>2. Slots \ devices # {} => id \in Slots
        BY MinIsMember
      <4> QED
        BY <2>4, <4>1, <4>2
           DEF evdi_platform_drv_create_new_device, TableFull,
               evdi_platform_drv_get_free_idx
    <3>2. thread' \in [Writers -> WriterCall]
      BY <1>a, <3>1, AddedType, SlotFacts
    <3>3. /\ devices' \subseteq Slots /\ connected' \subseteq devices'
          /\ dev_count' \in 0..EVDI_DEVICE_COUNT_MAX
      <4> HIDE DEF id
      <4> QED
        BY <3>1, CountAssumption DEF TypeOK, tableVars
    <3> HIDE DEF id
    <3> QED
      BY <3>1, <3>2, <3>3 DEF TypeOK, WriterCall, linkVars, usbVars
  <2>5. CASE LinkCreate(a) \/ LinkMark(a)
    <3>1. thread[a].want \in Links
      BY <1>a DEF WriterCall
    <3>2. thread' \in [Writers -> WriterCall]
      BY <1>a, <2>5, SlotFacts DEF LinkCreate, LinkMark, WriterCall
    <3>3. /\ link' \in [Slots -> Links] /\ parent' \in [Slots -> Links]
          /\ symlinked' \in [Slots -> BOOLEAN]
      BY <2>5, <3>1 DEF LinkCreate, LinkMark, TypeOK
    <3> QED
      BY <2>5, <3>2, <3>3
         DEF LinkCreate, LinkMark, TypeOK, WriterCall, tableVars, usbVars
  <2> QED
    BY <1>1, <2>1, <2>2, <2>3, <2>4, <2>5 DEF AddStep
<1>2. ASSUME NEW q \in Parents, UsbStep(q)
      PROVE  TypeOK'
  <2>1. CASE Plug(q) \/ evdi_platform_drv_usb(q) \/ UnlinkCheck(q)
    <3>1. usb' \in [Parents -> UsbCall]
      BY <1>a, <2>1, SlotFacts, NextSlotType
         DEF Plug, evdi_platform_drv_usb, UnlinkCheck, UsbCall
    <3> QED
      BY <2>1, <3>1
         DEF Plug, evdi_platform_drv_usb, UnlinkCheck, TypeOK, UsbCall,
             deviceVars, tableVars, linkVars
  <2>2. CASE UnlinkRemove(q) \/ UnlinkFlag(q) \/ UnlinkClear(q)
    <3>1. usb' \in [Parents -> UsbCall]
      BY <1>a, <2>2, NextSlotType
         DEF UnlinkRemove, UnlinkFlag, UnlinkClear, UsbCall
    <3>2. /\ link' \in [Slots -> Links] /\ parent' \in [Slots -> Links]
          /\ symlinked' \in [Slots -> BOOLEAN]
      BY <2>2 DEF UnlinkRemove, UnlinkFlag, UnlinkClear, TypeOK, Links
    <3> QED
      BY <2>2, <3>1, <3>2
         DEF UnlinkRemove, UnlinkFlag, UnlinkClear, TypeOK, UsbCall, tableVars
  <2> QED
    BY <1>2, <2>1, <2>2 DEF UsbStep
<1>3. ASSUME NEW s \in Slots, Connect(s) \/ Disconnect(s)
      PROVE  TypeOK'
  BY <1>3 DEF Connect, Disconnect, TypeOK, tableVars, linkVars, usbVars
<1>4. CASE evdi_platform_remove_all_devices
  BY <1>4, CountAssumption
     DEF evdi_platform_remove_all_devices, TypeOK, Links, usbVars
<1>5. CASE UNCHANGED vars
  BY <1>5 DEF vars, deviceVars, tableVars, linkVars, usbVars, TypeOK
<1> QED
  BY <1>1, <1>2, <1>3, <1>4, <1>5 DEF Next

\* No step of a writer, a notifier or a client puts the table, a link or a call
\* into a state it has no value for.
THEOREM PlatformTypeCorrect == Spec => []TypeOK
BY PlatformTypeInit, PlatformTypeNext, PTL DEF Spec

-----------------------------------------------------------------------------
(***************************************************************************)
(* The table.                                                              *)
(***************************************************************************)

\* Only the slot that evdi_platform_drv_get_free_idx finds empty is filled, and
\* only with the count below the maximum.
LEMMA CreateFillsEmptySlot ==
  ASSUME NEW a \in Writers, evdi_platform_drv_create_new_device(a)
  PROVE  \/ \E id \in Slots \ devices :
              devices' = devices \cup {id} /\ dev_count' = dev_count + 1
         \/ UNCHANGED tableVars
<1>1. Slots \ devices # {} => Min(Slots \ devices) \in Slots \ devices
  BY MinIsMember
<1> QED
  BY <1>1
     DEF evdi_platform_drv_create_new_device, TableFull,
         evdi_platform_drv_get_free_idx

\* dev_count is the number of devices in the table: evdi_platform_add_devices
\* may use a count that is out of date, and still no device replaces another.
THEOREM CountAlwaysMatches == Spec => []CountMatchesTable
<1>1. Init => CountMatchesTable
  BY FS_EmptySet DEF Init, CountMatchesTable
<1>2. TypeOK /\ CountMatchesTable /\ [Next]_vars => CountMatchesTable'
  <2> SUFFICES ASSUME TypeOK, CountMatchesTable, [Next]_vars
               PROVE  CountMatchesTable'
    OBVIOUS
  <2>1. CASE UNCHANGED tableVars
    BY <2>1 DEF CountMatchesTable, tableVars
  <2>2. ASSUME NEW a \in Writers, evdi_platform_drv_create_new_device(a)
        PROVE  CountMatchesTable'
    <3>1. CASE \E id \in Slots \ devices :
                 devices' = devices \cup {id} /\ dev_count' = dev_count + 1
      <4>1. PICK id \in Slots \ devices :
              devices' = devices \cup {id} /\ dev_count' = dev_count + 1
        BY <3>1
      <4>2. IsFiniteSet(devices)
        BY SlotFacts, FS_Subset DEF TypeOK
      <4>3. Cardinality(devices \cup {id}) = Cardinality(devices) + 1
        BY <4>2, FS_AddElement
      <4> QED
        BY <4>1, <4>3 DEF CountMatchesTable
    <3> QED
      BY <2>1, <2>2, <3>1, CreateFillsEmptySlot
  <2>3. CASE evdi_platform_remove_all_devices
    BY <2>3, FS_EmptySet DEF evdi_platform_remove_all_devices, CountMatchesTable
  <2>4. ASSUME NEW a \in Writers, AddStep(a)
        PROVE  UNCHANGED tableVars \/ evdi_platform_drv_create_new_device(a)
    BY <2>4
       DEF AddStep, add_store, evdi_platform_device_attach,
           evdi_platform_add_devices, evdi_platform_drv_get_free_device,
           LinkCheck, LinkCreate, LinkMark, deviceVars
  <2>5. ASSUME NEW q \in Parents, UsbStep(q)
        PROVE  UNCHANGED tableVars
    BY <2>5
       DEF UsbStep, Plug, evdi_platform_drv_usb, UnlinkCheck, UnlinkRemove,
           UnlinkFlag, UnlinkClear, deviceVars
  <2>6. ASSUME NEW s \in Slots, Connect(s) \/ Disconnect(s)
        PROVE  UNCHANGED tableVars
    BY <2>6 DEF Connect, Disconnect
  <2>7. CASE UNCHANGED vars
    BY <2>1, <2>7 DEF vars, deviceVars, tableVars
  <2>8. ASSUME NEW a \in Writers, AddStep(a)
        PROVE  CountMatchesTable'
    BY <2>1, <2>2, <2>4, <2>8
  <2>9. CASE Next
    BY <2>1, <2>3, <2>5, <2>6, <2>8, <2>9 DEF Next
  <2> QED
    BY <2>1, <2>7, <2>9
<1> QED
  BY <1>1, <1>2, PlatformTypeCorrect, PTL DEF Spec

-----------------------------------------------------------------------------
(***************************************************************************)
(* The links.                                                              *)
(***************************************************************************)

\* A notifier has removed a link of s and has not cleared its parent yet.
Clearing(q, s) == usb[q].pc \in {"flag", "clear"} /\ usb[q].slot = s

\* The notifier of a USB device that is plugged in is not running.
PluggedIsQuiet == \A q \in present : usb[q] = NoCall

\* A device's parent is what it is linked to, but while its notifier clears it.
ParentIsLinked ==
  \A s \in Slots : parent[s] # NoParent =>
    Clearing(parent[s], s) \/ link[s] = parent[s]

\* A notifier removes the link that belongs to its own USB device, although
\* the parent may have been cleared by an earlier notifier.
RemovesOwn ==
  \A q \in Parents : usb[q].pc = "remove" =>
    link[usb[q].slot] = q /\ parent[usb[q].slot] \in {q, NoParent}

\* A writer that has made a link finds it, and nobody else at the device: no
\* other writer that has made one, and no notifier but one that is past the
\* removal of an earlier link.
MarksOwn ==
  \A a \in Writers :
    /\ thread[a].pc \in {"link", "create", "mark"} => thread[a].want # NoParent
    /\ thread[a].pc = "mark" =>
         LET s == thread[a].slot
         IN /\ link[s] = thread[a].want
            /\ parent[s] # NoParent => Clearing(parent[s], s)
            /\ \A q \in Parents : ~(usb[q].pc = "remove" /\ usb[q].slot = s)
            /\ \A b \in Writers \ {a} :
                 ~(thread[b].pc = "mark" /\ thread[b].slot = s)

LinkInv == PluggedIsQuiet /\ ParentIsLinked /\ RemovesOwn /\ MarksOwn

LEMMA LinkInvInit == Init => LinkInv
BY DEF Init, LinkInv, PluggedIsQuiet, ParentIsLinked, RemovesOwn, MarksOwn,
       NoCall, Idle

\* The links of the devices stay consistent with the notes about them, however
\* the statements of links and unlinks interleave.
LEMMA LinkInvNext == TypeOK /\ LinkInv /\ [Next]_vars => LinkInv'
<1> SUFFICES ASSUME TypeOK, LinkInv, [Next]_vars PROVE LinkInv'
  OBVIOUS
<1>a. /\ usb \in [Parents -> UsbCall] /\ thread \in [Writers -> WriterCall]
      /\ link \in [Slots -> Links] /\ parent \in [Slots -> Links]
  BY DEF TypeOK, UsbCall, WriterCall
<1> USE DEF LinkInv
\* Steps of a writer that touch neither a link nor what is known of it, and do
\* not bring the writer to one.
<1>1. ASSUME NEW a \in Writers, UNCHANGED <<linkVars, usbVars>>,
             \A b \in Writers \ {a} : thread'[b] = thread[b],
             thread'[a].pc # "mark",
             thread'[a].pc \in {"link", "create"} => thread'[a].want # NoParent
      PROVE  LinkInv'
  <2>1. PluggedIsQuiet' /\ ParentIsLinked' /\ RemovesOwn'
    BY <1>1 DEF PluggedIsQuiet, ParentIsLinked, RemovesOwn, Clearing, linkVars,
                usbVars
  <2>2. MarksOwn'
    BY <1>a, <1>1 DEF MarksOwn, Clearing, linkVars, usbVars
  <2> QED
    BY <2>1, <2>2
<1>2. ASSUME NEW a \in Writers, AddStep(a)
      PROVE  LinkInv'
  <2>1. CASE \E want \in Links, n \in Nat : add_store(a, want, n)
    BY <1>1, <1>a, <2>1 DEF add_store, deviceVars
  <2>2. CASE evdi_platform_device_attach(a) \/ evdi_platform_add_devices(a)
    BY <1>1, <1>a, <2>2
       DEF evdi_platform_device_attach, evdi_platform_add_devices, deviceVars,
           Idle, WriterCall
  <2>3. CASE evdi_platform_drv_get_free_device(a)
    BY <1>1, <1>a, <2>3
       DEF evdi_platform_drv_get_free_device, deviceVars, WriterCall
  <2>4. CASE evdi_platform_drv_create_new_device(a)
    <3>1. PICK id : /\ UNCHANGED <<linkVars, usbVars>>
                    /\ \/ thread' = [thread EXCEPT ![a] = Added(a, id)]
                       \/ thread' = [thread EXCEPT ![a] = Idle]
      BY <2>4 DEF evdi_platform_drv_create_new_device
    <3>2. thread[a].pc = "add" /\ Idle.pc = "idle"
      BY <2>4 DEF evdi_platform_drv_create_new_device, Idle
    <3>3. /\ Added(a, id).pc # "mark"
          /\ Added(a, id).pc \in {"link", "create"} =>
               Added(a, id).want # NoParent
      BY <1>a, <3>2 DEF Added, WriterCall
    <3> QED
      BY <1>1, <1>a, <3>1, <3>2, <3>3
  <2>5. CASE LinkCheck(a)
    BY <1>1, <1>a, <2>5 DEF LinkCheck, Idle, MarksOwn, deviceVars, WriterCall
  <2>6. CASE LinkCreate(a)
    <3> DEFINE s == thread[a].slot
               want == thread[a].want
    <3>0. s \in Slots /\ want \in Links /\ thread[a].pc = "create"
      BY <1>a, <2>6 DEF WriterCall, LinkCreate
    <3>1. CASE link[s] # NoParent
      BY <1>1, <1>a, <2>6, <3>1 DEF LinkCreate, Idle, linkVars
    <3>2. CASE link[s] = NoParent
      <4>1. /\ link' = [link EXCEPT ![s] = want]
            /\ thread' = [thread EXCEPT ![a].pc = "mark"]
            /\ UNCHANGED <<parent, usbVars>>
        BY <2>6, <3>2 DEF LinkCreate
      <4>2. /\ want # NoParent
            /\ parent[s] # NoParent => Clearing(parent[s], s)
            /\ \A q \in Parents : ~(usb[q].pc = "remove" /\ usb[q].slot = s)
            /\ \A b \in Writers : ~(thread[b].pc = "mark" /\ thread[b].slot = s)
        BY <1>a, <3>0, <3>2, NoParentAssumption
           DEF MarksOwn, ParentIsLinked, RemovesOwn, WriterCall
      <4>3. PluggedIsQuiet' /\ ParentIsLinked' /\ RemovesOwn'
        BY <1>a, <3>0, <4>1, <4>2
           DEF PluggedIsQuiet, ParentIsLinked, RemovesOwn, Clearing, usbVars,
               UsbCall
      <4>4. MarksOwn'
        BY <1>a, <3>0, <4>1, <4>2 DEF MarksOwn, Clearing, usbVars, WriterCall
      <4> QED
        BY <4>3, <4>4
    <3> QED
      BY <3>1, <3>2
  <2>7. CASE LinkMark(a)
    <3> DEFINE s == thread[a].slot
               want == thread[a].want
    <3>1. /\ s \in Slots /\ thread[a].pc = "mark" /\ want # NoParent
          /\ link[s] = want
          /\ \A q \in Parents : ~(usb[q].pc = "remove" /\ usb[q].slot = s)
          /\ \A b \in Writers \ {a} :
               ~(thread[b].pc = "mark" /\ thread[b].slot = s)
      BY <1>a, <2>7 DEF LinkMark, MarksOwn, WriterCall
    <3>2. /\ parent' = [parent EXCEPT ![s] = want]
          /\ thread' = [thread EXCEPT ![a] = Idle]
          /\ UNCHANGED <<link, usbVars>>
      BY <2>7 DEF LinkMark
    <3>3. PluggedIsQuiet' /\ ParentIsLinked' /\ RemovesOwn'
      BY <1>a, <3>1, <3>2
         DEF PluggedIsQuiet, ParentIsLinked, RemovesOwn, Clearing, usbVars,
             UsbCall
    <3>4. MarksOwn'
      BY <1>a, <3>1, <3>2 DEF MarksOwn, Clearing, usbVars, WriterCall, Idle
    <3> QED
      BY <3>3, <3>4
  <2> QED
    BY <1>2, <2>1, <2>2, <2>3, <2>4, <2>5, <2>6, <2>7, CountAssumption
       DEF AddStep, Links
<1>3. ASSUME NEW q \in Parents, UsbStep(q)
      PROVE  LinkInv'
  <2>1. CASE Plug(q) \/ evdi_platform_drv_usb(q)
    <3>1. /\ UNCHANGED <<linkVars, thread>>
          /\ \A p \in Parents \ {q} : usb'[p] = usb[p]
          /\ usb[q] = NoCall /\ usb'[q].pc \in {"idle", "check"}
          /\ \A p \in present' : p = q \/ p \in present
          /\ q \in present' => usb'[q] = NoCall
      <4>1. CASE Plug(q)
        BY <4>1 DEF Plug, NoCall, deviceVars
      <4>2. CASE evdi_platform_drv_usb(q)
        BY <1>a, <4>2
           DEF evdi_platform_drv_usb, PluggedIsQuiet, NoCall, deviceVars
      <4> QED
        BY <2>1, <4>1, <4>2
    <3>2. PluggedIsQuiet'
      BY <3>1, TypeOK DEF PluggedIsQuiet, TypeOK
    <3>3. ParentIsLinked' /\ RemovesOwn'
      BY <1>a, <3>1
         DEF ParentIsLinked, RemovesOwn, Clearing, linkVars, NoCall, Links
    <3>4. MarksOwn'
      BY <1>a, <3>1
         DEF MarksOwn, Clearing, linkVars, NoCall, Links, WriterCall
    <3> QED
      BY <3>2, <3>3, <3>4
  <2>2. CASE UnlinkCheck(q)
    <3> DEFINE s == usb[q].slot
    <3>1. /\ UNCHANGED <<linkVars, thread, present>>
          /\ s \in Slots /\ usb[q].pc = "check" /\ q \notin present
          /\ \A p \in Parents \ {q} : usb'[p] = usb[p]
          /\ \/ parent[s] = q /\ usb'[q].pc = "remove" /\ usb'[q].slot = s
             \/ usb'[q].pc \in {"idle", "check"}
      BY <1>a, <2>2, NextSlotType
         DEF UnlinkCheck, UsbCall, PluggedIsQuiet, NoCall, deviceVars
    <3>2. parent[s] = q => link[s] = q
      BY <3>1, NoParentAssumption DEF ParentIsLinked, Clearing
    <3>3. PluggedIsQuiet' /\ ParentIsLinked' /\ RemovesOwn'
      BY <1>a, <3>1, <3>2
         DEF PluggedIsQuiet, ParentIsLinked, RemovesOwn, Clearing, linkVars,
             TypeOK, Links
    <3>4. MarksOwn'
      BY <1>a, <3>1, NoParentAssumption
         DEF MarksOwn, Clearing, linkVars, Links, WriterCall
    <3> QED
      BY <3>3, <3>4
  <2>3. CASE UnlinkRemove(q)
    <3> DEFINE s == usb[q].slot
    <3>1. /\ UNCHANGED <<parent, thread, present>>
          /\ s \in Slots /\ usb[q].pc = "remove" /\ q \notin present
          /\ usb' = [usb EXCEPT ![q].pc = "flag"]
          /\ link' = [link EXCEPT ![s] = NoParent]
      BY <1>a, <2>3
         DEF UnlinkRemove, UsbCall, PluggedIsQuiet, NoCall
    <3>2. link[s] = q /\ parent[s] \in {q, NoParent}
      BY <3>1 DEF RemovesOwn
    <3>3. PluggedIsQuiet' /\ ParentIsLinked' /\ RemovesOwn'
      BY <1>a, <3>1, <3>2
         DEF PluggedIsQuiet, ParentIsLinked, RemovesOwn, Clearing, TypeOK,
             Links, UsbCall
    <3>4. MarksOwn'
      BY <1>a, <3>1, <3>2
         DEF MarksOwn, Clearing, Links, WriterCall, UsbCall
    <3> QED
      BY <3>3, <3>4
  <2>4. CASE UnlinkFlag(q)
    <3>1. /\ UNCHANGED <<parent, link, thread, present>>
          /\ usb[q].pc = "flag" /\ q \notin present
          /\ usb' = [usb EXCEPT ![q].pc = "clear"]
      BY <1>a, <2>4
         DEF UnlinkFlag, UsbCall, PluggedIsQuiet, NoCall
    <3>2. PluggedIsQuiet' /\ ParentIsLinked' /\ RemovesOwn'
      BY <1>a, <3>1
         DEF PluggedIsQuiet, ParentIsLinked, RemovesOwn, Clearing, TypeOK,
             Links, UsbCall
    <3>3. MarksOwn'
      BY <1>a, <3>1
         DEF MarksOwn, Clearing, Links, WriterCall, UsbCall
    <3> QED
      BY <3>2, <3>3
  <2>5. CASE UnlinkClear(q)
    <3> DEFINE s == usb[q].slot
    <3>1. /\ UNCHANGED <<link, thread, present>>
          /\ s \in Slots /\ usb[q].pc = "clear"
          /\ parent' = [parent EXCEPT ![s] = NoParent]
          /\ usb' = [usb EXCEPT ![q] = NextSlot(q)]
      BY <1>a, <2>5 DEF UnlinkClear, UsbCall
    <3>2. /\ q \notin present
          /\ \A p \in Parents \ {q} : usb'[p] = usb[p]
          /\ usb'[q].pc \in {"idle", "check"}
      BY <1>a, <3>1, NextSlotType DEF UsbCall, PluggedIsQuiet, NoCall
    <3>3. /\ parent'[s] = NoParent
          /\ \A t \in Slots \ {s} : parent'[t] = parent[t]
      BY <1>a, <3>1
    <3>4. PluggedIsQuiet'
      BY <3>1, <3>2 DEF PluggedIsQuiet, TypeOK
    <3>5. ParentIsLinked'
      BY <1>a, <3>1, <3>2, <3>3 DEF ParentIsLinked, Clearing, Links
    <3>6. RemovesOwn'
      BY <1>a, <3>1, <3>2, <3>3 DEF RemovesOwn, UsbCall
    <3>7. MarksOwn'
      BY <1>a, <3>1, <3>2, <3>3 DEF MarksOwn, Clearing, Links, WriterCall
    <3> QED
      BY <3>4, <3>5, <3>6, <3>7
  <2> QED
    BY <1>3, <2>1, <2>2, <2>3, <2>4, <2>5 DEF UsbStep
<1>4. CASE evdi_platform_remove_all_devices
  BY <1>4
     DEF evdi_platform_remove_all_devices, PluggedIsQuiet, ParentIsLinked,
         RemovesOwn, MarksOwn, Clearing, NoCall, usbVars
<1>5. CASE UNCHANGED <<linkVars, usbVars, thread>>
  BY <1>5 DEF PluggedIsQuiet, ParentIsLinked, RemovesOwn, MarksOwn, Clearing,
              linkVars, usbVars
<1>6. CASE Next
  BY <1>2, <1>3, <1>4, <1>5, <1>6
     DEF Next, Connect, Disconnect
<1> QED
  BY <1>5, <1>6 DEF vars, deviceVars

LEMMA LinksConsistent == Spec => []LinkInv
BY LinkInvInit, LinkInvNext, PlatformTypeCorrect, PTL DEF Spec

\* A notifier for an unplugged USB device removes the links to that device and
\* no other: evdi_platform_device_unlink_if_linked_with has compared the parent
\* without a lock, several statements before it removes the link.
THEOREM UnlinksOnlyOwn == Spec => UnlinksOwnOnly
<1>1. LinkInv /\ [Next]_vars =>
        [\A q \in Parents : usb[q].pc = "remove" /\ usb'[q].pc = "flag" =>
           link[usb[q].slot] = q]_vars
  BY DEF LinkInv, RemovesOwn
<1> QED
  BY <1>1, LinksConsistent, PTL DEF Spec, UnlinksOwnOnly

\* SymlinkedHasLink of every slot: a new device starts in one that holds it.
FlagHasLink ==
  \A s \in Slots : symlinked[s] /\ ~Unlinking(s) => link[s] # NoParent

LEMMA FlagHasLinkNext ==
  TypeOK /\ LinkInv /\ FlagHasLink /\ [Next]_vars => FlagHasLink'
<1> SUFFICES ASSUME TypeOK, LinkInv, FlagHasLink, [Next]_vars PROVE FlagHasLink'
  OBVIOUS
<1>a. /\ usb \in [Parents -> UsbCall] /\ thread \in [Writers -> WriterCall]
      /\ link \in [Slots -> Links] /\ symlinked \in [Slots -> BOOLEAN]
  BY DEF TypeOK, UsbCall, WriterCall
<1>1. CASE UNCHANGED <<link, symlinked, usb>>
  BY <1>1 DEF FlagHasLink, Unlinking
<1>2. ASSUME NEW a \in Writers, LinkCreate(a)
      PROVE  FlagHasLink'
  <2>1. /\ UNCHANGED <<symlinked, usb>>
        /\ \/ link' = link
           \/ link' = [link EXCEPT ![thread[a].slot] = thread[a].want]
        /\ thread[a].want # NoParent
    BY <1>2 DEF LinkCreate, LinkInv, MarksOwn, usbVars
  <2> QED
    BY <1>a, <2>1 DEF FlagHasLink, Unlinking
<1>3. ASSUME NEW a \in Writers, LinkMark(a)
      PROVE  FlagHasLink'
  <2>1. /\ UNCHANGED <<link, usb>>
        /\ symlinked' = [symlinked EXCEPT ![thread[a].slot] = TRUE]
        /\ link[thread[a].slot] # NoParent
    BY <1>3 DEF LinkMark, LinkInv, MarksOwn, usbVars
  <2> QED
    BY <1>a, <2>1 DEF FlagHasLink, Unlinking
\* A notifier that does not touch the flag is not about to clear it.
<1>4. ASSUME NEW q \in Parents, UNCHANGED <<link, symlinked>>,
             \A p \in Parents \ {q} : usb'[p] = usb[p],
             usb[q].pc # "flag", usb'[q].pc # "flag"
      PROVE  FlagHasLink'
  BY <1>4 DEF FlagHasLink, Unlinking
<1>5. ASSUME NEW q \in Parents, UsbStep(q)
      PROVE  FlagHasLink'
  <2>1. CASE Plug(q)
    BY <1>1, <2>1 DEF Plug, deviceVars, linkVars
  <2>2. CASE evdi_platform_drv_usb(q)
    BY <1>a, <1>4, <2>2
       DEF evdi_platform_drv_usb, deviceVars, linkVars, LinkInv,
           PluggedIsQuiet, NoCall
  <2>3. CASE UnlinkCheck(q)
    BY <1>a, <1>4, <2>3, NextSlotType
       DEF UnlinkCheck, deviceVars, linkVars, UsbCall
  <2>4. CASE UnlinkRemove(q)
    <3>1. /\ UNCHANGED symlinked
          /\ usb' = [usb EXCEPT ![q].pc = "flag"]
          /\ link' = [link EXCEPT ![usb[q].slot] = NoParent]
          /\ usb[q].pc = "remove" /\ usb[q].slot \in Slots
      BY <1>a, <2>4 DEF UnlinkRemove, UsbCall
    <3>2. /\ usb'[q].pc = "flag" /\ usb'[q].slot = usb[q].slot
          /\ \A p \in Parents \ {q} : usb'[p] = usb[p]
      BY <1>a, <3>1 DEF UsbCall
    <3> QED
      BY <1>a, <3>1, <3>2 DEF FlagHasLink, Unlinking
  <2>5. CASE UnlinkFlag(q)
    <3>1. /\ UNCHANGED link
          /\ usb' = [usb EXCEPT ![q].pc = "clear"]
          /\ symlinked' = [symlinked EXCEPT ![usb[q].slot] = FALSE]
          /\ usb[q].pc = "flag" /\ usb[q].slot \in Slots
      BY <1>a, <2>5 DEF UnlinkFlag, UsbCall
    <3>2. \A p \in Parents \ {q} : usb'[p] = usb[p]
      BY <1>a, <3>1
    <3> QED
      BY <1>a, <3>1, <3>2 DEF FlagHasLink, Unlinking
  <2>6. CASE UnlinkClear(q)
    BY <1>a, <1>4, <2>6, NextSlotType DEF UnlinkClear, UsbCall
  <2> QED
    BY <1>5, <2>1, <2>2, <2>3, <2>4, <2>5, <2>6 DEF UsbStep
<1>6. CASE evdi_platform_remove_all_devices
  BY <1>6 DEF evdi_platform_remove_all_devices, FlagHasLink
<1>7. CASE Next
  BY <1>1, <1>2, <1>3, <1>5, <1>6, <1>7
     DEF Next, AddStep, Connect, Disconnect, add_store,
         evdi_platform_device_attach, evdi_platform_add_devices,
         evdi_platform_drv_get_free_device, evdi_platform_drv_create_new_device,
         LinkCheck, deviceVars, linkVars, usbVars
<1> QED
  BY <1>1, <1>7 DEF vars, deviceVars, linkVars, usbVars

\* symlinked is never left set without a link: a device that lost its parent
\* can be given to another one.
THEOREM SymlinkedAlwaysLinked == Spec => []SymlinkedHasLink
<1>1. Init => FlagHasLink
  BY DEF Init, FlagHasLink
<1>2. FlagHasLink /\ TypeOK => SymlinkedHasLink
  BY DEF FlagHasLink, SymlinkedHasLink, TypeOK
<1> QED
  BY <1>1, <1>2, FlagHasLinkNext, LinksConsistent, PlatformTypeCorrect, PTL
     DEF Spec

-----------------------------------------------------------------------------
(***************************************************************************)
(* What a step of one writer or notifier leaves to the others.             *)
(***************************************************************************)

LEMMA WriterTouches ==
  ASSUME TypeOK, NEW a \in Writers, AddStep(a)
  PROVE  /\ UNCHANGED <<connected, usbVars>>
         /\ \A b \in Writers \ {a} : thread'[b] = thread[b]
         /\ \/ devices' = devices
            \/ \E id \in Slots \ devices : devices' = devices \cup {id}
         /\ \/ UNCHANGED link
            \/ /\ thread[a].pc = "create" /\ link[thread[a].slot] = NoParent
               /\ link' = [link EXCEPT ![thread[a].slot] = thread[a].want]
         /\ \/ UNCHANGED symlinked
            \/ /\ thread[a].pc = "mark"
               /\ symlinked' = [symlinked EXCEPT ![thread[a].slot] = TRUE]
<1>1. /\ UNCHANGED <<connected, usbVars>>
      /\ \A b \in Writers \ {a} : thread'[b] = thread[b]
  BY DEF AddStep, add_store, evdi_platform_device_attach,
         evdi_platform_add_devices, evdi_platform_drv_get_free_device,
         evdi_platform_drv_create_new_device, LinkCheck, LinkCreate, LinkMark,
         deviceVars, TypeOK
<1>2. CASE evdi_platform_drv_create_new_device(a)
  BY <1>1, <1>2, CreateFillsEmptySlot
     DEF evdi_platform_drv_create_new_device, linkVars, tableVars
<1>3. CASE LinkCreate(a) \/ LinkMark(a)
  BY <1>1, <1>3 DEF LinkCreate, LinkMark, tableVars
<1>4. CASE UNCHANGED deviceVars
  BY <1>1, <1>4 DEF deviceVars, tableVars, linkVars
<1> QED
  BY <1>2, <1>3, <1>4
     DEF AddStep, add_store, evdi_platform_device_attach,
         evdi_platform_add_devices, evdi_platform_drv_get_free_device,
         LinkCheck

LEMMA NotifierTouches ==
  ASSUME TypeOK, LinkInv, NEW q \in Parents, UsbStep(q)
  PROVE  /\ UNCHANGED <<devices, connected, thread>>
         /\ \/ UNCHANGED link
            \/ /\ q \notin present' /\ link[usb[q].slot] = q
               /\ link' = [link EXCEPT ![usb[q].slot] = NoParent]
         /\ \/ UNCHANGED symlinked
            \/ symlinked' = [symlinked EXCEPT ![usb[q].slot] = FALSE]
<1>1. CASE UnlinkRemove(q)
  <2>1. q \notin present /\ link[usb[q].slot] = q
    BY <1>1 DEF UnlinkRemove, LinkInv, PluggedIsQuiet, RemovesOwn, NoCall
  <2> QED
    BY <1>1, <2>1 DEF UnlinkRemove, tableVars
<1>2. CASE UnlinkFlag(q) \/ UnlinkClear(q)
  BY <1>2 DEF UnlinkFlag, UnlinkClear, tableVars
<1>3. CASE Plug(q) \/ evdi_platform_drv_usb(q) \/ UnlinkCheck(q)
  BY <1>3 DEF Plug, evdi_platform_drv_usb, UnlinkCheck, deviceVars, tableVars,
              linkVars
<1> QED
  BY <1>1, <1>2, <1>3 DEF UsbStep

\* Only devices of the table are linked and flagged, and writers link nothing
\* else: an empty slot holds no link of the device that was there.
AtDevices ==
  /\ \A s \in Slots : link[s] # NoParent \/ symlinked[s] => s \in devices
  /\ \A a \in Writers :
       thread[a].pc \in {"link", "create", "mark"} => thread[a].slot \in devices

LEMMA AtDevicesNext ==
  TypeOK /\ LinkInv /\ AtDevices /\ [Next]_vars => AtDevices'
<1> SUFFICES ASSUME TypeOK, LinkInv, AtDevices, [Next]_vars PROVE AtDevices'
  OBVIOUS
<1>a. /\ thread \in [Writers -> WriterCall] /\ usb \in [Parents -> UsbCall]
      /\ link \in [Slots -> Links] /\ symlinked \in [Slots -> BOOLEAN]
  BY DEF TypeOK, UsbCall, WriterCall
<1>1. ASSUME NEW a \in Writers, AddStep(a)
      PROVE  AtDevices'
  <2>1. devices \subseteq devices'
    BY <1>1, WriterTouches
  <2>2. ASSUME NEW s \in Slots, link'[s] # NoParent \/ symlinked'[s]
        PROVE  s \in devices'
    <3>1. CASE link[s] # NoParent \/ symlinked[s]
      BY <2>1, <3>1 DEF AtDevices
    <3>2. CASE ~(link[s] # NoParent \/ symlinked[s])
      <4>1. s = thread[a].slot /\ thread[a].pc \in {"create", "mark"}
        BY <1>a, <1>1, <2>2, <3>2, WriterTouches
      <4> QED
        BY <2>1, <4>1 DEF AtDevices
    <3> QED
      BY <3>1, <3>2
  <2>3. ASSUME thread'[a].pc \in {"link", "create", "mark"}
        PROVE  thread'[a].slot \in devices'
    <3>1. CASE evdi_platform_drv_get_free_device(a)
      <4> DEFINE free == {s \in devices : evdi_platform_device_is_free(s)}
      <4>1. free # {} /\ thread' = [thread EXCEPT ![a].pc = "link",
                                                  ![a].slot = Min(free)]
        BY <3>1 DEF evdi_platform_drv_get_free_device
      <4>2. free \in SUBSET Slots /\ free \subseteq devices
        BY DEF TypeOK
      <4> HIDE DEF free
      <4>3. Min(free) \in devices
        BY <4>1, <4>2, MinIsMember
      <4> QED
        BY <1>a, <2>1, <4>1, <4>3 DEF WriterCall
    <3>2. CASE evdi_platform_drv_create_new_device(a)
      <4> DEFINE id == Min(Slots \ devices)
      <4>1. \/ devices' = devices \cup {id} /\
               thread' = [thread EXCEPT ![a] = Added(a, id)]
            \/ thread' = [thread EXCEPT ![a] = Idle]
        BY <3>2 DEF evdi_platform_drv_create_new_device,
                    evdi_platform_drv_get_free_idx
      <4>2. thread[a].pc = "add"
        BY <3>2 DEF evdi_platform_drv_create_new_device
      <4> HIDE DEF id
      <4>3. Added(a, id).pc \in {"link", "create", "mark"} =>
              Added(a, id).slot = id
        BY <1>a, <4>2 DEF Added, WriterCall, Idle
      <4> QED
        BY <1>a, <2>3, <4>1, <4>3 DEF Idle
    <3>3. CASE LinkCheck(a) \/ LinkCreate(a)
      <4>1. thread'[a].slot = thread[a].slot /\ thread[a].slot \in devices
        BY <1>a, <2>3, <3>3
           DEF LinkCheck, LinkCreate, Idle, AtDevices, WriterCall
      <4> QED
        BY <2>1, <4>1
    <3>4. CASE \/ \E n \in 1..(EVDI_DEVICE_COUNT_MAX + 1) :
                    add_store(a, NoParent, n)
               \/ \E want \in Parents : add_store(a, want, 1)
               \/ evdi_platform_device_attach(a)
               \/ evdi_platform_add_devices(a) \/ LinkMark(a)
      BY <1>a, <2>3, <3>4
         DEF add_store, evdi_platform_device_attach, evdi_platform_add_devices,
             LinkMark, Idle, WriterCall
    <3> QED
      BY <1>1, <3>1, <3>2, <3>3, <3>4 DEF AddStep
  <2>4. \A b \in Writers \ {a} : thread'[b] = thread[b]
    BY <1>1, WriterTouches
  <2> QED
    BY <2>1, <2>2, <2>3, <2>4 DEF AtDevices
<1>2. ASSUME NEW q \in Parents, UsbStep(q)
      PROVE  AtDevices'
  <2>1. UNCHANGED <<devices, thread>>
    BY <1>2, NotifierTouches
  <2>2. \A s \in Slots : /\ link'[s] # NoParent => link[s] # NoParent
                         /\ symlinked'[s] => symlinked[s]
    BY <1>a, <1>2, NotifierTouches
  <2> QED
    BY <2>1, <2>2 DEF AtDevices
<1>3. ASSUME NEW s \in Slots, Connect(s) \/ Disconnect(s)
      PROVE  AtDevices'
  BY <1>3 DEF Connect, Disconnect, AtDevices, tableVars, linkVars
<1>4. CASE evdi_platform_remove_all_devices
  BY <1>4 DEF evdi_platform_remove_all_devices, AtDevices
<1>5. CASE UNCHANGED vars
  BY <1>5 DEF vars, deviceVars, tableVars, linkVars, AtDevices
<1> QED
  BY <1>1, <1>2, <1>3, <1>4, <1>5 DEF Next

LEMMA LinksAtDevices == Spec => []AtDevices
<1>1. Init => AtDevices
  BY DEF Init, AtDevices, Idle
<1> QED
  BY <1>1, AtDevicesNext, LinksConsistent, PlatformTypeCorrect, PTL DEF Spec

-----------------------------------------------------------------------------
(***************************************************************************)
(* Cards: programs around the table.                                       *)
(***************************************************************************)

LEMMA CardsStep == CardsNext => Next \/ UNCHANGED vars
<1> SUFFICES ASSUME CardsNext PROVE Next \/ UNCHANGED vars
  OBVIOUS
<1>1. CASE KernelStep
  BY <1>1 DEF KernelStep, Next
<1>2. CASE evdi_drm_device_remove
  BY <1>2 DEF evdi_drm_device_remove, Next
<1>3. ASSUME NEW a \in Clients, LibStep(a)
      PROVE  Next \/ UNCHANGED vars
  <2>1. a \in Writers
    BY ClientsAssumption
  <2>2. ASSUME NEW want, add_store(a, want, 1), want \in Links
        PROVE  Next
    <3>1. 1 \in 1..(EVDI_DEVICE_COUNT_MAX + 1)
      BY CountAssumption
    <3> QED
      BY <2>1, <2>2, <3>1 DEF Next, AddStep, Links
  <2>3. Idle = Idle /\ NoParent \in Links
    BY DEF Links
  <2>4. CASE \E want \in Links : evdi_open_attached_to_fixed(a, want)
    BY <2>4 DEF evdi_open_attached_to_fixed
  <2>5. CASE \E s \in Slots : find_unused_card_for(a, s)
    BY <2>5 DEF find_unused_card_for
  <2>6. CASE \/ \E want \in Links : write_add_device(a, want)
             \/ evdi_add_device(a)
    BY <2>2, <2>3, <2>6 DEF write_add_device, evdi_add_device
  <2>7. CASE AddReturns(a) \/ OpenFails(a)
    BY <2>7 DEF AddReturns, OpenFails
  <2>8. CASE \E index \in Minors : evdi_open(a, index)
    BY <2>8 DEF evdi_open
  <2>9. ASSUME NEW h \in Handles, NEW s \in Slots, evdi_connect(a, h, s)
        PROVE  Next \/ UNCHANGED vars
    BY <2>9 DEF evdi_connect, Next
  <2>10. ASSUME NEW h \in Handles, DisconnectFile(a, h)
         PROVE  Next \/ UNCHANGED vars
    BY <2>10 DEF DisconnectFile, Disconnect, Next
  <2> QED
    BY <1>3, <2>4, <2>5, <2>6, <2>7, <2>8, <2>9, <2>10
       DEF LibStep, evdi_disconnect, evdi_close
<1> QED
  BY <1>1, <1>2, <1>3 DEF CardsNext

\* Every behaviour of programs, kernel and USB devices together is one of the
\* device table of evdi_platform_drv.c.
THEOREM CardsImplementPlatform == CardsSpec => Spec
<1>1. CardsInit => Init
  BY DEF CardsInit
<1>2. [CardsNext]_allVars => [Next]_vars
  BY CardsStep DEF allVars
<1> QED
  BY <1>1, <1>2, PTL DEF CardsSpec, Spec

\* What is proved of the table holds whatever programs do through libevdi.
THEOREM TableSound ==
  CardsSpec => /\ []CountMatchesTable /\ []SymlinkedHasLink
               /\ UnlinksOwnOnly
BY CardsImplementPlatform, CountAlwaysMatches, SymlinkedAlwaysLinked,
   UnlinksOnlyOwn, PTL

-----------------------------------------------------------------------------
(***************************************************************************)
(* The tables of the programs.                                             *)
(***************************************************************************)

LibCall ==
  [pc : {"idle", "find", "add", "open"}, want : Links, again : BOOLEAN,
   seen : SUBSET Slots, index : Indices]

\* The types that the library's own variables have.
LibTypeOK ==
  /\ card \in [Slots -> Indices]
  /\ device_index \in [Clients -> [Handles -> Indices]]
  /\ card_usage \in [Clients -> [Minors -> Handles \cup {EVDI_INVALID_HANDLE}]]
  /\ call \in [Clients -> LibCall]

LEMMA NoLibCallType == NoLibCall \in LibCall
BY DEF NoLibCall, LibCall, Links, Indices

LEMMA LibTypeInit == CardsInit => LibTypeOK
BY NoLibCallType DEF CardsInit, LibTypeOK, Indices

LEMMA NewHandle ==
  ASSUME NEW a \in Clients, OpenHandles(a) # Handles
  PROVE  Min(Handles \ OpenHandles(a)) \in Handles \ OpenHandles(a)
<1>1. Handles \ OpenHandles(a) # {} /\ Handles \ OpenHandles(a) \subseteq Nat
  BY HandlesAssumption DEF OpenHandles, Handles
<1> QED
  BY <1>1, LeastIsMember

LEMMA LibTypeNext == TypeOK /\ LibTypeOK /\ CardsNext => LibTypeOK'
<1> SUFFICES ASSUME TypeOK, LibTypeOK, CardsNext PROVE LibTypeOK'
  OBVIOUS
<1> USE DEF LibTypeOK
<1>1. CASE KernelStep
  <2>1. card' \in [Slots -> Indices]
    BY <1>1 DEF KernelStep, evdi_drm_device_create, Indices
  <2> QED
    BY <1>1, <2>1 DEF KernelStep, libVars
<1>2. CASE evdi_drm_device_remove
  BY <1>2 DEF evdi_drm_device_remove, Indices, libVars
<1>3. ASSUME NEW a \in Clients, LibStep(a)
      PROVE  LibTypeOK'
  <2>a. call[a] \in LibCall
    OBVIOUS
  \* Steps that open and close nothing.
  <2>b. ASSUME NEW r \in LibCall, call' = [call EXCEPT ![a] = r],
               UNCHANGED <<fileVars, libVars>>
        PROVE  LibTypeOK'
    BY <2>b DEF fileVars, libVars
  <2>1. ASSUME NEW want \in Links, evdi_open_attached_to_fixed(a, want)
        PROVE  LibTypeOK'
    <3>1. [NoLibCall EXCEPT !.pc = "find", !.want = want] \in LibCall
      BY NoLibCallType DEF LibCall
    <3> QED
      BY <2>b, <2>1, <3>1 DEF evdi_open_attached_to_fixed
  <2>2. ASSUME NEW s \in Slots, find_unused_card_for(a, s)
        PROVE  LibTypeOK'
    <3>1. /\ [call[a] EXCEPT !.pc = "open", !.index = card[s]] \in LibCall
          /\ [call[a] EXCEPT !.seen = @ \cup {s}] \in LibCall
      BY <2>a DEF LibCall
    <3>2. PICK r \in LibCall : call' = [call EXCEPT ![a] = r]
      BY <2>2, <3>1 DEF find_unused_card_for, get_drm_device_index
    <3>3. UNCHANGED <<fileVars, libVars>>
      BY <2>2 DEF find_unused_card_for
    <3> QED
      BY <2>b, <3>2, <3>3
  <2>3. CASE \E want \in Links : write_add_device(a, want)
    <3>1. [call[a] EXCEPT !.pc = "add", !.seen = {}] \in LibCall
      BY <2>a DEF LibCall
    <3> QED
      BY <2>b, <2>3, <3>1 DEF write_add_device
  <2>4. CASE AddReturns(a) \/ OpenFails(a)
    <3>1. [call[a] EXCEPT !.pc = "find", !.again = TRUE] \in LibCall
      BY <2>a DEF LibCall
    <3> QED
      BY <2>b, <2>4, <3>1, NoLibCallType DEF AddReturns, OpenFails
  <2>5. CASE evdi_add_device(a)
    BY <2>5 DEF evdi_add_device, libVars, fileVars
  <2>6. ASSUME NEW index \in Minors, evdi_open(a, index)
        PROVE  LibTypeOK'
    <3> DEFINE h == Min(Handles \ OpenHandles(a))
    <3>1. h \in Handles
      BY <2>6, NewHandle DEF evdi_open
    <3>2. /\ device_index' = [device_index EXCEPT ![a][h] = index]
          /\ card_usage' = [card_usage EXCEPT ![a][index] = h]
          /\ call' = [call EXCEPT ![a] = NoLibCall] /\ UNCHANGED card
      BY <2>6 DEF evdi_open, fileVars
    <3> HIDE DEF h
    <3> QED
      BY <2>6, <3>1, <3>2, NoLibCallType DEF Indices
  <2>7. ASSUME NEW h \in Handles, NEW s \in Slots, evdi_connect(a, h, s)
        PROVE  LibTypeOK'
    BY <2>7 DEF evdi_connect, libVars
  <2>8. ASSUME NEW h \in Handles, evdi_disconnect(a, h)
        PROVE  LibTypeOK'
    BY <2>8 DEF evdi_disconnect, libVars
  <2>9. ASSUME NEW h \in Handles, evdi_close(a, h)
        PROVE  LibTypeOK'
    <3>1. [i \in Minors |-> IF card_usage[a][i] = h THEN EVDI_INVALID_HANDLE
                            ELSE card_usage[a][i]]
            \in [Minors -> Handles \cup {EVDI_INVALID_HANDLE}]
      OBVIOUS
    <3> QED
      BY <2>9, <3>1 DEF evdi_close, Indices
  <2> QED
    BY <1>3, <2>1, <2>2, <2>3, <2>4, <2>5, <2>6, <2>7, <2>8, <2>9 DEF LibStep
<1> QED
  BY <1>1, <1>2, <1>3 DEF CardsNext

\* The card that a search has found stays unused until it is opened: a program
\* makes one call at a time.
FoundIsUnused ==
  \A a \in Clients, i \in Minors :
    call[a].pc = "open" /\ call[a].index = i =>
      card_usage[a][i] = EVDI_INVALID_HANDLE

UsageInv == UsageExact /\ FoundIsUnused

LEMMA UsageInvNext ==
  OpensOnce /\ LibTypeOK /\ UsageInv /\ CardsNext => UsageInv'
<1> SUFFICES ASSUME OpensOnce, LibTypeOK, UsageInv, CardsNext PROVE UsageInv'
  OBVIOUS
<1> USE DEF LibTypeOK, UsageInv
<1>1. CASE UNCHANGED <<libVars, call>>
  BY <1>1 DEF UsageExact, FoundIsUnused, libVars
<1>2. CASE KernelStep \/ evdi_drm_device_remove
  BY <1>1, <1>2 DEF KernelStep, evdi_drm_device_remove
<1>3. ASSUME NEW a \in Clients, LibStep(a)
      PROVE  UsageInv'
  \* Steps that open and close nothing.
  <2>1. ASSUME UNCHANGED libVars,
               \A b \in Clients \ {a} : call'[b] = call[b],
               \A i \in Minors : call'[a].pc = "open" /\ call'[a].index = i =>
                                 card_usage[a][i] = EVDI_INVALID_HANDLE
        PROVE  UsageInv'
    <3>1. UsageExact'
      BY <2>1 DEF UsageExact, libVars
    <3>2. ASSUME NEW b \in Clients, NEW i \in Minors,
                 call'[b].pc = "open" /\ call'[b].index = i
          PROVE  card_usage[b][i] = EVDI_INVALID_HANDLE
      <4>1. CASE b = a
        BY <2>1, <3>2, <4>1
      <4>2. CASE b # a
        BY <2>1, <3>2, <4>2 DEF FoundIsUnused
      <4> QED
        BY <4>1, <4>2
    <3> QED
      BY <2>1, <3>1, <3>2 DEF FoundIsUnused, libVars
  <2>2. CASE \E want \in Links : evdi_open_attached_to_fixed(a, want)
    BY <2>1, <2>2 DEF evdi_open_attached_to_fixed, NoLibCall
  <2>3. ASSUME NEW s \in Slots, find_unused_card_for(a, s)
        PROVE  UsageInv'
    BY <2>1, <2>3 DEF find_unused_card_for, get_drm_device_index, LibCall
  <2>4. CASE \/ \E want \in Links : write_add_device(a, want)
             \/ AddReturns(a) \/ OpenFails(a)
    BY <2>1, <2>4
    DEF write_add_device, AddReturns, OpenFails, NoLibCall, LibCall
  <2>5. ASSUME NEW index \in Minors, evdi_open(a, index)
        PROVE  UsageInv'
    <3> DEFINE h == Min(Handles \ OpenHandles(a))
    <3>1. h \in Handles /\ device_index[a][h] = EVDI_INVALID_DEVICE_INDEX
      BY <2>5, NewHandle DEF evdi_open, OpenHandles
    <3>2. /\ device_index' = [device_index EXCEPT ![a][h] = index]
          /\ card_usage' = [card_usage EXCEPT ![a][index] = h]
          /\ call' = [call EXCEPT ![a] = NoLibCall]
      BY <2>5 DEF evdi_open
    <3>3. card_usage[a][index] = EVDI_INVALID_HANDLE
      BY <2>5 DEF evdi_open, FoundIsUnused
    <3>4. \A k \in Handles : device_index[a][k] # index
      BY <3>3 DEF UsageExact
    <3>5. index # EVDI_INVALID_DEVICE_INDEX /\ h # EVDI_INVALID_HANDLE
      BY <3>1, HandlesAssumption
         DEF Minors, EVDI_INVALID_DEVICE_INDEX, EVDI_INVALID_HANDLE, Handles
    <3> HIDE DEF h
    <3>6. ASSUME NEW b \in Clients, NEW i \in Minors
          PROVE  {k \in Handles : device_index'[b][k] = i} =
                   {card_usage'[b][i]} \ {EVDI_INVALID_HANDLE}
      <4>1. CASE b # a
        BY <3>2, <4>1 DEF UsageExact
      <4>2. CASE b = a /\ i = index
        <5>1. \A k \in Handles : device_index'[b][k] = i <=> k = h
          BY <3>1, <3>2, <3>4, <4>2
        <5>2. card_usage'[b][i] = h
          BY <3>2, <4>2
        <5> QED
          BY <3>1, <3>5, <5>1, <5>2
      <4>3. CASE b = a /\ i # index
        <5>1. \A k \in Handles :
                device_index'[b][k] = i <=> device_index[b][k] = i
          BY <3>1, <3>2, <4>3 DEF Minors, EVDI_INVALID_DEVICE_INDEX
        <5>2. card_usage'[b][i] = card_usage[b][i]
          BY <3>2, <4>3
        <5> QED
          BY <5>1, <5>2 DEF UsageExact
      <4> QED
        BY <4>1, <4>2, <4>3
    <3>7. FoundIsUnused'
      BY <3>2 DEF FoundIsUnused, NoLibCall
    <3> QED
      BY <3>6, <3>7 DEF UsageExact
  <2>6. CASE \/ evdi_add_device(a)
             \/ \E h \in Handles, s \in Slots : evdi_connect(a, h, s)
             \/ \E h \in Handles : evdi_disconnect(a, h)
    BY <1>1, <2>6 DEF evdi_add_device, evdi_connect, evdi_disconnect
  <2>7. ASSUME NEW h \in Handles, evdi_close(a, h)
        PROVE  UsageInv'
    <3>1. /\ device_index' =
               [device_index EXCEPT ![a][h] = EVDI_INVALID_DEVICE_INDEX]
          /\ card_usage' = [card_usage EXCEPT ![a] =
               [i \in Minors |-> IF card_usage[a][i] = h
                                THEN EVDI_INVALID_HANDLE
                                ELSE card_usage[a][i]]]
          /\ UNCHANGED call /\ call[a].pc = "idle"
      BY <2>7 DEF evdi_close, CanCall
    <3>2. h # EVDI_INVALID_HANDLE
      BY DEF Handles, EVDI_INVALID_HANDLE
    <3>3. ASSUME NEW b \in Clients, NEW i \in Minors
          PROVE  {k \in Handles : device_index'[b][k] = i} =
                   {card_usage'[b][i]} \ {EVDI_INVALID_HANDLE}
      <4>1. CASE b # a
        BY <3>1, <4>1 DEF UsageExact
      <4>2. CASE b = a
        <5>1. \A k \in Handles : device_index'[b][k] = i <=>
                                 k # h /\ device_index[b][k] = i
          BY <3>1, <4>2 DEF Minors, EVDI_INVALID_DEVICE_INDEX
        <5>2. {card_usage'[b][i]} \ {EVDI_INVALID_HANDLE} =
                ({card_usage[b][i]} \ {EVDI_INVALID_HANDLE}) \ {h}
          BY <3>1, <3>2, <4>2
        <5>3. {k \in Handles : device_index[b][k] = i} =
                {card_usage[b][i]} \ {EVDI_INVALID_HANDLE}
          BY DEF UsageExact
        <5> QED
          BY <5>1, <5>2, <5>3
      <4> QED
        BY <4>1, <4>2
    <3>4. FoundIsUnused'
      BY <3>1 DEF FoundIsUnused
    <3> QED
      BY <3>3, <3>4 DEF UsageExact
  <2> QED
    BY <1>3, <2>2, <2>3, <2>4, <2>5, <2>6, <2>7 DEF LibStep
<1> QED
  BY <1>2, <1>3 DEF CardsNext

\* card_usage of a program that opens each card once is exact: no search hands
\* out a card that the program has open, none that it has closed stays taken.
THEOREM UsageAlwaysExact == OpensOnce => (CardsSpec => []UsageExact)
<1> SUFFICES ASSUME OpensOnce PROVE CardsSpec => []UsageExact
  OBVIOUS
<1>1. CardsInit => UsageInv
  BY DEF CardsInit, UsageInv, UsageExact, FoundIsUnused, NoLibCall, Minors,
         EVDI_INVALID_DEVICE_INDEX
<1>2. LibTypeOK /\ UNCHANGED allVars => LibTypeOK'
  BY DEF LibTypeOK, allVars, cardVars, fileVars, libVars
<1>3. UsageInv /\ UNCHANGED allVars => UsageInv'
  BY DEF UsageInv, UsageExact, FoundIsUnused, allVars, cardVars, libVars
<1>4. TypeOK /\ LibTypeOK /\ [CardsNext]_allVars => LibTypeOK'
  BY <1>2, LibTypeNext
<1>5. LibTypeOK /\ UsageInv /\ [CardsNext]_allVars => UsageInv'
  BY <1>3, UsageInvNext
<1>6. UsageInv => UsageExact
  BY DEF UsageInv
<1> QED
  BY <1>1, <1>4, <1>5, <1>6, LibTypeInit, CardsImplementPlatform,
     PlatformTypeCorrect, PTL DEF CardsSpec

-----------------------------------------------------------------------------
(***************************************************************************)
(* What a search finds is what is opened: any number of programs, handles  *)
(* and other writers.                                                      *)
(***************************************************************************)

\* Every device has a card.
DevicesHaveCards ==
  \A s \in devices : card[s] # EVDI_INVALID_DEVICE_INDEX

\* A program that searches or opens has nothing to do in the kernel; one that
\* adds a device asks for what it searches for.
CallPlace ==
  \A a \in Clients :
    /\ call[a].pc \in {"find", "open"} => thread[a] = Idle
    /\ call[a].pc = "add" =>
         /\ call[a].seen = {}
         /\ thread[a] # Idle =>
              thread[a].want = call[a].want /\ thread[a].left = 1

\* Bad luck is noted when it strikes.
UnluckyIsExcused ==
  \A a \in Clients : call[a].pc # "idle" /\ Unlucky(a) => excused[a]

\* What the invariants of the table give to the proofs about cards.
TableOK == TypeOK /\ LinkInv /\ AtDevices

LEMMA SpecTableOK == CardsSpec => [](TableOK /\ LibTypeOK)
<1>1. LibTypeOK /\ UNCHANGED allVars => LibTypeOK'
  BY DEF LibTypeOK, allVars, cardVars, fileVars, libVars
<1>2. TypeOK /\ LibTypeOK /\ [CardsNext]_allVars => LibTypeOK'
  BY <1>1, LibTypeNext
<1>3. TypeOK /\ LinkInv /\ AtDevices => TableOK
  BY DEF TableOK
<1> QED
  BY <1>2, <1>3, LibTypeInit, CardsImplementPlatform, PlatformTypeCorrect,
     LinksConsistent, LinksAtDevices, PTL DEF CardsSpec

\* A step of the kernel keeps the devices and their cards; a new device gets a
\* card of its own.
LEMMA KernelTouches ==
  ASSUME TableOK, LibTypeOK, KernelStep
  PROVE  /\ UNCHANGED <<connected, libVars, call>>
         /\ devices \subseteq devices'
         /\ \A s \in devices : card'[s] = card[s]
         /\ \A s \in devices' \ devices :
              card'[s] \in Minors /\ card'[s] \notin Allocated
<1>1. devices \subseteq devices' /\ UNCHANGED connected
  <2>1. ASSUME NEW a \in Writers, AddStep(a)
        PROVE  devices \subseteq devices' /\ UNCHANGED connected
    BY <2>1, WriterTouches DEF TableOK
  <2>2. ASSUME NEW q \in Parents, UsbStep(q)
        PROVE  devices \subseteq devices' /\ UNCHANGED connected
    BY <2>2, NotifierTouches DEF TableOK
  <2> QED
    BY <2>1, <2>2 DEF KernelStep
<1>2. devices' \subseteq Slots
  <2>1. TypeOK'
    <3>1. Next
      BY DEF KernelStep, Next
    <3> QED
      BY <3>1, PlatformTypeNext DEF TableOK
  <2> QED
    BY <2>1 DEF TypeOK
<1>3. CASE UNCHANGED <<devices, card>>
  BY <1>1, <1>3 DEF KernelStep
<1>4. ASSUME NEW i \in Minors, IsNewMinor(i),
             card' = [s \in Slots |-> IF s \in devices' \ devices THEN i
                                      ELSE card[s]]
      PROVE  /\ \A s \in devices : card'[s] = card[s]
             /\ \A s \in devices' \ devices :
                  card'[s] \in Minors /\ card'[s] \notin Allocated
  BY <1>1, <1>2, <1>4 DEF IsNewMinor
<1> QED
  BY <1>1, <1>3, <1>4 DEF KernelStep, evdi_drm_device_create

\* A step of a program changes no link, no device and no card, but it may add
\* a request to the kernel's work.
LEMMA LibTouches ==
  ASSUME NEW a \in Clients, LibStep(a)
  PROVE  /\ UNCHANGED <<tableVars, linkVars, usbVars, card>>
         /\ \A b \in Writers \ {a} : thread'[b] = thread[b]
<1>1. ASSUME NEW want, NEW n, add_store(a, want, n), UNCHANGED fileVars
      PROVE  /\ UNCHANGED <<tableVars, linkVars, usbVars, card>>
             /\ \A b \in Writers \ {a} : thread'[b] = thread[b]
  BY <1>1 DEF add_store, deviceVars, fileVars
<1>2. CASE UNCHANGED <<vars, card>>
  BY <1>2 DEF vars, deviceVars
<1>3. ASSUME NEW s, Connect(s) \/ Disconnect(s), UNCHANGED card
      PROVE  /\ UNCHANGED <<tableVars, linkVars, usbVars, card>>
             /\ \A b \in Writers \ {a} : thread'[b] = thread[b]
  BY <1>3 DEF Connect, Disconnect
<1> QED
  BY <1>1, <1>2, <1>3
     DEF LibStep, evdi_open_attached_to_fixed, find_unused_card_for,
         write_add_device, AddReturns, OpenFails, evdi_add_device, evdi_open,
         evdi_connect, evdi_disconnect, evdi_close, DisconnectFile, fileVars

LEMMA DevicesHaveCardsNext ==
  TableOK /\ LibTypeOK /\ DevicesHaveCards /\ CardsNext => DevicesHaveCards'
<1> SUFFICES ASSUME TableOK, LibTypeOK, DevicesHaveCards, CardsNext
             PROVE  DevicesHaveCards'
  OBVIOUS
<1> USE DEF DevicesHaveCards
<1>1. CASE KernelStep
  <2>1. \A i \in Minors : i # EVDI_INVALID_DEVICE_INDEX
    BY DEF Minors, EVDI_INVALID_DEVICE_INDEX
  <2> QED
    BY <1>1, <2>1, KernelTouches
<1>2. CASE evdi_drm_device_remove
  BY <1>2 DEF evdi_drm_device_remove, evdi_platform_remove_all_devices
<1>3. ASSUME NEW a \in Clients, LibStep(a)
      PROVE  DevicesHaveCards'
  BY <1>3, LibTouches DEF tableVars
<1> QED
  BY <1>1, <1>2, <1>3 DEF CardsNext

\* What a step does to the call of one program.
LEMMA CallPlaceNext ==
  TableOK /\ LibTypeOK /\ CallPlace /\ CardsNext => CallPlace'
<1> SUFFICES ASSUME TableOK, LibTypeOK, CallPlace, CardsNext PROVE CallPlace'
  OBVIOUS
<1>a. thread \in [Writers -> WriterCall] /\ call \in [Clients -> LibCall]
  BY DEF TableOK, TypeOK, WriterCall, LibTypeOK
<1>b. ASSUME NEW a \in Clients, UNCHANGED <<call[a], thread[a]>>
      PROVE  /\ call'[a].pc \in {"find", "open"} => thread'[a] = Idle
             /\ call'[a].pc = "add" =>
                  /\ call'[a].seen = {}
                  /\ thread'[a] # Idle =>
                       thread'[a].want = call'[a].want /\ thread'[a].left = 1
  BY <1>b DEF CallPlace
<1>1. ASSUME NEW b \in Writers, AddStep(b),
             thread[b] = Idle => b \notin Clients,
             UNCHANGED call
      PROVE  CallPlace'
  <2>1. \A a \in Clients \ {b} : UNCHANGED <<call[a], thread[a]>>
    BY <1>1, WriterTouches, ClientsAssumption DEF TableOK
  <2>2. ASSUME b \in Clients
        PROVE  /\ call[b].pc \notin {"find", "open"}
               /\ call[b].pc = "add" /\ thread'[b] # Idle =>
                    thread'[b].want = call[b].want /\ thread'[b].left = 1
    <3>1. thread[b] # Idle /\ call[b].pc \notin {"find", "open"}
      BY <1>1, <2>2 DEF CallPlace
    <3>2. SUFFICES ASSUME call[b].pc = "add", thread'[b] # Idle
                   PROVE  /\ thread'[b].want = call[b].want
                          /\ thread'[b].left = 1
      BY <3>1
    <3>3. thread[b].want = call[b].want /\ thread[b].left = 1
      BY <2>2, <3>1, <3>2 DEF CallPlace
    <3>4. CASE evdi_platform_drv_create_new_device(b)
      <4>1. PICK id : thread' = [thread EXCEPT ![b] = Added(b, id)]
                      \/ thread' = [thread EXCEPT ![b] = Idle]
        BY <3>4 DEF evdi_platform_drv_create_new_device
      <4>2. Added(b, id) # Idle =>
              /\ Added(b, id).want = thread[b].want
              /\ Added(b, id).left = thread[b].left
        BY <1>a, <3>3 DEF Added, WriterCall
      <4> QED
        BY <1>a, <3>2, <3>3, <4>1, <4>2
    <3>5. CASE evdi_platform_drv_get_free_device(b)
      <4>1. PICK id : thread' = [thread EXCEPT ![b].pc = "link", ![b].slot = id]
        BY <3>5 DEF evdi_platform_drv_get_free_device
      <4> QED
        BY <1>a, <3>3, <4>1 DEF WriterCall
    <3>6. CASE \/ evdi_platform_device_attach(b) \/ evdi_platform_add_devices(b)
               \/ LinkCheck(b) \/ LinkCreate(b) \/ LinkMark(b)
      BY <1>a, <3>2, <3>3, <3>6
         DEF evdi_platform_device_attach, evdi_platform_add_devices,
             LinkCheck, LinkCreate, LinkMark, WriterCall
    <3> QED
      BY <1>1, <3>1, <3>4, <3>5, <3>6 DEF AddStep, add_store
  <2> QED
    BY <1>1, <1>b, <2>1, <2>2 DEF CallPlace
<1>2. CASE KernelStep
  <2>1. ASSUME NEW q \in Parents, UsbStep(q), UNCHANGED call
        PROVE  CallPlace'
    BY <1>b, <2>1, NotifierTouches DEF TableOK, CallPlace
  <2> QED
    BY <1>1, <1>2, <2>1 DEF KernelStep
<1>3. CASE evdi_drm_device_remove
  BY <1>b, <1>3
     DEF evdi_drm_device_remove, evdi_platform_remove_all_devices, CallPlace
<1>4. ASSUME NEW a \in Clients, LibStep(a)
      PROVE  CallPlace'
  <2>1. \A b \in Clients \ {a} : UNCHANGED <<call[b], thread[b]>>
    <3>1. \A b \in Clients \ {a} : UNCHANGED thread[b]
      BY <1>4, LibTouches, ClientsAssumption
    <3>2. \A b \in Clients \ {a} : UNCHANGED call[b]
      BY <1>4
         DEF LibStep, LibTypeOK, evdi_open_attached_to_fixed,
             find_unused_card_for, write_add_device, AddReturns, OpenFails,
             evdi_add_device, evdi_open, evdi_connect, evdi_disconnect,
             evdi_close
    <3> QED
      BY <3>1, <3>2
  <2>a. ASSUME call'[a].pc \in {"find", "open"} => thread'[a] = Idle,
               call'[a].pc = "add" =>
                  /\ call'[a].seen = {}
                  /\ thread'[a] # Idle =>
                       thread'[a].want = call'[a].want /\ thread'[a].left = 1
        PROVE  CallPlace'
    BY <1>b, <2>1, <2>a DEF CallPlace
  <2>2. CASE \E want \in Links : evdi_open_attached_to_fixed(a, want)
    BY <1>a, <2>2, <2>a
       DEF evdi_open_attached_to_fixed, CanCall, NoLibCall, vars
  <2>3. CASE \E s \in Slots : find_unused_card_for(a, s)
    <3>1. call[a].pc = "find" /\ call'[a].pc \in {"find", "open"}
      BY <1>a, <2>3 DEF find_unused_card_for, LibCall
    <3>2. thread[a] = Idle /\ thread'[a] = thread[a]
      BY <2>3, <3>1 DEF find_unused_card_for, CallPlace, vars
    <3> QED
      BY <2>a, <3>1, <3>2
  <2>4. ASSUME NEW want \in Links, write_add_device(a, want)
        PROVE  CallPlace'
    <3>1. /\ call'[a].pc = "add" /\ call'[a].seen = {}
          /\ call'[a].want = want
      BY <1>a, <2>4 DEF write_add_device, LibCall
    <3>2. thread'[a].want = want /\ thread'[a].left = 1
      BY <1>a, <2>4, ClientsAssumption DEF write_add_device, add_store
    <3> QED
      BY <2>a, <3>1, <3>2
  <2>5. CASE AddReturns(a)
    <3>1. call'[a].pc = "find" /\ thread'[a] = Idle
      BY <1>a, <2>5 DEF AddReturns, LibCall, vars
    <3> QED
      BY <2>a, <3>1
  <2>6. CASE OpenFails(a) \/ \E index \in Minors : evdi_open(a, index)
    <3>1. call'[a].pc = "idle"
      BY <1>a, <2>6 DEF OpenFails, evdi_open, NoLibCall
    <3> QED
      BY <2>a, <3>1
  <2>7. CASE \/ evdi_add_device(a)
             \/ \E h \in Handles, s \in Slots : evdi_connect(a, h, s)
             \/ \E h \in Handles : evdi_disconnect(a, h) \/ evdi_close(a, h)
    <3>1. call'[a].pc = "idle"
      BY <2>7
         DEF evdi_add_device, evdi_connect, evdi_disconnect, evdi_close,
             CanCall
    <3> QED
      BY <2>a, <3>1
  <2> QED
    BY <1>4, <2>2, <2>3, <2>4, <2>5, <2>6, <2>7 DEF LibStep
<1> QED
  BY <1>2, <1>3, <1>4 DEF CardsNext

LEMMA ExcusedNext == CardsNext => UnluckyIsExcused'
BY DEF CardsNext, NoteExcuses, UnluckyIsExcused

\* In a call that is not excused, no other writer links devices, the USB device
\* is there, and the devices have not been removed.
LEMMA LuckyStep ==
  ASSUME UnluckyIsExcused, CardsNext, NEW a \in Clients,
         call[a].pc # "idle", call'[a].pc # "idle", ~excused'[a]
  PROVE  /\ ~excused[a] /\ ~Unlucky(a) /\ ~Unlucky(a)' /\ ~NoRoom(a)
         /\ devices' = {} => devices = {}
<1>1. /\ ~excused[a] /\ ~Unlucky(a)' /\ ~NoRoom(a)
      /\ devices' = {} => devices = {}
  BY DEF CardsNext, NoteExcuses
<1> QED
  BY <1>1 DEF UnluckyIsExcused

\* Devices come and stay, with their cards, until all are removed.
LEMMA DevicesStay ==
  ASSUME TableOK, LibTypeOK, CardsNext, devices' = {} => devices = {},
         NEW s \in devices
  PROVE  s \in devices' /\ card'[s] = card[s]
<1>1. CASE KernelStep
  BY <1>1, KernelTouches
<1>2. CASE evdi_drm_device_remove
  BY <1>2 DEF evdi_drm_device_remove, evdi_platform_remove_all_devices
<1>3. ASSUME NEW b \in Clients, LibStep(b)
      PROVE  s \in devices' /\ card'[s] = card[s]
  BY <1>3, LibTouches DEF tableVars
<1> QED
  BY <1>1, <1>2, <1>3 DEF CardsNext

\* The devices that a lucky search wants keep their links.
LEMMA LinksStay ==
  ASSUME TableOK, CardsNext, NEW a \in Clients,
         ~Unlucky(a), ~Unlucky(a)', call'[a].want = call[a].want,
         thread[a].pc # "create",
         NEW s \in devices, s \in devices', link[s] = call[a].want
  PROVE  link'[s] = link[s]
<1>a. /\ thread \in [Writers -> WriterCall] /\ usb \in [Parents -> UsbCall]
      /\ link \in [Slots -> Links] /\ s \in Slots
  BY DEF TableOK, TypeOK, UsbCall, WriterCall
<1>1. ASSUME NEW b \in Writers, AddStep(b)
      PROVE  link'[s] = link[s]
  <2>1. SUFFICES ASSUME thread[b].pc = "create"
                 PROVE  link'[s] = link[s]
    BY <1>1, WriterTouches DEF TableOK
  <2>2. thread[b].want # NoParent /\ b # a
    BY <2>1 DEF TableOK, LinkInv, MarksOwn
  <2> QED
    BY <2>2 DEF Unlucky
<1>2. ASSUME NEW q \in Parents, UsbStep(q)
      PROVE  link'[s] = link[s]
  <2>1. \/ UNCHANGED link
        \/ /\ q \notin present' /\ link[usb[q].slot] = q
           /\ link' = [link EXCEPT ![usb[q].slot] = NoParent]
    BY <1>2, NotifierTouches DEF TableOK
  <2>2. q \in present' \/ call[a].want # q
    BY NoParentAssumption DEF Unlucky
  <2> QED
    BY <1>a, <2>1, <2>2
<1>3. CASE evdi_drm_device_remove
  BY <1>3 DEF evdi_drm_device_remove, evdi_platform_remove_all_devices
<1>4. ASSUME NEW b \in Clients, LibStep(b)
      PROVE  link'[s] = link[s]
  BY <1>4, LibTouches DEF linkVars
<1> QED
  BY <1>1, <1>2, <1>3, <1>4 DEF CardsNext, KernelStep

\* The kernel never changes a call.
LEMMA CallSteps ==
  ASSUME LibTypeOK, CardsNext, NEW a \in Clients
  PROVE  call'[a] = call[a] \/ LibStep(a)
<1>1. ASSUME NEW b \in Clients \ {a}, LibStep(b)
      PROVE  call'[a] = call[a]
  BY <1>1
     DEF LibStep, LibTypeOK, evdi_open_attached_to_fixed,
         find_unused_card_for, write_add_device, AddReturns, OpenFails,
         evdi_add_device, evdi_open, evdi_connect, evdi_disconnect, evdi_close
<1> QED
  BY <1>1 DEF CardsNext, KernelStep, evdi_drm_device_remove

\* A call that is about to open has just found its card, or goes on waiting.
LEMMA OpenSteps ==
  ASSUME LibTypeOK, NEW a \in Clients, LibStep(a), call'[a].pc = "open"
  PROVE  \/ call'[a] = call[a]
         \/ \E s \in devices :
              /\ call[a].pc = "find" /\ call'[a].want = call[a].want
              /\ card[s] = call'[a].index /\ link[s] = call'[a].want
              /\ UNCHANGED <<vars, fileVars>>
<1>a. call \in [Clients -> LibCall]
  BY DEF LibTypeOK
<1>1. ASSUME NEW s \in Slots, find_unused_card_for(a, s)
      PROVE  \E t \in devices :
               /\ call[a].pc = "find" /\ call'[a].want = call[a].want
               /\ card[t] = call'[a].index /\ link[t] = call'[a].want
               /\ UNCHANGED <<vars, fileVars>>
  <2>1. s \in devices /\ call[a].pc = "find" /\ UNCHANGED <<vars, fileVars>>
    BY <1>1 DEF find_unused_card_for
  <2>2. /\ link[s] = call[a].want
        /\ call'[a] = [call[a] EXCEPT !.pc = "open", !.index = card[s]]
    BY <1>a, <1>1
       DEF find_unused_card_for, LibCall, get_drm_device_index,
           is_correct_parent_device
  <2>3. call'[a].want = call[a].want /\ call'[a].index = card[s]
    BY <1>a, <2>2 DEF LibCall
  <2> QED
    BY <2>1, <2>2, <2>3
<1>2. CASE \/ \E want \in Links : evdi_open_attached_to_fixed(a, want)
           \/ \E want \in Links : write_add_device(a, want)
           \/ AddReturns(a) \/ OpenFails(a)
           \/ \E index \in Minors : evdi_open(a, index)
  <2>1. CASE \E want \in Links : evdi_open_attached_to_fixed(a, want)
    BY <1>a, <2>1 DEF evdi_open_attached_to_fixed, NoLibCall
  <2>2. CASE \E want \in Links : write_add_device(a, want)
    BY <1>a, <2>2 DEF write_add_device, LibCall
  <2>3. CASE AddReturns(a)
    BY <1>a, <2>3 DEF AddReturns, LibCall
  <2>4. CASE OpenFails(a) \/ \E index \in Minors : evdi_open(a, index)
    BY <1>a, <2>4 DEF OpenFails, evdi_open, NoLibCall
  <2> QED
    BY <1>2, <2>1, <2>2, <2>3, <2>4
<1> QED
  BY <1>1, <1>2
     DEF LibStep, evdi_add_device, evdi_connect, evdi_disconnect, evdi_close

LEMMA OpensWhatItFoundNext ==
  /\ TableOK /\ LibTypeOK /\ CallPlace /\ UnluckyIsExcused
  /\ OpensWhatItFound /\ CardsNext
  => OpensWhatItFound'
<1> SUFFICES ASSUME TableOK, LibTypeOK, CallPlace, UnluckyIsExcused,
                    OpensWhatItFound, CardsNext,
                    NEW a \in Clients, call'[a].pc = "open", ~excused'[a]
             PROVE  \E s \in devices' : /\ card'[s] = call'[a].index
                                        /\ link'[s] = call'[a].want
  BY DEF OpensWhatItFound
<1>1. CASE call'[a] = call[a]
  <2>1. /\ ~excused[a] /\ ~Unlucky(a) /\ ~Unlucky(a)'
        /\ devices' = {} => devices = {}
    BY <1>1, LuckyStep
  <2>2. PICK s \in devices : card[s] = call[a].index /\ link[s] = call[a].want
    BY <1>1, <2>1 DEF OpensWhatItFound
  <2>3. s \in devices' /\ card'[s] = card[s]
    BY <2>1, DevicesStay
  <2>4. thread[a].pc # "create"
    BY <1>1 DEF CallPlace, Idle
  <2>5. link'[s] = link[s]
    BY <1>1, <2>1, <2>2, <2>3, <2>4, LinksStay
  <2> QED
    BY <1>1, <2>2, <2>3, <2>5
<1>2. CASE call'[a] # call[a]
  <2>1. PICK s \in devices : /\ card[s] = call'[a].index
                             /\ link[s] = call'[a].want
                             /\ UNCHANGED <<vars, fileVars>>
    BY <1>2, CallSteps, OpenSteps
  <2> QED
    BY <2>1 DEF vars, deviceVars, tableVars, linkVars, fileVars
<1> QED
  BY <1>1, <1>2

SearchInv == CallPlace /\ UnluckyIsExcused /\ OpensWhatItFound

LEMMA SpecSearchInv == CardsSpec => []SearchInv
<1>1. CardsInit => SearchInv
  BY DEF CardsInit, SearchInv, CallPlace, UnluckyIsExcused, OpensWhatItFound,
         NoLibCall, Init
<1>2. SearchInv /\ UNCHANGED allVars => SearchInv'
  BY DEF SearchInv, CallPlace, UnluckyIsExcused, OpensWhatItFound, Unlucky,
         allVars, cardVars, fileVars, vars, deviceVars, tableVars, linkVars,
         usbVars
<1>3. TableOK /\ LibTypeOK /\ SearchInv /\ CardsNext => SearchInv'
  BY CallPlaceNext, ExcusedNext, OpensWhatItFoundNext DEF SearchInv
<1>4. TableOK /\ LibTypeOK /\ SearchInv /\ [CardsNext]_allVars => SearchInv'
  BY <1>2, <1>3
<1> QED
  BY <1>1, <1>4, SpecTableOK, PTL DEF CardsSpec

\* open_device gets the number of a card on a device with the parent that was
\* asked for, unless the program had bad luck since its search read the number:
\* for any number of programs, handles and writers, and programs that open
\* cards twice or leave them unconnected.
THEOREM FoundIsOpened == CardsSpec => []OpensWhatItFound
<1>1. SearchInv => OpensWhatItFound
  BY DEF SearchInv
<1> QED
  BY <1>1, SpecSearchInv, PTL

-----------------------------------------------------------------------------
(***************************************************************************)
(* A device that was added is found: for one program that connects what it *)
(* opens, against any other writers and USB devices.  Another program could*)
(* connect the free device between the kernel's choice and its link, and a *)
(* program with a handle that is not connected is given its own device     *)
(* again, whose card it does not look at.                                  *)
(***************************************************************************)

OneClient == \A a, b \in Clients : a = b

\* The table of a program has no card that is not open: it may lack one that
\* the program has opened twice.
UsageOpen ==
  \A a \in Clients, i \in Minors :
    card_usage[a][i] # EVDI_INVALID_HANDLE =>
      device_index[a][card_usage[a][i]] = i

\* While a call is in progress, the program's cards stay connected.
OwnConnected ==
  \A a \in Clients : call[a].pc # "idle" /\ ~excused[a] => AllConnected(a)

Unused(a, s) ==
  s \in devices /\ card_usage[a][card[s]] = EVDI_INVALID_HANDLE

\* The search of a takes device s.
Fits(a, s) == Unused(a, s) /\ link[s] = call[a].want

\* The request to the kernel ends with a device that fits: what it is about to
\* link is unused, unlinked and free.
AddsWhatFits ==
  \A a \in Clients : call[a].pc = "add" /\ ~excused[a] =>
    /\ thread[a].pc \in {"link", "create"} =>
         /\ Unused(a, thread[a].slot) /\ link[thread[a].slot] = NoParent
         /\ evdi_platform_device_is_free(thread[a].slot)
    /\ thread[a].pc = "mark" => Fits(a, thread[a].slot)
    /\ thread[a].pc = "idle" => \E s \in devices : Fits(a, s)

\* The second search has not looked at a device that fits.
FindsWhatFits ==
  \A a \in Clients : call[a].pc = "find" /\ call[a].again /\ ~excused[a] =>
    \E s \in devices \ call[a].seen : Fits(a, s)

LEMMA UsageOpenNext ==
  LibTypeOK /\ UsageOpen /\ CardsNext => UsageOpen'
<1> SUFFICES ASSUME LibTypeOK, UsageOpen, CardsNext PROVE UsageOpen'
  OBVIOUS
<1> USE DEF LibTypeOK
<1>1. CASE UNCHANGED libVars
  BY <1>1 DEF UsageOpen, libVars
<1>2. ASSUME NEW a \in Clients, NEW index \in Minors, evdi_open(a, index)
      PROVE  UsageOpen'
  <2> DEFINE h == Min(Handles \ OpenHandles(a))
  <2>1. h \in Handles /\ device_index[a][h] = EVDI_INVALID_DEVICE_INDEX
    BY <1>2, NewHandle DEF evdi_open, OpenHandles
  <2>2. /\ device_index' = [device_index EXCEPT ![a][h] = index]
        /\ card_usage' = [card_usage EXCEPT ![a][index] = h]
    BY <1>2 DEF evdi_open
  <2> HIDE DEF h
  <2>3. SUFFICES ASSUME NEW b \in Clients, NEW i \in Minors,
                        card_usage'[b][i] # EVDI_INVALID_HANDLE
                 PROVE  device_index'[b][card_usage'[b][i]] = i
    BY DEF UsageOpen
  <2>4. CASE b = a /\ i = index
    BY <2>1, <2>2, <2>4
  <2>5. CASE ~(b = a /\ i = index)
    <3>1. card_usage'[b][i] = card_usage[b][i]
      BY <2>2, <2>5
    <3>2. device_index[b][card_usage[b][i]] = i
      BY <2>3, <3>1 DEF UsageOpen
    <3>3. i # EVDI_INVALID_DEVICE_INDEX
      BY DEF Minors, EVDI_INVALID_DEVICE_INDEX
    <3>4. ~(b = a /\ card_usage[b][i] = h)
      BY <2>1, <3>2, <3>3
    <3> QED
      BY <2>1, <2>2, <2>3, <3>1, <3>2, <3>4
  <2> QED
    BY <2>4, <2>5
<1>3. ASSUME NEW a \in Clients, NEW h \in Handles, evdi_close(a, h)
      PROVE  UsageOpen'
  <2>1. /\ device_index' =
             [device_index EXCEPT ![a][h] = EVDI_INVALID_DEVICE_INDEX]
        /\ card_usage' = [card_usage EXCEPT ![a] =
             [i \in Minors |-> IF card_usage[a][i] = h THEN EVDI_INVALID_HANDLE
                               ELSE card_usage[a][i]]]
    BY <1>3 DEF evdi_close
  <2>2. SUFFICES ASSUME NEW b \in Clients, NEW i \in Minors,
                        card_usage'[b][i] # EVDI_INVALID_HANDLE
                 PROVE  device_index'[b][card_usage'[b][i]] = i
    BY DEF UsageOpen
  <2>3. card_usage'[b][i] = card_usage[b][i] /\ ~(b = a /\ card_usage[b][i] = h)
    BY <2>1, <2>2
  <2>4. device_index[b][card_usage[b][i]] = i /\ card_usage[b][i] \in Handles
    BY <2>2, <2>3 DEF UsageOpen
  <2> QED
    BY <2>1, <2>3, <2>4
<1>4. CASE KernelStep \/ evdi_drm_device_remove
  BY <1>1, <1>4 DEF KernelStep, evdi_drm_device_remove
<1>5. ASSUME NEW a \in Clients, LibStep(a)
      PROVE  UsageOpen'
  BY <1>1, <1>2, <1>3, <1>5
     DEF LibStep, evdi_open_attached_to_fixed, find_unused_card_for,
         write_add_device, AddReturns, OpenFails, evdi_add_device,
         evdi_connect, evdi_disconnect
<1> QED
  BY <1>4, <1>5 DEF CardsNext

\* The steps that leave the only program in its call.
LEMMA BusySteps ==
  ASSUME OneClient, LibTypeOK, CardsNext, NEW a \in Clients,
         call[a].pc # "idle", call'[a].pc # "idle"
  PROVE  \/ KernelStep \/ evdi_drm_device_remove
         \/ \E s \in Slots : find_unused_card_for(a, s)
         \/ \E want \in Links : write_add_device(a, want)
         \/ AddReturns(a)
<1>1. ASSUME LibStep(a)
      PROVE  \/ \E s \in Slots : find_unused_card_for(a, s)
             \/ \E want \in Links : write_add_device(a, want)
             \/ AddReturns(a)
  <2>1. CASE OpenFails(a) \/ \E index \in Minors : evdi_open(a, index)
    BY <2>1 DEF OpenFails, evdi_open, NoLibCall, LibTypeOK
  <2> QED
    BY <1>1, <2>1
       DEF LibStep, evdi_open_attached_to_fixed, evdi_add_device, evdi_connect,
           evdi_disconnect, evdi_close, CanCall
<1> QED
  BY <1>1 DEF CardsNext, OneClient

\* A call starts with everything connected, and stays so.
LEMMA OwnConnectedNext ==
  ASSUME OneClient, ConnectsFirst
  PROVE  TableOK /\ LibTypeOK /\ UnluckyIsExcused /\ OwnConnected /\ CardsNext
           => OwnConnected'
<1> SUFFICES ASSUME TableOK, LibTypeOK, UnluckyIsExcused, OwnConnected,
                    CardsNext, NEW a \in Clients,
                    call'[a].pc # "idle", ~excused'[a]
             PROVE  AllConnected(a)'
  BY DEF OwnConnected
<1>1. CASE UNCHANGED <<devices, connected, card, device_index>>
        /\ AllConnected(a)
  BY <1>1 DEF AllConnected, OpenHandles, OnCard
<1>2. CASE call[a].pc = "idle"
  <2>1. LibStep(a)
    <3>1. call'[a] # call[a]
      BY <1>2
    <3> QED
      BY <3>1, CallSteps
  <2>2. \E want \in Links : evdi_open_attached_to_fixed(a, want)
    BY <1>2, <2>1
       DEF LibStep, find_unused_card_for, write_add_device, AddReturns,
           OpenFails, evdi_add_device, evdi_open, evdi_connect,
           evdi_disconnect, evdi_close, NoLibCall, SearchFails, LibTypeOK
  <2> QED
    BY <1>1, <2>2
       DEF evdi_open_attached_to_fixed, vars, deviceVars, tableVars, fileVars,
           libVars
<1>3. CASE call[a].pc # "idle"
  <2>1. AllConnected(a)
    BY <1>3, LuckyStep DEF OwnConnected
  <2>2. CASE KernelStep
    <3>1. SUFFICES ASSUME NEW h \in Handles, NEW s \in devices',
                          device_index[a][h] # EVDI_INVALID_DEVICE_INDEX,
                          card'[s] = device_index[a][h]
                   PROVE  s \in connected
      BY <2>2, KernelTouches DEF AllConnected, OpenHandles, OnCard, libVars
    <3>2. device_index[a][h] \in Allocated
      BY DEF Allocated
    <3>3. s \in devices /\ card'[s] = card[s]
      BY <2>2, <3>1, <3>2, KernelTouches
    <3> QED
      BY <2>1, <3>1, <3>3 DEF AllConnected, OpenHandles, OnCard
  <2>3. CASE evdi_drm_device_remove
    BY <2>3 DEF evdi_drm_device_remove, evdi_platform_remove_all_devices,
                AllConnected
  <2>4. CASE \/ \E s \in Slots : find_unused_card_for(a, s)
             \/ \E want \in Links : write_add_device(a, want)
             \/ AddReturns(a)
    BY <1>1, <2>1, <2>4
       DEF find_unused_card_for, write_add_device, AddReturns, add_store,
           vars, deviceVars, tableVars, fileVars, libVars
  <2> QED
    BY <1>3, <2>2, <2>3, <2>4, BusySteps
<1> QED
  BY <1>2, <1>3

\* A device that fits goes on fitting.
LEMMA FitsStays ==
  ASSUME TableOK, LibTypeOK, UnluckyIsExcused, CardsNext, NEW a \in Clients,
         call[a].pc # "idle", call'[a].pc # "idle", ~excused'[a],
         call'[a].want = call[a].want, UNCHANGED card_usage,
         thread[a].pc # "create", NEW s, Fits(a, s)
  PROVE  s \in devices' /\ Fits(a, s)'
<1>1. s \in devices /\ link[s] = call[a].want
  BY DEF Fits, Unused
<1>2. s \in devices' /\ card'[s] = card[s]
  BY <1>1, LuckyStep, DevicesStay
<1>3. link'[s] = link[s]
  BY <1>1, <1>2, LuckyStep, LinksStay
<1> QED
  BY <1>1, <1>2, <1>3 DEF Fits, Unused

LEMMA FindsWhatFitsNext ==
  ASSUME OneClient
  PROVE  /\ TableOK /\ LibTypeOK /\ SearchInv /\ AddsWhatFits /\ FindsWhatFits
         /\ CardsNext
         => FindsWhatFits'
<1> SUFFICES ASSUME TableOK, LibTypeOK, SearchInv, AddsWhatFits, FindsWhatFits,
                    CardsNext, NEW a \in Clients,
                    call'[a].pc = "find", call'[a].again, ~excused'[a]
             PROVE  \E s \in devices' \ call'[a].seen : Fits(a, s)'
  BY DEF FindsWhatFits
<1> USE DEF SearchInv
<1>a. call \in [Clients -> LibCall]
  BY DEF LibTypeOK
<1>1. CASE call[a].pc = "idle"
  <2>1. LibStep(a)
    <3>1. call'[a] # call[a]
      BY <1>1
    <3> QED
      BY <3>1, CallSteps
  <2>2. \E want \in Links : evdi_open_attached_to_fixed(a, want)
    BY <1>1, <2>1
       DEF LibStep, find_unused_card_for, write_add_device, AddReturns,
           OpenFails, evdi_add_device, evdi_open, evdi_connect,
           evdi_disconnect, evdi_close, NoLibCall, SearchFails, LibTypeOK
  <2>3. ~call'[a].again
    BY <1>a, <2>2 DEF evdi_open_attached_to_fixed, NoLibCall
  <2> QED
    BY <2>3
<1>2. ASSUME call[a].pc # "idle"
      PROVE  ~excused[a]
  BY <1>2, LuckyStep
<1>3. CASE KernelStep \/ evdi_drm_device_remove
  <2>1. UNCHANGED <<call, card_usage>>
    BY <1>3 DEF KernelStep, evdi_drm_device_remove, libVars
  <2>2. thread[a].pc # "create"
    BY <2>1 DEF CallPlace, Idle
  <2>3. PICK s \in devices \ call[a].seen : Fits(a, s)
    BY <1>2, <2>1 DEF FindsWhatFits
  <2>4. s \in devices' /\ Fits(a, s)'
    BY <2>1, <2>2, <2>3, FitsStays
  <2> QED
    BY <2>1, <2>3, <2>4
<1>4. ASSUME NEW t \in Slots, find_unused_card_for(a, t)
      PROVE  \E s \in devices' \ call'[a].seen : Fits(a, s)'
  <2>1. UNCHANGED <<vars, fileVars, libVars>> /\ call[a].pc = "find"
    BY <1>4 DEF find_unused_card_for
  <2>2. /\ ~(/\ link[t] = call[a].want
             /\ card_usage[a][card[t]] = EVDI_INVALID_HANDLE)
        /\ call' = [call EXCEPT ![a] =
                      [@ EXCEPT !.seen = call[a].seen \cup {t}]]
    BY <1>a, <1>4
       DEF find_unused_card_for, LibCall, get_drm_device_index,
           is_correct_parent_device
  <2>3. /\ call'[a].seen = call[a].seen \cup {t} /\ call'[a].want = call[a].want
        /\ call'[a].again = call[a].again
    BY <1>a, <2>2 DEF LibCall
  <2>4. PICK s \in devices \ call[a].seen : Fits(a, s)
    BY <1>2, <2>1, <2>3 DEF FindsWhatFits
  <2>5. s # t
    BY <2>2, <2>4 DEF Fits, Unused
  <2>6. thread[a].pc # "create" /\ UNCHANGED card_usage
    BY <2>1 DEF CallPlace, Idle, libVars
  <2>7. s \in devices' /\ Fits(a, s)'
    BY <2>1, <2>3, <2>4, <2>6, FitsStays
  <2> QED
    BY <2>3, <2>4, <2>5, <2>7
<1>5. ASSUME NEW want \in Links, write_add_device(a, want)
      PROVE  FALSE
  BY <1>a, <1>5 DEF write_add_device, LibCall
<1>6. CASE AddReturns(a)
  <2>1. /\ UNCHANGED <<vars, fileVars, libVars>> /\ call[a].pc = "add"
        /\ thread[a] = Idle /\ call[a].seen = {}
        /\ call'[a].seen = call[a].seen /\ call'[a].want = call[a].want
    BY <1>a, <1>6 DEF AddReturns, LibCall, CallPlace
  <2>2. PICK s \in devices : Fits(a, s)
    BY <1>2, <2>1 DEF AddsWhatFits, Idle
  <2>3. thread[a].pc # "create" /\ UNCHANGED card_usage
    BY <2>1 DEF Idle, libVars
  <2>4. s \in devices' /\ Fits(a, s)'
    BY <2>1, <2>2, <2>3, FitsStays
  <2> QED
    BY <2>1, <2>4
<1> QED
  BY <1>1, <1>3, <1>4, <1>5, <1>6, BusySteps

\* What AddsWhatFits says of one program.
AddFits(a) ==
  /\ thread[a].pc \in {"link", "create"} =>
       /\ Unused(a, thread[a].slot) /\ link[thread[a].slot] = NoParent
       /\ evdi_platform_device_is_free(thread[a].slot)
  /\ thread[a].pc = "mark" => Fits(a, thread[a].slot)
  /\ thread[a].pc = "idle" => \E s \in devices : Fits(a, s)

\* Other writers and the notifiers leave the device alone that the request of
\* a is about to link.
LEMMA OthersLeaveFree ==
  ASSUME TableOK, LibTypeOK, UnluckyIsExcused, CardsNext, KernelStep,
         NEW a \in Clients, call[a].pc # "idle", ~excused'[a],
         UNCHANGED thread[a],
         \/ \E b \in Writers \ {a} : AddStep(b)
         \/ \E q \in Parents : UsbStep(q),
         NEW s, Unused(a, s), link[s] = NoParent,
         evdi_platform_device_is_free(s)
  PROVE  /\ Unused(a, s)' /\ link'[s] = NoParent
         /\ evdi_platform_device_is_free(s)'
<1>a. /\ link \in [Slots -> Links] /\ symlinked \in [Slots -> BOOLEAN]
      /\ s \in Slots /\ s \in devices
  BY DEF TableOK, TypeOK, Unused
<1>1. ~Unlucky(a)
  BY LuckyStep DEF KernelStep
<1>2. UNCHANGED <<connected, card_usage>> /\ s \in devices'
      /\ card'[s] = card[s]
  BY <1>a, KernelTouches DEF libVars
<1>3. link'[s] = NoParent /\ ~symlinked'[s]
  <2>1. ASSUME NEW b \in Writers \ {a}, AddStep(b)
        PROVE  link'[s] = NoParent /\ ~symlinked'[s]
    <3>1. thread[b].pc \notin {"create", "mark"}
      BY <1>1, <2>1 DEF Unlucky, TableOK, LinkInv, MarksOwn
    <3> QED
      BY <2>1, <3>1, WriterTouches DEF TableOK, evdi_platform_device_is_free
  <2>2. ASSUME NEW q \in Parents, UsbStep(q)
        PROVE  link'[s] = NoParent /\ ~symlinked'[s]
    BY <1>a, <2>2, NotifierTouches DEF TableOK, evdi_platform_device_is_free
  <2> QED
    BY <2>1, <2>2
<1> QED
  BY <1>2, <1>3 DEF Unused, evdi_platform_device_is_free

\* The device that the kernel picks for a program that is lucky is unused: a
\* free one belongs to no handle of the program, and a new one gets a card that
\* no handle has.
LEMMA FreeIsUnused ==
  ASSUME TableOK, LibTypeOK, DevicesHaveCards, UsageOpen, NEW a \in Clients,
         AllConnected(a), NEW s \in devices, evdi_platform_device_is_free(s)
  PROVE  Unused(a, s)
<1>1. SUFFICES ASSUME card_usage[a][card[s]] # EVDI_INVALID_HANDLE
               PROVE  FALSE
  BY DEF Unused
<1>2. s \in Slots /\ card[s] \in Minors
  BY DEF TableOK, TypeOK, LibTypeOK, DevicesHaveCards, Indices
<1>3. /\ card_usage[a][card[s]] \in Handles
      /\ device_index[a][card_usage[a][card[s]]] = card[s]
  BY <1>1, <1>2 DEF UsageOpen, LibTypeOK
<1>4. s \in connected
  BY <1>2, <1>3 DEF AllConnected, OpenHandles, OnCard, DevicesHaveCards
<1> QED
  BY <1>4 DEF evdi_platform_device_is_free

LEMMA NewIsUnused ==
  ASSUME TableOK, LibTypeOK, UsageOpen, KernelStep, NEW a \in Clients,
         NEW s \in devices' \ devices
  PROVE  Unused(a, s)'
<1>1. card'[s] \in Minors /\ card'[s] \notin Allocated /\ UNCHANGED card_usage
  BY KernelTouches DEF libVars
<1>2. card_usage[a][card'[s]] = EVDI_INVALID_HANDLE
  <2>1. SUFFICES ASSUME card_usage[a][card'[s]] # EVDI_INVALID_HANDLE
                 PROVE  FALSE
    OBVIOUS
  <2>2. /\ card_usage[a][card'[s]] \in Handles
        /\ device_index[a][card_usage[a][card'[s]]] = card'[s]
    BY <1>1, <2>1 DEF UsageOpen, LibTypeOK
  <2> QED
    BY <1>1, <2>2 DEF Allocated
<1> QED
  BY <1>1, <1>2 DEF Unused

AddInv ==
  /\ DevicesHaveCards /\ UsageOpen /\ OwnConnected
  /\ AddsWhatFits /\ FindsWhatFits

\* The request of a in the kernel, step by step.
LEMMA RequestStep ==
  ASSUME TableOK, LibTypeOK, SearchInv, AddInv, CardsNext, KernelStep,
         NEW a \in Clients, call[a].pc = "add", call'[a] = call[a],
         ~excused'[a], thread[a] # Idle, AddStep(a)
  PROVE  AddFits(a)'
<1> USE DEF SearchInv, AddInv, AddFits
<1>a. /\ thread \in [Writers -> WriterCall] /\ link \in [Slots -> Links]
      /\ symlinked \in [Slots -> BOOLEAN] /\ a \in Writers
  BY ClientsAssumption DEF TableOK, TypeOK, WriterCall
<1>b. ~excused[a] /\ ~Unlucky(a) /\ ~NoRoom(a)
  BY LuckyStep
<1>c. /\ thread[a].want = call[a].want /\ thread[a].left = 1
      /\ AllConnected(a)
      /\ AddFits(a)
  BY <1>b DEF CallPlace, OwnConnected, AddsWhatFits
<1>d. UNCHANGED <<connected, card_usage>>
  BY KernelTouches DEF libVars
<1>1. CASE evdi_platform_device_attach(a) \/ evdi_platform_add_devices(a)
  <2>1. devices' = devices /\ thread[a].pc = "attach"
    BY <1>1 DEF evdi_platform_device_attach, evdi_platform_add_devices,
                deviceVars, tableVars
  <2>2. thread'[a] # Idle
    BY <1>b, <2>1 DEF NoRoom
  <2>3. thread'[a].pc = "add"
    BY <1>a, <1>1, <2>2
       DEF evdi_platform_device_attach, evdi_platform_add_devices, WriterCall
  <2> QED
    BY <2>3
<1>2. CASE evdi_platform_drv_get_free_device(a)
  <2> DEFINE free == {t \in devices : evdi_platform_device_is_free(t)}
  <2>1. /\ free # {} /\ free \in SUBSET Slots /\ thread[a].pc = "add"
        /\ thread' = [thread EXCEPT ![a].pc = "link", ![a].slot = Min(free)]
    BY <1>2 DEF evdi_platform_drv_get_free_device, TableOK, TypeOK
  <2>2. PICK s \in free :
          thread' = [thread EXCEPT ![a].pc = "link", ![a].slot = s]
    <3> HIDE DEF free
    <3> QED
      BY <2>1, MinIsMember
  <2>3. s \in devices /\ evdi_platform_device_is_free(s)
    OBVIOUS
  <2>4. UNCHANGED <<deviceVars, card>>
    BY <1>2 DEF evdi_platform_drv_get_free_device, KernelStep,
                evdi_drm_device_create, deviceVars, tableVars
  <2>5. Unused(a, s) /\ link[s] = NoParent
    BY <1>b, <1>c, <2>1, <2>3, FreeIsUnused
       DEF Unlucky, evdi_platform_device_is_free
  <2>6. thread'[a].pc = "link" /\ thread'[a].slot = s
    BY <1>a, <2>2 DEF WriterCall
  <2> QED
    BY <1>d, <2>3, <2>4, <2>5, <2>6
       DEF Unused, evdi_platform_device_is_free, deviceVars, tableVars, linkVars
<1>3. CASE evdi_platform_drv_create_new_device(a)
  <2>1. thread[a].pc = "add" /\ UNCHANGED linkVars
    BY <1>3 DEF evdi_platform_drv_create_new_device
  <2>2. ~(thread'[a] = Idle /\ devices' = devices)
    BY <1>b, <2>1 DEF NoRoom
  <2>3. PICK id : /\ id = Min(Slots \ devices)
                  /\ Slots \ devices # {} /\ devices' = devices \cup {id}
                  /\ thread' = [thread EXCEPT ![a] = Added(a, id)]
    BY <1>3, <1>a, <2>2
       DEF evdi_platform_drv_create_new_device, TableFull, tableVars,
           evdi_platform_drv_get_free_idx
  <2>4. id \in Slots \ devices
    BY <2>3, MinIsMember
  <2>5. id \in devices' \ devices
    BY <2>3, <2>4
  <2>6. Unused(a, id)' /\ link'[id] = NoParent
        /\ evdi_platform_device_is_free(id)'
    <3>1. link[id] = NoParent /\ ~symlinked[id] /\ id \notin connected
      BY <2>4 DEF TableOK, AtDevices, TypeOK
    <3> QED
      BY <1>d, <2>1, <2>5, <3>1, NewIsUnused
         DEF linkVars, evdi_platform_device_is_free
  <2>7. CASE call[a].want = NoParent
    <3>1. Fits(a, id)' /\ id \in devices'
      BY <2>5, <2>6, <2>7 DEF Fits
    <3>2. thread'[a] = Idle
      BY <1>a, <1>c, <2>3, <2>7 DEF Added
    <3> QED
      BY <3>1, <3>2 DEF Idle
  <2>8. CASE call[a].want # NoParent
    <3>1. thread'[a].pc = "link" /\ thread'[a].slot = id
      BY <1>a, <1>c, <2>3, <2>8 DEF Added, WriterCall
    <3> QED
      BY <2>6, <3>1
  <2> QED
    BY <2>7, <2>8
<1>4. CASE LinkCheck(a)
  <2>1. /\ UNCHANGED <<deviceVars, card>> /\ thread[a].pc = "link"
        /\ thread' = [thread EXCEPT ![a] =
             IF evdi_platform_device_is_free(thread[a].slot)
             THEN [@ EXCEPT !.pc = "create"] ELSE Idle]
    BY <1>4 DEF LinkCheck, KernelStep, evdi_drm_device_create, deviceVars,
                tableVars
  <2>2. /\ Unused(a, thread[a].slot) /\ link[thread[a].slot] = NoParent
        /\ evdi_platform_device_is_free(thread[a].slot)
    BY <1>c, <2>1
  <2>3. thread'[a].pc = "create" /\ thread'[a].slot = thread[a].slot
    BY <1>a, <2>1, <2>2 DEF WriterCall
  <2> QED
    BY <1>d, <2>1, <2>2, <2>3
       DEF Unused, evdi_platform_device_is_free, deviceVars, tableVars, linkVars
<1>5. CASE LinkCreate(a)
  <2>1. /\ UNCHANGED <<devices, card>> /\ thread[a].pc = "create"
        /\ Unused(a, thread[a].slot) /\ link[thread[a].slot] = NoParent
    BY <1>5, <1>c DEF LinkCreate, KernelStep, evdi_drm_device_create, tableVars
  <2>2. /\ link' = [link EXCEPT ![thread[a].slot] = thread[a].want]
        /\ thread' = [thread EXCEPT ![a].pc = "mark"]
    BY <1>5, <2>1 DEF LinkCreate
  <2>3. /\ thread'[a].pc = "mark" /\ thread'[a].slot = thread[a].slot
        /\ link'[thread[a].slot] = call[a].want
    BY <1>a, <1>c, <2>2 DEF WriterCall
  <2> QED
    BY <1>d, <2>1, <2>3 DEF Fits, Unused
<1>6. CASE LinkMark(a)
  <2>1. /\ UNCHANGED <<devices, card, link>> /\ thread[a].pc = "mark"
        /\ Fits(a, thread[a].slot)
        /\ thread'[a] = Idle
    BY <1>6, <1>a, <1>c
       DEF LinkMark, KernelStep, evdi_drm_device_create, tableVars
  <2>2. \E s \in devices' : Fits(a, s)'
    BY <1>d, <2>1 DEF Fits, Unused
  <2> QED
    BY <2>1, <2>2 DEF Idle
<1> QED
  BY <1>1, <1>2, <1>3, <1>4, <1>5, <1>6 DEF AddStep, add_store

LEMMA AddsWhatFitsNext ==
  ASSUME OneClient
  PROVE  TableOK /\ LibTypeOK /\ SearchInv /\ AddInv /\ CardsNext
           => AddsWhatFits'
<1> SUFFICES ASSUME TableOK, LibTypeOK, SearchInv, AddInv, CardsNext,
                    NEW a \in Clients, call'[a].pc = "add", ~excused'[a]
             PROVE  AddFits(a)'
  BY DEF AddsWhatFits, AddFits
<1> USE DEF SearchInv, AddInv
<1>a. call \in [Clients -> LibCall] /\ thread \in [Writers -> WriterCall]
      /\ a \in Writers
  BY ClientsAssumption DEF LibTypeOK, TableOK, TypeOK, WriterCall
<1>1. ASSUME NEW want \in Links, write_add_device(a, want)
      PROVE  AddFits(a)'
  <2>1. thread'[a].pc = "attach"
    BY <1>a, <1>1 DEF write_add_device, add_store
  <2> QED
    BY <2>1 DEF AddFits
<1>2. ASSUME LibStep(a), call'[a] # call[a]
      PROVE  AddFits(a)'
  <2>1. CASE \E want \in Links : evdi_open_attached_to_fixed(a, want)
    BY <1>a, <2>1 DEF evdi_open_attached_to_fixed, NoLibCall
  <2>2. CASE \E s \in Slots : find_unused_card_for(a, s)
    BY <1>a, <2>2 DEF find_unused_card_for, LibCall
  <2>3. CASE AddReturns(a)
    BY <1>a, <2>3 DEF AddReturns, LibCall
  <2>4. CASE OpenFails(a) \/ \E index \in Minors : evdi_open(a, index)
    BY <1>a, <2>4 DEF OpenFails, evdi_open, NoLibCall
  <2> QED
    BY <1>1, <1>2, <2>1, <2>2, <2>3, <2>4
       DEF LibStep, evdi_add_device, evdi_connect, evdi_disconnect, evdi_close
<1>3. CASE call'[a] = call[a]
  <2>1. /\ ~excused[a] /\ ~Unlucky(a) /\ devices' = {} => devices = {}
        /\ AddFits(a)
    BY <1>3, LuckyStep DEF AddsWhatFits, AddFits
  <2>2. ASSUME UNCHANGED <<card_usage, thread[a]>>,
               thread[a].pc \notin {"link", "create"}
        PROVE  AddFits(a)'
    BY <1>3, <2>1, <2>2, FitsStays DEF AddFits
  <2>3. ASSUME KernelStep, UNCHANGED thread[a],
               \/ \E b \in Writers \ {a} : AddStep(b)
               \/ \E q \in Parents : UsbStep(q)
        PROVE  AddFits(a)'
    <3>1. UNCHANGED card_usage
      BY <2>3, KernelTouches DEF libVars
    <3>2. CASE thread[a].pc \in {"link", "create"}
      <4>1. PICK s : s = thread[a].slot
        OBVIOUS
      <4>2. /\ Unused(a, s) /\ link[s] = NoParent
            /\ evdi_platform_device_is_free(s)
        BY <2>1, <3>2, <4>1 DEF AddFits
      <4>3. /\ Unused(a, s)' /\ link'[s] = NoParent
            /\ evdi_platform_device_is_free(s)'
        BY <1>3, <2>3, <4>2, OthersLeaveFree
      <4>4. thread'[a].slot = s /\ thread'[a].pc \in {"link", "create"}
        BY <2>3, <3>2, <4>1
      <4> QED
        BY <4>3, <4>4 DEF AddFits
    <3> QED
      BY <2>2, <2>3, <3>1, <3>2
  <2>4. CASE KernelStep
    <3>1. ASSUME NEW b \in Writers \ {a}, AddStep(b)
          PROVE  AddFits(a)'
      <4>1. UNCHANGED thread[a]
        BY <1>a, <3>1, WriterTouches DEF TableOK
      <4> QED
        BY <2>3, <2>4, <3>1, <4>1
    <3>2. ASSUME NEW q \in Parents, UsbStep(q)
          PROVE  AddFits(a)'
      <4>1. UNCHANGED thread[a]
        BY <3>2, NotifierTouches DEF TableOK
      <4> QED
        BY <2>3, <2>4, <3>2, <4>1
    <3>3. ASSUME AddStep(a), thread[a] = Idle => a \notin Clients
          PROVE  AddFits(a)'
      BY <1>3, <2>4, <3>3, RequestStep
    <3> QED
      BY <2>4, <3>1, <3>2, <3>3 DEF KernelStep
  <2>5. CASE evdi_drm_device_remove
    <3>1. /\ UNCHANGED <<card_usage, thread[a]>>
          /\ thread[a].pc \notin {"link", "create"}
      BY <1>a, <2>5 DEF evdi_drm_device_remove,
                        evdi_platform_remove_all_devices, libVars
    <3> QED
      BY <2>2, <3>1
  <2>6. CASE \E s \in Slots : find_unused_card_for(a, s)
    BY <1>a, <1>3, <2>6 DEF find_unused_card_for
  <2>7. CASE AddReturns(a)
    BY <1>a, <2>7 DEF AddReturns, LibCall
  <2> QED
    BY <1>1, <1>3, <2>4, <2>5, <2>6, <2>7, BusySteps
<1> QED
  BY <1>2, <1>3, CallSteps

LEMMA SpecAddInv == ASSUME OneClient, ConnectsFirst PROVE CardsSpec => []AddInv
<1>1. CardsInit => AddInv
  BY DEF CardsInit, Init, AddInv, DevicesHaveCards, UsageOpen, OwnConnected,
         AddsWhatFits, FindsWhatFits, NoLibCall
<1>2. AddInv /\ UNCHANGED allVars => AddInv'
  BY DEF AddInv, DevicesHaveCards, UsageOpen, OwnConnected, AllConnected,
         OpenHandles, OnCard, AddsWhatFits, FindsWhatFits, Fits, Unused,
         evdi_platform_device_is_free, allVars, cardVars, fileVars, libVars,
         vars, deviceVars, tableVars, linkVars, usbVars
<1>3. TableOK /\ LibTypeOK /\ SearchInv /\ AddInv /\ CardsNext => AddInv'
  BY DevicesHaveCardsNext, UsageOpenNext, OwnConnectedNext, AddsWhatFitsNext,
     FindsWhatFitsNext DEF AddInv, SearchInv
<1>4. TableOK /\ LibTypeOK /\ SearchInv /\ AddInv /\ [CardsNext]_allVars
        => AddInv'
  BY <1>2, <1>3
<1> QED
  BY <1>1, <1>4, SpecTableOK, SpecSearchInv, PTL DEF CardsSpec

\* evdi_open_attached_to_fixed finds a card after the kernel has added a device
\* for it, for a program that had no bad luck: for any table, other writers,
\* USB devices and handles, also if it opens cards twice.
THEOREM AddedAlwaysFound ==
  ASSUME OneClient, ConnectsFirst
  PROVE  CardsSpec => []AddedIsFound
<1>1. AddInv => AddedIsFound
  BY DEF AddInv, FindsWhatFits, AddedIsFound, SearchFails
<1> QED
  BY <1>1, SpecAddInv, PTL
=============================================================================
