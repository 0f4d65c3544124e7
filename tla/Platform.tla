------------------------------ MODULE Platform ------------------------------
(***************************************************************************)
(* The table of evdi devices (module/evdi_platform_drv.c,                  *)
(* evdi_platform_dev.c), the sysfs files that add and remove them          *)
(* (evdi_sysfs.c) and their links to USB parents.                          *)
(*                                                                         *)
(* The table is changed under g_ctx.lock; links are made and removed       *)
(* without it, by the threads that write to sysfs and by the USB notifier. *)
(***************************************************************************)
EXTENDS Naturals, FiniteSets, FiniteSetsExt

CONSTANTS
  EVDI_DEVICE_COUNT_MAX,
  Parents,      \* USB devices
  NoParent,
  Writers       \* threads that write to the sysfs file "add"

ASSUME CountAssumption == EVDI_DEVICE_COUNT_MAX \in Nat \ {0}
ASSUME NoParentAssumption == NoParent \notin Parents

Slots == 0..(EVDI_DEVICE_COUNT_MAX - 1)
Links == Parents \cup {NoParent}

VARIABLES
  devices,     \* slots of g_ctx.devices that are not NULL
  dev_count,
  link,        \* the sysfs link "device" of each device
  symlinked, parent,    \* evdi_platform_device_data
  connected,   \* devices whose painter has a client
  present,     \* USB devices plugged in
  usb,         \* the notifier call of each unplugged USB device
  thread       \* what each writer is doing

tableVars  == <<devices, dev_count>>
linkVars   == <<link, symlinked, parent>>
deviceVars == <<tableVars, linkVars, connected>>
usbVars    == <<present, usb>>
vars == <<deviceVars, usbVars, thread>>

Idle   == [pc |-> "idle", want |-> NoParent, left |-> 0, slot |-> 0]
NoCall == [pc |-> "idle", slot |-> 0]

TypeOK ==
  /\ devices \subseteq Slots
  /\ dev_count \in 0..EVDI_DEVICE_COUNT_MAX
  /\ link \in [Slots -> Links] /\ parent \in [Slots -> Links]
  /\ symlinked \in [Slots -> BOOLEAN]
  /\ connected \subseteq devices
  /\ present \subseteq Parents
  /\ usb \in [Parents -> [pc : {"idle", "check", "remove", "flag", "clear"},
                          slot : Slots]]
  /\ thread \in [Writers -> [pc : {"idle", "attach", "add", "link", "create",
                                   "mark"},
                             want : Links, slot : Slots,
                             left : 0..(EVDI_DEVICE_COUNT_MAX + 1)]]

Init ==
  /\ devices = {} /\ dev_count = 0
  /\ link = [s \in Slots |-> NoParent] /\ parent = [s \in Slots |-> NoParent]
  /\ symlinked = [s \in Slots |-> FALSE]
  /\ connected = {}
  /\ present = Parents
  /\ usb = [q \in Parents |-> NoCall]
  /\ thread = [a \in Writers |-> Idle]

-----------------------------------------------------------------------------
(***************************************************************************)
(* Adding devices.                                                         *)
(***************************************************************************)

\* add_store: a number of devices, or one device for a USB path.
add_store(a, want, n) ==
  /\ thread[a] = Idle
  /\ thread' = [thread EXCEPT ![a] =
       [pc |-> "attach", want |-> want, left |-> n, slot |-> 0]]
  /\ UNCHANGED <<deviceVars, usbVars>>

\* evdi_platform_device_attach looks for the USB device.
evdi_platform_device_attach(a) ==
  /\ thread[a].pc = "attach"
  /\ thread[a].want # NoParent
  /\ thread' = [thread EXCEPT ![a] =
       IF thread[a].want \in present THEN [@ EXCEPT !.pc = "add"] ELSE Idle]
  /\ UNCHANGED <<deviceVars, usbVars>>

\* evdi_platform_add_devices compares the number with the count, which it
\* reads under the lock and uses after it.
evdi_platform_add_devices(a) ==
  /\ thread[a].pc = "attach"
  /\ thread[a].want = NoParent
  /\ thread' = [thread EXCEPT ![a] =
       IF thread[a].left <= EVDI_DEVICE_COUNT_MAX - dev_count
       THEN [@ EXCEPT !.pc = "add"] ELSE Idle]
  /\ UNCHANGED <<deviceVars, usbVars>>

\* Mutant: a device with a client is free.
FreeThoughConnected(s) == ~symlinked[s]

evdi_platform_device_is_free(s) == s \notin connected /\ ~symlinked[s]

\* evdi_platform_drv_get_free_device, under the lock, for a USB parent.
evdi_platform_drv_get_free_device(a) ==
  LET free == {s \in devices : evdi_platform_device_is_free(s)}
  IN /\ thread[a].pc = "add"
     /\ thread[a].want # NoParent
     /\ free # {}
     /\ thread' = [thread EXCEPT ![a].pc = "link", ![a].slot = Min(free)]
     /\ UNCHANGED <<deviceVars, usbVars>>

\* A new device has no parent to link to, or is linked next; the loop of
\* evdi_platform_add_devices goes on.
Added(a, s) ==
  IF thread[a].want # NoParent THEN [thread[a] EXCEPT !.pc = "link", !.slot = s]
  ELSE IF thread[a].left > 1 THEN [thread[a] EXCEPT !.left = @ - 1]
  ELSE Idle

\* evdi_platform_drv_get_free_idx
evdi_platform_drv_get_free_idx(free) == Min(free)

TableFull(free) == free = {} \/ dev_count >= EVDI_DEVICE_COUNT_MAX

\* evdi_platform_drv_create_new_device, under the same lock, if there is no
\* device to reuse; a full table ends the request.
evdi_platform_drv_create_new_device(a) ==
  LET free == Slots \ devices
      id   == evdi_platform_drv_get_free_idx(free)
  IN /\ thread[a].pc = "add"
     /\ \/ thread[a].want = NoParent
        \/ \A s \in devices : ~evdi_platform_device_is_free(s)
     /\ \/ /\ ~TableFull(free)
           /\ devices' = devices \cup {id}
           /\ dev_count' = dev_count + 1
           /\ thread' = [thread EXCEPT ![a] = Added(a, id)]
        \/ /\ TableFull(free)
           /\ thread' = [thread EXCEPT ![a] = Idle]
           /\ UNCHANGED tableVars
     /\ UNCHANGED <<linkVars, connected, usbVars>>

\* evdi_platform_device_link, after the unlock: the device must still be free,
LinkCheck(a) ==
  /\ thread[a].pc = "link"
  /\ thread' = [thread EXCEPT ![a] =
       IF evdi_platform_device_is_free(thread[a].slot)
       THEN [@ EXCEPT !.pc = "create"] ELSE Idle]
  /\ UNCHANGED <<deviceVars, usbVars>>

\* Mutant: the result of sysfs_create_link is ignored.
LinkCreateUnchecked(a) ==
  /\ thread[a].pc = "create"
  /\ link' = IF link[thread[a].slot] = NoParent
             THEN [link EXCEPT ![thread[a].slot] = thread[a].want] ELSE link
  /\ thread' = [thread EXCEPT ![a].pc = "mark"]
  /\ UNCHANGED <<tableVars, symlinked, parent, connected, usbVars>>

\* sysfs_create_link fails if there is a link,
LinkCreate(a) ==
  /\ thread[a].pc = "create"
  /\ \/ /\ link[thread[a].slot] = NoParent
        /\ link' = [link EXCEPT ![thread[a].slot] = thread[a].want]
        /\ thread' = [thread EXCEPT ![a].pc = "mark"]
     \/ /\ link[thread[a].slot] # NoParent
        /\ thread' = [thread EXCEPT ![a] = Idle]
        /\ UNCHANGED link
  /\ UNCHANGED <<tableVars, symlinked, parent, connected, usbVars>>

\* then the driver notes it.
LinkMark(a) ==
  /\ thread[a].pc = "mark"
  /\ symlinked' = [symlinked EXCEPT ![thread[a].slot] = TRUE]
  /\ parent' = [parent EXCEPT ![thread[a].slot] = thread[a].want]
  /\ thread' = [thread EXCEPT ![a] = Idle]
  /\ UNCHANGED <<tableVars, link, connected, usbVars>>

-----------------------------------------------------------------------------
(***************************************************************************)
(* USB devices come and go.                                                *)
(***************************************************************************)

Plug(q) ==
  /\ q \notin present /\ usb[q] = NoCall
  /\ present' = present \cup {q}
  /\ UNCHANGED <<deviceVars, usb, thread>>

\* evdi_platform_drv_usb walks the table without the lock.
evdi_platform_drv_usb(q) ==
  /\ q \in present
  /\ present' = present \ {q}
  /\ usb' = [usb EXCEPT ![q] = [pc |-> "check", slot |-> 0]]
  /\ UNCHANGED <<deviceVars, thread>>

\* The call goes on to the next slot or returns.
NextSlot(q) ==
  IF usb[q].slot = EVDI_DEVICE_COUNT_MAX - 1 THEN NoCall
  ELSE [pc |-> "check", slot |-> usb[q].slot + 1]

\* evdi_platform_device_unlink_if_linked_with, in the order of its statements.
\* The branch of the caller for a device whose dev.parent is the USB device is
\* never taken: devices are created without one.
UnlinkCheck(q) ==
  /\ usb[q].pc = "check"
  /\ usb' = [usb EXCEPT ![q] =
       IF usb[q].slot \in devices /\ parent[usb[q].slot] = q
       THEN [@ EXCEPT !.pc = "remove"] ELSE NextSlot(q)]
  /\ UNCHANGED <<deviceVars, present, thread>>

UnlinkRemove(q) ==
  /\ usb[q].pc = "remove"
  /\ link' = [link EXCEPT ![usb[q].slot] = NoParent]
  /\ usb' = [usb EXCEPT ![q].pc = "flag"]
  /\ UNCHANGED <<tableVars, symlinked, parent, connected, present, thread>>

\* Mutant: the flag is left set.
UnlinkKeepsFlag(q) ==
  /\ usb[q].pc = "flag"
  /\ usb' = [usb EXCEPT ![q].pc = "clear"]
  /\ UNCHANGED <<deviceVars, present, thread>>

UnlinkFlag(q) ==
  /\ usb[q].pc = "flag"
  /\ symlinked' = [symlinked EXCEPT ![usb[q].slot] = FALSE]
  /\ usb' = [usb EXCEPT ![q].pc = "clear"]
  /\ UNCHANGED <<tableVars, link, parent, connected, present, thread>>

UnlinkClear(q) ==
  /\ usb[q].pc = "clear"
  /\ parent' = [parent EXCEPT ![usb[q].slot] = NoParent]
  /\ usb' = [usb EXCEPT ![q] = NextSlot(q)]
  /\ UNCHANGED <<tableVars, link, symlinked, connected, present, thread>>

-----------------------------------------------------------------------------
\* Mutant: the count is not reset.
RemoveAllKeepsCount ==
  /\ \A q \in Parents : usb[q] = NoCall
  /\ \A a \in Writers : thread[a].pc \notin {"link", "create", "mark"}
  /\ devices' = {}
  /\ link' = [s \in Slots |-> NoParent]
  /\ parent' = [s \in Slots |-> NoParent]
  /\ symlinked' = [s \in Slots |-> FALSE]
  /\ connected' = {}
  /\ UNCHANGED <<dev_count, usbVars, thread>>

\* evdi_platform_remove_all_devices frees the devices; a link or an unlink in
\* progress would use them after that, and is left out.
evdi_platform_remove_all_devices ==
  /\ \A q \in Parents : usb[q] = NoCall
  /\ \A a \in Writers : thread[a].pc \notin {"link", "create", "mark"}
  /\ devices' = {} /\ dev_count' = 0
  /\ link' = [s \in Slots |-> NoParent]
  /\ parent' = [s \in Slots |-> NoParent]
  /\ symlinked' = [s \in Slots |-> FALSE]
  /\ connected' = {}
  /\ UNCHANGED <<usbVars, thread>>

\* Clients connect to the painter of a device and leave it.
Connect(s) ==
  /\ s \in devices \ connected
  /\ connected' = connected \cup {s}
  /\ UNCHANGED <<tableVars, linkVars, usbVars, thread>>

Disconnect(s) ==
  /\ s \in connected
  /\ connected' = connected \ {s}
  /\ UNCHANGED <<tableVars, linkVars, usbVars, thread>>

-----------------------------------------------------------------------------
AddStep(a) ==
  \/ \E n \in 1..(EVDI_DEVICE_COUNT_MAX + 1) : add_store(a, NoParent, n)
  \/ \E want \in Parents : add_store(a, want, 1)
  \/ evdi_platform_device_attach(a)
  \/ evdi_platform_add_devices(a)
  \/ evdi_platform_drv_get_free_device(a)
  \/ evdi_platform_drv_create_new_device(a)
  \/ LinkCheck(a) \/ LinkCreate(a) \/ LinkMark(a)

UsbStep(q) ==
  \/ Plug(q) \/ evdi_platform_drv_usb(q)
  \/ UnlinkCheck(q) \/ UnlinkRemove(q) \/ UnlinkFlag(q) \/ UnlinkClear(q)

Next ==
  \/ \E a \in Writers : AddStep(a)
  \/ \E q \in Parents : UsbStep(q)
  \/ \E s \in Slots : Connect(s) \/ Disconnect(s)
  \/ evdi_platform_remove_all_devices

Spec == Init /\ [][Next]_vars

-----------------------------------------------------------------------------
(***************************************************************************)
(* Properties.                                                             *)
(***************************************************************************)

\* The count and the table agree, however adds and removals interleave and
\* although a request is compared with a count read earlier: a device never
\* replaces another one in its slot, and the table is never overrun.
CountMatchesTable == dev_count = Cardinality(devices)

\* A notifier call is between removing the link of a device and its flag.
Unlinking(s) == \E q \in Parents : usb[q].pc = "flag" /\ usb[q].slot = s

\* However unlocked links and unlinks interleave, a symlinked device has its
\* link: no device is kept from reuse by a parent it does not have.
SymlinkedHasLink ==
  \A s \in devices : symlinked[s] /\ ~Unlinking(s) => link[s] # NoParent

\* Unplugging a USB device never detaches a device that belongs to another.
UnlinksOwnOnly ==
  [][\A q \in Parents : usb[q].pc = "remove" /\ usb'[q].pc = "flag" =>
       link[usb[q].slot] = q]_vars
=============================================================================
