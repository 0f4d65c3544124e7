------------------------------- MODULE Cards -------------------------------
(***************************************************************************)
(* How a program finds and opens a card (library/evdi_lib.c), composed     *)
(* with the device table: libevdi looks for a device that fits, has one    *)
(* added through sysfs if there is none, looks again and opens what it has *)
(* found, while other programs add devices, USB devices come and go and    *)
(* devices are removed.                                                    *)
(*                                                                         *)
(* A card keeps its number until the last file on it is closed, also when  *)
(* its device has been removed (module/evdi_drm_drv.c).  A card that is in *)
(* no slot of the table is such a card.                                    *)
(***************************************************************************)
EXTENDS Platform

CONSTANTS
  Clients,       \* the writers that are programs which use libevdi
  MaxHandles,    \* handles a program has open at most
  MaxCards,      \* bound on the cards there are at once
  OpensOnce,     \* a program opens no card that it has open
  ConnectsFirst  \* a program connects what it has opened before it opens more

ASSUME ClientsAssumption == Clients \subseteq Writers
ASSUME HandlesAssumption == MaxHandles \in Nat \ {0}
ASSUME CardsAssumption == MaxCards \in Nat \ {0}

Handles == 1..MaxHandles
EVDI_INVALID_HANDLE == 0
Minors == 0..(MaxCards - 1)
EVDI_INVALID_DEVICE_INDEX == -1
Indices == Minors \cup {EVDI_INVALID_DEVICE_INDEX}
NoFile == <<NoParent, EVDI_INVALID_HANDLE>>

VARIABLES
  card,         \* the number of the card of each device
  drm_filp,     \* the program and handle connected to each device
  device_index, \* the open handles of each program: the numbers of their cards
  card_usage,   \* the library's table in each program
  call,         \* the call of libevdi that each program is in
  excused       \* history: the call may fail

libVars  == <<device_index, card_usage>>
fileVars == <<card, drm_filp>>
cardVars == <<fileVars, libVars, call, excused>>
allVars  == <<vars, cardVars>>

NoLibCall ==
  [pc |-> "idle", want |-> NoParent, again |-> FALSE, seen |-> {},
   index |-> EVDI_INVALID_DEVICE_INDEX]

CardsTypeOK ==
  /\ card \in [Slots -> Indices]
  /\ drm_filp \in [Slots -> (Clients \X Handles) \cup {NoFile}]
  /\ device_index \in [Clients -> [Handles -> Indices]]
  /\ card_usage \in [Clients -> [Minors -> Handles \cup {EVDI_INVALID_HANDLE}]]
  /\ call \in [Clients -> [pc : {"idle", "find", "add", "open"}, want : Links,
                           again : BOOLEAN, seen : SUBSET Slots,
                           index : Indices]]
  /\ excused \in [Clients -> BOOLEAN]

CardsInit ==
  /\ Init
  /\ card = [s \in Slots |-> EVDI_INVALID_DEVICE_INDEX]
  /\ drm_filp = [s \in Slots |-> NoFile]
  /\ device_index =
       [a \in Clients |-> [h \in Handles |-> EVDI_INVALID_DEVICE_INDEX]]
  /\ card_usage = [a \in Clients |-> [i \in Minors |-> EVDI_INVALID_HANDLE]]
  /\ call = [a \in Clients |-> NoLibCall]
  /\ excused = [a \in Clients |-> FALSE]

-----------------------------------------------------------------------------
(***************************************************************************)
(* The kernel.                                                             *)
(***************************************************************************)

Allocated ==
  {card[s] : s \in Slots} \cup
  UNION {{device_index[a][h] : h \in Handles} : a \in Clients}

\* DRM gives a new card the lowest number that no card has.
IsNewMinor(i) ==
  i \notin Allocated /\ \A j \in Minors : j < i => j \in Allocated

\* evdi_platform_device_probe, part of the creation of a device.
evdi_drm_device_create ==
  \/ devices' = devices /\ UNCHANGED card
  \/ /\ devices' # devices
     /\ \E i \in Minors :
          /\ IsNewMinor(i)
          /\ card' = [s \in Slots |->
                       IF s \in devices' \ devices THEN i ELSE card[s]]

KernelStep ==
  /\ \/ \E a \in Writers : (thread[a] = Idle => a \notin Clients) /\ AddStep(a)
     \/ \E q \in Parents : UsbStep(q)
  /\ evdi_drm_device_create
  /\ UNCHANGED <<drm_filp, libVars, call>>

\* evdi_drm_device_remove: files stay open on cards that have no device.
evdi_drm_device_remove ==
  /\ evdi_platform_remove_all_devices
  /\ card' = [s \in Slots |-> EVDI_INVALID_DEVICE_INDEX]
  /\ drm_filp' = [s \in Slots |-> NoFile]
  /\ UNCHANGED <<libVars, call>>

-----------------------------------------------------------------------------
(***************************************************************************)
(* libevdi.                                                                *)
(***************************************************************************)

CanCall(a) == call[a].pc = "idle" /\ thread[a] = Idle

OnCard(s, a, h) == card[s] = device_index[a][h]
OpenHandles(a) ==
  {h \in Handles : device_index[a][h] # EVDI_INVALID_DEVICE_INDEX}

AllConnected(a) ==
  \A h \in OpenHandles(a), s \in devices : OnCard(s, a, h) => s \in connected

\* get_generic_device (want = NoParent) or get_device_attached_to_usb
evdi_open_attached_to_fixed(a, want) ==
  /\ CanCall(a)
  /\ OpenHandles(a) # Handles
  /\ ConnectsFirst => AllConnected(a)
  /\ call' = [call EXCEPT ![a] = [NoLibCall EXCEPT !.pc = "find", !.want = want]]
  /\ UNCHANGED <<vars, fileVars, libVars>>

\* Mutant: a program that wants no parent takes any device.
AnyParent(s, want) == want = NoParent \/ link[s] = want

is_correct_parent_device(s, want) == link[s] = want

get_drm_device_index(s) == card[s]

\* An entry of the directory in find_unused_card_for, in any order; every device
\* has a card.
find_unused_card_for(a, s) ==
  /\ call[a].pc = "find"
  /\ s \in devices \ call[a].seen
  /\ call' = [call EXCEPT ![a] =
       IF /\ is_correct_parent_device(s, call[a].want)
          /\ card_usage[a][get_drm_device_index(s)] = EVDI_INVALID_HANDLE
       THEN [@ EXCEPT !.pc = "open", !.index = get_drm_device_index(s)]
       ELSE [@ EXCEPT !.seen = call[a].seen \cup {s}]]
  /\ UNCHANGED <<vars, fileVars, libVars>>

SearchFails(a) == call[a].pc = "find" /\ devices \subseteq call[a].seen

\* The first search that fails has the kernel add a device, the second one ends
\* the call.
write_add_device(a, want) ==
  /\ SearchFails(a) /\ ~call[a].again /\ call[a].want = want
  /\ add_store(a, want, 1)
  /\ call' = [call EXCEPT ![a].pc = "add", ![a].seen = {}]
  /\ UNCHANGED <<fileVars, libVars>>

AddReturns(a) ==
  /\ call[a].pc = "add" /\ thread[a] = Idle
  /\ call' = [call EXCEPT ![a].pc = "find", ![a].again = TRUE]
  /\ UNCHANGED <<vars, fileVars, libVars>>

\* open_device waits until there is a card with this number and gives up after
\* five seconds.
open_device(index) == \E s \in devices : card[s] = index

OpenFails(a) ==
  /\ \/ SearchFails(a) /\ call[a].again
     \/ call[a].pc = "open" /\ ~open_device(call[a].index)
  /\ call' = [call EXCEPT ![a] = NoLibCall]
  /\ UNCHANGED <<vars, fileVars, libVars>>

evdi_add_device(a) ==
  /\ CanCall(a)
  /\ add_store(a, NoParent, 1)
  /\ UNCHANGED <<fileVars, libVars, call>>

evdi_open(a, index) ==
  /\ open_device(index)
  /\ OpenHandles(a) # Handles
  /\ \/ call[a].pc = "open" /\ call[a].index = index
     \/ CanCall(a) /\ (OpensOnce => card_usage[a][index] = EVDI_INVALID_HANDLE)
  /\ LET h == Min(Handles \ OpenHandles(a))
     IN /\ device_index' = [device_index EXCEPT ![a][h] = index]
        /\ card_usage' = [card_usage EXCEPT ![a][index] = h]
  /\ call' = [call EXCEPT ![a] = NoLibCall]
  /\ UNCHANGED <<vars, fileVars>>

\* evdi_connect, and the ioctl in the kernel: a client replaces another one.
evdi_connect(a, h, s) ==
  /\ CanCall(a)
  /\ h \in OpenHandles(a) /\ s \in devices /\ OnCard(s, a, h)
  /\ drm_filp' = [drm_filp EXCEPT ![s] = <<a, h>>]
  /\ \/ Connect(s)
     \/ s \in connected /\ UNCHANGED vars
  /\ UNCHANGED <<card, libVars, call>>

DisconnectFile(a, h) ==
  \/ \E s \in Slots :
       /\ drm_filp[s] = <<a, h>>
       /\ Disconnect(s)
       /\ drm_filp' = [drm_filp EXCEPT ![s] = NoFile]
  \/ /\ \A s \in Slots : drm_filp[s] # <<a, h>>
     /\ UNCHANGED <<vars, drm_filp>>

evdi_disconnect(a, h) ==
  /\ CanCall(a)
  /\ h \in OpenHandles(a)
  /\ DisconnectFile(a, h)
  /\ UNCHANGED <<card, libVars, call>>

\* Mutant: the entry stays in the table.
CloseKeepsUsage(a, h) ==
  /\ CanCall(a)
  /\ h \in OpenHandles(a)
  /\ DisconnectFile(a, h)
  /\ device_index' = [device_index EXCEPT ![a][h] = EVDI_INVALID_DEVICE_INDEX]
  /\ UNCHANGED <<card, card_usage, call>>

\* The kernel disconnects a file that is closed.
evdi_close(a, h) ==
  /\ CanCall(a)
  /\ h \in OpenHandles(a)
  /\ DisconnectFile(a, h)
  /\ device_index' = [device_index EXCEPT ![a][h] = EVDI_INVALID_DEVICE_INDEX]
  /\ card_usage' = [card_usage EXCEPT ![a] =
       [i \in Minors |-> IF @[i] = h THEN EVDI_INVALID_HANDLE ELSE @[i]]]
  /\ UNCHANGED <<card, call>>

LibStep(a) ==
  \/ \E want \in Links : evdi_open_attached_to_fixed(a, want)
  \/ \E s \in Slots : find_unused_card_for(a, s)
  \/ \E want \in Links : write_add_device(a, want)
  \/ AddReturns(a) \/ OpenFails(a)
  \/ evdi_add_device(a)
  \/ \E index \in Minors : evdi_open(a, index)
  \/ \E h \in Handles, s \in Slots : evdi_connect(a, h, s)
  \/ \E h \in Handles : evdi_disconnect(a, h) \/ evdi_close(a, h)

-----------------------------------------------------------------------------
(***************************************************************************)
(* What a call of evdi_open_attached_to_fixed may fail for.                *)
(***************************************************************************)

\* The USB device is not plugged in; another writer links devices at the same
\* time; or an overlap of links and unlinks has left a link without its flag,
\* so that the kernel takes the device for free and cannot link it.
Unlucky(a) ==
  \/ call[a].want \notin present \cup {NoParent}
  \/ \E b \in Writers \ {a} : thread[b].want # NoParent
  \/ \E s \in devices :
       link[s] # NoParent /\ ~symlinked[s] /\ thread[a].pc # "mark"

\* The request of a ends at a full table.
NoRoom(a) ==
  /\ thread[a].pc \in {"attach", "add"}
  /\ thread'[a] = Idle
  /\ devices' = devices

NoteExcuses ==
  excused' = [a \in Clients |->
    /\ call'[a].pc # "idle"
    /\ \/ excused[a] /\ call[a].pc # "idle"
       \/ Unlucky(a)' \/ NoRoom(a)
       \/ devices # {} /\ devices' = {}]

CardsNext ==
  /\ \/ KernelStep
     \/ evdi_drm_device_remove
     \/ \E a \in Clients : LibStep(a)
  /\ NoteExcuses

CardsSpec == CardsInit /\ [][CardsNext]_allVars

-----------------------------------------------------------------------------
(***************************************************************************)
(* Properties.                                                             *)
(***************************************************************************)

\* evdi_open_attached_to_fixed promises to add a device if necessary: the search
\* after the add finds an unused card, unless the USB device went, the table is
\* full, the devices were removed or another writer was linking.
AddedIsFound ==
  \A a \in Clients : SearchFails(a) /\ call[a].again => excused[a]

\* A program opens the card that its search has found, on a device with the
\* parent it wants: the number that the search has read still names that device.
OpensWhatItFound ==
  \A a \in Clients :
    call[a].pc = "open" /\ ~excused[a] =>
      \E s \in devices : /\ card[s] = call[a].index
                         /\ link[s] = call[a].want

\* No two handles of a program are on one card, and the library's table says
\* which cards the program has open, over closes in any order, removals that
\* leave handles on cards without a device, and searches in between.
UsageExact ==
  \A a \in Clients, i \in Minors :
    {h \in Handles : device_index[a][h] = i} =
      {card_usage[a][i]} \ {EVDI_INVALID_HANDLE}
=============================================================================
