# A TLA+ model of evdi

evdi is a Linux kernel module that shows up as a DRM graphics card without
hardware, and a library, libevdi, through which a user-space client plays the
monitor: it plugs an EDID in, is told what mode is set and when the picture has
changed, and copies the changed pixels out. This directory models the parts of
evdi where several actors share state, checks them with TLC and proves with TLAPS
what TLC checks, for every value of the constants.

    cd tla
    tlc -workers 2 -config MCPainter.cfg MCPainter     # one run; see "Runs"
    tlapm PainterProofs.tla                            # proofs; also of
    # Arithmetic, CardsProofs, CursorProofs, DirtyRectsProofs, EventsProofs,
    # MonitorProofs and PyCardProofs

`PROJECT.json` maps every definition to the source lines it models and lists
runs, mutants, findings, hazards and theorems.

## 1. Inventory

| Part | State it keeps | Operations | Who else touches it | What makes it correct |
|---|---|---|---|---|
| **Painter** (`module/evdi_painter.c`) | connection (`is_connected`, `drm_filp`), damage (`dirty_rects`, `num_dirts`), `scanout_fb`, `was_update_requested`, `needs_full_modeset`, the held page-flip event `vblank`, `fg_console` | ioctls connect, disconnect, request_update, grabpix, enable_cursor_events; callbacks from mode setting; VT notifier | clients' ioctls, the commit thread, file release, the console | no freed file or framebuffer is used; no wanted update, damage or page-flip event is forgotten; a client learns the mode |
| **Event queue** (same file) | `pending_events`, `send_events_work` | `evdi_painter_send_event`, the retry work, cleanup on disconnect | every thread that notifies, with and without `painter->lock` | order, no loss, nothing stranded, nothing sent without a file |
| **Dirty rectangles** (same file, `evdi_fb.c`) | up to `MAX_DIRTS` rectangles | mark, merge, collapse, take | commits and grabs | all stale pixels are covered |
| **DDC/CI** (same file, `evdi_i2c.c`) | `ddcci_buffer`, `ddcci_response_received`, `i2c_adapter` | i2c transfer, response ioctl | programs on the i2c bus, client, connect and disconnect | the right answer, in bounded time |
| **Mode setting** (`evdi_modeset.c`) | none of its own: DRM's plane and CRTC state | plane update, cursor update, CRTC flush | calls the painter | see Painter |
| **Platform driver, sysfs** (`evdi_platform_drv.c`, `evdi_platform_dev.c`, `evdi_sysfs.c`) | `g_ctx.devices`, `dev_count`, links to USB parents | add, add for a USB path, remove_all, USB notifier | writers to sysfs, USB hub threads | count and table agree, links and their flags agree |
| **DRM driver** (`evdi_drm_drv.c`) | device life cycle | open, close, postclose, create, remove | file release | see Painter; clean error paths |
| **GEM objects** (`evdi_gem.c`) | references, pages, `pages_pin_count`, `vmapping` | create, import, export, mmap, fault, vmap, vunmap, free | handles, framebuffers, grabs, page faults, other drivers | references exact; pages and mappings stay while somebody uses them |
| **Cursor** (`evdi_cursor.c`) | position, GEM object, enabled | set, move, hotspot, copy, blend | commits, grabs, cursor events | the object is referenced and mapped while used; the client knows the cursor |
| **Connector** (`evdi_connector.c`) | none of its own; DRM's `status` and modes | detect, get_modes, mode_valid | hotplug checks, probes, connect | status and modes settle on those of the client; limits hold |
| **Framebuffers, fbdev** (`evdi_fb.c`) | `struct evdi_framebuffer` | create, destroy, dirty | compositor | the object has room for it; see Dirty rectangles |
| **libevdi** (`library/evdi_lib.c`) | handles, registered buffers, `card_usage` | open, close, connect, register_buffer, request_update, grab_pixels, handle_events | client threads | one card per handle; a request leads to a grab |
| **pyevdi** (`pyevdi/`) | `Card`: buffers, `buffer_requested`; references to each `Buffer` | request, grab, event handlers | Python callbacks | the cycle of requests never stops; no pixels are written into a buffer that is read, or gone |
| ioc32, encoder, params, debug, tests | nothing of interest | | | |

How they interact: the **commit thread** runs `evdi_plane_atomic_update`,
`evdi_cursor_atomic_update` and `evdi_crtc_atomic_flush`, which take and drop
`painter->lock` several times; **client threads** call ioctls, each a section
under the same lock with unlocked code before or after it; **file release**
disconnects; the **VT notifier** runs under the console lock and without the
painter's; everybody **sends events** through one list and one retry work item;
**programs on the i2c bus** wait for the client; **sysfs writers** and **USB hub
threads** change the device table and its links; a **Python program** runs the
client loop of `Card` on a libevdi handle and keeps the buffers it is given.

What is hard to test, line by line, is the list of hazards in `PROJECT.json`.
Most of them are an access outside the lock, a state that outlives what it
belongs to, or two waits that meet.

## 2. The modules

### Painter

One action per section under `painter->lock`; what the code does outside the
lock is an action per access. So `evdi_painter_mode_changed_notify` is three
actions (decide under the lock, send, clear the flag without the lock), the VT
notifier three, `evdi_painter_close` two (the unlocked comparison, then the
disconnect), a grab two (`GrabTake` under the lock, `GrabFinish` after it).

A commit is a program counter `pc` that walks through the callbacks in their
order: `plane`, `modeset`, `scanout`, `damage`, `num_dirts`, `fullscreen`,
`cursor`, `cursor_damage`, `flush`, `flush_dpms` (what the flush reads before it
acts), `mode`, `mode_send`, `mode_clear`, `dpms`, `vblank`, `update_ready`. What it carries (a framebuffer or none, an event or none, the number
of clips) is chosen where it is first read. One commit runs at a time, as the
DRM core's locks have it.

| State | Code |
|---|---|
| `painterVars` | the fields of `struct evdi_painter` of the same names, and `cursor_events_enabled` |
| `refs`, `user_fbs`, `plane_fb`, `crtc_active`, `console` | DRM core and VT layer (external): reference counts, framebuffers user space holds, plane and CRTC state, foreground console |
| `pc`, `commit` | the commit in progress, with the plane state it replaces |
| `file`, `grab` | each file's life cycle; its grabpix ioctl after the unlock, with the framebuffer and the page-flip event it took |
| `vt` | the notifier in progress |
| `sent`, `mode_told`, `dpms_told` | history |

Abstractions. Dirty rectangles are counted: a merge leaves any number from one
to all of them, as module DirtyRects justifies rectangle by rectangle. Sending an
event is one step here; module Events opens it up. The effects of a disconnect
on the cursor, on DDC/CI and on the event list are left to those modules.
Failed allocations of events are left out. `num_rects` of a grab, which may
collapse the rectangles, is one of the outcomes of the merge.

### Events and EventChannel

`Events` takes `evdi_painter_send_event` apart into its steps: check the file,
check the connection, append or squash under `event_lock`, look at the work,
flush or schedule. Around it run the work item, with its PENDING bit and
`cancel_delayed_work_sync`, connects, the four steps of a disconnect, and
clients with room for `Capacity` events. `update_ready` is sent with
`painter->lock` held, the other types without it. `EventChannel` is what this
promises, in six atomic operations; `Events` is shown to implement it under the
identity on client, connection, list and deliveries.

### DirtyRects

The rectangle arithmetic: `evdi_framebuffer_sanitize_rect`, `expand_rect`, the two
loops of `merge_dirty_rects`, `collapse_dirty_rects`, mark and grab. The reference is
the set `stale` of pixels the client lacks.

A mark and a grab are sections under `painter->lock` whose loops are taken apart, a
pair of rectangles at a time: `section` is where the section that holds the lock
stands, with the loop indices `a` and `b`, the rectangle a mark will store and the
room of the client. `MergePair`, `SkipPair` and `NextRect` are the branches of the
merge loops, `CollapseNext` is the body of the collapse; `MustCollapse` decides
between the loops, for a full array or for a client with little room. While a section
is in its loops the copy of an earlier grab, which has no lock, may go on (`GrabCopy`).
No definition is recursive, so that what the loops do to arrays of any length is
proved by invariants of their steps instead of by induction over data.
`GrabTake` takes the rectangles and fails if buffer or rectangles do not fit;
`GrabCopy` is the copy after the unlock, so that the compositor draws in between. A
client may grab when there is nothing to copy, as the ioctl allows.

### Gem and Cursor

`Gem` has the objects and their framebuffers, `Cursor` adds the cursor, the
plane updates, the grabs' last steps and the client's file; they are one machine.

| State | Code |
|---|---|
| `gem` | `struct evdi_gem_object` with its reference count; `areas` counts the kernel mappings that exist, of which `vmapping` names one |
| `handles`, `vmas`, `exports`, `pinned`, `fbs`, `fb_refs` | who refers to an object: the compositor, processes, dma-bufs, their importers, framebuffers |
| `thread` | per grab, for the commit and for `measure_copy_fb`: where it is in `evdi_gem_vmap` or in the update; `oops` if it faulted |
| `cursor`, `plane`, `old_plane` | `struct evdi_cursor`; DRM's plane state |
| `file`, `drm_filp`, `client_handles`, `cursor_events_enabled`, `disconnect` | the client |
| `told` | history: the last cursor_set |
| `overlapped` | history: objects at which two users of `evdi_gem_vmap` met since they were allocated |

`pages_lock` makes a pin and an unpin atomic; `vmapping` has no lock, so that
`evdi_gem_vmap` is a check, a pin and a mapping, each an action, and may fail at
the last two; grabs and measurements then look at `vmapping` once more. A
measurement makes no check: it maps what is mapped already, and unmaps it. Nothing
keeps these threads apart, and nothing in the model does. Where two of them meet, a
mapping is lost or is removed under a reader; the model lets it happen and remembers
the object in `overlapped`, so that `FreedHoldsNothing` and `ReadsMapped` can say
that only these objects are affected. An import may be of amdgpu, whose pages are mapped one by one, or of
another driver, where the mapping is the exporter's.

`evdi_cursor_atomic_update` is the set (which maps, with `cursor->lock` held), the
enable, the choice between events and damage, and the event, which makes a handle in
the client's file without a lock. A disconnect is three steps: it disables the
cursor, it leaves the file (`evdi_painter.c:1002`), it resets
`cursor_events_enabled` (`evdi_painter.c:1005`). A commit thread that has chosen the
event before the last step may therefore find no file and fault (`oops`, with
`cursor->lock` held for good, which is why this run does not check for deadlock), or
make a handle after `drm_gem_release` has put the others. Reading `drm_filp` and
making the handle is one step. Position, hotspot and pixels are left out; the walk
over the pixels is in `Arithmetic`.

### Ddcci

The adapter's life (connect adds it, a disconnect removes it while it holds
`painter->lock`), transfers of several messages on a bus that runs one at a time,
each DDC/CI message as request, wait, copy, and the client's responses: on time,
late, unreadable, of the wrong length. A response is the number of the request it
answers and a length. `i2c_del_adapter` waits until nobody holds the bus.
The completion is a counter; `complete` saturates at `MaxCompletions`, which loses
nothing because every wait follows a reset. Left out: address, flags and the
transfer's return value. The ioctl does not read `result`
(`docs/details.md:222` says that it decides whether the buffer is used); the
model has no such field either.

The comment at `evdi_painter.c:1009` says that the `complete` of a disconnect
signals whoever waits for a response. In the model nobody waits then:
the adapter is gone only when every transfer has returned. A transfer of the
*next* connection may be there, which is why connects that come before that
`complete` are part of `OverlapDisconnect`.

### Monitor

`Monitor` extends `Ddcci` with the connector. A connect sets EDID and limits to
its own number; connects and disconnects owe a hotplug check each. A check or a
probe (DRM's, external) is detection without a lock, then the status and perhaps an
event; a probe of a connected connector goes on to `evdi_get_modes`, which waits
for `painter->lock`, and to the validation of the modes. `shown` is whose EDID and
limits the compositor's modes were made with. `MonitorProofs` shows that Monitor's
steps are steps of `Ddcci`.

### Arithmetic

Pure functions, with 32-bit numbers that wrap: pitch and size of a dumb buffer,
the room a framebuffer needs, blending and the walk over the cursor, the limits of
`evdi_connect` and `evdi_mode_valid`. No state; its theorems are its checks, and
`MCMonitor` evaluates one more fact about sets of modes.

### Platform

The table and `dev_count` change under `g_ctx.lock` (one action), links are made
and removed without it, statement by statement: `LinkCheck`, `LinkCreate`,
`LinkMark` against `UnlinkCheck`, `UnlinkRemove`, `UnlinkFlag`, `UnlinkClear`.
`symlinked` and `parent` of `LinkMark` are set in one step. The branch of
`evdi_platform_drv_usb` that destroys a device is never taken, because devices
are created without a parent, and is not modelled. The notifier compares its
action with `BUS_NOTIFY_DEL_DEVICE`, a constant of another notifier chain; the
model takes it to mean that the USB device goes, as its comment does.
`remove_all` frees devices; overlaps of it with a link, an unlink or a table walk
use freed memory and are left out.

### Cards

`Cards` extends `Platform` with DRM's cards and libevdi's search for one. Adding a
device gives it the lowest free card number; removal of the devices leaves the
cards that a file has open, without a device. A call of
`evdi_open_attached_to_fixed` is a search (`find` or the first failure), the write
to `add` (whose steps are Platform's, with the program as the writer), a second
search, the number that was read, and the open. A search reads the directory entry
by entry in any order: it ends at any unused card that fits, or fails when none of
those it has seen fits. `device_index` and `card_usage` are per program and handle.
`evdi_connect` and `evdi_disconnect` decide which devices the kernel takes for free.

`excused` records the stated reasons for which a search after an add may find
nothing: the USB device went, the table is full, the devices were removed, another
writer links at the same time, or a link without its flag is left. The wait of
`open_device` for the card either ends or gives up; the search of `/proc` for a DRM
master is left out. A device and its card come and go in one step: a search
that meets a device without a card fails an assertion of `find_unused_card_for`
(`evdi_lib.c:522`), and these overlaps are left out.

### LibEvdi and PyCard

`LibEvdi` is one handle of the library: its list of registered buffers, the
buffer it was last asked for, the calls, and beside it what a client can tell of
the painter: damage or none, scanout buffer or none, the request flag, the
full-modeset flag and the events queued at the file. A commit is three actions
(plane or cursor, mode, update), so that calls of the client come in between.
The library's calls are operators; `PyCard` makes actions of them. It follows the
thread that runs `Card` from call to call: `handle_events` asks for an update,
waits, reads a batch and dispatches it; a handler asks, grabs and passes the
buffer on.

| State | Code |
|---|---|
| `bufferToUpdate`, `frameBuffers` | `struct evdi_device_context`; of a buffer only the id matters |
| `is_connected` ... `needs_full_modeset`, `commit`, `events` | the painter as seen through the file |
| `buffers`, `buffer_requested` | the fields of `Card` |
| `kept` | `shared_ptr`s the program holds: `use_count() == 1` is `FreeBuffers` |
| `batch`, `pc`, `caller` | the call stack of the thread in `Card` |
| `inVain` | history: since its last new buffers the card has found none of them free when it asked, or has asked while disconnected |

`grab_pixels` waits for a scanout buffer because `drm_ioctl` repeats on EAGAIN. A
failed assertion is the state `"aborted"`, which ends the program. Buffer ids are reused once nobody
refers to them and the library does not name them, where the code counts up.
One read takes all queued events, which fit into its 1024 bytes. Events that
change nothing here (DPMS, CRTC state, cursor, DDC/CI) are left out, and so
is the window of module Painter between sending `mode_changed` and clearing the
flag. Whether cursor events are enabled is left open: a cursor update damages the
screen or does not. Assumed of the program: its handlers do not call the card; it drops all
buffers before it closes the card. It may keep any buffers, and may call
`handle_events` when it is not connected: the code checks neither.

### Build that is modelled

Newest branches of the version conditionals (kernel 6.15 and later), x86,
`CONFIG_FB` and `CONFIG_USB_SUPPORT`. The fbdev damage path is
inactive: nothing outside the tests sets `efb.active`.

### Switches for the environment

Some constants say whether actors may meet in a window where the code loses. The
overlaps are FALSE and the others TRUE in the runs that state what holds outside
that window; the opposite is what the code allows.

| Switch | Window | With it open |
|---|---|---|
| `OverlapModeset` (Painter) | connect or VT switch between sending `mode_changed` and clearing its flag | run `painter_mode_race` |
| `OverlapDisconnect` (Events) | a disconnect while an unlocked sender sends | run `events_race` |
| `OverlapDisconnect` (Ddcci) | a disconnect between a response and its copy | run `ddcci_stuck` |
| `OneClient` (Monitor) | connects without a disconnect in between, of the same or of a second client | what `ModesSettle` says fails (it is claimed of `OneClient` only): the status does not change, and nobody reads the new EDID |
| `OpensOnce` (Cards) | `evdi_open` of a card that the program has open | `UsageExact` fails: the first close frees the entry of the second handle |
| `ConnectsFirst` (Cards) | a program asks for another card before it has connected the last | `AddedIsFound` fails: the kernel reuses the program's own card, which the library skips |

No passing run covers what these windows cost; the hazards in `PROJECT.json` say for
each whether a run shows the loss or nothing does.

`Gem`, `Cursor` and `PyCard` have no switch: their windows are open in every run, and
the history variables `overlapped` and `inVain` say in which behaviours the code has
lost. `MCPainter` and `MCPainterLive` set `OverlapModeset` TRUE: their properties hold with the window
open.

## 3. Runs

| Run | Instance | Shows |
|---|---|---|
| `painter` | 2 files, 1 framebuffer, 2 page-flip events, `MAX_DIRTS` 2 | no lost update; each page-flip event once, and held only for a client with damage; no freed file; damage dropped only by a grab |
| `painter_notify` | 1 file, 2 framebuffers, 2 consoles, no overlap | exact reference counts while framebuffers replace each other; a client learns the mode; a display switched off by a VT switch is owed a modeset |
| `painter_live` | 1 file, 1 framebuffer, 1 event | a wanted update is answered, page-flip events are delivered |
| `painter_mode_race` | overlap | **violated**: `ModeTold` |
| `events` | 2 senders, 2 files, room for 1 event, 3 events | no flush without a file, nothing stranded, refinement of `EventChannel`, every event leaves the list |
| `events_race` | overlap | **violated**: `NoFlushWithoutFile` |
| `dirty_rects` | buffers 3x2 and 2x2, 5 clips, `MAX_DIRTS` 3 | coverage of stale pixels at every step of the loops; room of the client; merging pays |
| `ddcci` | `Monitor`: 2 users, 2 connects, 2 requests, 2 messages per transfer | fresh answers, every transfer and every probe returns, status and modes settle on those of the client |
| `ddcci_stuck` | overlap | **violated**: `TransferReturns` |
| `platform` | `Cards`: 1 program with 2 handles, 1 other writer, 2 USB devices of which one stays, 2 slots, 3 cards | count and table agree; symlinked means linked; an unplug does not remove the other device's link; what was added is found; what was found is opened; the library's table is exact |
| `py_card` | 5 buffer ids, 2 queued events, the consumer keeps up to 2 buffers | registered buffers are the live ones; grabs go into a free buffer that was asked for; an announced update is the one waited for, unless the card asked in vain; no request is forgotten; damage is grabbed |
| `cursor` | 2 objects (one on the screen and shared), 1 grab, 1 commit, `measure_copy_fb`, 1 client | pages stay while used; references are exact; cursor events tell the cursor; mappings stay while read and go with the object, unless two users of `evdi_gem_vmap` met at it |

Bounds, and why they are enough:

- *Two files*: every race in the painter is between the owner and one other file
  (double connect, close by a former owner, two grabs). *Two framebuffers*
  (`painter_notify`): one on the screen, one that replaces it; a third adds no new
  holder. *Two events*: one held by the painter or a grab, one that comes with
  the next commit; the proof covers any number.
- `MAX_DIRTS` 2 is the smallest capacity that the code supports (a collapse
  leaves one rectangle and one is appended); damage at capacity is thus common.
  The proofs cover every capacity.
- `MaxClips` 0 is a commit without damage clips, which marks the whole
  framebuffer; the cursor's damage makes a second mark, so that a commit marks
  up to three times. More clips repeat `evdi_painter_mark_dirty`.
- `events`: three events and room for one make a full file, a queue of two and a
  squash over it; two senders are one with and one without the lock.
- `dirty_rects`: three rectangles are the fewest for which the merge loop moves
  the last into the gap and starts over with something left to compare. The
  clips have all shapes the code distinguishes: separate, touching, overlapping,
  empty, corners swapped, out of bounds.
- `ddcci`: two requests are one that is answered late and one that is answered by
  it; lengths below, at and above the buffer size. Two connects are two EDIDs, of
  which the first must not remain. What a transfer copies is proved for any bounds.
- `py_card`: two buffers are listed, two more may be kept from before a mode
  change, and one id is the one the library remembers. Two kept buffers are all that a
  card has, which is what leaves a request without a buffer. Two events make the batch
  of a mode and an update in either order; more of them only repeat.
- `platform`: two writers choose the same device; two slots are one that fits and
  one that does not; two handles are closed in either order. Two USB devices are
  needed for a link to the wrong one. The second one is not unplugged (`Docked`), and
  the constraint `Bounded` does not follow behaviours in which it is in use while the
  program searches or has a card open; the first one is unplugged at any time, so that
  its notifier meets links of both. The proofs have any number of USB devices, of
  writers and of slots. `MaxCards` 3 is two cards that programs hold open without
  their devices and one more.
- `cursor`: two objects, so that the cursor replaces one by the other while a grab
  reads the screen. Object `o1` alone is shared with processes and other drivers,
  and in behaviours without a client only (`Apart`): sharing is about pages, the
  client about handles and events, and neither reads what the other changes but
  through the references. Measurements and failing maps are in these behaviours too.
  `MaxPins` 1 leaves room for two pins and for two mappings of one object. A file in which
  a handle was made too late is not opened again, and there is one measurement at a
  time.

`VIEW WithoutHistory` in `MCPainter.cfg` identifies states that differ only in
what the client was told; no action and no property of that run reads it. Symmetry is used for sets whose members no definition tells apart, and
in no run with a liveness property. Deadlock is checked in every run but
`ddcci_stuck`, where the system stopping is the point, and `cursor`, where a commit
thread that faulted keeps the cursor's lock and so stops the grabs and the disconnect.

### Fairness

- *Kernel threads*: weak fairness of every step of something that has started
  (a commit, the rest of a grab, a release, a notifier, a send, a work item, a
  transfer). Kernel threads are scheduled and the code between two steps does
  not block except on the locks that are modelled. Nothing is assumed to start.
- *Client* (`painter_live`): the connected client grabs when there is damage;
  that is what `update_ready` tells it to do. In `events`: the client reads its
  file. A client that does neither is stuck by its own choice.
- `py_card`: a commit that has started ends, and the program goes on calling
  `handle_events` while it is connected. It need not release buffers.
- In `ddcci` nothing is assumed of the client or of the programs on the bus,
  except in `ProbeReturns`: a disconnect waits for the programs that hold the bus
  open, so that property assumes that each closes it now and then.

### Findings

- **Lost modeset** (`evdi_painter.c:836`): `needs_full_modeset` is cleared
  without the lock after `mode_changed` was sent. A connect in between, or a VT
  switch, sets it in vain; the new client is not told a mode.
- **Event without a file** (`evdi_painter.c:386`): unlocked senders check the
  file and flush later; a disconnect in between leaves a NULL file.
- **Disconnect against DDC/CI** (`evdi_painter.c:1000`): a disconnect removes
  the adapter with the lock held that an answered transfer needs to return.

More that the models have and no run states as a property: the assertion of
`pyevdi/Card.cpp:13` follows a null pointer or fails when a consumer keeps both
buffers over a `mode_changed`, or when the card asks while it is disconnected
(`inVain` in `PyCard`); a debugfs measurement of a framebuffer that is mapped
(`evdi_painter.c:1290`) overwrites its mapping, which leaks, and a grab that is copying
loses its mapping when the measurement ends (`overlapped` in `Cursor`); a cursor event
chosen before a disconnect faults at the file that the disconnect has left
(`evdi_painter.c:449`, step `oops`); the windows of the table of switches above; a disconnect
drops the scanout buffer and keeps `num_dirts`, so that the next client is told
to grab, and `drm_ioctl` spins until a commit comes (`evdi_painter.c:981`); and a
DDC/CI response that comes after its timeout answers the next request
(`evdi_painter.c:1434`).

## 4. Proofs

Every invariant and every action property that a passing run checks is also a theorem,
for every value of the constants that the module's assumptions allow. Hypotheses beyond
those are the switches of section 2 and are named with the theorem; each says what the
environment must not do, and the table of switches says what happens without it.

All of them have the same shape: an inductive invariant that implies the property
(checked by TLC on the run's instance before it was proved), a lemma that the initial
states have it, a lemma with a case per action that steps keep it, and a theorem that
puts the two together. Types come first, the rest assumes them.

### Painter

`PainterProofs`, for every number of files, framebuffers, events and consoles, every
`MAX_DIRTS` of at least two and every `MaxClips`:

| Theorem | States | Beyond the assumptions |
|---|---|---|
| `TypeCorrect` | `[]TypeOK`; `num_dirts` never exceeds the array | |
| `UpdateNeverLost` | `[]NoLostUpdate` | |
| `OwnerAlwaysAlive` | `[]OwnerIsAlive` | |
| `VblankHeldForDamage` | `[]HeldVblankHasDamage` | |
| `VblankNeverLostOrRepeated` | `[]VblankExactlyOnce` | |
| `OnlyGrabsDropDamage` | `DamageDroppedByGrab` | |
| `FbReferencesExact` | `[]FbReferences` | |
| `ModeIsTold` | `[]ModeTold` | `~OverlapModeset` |
| `DarkClientIsOwed` | `[]DpmsOffOwesModeset` | `~OverlapModeset` |

The assumptions are those of the module: the NULL constants are no members of
their sets, at least two rectangles fit, at least one console. `Files` may be any set.

- `NoLostUpdate` and `OwnerIsAlive` are inductive given `TypeOK`. For the first,
  the point is that only a step of a commit adds damage and that the last step
  of a commit answers; for the second, that only the disconnect of a file's own
  release makes it closed.
- `HeldVblankHasDamage` needs to know, when `evdi_painter_set_vblank` holds an
  event back, that the connection and the damage are read in the same section
  in which the event is stored, and that merges keep damage positive.
- `VblankExactlyOnce` is not inductive alone: a commit that ended with its event
  undelivered would lose it to the next commit. The strengthening `VblankInv`
  adds that a commit past `evdi_painter_set_vblank` carries no event any more.
  The step that needs most care is `GrabTake`, where an event changes hands while
  grabs of other files may hold others.
- `FbReferences` counts the grabs with a cardinality. `FbRefInv` adds that only
  finitely many grabs hold one framebuffer (each grab adds one) and where a commit
  keeps its old framebuffer; the steps of a grab change the set `GrabsOf` of one
  framebuffer by one file.
- `ModeTold` needs `ToldInv`: the flag is cleared after the event was sent. With
  `OverlapModeset` a connect comes in between, which is the finding.
- `DpmsOffOwesModeset` holds between commits only. `DpmsInv` says what a commit under
  way owes: a client left dark without a flag is about to be told, by the plane's first
  framebuffer or by the flush that has read the flag.

### DirtyRects

`DirtyRectsProofs`, for buffers of any size, any clips and any capacity of at least
two:

| Theorem | States |
|---|---|
| `RectsFitArray` | `[]TypeOK`; a full array gets room before the next rectangle is stored |
| `GrabsFitRoom` | `[]GrabFitsRoom` |
| `MergingPays` | `[]MergeCopiesNoMore` |
| `NoDamageLost` | `[]StaleIsDirty` |

Lemmas first: what a sanitized rectangle covers, that a bounding rectangle covers
both, that `rect_area` counts pixels, and what one merge does to the array
(`MergedFacts`, `MergedCovers`, `MergedArea`). The pixels to copy are a disjoint union
over the indices, so that `MergedArea` adds up cardinalities of three of its parts and
a rest that stays, with and without the case that the last rectangle is the one merged.

- `SectionOK` gives the types: the indices of a merge are in order, a section that is
  done with its loops has room for what comes, a collapse leaves one rectangle.
- `MergingPays` needs `Corners`, which sanitizing establishes: with corners swapped
  an area would be negative.
- `NoDamageLost` needs `Growing` (the first rectangle of a collapse holds those that
  it has passed, so that the others may be dropped at its end) and `StaleOK` (a
  client with a buffer of another size lacks everything, so that a new buffer makes
  nothing stale that was not).

### Events

`EventsProofs`, for any number of senders, clients and events and any room in the
clients' files, with `OverlapDisconnect = FALSE` (types without it):

| Theorem | States |
|---|---|
| `EventsTypeCorrect` | `[]TypeOK`; a file never holds more unread events than it has room for |
| `FlushesHaveFile` | `[]NoFlushWithoutFile` |
| `NothingStranded` | `[]NoStrandedEvent` |
| `QueueImplementsChannel` | `Spec => ImplementsChannel`, the refinement of `EventChannel` |

The invariant `EventsInv` has four parts besides the types. `Sessions`: a locked
sender is the only one, nobody sends while a client leaves (`Quiet`), there is a
file exactly as long as a client is connected and until the disconnect forgets it,
and a sender past the first check keeps its client. `QueueInv`: the list is empty
from the cleanup to the end of a disconnect. `CancelInv`: only a disconnect disables
the work. And `NoStrandedEvent` itself, which rests on the other two: a schedule that
is refused finds the list empty. For the refinement, `FlushStep` shows that a flush
hands over a prefix of the list or does nothing.

### GEM objects and cursor

`CursorProofs`, for any number of objects, grabs and bounds, with every overlap allowed:

| Theorem | States |
|---|---|
| `Types` | `[]TypeOK` |
| `ReferencesAreExact` | `[]ReferencesExact` |
| `PagesAreThere` | `[]PagesWhileNeeded` |
| `FreedIsForgotten` | `[]FreedHoldsNothing` |
| `ReadersAreMapped` | `[]ReadsMapped` |
| `TheClientIsTold` | `[]CursorTold` |

Next is first split by the kind of step (`NextCases`), because most kinds touch one
object or one thread only.

- `RefInv` adds to `ReferencesExact` which thread is at which step and that an idle
  one has no object: a reference taken at the start of a grab is the one that its end
  gives back.
- `PinInv` is an inequality: at least the pins of the offset, of the importer, of the
  mapping and of each thread between its pin and its mapping are there. It cannot be
  an equation, because two threads that map at once lose one pin for good. That pages
  stay needs the inequality only, and so holds through every overlap.
- `AloneInv` is about the objects that are not in `overlapped`: `vmapping` names the one
  mapping there is, one thread at most makes it, and a measurement has the object to
  itself. The step that would break it is the one that puts the object into
  `overlapped`, which is what the two theorems that rest on it say: a mapping is lost
  there and nowhere else.
- `ToldInv` carries what it was told through the steps of an update, up to the event.

### Platform and Cards

`CardsProofs`, for any number of slots, writers and USB devices; the last four for any
number of programs and handles around the table:

| Theorem | States | Beyond the assumptions |
|---|---|---|
| `PlatformTypeCorrect` | `[]TypeOK` | |
| `CountAlwaysMatches` | `[]CountMatchesTable` | |
| `UnlinksOnlyOwn` | `UnlinksOwnOnly` | |
| `SymlinkedAlwaysLinked` | `[]SymlinkedHasLink` | |
| `CardsImplementPlatform` | `CardsSpec => Spec`: cards and libevdi leave the device table to Platform | |
| `TableSound` | count, flags and unlinks as above, of the composition | |
| `UsageAlwaysExact` | `CardsSpec => []UsageExact` | `OpensOnce` |
| `FoundIsOpened` | `CardsSpec => []OpensWhatItFound` | |
| `AddedAlwaysFound` | `CardsSpec => []AddedIsFound` | `ConnectsFirst`, one program |

- `CreateFillsEmptySlot` is why the count is right: a new device goes into the lowest
  slot, which is empty when there is one. `LinkInv` relates each link to the plugged
  USB device, its callbacks under way and the recorded parent; `FlagHasLink` adds that
  a flag without a link is being cleared by the unlink that took the link. `AtDevices`
  says that only devices of the table are linked or flagged.
- `OpensWhatItFound` needs `CallPlace` (a program that searches has no request in the
  kernel) and `UnluckyIsExcused`: a device that a search has found keeps its link and
  its number unless one of the reasons in `excused` strikes.
- `AddedIsFound` follows a device through three places: the slot that the kernel
  chooses, the link it makes, the search that has not yet come to it (`AddInv`). It
  holds of one program that connects what it opens, against any other writers. Two
  programs break it, as an instance with two shows: the other program connects
  the free device between the kernel's choice and its link. `ConnectsFirst` is in the
  table of switches.

### DDC/CI and connector

`MonitorProofs`, for any number of users and any bounds:

| Theorem | States | Beyond the assumptions |
|---|---|---|
| `MonitorImplementsDdcci` | `MonitorSpec => Spec` of Ddcci | |
| `DdcciTypeCorrect` | `[]TypeOK` of Ddcci; the stored length fits the buffer, whatever the client passes | |
| `AnswersAreFresh` | `MonitorSpec => []AnswerIsFresh` | `~OverlapDisconnect` |
| `MonitorTypeCorrect` | `MonitorSpec => []MonitorTypeOK` | |
| `TheStatusSettles` | `MonitorSpec => []StatusSettles` | |
| `TheModesSettle` | `MonitorSpec => []ModesSettle` | |

- `AnswerIsFresh` needs `BusInv` (a disconnect that has returned from the adapter has
  left no transfer, so that its `complete` wakes nobody) and `FreshInv` (a completion
  that can be taken stands for a response to this request, or there is nothing to
  copy).
- `StatusInv` is about the check that comes last: what it has read is what is, unless
  another check is owed. `HpdInv` bounds the checks that are owed.
- `ModesSettle` follows from "somebody will look again" (`LookDue`): the modes are right,
  or an event, a wrong status or a probe that will set them right is there. Its
  condition `OneClient` is part of the property.

### pyevdi

`PyCardProofs`, for every consumer, every room for events and every set of buffer ids:

| Theorem | States | Beyond the assumptions |
|---|---|---|
| `BuffersRegisteredWhileAlive` | `[]RegisteredAreLive` | |
| `GrabsOwnBuffer` | `[]GrabWritesOwnBuffer` | |
| `TheRequestIsOwed` | `[]RequestIsOwed` | |
| `CardTypes` | `[]TypeOK` | `EnoughIds` |
| `UpdatesAreForRequests` | `[]UpdateReadyIsForRequested`, for any number of kept buffers and events handled unconnected | |

- `RequestedIsOwn` adds to the first two that an outstanding request names the
  library's buffer, one of the list that no consumer holds: `request_update` chooses
  it free, and only `AcquireFramebuffer`, which ends the request, hands it out.
  `GrabIsRequested` carries this to the grab, and `ClosedIsEmpty` says that a closed
  card leaves nothing that a new handle would not know.
- `RequestOwed` extends `RequestIsOwed` to every place of the call stack but the middle
  of a grab, with an answer that is read and not yet dispatched counted as one.
- `EnoughIds` says that ids do not run out: they are the natural numbers, which
  the code counts up, or a finite set with two more than are ever in use. Without it
  `makeBuffers` would have to choose from nothing.
- `ReadyInv`: a card that has buffers and has not asked in vain waits for an update
  whenever it is not busy with one. A request that finds no free buffer, or that is made
  while disconnected, ends this until the next new buffers (`inVain`), and then the
  assertion of `pyevdi/Card.cpp:13` may fail (section 3).

### Arithmetic

`Arithmetic` proves, with 32-bit numbers: `BlendIsWeightedMean` (the shifts of
`blend_component` are the weighted mean, without overflow), `CursorReadsInside` and
`ComposedIsOverlap` (the walk over the cursor stays inside it and reaches all of the
overlap but the last column or row of an odd size), `DumbBufferHoldsLines`,
`FbLinesInsideObject`, `AreaLimitAllows60Hz` and `KeptModesFit`. Each says which
product must fit into 32 bits.

### Only model-checked

The liveness properties: `UpdateAnswered`, `VblankDelivered`, `EventsLeaveTheList`,
`TransferReturns`, `ProbeReturns` and `DamageIsGrabbed`. Liveness under fairness
and ENABLED are out of the prover's reach. The liveness of `EventChannel` is not part
of the refinement that is proved.

## 5. Plan

Every component with state of its own that several actors share is modelled, and
every invariant and action property of a run is proved. Left for later, most useful
first:

1. Proofs: the abstraction of damage by a count. A painter of sets of rectangles
   that Painter's counts and DirtyRects' arrays both refine would connect the two.
2. The painter as a single-client mailbox of damage that Painter implements and
   LibEvdi assumes; the device table as a set of named devices.
3. `TransferReturns` and `UpdateAnswered` as safety: the step that is owed is
   enabled, which is most of what their liveness rests on.
4. The DRM master of a card, which `evdi_open` waits for and drops, over two
   programs.

## 6. Not modelled

- ioc32 copies fields; encoder, parameters and logging have no behaviour; the kernel
  tests were read for what they expect.
- Parsing of USB paths, `Xorg_running` and the search of `/proc` for a DRM master are
  I/O without state. The Python buffer protocol and statistics likewise.
- The fbdev emulation is inactive outside the tests.
- Failed allocations in the creation of devices, of fbdev and of events. The error
  paths leave the VT notifier registered, clean up fbdev twice
  (`evdi_drm_drv.c:213`) and drop a reference through a pointer that is not set
  (`evdi_fb.c:465`); a device that could not be created is stored in the table as an
  error pointer (`evdi_platform_drv.c:124`).
- Use of freed memory: table walks while `remove_all` frees, a Python buffer that
  outlives its card's handle (`pyevdi/Buffer.cpp:54`).
- After a change to a smaller mode old rectangles wait and the first grab fails
  (`evdi_painter.c:238`): DirtyRects has it, and `docs/details.md` allows it. A file
  that is not connected may request an update, which outlives it
  (`evdi_painter.c:1212`): PyCard has it. `request_update` and
  `grab_pixels` of pyevdi call each other as long as there is damage
  (`pyevdi/Card.cpp:195`): PyCard has the loop, without a stack.
- Enabling cursor events does not send the cursor that is there
  (`evdi_painter.c:1523`); `CursorTold` counts from the next change on.
