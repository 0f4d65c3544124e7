----------------------------- MODULE DirtyRects -----------------------------
(***************************************************************************)
(* The damage a painter accumulates between two grabs, as rectangles:      *)
(* evdi_framebuffer_sanitize_rect (module/evdi_fb.c), expand_rect,         *)
(* merge_dirty_rects, collapse_dirty_rects, evdi_painter_mark_dirty and    *)
(* the use evdi_painter_grabpix_ioctl makes of them (evdi_painter.c).      *)
(*                                                                         *)
(* A rectangle covers the pixels <<x, y>> with x1 <= x < x2, y1 <= y < y2. *)
(* Marking and grabbing are sections under painter->lock whose loops are   *)
(* taken apart, a pair of rectangles at a time: no definition is recursive,*)
(* and module DirtyRectsProofs proves the properties for any number of     *)
(* rectangles.  The history variable stale is what the rectangles are for. *)
(***************************************************************************)
EXTENDS Integers, Sequences, FiniteSets

CONSTANTS
  Sizes,      \* sizes <<width, height>> of scanout buffers and client buffers
  MaxCoord,   \* bound on coordinates
  Clips,      \* damage clips, as the callers pass them
  MAX_DIRTS   \* capacity of painter->dirty_rects

ASSUME SizeAssumption ==
  /\ MaxCoord \in Nat
  /\ Sizes # {}
  /\ \A s \in Sizes : s \in (1..MaxCoord) \X (1..MaxCoord)

ASSUME DirtsAssumption == MAX_DIRTS \in Nat /\ MAX_DIRTS >= 2

Rect == [x1 : 0..MaxCoord, y1 : 0..MaxCoord, x2 : 0..MaxCoord,
         y2 : 0..MaxCoord]

ASSUME ClipAssumption == Clips \subseteq Rect

VARIABLES
  scanout,      \* size of the scanout buffer
  unmarked,     \* it is new and its commit has not marked it yet
  dirty_rects,  \* the first num_dirts entries of painter->dirty_rects
  section,      \* the section under painter->lock that is in its loops: where
                \* it is, who runs it ("mark" or "grab"), the rectangle it
                \* will store, the client's room, the loop indices, and
                \* (history) the pixels to copy when it began
  buffer,       \* size of the buffer the client grabs into
  grab,         \* the grab in flight: its own copy of the rectangles, the
                \* number the client has room for, and whether the buffer
                \* it reads is still the scanout buffer
  stale,        \* history: pixels of the scanout buffer changed since the
                \* client last copied them
  failed        \* history: a grab has failed since the mode was marked

vars ==
  <<scanout, unmarked, dirty_rects, section, buffer, grab, stale, failed>>

NoGrab == [rects |-> <<>>, room |-> 0, current |-> FALSE]
NoRect == [x1 |-> 0, y1 |-> 0, x2 |-> 0, y2 |-> 0]
Idle == [at |-> "idle", by |-> "nobody", clip |-> NoRect, room |-> 0,
         a |-> 0, b |-> 0, given |-> 0]

Pixels(r) == (r.x1..(r.x2 - 1)) \X (r.y1..(r.y2 - 1))
Covered(rects) == UNION {Pixels(rects[i]) : i \in DOMAIN rects}
FullRect(size) == [x1 |-> 0, y1 |-> 0, x2 |-> size[1], y2 |-> size[2]]
Fits(r, size) == r.x2 <= size[1] /\ r.y2 <= size[2]

\* Pixels to copy: each counts as often as it lies in a rectangle.
Copies(rects) == UNION {{i} \X Pixels(rects[i]) : i \in DOMAIN rects}
TotalArea(rects) == Cardinality(Copies(rects))

Sections ==
  [at : {"idle", "merge", "merged", "collapse", "collapsed"},
   by : {"nobody", "mark", "grab"}, clip : Rect, room : 0..MAX_DIRTS,
   a : 0..MAX_DIRTS, b : 0..(MAX_DIRTS + 1), given : Nat]

TypeOK ==
  /\ scanout \in Sizes
  /\ unmarked \in BOOLEAN
  /\ dirty_rects \in Seq(Rect) /\ Len(dirty_rects) <= MAX_DIRTS
  /\ section \in Sections
  /\ buffer \in Sizes
  /\ grab \in [rects : Seq(Rect), room : 0..MAX_DIRTS, current : BOOLEAN]
  /\ stale \subseteq Pixels(FullRect(scanout))
  /\ failed \in BOOLEAN

-----------------------------------------------------------------------------
Smaller(a, b) == IF a <= b THEN a ELSE b
Larger(a, b)  == IF a >= b THEN a ELSE b

\* evdi_framebuffer_sanitize_rect: order the corners, clip them to the buffer.
evdi_framebuffer_sanitize_rect(size, r) ==
  [x1 |-> Smaller(Smaller(r.x1, r.x2), size[1]),
   y1 |-> Smaller(Smaller(r.y1, r.y2), size[2]),
   x2 |-> Smaller(Larger(r.x1, r.x2), size[1]),
   y2 |-> Smaller(Larger(r.y1, r.y2), size[2])]

expand_rect(a, b) ==
  [x1 |-> Smaller(a.x1, b.x1), y1 |-> Smaller(a.y1, b.y1),
   x2 |-> Larger(a.x2, b.x2),  y2 |-> Larger(a.y2, b.y2)]

\* Mutant: half the perimeter instead of the area.
HalfPerimeter(r) == (r.x2 - r.x1) + (r.y2 - r.y1)

rect_area(r) == (r.x2 - r.x1) * (r.y2 - r.y1)

-----------------------------------------------------------------------------
Init ==
  /\ scanout \in Sizes
  /\ unmarked = FALSE
  /\ dirty_rects = <<FullRect(scanout)>>
  /\ section = Idle
  /\ buffer = scanout
  /\ grab = NoGrab
  /\ stale = Pixels(FullRect(scanout))
  /\ failed = FALSE

\* The section takes the lock and begins with the merge, or without it.
Begin(at, by, clip, room) ==
  /\ section = Idle
  /\ section' = [at |-> at, by |-> by, clip |-> clip, room |-> room,
                  a |-> 1, b |-> 2, given |-> TotalArea(dirty_rects)]

\* evdi_painter_mark_dirty merges a full array before it stores the rectangle.
BeginMark(r) ==
  Begin(IF Len(dirty_rects) = MAX_DIRTS THEN "merge" ELSE "merged", "mark",
        evdi_framebuffer_sanitize_rect(scanout, r), 0)

\* The compositor draws into a rectangle and says so.
evdi_painter_mark_dirty(r) ==
  /\ ~unmarked
  /\ BeginMark(r)
  /\ stale' = stale \cup Pixels(evdi_framebuffer_sanitize_rect(scanout, r))
  /\ UNCHANGED <<scanout, unmarked, dirty_rects, buffer, grab, failed>>

\* A mode change brings a scanout buffer of another size
\* (evdi_painter_set_scanout_buffer); the rectangles of the old one stay, and
\* a grab in flight goes on reading it.
ChangeMode(size) ==
  /\ ~unmarked
  /\ section = Idle
  /\ size # scanout
  /\ scanout' = size
  /\ stale' = Pixels(FullRect(size))
  /\ unmarked' = TRUE
  /\ grab' = [grab EXCEPT !.current = FALSE]
  /\ UNCHANGED <<dirty_rects, section, buffer, failed>>

\* Then evdi_plane_atomic_update marks all of it.
MarkScanout ==
  /\ unmarked
  /\ BeginMark(FullRect(scanout))
  /\ unmarked' = FALSE
  /\ failed' = FALSE
  /\ UNCHANGED <<scanout, dirty_rects, buffer, grab, stale>>

\* evdi_painter_grabpix_ioctl merges whatever there is; the client passes room
\* for n rectangles and waits for the ioctl before it grabs again.
evdi_painter_grabpix_ioctl(n) ==
  /\ grab = NoGrab
  /\ Begin("merge", "grab", NoRect, n)
  /\ UNCHANGED <<scanout, unmarked, dirty_rects, buffer, grab, stale, failed>>

-----------------------------------------------------------------------------
\* The loops.  They change the rectangles and their own place only.
InLoop(at) ==
  /\ section.at = at
  /\ UNCHANGED <<scanout, unmarked, buffer, grab, stale, failed>>

\* The outer loop of merge_dirty_rects ends before the last rectangle.
Merging == section.a < Len(dirty_rects)
Bounding == expand_rect(dirty_rects[section.a], dirty_rects[section.b])
MergePays == rect_area(Bounding) <= rect_area(dirty_rects[section.a])
                                    + rect_area(dirty_rects[section.b])

\* Two rectangles become their bounding rectangle if that has no more pixels;
\* the last rectangle fills the gap and b starts over.
MergePair ==
  /\ InLoop("merge") /\ Merging /\ section.b <= Len(dirty_rects)
  /\ MergePays
  /\ dirty_rects' =
       LET n == Len(dirty_rects)
       IN SubSeq([dirty_rects EXCEPT ![section.a] = Bounding,
                                     ![section.b] = dirty_rects[n]], 1, n - 1)
  /\ section' = [section EXCEPT !.b = section.a + 1]

SkipPair ==
  /\ InLoop("merge") /\ Merging /\ section.b <= Len(dirty_rects)
  /\ ~MergePays
  /\ section' = [section EXCEPT !.b = section.b + 1]
  /\ UNCHANGED dirty_rects

NextRect ==
  /\ InLoop("merge") /\ Merging /\ section.b > Len(dirty_rects)
  /\ section' = [section EXCEPT !.a = section.a + 1, !.b = section.a + 2]
  /\ UNCHANGED dirty_rects

\* A mark collapses an array that is still full, a grab one that is longer
\* than the client's.
StillFull == section.by = "mark" /\ Len(dirty_rects) = MAX_DIRTS
TooMany == section.by = "grab" /\ Len(dirty_rects) > section.room
MustCollapse == StillFull \/ TooMany

MergeEnd ==
  /\ InLoop("merge") /\ ~Merging
  /\ section' = IF MustCollapse
                THEN [section EXCEPT !.at = "collapse", !.b = 2]
                ELSE [section EXCEPT !.at = "merged"]
  /\ UNCHANGED dirty_rects

\* Mutant: the loop stops before the last rectangle.
CollapsedButLast == section.b >= Len(dirty_rects)

\* collapse_dirty_rects: the first rectangle grows around the others, which
\* are then dropped.
Collapsed == section.b > Len(dirty_rects)

CollapseNext ==
  /\ InLoop("collapse") /\ ~Collapsed
  /\ dirty_rects' =
       [dirty_rects EXCEPT ![1] = expand_rect(dirty_rects[1],
                                              dirty_rects[section.b])]
  /\ section' = [section EXCEPT !.b = section.b + 1]

CollapseEnd ==
  /\ InLoop("collapse") /\ Collapsed
  /\ dirty_rects' = <<dirty_rects[1]>>
  /\ section' = [section EXCEPT !.at = "collapsed"]

-----------------------------------------------------------------------------
\* What a section does after its loops, before it drops the lock.
EndSection(by) ==
  /\ section.at \in {"merged", "collapsed"}
  /\ section.by = by
  /\ section' = Idle

StoreDirty ==
  /\ EndSection("mark")
  /\ dirty_rects' = Append(dirty_rects, section.clip)
  /\ UNCHANGED <<scanout, unmarked, buffer, grab, stale, failed>>

\* A buffer of another size fails the grab, and so does a rectangle beyond it
\* (copy_primary_pixels).
GrabSucceeds(rects) ==
  buffer = scanout /\ \A i \in DOMAIN rects : Fits(rects[i], buffer)

GrabTake ==
  /\ EndSection("grab")
  /\ dirty_rects' = <<>>
  /\ \/ /\ GrabSucceeds(dirty_rects)
        /\ grab' = [rects |-> dirty_rects, room |-> section.room,
                    current |-> TRUE]
        /\ UNCHANGED failed
     \/ /\ ~GrabSucceeds(dirty_rects)
        /\ failed' = TRUE
        /\ UNCHANGED grab
  /\ UNCHANGED <<scanout, unmarked, buffer, stale>>

\* After the unlock the pixels are copied; meanwhile the compositor draws on.
GrabCopy ==
  /\ grab # NoGrab
  /\ stale' = IF grab.current THEN stale \ Covered(grab.rects) ELSE stale
  /\ grab' = NoGrab
  /\ UNCHANGED <<scanout, unmarked, dirty_rects, section, buffer, failed>>

\* The client, told of the new mode, registers a buffer that fits; it does not
\* while it grabs.
NewBuffer ==
  /\ grab = NoGrab /\ section.by # "grab" /\ ~unmarked
  /\ buffer # scanout
  /\ buffer' = scanout
  /\ stale' = Pixels(FullRect(scanout))
  /\ UNCHANGED <<scanout, unmarked, dirty_rects, section, grab, failed>>

Next ==
  \/ \E r \in Clips : evdi_painter_mark_dirty(r)
  \/ \E size \in Sizes : ChangeMode(size)
  \/ MarkScanout
  \/ NewBuffer
  \/ \E n \in 1..MAX_DIRTS : evdi_painter_grabpix_ioctl(n)
  \/ MergePair \/ SkipPair \/ NextRect \/ MergeEnd
  \/ CollapseNext \/ CollapseEnd
  \/ StoreDirty \/ GrabTake \/ GrabCopy

Spec == Init /\ [][Next]_vars

-----------------------------------------------------------------------------
(***************************************************************************)
(* Properties.                                                             *)
(***************************************************************************)

\* The pixels that something under way still reports or copies: a mark about
\* to store its rectangle, a grab that reads the scanout buffer.
OnTheWay ==
  (IF section.by = "mark" THEN Pixels(section.clip) ELSE {}) \cup
  (IF grab.current THEN Covered(grab.rects) ELSE {})

\* No damage is lost: whatever was merged, moved or collapsed, and at every
\* step of the loops, the rectangles waiting and what is on the way cover every
\* pixel that the client does not have yet.  (A grab that fails takes its
\* damage with it.)
StaleIsDirty ==
  ~failed /\ ~unmarked => stale \subseteq Covered(dirty_rects) \cup OnTheWay

\* A grab never reports more rectangles than the client has room for.
GrabFitsRoom == Len(grab.rects) <= grab.room

\* Merging is worth it: until the rectangles have to be collapsed there are
\* never more pixels to copy than when the section began.
MergeCopiesNoMore ==
  section.at \in {"merge", "merged"} => TotalArea(dirty_rects) <= section.given
=============================================================================
