----------------------------- MODULE Arithmetic -----------------------------
(***************************************************************************)
(* Arithmetic of the kernel module: the size of a dumb buffer              *)
(* (module/evdi_gem.c), the room that a framebuffer needs (evdi_fb.c), the *)
(* cursor that a grab blends into the screen (evdi_cursor.c) and the modes *)
(* that a client's limits allow (evdi_connector.c).  Everything here is a  *)
(* function of its arguments; the theorems are about all of them, with     *)
(* 32-bit unsigned numbers that wrap around.                               *)
(***************************************************************************)
EXTENDS Integers, TLAPS

CONSTANTS
  Word,        \* 2^32: what a uint32_t counts modulo
  PAGE_SIZE

ASSUME WordAssumption == Word \in Nat /\ Word >= 256 * 256 * 256
ASSUME PageAssumption == PAGE_SIZE \in Nat \ {0}

Byte == 0..255
Positive == Nat \ {0}

U32(n) == n % Word
RoundUp(n, m) == ((n + m - 1) \div m) * m

-----------------------------------------------------------------------------
(***************************************************************************)
(* Buffers.                                                                *)
(***************************************************************************)

\* Pixels of cpp bytes that a pitch is a multiple of: pitch_mask + 1.
PitchPixels(cpp) == CASE cpp = 1        -> 256
                      [] cpp = 2        -> 128
                      [] cpp \in {3, 4} -> 64
                      [] OTHER          -> 1

\* The mask clears the low bits of the width; the int result becomes a
\* uint32_t.
evdi_align_pitch(width, cpp) == U32(RoundUp(width, PitchPixels(cpp)) * cpp)

\* The size of the GEM object of a dumb buffer: a 32-bit product, then whole
\* pages.
evdi_dumb_create(width, height, cpp) ==
  RoundUp(U32(evdi_align_pitch(width, cpp) * height), PAGE_SIZE)

\* Has the object of a framebuffer enough room?  DRM has refused planes that
\* end beyond 2^32 - 1, but ALIGN may wrap.
FbFits(size, offset, pitch, height) ==
  U32(RoundUp(offset + pitch * height, PAGE_SIZE)) <= size

-----------------------------------------------------------------------------
(***************************************************************************)
(* The cursor on the screen.                                               *)
(***************************************************************************)

PreBlend(pixel, blend, alpha) == pixel * (255 - alpha) + blend * alpha

blend_component(pixel, blend, alpha) ==
  LET pre == PreBlend(pixel, blend, alpha)
  IN U32(pre + (pre + 1) * 256) \div (256 * 256)

\* A pixel is a record of its components; the screen's alpha becomes 0.
blend_alpha(pixel, blend) ==
  [r |-> blend_component(pixel.r, blend.r, blend.a),
   g |-> blend_component(pixel.g, blend.g, blend.a),
   b |-> blend_component(pixel.b, blend.b, blend.a),
   a |-> 0]

\* The loops run from minus half the size to half the size, so that an odd
\* size loses its last column or row; h is the half.
Loop(size) == LET h == size \div 2 IN {i \in Int : -h <= i /\ i < h}

is_pix_sane(x, y, fb_width, fb_height) ==
  x \in 0..(fb_width - 1) /\ y \in 0..(fb_height - 1)

\* The cursor pixel of a step of the loops.
cursor_pix(x, y, width, height) ==
  (width \div 2) + x + ((height \div 2) + y) * width

\* The screen pixels that evdi_cursor_compose_and_copy changes, for a cursor
\* of the given size at cx, cy.
Composed(cx, cy, width, height, fb_width, fb_height) ==
  {p \in Int \X Int :
     /\ is_pix_sane(p[1], p[2], fb_width, fb_height)
     /\ \E x \in Loop(width), y \in Loop(height) :
          p = <<cx + x + (width \div 2), cy + y + (height \div 2)>>}

-----------------------------------------------------------------------------
(***************************************************************************)
(* Modes.                                                                  *)
(***************************************************************************)

Mode == [hdisplay : Positive, vdisplay : Positive, vrefresh : Positive]

Area(mode) == U32(mode.hdisplay * mode.vdisplay)
PixelRate(mode) == U32(Area(mode) * mode.vrefresh)

SameResolution(m, n) == m.hdisplay = n.hdisplay /\ m.vdisplay = n.vdisplay

is_lowest_frequency_mode_of_given_resolution(modes, mode) ==
  \A m \in modes : SameResolution(m, mode) => m.vrefresh >= mode.vrefresh

evdi_mode_valid(modes, mode, pixel_area_limit, pixel_per_second_limit) ==
  \/ pixel_per_second_limit = 0
  \/ /\ Area(mode) <= pixel_area_limit
     /\ \/ PixelRate(mode) <= pixel_per_second_limit
        \/ is_lowest_frequency_mode_of_given_resolution(modes, mode)

\* The limit on the pixel rate that libevdi's evdi_connect derives from the
\* limit on the area.
evdi_connect(sku_area_limit) == U32(sku_area_limit * 60)

-----------------------------------------------------------------------------
(***************************************************************************)
(* Theorems.                                                               *)
(***************************************************************************)

LEMMA ProductBound ==
  ASSUME NEW a \in Byte, NEW k \in Byte
  PROVE  a * k \in Nat /\ a * k <= 255 * k
BY SMT DEF Byte

LEMMA PreBlendBound ==
  ASSUME NEW pixel \in Byte, NEW blend \in Byte, NEW alpha \in Byte
  PROVE  /\ PreBlend(pixel, blend, alpha) \in Nat
         /\ PreBlend(pixel, blend, alpha) <= 255 * 255
<1> DEFINE p == pixel * (255 - alpha)
           b == blend * alpha
<1>1. 255 - alpha \in Byte
  BY DEF Byte
<1>2. p \in Nat /\ p <= 255 * (255 - alpha)
  BY <1>1, ProductBound
<1>3. b \in Nat /\ b <= 255 * alpha
  BY ProductBound
<1>4. PreBlend(pixel, blend, alpha) = p + b
  BY DEF PreBlend
<1> HIDE DEF p, b
<1> QED
  BY <1>2, <1>3, <1>4 DEF Byte

\* Multiplying by 257 and dropping 16 bits divides by 255.
LEMMA ShiftsDivideBy255 ==
  ASSUME NEW pre \in Nat, pre <= 255 * 255
  PROVE  /\ pre + (pre + 1) * 256 < 256 * 256 * 256
         /\ (pre + (pre + 1) * 256) \div (256 * 256) = pre \div 255
         /\ pre \div 255 \in Byte
BY SMT DEF Byte

\* Blending never overflows 32 bits and is exact: the shifts of
\* blend_component compute the weighted mean of screen and cursor, rounded
\* down, and the result is a byte again, so that it stays in its place in the
\* pixel.
THEOREM BlendIsWeightedMean ==
  ASSUME NEW pixel \in Byte, NEW blend \in Byte, NEW alpha \in Byte
  PROVE  /\ blend_component(pixel, blend, alpha) =
              PreBlend(pixel, blend, alpha) \div 255
         /\ blend_component(pixel, blend, alpha) \in Byte
<1>1. ASSUME NEW n \in Nat, n < 256 * 256 * 256
      PROVE  U32(n) = n
  BY <1>1, WordAssumption DEF U32
<1>2. ASSUME NEW pre \in Nat, pre <= 255 * 255
      PROVE  U32(pre + (pre + 1) * 256) \div (256 * 256) = pre \div 255
             /\ pre \div 255 \in Byte
  <2>1. pre + (pre + 1) * 256 \in Nat
    BY <1>2
  <2> QED
    BY <1>1, <1>2, <2>1, ShiftsDivideBy255
<1> QED
  BY <1>2, PreBlendBound DEF blend_component

LEMMA MonotoneProduct ==
  ASSUME NEW a \in Nat, NEW b \in Nat, NEW k \in Nat, a <= b
  PROVE  a * k \in Nat /\ b * k \in Nat /\ a * k <= b * k
BY SMT

\* However the cursor lies on the screen, its pixels are read inside the
\* width * height pixels that evdi_cursor_compose_and_copy has compared with
\* the size of the object.
THEOREM CursorReadsInside ==
  ASSUME NEW width \in Nat, NEW height \in Nat,
         NEW x \in Loop(width), NEW y \in Loop(height)
  PROVE  cursor_pix(x, y, width, height) \in 0..(width * height - 1)
<1> DEFINE column == (width \div 2) + x
           row == (height \div 2) + y
<1>1. column \in Nat /\ column < width
  BY DEF Loop
<1>2. row \in Nat /\ row + 1 <= height
  BY DEF Loop
<1>3. cursor_pix(x, y, width, height) = column + row * width
  BY DEF cursor_pix
<1> HIDE DEF column, row
<1>4. row * width \in Nat
  BY <1>2
<1>5. (row + 1) * width = row * width + width
  BY <1>2
<1>6. (row + 1) * width <= height * width /\ height * width = width * height
  BY <1>2, MonotoneProduct
<1>7. width * height \in Nat
  BY SMT
<1> QED
  BY <1>1, <1>3, <1>4, <1>5, <1>6, <1>7

\* The pixels a grab changes are those the cursor and the screen share,
\* wherever the cursor lies: but for the last column or row of an odd size,
\* nothing of it is lost at an edge and nothing outside the screen is written.
THEOREM ComposedIsOverlap ==
  ASSUME NEW cx \in Int, NEW cy \in Int, NEW width \in Nat, NEW height \in Nat,
         NEW fb_width \in Nat, NEW fb_height \in Nat,
         NEW px \in Int, NEW py \in Int
  PROVE  <<px, py>> \in Composed(cx, cy, width, height, fb_width, fb_height) <=>
           /\ px \in 0..(fb_width - 1) /\ py \in 0..(fb_height - 1)
           /\ cx <= px /\ px < cx + 2 * (width \div 2)
           /\ cy <= py /\ py < cy + 2 * (height \div 2)
<1>1. ASSUME NEW c \in Int, NEW size \in Nat, NEW q \in Int
      PROVE  (\E i \in Loop(size) : q = c + i + (size \div 2)) <=>
               c <= q /\ q < c + 2 * (size \div 2)
  <2>1. ASSUME NEW i \in Loop(size), q = c + i + (size \div 2)
        PROVE  c <= q /\ q < c + 2 * (size \div 2)
    BY <2>1 DEF Loop
  <2>2. ASSUME c <= q, q < c + 2 * (size \div 2)
        PROVE  \E i \in Loop(size) : q = c + i + (size \div 2)
    <3>1. q - c - (size \div 2) \in Loop(size)
      BY <2>2 DEF Loop
    <3>2. q = c + (q - c - (size \div 2)) + (size \div 2)
      OBVIOUS
    <3> QED
      BY <3>1, <3>2
  <2> QED
    BY <2>1, <2>2
<1>2. <<px, py>> \in Composed(cx, cy, width, height, fb_width, fb_height) <=>
        /\ is_pix_sane(px, py, fb_width, fb_height)
        /\ \E x \in Loop(width) : px = cx + x + (width \div 2)
        /\ \E y \in Loop(height) : py = cy + y + (height \div 2)
  BY DEF Composed
<1> QED
  BY <1>1, <1>2 DEF is_pix_sane

LEMMA RoundUpReaches ==
  ASSUME NEW n \in Nat, NEW m \in Positive
  PROVE  RoundUp(n, m) \in Nat /\ n <= RoundUp(n, m)
<1> DEFINE q == (n + m - 1) \div m
<1>1. q \in Nat /\ n + m - 1 < q * m + m
  BY SMT DEF Positive
<1> QED
  BY <1>1, SMT DEF RoundUp, Positive

\* Every line of a dumb buffer holds the pixels asked for, and the object
\* holds every line, as long as the aligned size fits into 32 bits: DRM has
\* checked the size before the pitch was aligned.
THEOREM DumbBufferHoldsLines ==
  ASSUME NEW width \in Positive, NEW height \in Positive, NEW cpp \in Positive,
         RoundUp(width, PitchPixels(cpp)) * cpp < Word,
         evdi_align_pitch(width, cpp) * height < Word
  PROVE  /\ width * cpp <= evdi_align_pitch(width, cpp)
         /\ evdi_align_pitch(width, cpp) * height <=
              evdi_dumb_create(width, height, cpp)
<1> DEFINE aligned == RoundUp(width, PitchPixels(cpp))
           pitch == evdi_align_pitch(width, cpp)
<1>1. PitchPixels(cpp) \in Positive
  BY DEF PitchPixels, Positive
<1>2. aligned \in Nat /\ width <= aligned
  BY <1>1, RoundUpReaches DEF Positive
<1>3. aligned * cpp \in Nat /\ width * cpp <= aligned * cpp
  BY <1>2, MonotoneProduct DEF Positive
<1>4. ASSUME NEW n \in Nat, n < Word
      PROVE  U32(n) = n
  BY <1>4, WordAssumption DEF U32
<1>5. pitch = aligned * cpp
  BY <1>3, <1>4 DEF evdi_align_pitch
<1>6. pitch * height \in Nat
  BY <1>3, <1>5 DEF Positive
<1>7. U32(pitch * height) = pitch * height
  BY <1>4, <1>6
<1>8. pitch * height <= evdi_dumb_create(width, height, cpp)
  BY <1>6, <1>7, RoundUpReaches, PageAssumption DEF evdi_dumb_create, Positive
<1> QED
  BY <1>3, <1>5, <1>8

\* A pixel of a line of a framebuffer that was let in lies in its object, if
\* the end of the framebuffer can be rounded up to a page in 32 bits.
THEOREM FbLinesInsideObject ==
  ASSUME NEW size \in Nat, NEW offset \in Nat, NEW pitch \in Nat,
         NEW height \in Nat, FbFits(size, offset, pitch, height),
         RoundUp(offset + pitch * height, PAGE_SIZE) < Word,
         NEW y \in Nat, y + 1 <= height, NEW x \in Nat, 4 * x + 4 <= pitch
  PROVE  offset + y * pitch + 4 * x + 4 <= size
<1> DEFINE end == offset + pitch * height
<1>1. pitch * height \in Nat /\ pitch * height = height * pitch
  BY SMT
<1>. end \in Nat /\ PAGE_SIZE \in Positive
  BY <1>1, PageAssumption DEF Positive
<1>2. RoundUp(end, PAGE_SIZE) \in Nat /\ end <= RoundUp(end, PAGE_SIZE)
  BY RoundUpReaches
<1>3. U32(RoundUp(end, PAGE_SIZE)) = RoundUp(end, PAGE_SIZE)
  BY <1>2, WordAssumption DEF U32
<1>4. end <= size
  BY <1>1, <1>2, <1>3 DEF FbFits
<1>5. (y + 1) * pitch <= height * pitch
  BY MonotoneProduct
<1>6. y * pitch \in Nat /\ (y + 1) * pitch = y * pitch + pitch
  BY SMT
<1> QED
  BY <1>1, <1>4, <1>5, <1>6

LEMMA NoWrap ==
  ASSUME NEW n \in Nat, n < Word
  PROVE  U32(n) = n
BY WordAssumption DEF U32

\* Every mode of at most 60 Hz within the area that a client passes to
\* evdi_connect is kept, unless the limit or the pixel rate does not fit into
\* 32 bits: the two limits of evdi_mode_valid agree with each other.
THEOREM AreaLimitAllows60Hz ==
  ASSUME NEW mode \in Mode, NEW modes \in SUBSET Mode,
         NEW sku_area_limit \in Nat, sku_area_limit * 60 < Word,
         mode.hdisplay * mode.vdisplay <= sku_area_limit, mode.vrefresh <= 60
  PROVE  evdi_mode_valid(modes, mode, sku_area_limit,
                         evdi_connect(sku_area_limit))
<1> DEFINE area == mode.hdisplay * mode.vdisplay
           rate == area * mode.vrefresh
<1>1. /\ mode.hdisplay \in Nat /\ mode.vdisplay \in Nat
      /\ mode.vrefresh \in Nat
  BY DEF Mode, Positive
<1>2. area \in Nat
  BY <1>1
<1>3. rate \in Nat /\ rate = mode.vrefresh * area
  BY <1>1, <1>2
<1>4. mode.vrefresh * area <= 60 * area
  BY <1>1, <1>2, MonotoneProduct
<1>. area < Word /\ rate < Word
  BY <1>2, <1>3, <1>4, WordAssumption
<1>5. Area(mode) = area
  BY <1>2, NoWrap DEF Area
<1>6. PixelRate(mode) = rate
  BY <1>3, <1>5, NoWrap DEF PixelRate
<1>7. evdi_connect(sku_area_limit) = sku_area_limit * 60
  BY NoWrap DEF evdi_connect
<1> HIDE DEF area, rate
<1> QED
  BY <1>2, <1>3, <1>4, <1>5, <1>6, <1>7 DEF evdi_mode_valid, area

\* A mode that is kept fits the limits a client gave, but for the lowest
\* frequency of its resolution, unless its pixel rate does not fit into 32
\* bits.
THEOREM KeptModesFit ==
  ASSUME NEW mode \in Mode, NEW modes \in SUBSET Mode,
         NEW area_limit \in Nat, NEW rate_limit \in Nat \ {0},
         mode.hdisplay * mode.vdisplay * mode.vrefresh < Word,
         evdi_mode_valid(modes, mode, area_limit, rate_limit)
  PROVE  /\ mode.hdisplay * mode.vdisplay <= area_limit
         /\ \/ mode.hdisplay * mode.vdisplay * mode.vrefresh <= rate_limit
            \/ is_lowest_frequency_mode_of_given_resolution(modes, mode)
<1> DEFINE area == mode.hdisplay * mode.vdisplay
           rate == area * mode.vrefresh
<1>1. /\ mode.hdisplay \in Nat /\ mode.vdisplay \in Nat
      /\ mode.vrefresh \in Nat /\ 1 <= mode.vrefresh
  BY DEF Mode, Positive
<1>2. area \in Nat
  BY <1>1
<1>3. rate \in Nat /\ rate = mode.vrefresh * area
  BY <1>1, <1>2
<1>4. 1 * area <= mode.vrefresh * area
  BY <1>1, <1>2, MonotoneProduct
<1>. area < Word
  BY <1>2, <1>3, <1>4, WordAssumption
<1>5. Area(mode) = area
  BY <1>2, NoWrap DEF Area
<1>6. PixelRate(mode) = rate
  BY <1>3, <1>5, NoWrap DEF PixelRate
<1> QED
  BY <1>5, <1>6 DEF evdi_mode_valid
=============================================================================
