-------------------------- MODULE DirtyRectsProofs --------------------------
(***************************************************************************)
(* What TLC checks of DirtyRects on small buffers, proved for buffers of   *)
(* any size, all clips and any capacity: no damage is lost in the loops of *)
(* merge_dirty_rects and collapse_dirty_rects, and merging pays.           *)
(***************************************************************************)
EXTENDS DirtyRects, SequenceTheorems, FiniteSetTheorems, TLAPS

-----------------------------------------------------------------------------
(***************************************************************************)
(* One rectangle, and two.                                                 *)
(***************************************************************************)

\* The corners are in order: the area is not negative.
Ordered(r) == r.x1 <= r.x2 /\ r.y1 <= r.y2

LEMMA SizeFacts ==
  ASSUME NEW size \in Sizes
  PROVE  /\ size[1] \in 1..MaxCoord /\ size[2] \in 1..MaxCoord
         /\ FullRect(size) \in Rect
BY SizeAssumption DEF FullRect, Rect

LEMMA ExpandInRect ==
  ASSUME NEW r \in Rect, NEW s \in Rect
  PROVE  expand_rect(r, s) \in Rect
BY SizeAssumption DEF expand_rect, Rect, Smaller, Larger

LEMMA ExpandOrdered ==
  ASSUME NEW r \in Rect, NEW s \in Rect, Ordered(r)
  PROVE  Ordered(expand_rect(r, s))
BY SizeAssumption DEF expand_rect, Rect, Smaller, Larger, Ordered

\* A pixel of a rectangle, without sets.
In(x, y, r) == r.x1 <= x /\ x < r.x2 /\ r.y1 <= y /\ y < r.y2

LEMMA PixelsAreInside ==
  ASSUME NEW r \in Rect
  PROVE  \A p : p \in Pixels(r) <=>
                  \E x, y \in Int : p = <<x, y>> /\ In(x, y, r)
BY SizeAssumption DEF Pixels, Rect, In

\* Whether a rectangle holds the other is seen at its corners.
LEMMA InsideIsSubset ==
  ASSUME NEW r \in Rect, NEW s \in Rect,
         \A x, y \in Int : In(x, y, r) => In(x, y, s)
  PROVE  Pixels(r) \subseteq Pixels(s)
BY PixelsAreInside

LEMMA ExpandCovers ==
  ASSUME NEW r \in Rect, NEW s \in Rect
  PROVE  Pixels(r) \cup Pixels(s) \subseteq Pixels(expand_rect(r, s))
<1> DEFINE e == expand_rect(r, s)
<1>1. e \in Rect
  BY ExpandInRect
<1>2. ASSUME NEW x \in Int, NEW y \in Int, In(x, y, r) \/ In(x, y, s)
      PROVE  In(x, y, e)
  BY <1>2, SizeAssumption DEF In, expand_rect, Smaller, Larger, Rect
<1>3. Pixels(r) \subseteq Pixels(e) /\ Pixels(s) \subseteq Pixels(e)
  BY <1>1, <1>2, InsideIsSubset
<1> QED
  BY <1>3

\* What evdi_framebuffer_sanitize_rect returns lies inside the buffer.
LEMMA SanitizeFacts ==
  ASSUME NEW size \in Sizes, NEW r \in Rect
  PROVE  LET c == evdi_framebuffer_sanitize_rect(size, r)
         IN /\ c \in Rect /\ Ordered(c)
            /\ Pixels(c) \subseteq Pixels(FullRect(size))
<1> DEFINE c == evdi_framebuffer_sanitize_rect(size, r)
<1>1. size[1] \in Nat /\ size[2] \in Nat /\ size[1] <= MaxCoord
        /\ size[2] <= MaxCoord
  BY SizeFacts, SizeAssumption
<1>2. c \in Rect /\ Ordered(c)
  BY <1>1, SizeAssumption
  DEF evdi_framebuffer_sanitize_rect, Rect, Smaller, Larger, Ordered
<1>3. ASSUME NEW x \in Int, NEW y \in Int, In(x, y, c)
      PROVE  In(x, y, FullRect(size))
  BY <1>1, <1>3, SizeAssumption
  DEF evdi_framebuffer_sanitize_rect, Rect, Smaller, Larger, In, FullRect
<1>4. Pixels(c) \subseteq Pixels(FullRect(size))
  BY <1>2, <1>3, SizeFacts, InsideIsSubset
<1> QED
  BY <1>2, <1>4

\* It leaves the whole buffer as it is.
LEMMA SanitizeFull ==
  ASSUME NEW size \in Sizes
  PROVE  evdi_framebuffer_sanitize_rect(size, FullRect(size)) = FullRect(size)
BY SizeFacts, SizeAssumption
DEF evdi_framebuffer_sanitize_rect, FullRect, Smaller, Larger

LEMMA PixelsBounded ==
  ASSUME NEW r \in Rect
  PROVE  Pixels(r) \subseteq (0..MaxCoord) \X (0..MaxCoord)
BY SizeAssumption DEF Pixels, Rect

LEMMA SideLength ==
  ASSUME NEW lo \in Int, NEW hi \in Int, lo <= hi
  PROVE  IsFiniteSet(lo..(hi - 1)) /\ Cardinality(lo..(hi - 1)) = hi - lo
<1>1. hi - 1 \in Int
  OBVIOUS
<1>2. /\ IsFiniteSet(lo..(hi - 1))
      /\ Cardinality(lo..(hi - 1)) =
           IF lo > hi - 1 THEN 0 ELSE (hi - 1) - lo + 1
  BY <1>1, FS_Interval
<1>3. (IF lo > hi - 1 THEN 0 ELSE (hi - 1) - lo + 1) = hi - lo
  OBVIOUS
<1> QED
  BY <1>2, <1>3

\* rect_area counts the pixels.
LEMMA AreaIsCount ==
  ASSUME NEW r \in Rect, Ordered(r)
  PROVE  /\ IsFiniteSet(Pixels(r))
         /\ Cardinality(Pixels(r)) = rect_area(r)
<1>1. /\ r.x1 \in Int /\ r.x2 \in Int /\ r.y1 \in Int /\ r.y2 \in Int
      /\ r.x1 <= r.x2 /\ r.y1 <= r.y2
  BY SizeAssumption DEF Rect, Ordered
<1> DEFINE X == r.x1..(r.x2 - 1)
           Y == r.y1..(r.y2 - 1)
<1>2. IsFiniteSet(X) /\ Cardinality(X) = r.x2 - r.x1
  BY <1>1, SideLength
<1>3. IsFiniteSet(Y) /\ Cardinality(Y) = r.y2 - r.y1
  BY <1>1, SideLength
<1> HIDE DEF X, Y
<1>4. IsFiniteSet(X \X Y) /\ Cardinality(X \X Y) = (r.x2 - r.x1) * (r.y2 - r.y1)
  BY <1>2, <1>3, FS_Product
<1> QED
  BY <1>4 DEF X, Y, Pixels, rect_area

-----------------------------------------------------------------------------
(***************************************************************************)
(* Arrays of rectangles: the pixels to copy, index by index.               *)
(***************************************************************************)

Part(rects, I) == UNION {{i} \X Pixels(rects[i]) : i \in I}

LEMMA PartFinite ==
  ASSUME NEW rects \in Seq(Rect), NEW I \in SUBSET DOMAIN rects
  PROVE  IsFiniteSet(Part(rects, I))
<1>0. DOMAIN rects = 1..Len(rects)
  BY LenProperties
<1>4. \A i \in I : i \in 1..Len(rects) /\ rects[i] \in Rect
  BY <1>0, ElementOfSeq
<1> DEFINE C == 0..MaxCoord
           N == 1..Len(rects)
<1>1. IsFiniteSet(N) /\ IsFiniteSet(C)
  BY SizeAssumption, FS_Interval, LenProperties
<1>2. IsFiniteSet(C \X C)
  BY <1>1, FS_Product
<1>3. IsFiniteSet(N \X (C \X C))
  BY <1>1, <1>2, FS_Product
<1>5. \A i \in I : Pixels(rects[i]) \subseteq C \X C
  BY <1>4, PixelsBounded
<1>6. Part(rects, I) \subseteq N \X (C \X C)
  BY <1>4, <1>5 DEF Part
<1> QED
  BY <1>3, <1>6, FS_Subset

LEMMA PartSplit ==
  ASSUME NEW rects \in Seq(Rect), NEW I \in SUBSET DOMAIN rects,
         NEW i \in DOMAIN rects, i \notin I, Ordered(rects[i])
  PROVE  Cardinality(Part(rects, I \cup {i})) =
           rect_area(rects[i]) + Cardinality(Part(rects, I))
<1> DEFINE own == {i} \X Pixels(rects[i])
<1>1. rects[i] \in Rect
  BY LenProperties, ElementOfSeq
<1>2. IsFiniteSet(Pixels(rects[i]))
      /\ Cardinality(Pixels(rects[i])) = rect_area(rects[i])
  BY <1>1, AreaIsCount
<1>3. IsFiniteSet({i}) /\ Cardinality({i}) = 1
  BY FS_Singleton
<1>4. IsFiniteSet(own) /\ Cardinality(own) = 1 * rect_area(rects[i])
  BY <1>2, <1>3, FS_Product
<1>5. Part(rects, I \cup {i}) = own \cup Part(rects, I)
  BY DEF Part
<1>6. own \cap Part(rects, I) = {}
  BY DEF Part
<1>7. IsFiniteSet(Part(rects, I))
  BY PartFinite
<1>8. rect_area(rects[i]) \in Int
  BY <1>1, SizeAssumption DEF rect_area, Rect
<1>9. Cardinality(own \cup Part(rects, I)) =
        Cardinality(own) + Cardinality(Part(rects, I)) - Cardinality({})
  BY <1>4, <1>6, <1>7, FS_Union
<1>10. Cardinality({}) = 0 /\ Cardinality(Part(rects, I)) \in Nat
  BY <1>7, FS_EmptySet, FS_CardinalityType
<1> DEFINE p == Cardinality(Part(rects, I))
           o == Cardinality(own)
<1>11. o \in Int /\ o = rect_area(rects[i])
  BY <1>4, <1>8
<1>12. p \in Nat
  BY <1>10
<1>13. Cardinality(own \cup Part(rects, I)) = o + p - 0
  BY <1>9, <1>10
<1> HIDE DEF own, o, p
<1>14. o + p - 0 = rect_area(rects[i]) + p
  BY <1>8, <1>11, <1>12
<1> QED
  BY <1>5, <1>13, <1>14 DEF p

LEMMA TotalAreaType ==
  ASSUME NEW rects \in Seq(Rect)
  PROVE  TotalArea(rects) \in Nat
         /\ TotalArea(rects) = Cardinality(Part(rects, DOMAIN rects))
BY PartFinite, FS_CardinalityType DEF TotalArea, Copies, Part

\* What MergePair makes of the array, and its elements one by one.
Merged(rects, i, j) ==
  LET n == Len(rects)
  IN SubSeq([rects EXCEPT ![i] = expand_rect(rects[i], rects[j]),
                          ![j] = rects[n]], 1, n - 1)

IsMerged(m, rects, i, j) ==
  LET n == Len(rects)
  IN /\ n \in Nat /\ Len(m) = n - 1 /\ m \in Seq(Rect)
     /\ \A k \in 1..(n - 1) :
          m[k] = IF k = i THEN expand_rect(rects[i], rects[j])
                 ELSE IF k = j THEN rects[n] ELSE rects[k]

LEMMA MergedFacts ==
  ASSUME NEW rects \in Seq(Rect), NEW i \in Nat, NEW j \in Nat,
         1 <= i, i < j, j <= Len(rects)
  PROVE  IsMerged(Merged(rects, i, j), rects, i, j)
<1> DEFINE n == Len(rects)
           e == expand_rect(rects[i], rects[j])
           f == [rects EXCEPT ![i] = e, ![j] = rects[n]]
           m == SubSeq(f, 1, n - 1)
<1>1. n \in Nat /\ n >= 2 /\ DOMAIN rects = 1..n
  BY LenProperties
<1>2. \A k \in 1..n : rects[k] \in Rect
  BY <1>1, ElementOfSeq
<1>3. e \in Rect
  BY <1>1, <1>2, ExpandInRect
<1>4. rects \in [1..n -> Rect]
  BY SeqDef
<1> HIDE DEF e
<1>5. f \in [1..n -> Rect]
  BY <1>1, <1>2, <1>3, <1>4
<1>6. f \in Seq(Rect) /\ Len(f) = n
  BY <1>1, <1>5, SeqDef, LenProperties
<1>7. /\ m \in Seq(Rect)
      /\ Len(m) = n - 1
      /\ \A k \in 1..(n - 1) : m[k] = f[k]
  <2>1. 1 \in Int /\ n - 1 \in Int /\ \A k \in 1..(n - 1) : f[k] \in Rect
    BY <1>1, <1>5
  <2> HIDE DEF f
  <2> QED
    BY <2>1, <1>1, SubSeqProperties
<1>8. \A k \in 1..(n - 1) :
        f[k] = IF k = j THEN rects[n] ELSE IF k = i THEN e ELSE rects[k]
  BY <1>1, <1>4
<1>9. m = Merged(rects, i, j)
  BY DEF Merged, e
<1>10. \A k \in 1..(n - 1) :
         m[k] = IF k = i THEN e ELSE IF k = j THEN rects[n] ELSE rects[k]
  BY <1>7, <1>8
<1> HIDE DEF m, f
<1> QED
  BY <1>1, <1>7, <1>9, <1>10 DEF e, IsMerged

LEMMA MergedCovers ==
  ASSUME NEW rects \in Seq(Rect), NEW i \in Nat, NEW j \in Nat,
         1 <= i, i < j, j <= Len(rects)
  PROVE  Covered(rects) \subseteq Covered(Merged(rects, i, j))
<1> DEFINE n == Len(rects)
           m == Merged(rects, i, j)
           e == expand_rect(rects[i], rects[j])
<1>0. IsMerged(m, rects, i, j)
  BY MergedFacts
<1>1. /\ n \in Nat /\ Len(m) = n - 1 /\ m \in Seq(Rect)
      /\ \A k \in 1..(n - 1) :
           m[k] = IF k = i THEN e ELSE IF k = j THEN rects[n] ELSE rects[k]
  BY <1>0 DEF IsMerged
<1>2. DOMAIN m = 1..(n - 1) /\ DOMAIN rects = 1..n
  BY <1>1, LenProperties
<1>3. \A k \in 1..n : rects[k] \in Rect
  BY ElementOfSeq
<1>4. Pixels(rects[i]) \subseteq Pixels(e)
        /\ Pixels(rects[j]) \subseteq Pixels(e)
  BY <1>1, <1>3, ExpandCovers
<1> HIDE DEF m, e
<1>5. m[i] = e
  BY <1>1
<1>6. ASSUME NEW k \in 1..n
      PROVE  \E l \in 1..(n - 1) : Pixels(rects[k]) \subseteq Pixels(m[l])
  <2>1. CASE k = i \/ k = j
    BY <2>1, <1>1, <1>4, <1>5
  <2>2. CASE k # i /\ k # j /\ k < n
    BY <2>2, <1>1
  <2>3. CASE k # i /\ k # j /\ k = n
    <3>1. j \in 1..(n - 1) /\ m[j] = rects[n]
      BY <2>3, <1>1
    <3> QED
      BY <3>1, <2>3
  <2> QED
    BY <2>1, <2>2, <2>3, <1>1
<1> QED
  BY <1>2, <1>6 DEF Covered, m

LEMMA MergedOrdered ==
  ASSUME NEW rects \in Seq(Rect), NEW i \in Nat, NEW j \in Nat,
         1 <= i, i < j, j <= Len(rects),
         \A k \in DOMAIN rects : Ordered(rects[k])
  PROVE  \A k \in DOMAIN Merged(rects, i, j) : Ordered(Merged(rects, i, j)[k])
<1> DEFINE n == Len(rects)
           m == Merged(rects, i, j)
           e == expand_rect(rects[i], rects[j])
<1>0. IsMerged(m, rects, i, j)
  BY MergedFacts
<1>1. /\ n \in Nat /\ Len(m) = n - 1 /\ m \in Seq(Rect)
      /\ \A k \in 1..(n - 1) :
           m[k] = IF k = i THEN e ELSE IF k = j THEN rects[n] ELSE rects[k]
  BY <1>0 DEF IsMerged
<1>2. DOMAIN m = 1..(n - 1) /\ DOMAIN rects = 1..n
  BY <1>1, LenProperties
<1>3. \A k \in 1..n : rects[k] \in Rect
  BY ElementOfSeq
<1>4. i \in 1..n /\ j \in 1..n
  BY <1>1
<1>5. Ordered(e)
  BY <1>2, <1>3, <1>4, ExpandOrdered
<1> HIDE DEF m, e
<1> QED
  BY <1>1, <1>2, <1>4, <1>5 DEF m

\* A pair that is worth merging leaves no more pixels to copy.
LEMMA MergedArea ==
  ASSUME NEW rects \in Seq(Rect), NEW i \in Nat, NEW j \in Nat,
         1 <= i, i < j, j <= Len(rects),
         \A k \in DOMAIN rects : Ordered(rects[k]),
         rect_area(expand_rect(rects[i], rects[j])) <=
           rect_area(rects[i]) + rect_area(rects[j])
  PROVE  TotalArea(Merged(rects, i, j)) <= TotalArea(rects)
<1> DEFINE n == Len(rects)
           m == Merged(rects, i, j)
           e == expand_rect(rects[i], rects[j])
<1>0. IsMerged(m, rects, i, j)
  BY MergedFacts
<1>1. /\ n \in Nat /\ Len(m) = n - 1 /\ m \in Seq(Rect)
      /\ \A k \in 1..(n - 1) :
           m[k] = IF k = i THEN e ELSE IF k = j THEN rects[n] ELSE rects[k]
  BY <1>0 DEF IsMerged
<1>2. DOMAIN m = 1..(n - 1) /\ DOMAIN rects = 1..n
  BY <1>1, LenProperties
<1>3. \A k \in 1..n : rects[k] \in Rect
  BY ElementOfSeq
<1>4. i \in 1..n /\ j \in 1..n /\ n \in 1..n /\ i # j /\ i # n
        /\ i \in 1..(n - 1)
  BY <1>1
<1>5. \A r \in Rect : rect_area(r) \in Int
  BY SizeAssumption DEF rect_area, Rect
<1>6. e \in Rect
  BY <1>3, <1>4, ExpandInRect
<1>7. \A k \in DOMAIN m : Ordered(m[k])
  BY MergedOrdered
<1>8. rect_area(e) <= rect_area(rects[i]) + rect_area(rects[j])
  OBVIOUS
<1> HIDE DEF m, e
<1> DEFINE I == (1..n) \ {i, j, n}
           rest == Cardinality(Part(rects, I))
<1>9. m[i] = e
  BY <1>1, <1>4
<1>10. Part(m, I) = Part(rects, I)
  <2>1. ASSUME NEW k \in I PROVE m[k] = rects[k]
    <3>1. k \in 1..(n - 1) /\ k # i /\ k # j
      BY <1>1
    <3> QED
      BY <3>1, <1>1
  <2> QED
    BY <2>1 DEF Part
<1>11. rest \in Nat
  BY <1>2, PartFinite, FS_CardinalityType
<1>12. TotalArea(rects) = Cardinality(Part(rects, 1..n))
       /\ TotalArea(m) = Cardinality(Part(m, 1..(n - 1)))
  BY <1>1, <1>2, TotalAreaType
<1>15. I \in SUBSET DOMAIN m /\ I \in SUBSET DOMAIN rects
  BY <1>1, <1>2
<1>13. CASE j = n
  <2>1. 1..n = (I \cup {j}) \cup {i} /\ 1..(n - 1) = I \cup {i}
    BY <1>13, <1>1, <1>4
  <2>2. Cardinality(Part(rects, I \cup {j})) = rect_area(rects[j]) + rest
    BY <1>2, <1>4, PartSplit
  <2>3. Cardinality(Part(rects, (I \cup {j}) \cup {i})) =
          rect_area(rects[i]) + Cardinality(Part(rects, I \cup {j}))
    BY <1>2, <1>4, PartSplit
  <2>4. Cardinality(Part(m, I \cup {i})) =
            rect_area(m[i]) + Cardinality(Part(m, I))
    BY <1>1, <1>2, <1>4, <1>7, <1>15, PartSplit
  <2>5. /\ rect_area(rects[i]) \in Int /\ rect_area(rects[j]) \in Int
        /\ rect_area(e) \in Int
    BY <1>3, <1>4, <1>5, <1>6
  <2> HIDE DEF I, rest
  <2>6. /\ TotalArea(m) = rect_area(e) + rest
        /\ TotalArea(rects) = rect_area(rects[i]) + (rect_area(rects[j]) + rest)
    BY <1>9, <1>10, <1>12, <2>1, <2>2, <2>3, <2>4 DEF rest
  <2> QED
    BY <1>8, <1>11, <2>5, <2>6 DEF m
<1>14. CASE j # n
  <2>0. j \in 1..(n - 1)
    BY <1>14, <1>4
  <2>10. 1..n = ((I \cup {n}) \cup {j}) \cup {i}
    BY <1>4
  <2>11. 1..(n - 1) = (I \cup {j}) \cup {i}
    BY <1>1, <1>4, <2>0
  <2>1. /\ 1..n = ((I \cup {n}) \cup {j}) \cup {i}
        /\ 1..(n - 1) = (I \cup {j}) \cup {i}
        /\ j \in 1..(n - 1)
    BY <2>0, <2>10, <2>11
  <2>2. Cardinality(Part(rects, I \cup {n})) = rect_area(rects[n]) + rest
    BY <1>2, <1>4, PartSplit
  <2>3. Cardinality(Part(rects, (I \cup {n}) \cup {j})) =
          rect_area(rects[j]) + Cardinality(Part(rects, I \cup {n}))
    BY <1>2, <1>4, <1>14, PartSplit
  <2>4. Cardinality(Part(rects, ((I \cup {n}) \cup {j}) \cup {i})) =
          rect_area(rects[i]) + Cardinality(Part(rects, (I \cup {n}) \cup {j}))
    BY <1>2, <1>4, PartSplit
  <2>5. Cardinality(Part(m, I \cup {j})) =
            rect_area(m[j]) + Cardinality(Part(m, I))
    BY <1>1, <1>2, <1>4, <1>7, <2>1, PartSplit
  <2>6. Cardinality(Part(m, (I \cup {j}) \cup {i})) =
          rect_area(m[i]) + Cardinality(Part(m, I \cup {j}))
    BY <1>1, <1>2, <1>4, <1>7, <2>1, PartSplit
  <2>7. /\ rect_area(rects[i]) \in Int /\ rect_area(rects[j]) \in Int
        /\ rect_area(e) \in Int /\ rect_area(rects[n]) \in Int
    BY <1>3, <1>4, <1>5, <1>6
  <2>8. m[j] = rects[n]
    BY <1>1, <1>4, <2>1
  <2> HIDE DEF I, rest
  <2>9. /\ TotalArea(m) = rect_area(e) + (rect_area(rects[n]) + rest)
        /\ TotalArea(rects) =
             rect_area(rects[i])
             + (rect_area(rects[j]) + (rect_area(rects[n]) + rest))
    BY <1>9, <1>10, <1>12, <2>1, <2>2, <2>3, <2>4, <2>5, <2>6, <2>8 DEF rest
  <2> HIDE DEF n
  <2> QED
    BY <1>8, <1>11, <2>7, <2>9 DEF m
<1> QED
  BY <1>13, <1>14

\* A step of collapse_dirty_rects.
Grown(rects, j) == [rects EXCEPT ![1] = expand_rect(rects[1], rects[j])]

LEMMA GrownFacts ==
  ASSUME NEW rects \in Seq(Rect), NEW j \in Nat, 2 <= j, j <= Len(rects)
  PROVE  /\ Grown(rects, j) \in Seq(Rect)
         /\ Len(Grown(rects, j)) = Len(rects)
         /\ DOMAIN Grown(rects, j) = DOMAIN rects
         /\ Grown(rects, j)[1] = expand_rect(rects[1], rects[j])
         /\ \A k \in DOMAIN rects : k # 1 => Grown(rects, j)[k] = rects[k]
         /\ \A k \in DOMAIN rects :
              Pixels(rects[k]) \subseteq Pixels(Grown(rects, j)[k])
         /\ Pixels(rects[j]) \subseteq Pixels(Grown(rects, j)[1])
<1> DEFINE n == Len(rects)
           e == expand_rect(rects[1], rects[j])
           g == [rects EXCEPT ![1] = e]
<1>1. n \in Nat /\ n >= 2 /\ DOMAIN rects = 1..n /\ rects \in [1..n -> Rect]
  BY LenProperties
<1>2. \A k \in 1..n : rects[k] \in Rect
  BY ElementOfSeq
<1>3. 1 \in 1..n /\ j \in 1..n
  BY <1>1
<1>4. e \in Rect
  BY <1>2, <1>3, ExpandInRect
<1>5. Pixels(rects[1]) \subseteq Pixels(e)
        /\ Pixels(rects[j]) \subseteq Pixels(e)
  BY <1>2, <1>3, ExpandCovers
<1> HIDE DEF e
<1>6. /\ g \in [1..n -> Rect] /\ DOMAIN g = 1..n
      /\ g[1] = e /\ \A k \in 1..n : k # 1 => g[k] = rects[k]
  BY <1>1, <1>3, <1>4
<1>7. g \in Seq(Rect) /\ Len(g) = n
  BY <1>1, <1>6, SeqDef, LenProperties
<1>8. g = Grown(rects, j)
  BY DEF Grown, e
<1> HIDE DEF g
<1> QED
  BY <1>1, <1>5, <1>6, <1>7, <1>8 DEF e

LEMMA AppendCovers ==
  ASSUME NEW rects \in Seq(Rect), NEW r \in Rect
  PROVE  Covered(Append(rects, r)) = Covered(rects) \cup Pixels(r)
<1> DEFINE n == Len(rects)
           s == Append(rects, r)
<1>1. /\ n \in Nat /\ DOMAIN rects = 1..n
  BY LenProperties
<1>2. /\ s \in Seq(Rect) /\ Len(s) = n + 1
      /\ \A k \in 1..n : s[k] = rects[k]
      /\ s[n + 1] = r
  BY AppendProperties
<1>3. DOMAIN s = 1..(n + 1)
  BY <1>2, LenProperties
<1> HIDE DEF s
<1>4. DOMAIN s = (1..n) \cup {n + 1}
  BY <1>1, <1>3
<1> QED
  BY <1>1, <1>2, <1>4 DEF Covered, s

-----------------------------------------------------------------------------
(***************************************************************************)
(* Types, and where a section can be.                                      *)
(***************************************************************************)

SectionOK ==
  /\ section.at = "idle" => section = Idle
  /\ section.at # "idle" => section.by \in {"mark", "grab"}
  /\ section.by = "grab" => grab = NoGrab /\ section.room >= 1
  /\ section.at = "merge" => 1 <= section.a /\ section.a < section.b
  /\ section.at = "merged" => ~MustCollapse
  /\ section.at = "collapse" => section.b >= 2 /\ Len(dirty_rects) >= 1
  /\ section.at = "collapsed" => Len(dirty_rects) = 1

TypeInv == TypeOK /\ SectionOK /\ GrabFitsRoom

LEMMA IdleType == Idle \in Sections /\ NoRect \in Rect
BY SizeAssumption, DirtsAssumption DEF Idle, Sections, NoRect, Rect

LEMMA NoGrabType ==
  NoGrab \in [rects : Seq(Rect), room : 0..MAX_DIRTS, current : BOOLEAN]
  /\ Len(NoGrab.rects) = 0
BY DirtsAssumption, EmptySeq DEF NoGrab

LEMMA OneRect ==
  ASSUME NEW r \in Rect
  PROVE  <<r>> \in Seq(Rect) /\ Len(<<r>>) = 1 /\ <<r>>[1] = r
         /\ DOMAIN <<r>> = {1}
OBVIOUS

LEMMA DirtsFacts ==
  ASSUME TypeOK
  PROVE  /\ Len(dirty_rects) \in Nat /\ Len(dirty_rects) <= MAX_DIRTS
         /\ DOMAIN dirty_rects = 1..Len(dirty_rects)
         /\ \A i \in 1..Len(dirty_rects) : dirty_rects[i] \in Rect
BY LenProperties, ElementOfSeq DEF TypeOK

LEMMA TypeInvInit == Init => TypeInv
<1> SUFFICES ASSUME Init PROVE TypeInv
  OBVIOUS
<1>1. FullRect(scanout) \in Rect /\ scanout \in Sizes
  BY SizeFacts DEF Init
<1>2. dirty_rects \in Seq(Rect) /\ Len(dirty_rects) <= MAX_DIRTS
  BY <1>1, OneRect, DirtsAssumption DEF Init
<1>3. TypeOK
  BY <1>1, <1>2, IdleType, NoGrabType DEF Init, TypeOK
<1>4. SectionOK
  BY DEF Init, SectionOK, Idle
<1>5. GrabFitsRoom
  BY NoGrabType DEF Init, GrabFitsRoom, NoGrab
<1> QED
  BY <1>3, <1>4, <1>5 DEF TypeInv

\* What a section is when it begins.
LEMMA BeginFacts ==
  ASSUME TypeOK, NEW at \in {"merge", "merged"}, NEW by \in {"mark", "grab"},
         NEW clip \in Rect, NEW room \in 0..MAX_DIRTS, Begin(at, by, clip, room)
  PROVE  /\ section' \in Sections
         /\ section'.at = at /\ section'.by = by /\ section'.clip = clip
         /\ section'.room = room /\ section'.a = 1 /\ section'.b = 2
         /\ section'.given = TotalArea(dirty_rects)
<1>1. TotalArea(dirty_rects) \in Nat
  BY TotalAreaType DEF TypeOK
<1> QED
  BY <1>1, DirtsAssumption DEF Begin, Sections

LEMMA MarkFacts ==
  ASSUME TypeOK, NEW r \in Rect, BeginMark(r)
  PROVE  /\ section = Idle /\ section' \in Sections
         /\ section'.at =
              IF Len(dirty_rects) = MAX_DIRTS THEN "merge" ELSE "merged"
         /\ section'.by = "mark"
         /\ section'.clip = evdi_framebuffer_sanitize_rect(scanout, r)
         /\ section'.a = 1 /\ section'.b = 2
         /\ section'.given = TotalArea(dirty_rects)
         /\ Ordered(section'.clip)
<1>1. /\ evdi_framebuffer_sanitize_rect(scanout, r) \in Rect
      /\ Ordered(evdi_framebuffer_sanitize_rect(scanout, r))
  BY SanitizeFacts DEF TypeOK
<1>2. 0 \in 0..MAX_DIRTS
  BY DirtsAssumption
<1> QED
  BY <1>1, <1>2, BeginFacts DEF BeginMark, Begin

\* A loop moves its indices and keeps the rest of the section.
Placed(at, a, b) == [section EXCEPT !.at = at, !.a = a, !.b = b]

LEMMA PlacedFacts ==
  ASSUME TypeOK, NEW at \in {"merge", "merged", "collapse", "collapsed"},
         NEW a \in 0..MAX_DIRTS, NEW b \in 0..(MAX_DIRTS + 1)
  PROVE  /\ Placed(at, a, b) \in Sections
         /\ Placed(at, a, b).at = at
         /\ Placed(at, a, b).a = a /\ Placed(at, a, b).b = b
         /\ Placed(at, a, b).by = section.by
         /\ Placed(at, a, b).clip = section.clip
         /\ Placed(at, a, b).room = section.room
         /\ Placed(at, a, b).given = section.given
BY DEF TypeOK, Sections, Placed

LEMMA LoopTypes ==
  ASSUME TypeOK, GrabFitsRoom, NEW at, InLoop(at),
         dirty_rects' \in Seq(Rect), Len(dirty_rects') <= MAX_DIRTS,
         section' \in Sections
  PROVE  TypeOK' /\ GrabFitsRoom'
BY DEF TypeOK, GrabFitsRoom, InLoop

\* Where a loop goes next.
LEMMA LoopFacts ==
  ASSUME TypeOK, SectionOK
  PROVE  /\ section.a \in 0..MAX_DIRTS /\ section.b \in 0..(MAX_DIRTS + 1)
         /\ MAX_DIRTS \in Nat /\ MAX_DIRTS >= 2
         /\ section.room \in 0..MAX_DIRTS
         /\ section.by \in {"nobody", "mark", "grab"}
         /\ MergePair => section' = Placed("merge", section.a, section.a + 1)
         /\ SkipPair => section' = Placed("merge", section.a, section.b + 1)
         /\ NextRect => section' = Placed("merge", section.a + 1, section.a + 2)
         /\ MergeEnd /\ MustCollapse =>
              section' = Placed("collapse", section.a, 2)
         /\ MergeEnd /\ ~MustCollapse =>
              section' = Placed("merged", section.a, section.b)
         /\ CollapseNext =>
                section' = Placed("collapse", section.a, section.b + 1)
         /\ CollapseEnd => section' = Placed("collapsed", section.a, section.b)
<1>1. section \in Sections
  BY DEF TypeOK
<1>2. /\ section.a \in 0..MAX_DIRTS /\ section.b \in 0..(MAX_DIRTS + 1)
      /\ section.room \in 0..MAX_DIRTS
      /\ section.by \in {"nobody", "mark", "grab"}
  BY <1>1 DEF Sections
<1>3. MergePair => section' = Placed("merge", section.a, section.a + 1)
  BY <1>1 DEF Sections, MergePair, InLoop, Placed
<1>4. SkipPair => section' = Placed("merge", section.a, section.b + 1)
  BY <1>1 DEF Sections, SkipPair, InLoop, Placed
<1>5. NextRect => section' = Placed("merge", section.a + 1, section.a + 2)
  BY <1>1 DEF Sections, NextRect, InLoop, Placed
<1>6. MergeEnd /\ MustCollapse => section' = Placed("collapse", section.a, 2)
  BY <1>1 DEF Sections, MergeEnd, Placed
<1>7. MergeEnd /\ ~MustCollapse =>
        section' = Placed("merged", section.a, section.b)
  BY <1>1 DEF Sections, MergeEnd, Placed
<1>8. CollapseNext => section' = Placed("collapse", section.a, section.b + 1)
  BY <1>1 DEF Sections, CollapseNext, InLoop, Placed
<1>9. CollapseEnd => section' = Placed("collapsed", section.a, section.b)
  BY <1>1 DEF Sections, CollapseEnd, Placed
<1> QED
  BY <1>2, <1>3, <1>4, <1>5, <1>6, <1>7, <1>8, <1>9, DirtsAssumption

LEMMA TypeInvNext == TypeInv /\ [Next]_vars => TypeInv'
<1> SUFFICES ASSUME TypeInv, [Next]_vars PROVE TypeInv'
  OBVIOUS
<1> USE DEF TypeInv
<1>1. TypeOK /\ SectionOK /\ GrabFitsRoom
  OBVIOUS
<1> DEFINE n == Len(dirty_rects)
<1>2. /\ n \in Nat /\ n <= MAX_DIRTS /\ DOMAIN dirty_rects = 1..n
      /\ \A i \in 1..n : dirty_rects[i] \in Rect
  BY DirtsFacts
<1>0. n \in Nat /\ n <= MAX_DIRTS /\ MAX_DIRTS \in Nat
  BY <1>2, DirtsAssumption
<1>3. ASSUME NEW r \in Rect, BeginMark(r),
             UNCHANGED <<scanout, dirty_rects, buffer, grab>>,
             unmarked' \in BOOLEAN, failed' \in BOOLEAN,
             stale' \subseteq Pixels(FullRect(scanout))
      PROVE  TypeInv'
  <2>1. TypeOK'
    BY <1>3, MarkFacts DEF TypeOK
  <2>2. SectionOK'
    BY <1>3, MarkFacts DEF SectionOK, MustCollapse, StillFull, TooMany
  <2>3. GrabFitsRoom'
    BY <1>3 DEF GrabFitsRoom
  <2> QED
    BY <2>1, <2>2, <2>3
<1>4. ASSUME NEW r \in Clips, evdi_painter_mark_dirty(r)
      PROVE  TypeInv'
  <2>1. r \in Rect
    BY ClipAssumption
  <2>2. Pixels(evdi_framebuffer_sanitize_rect(scanout, r))
          \subseteq Pixels(FullRect(scanout))
    BY <2>1, SanitizeFacts DEF TypeOK
  <2> QED
    BY <1>3, <1>4, <2>1, <2>2 DEF evdi_painter_mark_dirty, TypeOK
<1>5. ASSUME NEW size \in Sizes, ChangeMode(size)
      PROVE  TypeInv'
  <2>1. TypeOK'
    BY <1>5 DEF ChangeMode, TypeOK
  <2>2. SectionOK'
    BY <1>5 DEF ChangeMode, SectionOK, Idle
  <2>3. GrabFitsRoom'
    BY <1>5 DEF ChangeMode, GrabFitsRoom, TypeOK
  <2> QED
    BY <2>1, <2>2, <2>3
<1>6. CASE MarkScanout
  <2>1. FullRect(scanout) \in Rect
    BY SizeFacts DEF TypeOK
  <2> QED
    BY <1>3, <1>6, <2>1 DEF MarkScanout, TypeOK
<1>7. CASE NewBuffer
  <2>1. TypeOK'
    BY <1>7 DEF NewBuffer, TypeOK
  <2>2. SectionOK'
    BY <1>7 DEF NewBuffer, SectionOK, MustCollapse, StillFull, TooMany
  <2>3. GrabFitsRoom'
    BY <1>7 DEF NewBuffer, GrabFitsRoom
  <2> QED
    BY <2>1, <2>2, <2>3
<1>8. ASSUME NEW room \in 1..MAX_DIRTS, evdi_painter_grabpix_ioctl(room)
      PROVE  TypeInv'
  <2>1. /\ section' \in Sections
        /\ section'.at = "merge" /\ section'.by = "grab"
        /\ section'.room = room /\ section'.a = 1 /\ section'.b = 2
    BY <1>8, BeginFacts, IdleType, DirtsAssumption
    DEF evdi_painter_grabpix_ioctl
  <2>5. UNCHANGED <<scanout, unmarked, dirty_rects, buffer, grab, stale, failed>>
    BY <1>8 DEF evdi_painter_grabpix_ioctl
  <2>2. TypeOK'
    BY <2>1, <2>5 DEF TypeOK
  <2>3. SectionOK'
    BY <1>8, <2>1 DEF evdi_painter_grabpix_ioctl, SectionOK
  <2>4. GrabFitsRoom'
    BY <1>8 DEF evdi_painter_grabpix_ioctl, GrabFitsRoom
  <2> QED
    BY <2>2, <2>3, <2>4
<1>9. CASE MergePair
  <2>1. section.a \in 1..MAX_DIRTS /\ section.b \in 1..n
          /\ section.a < section.b
    BY <1>2, <1>9, LoopFacts DEF MergePair, InLoop, SectionOK
  <2>2. dirty_rects' = Merged(dirty_rects, section.a, section.b)
    BY <1>9 DEF MergePair, Merged, Bounding
  <2>3. dirty_rects' \in Seq(Rect) /\ Len(dirty_rects') = n - 1
    <3>1. /\ dirty_rects \in Seq(Rect) /\ section.a \in Nat
          /\ section.b \in Nat /\ 1 <= section.a /\ section.b <= n
      BY <2>1, DirtsAssumption DEF TypeOK
    <3>2. IsMerged(dirty_rects', dirty_rects, section.a, section.b)
      BY <2>1, <2>2, <3>1, MergedFacts
    <3> QED
      BY <3>2 DEF IsMerged
  <2>4. section.a + 1 \in 0..(MAX_DIRTS + 1)
    BY <2>1, DirtsAssumption
  <2>5. /\ section' \in Sections /\ section'.at = "merge"
        /\ section'.a = section.a /\ section'.b = section.a + 1
        /\ section'.by = section.by /\ section'.room = section.room
    BY <1>9, <2>4, LoopFacts, PlacedFacts
  <2>6. SectionOK'
    BY <1>9, <2>1, <2>5 DEF MergePair, InLoop, SectionOK
  <2> QED
    <3>1. Len(dirty_rects') <= MAX_DIRTS
      BY <1>0, <2>3
    <3> QED
      BY <1>9, <2>3, <2>5, <2>6, <3>1, LoopTypes DEF MergePair
<1>10. CASE SkipPair
  <2>1. section.a \in 1..MAX_DIRTS /\ section.b \in 1..n
          /\ section.a < section.b
    BY <1>2, <1>10, LoopFacts DEF SkipPair, InLoop, SectionOK
  <2>2. section.b + 1 \in 0..(MAX_DIRTS + 1)
    BY <1>2, <2>1, DirtsAssumption
  <2>3. /\ section' \in Sections /\ section'.at = "merge"
        /\ section'.a = section.a /\ section'.b = section.b + 1
        /\ section'.by = section.by /\ section'.room = section.room
    BY <1>10, <2>2, LoopFacts, PlacedFacts
  <2>4. SectionOK'
    BY <1>10, <2>1, <2>3 DEF SkipPair, InLoop, SectionOK
  <2> QED
    BY <1>2, <1>10, <2>3, <2>4, LoopTypes DEF SkipPair, TypeOK
<1>11. CASE NextRect
  <2>1. section.a \in 1..MAX_DIRTS /\ section.a < n
    BY <1>11, LoopFacts DEF NextRect, InLoop, Merging, SectionOK
  <2>2. section.a + 1 \in 0..MAX_DIRTS /\ section.a + 2 \in 0..(MAX_DIRTS + 1)
    BY <1>2, <2>1, DirtsAssumption
  <2>3. /\ section' \in Sections /\ section'.at = "merge"
        /\ section'.a = section.a + 1 /\ section'.b = section.a + 2
        /\ section'.by = section.by /\ section'.room = section.room
    BY <1>11, <2>2, LoopFacts, PlacedFacts
  <2>4. SectionOK'
    BY <1>11, <2>1, <2>3 DEF NextRect, InLoop, SectionOK
  <2> QED
    BY <1>2, <1>11, <2>3, <2>4, LoopTypes DEF NextRect, TypeOK
<1>12. CASE MergeEnd
  <2>1. CASE MustCollapse
    <3>1. n >= 1
      BY <1>2, <2>1, LoopFacts DEF MustCollapse, StillFull, TooMany, SectionOK
    <3>2. 2 \in 0..(MAX_DIRTS + 1)
      BY DirtsAssumption
    <3>3. /\ section' \in Sections /\ section'.at = "collapse" /\ section'.b = 2
          /\ section'.by = section.by /\ section'.room = section.room
      BY <1>12, <2>1, <3>2, LoopFacts, PlacedFacts
    <3>4. SectionOK'
      BY <1>12, <3>1, <3>3 DEF MergeEnd, InLoop, SectionOK
    <3> QED
      BY <1>2, <1>12, <3>3, <3>4, LoopTypes DEF MergeEnd, TypeOK
  <2>2. CASE ~MustCollapse
    <3>1. /\ section' \in Sections /\ section'.at = "merged"
          /\ section'.by = section.by /\ section'.room = section.room
      BY <1>12, <2>2, LoopFacts, PlacedFacts
    <3>2. SectionOK'
      BY <1>12, <2>2, <3>1
      DEF MergeEnd, InLoop, SectionOK, MustCollapse, StillFull, TooMany
    <3> QED
      BY <1>2, <1>12, <3>1, <3>2, LoopTypes DEF MergeEnd, TypeOK
  <2> QED
    BY <2>1, <2>2
<1>13. CASE CollapseNext
  <2>1. section.b \in Nat /\ 2 <= section.b /\ section.b <= n
    BY <1>2, <1>13, LoopFacts DEF CollapseNext, InLoop, Collapsed, SectionOK
  <2>2. dirty_rects' = Grown(dirty_rects, section.b)
    BY <1>13 DEF CollapseNext, Grown
  <2>3. dirty_rects' \in Seq(Rect) /\ Len(dirty_rects') = n
    BY <2>1, <2>2, GrownFacts DEF TypeOK
  <2>4. section.b + 1 \in 0..(MAX_DIRTS + 1)
    BY <1>2, <2>1, DirtsAssumption
  <2>5. /\ section' \in Sections /\ section'.at = "collapse"
        /\ section'.b = section.b + 1
        /\ section'.by = section.by /\ section'.room = section.room
    BY <1>13, <2>4, LoopFacts, PlacedFacts
  <2>6. SectionOK'
    BY <1>2, <1>13, <2>1, <2>3, <2>5 DEF CollapseNext, InLoop, SectionOK
  <2> QED
    BY <1>2, <1>13, <2>3, <2>5, <2>6, LoopTypes DEF CollapseNext
<1>14. CASE CollapseEnd
  <2>1. dirty_rects' = <<dirty_rects[1]>> /\ dirty_rects[1] \in Rect
    BY <1>2, <1>14 DEF CollapseEnd, InLoop, SectionOK
  <2>2. dirty_rects' \in Seq(Rect) /\ Len(dirty_rects') = 1
    <3> DEFINE r == dirty_rects[1]
    <3>1. r \in Rect /\ dirty_rects' = <<r>>
      BY <2>1
    <3> HIDE DEF r
    <3> QED
      BY <3>1, OneRect
  <2>3. /\ section' \in Sections /\ section'.at = "collapsed"
        /\ section'.by = section.by /\ section'.room = section.room
    BY <1>14, LoopFacts, PlacedFacts
  <2>4. SectionOK'
    BY <1>14, <2>2, <2>3 DEF CollapseEnd, InLoop, SectionOK
  <2> QED
    BY <1>14, <2>2, <2>3, <2>4, LoopTypes, DirtsAssumption DEF CollapseEnd
<1>15. CASE StoreDirty
  <2>1. n < MAX_DIRTS
    <3>1. n # MAX_DIRTS
      BY <1>15, DirtsAssumption
      DEF StoreDirty, EndSection, SectionOK, MustCollapse, StillFull, TooMany
    <3> QED
      BY <1>0, <3>1
  <2>2. section.clip \in Rect
    BY DEF TypeOK, Sections
  <2>3. dirty_rects' \in Seq(Rect) /\ Len(dirty_rects') = n + 1
    BY <1>15, <2>2, AppendProperties DEF StoreDirty, TypeOK
  <2>4. TypeOK'
    <3>1. Len(dirty_rects') <= MAX_DIRTS
      BY <1>2, <2>1, <2>3, DirtsAssumption
    <3> QED
      BY <1>15, <2>3, <3>1, IdleType DEF StoreDirty, EndSection, TypeOK
  <2>5. SectionOK'
    BY <1>15 DEF StoreDirty, EndSection, SectionOK, Idle
  <2> QED
    BY <1>15, <2>4, <2>5 DEF StoreDirty, GrabFitsRoom
<1>16. CASE GrabTake
  <2>1. Len(dirty_rects) <= section.room /\ section.room \in 0..MAX_DIRTS
    BY <1>2, <1>16
    DEF GrabTake, EndSection, SectionOK, MustCollapse, StillFull, TooMany,
        TypeOK, Sections
  <2>2. dirty_rects' \in Seq(Rect) /\ Len(dirty_rects') = 0
    BY <1>16, EmptySeq DEF GrabTake
  <2>3. TypeOK'
    <3>1. grab' \in [rects : Seq(Rect), room : 0..MAX_DIRTS, current : BOOLEAN]
      <4>1. CASE UNCHANGED grab
        BY <4>1 DEF TypeOK
      <4>2. CASE grab' = [rects |-> dirty_rects, room |-> section.room,
                          current |-> TRUE]
        BY <2>1, <4>2 DEF TypeOK
      <4> QED
        BY <1>16, <4>1, <4>2 DEF GrabTake
    <3>2. failed' \in BOOLEAN
      BY <1>16 DEF GrabTake, TypeOK
    <3> QED
      BY <1>16, <2>2, <3>1, <3>2, IdleType, DirtsAssumption
      DEF GrabTake, EndSection, TypeOK
  <2>4. SectionOK'
    BY <1>16 DEF GrabTake, EndSection, SectionOK, Idle
  <2>5. GrabFitsRoom'
    BY <1>16, <2>1 DEF GrabTake, GrabFitsRoom
  <2> QED
    BY <2>3, <2>4, <2>5
<1>17. CASE GrabCopy
  <2>1. TypeOK'
    BY <1>17, NoGrabType DEF GrabCopy, TypeOK
  <2>2. SectionOK'
    BY <1>17 DEF GrabCopy, SectionOK, MustCollapse, StillFull, TooMany
  <2>3. GrabFitsRoom'
    BY <1>17, NoGrabType DEF GrabCopy, GrabFitsRoom, NoGrab
  <2> QED
    BY <2>1, <2>2, <2>3
<1>18. CASE UNCHANGED vars
  BY <1>18
  DEF vars, TypeOK, SectionOK, GrabFitsRoom, MustCollapse, StillFull, TooMany
<1> QED
  BY <1>4, <1>5, <1>6, <1>7, <1>8, <1>9, <1>10, <1>11, <1>12, <1>13, <1>14,
     <1>15, <1>16, <1>17, <1>18
  DEF Next

LEMMA TypeInvAlways == Spec => []TypeInv
<1>1. Init => TypeInv
  BY TypeInvInit
<1>2. TypeInv /\ [Next]_vars => TypeInv'
  BY TypeInvNext
<1> QED
  BY <1>1, <1>2, PTL DEF Spec

\* The state is well typed; in particular a full dirty_rects array always gets
\* room before evdi_painter_mark_dirty stores the next rectangle, and the
\* indices of both loops stay inside it.
THEOREM RectsFitArray == Spec => []TypeOK
<1>1. TypeInv => TypeOK
  BY DEF TypeInv
<1> QED
  BY <1>1, TypeInvAlways, PTL

\* evdi_painter_grabpix_ioctl never reports more rectangles than the client has
\* room for.
THEOREM GrabsFitRoom == Spec => []GrabFitsRoom
<1>1. TypeInv => GrabFitsRoom
  BY DEF TypeInv
<1> QED
  BY <1>1, TypeInvAlways, PTL

-----------------------------------------------------------------------------
(***************************************************************************)
(* Merging pays.                                                           *)
(***************************************************************************)

\* All corners are in order, for the areas to mean something.
Corners ==
  /\ \A i \in DOMAIN dirty_rects : Ordered(dirty_rects[i])
  /\ Ordered(section.clip)

PaysInv == Corners /\ MergeCopiesNoMore

LEMMA PaysInit == Init => PaysInv
<1> SUFFICES ASSUME Init PROVE PaysInv
  OBVIOUS
<1>1. scanout \in Sizes /\ FullRect(scanout) \in Rect
  BY SizeFacts DEF Init
<1>2. Ordered(FullRect(scanout)) /\ Ordered(NoRect)
  BY <1>1, SizeFacts, SizeAssumption DEF Ordered, FullRect, NoRect
<1>3. Corners
  BY <1>1, <1>2, OneRect DEF Init, Corners, Idle
<1>4. MergeCopiesNoMore
  BY DEF Init, MergeCopiesNoMore, Idle
<1> QED
  BY <1>3, <1>4 DEF PaysInv

LEMMA PaysNext == TypeInv /\ PaysInv /\ [Next]_vars => PaysInv'
<1> SUFFICES ASSUME TypeInv, PaysInv, [Next]_vars PROVE PaysInv'
  OBVIOUS
<1>1. TypeOK /\ SectionOK /\ Corners /\ MergeCopiesNoMore
  BY DEF TypeInv, PaysInv
<1> DEFINE n == Len(dirty_rects)
<1>2. /\ n \in Nat /\ n <= MAX_DIRTS /\ DOMAIN dirty_rects = 1..n
      /\ \A i \in 1..n : dirty_rects[i] \in Rect
      /\ dirty_rects \in Seq(Rect)
  BY <1>1, DirtsFacts DEF TypeOK
<1>3. TotalArea(dirty_rects) \in Nat /\ section.given \in Nat
  BY <1>1, <1>2, TotalAreaType DEF TypeOK, Sections
<1>4. ASSUME NEW r \in Rect, BeginMark(r), UNCHANGED dirty_rects
      PROVE  PaysInv'
  <2>1. Corners'
    BY <1>1, <1>4, MarkFacts DEF Corners
  <2>2. MergeCopiesNoMore'
    BY <1>1, <1>3, <1>4, MarkFacts DEF MergeCopiesNoMore
  <2> QED
    BY <2>1, <2>2 DEF PaysInv
<1>5. ASSUME NEW r \in Clips, evdi_painter_mark_dirty(r)
      PROVE  PaysInv'
  BY <1>4, <1>5, ClipAssumption DEF evdi_painter_mark_dirty
<1>6. CASE MarkScanout
  BY <1>1, <1>4, <1>6, SizeFacts DEF MarkScanout, TypeOK
<1>7. ASSUME NEW room \in 1..MAX_DIRTS, evdi_painter_grabpix_ioctl(room)
      PROVE  PaysInv'
  <2>1. section'.clip = NoRect /\ section'.given = TotalArea(dirty_rects)
    BY <1>1, <1>7, BeginFacts, IdleType, DirtsAssumption
    DEF evdi_painter_grabpix_ioctl
  <2>2. Ordered(NoRect)
    BY DEF Ordered, NoRect
  <2> QED
    BY <1>1, <1>3, <1>7, <2>1, <2>2
    DEF evdi_painter_grabpix_ioctl, Corners, MergeCopiesNoMore, PaysInv
<1>8. CASE MergePair
  <2>1. section.a \in 1..MAX_DIRTS /\ section.b \in 1..n
          /\ section.a < section.b
    BY <1>1, <1>2, <1>8, LoopFacts DEF MergePair, InLoop, SectionOK
  <2>2. dirty_rects' = Merged(dirty_rects, section.a, section.b)
    BY <1>8 DEF MergePair, Merged, Bounding
  <2>3. section.a + 1 \in 0..(MAX_DIRTS + 1)
    BY <2>1, DirtsAssumption
  <2>4. section'.clip = section.clip /\ section'.given = section.given
    BY <1>1, <1>8, <2>3, LoopFacts, PlacedFacts
  <2>5. rect_area(expand_rect(dirty_rects[section.a],
                              dirty_rects[section.b])) <=
          rect_area(dirty_rects[section.a]) + rect_area(dirty_rects[section.b])
    BY <1>8 DEF MergePair, MergePays, Bounding
  <2>6. \A i \in DOMAIN dirty_rects' : Ordered(dirty_rects'[i])
    BY <1>1, <1>2, <2>1, <2>2, MergedOrdered DEF Corners
  <2>7. TotalArea(dirty_rects') <= TotalArea(dirty_rects)
    BY <1>1, <1>2, <2>1, <2>2, <2>5, MergedArea DEF Corners
  <2>8. TotalArea(dirty_rects') \in Nat
    <3>1. dirty_rects \in Seq(Rect) /\ section.a \in Nat /\ section.b \in Nat
            /\ 1 <= section.a /\ section.b <= n
      BY <1>2, <2>1
    <3>2. IsMerged(dirty_rects', dirty_rects, section.a, section.b)
      BY <2>1, <2>2, <3>1, MergedFacts
    <3>3. dirty_rects' \in Seq(Rect)
      BY <3>2 DEF IsMerged
    <3> QED
      BY <3>3, TotalAreaType
  <2>9. TotalArea(dirty_rects) <= section.given
    BY <1>1, <1>8 DEF MergeCopiesNoMore, MergePair, InLoop
  <2>10. TotalArea(dirty_rects') <= section'.given
    BY <1>3, <2>4, <2>7, <2>8, <2>9
  <2> QED
    BY <1>1, <2>4, <2>6, <2>10 DEF Corners, MergeCopiesNoMore, PaysInv
<1>9. CASE SkipPair
  <2>1. section.b + 1 \in 0..(MAX_DIRTS + 1)
    BY <1>1, <1>2, <1>9, LoopFacts DEF SkipPair
  <2>2. section'.clip = section.clip /\ section'.given = section.given
    BY <1>1, <1>9, <2>1, LoopFacts, PlacedFacts
  <2> QED
    BY <1>1, <1>9, <2>2
    DEF SkipPair, InLoop, Corners, MergeCopiesNoMore, PaysInv
<1>10. CASE NextRect
  <2>1. section.a + 1 \in 0..MAX_DIRTS /\ section.a + 2 \in 0..(MAX_DIRTS + 1)
    BY <1>1, <1>2, <1>10, LoopFacts DEF NextRect, Merging
  <2>2. section'.clip = section.clip /\ section'.given = section.given
    BY <1>1, <1>10, <2>1, LoopFacts, PlacedFacts
  <2> QED
    BY <1>1, <1>10, <2>2
    DEF NextRect, InLoop, Corners, MergeCopiesNoMore, PaysInv
<1>11. CASE MergeEnd
  <2>1. 2 \in 0..(MAX_DIRTS + 1)
    BY DirtsAssumption
  <2>2. section'.clip = section.clip /\ section'.given = section.given
    BY <1>1, <1>11, <2>1, LoopFacts, PlacedFacts
  <2> QED
    BY <1>1, <1>11, <2>2
    DEF MergeEnd, InLoop, Corners, MergeCopiesNoMore, PaysInv
<1>12. CASE CollapseNext
  <2>1. section.b \in Nat /\ 2 <= section.b /\ section.b <= n
    BY <1>1, <1>2, <1>12, LoopFacts
    DEF CollapseNext, InLoop, Collapsed, SectionOK
  <2>2. dirty_rects' = Grown(dirty_rects, section.b)
    BY <1>12 DEF CollapseNext, Grown
  <2>3. section.b + 1 \in 0..(MAX_DIRTS + 1)
    BY <1>2, <2>1, DirtsAssumption
  <2>4. section'.clip = section.clip /\ section'.at = "collapse"
    BY <1>1, <1>12, <2>3, LoopFacts, PlacedFacts
  <2>5. Ordered(expand_rect(dirty_rects[1], dirty_rects[section.b]))
    <3>1. 1 \in 1..n /\ section.b \in 1..n
      BY <1>2, <2>1
    <3> QED
      BY <1>1, <1>2, <3>1, ExpandOrdered DEF Corners
  <2>6. /\ DOMAIN dirty_rects' = DOMAIN dirty_rects
        /\ dirty_rects'[1] = expand_rect(dirty_rects[1], dirty_rects[section.b])
        /\ \A k \in DOMAIN dirty_rects : k # 1 => dirty_rects'[k] = dirty_rects[k]
    BY <1>2, <2>1, <2>2, GrownFacts
  <2>7. Corners'
    BY <1>1, <2>4, <2>5, <2>6 DEF Corners
  <2> QED
    BY <2>4, <2>7 DEF MergeCopiesNoMore, PaysInv
<1>13. CASE CollapseEnd
  <2>1. section'.clip = section.clip /\ section'.at = "collapsed"
    BY <1>1, <1>13, LoopFacts, PlacedFacts
  <2>2. 1 \in 1..n
    BY <1>1, <1>2, <1>13 DEF CollapseEnd, InLoop, SectionOK
  <2>3. dirty_rects' = <<dirty_rects[1]>> /\ Ordered(dirty_rects[1])
    BY <1>1, <1>2, <1>13, <2>2 DEF CollapseEnd, Corners
  <2>4. Corners'
    BY <1>1, <2>1, <2>3 DEF Corners
  <2> QED
    BY <2>1, <2>4 DEF MergeCopiesNoMore, PaysInv
<1>14. CASE StoreDirty
  <2>1. section.clip \in Rect
    BY <1>1 DEF TypeOK, Sections
  <2>2. dirty_rects' = Append(dirty_rects, section.clip)
    BY <1>14 DEF StoreDirty
  <2>3. /\ dirty_rects' \in Seq(Rect) /\ Len(dirty_rects') = n + 1
        /\ \A i \in 1..n : dirty_rects'[i] = dirty_rects[i]
        /\ dirty_rects'[n + 1] = section.clip
    BY <1>2, <2>1, <2>2, AppendProperties
  <2>4. DOMAIN dirty_rects' = 1..(n + 1)
    BY <2>3, LenProperties
  <2>5. \A i \in DOMAIN dirty_rects' : Ordered(dirty_rects'[i])
    BY <1>1, <1>2, <2>3, <2>4 DEF Corners
  <2>6. section' = Idle /\ Ordered(NoRect)
    BY <1>14 DEF StoreDirty, EndSection, Ordered, NoRect
  <2> QED
    BY <2>5, <2>6 DEF Corners, MergeCopiesNoMore, PaysInv, Idle
<1>15. CASE GrabTake
  <2>1. dirty_rects' = <<>> /\ section' = Idle /\ Ordered(NoRect)
    BY <1>15 DEF GrabTake, EndSection, Ordered, NoRect
  <2> QED
    BY <2>1 DEF Corners, MergeCopiesNoMore, PaysInv, Idle
<1>16. CASE \/ \E size \in Sizes : ChangeMode(size)
            \/ NewBuffer \/ GrabCopy \/ UNCHANGED vars
  BY <1>1, <1>16
  DEF ChangeMode, NewBuffer, GrabCopy, vars, Corners, MergeCopiesNoMore, PaysInv
<1> QED
  BY <1>5, <1>6, <1>7, <1>8, <1>9, <1>10, <1>11, <1>12, <1>13, <1>14, <1>15,
     <1>16
  DEF Next

\* merge_dirty_rects never adds pixels to copy, whatever pairs it merges and in
\* whatever order it meets them.
THEOREM MergingPays == Spec => []MergeCopiesNoMore
<1>1. Init => PaysInv
  BY PaysInit
<1>2. TypeInv /\ PaysInv /\ [Next]_vars => PaysInv'
  BY PaysNext
<1>3. PaysInv => MergeCopiesNoMore
  BY DEF PaysInv
<1> QED
  BY <1>1, <1>2, <1>3, TypeInvAlways, PTL DEF Spec

-----------------------------------------------------------------------------
(***************************************************************************)
(* No damage is lost.                                                      *)
(***************************************************************************)

\* While collapse_dirty_rects runs, the first rectangle holds those it has
\* passed.
Growing ==
  section.at = "collapse" =>
    \A j \in DOMAIN dirty_rects :
      j < section.b => Pixels(dirty_rects[j]) \subseteq Pixels(dirty_rects[1])

\* A grab that reads the scanout buffer has a buffer of its size; a client whose
\* buffer has another size has nothing of the new picture.
StaleOK ==
  /\ grab.current => buffer = scanout
  /\ buffer # scanout => stale = Pixels(FullRect(scanout))

CoverInv == Growing /\ StaleOK /\ StaleIsDirty

\* What a mark or a grab has on its way.
Pending == IF section.by = "mark" THEN Pixels(section.clip) ELSE {}
Copying == IF grab.current THEN Covered(grab.rects) ELSE {}

LEMMA CoverInit == Init => CoverInv
<1> SUFFICES ASSUME Init PROVE CoverInv
  OBVIOUS
<1>1. scanout \in Sizes /\ FullRect(scanout) \in Rect
  BY SizeFacts DEF Init
<1> DEFINE r == FullRect(scanout)
<1>2. dirty_rects = <<r>> /\ stale = Pixels(r)
  BY DEF Init
<1> HIDE DEF r
<1>3. Covered(<<r>>) = Pixels(r)
  BY DEF Covered
<1>4. StaleIsDirty
  BY <1>2, <1>3 DEF StaleIsDirty
<1>5. Growing /\ StaleOK
  BY DEF Init, Growing, StaleOK, Idle, NoGrab
<1> QED
  BY <1>4, <1>5 DEF CoverInv

\* A loop may only let the rectangles grow.
LEMMA LoopCovers ==
  ASSUME CoverInv, NEW at, InLoop(at),
         section'.by = section.by, section'.clip = section.clip,
         Covered(dirty_rects) \subseteq Covered(dirty_rects')
  PROVE  StaleOK' /\ StaleIsDirty'
<1>1. StaleOK /\ StaleIsDirty
  BY DEF CoverInv
<1>2. UNCHANGED <<scanout, unmarked, buffer, grab, stale, failed>>
  BY DEF InLoop
<1>3. OnTheWay' = OnTheWay
  BY <1>2 DEF OnTheWay
<1> QED
  BY <1>1, <1>2, <1>3 DEF StaleOK, StaleIsDirty

LEMMA MarkCovers ==
  ASSUME TypeInv, CoverInv, NEW r \in Rect, BeginMark(r),
         UNCHANGED <<scanout, dirty_rects, buffer, grab>>,
         \/ /\ stale' = stale \cup
                         Pixels(evdi_framebuffer_sanitize_rect(scanout, r))
            /\ UNCHANGED <<unmarked, failed>>
         \/ r = FullRect(scanout) /\ UNCHANGED stale
  PROVE  CoverInv'
<1> DEFINE c == evdi_framebuffer_sanitize_rect(scanout, r)
           full == Pixels(FullRect(scanout))
<1>1. TypeOK /\ StaleOK /\ StaleIsDirty /\ scanout \in Sizes
        /\ stale \subseteq full
  BY DEF TypeInv, CoverInv, TypeOK
<1>2. /\ section = Idle /\ section'.by = "mark" /\ section'.clip = c
      /\ section'.at # "collapse"
  BY <1>1, MarkFacts
<1>3. Pixels(c) \subseteq full
  BY <1>1, SanitizeFacts
<1>4. OnTheWay' = Pixels(c) \cup OnTheWay
  BY <1>2 DEF OnTheWay, Idle
<1>5. Covered(dirty_rects') = Covered(dirty_rects)
  OBVIOUS
<1> HIDE DEF c
<1>6. CASE stale' = stale \cup Pixels(c) /\ UNCHANGED <<unmarked, failed>>
  <2>1. StaleOK'
    BY <1>1, <1>3, <1>6 DEF StaleOK
  <2>2. StaleIsDirty'
    BY <1>1, <1>4, <1>5, <1>6 DEF StaleIsDirty
  <2> QED
    BY <1>2, <2>1, <2>2 DEF CoverInv, Growing
<1>7. CASE r = FullRect(scanout) /\ UNCHANGED stale
  <2>1. c = FullRect(scanout)
    BY <1>1, <1>7, SanitizeFull DEF c
  <2>2. StaleIsDirty'
    BY <1>1, <1>4, <1>7, <2>1 DEF StaleIsDirty
  <2>3. StaleOK'
    BY <1>1, <1>7 DEF StaleOK
  <2> QED
    BY <1>2, <2>2, <2>3 DEF CoverInv, Growing
<1> QED
  BY <1>6, <1>7 DEF c

LEMMA CoverNext == TypeInv /\ CoverInv /\ [Next]_vars => CoverInv'
<1> SUFFICES ASSUME TypeInv, CoverInv, [Next]_vars PROVE CoverInv'
  OBVIOUS
<1>1. TypeOK /\ SectionOK /\ Growing /\ StaleOK /\ StaleIsDirty
  BY DEF TypeInv, CoverInv
<1> DEFINE n == Len(dirty_rects)
<1>2. /\ n \in Nat /\ n <= MAX_DIRTS /\ DOMAIN dirty_rects = 1..n
      /\ \A i \in 1..n : dirty_rects[i] \in Rect
      /\ dirty_rects \in Seq(Rect)
  BY <1>1, DirtsFacts DEF TypeOK
<1>3. ASSUME NEW r \in Clips, evdi_painter_mark_dirty(r)
      PROVE  CoverInv'
  BY <1>3, MarkCovers, ClipAssumption DEF evdi_painter_mark_dirty
<1>4. CASE MarkScanout
  <2>1. FullRect(scanout) \in Rect
    BY <1>1, SizeFacts DEF TypeOK
  <2> QED
    BY <1>4, <2>1, MarkCovers DEF MarkScanout
<1>5. ASSUME NEW size \in Sizes, ChangeMode(size)
      PROVE  CoverInv'
  <2>1. grab'.current = FALSE
    BY <1>1, <1>5 DEF ChangeMode, TypeOK
  <2>2. StaleOK' /\ StaleIsDirty'
    BY <1>5, <2>1 DEF ChangeMode, StaleOK, StaleIsDirty
  <2>3. Growing'
    BY <1>5 DEF ChangeMode, Growing, Idle
  <2> QED
    BY <2>2, <2>3 DEF CoverInv
<1>6. CASE NewBuffer
  <2>1. stale' = stale
    BY <1>1, <1>6 DEF NewBuffer, StaleOK
  <2>2. OnTheWay' = OnTheWay
    BY <1>6 DEF NewBuffer, OnTheWay
  <2>3. StaleIsDirty'
    BY <1>1, <1>6, <2>1, <2>2 DEF NewBuffer, StaleIsDirty
  <2>4. StaleOK' /\ Growing'
    BY <1>1, <1>6 DEF NewBuffer, StaleOK, Growing
  <2> QED
    BY <2>3, <2>4 DEF CoverInv
<1>7. ASSUME NEW room \in 1..MAX_DIRTS, evdi_painter_grabpix_ioctl(room)
      PROVE  CoverInv'
  <2>1. section = Idle /\ section'.by = "grab" /\ section'.at = "merge"
    BY <1>1, <1>7, BeginFacts, IdleType, DirtsAssumption
    DEF evdi_painter_grabpix_ioctl, Begin
  <2>2. OnTheWay' = OnTheWay
    BY <1>7, <2>1 DEF evdi_painter_grabpix_ioctl, OnTheWay, Idle
  <2>3. StaleOK' /\ StaleIsDirty'
    BY <1>1, <1>7, <2>2 DEF evdi_painter_grabpix_ioctl, StaleOK, StaleIsDirty
  <2> QED
    BY <2>1, <2>3 DEF CoverInv, Growing
<1>8. CASE MergePair
  <2>1. section.a \in 1..MAX_DIRTS /\ section.b \in 1..n
          /\ section.a < section.b
    BY <1>1, <1>2, <1>8, LoopFacts DEF MergePair, InLoop, SectionOK
  <2>2. dirty_rects' = Merged(dirty_rects, section.a, section.b)
    BY <1>8 DEF MergePair, Merged, Bounding
  <2>3. section.a + 1 \in 0..(MAX_DIRTS + 1)
    BY <2>1, DirtsAssumption
  <2>4. /\ section'.at = "merge"
        /\ section'.by = section.by /\ section'.clip = section.clip
    BY <1>1, <1>8, <2>3, LoopFacts, PlacedFacts
  <2>5. Covered(dirty_rects) \subseteq Covered(dirty_rects')
    BY <1>2, <2>1, <2>2, MergedCovers
  <2> QED
    BY <1>8, <2>4, <2>5, LoopCovers DEF MergePair, CoverInv, Growing
<1>9. CASE SkipPair \/ NextRect
  <2>1. /\ section.a + 1 \in 0..(MAX_DIRTS + 1)
        /\ SkipPair => section.b + 1 \in 0..(MAX_DIRTS + 1)
        /\ NextRect => /\ section.a + 1 \in 0..MAX_DIRTS
                       /\ section.a + 2 \in 0..(MAX_DIRTS + 1)
    BY <1>1, <1>2, LoopFacts DEF SkipPair, NextRect, Merging
  <2>2. /\ section'.at = "merge"
        /\ section'.by = section.by /\ section'.clip = section.clip
    BY <1>1, <1>9, <2>1, LoopFacts, PlacedFacts
  <2>3. InLoop("merge") /\ UNCHANGED dirty_rects
    BY <1>9 DEF SkipPair, NextRect
  <2> QED
    BY <2>2, <2>3, LoopCovers DEF CoverInv, Growing
<1>10. CASE MergeEnd
  <2>1. 2 \in 0..(MAX_DIRTS + 1)
    BY DirtsAssumption
  <2>2. /\ section'.by = section.by /\ section'.clip = section.clip
        /\ section'.at \in {"merged", "collapse"}
        /\ section'.at = "collapse" => section'.b = 2
    BY <1>1, <1>10, <2>1, LoopFacts, PlacedFacts
  <2>3. InLoop("merge") /\ UNCHANGED dirty_rects
    BY <1>10 DEF MergeEnd
  <2>4. Growing'
    BY <1>2, <2>2, <2>3 DEF Growing
  <2> QED
    BY <2>2, <2>3, <2>4, LoopCovers DEF CoverInv
<1>11. CASE CollapseNext
  <2>1. section.b \in Nat /\ 2 <= section.b /\ section.b <= n
    BY <1>1, <1>2, <1>11, LoopFacts
    DEF CollapseNext, InLoop, Collapsed, SectionOK
  <2> DEFINE g == Grown(dirty_rects, section.b)
  <2>2. dirty_rects' = g
    BY <1>11 DEF CollapseNext, Grown
  <2>3. section.b + 1 \in 0..(MAX_DIRTS + 1)
    BY <1>2, <2>1, DirtsAssumption
  <2>4. /\ section'.by = section.by /\ section'.clip = section.clip
        /\ section'.at = "collapse" /\ section'.b = section.b + 1
    BY <1>1, <1>11, <2>3, LoopFacts, PlacedFacts
  <2>5. /\ DOMAIN g = DOMAIN dirty_rects
        /\ \A k \in DOMAIN dirty_rects : k # 1 => g[k] = dirty_rects[k]
        /\ \A k \in DOMAIN dirty_rects :
             Pixels(dirty_rects[k]) \subseteq Pixels(g[k])
        /\ Pixels(dirty_rects[section.b]) \subseteq Pixels(g[1])
    BY <1>2, <2>1, GrownFacts
  <2> HIDE DEF g
  <2>6. Covered(dirty_rects) \subseteq Covered(g)
    BY <2>5 DEF Covered
  <2>7. ASSUME NEW j \in 1..n, j < section.b + 1
        PROVE  Pixels(g[j]) \subseteq Pixels(g[1])
    <3>1. CASE j = 1
      BY <3>1
    <3>2. CASE j = section.b
      BY <1>2, <2>1, <2>5, <3>2
    <3>3. CASE j # 1 /\ j < section.b
      <4>1. Pixels(dirty_rects[j]) \subseteq Pixels(dirty_rects[1])
        BY <1>1, <1>2, <1>11, <3>3 DEF Growing, CollapseNext, InLoop
      <4>2. 1 \in 1..n
        BY <1>2, <2>1
      <4> QED
        BY <1>2, <2>5, <3>3, <4>1, <4>2
    <3> QED
      BY <2>1, <2>7, <3>1, <3>2, <3>3
  <2>8. Growing'
    BY <1>2, <2>2, <2>4, <2>5, <2>7 DEF Growing
  <2> QED
    BY <1>11, <2>2, <2>4, <2>6, <2>8, LoopCovers DEF CollapseNext, CoverInv
<1>12. CASE CollapseEnd
  <2>1. /\ section'.by = section.by /\ section'.clip = section.clip
        /\ section'.at = "collapsed"
    BY <1>1, <1>12, LoopFacts, PlacedFacts
  <2> DEFINE r == dirty_rects[1]
  <2>2. dirty_rects' = <<r>>
    BY <1>12 DEF CollapseEnd
  <2>3. \A j \in DOMAIN dirty_rects : Pixels(dirty_rects[j]) \subseteq Pixels(r)
    <3>1. \A j \in 1..n : j < section.b
      BY <1>1, <1>2, <1>12, LoopFacts DEF CollapseEnd, Collapsed
    <3> QED
      BY <1>1, <1>2, <1>12, <3>1 DEF Growing, CollapseEnd, InLoop
  <2> HIDE DEF r
  <2>4. Covered(dirty_rects) \subseteq Pixels(r)
    BY <2>3 DEF Covered
  <2>5. Covered(<<r>>) = Pixels(r)
    BY DEF Covered
  <2> QED
    BY <1>12, <2>1, <2>2, <2>4, <2>5, LoopCovers
    DEF CollapseEnd, CoverInv, Growing
<1>13. CASE StoreDirty
  <2>1. section.clip \in Rect
    BY <1>1 DEF TypeOK, Sections
  <2>2. dirty_rects' = Append(dirty_rects, section.clip)
    BY <1>13 DEF StoreDirty
  <2>3. Covered(dirty_rects') = Covered(dirty_rects) \cup Pixels(section.clip)
    BY <1>2, <2>1, <2>2, AppendCovers
  <2>4. section.by = "mark" /\ section' = Idle
    BY <1>13 DEF StoreDirty, EndSection
  <2>5. OnTheWay = Pixels(section.clip) \cup Copying /\ OnTheWay' = Copying
    BY <1>13, <2>4 DEF OnTheWay, Copying, Idle, StoreDirty
  <2>6. StaleIsDirty'
    BY <1>1, <1>13, <2>3, <2>5 DEF StaleIsDirty, StoreDirty
  <2>7. StaleOK' /\ Growing'
    BY <1>1, <1>13, <2>4 DEF StaleOK, StoreDirty, Growing, Idle
  <2> QED
    BY <2>6, <2>7 DEF CoverInv
<1>14. CASE GrabTake
  <2>1. grab = NoGrab /\ section.by = "grab" /\ section' = Idle
    BY <1>1, <1>14 DEF GrabTake, EndSection, SectionOK
  <2>2. OnTheWay = {}
    BY <2>1 DEF OnTheWay, NoGrab
  <2>3. Growing'
    BY <2>1 DEF Growing, Idle
  <2>4. CASE /\ GrabSucceeds(dirty_rects)
             /\ grab' = [rects |-> dirty_rects, room |-> section.room,
                         current |-> TRUE]
             /\ UNCHANGED failed
    <3>1. Covered(dirty_rects) \subseteq OnTheWay'
      BY <2>4 DEF OnTheWay
    <3>2. StaleIsDirty'
      BY <1>1, <1>14, <2>2, <2>4, <3>1 DEF GrabTake, StaleIsDirty
    <3>3. StaleOK'
      BY <1>1, <1>14, <2>4 DEF GrabTake, StaleOK, GrabSucceeds
    <3> QED
      BY <2>3, <3>2, <3>3 DEF CoverInv
  <2>5. CASE failed' = TRUE /\ UNCHANGED grab
    BY <1>1, <1>14, <2>3, <2>5 DEF GrabTake, StaleIsDirty, StaleOK, CoverInv
  <2> QED
    BY <1>14, <2>4, <2>5 DEF GrabTake
<1>15. CASE GrabCopy
  <2>1. grab'.current = FALSE
    BY <1>15 DEF GrabCopy, NoGrab
  <2>2. OnTheWay = Pending \cup Copying /\ OnTheWay' = Pending
    BY <1>15, <2>1 DEF OnTheWay, Pending, Copying, GrabCopy
  <2>3. stale' = stale \ Copying
    BY <1>15 DEF GrabCopy, Copying
  <2>4. StaleIsDirty'
    BY <1>1, <1>15, <2>2, <2>3 DEF GrabCopy, StaleIsDirty
  <2>5. StaleOK'
    BY <1>1, <1>15, <2>1 DEF GrabCopy, StaleOK
  <2>6. Growing'
    BY <1>1, <1>15 DEF GrabCopy, Growing
  <2> QED
    BY <2>4, <2>5, <2>6 DEF CoverInv
<1>16. CASE UNCHANGED vars
  BY <1>1, <1>16 DEF vars, CoverInv, Growing, StaleOK, StaleIsDirty, OnTheWay
<1> QED
  BY <1>3, <1>4, <1>5, <1>6, <1>7, <1>8, <1>9, <1>10, <1>11, <1>12, <1>13,
     <1>14, <1>15, <1>16
  DEF Next

\* The rectangles that wait, with what is on the way, cover every pixel the
\* client lacks: merging, collapsing, modes of other sizes and grabs that race
\* with new damage lose nothing, for buffers of any size and any clips.
THEOREM NoDamageLost == Spec => []StaleIsDirty
<1>1. Init => CoverInv
  BY CoverInit
<1>2. TypeInv /\ CoverInv /\ [Next]_vars => CoverInv'
  BY CoverNext
<1>3. CoverInv => StaleIsDirty
  BY DEF CoverInv
<1> QED
  BY <1>1, <1>2, <1>3, TypeInvAlways, PTL DEF Spec
=============================================================================
