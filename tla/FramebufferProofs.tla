------------------------- MODULE FramebufferProofs --------------------------
(***************************************************************************)
(* Proofs about the framebuffer, for every size of it, every blit and      *)
(* every sequence of lengths given to framebuffer_copyDirtyArea.           *)
(***************************************************************************)
EXTENDS Framebuffer, WellFoundedInduction, TLAPS

-----------------------------------------------------------------------------
(* Where segments lie.  Products are kept behind At, whose order and       *)
(* remainder are all the other lemmas need.                                *)

At(row, col) == row * Width + col

LEMMA Limits ==
    /\ Width \in 1..255 /\ Rows \in 1..31
    /\ MAX_X = Width - 1 /\ MAX_Y = 8 * Rows - 1 /\ MAX_Y_SEG = Rows - 1
BY SizeAssumption DEF MAX_X, MAX_Y, MAX_Y_SEG

LEMMA RectangleAt ==
    ASSUME NEW left, NEW top, NEW right, NEW bottom
    PROVE  Rectangle(left, top, right, bottom) =
             {At(row, col) : row \in top..bottom, col \in left..right}
BY DEF Rectangle, At

(* A row is Width segments long. *)
LEMMA AtOrder ==
    ASSUME NEW r1 \in Nat, NEW r2 \in Nat, NEW c1 \in 0..(Width - 1), NEW c2 \in 0..(Width - 1)
    PROVE  /\ At(r1, c1) \in Nat
           /\ r1 < r2 => At(r1, c1) < At(r2, c2)
           /\ r1 = r2 => (At(r1, c1) <= At(r2, c2) <=> c1 <= c2)
<1>1. Width \in Nat
  BY Limits
<1>2. r1 * Width \in Nat /\ r2 * Width \in Nat
  BY <1>1
<1>3. r1 < r2 => r1 * Width + Width <= r2 * Width
  <2>1. ASSUME r1 < r2 PROVE (r1 + 1) * Width <= r2 * Width
    <3>1. PICK d \in Nat : r2 = (r1 + 1) + d
      <4>1. r2 - (r1 + 1) \in Nat /\ r2 = (r1 + 1) + (r2 - (r1 + 1))
        BY <2>1
      <4> QED
        BY <4>1
    <3>2. r2 * Width = (r1 + 1) * Width + d * Width /\ d * Width \in Nat
      BY <1>1, <3>1
    <3>3. (r1 + 1) * Width \in Nat
      BY <1>1
    <3> QED
      BY <3>2, <3>3
  <2>2. (r1 + 1) * Width = r1 * Width + Width
    BY <1>1
  <2> QED
    BY <2>1, <2>2
<1> QED
  BY <1>1, <1>2, <1>3 DEF At

LEMMA AtInside ==
    ASSUME NEW row \in 0..MAX_Y_SEG, NEW col \in 0..MAX_X
    PROVE  At(row, col) \in Positions
<1>1. At(row, col) \in Nat /\ At(row, col) <= At(Rows - 1, Width - 1)
  BY Limits, AtOrder
<1>2. At(Rows - 1, Width - 1) = Size - 1
  <2>1. Width \in Int /\ Rows \in Int
    BY Limits
  <2>2. (Rows - 1) * Width = Width * Rows - Width /\ Width * Rows \in Int
    BY <2>1
  <2> QED
    BY <2>1, <2>2 DEF At, Size
<1>3. Size \in Nat
  BY Limits DEF Size
<1> QED
  BY <1>1, <1>2, <1>3 DEF Positions

LEMMA SizeBound == Size \in 1..7905
<1>1. Width * Rows <= 255 * Rows /\ Width * Rows >= Rows
  BY Limits
<1> QED
  BY <1>1, Limits DEF Size

LEMMA PositionBound ==
    ASSUME NEW pos \in Positions
    PROVE  pos \in Nat /\ pos < Size /\ pos <= 7904
BY SizeBound DEF Positions

(* Sixteen bits are enough for the number of segments. *)
LEMMA Wide ==
    ASSUME NEW len \in Nat, len <= 8160
    PROVE  len % 65536 = len
OBVIOUS

LEMMA Division ==
    ASSUME NEW a \in Nat, NEW w \in Nat, w > 0
    PROVE  /\ a \div w \in Nat
           /\ a % w \in 0..(w - 1)
           /\ a = w * (a \div w) + (a % w)
<1>1. a \div w \in Nat
  OBVIOUS
<1>2. a % w \in 0..(w - 1)
  OBVIOUS
<1>3. a = w * (a \div w) + (a % w)
  OBVIOUS
<1> QED
  BY <1>1, <1>2, <1>3

(* The column is the remainder. *)
LEMMA AtMod ==
    ASSUME NEW row \in Nat, NEW col \in 0..(Width - 1)
    PROVE  At(row, col) % Width = col
<1> DEFINE q == At(row, col) \div Width
           m == At(row, col) % Width
<1>1. At(row, col) \in Nat /\ Width \in Nat /\ Width > 0
  BY Limits, AtOrder
<1>2. q \in Nat /\ m \in 0..(Width - 1) /\ At(row, col) = Width * q + m
  BY <1>1, Division
<1>3. Width * q = q * Width
  BY <1>1, <1>2
<1>4. At(row, col) = At(q, m)
  <2> HIDE DEF q, m
  <2>1. At(q, m) = q * Width + m
    BY DEF At
  <2> QED
    BY <1>2, <1>3, <2>1
<1> HIDE DEF q, m
<1>5. row = q
  BY <1>2, <1>4, AtOrder
<1>6. m = col
  BY <1>2, <1>4, <1>5, AtOrder
<1> QED
  BY <1>6 DEF m

-----------------------------------------------------------------------------
(* Drawing *)

RectOK == /\ x1 \in 0..MAX_X /\ x2 \in 0..MAX_X
          /\ y1 \in 0..MAX_Y_SEG /\ y2 \in 0..MAX_Y_SEG

(* A larger rectangle has the segments of a smaller one. *)
LEMMA RectangleGrows ==
    ASSUME NEW l1 \in Int, NEW t1 \in Int, NEW r1 \in Int, NEW b1 \in Int,
           NEW l2 \in Int, NEW t2 \in Int, NEW r2 \in Int, NEW b2 \in Int,
           l2 <= l1, t2 <= t1, r1 <= r2, b1 <= b2
    PROVE  Rectangle(l1, t1, r1, b1) \subseteq Rectangle(l2, t2, r2, b2)
<1>1. t1..b1 \subseteq t2..b2 /\ l1..r1 \subseteq l2..r2
  OBVIOUS
<1> QED
  BY <1>1 DEF Rectangle

(* updateDirtyArea refuses the corner and changes nothing, or encloses     *)
(* both what was dirty and what is drawn.                                  *)
LEMMA UpdateStep ==
    ASSUME RectOK, AreaInv, isDirty \in BOOLEAN, error \in BOOLEAN,
           NEW left \in 0..MAX_X, NEW top \in 0..MAX_Y_SEG, NEW right \in Nat, NEW bottom \in Nat,
           left <= right + 1, top <= bottom + 1,
           UpdateDirtyArea(left, top, right, bottom)
    PROVE  /\ RectOK' /\ AreaInv' /\ isDirty' \in BOOLEAN /\ error' \in BOOLEAN
           /\ isDirty => isDirty' /\ DirtyArea \subseteq DirtyArea'
           /\ Refused(right, bottom) => UNCHANGED <<area, isDirty>>
           /\ ~Refused(right, bottom) =>
                 /\ isDirty' /\ UNCHANGED error
                 /\ Rectangle(left, top, right, bottom) \subseteq DirtyArea'
<1> USE DEF RectOK, AreaInv
<1>1. CASE Refused(right, bottom)
  BY <1>1 DEF UpdateDirtyArea, area, DirtyArea, Rectangle
<1>2. CASE ~Refused(right, bottom)
  <2>1. /\ x1' = IF isDirty THEN Least(x1, left) ELSE left
        /\ y1' = IF isDirty THEN Least(y1, top) ELSE top
        /\ x2' = IF isDirty THEN Greatest(x2, right) ELSE right
        /\ y2' = IF isDirty THEN Greatest(y2, bottom) ELSE bottom
        /\ isDirty' = TRUE
        /\ UNCHANGED error
    BY <1>2 DEF UpdateDirtyArea
  <2>2. right <= MAX_X /\ bottom <= MAX_Y_SEG /\ MAX_X \in Nat /\ MAX_Y_SEG \in Nat
    BY <1>2, Limits DEF Refused
  <2>3. /\ RectOK' /\ AreaInv'
        /\ x1' <= left /\ y1' <= top /\ right <= x2' /\ bottom <= y2'
        /\ isDirty => x1' <= x1 /\ y1' <= y1 /\ x2 <= x2' /\ y2 <= y2'
    <3>1. CASE isDirty
      BY <2>1, <2>2, <3>1 DEF Least, Greatest
    <3>2. CASE ~isDirty
      BY <2>1, <2>2, <3>2
    <3> QED
      BY <3>1, <3>2
  <2>4. /\ Rectangle(left, top, right, bottom) \subseteq DirtyArea'
        /\ isDirty => DirtyArea \subseteq DirtyArea'
    BY <2>3, RectangleGrows DEF DirtyArea
  <2> QED
    BY <1>2, <2>1, <2>3, <2>4
<1> QED
  BY <1>1, <1>2

(* Drawing keeps the invariants if the segments that are drawn lie in the  *)
(* rectangle handed to updateDirtyArea, and there are none if it refuses.  *)
LEMMA DrawStep ==
    ASSUME TypeOK, DirtyCovers, CopyInv, ~isLocked,
           NEW left \in 0..MAX_X, NEW top \in 0..MAX_Y_SEG, NEW right \in Nat, NEW bottom \in Nat,
           left <= right + 1, top <= bottom + 1,
           UpdateDirtyArea(left, top, right, bottom),
           NEW segments \in SUBSET Positions,
           ~Refused(right, bottom) => segments \subseteq Rectangle(left, top, right, bottom),
           Refused(right, bottom) => segments = {},
           changed' = changed \cup segments,
           UNCHANGED <<dataPos, isLocked, copied>>
    PROVE  TypeOK' /\ DirtyCovers' /\ CopyInv' /\ (error' # error => changed' = changed)
<1>0. /\ RectOK /\ AreaInv /\ isDirty \in BOOLEAN /\ error \in BOOLEAN /\ isLocked \in BOOLEAN
      /\ dataPos = POS_UNDEFINED
  BY DEF TypeOK, RectOK, CopyInv
<1>1. /\ RectOK' /\ AreaInv' /\ isDirty' \in BOOLEAN /\ error' \in BOOLEAN
      /\ isDirty => isDirty' /\ DirtyArea \subseteq DirtyArea'
      /\ Refused(right, bottom) => UNCHANGED <<area, isDirty>>
      /\ ~Refused(right, bottom) =>
            /\ isDirty' /\ UNCHANGED error
            /\ Rectangle(left, top, right, bottom) \subseteq DirtyArea'
  BY <1>0, UpdateStep
<1>2. TypeOK'
  BY <1>0, <1>1 DEF TypeOK, RectOK
<1>3. CopyInv'
  BY <1>0, <1>1 DEF CopyInv
<1>4. CASE Refused(right, bottom)
  <2>1. changed' = changed /\ DirtyArea' = DirtyArea /\ isDirty' = isDirty
    BY <1>1, <1>4 DEF area, DirtyArea, Rectangle
  <2> QED
    BY <1>2, <1>3, <2>1 DEF DirtyCovers
<1>5. CASE ~Refused(right, bottom)
  <2>1. changed \subseteq DirtyArea'
    BY <1>1 DEF DirtyCovers
  <2> QED
    BY <1>1, <1>2, <1>3, <1>5, <2>1 DEF DirtyCovers
<1> QED
  BY <1>4, <1>5

LEMMA SetPixelStep ==
    ASSUME TypeOK, DirtyCovers, CopyInv,
           NEW xPos \in 0..MAX_X, NEW yPos \in 0..MAX_Y, SetPixel(xPos, yPos)
    PROVE  TypeOK' /\ DirtyCovers' /\ CopyInv' /\ (error' # error => changed' = changed)
<1> DEFINE row == yPos \div 8
<1>1. row \in 0..MAX_Y_SEG
  BY Limits
<1>2. SegmentOf(xPos, yPos) \in Rectangle(xPos, row, xPos, row)
  BY <1>1 DEF SegmentOf, Rectangle
<1>3. SegmentOf(xPos, yPos) \in Positions
  BY <1>1, AtInside DEF SegmentOf, At
<1>4. ~Refused(xPos, row)
  BY <1>1, Limits DEF Refused
<1>5. /\ ~isLocked /\ changed' = changed \cup {SegmentOf(xPos, yPos)}
      /\ UpdateDirtyArea(xPos, row, xPos, row) /\ UNCHANGED <<dataPos, isLocked, copied>>
  BY DEF SetPixel
<1> HIDE DEF row
<1>6. xPos \in Nat /\ row \in Nat /\ xPos <= xPos + 1 /\ row <= row + 1
  BY <1>1
<1> DEFINE segments == {SegmentOf(xPos, yPos)}
<1>7. /\ segments \in SUBSET Positions /\ segments \subseteq Rectangle(xPos, row, xPos, row)
      /\ changed' = changed \cup segments
  BY <1>2, <1>3, <1>5
<1> HIDE DEF segments
<1> QED
  BY <1>1, <1>4, <1>5, <1>6, <1>7, DrawStep

CornerOK(x, y, width, height) ==
    /\ x \in 0..MAX_X /\ (y \div 8) \in 0..MAX_Y_SEG
    /\ LastBlitColumn(x, width) \in (x - 1)..MAX_X
    /\ LastBlitRow(y, height) \in ((y \div 8) - 1)..MAX_Y_SEG

(* A blit that is not outside begins in the framebuffer, and its last      *)
(* column and row are in it too, or just before its first.                 *)
LEMMA BlitCorner ==
    ASSUME NEW x \in -128..127, NEW y \in -128..127, NEW width \in 0..255, NEW height \in 0..255,
           ~Outside(x, y)
    PROVE  CornerOK(x, y, width, height)
<1>1. x \in 0..MAX_X /\ y \in 0..MAX_Y
  BY Limits DEF Outside, AsUnsigned
<1>2. (y \div 8) \in 0..MAX_Y_SEG
  BY <1>1, Limits
<1>3. LastBlitColumn(x, width) \in (x - 1)..MAX_X
  BY <1>1, Limits DEF LastBlitColumn, VisibleColumns
<1>4. LastBlitRow(y, height) \in ((y \div 8) - 1)..MAX_Y_SEG
  BY <1>1, <1>2, Limits DEF LastBlitRow, VisibleRows
<1> QED
  BY <1>1, <1>2, <1>3, <1>4 DEF CornerOK

LEMMA BlitStep ==
    ASSUME TypeOK, DirtyCovers, CopyInv,
           NEW x \in -128..127, NEW y \in -128..127, NEW width \in 0..255, NEW height \in 0..255,
           Blit(x, y, width, height)
    PROVE  TypeOK' /\ DirtyCovers' /\ CopyInv' /\ (error' # error => changed' = changed)
<1> DEFINE top    == y \div 8
           col    == LastBlitColumn(x, width)
           row    == LastBlitRow(y, height)
           right  == col % 256
           bottom == row % 256
           segments == BlitArea(x, y, width, height)
<1>1. /\ ~isLocked /\ ~Outside(x, y) /\ changed' = changed \cup segments
      /\ UpdateDirtyArea(x, top, right, bottom) /\ UNCHANGED <<dataPos, isLocked, copied>>
  BY DEF Blit
<1>2. x \in 0..MAX_X /\ top \in 0..MAX_Y_SEG /\ col \in (x - 1)..MAX_X /\ row \in (top - 1)..MAX_Y_SEG
  <2>1. CornerOK(x, y, width, height)
    BY <1>1, BlitCorner, Zenon
  <2> QED
    BY <2>1, Zenon DEF CornerOK
<1>3. segments = Rectangle(x, top, col, row)
  BY DEF BlitArea
<1> HIDE DEF top, col, row, segments
<1>4. /\ col >= 0 => right = col
      /\ col < 0 => right = 255
      /\ row >= 0 => bottom = row
      /\ row < 0 => bottom = 255
  BY <1>2, Limits
<1> HIDE DEF right, bottom
<1>5. /\ right \in Nat /\ bottom \in Nat /\ x <= right + 1 /\ top <= bottom + 1
  BY <1>2, <1>4, Limits
<1>6. segments \in SUBSET Positions
  <2>1. \A r \in top..row, c \in x..col : At(r, c) \in Positions
    BY <1>2, AtInside, Limits
  <2> QED
    BY <1>3, <2>1, RectangleAt
<1>7. ~Refused(right, bottom) => segments \subseteq Rectangle(x, top, right, bottom)
  <2>1. ~Refused(right, bottom) => right = col /\ bottom = row
    BY <1>2, <1>4, Limits DEF Refused
  <2> QED
    BY <1>3, <2>1
<1>8. Refused(right, bottom) => segments = {}
  <2>1. Refused(right, bottom) => col < x \/ row < top
    BY <1>2, <1>4, Limits DEF Refused
  <2>2. col < x \/ row < top => segments = {}
    <3>1. CASE col < x
      <4>1. x..col = {}
        BY <1>2, <3>1, Limits
      <4> QED
        BY <1>3, <4>1, RectangleAt
    <3>2. CASE row < top
      <4>1. top..row = {}
        BY <1>2, <3>2, Limits
      <4> QED
        BY <1>3, <4>1, RectangleAt
    <3> QED
      BY <3>1, <3>2
  <2> QED
    BY <2>1, <2>2
<1>9. x \in 0..MAX_X /\ top \in 0..MAX_Y_SEG
  BY <1>2
<1> QED
  BY <1>1, <1>5, <1>6, <1>7, <1>8, <1>9, DrawStep, Zenon

-----------------------------------------------------------------------------
(* Handing over by pointer *)

LEMMA FirstLast ==
    ASSUME RectOK
    PROVE  /\ FirstSegment = At(y1, 0) /\ LastSegment = At(y2, x2)
           /\ FirstSegment \in Positions /\ LastSegment \in Positions
<1>1. FirstSegment = At(y1, 0)
  BY Limits DEF FirstSegment, At, RectOK
<1>2. LastSegment = At(y2, x2)
  BY DEF LastSegment, At
<1> QED
  BY <1>1, <1>2, AtInside, Limits DEF RectOK

(* The buffer handed over reaches from the beginning of the first dirty    *)
(* row to the last segment, and no further: the rows must not be crossed,  *)
(* the columns may be.                                                     *)
LEMMA BufferInside ==
    ASSUME RectOK, y1 <= y2
    PROVE  /\ FirstSegment \in Nat /\ LastSegment \in Nat /\ LastSegment < Size
           /\ FirstSegment <= LastSegment
           /\ DirtyBufferLen = LastSegment - FirstSegment + 1
           /\ DirtyBuffer = FirstSegment..LastSegment /\ DirtyBuffer \subseteq Positions
<1>1. x2 \in 0..(Width - 1) /\ y1 \in Nat /\ y2 \in Nat
  BY Limits DEF RectOK
<1>2. At(y1, 0) <= At(y2, x2)
  <2>1. At(y1, 0) \in Nat /\ At(y2, x2) \in Nat
    BY <1>1, AtOrder, Limits
  <2>2. CASE y1 < y2
    BY <1>1, <2>1, <2>2, AtOrder, Limits
  <2>3. CASE y1 = y2
    BY <1>1, <2>3, AtOrder, Limits
  <2> QED
    BY <1>1, <2>2, <2>3
<1>3. /\ FirstSegment \in Nat /\ FirstSegment <= 7904
      /\ LastSegment \in Nat /\ LastSegment <= 7904 /\ LastSegment < Size
      /\ FirstSegment <= LastSegment
  <2>1. FirstSegment \in Positions /\ LastSegment \in Positions /\ FirstSegment <= LastSegment
    BY <1>2, FirstLast
  <2> QED
    BY <2>1, PositionBound
<1>4. DirtyBufferLen = LastSegment - FirstSegment + 1
  <2>1. LastSegment - FirstSegment + 1 \in Nat /\ LastSegment - FirstSegment + 1 <= 7905
    BY <1>3
  <2> QED
    BY <2>1, Wide DEF DirtyBufferLen
<1>5. DirtyBuffer = FirstSegment..LastSegment
  BY <1>3, <1>4 DEF DirtyBuffer
<1>6. DirtyBuffer \subseteq Positions
  BY <1>3, <1>5, SizeBound DEF Positions
<1> QED
  BY <1>3, <1>4, <1>5, <1>6

(* The buffer of a proper rectangle contains every segment of it.          *)
LEMMA BufferCovers ==
    ASSUME RectOK, Proper
    PROVE  DirtyArea \subseteq DirtyBuffer /\ DirtyBuffer \subseteq Positions
<1>1. /\ x1 \in 0..(Width - 1) /\ x2 \in 0..(Width - 1) /\ y1 \in Nat /\ y2 \in Nat
      /\ x1 <= x2 /\ y1 <= y2
  BY Limits DEF RectOK, Proper
<1>3. /\ FirstSegment \in Nat /\ LastSegment \in Nat
      /\ DirtyBuffer = FirstSegment..LastSegment /\ DirtyBuffer \subseteq Positions
  BY <1>1, BufferInside
<1>6. ASSUME NEW r \in y1..y2, NEW c \in x1..x2
      PROVE  At(r, c) \in FirstSegment..LastSegment
  <2>1. r \in Nat /\ c \in 0..(Width - 1) /\ y1 <= r /\ r <= y2 /\ 0 <= c /\ c <= x2
    BY <1>1, Limits
  <2>2. At(r, c) \in Nat /\ At(y1, 0) <= At(r, c)
    BY <1>1, <2>1, AtOrder, Limits
  <2>3. At(r, c) <= At(y2, x2)
    BY <1>1, <2>1, AtOrder
  <2> QED
    BY <1>3, <2>2, <2>3, FirstLast
<1>7. DirtyArea = {At(r, c) : r \in y1..y2, c \in x1..x2}
  BY RectangleAt DEF DirtyArea
<1>8. DirtyArea \subseteq DirtyBuffer
  BY <1>3, <1>6, <1>7
<1> QED
  BY <1>3, <1>8

(* A rectangle with crossed corners has no segments. *)
LEMMA ImproperEmpty ==
    ASSUME RectOK, ~Proper
    PROVE  DirtyArea = {}
<1>1. x1..x2 = {} \/ y1..y2 = {}
  BY Limits DEF RectOK, Proper
<1>2. DirtyArea = {At(r, c) : r \in y1..y2, c \in x1..x2}
  BY RectangleAt DEF DirtyArea
<1>3. CASE x1..x2 = {}
  BY <1>2, <1>3
<1>4. CASE y1..y2 = {}
  BY <1>2, <1>4
<1> QED
  BY <1>1, <1>3, <1>4

(* The buffer handed over contains the dirty rectangle, and leaves the     *)
(* framebuffer only when the rows of the rectangle are crossed: then it    *)
(* has no segments, so nothing can have been drawn.                        *)
LEMMA BufferHandedOver ==
    ASSUME RectOK, DirtyCovers
    PROVE  /\ DirtyArea \subseteq DirtyBuffer
           /\ DirtyBuffer \subseteq Positions \/ (y1 > y2 /\ changed = {})
<1>1. CASE Proper
  BY <1>1, BufferCovers
<1>2. CASE ~Proper
  <2>1. DirtyArea = {} /\ changed = {}
    BY <1>2, ImproperEmpty DEF DirtyCovers
  <2>2. CASE y1 <= y2
    BY <2>1, <2>2, BufferInside
  <2>3. CASE ~(y1 <= y2)
    <3>1. y1 > y2
      BY <2>3, Limits DEF RectOK
    <3> QED
      BY <2>1, <3>1
  <2> QED
    BY <2>2, <2>3
<1> QED
  BY <1>1, <1>2

(* Rows are crossed by one, so the number of segments is then between      *)
(* 1 - Width and 0 - and wraps unless it is 0.                             *)
LEMMA CrossedLength ==
    ASSUME RectOK, AreaInv, y1 > y2
    PROVE  DirtyBufferLen = 0 \/ DirtyBufferLen > 65536 - Width
<1>1. y1 = y2 + 1 /\ y2 \in Nat /\ x2 \in 0..(Width - 1) /\ Width \in 1..255
  BY Limits DEF RectOK, AreaInv
<1>2. y1 * Width = y2 * Width + Width
  BY <1>1
<1> DEFINE over == y2 * Width
<1>3. over \in Nat
  BY <1>1
<1> HIDE DEF over
<1>4. LastSegment - FirstSegment + 1 = x2 + 1 - Width
  <2>1. LastSegment = over + x2 /\ FirstSegment = over + Width
    BY <1>2 DEF LastSegment, FirstSegment, over
  <2> QED
    BY <1>1, <1>3, <2>1
<1>5. CASE x2 + 1 = Width
  BY <1>1, <1>4, <1>5 DEF DirtyBufferLen
<1>6. CASE x2 + 1 < Width
  <2>1. (x2 + 1 - Width) % 65536 = 65536 + x2 + 1 - Width
    BY <1>1, <1>6
  <2> QED
    BY <1>1, <1>4, <2>1 DEF DirtyBufferLen
<1> QED
  BY <1>1, <1>5, <1>6

LEMMA PointerStep ==
    ASSUME TypeOK, DirtyCovers, CopyInv, GetDirtyAreaBuffer
    PROVE  TypeOK' /\ DirtyCovers' /\ CopyInv' /\ error' = error
<1>0. /\ RectOK /\ isDirty \in BOOLEAN /\ dataPos = POS_UNDEFINED
      /\ isDirty' = FALSE /\ changed' = changed \ DirtyBuffer
      /\ UNCHANGED <<x1, y1, x2, y2, dataPos, error, isLocked, copied>>
  BY DEF TypeOK, RectOK, GetDirtyAreaBuffer, area
<1>1. changed \subseteq DirtyBuffer
  <2>1. CASE Proper
    BY <1>0, <2>1, BufferCovers DEF DirtyCovers
  <2>2. CASE ~Proper
    BY <1>0, <2>2, ImproperEmpty DEF DirtyCovers
  <2> QED
    BY <2>1, <2>2
<1>2. changed' = {}
  BY <1>0, <1>1
<1>3. TypeOK'
  BY <1>0, <1>2 DEF TypeOK, RectOK
<1>4. DirtyCovers'
  BY <1>2 DEF DirtyCovers
<1>5. CopyInv'
  BY <1>0 DEF CopyInv, AreaInv
<1> QED
  BY <1>0, <1>3, <1>4, <1>5

-----------------------------------------------------------------------------
(* Copying.  Induction on a number takes the least counterexample.         *)

LEMMA LeastElement ==
    ASSUME NEW S \in SUBSET Nat, NEW s \in S
    PROVE  \E m \in S : \A j \in S : m <= j
<1> DEFINE R == OpToRel(<, Nat)
<1>1. IsWellFoundedOn(R, Nat)
  BY NatLessThanWellFounded, Zenon
<1>2. \A i, j \in Nat : i < j => <<i, j>> \in R
  BY DEF OpToRel
<1> HIDE DEF R
<1>3. PICK m \in S : \A j \in S : ~ (<<j, m>> \in R)
  BY <1>1, WFMin
<1>4. ASSUME NEW j \in S PROVE m <= j
  <2>1. j \in Nat /\ m \in Nat
    OBVIOUS
  <2>2. ~ (j < m)
    BY <1>2, <1>3, <2>1
  <2> QED
    BY <2>1, <2>2
<1> QED
  BY <1>4

(* Path(n) is the function its recursive definition asks for. *)
LEMMA PathDefined ==
    ASSUME NEW n \in Nat
    PROVE  Path(n) = [k \in 0..n |-> IF k = 0 THEN CopyStart ELSE NextSegment(Path(n)[k - 1])]
<1> DEFINE IsPath(f, m) == f = [k \in 0..m |-> IF k = 0 THEN CopyStart ELSE NextSegment(f[k - 1])]
           None == {m \in Nat : ~ \E f : IsPath(f, m)}
<1>1. None = {}
  <2> SUFFICES ASSUME NEW s \in None PROVE FALSE
    OBVIOUS
  <2>0. None \in SUBSET Nat
    OBVIOUS
  <2>1. PICK m \in None : \A j \in None : m <= j
    <3> HIDE DEF None
    <3> QED
      BY <2>0, LeastElement
  <2>2. m \in Nat /\ ~ \E f : IsPath(f, m)
    BY <2>1
  <2>3. CASE m = 0
    <3> DEFINE f == [k \in 0..0 |-> CopyStart]
    <3>1. f = [k \in 0..0 |-> IF k = 0 THEN CopyStart ELSE NextSegment(f[k - 1])]
      OBVIOUS
    <3> QED
      BY <2>2, <2>3, <3>1
  <2>4. CASE m # 0
    <3>1. m - 1 \in Nat /\ m - 1 \notin None
      <4> HIDE DEF None
      <4> QED
        BY <2>0, <2>1, <2>2, <2>4
    <3>2. PICK g : IsPath(g, m - 1)
      BY <3>1
    <3> DEFINE f == [k \in 0..m |-> IF k = m THEN NextSegment(g[m - 1]) ELSE g[k]]
    <3>3. ASSUME NEW k \in 0..m
          PROVE  f[k] = IF k = 0 THEN CopyStart ELSE NextSegment(f[k - 1])
      <4>1. \A j \in 0..(m - 1) : g[j] = IF j = 0 THEN CopyStart ELSE NextSegment(g[j - 1])
        BY <3>2
      <4>2. \A j \in 0..(m - 1) : f[j] = g[j]
        BY <2>2
      <4>3. f[m] = NextSegment(g[m - 1])
        BY <2>2
      <4> HIDE DEF f
      <4>4. CASE k = m
        <5>1. m - 1 \in 0..(m - 1)
          BY <3>1
        <5> QED
          BY <2>4, <4>2, <4>3, <4>4, <5>1
      <4>5. CASE k # m
        <5>1. k \in 0..(m - 1) /\ (k # 0 => k - 1 \in 0..(m - 1))
          BY <2>2, <4>5
        <5> QED
          BY <4>1, <4>2, <5>1
      <4> QED
        BY <4>4, <4>5
    <3>4. f = [k \in 0..m |-> f[k]]
      OBVIOUS
    <3> HIDE DEF f
    <3>5. IsPath(f, m)
      BY <3>3, <3>4
    <3> QED
      BY <2>2, <3>5
  <2> QED
    BY <2>3, <2>4
<1>2. PICK f : IsPath(f, n)
  BY <1>1
<1>3. Path(n) = CHOOSE f_1 : IsPath(f_1, n)
  BY DEF Path
<1>4. IsPath(Path(n), n)
  BY <1>2, <1>3
<1> QED
  BY <1>4

(* The next segment lies behind the last one.                              *)
LEMMA RowLengthValue ==
    ASSUME RectOK, AreaInv
    PROVE  RowLength = x2 - x1 + 1 /\ RowLength \in 0..Width
<1>1. x2 - x1 + 1 \in 0..Width
  BY Limits DEF RectOK, AreaInv
<1>2. x2 - x1 + 1 \in 0..255
  BY <1>1, Limits
<1> QED
  BY <1>1, <1>2 DEF RowLength

LEMMA NextBehind ==
    ASSUME RectOK, AreaInv, NEW pos \in Positions
    PROVE  /\ NextSegment(pos) \in Nat /\ NextSegment(pos) > pos
           /\ NextSegment(pos) = IF pos % Width = x2 THEN pos + (Width - (x2 - x1 + 1)) + 1
                                 ELSE pos + 1
<1> DEFINE jump == pos + (Width - RowLength) + 1
<1>1. pos \in Nat /\ pos <= 7904
  BY PositionBound
<1>2. jump \in Nat /\ jump <= 8160 /\ jump > pos
  BY <1>1, RowLengthValue, Limits
<1>3. pos + 1 \in Nat /\ pos + 1 <= 8160
  BY <1>1
<1>4. jump % 65536 = jump /\ (pos + 1) % 65536 = pos + 1
  BY <1>2, <1>3, Wide
<1>5. NextSegment(pos) = IF pos % Width = x2 THEN jump ELSE pos + 1
  BY <1>4 DEF NextSegment
<1> QED
  BY <1>1, <1>2, <1>5, RowLengthValue

LEMMA AtNext ==
    ASSUME NEW r \in Nat, NEW c \in Nat, NEW c1 \in Nat
    PROVE  /\ At(r, c + 1) = At(r, c) + 1
           /\ At(r + 1, c1) = At(r, c) + Width - c + c1
<1>1. Width \in Nat /\ r * Width \in Nat /\ (r + 1) * Width = r * Width + Width
  BY Limits
<1> QED
  BY <1>1 DEF At

(* Within the rectangle the copy goes from each dirty segment to the next. *)
LEMMA NextInArea ==
    ASSUME RectOK, AreaInv, Proper, NEW pos \in DirtyArea
    PROVE  /\ \A s \in DirtyArea : pos < s => NextSegment(pos) <= s
           /\ NextSegment(pos) <= LastSegment => NextSegment(pos) \in DirtyArea
<1>0. /\ x1 \in 0..(Width - 1) /\ x2 \in 0..(Width - 1) /\ y1 \in 0..(Rows - 1)
      /\ y2 \in 0..(Rows - 1) /\ x1 <= x2 /\ y1 <= y2 /\ Width \in Nat /\ Rows \in Nat
  BY Limits DEF RectOK, Proper
<1>1. DirtyArea = {At(row, col) : row \in y1..y2, col \in x1..x2}
  BY RectangleAt DEF DirtyArea
<1>2. PICK r \in y1..y2, c \in x1..x2 : pos = At(r, c)
  BY <1>1
<1>3. r \in 0..(Rows - 1) /\ c \in 0..(Width - 1) /\ r <= y2 /\ x1 <= c /\ c <= x2 /\ y1 <= r
  BY <1>0
<1>4. pos \in Positions /\ pos % Width = c /\ pos \in Nat
  BY <1>2, <1>3, AtInside, AtMod, Limits, PositionBound
<1>5. ASSUME NEW s \in DirtyArea, pos < s
      PROVE  \E r2 \in y1..y2, c2 \in x1..x2 :
                 s = At(r2, c2) /\ (r < r2 \/ (r = r2 /\ c < c2))
  <2>1. PICK r2 \in y1..y2, c2 \in x1..x2 : s = At(r2, c2)
    BY <1>1
  <2>2. r2 \in Nat /\ c2 \in 0..(Width - 1)
    BY <1>0
  <2>3. ~ (r2 < r)
    <3>1. r2 < r => s < pos
      BY <1>2, <1>3, <2>1, <2>2, AtOrder
    <3>2. s \in Nat
      BY <2>1, <2>2, AtOrder
    <3> QED
      BY <1>4, <1>5, <3>1, <3>2
  <2>4. ~ (r2 = r /\ c2 <= c)
    <3>1. r2 = r /\ c2 <= c => s <= pos
      BY <1>2, <1>3, <2>1, <2>2, AtOrder
    <3>2. s \in Nat
      BY <2>1, <2>2, AtOrder
    <3> QED
      BY <1>4, <1>5, <3>1, <3>2
  <2>5. r < r2 \/ (r = r2 /\ c < c2)
    <3>1. CASE r2 = r
      <4>1. c < c2
        BY <1>3, <2>2, <2>4, <3>1
      <4> QED
        BY <3>1, <4>1
    <3>2. CASE r2 # r
      <4>1. r < r2
        BY <1>3, <2>2, <2>3, <3>2
      <4> QED
        BY <4>1
    <3> QED
      BY <3>1, <3>2
  <2> QED
    BY <2>1, <2>5
<1>6. CASE c = x2
  <2>1. NextSegment(pos) = At(r + 1, x1)
    <3>1. NextSegment(pos) = pos + (Width - (x2 - x1 + 1)) + 1
      BY <1>4, <1>6, NextBehind
    <3>2. At(r + 1, x1) = pos + Width - x2 + x1
      BY <1>0, <1>2, <1>3, <1>6, AtNext
    <3> QED
      BY <1>0, <1>4, <3>1, <3>2
  <2>2. ASSUME NEW s \in DirtyArea, pos < s PROVE At(r + 1, x1) <= s
    <3>1. PICK r2 \in y1..y2, c2 \in x1..x2 : s = At(r2, c2) /\ (r < r2 \/ (r = r2 /\ c < c2))
      BY <1>5, <2>2
    <3>2. r2 \in Nat /\ c2 \in 0..(Width - 1) /\ r + 1 \in Nat /\ x1 <= c2 /\ c2 <= x2
      BY <1>0, <1>3
    <3>3. r + 1 < r2 \/ r + 1 = r2
      BY <1>3, <1>6, <3>1, <3>2
    <3>4. At(r2, c2) \in Nat /\ At(r + 1, x1) \in Nat
      BY <1>0, <3>2, AtOrder
    <3>5. At(r + 1, x1) <= At(r2, c2)
      BY <1>0, <3>2, <3>3, <3>4, AtOrder
    <3> QED
      BY <3>1, <3>5
  <2>3. ASSUME At(r + 1, x1) <= LastSegment PROVE At(r + 1, x1) \in DirtyArea
    <3>1. LastSegment = At(y2, x2)
      BY FirstLast
    <3>2. ~ (y2 < r + 1)
      <4>1. y2 < r + 1 => At(y2, x2) < At(r + 1, x1)
        BY <1>0, <1>3, AtOrder
      <4>2. At(y2, x2) \in Nat /\ At(r + 1, x1) \in Nat
        BY <1>0, <1>3, AtOrder
      <4> QED
        BY <2>3, <3>1, <4>1, <4>2
    <3>3. r + 1 \in y1..y2 /\ x1 \in x1..x2
      BY <1>0, <1>3, <3>2
    <3> QED
      BY <1>1, <3>3
  <2> QED
    BY <2>1, <2>2, <2>3
<1>7. CASE c # x2
  <2>1. NextSegment(pos) = pos + 1 /\ pos + 1 = At(r, c + 1)
    BY <1>2, <1>3, <1>4, <1>7, NextBehind, AtNext
  <2>2. ASSUME NEW s \in DirtyArea, pos < s PROVE pos + 1 <= s
    <3>1. s \in Nat
      <4>1. PICK r2 \in y1..y2, c2 \in x1..x2 : s = At(r2, c2)
        BY <1>1
      <4>2. r2 \in Nat /\ c2 \in 0..(Width - 1)
        BY <1>0
      <4> QED
        BY <4>1, <4>2, AtOrder
    <3> QED
      BY <1>4, <2>2, <3>1
  <2>3. At(r, c + 1) \in DirtyArea
    <3>1. c + 1 \in x1..x2
      BY <1>0, <1>3, <1>7
    <3> QED
      BY <1>1, <3>1
  <2> QED
    BY <2>1, <2>2, <2>3
<1> QED
  BY <1>6, <1>7

(* The loop is left at the first position behind the last dirty segment.   *)
LEMMA TurnsFacts ==
    ASSUME NEW n \in Nat
    PROVE  /\ Turns(n) \in 0..n /\ (n # 0 => Turns(n) # 0)
           /\ \A k \in 1..(Turns(n) - 1) : ~ (Path(n)[k] > LastSegment)
<1> DEFINE over == {k \in 1..n : Path(n)[k] > LastSegment}
<1>1. CASE over = {}
  <2>1. Turns(n) = n
    BY <1>1 DEF Turns
  <2> QED
    BY <1>1, <2>1
<1>2. CASE over # {}
  <2>1. over \in SUBSET Nat
    OBVIOUS
  <2>2. \E k \in over : \A j \in over : k <= j
    <3> HIDE DEF over
    <3> QED
      BY <1>2, <2>1, LeastElement
  <2>3. Turns(n) = CHOOSE k \in over : \A j \in over : k <= j
    BY <1>2 DEF Turns
  <2>4. Turns(n) \in over /\ \A j \in over : Turns(n) <= j
    <3> HIDE DEF over
    <3> QED
      BY <2>2, <2>3
  <2>5. Turns(n) \in 1..n
    BY <2>4
  <2>6. ASSUME NEW k \in 1..(Turns(n) - 1) PROVE ~ (Path(n)[k] > LastSegment)
    <3>1. k \in 1..n /\ ~ (Turns(n) <= k)
      BY <2>5
    <3> QED
      BY <2>4, <3>1
  <2> QED
    BY <2>5, <2>6
<1> QED
  BY <1>1, <1>2

LEMMA PathSteps ==
    ASSUME NEW n \in Nat
    PROVE  /\ Path(n)[0] = CopyStart
           /\ \A k \in 1..n : Path(n)[k] = NextSegment(Path(n)[k - 1])
<1> DEFINE p == Path(n)
<1>1. p = [k \in 0..n |-> IF k = 0 THEN CopyStart ELSE NextSegment(p[k - 1])]
  BY PathDefined
<1> HIDE DEF p
<1>2. \A k \in 0..n : p[k] = IF k = 0 THEN CopyStart ELSE NextSegment(p[k - 1])
  BY <1>1
<1>3. p[0] = CopyStart
  BY <1>2
<1>4. \A k \in 1..n : p[k] = NextSegment(p[k - 1])
  BY <1>2
<1> QED
  BY <1>3, <1>4 DEF p

(* The copy moves forward, by a segment per turn at least, and stays in    *)
(* the dirty rectangle until it is behind its end.                         *)
Visited(n, k) ==
    /\ Path(n)[k] \in Nat /\ Path(n)[k] >= CopyStart + k
    /\ k < Turns(n) => Path(n)[k] \in Positions /\ (Proper => Path(n)[k] \in DirtyArea)

LEMMA PathVisited ==
    ASSUME RectOK, AreaInv, CopyStart \in Positions, Proper => CopyStart \in DirtyArea, NEW n \in Nat
    PROVE  \A k \in 0..Turns(n) : Visited(n, k)
<1> DEFINE Bad == {k \in 0..Turns(n) : ~Visited(n, k)}
<1>0. Turns(n) \in 0..n /\ Turns(n) \in Nat /\ CopyStart \in Nat
  BY TurnsFacts, PositionBound
<1>1. Bad \in SUBSET Nat
  BY <1>0
<1>2. ASSUME NEW s \in Bad PROVE FALSE
  <2>1. PICK m \in Bad : \A j \in Bad : m <= j
    <3> HIDE DEF Bad
    <3> QED
      BY <1>1, <1>2, LeastElement
  <2>2. m \in 0..Turns(n) /\ ~Visited(n, m) /\ m \in 0..n
    BY <1>0
  <2>3. CASE m = 0
    <3>1. Path(n)[m] = CopyStart
      BY <2>3, PathSteps
    <3> QED
      BY <1>0, <2>2, <2>3, <3>1 DEF Visited
  <2>4. CASE m # 0
    <3>1. m - 1 \in 0..Turns(n) /\ m - 1 < Turns(n) /\ m \in 1..n /\ ~ (m <= m - 1)
      BY <1>0, <2>2, <2>4
    <3>2. Visited(n, m - 1)
      <4>1. m - 1 \notin Bad
        BY <2>1, <3>1
      <4> QED
        BY <3>1, <4>1
    <3> DEFINE last == Path(n)[m - 1]
               next == Path(n)[m]
    <3>3. last \in Nat /\ last >= CopyStart + (m - 1) /\ last \in Positions /\ (Proper => last \in DirtyArea)
      BY <3>1, <3>2 DEF Visited
    <3>4. next = NextSegment(last)
      BY <3>1, PathSteps
    <3>5. m < Turns(n) => ~ (next > LastSegment)
      <4>1. m < Turns(n) => m \in 1..(Turns(n) - 1)
        BY <1>0, <3>1
      <4> QED
        BY <4>1, TurnsFacts
    <3> HIDE DEF last, next
    <3>6. next \in Nat /\ next > last
      BY <3>3, <3>4, NextBehind
    <3>7. next >= CopyStart + m
      BY <1>0, <3>1, <3>3, <3>6
    <3>8. LastSegment \in Nat /\ LastSegment < Size
      BY FirstLast, PositionBound
    <3>9. m < Turns(n) => next \in Positions
      BY <3>5, <3>6, <3>8, SizeBound DEF Positions
    <3>10. ASSUME m < Turns(n), Proper PROVE next \in DirtyArea
      <4>1. next <= LastSegment
        BY <3>5, <3>6, <3>8, <3>10
      <4> QED
        BY <3>3, <3>4, <3>10, <4>1, NextInArea
    <3> QED
      BY <2>2, <3>6, <3>7, <3>9, <3>10 DEF Visited, next
  <2> QED
    BY <2>3, <2>4
<1> QED
  BY <1>2

(* Whatever dirty segment the copy passes, it copies.                      *)
LEMMA NoneSkipped ==
    ASSUME RectOK, AreaInv, Proper, CopyStart \in DirtyArea, CopyStart \in Positions, NEW n \in Nat,
           NEW s \in DirtyArea, s \in Nat, CopyStart <= s, s < Path(n)[Turns(n)]
    PROVE  \E k \in 1..Turns(n) : s = Path(n)[k - 1]
<1> DEFINE Behind == {k \in 0..Turns(n) : s < Path(n)[k]}
<1>0. Turns(n) \in 0..n /\ Turns(n) \in Nat /\ CopyStart \in Nat
  BY TurnsFacts, PositionBound
<1>1. Behind \in SUBSET Nat /\ Turns(n) \in Behind
  BY <1>0
<1>2. PICK m \in Behind : \A j \in Behind : m <= j
  <2> HIDE DEF Behind
  <2> QED
    BY <1>1, LeastElement
<1>3. m \in 0..Turns(n) /\ s < Path(n)[m] /\ m \in 0..n
  BY <1>0
<1>4. m # 0
  BY <1>0, <1>3, PathSteps
<1>5. m - 1 \in 0..Turns(n) /\ m - 1 < Turns(n) /\ m \in 1..n /\ m \in 1..Turns(n) /\ ~ (m <= m - 1)
  BY <1>0, <1>3, <1>4
<1> DEFINE last == Path(n)[m - 1]
           next == Path(n)[m]
<1>6. ~ (s < last)
  <2>1. m - 1 \notin Behind
    BY <1>2, <1>5
  <2> QED
    BY <1>5, <2>1
<1>7. last \in DirtyArea /\ last \in Nat
  BY <1>5, PathVisited DEF Visited
<1>8. next = NextSegment(last) /\ s < next
  BY <1>3, <1>5, PathSteps
<1> HIDE DEF last, next
<1>9. next \in Nat
  BY <1>3, PathVisited DEF Visited, next
<1>10. ~ (last < s)
  BY <1>7, <1>8, <1>9, NextInArea
<1>11. s = last
  BY <1>6, <1>7, <1>10
<1> QED
  BY <1>5, <1>11 DEF last

(* Where a call of the copy begins: at the first dirty segment or where    *)
(* the last call stopped, in front of all that is left to hand over.       *)
LEMMA StartFacts ==
    ASSUME TypeOK, DirtyCovers, CopyInv, isDirty
    PROVE  /\ CopyStart \in Positions /\ (Proper => CopyStart \in DirtyArea)
           /\ copied \in Nat /\ copied <= CopyStart
           /\ \A s \in changed : s \in DirtyArea /\ s >= CopyStart
<1>0. /\ RectOK /\ AreaInv /\ changed \subseteq DirtyArea /\ copied \in Nat
      /\ dataPos \in Positions \cup {POS_UNDEFINED}
  BY DEF TypeOK, RectOK, CopyInv, DirtyCovers
<1>1. CASE dataPos = POS_UNDEFINED
  <2>1. /\ x1 \in 0..(Width - 1) /\ x2 \in 0..(Width - 1) /\ y1 \in 0..(Rows - 1)
        /\ y2 \in 0..(Rows - 1) /\ x1 \in Nat /\ y1 \in Nat
    BY <1>0, Limits DEF RectOK
  <2>2. CopyStart = At(y1, x1)
    <3>1. CopyStart = FirstSegment + x1 /\ FirstSegment = y1 * Width
      BY <1>1 DEF CopyStart, FirstSegment
    <3> QED
      BY <3>1 DEF At
  <2>3. CopyStart \in Positions
    BY <2>1, <2>2, AtInside, Limits
  <2>4. ASSUME Proper PROVE CopyStart \in DirtyArea
    <3>1. y1 \in y1..y2 /\ x1 \in x1..x2
      BY <2>1, <2>4 DEF Proper
    <3> QED
      BY <2>2, <3>1, RectangleAt DEF DirtyArea
  <2>5. ASSUME NEW s \in changed PROVE s >= CopyStart
    <3>1. PICK r \in y1..y2, c \in x1..x2 : s = At(r, c)
      BY <1>0, RectangleAt DEF DirtyArea
    <3>2. r \in Nat /\ c \in 0..(Width - 1) /\ y1 <= r /\ x1 <= c
      BY <2>1, <3>1, Limits
    <3>3. At(r, c) \in Nat /\ At(y1, x1) \in Nat
      BY <2>1, <3>2, AtOrder
    <3>4. At(y1, x1) <= At(r, c)
      BY <2>1, <3>2, <3>3, AtOrder
    <3> QED
      BY <2>2, <3>1, <3>4, <3>3
  <2>6. copied = 0
    BY <1>1 DEF CopyInv
  <2>7. copied <= CopyStart
    BY <2>3, <2>6, PositionBound
  <2> QED
    BY <1>0, <2>3, <2>4, <2>5, <2>7
<1>2. CASE dataPos # POS_UNDEFINED
  <2>1. CopyStart = dataPos
    BY <1>2 DEF CopyStart
  <2> QED
    BY <1>0, <1>2, <2>1 DEF CopyInv
<1> QED
  BY <1>1, <1>2

(* What a call hands over lies in the framebuffer.                         *)
LEMMA PieceInside ==
    ASSUME TypeOK, DirtyCovers, CopyInv, isDirty, NEW n \in Nat, NEW k \in 1..Turns(n)
    PROVE  Piece(n)[k] = Path(n)[k - 1] /\ Piece(n)[k] \in Positions
<1>1. RectOK /\ AreaInv
  BY DEF TypeOK, RectOK, CopyInv
<1>2. Turns(n) \in Nat
  BY TurnsFacts
<1>3. k - 1 \in 0..Turns(n) /\ k - 1 < Turns(n)
  BY <1>2
<1>4. Visited(n, k - 1)
  BY <1>1, <1>3, StartFacts, PathVisited
<1>5. Piece(n)[k] = Path(n)[k - 1]
  BY DEF Piece
<1> QED
  BY <1>3, <1>4, <1>5 DEF Visited

(* What a call leaves over lies at or behind the position it stops at, and *)
(* nothing is left over when that is behind the last dirty segment.        *)
LEMMA LeftOver ==
    ASSUME TypeOK, DirtyCovers, CopyInv, isDirty, NEW n \in Nat,
           NEW s \in changed \ {Piece(n)[k] : k \in 1..Turns(n)}
    PROVE  s \in Nat /\ ~ (s < Path(n)[Turns(n)]) /\ s <= LastSegment /\ Proper
<1>0. RectOK /\ AreaInv /\ s \in Positions
  BY DEF TypeOK, RectOK, CopyInv
<1>1. s \in DirtyArea /\ s >= CopyStart /\ CopyStart \in Positions
  BY StartFacts
<1>2. Proper
  BY <1>0, <1>1, ImproperEmpty
<1>3. s \in Nat /\ CopyStart \in Nat /\ CopyStart <= s /\ CopyStart \in DirtyArea
  BY <1>0, <1>1, <1>2, PositionBound, StartFacts
<1>4. ~ (s < Path(n)[Turns(n)])
  <2>1. ASSUME s < Path(n)[Turns(n)] PROVE FALSE
    <3>1. PICK k \in 1..Turns(n) : s = Path(n)[k - 1]
      BY <1>0, <1>1, <1>2, <1>3, <2>1, NoneSkipped
    <3>2. s = Piece(n)[k]
      BY <3>1, PieceInside
    <3> QED
      BY <3>2
  <2> QED
    BY <2>1
<1>5. s <= LastSegment
  <2>1. /\ x1 \in 0..(Width - 1) /\ x2 \in 0..(Width - 1) /\ y1 \in Nat /\ y2 \in Nat
    BY <1>0, Limits DEF RectOK
  <2>2. PICK r \in y1..y2, c \in x1..x2 : s = At(r, c)
    BY <1>1, RectangleAt DEF DirtyArea
  <2>3. r \in Nat /\ c \in 0..(Width - 1) /\ r <= y2 /\ c <= x2
    BY <2>1, <2>2, Limits
  <2>4. At(r, c) \in Nat /\ At(y2, x2) \in Nat
    BY <2>1, <2>3, AtOrder
  <2>5. At(r, c) <= At(y2, x2)
    BY <2>1, <2>3, <2>4, AtOrder
  <2> QED
    BY <1>0, <2>2, <2>5, FirstLast
<1> QED
  BY <1>2, <1>3, <1>4, <1>5

LEMMA UndefinedOutside == POS_UNDEFINED \notin Positions
BY PositionBound DEF POS_UNDEFINED

LEMMA CopyStep ==
    ASSUME TypeOK, DirtyCovers, CopyInv, NEW n \in Nat, CopyDirtyArea(n)
    PROVE  TypeOK' /\ DirtyCovers' /\ CopyInv' /\ error' = error
<1> DEFINE turns == Turns(n)
           next  == Path(n)[turns]
           done  == turns > 0 /\ next > LastSegment
           given == {Piece(n)[k] : k \in 1..turns}
<1>0. /\ isDirty /\ isLocked /\ changed' = changed \ given
      /\ error' = (error \/ \E k \in 1..turns : Piece(n)[k] > Size)
      /\ isDirty' = ~done /\ isLocked' = ~done
      /\ dataPos' = IF done THEN POS_UNDEFINED ELSE next
      /\ copied' = IF done THEN 0 ELSE copied + turns
      /\ UNCHANGED <<x1, y1, x2, y2>>
  BY DEF CopyDirtyArea, area
<1>1. RectOK /\ AreaInv /\ error \in BOOLEAN /\ changed \subseteq Positions
  BY DEF TypeOK, RectOK, CopyInv
<1>2. /\ CopyStart \in Nat /\ CopyStart \in Positions /\ copied \in Nat
      /\ copied <= CopyStart
  BY <1>0, StartFacts, PositionBound
<1>3. turns \in Nat /\ Visited(n, turns)
  <2>1. turns \in Nat
    BY TurnsFacts
  <2>2. turns \in 0..turns
    BY <2>1
  <2> QED
    BY <1>0, <1>1, <2>1, <2>2, StartFacts, PathVisited
<1>4. next \in Nat /\ next >= CopyStart + turns
  BY <1>3 DEF Visited
<1>5. turns = 0 => next = CopyStart
  BY PathSteps
<1>6. \A s \in changed' : s \in Nat /\ ~ (s < next) /\ s <= LastSegment /\ Proper
  BY <1>0, LeftOver
<1>7. error' = error
  <2>1. ASSUME NEW k \in 1..turns PROVE ~ (Piece(n)[k] > Size)
    <3>1. Piece(n)[k] \in Positions
      BY <1>0, PieceInside
    <3> QED
      BY <3>1, PositionBound, SizeBound
  <2>2. ~ \E k \in 1..turns : Piece(n)[k] > Size
    BY <2>1
  <2> QED
    BY <1>0, <1>1, <2>2
<1>8. LastSegment \in Nat /\ LastSegment < Size /\ Size \in Nat
  BY <1>1, FirstLast, PositionBound, SizeBound
<1>9. changed' \subseteq changed /\ changed' \subseteq DirtyArea /\ DirtyArea' = DirtyArea
  BY <1>0, StartFacts DEF DirtyArea, Rectangle
<1>10. RectOK' /\ AreaInv' /\ (Proper' <=> Proper)
  BY <1>0, <1>1 DEF RectOK, AreaInv, Proper
<1>11. ~done => next \in Positions /\ (Proper => next \in DirtyArea)
  <2>1. CASE turns = 0
    BY <1>0, <1>2, <1>5, <2>1, StartFacts
  <2>2. CASE turns # 0 /\ ~ (next > LastSegment)
    <3>1. next \in Positions
      BY <1>4, <1>8, <2>2 DEF Positions
    <3>2. ASSUME Proper PROVE next \in DirtyArea
      <4>1. turns \in 1..n /\ turns - 1 \in 0..turns /\ turns - 1 < turns
        BY <1>3, <2>2, TurnsFacts
      <4>2. Visited(n, turns - 1)
        BY <1>0, <1>1, <4>1, StartFacts, PathVisited
      <4>3. Path(n)[turns - 1] \in DirtyArea
        BY <3>2, <4>1, <4>2 DEF Visited
      <4>4. next = NextSegment(Path(n)[turns - 1])
        BY <4>1, PathSteps
      <4>5. next <= LastSegment
        BY <1>4, <1>8, <2>2
      <4> QED
        BY <1>1, <3>2, <4>3, <4>4, <4>5, NextInArea
    <3> QED
      BY <3>1, <3>2
  <2>3. done \/ turns = 0 \/ (turns # 0 /\ ~ (next > LastSegment))
    BY <1>3
  <2> QED
    BY <2>1, <2>2, <2>3
<1>12. done \in BOOLEAN
  OBVIOUS
<1>13. done => changed' = {}
  <2>1. ASSUME done, NEW s \in changed' PROVE FALSE
    <3>1. next > LastSegment
      BY <2>1
    <3>2. s \in Nat /\ ~ (s < next) /\ s <= LastSegment
      BY <1>6, <2>1
    <3> HIDE DEF next
    <3> QED
      BY <1>4, <1>8, <3>1, <3>2
  <2> QED
    BY <2>1
<1> HIDE DEF next, turns, done, given
<1>14. CASE done
  <2>1. isDirty' = FALSE /\ isLocked' = FALSE /\ dataPos' = POS_UNDEFINED /\ copied' = 0 /\ changed' = {}
    BY <1>0, <1>13, <1>14, Zenon
  <2>2. TypeOK'
    <3>1. 0 \in 0..Size
      BY <1>8
    <3> QED
      BY <1>1, <1>7, <1>10, <2>1, <3>1 DEF TypeOK, RectOK
  <2>3. DirtyCovers'
    BY <2>1 DEF DirtyCovers
  <2>4. CopyInv'
    BY <1>10, <2>1 DEF CopyInv
  <2> QED
    BY <1>7, <2>2, <2>3, <2>4
<1>15. CASE ~done
  <2>1. isDirty' = TRUE /\ isLocked' = TRUE /\ dataPos' = next /\ copied' = copied + turns
    BY <1>0, <1>12, <1>15, Zenon
  <2>2. next \in Positions /\ (Proper => next \in DirtyArea) /\ next # POS_UNDEFINED
    BY <1>11, <1>15, UndefinedOutside
  <2>3. copied + turns <= next /\ copied + turns \in 0..Size
    <3>1. next < Size
      BY <2>2, PositionBound
    <3> QED
      BY <1>2, <1>3, <1>4, <1>8, <3>1
  <2>4. TypeOK'
    BY <1>1, <1>7, <1>9, <1>10, <2>1, <2>2, <2>3 DEF TypeOK, RectOK
  <2>5. DirtyCovers'
    BY <1>9, <2>1 DEF DirtyCovers
  <2>6. \A s \in changed' : s >= next
    BY <1>4, <1>6
  <2>7. CopyInv'
    BY <1>9, <1>10, <2>1, <2>2, <2>3, <2>6, Zenon DEF CopyInv
  <2> QED
    BY <1>7, <2>4, <2>5, <2>7
<1> QED
  BY <1>14, <1>15

-----------------------------------------------------------------------------
(* The specification *)

IInv == TypeOK /\ DirtyCovers /\ CopyInv

LEMMA InitInv == Init => IInv
<1> SUFFICES ASSUME Init PROVE IInv
  OBVIOUS
<1>1. RectOK /\ x1 = 0 /\ y1 = 0 /\ x2 = MAX_X /\ y2 = MAX_Y_SEG /\ Size \in Nat
  BY Limits, SizeBound DEF Init, RectOK
<1>2. TypeOK
  <2>1. 0 \in 0..Size
    BY <1>1
  <2> QED
    BY <1>1, <2>1 DEF Init, TypeOK, RectOK
<1>3. CopyInv
  BY <1>1, Limits DEF Init, CopyInv, AreaInv
<1>4. DirtyCovers
  <2>1. Positions \subseteq DirtyArea
    <3> SUFFICES ASSUME NEW s \in Positions PROVE s \in DirtyArea
      OBVIOUS
    <3>1. s \in Nat /\ s < Size /\ Width \in Nat /\ Width > 0
      BY PositionBound, Limits
    <3> DEFINE r == s \div Width
               c == s % Width
    <3>2. r \in Nat /\ c \in 0..(Width - 1) /\ s = At(r, c)
      BY <3>1, Division DEF At
    <3> HIDE DEF r, c
    <3>3. ~ (r > Rows - 1)
      <4>1. Rows - 1 \in Nat /\ Width - 1 \in 0..(Width - 1)
        BY Limits
      <4>2. At(Rows - 1, Width - 1) = Size - 1
        BY Limits DEF At, Size
      <4>3. ASSUME r > Rows - 1 PROVE FALSE
        <5>1. At(Rows - 1, Width - 1) < At(r, c)
          BY <3>2, <4>1, <4>3, AtOrder
        <5> QED
          BY <1>1, <3>1, <3>2, <4>2, <5>1
      <4> QED
        BY <4>3
    <3>4. r \in y1..y2 /\ c \in x1..x2
      BY <1>1, <3>2, <3>3, Limits
    <3> QED
      BY <3>2, <3>4, RectangleAt DEF DirtyArea
  <2> QED
    BY <2>1 DEF Init, DirtyCovers
<1> QED
  BY <1>2, <1>3, <1>4 DEF IInv

(* Locking, unlocking and framebuffer_show touch the lock alone.           *)
LEMMA LockStep ==
    ASSUME IInv, Lock \/ Unlock \/ Show
    PROVE  IInv' /\ error' = error
<1>1. /\ UNCHANGED <<x1, y1, x2, y2, dataPos, error, isDirty, changed, copied>>
      /\ isLocked' = TRUE \/ (isLocked' = FALSE /\ dataPos = POS_UNDEFINED)
  BY DEF Lock, Unlock, Show, area
<1>2. DirtyArea' = DirtyArea /\ (Proper' <=> Proper) /\ (AreaInv' <=> AreaInv)
  BY <1>1 DEF DirtyArea, Rectangle, Proper, AreaInv
<1>3. isLocked' \in BOOLEAN
  BY <1>1
<1>4. TypeOK'
  BY <1>1, <1>3 DEF IInv, TypeOK
<1>5. DirtyCovers'
  BY <1>1, <1>2 DEF IInv, DirtyCovers
<1>6. CopyInv'
  <2>1. CASE dataPos = POS_UNDEFINED
    BY <1>1, <1>2, <2>1 DEF IInv, CopyInv
  <2>2. CASE dataPos # POS_UNDEFINED
    BY <1>1, <1>2, <2>2, Zenon DEF IInv, CopyInv
  <2> QED
    BY <2>1, <2>2
<1> QED
  BY <1>1, <1>4, <1>5, <1>6 DEF IInv

LEMMA StutterStep ==
    ASSUME IInv, UNCHANGED vars
    PROVE  IInv' /\ error' = error
<1>1. UNCHANGED <<x1, y1, x2, y2, dataPos, error, isLocked, isDirty, changed, copied>>
  BY DEF vars, area
<1>2. DirtyArea' = DirtyArea /\ (Proper' <=> Proper) /\ (AreaInv' <=> AreaInv)
  BY <1>1 DEF DirtyArea, Rectangle, Proper, AreaInv
<1>3. TypeOK'
  BY <1>1 DEF IInv, TypeOK
<1>4. DirtyCovers'
  BY <1>1, <1>2 DEF IInv, DirtyCovers
<1>5. CopyInv'
  BY <1>1, <1>2, Zenon DEF IInv, CopyInv
<1> QED
  BY <1>1, <1>3, <1>4, <1>5 DEF IInv

(* Every step keeps the invariant; only drawing without changing a segment *)
(* raises the error flag.                                                  *)
LEMMA StepInv ==
    ASSUME IInv, [Next]_vars
    PROVE  IInv' /\ (error' # error => changed' = changed /\ ~isLocked)
<1>1. TypeOK /\ DirtyCovers /\ CopyInv
  BY DEF IInv
<1>2. CASE \E xPos \in 0..MAX_X, yPos \in 0..MAX_Y : SetPixel(xPos, yPos)
  <2>1. PICK xPos \in 0..MAX_X, yPos \in 0..MAX_Y : SetPixel(xPos, yPos)
    BY <1>2
  <2>2. ~isLocked
    BY <2>1 DEF SetPixel
  <2> QED
    BY <1>1, <2>1, <2>2, SetPixelStep DEF IInv
<1>3. CASE \E place \in BlitPlaces, size \in BlitSizes :
               Blit(place[1], place[2], size[1], size[2])
  <2>1. PICK place \in BlitPlaces, size \in BlitSizes :
            Blit(place[1], place[2], size[1], size[2])
    BY <1>3
  <2>2. /\ place[1] \in -128..127 /\ place[2] \in -128..127
        /\ size[1] \in 0..255 /\ size[2] \in 0..255
    BY BlitAssumption
  <2>3. ~isLocked
    BY <2>1 DEF Blit
  <2>4. TypeOK' /\ DirtyCovers' /\ CopyInv' /\ (error' # error => changed' = changed)
    BY <1>1, <2>1, <2>2, BlitStep, Zenon
  <2> QED
    BY <2>3, <2>4 DEF IInv
<1>4. CASE Lock \/ Unlock \/ Show
  BY <1>4, LockStep
<1>5. CASE GetDirtyAreaBuffer
  BY <1>1, <1>5, PointerStep DEF IInv
<1>6. CASE \E n \in BufferLens : CopyDirtyArea(n)
  <2>1. PICK n \in BufferLens : CopyDirtyArea(n)
    BY <1>6
  <2>2. n \in Nat
    BY LengthAssumption
  <2> QED
    BY <1>1, <2>1, <2>2, CopyStep DEF IInv
<1>7. CASE UNCHANGED vars
  BY <1>7, StutterStep
<1> QED
  BY <1>2, <1>3, <1>4, <1>5, <1>6, <1>7 DEF Next

LEMMA Inductive == Spec => []IInv
<1>1. IInv /\ [Next]_vars => IInv'
  BY StepInv
<1> QED
  BY InitInv, <1>1, PTL DEF Spec

(* Every variable keeps its type, and the rectangle stays in the           *)
(* framebuffer whatever updateDirtyArea is given.                          *)
THEOREM Typed == Spec => []TypeOK
<1>1. IInv => TypeOK
  BY DEF IInv
<1> QED
  BY <1>1, Inductive, PTL

(* No segment that was written and not handed over is outside the dirty    *)
(* rectangle.                                                              *)
THEOREM Covered == Spec => []DirtyCovers
<1>1. IInv => DirtyCovers
  BY DEF IInv
<1> QED
  BY <1>1, Inductive, PTL

(* A copy that is under way goes on in the dirty rectangle and has left    *)
(* nothing out before its position.                                        *)
THEOREM NoneLeftBehind == Spec => []CopyInv
<1>1. IInv => CopyInv
  BY DEF IInv
<1> QED
  BY <1>1, Inductive, PTL

(* The buffer of framebuffer_getDirtyAreaBuffer contains the dirty         *)
(* rectangle, whatever has been drawn, and lies in the framebuffer unless  *)
(* a blit without pixels crossed the rows and nothing else was drawn.      *)
THEOREM Whole == Spec => WholeHandedOver
<1>1. IInv /\ [Next]_vars =>
        [GetDirtyAreaBuffer /\ isDirty =>
            /\ DirtyArea \subseteq DirtyBuffer
            /\ DirtyBuffer \subseteq Positions \/ (y1 > y2 /\ changed = {})]_vars
  <2>1. IInv => RectOK /\ DirtyCovers
    BY DEF IInv, TypeOK, RectOK
  <2> QED
    BY <2>1, BufferHandedOver
<1> QED
  BY <1>1, Inductive, PTL DEF Spec, WholeHandedOver

(* Only a blit without pixels is refused by updateDirtyArea, and the copy  *)
(* never raises the error flag.                                            *)
THEOREM ErrorForEmpty == Spec => ErrorOnlyForEmpty
<1>1. IInv /\ [Next]_vars => [error' # error => changed' = changed /\ ~isLocked]_vars
  BY StepInv
<1> QED
  BY <1>1, Inductive, PTL DEF Spec, ErrorOnlyForEmpty
=============================================================================
