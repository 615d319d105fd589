----------------------- MODULE FramebufferCopyProofs ------------------------
(***************************************************************************)
(* Proof that the pieces framebuffer_copyDirtyArea hands over, put one     *)
(* behind the other, are the dirty rectangle row by row: each segment once *)
(* and none left out, whatever the lengths of the caller's buffers.        *)
(***************************************************************************)
EXTENDS FramebufferProofs

(* The number of columns and of segments of the dirty rectangle. *)
Columns == x2 - x1 + 1
Count   == Columns * (y2 - y1 + 1)

(* pos is dirty segment number k, counted from 0. *)
TileAt(pos, k) ==
    \E row \in y1..y2, col \in x1..x2 :
        pos = At(row, col) /\ k = (row - y1) * Columns + (col - x1)

(* A copy under way is at the segment behind those it has handed over. *)
TileInv == Proper /\ dataPos # POS_UNDEFINED => TileAt(dataPos, copied)

-----------------------------------------------------------------------------
(* Segments and their numbers *)

(* A quotient and a remainder are determined by the number they make up.   *)
LEMMA QuotientUnique ==
    ASSUME NEW w \in Nat, w > 0, NEW q \in Nat, NEW m \in 0..(w - 1)
    PROVE  (q * w + m) \div w = q /\ (q * w + m) % w = m
<1> DEFINE a == q * w + m
<1>0. q * w \in Nat /\ a \in Nat /\ a = q * w + m
  OBVIOUS
<1> HIDE DEF a
<1> DEFINE d == a \div w
           r == a % w
<1>1. d \in Nat /\ r \in 0..(w - 1) /\ a = w * d + r
  BY <1>0, Division
<1> HIDE DEF d, r
<1>2. w * d = d * w /\ d * w \in Nat
  BY <1>1
<1>3. ~ (d < q)
  <2>1. ASSUME d < q PROVE FALSE
    <3>1. PICK e \in Nat : q = (d + 1) + e
      <4>1. q - (d + 1) \in Nat /\ q = (d + 1) + (q - (d + 1))
        BY <1>1, <2>1
      <4> QED
        BY <4>1
    <3>2. q * w = d * w + w + e * w /\ e * w \in Nat
      BY <1>1, <3>1
    <3> QED
      BY <1>0, <1>1, <1>2, <3>2
  <2> QED
    BY <2>1
<1>4. ~ (q < d)
  <2>1. ASSUME q < d PROVE FALSE
    <3>1. PICK e \in Nat : d = (q + 1) + e
      <4>1. d - (q + 1) \in Nat /\ d = (q + 1) + (d - (q + 1))
        BY <1>1, <2>1
      <4> QED
        BY <4>1
    <3>2. d * w = q * w + w + e * w /\ e * w \in Nat
      BY <1>1, <3>1
    <3> QED
      BY <1>0, <1>1, <1>2, <3>2
  <2> QED
    BY <2>1
<1>5. d = q
  BY <1>1, <1>3, <1>4
<1>6. r = m
  BY <1>0, <1>1, <1>2, <1>5
<1> QED
  BY <1>0, <1>5, <1>6 DEF d, r, a

LEMMA Box ==
    ASSUME RectOK, Proper
    PROVE  /\ x1 \in 0..(Width - 1) /\ x2 \in 0..(Width - 1) /\ x1 <= x2
           /\ y1 \in 0..(Rows - 1) /\ y2 \in 0..(Rows - 1) /\ y1 <= y2
           /\ Width \in Nat /\ Rows \in Nat /\ AreaInv
           /\ Columns \in Nat /\ Columns > 0 /\ Count \in Nat /\ Count > 0
<1>1. /\ x1 \in 0..(Width - 1) /\ x2 \in 0..(Width - 1) /\ x1 <= x2
      /\ y1 \in 0..(Rows - 1) /\ y2 \in 0..(Rows - 1) /\ y1 <= y2
      /\ Width \in Nat /\ Rows \in Nat
  BY Limits DEF RectOK, Proper
<1>2. Columns \in Nat /\ Columns > 0
  BY <1>1 DEF Columns
<1>3. PICK h \in Nat : h = y2 - y1 /\ y2 - y1 + 1 = h + 1
  BY <1>1
<1>4. Columns * (h + 1) = Columns * h + Columns /\ Columns * h \in Nat
  BY <1>2, <1>3
<1>5. Count = Columns * h + Columns
  BY <1>3, <1>4 DEF Count
<1> QED
  BY <1>1, <1>2, <1>4, <1>5 DEF AreaInv

(* The number of a dirty segment, and its place in Tiles.                  *)
LEMMA TileNumber ==
    ASSUME RectOK, Proper, NEW pos, NEW k, TileAt(pos, k)
    PROVE  k \in Nat /\ k < Count /\ Len(Tiles) = Count /\ Tiles[k + 1] = pos
<1>1. PICK row \in y1..y2, col \in x1..x2 :
          pos = At(row, col) /\ k = (row - y1) * Columns + (col - x1)
  BY DEF TileAt
<1> DEFINE q == row - y1
           m == col - x1
           h == y2 - y1
<1>2. q \in Nat /\ q <= h /\ h \in Nat /\ m \in 0..(Columns - 1) /\ row = y1 + q /\ col = x1 + m
  BY Box, <1>1 DEF Columns
<1>3. k = q * Columns + m /\ Count = Columns * (h + 1)
  BY <1>1 DEF Count
<1> HIDE DEF q, m, h
<1>4. PICK e \in Nat : h = q + e
  <2>1. h - q \in Nat /\ h = q + (h - q)
    BY <1>2
  <2> QED
    BY <2>1
<1>5. /\ Columns * (h + 1) = q * Columns + e * Columns + Columns
      /\ q * Columns \in Nat /\ e * Columns \in Nat
  BY Box, <1>2, <1>4
<1>6. k \in Nat /\ k < Count
  BY Box, <1>2, <1>3, <1>5
<1>7. k \div Columns = q /\ k % Columns = m
  BY Box, <1>2, <1>3, QuotientUnique
<1>8. Tiles = [i \in 1..Count |-> (y1 + ((i - 1) \div Columns)) * Width + x1 + ((i - 1) % Columns)]
  BY DEF Tiles, Columns, Count
<1>9. Len(Tiles) = Count
  BY Box, <1>8
<1>10. Tiles[k + 1] = (y1 + (k \div Columns)) * Width + x1 + (k % Columns)
  <2>1. k + 1 \in 1..Count /\ (k + 1) - 1 = k
    BY Box, <1>6
  <2> QED
    BY <1>8, <2>1
<1>11. Tiles[k + 1] = pos
  <2>1. Tiles[k + 1] = row * Width + x1 + m
    BY <1>2, <1>7, <1>10
  <2>2. row * Width \in Nat
    BY Box, <1>2
  <2>3. row * Width + x1 + m = row * Width + col
    BY Box, <1>2, <2>2
  <2> QED
    BY <1>1, <2>1, <2>3 DEF At
<1> QED
  BY <1>6, <1>9, <1>11

(* Every number below Count is that of a dirty segment.                    *)
LEMMA TileOf ==
    ASSUME RectOK, Proper, NEW k \in Nat, k < Count
    PROVE  TileAt(Tiles[k + 1], k)
<1> DEFINE q == k \div Columns
           m == k % Columns
<1>1. PICK h \in Nat : h = y2 - y1
  BY Box
<1>2. Count = Columns * (h + 1)
  BY <1>1 DEF Count
<1>3. q \in Nat /\ m \in 0..(Columns - 1) /\ k = Columns * q + m
  BY Box, Division
<1>4. Tiles[k + 1] = (y1 + q) * Width + x1 + m
  <2>1. Tiles = [i \in 1..Count |-> (y1 + ((i - 1) \div Columns)) * Width + x1 + ((i - 1) % Columns)]
    BY DEF Tiles, Columns, Count
  <2>2. k + 1 \in 1..Count /\ (k + 1) - 1 = k
    BY Box
  <2> QED
    BY <2>1, <2>2
<1> HIDE DEF q, m
<1>5. q <= h
  <2>1. ASSUME h < q PROVE FALSE
    <3>1. PICK e \in Nat : q = (h + 1) + e
      <4>1. q - (h + 1) \in Nat /\ q = (h + 1) + (q - (h + 1))
        BY <1>1, <1>3, <2>1
      <4> QED
        BY <4>1
    <3>2. /\ Columns * q = Columns * (h + 1) + Columns * e
          /\ Columns * e \in Nat /\ Columns * (h + 1) \in Nat
      BY Box, <1>1, <3>1
    <3> QED
      BY <1>2, <1>3, <3>2
  <2> QED
    BY <1>1, <1>3, <2>1
<1> DEFINE row == y1 + q
           col == x1 + m
<1>6. row \in y1..y2 /\ col \in x1..x2 /\ row - y1 = q /\ col - x1 = m /\ row \in Nat
  <2>1. y1 \in Nat /\ y2 \in Nat /\ y1 + h = y2 /\ x1 \in Nat /\ x2 \in Nat
    BY Box, <1>1
  <2>2. row \in y1..y2 /\ row - y1 = q /\ row \in Nat
    BY <1>3, <1>5, <2>1
  <2>3. col \in x1..x2 /\ col - x1 = m
    BY <1>3, <2>1 DEF Columns
  <2> QED
    BY <2>2, <2>3
<1>7. k = (row - y1) * Columns + (col - x1)
  <2>1. Columns * q = q * Columns
    BY Box, <1>3
  <2> HIDE DEF row, col
  <2> QED
    BY <1>3, <1>6, <2>1
<1>8. Tiles[k + 1] = At(row, col)
  <2>1. row * Width \in Nat
    BY Box, <1>6
  <2>2. row * Width + x1 + m = row * Width + col
    BY Box, <1>3, <2>1
  <2> QED
    BY <1>4, <2>2 DEF At
<1> HIDE DEF row, col
<1> QED
  BY <1>6, <1>7, <1>8 DEF TileAt

(* A segment with a smaller number lies in front of one with a larger.     *)
LEMMA TileOrder ==
    ASSUME RectOK, Proper, NEW p1, NEW p2, NEW k1, NEW k2, TileAt(p1, k1), TileAt(p2, k2), k1 < k2
    PROVE  p1 \in Nat /\ p2 \in Nat /\ p1 < p2
<1>1. PICK r1 \in y1..y2, c1 \in x1..x2 : p1 = At(r1, c1) /\ k1 = (r1 - y1) * Columns + (c1 - x1)
  BY DEF TileAt
<1>2. PICK r2 \in y1..y2, c2 \in x1..x2 : p2 = At(r2, c2) /\ k2 = (r2 - y1) * Columns + (c2 - x1)
  BY DEF TileAt
<1>3. /\ r1 \in Nat /\ r2 \in Nat /\ c1 \in 0..(Width - 1) /\ c2 \in 0..(Width - 1)
      /\ x1 <= c1 /\ x1 <= c2 /\ c1 <= x2 /\ c2 <= x2 /\ x1 \in Nat /\ x2 \in Nat
  BY Box
<1>4. PICK q1 \in Nat, q2 \in Nat : q1 = r1 - y1 /\ q2 = r2 - y1
  BY Box
<1>5. /\ k1 = q1 * Columns + (c1 - x1) /\ k2 = q2 * Columns + (c2 - x1)
      /\ q1 * Columns \in Nat /\ q2 * Columns \in Nat
  BY Box, <1>1, <1>2, <1>4
<1>6. ~ (r2 < r1)
  <2>1. ASSUME r2 < r1 PROVE FALSE
    <3>1. PICK e \in Nat : q1 = (q2 + 1) + e
      <4>1. q1 - (q2 + 1) \in Nat /\ q1 = (q2 + 1) + (q1 - (q2 + 1))
        BY Box, <1>3, <1>4, <2>1
      <4> QED
        BY <4>1
    <3>2. q1 * Columns = q2 * Columns + Columns + e * Columns /\ e * Columns \in Nat
      BY Box, <1>4, <3>1
    <3>3. k2 < k1
      BY <1>3, <1>5, <3>2 DEF Columns
    <3> QED
      BY <3>3, TileNumber
  <2> QED
    BY <2>1
<1>7. p1 \in Nat /\ p2 \in Nat
  BY <1>1, <1>2, <1>3, AtOrder
<1>8. CASE r1 < r2
  BY <1>1, <1>2, <1>3, <1>7, <1>8, AtOrder
<1>9. CASE r1 = r2
  <2>1. q1 * Columns = q2 * Columns
    BY <1>4, <1>9
  <2>2. ~ (c2 <= c1)
    BY <1>3, <1>5, <2>1
  <2>3. ~ (At(r2, c2) <= At(r1, c1))
    BY <1>3, <1>9, <2>2, AtOrder
  <2> QED
    BY <1>1, <1>2, <1>7, <2>3
<1> QED
  BY <1>3, <1>6, <1>7, <1>8, <1>9

(* The order in which CopyTiles wants the segments is the dirty rectangle  *)
(* from front to back: each of its segments once, and nothing else.        *)
THEOREM TilesOnce ==
    ASSUME RectOK, Proper
    PROVE  /\ {Tiles[i] : i \in 1..Len(Tiles)} = DirtyArea
           /\ \A i, j \in 1..Len(Tiles) : i < j => Tiles[i] < Tiles[j]
<1>1. Len(Tiles) = Count
  <2>1. Tiles = [i \in 1..Count |-> (y1 + ((i - 1) \div Columns)) * Width + x1 + ((i - 1) % Columns)]
    BY DEF Tiles, Columns, Count
  <2> QED
    BY Box, <2>1
<1>2. \A i \in 1..Count : TileAt(Tiles[i], i - 1)
  <2> SUFFICES ASSUME NEW i \in 1..Count PROVE TileAt(Tiles[i], i - 1)
    OBVIOUS
  <2>1. i - 1 \in Nat /\ i - 1 < Count /\ (i - 1) + 1 = i
    BY Box
  <2>2. TileAt(Tiles[(i - 1) + 1], i - 1)
    BY <2>1, TileOf
  <2> QED
    BY <2>1, <2>2
<1>3. DirtyArea = {At(row, col) : row \in y1..y2, col \in x1..x2}
  BY RectangleAt DEF DirtyArea
<1>4. ASSUME NEW i \in 1..Count PROVE Tiles[i] \in DirtyArea
  BY <1>2, <1>3 DEF TileAt
<1>5. ASSUME NEW s \in DirtyArea PROVE \E i \in 1..Count : s = Tiles[i]
  <2>1. PICK row \in y1..y2, col \in x1..x2 : s = At(row, col)
    BY <1>3
  <2> DEFINE k == (row - y1) * Columns + (col - x1)
  <2>2. TileAt(s, k)
    BY <2>1 DEF TileAt
  <2> HIDE DEF k
  <2>3. k \in Nat /\ k < Count /\ Tiles[k + 1] = s
    BY <2>2, TileNumber
  <2>4. k + 1 \in 1..Count
    BY Box, <2>3
  <2> QED
    BY <2>3, <2>4
<1>6. ASSUME NEW i \in 1..Count, NEW j \in 1..Count, i < j PROVE Tiles[i] < Tiles[j]
  <2>1. i - 1 < j - 1
    BY Box, <1>6
  <2> QED
    BY <1>2, <2>1, TileOrder
<1> QED
  BY <1>1, <1>4, <1>5, <1>6

(* From one dirty segment the copy goes to the one with the next number;   *)
(* it leaves the rectangle behind the last one and not before.             *)
LEMMA NextTile ==
    ASSUME RectOK, Proper, NEW pos, NEW k, TileAt(pos, k)
    PROVE  /\ NextSegment(pos) > LastSegment <=> k + 1 = Count
           /\ ~ (NextSegment(pos) > LastSegment) => TileAt(NextSegment(pos), k + 1)
<1>1. PICK row \in y1..y2, col \in x1..x2 :
          pos = At(row, col) /\ k = (row - y1) * Columns + (col - x1)
  BY DEF TileAt
<1>2. /\ row \in 0..(Rows - 1) /\ col \in 0..(Width - 1) /\ row \in Nat /\ col \in Nat
      /\ row <= y2 /\ col <= x2 /\ y1 <= row /\ x1 <= col
  BY Box, <1>1
<1>3. pos \in Positions /\ pos % Width = col /\ pos \in Nat
  BY <1>1, <1>2, AtInside, AtMod, Limits, PositionBound
<1>4. LastSegment = At(y2, x2)
  BY Box, FirstLast
<1>5. PICK q \in Nat : q = row - y1
  BY Box, <1>2
<1>6. PICK h \in Nat : h = y2 - y1
  BY Box
<1>7. k = q * Columns + (col - x1) /\ q * Columns \in Nat
  BY Box, <1>1, <1>5
<1>8. Count = Columns * (h + 1)
  BY <1>6 DEF Count
<1>9. (q + 1) * Columns = q * Columns + Columns
  BY Box, <1>5
<1>0. /\ y2 \in Nat /\ x1 \in 0..(Width - 1) /\ x2 \in 0..(Width - 1)
      /\ row + 1 \in Nat /\ row <= y2
  BY Box, <1>2
<1>10. CASE col # x2
  <2>1. NextSegment(pos) = At(row, col + 1)
    BY Box, <1>1, <1>2, <1>3, <1>10, NextBehind, AtNext
  <2>2. col + 1 \in x1..x2 /\ col + 1 \in 0..(Width - 1)
    BY Box, <1>2, <1>10
  <2>3. ~ (At(row, col + 1) > At(y2, x2))
    <3>1. At(row, col + 1) \in Nat /\ At(y2, x2) \in Nat
      BY <1>0, <1>2, <2>2, AtOrder
    <3>2. row < y2 => At(row, col + 1) < At(y2, x2)
      BY <1>0, <1>2, <2>2, AtOrder
    <3>3. row = y2 => At(row, col + 1) <= At(y2, x2)
      BY <1>0, <1>2, <2>2, AtOrder
    <3> QED
      BY Box, <1>2, <3>1, <3>2, <3>3
  <2>4. k + 1 = (row - y1) * Columns + ((col + 1) - x1)
    <3>1. k + 1 = q * Columns + ((col + 1) - x1)
      BY Box, <1>2, <1>7
    <3> QED
      BY <1>5, <3>1
  <2>5. TileAt(NextSegment(pos), k + 1)
    BY <1>1, <2>1, <2>2, <2>4 DEF TileAt
  <2>6. k + 1 # Count
    BY <2>5, TileNumber, Box
  <2> QED
    BY <1>4, <2>1, <2>3, <2>5, <2>6
<1>11. CASE col = x2
  <2>1. NextSegment(pos) = At(row + 1, x1)
    <3>1. NextSegment(pos) = pos + (Width - (x2 - x1 + 1)) + 1
      BY Box, <1>3, <1>11, NextBehind
    <3>2. At(row + 1, x1) = pos + Width - x2 + x1
      BY Box, <1>1, <1>2, <1>11, AtNext
    <3> QED
      BY Box, <1>3, <3>1, <3>2
  <2>2. k + 1 = (q + 1) * Columns
    BY Box, <1>7, <1>9, <1>11 DEF Columns
  <2>3. At(row + 1, x1) \in Nat /\ At(y2, x2) \in Nat
    BY <1>0, <1>2, AtOrder
  <2>4. CASE row = y2
    <3>1. k + 1 = Count
      BY Box, <1>5, <1>6, <1>8, <2>2, <2>4
    <3>2. At(row + 1, x1) > At(y2, x2)
      BY Box, <1>2, <2>3, <2>4, AtOrder
    <3> QED
      BY <1>4, <2>1, <3>1, <3>2
  <2>5. CASE row # y2
    <3>1. row + 1 \in y1..y2 /\ x1 \in x1..x2 /\ row + 1 \in Nat
      BY Box, <1>2, <2>5
    <3>2. ~ (At(row + 1, x1) > At(y2, x2))
      <4>1. row + 1 < y2 => At(row + 1, x1) < At(y2, x2)
        BY Box, <3>1, AtOrder
      <4>2. row + 1 = y2 => At(row + 1, x1) <= At(y2, x2)
        BY Box, <3>1, AtOrder
      <4> QED
        BY Box, <2>3, <3>1, <4>1, <4>2
    <3>3. k + 1 = ((row + 1) - y1) * Columns + (x1 - x1)
      <4>1. (row + 1) - y1 = q + 1 /\ x1 - x1 = 0
        BY Box, <1>2, <1>5
      <4>2. (q + 1) * Columns \in Nat
        BY Box, <1>5
      <4> QED
        BY <2>2, <4>1, <4>2
    <3>4. TileAt(NextSegment(pos), k + 1)
      BY <2>1, <3>1, <3>3 DEF TileAt
    <3>5. k + 1 # Count
      BY <3>4, TileNumber, Box
    <3> QED
      BY <1>4, <2>1, <3>2, <3>4, <3>5
  <2> QED
    BY <2>4, <2>5
<1> QED
  BY <1>10, <1>11

-----------------------------------------------------------------------------
(* A call of the copy *)

(* Turn k of the loop copies the segment k behind the one it began at.     *)
LEMMA PathTiles ==
    ASSUME RectOK, Proper, NEW c, TileAt(CopyStart, c), NEW n \in Nat
    PROVE  \A k \in 0..(Turns(n) - 1) : TileAt(Path(n)[k], c + k)
<1> DEFINE Bad == {k \in 0..(Turns(n) - 1) : ~TileAt(Path(n)[k], c + k)}
<1>0. Turns(n) \in 0..n /\ Turns(n) \in Nat /\ c \in Nat
  BY TurnsFacts, TileNumber
<1>1. Bad \in SUBSET Nat
  BY <1>0
<1>2. ASSUME NEW s \in Bad PROVE FALSE
  <2>1. PICK m \in Bad : \A j \in Bad : m <= j
    <3> HIDE DEF Bad
    <3> QED
      BY <1>1, <1>2, LeastElement
  <2>2. m \in 0..(Turns(n) - 1) /\ ~TileAt(Path(n)[m], c + m)
    BY <1>0
  <2>3. m # 0
    <3>1. Path(n)[0] = CopyStart /\ c + 0 = c
      BY <1>0, PathSteps
    <3> QED
      BY <2>2, <3>1
  <2>4. m - 1 \in 0..(Turns(n) - 1) /\ m \in 1..n /\ m \in 1..(Turns(n) - 1) /\ ~ (m <= m - 1)
    BY <1>0, <2>2, <2>3
  <2>5. TileAt(Path(n)[m - 1], c + (m - 1))
    <3>1. m - 1 \notin Bad
      BY <2>1, <2>4
    <3> QED
      BY <2>4, <3>1
  <2>6. Path(n)[m] = NextSegment(Path(n)[m - 1]) /\ ~ (Path(n)[m] > LastSegment)
    BY <2>4, PathSteps, TurnsFacts
  <2>7. TileAt(Path(n)[m], (c + (m - 1)) + 1)
    BY <2>5, <2>6, NextTile
  <2>8. (c + (m - 1)) + 1 = c + m
    BY <1>0, <2>4
  <2> QED
    BY <2>2, <2>7, <2>8
<1> QED
  BY <1>2

(* Where a call of the copy begins. *)
LEMMA StartTile ==
    ASSUME IInv, TileInv, Proper, isDirty
    PROVE  RectOK /\ TileAt(CopyStart, copied)
<1>1. RectOK
  BY DEF IInv, TypeOK, RectOK
<1>2. CASE dataPos = POS_UNDEFINED
  <2>1. copied = 0
    BY <1>2 DEF IInv, CopyInv
  <2>2. CopyStart = At(y1, x1)
    <3>1. CopyStart = FirstSegment + x1 /\ FirstSegment = y1 * Width
      BY <1>2 DEF CopyStart, FirstSegment
    <3> QED
      BY <3>1 DEF At
  <2>3. y1 \in y1..y2 /\ x1 \in x1..x2 /\ (y1 - y1) * Columns + (x1 - x1) = 0
    BY Box, <1>1
  <2> QED
    BY <1>1, <2>1, <2>2, <2>3 DEF TileAt
<1>3. CASE dataPos # POS_UNDEFINED
  BY <1>1, <1>3 DEF TileInv, CopyStart
<1> QED
  BY <1>2, <1>3

(* The piece is the next part of the tiles; the copy is over when none is  *)
(* left, and otherwise stands at the next one.                             *)
LEMMA CopyTileStep ==
    ASSUME IInv, TileInv, Proper, NEW n \in BufferLens, CopyDirtyArea(n)
    PROVE  /\ Piece(n) = SubSeq(Tiles, copied + 1, copied + Len(Piece(n)))
           /\ ~isDirty' <=> copied + Len(Piece(n)) = Len(Tiles)
           /\ dataPos' # POS_UNDEFINED => TileAt(dataPos', copied')
<1> DEFINE turns == Turns(n)
           next  == Path(n)[turns]
           done  == turns > 0 /\ next > LastSegment
<1>1. /\ isDirty /\ isDirty' = ~done
      /\ dataPos' = IF done THEN POS_UNDEFINED ELSE next
      /\ copied' = IF done THEN 0 ELSE copied + turns
  BY DEF CopyDirtyArea
<1>2. n \in Nat /\ turns \in Nat /\ turns \in 0..n
  BY LengthAssumption, TurnsFacts
<1>3. RectOK /\ TileAt(CopyStart, copied)
  BY <1>1, StartTile
<1>4. copied \in Nat /\ copied < Count /\ Len(Tiles) = Count /\ Count \in Nat
  BY <1>3, TileNumber, Box
<1>5. \A k \in 0..(turns - 1) : TileAt(Path(n)[k], copied + k)
  BY <1>2, <1>3, PathTiles
<1>6. Piece(n) = [k \in 1..turns |-> Path(n)[k - 1]] /\ Len(Piece(n)) = turns
  BY <1>2 DEF Piece
<1>7. \A k \in 1..turns : Path(n)[k - 1] = Tiles[copied + k]
  <2> SUFFICES ASSUME NEW k \in 1..turns PROVE Path(n)[k - 1] = Tiles[copied + k]
    OBVIOUS
  <2>1. k - 1 \in 0..(turns - 1) /\ (copied + (k - 1)) + 1 = copied + k
    BY <1>2, <1>4
  <2>2. TileAt(Path(n)[k - 1], copied + (k - 1))
    BY <1>5, <2>1
  <2> QED
    BY <1>3, <2>1, <2>2, TileNumber
<1>8. Piece(n) = SubSeq(Tiles, copied + 1, copied + Len(Piece(n)))
  <2>1. SubSeq(Tiles, copied + 1, copied + turns) = [k \in 1..turns |-> Tiles[copied + k]]
    <3>1. 1 + (copied + turns) - (copied + 1) = turns
      BY <1>2, <1>4
    <3>2. \A k \in 1..turns : k + (copied + 1) - 1 = copied + k
      BY <1>2, <1>4
    <3> HIDE DEF turns
    <3> QED
      BY <1>2, <1>4, <3>1, <3>2 DEF SubSeq
  <2> HIDE DEF turns
  <2> QED
    BY <1>6, <1>7, <2>1
<1>9. CASE turns = 0
  <2>1. next = CopyStart
    BY <1>2, <1>9, PathSteps
  <2>2. ~done
    BY <1>9
  <2>6. copied + turns = copied
    BY <1>4, <1>9
  <2> HIDE DEF turns, next, done
  <2>3. isDirty' /\ dataPos' = next /\ copied' = copied + turns
    BY <1>1, <2>2, Zenon
  <2>4. copied + Len(Piece(n)) = copied /\ copied # Len(Tiles)
    <3>1. copied + Len(Piece(n)) = copied
      BY <1>6, <2>6
    <3>2. copied # Len(Tiles)
      BY <1>4
    <3> QED
      BY <3>1, <3>2
  <2>5. TileAt(dataPos', copied')
    BY <1>3, <2>1, <2>3, <2>6
  <2> QED
    BY <1>8, <2>3, <2>4, <2>5, Zenon
<1>10. CASE turns # 0
  <2>1. turns - 1 \in 0..(turns - 1) /\ turns \in 1..n /\ (copied + (turns - 1)) + 1 = copied + turns
    BY <1>2, <1>4, <1>10
  <2>2. next = NextSegment(Path(n)[turns - 1])
    BY <1>2, <2>1, PathSteps
  <2>3. TileAt(Path(n)[turns - 1], copied + (turns - 1))
    BY <1>5, <2>1
  <2>4. next > LastSegment <=> copied + turns = Count
    BY <1>3, <2>1, <2>2, <2>3, NextTile
  <2>5. ~ (next > LastSegment) => TileAt(next, copied + turns)
    BY <1>3, <2>1, <2>2, <2>3, NextTile
  <2>6. done <=> next > LastSegment
    BY <1>2, <1>10
  <2> HIDE DEF turns, next, done
  <2> QED
    BY <1>1, <1>4, <1>6, <1>8, <2>4, <2>5, <2>6
<1> QED
  BY <1>9, <1>10

-----------------------------------------------------------------------------
(* The specification *)

LEMMA TileInit == Init => TileInv
BY DEF Init, TileInv

LEMMA TileStep ==
    ASSUME IInv, TileInv, [Next]_vars
    PROVE  TileInv'
<1>1. CASE \E n \in BufferLens : CopyDirtyArea(n)
  <2>1. PICK n \in BufferLens : CopyDirtyArea(n)
    BY <1>1
  <2>2. UNCHANGED <<x1, y1, x2, y2>>
    BY <2>1 DEF CopyDirtyArea, area
  <2> SUFFICES ASSUME Proper', dataPos' # POS_UNDEFINED' PROVE TileAt(dataPos, copied)'
    BY DEF TileInv
  <2>3. Proper /\ dataPos' # POS_UNDEFINED
    BY <2>2 DEF Proper, POS_UNDEFINED
  <2>4. TileAt(dataPos', copied')
    BY <2>1, <2>3, CopyTileStep
  <2> QED
    BY <2>2, <2>4 DEF TileAt, Columns, At
<1>2. ASSUME \/ Lock \/ Unlock \/ Show
             \/ GetDirtyAreaBuffer
             \/ UNCHANGED vars
      PROVE  TileInv'
  <2>1. UNCHANGED <<x1, y1, x2, y2, dataPos, copied>>
    BY <1>2 DEF Lock, Unlock, Show, GetDirtyAreaBuffer, vars, area
  <2> QED
    BY <2>1 DEF TileInv, TileAt, Proper, POS_UNDEFINED, Columns, At
<1>3. ASSUME \/ \E xPos \in 0..MAX_X, yPos \in 0..MAX_Y : SetPixel(xPos, yPos)
             \/ \E place \in BlitPlaces, size \in BlitSizes :
                    Blit(place[1], place[2], size[1], size[2])
      PROVE  TileInv'
  <2>1. ~isLocked /\ dataPos' = dataPos
    BY <1>3 DEF SetPixel, Blit
  <2>2. dataPos = POS_UNDEFINED
    BY <2>1 DEF IInv, CopyInv
  <2> QED
    BY <2>1, <2>2 DEF TileInv, POS_UNDEFINED
<1> QED
  BY <1>1, <1>2, <1>3 DEF Next

LEMMA TileInductive == Spec => [](IInv /\ TileInv)
<1>1. IInv /\ TileInv /\ [Next]_vars => (IInv /\ TileInv)'
  BY StepInv, TileStep
<1>2. Init => IInv /\ TileInv
  BY InitInv, TileInit
<1> QED
  BY <1>1, <1>2, PTL DEF Spec

(* Between two calls of framebuffer_copyDirtyArea its position is the      *)
(* dirty segment behind those handed over, and there is one left.          *)
THEOREM AtTheNextTile == Spec => []TileInv
BY TileInductive, PTL

(* The pieces handed over, one behind the other, are the dirty segments    *)
(* row by row, and the last call is the one that completes them.           *)
THEOREM Tiled == Spec => CopyTiles
<1>1. IInv /\ TileInv /\ [Next]_vars =>
        [\A n \in BufferLens : CopyDirtyArea(n) /\ Proper =>
            /\ Piece(n) = SubSeq(Tiles, copied + 1, copied + Len(Piece(n)))
            /\ ~isDirty' <=> copied + Len(Piece(n)) = Len(Tiles)]_vars
  BY CopyTileStep
<1> QED
  BY <1>1, TileInductive, PTL DEF Spec, CopyTiles
=============================================================================
